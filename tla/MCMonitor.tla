------------------------------- MODULE MCMonitor -------------------------------
(* Instances of Monitor for TLC: timers that may pick any envelope, and a      *)
(* script whose timers pick one each.                                          *)
EXTENDS Monitor

AnyEnvelope == [t \in Timers |-> Ids]
OneEach == "t1" :> {"e1"} @@ "t2" :> {"e2"}
=============================================================================
