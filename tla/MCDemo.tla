--------------------------------- MODULE MCDemo ---------------------------------
(***************************************************************************)
(* What is run for an audience, for TLC: scut-monitor by itself, the       *)
(* stream of bytes that feeds it, the demo with the first three of its     *)
(* scenarios, or the generator of its keys.  They meet in a relay and in   *)
(* files only, which each module describes for itself, so that one of the  *)
(* four runs and the others stay as they are.                              *)
(***************************************************************************)
EXTENDS MCMonitor, EventStream, Demo, Keygen

FirstThree == SubSeq(SCENARIOS, 1, 3)

MonitorUnused == held = {} /\ arrivals = 0 /\ live
StreamUnused == published = <<>> /\ \A c \in Connections : connection[c] = "new"
DemoUnused == main = "off" /\ mode = "on-chain"
KeygenUnused == run = 0

ShowInit == Init /\ StreamInit /\ DemoInit /\ DrawInit
ShowNext ==
  \/ /\ StreamUnused /\ DemoUnused /\ KeygenUnused
     /\ Next
     /\ UNCHANGED <<streamVars, demoVars, drawn>>
  \/ /\ MonitorUnused /\ DemoUnused /\ KeygenUnused
     /\ StreamNext
     /\ UNCHANGED <<vars, demoVars, drawn>>
  \/ /\ MonitorUnused /\ StreamUnused /\ KeygenUnused
     /\ DemoNext
     /\ UNCHANGED <<vars, streamVars, drawn>>
  \/ /\ MonitorUnused /\ StreamUnused /\ DemoUnused
     /\ DrawNext
     /\ UNCHANGED <<vars, streamVars, demoVars>>
ShowSpec ==
  /\ ShowInit /\ [][ShowNext]_<<vars, streamVars, demoVars, drawn>>
  /\ Fairness /\ DemoFairness
=============================================================================
