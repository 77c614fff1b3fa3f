----------------------------- MODULE MCCommandLine -----------------------------
(***************************************************************************)
(* The scut command for TLC: what its processes do to the files they share *)
(* (CommandLine), or what becomes of the letters they write and read       *)
(* (Wire, which takes the files for whole).  One of the two is looked at   *)
(* and the other stays as it is.                                           *)
(***************************************************************************)
EXTENDS CommandLine, MCWire, TLC

Symmetry == Permutations(Procs) \cup Permutations(Hosts)

WireUnused == \A a \in Agents : made[a] = 0

ScutInit == Init /\ WireInit
ScutNext ==
  \/ WireUnused /\ Next /\ UNCHANGED wire
  \/ runs = 0 /\ WireNext /\ UNCHANGED vars
ScutSpec == ScutInit /\ [][ScutNext]_<<vars, wire>>
=============================================================================
