------------------------------ MODULE MCResolver ------------------------------
(***************************************************************************)
(* The resolver for TLC: its route over the registry it assumes, asked for *)
(* one agent under two spellings of its key; its chain backend; its file   *)
(* backend.  Resolver assumes of a backend what SiiProofs and JsonProofs   *)
(* prove, so that one of the three runs and the others are as they began.  *)
(***************************************************************************)
EXTENDS Resolver, MCSiiRegistry, JsonRegistry, TLC

OneAgent == [n \in Names |-> "alice"]

\* Files in which the one agent, the other or both are present.
BothOld == [r \in JsonRefs |-> "old"]
BothNew == [r \in JsonRefs |-> "new"]
BobGone == [r \in JsonRefs |-> IF r = "bob" THEN NoDoc ELSE "new"]
Contents == {BothOld, BothNew, BobGone}
WithBroken == Contents \cup {Broken}

LookupSymmetry ==
  Permutations(Handlers) \cup Permutations(Calls) \cup Permutations(Reloads)

RouteUnused == Init /\ \A r \in Refs : published[r] = None
ChainUnused == SiiInit
FileUnused == JsonInit /\ file = BothOld

ResolveInit == Init /\ SiiInit /\ JsonInit
ResolveNext ==
  \/ ChainUnused /\ FileUnused /\ Next /\ UNCHANGED <<siiVars, jsonVars>>
  \/ RouteUnused /\ FileUnused /\ SiiNext /\ UNCHANGED <<vars, jsonVars>>
  \/ RouteUnused /\ ChainUnused /\ JsonNext /\ UNCHANGED <<vars, siiVars>>
ResolveSpec == ResolveInit /\ [][ResolveNext]_<<vars, siiVars, jsonVars>>
=============================================================================
