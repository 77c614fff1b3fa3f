--------------------------------- MODULE Keygen ---------------------------------
(***************************************************************************)
(* generate-demo-keys (packages/agents/scripts): draws a key pair for each *)
(* agent of the demo, writes the agent's document as it goes and the file  *)
(* with all private keys at the end, over whatever was there.  Documents   *)
(* are then put on the site by hand, where resolvers find them; run-demo   *)
(* --on-chain signs with the keys file.                                    *)
(*                                                                         *)
(* A key pair is told apart by the run that drew it; 0 is none.  Files are *)
(* written in place, so that one a run is cut off at may be broken.        *)
(***************************************************************************)
EXTENDS Integers

CONSTANTS
  Slots,    \* AGENTS: 1..Slots
  MaxDraws,  \* runs of the script (bound)
  MaxCuts    \* runs that are cut off, or whose write fails (bound)

ASSUME KeygenAssumption == Slots \in Nat \ {0} /\ MaxDraws \in Nat /\ MaxCuts \in Nat

VARIABLES
  docs,    \* --docs-out: per agent, the keys its document names
  keys,    \* --keys-out: the run whose keys it holds
  hosted,  \* the documents on the site
  run,     \* the last run
  slot,    \* the agent it is at; 0: it is over
  whole,   \* history: the last run has ended by itself
  cuts     \* runs that may still be cut off

Broken == -1
drawn == <<docs, keys, hosted, run, slot, whole, cuts>>

DrawTypeOK ==
  /\ docs \in [1..Slots -> {Broken} \cup 0..MaxDraws]
  /\ hosted \in [1..Slots -> 0..MaxDraws]
  /\ keys \in {Broken} \cup 0..MaxDraws /\ run \in 0..MaxDraws
  /\ slot \in 0..(Slots + 1)
  /\ whole \in BOOLEAN /\ cuts \in 0..MaxCuts

DrawInit ==
  /\ docs = [a \in 1..Slots |-> 0] /\ hosted = docs
  /\ keys = 0 /\ run = 0 /\ slot = 0
  /\ whole = TRUE /\ cuts = MaxCuts

\* Mutant: the old keys are removed first.
BeginClean ==
  /\ slot = 0 /\ run < MaxDraws
  /\ run' = run + 1
  /\ slot' = 1
  /\ keys' = 0
  /\ whole' = FALSE
  /\ UNCHANGED <<docs, hosted, cuts>>

Begin ==
  /\ slot = 0 /\ run < MaxDraws
  /\ run' = run + 1
  /\ slot' = 1
  /\ whole' = FALSE
  /\ UNCHANGED <<docs, keys, hosted, cuts>>

\* Mutant: the keys file is written again for each agent.
WriteDocAndKeys ==
  /\ slot \in 1..Slots
  /\ docs' = [docs EXCEPT ![slot] = run]
  /\ keys' = run
  /\ slot' = slot + 1
  /\ UNCHANGED <<hosted, run, whole, cuts>>

\* Keys for one agent, and its document.
WriteDoc ==
  /\ slot \in 1..Slots
  /\ docs' = [docs EXCEPT ![slot] = run]
  /\ slot' = slot + 1
  /\ UNCHANGED <<keys, hosted, run, whole, cuts>>

WriteKeys ==
  /\ slot = Slots + 1
  /\ keys' = run
  /\ slot' = 0
  /\ whole' = TRUE
  /\ UNCHANGED <<docs, hosted, run, cuts>>

\* The process dies, or the write of the file it is at fails.
Cut ==
  /\ slot > 0 /\ cuts > 0
  /\ cuts' = cuts - 1
  /\ slot' = 0
  /\ \/ UNCHANGED <<docs, keys>>
     \/ slot <= Slots /\ docs' = [docs EXCEPT ![slot] = Broken] /\ UNCHANGED keys
     \/ slot > Slots /\ keys' = Broken /\ UNCHANGED docs
  /\ UNCHANGED <<hosted, run, whole>>

\* The operator copies documents to the site after a run has ended, with the files
\* as they are.
Host ==
  /\ slot = 0 /\ whole
  /\ hosted' = docs
  /\ UNCHANGED <<docs, keys, run, slot, whole, cuts>>

DrawNext == Begin \/ WriteDoc \/ WriteKeys \/ Cut \/ Host

DrawSpec == DrawInit /\ [][DrawNext]_drawn

\* The keys on disk are never newer than a document: a run that was cut off leaves
\* documents whose private keys nobody has, not keys whose documents are missing.
\* (And variables keep their types.)
KeysNotNewer ==
  /\ DrawTypeOK
  /\ \A a \in 1..Slots : docs[a] # Broken => keys <= docs[a]

\* The keys of the documents on the site are there until a run has written all its
\* documents (the last write of the script is the one that loses them).
KeptUntilDone ==
  [][(\E a \in 1..Slots : hosted[a] # 0 /\ hosted[a] = keys /\ keys' # keys)
       => \A b \in 1..Slots : docs'[b] = run']_drawn
=============================================================================
