------------------------------- MODULE Directory -------------------------------
(***************************************************************************)
(* What a source of SII documents promises to who asks it: the document in *)
(* an answer was the published one at some instant not long before the     *)
(* answer.  "Not found" is the answer None, true in the same sense only    *)
(* where a failed lookup is never answered so (Sure).                      *)
(*                                                                         *)
(* The registries behind the resolver implement it with their own age, and *)
(* the resolver, which asks a registry that implements it, implements it   *)
(* with its cache lifetime added.  The relay relies on it as an assumption *)
(* (Relay!Answer).                                                         *)
(***************************************************************************)
EXTENDS Integers

CONSTANTS
  Refs,      \* agents, as the triple of a SCUT URI
  Docs,      \* SII documents
  None,      \* no document
  FreshAge,  \* how old an answer to a fresh request may be
  Age,       \* how old any answer may be
  Sure       \* whether "not found" is always an answer of the source

VARIABLES
  now,       \* the clock
  published, \* the document each agent publishes
  gone,      \* superseded documents: [ref, doc, at]
  answer     \* the last answer given: [ref, doc, fresh, at]

vars == <<now, published, gone, answer>>

\* Document d of r was the published one at t or later.
CurrentSince(r, d, t) ==
  \/ published[r] = d
  \/ \E g \in gone : g.ref = r /\ g.doc = d /\ g.at >= t

NoAnswer == [ref |-> None, doc |-> None, fresh |-> FALSE, at |-> 0]

Init ==
  /\ now = 0
  /\ published \in [Refs -> Docs \cup {None}]
  /\ gone = {}
  /\ answer = NoAnswer

Tick == now' = now + 1 /\ UNCHANGED <<published, gone, answer>>

\* Agents publish other documents, or the same one once more.
Publish(new, by) ==
  /\ \A r \in Refs \ by : new[r] = published[r]
  /\ published' = new
  /\ gone' = gone \cup {[ref |-> r, doc |-> published[r], at |-> now] : r \in by}
  /\ UNCHANGED <<now, answer>>

Answer(r, d, fresh) ==
  /\ (d # None \/ Sure) => CurrentSince(r, d, now - (IF fresh THEN FreshAge ELSE Age))
  /\ answer' = [ref |-> r, doc |-> d, fresh |-> fresh, at |-> now]
  /\ UNCHANGED <<now, published, gone>>

Next ==
  \/ Tick
  \/ \E by \in SUBSET Refs : Publish(published', by)
  \/ Answer(answer'.ref, answer'.doc, answer'.fresh)

Spec == Init /\ [][Next]_vars
=============================================================================
