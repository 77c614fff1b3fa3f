--------------------------------- MODULE Monitor ---------------------------------
(***************************************************************************)
(* scut-monitor (packages/monitor/src): a client of a relay's event stream *)
(* that shows the last envelopes and reveals some of them, one at a time.  *)
(*                                                                         *)
(* One event loop and four parties on it: the stream (sse.ts) feeds the    *)
(* store; timers of the Orchestrator pick an envelope, await its           *)
(* decryption and queue it; React renders what the store holds; and the    *)
(* overlay, while it is mounted, walks through the phases of a reveal and  *)
(* ends it.  The store calls its subscribers synchronously, so that ending *)
(* a reveal starts the next queued one within the same step, before React  *)
(* renders again.                                                          *)
(***************************************************************************)
EXTENDS Integers, Sequences, SequencesExt

CONSTANTS
  Ids,          \* envelope ids
  None,
  Readable,     \* those addressed to an identity of the keyring
  Timers,       \* reveal timers
  Match,        \* the envelopes each of them may pick
  Recurring,    \* timers that fire again and again, or a script's, once
  Phases,       \* length of PHASE_ORDER
  Cap,          \* BUFFER_CAP
  MaxArrivals,  \* envelope_received events (bound)
  MaxQueue      \* reveals queued (bound)

ASSUME MonitorAssumption ==
  /\ None \notin Ids /\ Readable \subseteq Ids
  /\ Match \in [Timers -> SUBSET Ids] /\ Recurring \in BOOLEAN
  /\ Phases \in Nat \ {0} /\ Cap \in Nat \ {0}
  /\ MaxArrivals \in Nat /\ MaxQueue \in Nat
  /\ {"armed", "spent"} \cap Ids = {}

VARIABLES
  live,        \* the stream is open
  held,        \* envelopes in the relay's table, by the events so far
  arrivals,    \* envelope_received events so far
  entries,     \* MonitorStore.entries
  reveal,      \* MonitorStore.reveal
  pick,        \* per timer, the envelope whose decryption it awaits
  queue,       \* Orchestrator.queue
  inProgress,  \* Orchestrator.inProgress
  shown,       \* the reveal rendered last
  phase,       \* of the overlay; 0: not mounted
  played       \* history: the overlay began with phase 1 for this reveal

stream == <<live, held, arrivals>>
overlay == <<shown, phase>>
vars == <<stream, entries, reveal, pick, queue, inProgress, overlay, played>>

Entry == [id: Ids, status: {"stored", "acked", "expired"}, revealed: BOOLEAN]

TypeOK ==
  /\ live \in BOOLEAN
  /\ held \subseteq Ids
  /\ arrivals \in Nat
  /\ entries \in Seq(Entry) /\ Len(entries) <= Cap
  /\ reveal \in Ids \cup {None}
  /\ pick \in [Timers -> Ids \cup {"armed", "spent"}]
  /\ queue \in Seq(Ids)
  /\ inProgress \in BOOLEAN
  /\ shown \in Ids \cup {None}
  /\ phase \in 0..Phases
  /\ played \in BOOLEAN

\* The relay may hold envelopes from before the monitor connected.
Init ==
  /\ live = TRUE
  /\ held \in SUBSET Ids
  /\ arrivals = 0
  /\ entries = <<>>
  /\ reveal = None
  /\ pick = [t \in Timers |-> "armed"]
  /\ queue = <<>>
  /\ inProgress = FALSE
  /\ shown = None
  /\ phase = 0
  /\ played = FALSE

-----------------------------------------------------------------------------
(* The event stream and the buffer.  Every change of the store calls        *)
(* onStoreChange, which does nothing while reveal and inProgress agree.     *)

Event == live /\ UNCHANGED <<live, reveal, pick, queue, inProgress, overlay, played>>

\* slice(-BUFFER_CAP)
Trimmed(s) == IF Len(s) > Cap THEN SubSeq(s, Len(s) - Cap + 1, Len(s)) ELSE s

\* addEnvelope
Received(e) ==
  /\ Event
  /\ e \notin held
  /\ arrivals < MaxArrivals
  /\ arrivals' = arrivals + 1
  /\ held' = held \cup {e}
  /\ entries' = Trimmed(Append(entries,
                          [id |-> e, status |-> "stored", revealed |-> FALSE]))

AckedLast(ids) ==
  [i \in DOMAIN entries |->
     IF entries[i].id \in ids /\ i = Len(entries)
     THEN [entries[i] EXCEPT !.status = "acked"] ELSE entries[i]]

\* markAcked: not what has expired.
Acked(ids) ==
  [i \in DOMAIN entries |->
     IF entries[i].id \in ids /\ entries[i].status = "stored"
     THEN [entries[i] EXCEPT !.status = "acked"] ELSE entries[i]]

\* One envelope_acked event names all that an ack dropped.
Dropped(ids) ==
  /\ Event
  /\ ids # {} /\ ids \subseteq held
  /\ held' = held \ ids
  /\ entries' = Acked(ids)
  /\ UNCHANGED arrivals

\* markExpired: every entry with the id, whatever its status.
Expired(e) ==
  /\ Event
  /\ e \in held
  /\ held' = held \ {e}
  /\ entries' = [i \in DOMAIN entries |->
       IF entries[i].id = e THEN [entries[i] EXCEPT !.status = "expired"]
                            ELSE entries[i]]
  /\ UNCHANGED arrivals

\* The stream ends or fails; nothing connects again.
Disconnect ==
  /\ live
  /\ live' = FALSE
  /\ UNCHANGED <<held, arrivals, entries, reveal, pick, queue, inProgress,
                 overlay, played>>

-----------------------------------------------------------------------------
(* The Orchestrator. *)

\* findDecryptableFor: the latest entry not revealed yet.
Candidates(t) ==
  {i \in DOMAIN entries : /\ ~entries[i].revealed
                          /\ entries[i].id \in Match[t] \cap Readable}
Again == IF Recurring THEN "armed" ELSE "spent"

\* pickAndQueue up to its await.  A timer that finds nothing is through.
Fire(t) ==
  /\ pick[t] = "armed"
  /\ Len(queue) < MaxQueue
  /\ \/ Candidates(t) = {} /\ pick' = [pick EXCEPT ![t] = Again]
     \/ \E i \in Candidates(t) : /\ \A k \in Candidates(t) : k <= i
                                /\ pick' = [pick EXCEPT ![t] = entries[i].id]
  /\ UNCHANGED <<stream, entries, reveal, queue, inProgress, overlay, played>>

\* startReveal: the first entry with the id, if the buffer still has one, is
\* stamped; the reveal is set in any case.
Stamped(e) ==
  [i \in DOMAIN entries |->
     IF entries[i].id = e /\ \A j \in 1..(i - 1) : entries[j].id # e
     THEN [entries[i] EXCEPT !.revealed = TRUE] ELSE entries[i]]
StartReveal(e) ==
  /\ reveal' = e
  /\ entries' = Stamped(e)
  /\ played' = FALSE

\* popQueue
PopQueue(q) ==
  IF inProgress \/ q = <<>>
  THEN queue' = q /\ UNCHANGED <<entries, reveal, inProgress, played>>
  ELSE /\ queue' = Tail(q)
       /\ inProgress' = TRUE
       /\ StartReveal(Head(q))

\* pickAndQueue after its await.
Decrypted(t) ==
  /\ pick[t] \in Ids
  /\ pick' = [pick EXCEPT ![t] = Again]
  /\ PopQueue(Append(queue, pick[t]))
  /\ UNCHANGED <<stream, overlay>>

\* tryDecrypt returned null.
Undecrypted(t) ==
  /\ pick[t] \in Ids
  /\ pick' = [pick EXCEPT ![t] = Again]
  /\ UNCHANGED <<stream, entries, reveal, queue, inProgress, overlay, played>>

-----------------------------------------------------------------------------
(* React and the overlay. *)

\* App mounts the overlay if there is a reveal and the buffer has its entry.
Wanted ==
  IF \E i \in DOMAIN entries : entries[i].id = reveal THEN reveal ELSE None

\* The overlay has no key: from one reveal to the next it stays mounted, and its
\* clock starts again only when it is mounted anew.
Render ==
  /\ shown # Wanted
  /\ shown' = Wanted
  /\ phase' = IF Wanted = None THEN 0 ELSE IF phase = 0 THEN 1 ELSE phase
  /\ played' = (played \/ (phase = 0 /\ Wanted # None))
  /\ UNCHANGED <<stream, entries, reveal, pick, queue, inProgress>>

AdvanceShort ==
  /\ phase \in 1..(Phases - 2)
  /\ phase' = phase + 1
  /\ UNCHANGED <<stream, entries, reveal, pick, queue, inProgress, shown, played>>

\* A tick of the clock after the phase has had its time.
Advance ==
  /\ phase \in 1..(Phases - 1)
  /\ phase' = phase + 1
  /\ UNCHANGED <<stream, entries, reveal, pick, queue, inProgress, shown, played>>

EndAsleep ==
  /\ reveal' = None
  /\ inProgress' = FALSE
  /\ UNCHANGED <<queue, entries, played>>

\* endReveal, and onStoreChange and popQueue within it.
EndReveal ==
  IF queue = <<>>
  THEN reveal' = None /\ inProgress' = FALSE /\ UNCHANGED <<queue, entries, played>>
  ELSE queue' = Tail(queue) /\ StartReveal(Head(queue)) /\ UNCHANGED inProgress

\* A tick after the last phase: onDone.  What the store held was rendered since.
Done ==
  /\ phase = Phases
  /\ shown = Wanted
  /\ EndReveal
  /\ UNCHANGED <<stream, pick, overlay>>

-----------------------------------------------------------------------------
Next ==
  \/ \E e \in Ids : Received(e) \/ Expired(e)
  \/ \E ids \in SUBSET Ids : Dropped(ids)
  \/ Disconnect
  \/ \E t \in Timers : Fire(t) \/ Decrypted(t) \/ Undecrypted(t)
  \/ Render
  \/ Advance
  \/ Done

\* Promises settle, React renders and the interval of the overlay ticks; the stream
\* and the timers owe nothing.
Fairness ==
  /\ \A t \in Timers : WF_vars(Decrypted(t) \/ Undecrypted(t))
  /\ WF_vars(Render) /\ WF_vars(Advance) /\ WF_vars(Done)

Spec == Init /\ [][Next]_vars
FairSpec == Spec /\ Fairness

-----------------------------------------------------------------------------
(* Properties. *)

\* No reveal is lost between the store and the orchestrator: a reveal is in
\* progress exactly while the store has one, and none waits in the queue
\* otherwise.  Then onStoreChange has nothing to do on any other change.  (And
\* variables keep their types.)
Serialized ==
  /\ TypeOK
  /\ inProgress <=> reveal # None
  /\ queue # <<>> => inProgress

\* While the stream is open a line shows "stored" exactly when the relay holds
\* its envelope and no later line is of the same id: ids come back when an
\* envelope is pushed again after an ack.
StatusAgrees ==
  live =>
    \A i \in DOMAIN entries :
      entries[i].status = "stored" <=>
        /\ entries[i].id \in held
        /\ \A j \in DOMAIN entries : j > i => entries[j].id # entries[i].id

\* README: reveals serialize.  Whatever is queued is revealed at last, unless
\* more envelopes have come than the buffer keeps: see the README of this
\* development for what happens then.
QueuedFires ==
  \A e \in Ids : (e \in ToSet(queue)) ~> (reveal = e \/ arrivals > Cap)

\* The comment on useRevealClock: it drives the box through the phase sequence
\* and calls onDone once the full cycle completes.
PlayedInFull == [][Done => played]_vars

-----------------------------------------------------------------------------
(* What a text of the repository says and the code does not do: no run checks *)
(* it, and the README of this development says why it fails.                 *)

\* README, reveal script: the monitor queues what matches for reveal, and a queued
\* reveal fires after the previous one completes, whatever else comes meanwhile.
QueuedAlwaysFires == \A e \in Ids : (e \in ToSet(queue)) ~> (reveal = e)
=============================================================================
