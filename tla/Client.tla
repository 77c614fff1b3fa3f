-------------------------------- MODULE Client --------------------------------
(***************************************************************************)
(* ScutClient (packages/core/src/client.ts) at both ends of a route:       *)
(* senders that try the relays of a recipient in the order of their        *)
(* priority, and a recipient that polls its relays (receive, and the loop  *)
(* of scut recv --watch around it) and acks what it was shown.             *)
(*                                                                         *)
(* Every fetch is awaited, so sends, a poll and an ack interleave between  *)
(* any two relays, and the network may lose a request, deliver it after    *)
(* the caller gave up, or lose the response of one that was served.  The   *)
(* relays are tables of envelopes that evict what expires; how a relay     *)
(* keeps its table is Relay's matter, how old a resolver's answer may be   *)
(* is Directory's.                                                         *)
(*                                                                         *)
(* There is one recipient and each id is one call of send: envelope ids    *)
(* are 32 random bytes drawn by buildEnvelope.                             *)
(***************************************************************************)
EXTENDS Integers, Sequences, SequencesExt

CONSTANTS
  Relays,   \* relay hosts
  Ids,      \* envelopes, one for each call of send
  Lists,    \* relay lists the recipient may publish, in order of priority
  Own,      \* options.relays of the recipient, or <<>> to use its document
  Watch,    \* the recipient is scut recv --watch
  Ttl,      \* lifetime of an envelope, as the relays cap it
  None,     \* no relay
  Faults,   \* times a call may go wrong (bound)
  MaxTime   \* clock, the same at all hosts (bound)

ASSUME RoutesAssumption ==
  /\ \A l \in Lists : /\ l \in Seq(Relays) /\ l # <<>>
                      /\ \A m, n \in DOMAIN l : l[m] = l[n] => m = n
  /\ Own \in Seq(Relays)
  /\ \A m, n \in DOMAIN Own : Own[m] = Own[n] => m = n
  /\ None \notin Relays
  /\ Ttl \in Nat /\ Faults \in Nat /\ MaxTime \in Nat

VARIABLES
  now,      \* Date.now()
  doc,      \* relays in the recipient's document, sorted by priority
  box,      \* per relay and envelope, received_at or Absent
  flight,   \* pushes a relay may still get
  snd,      \* calls of send
  rcv,      \* the call of receive under way
  since,    \* the cursor of recv --watch
  printed,  \* envelopes the recipient has been shown
  ack,      \* the call of ack under way
  cleared,  \* history: per envelope, the last ack that returned
  faults    \* faults left

network == <<box, flight>>
sender == <<snd>>
poll == <<rcv, since, printed>>
acking == <<ack, cleared>>
vars == <<now, doc, network, sender, poll, acking, faults>>

Absent == -1
Held(h, i) == box[h][i] # Absent
Unsent == [pc |-> "new", left |-> <<>>, at |-> None, stored |-> Absent,
           conflict |-> FALSE]
NotPolling == [pc |-> "idle", left |-> <<>>, seen |-> {},
               opened |-> [i \in Ids |-> 0], due |-> {}]
NotAcking == [pc |-> "idle", left |-> <<>>, ids |-> {}, began |-> 0,
              asked |-> {}, refused |-> {}]
Never == [began |-> 0, asked |-> {}, refused |-> {}]

TypeOK ==
  /\ now \in Nat
  /\ doc \in Lists
  /\ box \in [Relays -> [Ids -> Nat \cup {Absent}]]
  /\ flight \subseteq Relays \X Ids
  /\ snd \in [Ids -> [pc: {"new", "posting", "sent", "failed", "unresolved"},
                      left: Seq(Relays), at: Relays \cup {None},
                      stored: Nat \cup {Absent}, conflict: BOOLEAN]]
  /\ \A i \in Ids : /\ snd[i].pc = "posting" => snd[i].left # <<>>
                    /\ snd[i].pc = "sent" => snd[i].at # None
  /\ rcv \in [pc: {"idle", "polling"}, left: Seq(Relays), seen: SUBSET Ids,
              opened: [Ids -> Nat], due: SUBSET (Relays \X Ids)]
  /\ since \in Nat
  /\ printed \subseteq Ids
  /\ ack \in [pc: {"idle", "acking"}, left: Seq(Relays), ids: SUBSET Ids,
              began: Nat, asked: SUBSET Relays, refused: SUBSET Relays]
  /\ cleared \in [Ids -> [began: Nat, asked: SUBSET Relays,
                          refused: SUBSET Relays]]
  /\ faults \in 0..Faults

Init ==
  /\ now = 0
  /\ doc \in Lists
  /\ box = [h \in Relays |-> [i \in Ids |-> Absent]]
  /\ flight = {}
  /\ snd = [i \in Ids |-> Unsent]
  /\ rcv = NotPolling
  /\ since = 0
  /\ printed = {}
  /\ ack = NotAcking
  /\ cleared = [i \in Ids |-> Never]
  /\ faults = Faults

Tick ==
  /\ now < MaxTime
  /\ now' = now + 1
  /\ UNCHANGED <<doc, network, sender, poll, acking, faults>>

\* The recipient publishes another list of relays.
Publish(l) ==
  /\ doc' = l
  /\ UNCHANGED <<now, network, sender, poll, acking, faults>>

Fault == faults > 0 /\ faults' = faults - 1

-----------------------------------------------------------------------------
(* send *)

\* fetch(push) to the first relay of route.
Posting(i, route) ==
  /\ snd' = [snd EXCEPT ![i].pc = "posting", ![i].left = route]
  /\ flight' = flight \cup {<<Head(route), i>>}

\* The recipient is resolved and the envelope built; the first push leaves.
Resolve(i) ==
  /\ snd[i].pc = "new"
  /\ Posting(i, doc)
  /\ UNCHANGED <<now, doc, box, poll, acking, faults>>

Unresolved(i) ==
  /\ snd[i].pc = "new"
  /\ Fault
  /\ snd' = [snd EXCEPT ![i].pc = "unresolved"]
  /\ UNCHANGED <<now, doc, network, poll, acking>>

\* A push reaches its relay; an id it holds already is left as it is.  The
\* answer to a sender that still waits for it tells received_at.
Deliver(h, i) ==
  /\ <<h, i>> \in flight
  /\ flight' = flight \ {<<h, i>>}
  /\ box' = [box EXCEPT ![h][i] = IF Held(h, i) THEN @ ELSE now]
  /\ snd' = [snd EXCEPT ![i].stored =
       IF snd[i].pc = "posting" /\ Head(snd[i].left) = h THEN box'[h][i] ELSE @]
  /\ UNCHANGED <<now, doc, poll, acking, faults>>

\* 202
Accepted(i) ==
  /\ snd[i].pc = "posting"
  /\ <<Head(snd[i].left), i>> \notin flight
  /\ snd' = [snd EXCEPT ![i].pc = "sent", ![i].at = Head(snd[i].left)]
  /\ UNCHANGED <<now, doc, network, poll, acking, faults>>

\* Any other status but 409, of the relay or of a proxy before it that gave
\* up waiting: on to the next relay, if there is one.
NextRelay(i) ==
  /\ snd[i].pc = "posting"
  /\ Fault
  /\ IF Len(snd[i].left) > 1
     THEN Posting(i, Tail(snd[i].left))
     ELSE /\ snd' = [snd EXCEPT ![i].pc = "failed", ![i].left = <<>>]
          /\ UNCHANGED flight
  /\ UNCHANGED <<now, doc, box, poll, acking>>

\* 409 ends the loop.  (The relay of this repository gives it to an id it
\* holds under another signature.)
Conflict(i) ==
  /\ snd[i].pc = "posting"
  /\ Fault
  /\ snd' = [snd EXCEPT ![i].pc = "failed", ![i].conflict = TRUE]
  /\ UNCHANGED <<now, doc, network, poll, acking>>

\* fetch rejects: send throws what fetch threw.
Unreachable(i) ==
  /\ snd[i].pc = "posting"
  /\ Fault
  /\ snd' = [snd EXCEPT ![i].pc = "failed"]
  /\ UNCHANGED <<now, doc, network, poll, acking>>

-----------------------------------------------------------------------------
(* receive *)

\* options.relays ?? ownRelays()
Inbox == IF Own = <<>> THEN doc ELSE Own

\* forRecipientSince at relay h.
Picked(h) == {i \in Ids : Held(h, i) /\ box[h][i] >= since}

\* Mutant: only the preferred relay is polled.
BeginPollFirst ==
  /\ rcv.pc = "idle"
  /\ rcv' = [NotPolling EXCEPT !.pc = "polling", !.left = <<Head(Inbox)>>]
  /\ UNCHANGED <<now, doc, network, sender, since, printed, acking, faults>>

\* A poll whose own document does not resolve throws and leaves no trace.
BeginPoll ==
  /\ rcv.pc = "idle"
  /\ rcv' = [NotPolling EXCEPT
       !.pc = "polling", !.left = Inbox,
       !.due = UNION {{h} \X Picked(h) : h \in ToSet(Inbox)}]
  /\ UNCHANGED <<now, doc, network, sender, since, printed, acking, faults>>

\* Mutant: ids seen in this call are not left out.
OpenedAgain(h, bad) ==
  /\ bad \subseteq Picked(h)
  /\ rcv' = [rcv EXCEPT
       !.left = Tail(@), !.seen = @ \cup Picked(h),
       !.opened = [i \in Ids |-> @[i] + (IF i \in Picked(h) \ bad THEN 1 ELSE 0)],
       !.due = {p \in @ : p[2] \notin bad}]

\* Relay h answers; the envelopes in bad fail to verify, or their senders to
\* resolve, and are dropped.
Opened(h, bad) ==
  LET fresh == Picked(h) \ rcv.seen IN
    /\ bad \subseteq fresh
    /\ rcv' = [rcv EXCEPT
         !.left = Tail(@), !.seen = @ \cup fresh,
         !.opened = [i \in Ids |-> @[i] + (IF i \in fresh \ bad THEN 1 ELSE 0)],
         !.due = {p \in @ : p[2] \notin bad}]

PickUp ==
  /\ rcv.pc = "polling" /\ rcv.left # <<>>
  /\ Opened(Head(rcv.left), {})
  /\ UNCHANGED <<now, doc, network, sender, since, printed, acking, faults>>

PickUpSome(bad) ==
  /\ rcv.pc = "polling" /\ rcv.left # <<>>
  /\ bad # {}
  /\ Fault
  /\ Opened(Head(rcv.left), bad)
  /\ UNCHANGED <<now, doc, network, sender, since, printed, acking>>

\* Mutant: a relay that refuses ends the loop over the relays.
PickUpStops ==
  /\ rcv.pc = "polling" /\ rcv.left # <<>>
  /\ Fault
  /\ rcv' = [rcv EXCEPT !.left = <<>>,
                        !.due = {p \in @ : p[1] # Head(rcv.left)}]
  /\ UNCHANGED <<now, doc, network, sender, since, printed, acking>>

\* A status that is not ok counts as an empty mailbox.
PickUpRefused ==
  /\ rcv.pc = "polling" /\ rcv.left # <<>>
  /\ Fault
  /\ rcv' = [rcv EXCEPT !.left = Tail(@),
                        !.due = {p \in @ : p[1] # Head(rcv.left)}]
  /\ UNCHANGED <<now, doc, network, sender, since, printed, acking>>

\* fetch rejects: receive throws, and recv --watch polls again later.
PollThrows ==
  /\ rcv.pc = "polling" /\ rcv.left # <<>>
  /\ Fault
  /\ rcv' = NotPolling
  /\ UNCHANGED <<now, doc, network, sender, since, printed, acking>>

\* pollOnce: print what was opened and move the cursor.
EndPoll ==
  LET shown == {i \in Ids : rcv.opened[i] > 0} IN
    /\ rcv.pc = "polling" /\ rcv.left = <<>>
    /\ printed' = printed \cup shown
    /\ since' = IF Watch /\ shown # {} THEN now ELSE since
    /\ rcv' = NotPolling
    /\ UNCHANGED <<now, doc, network, sender, acking, faults>>

\* The recipient's process ends and is started again without --since.
Restart ==
  /\ Fault
  /\ rcv' = NotPolling
  /\ since' = 0
  /\ UNCHANGED <<now, doc, network, sender, printed, acking>>

-----------------------------------------------------------------------------
(* ack *)

BeginAck(S) ==
  /\ ack.pc = "idle"
  /\ S # {}
  /\ ack' = [NotAcking EXCEPT !.pc = "acking", !.left = Inbox, !.ids = S,
                              !.began = now, !.asked = ToSet(Inbox)]
  /\ UNCHANGED <<now, doc, network, sender, poll, cleared, faults>>

\* Relay h deletes the rows of S.
Deleted(h, S) ==
  /\ box' = [box EXCEPT ![h] =
       [i \in Ids |-> IF i \in S THEN Absent ELSE @[i]]]
  /\ rcv' = [rcv EXCEPT !.due = @ \ ({h} \X S)]

\* ackForRecipient at relay h.
Dropped(h) == Deleted(h, ack.ids)

\* Mutant: the first relay that answers ends the loop.
AckStops ==
  /\ ack.pc = "acking" /\ ack.left # <<>>
  /\ Dropped(Head(ack.left))
  /\ ack' = [ack EXCEPT !.left = <<>>]
  /\ UNCHANGED <<now, doc, flight, sender, since, printed, cleared, faults>>

AckAnswered ==
  /\ ack.pc = "acking" /\ ack.left # <<>>
  /\ Dropped(Head(ack.left))
  /\ ack' = [ack EXCEPT !.left = Tail(@)]
  /\ UNCHANGED <<now, doc, flight, sender, since, printed, cleared, faults>>

\* A status that is not ok, whether or not the relay was reached.
AckRefused ==
  /\ ack.pc = "acking" /\ ack.left # <<>>
  /\ Fault
  /\ ack' = [ack EXCEPT !.left = Tail(@),
                        !.refused = @ \cup {Head(ack.left)}]
  /\ Dropped(Head(ack.left)) \/ UNCHANGED <<box, rcv>>
  /\ UNCHANGED <<now, doc, flight, sender, since, printed, cleared>>

AckThrows ==
  /\ ack.pc = "acking" /\ ack.left # <<>>
  /\ Fault
  /\ ack' = NotAcking
  /\ Dropped(Head(ack.left)) \/ UNCHANGED <<box, rcv>>
  /\ UNCHANGED <<now, doc, flight, sender, since, printed, cleared>>

EndAck ==
  /\ ack.pc = "acking" /\ ack.left = <<>>
  /\ cleared' = [i \in Ids |-> IF i \in ack.ids
                   THEN [began |-> ack.began, asked |-> ack.asked,
                         refused |-> ack.refused]
                   ELSE cleared[i]]
  /\ ack' = NotAcking
  /\ UNCHANGED <<now, doc, network, sender, poll, faults>>

-----------------------------------------------------------------------------
(* eviction *)

\* Mutant: the lifetime of a row is not counted.
EvictAll(h) ==
  /\ \E i \in Ids : Held(h, i)
  /\ Deleted(h, {i \in Ids : Held(h, i)})
  /\ UNCHANGED <<now, doc, flight, sender, since, printed, acking, faults>>

\* evictExpired at relay h, whenever its timer runs.
Evict(h) ==
  LET expired == {i \in Ids : Held(h, i) /\ box[h][i] + Ttl <= now} IN
    /\ expired # {}
    /\ Deleted(h, expired)
    /\ UNCHANGED <<now, doc, flight, sender, since, printed, acking, faults>>

-----------------------------------------------------------------------------
Send ==
  \E i \in Ids :
    \/ Resolve(i) \/ Unresolved(i)
    \/ Accepted(i) \/ NextRelay(i) \/ Conflict(i) \/ Unreachable(i)

Receive ==
  \/ BeginPoll \/ PickUp \/ PickUpRefused \/ PollThrows \/ EndPoll \/ Restart
  \/ \E bad \in SUBSET Ids : PickUpSome(bad)

\* A recipient acks what it has been shown.
Ack ==
  \/ \E S \in SUBSET printed : BeginAck(S)
  \/ AckAnswered \/ AckRefused \/ AckThrows \/ EndAck

Next ==
  \/ Tick
  \/ \E l \in Lists : Publish(l)
  \/ \E h \in Relays, i \in Ids : Deliver(h, i)
  \/ \E h \in Relays : Evict(h)
  \/ Send \/ Receive \/ Ack

Spec == Init /\ [][Next]_vars

\* The loop of recv --watch has no end, a call of receive comes to its end, and
\* the faults are finitely many: from some time on every pickup is answered.
FairSpec == Spec /\ WF_vars(BeginPoll) /\ WF_vars(PickUp) /\ WF_vars(EndPoll)

-----------------------------------------------------------------------------
(* What the two ends may rely on. *)

\* An envelope whose send returned is held by the relay the result names, since
\* the time the result names, until the recipient has been shown it or its
\* lifetime since that time is over, however the pushes and acks of other
\* copies end.  (And variables keep their types, as for the other components.)
SentIsHeld ==
  /\ TypeOK
  /\ \A i \in Ids : snd[i].pc = "sent" =>
       \/ Held(snd[i].at, i) /\ box[snd[i].at][i] = snd[i].stored
       \/ i \in printed
       \/ snd[i].stored # Absent /\ snd[i].stored + Ttl <= now

\* A call of receive returns an envelope once, whatever the number of relays
\* that hold a copy because an answer to its push was lost.
OncePerCall == \A i \in Ids : rcv.opened[i] <= 1

\* A call of receive that returns has everything that a relay held when the
\* call began and still held when it answered, but what failed to verify.
CallIsComplete ==
  rcv.pc = "polling" /\ rcv.left = <<>> =>
    \A p \in rcv.due : rcv.opened[p[2]] > 0

\* A call of ack that returned left no copy of its envelopes at any relay of
\* the recipient, but at one that refused it or was pushed the copy later.
AckClears ==
  \A i \in Ids : \A h \in cleared[i].asked \ cleared[i].refused :
    Held(h, i) => box[h][i] >= cleared[i].began

\* Envelope i is at relay h, which the recipient polls, and not behind the cursor.
Waits(h, i) == h \in ToSet(Inbox) /\ i \in Picked(h)

\* recv --watch leaves nothing waiting for ever: what a relay it polls holds is
\* shown, unless it expires, the relay leaves the recipient's list or the cursor
\* is moved past it.
NothingWaits ==
  \A h \in Relays, i \in Ids : Waits(h, i) ~> i \in printed \/ ~Waits(h, i)

\* spec/SPEC.md:109 'At-least-once delivery': an envelope held by a relay the
\* recipient polls is shown to it in the end.
AtLeastOnce ==
  \A h \in Relays, i \in Ids :
    Held(h, i) /\ h \in ToSet(Inbox) ~>
      i \in printed \/ h \notin ToSet(Inbox)

-----------------------------------------------------------------------------
(* What a text of the repository says and the code does not do: no run checks *)
(* it, and the README of this development says why it fails.                 *)

\* spec/SPEC.md:95 'If step 4 fails (relay unreachable, relay rejects), Alice's
\* client tries the next relay in Bob's priority list': a send that failed has
\* no relay left to try, unless one answered 409.
FallbackTried ==
  \A i \in Ids :
    snd[i].pc = "failed" => snd[i].conflict \/ Len(snd[i].left) <= 1
=============================================================================
