----------------------------- MODULE ClientProofs -----------------------------
(***************************************************************************)
(* Proofs about the client library: the calls of ScutClient (Client), and  *)
(* the letters that its two ends write and open (Wire).                    *)
(*                                                                         *)
(* A letter is followed as the function of its author's words that         *)
(* buildEnvelope makes of it: whatever is handed out is one of these or a  *)
(* rewriting of one (WireInv), a signature holds what was signed, and so   *)
(* two envelopes with one signature and one text to sign are the same.     *)
(***************************************************************************)
EXTENDS Client, Wire, TLAPS

\* The records of the calls under way.
Sending == [pc: {"new", "posting", "sent", "failed", "unresolved"}, left: Seq(Relays),
            at: Relays \cup {None}, stored: Nat \cup {Absent}, conflict: BOOLEAN]
Polling == [pc: {"idle", "polling"}, left: Seq(Relays), seen: SUBSET Ids,
            opened: [Ids -> Nat], due: SUBSET (Relays \X Ids)]
Acking == [pc: {"idle", "acking"}, left: Seq(Relays), ids: SUBSET Ids,
           began: Nat, asked: SUBSET Relays, refused: SUBSET Relays]
Clearing == [began: Nat, asked: SUBSET Relays, refused: SUBSET Relays]

LEMMA InboxFacts ==
  ASSUME TypeOK
  PROVE  /\ doc \in Seq(Relays) /\ doc # <<>> /\ Inbox \in Seq(Relays)
         /\ ToSet(Inbox) \subseteq Relays
  <1>1. doc \in Seq(Relays) /\ doc # <<>> /\ Inbox \in Seq(Relays)
    BY RoutesAssumption DEF TypeOK, Inbox
  <1> QED BY <1>1 DEF ToSet

LEMMA TailFacts ==
  ASSUME NEW s \in Seq(Relays), s # <<>>
  PROVE  /\ Head(s) \in Relays /\ Tail(s) \in Seq(Relays)
         /\ ToSet(s) = {Head(s)} \cup ToSet(Tail(s))
         /\ ToSet(s) \subseteq Relays
         /\ Len(s) > 1 => Tail(s) # <<>>
  <1>1. /\ Len(s) \in Nat \ {0} /\ DOMAIN s = 1..Len(s)
        /\ Head(s) = s[1] /\ Tail(s) \in Seq(Relays)
        /\ DOMAIN Tail(s) = 1..(Len(s) - 1)
        /\ \A i \in 1..(Len(s) - 1) : Tail(s)[i] = s[i + 1]
    OBVIOUS
  <1>2. \A i \in 1..Len(s) : i = 1 \/ (i - 1 \in 1..(Len(s) - 1) /\ (i - 1) + 1 = i)
    BY <1>1
  <1>3. \A i \in 1..(Len(s) - 1) : i + 1 \in 1..Len(s)
    BY <1>1
  <1>4. ToSet(s) = {Head(s)} \cup ToSet(Tail(s))
    <2>1. ASSUME NEW x \in ToSet(s) PROVE x \in {Head(s)} \cup ToSet(Tail(s))
      <3>1. PICK i \in 1..Len(s) : x = s[i]
        BY <1>1 DEF ToSet
      <3>2. CASE i = 1
        BY <3>1, <3>2, <1>1
      <3>3. CASE i # 1
        <4>1. i - 1 \in DOMAIN Tail(s) /\ Tail(s)[i - 1] = x
          BY <3>1, <3>3, <1>1, <1>2
        <4> QED BY <4>1 DEF ToSet
      <3> QED BY <3>2, <3>3
    <2>2. ASSUME NEW x \in ToSet(Tail(s)) PROVE x \in ToSet(s)
      <3>1. PICK i \in 1..(Len(s) - 1) : x = Tail(s)[i]
        BY <1>1 DEF ToSet
      <3> QED BY <3>1, <1>1, <1>3 DEF ToSet
    <2>3. Head(s) \in ToSet(s)
      BY <1>1 DEF ToSet
    <2> QED BY <2>1, <2>2, <2>3
  <1>5. ToSet(s) \subseteq Relays /\ Head(s) \in Relays
    BY <1>1 DEF ToSet
  <1>6. ASSUME Len(s) > 1 PROVE Tail(s) # <<>>
    <2>1. 1 \in DOMAIN Tail(s)
      BY <1>1, <1>6
    <2>2. DOMAIN <<>> = {}
      OBVIOUS
    <2> QED BY <2>1, <2>2, Zenon
  <1>7. Tail(s) \in Seq(Relays)
    BY <1>1
  <1> QED BY <1>4, <1>5, <1>6, <1>7

\* Variables keep their types.
LEMMA TypeInit == Init => TypeOK
  <1> SUFFICES ASSUME Init PROVE TypeOK
    OBVIOUS
  <1> USE RoutesAssumption DEF Init
  <1>1. Unsent \in Sending /\ Unsent.pc = "new"
    BY DEF Unsent, Sending, Absent
  <1>2. NotPolling \in Polling
    BY DEF NotPolling, Polling
  <1>3. NotAcking \in Acking /\ Never \in Clearing
    BY DEF NotAcking, Acking, Never, Clearing
  <1> QED BY <1>1, <1>2, <1>3 DEF TypeOK, Sending, Polling, Acking, Clearing, Absent

\* The parts a step may leave alone.
LEMMA TypeParts ==
  TypeOK <=>
    /\ now \in Nat /\ doc \in Lists
    /\ box \in [Relays -> [Ids -> Nat \cup {Absent}]]
    /\ flight \subseteq Relays \X Ids
    /\ snd \in [Ids -> Sending]
    /\ \A i \in Ids : /\ snd[i].pc = "posting" => snd[i].left # <<>>
                      /\ snd[i].pc = "sent" => snd[i].at # None
    /\ rcv \in Polling /\ since \in Nat /\ printed \subseteq Ids
    /\ ack \in Acking /\ cleared \in [Ids -> Clearing] /\ faults \in 0..Faults
  BY DEF TypeOK, Sending, Polling, Acking, Clearing

\* What a step of send makes of a call is one again.
LEMMA StoredType ==
  ASSUME NEW c \in Sending, NEW s \in Nat \cup {Absent}
  PROVE  /\ [c EXCEPT !.stored = s] \in Sending
         /\ [c EXCEPT !.stored = s].pc = c.pc /\ [c EXCEPT !.stored = s].left = c.left
         /\ [c EXCEPT !.stored = s].at = c.at /\ [c EXCEPT !.stored = s].stored = s
  BY DEF Sending

\* A push that arrives is stored, if it is not held, and told to the sender that
\* waits for its answer.
LEMMA DeliverFacts ==
  ASSUME TypeOK, NEW h \in Relays, NEW i \in Ids, Deliver(h, i)
  PROVE  /\ UNCHANGED <<now, doc, rcv, since, printed, ack, cleared, faults>>
         /\ flight' = flight \ {<<h, i>>}
         /\ box' \in [Relays -> [Ids -> Nat \cup {Absent}]]
         /\ \A g \in Relays, j \in Ids :
              /\ Held(g, j) => box'[g][j] = box[g][j]
              /\ <<g, j>> # <<h, i>> => box'[g][j] = box[g][j]
         /\ Held(h, i)' /\ (~Held(h, i) => box'[h][i] = now)
         /\ snd' \in [Ids -> Sending]
         /\ \A j \in Ids : j # i => snd'[j] = snd[j]
         /\ snd'[i].pc = snd[i].pc /\ snd'[i].left = snd[i].left /\ snd'[i].at = snd[i].at
         /\ snd[i].pc = "posting" /\ Head(snd[i].left) = h => snd'[i].stored = box'[h][i]
         /\ ~(snd[i].pc = "posting" /\ Head(snd[i].left) = h) => snd'[i].stored = snd[i].stored
  <1> DEFINE c == snd[i]
             waits == c.pc = "posting" /\ Head(c.left) = h
             s == IF waits THEN box'[h][i] ELSE c.stored
  <1>1. /\ box \in [Relays -> [Ids -> Nat \cup {Absent}]] /\ snd \in [Ids -> Sending]
        /\ now \in Nat /\ Absent \notin Nat
    BY TypeParts DEF Absent
  <1>2. /\ UNCHANGED <<now, doc, rcv, since, printed, ack, cleared, faults>>
        /\ flight' = flight \ {<<h, i>>}
        /\ box' = [box EXCEPT ![h] = [box[h] EXCEPT ![i] = IF Held(h, i) THEN box[h][i] ELSE now]]
        /\ snd' = [snd EXCEPT ![i] = [c EXCEPT !.stored = s]]
    BY DEF Deliver, poll, acking
  <1>3. /\ box' \in [Relays -> [Ids -> Nat \cup {Absent}]]
        /\ \A g \in Relays, j \in Ids :
              /\ Held(g, j) => box'[g][j] = box[g][j]
              /\ <<g, j>> # <<h, i>> => box'[g][j] = box[g][j]
        /\ Held(h, i)' /\ (~Held(h, i) => box'[h][i] = now)
    BY <1>1, <1>2 DEF Held
  <1>4. s \in Nat \cup {Absent} /\ c \in Sending
    BY <1>1, <1>3 DEF Sending
  <1>5. (waits => s = box'[h][i]) /\ (~waits => s = c.stored)
    OBVIOUS
  <1> HIDE DEF s
  <1>6. /\ snd' \in [Ids -> Sending] /\ \A j \in Ids : j # i => snd'[j] = snd[j]
        /\ snd'[i] = [c EXCEPT !.stored = s]
    BY <1>1, <1>2, <1>4, StoredType
  <1>7. /\ snd'[i].pc = c.pc /\ snd'[i].left = c.left /\ snd'[i].at = c.at
        /\ snd'[i].stored = s
    BY <1>4, <1>6, StoredType
  <1> QED BY <1>2, <1>3, <1>5, <1>6, <1>7

\* A relay that deletes rows leaves the others.
LEMMA DeletedFacts ==
  ASSUME TypeOK, NEW h \in Relays, NEW S, Deleted(h, S)
  PROVE  /\ box' \in [Relays -> [Ids -> Nat \cup {Absent}]] /\ rcv' \in Polling
         /\ \A g \in Relays, j \in Ids :
              /\ ~(g = h /\ j \in S) => box'[g][j] = box[g][j]
              /\ Held(g, j)' => Held(g, j) /\ box'[g][j] = box[g][j] /\ ~(g = h /\ j \in S)
         /\ rcv'.pc = rcv.pc /\ rcv'.left = rcv.left /\ rcv'.seen = rcv.seen
         /\ rcv'.opened = rcv.opened /\ rcv'.due = rcv.due \ ({h} \X S)
  <1>1. box \in [Relays -> [Ids -> Nat \cup {Absent}]] /\ rcv \in Polling
    BY TypeParts
  <1>2. [i \in Ids |-> IF i \in S THEN Absent ELSE box[h][i]] \in [Ids -> Nat \cup {Absent}]
    BY <1>1
  <1>3. box' = [box EXCEPT ![h] = [i \in Ids |-> IF i \in S THEN Absent ELSE box[h][i]]]
    BY DEF Deleted
  <1>4. box' \in [Relays -> [Ids -> Nat \cup {Absent}]]
    BY <1>1, <1>2, <1>3
  <1>5. \A g \in Relays, j \in Ids :
          /\ ~(g = h /\ j \in S) => box'[g][j] = box[g][j]
          /\ g = h /\ j \in S => box'[g][j] = Absent
    BY <1>1, <1>3
  <1>6. rcv' = [rcv EXCEPT !.due = rcv.due \ ({h} \X S)]
    BY DEF Deleted
  <1> QED BY <1>1, <1>4, <1>5, <1>6 DEF Held, Polling

LEMMA EvictFacts ==
  ASSUME TypeOK, NEW h \in Relays, Evict(h)
  PROVE  \E S \in SUBSET Ids :
           /\ Deleted(h, S) /\ \A j \in S : box[h][j] + Ttl <= now
           /\ UNCHANGED <<now, doc, flight, snd, since, printed, ack, cleared, faults>>
  <1> PICK S : S = {j \in Ids : Held(h, j) /\ box[h][j] + Ttl <= now}
    OBVIOUS
  <1> QED BY DEF Evict, sender, acking

LEMMA FaultType == ASSUME TypeOK, Fault PROVE faults' \in 0..Faults
  BY RoutesAssumption DEF TypeOK, Fault

\* The calls of send.
LEMMA SendType ==
  ASSUME TypeOK, NEW i \in Ids,
         \/ Resolve(i) \/ Unresolved(i)
         \/ Accepted(i) \/ NextRelay(i) \/ Conflict(i) \/ Unreachable(i)
  PROVE  TypeOK'
  <1>1. /\ UNCHANGED <<now, doc, box, rcv, since, printed, ack, cleared>>
        /\ faults' \in 0..Faults
    BY FaultType DEF TypeOK, Resolve, Unresolved, Accepted, NextRelay, Conflict, Unreachable, Posting,
       network, poll, acking
  <1>2. snd[i] \in Sending /\ (snd[i].pc = "posting" => snd[i].left # <<>>)
    BY TypeParts
  <1>3. ASSUME NEW route \in Seq(Relays), route # <<>>, Posting(i, route)
        PROVE  /\ flight' \subseteq Relays \X Ids /\ snd' \in [Ids -> Sending]
               /\ \A j \in Ids : /\ snd'[j].pc = "posting" => snd'[j].left # <<>>
                                 /\ snd'[j].pc = "sent" => snd'[j].at # None
    <2>1. Head(route) \in Relays
      BY <1>3
    <2>2. [snd[i] EXCEPT !.pc = "posting", !.left = route] \in Sending
      BY <1>2 DEF Sending
    <2>3. snd' = [snd EXCEPT ![i] = [snd[i] EXCEPT !.pc = "posting", !.left = route]]
      BY <1>3 DEF Posting
    <2>4. snd'[i].pc = "posting" /\ snd'[i].left = route
      BY <2>3, <1>2, TypeParts DEF Sending
    <2> QED BY <1>3, <2>1, <2>2, <2>3, <2>4, TypeParts DEF Posting
  <1>4. ASSUME flight' \subseteq Relays \X Ids, snd' \in [Ids -> Sending],
               \A j \in Ids : /\ snd'[j].pc = "posting" => snd'[j].left # <<>>
                              /\ snd'[j].pc = "sent" => snd'[j].at # None
        PROVE  TypeOK'
    BY <1>1, <1>4, TypeParts DEF TypeOK, Sending, Polling, Acking, Clearing
  <1>5. ASSUME NEW x \in Sending, x.pc # "posting", x.pc = "sent" => x.at # None,
               snd' = [snd EXCEPT ![i] = x], UNCHANGED flight
        PROVE  TypeOK'
    BY <1>4, <1>5, TypeParts
  <1>6. CASE Resolve(i)
    BY <1>3, <1>4, <1>6, InboxFacts DEF Resolve
  <1>7. CASE Unresolved(i)
    <2>1. snd' = [snd EXCEPT ![i] = [snd[i] EXCEPT !.pc = "unresolved"]] /\ UNCHANGED flight
      BY <1>7 DEF Unresolved, network
    <2>2. [snd[i] EXCEPT !.pc = "unresolved"] \in Sending
          /\ [snd[i] EXCEPT !.pc = "unresolved"].pc = "unresolved"
      BY <1>2 DEF Sending
    <2> QED BY <2>1, <2>2, <1>5
  <1>8. CASE Accepted(i)
    <2> DEFINE x == [snd[i] EXCEPT !.pc = "sent", !.at = Head(snd[i].left)]
    <2>1. snd' = [snd EXCEPT ![i] = x] /\ UNCHANGED flight
      BY <1>8 DEF Accepted, network
    <2>2. Head(snd[i].left) \in Relays
      BY <1>2, <1>8, TailFacts DEF Accepted, Sending
    <2>3. x \in Sending /\ x.pc = "sent" /\ x.at # None
      BY <2>2, <1>2, RoutesAssumption DEF Sending
    <2> HIDE DEF x
    <2> QED BY <2>1, <2>3, <1>5
  <1>9. CASE NextRelay(i)
    <2>0. snd[i].left \in Seq(Relays) /\ snd[i].left # <<>>
      BY <1>2, <1>9 DEF NextRelay, Sending
    <2>1. CASE Len(snd[i].left) > 1
      <3>1. Posting(i, Tail(snd[i].left)) /\ Tail(snd[i].left) \in Seq(Relays)
            /\ Tail(snd[i].left) # <<>>
        BY <1>9, <2>0, <2>1, TailFacts DEF NextRelay
      <3> QED BY <3>1, <1>3, <1>4
    <2>2. CASE ~(Len(snd[i].left) > 1)
      <3> DEFINE x == [snd[i] EXCEPT !.pc = "failed", !.left = <<>>]
      <3>1. snd' = [snd EXCEPT ![i] = x] /\ UNCHANGED flight
        BY <1>9, <2>2 DEF NextRelay
      <3>0. <<>> \in Seq(Relays)
        OBVIOUS
      <3>2. x \in Sending /\ x.pc = "failed"
        BY <1>2, <3>0 DEF Sending
      <3> HIDE DEF x
      <3> QED BY <3>1, <3>2, <1>5
    <2> QED BY <2>1, <2>2
  <1>10. CASE Conflict(i)
    <2> DEFINE x == [snd[i] EXCEPT !.pc = "failed", !.conflict = TRUE]
    <2>1. snd' = [snd EXCEPT ![i] = x] /\ UNCHANGED flight
      BY <1>10 DEF Conflict, network
    <2>2. x \in Sending /\ x.pc = "failed"
      BY <1>2 DEF Sending
    <2> HIDE DEF x
    <2> QED BY <2>1, <2>2, <1>5
  <1>11. CASE Unreachable(i)
    <2> DEFINE x == [snd[i] EXCEPT !.pc = "failed"]
    <2>1. snd' = [snd EXCEPT ![i] = x] /\ UNCHANGED flight
      BY <1>11 DEF Unreachable, network
    <2>2. x \in Sending /\ x.pc = "failed"
      BY <1>2 DEF Sending
    <2> HIDE DEF x
    <2> QED BY <2>1, <2>2, <1>5
  <1> QED BY <1>6, <1>7, <1>8, <1>9, <1>10, <1>11

\* The fields of a call of receive, and what a step makes of them.
LEMMA PollFields ==
  ASSUME NEW r \in Polling
  PROVE  /\ r.pc \in {"idle", "polling"} /\ r.left \in Seq(Relays) /\ r.seen \subseteq Ids
         /\ r.opened \in [Ids -> Nat] /\ r.due \subseteq Relays \X Ids
  BY DEF Polling

\* The calls of receive.
LEMMA ReceiveType == ASSUME TypeOK, Receive PROVE TypeOK'
  <1>1. /\ UNCHANGED <<now, doc, box, flight, snd, ack, cleared>>
        /\ faults' \in 0..Faults
    BY FaultType DEF TypeOK, Receive, BeginPoll, PickUp, PickUpRefused, PollThrows, EndPoll, Restart,
       PickUpSome, network, sender, acking
  <1>2. ASSUME rcv' \in Polling, since' \in Nat, printed' \subseteq Ids
        PROVE  TypeOK'
    BY <1>1, <1>2 DEF TypeOK, Polling
  <1>3. rcv \in Polling /\ NotPolling \in Polling /\ since \in Nat /\ now \in Nat
        /\ printed \subseteq Ids
    BY TypeParts DEF NotPolling, Polling
  <1>4. \A h : Picked(h) \subseteq Ids
    BY DEF Picked
  <1>5. CASE BeginPoll
    <2>1. UNION {{h} \X Picked(h) : h \in ToSet(Inbox)} \subseteq Relays \X Ids
      BY <1>4, InboxFacts
    <2>2. rcv' \in Polling
      BY <1>5, <2>1, InboxFacts DEF BeginPoll, NotPolling, Polling
    <2> QED BY <1>2, <1>3, <1>5, <2>2 DEF BeginPoll
  <1>6. ASSUME NEW bad \in SUBSET Ids, rcv.left # <<>>, Opened(Head(rcv.left), bad),
               UNCHANGED <<since, printed>>
        PROVE  TypeOK'
    <2> DEFINE fresh == Picked(Head(rcv.left)) \ rcv.seen
               opens == [i \in Ids |-> rcv.opened[i] + (IF i \in fresh \ bad THEN 1 ELSE 0)]
    <2>1. rcv' = [rcv EXCEPT !.left = Tail(rcv.left), !.seen = rcv.seen \cup fresh,
                             !.opened = opens, !.due = {p \in rcv.due : p[2] \notin bad}]
      BY <1>6 DEF Opened
    <2>2. /\ opens \in [Ids -> Nat] /\ Tail(rcv.left) \in Seq(Relays)
          /\ rcv.seen \cup fresh \subseteq Ids
          /\ {p \in rcv.due : p[2] \notin bad} \subseteq Relays \X Ids
      BY <1>3, <1>4, <1>6, PollFields
    <2> HIDE DEF opens, fresh
    <2>3. rcv' \in Polling
      BY <1>3, <2>1, <2>2 DEF Polling
    <2> QED BY <1>2, <1>3, <1>6, <2>3
  <1>7. CASE PickUp
    BY <1>6, <1>7 DEF PickUp
  <1>8. ASSUME NEW bad \in SUBSET Ids, PickUpSome(bad) PROVE TypeOK'
    BY <1>6, <1>8 DEF PickUpSome
  <1>9. CASE PickUpRefused
    <2>1. /\ Tail(rcv.left) \in Seq(Relays)
          /\ {p \in rcv.due : p[1] # Head(rcv.left)} \subseteq Relays \X Ids
      BY <1>3, <1>9, PollFields DEF PickUpRefused
    <2>2. rcv' \in Polling
      BY <1>3, <1>9, <2>1 DEF PickUpRefused, Polling
    <2> QED BY <1>2, <1>3, <1>9, <2>2 DEF PickUpRefused
  <1>10. CASE PollThrows
    BY <1>2, <1>3, <1>10 DEF PollThrows
  <1>11. CASE EndPoll
    BY <1>2, <1>3, <1>11 DEF EndPoll
  <1>12. CASE Restart
    BY <1>2, <1>3, <1>12 DEF Restart
  <1> QED BY <1>5, <1>7, <1>8, <1>9, <1>10, <1>11, <1>12 DEF Receive

\* The calls of ack.
LEMMA AckType == ASSUME TypeOK, Ack PROVE TypeOK'
  <1>1. /\ UNCHANGED <<now, doc, flight, snd, since, printed>>
        /\ faults' \in 0..Faults
    BY FaultType DEF TypeOK, Ack, BeginAck, AckAnswered, AckRefused, AckThrows, EndAck,
       network, sender, poll
  <1>2. ASSUME box' \in [Relays -> [Ids -> Nat \cup {Absent}]], rcv' \in Polling,
               ack' \in Acking, cleared' \in [Ids -> Clearing]
        PROVE  TypeOK'
    BY <1>1, <1>2 DEF TypeOK, Polling, Acking, Clearing
  <1>3. /\ box \in [Relays -> [Ids -> Nat \cup {Absent}]] /\ rcv \in Polling
        /\ ack \in Acking /\ cleared \in [Ids -> Clearing] /\ now \in Nat
        /\ NotAcking \in Acking /\ printed \subseteq Ids
    BY TypeParts DEF NotAcking, Acking
  <1>4. ASSUME NEW h \in Relays, Dropped(h)
        PROVE  box' \in [Relays -> [Ids -> Nat \cup {Absent}]] /\ rcv' \in Polling
    BY <1>4, DeletedFacts DEF Dropped
  <1>5. ASSUME NEW S \in SUBSET printed, BeginAck(S) PROVE TypeOK'
    <2>1. ack' \in Acking
      BY <1>3, <1>5, InboxFacts DEF BeginAck, NotAcking, Acking
    <2> QED BY <1>2, <1>3, <1>5, <2>1 DEF BeginAck, network, poll
  <1>6. ack.left # <<>> => Head(ack.left) \in Relays /\ Tail(ack.left) \in Seq(Relays)
    BY <1>3, TailFacts DEF Acking
  <1>7. CASE AckAnswered
    <2>1. ack' \in Acking
      BY <1>3, <1>6, <1>7 DEF AckAnswered, Acking
    <2> QED BY <1>2, <1>3, <1>4, <1>6, <1>7, <2>1 DEF AckAnswered
  <1>8. CASE AckRefused
    <2>1. ack' \in Acking
      BY <1>3, <1>6, <1>8 DEF AckRefused, Acking
    <2> QED BY <1>2, <1>3, <1>4, <1>6, <1>8, <2>1 DEF AckRefused
  <1>9. CASE AckThrows
    BY <1>2, <1>3, <1>4, <1>6, <1>9 DEF AckThrows
  <1>10. CASE EndAck
    <2>1. [began |-> ack.began, asked |-> ack.asked, refused |-> ack.refused] \in Clearing
      BY <1>3 DEF Acking, Clearing
    <2>2. cleared' \in [Ids -> Clearing]
      BY <1>3, <1>10, <2>1 DEF EndAck
    <2> QED BY <1>2, <1>3, <1>10, <2>2 DEF EndAck, network, poll
  <1> QED BY <1>5, <1>7, <1>8, <1>9, <1>10 DEF Ack

LEMMA TypeNext == TypeOK /\ [Next]_vars => TypeOK'
  <1> SUFFICES ASSUME TypeOK, [Next]_vars PROVE TypeOK'
    OBVIOUS
  <1>1. CASE Tick
    BY <1>1 DEF Tick, TypeOK, network, sender, poll, acking
  <1>2. ASSUME NEW l \in Lists, Publish(l) PROVE TypeOK'
    BY <1>2 DEF Publish, TypeOK, network, sender, poll, acking
  <1>3. ASSUME NEW h \in Relays, NEW i \in Ids, Deliver(h, i) PROVE TypeOK'
    <2>1. \A j \in Ids : /\ snd'[j].pc = "posting" => snd'[j].left # <<>>
                         /\ snd'[j].pc = "sent" => snd'[j].at # None
      BY <1>3, DeliverFacts, TypeParts
    <2>2. /\ UNCHANGED <<now, doc, rcv, since, printed, ack, cleared, faults>>
          /\ flight' \subseteq flight /\ snd' \in [Ids -> Sending]
          /\ box' \in [Relays -> [Ids -> Nat \cup {Absent}]]
      BY <1>3, DeliverFacts
    <2> QED BY <2>1, <2>2 DEF TypeOK, Sending
  <1>4. CASE UNCHANGED vars
    BY <1>4 DEF vars, TypeOK, network, sender, poll, acking
  <1>5. ASSUME NEW h \in Relays, Evict(h) PROVE TypeOK'
    <2>1. /\ box' \in [Relays -> [Ids -> Nat \cup {Absent}]] /\ rcv' \in Polling
          /\ UNCHANGED <<now, doc, flight, snd, since, printed, ack, cleared, faults>>
      BY <1>5, EvictFacts, DeletedFacts
    <2> QED BY <2>1 DEF TypeOK, Polling
  <1> QED BY <1>1, <1>2, <1>3, <1>4, <1>5, SendType, ReceiveType, AckType DEF Next, Send

-----------------------------------------------------------------------------
(* A send that returned. *)

\* The copy that a relay told the sender of is there, or has been shown, or is old.
Kept(h, i) ==
  \/ Held(h, i) /\ box[h][i] = snd[i].stored
  \/ i \in printed
  \/ snd[i].stored # Absent /\ snd[i].stored + Ttl <= now

\* What a send that is not yet answered may still count on: the copy it posts is on
\* its way or kept.  An ack names what has been shown only.
SendInv ==
  /\ \A i \in Ids : snd[i].pc = "posting" =>
       <<Head(snd[i].left), i>> \in flight \/ Kept(Head(snd[i].left), i)
  /\ \A i \in Ids : snd[i].pc = "sent" => Kept(snd[i].at, i)
  /\ ack.ids \subseteq printed

LEMMA SendInit == Init => SendInv
  BY DEF Init, SendInv, Unsent, NotAcking

\* The relays that the calls of send name.
LEMMA SendRelays ==
  ASSUME TypeOK
  PROVE  \A i \in Ids : /\ snd[i].pc = "posting" => Head(snd[i].left) \in Relays
                        /\ snd[i].pc = "sent" => snd[i].at \in Relays
  BY TailFacts DEF TypeOK

\* A copy that is held stays, unless an ack drops it or it expires.
LEMMA CopiesKept ==
  ASSUME SendInv, TypeOK, UNCHANGED <<snd, flight>>, printed \subseteq printed',
         ack'.ids \subseteq printed', now' \in Nat, now <= now',
         \A h \in Relays, i \in Ids :
           Held(h, i) => \/ Held(h, i)' /\ box'[h][i] = box[h][i]
                         \/ i \in printed \/ box[h][i] + Ttl <= now
  PROVE  SendInv'
  <1>1. /\ box \in [Relays -> [Ids -> Nat \cup {Absent}]] /\ snd \in [Ids -> Sending]
        /\ now \in Nat
    BY TypeParts
  <1>2. ASSUME NEW h \in Relays, NEW i \in Ids, Kept(h, i) PROVE Kept(h, i)'
    <2>1. snd[i].stored \in Nat \cup {Absent}
      BY <1>1 DEF Sending
    <2>2. CASE snd[i].stored # Absent /\ snd[i].stored + Ttl <= now
      BY <1>1, <2>1, <2>2, RoutesAssumption DEF Kept
    <2>3. CASE i \in printed
      BY <2>3 DEF Kept
    <2>4. CASE Held(h, i) /\ box[h][i] = snd[i].stored
      BY <1>1, <2>1, <2>2, <2>3, <2>4 DEF Kept, Held
    <2> QED BY <1>2, <2>2, <2>3, <2>4 DEF Kept
  <1> QED BY <1>2, SendRelays DEF SendInv

LEMMA SendNext == TypeOK /\ SendInv /\ [Next]_vars => SendInv'
  <1> SUFFICES ASSUME TypeOK, SendInv, [Next]_vars PROVE SendInv'
    OBVIOUS
  <1>0. /\ box \in [Relays -> [Ids -> Nat \cup {Absent}]] /\ snd \in [Ids -> Sending] /\ ack \in Acking
        /\ now \in Nat /\ Absent \notin Nat
    BY TypeParts DEF Absent
  <1>1. ASSUME UNCHANGED <<box, flight, snd>>, printed \subseteq printed', ack'.ids \subseteq printed',
               now' \in Nat, now <= now'
        PROVE  SendInv'
    BY <1>1, CopiesKept DEF Held
  <1>2. ASSUME NEW h \in Relays, NEW i \in Ids, Deliver(h, i) PROVE SendInv'
    <2>1. ASSUME NEW g \in Relays, NEW j \in Ids, Kept(g, j), snd'[j].stored = snd[j].stored
          PROVE  Kept(g, j)'
      BY <1>0, <1>2, <2>1, DeliverFacts DEF Kept, Held
    <2>2. ASSUME NEW j \in Ids, (snd[j].pc = "posting")'
          PROVE  (<<Head(snd[j].left), j>> \in flight \/ Kept(Head(snd[j].left), j))'
      <3> PICK r : r = Head(snd[j].left)
        OBVIOUS
      <3>1. /\ snd[j].pc = "posting" /\ snd'[j].left = snd[j].left
            /\ flight' = flight \ {<<h, i>>} /\ r \in Relays
        BY <1>2, <2>2, DeliverFacts, SendRelays
      <3>2. CASE j = i /\ r = h
        <4>1. Held(r, j)' /\ snd'[j].stored = box'[r][j]
          BY <1>2, <3>1, <3>2, DeliverFacts
        <4>2. Kept(r, j)'
          BY <4>1 DEF Kept
        <4> QED BY <3>1, <4>2
      <3>3. CASE ~(j = i /\ r = h)
        <4>1. snd'[j].stored = snd[j].stored
          BY <1>2, <3>1, <3>3, DeliverFacts
        <4>2. <<r, j>> \in flight \/ Kept(r, j)
          BY <3>1 DEF SendInv
        <4>3. <<r, j>> \in flight' \/ Kept(r, j)'
          BY <2>1, <3>1, <3>3, <4>1, <4>2
        <4> QED BY <3>1, <4>3
      <3> QED BY <3>2, <3>3
    <2>3. ASSUME NEW j \in Ids, (snd[j].pc = "sent")' PROVE Kept(snd[j].at, j)'
      <3> PICK r : r = snd[j].at
        OBVIOUS
      <3>1. /\ snd[j].pc = "sent" /\ snd'[j].at = r /\ snd'[j].stored = snd[j].stored
            /\ r \in Relays
        BY <1>2, <2>3, DeliverFacts, SendRelays
      <3>2. Kept(r, j)'
        BY <2>1, <3>1 DEF SendInv
      <3> QED BY <3>1, <3>2
    <2>4. UNCHANGED <<ack, printed>>
      BY <1>2, DeliverFacts
    <2> QED BY <2>2, <2>3, <2>4 DEF SendInv
  <1>3. ASSUME NEW h \in Relays, NEW S, Deleted(h, S), UNCHANGED <<now, flight, snd, printed>>,
               ack'.ids \subseteq printed,
               \A j \in S : j \in printed \/ box[h][j] + Ttl <= now
        PROVE  SendInv'
    <2>1. \A g \in Relays, j \in Ids :
            Held(g, j) => \/ Held(g, j)' /\ box'[g][j] = box[g][j]
                          \/ j \in printed \/ box[g][j] + Ttl <= now
      BY <1>3, DeletedFacts DEF Held
    <2> QED BY <1>0, <1>3, <2>1, CopiesKept
  <1>4. ASSUME NEW i \in Ids, NEW route \in Seq(Relays), route # <<>>, Posting(i, route),
               UNCHANGED <<now, box, printed, ack>>
        PROVE  SendInv'
    <2>1. /\ snd'[i].pc = "posting" /\ snd'[i].left = route
          /\ \A j \in Ids : j # i => snd'[j] = snd[j]
          /\ flight' = flight \cup {<<Head(route), i>>}
      BY <1>0, <1>4 DEF Posting, Sending
    <2> QED BY <1>4, <2>1 DEF SendInv, Kept, Held
  <1>5. ASSUME NEW i \in Ids, snd'[i].pc \notin {"posting", "sent"},
               \A j \in Ids : j # i => snd'[j] = snd[j],
               UNCHANGED <<now, box, flight, printed, ack>>
        PROVE  SendInv'
    BY <1>5 DEF SendInv, Kept, Held
  <1>6. ASSUME NEW i \in Ids, Resolve(i) PROVE SendInv'
    BY <1>4, <1>6, InboxFacts DEF Resolve, poll, acking
  <1>7. ASSUME NEW i \in Ids, Unresolved(i) \/ Conflict(i) \/ Unreachable(i) PROVE SendInv'
    <2>1. /\ snd'[i].pc \notin {"posting", "sent"} /\ \A j \in Ids : j # i => snd'[j] = snd[j]
          /\ UNCHANGED <<now, box, flight, printed, ack>>
      BY <1>0, <1>7 DEF Unresolved, Conflict, Unreachable, Sending, network, poll, acking
    <2> QED BY <1>5, <2>1
  <1>8. ASSUME NEW i \in Ids, Accepted(i) PROVE SendInv'
    <2>1. /\ snd'[i].pc = "sent" /\ snd'[i].at = Head(snd[i].left)
          /\ \A j \in Ids : j # i => snd'[j] = snd[j]
          /\ <<Head(snd[i].left), i>> \notin flight /\ snd[i].pc = "posting"
          /\ snd'[i].stored = snd[i].stored
          /\ UNCHANGED <<now, box, flight, printed, ack>>
      BY <1>0, <1>8 DEF Accepted, Sending, network, poll, acking
    <2> QED BY <2>1 DEF SendInv, Kept, Held
  <1>9. ASSUME NEW i \in Ids, NextRelay(i) PROVE SendInv'
    <2>1. snd[i].left \in Seq(Relays) /\ snd[i].left # <<>> /\ UNCHANGED <<now, box, printed, ack>>
      BY <1>9 DEF NextRelay, TypeOK, poll, acking
    <2>2. CASE Len(snd[i].left) > 1
      BY <1>4, <1>9, <2>1, <2>2, TailFacts DEF NextRelay
    <2>3. CASE ~(Len(snd[i].left) > 1)
      <3>1. /\ snd'[i].pc = "failed" /\ \A j \in Ids : j # i => snd'[j] = snd[j]
            /\ UNCHANGED flight
        BY <1>0, <1>9, <2>3 DEF NextRelay, Sending
      <3> QED BY <1>5, <2>1, <3>1
    <2> QED BY <2>2, <2>3
  <1>10. CASE Receive
    <2>1. UNCHANGED <<now, box, flight, snd, ack>> /\ printed \subseteq printed'
      BY <1>10 DEF Receive, BeginPoll, PickUp, PickUpSome, PickUpRefused, PollThrows, EndPoll, Restart,
         network, sender, acking
    <2> QED BY <1>0, <1>1, <2>1 DEF SendInv
  <1>11. ASSUME NEW S \in SUBSET printed, BeginAck(S) PROVE SendInv'
    <2>1. ack'.ids = S /\ UNCHANGED <<now, box, flight, snd, printed>>
      BY <1>11 DEF BeginAck, NotAcking, network, sender, poll
    <2> QED BY <1>0, <1>1, <2>1
  <1>12. CASE AckAnswered \/ AckRefused \/ AckThrows
    <2>1. ack.left \in Seq(Relays) /\ ack.left # <<>> /\ UNCHANGED <<now, flight, snd, printed>>
      BY <1>12 DEF AckAnswered, AckRefused, AckThrows, TypeOK, sender
    <2>2. Head(ack.left) \in Relays
      BY <2>1, TailFacts
    <2>3. ack'.ids \subseteq printed
      <3>1. CASE AckAnswered \/ AckRefused
        BY <1>0, <3>1 DEF AckAnswered, AckRefused, Acking, SendInv
      <3>2. CASE AckThrows
        BY <3>2 DEF AckThrows, NotAcking
      <3> QED BY <1>12, <3>1, <3>2
    <2>4. Deleted(Head(ack.left), ack.ids) \/ UNCHANGED box
      BY <1>12 DEF AckAnswered, AckRefused, AckThrows, Dropped
    <2>5. ack.ids \subseteq printed
      BY DEF SendInv
    <2> QED BY <2>1, <2>2, <2>3, <2>4, <2>5, <1>0, <1>1, <1>3
  <1>13. CASE EndAck
    BY <1>0, <1>1, <1>13 DEF EndAck, NotAcking, network, sender, poll
  <1>14. CASE Tick \/ (\E l \in Lists : Publish(l)) \/ UNCHANGED vars
    BY <1>0, <1>1, <1>14 DEF Tick, Publish, vars, network, sender, poll, acking, SendInv
  <1>15. ASSUME NEW h \in Relays, Evict(h) PROVE SendInv'
    <2>1. PICK S : /\ Deleted(h, S) /\ \A j \in S : box[h][j] + Ttl <= now
                   /\ UNCHANGED <<now, flight, snd, printed, ack>>
      BY <1>15, EvictFacts
    <2> QED BY <1>3, <2>1 DEF SendInv
  <1> QED
    BY <1>2, <1>6, <1>7, <1>8, <1>9, <1>10, <1>11, <1>12, <1>13, <1>14, <1>15 DEF Next, Send, Ack

\* An envelope whose send returned is held by the relay the result names, since the
\* time it names, until the recipient has been shown it or its lifetime is over, for any
\* number of relays, calls, evictions and faults.
THEOREM SentStaysHeld == Spec => []SentIsHeld
  <1>1. TypeOK /\ SendInv => SentIsHeld
    BY DEF SentIsHeld, SendInv, Kept
  <1> QED BY <1>1, TypeInit, TypeNext, SendInit, SendNext, PTL DEF Spec
-----------------------------------------------------------------------------
(* A call of receive. *)

\* What a call of receive has still to see it will see: at a relay it has yet to ask.
\* It has opened what is due and was seen elsewhere, and nothing twice.
PollInv ==
  /\ \A i \in Ids : rcv.opened[i] <= 1 /\ (rcv.opened[i] > 0 => i \in rcv.seen)
  /\ \A p \in rcv.due : \/ rcv.opened[p[2]] > 0
                        \/ p[1] \in ToSet(rcv.left) /\ p[2] \in Picked(p[1])
  /\ \A p \in rcv.due : p[2] \in rcv.seen => rcv.opened[p[2]] > 0

LEMMA PollIdle == NotPolling.due = {} /\ \A i \in Ids : NotPolling.opened[i] = 0
  BY DEF NotPolling

LEMMA PollInit == Init => PollInv
  BY PollIdle DEF Init, PollInv

\* An answered pickup settles what is due at its relay.
LEMMA OpenedPoll ==
  ASSUME TypeOK, PollInv, rcv.left # <<>>, NEW bad \in SUBSET Ids,
         Opened(Head(rcv.left), bad), UNCHANGED <<box, since>>
  PROVE  PollInv'
  <1> DEFINE h == Head(rcv.left)
             fresh == Picked(h) \ rcv.seen
  <1>1. /\ rcv \in Polling /\ h \in Relays /\ ToSet(rcv.left) = {h} \cup ToSet(Tail(rcv.left))
    BY TypeParts, TailFacts DEF Polling
  <1>2. /\ rcv'.left = Tail(rcv.left) /\ rcv'.seen = rcv.seen \cup fresh
        /\ \A i \in Ids : rcv'.opened[i] = rcv.opened[i] + (IF i \in fresh \ bad THEN 1 ELSE 0)
        /\ rcv'.due = {p \in rcv.due : p[2] \notin bad}
    BY <1>1 DEF Opened, Polling
  <1>3. rcv.opened \in [Ids -> Nat] /\ rcv.due \subseteq Relays \X Ids
    BY <1>1, PollFields
  <1>4. \A g : Picked(g)' = Picked(g)
    BY DEF Picked, Held
  <1> HIDE DEF h
  <1>5. \A i \in Ids : rcv'.opened[i] <= 1 /\ (rcv'.opened[i] > 0 => i \in rcv'.seen)
    BY <1>2, <1>3 DEF PollInv
  <1>6. ASSUME NEW p \in rcv'.due
        PROVE  /\ rcv'.opened[p[2]] > 0 \/ (p[1] \in ToSet(rcv'.left) /\ p[2] \in Picked(p[1])')
               /\ p[2] \in rcv'.seen => rcv'.opened[p[2]] > 0
    <2>1. p \in rcv.due /\ p[2] \in Ids /\ p[2] \notin bad
      BY <1>2, <1>3, <1>6
    <2>2. rcv.opened[p[2]] > 0 \/ p[2] \in fresh => rcv'.opened[p[2]] > 0
      BY <1>2, <1>3, <2>1
    <2>3. p[2] \in rcv.seen => rcv.opened[p[2]] > 0
      BY <2>1 DEF PollInv
    <2>4. rcv.opened[p[2]] > 0 \/ (p[1] \in ToSet(rcv.left) /\ p[2] \in Picked(p[1]))
      BY <2>1 DEF PollInv
    <2> QED BY <1>1, <1>2, <1>4, <2>2, <2>3, <2>4
  <1> QED BY <1>5, <1>6 DEF PollInv

LEMMA PollNext == TypeOK /\ PollInv /\ [Next]_vars => PollInv'
  <1> SUFFICES ASSUME TypeOK, PollInv, [Next]_vars PROVE PollInv'
    OBVIOUS
  <1>0. /\ box \in [Relays -> [Ids -> Nat \cup {Absent}]] /\ rcv \in Polling /\ now \in Nat
        /\ since \in Nat /\ rcv.due \subseteq Relays \X Ids /\ rcv.opened \in [Ids -> Nat]
    BY TypeParts, PollFields
  <1>1. ASSUME UNCHANGED <<box, rcv, since>> PROVE PollInv'
    BY <1>1 DEF PollInv, Picked, Held
  <1>2. ASSUME rcv' = NotPolling PROVE PollInv'
    BY <1>2, PollIdle DEF PollInv
  <1>3. ASSUME NEW h \in Relays, NEW i \in Ids, Deliver(h, i) PROVE PollInv'
    <2>1. UNCHANGED <<rcv, since>>
      BY <1>3, DeliverFacts
    <2>2. \A g \in Relays, j \in Ids : Held(g, j) => box'[g][j] = box[g][j]
      BY <1>3, DeliverFacts
    <2>3. \A g \in Relays : Picked(g) \subseteq Picked(g)'
      BY <2>1, <2>2 DEF Picked, Held
    <2> QED BY <1>0, <2>1, <2>3 DEF PollInv
  <1>4. CASE BeginPoll
    <2>1. /\ rcv'.left = Inbox /\ rcv'.seen = {} /\ \A i \in Ids : rcv'.opened[i] = 0
          /\ rcv'.due = UNION {{h} \X Picked(h) : h \in ToSet(Inbox)}
          /\ UNCHANGED <<box, since>>
      BY <1>4 DEF BeginPoll, NotPolling, network
    <2>2. \A g : Picked(g)' = Picked(g)
      BY <2>1 DEF Picked, Held
    <2> QED BY <2>1, <2>2 DEF PollInv
  <1>5. CASE PickUp
    BY <1>5, OpenedPoll DEF PickUp, network
  <1>6. ASSUME NEW bad \in SUBSET Ids, PickUpSome(bad) PROVE PollInv'
    BY <1>6, OpenedPoll DEF PickUpSome, network
  <1>7. CASE PickUpRefused
    <2>1. /\ rcv'.left = Tail(rcv.left) /\ rcv'.seen = rcv.seen /\ rcv'.opened = rcv.opened
          /\ rcv'.due = {p \in rcv.due : p[1] # Head(rcv.left)}
          /\ UNCHANGED <<box, since>> /\ rcv.left \in Seq(Relays) /\ rcv.left # <<>>
      BY <1>0, <1>7 DEF PickUpRefused, Polling, network
    <2>2. ToSet(rcv.left) = {Head(rcv.left)} \cup ToSet(rcv'.left)
      BY <2>1, TailFacts
    <2>3. \A g : Picked(g)' = Picked(g)
      BY <2>1 DEF Picked, Held
    <2> QED BY <2>1, <2>2, <2>3 DEF PollInv
  <1>8. CASE PollThrows \/ EndPoll \/ Restart
    BY <1>2, <1>8 DEF PollThrows, EndPoll, Restart
  <1>9. ASSUME NEW h \in Relays, NEW S, Deleted(h, S), UNCHANGED since PROVE PollInv'
    <2>1. /\ rcv'.left = rcv.left /\ rcv'.seen = rcv.seen /\ rcv'.opened = rcv.opened
          /\ rcv'.due = rcv.due \ ({h} \X S)
      BY <1>9, DeletedFacts
    <2>2. \A g \in Relays, j \in Ids : <<g, j>> \notin {h} \X S => box'[g][j] = box[g][j]
      BY <1>9, DeletedFacts
    <2>3. \A p \in rcv'.due : p[2] \in Picked(p[1]) => p[2] \in Picked(p[1])'
      BY <1>0, <1>9, <2>1, <2>2 DEF Picked, Held
    <2> QED BY <1>0, <2>1, <2>3 DEF PollInv
  <1>10. CASE AckAnswered \/ AckRefused \/ AckThrows
    <2>1. ack.left \in Seq(Relays) /\ ack.left # <<>> /\ UNCHANGED since
      BY <1>10 DEF AckAnswered, AckRefused, AckThrows, TypeOK
    <2>2. Head(ack.left) \in Relays
      BY <2>1, TailFacts
    <2>3. Deleted(Head(ack.left), ack.ids) \/ UNCHANGED <<box, rcv>>
      BY <1>10 DEF AckAnswered, AckRefused, AckThrows, Dropped
    <2> QED BY <2>1, <2>2, <2>3, <1>1, <1>9
  <1>11. CASE (\E S \in SUBSET printed : BeginAck(S)) \/ EndAck
    BY <1>1, <1>11 DEF BeginAck, EndAck, network, poll
  <1>12. CASE Send
    BY <1>1, <1>12 DEF Send, Resolve, Unresolved, Accepted, NextRelay, Conflict, Unreachable, network,
       poll
  <1>13. CASE Tick \/ (\E l \in Lists : Publish(l)) \/ UNCHANGED vars
    BY <1>1, <1>13 DEF Tick, Publish, vars, network, poll
  <1>14. ASSUME NEW h \in Relays, Evict(h) PROVE PollInv'
    BY <1>9, <1>14, EvictFacts
  <1> QED
    BY <1>3, <1>4, <1>5, <1>6, <1>7, <1>8, <1>10, <1>11, <1>12, <1>13, <1>14 DEF Next, Receive, Ack

\* A call of receive returns an envelope once, however many relays hold a copy.
THEOREM ShownOncePerCall == Spec => []OncePerCall
  <1>1. PollInv => OncePerCall
    BY DEF PollInv, OncePerCall
  <1> QED BY <1>1, TypeInit, TypeNext, PollInit, PollNext, PTL DEF Spec

\* A call of receive that returns has everything that a relay held when the call began
\* and still held when it answered, but what failed to verify.
THEOREM CallsAreComplete == Spec => []CallIsComplete
  <1>1. PollInv => CallIsComplete
    BY DEF PollInv, CallIsComplete, ToSet
  <1> QED BY <1>1, TypeInit, TypeNext, PollInit, PollNext, PTL DEF Spec

-----------------------------------------------------------------------------
(* A call of ack. *)

\* A relay that a call of ack is through with holds no copy that is older than the call.
AckInv ==
  /\ ack.began <= now
  /\ \A i \in Ids : cleared[i].began <= now
  /\ \A h \in ack.asked \ ack.refused :
       \/ h \in ToSet(ack.left)
       \/ \A i \in ack.ids : Held(h, i) => box[h][i] >= ack.began
  /\ AckClears

LEMMA AckInit == Init => AckInv
  BY DEF Init, AckInv, AckClears, NotAcking, Never

\* A step that adds no copy but one stamped now, and lets the clock run.
LEMMA CopiesNewer ==
  ASSUME TypeOK, AckInv, UNCHANGED <<ack, cleared>>, now' \in Nat, now' >= now,
         \A h \in Relays, i \in Ids : Held(h, i)' => box'[h][i] = now \/ (Held(h, i) /\ box'[h][i] = box[h][i])
  PROVE  AckInv'
  <1>1. ack \in Acking /\ cleared \in [Ids -> Clearing] /\ now \in Nat
    BY TypeParts
  <1>2. ack'.began <= now' /\ \A i \in Ids : cleared'[i].began <= now'
    BY <1>1 DEF AckInv, Acking, Clearing
  <1>3. ASSUME NEW h \in ack.asked \ ack.refused
        PROVE  h \in ToSet(ack.left) \/ \A i \in ack.ids : Held(h, i)' => box'[h][i] >= ack.began
    BY <1>1 DEF AckInv, Acking
  <1>4. ASSUME NEW i \in Ids, NEW h \in cleared[i].asked \ cleared[i].refused, Held(h, i)'
        PROVE  box'[h][i] >= cleared[i].began
    <2>1. h \in Relays /\ cleared[i].began \in Nat
      BY <1>1 DEF Clearing
    <2> QED BY <1>1, <1>4, <2>1 DEF AckInv, AckClears
  <1> QED BY <1>2, <1>3, <1>4 DEF AckInv, AckClears, Held

LEMMA AckNext == TypeOK /\ AckInv /\ [Next]_vars => AckInv'
  <1> SUFFICES ASSUME TypeOK, AckInv, [Next]_vars PROVE AckInv'
    OBVIOUS
  <1>0. /\ box \in [Relays -> [Ids -> Nat \cup {Absent}]] /\ ack \in Acking
        /\ cleared \in [Ids -> Clearing] /\ now \in Nat /\ Absent \notin Nat
    BY TypeParts DEF Absent
  <1>1. ASSUME UNCHANGED <<box, ack, cleared>>, now' \in Nat, now' >= now PROVE AckInv'
    BY <1>1, CopiesNewer DEF Held
  <1>2. ASSUME NEW h \in Relays, NEW i \in Ids, Deliver(h, i) PROVE AckInv'
    <2>1. UNCHANGED <<now, ack, cleared>>
      BY <1>2, DeliverFacts
    <2>2. \A g \in Relays, j \in Ids : Held(g, j)' =>
            box'[g][j] = now \/ (Held(g, j) /\ box'[g][j] = box[g][j])
      BY <1>2, DeliverFacts DEF Held
    <2> QED BY <1>0, <2>1, <2>2, CopiesNewer
  <1>3. ASSUME NEW h \in Relays, Dropped(h)
        PROVE  \A g \in Relays, j \in Ids :
                 Held(g, j)' => /\ Held(g, j) /\ box'[g][j] = box[g][j]
                                /\ ~(g = h /\ j \in ack.ids)
    BY <1>3, DeletedFacts DEF Dropped
  <1>4. ASSUME NEW S \in SUBSET printed, BeginAck(S) PROVE AckInv'
    <2>1. /\ ack'.began = now /\ ack'.asked = ToSet(Inbox) /\ ack'.left = Inbox
          /\ UNCHANGED <<now, box, cleared>>
      BY <1>4 DEF BeginAck, NotAcking, network
    <2> QED BY <1>0, <2>1 DEF AckInv, AckClears, Held
  <1>5. CASE AckAnswered \/ AckRefused \/ AckThrows
    <2> DEFINE h == Head(ack.left)
    <2>1. /\ ack.left \in Seq(Relays) /\ ack.left # <<>> /\ UNCHANGED <<now, cleared>>
          /\ Dropped(h) \/ UNCHANGED box
      BY <1>5 DEF AckAnswered, AckRefused, AckThrows, TypeOK
    <2>2. h \in Relays /\ ToSet(ack.left) = {h} \cup ToSet(Tail(ack.left))
      BY <2>1, TailFacts
    <2>3. \A g \in Relays, j \in Ids :
            Held(g, j)' => Held(g, j) /\ box'[g][j] = box[g][j]
      BY <1>3, <2>1, <2>2 DEF Held
    <2>4. AckClears'
      <3>1. \A i \in Ids : cleared[i].asked \subseteq Relays
        BY <1>0 DEF Clearing
      <3> QED BY <2>1, <2>3, <3>1 DEF AckClears, AckInv
    <2>5. CASE AckThrows
      <3>1. ack'.began = 0 /\ ack'.asked = {}
        BY <2>5 DEF AckThrows, NotAcking
      <3> QED BY <1>0, <2>1, <2>4, <3>1 DEF AckInv
    <2>6. CASE AckAnswered \/ AckRefused
      <3>1. /\ ack'.began = ack.began /\ ack'.asked = ack.asked /\ ack'.ids = ack.ids
            /\ ack'.left = Tail(ack.left) /\ ack.refused \subseteq ack'.refused
            /\ h \in ack'.refused \/ Dropped(h)
        BY <1>0, <2>6 DEF AckAnswered, AckRefused, Acking
      <3>2. ASSUME NEW g \in ack'.asked \ ack'.refused
            PROVE  g \in ToSet(ack'.left) \/ \A j \in ack'.ids : Held(g, j)' => box'[g][j] >= ack'.began
        <4>1. g \in ack.asked \ ack.refused /\ g \in Relays /\ ack.ids \subseteq Ids
          BY <1>0, <3>1, <3>2 DEF Acking
        <4>2. CASE g = h
          BY <1>3, <2>2, <3>1, <3>2, <4>1, <4>2
        <4>3. CASE g # h
          BY <2>2, <2>3, <3>1, <4>1, <4>3 DEF AckInv
        <4> QED BY <4>2, <4>3
      <3> QED BY <2>1, <2>4, <3>1, <3>2 DEF AckInv
    <2> QED BY <1>5, <2>5, <2>6
  <1>6. CASE EndAck
    <2>1. /\ ack'.began = 0 /\ ack'.asked = {} /\ UNCHANGED <<now, box>> /\ ack.left = <<>>
          /\ \A i \in Ids : \/ cleared'[i] = cleared[i]
                            \/ /\ i \in ack.ids /\ cleared'[i].began = ack.began
                               /\ cleared'[i].asked = ack.asked
                               /\ cleared'[i].refused = ack.refused
      BY <1>6 DEF EndAck, NotAcking, network
    <2>2. ToSet(ack.left) = {}
      BY <2>1 DEF ToSet
    <2>3. AckClears'
      BY <2>1, <2>2 DEF AckClears, AckInv, Held
    <2> QED BY <1>0, <2>1, <2>3 DEF AckInv
  <1>7. CASE Receive
    BY <1>0, <1>1, <1>7 DEF Receive, BeginPoll, PickUp, PickUpSome, PickUpRefused, PollThrows, EndPoll,
       Restart, network, acking
  <1>8. CASE Send
    BY <1>0, <1>1, <1>8 DEF Send, Resolve, Unresolved, Accepted, NextRelay, Conflict, Unreachable,
       network, acking
  <1>9. CASE Tick \/ (\E l \in Lists : Publish(l)) \/ UNCHANGED vars
    BY <1>0, <1>1, <1>9 DEF Tick, Publish, vars, network, acking
  <1>10. ASSUME NEW h \in Relays, Evict(h) PROVE AckInv'
    <2>1. UNCHANGED <<now, ack, cleared>> /\ \E S : Deleted(h, S)
      BY <1>10, EvictFacts
    <2>2. \A g \in Relays, j \in Ids : Held(g, j)' => Held(g, j) /\ box'[g][j] = box[g][j]
      BY <2>1, DeletedFacts
    <2> QED BY <1>0, <2>1, <2>2, CopiesNewer
  <1> QED BY <1>2, <1>4, <1>5, <1>6, <1>7, <1>8, <1>9, <1>10 DEF Next, Ack

\* A call of ack that returned left no copy of its envelopes at any relay but one that
\* refused it or was pushed the copy later.
THEOREM AcksClear == Spec => []AckClears
  <1>1. AckInv => AckClears
    BY DEF AckInv
  <1> QED BY <1>1, TypeInit, TypeNext, AckInit, AckNext, PTL DEF Spec

-----------------------------------------------------------------------------
(* The letters of Wire. *)

\* Whatever keys are told of an agent are of a document it has published.
LEMMA ToldFacts ==
  ASSUME NEW u, NEW keys \in PairsTold(u)
  PROVE  /\ Finds(u) /\ keys[2] \in published[parseScutUri(u)]
         /\ keys = <<parseScutUri(u), keys[2]>>
  BY DEF PairsTold

\* Envelopes with one signature and the same text to sign are the same.
LEMMA Equal ==
  ASSUME NEW e, NEW b, e = [f \in DOMAIN e |-> e[f]], b = [f \in DOMAIN b |-> b[f]],
         "signature" \in DOMAIN e, "signature" \in DOMAIN b,
         e.signature = b.signature,
         canonicalBytesForSigning(e) = canonicalBytesForSigning(b)
  PROVE  e = b
  <1>1. DOMAIN e \ {"signature"} = DOMAIN b \ {"signature"}
    BY DEF canonicalBytesForSigning
  <1>2. DOMAIN e = DOMAIN b
    BY <1>1
  <1>3. ASSUME NEW f \in DOMAIN e PROVE e[f] = b[f]
    <2>1. CASE f = "signature"
      BY <2>1
    <2>2. CASE f # "signature"
      BY <2>2, <1>2 DEF canonicalBytesForSigning
    <2> QED BY <2>1, <2>2
  <1> QED BY <1>2, <1>3

\* What buildEnvelope makes.
LEMMA EnvelopeFields ==
  ASSUME NEW id, NEW from, NEW to, NEW ttl, NEW text, NEW p, NEW q, NEW e,
         e = buildEnvelope(id, from, to, ttl, text, p, q)
  PROVE
     /\ DOMAIN e = {"envelope_id", "from", "to", "ttl_seconds", "ciphertext", "ephemeral_pubkey", "signature"}
     /\ e.envelope_id = id /\ e.from = from /\ e.to = to /\ e.ttl_seconds = ttl
     /\ e.ciphertext = encryptBody(text, q, id) /\ e.ephemeral_pubkey = Ephemeral(id)
     /\ e = [x \in DOMAIN e |-> e[x]]
     /\ e.signature = Signed(canonicalBytesForSigning(e), p)
  <1> DEFINE rest == [envelope_id |-> id, from |-> from, to |-> to, ttl_seconds |-> ttl,
               ciphertext |-> encryptBody(text, q, id),
               ephemeral_pubkey |-> Ephemeral(id)]
             s == Signed(canonicalBytesForSigning(rest), p)
  <1>1. e = With(rest, "signature", s)
    BY DEF buildEnvelope
  <1>2. DOMAIN rest = {"envelope_id", "from", "to", "ttl_seconds", "ciphertext", "ephemeral_pubkey"}
    OBVIOUS
  <1>3. e = [f \in DOMAIN rest \cup {"signature"} |-> IF f = "signature" THEN s ELSE rest[f]]
    BY <1>1 DEF With
  <1> HIDE DEF s
  <1>4. DOMAIN e = DOMAIN rest \cup {"signature"}
    BY <1>3
  <1>5. e = [x \in DOMAIN e |-> e[x]]
    BY <1>3
  <1>6. e.signature = s
    BY <1>3
  <1>7. canonicalBytesForSigning(e) = canonicalBytesForSigning(rest)
    BY <1>2, <1>3 DEF canonicalBytesForSigning
  <1> QED BY <1>2, <1>3, <1>4, <1>5, <1>6, <1>7 DEF s

\* A text without byte order mark and half surrogates survives encoding.
LEMMA CanonicalText ==
  ASSUME NEW text \in [bom: BOOLEAN, lone: BOOLEAN]
  PROVE  /\ Decoded(Encoded(text)) \in [bom: BOOLEAN, lone: BOOLEAN]
         /\ ~text.bom /\ ~text.lone => Decoded(Encoded(text)) = text
  BY DEF Decoded, Encoded

\* What a relay of another make leaves alone whatever it rewrites.
LEMMA RewrittenFields ==
  ASSUME NEW e, e = [f \in DOMAIN e |-> e[f]],
         DOMAIN e = {"envelope_id", "from", "to", "ttl_seconds", "ciphertext",
                     "ephemeral_pubkey", "signature"},
         NEW how \in {"none", "ttl", "address", "field"}
  PROVE  LET r == Rewritten(e, how) IN
         /\ r = [f \in DOMAIN r |-> r[f]]
         /\ DOMAIN e \subseteq DOMAIN r
         /\ r.envelope_id = e.envelope_id /\ r.signature = e.signature
         /\ r.ciphertext = e.ciphertext /\ r.ephemeral_pubkey = e.ephemeral_pubkey
         /\ parseScutUri(r.from) = parseScutUri(e.from)
  <1> DEFINE r == Rewritten(e, how)
  <1>1. CASE how = "none"
    BY <1>1 DEF Rewritten
  <1>2. CASE how = "ttl"
    <2>1. r = [e EXCEPT !.ttl_seconds = "hours"]
      BY <1>2 DEF Rewritten
    <2> HIDE DEF r
    <2> QED BY <2>1 DEF r
  <1>3. CASE how = "address"
    <2>1. r = [e EXCEPT !.from = formatScutUri(parseScutUri(@)),
                        !.to = formatScutUri(parseScutUri(@))]
      BY <1>3 DEF Rewritten
    <2>2. r.from = formatScutUri(parseScutUri(e.from))
      BY <2>1
    <2> HIDE DEF r
    <2>3. parseScutUri(r.from) = parseScutUri(e.from)
      BY <2>2 DEF parseScutUri, formatScutUri
    <2> QED BY <2>1, <2>3 DEF r
  <1>4. CASE how = "field"
    <2>1. r = [f \in DOMAIN e \cup {"relay_path"} |-> IF f = "relay_path" THEN "here" ELSE e[f]]
      BY <1>4 DEF Rewritten, With
    <2> HIDE DEF r
    <2>2. r.from = e.from
      BY <2>1
    <2> QED BY <2>1, <2>2 DEF r
  <1> QED BY <1>1, <1>2, <1>3, <1>4

-----------------------------------------------------------------------------

\* What is kept of a letter is what buildEnvelope was called with and what it made.
Letter(b, id) ==
  \E from \in Uri, to \in Uri, ttl \in Ttls :
    /\ b.envelope = buildEnvelope(id, from, to, ttl, b.text, <<b.author, b.signing>>,
                                  <<parseScutUri(to), b.encryption>>)
    /\ b.author = parseScutUri(from) /\ b.text \in [bom: BOOLEAN, lone: BOOLEAN]
    /\ b.signing \in 1..MaxPairs /\ b.encryption \in 1..MaxPairs

\* The relay checked it when it was pushed.
LetThrough(e) ==
  /\ e.ttl_seconds \in {"days", "hours"}
  /\ built[e.envelope_id].signing \in published[built[e.envelope_id].author]

\* What a relay hands to an agent.
HandedOut(a, e) ==
  \E id \in DOMAIN built, how \in Rewrites :
    /\ e = Rewritten(built[id].envelope, how)
    /\ LetThrough(built[id].envelope) /\ parseScutUri(built[id].envelope.to) = a

\* What receive returned.
Returned(o) ==
  /\ o.by = parseScutUri(built[o.id].envelope.to) /\ o.from = built[o.id].author
  /\ o.text = Decoded(Encoded(built[o.id].text))

\* A running client uses a URI of its own agent.
Running(a) == client[a].pair > 0 => client[a].uri \in Uri /\ parseScutUri(client[a].uri) = a

\* Every envelope anywhere goes back to a letter that was written.
WireInv ==
  /\ WireTypeOK
  /\ built \in Seq({built[id] : id \in DOMAIN built})
  /\ DOMAIN hand = Agents
  /\ \A a \in Agents : made[a] > 0 => own[a] \in Uri
  /\ \A a \in Agents : Running(a)
  /\ \A id \in DOMAIN built : Letter(built[id], id)
  /\ \A e \in rows : LetThrough(e)
  /\ \A a \in Agents : \A e \in hand[a] : HandedOut(a, e)
  /\ \A o \in opened : Returned(o)

\* The envelope of a letter, field by field.
LEMMA LetterFields ==
  ASSUME NEW b, NEW id, Letter(b, id)
  PROVE  LET e == b.envelope IN
         /\ DOMAIN e = {"envelope_id", "from", "to", "ttl_seconds", "ciphertext",
                        "ephemeral_pubkey", "signature"}
         /\ e = [f \in DOMAIN e |-> e[f]]
         /\ e.envelope_id = id /\ e.from \in Uri /\ e.to \in Uri /\ e.ttl_seconds \in Ttls
         /\ parseScutUri(e.from) = b.author
         /\ e.ciphertext = encryptBody(b.text, <<parseScutUri(e.to), b.encryption>>, id)
         /\ e.ephemeral_pubkey = Ephemeral(id)
         /\ e.signature = Signed(canonicalBytesForSigning(e), <<b.author, b.signing>>)
         /\ b.text \in [bom: BOOLEAN, lone: BOOLEAN]
         /\ b.signing \in 1..MaxPairs /\ b.encryption \in 1..MaxPairs
  <1>1. PICK from \in Uri, to \in Uri, ttl \in Ttls :
          /\ b.envelope = buildEnvelope(id, from, to, ttl, b.text, <<b.author, b.signing>>,
                                        <<parseScutUri(to), b.encryption>>)
          /\ b.author = parseScutUri(from)
    BY DEF Letter
  <1>2. b.text \in [bom: BOOLEAN, lone: BOOLEAN] /\ b.signing \in 1..MaxPairs /\ b.encryption \in 1..MaxPairs
    BY DEF Letter
  <1> QED BY <1>1, <1>2, EnvelopeFields

\* The letter an envelope in hand goes back to, and what they share.
LEMMA HandedFields ==
  ASSUME WireInv, NEW a \in Agents, NEW e \in hand[a]
  PROVE  /\ e.envelope_id \in DOMAIN built
         /\ LET b == built[e.envelope_id] IN
            /\ Letter(b, e.envelope_id)
            /\ LetThrough(b.envelope) /\ parseScutUri(b.envelope.to) = a
            /\ e = [f \in DOMAIN e |-> e[f]] /\ "signature" \in DOMAIN e
            /\ e.signature = b.envelope.signature
            /\ e.ciphertext = b.envelope.ciphertext
            /\ e.ephemeral_pubkey = b.envelope.ephemeral_pubkey
            /\ parseScutUri(e.from) = b.author
  <1>1. PICK id \in DOMAIN built, how \in Rewrites :
          /\ e = Rewritten(built[id].envelope, how)
          /\ LetThrough(built[id].envelope) /\ parseScutUri(built[id].envelope.to) = a
    BY DEF WireInv, HandedOut
  <1>2. Letter(built[id], id)
    BY DEF WireInv
  <1>3. how \in {"none", "ttl", "address", "field"}
    BY WireAssumption
  <1> DEFINE l == built[id].envelope
  <1>4. /\ DOMAIN l = {"envelope_id", "from", "to", "ttl_seconds", "ciphertext",
                      "ephemeral_pubkey", "signature"}
        /\ l = [f \in DOMAIN l |-> l[f]]
        /\ l.envelope_id = id
        /\ parseScutUri(l.from) = built[id].author
    BY <1>2, LetterFields
  <1> HIDE DEF l
  <1>5. /\ e = [f \in DOMAIN e |-> e[f]]
        /\ DOMAIN l \subseteq DOMAIN e
        /\ e.envelope_id = l.envelope_id /\ e.signature = l.signature
        /\ e.ciphertext = l.ciphertext /\ e.ephemeral_pubkey = l.ephemeral_pubkey
        /\ parseScutUri(e.from) = parseScutUri(l.from)
    BY <1>1, <1>3, <1>4, RewrittenFields DEF l
  <1> QED BY <1>1, <1>2, <1>4, <1>5 DEF l

\* A shared secret is of one pair only.
LEMMA SamePair ==
  ASSUME NEW x, NEW y, NEW z, Shared(x, z) = Shared(y, z) PROVE x = y
  BY DEF Shared

\* openEnvelope accepts an envelope in hand, with the keys told of its author, if and
\* only if it is the one that was built and the keys at both ends are those it was built
\* with.
LEMMA OpensHanded ==
  ASSUME WireInv, NEW a \in Agents, NEW e \in hand[a], NEW keys \in PairsTold(e.from)
  PROVE  LET b == built[e.envelope_id] IN
         Opens(a, e, keys) <=> /\ e = b.envelope
                               /\ keys = <<b.author, b.signing>>
                               /\ client[a].pair = b.encryption
  <1> DEFINE id == e.envelope_id
             b == built[id]
             l == b.envelope
  <1>1. /\ id \in DOMAIN built /\ Letter(b, id)
        /\ LetThrough(l) /\ parseScutUri(l.to) = a
        /\ e = [f \in DOMAIN e |-> e[f]] /\ "signature" \in DOMAIN e
        /\ e.signature = l.signature /\ e.ciphertext = l.ciphertext
        /\ e.ephemeral_pubkey = l.ephemeral_pubkey
        /\ parseScutUri(e.from) = b.author
    BY HandedFields
  <1> HIDE DEF b
  <1>2. /\ "signature" \in DOMAIN l /\ l = [f \in DOMAIN l |-> l[f]]
        /\ l.ciphertext = encryptBody(b.text, <<a, b.encryption>>, id)
        /\ l.ephemeral_pubkey = Ephemeral(id)
        /\ l.signature = Signed(canonicalBytesForSigning(l), <<b.author, b.signing>>)
        /\ b.signing \in 1..MaxPairs
    BY <1>1, LetterFields
  <1>3. Verifies(e, keys) <=> e = l /\ keys = <<b.author, b.signing>>
    <2>1. ASSUME Verifies(e, keys) PROVE e = l /\ keys = <<b.author, b.signing>>
      <3>1. Signed(canonicalBytesForSigning(e), keys)
            = Signed(canonicalBytesForSigning(l), <<b.author, b.signing>>)
        BY <2>1, <1>1, <1>2 DEF Verifies
      <3>2. canonicalBytesForSigning(e) = canonicalBytesForSigning(l)
            /\ keys = <<b.author, b.signing>>
        BY <3>1 DEF Signed
      <3> QED BY <3>2, <1>1, <1>2, Equal
    <2>2. ASSUME e = l, keys = <<b.author, b.signing>> PROVE Verifies(e, keys)
      BY <2>2, <1>1, <1>2 DEF Verifies
    <2> QED BY <2>1, <2>2
  <1>4. Decrypts(e, <<a, client[a].pair>>) <=> client[a].pair = b.encryption
    <2>1. e.ciphertext.key = hkdf(Shared(<<a, b.encryption>>, Ephemeral(id)), id)
      BY <1>1, <1>2 DEF encryptBody
    <2>2. Decrypts(e, <<a, client[a].pair>>)
          <=> Shared(<<a, client[a].pair>>, Ephemeral(id)) = Shared(<<a, b.encryption>>, Ephemeral(id))
      BY <2>1, <1>1, <1>2 DEF Decrypts, hkdf
    <2> QED BY <2>2, SamePair
  <1>5. ASSUME e = l PROVE assertEnvelopeShape(e)
    BY <1>5, <1>1 DEF assertEnvelopeShape, LetThrough
  <1> QED BY <1>3, <1>4, <1>5 DEF Opens, b

-----------------------------------------------------------------------------

LEMMA WireInitInv == WireInit => WireInv
  <1> SUFFICES ASSUME WireInit PROVE WireInv
    OBVIOUS
  <1> USE WireAssumption DEF WireInit
  <1>1. WireTypeOK
    BY DEF WireTypeOK, parseScutUri, Uri, NoUri
  <1>2. built \in Seq({built[id] : id \in DOMAIN built}) /\ DOMAIN built = {}
    OBVIOUS
  <1>3. \A a \in Agents : Running(a)
    BY DEF Running
  <1> QED BY <1>1, <1>2, <1>3 DEF WireInv

\* Once written, a letter stays as it is.
LEMMA WriteKeeps ==
  ASSUME built \in Seq({built[id] : id \in DOMAIN built}), NEW b, built' = Append(built, b)
  PROVE  /\ built' \in Seq({built'[id] : id \in DOMAIN built'})
         /\ DOMAIN built' = DOMAIN built \cup {Len(built) + 1}
         /\ Len(built) + 1 \notin DOMAIN built
         /\ \A id \in DOMAIN built : built'[id] = built[id]
         /\ built'[Len(built) + 1] = b
         /\ Len(built) \in Nat
  <1> DEFINE R == {built[id] : id \in DOMAIN built}
  <1>1. Len(built) \in Nat /\ DOMAIN built = 1..Len(built)
    OBVIOUS
  <1>2. built' \in Seq(R \cup {b}) /\ Len(built') = Len(built) + 1
    OBVIOUS
  <1>3. DOMAIN built' = 1..(Len(built) + 1)
    BY <1>1, <1>2
  <1>4. /\ \A id \in DOMAIN built : built'[id] = built[id]
        /\ built'[Len(built) + 1] = b
    BY <1>1
  <1>5. R \cup {b} = {built'[id] : id \in DOMAIN built'}
    BY <1>1, <1>3, <1>4
  <1> QED BY <1>1, <1>2, <1>3, <1>4, <1>5

LEMMA WriteInv ==
  ASSUME WireInv, NEW a \in Agents, NEW to \in Uri, NEW ttl \in Ttls, NEW text \in Texts,
         Write(a, to, ttl, text)
  PROVE  WireInv'
  <1>0. PICK keys \in PairsTold(to) :
          LET id == Len(built) + 1
              e == buildEnvelope(id, client[a].uri, to, ttl, text,
                                 <<a, client[a].pair>>, keys) IN
          /\ client[a].pair > 0
          /\ built' = Append(built, [envelope |-> e, author |-> a, text |-> text,
                                     signing |-> client[a].pair, encryption |-> keys[2]])
          /\ posts' = posts \cup {e}
          /\ UNCHANGED <<identity, client, rows, hand, opened>>
    BY DEF Write
  <1> DEFINE id == Len(built) + 1
             e == buildEnvelope(id, client[a].uri, to, ttl, text, <<a, client[a].pair>>, keys)
             b == [envelope |-> e, author |-> a, text |-> text, signing |-> client[a].pair,
                   encryption |-> keys[2]]
  <1>1. /\ built' = Append(built, b) /\ posts' = posts \cup {e}
        /\ client[a].pair > 0
        /\ UNCHANGED <<identity, client, rows, hand, opened>>
    BY <1>0
  <1> USE DEF identity
  <1>2. /\ built' \in Seq({built'[i] : i \in DOMAIN built'})
        /\ DOMAIN built' = DOMAIN built \cup {id}
        /\ \A i \in DOMAIN built : built'[i] = built[i]
        /\ built'[id] = b
    <2> HIDE DEF b
    <2> QED BY <1>1, WriteKeeps DEF WireInv
  <1>3. Letter(b, id)
    <2>1. client[a].uri \in Uri /\ parseScutUri(client[a].uri) = a
      BY <1>1 DEF WireInv, Running
    <2>2. client[a].pair \in 1..MaxPairs
      BY <1>1, WireAssumption DEF WireInv, WireTypeOK
    <2>3. keys[2] \in 1..MaxPairs /\ keys = <<parseScutUri(to), keys[2]>>
      <3>1. parseScutUri(to) \in Agents
        BY DEF parseScutUri, Uri
      <3>2. published[parseScutUri(to)] \subseteq 1..MaxPairs
        BY <3>1, WireAssumption DEF WireInv, WireTypeOK
      <3> QED BY <3>2, ToldFacts
    <2>4. e = buildEnvelope(id, client[a].uri, to, ttl, b.text, <<b.author, b.signing>>,
                            <<parseScutUri(to), b.encryption>>)
      BY <2>3
    <2>5. b.author = parseScutUri(client[a].uri) /\ b.text \in [bom: BOOLEAN, lone: BOOLEAN]
          /\ b.signing \in 1..MaxPairs /\ b.encryption \in 1..MaxPairs /\ b.envelope = e
      BY <2>1, <2>2, <2>3, WireAssumption
    <2> HIDE DEF b, e
    <2> QED BY <2>1, <2>4, <2>5 DEF Letter
  <1> HIDE DEF b
  <1>4. \A i \in DOMAIN built' : Letter(built'[i], i)
    BY <1>2, <1>3 DEF WireInv
  <1>5. b.envelope = e
    BY DEF b
  <1> HIDE DEF e
  <1>6. WireTypeOK'
    <2>1. \A i \in DOMAIN built' : built'[i].envelope.envelope_id = i
      BY <1>4, LetterFields
    <2>2. (posts \cup rows)' \subseteq {built'[i].envelope : i \in DOMAIN built'}
      BY <1>1, <1>2, <1>5 DEF WireInv, WireTypeOK
    <2>3. opened' \subseteq [by: Agents, id: DOMAIN built', from: Agents,
                             text: [bom: BOOLEAN, lone: BOOLEAN]]
      BY <1>1, <1>2 DEF WireInv, WireTypeOK
    <2> QED BY <1>1, <2>1, <2>2, <2>3 DEF WireInv, WireTypeOK
  <1>7. (\A x \in Agents : Running(x))' /\ DOMAIN hand' = Agents
        /\ (\A x \in Agents : made[x] > 0 => own[x] \in Uri)'
    BY <1>1 DEF WireInv, Running
  <1>10. \A i \in DOMAIN built : built[i].envelope.envelope_id = i
    BY DEF WireInv, WireTypeOK
  <1>11. (\A f \in rows : LetThrough(f))'
    <2> SUFFICES ASSUME NEW f \in rows PROVE LetThrough(f)'
      BY <1>1
    <2>1. f.envelope_id \in DOMAIN built
      BY <1>10 DEF WireInv, WireTypeOK
    <2> QED BY <2>1, <1>1, <1>2 DEF WireInv, LetThrough
  <1>8. (\A x \in Agents : \A f \in hand[x] : HandedOut(x, f))'
    <2> SUFFICES ASSUME NEW x \in Agents, NEW f \in hand[x] PROVE HandedOut(x, f)'
      BY <1>1
    <2>1. PICK i \in DOMAIN built, how \in Rewrites :
            /\ f = Rewritten(built[i].envelope, how)
            /\ LetThrough(built[i].envelope) /\ parseScutUri(built[i].envelope.to) = x
      BY DEF WireInv, HandedOut
    <2>2. LetThrough(built[i].envelope)'
      BY <2>1, <1>1, <1>2, <1>10 DEF LetThrough
    <2> QED BY <2>1, <2>2, <1>2 DEF HandedOut
  <1>9. (\A o \in opened : Returned(o))'
    <2> SUFFICES ASSUME NEW o \in opened PROVE Returned(o)'
      BY <1>1
    <2>1. o.id \in DOMAIN built
      BY DEF WireInv, WireTypeOK
    <2> QED BY <2>1, <1>1, <1>2 DEF WireInv, Returned
  <1> QED BY <1>2, <1>4, <1>6, <1>7, <1>8, <1>9, <1>11 DEF WireInv

\* What a step leaves alone when no letter is written.  What was published stays so.
LEMMA LettersKept ==
  ASSUME WireInv, UNCHANGED built,
         \A a \in Agents : published[a] \subseteq published'[a]
  PROVE  /\ (built \in Seq({built[id] : id \in DOMAIN built}))'
         /\ (\A id \in DOMAIN built : Letter(built[id], id))'
         /\ \A o \in opened : Returned(o)'
         /\ \A id \in DOMAIN built :
              LetThrough(built[id].envelope) => LetThrough(built[id].envelope)'
         /\ \A e \in rows : LetThrough(e)'
         /\ \A a, e : HandedOut(a, e) => HandedOut(a, e)'
  <1>1. \A id \in DOMAIN built : built[id].author \in Agents /\ built[id].envelope.envelope_id = id
    <2> SUFFICES ASSUME NEW id \in DOMAIN built
                 PROVE  built[id].author \in Agents /\ built[id].envelope.envelope_id = id
      OBVIOUS
    <2>1. Letter(built[id], id)
      BY DEF WireInv
    <2>2. /\ built[id].envelope.from \in Uri
          /\ parseScutUri(built[id].envelope.from) = built[id].author
          /\ built[id].envelope.envelope_id = id
      BY <2>1, LetterFields
    <2> QED BY <2>2 DEF parseScutUri, Uri
  <1>2. \A id \in DOMAIN built :
          LetThrough(built[id].envelope) => LetThrough(built[id].envelope)'
    BY <1>1 DEF LetThrough
  <1>3. \A e \in rows : LetThrough(e)'
    <2> SUFFICES ASSUME NEW e \in rows PROVE LetThrough(e)'
      OBVIOUS
    <2>1. PICK id \in DOMAIN built : e = built[id].envelope
      BY DEF WireInv, WireTypeOK
    <2>2. LetThrough(e)
      BY DEF WireInv
    <2> QED BY <1>1, <2>1, <2>2 DEF LetThrough
  <1>4. \A a, e : HandedOut(a, e) => HandedOut(a, e)'
    BY <1>2 DEF HandedOut
  <1> QED BY <1>2, <1>3, <1>4 DEF WireInv, Returned

LEMMA OpenInv ==
  ASSUME WireInv, NEW a \in Agents, NEW e \in hand[a], Open(a, e)
  PROVE  WireInv'
  <1> DEFINE o == [by |-> a, id |-> e.envelope_id, from |-> parseScutUri(e.from),
                   text |-> Decoded(e.ciphertext.bytes)]
             b == built[e.envelope_id]
  <1>1. /\ hand' = [hand EXCEPT ![a] = @ \ {e}]
        /\ opened' \subseteq opened \cup {o}
        /\ UNCHANGED <<identity, client, built, posts, rows>>
    BY DEF Open
  <1> USE DEF identity
  <1>2. /\ e.envelope_id \in DOMAIN built /\ Letter(b, e.envelope_id)
        /\ parseScutUri(b.envelope.to) = a /\ parseScutUri(e.from) = b.author
        /\ e.ciphertext = b.envelope.ciphertext
    BY HandedFields
  <1>3. /\ b.envelope.ciphertext.bytes = Encoded(b.text)
        /\ b.text \in [bom: BOOLEAN, lone: BOOLEAN] /\ b.author \in Agents
    <2>1. /\ b.envelope.ciphertext = encryptBody(b.text, <<parseScutUri(b.envelope.to), b.encryption>>, e.envelope_id)
          /\ b.text \in [bom: BOOLEAN, lone: BOOLEAN]
          /\ b.envelope.from \in Uri /\ parseScutUri(b.envelope.from) = b.author
      BY <1>2, LetterFields
    <2> QED BY <2>1 DEF encryptBody, Uri, parseScutUri
  <1>4. Returned(o) /\ o \in [by: Agents, id: DOMAIN built, from: Agents,
                             text: [bom: BOOLEAN, lone: BOOLEAN]]
    BY <1>2, <1>3, CanonicalText DEF Returned
  <1> HIDE DEF o, b
  <1>5. WireTypeOK'
    BY <1>1, <1>4 DEF WireInv, WireTypeOK
  <1>6. (\A x \in Agents : \A f \in hand[x] : HandedOut(x, f))'
    <2> SUFFICES ASSUME NEW x \in Agents, NEW f \in hand'[x] PROVE HandedOut(x, f)'
      OBVIOUS
    <2>1. f \in hand[x]
      BY <1>1 DEF WireInv
    <2> QED BY <2>1, <1>1, LettersKept DEF WireInv
  <1>7. (\A p \in opened : Returned(p))'
    BY <1>1, <1>4 DEF WireInv, Returned
  <1>8. (\A x \in Agents : Running(x))' /\ DOMAIN hand' = Agents
        /\ (\A x \in Agents : made[x] > 0 => own[x] \in Uri)'
    BY <1>1 DEF WireInv, Running
  <1> QED BY <1>1, <1>5, <1>6, <1>7, <1>8, LettersKept DEF WireInv

LEMMA IdentityInv ==
  ASSUME WireInv, NEW a \in Agents, 
         (\E u \in Uri : MakeIdentity(a, u)) \/ PublishIdentity(a)
  PROVE  WireInv'
  <1>1. UNCHANGED <<client, built, posts, rows, hand, opened>>
    BY DEF MakeIdentity, PublishIdentity
  <1>2. CASE \E u \in Uri : MakeIdentity(a, u)
    <2>1. PICK u \in Uri : MakeIdentity(a, u)
      BY <1>2
    <2>2. WireTypeOK'
      <3>1. /\ own' \in [Agents -> Uri \cup {NoUri}]
            /\ \A x \in Agents : made'[x] > 0 => parseScutUri(own'[x]) = x
        BY <2>1 DEF MakeIdentity, WireInv, WireTypeOK
      <3>2. made[a] + 1 \in 0..MaxPairs
        BY <2>1, WireAssumption DEF MakeIdentity, WireInv, WireTypeOK
      <3>3. /\ made' \in [Agents -> 0..MaxPairs]
            /\ \A x \in Agents : published[x] \subseteq 1..made'[x]
        BY <2>1, <3>2, WireAssumption DEF MakeIdentity, WireInv, WireTypeOK
      <3> QED BY <1>1, <2>1, <3>1, <3>3 DEF MakeIdentity, WireInv, WireTypeOK
    <2>3. (\A x \in Agents : made[x] > 0 => own[x] \in Uri)'
      BY <2>1 DEF MakeIdentity, WireInv, WireTypeOK
    <2>4. UNCHANGED published
      BY <2>1 DEF MakeIdentity
    <2> QED BY <1>1, <2>2, <2>3, <2>4, LettersKept DEF WireInv, Running
  <1>3. CASE PublishIdentity(a)
    <2>1. WireTypeOK'
      <3>1. /\ made' = made /\ own' = own /\ made[a] \in 1..made[a]
            /\ published' = [published EXCEPT ![a] = published[a] \cup {made[a]}]
        BY <1>3, WireAssumption DEF PublishIdentity, WireInv, WireTypeOK
      <3>2. \A x \in Agents : published'[x] \subseteq 1..made[x]
        BY <3>1 DEF WireInv, WireTypeOK
      <3> QED BY <1>1, <3>1, <3>2 DEF WireInv, WireTypeOK
    <2>2. (\A x \in Agents : made[x] > 0 => own[x] \in Uri)'
      BY <1>3 DEF PublishIdentity, WireInv
    <2>3. \A x \in Agents : published[x] \subseteq published'[x]
      BY <1>3 DEF PublishIdentity
    <2> QED BY <1>1, <2>1, <2>2, <2>3, LettersKept DEF WireInv, Running
  <1> QED BY <1>2, <1>3

LEMMA ClientInv ==
  ASSUME WireInv, NEW a \in Agents, StartClient(a)
  PROVE  WireInv'
  <1>1. /\ made[a] > 0 /\ client' = [client EXCEPT ![a] = [uri |-> own[a], pair |-> made[a]]]
        /\ hand' = [hand EXCEPT ![a] = {}]
        /\ UNCHANGED <<own, made, published, built, posts, rows, opened>>
    BY DEF StartClient, identity
  <1>2. WireTypeOK' 
    BY <1>1 DEF WireInv, WireTypeOK
  <1>3. (\A x \in Agents : Running(x))'
    BY <1>1 DEF WireInv, WireTypeOK, Running
  <1>4. DOMAIN hand' = Agents /\ \A x \in Agents : hand'[x] \subseteq hand[x]
    BY <1>1 DEF WireInv
  <1>5. (\A x \in Agents : \A f \in hand[x] : HandedOut(x, f))'
    BY <1>1, <1>4, LettersKept DEF WireInv
  <1> QED BY <1>1, <1>2, <1>3, <1>4, <1>5, LettersKept DEF WireInv

LEMMA FetchInv ==
  ASSUME WireInv, NEW a \in Agents, NEW how \in Rewrites, Fetch(a, how)
  PROVE  WireInv'
  <1>1. /\ client[a].pair > 0
        /\ hand' = [hand EXCEPT ![a] = {Rewritten(e, how) : e \in RowsOf(client[a].uri)}]
        /\ UNCHANGED <<own, made, published, client, built, posts, rows, opened>>
    BY DEF Fetch, identity
  <1>2. ASSUME NEW e \in RowsOf(client[a].uri) PROVE HandedOut(a, Rewritten(e, how))
    <2>1. e \in rows /\ e.to = client[a].uri /\ LetThrough(e)
      BY DEF RowsOf, WireInv
    <2>2. PICK id \in DOMAIN built : e = built[id].envelope
      BY <2>1 DEF WireInv, WireTypeOK
    <2>3. parseScutUri(e.to) = a
      BY <1>1, <2>1 DEF WireInv, Running
    <2> QED BY <2>1, <2>2, <2>3 DEF HandedOut
  <1>3. (\A x \in Agents : \A f \in hand[x] : HandedOut(x, f))'
    <2> SUFFICES ASSUME NEW x \in Agents, NEW f \in hand'[x] PROVE HandedOut(x, f)
      BY <1>1, LettersKept
    <2>1. CASE x = a
      BY <2>1, <1>1, <1>2 DEF WireInv
    <2>2. CASE x # a
      BY <2>2, <1>1 DEF WireInv
    <2> QED BY <2>1, <2>2
  <1>4. WireTypeOK' /\ DOMAIN hand' = Agents /\ (\A x \in Agents : Running(x))'
    BY <1>1 DEF WireInv, WireTypeOK, Running
  <1> QED BY <1>1, <1>3, <1>4, LettersKept DEF WireInv

\* The relay stores what was signed with keys it was told.
LEMMA AdmitsFacts ==
  ASSUME WireInv, NEW e \in posts, NEW keys \in PairsTold(e.from) \cup {NotTold}, Admits(e, keys)
  PROVE  LetThrough(e)
  <1>1. PICK id \in DOMAIN built : e = built[id].envelope
    BY DEF WireInv, WireTypeOK
  <1> DEFINE b == built[id]
  <1>2. Letter(b, id)
    BY DEF WireInv
  <1>3. /\ e.envelope_id = id /\ parseScutUri(e.from) = b.author /\ b.signing \in 1..MaxPairs
        /\ e.signature = Signed(canonicalBytesForSigning(e), <<b.author, b.signing>>)
    BY <1>1, <1>2, LetterFields
  <1> HIDE DEF b
  <1>4. e.signature = Signed(canonicalBytesForSigning(e), keys)
    BY DEF Admits, Verifies
  <1>5. keys = <<b.author, b.signing>>
    BY <1>3, <1>4 DEF Signed
  <1>6. b.signing \in published[b.author]
    <2>1. CASE keys \in PairsTold(e.from)
      BY <2>1, <1>3, <1>5, ToldFacts
    <2>2. CASE keys = NotTold
      BY <2>2, <1>3, <1>5, WireAssumption DEF NotTold
    <2> QED BY <2>1, <2>2
  <1> QED BY <1>3, <1>6 DEF LetThrough, Admits, envelopeSchema, b

LEMMA RowsInv ==
  ASSUME WireInv, (\E e \in posts : Push(e)) \/ (\E a \in Agents : \E ids : Drop(a, ids))
  PROVE  WireInv'
  <1>1. UNCHANGED <<own, made, published, client, built, hand, opened>>
    BY DEF Push, Drop, identity
  <1>2. \A e \in posts : \A keys \in PairsTold(e.from) \cup {NotTold} :
          Admits(e, keys) => LetThrough(e)
    BY AdmitsFacts
  <1>6. /\ posts' \cup rows' \subseteq posts \cup rows
        /\ \A e \in rows' : LetThrough(e)
    BY <1>2 DEF Push, Drop, WireInv
  <1>3. /\ posts' \cup rows' \subseteq posts \cup rows
        /\ (\A e \in rows : LetThrough(e))'
    BY <1>1, <1>6 DEF LetThrough
  <1>4. WireTypeOK'
    <2>1. posts \cup rows \subseteq {built[id].envelope : id \in DOMAIN built}
      BY DEF WireInv, WireTypeOK
    <2>2. (posts \cup rows)' \subseteq {built[id].envelope : id \in DOMAIN built}
      BY <2>1, <1>3
    <2> QED BY <1>1, <2>2 DEF WireInv, WireTypeOK
  <1>5. (\A x \in Agents : Running(x))'
    BY <1>1 DEF WireInv, Running
  <1> QED BY <1>1, <1>3, <1>4, <1>5, LettersKept DEF WireInv

LEMMA WireNextInv == WireInv /\ [WireNext]_wire => WireInv'
  <1> SUFFICES ASSUME WireInv, [WireNext]_wire PROVE WireInv'
    OBVIOUS
  <1>1. CASE WireNext
    BY <1>1, WriteInv, OpenInv, IdentityInv, ClientInv, FetchInv, RowsInv DEF WireNext
  <1>2. CASE UNCHANGED wire
    <2>1. UNCHANGED <<own, made, published, client, built, posts, rows, hand, opened>>
      BY <1>2 DEF wire, identity
    <2>2. WireTypeOK' /\ (\A a \in Agents : Running(a))'
      BY <2>1 DEF WireInv, WireTypeOK, Running
    <2> QED BY <2>1, <2>2, LettersKept DEF WireInv
  <1> QED BY <1>1, <1>2

LEMMA InvOpens == WireInv => OpensIffIntact
  <1> SUFFICES ASSUME WireInv PROVE OpensIffIntact
    OBVIOUS
  <1>1. WireTypeOK
    BY DEF WireInv
  <1>2. ASSUME NEW o \in opened
        PROVE  LET b == built[o.id] IN
               /\ o.by = parseScutUri(b.envelope.to) /\ o.from = b.author
               /\ ~b.text.bom /\ ~b.text.lone => o.text = b.text
    <2>1. o.id \in DOMAIN built /\ Letter(built[o.id], o.id)
      BY DEF WireInv, WireTypeOK
    <2>2. built[o.id].text \in [bom: BOOLEAN, lone: BOOLEAN]
      BY <2>1, LetterFields
    <2> QED BY <2>2, CanonicalText DEF WireInv, Returned
  <1>3. ASSUME NEW a \in Agents, NEW e \in hand[a]
        PROVE  built[e.envelope_id].signing \in published[built[e.envelope_id].author]
    <2>1. LetThrough(built[e.envelope_id].envelope) /\ e.envelope_id \in DOMAIN built
      BY HandedFields
    <2> QED BY <2>1, <1>1 DEF LetThrough, WireTypeOK
  <1> QED BY <1>1, <1>2, <1>3, OpensHanded DEF OpensIffIntact

\* A letter picked up was signed with published keys, and opens, whatever keys a cache
\* tells of its author, exactly when it is what the author built and the keys at both
\* ends are those it was written with, for every rewriting and any number of key pairs.
THEOREM LettersOpenIffIntact == WireSpec => []OpensIffIntact
  BY WireInitInv, WireNextInv, InvOpens, PTL DEF WireSpec
=============================================================================
