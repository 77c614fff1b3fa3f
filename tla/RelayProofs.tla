----------------------------- MODULE RelayProofs -----------------------------
(***************************************************************************)
(* Proofs about Relay, for any agents, envelopes, requests, handlers and   *)
(* clocks, and, in the last section, about the relay together with the     *)
(* resolver (KeyPath).  What is said of Relay alone uses nothing of        *)
(* KeyPath, whose assumption no proof before that section cites.           *)
(***************************************************************************)
EXTENDS KeyPath, TLAPS

LEMMA KeyFacts == 1 \in Keys /\ 0 \notin Keys /\ Keys \subseteq Nat
  BY SizesAssumption DEF Keys

\* A handler that is not idle carries a whole service record.
LEMMA InService ==
  ASSUME TypeOK, NEW h \in Handlers,
         req[h].pc = "ask" \/ req[h].pc = "answered" \/ req[h].pc = "verify"
  PROVE  /\ req[h] \in Service
         /\ req[h] # Idle
  <1>1. req[h] \in Service \cup {Idle}
    BY DEF TypeOK
  <1>2. Idle.pc = "idle"
    BY DEF Idle
  <1>3. req[h] # Idle
    BY <1>2
  <1> QED BY <1>1, <1>3

LEMMA ServiceFields ==
  ASSUME NEW s \in Service
  PROVE  /\ s.pc \in {"ask", "answered", "verify"}
         /\ s.msg \in Envelope \cup Request
         /\ s.start \in Nat
         /\ s.key \in Keys \cup {0}
         /\ s.msg.from \in Agents
         /\ s.msg.key \in Keys
  BY DEF Service, Envelope, Request

\* A message is an envelope exactly when it is a push.
LEMMA KindFacts ==
  ASSUME NEW m \in Envelope \cup Request
  PROVE  /\ m.kind = "push" => m \in Envelope
         /\ m.kind # "push" => m \in Request
         /\ m.kind \in {"pickup", "ack"} => m \in Request
  BY DEF Envelope, Request

LEMMA TypeInit == Init => TypeOK
  <1> SUFFICES ASSUME Init PROVE TypeOK
    OBVIOUS
  <1> USE SizesAssumption, KeyFacts DEF Init
  <1>1. cache \in [Agents -> [key: Keys \cup {0}, fetched: Nat]]
    BY DEF NoEntry
  <1>2. view \in [Subscribers -> [on: BOOLEAN, live: SUBSET Ids, since: Nat]]
    BY DEF Off
  <1>3. used \in [Nonces -> [times: Nat, last: Nat]]
    OBVIOUS
  <1>4. req \in [Handlers -> Service \cup {Idle}]
    OBVIOUS
  <1> QED BY <1>1, <1>2, <1>3, <1>4 DEF TypeOK

\* What Publish leaves in every view.
LEMMA PublishType ==
  ASSUME TypeOK, NEW gained \in SUBSET Ids, NEW lost, Publish(gained, lost)
  PROVE  view' \in [Subscribers -> [on: BOOLEAN, live: SUBSET Ids, since: Nat]]
  BY DEF TypeOK, Publish

LEMMA TypeNext == TypeOK /\ [Next]_vars => TypeOK'
  <1> SUFFICES ASSUME TypeOK, [Next]_vars PROVE TypeOK'
    OBVIOUS
  <1> USE SizesAssumption DEF TypeOK
  <1>1. CASE Tick
    BY <1>1 DEF Tick, world, tables, timer, history
  <1>2. ASSUME NEW a \in Agents, Rotate(a) PROVE TypeOK'
    <2>1. key' \in [Agents -> Keys]
      BY <1>2 DEF Rotate, Keys
    <2>2. retired' \in [Agents -> [Keys -> Nat]]
      BY <1>2 DEF Rotate
    <2> QED BY <1>2, <2>1, <2>2 DEF Rotate, tables, timer, history
  <1>3. ASSUME NEW d \in Drafts, Compose(d) PROVE TypeOK'
    <2>1. [kind |-> "push", id |-> d.id, from |-> d.from, to |-> d.to,
           ttl |-> d.ttl, key |-> key[d.from]] \in Envelope
      BY MessagesAssumption DEF Envelope
    <2> QED BY <1>3, <2>1 DEF Compose, tables, timer, history
  <1>4. ASSUME NEW q \in Asks, NEW n \in Nonces, NEW d \in Drifts,
               Authorize(q, n, d)
        PROVE TypeOK'
    <2>1. [kind |-> q.kind, from |-> q.from, ids |-> q.ids,
           nonce |-> n, ts |-> now + d, key |-> key[q.from]] \in Request
      <3>1. q \in [kind: {"pickup", "ack"}, from: Agents, ids: SUBSET Ids]
            /\ d \in Int
        BY MessagesAssumption
      <3>2. now + d \in Int
        BY <3>1
      <3> QED BY <3>1, <3>2 DEF Request
    <2> QED BY <1>4, <2>1 DEF Authorize, tables, timer, history
  <1>5. ASSUME NEW h \in Handlers, NEW m \in wire, NEW since \in Sinces \cup {0},
               Begin(h, m, since)
        PROVE  TypeOK'
    <2>1. m \in Envelope \cup Request /\ m.from \in Agents
      BY DEF Envelope, Request
    <2>2. cache[m.from].key \in Keys \cup {0}
      BY <2>1
    <2>3. [pc |-> IF CacheHit(m.from) THEN "verify" ELSE "ask",
           msg |-> m, since |-> since, start |-> now,
           key |-> IF CacheHit(m.from) THEN cache[m.from].key ELSE 0]
          \in Service
      BY <2>1, <2>2, MessagesAssumption DEF Service
    <2> QED BY <1>5, <2>3 DEF Begin, world, tables, timer, history
  <1>6. ASSUME NEW h \in Handlers, NEW k \in Keys, Answer(h, k) PROVE TypeOK'
    <2>1. req[h] \in Service
      BY <1>6, InService DEF Answer
    <2>2. [req[h] EXCEPT !.pc = "answered", !.key = k] \in Service
      BY <2>1 DEF Service
    <2>3. req' = [req EXCEPT ![h] =
                    [req[h] EXCEPT !.pc = "answered", !.key = k]]
      BY <1>6 DEF Answer
    <2> QED BY <1>6, <2>2, <2>3 DEF Answer, world, tables, timer, history
  <1>7. ASSUME NEW h \in Handlers, Fill(h) PROVE TypeOK'
    <2>1. req[h] \in Service
      BY <1>7, InService DEF Fill
    <2>2. [req[h] EXCEPT !.pc = "verify"] \in Service
      BY <2>1 DEF Service
    <2>3. req' \in [Handlers -> Service \cup {Idle}]
      BY <1>7, <2>2 DEF Fill
    <2>4. cache' \in [Agents -> [key: Keys \cup {0}, fetched: Nat]]
      BY <1>7, <2>1, ServiceFields DEF Fill
    <2> QED BY <1>7, <2>3, <2>4 DEF Fill, world, tables, timer, history
  <1>8. ASSUME NEW h \in Handlers, Refuse(h) PROVE TypeOK'
    BY <1>8 DEF Refuse, world, tables, timer, history
  <1>9. ASSUME NEW h \in Handlers, ServePush(h) PROVE TypeOK'
    <2>1. req[h] \in Service /\ req[h].msg.kind = "push"
      BY <1>9, InService DEF ServePush, Verified
    <2>2. req[h].msg \in Envelope
      BY <2>1, ServiceFields, KindFacts
    <2>3. req' \in [Handlers -> Service \cup {Idle}]
      BY <1>9 DEF ServePush, Verified
    <2> DEFINE life == IF req[h].msg.ttl < MaxTtl THEN req[h].msg.ttl
                                                  ELSE MaxTtl
    <2>4. life \in Nat
      BY <2>2 DEF Envelope
    <2>5. [env |-> req[h].msg, received |-> now, expires |-> now + life] \in Row
      BY <2>2, <2>4 DEF Row
    <2>6. store' \subseteq Row
      BY <1>9, <2>5 DEF ServePush
    <2>7. {req[h].msg.id} \in SUBSET Ids
      BY <2>2 DEF Envelope
    <2>8. view' \in [Subscribers -> [on: BOOLEAN, live: SUBSET Ids, since: Nat]]
      BY <1>9, <2>7, PublishType DEF ServePush
    <2> QED BY <1>9, <2>3, <2>6, <2>8 DEF ServePush, world, timer, history
  <1>10. ASSUME NEW h \in Handlers, ServePushKnown(h) PROVE TypeOK'
    BY <1>10 DEF ServePushKnown, Verified, world, tables, timer, history
  <1>11. ASSUME NEW h \in Handlers, Verified(h, {"pickup", "ack"})
         PROVE  /\ req' \in [Handlers -> Service \cup {Idle}]
                /\ req[h].msg \in Request
    BY <1>11, InService, ServiceFields, KindFacts DEF Verified
  <1>12. ASSUME NEW m \in Request, Claim(m) PROVE nonces' \subseteq NonceRow
    BY <1>12 DEF Claim, Remembered, NonceRow, Request
  <1>13. ASSUME NEW m \in Request, Honoured(m.nonce)
         PROVE  used' \in [Nonces -> [times: Nat, last: Nat]]
    BY <1>13 DEF Honoured, Request
  <1>14. ASSUME NEW h \in Handlers, RefuseNonce(h) PROVE TypeOK'
    BY <1>14, <1>11 DEF RefuseNonce, Remembered, world, timer, history
  <1>15. ASSUME NEW h \in Handlers, RefuseSince(h) PROVE TypeOK'
    <2>1. Verified(h, {"pickup", "ack"})
      BY <1>15 DEF RefuseSince, Verified
    <2> QED BY <1>15, <2>1, <1>11, <1>12 DEF RefuseSince, world, timer, history
  <1>16. ASSUME NEW h \in Handlers, ServePickup(h) PROVE TypeOK'
    <2>1. Verified(h, {"pickup", "ack"})
      BY <1>16 DEF ServePickup, Verified
    <2>2. req[h].msg \in Request
      BY <2>1, <1>11
    <2>3. req[h].msg.from \in Agents
      BY <2>2 DEF Request
    <2>4. delivered' \subseteq Agents \X Envelope
      BY <1>16, <2>3 DEF ServePickup, Row
    <2>5. used' \in [Nonces -> [times: Nat, last: Nat]]
      BY <1>16, <2>2, <1>13 DEF ServePickup
    <2>6. nonces' \subseteq NonceRow
      BY <1>16, <2>2, <1>12 DEF ServePickup
    <2> QED BY <1>16, <2>1, <1>11, <2>4, <2>5, <2>6 DEF ServePickup, world, timer
  <1>17. ASSUME NEW h \in Handlers, ServeAck(h) PROVE TypeOK'
    <2>1. Verified(h, {"pickup", "ack"})
      BY <1>17 DEF ServeAck, Verified
    <2>2. req[h].msg \in Request
      BY <2>1, <1>11
    <2>3. used' \in [Nonces -> [times: Nat, last: Nat]]
      BY <1>17, <2>2, <1>13 DEF ServeAck
    <2>4. nonces' \subseteq NonceRow
      BY <1>17, <2>2, <1>12 DEF ServeAck
    <2>5. store' \subseteq Row
      BY <1>17 DEF ServeAck
    <2>6. view' \in [Subscribers -> [on: BOOLEAN, live: SUBSET Ids, since: Nat]]
      BY <1>17, PublishType DEF ServeAck
    <2> QED BY <1>17, <2>1, <1>11, <2>3, <2>4, <2>5, <2>6
            DEF ServeAck, world, timer
  <1>18. ASSUME Exit
         PROVE  /\ up' \in BOOLEAN
                /\ req' \in [Handlers -> Service \cup {Idle}]
                /\ cache' \in [Agents -> [key: Keys \cup {0}, fetched: Nat]]
                /\ view' \in [Subscribers ->
                                [on: BOOLEAN, live: SUBSET Ids, since: Nat]]
    BY <1>18 DEF Exit, NoEntry, Off
  <1>19. ASSUME NEW h \in Handlers, StopAfterClaim(h) PROVE TypeOK'
    <2>1. req[h].msg \in Request
      BY <1>19, InService, ServiceFields, KindFacts DEF StopAfterClaim
    <2> QED BY <1>19, <2>1, <1>12, <1>18
            DEF StopAfterClaim, world, timer, history
  <1>20. CASE Evict
    <2>1. view' \in [Subscribers -> [on: BOOLEAN, live: SUBSET Ids, since: Nat]]
      BY <1>20, PublishType DEF Evict
    <2> QED BY <1>20, <2>1 DEF Evict, world, history
  <1>21. ASSUME NEW s \in Subscribers, Subscribe(s) \/ Unsubscribe(s)
         PROVE  TypeOK'
    <2>1. view' \in [Subscribers -> [on: BOOLEAN, live: SUBSET Ids, since: Nat]]
      <3>1. CASE Subscribe(s)
        <4>1. [on |-> TRUE, live |-> {}, since |-> now]
                \in [on: BOOLEAN, live: SUBSET Ids, since: Nat]
          OBVIOUS
        <4> QED BY <3>1, <4>1 DEF Subscribe
      <3>2. CASE Unsubscribe(s)
        <4>1. Off \in [on: BOOLEAN, live: SUBSET Ids, since: Nat]
          BY DEF Off
        <4> QED BY <3>2, <4>1 DEF Unsubscribe
      <3> QED BY <1>21, <3>1, <3>2
    <2>2. UNCHANGED <<now, world, up, tables, cache, req, timer, history>>
      BY <1>21 DEF Subscribe, Unsubscribe
    <2> QED BY <2>1, <2>2 DEF world, tables, timer, history
  <1>22. CASE Stop
    BY <1>22, <1>18 DEF Stop, world, tables, timer, history
  <1>23. CASE Start
    BY <1>23 DEF Start, world, tables, history
  <1>24. CASE UNCHANGED vars
    BY <1>24 DEF vars, world, tables, timer, history
  <1> QED
    BY <1>1, <1>2, <1>3, <1>4, <1>5, <1>6, <1>7, <1>8, <1>9, <1>10, <1>14,
       <1>15, <1>16, <1>17, <1>19, <1>20, <1>21, <1>22, <1>23, <1>24
    DEF Next, Clients, Serve

\* Every reachable state of the relay has the declared types.
THEOREM TypeCorrect == Spec => []TypeOK
  BY TypeInit, TypeNext, PTL DEF Spec

-----------------------------------------------------------------------------
(* What a step can do to a handler, to the clock and to the messages. *)

LEMMA HandlerStep ==
  ASSUME TypeOK, [Next]_vars, NEW h \in Handlers
  PROVE  \/ req'[h] = req[h]
         \/ req'[h] = Idle
         \/ \E m \in wire, since \in Sinces \cup {0} : Begin(h, m, since)
         \/ \E k \in Keys : Answer(h, k)
         \/ Fill(h)
  <1> DEFINE P == \/ req'[h] = req[h]
                  \/ req'[h] = Idle
                  \/ \E m \in wire, since \in Sinces \cup {0} : Begin(h, m, since)
                  \/ \E k \in Keys : Answer(h, k)
                  \/ Fill(h)
  <1> SUFFICES P
    OBVIOUS
  <1> USE DEF TypeOK
  <1>1. ASSUME NEW g \in Handlers, Serve(g) PROVE P
    <2>1. ASSUME NEW m \in wire, NEW since \in Sinces \cup {0}, Begin(g, m, since)
          PROVE  P
      BY <2>1 DEF Begin
    <2>2. ASSUME NEW k \in Keys, Answer(g, k) PROVE P
      BY <2>2 DEF Answer
    <2>3. CASE Fill(g)
      BY <2>3 DEF Fill
    <2>4. CASE Refuse(g)
      BY <2>4 DEF Refuse
    <2>5. CASE ServePush(g) \/ ServePushKnown(g) \/ RefuseNonce(g)
               \/ RefuseSince(g) \/ ServePickup(g) \/ ServeAck(g)
      <3>1. req' = [req EXCEPT ![g] = Idle]
        BY <2>5 DEF ServePush, ServePushKnown, RefuseNonce, RefuseSince,
                    ServePickup, ServeAck, Verified
      <3> QED BY <3>1
    <2>6. CASE StopAfterClaim(g)
      BY <2>6 DEF StopAfterClaim, Exit
    <2> QED BY <1>1, <2>1, <2>2, <2>3, <2>4, <2>5, <2>6 DEF Serve
  <1>2. CASE Clients
    BY <1>2 DEF Clients, Rotate, Compose, Authorize
  <1>3. CASE Stop
    BY <1>3 DEF Stop, Exit
  <1>4. CASE Tick \/ Evict \/ Start
             \/ (\E s \in Subscribers : Subscribe(s) \/ Unsubscribe(s))
    BY <1>4 DEF Tick, Evict, Start, Subscribe, Unsubscribe
  <1>5. CASE UNCHANGED vars
    BY <1>5 DEF vars
  <1> QED BY <1>1, <1>2, <1>3, <1>4, <1>5 DEF Next

LEMMA ClockStep ==
  ASSUME TypeOK, [Next]_vars
  PROVE  /\ now' = now \/ Tick
         /\ wire \subseteq wire'
  <1>1. ASSUME NEW h \in Handlers, Serve(h) PROVE now' = now /\ wire' = wire
    BY <1>1 DEF Serve, Begin, Answer, Fill, Refuse, ServePush, ServePushKnown,
                RefuseNonce, RefuseSince, ServePickup, ServeAck,
                StopAfterClaim, world
  <1>2. CASE Clients
    BY <1>2 DEF Clients, Rotate, Compose, Authorize
  <1>3. CASE Tick
    BY <1>3 DEF Tick, world
  <1>4. CASE Evict \/ Stop \/ Start
             \/ (\E s \in Subscribers : Subscribe(s) \/ Unsubscribe(s))
    BY <1>4 DEF Evict, Stop, Start, Subscribe, Unsubscribe, world
  <1>5. CASE UNCHANGED vars
    BY <1>5 DEF vars, world
  <1> QED BY <1>1, <1>2, <1>3, <1>4, <1>5 DEF Next

\* A request in service is one a client sent; it has been in service for at
\* most Latency; a pickup or ack was fresh when it came in.
InTime ==
  \A h \in Handlers : req[h] # Idle =>
    /\ req[h].msg \in wire
    /\ req[h].start <= now
    /\ now <= req[h].start + Latency
    /\ req[h].msg.kind # "push" =>
         /\ req[h].start - req[h].msg.ts <= Skew
         /\ req[h].msg.ts - req[h].start <= Skew

LEMMA InTimeInit == Init => InTime
  BY DEF Init, InTime

LEMMA InTimeNext == TypeOK /\ InTime /\ [Next]_vars => InTime'
  <1> SUFFICES ASSUME TypeOK, InTime, [Next]_vars,
                      NEW h \in Handlers, req'[h] # Idle
               PROVE  /\ req'[h].msg \in wire'
                      /\ req'[h].start <= now'
                      /\ now' <= req'[h].start + Latency
                      /\ req'[h].msg.kind # "push" =>
                           /\ req'[h].start - req'[h].msg.ts <= Skew
                           /\ req'[h].msg.ts - req'[h].start <= Skew
    BY DEF InTime
  <1> USE SizesAssumption
  <1>1. CASE req'[h] = req[h]
    <2>1. req[h] \in Service
      BY <1>1 DEF TypeOK
    <2>2. CASE now' = now
      BY <1>1, <2>2, ClockStep DEF InTime
    <2>3. CASE Tick
      BY <1>1, <2>1, <2>3, ClockStep DEF InTime, Tick, Busy, Service, TypeOK
    <2> QED BY <2>2, <2>3, ClockStep
  <1>2. ASSUME NEW m \in wire, NEW since \in Sinces \cup {0}, Begin(h, m, since)
        PROVE  /\ req'[h].msg = m
               /\ req'[h].start = now
               /\ now' = now
               /\ wire' = wire
               /\ m.kind # "push" => Fresh(m)
    BY <1>2 DEF Begin, world, TypeOK
  <1>3. CASE \E m \in wire, since \in Sinces \cup {0} : Begin(h, m, since)
    BY <1>2, <1>3 DEF Fresh, TypeOK
  <1>4. CASE (\E k \in Keys : Answer(h, k)) \/ Fill(h)
    <2>1. /\ req[h] # Idle
          /\ req'[h].msg = req[h].msg
          /\ req'[h].start = req[h].start
          /\ now' = now
          /\ wire' = wire
      <3>1. req[h] \in Service /\ req[h] # Idle
        BY <1>4, InService DEF Answer, Fill
      <3> QED BY <1>4, <3>1 DEF Answer, Fill, world, TypeOK, Service
    <2> QED BY <2>1 DEF InTime
  <1> QED BY <1>1, <1>3, <1>4, HandlerStep

-----------------------------------------------------------------------------
(* How often a request is honoured. *)

\* How long a nonce has been kept when its request is honoured for the k-th time.
Spent(k) == (k - 1) * (NonceWindow + 1)

LEMMA SpentGrows ==
  ASSUME NEW k \in Nat
  PROVE  /\ Spent(k) \in Int /\ Spent(1) = 0
         /\ Spent(k + 1) = Spent(k) + NonceWindow + 1
  <1> DEFINE w == NonceWindow + 1
  <1>1. w \in Int
    BY SizesAssumption
  <1>2. \A x, y \in Int : x * y \in Int /\ (x + 1) * y = x * y + y /\ 0 * y = 0
    OBVIOUS
  <1>3. k - 1 \in Int /\ (k + 1) - 1 = (k - 1) + 1 /\ 1 - 1 = 0
    OBVIOUS
  <1>4. Spent(k) = (k - 1) * w /\ Spent(k + 1) = ((k - 1) + 1) * w /\ Spent(1) = 0 * w
    BY <1>3 DEF Spent
  <1>5. ((k - 1) + 1) * w = (k - 1) * w + w /\ (k - 1) * w \in Int /\ 0 * w = 0
    BY <1>1, <1>2, <1>3
  <1> HIDE DEF w
  <1>6. Spent(k + 1) = Spent(k) + w /\ Spent(k) \in Int /\ Spent(1) = 0
    BY <1>4, <1>5
  <1> QED BY <1>6, SizesAssumption DEF w

\* A nonce belongs to one request; that of a request which was honoured is still in
\* the table, unless it has been there for longer than the window.  The first time is
\* no earlier than the timestamp allows, each later one a window after the one
\* before, and the last no later than the timestamp allows.
OneRequest ==
  \A m, q \in wire :
    m.kind # "push" /\ q.kind # "push" /\ m.nonce = q.nonce => m = q

NonceKept ==
  \A n \in Nonces : used[n].times > 0 =>
    /\ \E m \in wire : /\ m.kind # "push"
                       /\ m.nonce = n
                       /\ m.ts - Skew + Spent(used[n].times) <= used[n].last
                       /\ used[n].last <= m.ts + Skew + Latency
    /\ \/ \E r \in nonces : r.nonce = n /\ r.seen = used[n].last
       \/ used[n].last < now - NonceWindow

NonceInv == OneRequest /\ NonceKept

LEMMA OneRequestNext == TypeOK /\ OneRequest /\ [Next]_vars => OneRequest'
  <1> SUFFICES ASSUME TypeOK, OneRequest, [Next]_vars PROVE OneRequest'
    OBVIOUS
  <1>1. ASSUME NEW d \in Drafts, Compose(d) PROVE OneRequest'
    BY <1>1 DEF Compose, OneRequest
  <1>2. ASSUME NEW q \in Asks, NEW n \in Nonces, NEW d \in Drifts,
               Authorize(q, n, d)
        PROVE  OneRequest'
    BY <1>2 DEF Authorize, OneRequest
  <1>3. CASE wire' = wire
    BY <1>3 DEF OneRequest
  <1>4. ASSUME NEW h \in Handlers, Serve(h) PROVE wire' = wire
    BY <1>4 DEF Serve, Begin, Answer, Fill, Refuse, ServePush, ServePushKnown,
                RefuseNonce, RefuseSince, ServePickup, ServeAck,
                StopAfterClaim, world
  <1>5. ASSUME NEW a \in Agents, Rotate(a) PROVE wire' = wire
    BY <1>5 DEF Rotate
  <1>6. CASE Tick \/ Evict \/ Stop \/ Start
             \/ (\E s \in Subscribers : Subscribe(s) \/ Unsubscribe(s))
    BY <1>3, <1>6 DEF Tick, Evict, Stop, Start, Subscribe, Unsubscribe, world
  <1>7. CASE UNCHANGED vars
    BY <1>3, <1>7 DEF vars, world
  <1> QED BY <1>1, <1>2, <1>3, <1>4, <1>5, <1>6, <1>7 DEF Next, Clients

\* tryClaim does not forget a nonce within the window, so a claim that succeeds is
\* the first or comes a window after the last.
LEMMA ClaimWaits ==
  ASSUME TypeOK, NonceInv, NEW m \in Request, Claimable(m), used[m.nonce].times > 0
  PROVE  used[m.nonce].last + NonceWindow < now
  <1>1. m.nonce \in Nonces /\ used[m.nonce].last \in Nat /\ now \in Nat
    BY DEF Request, TypeOK
  <1>2. \A r \in nonces : r.seen \in Nat
    BY DEF TypeOK, NonceRow
  <1>3. CASE \E r \in nonces : r.nonce = m.nonce /\ r.seen = used[m.nonce].last
    BY <1>1, <1>2, <1>3, SizesAssumption DEF Claimable, Remembered
  <1>4. CASE used[m.nonce].last < now - NonceWindow
    BY <1>1, <1>4, SizesAssumption
  <1> QED BY <1>1, <1>3, <1>4 DEF NonceInv, NonceKept

\* What a handler that honours its request holds.
LEMMA HonouredFields ==
  ASSUME TypeOK, InTime, NEW h \in Handlers, Verified(h, {"pickup", "ack"})
  PROVE  LET q == req[h].msg IN
         /\ q \in wire /\ q \in Request /\ q.kind # "push"
         /\ q.nonce \in Nonces /\ q.ts \in Int /\ now \in Nat
         /\ q.ts - Skew <= now /\ now <= q.ts + Skew + Latency
  <1> DEFINE q == req[h].msg
  <1>1. req[h] \in Service /\ req[h] # Idle /\ q \in Request
    BY InService, ServiceFields, KindFacts DEF Verified
  <1>2. q.nonce \in Nonces /\ q.ts \in Int /\ q.kind # "push" /\ q \in wire
    BY <1>1 DEF Request, InTime
  <1>3. now \in Nat /\ req[h].start \in Nat
    BY <1>1 DEF TypeOK, Service
  <1> QED BY <1>1, <1>2, <1>3, SizesAssumption DEF InTime

\* A step that only purges or claims keeps every row the window covers.
LEMMA NonceKeptPlain ==
  ASSUME TypeOK, NonceKept, used' = used, wire \subseteq wire',
         now' \in Nat, now <= now', Remembered \subseteq nonces'
  PROVE  NonceKept'
  <1> SUFFICES ASSUME NEW n \in Nonces, used[n].times > 0
               PROVE  /\ \E m \in wire' :
                           /\ m.kind # "push"
                           /\ m.nonce = n
                           /\ m.ts - Skew + Spent(used[n].times) <= used[n].last
                           /\ used[n].last <= m.ts + Skew + Latency
                      /\ \/ \E r \in nonces' :
                              r.nonce = n /\ r.seen = used[n].last
                         \/ used[n].last < now' - NonceWindow
    BY DEF NonceKept, Spent
  <1>1. used[n].last \in Nat /\ now \in Nat
    BY DEF TypeOK
  <1>2. CASE \E r \in nonces : r.nonce = n /\ r.seen = used[n].last
    BY <1>1, <1>2, SizesAssumption DEF NonceKept, Remembered
  <1>3. CASE used[n].last < now - NonceWindow
    BY <1>1, <1>3, SizesAssumption DEF NonceKept
  <1> QED BY <1>2, <1>3 DEF NonceKept

\* Honouring a request, for the first time or again.
LEMMA HonourKeeps ==
  ASSUME TypeOK, InTime, NonceInv, NEW h \in Handlers,
         Verified(h, {"pickup", "ack"}), Claim(req[h].msg),
         Honoured(req[h].msg.nonce), now' = now, wire' = wire
  PROVE  NonceKept'
  <1> DEFINE q == req[h].msg
             t == used[q.nonce].times
  <1>1. /\ q \in wire /\ q \in Request /\ q.kind # "push"
        /\ q.nonce \in Nonces /\ q.ts \in Int /\ now \in Nat
        /\ q.ts - Skew <= now /\ now <= q.ts + Skew + Latency
    BY HonouredFields
  <1>2. t \in Nat /\ used[q.nonce].last \in Nat
    BY <1>1 DEF TypeOK
  <1>3. /\ used'[q.nonce] = [times |-> t + 1, last |-> now]
        /\ \A n \in Nonces \ {q.nonce} : used'[n] = used[n]
    BY <1>1 DEF Honoured, TypeOK
  <1>4. q.ts - Skew + Spent(t + 1) <= now
    <2>1. CASE t = 0
      <3>1. Spent(t + 1) = 0
        BY <2>1, SpentGrows
      <3> QED BY <1>1, <3>1, SizesAssumption
    <2>2. CASE t > 0
      <3>1. used[q.nonce].last + NonceWindow < now
        BY <1>1, <2>2, ClaimWaits DEF Claim
      <3>2. PICK m \in wire : /\ m.kind # "push" /\ m.nonce = q.nonce
                              /\ m.ts - Skew + Spent(t) <= used[q.nonce].last
        BY <1>1, <2>2 DEF NonceInv, NonceKept
      <3>3. m = q
        BY <1>1, <3>2 DEF NonceInv, OneRequest
      <3>4. Spent(t) \in Int /\ Spent(t + 1) = Spent(t) + NonceWindow + 1
        BY <1>2, SpentGrows
      <3> QED BY <1>1, <1>2, <3>1, <3>2, <3>3, <3>4, SizesAssumption
    <2> QED BY <1>2, <2>1, <2>2
  <1>5. \E r \in nonces' : r.nonce = q.nonce /\ r.seen = now
    <2> DEFINE row == [nonce |-> q.nonce, agent |-> q.from, seen |-> now]
    <2>1. row \in nonces'
      BY DEF Claim
    <2>2. row.nonce = q.nonce /\ row.seen = now
      OBVIOUS
    <2> QED BY <2>1, <2>2
  <1>6. Remembered \subseteq nonces'
    BY DEF Claim
  <1> SUFFICES ASSUME NEW n \in Nonces, used'[n].times > 0
               PROVE  /\ \E m \in wire' :
                           /\ m.kind # "push"
                           /\ m.nonce = n
                           /\ m.ts - Skew + Spent(used'[n].times) <= used'[n].last
                           /\ used'[n].last <= m.ts + Skew + Latency
                      /\ \/ \E r \in nonces' : r.nonce = n /\ r.seen = used'[n].last
                         \/ used'[n].last < now' - NonceWindow
    BY DEF NonceKept, Spent
  <1>7. CASE n = q.nonce
    BY <1>1, <1>3, <1>4, <1>5, <1>7
  <1>8. CASE n # q.nonce
    <2>1. used'[n] = used[n]
      BY <1>3, <1>8
    <2>2. \/ \E r \in nonces : r.nonce = n /\ r.seen = used[n].last
          \/ used[n].last < now - NonceWindow
      BY <2>1 DEF NonceInv, NonceKept
    <2>3. \/ \E r \in nonces' : r.nonce = n /\ r.seen = used[n].last
          \/ used[n].last < now - NonceWindow
      BY <1>6, <2>2 DEF Remembered
    <2> QED BY <2>1, <2>3 DEF NonceInv, NonceKept
  <1> QED BY <1>7, <1>8

LEMMA NonceInvNext == TypeOK /\ TypeOK' /\ InTime /\ NonceInv /\ [Next]_vars => NonceInv'
  <1> SUFFICES ASSUME TypeOK, TypeOK', InTime, NonceInv, [Next]_vars
               PROVE  NonceInv'
    OBVIOUS
  <1>1. OneRequest'
    BY OneRequestNext DEF NonceInv
  <1>2. now' \in Nat /\ now <= now' /\ wire \subseteq wire'
    BY ClockStep DEF TypeOK, Tick
  <1>3. ASSUME used' = used, Remembered \subseteq nonces'
        PROVE  NonceKept'
    BY <1>2, <1>3, NonceKeptPlain DEF NonceInv
  <1>4. ASSUME used' = used, nonces' = nonces PROVE NonceKept'
    BY <1>3, <1>4 DEF Remembered
  <1>5. ASSUME NEW h \in Handlers, Serve(h) PROVE NonceKept'
    <2>1. CASE (\E m \in wire, since \in Sinces \cup {0} : Begin(h, m, since))
               \/ (\E k \in Keys : Answer(h, k))
               \/ Fill(h) \/ Refuse(h) \/ ServePush(h) \/ ServePushKnown(h)
      BY <1>4, <2>1 DEF Begin, Answer, Fill, Refuse, ServePush,
                        ServePushKnown, tables, history
    <2>2. CASE RefuseNonce(h) \/ RefuseSince(h) \/ StopAfterClaim(h)
      BY <1>3, <2>2 DEF RefuseNonce, RefuseSince, StopAfterClaim, Claim, history
    <2>3. CASE ServePickup(h) \/ ServeAck(h)
      <3>1. Verified(h, {"pickup", "ack"}) /\ now' = now /\ wire' = wire
        BY <2>3 DEF ServePickup, ServeAck, Verified, world
      <3> QED BY <2>3, <3>1, HonourKeeps DEF ServePickup, ServeAck
    <2> QED BY <1>5, <2>1, <2>2, <2>3 DEF Serve
  <1>6. CASE Clients
    BY <1>1, <1>4, <1>6 DEF NonceInv, Clients, Rotate, Compose, Authorize, tables, history
  <1>7. CASE Tick \/ Evict \/ Stop \/ Start
             \/ (\E s \in Subscribers : Subscribe(s) \/ Unsubscribe(s))
    BY <1>1, <1>4, <1>7 DEF NonceInv, Tick, Evict, Stop, Start, Subscribe,
                            Unsubscribe, tables, history
  <1>8. CASE UNCHANGED vars
    BY <1>1, <1>4, <1>8 DEF NonceInv, vars, tables, history
  <1> QED BY <1>1, <1>5, <1>6, <1>7, <1>8 DEF Next, NonceInv

\* Whatever the skew and the nonce window of a relay's configuration, a signed pickup
\* or ack is honoured no more often than the window fits between the first and the
\* last moment at which its timestamp is accepted, across duplicates, delays and
\* restarts.
THEOREM RequestsHonouredSeldom == Spec => []HonouredSeldom
  <1>1. Init => NonceInv
    BY DEF Init, NonceInv, OneRequest, NonceKept
  <1>2. TypeOK /\ TypeOK' /\ InTime /\ NonceInv /\ [Next]_vars => NonceInv'
    BY NonceInvNext
  <1>3. TypeOK /\ NonceInv => HonouredSeldom
    <2> SUFFICES ASSUME TypeOK, NonceInv, NEW n \in Nonces, used[n].times > 0
                 PROVE  Spent(used[n].times) <= 2 * Skew + Latency
      BY DEF HonouredSeldom, Spent
    <2>1. PICK m \in wire : /\ m.kind # "push"
                            /\ m.ts - Skew + Spent(used[n].times) <= used[n].last
                            /\ used[n].last <= m.ts + Skew + Latency
      BY DEF NonceInv, NonceKept
    <2>2. m.ts \in Int
      BY <2>1, KindFacts DEF TypeOK, Request
    <2>3. used[n].times \in Nat /\ used[n].last \in Nat
      BY DEF TypeOK
    <2>4. Spent(used[n].times) \in Int
      BY <2>3, SpentGrows
    <2> QED BY <2>1, <2>2, <2>3, <2>4, SizesAssumption
  <1> QED BY <1>1, <1>2, <1>3, TypeInit, TypeNext, InTimeInit, InTimeNext,
             PTL DEF Spec

-----------------------------------------------------------------------------
(* How old the key can be that the relay verifies a signature with. *)

\* Cached keys and keys in flight, each as old as its path allows: a resolver
\* answer is Stale old when it is read and up to Latency older when it is
\* cached; a cache hit adds CacheTtl.
CacheAge ==
  \A a \in Agents : cache[a].key # 0 =>
    /\ cache[a].fetched <= now
    /\ CurrentSince(a, cache[a].key, cache[a].fetched - Stale - Latency)

AnswerAge ==
  \A h \in Handlers : req[h].pc = "answered" =>
    CurrentSince(req[h].msg.from, req[h].key, req[h].start - Stale)

VerifyAge ==
  \A h \in Handlers : req[h].pc = "verify" =>
    CurrentSince(req[h].msg.from, req[h].key,
                 req[h].start - CacheTtl - Stale - Latency)

\* Only a published key is handed on.
KeyGiven ==
  \A h \in Handlers :
    req[h].pc = "answered" \/ req[h].pc = "verify" => req[h].key \in Keys

KeyInv == CacheAge /\ AnswerAge /\ VerifyAge /\ KeyGiven

\* CurrentSince in the next state, for a key and an instant of this one.
StillSince(a, k, t) ==
  \/ k = key'[a]
  \/ k < key'[a] /\ retired'[a][k] >= t

\* What was published at or after t was published at or after anything older.
LEMMA CurrentSinceMonotone ==
  ASSUME TypeOK, NEW a \in Agents, NEW k \in Keys, NEW t \in Int, NEW u \in Int,
         u <= t, CurrentSince(a, k, t)
  PROVE  CurrentSince(a, k, u)
  <1>1. retired[a][k] \in Nat
    BY DEF TypeOK
  <1> QED BY <1>1 DEF CurrentSince

\* Publishing a new key, and everything else, leaves such a fact true.
LEMMA CurrentSinceStable ==
  ASSUME TypeOK, [Next]_vars, NEW a \in Agents, NEW k \in Keys, NEW t \in Int,
         t <= now, CurrentSince(a, k, t)
  PROVE  StillSince(a, k, t)
  <1>1. CASE UNCHANGED <<key, retired>>
    BY <1>1 DEF CurrentSince, StillSince
  <1>2. ASSUME NEW b \in Agents, Rotate(b) PROVE StillSince(a, k, t)
    <2>1. CASE a # b
      BY <1>2, <2>1 DEF Rotate, CurrentSince, StillSince, TypeOK
    <2>2. CASE a = b
      <3>1. key'[a] = key[a] + 1 /\ key[a] \in Nat /\ key[a] \in Keys
        BY <1>2, <2>2, KeyFacts DEF Rotate, TypeOK
      <3>2. retired'[a][key[a]] = now
            /\ \A j \in Keys : j # key[a] => retired'[a][j] = retired[a][j]
        BY <1>2, <2>2 DEF Rotate, TypeOK
      <3>3. CASE k = key[a]
        BY <3>1, <3>2, <3>3 DEF StillSince
      <3>4. CASE k # key[a]
        <4>1. k < key[a] /\ retired[a][k] >= t
          BY <3>4 DEF CurrentSince
        <4>2. k < key'[a] /\ retired'[a][k] >= t
          BY <3>1, <3>2, <3>4, <4>1, KeyFacts
        <4> QED BY <4>2 DEF StillSince
      <3> QED BY <3>3, <3>4
    <2> QED BY <2>1, <2>2
  <1>3. ASSUME NEW h \in Handlers, Serve(h) PROVE UNCHANGED <<key, retired>>
    BY <1>3 DEF Serve, Begin, Answer, Fill, Refuse, ServePush, ServePushKnown,
                RefuseNonce, RefuseSince, ServePickup, ServeAck,
                StopAfterClaim, world
  <1>4. CASE \/ \E d \in Drafts : Compose(d)
             \/ \E q \in Asks, n \in Nonces, d \in Drifts : Authorize(q, n, d)
    BY <1>1, <1>4 DEF Compose, Authorize
  <1>5. CASE Tick \/ Evict \/ Stop \/ Start
             \/ (\E s \in Subscribers : Subscribe(s) \/ Unsubscribe(s))
    BY <1>1, <1>5 DEF Tick, Evict, Stop, Start, Subscribe, Unsubscribe, world
  <1>6. CASE UNCHANGED vars
    BY <1>1, <1>6 DEF vars, world
  <1> QED BY <1>1, <1>2, <1>3, <1>4, <1>5, <1>6 DEF Next, Clients

\* The cache changes by a Fill or is emptied.
LEMMA CacheStep ==
  ASSUME TypeOK, [Next]_vars, NEW a \in Agents
  PROVE  \/ cache'[a] = cache[a]
         \/ cache'[a] = NoEntry
         \/ \E h \in Handlers : Fill(h) /\ req[h].msg.from = a
  <1> DEFINE P == \/ cache'[a] = cache[a]
                  \/ cache'[a] = NoEntry
                  \/ \E h \in Handlers : Fill(h) /\ req[h].msg.from = a
  <1> SUFFICES P
    OBVIOUS
  <1>1. ASSUME NEW h \in Handlers, Fill(h) PROVE P
    BY <1>1 DEF Fill, TypeOK
  <1>2. ASSUME NEW h \in Handlers, Serve(h), ~Fill(h) PROVE P
    BY <1>2 DEF Serve, Begin, Answer, Refuse, ServePush, ServePushKnown,
                RefuseNonce, RefuseSince, ServePickup, ServeAck,
                StopAfterClaim, Exit
  <1>3. CASE Clients \/ Tick \/ Evict \/ Stop \/ Start
             \/ (\E s \in Subscribers : Subscribe(s) \/ Unsubscribe(s))
    BY <1>3 DEF Clients, Rotate, Compose, Authorize, Tick, Evict, Stop, Start,
                Exit, Subscribe, Unsubscribe
  <1>4. CASE UNCHANGED vars
    BY <1>4 DEF vars
  <1> QED BY <1>1, <1>2, <1>3, <1>4 DEF Next

LEMMA KeyInvInit == Init => KeyInv
  BY DEF Init, KeyInv, CacheAge, AnswerAge, VerifyAge, KeyGiven, NoEntry, Idle

LEMMA KeyInvNext ==
  TypeOK /\ InTime /\ KeyInv /\ [Next]_vars => KeyInv'
  <1> SUFFICES ASSUME TypeOK, InTime, KeyInv, [Next]_vars PROVE KeyInv'
    OBVIOUS
  <1> USE SizesAssumption
  <1>1. now \in Nat /\ now' \in Nat /\ now <= now'
    BY ClockStep DEF TypeOK, Tick
  <1>2. CacheAge'
    <2> SUFFICES ASSUME NEW a \in Agents, cache'[a].key # 0
                 PROVE  /\ cache'[a].fetched <= now'
                        /\ StillSince(a, cache'[a].key,
                                      cache'[a].fetched - Stale - Latency)
      BY DEF CacheAge, CurrentSince, StillSince
    <2>1. CASE cache'[a] = cache[a]
      <3>1. cache[a].key \in Keys /\ cache[a].fetched \in Nat
            /\ cache[a].fetched <= now
        BY <2>1 DEF TypeOK, KeyInv, CacheAge
      <3> DEFINE t == cache[a].fetched - Stale - Latency
      <3>2. t \in Int /\ t <= now /\ CurrentSince(a, cache[a].key, t)
        BY <2>1, <3>1, <1>1 DEF KeyInv, CacheAge
      <3>3. StillSince(a, cache[a].key, t)
        BY <3>1, <3>2, CurrentSinceStable
      <3> QED BY <2>1, <3>1, <3>3, <1>1
    <2>2. CASE cache'[a] = NoEntry
      BY <2>2 DEF NoEntry
    <2>3. ASSUME NEW h \in Handlers, Fill(h), req[h].msg.from = a
          PROVE  /\ cache'[a].fetched <= now'
                 /\ StillSince(a, cache'[a].key,
                               cache'[a].fetched - Stale - Latency)
      <3>1. req[h] \in Service /\ req[h] # Idle /\ req[h].pc = "answered"
        BY <2>3, InService DEF Fill
      <3>2. cache'[a] = [key |-> req[h].key, fetched |-> now] /\ now' = now
        BY <2>3 DEF Fill, TypeOK
      <3>3. key' = key /\ retired' = retired
        BY <2>3 DEF Fill, world
      <3>4. req[h].key \in Keys
            /\ CurrentSince(a, req[h].key, req[h].start - Stale)
        BY <2>3, <3>1 DEF KeyInv, AnswerAge, KeyGiven
      <3>5. req[h].start \in Nat /\ now <= req[h].start + Latency
        BY <3>1 DEF InTime, Service
      <3>6. CurrentSince(a, req[h].key, now - Stale - Latency)
        BY <3>4, <3>5, <1>1, CurrentSinceMonotone
      <3> QED BY <3>2, <3>3, <3>6, <1>1 DEF CurrentSince, StillSince
    <2> QED BY <2>1, <2>2, <2>3, CacheStep
  <1>3. ASSUME NEW h \in Handlers
        PROVE  /\ req'[h].pc = "answered" =>
                    /\ StillSince(req'[h].msg.from, req'[h].key,
                                  req'[h].start - Stale)
                    /\ req'[h].key \in Keys
               /\ req'[h].pc = "verify" =>
                    /\ StillSince(req'[h].msg.from, req'[h].key,
                                  req'[h].start - CacheTtl - Stale - Latency)
                    /\ req'[h].key \in Keys
    <2>1. CASE req'[h] = Idle
      BY <2>1 DEF Idle
    <2>2. CASE req'[h] = req[h]
      <3>1. ASSUME req[h].pc = "answered" \/ req[h].pc = "verify"
            PROVE  /\ req[h].msg.from \in Agents
                   /\ req[h].key \in Keys
                   /\ req[h].start \in Nat
                   /\ req[h].start <= now
        BY <3>1, InService, ServiceFields DEF InTime, KeyInv, KeyGiven
      <3>2. ASSUME req[h].pc = "answered"
            PROVE  StillSince(req[h].msg.from, req[h].key, req[h].start - Stale)
        <4>1. CurrentSince(req[h].msg.from, req[h].key, req[h].start - Stale)
          BY <3>2 DEF KeyInv, AnswerAge
        <4> QED BY <3>1, <3>2, <4>1, <1>1, CurrentSinceStable
      <3>3. ASSUME req[h].pc = "verify"
            PROVE  StillSince(req[h].msg.from, req[h].key,
                              req[h].start - CacheTtl - Stale - Latency)
        <4> DEFINE t == req[h].start - CacheTtl - Stale - Latency
        <4>1. CurrentSince(req[h].msg.from, req[h].key, t)
          BY <3>3 DEF KeyInv, VerifyAge
        <4>2. t \in Int /\ t <= now
          BY <3>1, <3>3, <1>1
        <4> QED BY <3>1, <3>3, <4>1, <4>2, CurrentSinceStable
      <3> QED BY <2>2, <3>1, <3>2, <3>3
    <2>3. ASSUME NEW m \in wire, NEW since \in Sinces \cup {0}, Begin(h, m, since)
          PROVE  /\ req'[h].pc # "answered"
                 /\ req'[h].pc = "verify" =>
                      /\ StillSince(req'[h].msg.from, req'[h].key,
                                  req'[h].start - CacheTtl - Stale - Latency)
                      /\ req'[h].key \in Keys
      <3>1. /\ req'[h].pc = (IF CacheHit(m.from) THEN "verify" ELSE "ask")
            /\ req'[h].msg = m
            /\ req'[h].start = now
            /\ CacheHit(m.from) => req'[h].key = cache[m.from].key
            /\ key' = key /\ retired' = retired
        BY <2>3 DEF Begin, TypeOK, world
      <3>2. m.from \in Agents
        BY DEF TypeOK, Envelope, Request
      <3>3. ASSUME CacheHit(m.from)
            PROVE  /\ CurrentSince(m.from, cache[m.from].key,
                                   now - CacheTtl - Stale - Latency)
                   /\ cache[m.from].key \in Keys
        <4>1. cache[m.from].key \in Keys /\ cache[m.from].fetched \in Nat
              /\ now - cache[m.from].fetched < CacheTtl
          BY <3>2, <3>3 DEF CacheHit, TypeOK
        <4>2. CurrentSince(m.from, cache[m.from].key,
                           cache[m.from].fetched - Stale - Latency)
          BY <3>2, <3>3 DEF CacheHit, KeyInv, CacheAge
        <4>3. now - CacheTtl - Stale - Latency
                <= cache[m.from].fetched - Stale - Latency
          BY <4>1, <1>1
        <4> QED BY <3>2, <4>1, <4>2, <4>3, <1>1, CurrentSinceMonotone
      <3> QED BY <3>1, <3>3 DEF CurrentSince, StillSince
    <2>4. ASSUME NEW k \in Keys, Answer(h, k)
          PROVE  /\ req'[h].pc = "answered"
                 /\ req'[h].key \in Keys
                 /\ StillSince(req'[h].msg.from, req'[h].key,
                               req'[h].start - Stale)
      <3>1. req[h] \in Service /\ req[h] # Idle
        BY <2>4, InService DEF Answer
      <3>2. /\ req'[h].pc = "answered" /\ req'[h].key = k
            /\ req'[h].msg = req[h].msg /\ req'[h].start = req[h].start
            /\ key' = key /\ retired' = retired
        BY <2>4, <3>1 DEF Answer, world, TypeOK, Service
      <3>3. req[h].start \in Nat /\ req[h].start <= now
            /\ req[h].msg.from \in Agents
        BY <3>1, ServiceFields DEF InTime
      <3>4. CurrentSince(req[h].msg.from, k, now - Stale)
        BY <2>4 DEF Answer
      <3> DEFINE a == req[h].msg.from
                 t == now - Stale
                 u == req[h].start - Stale
      <3>5. a \in Agents /\ t \in Int /\ u \in Int /\ u <= t
        BY <3>3, <1>1
      <3>6. CurrentSince(a, k, u)
        <4> HIDE DEF a, t, u
        <4>1. CurrentSince(a, k, t)
          BY <3>4 DEF a, t
        <4> QED BY <3>5, <4>1, CurrentSinceMonotone
      <3> QED BY <3>2, <3>6 DEF CurrentSince, StillSince
    <2>5. ASSUME Fill(h)
          PROVE  /\ req'[h].pc = "verify"
                 /\ req'[h].key \in Keys
                 /\ StillSince(req'[h].msg.from, req'[h].key,
                               req'[h].start - CacheTtl - Stale - Latency)
      <3>1. req[h] \in Service /\ req[h] # Idle /\ req[h].pc = "answered"
        BY <2>5, InService DEF Fill
      <3>2. /\ req'[h].pc = "verify" /\ req'[h].key = req[h].key
            /\ req'[h].msg = req[h].msg /\ req'[h].start = req[h].start
            /\ key' = key /\ retired' = retired
        BY <2>5, <3>1 DEF Fill, world, TypeOK, Service
      <3>3. req[h].start \in Nat /\ req[h].msg.from \in Agents
        BY <3>1, ServiceFields
      <3>4. req[h].key \in Keys /\ CurrentSince(req[h].msg.from, req[h].key,
                                                req[h].start - Stale)
        BY <3>1 DEF KeyInv, KeyGiven, AnswerAge
      <3>5. CurrentSince(req[h].msg.from, req[h].key,
                         req[h].start - CacheTtl - Stale - Latency)
        BY <3>3, <3>4, <1>1, CurrentSinceMonotone
      <3> QED BY <3>2, <3>4, <3>5 DEF CurrentSince, StillSince
    <2>6. CASE \E m \in wire, since \in Sinces \cup {0} : Begin(h, m, since)
      BY <2>3, <2>6
    <2>7. CASE \E k \in Keys : Answer(h, k)
      BY <2>4, <2>7
    <2>8. CASE Fill(h)
      BY <2>5, <2>8
    <2> QED BY <2>1, <2>2, <2>6, <2>7, <2>8, HandlerStep
  <1>4. AnswerAge' /\ VerifyAge' /\ KeyGiven'
    BY <1>3 DEF AnswerAge, VerifyAge, KeyGiven, CurrentSince, StillSince
  <1> QED BY <1>2, <1>4 DEF KeyInv

\* Whatever key the relay verifies a push, pickup or ack with was the sender's
\* published key at most KeyAge ago, for any lookups in flight at once.
THEOREM VerifiesWithFreshKeys == Spec => []KeysFresh
  <1>1. TypeOK /\ InTime /\ KeyInv => KeysFresh
    <2> SUFFICES ASSUME TypeOK, InTime, KeyInv, NEW h \in Handlers,
                        req[h].pc = "verify"
                 PROVE  CurrentSince(req[h].msg.from, req[h].key, now - KeyAge)
      BY DEF KeysFresh
    <2>1. req[h] \in Service /\ req[h] # Idle
      BY InService
    <2>2. /\ req[h].start \in Nat /\ now \in Nat
          /\ now <= req[h].start + Latency
          /\ req[h].msg.from \in Agents
      BY <2>1, ServiceFields DEF InTime, TypeOK
    <2> DEFINE t == req[h].start - CacheTtl - Stale - Latency
    <2>3. CurrentSince(req[h].msg.from, req[h].key, t)
      BY DEF KeyInv, VerifyAge
    <2>4. t \in Int /\ now - KeyAge \in Int /\ now - KeyAge <= t
      BY <2>2, SizesAssumption DEF KeyAge
    <2>5. req[h].key \in Keys
      BY DEF KeyInv, KeyGiven
    <2> QED BY <2>2, <2>3, <2>4, <2>5, CurrentSinceMonotone
  <1> QED BY <1>1, TypeInit, TypeNext, InTimeInit, InTimeNext, KeyInvInit,
             KeyInvNext, PTL DEF Spec

-----------------------------------------------------------------------------
(* What happens to stored envelopes. *)

\* Everything a step can do to the table and the streams.
LEMMA StoreStep ==
  ASSUME TypeOK, [Next]_vars
  PROVE  \/ store' = store /\ view' = view
         \/ \E h \in Handlers : ServePush(h) \/ ServeAck(h)
         \/ Evict
         \/ store' = store /\ Exit
         \/ /\ store' = store
            /\ \E s \in Subscribers : Subscribe(s) \/ Unsubscribe(s)
  <1>1. ASSUME NEW h \in Handlers, Serve(h)
        PROVE  \/ store' = store /\ view' = view
               \/ ServePush(h) \/ ServeAck(h)
               \/ store' = store /\ Exit
    BY <1>1 DEF Serve, Begin, Answer, Fill, Refuse, ServePushKnown, RefuseNonce,
                RefuseSince, ServePickup, StopAfterClaim, tables
  <1>2. CASE Clients
    BY <1>2 DEF Clients, Rotate, Compose, Authorize, tables
  <1>3. CASE Tick \/ Start \/ Stop
    BY <1>3 DEF Tick, Start, Stop, tables
  <1>4. CASE Evict
    BY <1>4
  <1>5. ASSUME NEW s \in Subscribers, Subscribe(s) \/ Unsubscribe(s)
        PROVE  store' = store
    BY <1>5 DEF Subscribe, Unsubscribe, tables
  <1>6. CASE UNCHANGED vars
    BY <1>6 DEF vars, tables
  <1> QED BY <1>1, <1>2, <1>3, <1>4, <1>5, <1>6 DEF Next

LEMMA OneRowNext == TypeOK /\ OneRowPerId /\ [Next]_vars => OneRowPerId'
  <1> SUFFICES ASSUME TypeOK, OneRowPerId, [Next]_vars PROVE OneRowPerId'
    OBVIOUS
  <1>1. CASE store' \subseteq store
    BY <1>1 DEF OneRowPerId
  <1>2. ASSUME NEW h \in Handlers, ServePush(h) PROVE OneRowPerId'
    <2> DEFINE e == req[h].msg
               life == IF e.ttl < MaxTtl THEN e.ttl ELSE MaxTtl
               row == [env |-> e, received |-> now, expires |-> now + life]
    <2>1. store' = store \cup {row} /\ row.env = e
      BY <1>2 DEF ServePush
    <2>2. \A r \in store : r.env.id # e.id
      BY <1>2 DEF ServePush, Known, StoredIds
    <2> HIDE DEF row, e
    <2> QED BY <2>1, <2>2 DEF OneRowPerId
  <1>3. ASSUME NEW h \in Handlers, ServeAck(h) PROVE store' \subseteq store
    BY <1>3 DEF ServeAck, Named
  <1>4. CASE Evict
    BY <1>1, <1>4 DEF Evict, Expired
  <1> QED BY <1>1, <1>2, <1>3, <1>4, StoreStep

\* No two rows of the table carry one envelope id.
THEOREM OneRow == Spec => []OneRowPerId
  <1>1. Init => OneRowPerId
    BY DEF Init, OneRowPerId
  <1> QED BY <1>1, OneRowNext, TypeInit, TypeNext, PTL DEF Spec

-----------------------------------------------------------------------------
(* Eviction. *)

\* The timer is armed within one interval of now; the row that waits longest
\* for it expired, or met the last start, within one interval of its firing.
TimerArmed == up => /\ now <= nextEvict
                    /\ nextEvict <= now + EvictEvery

AwaitsTimer ==
  up => \A r \in store : \/ nextEvict < r.expires + EvictEvery
                         \/ nextEvict <= booted + EvictEvery

\* Steps other than time, eviction, start and a push leave the timer and the
\* rows as they are, or stop the process, or drop rows.
LEMMA TimerStep ==
  ASSUME TypeOK, [Next]_vars
  PROVE  \/ Tick \/ Evict \/ Start
         \/ \E h \in Handlers : ServePush(h)
         \/ ~up'
         \/ /\ store' \subseteq store
            /\ up' = up /\ now' = now
            /\ booted' = booted /\ nextEvict' = nextEvict
  <1> DEFINE Still == /\ store' \subseteq store
                      /\ up' = up /\ now' = now
                      /\ booted' = booted /\ nextEvict' = nextEvict
  <1>1. ASSUME NEW h \in Handlers, Serve(h), ~ServePush(h)
        PROVE  ~up' \/ Still
    BY <1>1 DEF Serve, Begin, Answer, Fill, Refuse, ServePushKnown, RefuseNonce,
                RefuseSince, ServePickup, ServeAck, StopAfterClaim, Exit,
                tables, timer
  <1>2. CASE Clients
    BY <1>2 DEF Clients, Rotate, Compose, Authorize, tables, timer
  <1>3. CASE Stop
    BY <1>3 DEF Stop, Exit
  <1>4. ASSUME NEW s \in Subscribers, Subscribe(s) \/ Unsubscribe(s) PROVE Still
    BY <1>4 DEF Subscribe, Unsubscribe, tables, timer
  <1>5. CASE UNCHANGED vars
    BY <1>5 DEF vars, tables, timer
  <1> QED BY <1>1, <1>2, <1>3, <1>4, <1>5 DEF Next

LEMMA TimerNext ==
  TypeOK /\ TimerArmed /\ AwaitsTimer /\ [Next]_vars
    => TimerArmed' /\ AwaitsTimer'
  <1> SUFFICES ASSUME TypeOK, TimerArmed, AwaitsTimer, [Next]_vars
               PROVE  TimerArmed' /\ AwaitsTimer'
    OBVIOUS
  <1> USE SizesAssumption DEF TypeOK, TimerArmed, AwaitsTimer
  <1>1. CASE Tick
    BY <1>1 DEF Tick, tables, timer
  <1>2. CASE Evict
    <2>1. /\ now' = now /\ up' = up /\ booted' = booted
          /\ nextEvict' = now + EvictEvery
          /\ store' = {r \in store : ~(r.expires <= now)}
      BY <1>2 DEF Evict, Expired
    <2>2. \A r \in store' : r.expires \in Nat /\ r.expires > now
      BY <2>1 DEF Row
    <2> QED BY <2>1, <2>2
  <1>3. CASE Start
    BY <1>3 DEF Start
  <1>4. ASSUME NEW h \in Handlers, ServePush(h)
        PROVE  TimerArmed' /\ AwaitsTimer'
    <2> DEFINE e == req[h].msg
               life == IF e.ttl < MaxTtl THEN e.ttl ELSE MaxTtl
               row == [env |-> e, received |-> now, expires |-> now + life]
    <2>1. /\ now' = now /\ up' = up /\ booted' = booted
          /\ nextEvict' = nextEvict /\ store' = store \cup {row}
      BY <1>4 DEF ServePush, timer
    <2>2. e \in Envelope
      BY <1>4, InService, ServiceFields, KindFacts DEF ServePush, Verified
    <2>3. life \in Nat \ {0}
      BY <2>2 DEF Envelope
    <2>4. row.expires = now + life /\ now \in Nat
      OBVIOUS
    <2> HIDE DEF row, life
    <2>5. up => nextEvict < row.expires + EvictEvery
      BY <2>3, <2>4
    <2> QED BY <2>1, <2>5
  <1>5. CASE ~up'
    BY <1>5
  <1>6. CASE /\ store' \subseteq store
             /\ up' = up /\ now' = now
             /\ booted' = booted /\ nextEvict' = nextEvict
    BY <1>6
  <1> QED BY <1>1, <1>2, <1>3, <1>4, <1>5, <1>6, TimerStep

\* While the relay runs no envelope outlives its expiry by one eviction
\* interval, or the last start by more than one.
THEOREM EvictedInTime == Spec => []RetentionBounded
  <1>1. Init => TimerArmed /\ AwaitsTimer
    BY SizesAssumption DEF Init, TimerArmed, AwaitsTimer
  <1>2. TypeOK /\ TimerArmed /\ AwaitsTimer => RetentionBounded
    <2> SUFFICES ASSUME TypeOK, TimerArmed, AwaitsTimer, up, NEW r \in store
                 PROVE  \/ now < r.expires + EvictEvery
                        \/ now <= booted + EvictEvery
      BY DEF RetentionBounded
    <2>1. r.expires \in Nat
      BY DEF TypeOK, Row
    <2> QED BY <2>1, SizesAssumption DEF TypeOK, TimerArmed, AwaitsTimer
  <1> QED BY <1>1, <1>2, TimerNext, TypeInit, TypeNext, PTL DEF Spec

-----------------------------------------------------------------------------
(* The event stream. *)

\* Rows and connections are not dated in the future.
Dated ==
  /\ \A r \in store : r.received <= now
  /\ \A s \in Subscribers : view[s].since <= now

LEMMA DatedNext == TypeOK /\ Dated /\ [Next]_vars => Dated'
  <1> SUFFICES ASSUME TypeOK, Dated, [Next]_vars PROVE Dated'
    OBVIOUS
  <1> USE DEF TypeOK, Dated
  <1>1. now' \in Nat /\ now <= now'
    BY ClockStep DEF Tick
  <1>2. \A r \in store' : r.received <= now'
    <2>1. CASE store' \subseteq store
      BY <1>1, <2>1 DEF Row
    <2>2. ASSUME NEW h \in Handlers, ServePush(h)
          PROVE  \A r \in store' : r.received <= now'
      BY <1>1, <2>2 DEF ServePush, Row
    <2>3. ASSUME NEW h \in Handlers, ServeAck(h) PROVE store' \subseteq store
      BY <2>3 DEF ServeAck, Named
    <2>4. CASE Evict
      BY <2>1, <2>4 DEF Evict, Expired
    <2> QED BY <2>1, <2>2, <2>3, <2>4, StoreStep
  <1>3. \A s \in Subscribers : view'[s].since <= now'
    <2> SUFFICES ASSUME NEW s \in Subscribers PROVE view'[s].since <= now'
      OBVIOUS
    <2>1. view[s].since \in Nat
      OBVIOUS
    <2>2. ASSUME NEW gained, NEW lost, Publish(gained, lost)
          PROVE  view'[s].since = view[s].since
      <3>1. view'[s] = IF view[s].on
                       THEN [view[s] EXCEPT !.live = (@ \cup gained) \ lost]
                       ELSE view[s]
        BY <2>2 DEF Publish
      <3> QED BY <3>1
    <2>3. ASSUME NEW c \in Subscribers, Subscribe(c) \/ Unsubscribe(c)
          PROVE  view'[s].since <= now'
      <3>1. s # c => view'[s] = view[s]
        BY <2>3 DEF Subscribe, Unsubscribe
      <3>2. view'[c].since = now \/ view'[c].since = 0
        BY <2>3 DEF Subscribe, Unsubscribe, Off
      <3> QED BY <1>1, <2>1, <3>1, <3>2
    <2>4. CASE Exit
      BY <1>1, <2>4 DEF Exit, Off
    <2>5. CASE Evict \/ (\E h \in Handlers : ServePush(h) \/ ServeAck(h))
      <3>1. view'[s].since = view[s].since
        BY <2>2, <2>5 DEF ServePush, ServeAck, Evict
      <3> QED BY <1>1, <2>1, <3>1
    <2>6. CASE view' = view
      BY <1>1, <2>1, <2>6
    <2> QED BY <2>3, <2>4, <2>5, <2>6, StoreStep
  <1> QED BY <1>2, <1>3

\* Dropping rows and publishing their ids keeps every view in agreement,
\* because no kept row shares its id with a dropped one.
LEMMA DropAgrees ==
  ASSUME TypeOK, OneRowPerId, ViewAgrees, NEW dropped \in SUBSET store,
         store' = store \ dropped, Publish({}, {r.env.id : r \in dropped})
  PROVE  ViewAgrees'
  <1> SUFFICES ASSUME NEW s \in Subscribers, view'[s].on
               PROVE  /\ view'[s].live \subseteq StoredIds'
                      /\ \A r \in store' : r.received > view'[s].since =>
                           r.env.id \in view'[s].live
    BY DEF ViewAgrees
  <1> DEFINE lost == {r.env.id : r \in dropped}
  <1>1. /\ view[s].on
        /\ view'[s].live = view[s].live \ lost
        /\ view'[s].since = view[s].since
    BY DEF Publish, TypeOK
  <1>2. view'[s].live \subseteq StoredIds'
    <2> SUFFICES ASSUME NEW i \in view[s].live, i \notin lost
                 PROVE  i \in StoredIds'
      BY <1>1
    <2>1. PICK r \in store : r.env.id = i
      BY <1>1 DEF ViewAgrees, StoredIds
    <2>2. r \notin dropped
      BY <2>1
    <2> QED BY <2>1, <2>2 DEF StoredIds
  <1>3. ASSUME NEW r \in store', r.received > view'[s].since
        PROVE  r.env.id \in view'[s].live
    <2>1. r \in store /\ r \notin dropped
      BY <1>3
    <2>2. r.env.id \notin lost
      BY <2>1 DEF OneRowPerId
    <2> QED BY <1>1, <1>3, <2>1, <2>2 DEF ViewAgrees
  <1> QED BY <1>2, <1>3

LEMMA ViewNext ==
  TypeOK /\ OneRowPerId /\ Dated /\ ViewAgrees /\ [Next]_vars => ViewAgrees'
  <1> SUFFICES ASSUME TypeOK, OneRowPerId, Dated, ViewAgrees, [Next]_vars
               PROVE  ViewAgrees'
    OBVIOUS
  <1>1. CASE store' = store /\ view' = view
    BY <1>1 DEF ViewAgrees, StoredIds
  <1>2. ASSUME NEW h \in Handlers, ServePush(h) PROVE ViewAgrees'
    <2> DEFINE e == req[h].msg
               life == IF e.ttl < MaxTtl THEN e.ttl ELSE MaxTtl
               row == [env |-> e, received |-> now, expires |-> now + life]
    <2>1. store' = store \cup {row} /\ row.env.id = e.id
      BY <1>2 DEF ServePush
    <2>2. \A s \in Subscribers : view'[s].on =>
            /\ view[s].on
            /\ view'[s].live = view[s].live \cup {e.id}
            /\ view'[s].since = view[s].since
      BY <1>2 DEF ServePush, Publish, TypeOK
    <2> HIDE DEF row, e
    <2> QED BY <2>1, <2>2 DEF ViewAgrees, StoredIds
  <1>3. ASSUME NEW h \in Handlers, ServeAck(h) PROVE ViewAgrees'
    BY <1>3, DropAgrees DEF ServeAck, Named
  <1>4. CASE Evict
    BY <1>4, DropAgrees DEF Evict, Expired
  <1>5. CASE store' = store /\ Exit
    BY <1>5 DEF Exit, Off, ViewAgrees
  <1>6. ASSUME NEW c \in Subscribers, Subscribe(c), store' = store
        PROVE  ViewAgrees'
    <2>1. \A s \in Subscribers : s # c => view'[s] = view[s]
      BY <1>6 DEF Subscribe, TypeOK
    <2>2. view'[c].live = {} /\ view'[c].since = now
      BY <1>6 DEF Subscribe, TypeOK
    <2>3. \A r \in store : ~(r.received > now)
      BY DEF Dated, TypeOK, Row
    <2> QED BY <1>6, <2>1, <2>2, <2>3 DEF ViewAgrees, StoredIds
  <1>7. ASSUME NEW c \in Subscribers, Unsubscribe(c), store' = store
        PROVE  ViewAgrees'
    BY <1>7 DEF Unsubscribe, Off, ViewAgrees, StoredIds, TypeOK
  <1> QED BY <1>1, <1>2, <1>3, <1>4, <1>5, <1>6, <1>7, StoreStep

\* A connected stream client knows what was stored since it connected and
\* nothing that is gone.
THEOREM ViewsAgree == Spec => []ViewAgrees
  <1>1. Init => OneRowPerId /\ Dated /\ ViewAgrees
    BY DEF Init, OneRowPerId, Dated, ViewAgrees, Off
  <1> QED BY <1>1, OneRowNext, DatedNext, ViewNext, TypeInit, TypeNext,
             PTL DEF Spec

-----------------------------------------------------------------------------
(* The relay implements Mailbox. *)

\* A claim that succeeds is the mailbox honouring a request.
LEMMA HonourMaps ==
  ASSUME TypeOK, InTime, NonceInv, NEW h \in Handlers,
         Verified(h, {"pickup", "ack"}), Claim(req[h].msg),
         Honoured(req[h].msg.nonce), now' = now, wire' = wire
  PROVE  req[h].msg \in wire /\ Box!Honour(req[h].msg)
  <1> DEFINE q == req[h].msg
             n == q.nonce
  <1>1. /\ q \in wire /\ q \in Request /\ n \in Nonces
        /\ q.ts - Skew <= now /\ now <= q.ts + Skew + Latency
    BY HonouredFields
  <1>2. \A d \in Done : d.nonce = n => d.at + NonceWindow < now
    BY <1>1, ClaimWaits DEF Claim, Done
  <1>3. /\ used'[n].times > 0 /\ used'[n].last = now
        /\ \A x \in Nonces \ {n} : used'[x] = used[x]
    BY <1>1 DEF Honoured, TypeOK
  <1>4. Done' = {d \in Done : d.nonce # n} \cup {[nonce |-> n, at |-> now]}
    <2>1. ASSUME NEW d \in Done' PROVE d \in {x \in Done : x.nonce # n} \cup {[nonce |-> n, at |-> now]}
      <3>1. PICK x \in Nonces : used'[x].times > 0 /\ d = [nonce |-> x, at |-> used'[x].last]
        BY <2>1 DEF Done
      <3>2. CASE x = n
        BY <1>3, <3>1, <3>2
      <3>3. CASE x # n
        BY <1>3, <3>1, <3>3 DEF Done
      <3> QED BY <3>2, <3>3
    <2>2. ASSUME NEW d \in Done, d.nonce # n PROVE d \in Done'
      BY <1>3, <2>2 DEF Done
    <2>3. [nonce |-> n, at |-> now] \in Done'
      BY <1>1, <1>3 DEF Done
    <2> QED BY <2>1, <2>2, <2>3
  <1> QED BY <1>1, <1>2, <1>4 DEF Box!Honour

\* A pickup in service was asked with one of the instants a caller may name.
SinceInv ==
  \A h \in Handlers :
    req[h] # Idle /\ req[h].msg.kind = "pickup" => req[h].since \in Sinces

LEMMA SinceNext == TypeOK /\ SinceInv /\ [Next]_vars => SinceInv'
  <1> SUFFICES ASSUME TypeOK, SinceInv, [Next]_vars, NEW h \in Handlers,
                      req'[h] # Idle, req'[h].msg.kind = "pickup"
               PROVE  req'[h].since \in Sinces
    BY DEF SinceInv
  <1>1. ASSUME NEW m \in wire, NEW since \in Sinces \cup {0}, Begin(h, m, since)
        PROVE  req'[h].msg = m /\ req'[h].since = since
               /\ since \in IF m.kind = "pickup" THEN Sinces ELSE {0}
    BY <1>1 DEF Begin, TypeOK
  <1>2. CASE (\E k \in Keys : Answer(h, k)) \/ Fill(h)
    <2>1. req[h] \in Service /\ req[h] # Idle
      BY <1>2, InService DEF Answer, Fill
    <2>2. req'[h].msg = req[h].msg /\ req'[h].since = req[h].since
      BY <1>2, <2>1 DEF Answer, Fill, TypeOK, Service
    <2> QED BY <2>1, <2>2 DEF SinceInv
  <1> QED BY <1>1, <1>2, HandlerStep DEF SinceInv

LEMMA StepMaps == TypeOK /\ InTime /\ NonceInv /\ SinceInv /\ [Next]_vars
                    => [Box!Next]_(Box!mailboxVars)
  <1> SUFFICES ASSUME TypeOK, InTime, NonceInv, SinceInv, [Next]_vars
               PROVE  Box!Next \/ UNCHANGED Box!mailboxVars
    OBVIOUS
  <1>1. ASSUME UNCHANGED <<now, wire, store, used, delivered>>
        PROVE  UNCHANGED Box!mailboxVars
    BY <1>1 DEF Box!mailboxVars, Done
  <1>2. CASE Tick
    BY <1>2 DEF Tick, world, tables, history, Done, Box!Next, Box!Pass
  <1>3. ASSUME NEW a \in Agents, Rotate(a) PROVE UNCHANGED Box!mailboxVars
    BY <1>1, <1>3 DEF Rotate, tables, history
  <1>4. ASSUME NEW m, wire' = wire \cup {m},
               UNCHANGED <<now, store, used, delivered>>
        PROVE  Box!Next \/ UNCHANGED Box!mailboxVars
    <2>1. CASE wire' = wire
      BY <1>1, <1>4, <2>1
    <2>2. CASE wire' # wire
      <3>1. Box!Sign(m) /\ m \in wire'
            BY <1>4 DEF Box!Sign, Done
      <3> QED BY <2>2, <3>1 DEF Box!Next
    <2> QED BY <2>1, <2>2
  <1>5. CASE \/ \E d \in Drafts : Compose(d)
             \/ \E q \in Asks, n \in Nonces, d \in Drifts : Authorize(q, n, d)
    BY <1>4, <1>5 DEF Compose, Authorize, tables, history
  <1>6. ASSUME NEW h \in Handlers, ServePush(h) PROVE Box!Next
    <2> DEFINE e == req[h].msg
    <2>1. e.kind = "push" /\ e \in wire
      BY <1>6, InService DEF ServePush, Verified, InTime
    <2>2. \A r \in store : r.env.id # e.id
      BY <1>6 DEF ServePush, Known, StoredIds
    <2>3. Box!Accept(e)
      BY <1>6, <2>1, <2>2 DEF ServePush, Done, Box!Accept, world, history
    <2> QED BY <2>1, <2>3 DEF Box!Next
  <1>7. ASSUME NEW h \in Handlers, ServePickup(h) PROVE Box!Next
    <2> DEFINE q == req[h].msg
    <2>1. Verified(h, {"pickup", "ack"}) /\ q.kind = "pickup" /\ now' = now /\ wire' = wire
      BY <1>7 DEF ServePickup, Verified, world
    <2>2. q \in wire /\ Box!Honour(q)
      BY <1>7, <2>1, HonourMaps DEF ServePickup
    <2>3. req[h].since \in Sinces
      <3>1. req[h] # Idle
        BY <2>1, InService DEF Verified
      <3> QED BY <2>1, <3>1 DEF SinceInv
    <2>4. Box!Show(q, req[h].since)
      BY <1>7, <2>1, <2>2 DEF ServePickup, Box!Show
    <2> QED BY <2>2, <2>3, <2>4 DEF Box!Next
  <1>8. ASSUME NEW h \in Handlers, ServeAck(h) PROVE Box!Next
    <2> DEFINE q == req[h].msg
    <2>1. Verified(h, {"pickup", "ack"}) /\ q.kind = "ack" /\ now' = now /\ wire' = wire
      BY <1>8 DEF ServeAck, Verified, world
    <2>2. q \in wire /\ Box!Honour(q)
      BY <1>8, <2>1, HonourMaps DEF ServeAck
    <2>3. store' = {r \in store : ~(r.env.to = q.from /\ r.env.id \in q.ids)}
      BY <1>8 DEF ServeAck, Named
    <2>4. Box!Discard(q)
      BY <1>8, <2>1, <2>2, <2>3 DEF ServeAck, Box!Discard
    <2> QED BY <2>2, <2>4 DEF Box!Next
  <1>9. CASE Evict
    <2>1. store' = {r \in store : r.expires > now}
      <3>1. \A r \in store : ~(r.expires <= now) <=> r.expires > now
        BY DEF TypeOK, Row
      <3> QED BY <1>9, <3>1 DEF Evict, Expired
    <2> QED BY <1>9, <2>1 DEF Evict, world, history, Done, Box!Next, Box!Reap
  <1>10. ASSUME NEW h \in Handlers,
                \/ \E m \in wire, since \in Sinces \cup {0} : Begin(h, m, since)
                \/ \E k \in Keys : Answer(h, k)
                \/ Fill(h) \/ Refuse(h) \/ ServePushKnown(h)
                \/ RefuseNonce(h) \/ RefuseSince(h) \/ StopAfterClaim(h)
         PROVE  UNCHANGED Box!mailboxVars
    BY <1>1, <1>10 DEF Begin, Answer, Fill, Refuse, ServePushKnown,
         RefuseNonce, RefuseSince, StopAfterClaim, world, tables, history
  <1>11. CASE Stop \/ Start
              \/ (\E s \in Subscribers : Subscribe(s) \/ Unsubscribe(s))
    BY <1>1, <1>11 DEF Stop, Start, Subscribe, Unsubscribe, world, tables,
                       history
  <1>12. CASE UNCHANGED vars
    BY <1>1, <1>12 DEF vars, world, tables, history
  <1> QED
    BY <1>2, <1>3, <1>5, <1>6, <1>7, <1>8, <1>9, <1>10, <1>11, <1>12
    DEF Next, Clients, Serve

\* Every behaviour of the relay is a behaviour of the mailbox: envelopes enter
\* once and unchanged, leave by their recipient's ack or past their expiry
\* only, pickups show what they must, and a request is honoured around its
\* timestamp only and not again within the nonce window.
THEOREM ImplementsMailbox == Spec => IsMailbox
  <1>1. Init => Box!Init
    BY DEF Init, Box!Init, Done
  <1>2. Init => NonceInv
    BY DEF Init, NonceInv, OneRequest, NonceKept
  <1>3. Init => SinceInv
    BY DEF Init, SinceInv
  <1> QED
    BY <1>1, <1>2, <1>3, NonceInvNext, SinceNext, StepMaps, TypeInit, TypeNext,
       InTimeInit, InTimeNext, PTL
    DEF Spec, IsMailbox, Box!Spec

-----------------------------------------------------------------------------
(* The relay with the resolver it asks (KeyPath): the resolver gives it no *)
(* answer that Relay does not allow.                                       *)

\* Lookups are for agents, entries hold keys.
LookupsOK ==
  /\ lookups \in [Handlers -> {R!Idle} \cup [busy: {TRUE}, name: Agents, fresh: BOOLEAN]]
  /\ entries \in [Agents -> [doc: Keys \cup {None}, fetched: Nat]]

\* A key in the resolver's cache was published RegistryAge before it was fetched.
EntriesAge ==
  \A a \in Agents : entries[a].doc # None =>
    /\ entries[a].fetched <= now
    /\ CurrentSince(a, entries[a].doc, entries[a].fetched - RegistryAge)

PathInv == TypeOK /\ LookupsOK /\ EntriesAge

\* The resolver's directory and the relay's key versions say the same.
LEMMA DirectoryIsKeys ==
  ASSUME TypeOK, NEW a \in Agents, NEW k \in Keys, NEW t
  PROVE  R!D!CurrentSince(a, k, t) => CurrentSince(a, k, t)
  <1> SUFFICES ASSUME R!D!CurrentSince(a, k, t) PROVE CurrentSince(a, k, t)
    OBVIOUS
  <1>1. key[a] = k \/ \E g \in Retired : g.ref = a /\ g.doc = k /\ g.at >= t
    BY DEF R!D!CurrentSince
  <1>2. ASSUME NEW g \in Retired, g.ref = a, g.doc = k, g.at >= t
        PROVE  k < key[a] /\ retired[a][k] >= t
    <2>1. PICK p \in {q \in Agents \X Keys : q[2] < key[q[1]]} :
                 g = [ref |-> p[1], doc |-> p[2], at |-> retired[p[1]][p[2]]]
      BY <1>2 DEF Retired
    <2>2. p[1] = a /\ p[2] = k
      BY <1>2, <2>1
    <2> QED BY <1>2, <2>1, <2>2
  <1> QED BY <1>1, <1>2 DEF CurrentSince

\* A key the resolver may answer with is one the relay is assumed to get.
LEMMA RepliedAnswers ==
  ASSUME NEW h \in Handlers, NEW k \in Keys, req[h].pc = "ask", Replied(h, k),
         CurrentSince(req[h].msg.from, k, now - Stale)
  PROVE  [Next]_vars
  BY DEF Replied, Answer, Serve, Next

\* Lookups and entries, one at a time.
LEMMA LookupFields ==
  ASSUME LookupsOK, NEW h \in Handlers, lookups[h] # R!Idle
  PROVE  lookups[h].name \in Agents
  BY DEF LookupsOK

\* What may happen while a request waits for a key is the relay's own step.
LEMMA PathStep ==
  ASSUME PathInv, [PathNext]_<<vars, resolver>>
  PROVE  [Next]_vars
  <1> USE DEF PathInv
  <1>1. ASSUME NEW h \in Handlers, req[h].pc = "ask"
        PROVE  req[h].msg.from \in Agents /\ now \in Nat
    BY <1>1, InService, ServiceFields DEF TypeOK
  <1>2. ASSUME NEW h \in Handlers, FromCache(h) PROVE [Next]_vars
    <2> DEFINE a == req[h].msg.from
               e == entries[a]
    <2>1. req[h].pc = "ask" /\ Replied(h, e.doc)
      BY <1>2 DEF FromCache, Waiting
    <2>2. e.doc # None /\ now - e.fetched < ResolverTtl
      BY <1>2 DEF FromCache, R!Serve, R!Hit
    <2>3. a \in Agents /\ now \in Nat
      BY <1>1, <2>1
    <2>4. /\ e.doc \in Keys /\ e.fetched \in Nat
          /\ CurrentSince(a, e.doc, e.fetched - RegistryAge)
      BY <2>2, <2>3 DEF LookupsOK, EntriesAge
    <2>5. /\ e.fetched - RegistryAge \in Int /\ now - Stale \in Int
          /\ now - Stale <= e.fetched - RegistryAge
      BY <2>2, <2>3, <2>4, KeyPathAssumption
    <2>6. CurrentSince(a, e.doc, now - Stale)
      BY <2>3, <2>4, <2>5, CurrentSinceMonotone
    <2> QED BY <2>1, <2>4, <2>6, RepliedAnswers
  <1>3. ASSUME NEW h \in Handlers, NEW k \in Keys, FromRegistry(h, k)
        PROVE  [Next]_vars
    <2>1. CASE UNCHANGED vars
      BY <2>1
    <2>2. CASE req[h].pc = "ask" /\ req[h].msg.from = lookups[h].name /\ Replied(h, k)
      <3> DEFINE a == req[h].msg.from
      <3>1. a \in Agents /\ now \in Nat
        BY <1>1, <2>2
      <3>2. R!D!CurrentSince(a, k, now - RegistryAge)
        BY <1>3, <2>2, <3>1 DEF FromRegistry, R!Found
      <3>3. CurrentSince(a, k, now - RegistryAge)
        BY <3>1, <3>2, DirectoryIsKeys
      <3>4. /\ now - RegistryAge \in Int /\ now - Stale \in Int
            /\ now - Stale <= now - RegistryAge
        BY <3>1, KeyPathAssumption
      <3>5. CurrentSince(a, k, now - Stale)
        BY <3>1, <3>3, <3>4, CurrentSinceMonotone
      <3> QED BY <2>2, <3>5, RepliedAnswers
    <2> QED BY <1>3, <2>1, <2>2 DEF FromRegistry
  <1>4. ASSUME Alone PROVE [Next]_vars
    BY <1>4 DEF Alone
  <1>5. ASSUME NEW h \in Handlers, AskRegistry(h) PROVE [Next]_vars
    BY <1>5 DEF AskRegistry
  <1> QED BY <1>2, <1>3, <1>4, <1>5 DEF PathNext, Resolving, vars

LEMMA PathInitially == PathInit => PathInv
  <1> SUFFICES ASSUME PathInit PROVE LookupsOK /\ EntriesAge
    BY TypeInit DEF PathInit, PathInv
  <1>1. /\ lookups = [h \in Handlers |-> R!Idle]
        /\ entries = [a \in Agents |-> [doc |-> None, fetched |-> 0]]
    BY DEF PathInit, R!Init, R!NoEntry
  <1> QED BY <1>1 DEF LookupsOK, EntriesAge

\* What a step does to the resolver's two tables.
LEMMA LookupsNext ==
  ASSUME PathInv, [PathNext]_<<vars, resolver>>
  PROVE  LookupsOK'
  <1> USE DEF PathInv, LookupsOK
  <1>1. ASSUME NEW h \in Handlers, AskRegistry(h) PROVE LookupsOK'
    <2>1. req[h].msg.from \in Agents
      BY <1>1, InService, ServiceFields DEF AskRegistry, Waiting
    <2>2. /\ lookups' = [lookups EXCEPT ![h] = [busy |-> TRUE, name |-> req[h].msg.from,
                                                fresh |-> FALSE]]
          /\ entries' = entries
      BY <1>1 DEF AskRegistry, R!Ask
    <2> QED BY <2>1, <2>2
  <1>2. ASSUME NEW h \in Handlers, NEW k \in Keys, FromRegistry(h, k) PROVE LookupsOK'
    <2>1. lookups[h].name \in Agents /\ now \in Nat
      BY <1>2, LookupFields DEF FromRegistry, TypeOK
    <2>2. /\ lookups' = [lookups EXCEPT ![h] = R!Idle]
          /\ entries' = [entries EXCEPT ![lookups[h].name] = [doc |-> k, fetched |-> now]]
      BY <1>2 DEF FromRegistry, R!Found, R!Remember
    <2> QED BY <2>1, <2>2
  <1>3. ASSUME NEW h \in Handlers, R!NotFound(h) \/ R!Failed(h) PROVE LookupsOK'
    <2>1. lookups' = [lookups EXCEPT ![h] = R!Idle] /\ entries' = entries
      BY <1>3 DEF R!NotFound, R!Failed
    <2> QED BY <2>1
  <1>4. ASSUME R!Restart PROVE LookupsOK'
    <2>1. /\ lookups' = [h \in Handlers |-> R!Idle]
          /\ entries' = [a \in Agents |-> [doc |-> None, fetched |-> 0]]
      BY <1>4 DEF R!Restart, R!NoEntry
    <2> QED BY <2>1
  <1>5. ASSUME NEW h \in Handlers, FromCache(h) PROVE UNCHANGED <<lookups, entries>>
    BY <1>5 DEF FromCache, R!Serve
  <1> QED BY <1>1, <1>2, <1>3, <1>4, <1>5 DEF PathNext, Resolving, resolver

LEMMA EntriesNext ==
  ASSUME PathInv, [PathNext]_<<vars, resolver>>
  PROVE  EntriesAge'
  <1> DEFINE Aged(e, a) ==
        e.doc # None => /\ e.fetched <= now'
                        /\ StillSince(a, e.doc, e.fetched - RegistryAge)
  <1> SUFFICES ASSUME NEW a \in Agents PROVE Aged(entries'[a], a)
    BY DEF EntriesAge, CurrentSince, StillSince
  <1>1. TypeOK /\ LookupsOK /\ EntriesAge /\ [Next]_vars
    BY PathStep DEF PathInv
  <1>2. now \in Nat /\ now' \in Nat /\ now <= now'
    BY <1>1, ClockStep DEF TypeOK, Tick
  <1>3. ASSUME entries'[a] = entries[a] PROVE Aged(entries'[a], a)
    <2> SUFFICES ASSUME entries[a].doc # None PROVE Aged(entries[a], a)
      BY <1>3
    <2> DEFINE t == entries[a].fetched - RegistryAge
    <2>1. /\ entries[a].doc \in Keys /\ entries[a].fetched \in Nat
          /\ entries[a].fetched <= now /\ CurrentSince(a, entries[a].doc, t)
      BY <1>1 DEF LookupsOK, EntriesAge
    <2>2. t \in Int /\ t <= now
      BY <1>2, <2>1, KeyPathAssumption
    <2>3. StillSince(a, entries[a].doc, t)
      BY <1>1, <2>1, <2>2, CurrentSinceStable
    <2> QED BY <1>2, <2>1, <2>3
  <1>4. ASSUME NEW h \in Handlers, NEW k \in Keys, FromRegistry(h, k)
        PROVE  Aged(entries'[a], a)
    <2>1. lookups[h].name \in Agents
      BY <1>1, <1>4, LookupFields DEF FromRegistry
    <2>2. /\ entries' = [entries EXCEPT ![lookups[h].name] = [doc |-> k, fetched |-> now]]
          /\ R!D!CurrentSince(lookups[h].name, k, now - RegistryAge)
      BY <1>4, <2>1 DEF FromRegistry, R!Found, R!Remember
    <2>3. CASE a # lookups[h].name
      <3>1. entries'[a] = entries[a]
        BY <1>1, <2>2, <2>3 DEF LookupsOK
      <3> QED BY <1>3, <3>1
    <2>4. CASE a = lookups[h].name
      <3>1. entries'[a] = [doc |-> k, fetched |-> now]
        BY <1>1, <2>2, <2>4 DEF LookupsOK
      <3>2. CurrentSince(a, k, now - RegistryAge)
        BY <1>1, <2>2, <2>4, DirectoryIsKeys
      <3>3. now - RegistryAge \in Int /\ now - RegistryAge <= now
        BY <1>2, KeyPathAssumption
      <3>4. StillSince(a, k, now - RegistryAge)
        BY <1>1, <3>2, <3>3, CurrentSinceStable
      <3> QED BY <1>2, <3>1, <3>4
    <2> QED BY <2>3, <2>4
  <1>5. ASSUME R!Restart PROVE Aged(entries'[a], a)
    <2>1. entries'[a].doc = None
      BY <1>5 DEF R!Restart, R!NoEntry
    <2> QED BY <2>1
  <1>6. ASSUME NEW h \in Handlers,
               FromCache(h) \/ AskRegistry(h) \/ R!NotFound(h) \/ R!Failed(h)
        PROVE  entries' = entries
    BY <1>6 DEF FromCache, AskRegistry, R!Serve, R!Ask, R!NotFound, R!Failed
  <1> HIDE DEF Aged
  <1> QED BY <1>3, <1>4, <1>5, <1>6 DEF PathNext, Resolving, resolver

LEMMA PathInvNext == PathInv /\ [PathNext]_<<vars, resolver>> => PathInv'
  BY PathStep, TypeNext, LookupsNext, EntriesNext DEF PathInv

\* The relay and the resolver it asks do together what the relay does alone
\* with answers at most Stale = RegistryAge + ResolverTtl old: whatever lookups
\* of theirs overlap, and whichever of the two restarts.
THEOREM PathIsRelay == PathSpec => IsRelay
  <1>1. PathInit => Init
    BY DEF PathInit
  <1>2. PathInv /\ [PathNext]_<<vars, resolver>> => [Next]_vars
    BY PathStep
  <1> QED BY <1>1, <1>2, PathInitially, PathInvNext, PTL DEF PathSpec, IsRelay, Spec

\* So a key that verifies a request was published at most the two caches'
\* lifetimes, the registry's age and the requests' time in service ago.
COROLLARY PathKeysFresh == PathSpec => []KeysFresh
  BY PathIsRelay, VerifiesWithFreshKeys, PTL DEF IsRelay

\* And the promises of the mailbox are kept by the two together: a signature that an
\* old key of the resolver's cache still verifies costs no envelope.
COROLLARY PathIsMailbox == PathSpec => IsMailbox
  BY PathIsRelay, ImplementsMailbox, PTL DEF IsRelay
=============================================================================
