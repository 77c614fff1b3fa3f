-------------------------------- MODULE Relay --------------------------------
(***************************************************************************)
(* The relay process (packages/relay/src): one Node event loop, a SQLite   *)
(* file and an in-memory cache of signing keys.                            *)
(*                                                                         *)
(* A handler runs without interruption except where it awaits.  Each of    *)
(* push, pickup and ack awaits once, inside Keystore.getSigningPublicKey:  *)
(* on a cache hit the promise is already settled, on a miss the resolver   *)
(* is asked over HTTP.  So a request is up to four steps: Begin (parse,    *)
(* freshness, cache lookup), Answer (the resolver reads the key), Fill     *)
(* (cache.set) and one of the Serve actions (verify the signature and      *)
(* touch the database, all synchronous better-sqlite3 calls).  Handlers    *)
(* interleave freely between these steps.                                  *)
(*                                                                         *)
(* Signatures: an Ed25519 signature is a function of the signed bytes and  *)
(* the key, so the record that holds the signed fields and the key version *)
(* stands for it; it verifies exactly under that key version.              *)
(***************************************************************************)
EXTENDS Integers, FiniteSets

CONSTANTS
  Agents,       \* SCUT URIs
  Ids,          \* envelope ids
  Drafts,       \* what senders may push: [id, from, to, ttl]
  Asks,         \* what recipients may sign: [kind, from, ids]
  Sinces,       \* ?since= of pickups, which no signature covers; 0: none
  Nonces,       \* nonces clients draw, each for one request
  Drifts,       \* offsets of the clients' clocks from the relay's
  Handlers,     \* requests in service at once (bound)
  Subscribers,  \* connections to the event stream (bound)
  Skew,         \* limits.clockSkewSeconds
  NonceWindow,  \* limits.pickupNonceWindowSeconds
  CacheTtl,     \* resolver.cacheTtlSeconds
  MaxTtl,       \* limits.maxTtlSeconds
  EvictEvery,   \* eviction.intervalSeconds
  Stale,        \* how old a key the resolver may answer with
  Latency,      \* the longest a request stays in service
  MaxKey,       \* key versions per agent (bound)
  MaxTime       \* clock (bound)

ASSUME SizesAssumption ==
  /\ Skew \in Nat \ {0} /\ NonceWindow \in Nat \ {0}
  /\ CacheTtl \in Nat \ {0} /\ MaxTtl \in Nat \ {0}
  /\ EvictEvery \in Nat \ {0}
  /\ Stale \in Nat /\ Latency \in Nat /\ MaxKey \in Nat \ {0}
  /\ MaxTime \in Nat

ASSUME MessagesAssumption ==
  /\ Drafts \subseteq [id: Ids, from: Agents, to: Agents, ttl: Nat \ {0}]
  /\ Asks \subseteq [kind: {"pickup", "ack"}, from: Agents, ids: SUBSET Ids]
  /\ Sinces \subseteq Int
  /\ Drifts \subseteq Int

VARIABLES
  now,        \* Date.now()
  key,        \* the signing key version each agent publishes now
  retired,    \* when each superseded key version was superseded
  wire,       \* signed messages; any of them may arrive, once, often or never
  up,         \* the process is running
  store,      \* table envelopes
  nonces,     \* table pickup_nonces
  cache,      \* Keystore.cache
  req,        \* requests in service
  booted,     \* when the process was last started
  nextEvict,  \* when the setInterval timer fires next
  view,       \* what each event stream client has been told
  used,       \* history: per nonce, times honoured and when last
  delivered   \* history: <<agent, envelope>> returned by pickups

world   == <<key, retired, wire>>
tables  == <<store, nonces>>
history == <<used, delivered>>
timer   == <<booted, nextEvict>>
vars == <<now, world, up, tables, cache, req, timer, view, history>>

Keys == 1..MaxKey
Envelope == [kind: {"push"}, id: Ids, from: Agents, to: Agents,
             ttl: Nat \ {0}, key: Keys]
Request == [kind: {"pickup", "ack"}, from: Agents, ids: SUBSET Ids,
            nonce: Nonces, ts: Int, key: Keys]
Row == [env: Envelope, received: Nat, expires: Nat]
NonceRow == [nonce: Nonces, agent: Agents, seen: Nat]
Service == [pc: {"ask", "answered", "verify"}, msg: Envelope \cup Request,
            since: Int, start: Nat, key: Keys \cup {0}]
Idle == [pc |-> "idle"]
NoEntry == [key |-> 0, fetched |-> 0]
Off == [on |-> FALSE, live |-> {}, since |-> 0]
NotADate == -1      \* a since parameter Date.parse does not accept

StoredIds == {r.env.id : r \in store}
Busy == {h \in Handlers : req[h] # Idle}

TypeOK ==
  /\ now \in Nat
  /\ key \in [Agents -> Keys]
  /\ retired \in [Agents -> [Keys -> Nat]]
  /\ wire \subseteq Envelope \cup Request
  /\ up \in BOOLEAN
  /\ store \subseteq Row
  /\ nonces \subseteq NonceRow
  /\ cache \in [Agents -> [key: Keys \cup {0}, fetched: Nat]]
  /\ req \in [Handlers -> Service \cup {Idle}]
  /\ booted \in Nat
  /\ nextEvict \in Nat
  /\ view \in [Subscribers -> [on: BOOLEAN, live: SUBSET Ids, since: Nat]]
  /\ used \in [Nonces -> [times: Nat, last: Nat]]
  /\ delivered \subseteq Agents \X Envelope

Init ==
  /\ now = 0
  /\ key = [a \in Agents |-> 1]
  /\ retired = [a \in Agents |-> [k \in Keys |-> 0]]
  /\ wire = {}
  /\ up = TRUE
  /\ store = {}
  /\ nonces = {}
  /\ cache = [a \in Agents |-> NoEntry]
  /\ req = [h \in Handlers |-> Idle]
  /\ booted = 0
  /\ nextEvict = EvictEvery
  /\ view = [s \in Subscribers |-> Off]
  /\ used = [n \in Nonces |-> [times |-> 0, last |-> 0]]
  /\ delivered = {}

-----------------------------------------------------------------------------
(* The clients, the key directory and time. *)

\* Time advances while the event loop keeps up: a request is answered within
\* Latency of its arrival and a due timer has fired.
Tick ==
  /\ now < MaxTime
  /\ \A h \in Busy : now < req[h].start + Latency
  /\ up => now < nextEvict
  /\ now' = now + 1
  /\ UNCHANGED <<world, up, tables, cache, req, timer, view, history>>

\* The owner of an agent publishes a document with a new signing key.
Rotate(a) ==
  /\ key[a] < MaxKey
  /\ retired' = [retired EXCEPT ![a][key[a]] = now]
  /\ key' = [key EXCEPT ![a] = @ + 1]
  /\ UNCHANGED <<now, wire, up, tables, cache, req, timer, view, history>>

\* Agent a published key k at some instant not before t.
CurrentSince(a, k, t) ==
  \/ k = key[a]
  \/ k < key[a] /\ retired[a][k] >= t

\* buildEnvelope: sign with the key the sender has now.
Compose(d) ==
  /\ wire' = wire \cup {[kind |-> "push", id |-> d.id, from |-> d.from,
                         to |-> d.to, ttl |-> d.ttl, key |-> key[d.from]]}
  /\ UNCHANGED <<now, key, retired, up, tables, cache, req, timer, view,
                 history>>

\* buildPickupAuthorization and buildAckAuthorization: a fresh random nonce,
\* the client's own clock.  The challenge of a pickup has neither ids nor since.
Authorize(q, n, d) ==
  /\ \A m \in wire : m.kind # "push" => m.nonce # n
  /\ wire' = wire \cup {[kind |-> q.kind, from |-> q.from, ids |-> q.ids,
                         nonce |-> n, ts |-> now + d, key |-> key[q.from]]}
  /\ UNCHANGED <<now, key, retired, up, tables, cache, req, timer, view,
                 history>>

-----------------------------------------------------------------------------
(* A request up to the end of getSigningPublicKey. *)

\* assertFreshTimestamp
Fresh(m) == now - m.ts <= Skew /\ m.ts - now <= Skew

CacheHitForever(a) == cache[a].key # 0
CacheHit(a) == cache[a].key # 0 /\ now - cache[a].fetched < CacheTtl

\* The handler up to its await.  A request whose timestamp is outside the
\* window is answered 401 here and leaves no trace.  Whoever carries a signed
\* pickup names the since it is asked with.
Begin(h, m, since) ==
  /\ up
  /\ req[h] = Idle
  /\ m.kind # "push" => Fresh(m)
  /\ since \in IF m.kind = "pickup" THEN Sinces ELSE {0}
  /\ req' = [req EXCEPT ![h] =
       [pc |-> IF CacheHit(m.from) THEN "verify" ELSE "ask",
        msg |-> m, since |-> since, start |-> now,
        key |-> IF CacheHit(m.from) THEN cache[m.from].key ELSE 0]]
  /\ UNCHANGED <<now, world, up, tables, cache, timer, view, history>>

\* The resolver answers with a key no older than its own cache allows.
Answer(h, k) ==
  /\ req[h].pc = "ask"
  /\ CurrentSince(req[h].msg.from, k, now - Stale)
  /\ req' = [req EXCEPT ![h].pc = "answered", ![h].key = k]
  /\ UNCHANGED <<now, world, up, tables, cache, timer, view, history>>

\* Back from the await: whichever answer comes last stays in the cache.
Fill(h) ==
  /\ req[h].pc = "answered"
  /\ cache' = [cache EXCEPT ![req[h].msg.from] =
                 [key |-> req[h].key, fetched |-> now]]
  /\ req' = [req EXCEPT ![h].pc = "verify"]
  /\ UNCHANGED <<now, world, up, tables, timer, view, history>>

\* 401: the resolver threw, or the signature does not verify.
Refuse(h) ==
  /\ \/ req[h].pc = "ask"
     \/ req[h].pc = "verify" /\ req[h].key # req[h].msg.key
  /\ req' = [req EXCEPT ![h] = Idle]
  /\ UNCHANGED <<now, world, up, tables, cache, timer, view, history>>

-----------------------------------------------------------------------------
(* The synchronous tail of each handler. *)

Verified(h, kinds) ==
  /\ req[h].pc = "verify"
  /\ req[h].key = req[h].msg.key
  /\ req[h].msg.kind \in kinds
  /\ req' = [req EXCEPT ![h] = Idle]

PublishArrivals(gained, lost) ==
  view' = [s \in Subscribers |->
             IF view[s].on THEN [view[s] EXCEPT !.live = @ \cup gained]
                           ELSE view[s]]

\* RelayEventBus.publish: every open stream applies the change at once.
Publish(gained, lost) ==
  view' = [s \in Subscribers |->
             IF view[s].on
             THEN [view[s] EXCEPT !.live = (@ \cup gained) \ lost]
             ELSE view[s]]

\* EnvelopeRepo: what tryStore takes for already there, what an ack names, and
\* what is past its time.
KnownSignature(e) == e \in {r.env : r \in store}
Known(e) == e.id \in StoredIds

NamedByAnyone(q) == {r \in store : r.env.id \in q.ids}
Named(q) == {r \in store : r.env.to = q.from /\ r.env.id \in q.ids}

ExpiredByCap == {r \in store : r.received + MaxTtl <= now}
Expired == {r \in store : r.expires <= now}

\* 202 for a new id: row inserted and envelope_received published.
ServePush(h) ==
  LET e == req[h].msg
      life == IF e.ttl < MaxTtl THEN e.ttl ELSE MaxTtl
  IN  /\ Verified(h, {"push"})
      /\ ~Known(e)
      /\ store' = store \cup
           {[env |-> e, received |-> now, expires |-> now + life]}
      /\ Publish({e.id}, {})
      /\ UNCHANGED <<now, world, up, nonces, cache, timer, history>>

\* 202 idempotent for the signature already stored, 409 for another one: the
\* stored row stays as it is in both.
ServePushKnown(h) ==
  /\ Verified(h, {"push"})
  /\ Known(req[h].msg)
  /\ UNCHANGED <<now, world, up, tables, cache, timer, view, history>>

\* NonceRepo.tryClaim: rows older than the window go first, then the insert
\* fails on a nonce that is still there.
RememberedBriefly == {r \in nonces : ~(r.seen < now)}
Remembered == {r \in nonces : ~(r.seen < now - NonceWindow)}
Claimable(m) == \A r \in Remembered : r.nonce # m.nonce
Claim(m) ==
  /\ Claimable(m)
  /\ nonces' = Remembered \cup
       {[nonce |-> m.nonce, agent |-> m.from, seen |-> now]}

\* 401 nonce already used; the purge has happened all the same.
RefuseNonce(h) ==
  /\ Verified(h, {"pickup", "ack"})
  /\ ~Claimable(req[h].msg)
  /\ nonces' = Remembered
  /\ UNCHANGED <<now, world, up, store, cache, timer, view, history>>

Honoured(n) ==
  used' = [used EXCEPT ![n] = [times |-> @.times + 1, last |-> now]]

\* 400 invalid since: answered only after the nonce is gone.
RefuseSince(h) ==
  /\ Verified(h, {"pickup"})
  /\ Claim(req[h].msg)
  /\ req[h].since = NotADate
  /\ UNCHANGED <<now, world, up, store, cache, timer, view, history>>

\* 200 with forRecipientSince.  Rows past expires_at that eviction has not
\* met yet are returned too.
ServePickup(h) ==
  LET q == req[h].msg
      rows == {r \in store : r.env.to = q.from /\ r.received >= req[h].since}
  IN  /\ Verified(h, {"pickup"})
      /\ Claim(q)
      /\ req[h].since # NotADate
      /\ Honoured(q.nonce)
      /\ delivered' = delivered \cup {<<q.from, r.env>> : r \in rows}
      /\ UNCHANGED <<now, world, up, store, cache, timer, view>>

\* 200 with ackForRecipient: only the caller's own rows go.
ServeAck(h) ==
  LET q == req[h].msg
  IN  /\ Verified(h, {"ack"})
      /\ Claim(q)
      /\ Honoured(q.nonce)
      /\ store' = store \ Named(q)
      /\ Publish({}, {r.env.id : r \in Named(q)})
      /\ UNCHANGED <<now, world, up, cache, timer, delivered>>

-----------------------------------------------------------------------------
(* Eviction, the event stream, stop and start. *)

\* The interval timer: runEviction.
Evict ==
  /\ up
  /\ now = nextEvict
  /\ nextEvict' = now + EvictEvery
  /\ store' = store \ Expired
  /\ Publish({}, {r.env.id : r \in Expired})
  /\ UNCHANGED <<now, world, up, nonces, cache, req, booted, history>>

\* GET /events: the stream starts with the next event, nothing is replayed.
Subscribe(s) ==
  /\ up
  /\ ~view[s].on
  /\ view' = [view EXCEPT ![s] = [on |-> TRUE, live |-> {}, since |-> now]]
  /\ UNCHANGED <<now, world, up, tables, cache, req, timer, history>>

Unsubscribe(s) ==
  /\ view[s].on
  /\ view' = [view EXCEPT ![s] = Off]
  /\ UNCHANGED <<now, world, up, tables, cache, req, timer, history>>

\* What a process exit takes with it: requests, cache and streams.
Exit ==
  /\ up
  /\ up' = FALSE
  /\ req' = [h \in Handlers |-> Idle]
  /\ cache' = [a \in Agents |-> NoEntry]
  /\ view' = [s \in Subscribers |-> Off]

Stop ==
  /\ Exit
  /\ UNCHANGED <<now, world, tables, timer, history>>

\* The process dies after tryClaim committed and before the rows were read
\* or deleted: the request is spent and was not honoured.
StopAfterClaim(h) ==
  /\ req[h].pc = "verify"
  /\ req[h].key = req[h].msg.key
  /\ req[h].msg.kind # "push"
  /\ Claim(req[h].msg)
  /\ Exit
  /\ UNCHANGED <<now, world, store, timer, history>>

\* createRelayServer on the same file: startEvictionJob arms the timer and
\* does not run it.
Start ==
  /\ ~up
  /\ up' = TRUE
  /\ booted' = now
  /\ nextEvict' = now + EvictEvery
  /\ UNCHANGED <<now, world, tables, cache, req, view, history>>

-----------------------------------------------------------------------------
Clients ==
  \/ \E a \in Agents : Rotate(a)
  \/ \E d \in Drafts : Compose(d)
  \/ \E q \in Asks, n \in Nonces, d \in Drifts : Authorize(q, n, d)

Serve(h) ==
  \/ \E m \in wire, since \in Sinces \cup {0} : Begin(h, m, since)
  \/ \E k \in Keys : Answer(h, k)
  \/ Fill(h)
  \/ Refuse(h)
  \/ ServePush(h)
  \/ ServePushKnown(h)
  \/ RefuseNonce(h)
  \/ RefuseSince(h)
  \/ ServePickup(h)
  \/ ServeAck(h)
  \/ StopAfterClaim(h)

Next ==
  \/ Tick
  \/ Clients
  \/ \E h \in Handlers : Serve(h)
  \/ Evict
  \/ \E s \in Subscribers : Subscribe(s) \/ Unsubscribe(s)
  \/ Stop
  \/ Start

Spec == Init /\ [][Next]_vars

-----------------------------------------------------------------------------
(* Properties. *)

\* How often a request is honoured, whatever duplicates of it arrive, at whatever
\* moment, on either side of a restart: two times lie more than the nonce window
\* apart, and all lie between the first and the last moment at which
\* assertFreshTimestamp accepts the timestamp, or Latency later.  With the
\* shipped 300 and 300 seconds that is twice, for a client whose clock is ahead.
HonouredSeldom ==
  \A n \in Nonces :
    used[n].times > 0 =>
      (used[n].times - 1) * (NonceWindow + 1) <= 2 * Skew + Latency

\* The key a handler is about to verify with was published at most this long
\* ago: Keystore's cache lifetime, the age of the resolver's own answer, and
\* the time the answer and the handler spend in flight.  In particular a late
\* answer written over a newer cache entry does not make keys older than that.
KeyAge == CacheTtl + Stale + 2 * Latency
KeysFresh ==
  \A h \in Handlers :
    req[h].pc = "verify" =>
      CurrentSince(req[h].msg.from, req[h].key, now - KeyAge)

\* While the relay runs, an envelope past its expires_at is gone before one
\* eviction interval is over, counted from its expiry or, for one that expired
\* while the relay was down or before the timer armed at the start had fired,
\* after one interval from that start: setInterval waits a full one first.
RetentionBounded ==
  up => \A r \in store : \/ now < r.expires + EvictEvery
                        \/ now <= booted + EvictEvery

\* A client of the event stream that stays connected knows every envelope
\* stored since it connected, and believes in none that is gone: whatever
\* handler or timer touches the table publishes what it did.
ViewAgrees ==
  \A s \in Subscribers : view[s].on =>
    /\ view[s].live \subseteq StoredIds
    /\ \A r \in store : r.received > view[s].since => r.env.id \in view[s].live

\* One row per envelope id: handlers that interleave between the key lookup
\* and tryStore, and senders that use the same id, do not store two.
OneRowPerId ==
  \A r, s \in store : r.env.id = s.env.id => r = s

\* The relay is a mailbox: every step of it is a step of Mailbox or invisible.
Done == {[nonce |-> n, at |-> used[n].last] :
           n \in {x \in Nonces : used[x].times > 0}}
Box == INSTANCE Mailbox WITH
  Window <- NonceWindow, Tolerance <- Skew, Patience <- Latency,
  clock <- now, sent <- wire, box <- store, shown <- delivered, done <- Done
IsMailbox == Box!Spec

-----------------------------------------------------------------------------
(* What texts of the repository say and the code does not do. *)

\* spec/SPEC.md:433 and :463: 401 for a request that 'reuses a nonce', and :436:
\* the anti-replay cache 'MUST cover at least the clock-skew window'.  A request
\* is honoured once: by the time tryClaim has forgotten its nonce,
\* assertFreshTimestamp refuses it.  The run replay finds it violated.
HonouredOnce == \A n \in Nonces : used[n].times <= 1

\* SPEC 7 wants no envelope retained past its TTL: then no pickup returns one.
\* No run checks it; the README says why it fails.
NothingPastTtl ==
  [][\A h \in Handlers : ServePickup(h) =>
       \A r \in store : r.env.to = req[h].msg.from => now < r.expires]_vars
=============================================================================
