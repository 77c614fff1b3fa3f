-------------------------------- MODULE Resolver --------------------------------
(***************************************************************************)
(* The resolver's one route (packages/resolver/src/routes/resolve.ts): a   *)
(* Map from the key as the client spelled it to the document last fetched  *)
(* for it, and lookups that await the registry.  Several spellings (a SCUT *)
(* URI in either case, a bare token id) name one agent and have entries of *)
(* their own.                                                              *)
(*                                                                         *)
(* The registry is a Directory of age RegistryAge: SiiRegistry and         *)
(* JsonRegistry are shown to be that, the one without Sure, since it takes *)
(* some failed calls for an unminted token, the other with it.             *)
(***************************************************************************)
EXTENDS Integers, FiniteSets

CONSTANTS
  Refs, Docs, None,
  Names,        \* ref and agent_id values clients ask for
  Foreign,      \* those the chain backend refuses: malformed, other chains
  RefOf,        \* the agent each of them names
  RegistryAge,  \* how old a registry's answer may be
  Sure,         \* whether the registry never answers a failure with undefined
  Ttl,          \* cache.ttlSeconds
  Handlers,     \* lookups in flight at once (bound)
  MaxPublish,   \* publications (bound)
  MaxTime       \* clock (bound)

ASSUME ResolverAssumption ==
  /\ None \notin Docs
  /\ RefOf \in [Names -> Refs] /\ Foreign \subseteq Names
  /\ RegistryAge \in Nat /\ Ttl \in Nat /\ Sure \in BOOLEAN
  /\ MaxPublish \in Nat /\ MaxTime \in Nat

VARIABLES
  now,       \* Date.now()
  published, \* the document each agent publishes
  gone,      \* documents superseded, and when
  cache,     \* the Map
  req,       \* lookups in flight
  answer,    \* the last 200 or 404 sent
  refused    \* <<name, status>> of the answers to foreign or malformed keys

directory == <<published, gone>>
vars == <<now, directory, cache, req, answer, refused>>

NoEntry == [doc |-> None, fetched |-> 0]
Idle == [busy |-> FALSE]

Superseded == [ref: Refs, doc: Docs \cup {None}, at: Nat]
CachedEntry == [doc: Docs \cup {None}, fetched: Nat]
Lookup == [busy: {TRUE}, name: Names, fresh: BOOLEAN]

D == INSTANCE Directory WITH FreshAge <- RegistryAge, Age <- RegistryAge + Ttl

TypeOK ==
  /\ now \in Nat
  /\ published \in [Refs -> Docs \cup {None}]
  /\ gone \subseteq Superseded
  /\ cache \in [Names -> CachedEntry]
  /\ req \in [Handlers -> {Idle} \cup Lookup]
  /\ refused \subseteq Foreign \X {400, 502}

Init ==
  /\ D!Init
  /\ cache = [n \in Names |-> NoEntry]
  /\ req = [h \in Handlers |-> Idle]
  /\ refused = {}

Tick ==
  /\ now < MaxTime
  /\ D!Tick
  /\ UNCHANGED <<cache, req, refused>>

\* The owner publishes another document.
Publish(r, d) ==
  /\ Cardinality(gone) < MaxPublish
  /\ d # published[r]
  /\ D!Publish([published EXCEPT ![r] = d], {r})
  /\ UNCHANGED <<cache, req, refused>>

Reply(n, d, fresh) ==
  answer' = [ref |-> RefOf[n], doc |-> d, fresh |-> fresh, at |-> now]

HitForever(n) == cache[n].doc # None
Hit(n) == cache[n].doc # None /\ now - cache[n].fetched < Ttl

ServeSliding(n) ==
  /\ Hit(n)
  /\ Reply(n, cache[n].doc, FALSE)
  /\ cache' = [cache EXCEPT ![n].fetched = now]
  /\ UNCHANGED <<now, directory, req, refused>>

\* 200 out of the cache.
Serve(n) ==
  /\ Hit(n)
  /\ Reply(n, cache[n].doc, FALSE)
  /\ UNCHANGED <<now, directory, cache, req, refused>>

\* The handler up to await registry.lookup(key).
Ask(h, n, fresh) ==
  /\ req[h] = Idle
  /\ fresh \/ ~Hit(n)
  /\ req' = [req EXCEPT ![h] = [busy |-> TRUE, name |-> n, fresh |-> fresh]]
  /\ UNCHANGED <<now, directory, cache, answer, refused>>

\* cache.set: whichever lookup returns last stays, with the time it returned.
Remember(n, d) == cache' = [cache EXCEPT ![n] = [doc |-> d, fetched |-> now]]

\* The registry's document: 200, and cached.
Found(h, d) ==
  /\ req[h] # Idle /\ req[h].name \notin Foreign
  /\ D!CurrentSince(RefOf[req[h].name], d, now - RegistryAge)
  /\ Remember(req[h].name, d)
  /\ Reply(req[h].name, d, req[h].fresh)
  /\ req' = [req EXCEPT ![h] = Idle]
  /\ UNCHANGED <<now, directory, refused>>

\* 404: an older entry for the key stays in the cache.
NotFound(h) ==
  /\ req[h] # Idle /\ req[h].name \notin Foreign
  /\ Sure => D!CurrentSince(RefOf[req[h].name], None, now - RegistryAge)
  /\ Reply(req[h].name, None, req[h].fresh)
  /\ req' = [req EXCEPT ![h] = Idle]
  /\ UNCHANGED <<now, directory, cache, refused>>

\* 502: the registry threw, as it always does for a foreign or malformed key.
Failed(h) ==
  /\ req[h] # Idle
  /\ refused' = refused \cup ({req[h].name} \cap Foreign) \X {502}
  /\ req' = [req EXCEPT ![h] = Idle]
  /\ UNCHANGED <<now, directory, cache, answer>>

\* The process exits and is started again.
Restart ==
  /\ cache' = [n \in Names |-> NoEntry]
  /\ req' = [h \in Handlers |-> Idle]
  /\ UNCHANGED <<now, directory, answer, refused>>

Next ==
  \/ Tick
  \/ \E r \in Refs, d \in Docs : Publish(r, d)
  \/ \E n \in Names : Serve(n)
  \/ \E h \in Handlers :
       \/ \E n \in Names, fresh \in BOOLEAN : Ask(h, n, fresh)
       \/ \E d \in Docs : Found(h, d)
       \/ NotFound(h)
       \/ Failed(h)
  \/ Restart

Spec == Init /\ [][Next]_vars

-----------------------------------------------------------------------------
(* Properties. *)

\* A document is answered at most RegistryAge + Ttl after it was superseded,
\* and at most RegistryAge after it when the client asked for a fresh one,
\* whatever lookups overlap and in whatever order they return.  "Not found" is
\* bound in the same way where the registry is Sure.
IsDirectory == D!Spec

\* fetched_at is not later than the fetch: the document was still published
\* at most RegistryAge before the time the entry claims.
FetchedAtHonest ==
  \A n \in Names : cache[n].doc # None =>
    D!CurrentSince(RefOf[n], cache[n].doc, cache[n].fetched - RegistryAge)

-----------------------------------------------------------------------------
(* What a text of the repository says and the code does not do: no run checks *)
(* it, and the README of this development says why it fails.                 *)

\* The README and SPEC 6.6 answer a foreign or malformed ref with 400.
ForeignIsBadRequest ==
  \A r \in refused : r[2] = 400
=============================================================================
