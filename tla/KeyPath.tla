--------------------------------- MODULE KeyPath ---------------------------------
(***************************************************************************)
(* The relay with the resolver it asks (config resolver.baseUrl) in place  *)
(* of its assumption on answers.  A document stands for the signing key    *)
(* version in it; the relay always asks for the sender's SCUT URI and      *)
(* never for a fresh answer (packages/relay/src/keystore.ts:7-19).         *)
(* Two caches then lie between an owner's rotation and a signature check.  *)
(***************************************************************************)
EXTENDS Relay

CONSTANTS
  ResolverTtl,  \* the resolver's cache.ttlSeconds
  RegistryAge,  \* how old its registry's answer may be
  None

ASSUME KeyPathAssumption ==
  /\ ResolverTtl \in Nat /\ RegistryAge \in Nat
  /\ None \notin Keys /\ None \notin Agents
  /\ Stale = RegistryAge + ResolverTtl

VARIABLES entries, lookups, said, refusals  \* of the resolver
resolver == <<entries, lookups, said, refusals>>

\* The key versions superseded, as the documents they were in.
Retired == {[ref |-> p[1], doc |-> p[2], at |-> retired[p[1]][p[2]]] :
              p \in {q \in Agents \X Keys : q[2] < key[q[1]]}}

R == INSTANCE Resolver WITH
  Refs <- Agents, Docs <- Keys, Names <- Agents, Foreign <- {},
  RefOf <- [a \in Agents |-> a], Sure <- FALSE, Ttl <- ResolverTtl,
  MaxPublish <- MaxKey,
  published <- key,
  gone <- Retired,
  cache <- entries, req <- lookups, answer <- said, refused <- refusals

PathInit == Init /\ R!Init

\* The resolver's reply reaches the handler that waits for it.
Replied(h, k) ==
  /\ req' = [req EXCEPT ![h].pc = "answered", ![h].key = k]
  /\ UNCHANGED <<now, world, up, tables, cache, timer, view, history>>

Waiting(h) == req[h].pc = "ask" /\ lookups[h] = R!Idle

FromCache(h) ==
  /\ Waiting(h)
  /\ Replied(h, entries[req[h].msg.from].doc)
  /\ R!Serve(req[h].msg.from)

AskRegistry(h) ==
  /\ Waiting(h)
  /\ UNCHANGED vars
  /\ R!Ask(h, req[h].msg.from, FALSE)

\* The registry answered; the relay may have given up on the request.
FromRegistry(h, k) ==
  /\ lookups[h] # R!Idle
  /\ IF req[h].pc = "ask" /\ req[h].msg.from = lookups[h].name
     THEN Replied(h, k) ELSE UNCHANGED vars
  /\ R!Found(h, k)

Resolving(h) ==
  \/ FromCache(h)
  \/ AskRegistry(h)
  \/ \E k \in Keys : FromRegistry(h, k)
  \/ UNCHANGED vars /\ (R!NotFound(h) \/ R!Failed(h))

\* Every other step is the relay's or its clients' alone.
Alone == Next /\ ~\E h \in Handlers, k \in Keys : Answer(h, k)

PathNext ==
  \/ Alone /\ UNCHANGED resolver
  \/ \E h \in Handlers : Resolving(h)
  \/ UNCHANGED vars /\ R!Restart

PathSpec == PathInit /\ [][PathNext]_<<vars, resolver>>

-----------------------------------------------------------------------------
\* The resolver's cache lifetime and its registry's age are all that Relay
\* assumes about the keys it is given: the two processes together are the
\* Relay, for Stale = RegistryAge + ResolverTtl.
IsRelay == Spec
=============================================================================
