----------------------------- MODULE ResolverProofs -----------------------------
(***************************************************************************)
(* The resolver keeps the promise of a Directory for every cache lifetime, *)
(* registry age, number of lookups in flight and spelling of the keys.     *)
(*                                                                         *)
(* FetchedAtHonest is inductive once types are known and no entry is from  *)
(* the future: publications only add to gone, and an entry is written with *)
(* the time the registry returned.  A hit is younger than Ttl, which moves *)
(* the bound from the fetch to now.                                        *)
(***************************************************************************)
EXTENDS Resolver, TLAPS

FetchedBefore == \A n \in Names : cache[n].fetched <= now
IInv == TypeOK /\ FetchedBefore /\ FetchedAtHonest

\* Every entry written has its type, and the rest of the state keeps its own.
LEMMA TypeInitially == Init => IInv
  <1> SUFFICES ASSUME Init PROVE IInv
    OBVIOUS
  <1> USE ResolverAssumption DEF Init, D!Init, NoEntry, Idle
  <1>1. TypeOK
    BY DEF TypeOK, CachedEntry
  <1>2. FetchedAtHonest /\ FetchedBefore
    BY DEF FetchedAtHonest, FetchedBefore
  <1> QED BY <1>1, <1>2 DEF IInv

LEMMA TypeStep == TypeOK /\ [Next]_vars => TypeOK'
  <1> SUFFICES ASSUME TypeOK, [Next]_vars PROVE TypeOK'
    OBVIOUS
  <1> USE ResolverAssumption DEF TypeOK
  <1>1. CASE Tick
    BY <1>1 DEF Tick, D!Tick
  <1>2. ASSUME NEW r \in Refs, NEW d \in Docs, Publish(r, d) PROVE TypeOK'
    <2>1. [ref |-> r, doc |-> published[r], at |-> now] \in Superseded
      BY DEF Superseded
    <2>2. gone' \subseteq Superseded /\ published' \in [Refs -> Docs \cup {None}]
      BY <1>2, <2>1 DEF Publish, D!Publish
    <2> QED BY <1>2, <2>2 DEF Publish, D!Publish
  <1>3. ASSUME NEW n \in Names, Serve(n) PROVE TypeOK'
    BY <1>3 DEF Serve, directory
  <1>4. ASSUME NEW h \in Handlers, NEW n \in Names, NEW fresh \in BOOLEAN,
               Ask(h, n, fresh)
        PROVE TypeOK'
    <2> DEFINE R == [busy |-> TRUE, name |-> n, fresh |-> fresh]
    <2>1. R \in Lookup
      BY DEF Lookup
    <2>2. req' = [req EXCEPT ![h] = R]
      BY <1>4 DEF Ask
    <2>3. UNCHANGED <<now, directory, cache, answer, refused>>
      BY <1>4 DEF Ask
    <2> HIDE DEF R
    <2>4. req' \in [Handlers -> {Idle} \cup Lookup]
      BY <2>1, <2>2
    <2> QED BY <2>3, <2>4 DEF directory
  <1>5. ASSUME NEW h \in Handlers, NEW d \in Docs, Found(h, d) PROVE TypeOK'
    <2>1. req[h].name \in Names
      BY <1>5 DEF Found, Lookup
    <2>2. [doc |-> d, fetched |-> now] \in CachedEntry
      BY DEF CachedEntry
    <2>3. cache' \in [Names -> CachedEntry]
      BY <1>5, <2>1, <2>2 DEF Found, Remember
    <2> QED BY <1>5, <2>3 DEF Found, directory
  <1>6. ASSUME NEW h \in Handlers, NotFound(h) PROVE TypeOK'
    BY <1>6 DEF NotFound, directory
  <1>7. ASSUME NEW h \in Handlers, Failed(h) PROVE TypeOK'
    BY <1>7 DEF Failed, directory
  <1>8. CASE Restart
    <2>1. NoEntry \in CachedEntry
      BY DEF NoEntry, CachedEntry
    <2> QED BY <1>8, <2>1 DEF Restart, directory
  <1>9. CASE UNCHANGED vars
    BY <1>9 DEF vars, directory
  <1> QED BY <1>1, <1>2, <1>3, <1>4, <1>5, <1>6, <1>7, <1>8, <1>9 DEF Next

\* An older bound is easier to meet.
LEMMA SinceEarlier ==
  ASSUME TypeOK, NEW r \in Refs, NEW d, NEW t \in Int, NEW u \in Int, u <= t,
         D!CurrentSince(r, d, t)
  PROVE  D!CurrentSince(r, d, u)
  BY DEF D!CurrentSince, TypeOK, Superseded

\* No step forgets when a document was current; in the next state the bound
\* may be read off the same instant.
SinceNext(r, d, t) ==
  \/ published'[r] = d
  \/ \E g \in gone' : g.ref = r /\ g.doc = d /\ g.at >= t

LEMMA SinceKept ==
  ASSUME TypeOK, [Next]_vars, NEW r \in Refs, NEW d, NEW t \in Int, t <= now,
         D!CurrentSince(r, d, t)
  PROVE  SinceNext(r, d, t)
  <1> USE DEF D!CurrentSince, SinceNext, Superseded
  <1>1. CASE UNCHANGED directory
    BY <1>1 DEF directory
  <1>2. ASSUME NEW s \in Refs, NEW e \in Docs, Publish(s, e)
        PROVE SinceNext(r, d, t)
    <2>1. /\ published' = [published EXCEPT ![s] = e]
          /\ gone' = gone \cup {[ref |-> s, doc |-> published[s], at |-> now]}
      BY <1>2 DEF Publish, D!Publish
    <2>2. CASE published[r] = d /\ r = s
      <3> DEFINE g == [ref |-> s, doc |-> published[s], at |-> now]
      <3>1. g.ref = r /\ g.doc = d /\ g.at >= t
        BY <2>2 DEF TypeOK
      <3>2. g \in gone'
        BY <2>1
      <3> HIDE DEF g
      <3> QED BY <3>1, <3>2
    <2>3. CASE published[r] = d /\ r # s
      BY <2>1, <2>3 DEF TypeOK
    <2>4. CASE \E g \in gone : g.ref = r /\ g.doc = d /\ g.at >= t
      BY <2>1, <2>4
    <2> QED BY <2>2, <2>3, <2>4
  <1>3. UNCHANGED directory \/ \E s \in Refs, e \in Docs : Publish(s, e)
    BY DEF Next, vars, directory, Tick, D!Tick, Serve, Ask, Found, NotFound,
           Failed, Restart
  <1> QED BY <1>1, <1>2, <1>3

\* What can happen to one entry.
LEMMA EntryStep ==
  ASSUME TypeOK, [Next]_vars, NEW n \in Names
  PROVE  \/ cache'[n] = cache[n] \/ cache'[n] = NoEntry
         \/ \E h \in Handlers, d \in Docs : Found(h, d) /\ req[h].name = n
  <1>1. ASSUME NEW h \in Handlers, NEW d \in Docs, Found(h, d), req[h].name # n
        PROVE  cache'[n] = cache[n]
    BY <1>1 DEF Found, Remember, TypeOK
  <1>2. CASE Restart
    BY <1>2 DEF Restart
  <1>3. ASSUME UNCHANGED cache PROVE cache'[n] = cache[n]
    BY <1>3
  <1> QED
    BY <1>1, <1>2, <1>3 DEF Next, vars, Tick, D!Tick, Publish, D!Publish, Serve, Ask, NotFound, Failed

LEMMA FoundEntry ==
  ASSUME TypeOK, NEW h \in Handlers, NEW d \in Docs, Found(h, d)
  PROVE  cache'[req[h].name] = [doc |-> d, fetched |-> now]
  <1>1. req[h].name \in Names
    BY DEF TypeOK, Found, Lookup
  <1> QED BY <1>1 DEF Found, Remember, TypeOK

LEMMA BeforeStep == TypeOK /\ FetchedBefore /\ [Next]_vars => FetchedBefore'
  <1> SUFFICES ASSUME TypeOK, FetchedBefore, [Next]_vars, NEW n \in Names
               PROVE  cache'[n].fetched <= now'
    BY DEF FetchedBefore
  <1>0. \/ now' = now
        \/ now' = now + 1
    BY DEF Next, vars, Tick, D!Tick, Publish, D!Publish, Serve, Ask,
           Found, NotFound, Failed, Restart
  <1>1. now' \in Nat /\ now \in Nat /\ now <= now'
    BY <1>0 DEF TypeOK
  <1>2. cache[n].fetched \in Nat /\ cache[n].fetched <= now
    BY DEF TypeOK, CachedEntry, FetchedBefore
  <1>3. ASSUME NEW h \in Handlers, NEW d \in Docs, Found(h, d),
               req[h].name = n
        PROVE cache'[n].fetched <= now'
    <2>1. cache'[n] = [doc |-> d, fetched |-> now]
      BY <1>3, FoundEntry
    <2> QED BY <1>1, <2>1
  <1>4. CASE cache'[n] = cache[n] \/ cache'[n] = NoEntry
    BY <1>1, <1>2, <1>4 DEF NoEntry
  <1> QED BY <1>3, <1>4, EntryStep

LEMMA HonestStep == IInv /\ [Next]_vars => FetchedAtHonest'
  <1> DEFINE Honest(e, n) ==
        e.doc # None => SinceNext(RefOf[n], e.doc, e.fetched - RegistryAge)
  <1> SUFFICES ASSUME IInv, [Next]_vars, NEW n \in Names
               PROVE  Honest(cache'[n], n)
    BY DEF FetchedAtHonest, D!CurrentSince, SinceNext
  <1> USE ResolverAssumption
  <1>1. TypeOK /\ FetchedBefore /\ FetchedAtHonest
    BY DEF IInv
  <1>2. ASSUME cache'[n] = cache[n] PROVE Honest(cache'[n], n)
    <2>1. /\ cache[n].fetched - RegistryAge \in Int
          /\ cache[n].fetched - RegistryAge <= now
          /\ RefOf[n] \in Refs
      BY <1>1 DEF TypeOK, FetchedBefore, CachedEntry
    <2> QED BY <1>1, <1>2, <2>1, SinceKept DEF FetchedAtHonest
  <1>3. ASSUME NEW h \in Handlers, NEW d \in Docs, Found(h, d),
               req[h].name = n
        PROVE Honest(cache'[n], n)
    <2>1. cache'[n] = [doc |-> d, fetched |-> now]
      BY <1>1, <1>3, FoundEntry
    <2>2. SinceNext(RefOf[n], d, now - RegistryAge)
      BY <1>3 DEF Found, directory, SinceNext, D!CurrentSince
    <2> QED BY <2>1, <2>2
  <1>4. ASSUME cache'[n] = NoEntry PROVE Honest(cache'[n], n)
    BY <1>4 DEF NoEntry
  <1> QED BY <1>1, <1>2, <1>3, <1>4, EntryStep

LEMMA Inductive == IInv /\ [Next]_vars => IInv'
  BY TypeStep, BeforeStep, HonestStep DEF IInv

\* Type correctness of the resolver.
THEOREM ResolverTypes == Spec => []TypeOK
  <1>1. IInv => TypeOK
    BY DEF IInv
  <1> QED BY <1>1, TypeInitially, Inductive, PTL DEF Spec

\* A cached document was still published RegistryAge before its fetched_at.
THEOREM EntriesAreHonest == Spec => []FetchedAtHonest
  <1>1. IInv => FetchedAtHonest
    BY DEF IInv
  <1> QED BY <1>1, TypeInitially, Inductive, PTL DEF Spec

-----------------------------------------------------------------------------
\* What an answer is worth at the moment it is given.
LEMMA HitIsRecent ==
  ASSUME IInv, NEW n \in Names, Serve(n)
  PROVE  D!Answer(RefOf[n], cache[n].doc, FALSE)
  <1> USE ResolverAssumption
  <1>1. /\ TypeOK /\ RefOf[n] \in Refs
        /\ cache[n].fetched - RegistryAge \in Int
        /\ now - (RegistryAge + Ttl) \in Int
    BY DEF IInv, TypeOK, CachedEntry
  <1>2. now - (RegistryAge + Ttl) <= cache[n].fetched - RegistryAge
    BY <1>1 DEF Serve, Hit, TypeOK, CachedEntry
  <1>3. D!CurrentSince(RefOf[n], cache[n].doc, cache[n].fetched - RegistryAge)
    BY DEF IInv, FetchedAtHonest, Serve, Hit
  <1>4. D!CurrentSince(RefOf[n], cache[n].doc, now - (RegistryAge + Ttl))
    BY <1>1, <1>2, <1>3, SinceEarlier
  <1> QED BY <1>4 DEF D!Answer, Serve, Reply, directory

LEMMA LookupIsRecent ==
  ASSUME IInv, NEW h \in Handlers, NEW d,
         Found(h, d) \/ (NotFound(h) /\ d = None)
  PROVE  D!Answer(RefOf[req[h].name], d, req[h].fresh)
  <1> USE ResolverAssumption
  <1> DEFINE r == RefOf[req[h].name]
  <1>1. TypeOK /\ req[h].name \in Names /\ r \in Refs /\ req[h].fresh \in BOOLEAN
    <2>1. TypeOK /\ req[h] # Idle
      BY DEF IInv, Found, NotFound
    <2>2. req[h] \in Lookup
      BY <2>1 DEF TypeOK
    <2>3. req[h].name \in Names /\ req[h].fresh \in BOOLEAN
      BY <2>2 DEF Lookup
    <2>4. req[h].name \notin Foreign
      BY DEF Found, NotFound
    <2> QED BY <2>1, <2>3, <2>4
  <1>2. ASSUME d # None \/ Sure PROVE D!CurrentSince(r, d, now - RegistryAge)
    BY <1>2 DEF Found, NotFound
  <1>3. /\ now - RegistryAge \in Int /\ now - (RegistryAge + Ttl) \in Int
        /\ now - (RegistryAge + Ttl) <= now - RegistryAge
    BY <1>1 DEF TypeOK
  <1>4. ASSUME d # None \/ Sure
        PROVE  D!CurrentSince(r, d, now - (RegistryAge + Ttl))
    BY <1>1, <1>2, <1>3, <1>4, SinceEarlier
  <1>5. ASSUME d # None \/ Sure
        PROVE  D!CurrentSince(r, d, now -
                 (IF req[h].fresh THEN RegistryAge ELSE RegistryAge + Ttl))
    BY <1>2, <1>4, <1>5
  <1>6. /\ answer' = [ref |-> r, doc |-> d, fresh |-> req[h].fresh, at |-> now]
        /\ UNCHANGED <<now, published, gone>>
    BY DEF Found, NotFound, Reply, directory
  <1> QED BY <1>5, <1>6 DEF D!Answer

LEMMA AnswerStep ==
  ASSUME NEW r, NEW d, NEW fresh, D!Answer(r, d, fresh)
  PROVE  D!Next
  <1>1. answer'.ref = r /\ answer'.doc = d /\ answer'.fresh = fresh
    BY DEF D!Answer
  <1> QED BY <1>1 DEF D!Next

\* Every step answers recently enough, publishes, lets time pass, or is none of
\* a client's business.
LEMMA DirectoryStep == IInv /\ [Next]_vars => [D!Next]_D!vars
  <1> SUFFICES ASSUME IInv, [Next]_vars PROVE [D!Next]_D!vars
    OBVIOUS
  <1>1. CASE Tick
    BY <1>1 DEF Tick, D!Next
  <1>2. ASSUME NEW r \in Refs, NEW d \in Docs, Publish(r, d) PROVE D!Next
    <2>1. published' = [published EXCEPT ![r] = d]
      BY <1>2 DEF Publish, D!Publish
    <2>2. D!Publish(published', {r}) /\ {r} \in SUBSET Refs
      BY <1>2, <2>1 DEF Publish
    <2> QED BY <2>2 DEF D!Next
  <1>3. ASSUME NEW n \in Names, Serve(n) PROVE D!Next
    BY <1>3, HitIsRecent, AnswerStep
  <1>4. ASSUME NEW h \in Handlers, NEW d \in Docs, Found(h, d) PROVE D!Next
    <2>1. D!Answer(RefOf[req[h].name], d, req[h].fresh)
      BY <1>4, LookupIsRecent
    <2> QED BY <2>1, AnswerStep
  <1>5. ASSUME NEW h \in Handlers, NotFound(h) PROVE D!Next
    BY <1>5, LookupIsRecent, AnswerStep
  <1>6. ASSUME NEW h \in Handlers,
               Failed(h) \/ \E n \in Names, fresh \in BOOLEAN : Ask(h, n, fresh)
        PROVE UNCHANGED D!vars
    BY <1>6 DEF Failed, Ask, D!vars, directory
  <1>7. CASE Restart \/ UNCHANGED vars
    BY <1>7 DEF Restart, vars, D!vars, directory
  <1> QED BY <1>1, <1>2, <1>3, <1>4, <1>5, <1>6, <1>7 DEF Next

\* The resolver is a Directory of age RegistryAge + Ttl, and of age RegistryAge
\* for who asks for a fresh answer.
THEOREM ResolverIsDirectory == Spec => IsDirectory
  <1>1. Init => D!Init
    BY DEF Init
  <1> QED BY <1>1, TypeInitially, Inductive, DirectoryStep, PTL
          DEF Spec, IsDirectory, D!Spec
=============================================================================
