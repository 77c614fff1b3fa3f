-------------------------------- MODULE SiiProofs --------------------------------
(***************************************************************************)
(* Proofs about SiiRegistry for any agents, documents, hosts and delays.   *)
(***************************************************************************)
EXTENDS SiiRegistry, TLAPS

\* What a lookup in service remembers: it is within its CallTime, and the URI
\* it fetches is one the contract had in the Lag before the fetch began, less
\* the time of the call that read it.
InService ==
  \A l \in Calls : call[l] # NoCall =>
    /\ siiNow <= call[l].start + CallTime
    /\ call[l].start <= siiNow
    /\ call[l].pc = "fetch" =>
         /\ call[l].uri \in Hosts
         /\ PointedSince(call[l].ref, call[l].uri,
                         call[l].start - Lag - CallTime)

ResultOK ==
  /\ siiResult.doc # NoSii => siiResult.ref \in SiiRefs
  /\ siiResult.at \in Nat /\ siiResult.at <= siiNow

Calling == [pc: {"rpc", "fetch"}, ref: SiiRefs, uri: Hosts \cup {NoSii}, start: Nat]

LEMMA CallFacts ==
  ASSUME SiiTypeOK, NEW l \in Calls, call[l] # NoCall
  PROVE  /\ call[l] \in Calling
         /\ call[l].pc \in {"rpc", "fetch"}
         /\ call[l].ref \in SiiRefs
         /\ call[l].uri \in Hosts \cup {NoSii}
         /\ call[l].start \in Nat
  <1>1. call[l] \in Calling
    BY DEF SiiTypeOK, Calling
  <1> QED BY <1>1 DEF Calling

LEMMA NotIdle ==
  ASSUME NEW l, call[l].pc = "rpc" \/ call[l].pc = "fetch"
  PROVE  call[l] # NoCall
  BY DEF NoCall

-----------------------------------------------------------------------------
(* Types. *)

LEMMA TypeInit == SiiInit => SiiTypeOK
  BY DEF SiiInit, SiiTypeOK, NoCall

LEMMA TypeNext == SiiTypeOK /\ [SiiNext]_siiVars => SiiTypeOK'
  <1> SUFFICES ASSUME SiiTypeOK, [SiiNext]_siiVars PROVE SiiTypeOK'
    OBVIOUS
  <1> USE DEF SiiTypeOK
  <1>1. CASE SiiTick
    BY <1>1 DEF SiiTick, outside
  <1>2. ASSUME NEW r \in SiiRefs, NEW u \in Uris, Point(r, u) PROVE SiiTypeOK'
    <2>1. uri' \in [SiiRefs -> Uris \cup {NoSii}]
      BY <1>2 DEF Point
    <2>2. moved' \subseteq [ref: SiiRefs, uri: Uris \cup {NoSii}, at: Nat]
      BY <1>2 DEF Point
    <2> QED BY <1>2, <2>1, <2>2 DEF Point
  <1>3. ASSUME NEW u \in Hosts, NEW d \in SiiDocs, EditBody(u, d) PROVE SiiTypeOK'
    <2>1. body' \in [Hosts -> SiiDocs \cup {NoSii}]
      BY <1>3 DEF EditBody
    <2>2. edited' \subseteq [host: Hosts, doc: SiiDocs \cup {NoSii}, at: Nat]
      BY <1>3 DEF EditBody
    <2> QED BY <1>3, <2>1, <2>2 DEF EditBody
  <1>4. ASSUME NEW l \in Calls, NEW r \in SiiRefs, BeginCall(l, r) PROVE SiiTypeOK'
    BY <1>4 DEF BeginCall, outside
  <1>5. ASSUME NEW l \in Calls, NEW d, Finish(l, d) PROVE SiiTypeOK'
    BY <1>5 DEF Finish, outside
  <1>6. ASSUME NEW l \in Calls, NEW u \in Hosts, Follow(l, u) PROVE SiiTypeOK'
    <2>1. call[l] \in Calling
      BY <1>6, CallFacts, NotIdle DEF Follow, Reads
    <2>2. [call[l] EXCEPT !.pc = "fetch", !.uri = u, !.start = siiNow] \in Calling
      BY <2>1 DEF Calling
    <2> QED BY <1>6, <2>2 DEF Follow, outside, Calling
  <1>7. ASSUME NEW l \in Calls, Throw(l) PROVE SiiTypeOK'
    BY <1>7 DEF Throw, outside
  <1>8. CASE UNCHANGED siiVars
    BY <1>8 DEF siiVars, outside
  <1> QED BY <1>1, <1>2, <1>3, <1>4, <1>5, <1>6, <1>7, <1>8
          DEF SiiNext, Unminted, Inline, Fetch

\* Type correctness of the chain backend.
THEOREM SiiTypes == SiiSpec => []SiiTypeOK
  BY TypeInit, TypeNext, PTL DEF SiiSpec

-----------------------------------------------------------------------------
(* What a lookup read stays true of the moment it was read at. *)

LEMMA PointedKept ==
  ASSUME SiiTypeOK, [SiiNext]_siiVars, NEW r \in SiiRefs, NEW u, NEW t \in Int, t <= siiNow,
         PointedSince(r, u, t)
  PROVE  uri'[r] = u \/ \E p \in moved' : p.ref = r /\ p.uri = u /\ p.at >= t
  <1>1. CASE \E q \in SiiRefs, v \in Uris : Point(q, v)
    <2>1. PICK q \in SiiRefs, v \in Uris : Point(q, v)
      BY <1>1
    <2> DEFINE old == [ref |-> q, uri |-> uri[q], at |-> siiNow]
    <2>2. /\ uri' = [uri EXCEPT ![q] = v]
          /\ moved' = moved \cup {old}
      BY <2>1 DEF Point
    <2>3. old.ref = q /\ old.uri = uri[q] /\ old.at = siiNow
      OBVIOUS
    <2> HIDE DEF old
    <2>4. CASE q = r /\ uri[r] = u
      BY <2>2, <2>3, <2>4
    <2>5. CASE ~(q = r /\ uri[r] = u)
      BY <2>2, <2>5 DEF PointedSince, SiiTypeOK
    <2> QED BY <2>4, <2>5
  <1>2. CASE UNCHANGED <<uri, moved>>
    BY <1>2 DEF PointedSince
  <1>3. \/ \E q \in SiiRefs, v \in Uris : Point(q, v)
        \/ UNCHANGED <<uri, moved>>
    BY DEF SiiNext, siiVars, outside, SiiTick, EditBody, BeginCall, Unminted, Inline, Follow, Fetch,
           Finish, Throw
  <1> QED BY <1>1, <1>2, <1>3

LEMMA HostedKept ==
  ASSUME SiiTypeOK, [SiiNext]_siiVars, NEW u \in Hosts, NEW d, NEW t \in Int, t <= siiNow,
         HostedSince(u, d, t)
  PROVE  body'[u] = d \/ \E e \in edited' : e.host = u /\ e.doc = d /\ e.at >= t
  <1>1. CASE \E v \in Hosts, c \in SiiDocs : EditBody(v, c)
    <2>1. PICK v \in Hosts, c \in SiiDocs : EditBody(v, c)
      BY <1>1
    <2> DEFINE old == [host |-> v, doc |-> body[v], at |-> siiNow]
    <2>2. /\ body' = [body EXCEPT ![v] = c]
          /\ edited' = edited \cup {old}
      BY <2>1 DEF EditBody
    <2>3. old.host = v /\ old.doc = body[v] /\ old.at = siiNow
      OBVIOUS
    <2> HIDE DEF old
    <2>4. CASE v = u /\ body[u] = d
      BY <2>2, <2>3, <2>4
    <2>5. CASE ~(v = u /\ body[u] = d)
      BY <2>2, <2>5 DEF HostedSince, SiiTypeOK
    <2> QED BY <2>4, <2>5
  <1>2. CASE UNCHANGED <<body, edited>>
    BY <1>2 DEF HostedSince
  <1>3. \/ \E v \in Hosts, c \in SiiDocs : EditBody(v, c)
        \/ UNCHANGED <<body, edited>>
    BY DEF SiiNext, siiVars, outside, SiiTick, Point, BeginCall, Unminted, Inline, Follow, Fetch,
           Finish, Throw
  <1> QED BY <1>1, <1>2, <1>3

\* What was true later than t was true later than anything before t.
LEMMA Earlier ==
  ASSUME SiiTypeOK, NEW r, NEW u, NEW d, NEW s \in Int, NEW t \in Int, s <= t
  PROVE  /\ PointedSince(r, u, t) => PointedSince(r, u, s)
         /\ u \in Hosts /\ HostedSince(u, d, t) => HostedSince(u, d, s)
  <1>1. \A p \in moved : p.at \in Nat
    BY DEF SiiTypeOK
  <1>2. \A e \in edited : e.at \in Nat
    BY DEF SiiTypeOK
  <1> QED BY <1>1, <1>2 DEF PointedSince, HostedSince

-----------------------------------------------------------------------------
LEMMA InServiceNext ==
  ASSUME SiiTypeOK, InService, [SiiNext]_siiVars PROVE InService'
  <1> USE SiiAssumption
  <1> DEFINE Fine(l) ==
        /\ siiNow <= call[l].start + CallTime
        /\ call[l].start <= siiNow
        /\ call[l].pc = "fetch" =>
             /\ call[l].uri \in Hosts
             /\ PointedSince(call[l].ref, call[l].uri,
                             call[l].start - Lag - CallTime)
  <1> SUFFICES ASSUME NEW l \in Calls, call'[l] # NoCall PROVE Fine(l)'
    BY DEF InService, NoCall
  <1>0. siiNow \in Nat /\ siiNow' \in Nat
    BY TypeNext DEF SiiTypeOK
  <1>1. CASE call'[l] = call[l] /\ (siiNow' = siiNow \/ SiiTick)
    <2>1. call[l] # NoCall /\ Fine(l)
      BY <1>1 DEF InService
    <2>2. call[l].start \in Nat /\ call[l].ref \in SiiRefs
      BY <2>1, CallFacts
    <2>3. siiNow' <= call[l].start + CallTime /\ call[l].start <= siiNow'
      BY <1>0, <1>1, <2>1, <2>2 DEF SiiTick
    <2>4. ASSUME call[l].pc = "fetch"
          PROVE  PointedSince(call[l].ref, call[l].uri,
                              call[l].start - Lag - CallTime)'
      <3> DEFINE t == call[l].start - Lag - CallTime
      <3>1. t \in Int /\ t <= siiNow
        BY <1>0, <2>1, <2>2
      <3>2. PointedSince(call[l].ref, call[l].uri, t)
        BY <2>1, <2>4
      <3> HIDE DEF t
      <3>3. \/ uri'[call[l].ref] = call[l].uri
            \/ \E p \in moved' : /\ p.ref = call[l].ref
                                 /\ p.uri = call[l].uri /\ p.at >= t
        BY <2>2, <3>1, <3>2, PointedKept
      <3> QED BY <1>1, <3>3 DEF PointedSince, t
    <2> QED BY <1>1, <2>1, <2>3, <2>4
  <1>2. ASSUME NEW r \in SiiRefs, BeginCall(l, r) PROVE Fine(l)'
    <2>1. call'[l] = [pc |-> "rpc", ref |-> r, uri |-> NoSii, start |-> siiNow]
      BY <1>2 DEF BeginCall, SiiTypeOK
    <2>2. siiNow' = siiNow
      BY <1>2 DEF BeginCall
    <2> QED BY <1>0, <2>1, <2>2
  <1>3. ASSUME NEW u \in Hosts, Follow(l, u) PROVE Fine(l)'
    <2>1. call[l].pc = "rpc" /\ call[l] # NoCall
      BY <1>3, NotIdle DEF Follow, Reads
    <2>2. call[l] \in Calling /\ call[l].start \in Nat
      BY <2>1, CallFacts
    <2>3. /\ call'[l].pc = "fetch" /\ call'[l].uri = u
          /\ call'[l].start = siiNow /\ call'[l].ref = call[l].ref
      BY <1>3, <2>2 DEF Follow, SiiTypeOK, Calling
    <2>4. siiNow' = siiNow /\ uri' = uri /\ moved' = moved
      BY <1>3 DEF Follow, outside
    <2>5. PointedSince(call[l].ref, u, call[l].start - Lag)
      BY <1>3 DEF Follow, Reads
    <2>6. /\ siiNow - Lag - CallTime \in Int /\ call[l].start - Lag \in Int
          /\ siiNow - Lag - CallTime <= call[l].start - Lag
      BY <1>0, <2>1, <2>2 DEF InService
    <2>7. PointedSince(call[l].ref, u, siiNow - Lag - CallTime)
      BY <2>5, <2>6, Earlier
    <2> QED BY <1>0, <2>3, <2>4, <2>7 DEF PointedSince
  <1>4. ASSUME NEW k \in Calls, NEW d, Finish(k, d) \/ Throw(k)
        PROVE  call'[l] = call[l] /\ siiNow' = siiNow
    BY <1>4 DEF Finish, Throw, SiiTypeOK
  <1>5. ASSUME NEW k \in Calls, k # l,
               \/ \E r \in SiiRefs : BeginCall(k, r)
               \/ \E u \in Hosts : Follow(k, u)
        PROVE  call'[l] = call[l] /\ siiNow' = siiNow
    BY <1>5 DEF BeginCall, Follow, SiiTypeOK
  <1>6. CASE SiiTick \/ UNCHANGED siiVars
    BY <1>6, <1>1 DEF SiiTick, siiVars
  <1>7. CASE \/ \E r \in SiiRefs, u \in Uris : Point(r, u)
             \/ \E u \in Hosts, d \in SiiDocs : EditBody(u, d)
    BY <1>7, <1>1 DEF Point, EditBody
  <1> QED BY <1>1, <1>2, <1>3, <1>4, <1>5, <1>6, <1>7
          DEF SiiNext, Unminted, Inline, Fetch

-----------------------------------------------------------------------------
(* The result. *)

\* A lookup that returns found its document as PointedAndHosted says.
LEMMA ReturnLed ==
  ASSUME SiiTypeOK, InService, NEW l \in Calls, NEW d, Finish(l, d),
         \/ call[l].pc = "rpc" /\ d = NoSii
         \/ Reads(l, d) /\ Accepted(l, d)
         \/ /\ call[l].pc = "fetch" /\ Accepted(l, d)
            /\ HostedSince(call[l].uri, d, call[l].start)
  PROVE  PointedAndHosted' /\ ResultOK'
  <1> USE SiiAssumption
  <1> DEFINE r == call[l].ref
             read == siiNow - Lag - CallTime
  <1>1. call[l] # NoCall
    BY NotIdle DEF Reads
  <1>2. /\ r \in SiiRefs /\ call[l].start \in Nat /\ siiNow \in Nat
        /\ siiNow <= call[l].start + CallTime /\ call[l].start <= siiNow
    BY <1>1, CallFacts DEF InService, SiiTypeOK
  <1>3. /\ siiResult'.ref = r /\ siiResult'.doc = d /\ siiResult'.at = siiNow
        /\ siiNow' = siiNow /\ uri' = uri /\ moved' = moved
        /\ body' = body /\ edited' = edited
    BY DEF Finish, outside
  <1>4. /\ read \in Int /\ read - CallTime \in Int /\ siiNow - CallTime \in Int
        /\ call[l].start - Lag \in Int /\ call[l].start - Lag - CallTime \in Int
        /\ read <= call[l].start - Lag
        /\ read - CallTime <= call[l].start - Lag - CallTime
        /\ siiNow - CallTime <= call[l].start
    BY <1>2
  <1>5. ResultOK'
    BY <1>2, <1>3 DEF ResultOK
  <1> HIDE DEF read, r
  <1>6. CASE d = NoSii
    BY <1>3, <1>5, <1>6 DEF PointedAndHosted
  <1>7. CASE Reads(l, d) /\ Accepted(l, d)
    <2>1. PointedSince(r, d, read) /\ d # NoSii /\ d.agentRef = r
      BY <1>4, <1>7, Earlier DEF Reads, Accepted, r
    <2> QED BY <1>3, <1>5, <2>1 DEF PointedAndHosted, PointedSince, read
  <1>8. CASE /\ call[l].pc = "fetch" /\ Accepted(l, d)
             /\ HostedSince(call[l].uri, d, call[l].start)
    <2> DEFINE u == call[l].uri
    <2>1. u \in Hosts /\ PointedSince(r, u, call[l].start - Lag - CallTime)
      BY <1>1, <1>8 DEF InService, r
    <2>2. HostedSince(u, d, call[l].start)
      BY <1>8
    <2> HIDE DEF u
    <2>3. PointedSince(r, u, read - CallTime)
      BY <1>4, <2>1, Earlier
    <2>4. HostedSince(u, d, siiNow - CallTime)
      BY <1>2, <1>4, <2>1, <2>2, Earlier
    <2>5. d # NoSii /\ d.agentRef = r
      BY <1>8 DEF Accepted, r
    <2> QED BY <1>3, <1>5, <2>1, <2>3, <2>4, <2>5
            DEF PointedAndHosted, PointedSince, HostedSince, read
  <1> QED BY <1>6, <1>7, <1>8

LEMMA ResultKept ==
  ASSUME SiiTypeOK, ResultOK, PointedAndHosted, [SiiNext]_siiVars, siiResult' = siiResult
  PROVE  PointedAndHosted' /\ ResultOK'
  <1> USE SiiAssumption
  <1> DEFINE r == siiResult.ref
             d == siiResult.doc
             at == siiResult.at
             read == at - Lag - CallTime
  <1>1. siiNow \in Nat /\ siiNow' \in Nat /\ siiNow <= siiNow'
    <2>1. siiNow \in Nat
      BY DEF SiiTypeOK
    <2>2. siiNow' = siiNow \/ siiNow' = siiNow + 1
      BY DEF SiiNext, siiVars, SiiTick, Point, EditBody, BeginCall, Unminted, Inline, Follow, Fetch,
             Finish, Throw, outside
    <2> QED BY <2>1, <2>2
  <1>2. ResultOK'
    BY <1>1 DEF ResultOK
  <1>3. CASE d = NoSii
    BY <1>2, <1>3 DEF PointedAndHosted
  <1>4. CASE d # NoSii
    <2>1. /\ r \in SiiRefs /\ at \in Nat /\ at <= siiNow
          /\ read \in Int /\ read <= siiNow
          /\ read - CallTime \in Int /\ read - CallTime <= siiNow
          /\ at - CallTime \in Int /\ at - CallTime <= siiNow
      BY <1>1, <1>4 DEF ResultOK
    <2> HIDE DEF read
    <2>2. ASSUME NEW u, PointedSince(r, u, read)
          PROVE  uri'[r] = u \/ \E p \in moved' : p.ref = r /\ p.uri = u /\ p.at >= read
      BY <2>1, <2>2, PointedKept
    <2>3. ASSUME NEW u, PointedSince(r, u, read - CallTime)
          PROVE  \/ uri'[r] = u
                 \/ \E p \in moved' : p.ref = r /\ p.uri = u /\ p.at >= read - CallTime
      BY <2>1, <2>3, PointedKept
    <2>4. ASSUME NEW u \in Hosts, HostedSince(u, d, at - CallTime)
          PROVE  \/ body'[u] = d
                 \/ \E e \in edited' : e.host = u /\ e.doc = d /\ e.at >= at - CallTime
      BY <2>1, <2>4, HostedKept
    <2>6. CASE d # NoSii /\ d.agentRef = r /\ PointedSince(r, d, read)
      BY <1>2, <2>2, <2>6 DEF PointedAndHosted, PointedSince, read
    <2>7. ASSUME d # NoSii, d.agentRef = r, NEW u \in Hosts,
                 PointedSince(r, u, read - CallTime), HostedSince(u, d, at - CallTime)
          PROVE  PointedAndHosted'
      BY <2>3, <2>4, <2>7 DEF PointedAndHosted, PointedSince, HostedSince, read
    <2> QED BY <1>2, <1>4, <2>6, <2>7 DEF PointedAndHosted, read
  <1> QED BY <1>3, <1>4

LEMMA ResultNext ==
  ASSUME SiiTypeOK, InService, ResultOK, PointedAndHosted, [SiiNext]_siiVars
  PROVE  PointedAndHosted' /\ ResultOK'
  <1>1. ASSUME NEW l \in Calls,
               \/ Unminted(l)
               \/ \E d \in SiiDocs : Inline(l, d) \/ Fetch(l, d)
        PROVE  PointedAndHosted' /\ ResultOK'
    BY <1>1, ReturnLed DEF Unminted, Inline, Fetch
  <1>2. CASE siiResult' = siiResult
    BY <1>2, ResultKept
  <1> QED BY <1>1, <1>2
          DEF SiiNext, siiVars, SiiTick, Point, EditBody, BeginCall, Follow, Throw

LEMMA ServiceInit == SiiInit => InService /\ ResultOK /\ PointedAndHosted
  BY DEF SiiInit, InService, ResultOK, PointedAndHosted, NoCall

\* Whatever two awaits see of a chain and of hosts that move meanwhile, the
\* document a lookup returns is one its agent's entry led to, and names that agent.
THEOREM LookupsAreLed == SiiSpec => []PointedAndHosted
  <1>1. SiiInit => SiiTypeOK /\ InService /\ ResultOK /\ PointedAndHosted
    BY TypeInit, ServiceInit
  <1>2. SiiTypeOK /\ InService /\ ResultOK /\ PointedAndHosted /\ [SiiNext]_siiVars
          => (SiiTypeOK /\ InService /\ ResultOK /\ PointedAndHosted)'
    BY TypeNext, InServiceNext, ResultNext
  <1> QED BY <1>1, <1>2, PTL DEF SiiSpec

-----------------------------------------------------------------------------
(* The resolver's view of the backend. *)

\* What an agent publishes through a data: URI.  A document that names another
\* agent is none that a lookup may return.
Offered(r, u) ==
  IF u = NoSii \/ u.agentRef = r THEN u ELSE [agentRef |-> NoSii, version |-> 0]

Published == [r \in SiiRefs |-> Offered(r, uri[r])]
Gone == {[ref |-> p.ref, doc |-> Offered(p.ref, p.uri), at |-> p.at] : p \in moved}
Said == [ref |-> siiResult.ref, doc |-> siiResult.doc, fresh |-> siiResult.ref # NoSii,
         at |-> siiResult.at]

\* The Directory that Resolver assumes (RegistryAge): a document in an answer was
\* published at most Lag + CallTime before.  "Not found" may be a failed call.
D == INSTANCE Directory WITH
  Refs <- SiiRefs, Docs <- SiiDocs, None <- NoSii, now <- siiNow,
  Age <- Lag + CallTime, FreshAge <- Lag + CallTime, Sure <- FALSE,
  published <- Published, gone <- Gone, answer <- Said

\* With data: URIs alone there is no second call.
LEMMA NoFetch ==
  ASSUME Hosts = {}, InService, NEW l \in Calls PROVE call[l].pc # "fetch"
  BY NotIdle DEF InService

LEMMA SaysWhatWasPublished ==
  ASSUME SiiTypeOK, InService, NEW l \in Calls, NEW d, Finish(l, d), Reads(l, d),
         Accepted(l, d)
  PROVE  D!Answer(call[l].ref, d, TRUE)
  <1> USE SiiAssumption
  <1> DEFINE r == call[l].ref
             t == siiNow - (Lag + CallTime)
  <1>1. call[l] # NoCall
    BY NotIdle DEF Reads
  <1>2. /\ r \in SiiRefs /\ call[l].start \in Nat /\ siiNow \in Nat
        /\ siiNow <= call[l].start + CallTime /\ r # NoSii
    BY <1>1, CallFacts DEF InService, SiiTypeOK
  <1>3. t \in Int /\ call[l].start - Lag \in Int /\ t <= call[l].start - Lag
    BY <1>2
  <1>4. Offered(r, d) = d
    BY DEF Accepted, Offered
  <1>5. /\ Said' = [ref |-> r, doc |-> d, fresh |-> TRUE, at |-> siiNow]
        /\ siiNow' = siiNow /\ Published' = Published /\ Gone' = Gone
    BY <1>2 DEF Finish, outside, Said, Published, Gone
  <1> HIDE DEF t, r
  <1>6. PointedSince(r, d, t)
    BY <1>3, Earlier DEF Reads, r
  <1>7. CASE uri[r] = d
    BY <1>2, <1>4, <1>5, <1>7 DEF D!Answer, D!CurrentSince, Published, r
  <1>8. ASSUME NEW p \in moved, p.ref = r, p.uri = d, p.at >= t
        PROVE  \E g \in Gone : g.ref = r /\ g.doc = d /\ g.at >= t
    <2> DEFINE g == [ref |-> p.ref, doc |-> Offered(p.ref, p.uri), at |-> p.at]
    <2>1. g \in Gone
      BY DEF Gone
    <2>2. g.ref = r /\ g.doc = d /\ g.at >= t
      BY <1>4, <1>8
    <2> HIDE DEF g
    <2> QED BY <2>1, <2>2
  <1> QED BY <1>5, <1>6, <1>7, <1>8
          DEF D!Answer, D!CurrentSince, PointedSince, r, t

LEMMA DataStep ==
  ASSUME Hosts = {}, SiiTypeOK, InService, [SiiNext]_siiVars PROVE [D!Next]_(D!vars)
  <1>1. CASE SiiTick
    BY <1>1 DEF SiiTick, outside, D!Next, D!Tick, Published, Gone, Said
  <1>2. ASSUME NEW r \in SiiRefs, NEW u \in Uris, Point(r, u) PROVE D!Next
    <2>1. /\ uri' = [uri EXCEPT ![r] = u] /\ siiNow' = siiNow /\ siiResult' = siiResult
          /\ moved' = moved \cup {[ref |-> r, uri |-> uri[r], at |-> siiNow]}
      BY <1>2 DEF Point
    <2>2. \A q \in SiiRefs \ {r} : Published'[q] = Published[q]
      BY <2>1 DEF Published, SiiTypeOK
    <2>3. Published[r] = Offered(r, uri[r])
      BY DEF Published
    <2>4. Gone' = Gone \cup {[ref |-> r, doc |-> Published[r], at |-> siiNow]}
      <3> DEFINE Old(p) == [ref |-> p.ref, doc |-> Offered(p.ref, p.uri), at |-> p.at]
                 left == [ref |-> r, uri |-> uri[r], at |-> siiNow]
      <3>1. Gone = {Old(p) : p \in moved} /\ Gone' = {Old(p) : p \in moved'}
        BY DEF Gone
      <3>2. Old(left) = [ref |-> r, doc |-> Published[r], at |-> siiNow]
        BY <2>3
      <3>3. moved' = moved \cup {left}
        BY <2>1
      <3> HIDE DEF Old, left
      <3> QED BY <3>1, <3>2, <3>3
    <2>5. Gone' = Gone \cup {[ref |-> q, doc |-> Published[q], at |-> siiNow] : q \in {r}}
      BY <2>4
    <2>6. Said' = Said
      BY <2>1 DEF Said
    <2>7. D!Publish(Published', {r})
      BY <2>1, <2>2, <2>5, <2>6 DEF D!Publish
    <2> QED BY <2>7 DEF D!Next
  <1>3. ASSUME NEW l \in Calls,
               Unminted(l) \/ \E d \in SiiDocs : Inline(l, d)
        PROVE  D!Next
    <2>1. PICK d : /\ Finish(l, d) /\ call[l].pc = "rpc"
                   /\ \/ d = NoSii
                      \/ Reads(l, d) /\ Accepted(l, d)
      <3>1. CASE Unminted(l)
        BY <3>1 DEF Unminted
      <3>2. CASE \E d \in SiiDocs : Inline(l, d)
        BY <3>2 DEF Inline, Reads
      <3> QED BY <1>3, <3>1, <3>2
    <2>2. call[l] # NoCall
      BY <2>1, NotIdle
    <2>3. ASSUME d = NoSii PROVE D!Answer(call[l].ref, d, TRUE)
      <3>1. call[l].ref \in SiiRefs /\ call[l].ref # NoSii
        BY <2>2, CallFacts, SiiAssumption
      <3>2. /\ Said' = [ref |-> call[l].ref, doc |-> d, fresh |-> TRUE, at |-> siiNow]
            /\ siiNow' = siiNow /\ Published' = Published /\ Gone' = Gone
        BY <2>1, <3>1 DEF Finish, outside, Said, Published, Gone
      <3> QED BY <2>3, <3>2 DEF D!Answer
    <2>4. D!Answer(call[l].ref, d, TRUE)
      BY <2>1, <2>3, SaysWhatWasPublished
    <2>5. call[l].ref = Said'.ref /\ d = Said'.doc /\ TRUE = Said'.fresh
      BY <2>1, <2>2, CallFacts, SiiAssumption DEF Finish, Said
    <2> QED BY <2>4, <2>5 DEF D!Next
  <1>4. CASE UNCHANGED <<siiNow, uri, moved, siiResult>>
    BY <1>4 DEF D!vars, Published, Gone, Said
  <1>5. ASSUME NEW l \in Calls, NEW d \in SiiDocs, Fetch(l, d) PROVE FALSE
    BY <1>5, NoFetch DEF Fetch
  <1> QED BY <1>1, <1>2, <1>3, <1>4, <1>5
          DEF SiiNext, siiVars, EditBody, BeginCall, Follow, Throw, outside

\* With data: URIs, which is what the registration service writes, the backend
\* is the Directory that the resolver takes it for.
THEOREM DataIsDirectory == ASSUME Hosts = {} PROVE SiiSpec => D!Spec
  <1>1. SiiInit => D!Init
    <2> SUFFICES ASSUME SiiInit PROVE D!Init
      OBVIOUS
    <2>1. Published = [r \in SiiRefs |-> NoSii]
      BY DEF SiiInit, Published, Offered
    <2>2. Gone = {}
      BY DEF SiiInit, Gone
    <2>3. Said = D!NoAnswer
      BY DEF SiiInit, Said, D!NoAnswer
    <2>4. Published \in [SiiRefs -> SiiDocs \cup {NoSii}]
      BY <2>1
    <2> QED BY <2>2, <2>3, <2>4 DEF SiiInit, D!Init
  <1>2. SiiInit => SiiTypeOK /\ InService
    BY TypeInit, ServiceInit
  <1>3. SiiTypeOK /\ InService /\ [SiiNext]_siiVars
          => SiiTypeOK' /\ InService' /\ [D!Next]_(D!vars)
    BY TypeNext, InServiceNext, DataStep
  <1> QED BY <1>1, <1>2, <1>3, PTL DEF SiiSpec, D!Spec
=============================================================================
