------------------------------- MODULE ShowProofs -------------------------------
(***************************************************************************)
(* Proofs about what the audience is shown: the monitor and its reveals    *)
(* (Monitor), the stream of events it listens to (EventStream), the demo   *)
(* that feeds it (Demo) and the keys it is given (Keygen).                 *)
(***************************************************************************)
EXTENDS Monitor, EventStream, Demo, Keygen, SequenceTheorems, WellFoundedInduction, TLAPS

-----------------------------------------------------------------------------
(* Keygen. *)

\* Where the script is, in terms of the documents it has written in this run.
DrawInv ==
  /\ KeysNotNewer
  /\ keys <= run
  /\ \A a \in 1..Slots : docs[a] <= run
  /\ \A a \in 1..Slots : a < slot => docs[a] = run
  /\ whole => slot = 0 /\ \A a \in 1..Slots : docs[a] = run

LEMMA DrawInitInv == DrawInit => DrawInv
  BY KeygenAssumption DEF DrawInit, DrawInv, KeysNotNewer, DrawTypeOK, Broken

LEMMA DrawNextInv == DrawInv /\ [DrawNext]_drawn => DrawInv'
  <1> SUFFICES ASSUME DrawInv, [DrawNext]_drawn PROVE DrawInv'
    OBVIOUS
  <1> USE KeygenAssumption DEF DrawInv, KeysNotNewer, DrawTypeOK, Broken
  <1>1. CASE Begin
    <2>1. run' = run + 1 /\ run' \in 0..MaxDraws /\ slot' = 1
          /\ UNCHANGED <<docs, keys, hosted, cuts>> /\ whole' = FALSE
      BY <1>1 DEF Begin
    <2>2. slot' \in 0..(Slots + 1)
      BY <2>1
    <2>3. whole' \in BOOLEAN
      BY <2>1
    <2> QED BY <2>1, <2>2, <2>3
  <1>2. CASE WriteDoc
    BY <1>2 DEF WriteDoc
  <1>3. CASE WriteKeys
    BY <1>3 DEF WriteKeys
  <1>4. CASE Cut
    <2>1. slot > 0 /\ slot' = 0 /\ ~whole /\ UNCHANGED <<hosted, run, whole>> /\ cuts' \in 0..MaxCuts
      BY <1>4 DEF Cut
    <2>2. CASE UNCHANGED <<docs, keys>>
      BY <2>1, <2>2
    <2>3. CASE slot <= Slots /\ docs' = [docs EXCEPT ![slot] = Broken] /\ UNCHANGED keys
      BY <2>1, <2>3
    <2>4. CASE keys' = Broken /\ UNCHANGED docs
      BY <2>1, <2>4
    <2> QED BY <1>4, <2>2, <2>3, <2>4 DEF Cut
  <1>5. CASE Host
    BY <1>5 DEF Host
  <1>6. CASE UNCHANGED drawn
    BY <1>6 DEF drawn
  <1> QED BY <1>1, <1>2, <1>3, <1>4, <1>5, <1>6 DEF DrawNext

\* The keys on disk are never newer than a document, wherever runs are cut off.
THEOREM KeysNeverNewer == DrawSpec => []KeysNotNewer
  <1>1. DrawInv => KeysNotNewer
    BY DEF DrawInv
  <1> QED BY <1>1, DrawInitInv, DrawNextInv, PTL DEF DrawSpec

\* The keys of hosted documents are there until a run has written all its documents.
THEOREM HostedKeysKept == DrawSpec => KeptUntilDone
  <1>1. DrawInv /\ [DrawNext]_drawn =>
        [(\E a \in 1..Slots : hosted[a] # 0 /\ hosted[a] = keys /\ keys' # keys)
           => \A b \in 1..Slots : docs'[b] = run']_drawn
    <2> SUFFICES ASSUME DrawInv, DrawNext, keys' # keys
                 PROVE  \A b \in 1..Slots : docs'[b] = run'
      OBVIOUS
    <2> USE KeygenAssumption DEF DrawInv, KeysNotNewer, DrawTypeOK, Broken
    <2>1. CASE WriteKeys
      BY <2>1 DEF WriteKeys
    <2>2. CASE Cut
      BY <2>2 DEF Cut
    <2> QED BY <2>1, <2>2 DEF DrawNext, Begin, WriteDoc, Host
  <1> QED BY <1>1, DrawInitInv, DrawNextInv, PTL DEF DrawSpec, KeptUntilDone

-----------------------------------------------------------------------------
(* Monitor. *)

\* What an update of a line leaves alone.
LEMMA EntryFields ==
  ASSUME NEW x \in Entry
  PROVE  /\ x.id \in Ids
         /\ x.status \in {"stored", "acked", "expired"}
         /\ x.revealed \in BOOLEAN
         /\ \A s \in {"stored", "acked", "expired"} : [x EXCEPT !.status = s] \in Entry
         /\ [x EXCEPT !.revealed = TRUE] \in Entry
         /\ \A s \in {"stored", "acked", "expired"} :
              [x EXCEPT !.status = s].id = x.id /\ [x EXCEPT !.status = s].status = s
         /\ [x EXCEPT !.revealed = TRUE].id = x.id /\ [x EXCEPT !.revealed = TRUE].status = x.status
  BY DEF Entry

\* Updating lines in place keeps the buffer.
LEMMA MappedEntries ==
  ASSUME NEW s \in Seq(Entry), NEW t \in [DOMAIN s -> Entry]
  PROVE  t \in Seq(Entry) /\ Len(t) = Len(s)
  <1>1. DOMAIN s = 1..Len(s) /\ Len(s) \in Nat
    OBVIOUS
  <1> QED BY <1>1

\* The buffer with its oldest line dropped, if it was one too long.
LEMMA TrimmedEntries ==
  ASSUME NEW s \in Seq(Entry), Len(s) <= Cap + 1
  PROVE  LET t == Trimmed(s)
             d == Len(s) - Len(t) IN
         /\ t \in Seq(Entry) /\ Len(t) <= Cap
         /\ d \in Nat
         /\ s # <<>> => t # <<>> 
         /\ \A i \in DOMAIN t : i + d \in DOMAIN s /\ t[i] = s[i + d]
  <1> USE MonitorAssumption
  <1>1. CASE Len(s) <= Cap
    BY <1>1 DEF Trimmed
  <1>2. CASE Len(s) = Cap + 1
    <2>1. Trimmed(s) = SubSeq(s, 2, Len(s))
      BY <1>2 DEF Trimmed
    <2>2. SubSeq(s, 2, Len(s)) \in Seq(Entry) /\ Len(SubSeq(s, 2, Len(s))) = Cap
          /\ \A i \in 1..Cap : SubSeq(s, 2, Len(s))[i] = s[i + 1]
      BY <1>2
    <2>3. \A i \in 1..Cap : i + 1 \in DOMAIN s
      BY <1>2
    <2> QED BY <2>1, <2>2, <2>3, <1>2
  <1>3. Len(s) \in Nat
    OBVIOUS
  <1> QED BY <1>1, <1>2, <1>3

\* A reveal is in progress while the store has one, and none waits otherwise.
LEMMA SerializedInit == Init => Serialized
  <1> SUFFICES ASSUME Init PROVE Serialized
    OBVIOUS
  <1>1. /\ live \in BOOLEAN /\ held \subseteq Ids /\ arrivals \in Nat
        /\ entries \in Seq(Entry) /\ Len(entries) <= Cap /\ reveal = None
        /\ pick \in [Timers -> Ids \cup {"armed", "spent"}] /\ queue = <<>> /\ queue \in Seq(Ids)
        /\ shown = None /\ phase \in 0..Phases
    BY MonitorAssumption DEF Init
  <1>2. inProgress = FALSE /\ inProgress \in BOOLEAN
    BY DEF Init
  <1>3. played \in BOOLEAN
    BY DEF Init
  <1> QED BY <1>1, <1>2, <1>3 DEF Serialized, TypeOK

LEMMA SerializedNext == Serialized /\ [Next]_vars => Serialized'
  <1> SUFFICES ASSUME Serialized, [Next]_vars PROVE Serialized'
    OBVIOUS
  <1> USE MonitorAssumption DEF Serialized, TypeOK
  <1>0. ASSUME NEW i \in DOMAIN entries
        PROVE  /\ entries[i] \in Entry
               /\ \A s \in {"stored", "acked", "expired"} : [entries[i] EXCEPT !.status = s] \in Entry
               /\ [entries[i] EXCEPT !.revealed = TRUE] \in Entry
    <2>1. entries[i] \in Entry
      OBVIOUS
    <2> QED BY <2>1, EntryFields
  <1>1. ASSUME NEW e \in Ids, Received(e) PROVE Serialized'
    <2>1. [id |-> e, status |-> "stored", revealed |-> FALSE] \in Entry
      BY DEF Entry
    <2> DEFINE s == Append(entries, [id |-> e, status |-> "stored", revealed |-> FALSE])
    <2>2. s \in Seq(Entry) /\ Len(s) <= Cap + 1
      BY <2>1
    <2>3. entries' = Trimmed(s)
      BY <1>1 DEF Received
    <2> HIDE DEF s
    <2>4. entries' \in Seq(Entry) /\ Len(entries') <= Cap
      BY <2>2, <2>3, TrimmedEntries
    <2> QED BY <1>1, <2>4 DEF Received, Event, overlay
  <1>2. ASSUME NEW e \in Ids, Expired(e) PROVE Serialized'
    <2>1. entries' \in [DOMAIN entries -> Entry]
      BY <1>2, <1>0 DEF Expired
    <2>2. entries' \in Seq(Entry) /\ Len(entries') <= Cap
      BY <2>1, MappedEntries
    <2> QED BY <1>2, <2>2 DEF Expired, Event, overlay
  <1>3. ASSUME NEW ids \in SUBSET Ids, Dropped(ids) PROVE Serialized'
    <2>1. entries' \in [DOMAIN entries -> Entry]
      BY <1>3, <1>0 DEF Dropped, Acked
    <2>2. entries' \in Seq(Entry) /\ Len(entries') <= Cap
      BY <2>1, MappedEntries
    <2> QED BY <1>3, <2>2 DEF Dropped, Event, overlay
  <1>4. CASE Disconnect
    BY <1>4 DEF Disconnect, overlay
  <1>5. ASSUME NEW t \in Timers, Fire(t) PROVE Serialized'
    <2>1. \A i \in Candidates(t) : entries[i].id \in Ids
      BY EntryFields DEF Candidates
    <2>2. pick' \in [Timers -> Ids \cup {"armed", "spent"}]
      BY <1>5, <2>1 DEF Fire, Again
    <2> QED BY <1>5, <2>2 DEF Fire, stream, overlay
  <1>6. ASSUME NEW e \in Ids, StartReveal(e)
        PROVE  /\ reveal' = e /\ reveal' # None /\ played' \in BOOLEAN
               /\ entries' \in Seq(Entry) /\ Len(entries') <= Cap
    <2>1. entries' \in [DOMAIN entries -> Entry]
      BY <1>6, <1>0 DEF StartReveal, Stamped
    <2>2. entries' \in Seq(Entry) /\ Len(entries') <= Cap
      BY <2>1, MappedEntries
    <2>3. played' \in BOOLEAN
      BY <1>6 DEF StartReveal
    <2> QED BY <1>6, <2>2, <2>3 DEF StartReveal
  <1>7. ASSUME NEW t \in Timers, Decrypted(t) PROVE Serialized'
    <2> DEFINE q == Append(queue, pick[t])
    <2>1. q \in Seq(Ids) /\ q # <<>>
      BY <1>7 DEF Decrypted
    <2>2. /\ pick' \in [Timers -> Ids \cup {"armed", "spent"}]
          /\ PopQueue(q) /\ UNCHANGED <<live, held, arrivals, shown, phase>>
      BY <1>7 DEF Decrypted, Again, stream, overlay
    <2> HIDE DEF q
    <2>3. CASE inProgress
      BY <2>1, <2>2, <2>3 DEF PopQueue
    <2>4. CASE ~inProgress
      <3>1. queue' = Tail(q) /\ inProgress' = TRUE /\ StartReveal(Head(q))
        BY <2>1, <2>2, <2>4 DEF PopQueue
      <3>2. Head(q) \in Ids /\ Tail(q) \in Seq(Ids)
        BY <2>1
      <3>3. inProgress' \in BOOLEAN
        BY <3>1
      <3> QED BY <1>6, <2>2, <3>1, <3>2, <3>3
    <2> QED BY <2>3, <2>4
  <1>8. ASSUME NEW t \in Timers, Undecrypted(t) PROVE Serialized'
    BY <1>8 DEF Undecrypted, Again, stream, overlay
  <1>9. CASE Render
    <2>1. shown' \in Ids \cup {None} /\ phase' \in 0..Phases
      BY <1>9 DEF Render, Wanted
    <2>2. played' \in BOOLEAN
      BY <1>9 DEF Render
    <2> QED BY <1>9, <2>1, <2>2 DEF Render, stream
  <1>10. CASE Advance
    BY <1>10 DEF Advance, stream
  <1>11. CASE Done
    <2>1. EndReveal /\ UNCHANGED <<live, held, arrivals, pick, shown, phase>>
      BY <1>11 DEF Done, stream, overlay
    <2>2. CASE queue = <<>>
      BY <2>1, <2>2 DEF EndReveal
    <2>3. CASE queue # <<>>
      <3>1. queue' = Tail(queue) /\ StartReveal(Head(queue)) /\ UNCHANGED inProgress
        BY <2>1, <2>3 DEF EndReveal
      <3>2. Head(queue) \in Ids /\ Tail(queue) \in Seq(Ids)
        BY <2>3
      <3> QED BY <1>6, <2>1, <2>3, <3>1, <3>2
    <2> QED BY <2>2, <2>3
  <1>12. CASE UNCHANGED vars
    BY <1>12 DEF vars, stream, overlay
  <1> QED
    BY <1>1, <1>2, <1>3, <1>4, <1>5, <1>7, <1>8, <1>9, <1>10, <1>11, <1>12 DEF Next

\* No reveal is lost between the store and the orchestrator, for buffers of any size and
\* any number of timers and picks.
THEOREM RevealsSerialized == Spec => []Serialized
  BY SerializedInit, SerializedNext, PTL DEF Spec

\* StatusAgrees, for any lines and any contents of the relay.
Agree(s, h) ==
  \A i \in DOMAIN s :
    s[i].status = "stored" <=>
      /\ s[i].id \in h
      /\ \A j \in DOMAIN s : j > i => s[j].id # s[i].id

\* Dropping the oldest line disturbs nothing: whether a line is the last of its id
\* depends on later ones only.
LEMMA TrimmedAgree ==
  ASSUME NEW s \in Seq(Entry), Len(s) <= Cap + 1, NEW h, Agree(s, h)
  PROVE  Agree(Trimmed(s), h)
  <1> DEFINE t == Trimmed(s)
             d == Len(s) - Len(t)
  <1>1. /\ t \in Seq(Entry) /\ d \in Nat
        /\ \A i \in DOMAIN t : i + d \in DOMAIN s /\ t[i] = s[i + d]
    BY TrimmedEntries
  <1>2. Len(t) \in Nat /\ DOMAIN t = 1..Len(t) /\ Len(s) \in Nat /\ DOMAIN s = 1..Len(s)
    BY <1>1
  <1> HIDE DEF t
  <1>3. \A i \in DOMAIN t : \A j \in DOMAIN s : j > i + d => j - d \in DOMAIN t /\ j - d > i
    BY <1>1, <1>2
  <1>4. \A j \in DOMAIN s : (j - d) + d = j
    BY <1>1, <1>2
  <1>5. ASSUME NEW i \in DOMAIN t
        PROVE  (\A j \in DOMAIN t : j > i => t[j].id # t[i].id)
               <=> (\A j \in DOMAIN s : j > i + d => s[j].id # s[i + d].id)
    <2>1. ASSUME \A j \in DOMAIN t : j > i => t[j].id # t[i].id,
                 NEW j \in DOMAIN s, j > i + d
          PROVE  s[j].id # s[i + d].id
      BY <2>1, <1>1, <1>3, <1>4
    <2>2. ASSUME \A j \in DOMAIN s : j > i + d => s[j].id # s[i + d].id,
                 NEW j \in DOMAIN t, j > i
          PROVE  t[j].id # t[i].id
      <3>1. j + d > i + d
        BY <2>2, <1>1, <1>2
      <3> QED BY <2>2, <3>1, <1>1
    <2> QED BY <2>1, <2>2
  <1>6. Agree(t, h)
    <2> SUFFICES ASSUME NEW i \in DOMAIN t
                 PROVE  t[i].status = "stored" <=>
                          /\ t[i].id \in h
                          /\ \A j \in DOMAIN t : j > i => t[j].id # t[i].id
      BY DEF Agree
    <2>1. i + d \in DOMAIN s /\ t[i] = s[i + d]
      BY <1>1
    <2>2. s[i + d].status = "stored" <=>
            /\ s[i + d].id \in h
            /\ \A j \in DOMAIN s : j > i + d => s[j].id # s[i + d].id
      BY <2>1 DEF Agree
    <2> QED BY <2>1, <2>2, <1>5
  <1> QED BY <1>6 DEF t

LEMMA StatusInit == Init => StatusAgrees
  BY DEF Init, StatusAgrees

LEMMA StatusNext == Serialized /\ StatusAgrees /\ [Next]_vars => StatusAgrees'
  <1> SUFFICES ASSUME Serialized, StatusAgrees, [Next]_vars PROVE StatusAgrees'
    OBVIOUS
  <1>0. /\ entries \in Seq(Entry) /\ Len(entries) <= Cap
        /\ \A i \in DOMAIN entries : entries[i] \in Entry
    BY DEF Serialized, TypeOK
  <1>d. ASSUME NEW i \in DOMAIN entries
        PROVE  /\ \A s \in {"stored", "acked", "expired"} :
                    /\ [entries[i] EXCEPT !.status = s].id = entries[i].id
                    /\ [entries[i] EXCEPT !.status = s].status = s
               /\ [entries[i] EXCEPT !.revealed = TRUE].id = entries[i].id
               /\ [entries[i] EXCEPT !.revealed = TRUE].status = entries[i].status
    BY <1>0, EntryFields
  <1>a. ASSUME live PROVE Agree(entries, held)
    BY <1>a DEF StatusAgrees, Agree
  <1>b. ASSUME live' => Agree(entries', held') PROVE StatusAgrees'
    BY <1>b DEF StatusAgrees, Agree
  <1>c. ASSUME DOMAIN entries' = DOMAIN entries, UNCHANGED <<live, held>>,
               \A i \in DOMAIN entries : /\ entries'[i].id = entries[i].id
                                          /\ entries'[i].status = entries[i].status
        PROVE  StatusAgrees'
    BY <1>c DEF StatusAgrees
  <1>1. ASSUME NEW e \in Ids, Received(e) PROVE StatusAgrees'
    <2> DEFINE x == [id |-> e, status |-> "stored", revealed |-> FALSE]
               s == Append(entries, x)
    <2>1. x \in Entry /\ x.id = e /\ x.status = "stored"
      BY DEF Entry
    <2> HIDE DEF x
    <2>2. /\ s \in Seq(Entry) /\ Len(s) <= Cap + 1 /\ DOMAIN s = DOMAIN entries \cup {Len(entries) + 1}
          /\ \A i \in DOMAIN entries : s[i] = entries[i] /\ i < Len(entries) + 1
          /\ s[Len(entries) + 1] = x /\ Len(entries) + 1 \notin DOMAIN entries
          /\ \A j \in DOMAIN s : ~(j > Len(entries) + 1)
      BY <2>1, <1>0, MonitorAssumption
    <2> HIDE DEF s
    <2>3. live /\ e \notin held /\ held' = held \cup {e} /\ entries' = Trimmed(s)
      BY <1>1 DEF Received, Event, s, x
    <2>4. Agree(s, held')
      <3> SUFFICES ASSUME NEW i \in DOMAIN s
                   PROVE  s[i].status = "stored" <=>
                            /\ s[i].id \in held'
                            /\ \A j \in DOMAIN s : j > i => s[j].id # s[i].id
        BY DEF Agree
      <3>1. CASE i = Len(entries) + 1
        BY <3>1, <2>1, <2>2, <2>3
      <3>2. CASE i \in DOMAIN entries /\ entries[i].id = e
        <4>1. entries[i].status # "stored"
          BY <3>2, <2>3, <1>a DEF Agree
        <4>2. Len(entries) + 1 > i /\ s[Len(entries) + 1].id = s[i].id
          BY <3>2, <2>1, <2>2
        <4> QED BY <4>1, <4>2, <3>2, <2>2
      <3>3. CASE i \in DOMAIN entries /\ entries[i].id # e
        <4>1. s[i].status = "stored" <=> /\ s[i].id \in held
                                        /\ \A j \in DOMAIN entries : j > i => entries[j].id # s[i].id
          BY <3>3, <2>2, <2>3, <1>a DEF Agree
        <4> QED BY <4>1, <3>3, <2>1, <2>2, <2>3
      <3> QED BY <3>1, <3>2, <3>3, <2>2
    <2>5. Agree(entries', held')
      BY <2>2, <2>3, <2>4, TrimmedAgree
    <2> QED BY <2>5, <1>b
  <1>2. ASSUME NEW e \in Ids, Expired(e) PROVE StatusAgrees'
    <2>1. /\ live /\ held' = held \ {e} /\ DOMAIN entries' = DOMAIN entries
          /\ \A i \in DOMAIN entries :
               entries'[i] = IF entries[i].id = e THEN [entries[i] EXCEPT !.status = "expired"]
                                                  ELSE entries[i]
      BY <1>2 DEF Expired, Event
    <2>2. \A i \in DOMAIN entries :
            /\ entries'[i].id = entries[i].id
            /\ entries'[i].status = IF entries[i].id = e THEN "expired" ELSE entries[i].status
      BY <2>1, <1>d
    <2> QED BY <2>1, <2>2, <1>a, <1>b DEF Agree
  <1>3. ASSUME NEW ids \in SUBSET Ids, Dropped(ids) PROVE StatusAgrees'
    <2>1. /\ live /\ held' = held \ ids /\ DOMAIN entries' = DOMAIN entries
          /\ \A i \in DOMAIN entries :
               entries'[i] = IF entries[i].id \in ids /\ entries[i].status = "stored"
                             THEN [entries[i] EXCEPT !.status = "acked"] ELSE entries[i]
      BY <1>3 DEF Dropped, Acked, Event
    <2>2. \A i \in DOMAIN entries :
            /\ entries'[i].id = entries[i].id
            /\ entries'[i].status = IF entries[i].id \in ids /\ entries[i].status = "stored"
                                    THEN "acked" ELSE entries[i].status
      BY <2>1, <1>d
    <2> QED BY <2>1, <2>2, <1>a, <1>b DEF Agree
  <1>4. CASE Disconnect
    BY <1>4 DEF Disconnect, StatusAgrees
  <1>5. ASSUME NEW e, StartReveal(e)
        PROVE  /\ DOMAIN entries' = DOMAIN entries
               /\ \A i \in DOMAIN entries : /\ entries'[i].id = entries[i].id
                                            /\ entries'[i].status = entries[i].status
    <2>1. /\ DOMAIN entries' = DOMAIN entries
          /\ \A i \in DOMAIN entries : \/ entries'[i] = [entries[i] EXCEPT !.revealed = TRUE]
                                       \/ entries'[i] = entries[i]
      BY <1>5 DEF StartReveal, Stamped
    <2> QED BY <2>1, <1>d
  <1>6. ASSUME NEW t \in Timers, Decrypted(t) PROVE StatusAgrees'
    BY <1>6, <1>5, <1>c DEF Decrypted, PopQueue, stream
  <1>7. CASE Done
    BY <1>7, <1>5, <1>c DEF Done, EndReveal, stream
  <1>8. ASSUME UNCHANGED <<live, held, entries>> PROVE StatusAgrees'
    BY <1>8 DEF StatusAgrees
  <1> QED
    BY <1>1, <1>2, <1>3, <1>4, <1>6, <1>7, <1>8
    DEF Next, Fire, Undecrypted, Render, Advance, stream, vars

\* While the stream is open a line shows "stored" exactly when the relay holds its
\* envelope and no later line is of the same id.
THEOREM StatusesAgree == Spec => []StatusAgrees
  BY SerializedInit, SerializedNext, StatusInit, StatusNext, PTL DEF Spec

-----------------------------------------------------------------------------
(* Demo. *)

\* The relay has the first turns of each scenario, as many as it has stored, and each in
\* its line once.
DemoInv ==
  /\ DemoTypeOK
  /\ DOMAIN sent = DOMAIN Scenarios
  /\ DOMAIN exposed = DOMAIN Scenarios
  /\ DOMAIN log = {Pair(e) : e \in Envelopes}
  /\ Stored = {e \in Envelopes : e[2] <= sent[e[1]]}
  /\ main = "off" => \A s \in DOMAIN Scenarios : sent[s] = 0 /\ s \notin flying
  /\ main = "done" => \A s \in DOMAIN Scenarios : ~Left(s)
  /\ \A s \in flying : now >= Due(s)
  /\ \A e \in Stored :
       now >= startedAt + Offset(e)
  /\ \A p \in DOMAIN log : \A i, j \in DOMAIN log[p] : log[p][i] = log[p][j] => i = j

\* Turns are numbered from 1.
LEMMA EnvelopeFacts ==
  /\ \A s \in DOMAIN Scenarios : /\ Len(Scenarios[s].turns) \in Nat
                                 /\ DOMAIN Scenarios[s].turns = 1..Len(Scenarios[s].turns)
  /\ \A e : e \in Envelopes <=>
       \E s \in DOMAIN Scenarios : \E t \in 1..Len(Scenarios[s].turns) : e = <<s, t>>
  <1>1. \A s \in DOMAIN Scenarios : /\ Len(Scenarios[s].turns) \in Nat
                                 /\ DOMAIN Scenarios[s].turns = 1..Len(Scenarios[s].turns)
    BY DemoAssumption
  <1> QED BY <1>1 DEF Envelopes

\* Division keeps the order of numbers.
LEMMA Divided ==
  ASSUME NEW m \in Nat, NEW n \in Nat, m <= n, NEW d \in Nat \ {0}
  PROVE  m \div d \in Nat /\ m \div d <= n \div d
  <1>1. /\ m \div d \in Int /\ n \div d \in Int
        /\ m = d * (m \div d) + (m % d) /\ m % d \in 0..(d - 1)
        /\ n = d * (n \div d) + (n % d) /\ n % d \in 0..(d - 1)
    OBVIOUS
  <1> DEFINE a == m \div d
             b == n \div d
  <1>2. a \in Int /\ b \in Int /\ d * a <= d * b + (d - 1) /\ d * a > -d
    BY <1>1
  <1> HIDE DEF a, b
  <1>3. \A x \in Int : x >= 1 => d * x >= d
    OBVIOUS
  <1>4. \A x \in Int : x <= -1 => d * x <= -d
    OBVIOUS
  <1>5. a >= 0
    BY <1>2, <1>4
  <1>6. a - b \in Int /\ d * (a - b) = d * a - d * b
    BY <1>2
  <1>7. a <= b
    BY <1>2, <1>3, <1>6
  <1> QED BY <1>2, <1>5, <1>7 DEF a, b

\* Offsets are numbers, and no turn of a scenario comes before it starts.
LEMMA OffsetFacts ==
  /\ \A e \in Envelopes : Offset(e) \in Nat
  /\ \A s \in DOMAIN Scenarios : Units(Scenarios[s].start) \in Nat /\ Units(Scenarios[s].reveal) \in Nat
  /\ \A e \in Envelopes : e[1] \in DOMAIN Scenarios /\ Units(Scenarios[e[1]].start) <= Offset(e)
  <1>1. ASSUME NEW s \in DOMAIN Scenarios
        PROVE  Units(Scenarios[s].start) \in Nat /\ Units(Scenarios[s].reveal) \in Nat
    <2>1. Scenarios[s].start \in Nat /\ Scenarios[s].reveal \in Nat /\ Unit \in Nat \ {0}
      BY DemoAssumption
    <2> QED BY <2>1, Divided DEF Units
  <1>2. ASSUME NEW e \in Envelopes
        PROVE  /\ Offset(e) \in Nat /\ e[1] \in DOMAIN Scenarios
               /\ Units(Scenarios[e[1]].start) <= Offset(e)
    <2>1. PICK s \in DOMAIN Scenarios : \E k \in 1..Len(Scenarios[s].turns) : e = <<s, k>>
      BY EnvelopeFacts
    <2>2. PICK k \in 1..Len(Scenarios[s].turns) : e = <<s, k>>
      BY <2>1
    <2>3. Scenarios[s].start \in Nat /\ Scenarios[s].turns[k].at \in Nat /\ Unit \in Nat \ {0}
      <3>1. Scenarios[s].start \in Nat /\ Unit \in Nat \ {0}
            /\ Scenarios[s].turns \in Seq([role: {"A", "B"}, at: Nat])
        BY DemoAssumption
      <3>2. Scenarios[s].turns[k] \in [role: {"A", "B"}, at: Nat]
        BY <3>1, <2>2, ElementOfSeq
      <3> QED BY <3>1, <3>2
    <2> DEFINE m == Scenarios[s].start
               n == Scenarios[s].start + Scenarios[s].turns[k].at
    <2>4. m \in Nat /\ n \in Nat /\ m <= n
      BY <2>3
    <2>5. Offset(e) = Units(n) /\ Units(Scenarios[e[1]].start) = Units(m) /\ e[1] \in DOMAIN Scenarios
      BY <2>2 DEF Offset
    <2> HIDE DEF m, n
    <2>6. m \div Unit <= n \div Unit /\ n \div Unit \in Nat
      BY <2>3, <2>4, Divided
    <2> QED BY <2>5, <2>6 DEF Units
  <1> QED BY <1>1, <1>2

LEMMA DemoInitInv == DemoInit => DemoInv
  <1> SUFFICES ASSUME DemoInit PROVE DemoInv
    OBVIOUS
  <1> USE DemoAssumption, EnvelopeFacts DEF DemoInit
  <1>1. Stored = {}
    BY DEF Stored, ToSet
  <1>2. {e \in Envelopes : e[2] <= sent[e[1]]} = {}
    OBVIOUS
  <1>3. prompt \in BOOLEAN /\ broken \in BOOLEAN
    OBVIOUS
  <1>4. DemoTypeOK
    BY <1>3 DEF DemoTypeOK
  <1> QED BY <1>1, <1>2, <1>4 DEF DemoInv

LEMMA DemoInvInOrder == DemoInv => InOrder
  <1> SUFFICES ASSUME DemoInv PROVE InOrder
    OBVIOUS
  <1>1. ASSUME NEW e \in Stored
        PROVE  /\ now >= startedAt + Offset(e)
               /\ \A t \in 1..(e[2] - 1) : <<e[1], t>> \in Stored
               /\ \A i, j \in DOMAIN log[Pair(e)] : log[Pair(e)][i] = log[Pair(e)][j] => i = j
    <2>1. e \in Envelopes /\ e[2] <= sent[e[1]]
      BY DEF DemoInv
    <2>2. PICK s \in DOMAIN Scenarios : \E k \in 1..Len(Scenarios[s].turns) : e = <<s, k>>
      BY <2>1, EnvelopeFacts
    <2>3. ASSUME NEW t \in 1..(e[2] - 1) PROVE <<e[1], t>> \in Stored
      <3>1. t \in 1..Len(Scenarios[s].turns) /\ t <= sent[s]
        BY <2>1, <2>2, EnvelopeFacts DEF DemoInv, DemoTypeOK
      <3>2. <<s, t>> \in Envelopes
        BY <3>1, EnvelopeFacts
      <3> QED BY <2>2, <3>1, <3>2 DEF DemoInv
    <2>4. Pair(e) \in DOMAIN log
      BY <2>1 DEF DemoInv
    <2> QED BY <2>3, <2>4 DEF DemoInv
  <1>2. ASSUME main = "done" PROVE Stored = Envelopes
    <2>1. \A s \in DOMAIN Scenarios : sent[s] = Len(Scenarios[s].turns)
      BY <1>2, EnvelopeFacts DEF DemoInv, DemoTypeOK, Left
    <2>2. \A e \in Envelopes : e[2] <= sent[e[1]]
      BY <2>1, EnvelopeFacts
    <2> QED BY <2>2 DEF DemoInv
  <1> QED BY <1>1, <1>2 DEF InOrder, DemoInv

\* A line with one more envelope.
LEMMA LogGrows ==
  ASSUME NEW S, NEW line \in Seq(S), NEW e \in S
  PROVE  /\ Append(line, e) \in Seq(S)
         /\ ToSet(Append(line, e)) = ToSet(line) \cup {e}
         /\ (e \notin ToSet(line) /\ \A i, j \in DOMAIN line : line[i] = line[j] => i = j)
            => \A i, j \in DOMAIN Append(line, e) : Append(line, e)[i] = Append(line, e)[j] => i = j
  <1> DEFINE more == Append(line, e)
  <1>1. /\ more \in Seq(S) /\ DOMAIN more = DOMAIN line \cup {Len(line) + 1}
        /\ Len(line) + 1 \notin DOMAIN line
        /\ \A i \in DOMAIN line : more[i] = line[i]
        /\ more[Len(line) + 1] = e
    OBVIOUS
  <1> HIDE DEF more
  <1>2. ToSet(more) = ToSet(line) \cup {e}
    BY <1>1 DEF ToSet
  <1>3. ASSUME e \notin ToSet(line), \A i, j \in DOMAIN line : line[i] = line[j] => i = j
        PROVE  \A i, j \in DOMAIN more : more[i] = more[j] => i = j
    BY <1>1, <1>3 DEF ToSet
  <1> QED BY <1>1, <1>2, <1>3 DEF more

\* What stays true while the relay stores nothing, no turn ends and the clock does not
\* go back.
LEMMA LogKept ==
  ASSUME DemoInv, UNCHANGED <<sent, log, startedAt>>
  PROVE  /\ Stored' = Stored /\ \A s : Left(s)' = Left(s) /\ Due(s)' = Due(s)
         /\ DOMAIN sent' = DOMAIN Scenarios /\ DOMAIN log' = {Pair(e) : e \in Envelopes}
         /\ Stored' = {e \in Envelopes : e[2] <= sent'[e[1]]}
         /\ \A p \in DOMAIN log' : \A i, j \in DOMAIN log'[p] : log'[p][i] = log'[p][j] => i = j
  BY DEF DemoInv, Stored, Left, Due, Upcoming

LEMMA BootInv == DemoInv /\ Boot => DemoInv'
  <1> SUFFICES ASSUME DemoInv, Boot PROVE DemoInv'
    OBVIOUS
  <1>1. /\ main = "off" /\ main' = "ready" /\ startedAt' = now
        /\ UNCHANGED <<now, mode, sent, flying, log, watch, prompt, faults>>
    BY DEF Boot
  <1>2. Stored' = Stored
    BY <1>1 DEF Stored
  <1>3. Stored = {}
    BY <1>1, EnvelopeFacts DEF DemoInv
  <1>4. flying = {}
    BY <1>1 DEF DemoInv, DemoTypeOK
  <1>5. DemoTypeOK'
    BY <1>1, <1>2 DEF DemoInv, DemoTypeOK, watch
  <1> QED BY <1>1, <1>2, <1>3, <1>4, <1>5 DEF DemoInv, watch

LEMMA ArriveInv ==
  ASSUME DemoInv, NEW s \in DOMAIN Scenarios, main \in {"running", "failed", "stopped"}, Arrive(s)
  PROVE  DemoInv'
  <1> DEFINE e == Upcoming(s)
             p == Pair(e)
  <1>1. /\ s \in flying
        /\ log' = [log EXCEPT ![p] = Append(@, e)]
        /\ missed' \subseteq missed \cup {e}
        /\ sent' = [sent EXCEPT ![s] = @ + 1]
        /\ flying' = flying \ {s}
        /\ UNCHANGED <<now, mode, main, startedAt, monitor, broken, fired, exposed, unread, prompt, faults>>
    BY DEF Arrive
  <1>2. /\ sent[s] \in Nat /\ sent[s] + 1 \in 1..Len(Scenarios[s].turns)
        /\ e = <<s, sent[s] + 1>> /\ e \in Envelopes
    <2>1. sent[s] \in 0..Len(Scenarios[s].turns) /\ sent[s] < Len(Scenarios[s].turns)
      BY <1>1 DEF DemoInv, DemoTypeOK
    <2>2. sent[s] \in Nat /\ sent[s] + 1 \in 1..Len(Scenarios[s].turns)
      BY <2>1, EnvelopeFacts
    <2>3. e = <<s, sent[s] + 1>>
      BY DEF Upcoming
    <2> HIDE DEF e
    <2> QED BY <2>2, <2>3, EnvelopeFacts
  <1>3. now >= startedAt + Offset(e)
    BY <1>1, <1>2 DEF DemoInv, Due
  <1> DEFINE S == {x \in Envelopes : Pair(x) = p}
  <1>4. p \in DOMAIN log /\ log[p] \in Seq(S) /\ e \in S
    BY <1>2 DEF DemoInv, DemoTypeOK
  <1>5. e \notin Stored
    BY <1>2 DEF DemoInv
  <1> HIDE DEF e, p
  <1>6. /\ log'[p] = Append(log[p], e) /\ DOMAIN log' = DOMAIN log
        /\ \A q \in DOMAIN log : q # p => log'[q] = log[q]
    BY <1>1, <1>4
  <1>7. /\ log'[p] \in Seq(S) /\ ToSet(log'[p]) = ToSet(log[p]) \cup {e}
        /\ \A i, j \in DOMAIN log'[p] : log'[p][i] = log'[p][j] => i = j
    <2>1. e \notin ToSet(log[p])
      BY <1>4, <1>5 DEF Stored
    <2>2. \A i, j \in DOMAIN log[p] : log[p][i] = log[p][j] => i = j
      BY <1>4 DEF DemoInv
    <2> HIDE DEF S
    <2> QED BY <1>4, <1>6, <2>1, <2>2, LogGrows
  <1>8. Stored' = Stored \cup {e}
    <2>1. \A q \in DOMAIN log : q # p => ToSet(log'[q]) = ToSet(log[q])
      BY <1>6
    <2>2. Stored = UNION {ToSet(log[q]) : q \in DOMAIN log}
          /\ Stored' = UNION {ToSet(log'[q]) : q \in DOMAIN log}
      BY <1>6 DEF Stored
    <2> QED BY <2>1, <2>2, <1>4, <1>7
  <1>9. /\ DOMAIN sent' = DOMAIN Scenarios /\ sent'[s] = sent[s] + 1
        /\ \A r \in DOMAIN Scenarios : r # s => sent'[r] = sent[r]
    BY <1>1 DEF DemoInv
  <1>10. Stored' = {x \in Envelopes : x[2] <= sent'[x[1]]}
    <2>1. ASSUME NEW x \in Envelopes PROVE x \in Stored' <=> x[2] <= sent'[x[1]]
      <3>1. PICK r \in DOMAIN Scenarios : \E k \in 1..Len(Scenarios[r].turns) : x = <<r, k>>
        BY EnvelopeFacts
      <3>2. PICK k \in 1..Len(Scenarios[r].turns) : x = <<r, k>>
        BY <3>1
      <3>3. x \in Stored <=> k <= sent[r]
        BY <3>2 DEF DemoInv
      <3>4. CASE r = s
        BY <3>2, <3>3, <3>4, <1>2, <1>8, <1>9, EnvelopeFacts
      <3>5. CASE r # s
        BY <3>2, <3>3, <3>5, <1>2, <1>8, <1>9
      <3> QED BY <3>4, <3>5
    <2>2. Stored' \subseteq Envelopes
      BY <1>2, <1>8 DEF DemoInv
    <2> QED BY <2>1, <2>2
  <1>11. DemoTypeOK'
    <2>1. \A r \in DOMAIN Scenarios : sent'[r] \in 0..Len(Scenarios[r].turns)
      BY <1>2, <1>9, EnvelopeFacts DEF DemoInv, DemoTypeOK
    <2>2. flying' \subseteq {r \in DOMAIN Scenarios : sent'[r] < Len(Scenarios[r].turns)}
      BY <1>1, <1>9 DEF DemoInv, DemoTypeOK
    <2>3. ASSUME NEW q \in DOMAIN log' PROVE log'[q] \in Seq({x \in Envelopes : Pair(x) = q})
      <3>1. CASE q = p
        BY <3>1, <1>7
      <3>2. CASE q # p
        <4>1. q \in DOMAIN log /\ log'[q] = log[q]
          BY <3>2, <1>6
        <4>2. \A r \in DOMAIN log : log[r] \in Seq({x \in Envelopes : Pair(x) = r})
          BY DEF DemoInv, DemoTypeOK
        <4> QED BY <4>1, <4>2
      <3> QED BY <3>1, <3>2
    <2>4. missed' \subseteq Stored'
      BY <1>1, <1>8 DEF DemoInv, DemoTypeOK
    <2> QED BY <1>1, <2>1, <2>2, <2>3, <2>4 DEF DemoInv, DemoTypeOK
  <1>12. \A r \in flying' : now' >= Due(r)'
    BY <1>1, <1>9 DEF DemoInv, Due, Upcoming, DemoTypeOK
  <1>13. \A x \in Stored' :
           now' >= startedAt' + Offset(x)
    BY <1>1, <1>2, <1>3, <1>8 DEF DemoInv
  <1>14. \A q \in DOMAIN log' : \A i, j \in DOMAIN log'[q] : log'[q][i] = log'[q][j] => i = j
    BY <1>6, <1>7 DEF DemoInv
  <1> QED
    BY <1>1, <1>6, <1>9, <1>10, <1>11, <1>12, <1>13, <1>14 DEF DemoInv

LEMMA RevealInv == ASSUME DemoInv, NEW s \in DOMAIN Scenarios, Reveal(s) PROVE DemoInv'
  <1> DEFINE p == Pair(<<s, Scenarios[s].revealTurn>>)
             fresh == {i \in Seen(s) : \A r \in DOMAIN Scenarios : log[p][i] \notin exposed[r]}
             places == {i \in fresh : \A j \in fresh : j <= i}
  <1>1. Expose(s, places)
    BY DEF Reveal
  <1> DEFINE found == {log[p][i] : i \in places}
  <1>2. places \subseteq DOMAIN log[p]
    BY DEF Seen
  <1>3. p \in DOMAIN log
    <2>1. <<s, Scenarios[s].revealTurn>> \in Envelopes
      BY DemoAssumption DEF Envelopes
    <2> QED BY <2>1 DEF DemoInv
  <1> HIDE DEF places, fresh
  <1>4. /\ fired' = fired \cup {s} /\ (unread' = unread \/ unread' = unread \cup {s})
        /\ exposed' = [exposed EXCEPT ![s] = found] \/ exposed' = exposed
        /\ UNCHANGED <<now, mode, main, startedAt, sent, flying, log, monitor, broken, missed, prompt>>
    BY <1>1 DEF Expose, demo
  <1>8. faults' \in 0..Faults
    BY <1>1, DemoAssumption DEF Expose, Slip, DemoInv, DemoTypeOK
  <1> HIDE DEF p
  <1>5. found \subseteq Envelopes
    <2>1. log[p] \in Seq({e \in Envelopes : Pair(e) = p})
      BY <1>3 DEF DemoInv, DemoTypeOK
    <2>2. \A i \in DOMAIN log[p] : log[p][i] \in Envelopes
      BY <2>1
    <2> QED BY <1>2, <2>2
  <1>6. DOMAIN exposed' = DOMAIN Scenarios
        /\ \A r \in DOMAIN Scenarios : exposed'[r] \subseteq Envelopes
    <2> HIDE DEF found
    <2> QED BY <1>4, <1>5 DEF DemoInv, DemoTypeOK
  <1>7. DemoTypeOK'
    BY <1>4, <1>6, <1>8, LogKept DEF DemoInv, DemoTypeOK
  <1> QED BY <1>4, <1>6, <1>7, LogKept DEF DemoInv

LEMMA DemoNextInv == DemoInv /\ [DemoNext]_demoVars => DemoInv'
  <1> SUFFICES ASSUME DemoInv, [DemoNext]_demoVars PROVE DemoInv'
    OBVIOUS
  <1> USE DEF demo, watch
  <1>1. CASE Tick
    <2>1. now' = now + 1 /\ now' \in 0..MaxTime /\ main # "off"
          /\ UNCHANGED <<demo, log, watch, prompt, faults>>
      <3>1. now \in 0..MaxTime /\ MaxTime \in Nat
        BY DemoAssumption DEF DemoInv, DemoTypeOK
      <3>2. now' \in 0..MaxTime
        BY <1>1, <3>1 DEF Tick
      <3> QED BY <1>1, <3>2 DEF Tick
    <2>2. DemoTypeOK'
      BY <2>1, LogKept DEF DemoInv, DemoTypeOK
    <2>3. ASSUME NEW e \in Stored
          PROVE  now' >= startedAt + Offset(e)
      <3>1. now >= startedAt + Offset(e)
        BY DEF DemoInv
      <3>2. startedAt + Offset(e) \in Int
        BY OffsetFacts DEF DemoInv, DemoTypeOK
      <3> QED BY <2>1, <3>1, <3>2 DEF DemoInv, DemoTypeOK
    <2>4. now' \in Int /\ now \in Int /\ now <= now'
      BY <2>1, DemoAssumption DEF DemoInv, DemoTypeOK
    <2>5. ASSUME NEW s \in flying PROVE now' >= Due(s)
      <3>1. now >= Due(s)
        BY DEF DemoInv
      <3>2. Due(s) \in Int
        <4>1. /\ s \in DOMAIN Scenarios
              /\ sent[s] \in 0..Len(Scenarios[s].turns) /\ sent[s] < Len(Scenarios[s].turns)
          BY DEF DemoInv, DemoTypeOK
        <4>2. sent[s] + 1 \in 1..Len(Scenarios[s].turns)
          BY <4>1, EnvelopeFacts
        <4>3. Upcoming(s) \in Envelopes
          BY <4>1, <4>2, EnvelopeFacts DEF Upcoming
        <4>4. Offset(Upcoming(s)) \in Int /\ startedAt \in Int
          BY <4>3, OffsetFacts, DemoAssumption DEF DemoInv, DemoTypeOK
        <4> QED BY <4>4 DEF Due
      <3> QED BY <2>4, <3>1, <3>2
    <2> QED BY <2>1, <2>2, <2>3, <2>5, LogKept DEF DemoInv
  <1>2. CASE Boot
    BY <1>2, BootInv
  <1>3. CASE Enter
    <2>1. main' = "running" /\ UNCHANGED <<now, mode, startedAt, sent, flying, log, watch, faults>>
      BY <1>3 DEF Enter
    <2>2. prompt' \in BOOLEAN
      BY <1>3 DEF Enter
    <2>3. DemoTypeOK'
      BY <2>1, <2>2, LogKept DEF DemoInv, DemoTypeOK
    <2> QED BY <2>1, <2>3, LogKept DEF DemoInv
  <1>4. CASE Shutdown
    <2>1. main' = "stopped"
          /\ UNCHANGED <<now, mode, startedAt, sent, flying, log, watch, prompt, faults>>
      BY <1>4 DEF Shutdown
    <2>2. DemoTypeOK'
      BY <2>1, LogKept DEF DemoInv, DemoTypeOK
    <2> QED BY <2>1, <2>2, LogKept DEF DemoInv
  <1>5. CASE Complete
    <2>1. /\ main' = "done" /\ \A s \in DOMAIN Scenarios : ~Left(s)
          /\ UNCHANGED <<now, mode, startedAt, sent, flying, log, watch, prompt, faults>>
      BY <1>5 DEF Complete
    <2>2. DemoTypeOK'
      BY <2>1, LogKept DEF DemoInv, DemoTypeOK
    <2> QED BY <2>1, <2>2, LogKept DEF DemoInv
  <1>6. CASE Connect
    <2>1. /\ monitor' = now /\ missed' = Stored
          /\ UNCHANGED <<now, demo, log, broken, fired, exposed, unread, prompt, faults>>
      BY <1>6 DEF Connect
    <2>2. DemoTypeOK'
      BY <2>1, LogKept DEF DemoInv, DemoTypeOK
    <2> QED BY <2>1, <2>2, LogKept DEF DemoInv
  <1>7. ASSUME NEW s \in DOMAIN Scenarios, Send(s) PROVE DemoInv'
    <2>1. /\ main = "running" /\ Left(s) /\ now >= Due(s) /\ flying' = flying \cup {s}
          /\ UNCHANGED <<now, mode, main, startedAt, sent, log, watch, prompt, faults>>
      BY <1>7 DEF Send
    <2>2. flying' \subseteq {r \in DOMAIN Scenarios : sent[r] < Len(Scenarios[r].turns)}
      BY <2>1 DEF DemoInv, DemoTypeOK, Left
    <2>3. DemoTypeOK'
      BY <2>1, <2>2, LogKept DEF DemoInv, DemoTypeOK
    <2> QED BY <2>1, <2>3, LogKept DEF DemoInv
  <1>8. ASSUME NEW s \in DOMAIN Scenarios, Fail(s) PROVE DemoInv'
    <2>1. /\ main' = "failed" /\ faults' \in 0..Faults
          /\ UNCHANGED <<now, mode, startedAt, sent, flying, log, watch, prompt>>
      BY <1>8, DemoAssumption DEF Fail, Slip, DemoInv, DemoTypeOK
    <2>2. DemoTypeOK'
      BY <2>1, LogKept DEF DemoInv, DemoTypeOK
    <2> QED BY <2>1, <2>2, LogKept DEF DemoInv
  <1>9. CASE UNCHANGED demoVars
    <2>1. DemoTypeOK'
      BY <1>9, LogKept DEF demoVars, DemoInv, DemoTypeOK
    <2> QED BY <1>9, <2>1, LogKept DEF demoVars, DemoInv
  <1>10. CASE Sever
    <2>1. /\ broken' = TRUE
          /\ UNCHANGED <<now, demo, log, monitor, missed, fired, exposed, unread, prompt, faults>>
      BY <1>10 DEF Sever
    <2>2. DemoTypeOK'
      BY <2>1, LogKept DEF DemoInv, DemoTypeOK
    <2> QED BY <2>1, <2>2, LogKept DEF DemoInv
  <1>11. ASSUME NEW s \in DOMAIN Scenarios, Accept(s) \/ Late(s) PROVE DemoInv'
    <2>1. Arrive(s) /\ main \in {"running", "failed", "stopped"}
      BY <1>11 DEF Accept, Late
    <2> QED BY <2>1, ArriveInv
  <1> QED
    BY <1>1, <1>2, <1>3, <1>4, <1>5, <1>6, <1>7, <1>8, <1>9, <1>10, <1>11, RevealInv DEF DemoNext

\* A reply is at the relay only after what it answers, each turn at most once and none
\* before its offset, for any table of scenarios.
THEOREM TurnsInOrder == DemoSpec => []InOrder
  BY DemoInitInv, DemoNextInv, DemoInvInOrder, PTL DEF DemoSpec

-----------------------------------------------------------------------------
(* The reveals of an operator who is in time. *)

\* A nonempty set of numbers has a least one.
LEMMA LeastNumber ==
  ASSUME NEW T \in SUBSET Nat, T # {}
  PROVE  \E m \in T : \A n \in T : m <= n
  <1>1. \E m \in T : \A n \in T : ~ (<<n, m>> \in OpToRel(<, Nat))
    BY WFMin, NatLessThanWellFounded, Zenon
  <1>2. PICK m \in T : \A n \in T : ~ (<<n, m>> \in OpToRel(<, Nat))
    BY <1>1
  <1>3. \A n \in T : ~(n < m)
    BY <1>2 DEF OpToRel
  <1>4. \A n \in T : m <= n
    BY <1>3
  <1> QED BY <1>2, <1>4

LEMMA FirstDueFacts ==
  ASSUME DemoInv, NEW s \in DOMAIN Scenarios
  PROVE  /\ FirstDue \in Nat
         /\ \A r \in DOMAIN Scenarios : FirstDue <= startedAt + Units(Scenarios[r].start)
  <1> DEFINE T == {startedAt + Units(Scenarios[r].start) : r \in DOMAIN Scenarios}
  <1>1. startedAt \in Nat
    BY DemoAssumption DEF DemoInv, DemoTypeOK
  <1>2. T \in SUBSET Nat /\ startedAt + Units(Scenarios[s].start) \in T
    BY <1>1, OffsetFacts
  <1>3. \E m \in T : \A n \in T : m <= n
    BY <1>2, LeastNumber
  <1>4. FirstDue = Min(T)
    BY DEF FirstDue
  <1> HIDE DEF T
  <1>5. FirstDue \in T /\ \A n \in T : FirstDue <= n
    BY <1>3, <1>4 DEF Min
  <1>6. \A r \in DOMAIN Scenarios : startedAt + Units(Scenarios[r].start) \in T
    BY DEF T
  <1> QED BY <1>2, <1>5, <1>6

Playing == main \in {"running", "done"}

\* Reveals come when they are due.
TimerInv ==
  /\ main \in {"off", "ready"} => ~prompt
  /\ main = "off" => monitor = Off
  /\ monitor = Off => fired = {}
  /\ \A s \in DOMAIN Scenarios \ fired : exposed[s] = {}
  /\ \A s \in fired : now >= RevealDue(s)
  /\ monitor # Off => \A s \in DOMAIN Scenarios \ fired : now <= RevealDue(s)

\* If enter came in time, the relay has every envelope that was due before now, in the
\* order in which they were due.
LogInv ==
  /\ main \in {"off", "ready"} => \A p \in DOMAIN log : log[p] = <<>>
  /\ Playing /\ prompt =>
       /\ \A e \in Envelopes : startedAt + Offset(e) < now => e \in Stored
       /\ \A p \in DOMAIN log : \A i, j \in DOMAIN log[p] :
            Offset(log[p][i]) < Offset(log[p][j]) => i < j

\* And the reveals so far have shown their own envelopes.
OwnRevealsInv == DemoInv /\ TimerInv /\ LogInv /\ RevealsOwn

LEMMA OwnFacts ==
  ASSUME NEW s \in DOMAIN Scenarios
  PROVE  /\ Own(s) \in Envelopes
         /\ Offset(Own(s)) < Units(Scenarios[s].reveal)
         /\ \A e \in Envelopes : e # Own(s) /\ Pair(e) = Pair(Own(s)) =>
              \/ Offset(e) < Offset(Own(s))
              \/ \E r \in DOMAIN Scenarios :
                   Units(Scenarios[r].start) + Units(Scenarios[s].reveal) < Offset(e)
         /\ \A t \in DOMAIN Scenarios[s].turns : \A u \in DOMAIN Scenarios[s].turns :
              t <= u => Offset(<<s, t>>) <= Offset(<<s, u>>)
  <1>1. Own(s) \in Envelopes
    BY DemoAssumption DEF Own, Envelopes
  <1> QED BY <1>1, SpacingAssumption DEF Own

LEMMA OwnRevealsInit == DemoInit => OwnRevealsInv
  <1> SUFFICES ASSUME DemoInit PROVE OwnRevealsInv
    OBVIOUS
  <1>1. DemoInv
    BY DemoInitInv
  <1>2. TimerInv
    BY DEF DemoInit, TimerInv
  <1> QED BY <1>1, <1>2 DEF DemoInit, OwnRevealsInv, LogInv, RevealsOwn, Playing

\* Steps that fire nothing and leave the monitor and the start alone.
LEMMA TimerKept ==
  ASSUME DemoInv, TimerInv,
         UNCHANGED <<now, monitor, fired, exposed>>, 
         main' \in {"off", "ready"} => main' = main /\ prompt' = prompt,
         main' = "off" => main = "off"
  PROVE  TimerInv'
  BY DEF TimerInv, RevealDue

LEMMA TimerNext == DemoInv /\ TimerInv /\ [DemoNext]_demoVars => TimerInv'
  <1> SUFFICES ASSUME DemoInv, TimerInv, [DemoNext]_demoVars PROVE TimerInv'
    OBVIOUS
  <1> USE DEF demo, watch
  <1>0. /\ now \in Nat /\ now' \in Nat /\ monitor \in Int /\ Off \in Int /\ Off < 0
        /\ \A s \in DOMAIN Scenarios : Units(Scenarios[s].reveal) \in Nat
        /\ fired \subseteq DOMAIN Scenarios
    <2>1. DemoInv'
      BY DemoNextInv
    <2> QED BY <2>1, DemoAssumption, OffsetFacts DEF DemoInv, DemoTypeOK, Off
  <1>1. CASE Tick
    <2>1. /\ now' = now + 1 /\ UNCHANGED <<main, monitor, fired, exposed, prompt>>
          /\ monitor # Off => \A s \in DOMAIN Scenarios \ fired : now < RevealDue(s)
      BY <1>1 DEF Tick
    <2>2. \A s \in DOMAIN Scenarios : RevealDue(s) \in Int /\ RevealDue(s)' = RevealDue(s)
      BY <1>0, <2>1 DEF RevealDue
    <2> QED BY <1>0, <2>1, <2>2 DEF TimerInv
  <1>2. CASE Boot \/ Shutdown \/ Complete \/ Sever
    BY <1>2, TimerKept DEF Boot, Shutdown, Complete, Sever, TimerInv, RevealDue
  <1>3. CASE Enter
    BY <1>3, TimerKept DEF Enter
  <1>4. CASE Connect
    <2>1. /\ monitor = Off /\ monitor' = now /\ main # "off"
          /\ UNCHANGED <<now, main, fired, exposed, prompt>>
      BY <1>4 DEF Connect
    <2>2. \A s \in DOMAIN Scenarios : now <= RevealDue(s)'
      BY <1>0, <2>1 DEF RevealDue
    <2> QED BY <1>0, <2>1, <2>2 DEF TimerInv
  <1>5. ASSUME NEW s \in DOMAIN Scenarios, Send(s) \/ Accept(s) \/ Late(s) \/ Fail(s)
        PROVE  TimerInv'
    BY <1>5, TimerKept DEF Send, Accept, Late, Arrive, Fail
  <1>6. ASSUME NEW s \in DOMAIN Scenarios, Reveal(s) PROVE TimerInv'
    <2>1. (\E shows : exposed' = [exposed EXCEPT ![s] = shows]) \/ exposed' = exposed
      BY <1>6 DEF Reveal, Expose
    <2>2. /\ fired' = fired \cup {s} /\ now >= RevealDue(s) /\ monitor # Off
          /\ UNCHANGED <<now, main, monitor, prompt>>
      BY <1>6 DEF Reveal, Expose
    <2>3. ASSUME NEW r \in DOMAIN Scenarios, r # s PROVE exposed'[r] = exposed[r]
      <3>1. DOMAIN exposed = DOMAIN Scenarios
        BY DEF DemoInv
      <3>2. ASSUME NEW shows, exposed' = [exposed EXCEPT ![s] = shows]
            PROVE  exposed'[r] = exposed[r]
        BY <2>3, <3>1, <3>2
      <3> QED BY <2>1, <3>2
    <2> QED BY <2>2, <2>3 DEF TimerInv, RevealDue
  <1>7. CASE UNCHANGED demoVars
    BY <1>7, TimerKept DEF demoVars
  <1> QED BY <1>1, <1>2, <1>3, <1>4, <1>5, <1>6, <1>7 DEF DemoNext

\* Steps that store nothing.
LEMMA LinesKept ==
  ASSUME LogInv, UNCHANGED <<now, startedAt, log>>, Playing' /\ prompt' => Playing /\ prompt,
         main' \in {"off", "ready"} => main \in {"off", "ready"}
  PROVE  LogInv'
  <1>1. Stored' = Stored
    BY DEF Stored
  <1> QED BY <1>1 DEF LogInv

LEMMA LogNext == DemoInv /\ TimerInv /\ LogInv /\ [DemoNext]_demoVars => LogInv'
  <1> SUFFICES ASSUME DemoInv, TimerInv, LogInv, [DemoNext]_demoVars PROVE LogInv'
    OBVIOUS
  <1> USE DEF demo, watch
  <1>0. /\ now \in Nat /\ startedAt \in Nat
        /\ \A e \in Envelopes : Offset(e) \in Nat
    BY DemoAssumption, OffsetFacts DEF DemoInv, DemoTypeOK
  <1>1. CASE Tick
    <2>1. /\ now' = now + 1 /\ UNCHANGED <<main, startedAt, log, sent, prompt>>
          /\ (main = "running" => \A s \in DOMAIN Scenarios : Left(s) => now < Due(s))
      BY <1>1 DEF Tick
    <2>2. Stored' = Stored
      BY <2>1 DEF Stored
    <2>3. ASSUME Playing, NEW e \in Envelopes, e \notin Stored
          PROVE  now < startedAt + Offset(e)
      <3>1. PICK s \in DOMAIN Scenarios : \E k \in 1..Len(Scenarios[s].turns) : e = <<s, k>>
        BY EnvelopeFacts
      <3>2. PICK k \in 1..Len(Scenarios[s].turns) : e = <<s, k>>
        BY <3>1
      <3>3. sent[s] \in Nat /\ sent[s] < k /\ Len(Scenarios[s].turns) \in Nat
        BY <2>3, <3>2, EnvelopeFacts DEF DemoInv, DemoTypeOK
      <3>4. Left(s) /\ sent[s] + 1 \in 1..Len(Scenarios[s].turns) /\ sent[s] + 1 <= k
        BY <3>3 DEF Left
      <3>5. main = "running"
        BY <2>3, <3>4 DEF Playing, DemoInv
      <3>6. now < startedAt + Offset(<<s, sent[s] + 1>>)
        BY <2>1, <3>4, <3>5 DEF Due, Upcoming
      <3>7. Offset(<<s, sent[s] + 1>>) <= Offset(<<s, k>>)
        BY <3>4, OwnFacts, EnvelopeFacts
      <3>8. <<s, sent[s] + 1>> \in Envelopes
        BY <3>4, EnvelopeFacts
      <3>9. Offset(<<s, sent[s] + 1>>) \in Nat /\ Offset(e) \in Nat /\ e = <<s, k>>
        BY <1>0, <3>2, <3>8
      <3> QED BY <1>0, <3>6, <3>7, <3>9
    <2>4. ASSUME Playing, NEW e \in Envelopes, startedAt + Offset(e) < now'
          PROVE  e \in Stored
      <3>1. ~(now < startedAt + Offset(e))
        BY <1>0, <2>1, <2>4
      <3> QED BY <2>3, <2>4, <3>1
    <2> QED BY <2>1, <2>2, <2>4 DEF LogInv, Playing
  <1>2. CASE Boot \/ Shutdown \/ Connect \/ Sever
    <2>1. \/ main = "off" /\ main' = "ready" /\ UNCHANGED log
          \/ main' = "stopped"
          \/ UNCHANGED <<main, prompt, now, startedAt, log>>
      BY <1>2 DEF Boot, Shutdown, Connect, Sever
    <2> QED BY <2>1, LinesKept DEF LogInv, Playing
  <1>3. CASE Complete
    BY <1>3, LinesKept DEF Complete, Playing
  <1>4. CASE Enter
    <2>1. /\ main = "ready" /\ prompt' = (now <= FirstDue) /\ UNCHANGED <<now, startedAt, log>>
      BY <1>4 DEF Enter
    <2>2. ASSUME prompt', NEW e \in Envelopes PROVE ~(startedAt + Offset(e) < now)
      <3>1. e[1] \in DOMAIN Scenarios /\ Units(Scenarios[e[1]].start) <= Offset(e)
            /\ Units(Scenarios[e[1]].start) \in Nat
        BY OffsetFacts
      <3>2. FirstDue <= startedAt + Units(Scenarios[e[1]].start) /\ FirstDue \in Nat
        BY <3>1, FirstDueFacts
      <3>3. now <= FirstDue /\ Offset(e) \in Nat
        BY <1>0, <2>1, <2>2
      <3> QED BY <1>0, <3>1, <3>2, <3>3
    <2>3. /\ main' = "running" /\ \A p \in DOMAIN log : log[p] = <<>>
          /\ DOMAIN log' = DOMAIN log
      BY <1>4, <2>1 DEF Enter, LogInv
    <2> QED BY <2>1, <2>2, <2>3 DEF LogInv
  <1>5. ASSUME NEW s \in DOMAIN Scenarios, Send(s) \/ Reveal(s) PROVE LogInv'
    <2>1. UNCHANGED <<now, main, startedAt, log, prompt>>
      BY <1>5 DEF Send, Reveal, Expose
    <2> QED BY <2>1, LinesKept DEF Playing
  <1>6. ASSUME NEW s \in DOMAIN Scenarios, Fail(s) \/ Late(s) PROVE LogInv'
    <2>1. main' \in {"failed", "stopped"}
      BY <1>6 DEF Fail, Late, Arrive
    <2> QED BY <2>1 DEF LogInv, Playing
  <1>7. ASSUME NEW s \in DOMAIN Scenarios, Accept(s) PROVE LogInv'
    <2> DEFINE e == Upcoming(s)
               p == Pair(e)
    <2>1. /\ main = "running" /\ s \in flying /\ log' = [log EXCEPT ![p] = Append(@, e)]
          /\ UNCHANGED <<now, main, startedAt, prompt>>
      BY <1>7 DEF Accept, Arrive
    <2>2. /\ e \in Envelopes /\ e \notin Stored /\ p \in DOMAIN log
          /\ log[p] \in Seq(Envelopes)
      <3>1. sent[s] \in Nat /\ sent[s] + 1 \in 1..Len(Scenarios[s].turns)
        BY <2>1, EnvelopeFacts DEF DemoInv, DemoTypeOK
      <3>2. e = <<s, sent[s] + 1>> /\ e \in Envelopes
        BY <3>1, EnvelopeFacts DEF Upcoming
      <3> HIDE DEF e
      <3>3. e \notin Stored /\ p \in DOMAIN log
        BY <3>1, <3>2 DEF DemoInv
      <3>4. log[p] \in Seq({x \in Envelopes : Pair(x) = p})
        BY <3>3 DEF DemoInv, DemoTypeOK
      <3>5. log[p] \in Seq(Envelopes)
        BY <3>4
      <3> QED BY <3>2, <3>3, <3>5
    <2> HIDE DEF e, p
    <2>3. \A q \in DOMAIN log' : q # p => log'[q] = log[q]
      BY <2>1
    <2>4. DOMAIN log' = DOMAIN log /\ log'[p] = Append(log[p], e)
      BY <2>1, <2>2
    <2>5. Stored \subseteq Stored'
      <3>1. \A q \in DOMAIN log : ToSet(log[q]) \subseteq ToSet(log'[q])
        BY <2>2, <2>3, <2>4 DEF ToSet
      <3> QED BY <2>4, <3>1 DEF Stored
    <2> SUFFICES ASSUME Playing, prompt
                 PROVE  \A i, j \in DOMAIN log'[p] :
                          Offset(log'[p][i]) < Offset(log'[p][j]) => i < j
      BY <2>1, <2>3, <2>4, <2>5 DEF LogInv, Playing
    <2>6. /\ DOMAIN log[p] = 1..Len(log[p]) /\ Len(log[p]) \in Nat
          /\ DOMAIN log'[p] = 1..(Len(log[p]) + 1)
          /\ \A i \in 1..Len(log[p]) : log'[p][i] = log[p][i]
          /\ log'[p][Len(log[p]) + 1] = e
      BY <2>2, <2>4
    <2>7. ASSUME NEW i \in 1..Len(log[p]) PROVE ~(Offset(e) < Offset(log[p][i]))
      <3>1. log[p][i] \in Stored /\ log[p][i] \in Envelopes
        BY <2>2, <2>6 DEF Stored, ToSet
      <3>2. now >= startedAt + Offset(log[p][i])
        BY <3>1 DEF DemoInv
      <3>3. ~(startedAt + Offset(e) < now)
        BY <2>2 DEF LogInv
      <3>4. Offset(e) \in Nat /\ Offset(log[p][i]) \in Nat
        BY <1>0, <2>2, <3>1
      <3> QED BY <1>0, <3>2, <3>3, <3>4
    <2>8. \A i, j \in 1..Len(log[p]) : Offset(log[p][i]) < Offset(log[p][j]) => i < j
      BY <2>2, <2>6 DEF LogInv
    <2>9. ~(Offset(e) < Offset(e))
      BY <1>0, <2>2
    <2>10. ASSUME NEW i \in DOMAIN log'[p], NEW j \in DOMAIN log'[p],
                  Offset(log'[p][i]) < Offset(log'[p][j])
           PROVE  i < j
      <3>1. CASE i = Len(log[p]) + 1
        BY <2>6, <2>7, <2>9, <2>10, <3>1
      <3>2. CASE i # Len(log[p]) + 1 /\ j = Len(log[p]) + 1
        BY <2>6, <3>2
      <3>3. CASE i # Len(log[p]) + 1 /\ j # Len(log[p]) + 1
        <4>1. i \in 1..Len(log[p]) /\ j \in 1..Len(log[p])
          BY <2>6, <3>3
        <4> QED BY <2>6, <2>8, <2>10, <4>1
      <3> QED BY <3>1, <3>2, <3>3
    <2> QED BY <2>10
  <1>8. CASE UNCHANGED demoVars
    BY <1>8, LinesKept DEF demoVars, Playing
  <1> QED BY <1>1, <1>2, <1>3, <1>4, <1>5, <1>6, <1>7, <1>8 DEF DemoNext

LEMMA RevealsOwnNext ==
  ASSUME OwnRevealsInv, NEW s \in DOMAIN Scenarios, Reveal(s)
  PROVE  RevealsOwn'
  <1> DEFINE own == Own(s)
             p == Pair(own)
             fresh == {i \in Seen(s) : \A r \in DOMAIN Scenarios : log[p][i] \notin exposed[r]}
             places == {i \in fresh : \A j \in fresh : j <= i}
             found == {log[p][i] : i \in places}
  <1>0. /\ now \in Nat /\ startedAt \in Nat /\ monitor \in Int
        /\ \A e \in Envelopes : Offset(e) \in Nat
        /\ \A r \in DOMAIN Scenarios : Units(Scenarios[r].start) \in Nat /\ Units(Scenarios[r].reveal) \in Nat
    BY DemoAssumption, OffsetFacts DEF OwnRevealsInv, DemoInv, DemoTypeOK, Off
  <1>1. /\ monitor # Off /\ s \notin fired /\ now >= RevealDue(s) /\ fired' = fired \cup {s}
        /\ UNCHANGED <<now, mode, main, startedAt, log, monitor, missed, prompt>>
        /\ \/ exposed' = [exposed EXCEPT ![s] = found] /\ unread' = unread
           \/ exposed' = exposed /\ unread' = unread \cup {s}
    BY DEF Reveal, Expose, Own, demo
  <1> SUFFICES ASSUME InTime, Route = Listening, Playing
               PROVE  \A r \in fired' : Rightly(r)'
    BY <1>1 DEF RevealsOwn, InTime, Route, Listening, FirstDue, Playing
  <1>2. \A r \in fired : Rightly(r)
    BY DEF OwnRevealsInv, RevealsOwn, Playing
  <1>3. \A r \in DOMAIN Scenarios \ fired : exposed[r] = {}
    BY DEF OwnRevealsInv, TimerInv
  <1>4. Seen(s) = {i \in DOMAIN log[p] : log[p][i] \notin missed}
    BY DEF Seen, Own
  <1>5. /\ own \in Envelopes /\ Offset(own) < Units(Scenarios[s].reveal)
    BY OwnFacts
  <1>6. p \in DOMAIN log /\ log[p] \in Seq({x \in Envelopes : Pair(x) = p})
    BY <1>5 DEF OwnRevealsInv, DemoInv, DemoTypeOK
  <1>7. \A i \in DOMAIN log[p] : log[p][i] \in Envelopes /\ Pair(log[p][i]) = p /\ i \in Nat
    BY <1>6
  <1>15. fired \subseteq DOMAIN Scenarios /\ DOMAIN exposed = DOMAIN Scenarios
    BY DEF OwnRevealsInv, DemoInv, DemoTypeOK
  \* Its own envelope is there.
  <1>8. PICK k \in DOMAIN log[p] : log[p][k] = own
    <2>1. monitor >= startedAt /\ RevealDue(s) = monitor + Units(Scenarios[s].reveal)
      BY DemoAssumption DEF InTime, RevealDue, FirstDue
    <2>2. startedAt + Offset(own) < now
      BY <1>0, <1>1, <1>5, <2>1
    <2>3. own \in Stored
      BY <1>5, <2>2 DEF OwnRevealsInv, LogInv, InTime
    <2>4. PICK q \in DOMAIN log : own \in ToSet(log[q])
      BY <2>3 DEF Stored
    <2>5. log[q] \in Seq({x \in Envelopes : Pair(x) = q})
      BY DEF OwnRevealsInv, DemoInv, DemoTypeOK
    <2>6. PICK i \in DOMAIN log[q] : log[q][i] = own
      BY <2>4 DEF ToSet
    <2>7. q = p
      BY <2>5, <2>6
    <2> QED BY <2>6, <2>7
  \* No other entry has shown it: one that might is due after this one.
  <1>9. \A r \in DOMAIN Scenarios : own \notin exposed[r]
    <2>1. ASSUME NEW r \in fired, own \in exposed[r] PROVE FALSE
      <3>1. r \in DOMAIN Scenarios /\ own # Own(r)
        BY <1>1, <1>15 DEF Own
      <3>2. Pair(own) = Pair(Own(r)) /\ Offset(own) < Offset(Own(r))
        BY <1>2, <2>1, <3>1 DEF Rightly
      <3>3. Own(r) \in Envelopes /\ Offset(Own(r)) < Units(Scenarios[r].reveal)
        BY <3>1, OwnFacts
      <3>4. Offset(own) \in Nat /\ Offset(Own(r)) \in Nat
        BY <1>0, <1>5, <3>3
      <3>5. PICK q \in DOMAIN Scenarios :
              Units(Scenarios[q].start) + Units(Scenarios[s].reveal) < Offset(Own(r))
        BY <3>1, <3>2, <3>3, <3>4, OwnFacts
      <3>6. now >= monitor + Units(Scenarios[r].reveal) /\ now <= monitor + Units(Scenarios[s].reveal)
        BY <1>1 DEF OwnRevealsInv, TimerInv, RevealDue
      <3> HIDE DEF own
      <3> QED BY <1>0, <3>1, <3>3, <3>4, <3>5, <3>6
    <2> QED BY <1>3, <2>1
  \* What else is there of this sender and recipient was due before.
  <1>10. ASSUME NEW i \in DOMAIN log[p], log[p][i] # own
         PROVE  Offset(log[p][i]) < Offset(own)
    <2> DEFINE e == log[p][i]
    <2>1. e # own /\ e \in Envelopes /\ Pair(e) = p
      BY <1>7, <1>10
    <2>2. now >= startedAt + Offset(e)
      <3>1. e \in Stored
        BY <1>6 DEF Stored, ToSet
      <3> QED BY <3>1 DEF OwnRevealsInv, DemoInv
    <2> HIDE DEF e
    <2>3. ASSUME NEW r \in DOMAIN Scenarios,
                 Units(Scenarios[r].start) + Units(Scenarios[s].reveal) < Offset(e)
          PROVE  FALSE
      <3>1. now <= monitor + Units(Scenarios[s].reveal)
        BY <1>1 DEF OwnRevealsInv, TimerInv, RevealDue
      <3>2. monitor <= FirstDue /\ FirstDue \in Nat /\ FirstDue <= startedAt + Units(Scenarios[r].start)
        BY FirstDueFacts, <1>0 DEF OwnRevealsInv, InTime
      <3>3. Offset(e) \in Nat
        BY <1>0, <2>1
      <3> QED BY <1>0, <2>2, <2>3, <3>1, <3>2, <3>3
    <2>4. Offset(e) < Offset(own)
      BY <2>1, <2>3, OwnFacts
    <2> QED BY <2>4 DEF e
  <1>11. places \subseteq DOMAIN log[p] /\ places \subseteq fresh
    BY <1>4
  \* The latest that the monitor has seen is its own, if it has seen that one.
  <1>12. own \notin missed => found = {own}
    <2> SUFFICES ASSUME own \notin missed PROVE found = {own}
      OBVIOUS
    <2>1. k \in fresh
      BY <1>4, <1>8, <1>9
    <2>2. ASSUME NEW i \in DOMAIN log[p], i # k PROVE i < k
      <3>1. log[p][i] # own
        BY <1>6, <1>8, <2>2 DEF OwnRevealsInv, DemoInv
      <3>2. \A a, b \in DOMAIN log[p] : Offset(log[p][a]) < Offset(log[p][b]) => a < b
        BY <1>6 DEF OwnRevealsInv, LogInv, InTime
      <3> QED BY <1>8, <1>10, <3>1, <3>2
    <2>3. \A j \in fresh : j \in DOMAIN log[p]
      BY <1>4
    <2>4. k \in places
      <3>1. \A j \in fresh : j <= k
        BY <1>7, <1>8, <2>2, <2>3
      <3> QED BY <2>1, <3>1
    <2>5. ASSUME NEW i \in places PROVE i = k
      <3>1. i \in DOMAIN log[p] /\ k <= i
        BY <1>11, <2>1
      <3> QED BY <1>7, <1>8, <2>2, <3>1
    <2> HIDE DEF places
    <2> QED BY <1>8, <2>4, <2>5
  <1>13. \A e \in found \ {own} : Pair(e) = p /\ Offset(e) < Offset(own)
    BY <1>7, <1>10, <1>11
  <1>14. Rightly(s)'
    <2> HIDE DEF found, p
    <2>1. CASE exposed' = [exposed EXCEPT ![s] = found]
      <3>1. exposed'[s] = found
        BY <1>15, <2>1
      <3>2. Own(s) \in missed' \/ exposed'[s] = {Own(s)}
        BY <1>1, <1>12, <3>1
      <3>3. \A e \in exposed'[s] \ {Own(s)} : Pair(e) = Pair(Own(s)) /\ Offset(e) < Offset(Own(s))
        BY <1>13, <3>1 DEF p
      <3> QED BY <3>2, <3>3 DEF Rightly, OwnReveal
    <2>2. CASE exposed' = exposed /\ unread' = unread \cup {s}
      BY <1>1, <1>3, <2>2 DEF Rightly
    <2> QED BY <1>1, <2>1, <2>2
  <1>16. ASSUME NEW r \in fired PROVE Rightly(r)'
    <2>1. exposed'[r] = exposed[r] /\ missed' = missed /\ unread \subseteq unread'
      <3> HIDE DEF found
      <3> QED BY <1>1, <1>15
    <2>2. Rightly(r)
      BY <1>2
    <2> QED BY <2>1, <2>2 DEF Rightly, OwnReveal
  <1> HIDE DEF own
  <1> QED BY <1>1, <1>14, <1>16

LEMMA OwnRevealsNext == OwnRevealsInv /\ [DemoNext]_demoVars => OwnRevealsInv'
  <1> SUFFICES ASSUME OwnRevealsInv, [DemoNext]_demoVars PROVE OwnRevealsInv'
    OBVIOUS
  <1> USE DEF demo, watch
  <1>1. DemoInv' /\ TimerInv' /\ LogInv'
    BY DemoNextInv, TimerNext, LogNext DEF OwnRevealsInv
  <1>2. ASSUME UNCHANGED <<mode, startedAt, monitor, fired, exposed, unread>>,
               missed \subseteq missed',
               Playing' /\ prompt' => Playing /\ prompt
        PROVE  RevealsOwn'
    <2> SUFFICES ASSUME InTime', (Route = Listening)', Playing', NEW s \in fired' PROVE Rightly(s)'
      BY DEF RevealsOwn, Playing
    <2>1. InTime /\ Route = Listening /\ Playing /\ s \in fired
      BY <1>2 DEF InTime, Route, Listening, FirstDue
    <2>2. Rightly(s)
      BY <2>1 DEF OwnRevealsInv, RevealsOwn, Playing
    <2> QED BY <1>2, <2>2 DEF Rightly, OwnReveal
  <1>3. ASSUME Tick \/ Complete \/ Sever \/ UNCHANGED demoVars PROVE RevealsOwn'
    BY <1>2, <1>3 DEF Tick, Complete, Sever, Playing, demoVars
  <1>4. ASSUME Boot \/ Shutdown PROVE RevealsOwn'
    BY <1>4 DEF Boot, Shutdown, RevealsOwn
  <1>5. ASSUME NEW s \in DOMAIN Scenarios, Send(s) \/ Accept(s) \/ Late(s) \/ Fail(s)
        PROVE  RevealsOwn'
    <2>1. CASE Send(s) \/ Fail(s)
      BY <1>2, <2>1 DEF Send, Fail, Playing
    <2>2. CASE Accept(s) \/ Late(s)
      <3>1. missed \subseteq missed'
        BY <2>2 DEF Accept, Late, Arrive
      <3> QED BY <1>2, <2>2, <3>1 DEF Accept, Late, Arrive, Playing
    <2> QED BY <1>5, <2>1, <2>2
  \* Nothing can have been shown before the first turn is due.
  <1>6. ASSUME Enter PROVE RevealsOwn'
    <2>1. prompt' = (now <= FirstDue) /\ UNCHANGED <<now, mode, startedAt, monitor, fired, exposed>>
      BY <1>6 DEF Enter
    <2>2. ASSUME InTime', NEW s \in fired PROVE FALSE
      <3>1. s \in DOMAIN Scenarios /\ now \in Nat /\ startedAt \in Nat /\ monitor \in Int
        BY DemoAssumption DEF OwnRevealsInv, DemoInv, DemoTypeOK, Off
      <3>2. now >= monitor + Units(Scenarios[s].reveal)
        BY DEF OwnRevealsInv, TimerInv, RevealDue
      <3>3. monitor >= startedAt /\ now <= FirstDue
        <4>1. monitor' \in startedAt'..FirstDue' /\ prompt'
          BY <2>2 DEF InTime
        <4>2. FirstDue' = FirstDue
          BY <2>1 DEF FirstDue
        <4>3. FirstDue \in Nat
          BY <3>1, FirstDueFacts DEF OwnRevealsInv
        <4>4. monitor \in startedAt..FirstDue
          BY <2>1, <4>1, <4>2
        <4>5. now <= FirstDue
          BY <2>1, <4>1
        <4> QED BY <3>1, <4>3, <4>4, <4>5
      <3>4. FirstDue \in Nat /\ FirstDue <= startedAt + Units(Scenarios[s].start)
        BY <3>1, FirstDueFacts DEF OwnRevealsInv
      <3>5. Offset(Own(s)) < Units(Scenarios[s].reveal) /\ Offset(Own(s)) \in Nat
            /\ Units(Scenarios[s].start) <= Offset(Own(s)) /\ Units(Scenarios[s].start) \in Nat
            /\ Units(Scenarios[s].reveal) \in Nat
        <4>1. Own(s)[1] = s
          BY DEF Own
        <4> QED BY <3>1, <4>1, OwnFacts, OffsetFacts
      <3> QED BY <3>1, <3>2, <3>3, <3>4, <3>5
    <2> QED BY <2>1, <2>2 DEF RevealsOwn
  <1>7. ASSUME Connect PROVE RevealsOwn'
    <2>1. fired' = {}
      BY <1>7 DEF Connect, OwnRevealsInv, TimerInv
    <2> QED BY <2>1 DEF RevealsOwn
  <1>8. ASSUME NEW s \in DOMAIN Scenarios, Reveal(s) PROVE RevealsOwn'
    BY <1>8, RevealsOwnNext
  <1> QED
    BY <1>1, <1>3, <1>4, <1>5, <1>6, <1>7, <1>8 DEF DemoNext, OwnRevealsInv

\* When the monitor is connected before the first turn is due and enter comes before
\* that, a reveal shows the envelope of its own scenario, for any table that is spaced
\* as this one, unless that one came while no stream was open or is not decrypted; and
\* never an envelope of a later turn.
THEOREM RevealsShowTheirOwn == DemoSpec => []RevealsOwn
  <1>1. OwnRevealsInv => RevealsOwn
    BY DEF OwnRevealsInv
  <1> QED BY <1>1, OwnRevealsInit, OwnRevealsNext, PTL DEF DemoSpec

-----------------------------------------------------------------------------
(* The event stream. *)

\* A text tells of events: it is made of the frames that were written for them, in
\* their order, with comments between.  Least such relation, so that what holds of the
\* empty text and stays true when a frame is put in front holds of all.
Texts == Seq(Token) \X Seq(Events)
Frameable(R) ==
  /\ <<<<>>, <<>>>> \in R
  /\ \A t \in Seq(Token), s \in Seq(Events) : <<t, s>> \in R =>
       /\ <<CommentFrame \o t, s>> \in R
       /\ \A e \in Events : <<Written(e) \o t, <<e>> \o s>> \in R
Telling == {p \in Texts : \A R \in SUBSET Texts : Frameable(R) => p \in R}

LEMMA Appended == \A x, y, z \in Seq(Events) : (x \o y) \o z = x \o (y \o z)
  BY ConcatAssociative

LEMMA Joined == \A x, y, z \in Seq(Token) : (x \o y) \o z = x \o (y \o z)
  BY ConcatAssociative

LEMMA JoinedLength ==
  \A x, y \in Seq(Token) : x \o y \in Seq(Token) /\ Len(x \o y) = Len(x) + Len(y)
  BY ConcatProperties

LEMMA Slice ==
  ASSUME NEW S, NEW x \in Seq(S), NEW m \in 1..(Len(x) + 1), NEW n \in (m - 1)..Len(x)
  PROVE  /\ SubSeq(x, m, n) \in Seq(S) /\ Len(SubSeq(x, m, n)) = n - m + 1
         /\ \A i \in 1..(n - m + 1) : SubSeq(x, m, n)[i] = x[m + i - 1]
  <1>1. \A i \in m..n : i \in 1..Len(x)
    OBVIOUS
  <1>2. \A i \in m..n : x[i] \in S
    BY <1>1, ElementOfSeq
  <1>3. m \in Int /\ n \in Int /\ n - m + 1 = IF m <= n THEN n - m + 1 ELSE 0
    OBVIOUS
  <1> QED BY <1>2, <1>3, SubSeqProperties

LEMMA FrameFacts ==
  /\ CommentFrame \in Seq(Token) /\ Len(CommentFrame) = 3
  /\ CommentFrame[1] = Comment /\ CommentFrame[2] = LineEnd /\ CommentFrame[3] = LineEnd
  /\ Comment # LineEnd
  /\ \A e \in Events :
       LET w == Written(e)
       IN  /\ w \in Seq(Token) /\ Len(w) = 6
           /\ w[1] = <<"event: ", e>> /\ w[2] = LineEnd /\ w[3] = <<"data: {", e>>
           /\ w[4] = <<"}", e>> /\ w[5] = LineEnd /\ w[6] = LineEnd
           /\ w[1] # LineEnd /\ w[3] # LineEnd /\ w[4] # LineEnd
  <1>1. LineEnd \in Token /\ Comment \in Token
    BY DEF Token
  <1>2. Comment # LineEnd
    BY DEF Comment, LineEnd
  <1>3. ASSUME NEW e \in Events
        PROVE  /\ <<"event: ", e>> \in Token /\ <<"data: {", e>> \in Token
               /\ <<"}", e>> \in Token
    BY DEF Token
  <1>4. ASSUME NEW e \in Events, NEW x \in {"event: ", "data: {", "}"}
        PROVE  <<x, e>> # LineEnd
    BY DEF LineEnd
  <1>5. ASSUME NEW e \in Events
        PROVE  Written(e) \in Seq(Token) /\ Len(Written(e)) = 6
    <2> DEFINE a == <<"event: ", e>>
               b == <<"data: {", e>>
               d == <<"}", e>>
               l == LineEnd
    <2>1. a \in Token /\ b \in Token /\ d \in Token /\ l \in Token
      BY <1>1, <1>3
    <2>2. Written(e) = <<a, l, b, d, l, l>>
      BY DEF Written
    <2> HIDE DEF a, b, d, l
    <2> QED BY <2>1, <2>2
  <1>6. CommentFrame \in Seq(Token) /\ Len(CommentFrame) = 3
    BY <1>1 DEF CommentFrame
  <1> QED BY <1>2, <1>4, <1>5, <1>6 DEF CommentFrame, Written

LEMMA TellingFrameable == Frameable(Telling)
  <1>1. <<<<>>, <<>>>> \in Telling
    <2>1. <<<<>>, <<>>>> \in Texts
      BY EmptySeq DEF Texts
    <2> QED BY <2>1 DEF Telling, Frameable
  <1>2. ASSUME NEW t \in Seq(Token), NEW s \in Seq(Events), <<t, s>> \in Telling
        PROVE  /\ <<CommentFrame \o t, s>> \in Telling
               /\ \A e \in Events : <<Written(e) \o t, <<e>> \o s>> \in Telling
    <2>1. /\ <<CommentFrame \o t, s>> \in Texts
          /\ \A e \in Events : <<Written(e) \o t, <<e>> \o s>> \in Texts
      <3>1. CommentFrame \o t \in Seq(Token)
        BY FrameFacts, ConcatProperties
      <3>2. ASSUME NEW e \in Events
            PROVE  Written(e) \o t \in Seq(Token) /\ <<e>> \o s \in Seq(Events)
        <4>1. <<e>> \in Seq(Events)
          OBVIOUS
        <4>2. Written(e) \in Seq(Token)
          BY FrameFacts
        <4> QED BY <4>1, <4>2, ConcatProperties
      <3> QED BY <3>1, <3>2 DEF Texts
    <2>2. ASSUME NEW R \in SUBSET Texts, Frameable(R)
          PROVE  /\ <<CommentFrame \o t, s>> \in R
                 /\ \A e \in Events : <<Written(e) \o t, <<e>> \o s>> \in R
      <3>1. <<t, s>> \in R
        BY <1>2, <2>2 DEF Telling
      <3> QED BY <2>2, <3>1 DEF Frameable
    <2> QED BY <2>1, <2>2 DEF Telling
  <1> QED BY <1>1, <1>2 DEF Frameable

LEMMA TellingLeast ==
  ASSUME NEW R \in SUBSET Texts, Frameable(R)
  PROVE  Telling \subseteq R
  BY DEF Telling

\* Such a text is empty or begins with a frame.
LEMMA FirstFrame ==
  ASSUME NEW t \in Seq(Token), NEW s \in Seq(Events), <<t, s>> \in Telling
  PROVE  \/ t = <<>> /\ s = <<>>
         \/ \E u \in Seq(Token) : <<u, s>> \in Telling /\ t = CommentFrame \o u
         \/ \E u \in Seq(Token), v \in Seq(Events), e \in Events :
              <<u, v>> \in Telling /\ t = Written(e) \o u /\ s = <<e>> \o v
  <1> DEFINE P(x, y) ==
               \/ x = <<>> /\ y = <<>>
               \/ \E u \in Seq(Token) : <<u, y>> \in Telling /\ x = CommentFrame \o u
               \/ \E u \in Seq(Token), v \in Seq(Events), e \in Events :
                    <<u, v>> \in Telling /\ x = Written(e) \o u /\ y = <<e>> \o v
             R == {p \in Telling : P(p[1], p[2])}
  <1>1. <<<<>>, <<>>>> \in R
    BY TellingFrameable DEF Frameable
  <1>2. ASSUME NEW x \in Seq(Token), NEW y \in Seq(Events), <<x, y>> \in R
        PROVE  /\ <<CommentFrame \o x, y>> \in R
               /\ \A e \in Events : <<Written(e) \o x, <<e>> \o y>> \in R
    <2>1. <<x, y>> \in Telling
      BY <1>2
    <2>2. /\ <<CommentFrame \o x, y>> \in Telling
          /\ \A e \in Events : <<Written(e) \o x, <<e>> \o y>> \in Telling
      BY <2>1, TellingFrameable DEF Frameable
    <2>3. P(CommentFrame \o x, y) /\ \A e \in Events : P(Written(e) \o x, <<e>> \o y)
      BY <2>1
    <2> HIDE DEF P
    <2> QED BY <2>2, <2>3
  <1> HIDE DEF P
  <1>3. R \in SUBSET Texts /\ Frameable(R)
    BY <1>1, <1>2 DEF Telling, Frameable
  <1>4. <<t, s>> \in R
    BY <1>3, TellingLeast
  <1>5. P(t, s)
    BY <1>4
  <1> QED BY <1>5 DEF P

\* And another frame may follow it.
LEMMA FrameFollows ==
  ASSUME NEW t \in Seq(Token), NEW s \in Seq(Events), <<t, s>> \in Telling
  PROVE  /\ <<t \o CommentFrame, s>> \in Telling
         /\ \A e \in Events : <<t \o Written(e), s \o <<e>>>> \in Telling
  <1> DEFINE P(x, y) == /\ <<x \o CommentFrame, y>> \in Telling
                        /\ \A e \in Events : <<x \o Written(e), y \o <<e>>>> \in Telling
             R == {p \in Telling : P(p[1], p[2])}
  <1>1. <<<<>>, <<>>>> \in R
    <2>1. <<<<>>, <<>>>> \in Telling
      BY TellingFrameable DEF Frameable
    <2>2. /\ <<CommentFrame \o <<>>, <<>>>> \in Telling
          /\ \A e \in Events : <<Written(e) \o <<>>, <<e>> \o <<>>>> \in Telling
      BY <2>1, TellingFrameable, EmptySeq DEF Frameable
    <2>3. /\ CommentFrame \o <<>> = <<>> \o CommentFrame
          /\ \A e \in Events : /\ Written(e) \o <<>> = <<>> \o Written(e)
                               /\ <<e>> \o <<>> = <<>> \o <<e>>
      <3>1. CommentFrame \o <<>> = <<>> \o CommentFrame
        BY FrameFacts, ConcatEmptySeq
      <3>2. ASSUME NEW e \in Events
            PROVE  Written(e) \o <<>> = <<>> \o Written(e) /\ <<e>> \o <<>> = <<>> \o <<e>>
        <4>1. <<e>> \in Seq(Events)
          OBVIOUS
        <4> QED BY <4>1, FrameFacts, ConcatEmptySeq
      <3> QED BY <3>1, <3>2
    <2>4. P(<<>>, <<>>)
      BY <2>2, <2>3
    <2> HIDE DEF P
    <2> QED BY <2>1, <2>4
  <1>2. ASSUME NEW x \in Seq(Token), NEW y \in Seq(Events), <<x, y>> \in R
        PROVE  /\ <<CommentFrame \o x, y>> \in R
               /\ \A e \in Events : <<Written(e) \o x, <<e>> \o y>> \in R
    <2>1. <<x, y>> \in Telling /\ P(x, y)
      BY <1>2
    <2>2. /\ <<CommentFrame \o x, y>> \in Telling
          /\ \A e \in Events : <<Written(e) \o x, <<e>> \o y>> \in Telling
      BY <2>1, TellingFrameable DEF Frameable
    <2>3. ASSUME NEW f \in Seq(Token), NEW z \in Seq(Token)
          PROVE  (f \o x) \o z = f \o (x \o z) /\ x \o z \in Seq(Token)
      <3> HIDE DEF P
      <3>1. (f \o x) \o z = f \o (x \o z)
        BY Joined
      <3>2. x \o z \in Seq(Token)
        BY JoinedLength
      <3> QED BY <3>1, <3>2
    <2>4. ASSUME NEW e \in Events, NEW d \in Events
          PROVE  (<<e>> \o y) \o <<d>> = <<e>> \o (y \o <<d>>) /\ y \o <<d>> \in Seq(Events)
      BY ConcatAssociative
    <2>5. P(CommentFrame \o x, y)
      <3>1. <<CommentFrame \o (x \o CommentFrame), y>> \in Telling
        BY <2>1, <2>3, FrameFacts, TellingFrameable DEF Frameable
      <3>2. ASSUME NEW e \in Events
            PROVE  <<CommentFrame \o (x \o Written(e)), y \o <<e>>>> \in Telling
        BY <2>1, <2>3, <2>4, FrameFacts, TellingFrameable DEF Frameable
      <3> QED BY <2>3, <3>1, <3>2, FrameFacts
    <2>6. ASSUME NEW e \in Events PROVE P(Written(e) \o x, <<e>> \o y)
      <3>1. <<Written(e) \o (x \o CommentFrame), <<e>> \o y>> \in Telling
        BY <2>1, <2>3, FrameFacts, TellingFrameable DEF Frameable
      <3>2. ASSUME NEW d \in Events
            PROVE  <<Written(e) \o (x \o Written(d)), <<e>> \o (y \o <<d>>)>> \in Telling
        BY <2>1, <2>3, <2>4, FrameFacts, TellingFrameable DEF Frameable
      <3> QED BY <2>3, <2>4, <3>1, <3>2, FrameFacts
    <2> HIDE DEF P
    <2> QED BY <2>2, <2>5, <2>6
  <1> HIDE DEF P
  <1>3. R \in SUBSET Texts /\ Frameable(R)
    BY <1>1, <1>2 DEF Telling, Frameable
  <1>4. <<t, s>> \in R
    BY <1>3, TellingLeast
  <1>5. P(t, s)
    BY <1>4
  <1> QED BY <1>5 DEF P

-----------------------------------------------------------------------------
\* Where frames end.
EmptyLine(text, i) == text[i] = LineEnd /\ text[i + 1] = LineEnd

LEMMA FrameEndFacts ==
  ASSUME NEW text \in Seq(Token), NEW from \in 1..(Len(text) + 1)
  PROVE  /\ FrameEnd(text, from) # 0 =>
              /\ FrameEnd(text, from) \in from..(Len(text) - 1)
              /\ EmptyLine(text, FrameEnd(text, from))
         /\ \A i \in from..(Len(text) - 1) : EmptyLine(text, i) =>
              FrameEnd(text, from) # 0 /\ FrameEnd(text, from) <= i
  <1> DEFINE ends == {i \in from..(Len(text) - 1) : text[i] = LineEnd /\ text[i + 1] = LineEnd}
  <1>1. FrameEnd(text, from) = IF ends = {} THEN 0 ELSE Min(ends)
    BY DEF FrameEnd
  <1>2. ends \in SUBSET Nat /\ 0 \notin ends
    OBVIOUS
  <1>3. CASE ends = {}
    BY <1>1, <1>3 DEF EmptyLine
  <1>4. CASE ends # {}
    <2>1. \E m \in ends : \A n \in ends : m <= n
      BY <1>2, <1>4, LeastNumber
    <2> HIDE DEF ends
    <2>2. Min(ends) \in ends /\ \A n \in ends : Min(ends) <= n
      BY <2>1 DEF Min
    <2> USE DEF ends
    <2>3. FrameEnd(text, from) \in ends /\ \A n \in ends : FrameEnd(text, from) <= n
      BY <1>1, <1>4, <2>2
    <2> QED BY <1>2, <2>3 DEF EmptyLine
  <1> QED BY <1>3, <1>4

\* The recursive function of the inner loop is there for every text: at each position it
\* is one turn of the loop, and then what it is where that turn left off.
LEMMA DrainedFacts ==
  ASSUME NEW text \in Seq(Token)
  PROVE  \E loop :
           /\ Drained(text) = loop[1]
           /\ \A from \in 1..(Len(text) + 1) :
                LET idx == FrameEnd(text, from)
                IN  /\ idx = 0 =>
                         loop[from] = [calls |-> <<>>, rest |-> SubSeq(text, from, Len(text))]
                    /\ idx # 0 =>
                         loop[from] = [calls |-> Told(SubSeq(text, from, idx - 1)) \o loop[idx + 2].calls,
                                       rest |-> loop[idx + 2].rest]
  <1> DEFINE end == Len(text) + 1
             Turn(loop, from) ==
               LET idx == FrameEnd(text, from)
               IN  IF idx = 0
                   THEN [calls |-> <<>>, rest |-> SubSeq(text, from, Len(text))]
                   ELSE [calls |-> Told(SubSeq(text, from, idx - 1)) \o loop[idx + 2].calls,
                         rest |-> loop[idx + 2].rest]
             Whole(g, n) == \A from \in (end + 1 - n)..end : g[from] = Turn(g, from)
  <1>1. end \in Nat \ {0}
    OBVIOUS
  <1>2. ASSUME NEW g, NEW h, NEW from \in 1..end,
               \A k \in (from + 1)..end : g[k] = h[k]
        PROVE  Turn(g, from) = Turn(h, from)
    <2>1. CASE FrameEnd(text, from) = 0
      BY <2>1
    <2>2. CASE FrameEnd(text, from) # 0
      <3>1. FrameEnd(text, from) + 2 \in (from + 1)..end
        BY <2>2, FrameEndFacts
      <3>2. g[FrameEnd(text, from) + 2] = h[FrameEnd(text, from) + 2]
        BY <1>2, <3>1
      <3> QED BY <3>2
    <2> QED BY <2>1, <2>2
  <1> HIDE DEF Turn
  <1>3. \A n \in 0..end : \E g : Whole(g, n)
    <2> DEFINE Bad == {n \in 0..end : ~\E g : Whole(g, n)}
    <2> SUFFICES ASSUME Bad # {} PROVE FALSE
      OBVIOUS
    <2>1. Bad \in SUBSET Nat
      BY <1>1
    <2>2. PICK n \in Bad : \A m \in Bad : n <= m
      BY <2>1, LeastNumber
    <2>3. Whole(<<>>, 0)
      BY <1>1
    <2>4. n \in 0..end /\ ~\E g : Whole(g, n)
      BY <2>2
    <2>5. PICK g : Whole(g, n - 1)
      <3>1. n # 0
        BY <2>3, <2>4
      <3>2. n - 1 \in 0..end /\ ~(n <= n - 1)
        BY <1>1, <2>4, <3>1
      <3> QED BY <2>2, <3>2
    <2> DEFINE x == end + 1 - n
               h == [k \in 1..end |-> IF k = x THEN Turn(g, x) ELSE g[k]]
    <2>6. x \in 1..end
      <3>1. n # 0
        BY <2>3, <2>4
      <3> QED BY <1>1, <2>4, <3>1
    <2>7. \A k \in (x + 1)..end : h[k] = g[k] /\ h[k] = Turn(g, k) /\ k \in 1..end
      <3> SUFFICES ASSUME NEW k \in (x + 1)..end
                   PROVE  h[k] = g[k] /\ g[k] = Turn(g, k) /\ k \in 1..end
        OBVIOUS
      <3>1. k \in 1..end /\ k # x /\ k \in (end + 1 - (n - 1))..end
        BY <1>1, <2>4, <2>6
      <3>2. g[k] = Turn(g, k)
        BY <2>5, <3>1
      <3> QED BY <3>1, <3>2
    <2>8. \A k \in x..end : Turn(h, k) = Turn(g, k)
      <3> SUFFICES ASSUME NEW k \in x..end PROVE Turn(h, k) = Turn(g, k)
        OBVIOUS
      <3>1. k \in 1..end /\ \A j \in (k + 1)..end : j \in (x + 1)..end
        BY <1>1, <2>6
      <3>2. \A j \in (k + 1)..end : h[j] = g[j]
        BY <2>7, <3>1
      <3> HIDE DEF h
      <3> QED BY <1>2, <3>1, <3>2
    <2>9. h[x] = Turn(g, x)
      BY <2>6
    <2>10. \A k \in x..end : h[k] = Turn(h, k)
      <3> SUFFICES ASSUME NEW k \in x..end PROVE h[k] = Turn(h, k)
        OBVIOUS
      <3>1. k = x \/ k \in (x + 1)..end
        BY <1>1, <2>6
      <3> HIDE DEF h
      <3> QED BY <2>7, <2>8, <2>9, <3>1
    <2> HIDE DEF h
    <2>11. Whole(h, n)
      BY <2>10
    <2> QED BY <2>4, <2>11
  <1>4. PICK g : Whole(g, end)
    BY <1>1, <1>3
  <1> DEFINE G == [from \in 1..end |-> g[from]]
  <1>5. G = [from \in 1..end |-> Turn(G, from)]
    <2> SUFFICES ASSUME NEW from \in 1..end PROVE G[from] = Turn(G, from)
      OBVIOUS
    <2>1. \A k \in (from + 1)..end : G[k] = g[k]
      BY <1>1
    <2>2. G[from] = Turn(g, from)
      BY <1>1, <1>4
    <2> HIDE DEF G
    <2> QED BY <1>2, <2>1, <2>2
  <1> DEFINE D == CHOOSE d : d = [from \in 1..end |-> Turn(d, from)]
  <1>6. D = [from \in 1..end |-> Turn(D, from)]
    <2> HIDE DEF G
    <2> QED BY <1>5
  <1>7. Drained(text) = D[1]
    BY DEF Drained, Turn
  <1> HIDE DEF D
  <1>8. \A from \in 1..end : D[from] = Turn(D, from)
    BY <1>6
  <1> QED BY <1>7, <1>8 DEF Turn

\* What the two kinds of frame tell.
LEMMA ToldFacts ==
  ASSUME NEW frame \in Seq(Token)
  PROVE  /\ Len(frame) = 1 => Told(frame) = <<>>
         /\ \A e \in Events :
              /\ Len(frame) = 4
              /\ frame[1] = <<"event: ", e>> /\ frame[2] = LineEnd
              /\ frame[3] = <<"data: {", e>> /\ frame[4] = <<"}", e>>
              => Told(frame) = <<e>>
  <1> DEFINE told == {e \in Events : \E i \in 1..(Len(frame) - 1) :
                        frame[i] = <<"data: {", e>> /\ frame[i + 1] = <<"}", e>>}
  <1>1. Told(frame) = IF told = {} THEN <<>> ELSE <<CHOOSE e \in told : TRUE>>
    BY DEF Told
  <1>2. ASSUME Len(frame) = 1 PROVE told = {}
    BY <1>2
  <1>3. ASSUME NEW e \in Events, Len(frame) = 4,
               frame[1] = <<"event: ", e>>, frame[2] = LineEnd,
               frame[3] = <<"data: {", e>>, frame[4] = <<"}", e>>
        PROVE  told = {e}
    <2> DEFINE a == <<"event: ", e>>
               d(x) == <<"data: {", x>>
               z(x) == <<"}", x>>
    <2>1. Len(frame) = 4
      BY <1>3
    <2>2. frame[1] = a /\ frame[2] = LineEnd /\ frame[3] = d(e) /\ frame[4] = z(e)
      BY <1>3
    <2>3. \A x \in Events : d(x) # a /\ d(x) # LineEnd /\ (d(x) = d(e) => x = e)
      BY DEF LineEnd
    <2>4. \A x \in Events : x \in told <=>
            \E i \in 1..(Len(frame) - 1) : frame[i] = d(x) /\ frame[i + 1] = z(x)
      OBVIOUS
    <2>5. told \subseteq Events
      OBVIOUS
    <2> HIDE DEF a, d, z, told
    <2>6. e \in told
      <3>1. 3 \in 1..(Len(frame) - 1) /\ 3 + 1 = 4
        BY <2>1
      <3> QED BY <2>2, <2>4, <3>1
    <2>7. ASSUME NEW x \in told PROVE x = e
      <3>1. PICK i \in 1..(Len(frame) - 1) : frame[i] = d(x)
        BY <2>4, <2>5
      <3>2. i = 1 \/ i = 2 \/ i = 3
        BY <2>1
      <3> QED BY <2>2, <2>3, <2>5, <3>1, <3>2
    <2> QED BY <2>6, <2>7
  <1> HIDE DEF told
  <1> QED BY <1>1, <1>2, <1>3

\* What the inner loop makes of a text that has come up to m: it calls onEvent with the
\* first events, and what it has not used tells, with what is still to come, of the
\* others.
Heard(drained, T, m, s) ==
  /\ drained.calls \in Seq(Events) /\ drained.rest \in Seq(Token)
  /\ \E v \in Seq(Events) : /\ <<drained.rest \o SubSeq(T, m + 1, Len(T)), v>> \in Telling
                            /\ drained.calls \o v = s
  /\ m = Len(T) => drained.rest = <<>>

\* A frame ends where its two line ends are, and tells of x.
IsFrame(F, x) ==
  /\ Len(F) > 2 /\ EmptyLine(F, Len(F) - 1)
  /\ \A i \in 1..(Len(F) - 2) : ~EmptyLine(F, i)
  /\ Told(SubSeq(F, 1, Len(F) - 2)) = x

LEMMA Framed ==
  /\ IsFrame(CommentFrame, <<>>)
  /\ \A e \in Events : IsFrame(Written(e), <<e>>)
  <1>1. IsFrame(CommentFrame, <<>>)
    <2> DEFINE F == CommentFrame
               G == SubSeq(F, 1, Len(F) - 2)
    <2>1. F \in Seq(Token) /\ Len(F) = 3 /\ F[2] = LineEnd /\ F[3] = LineEnd /\ F[1] # LineEnd
      BY FrameFacts
    <2> HIDE DEF F
    <2>2. G \in Seq(Token) /\ Len(G) = 1
      BY <2>1
    <2>3. Told(G) = <<>>
      BY <2>2, ToldFacts
    <2>4. Len(F) > 2 /\ Len(F) - 1 = 2 /\ Len(F) - 2 = 1 /\ \A i \in 1..1 : i = 1
      BY <2>1
    <2>5. EmptyLine(F, 2) /\ ~EmptyLine(F, 1)
      BY <2>1 DEF EmptyLine
    <2> HIDE DEF EmptyLine
    <2>6. \A i \in 1..(Len(F) - 2) : ~EmptyLine(F, i)
      BY <2>4, <2>5
    <2>7. IsFrame(F, <<>>)
      BY <2>3, <2>4, <2>5, <2>6 DEF IsFrame
    <2> QED BY <2>7 DEF F
  <1>2. ASSUME NEW e \in Events PROVE IsFrame(Written(e), <<e>>)
    <2> DEFINE F == Written(e)
               G == SubSeq(F, 1, Len(F) - 2)
    <2>1. F \in Seq(Token) /\ Len(F) = 6
      BY FrameFacts
    <2>2. /\ F[1] = <<"event: ", e>> /\ F[2] = LineEnd /\ F[3] = <<"data: {", e>>
          /\ F[4] = <<"}", e>> /\ F[5] = LineEnd /\ F[6] = LineEnd
      BY FrameFacts
    <2>3. F[1] # LineEnd /\ F[3] # LineEnd /\ F[4] # LineEnd
      BY FrameFacts
    <2> HIDE DEF F
    <2>4. Len(F) > 2 /\ Len(F) - 1 = 5 /\ Len(F) - 2 = 4
      BY <2>1
    <2>5. G \in Seq(Token) /\ Len(G) = 4 /\ \A i \in 1..4 : G[i] = F[i]
      <3>1. \A i \in 1..4 : F[i] \in Token
        <4>1. \A i \in 1..6 : F[i] \in Token
          BY <2>1, ElementOfSeq
        <4>2. \A i \in 1..4 : i \in 1..6
          OBVIOUS
        <4> QED BY <4>1, <4>2
      <3>2. G = SubSeq(F, 1, 4)
        BY <2>4
      <3> HIDE DEF G
      <3> QED BY <3>1, <3>2, SubSeqProperties
    <2>6. G[1] = F[1] /\ G[2] = F[2] /\ G[3] = F[3] /\ G[4] = F[4]
      <3>1. 1 \in 1..4 /\ 2 \in 1..4 /\ 3 \in 1..4 /\ 4 \in 1..4
        OBVIOUS
      <3> HIDE DEF G
      <3> QED BY <2>5, <3>1
    <2> HIDE DEF G
    <2>7. Told(G) = <<e>>
      BY <2>2, <2>5, <2>6, ToldFacts
    <2>8. F[5] = LineEnd /\ F[5 + 1] = LineEnd
      <3>1. F[5] = LineEnd /\ F[6] = LineEnd
        BY <2>2
      <3>2. 5 + 1 = 6
        OBVIOUS
      <3> QED BY <3>1, <3>2
    <2>9. F[1] # LineEnd /\ F[2 + 1] # LineEnd /\ F[3] # LineEnd /\ F[4] # LineEnd
      BY <2>3
    <2>10. \A i \in 1..(Len(F) - 2) : i = 1 \/ i = 2 \/ i = 3 \/ i = 4
      <3>1. \A i \in 1..4 : i = 1 \/ i = 2 \/ i = 3 \/ i = 4
        OBVIOUS
      <3> QED BY <2>4, <3>1
    <2>11. EmptyLine(F, Len(F) - 1)
      BY <2>4, <2>8 DEF EmptyLine
    <2>12. \A i \in 1..(Len(F) - 2) : ~EmptyLine(F, i)
      BY <2>9, <2>10 DEF EmptyLine
    <2>13. IsFrame(F, <<e>>)
      BY <2>4, <2>7, <2>11, <2>12 DEF IsFrame, G
    <2> QED BY <2>13 DEF F
  <1> QED BY <1>1, <1>2

\* What such a text begins with, whichever kind of frame it is.
LEMMA NextFrame ==
  ASSUME NEW t \in Seq(Token), NEW s \in Seq(Events), <<t, s>> \in Telling
  PROVE  \/ t = <<>> /\ s = <<>>
         \/ \E F, u \in Seq(Token), x, v \in Seq(Events) :
              IsFrame(F, x) /\ <<u, v>> \in Telling /\ t = F \o u /\ s = x \o v
  <1>1. CASE t = <<>> /\ s = <<>>
    BY <1>1
  <1>2. ASSUME NEW u \in Seq(Token), <<u, s>> \in Telling, t = CommentFrame \o u
        PROVE  \E F, w \in Seq(Token), x, v \in Seq(Events) :
                 IsFrame(F, x) /\ <<w, v>> \in Telling /\ t = F \o w /\ s = x \o v
    <2>1. s = <<>> \o s /\ <<>> \in Seq(Events)
      BY ConcatEmptySeq, EmptySeq
    <2> QED BY <1>2, <2>1, Framed, FrameFacts
  <1>3. ASSUME NEW u \in Seq(Token), NEW v \in Seq(Events), NEW e \in Events,
               <<u, v>> \in Telling, t = Written(e) \o u, s = <<e>> \o v
        PROVE  \E F, w \in Seq(Token), x, z \in Seq(Events) :
                 IsFrame(F, x) /\ <<w, z>> \in Telling /\ t = F \o w /\ s = x \o z
    <2>1. <<e>> \in Seq(Events)
      OBVIOUS
    <2>2. IsFrame(Written(e), <<e>>) /\ Written(e) \in Seq(Token)
      BY Framed, FrameFacts
    <2> QED BY <1>3, <2>1, <2>2
  <1> DEFINE Begins == \E F, w \in Seq(Token), x, v \in Seq(Events) :
                 IsFrame(F, x) /\ <<w, v>> \in Telling /\ t = F \o w /\ s = x \o v
  <1>4. ASSUME NEW u \in Seq(Token), <<u, s>> \in Telling, t = CommentFrame \o u
        PROVE  Begins
    BY <1>2, <1>4
  <1>5. ASSUME NEW u \in Seq(Token), NEW v \in Seq(Events), NEW e \in Events,
               <<u, v>> \in Telling, t = Written(e) \o u, s = <<e>> \o v
        PROVE  Begins
    BY <1>3, <1>5
  <1>6. Begins => \E F, w \in Seq(Token), x, v \in Seq(Events) :
                  IsFrame(F, x) /\ <<w, v>> \in Telling /\ t = F \o w /\ s = x \o v
    OBVIOUS
  <1> HIDE DEF Begins
  <1>7. (t = <<>> /\ s = <<>>) \/ Begins
    <2>1. CASE \E u \in Seq(Token) : <<u, s>> \in Telling /\ t = CommentFrame \o u
      BY <1>4, <2>1, Zenon
    <2>2. CASE \E u \in Seq(Token), v \in Seq(Events), e \in Events :
                 <<u, v>> \in Telling /\ t = Written(e) \o u /\ s = <<e>> \o v
      BY <1>5, <2>2, Zenon
    <2> QED BY <2>1, <2>2, FirstFrame
  <1> QED BY <1>6, <1>7

\* Where the frame F ends that a text goes on with from j: not in what has come of it, up
\* to m, or where its two line ends are.
EndsAt(T, m, j, F, w) ==
  /\ m - j + 1 < Len(F) => m < Len(T) /\ FrameEnd(SubSeq(T, 1, m), j) = 0
  /\ ~(m - j + 1 < Len(F)) =>
       /\ FrameEnd(SubSeq(T, 1, m), j) = j + Len(F) - 2
       /\ SubSeq(SubSeq(T, 1, m), j, j + Len(F) - 3) = SubSeq(F, 1, Len(F) - 2)
       /\ j + Len(F) \in (j + 1)..(m + 1)
       /\ SubSeq(T, j + Len(F), Len(T)) = w

LEMMA FrameThere ==
  ASSUME NEW T \in Seq(Token), NEW m \in 0..Len(T), NEW j \in 1..(m + 1),
         NEW F \in Seq(Token), NEW w \in Seq(Token), NEW x, IsFrame(F, x),
         SubSeq(T, j, Len(T)) = F \o w
  PROVE  EndsAt(T, m, j, F, w)
  <1> DEFINE L == Len(T)
             f == Len(F)
             l == Len(w)
             text == SubSeq(T, 1, m)
             t == SubSeq(T, j, L)
  <1>1. L \in Nat /\ m \in Nat /\ m <= L /\ j \in Nat /\ 1 <= j /\ j <= m + 1
    OBVIOUS
  <1>2. text \in Seq(Token) /\ Len(text) = m /\ \A i \in 1..m : text[i] = T[i]
    OBVIOUS
  <1>3. /\ t \in Seq(Token) /\ Len(t) = L - j + 1
        /\ \A i \in 1..(L - j + 1) : t[i] = T[j + i - 1]
    <2>1. j \in 1..(L + 1) /\ L \in (j - 1)..L
      BY <1>1
    <2> QED BY <2>1, Slice
  <1>4. f \in Nat /\ f > 2 /\ l \in Nat
    BY DEF IsFrame
  <1>5. /\ Len(t) = f + l
        /\ \A i \in 1..(f + l) : t[i] = IF i <= f THEN F[i] ELSE w[i - f]
    BY ConcatProperties
  <1>6. /\ EmptyLine(F, f - 1) /\ \A i \in 1..(f - 2) : ~EmptyLine(F, i)
    BY DEF IsFrame
  <1>9. FrameEnd(text, j) # 0 =>
          FrameEnd(text, j) \in j..(m - 1) /\ EmptyLine(text, FrameEnd(text, j))
    BY <1>2, FrameEndFacts
  <1>10. \A i \in j..(m - 1) : EmptyLine(text, i) =>
           FrameEnd(text, j) # 0 /\ FrameEnd(text, j) <= i
    BY <1>2, FrameEndFacts
  <1> DEFINE end == FrameEnd(text, j)
  <1> HIDE DEF L, f, l, text, t, end
  <1>11. L - j + 1 = f + l
    BY <1>3, <1>5
  <1>12. \A i \in 1..f : F[i] = T[j + i - 1]
    <2> SUFFICES ASSUME NEW i \in 1..f PROVE F[i] = T[j + i - 1]
      OBVIOUS
    <2>1. i \in 1..(f + l) /\ i <= f /\ i \in 1..(L - j + 1)
      BY <1>1, <1>4, <1>11
    <2> QED BY <1>3, <1>5, <2>1
  <1>13. \A i \in 1..l : w[i] = T[j + f + i - 1]
    <2> SUFFICES ASSUME NEW i \in 1..l PROVE w[i] = T[j + f + i - 1]
      OBVIOUS
    <2> DEFINE k == f + i
    <2>1. k \in 1..(f + l) /\ ~(k <= f) /\ k - f = i /\ k \in 1..(L - j + 1) /\ j + k - 1 = j + f + i - 1
      BY <1>1, <1>4, <1>11
    <2> HIDE DEF k
    <2> QED BY <1>3, <1>5, <2>1
  \* What has come is as the frame, as far as both go.
  <1>14. ASSUME NEW i \in j..(m - 1), i - j + 1 <= f - 1
         PROVE  EmptyLine(text, i) <=> EmptyLine(F, i - j + 1)
    <2> DEFINE k == i - j + 1
    <2>1. /\ i \in 1..m /\ i + 1 \in 1..m /\ k \in 1..f /\ k + 1 \in 1..f
          /\ j + k - 1 = i /\ j + (k + 1) - 1 = i + 1
      BY <1>1, <1>4, <1>14
    <2> HIDE DEF k
    <2>2. text[i] = F[k] /\ text[i + 1] = F[k + 1]
      BY <1>2, <1>12, <2>1
    <2>3. EmptyLine(text, i) <=> EmptyLine(F, k)
      BY <2>2 DEF EmptyLine
    <2> QED BY <2>3 DEF k
  <1>15. \A i \in j..(m - 1) : i - j + 1 <= f - 2 => ~EmptyLine(text, i)
    <2> SUFFICES ASSUME NEW i \in j..(m - 1), i - j + 1 <= f - 2 PROVE ~EmptyLine(text, i)
      OBVIOUS
    <2>1. i - j + 1 <= f - 1 /\ i - j + 1 \in 1..(f - 2)
      BY <1>1, <1>4
    <2> QED BY <1>6, <1>14, <2>1
  <1>16. ASSUME m - j + 1 < f PROVE m < L /\ end = 0
    <2>1. m < L
      BY <1>1, <1>4, <1>11, <1>16
    <2>2. \A i \in j..(m - 1) : i - j + 1 <= f - 2
      BY <1>1, <1>4, <1>16
    <2>3. \A i \in j..(m - 1) : ~EmptyLine(text, i)
      BY <1>15, <2>2
    <2> QED BY <1>9, <2>1, <2>3 DEF end
  <1>17. ASSUME ~(m - j + 1 < f)
         PROVE  /\ end = j + f - 2
                /\ SubSeq(text, j, j + f - 3) = SubSeq(F, 1, f - 2)
                /\ j + f \in (j + 1)..(m + 1)
                /\ SubSeq(T, j + f, L) = w
    <2> DEFINE last == j + f - 2
    <2>1. last \in j..(m - 1) /\ last - j + 1 = f - 1 /\ last # 0 /\ last \in Nat
      BY <1>1, <1>4, <1>17
    <2>2. j + f \in (j + 1)..(m + 1)
      BY <1>1, <1>4, <1>17
    <2>3. last - j + 1 <= f - 1
      BY <1>1, <1>4
    <2>4. \A i \in j..(m - 1) : i < last => i - j + 1 <= f - 2
      BY <1>1, <1>4
    <2>5. SubSeq(text, j, j + f - 3) = SubSeq(F, 1, f - 2)
      <3> DEFINE a == SubSeq(text, j, j + f - 3)
                 b == SubSeq(F, 1, f - 2)
                 n == j + f - 3
      <3>1. j \in 1..(m + 1) /\ n \in (j - 1)..m /\ n - j + 1 = f - 2
        BY <1>1, <1>4, <1>17
      <3>2. 1 \in 1..(f + 1) /\ f - 2 \in (1 - 1)..f /\ (f - 2) - 1 + 1 = f - 2
        BY <1>4
      <3>3. \A i \in 1..(f - 2) : i \in 1..f /\ j + i - 1 \in 1..m /\ 1 + i - 1 = i
        BY <1>1, <1>4, <1>17
      <3> HIDE DEF n
      <3>4. SubSeq(text, j, n) \in Seq(Token) /\ Len(SubSeq(text, j, n)) = f - 2
            /\ \A i \in 1..(f - 2) : SubSeq(text, j, n)[i] = text[j + i - 1]
        BY <1>2, <3>1, Slice
      <3>5. b \in Seq(Token) /\ Len(b) = f - 2 /\ \A i \in 1..(f - 2) : b[i] = F[i]
        <4> HIDE DEF b
        <4>1. /\ b \in Seq(Token) /\ Len(b) = (f - 2) - 1 + 1
              /\ \A i \in 1..((f - 2) - 1 + 1) : b[i] = F[1 + i - 1]
          BY <3>2, Slice DEF b, f
        <4> QED BY <3>2, <3>3, <4>1
      <3> HIDE DEF b
      <3>6. \A i \in 1..(f - 2) : SubSeq(text, j, n)[i] = b[i]
        BY <1>2, <1>12, <3>3, <3>4, <3>5
      <3>7. SubSeq(text, j, n) = b
        BY <3>4, <3>5, <3>6, SeqEqual
      <3> QED BY <3>7 DEF n, b
    <2>6. SubSeq(T, j + f, L) = w
      <3> DEFINE k == j + f
      <3>1. k \in 1..(L + 1) /\ L \in (k - 1)..L /\ L - k + 1 = l
        BY <1>1, <1>4, <1>11
      <3> HIDE DEF k
      <3>2. /\ SubSeq(T, k, L) \in Seq(Token) /\ Len(SubSeq(T, k, L)) = l
            /\ \A i \in 1..l : SubSeq(T, k, L)[i] = T[k + i - 1]
        BY <3>1, Slice DEF L
      <3>3. \A i \in 1..l : w[i] = T[k + i - 1]
        BY <1>13 DEF k
      <3>4. SubSeq(T, k, L) = w
        BY <3>2, <3>3, SeqEqual DEF l
      <3> QED BY <3>4 DEF k
    <2>7. EmptyLine(F, last - j + 1)
      BY <1>6, <2>1
    <2> HIDE DEF last
    <2>8. EmptyLine(text, last)
      BY <1>14, <2>1, <2>3, <2>7
    <2>9. end # 0 /\ end <= last
      BY <1>10, <2>1, <2>8 DEF end
    <2>10. end \in j..(m - 1) /\ EmptyLine(text, end)
      BY <1>9, <2>9 DEF end
    <2>11. ~(end < last)
      BY <1>15, <2>4, <2>10
    <2>12. end = last
      BY <1>1, <2>1, <2>9, <2>10, <2>11
    <2> QED BY <2>2, <2>5, <2>6, <2>12 DEF last
  <1> QED BY <1>16, <1>17, Zenon DEF EndsAt, L, f, text, end

\* By induction on how much of the text is left, from its end backwards.
LEMMA Draining ==
  ASSUME NEW T \in Seq(Token), NEW s \in Seq(Events), <<T, s>> \in Telling,
         NEW m \in 0..Len(T)
  PROVE  Heard(Drained(SubSeq(T, 1, m)), T, m, s)
  <1> DEFINE L == Len(T)
             text == SubSeq(T, 1, m)
             FromOn(j) == SubSeq(T, j, L)
  <1>1. L \in Nat /\ m \in Nat /\ m <= L
    OBVIOUS
  <1>2. text \in Seq(Token) /\ Len(text) = m /\ \A i \in 1..m : text[i] = T[i]
    OBVIOUS
  <1>3. \A j \in 1..(m + 1) :
          FromOn(j) \in Seq(Token) /\ Len(FromOn(j)) = L - j + 1
    <2> SUFFICES ASSUME NEW j \in 1..(m + 1)
                 PROVE  FromOn(j) \in Seq(Token) /\ Len(FromOn(j)) = L - j + 1
      OBVIOUS
    <2>1. j \in 1..(L + 1) /\ L \in (j - 1)..L
      BY <1>1
    <2> QED BY <2>1, Slice
  <1> HIDE DEF text
  <1>4. PICK loop :
          /\ Drained(text) = loop[1]
          /\ \A from \in 1..(Len(text) + 1) :
               LET idx == FrameEnd(text, from)
               IN  /\ idx = 0 =>
                        loop[from] = [calls |-> <<>>, rest |-> SubSeq(text, from, Len(text))]
                   /\ idx # 0 =>
                        loop[from] = [calls |-> Told(SubSeq(text, from, idx - 1)) \o loop[idx + 2].calls,
                                      rest |-> loop[idx + 2].rest]
    BY <1>2, DrainedFacts
  <1> HIDE DEF L
  <1>5. ASSUME NEW from \in 1..(m + 1), FrameEnd(text, from) = 0
        PROVE  loop[from] = [calls |-> <<>>, rest |-> SubSeq(text, from, m)]
    BY <1>2, <1>4, <1>5
  <1>6. ASSUME NEW from \in 1..(m + 1), FrameEnd(text, from) # 0
        PROVE  /\ loop[from].calls =
                    Told(SubSeq(text, from, FrameEnd(text, from) - 1)) \o loop[FrameEnd(text, from) + 2].calls
               /\ loop[from].rest = loop[FrameEnd(text, from) + 2].rest
    <2>1. from \in 1..(Len(text) + 1)
      BY <1>2
    <2> DEFINE idx == FrameEnd(text, from)
    <2>2. idx # 0 /\ loop[from] =
            [calls |-> Told(SubSeq(text, from, idx - 1)) \o loop[idx + 2].calls,
             rest |-> loop[idx + 2].rest]
      BY <1>4, <1>6, <2>1
    <2> DEFINE calls == Told(SubSeq(text, from, idx - 1)) \o loop[idx + 2].calls
               rest == loop[idx + 2].rest
               d == loop[from]
    <2> HIDE DEF idx
    <2>3. d = [calls |-> calls, rest |-> rest]
      BY <2>2
    <2> HIDE DEF calls, rest, d
    <2>4. d.calls = calls /\ d.rest = rest
      BY <2>3
    <2> USE DEF calls, rest, d
    <2>5. /\ loop[from].calls = Told(SubSeq(text, from, idx - 1)) \o loop[idx + 2].calls
          /\ loop[from].rest = loop[idx + 2].rest
      BY <2>4, Zenon
    <2> QED BY <2>5, Zenon DEF idx
  <1> DEFINE Claim(j) == \A u \in Seq(Events) :
                           <<FromOn(j), u>> \in Telling => Heard(loop[j], T, m, u)
  \* Nothing more is whole: what there is is kept.
  <1>7. ASSUME NEW j \in 1..(m + 1), NEW u \in Seq(Events), <<FromOn(j), u>> \in Telling,
               FrameEnd(text, j) = 0, m = L => SubSeq(text, j, m) = <<>>
        PROVE  Heard(loop[j], T, m, u)
    <2> DEFINE rest == SubSeq(text, j, m)
               d == loop[j]
    <2>1. d.calls = <<>> /\ d.rest = rest
      <3>1. d = [calls |-> <<>>, rest |-> rest]
        BY <1>5, <1>7
      <3> HIDE DEF d, rest
      <3> QED BY <3>1
    <2>2. rest = SubSeq(T, j, m) /\ rest \in Seq(Token)
      <3> DEFINE other == SubSeq(T, j, m)
                 n == m - j + 1
      <3>1. /\ j \in 1..(m + 1) /\ m \in (j - 1)..m
            /\ j \in 1..(Len(T) + 1) /\ m \in (j - 1)..Len(T)
        BY <1>1 DEF L
      <3>2. \A i \in 1..n : j + i - 1 \in 1..m
        BY <1>1
      <3>3. /\ rest \in Seq(Token) /\ Len(rest) = n
            /\ \A i \in 1..n : rest[i] = text[j + i - 1]
        BY <1>2, <3>1, Slice
      <3>4. /\ other \in Seq(Token) /\ Len(other) = n
            /\ \A i \in 1..n : other[i] = T[j + i - 1]
        BY <3>1, Slice
      <3> HIDE DEF rest, other, n
      <3>5. \A i \in 1..n : rest[i] = other[i]
        BY <1>2, <3>2, <3>3, <3>4
      <3>6. rest = other
        BY <3>3, <3>4, <3>5, SeqEqual
      <3> QED BY <3>3, <3>6 DEF other
    <2>3. rest \o SubSeq(T, m + 1, L) = FromOn(j)
      <3>1. j \in 1..(L + 1) /\ m \in (j - 1)..L /\ L \in m..L
        BY <1>1
      <3>2. SubSeq(T, j, m) \o SubSeq(T, m + 1, L) = SubSeq(T, j, L)
        BY <3>1, ConcatAdjacentSubSeq DEF L
      <3> QED BY <2>2, <3>2
    <2>4. <<>> \o u = u /\ <<>> \in Seq(Events)
      BY ConcatEmptySeq, EmptySeq
    <2>5. d.calls \o u = u /\ d.calls \in Seq(Events) /\ d.rest \in Seq(Token)
      BY <2>1, <2>2, <2>4
    <2>6. <<d.rest \o SubSeq(T, m + 1, L), u>> \in Telling
      BY <1>7, <2>1, <2>3
    <2>7. m = L => d.rest = <<>>
      BY <1>7, <2>1
    <2> HIDE DEF d, rest
    <2>8. Heard(d, T, m, u)
      BY <2>5, <2>6, <2>7 DEF Heard, L
    <2> QED BY <2>8 DEF d
  <1>8. ASSUME NEW j \in 1..(m + 1), \A k \in (j + 1)..(m + 1) : Claim(k) PROVE Claim(j)
    <2> SUFFICES ASSUME NEW u \in Seq(Events), <<FromOn(j), u>> \in Telling
                 PROVE  Heard(loop[j], T, m, u)
      OBVIOUS
    <2> HIDE DEF FromOn
    <2>1. CASE FromOn(j) = <<>>
      <3>1. j = m + 1 /\ m = L
        BY <1>1, <1>3, <2>1
      <3>2. FrameEnd(text, j) = 0
        <4>1. j \in 1..(Len(text) + 1) /\ \A i : i \notin j..(Len(text) - 1)
          BY <1>1, <1>2, <3>1
        <4> QED BY <1>2, <4>1, FrameEndFacts
      <3>3. SubSeq(text, j, m) = <<>>
        BY <1>1, <3>1, SubSeqEmpty
      <3> QED BY <1>7, <3>2, <3>3
    <2>2. ASSUME NEW F \in Seq(Token), NEW w \in Seq(Token), NEW x \in Seq(Events), NEW v \in Seq(Events),
                 IsFrame(F, x), <<w, v>> \in Telling, FromOn(j) = F \o w, u = x \o v
          PROVE  Heard(loop[j], T, m, u)
      <3> DEFINE f == Len(F)
      <3>1. /\ m - j + 1 < f => m < L /\ FrameEnd(text, j) = 0
            /\ ~(m - j + 1 < f) =>
                 /\ FrameEnd(text, j) = j + f - 2
                 /\ SubSeq(text, j, j + f - 3) = SubSeq(F, 1, f - 2)
                 /\ j + f \in (j + 1)..(m + 1)
                 /\ FromOn(j + f) = w
        <4>1. SubSeq(T, j, Len(T)) = F \o w
          BY <2>2 DEF FromOn, L
        <4>2. EndsAt(T, m, j, F, w)
          BY <2>2, <4>1, FrameThere
        <4> QED BY <4>2, Zenon DEF EndsAt, text, FromOn, L
      <3>2. f \in Nat /\ Told(SubSeq(F, 1, f - 2)) = x
        BY <2>2 DEF IsFrame
      <3> HIDE DEF f
      <3>3. CASE m - j + 1 < f
        BY <1>1, <1>7, <3>1, <3>3
      <3>4. CASE ~(m - j + 1 < f)
        <4> DEFINE k == j + f
                   d == loop[k]
                   g == loop[j]
        <4>1. k \in (j + 1)..(m + 1) /\ FromOn(k) = w /\ FrameEnd(text, j) = k - 2 /\ k - 2 # 0
              /\ k - 2 + 2 = k /\ k - 2 - 1 = j + f - 3
          <5>1. k \in (j + 1)..(m + 1) /\ FromOn(k) = w /\ FrameEnd(text, j) = j + f - 2
            BY <3>1, <3>4
          <5>2. j \in Nat /\ 1 <= j /\ 2 < f
            BY <1>1, <2>2 DEF IsFrame, f
          <5>3. j + f - 2 = k - 2 /\ k - 2 # 0 /\ k - 2 + 2 = k /\ k - 2 - 1 = j + f - 3
            BY <3>2, <5>2
          <5> QED BY <5>1, <5>3
        <4>2. g.calls = x \o d.calls /\ g.rest = d.rest
          <5>1. Told(SubSeq(text, j, k - 2 - 1)) = x
            BY <3>1, <3>2, <3>4, <4>1
          <5> HIDE DEF k
          <5> QED BY <1>6, <4>1, <5>1
        <4> HIDE DEF k
        <4>3. Heard(d, T, m, v)
          BY <1>8, <2>2, <4>1
        <4> HIDE DEF d, g
        <4>4. d.calls \in Seq(Events) /\ d.rest \in Seq(Token) /\ (m = Len(T) => d.rest = <<>>)
          BY <4>3 DEF Heard
        <4>5. PICK z \in Seq(Events) : /\ <<d.rest \o SubSeq(T, m + 1, Len(T)), z>> \in Telling
                                       /\ d.calls \o z = v
          BY <4>3 DEF Heard
        <4>6. g.calls \in Seq(Events)
          BY <4>2, <4>4, ConcatProperties
        <4>7. g.calls \o z = u
          <5>1. x \in Seq(Events) /\ d.calls \in Seq(Events) /\ z \in Seq(Events)
            BY <4>4
          <5>2. (x \o d.calls) \o z = x \o (d.calls \o z)
            BY <5>1, Appended, ZenonT(60)
          <5> QED BY <2>2, <4>2, <4>5, <5>2
        <4>8. Heard(g, T, m, u)
          BY <4>2, <4>4, <4>5, <4>6, <4>7 DEF Heard
        <4> QED BY <4>8 DEF g
      <3> QED BY <3>3, <3>4
    <2>3. FromOn(j) \in Seq(Token)
      BY <1>3
    <2>4. \/ FromOn(j) = <<>> /\ u = <<>>
          \/ \E F, w \in Seq(Token), x, v \in Seq(Events) :
               IsFrame(F, x) /\ <<w, v>> \in Telling /\ FromOn(j) = F \o w /\ u = x \o v
      BY <2>3, NextFrame
    <2>5. CASE \E F, w \in Seq(Token), x, v \in Seq(Events) :
                 IsFrame(F, x) /\ <<w, v>> \in Telling /\ FromOn(j) = F \o w /\ u = x \o v
      BY <2>2, <2>5, Zenon
    <2> QED BY <2>1, <2>4, <2>5
  <1> HIDE DEF Claim
  <1>9. \A n \in 0..m : Claim(m + 1 - n)
    <2> DEFINE Bad == {n \in 0..m : ~Claim(m + 1 - n)}
    <2> SUFFICES ASSUME Bad # {} PROVE FALSE
      OBVIOUS
    <2>1. Bad \in SUBSET Nat
      BY <1>1
    <2>2. PICK n \in Bad : \A k \in Bad : n <= k
      BY <2>1, LeastNumber
    <2>3. n \in 0..m /\ ~Claim(m + 1 - n) /\ m + 1 - n \in 1..(m + 1)
      BY <1>1, <2>2
    <2>4. ASSUME NEW k \in (m + 1 - n + 1)..(m + 1) PROVE Claim(k)
      <3>1. m + 1 - k \in 0..m /\ ~(n <= m + 1 - k) /\ m + 1 - (m + 1 - k) = k
        BY <1>1, <2>3
      <3> QED BY <2>2, <3>1
    <2> QED BY <1>8, <2>3, <2>4
  <1>10. Claim(1)
    <2>1. m \in 0..m /\ m + 1 - m = 1
      BY <1>1
    <2> QED BY <1>9, <2>1
  <1>11. FromOn(1) = T
    BY SubSeqFull DEF L
  <1> QED BY <1>4, <1>10, <1>11 DEF Claim, text
-----------------------------------------------------------------------------
\* Of a connection in some state, subscribed when there had been that many events, with
\* this on its way and this not yet a whole frame: what the reader has heard is the
\* first of what has been published since, and what is left to read tells of the others.
Hearing(bus, state, from, onWay, kept, heard) ==
  LET due == SubSeq(bus, from + 1, Len(bus))
  IN  /\ from <= Len(bus)
      /\ state \in {"new", "refused"} => heard = <<>>
      /\ state = "new" => kept = <<>>
      /\ \E s \in Seq(Events) : heard \o s = due
      /\ state = "open" =>
           /\ \E s \in Seq(Events) : <<kept \o onWay, s>> \in Telling /\ heard \o s = due
           /\ onWay = <<>> => kept = <<>>

LEMMA OneMore ==
  ASSUME NEW x \in Seq(Events), NEW e \in Events
  PROVE  /\ x \o <<e>> \in Seq(Events) /\ Len(x \o <<e>>) = Len(x) + 1
         /\ \A i \in 1..(Len(x) + 1) : (x \o <<e>>)[i] = IF i <= Len(x) THEN x[i] ELSE e
  OBVIOUS

\* What is due to a reader grows by what is published.
LEMMA DueGrows ==
  ASSUME NEW bus \in Seq(Events), NEW from \in Nat, from <= Len(bus), NEW e \in Events
  PROVE  SubSeq(Append(bus, e), from + 1, Len(Append(bus, e)))
           = SubSeq(bus, from + 1, Len(bus)) \o <<e>>
  <1> DEFINE n == Len(bus)
             more == Append(bus, e)
             due == SubSeq(bus, from + 1, n)
             one == <<e>>
             m == n - from
  <1>1. n \in Nat /\ m \in Nat /\ n = from + m
    OBVIOUS
  <1>2. more \in Seq(Events) /\ Len(more) = n + 1 /\ more[n + 1] = e
        /\ \A i \in 1..n : more[i] = bus[i]
    OBVIOUS
  <1>3. /\ from + 1 \in 1..(n + 1) /\ n \in (from + 1 - 1)..n /\ n - (from + 1) + 1 = m
        /\ from + 1 \in 1..(n + 1 + 1) /\ n + 1 \in (from + 1 - 1)..(n + 1)
        /\ n + 1 - (from + 1) + 1 = m + 1
    BY <1>1
  <1>4. \A i \in 1..(m + 1) : from + 1 + i - 1 = from + i
    BY <1>1
  <1> DEFINE next == SubSeq(more, from + 1, n + 1)
  <1> HIDE DEF more, one, m
  <1>5. due \in Seq(Events) /\ Len(due) = m /\ \A i \in 1..m : due[i] = bus[from + i]
    <2>1. \A i \in 1..m : i \in 1..(m + 1)
      BY <1>1
    <2> QED BY <1>3, <1>4, <2>1, Slice
  <1> HIDE DEF n
  <1>6. next \in Seq(Events) /\ Len(next) = m + 1
        /\ \A i \in 1..(m + 1) : next[i] = more[from + i]
    BY <1>2, <1>3, <1>4, Slice
  <1> HIDE DEF due, next
  <1>7. /\ due \o one \in Seq(Events) /\ Len(due \o one) = m + 1
        /\ \A i \in 1..(m + 1) : (due \o one)[i] = IF i <= m THEN due[i] ELSE e
    BY <1>5, OneMore DEF one
  <1>8. \A i \in 1..(m + 1) : next[i] = (due \o one)[i]
    <2> SUFFICES ASSUME NEW i \in 1..(m + 1) PROVE next[i] = (due \o one)[i]
      OBVIOUS
    <2>1. CASE i <= m
      <3>1. i \in 1..m /\ from + i \in 1..n
        BY <1>1, <2>1
      <3> QED BY <1>2, <1>5, <1>6, <1>7, <2>1, <3>1
    <2>2. CASE i = m + 1
      <3>1. ~(i <= m) /\ from + i = n + 1
        BY <1>1, <2>2
      <3> QED BY <1>2, <1>6, <1>7, <3>1
    <2>3. i <= m \/ i = m + 1
      BY <1>1
    <2> QED BY <2>1, <2>2, <2>3
  <1>9. next = due \o one
    BY <1>6, <1>7, <1>8, SeqEqual
  <1> QED BY <1>2, <1>9 DEF n, more, one, due, next

LEMMA HearingPublish ==
  ASSUME NEW bus \in Seq(Events), NEW state, NEW from \in Nat,
         NEW onWay \in Seq(Token), NEW kept \in Seq(Token), NEW heard \in Seq(Events),
         Hearing(bus, state, from, onWay, kept, heard), NEW e \in Events
  PROVE  Hearing(Append(bus, e), state, from,
                 IF state = "open" THEN onWay \o Written(e) ELSE onWay, kept, heard)
  <1> DEFINE more == Append(bus, e)
             due == SubSeq(bus, from + 1, Len(bus))
             next == SubSeq(more, from + 1, Len(more))
             longer == onWay \o Written(e)
             one == <<e>>
  <1>1. from <= Len(bus)
    BY DEF Hearing
  <1>2. next = due \o one
    BY <1>1, DueGrows
  <1>3. from <= Len(more)
    BY <1>1
  <1>4. one \in Seq(Events)
    OBVIOUS
  <1>5. Written(e) \in Seq(Token) /\ Len(Written(e)) = 6
    BY FrameFacts
  <1>6. longer # <<>>
    <2>1. Len(longer) = Len(onWay) + 6
      BY <1>5, JoinedLength
    <2> HIDE DEF longer
    <2> QED BY <2>1
  <1>7. ASSUME NEW s \in Seq(Events), heard \o s = due
        PROVE  s \o one \in Seq(Events) /\ heard \o (s \o one) = next
    <2> HIDE DEF one
    <2>1. (heard \o s) \o one = heard \o (s \o one)
      BY <1>4, Appended, Zenon
    <2> QED BY <1>2, <1>4, <1>7, <2>1, ConcatProperties
  <1>8. (kept \o onWay) \o Written(e) = kept \o longer
    BY <1>5, Joined, Zenon
  <1>9. kept \o onWay \in Seq(Token)
    BY ConcatProperties
  <1>10. \E s \in Seq(Events) : heard \o s = next
    <2> PICK s \in Seq(Events) : heard \o s = due
      BY DEF Hearing
    <2> QED BY <1>7
  <1>11. ASSUME state = "open"
         PROVE  \E s \in Seq(Events) : <<kept \o longer, s>> \in Telling /\ heard \o s = next
    <2>1. PICK s \in Seq(Events) : <<kept \o onWay, s>> \in Telling /\ heard \o s = due
      BY <1>11 DEF Hearing
    <2>2. <<kept \o longer, s \o one>> \in Telling
      BY <1>8, <1>9, <2>1, FrameFollows
    <2> QED BY <1>7, <2>1, <2>2
  <1>12. /\ state \in {"new", "refused"} => heard = <<>>
         /\ state = "new" => kept = <<>>
    BY DEF Hearing
  <1> HIDE DEF more, next, longer, one
  <1> QED BY <1>3, <1>6, <1>10, <1>11, <1>12 DEF Hearing, more, next, longer

LEMMA HearingHeartbeat ==
  ASSUME NEW bus \in Seq(Events), NEW from \in Nat,
         NEW onWay \in Seq(Token), NEW kept \in Seq(Token), NEW heard \in Seq(Events),
         Hearing(bus, "open", from, onWay, kept, heard)
  PROVE  Hearing(bus, "open", from, onWay \o CommentFrame, kept, heard)
  <1> DEFINE due == SubSeq(bus, from + 1, Len(bus))
             longer == onWay \o CommentFrame
  <1>1. PICK s \in Seq(Events) : <<kept \o onWay, s>> \in Telling /\ heard \o s = due
    BY DEF Hearing
  <1>2. CommentFrame \in Seq(Token) /\ Len(CommentFrame) = 3
    BY FrameFacts
  <1>3. (kept \o onWay) \o CommentFrame = kept \o longer
    BY <1>2, Joined, Zenon
  <1>4. kept \o onWay \in Seq(Token)
    BY ConcatProperties
  <1>5. <<kept \o longer, s>> \in Telling
    <2>1. <<(kept \o onWay) \o CommentFrame, s>> \in Telling
      BY <1>1, <1>4, FrameFollows
    <2> QED BY <1>3, <2>1
  <1>6. longer # <<>>
    <2>1. Len(longer) = Len(onWay) + 3
      <3>1. Len(onWay \o CommentFrame) = Len(onWay) + Len(CommentFrame)
        BY <1>2, JoinedLength, Zenon
      <3> QED BY <1>2, <3>1
    <2> HIDE DEF longer
    <2> QED BY <2>1
  <1>7. from <= Len(bus)
    BY DEF Hearing
  <1> HIDE DEF longer
  <1> QED BY <1>1, <1>5, <1>6, <1>7 DEF Hearing, longer

LEMMA HearingRead ==
  ASSUME NEW bus \in Seq(Events), NEW from \in Nat,
         NEW onWay \in Seq(Token), NEW kept \in Seq(Token), NEW heard \in Seq(Events),
         Hearing(bus, "open", from, onWay, kept, heard), NEW n \in 1..Len(onWay),
         NEW drained, drained = Drained(kept \o SubSeq(onWay, 1, n))
  PROVE  /\ drained.rest \in Seq(Token) /\ heard \o drained.calls \in Seq(Events)
         /\ SubSeq(onWay, n + 1, Len(onWay)) \in Seq(Token)
         /\ Hearing(bus, "open", from, SubSeq(onWay, n + 1, Len(onWay)), drained.rest,
                    heard \o drained.calls)
  <1> DEFINE due == SubSeq(bus, from + 1, Len(bus))
             T == kept \o onWay
             k == Len(kept)
             m == k + n
             l == Len(onWay)
             first == SubSeq(onWay, 1, n)
             later == SubSeq(onWay, n + 1, l)
             calls == drained.calls
             rest == drained.rest
  <1>1. k \in Nat /\ l \in Nat /\ n \in Nat /\ n <= l /\ 1 <= n
    OBVIOUS
  <1>2. T \in Seq(Token) /\ Len(T) = k + l
        /\ \A i \in 1..(k + l) : T[i] = IF i <= k THEN kept[i] ELSE onWay[i - k]
    BY ConcatProperties
  <1>3. first \in Seq(Token) /\ Len(first) = n /\ \A i \in 1..n : first[i] = onWay[i]
    OBVIOUS
  <1>4. later \in Seq(Token) /\ Len(later) = l - n
        /\ \A i \in 1..(l - n) : later[i] = onWay[n + i]
    <2> DEFINE a == n + 1
    <2>1. a \in 1..(l + 1) /\ l \in (a - 1)..l /\ l - a + 1 = l - n
      BY <1>1
    <2>2. \A i \in 1..(l - n) : a + i - 1 = n + i
      BY <1>1
    <2> HIDE DEF a
    <2>3. /\ SubSeq(onWay, a, l) \in Seq(Token) /\ Len(SubSeq(onWay, a, l)) = l - n
          /\ \A i \in 1..(l - n) : SubSeq(onWay, a, l)[i] = onWay[a + i - 1]
      BY <2>1, Slice
    <2> HIDE DEF l
    <2>4. /\ SubSeq(onWay, a, l) \in Seq(Token) /\ Len(SubSeq(onWay, a, l)) = l - n
          /\ \A i \in 1..(l - n) : SubSeq(onWay, a, l)[i] = onWay[n + i]
      BY <2>2, <2>3
    <2> QED BY <2>4 DEF a
  <1>5. kept \o first \in Seq(Token) /\ Len(kept \o first) = k + n
        /\ \A i \in 1..(k + n) : (kept \o first)[i] = IF i <= k THEN kept[i] ELSE first[i - k]
    <2>1. /\ kept \o first \in Seq(Token) /\ Len(kept \o first) = k + Len(first)
          /\ \A i \in 1..(k + Len(first)) :
               (kept \o first)[i] = IF i <= k THEN kept[i] ELSE first[i - k]
      BY <1>3, ConcatProperties
    <2> QED BY <1>3, <2>1
  <1>6. PICK s \in Seq(Events) : <<T, s>> \in Telling /\ heard \o s = due
    BY DEF Hearing
  <1>7. from <= Len(bus)
    BY DEF Hearing
  <1> HIDE DEF T, k, l, first, later, due, calls, rest
  <1>8. m \in 0..Len(T) /\ m \in Nat
    BY <1>1, <1>2
  <1>9. SubSeq(T, 1, m) = kept \o first
    <2>1. 1 \in 1..(Len(T) + 1) /\ m \in (1 - 1)..Len(T) /\ m - 1 + 1 = m
          /\ \A i \in 1..m : 1 + i - 1 = i
      BY <1>1, <1>2
    <2>2. /\ SubSeq(T, 1, m) \in Seq(Token) /\ Len(SubSeq(T, 1, m)) = m
          /\ \A i \in 1..m : SubSeq(T, 1, m)[i] = T[i]
      <3> HIDE DEF m
      <3> QED BY <1>2, <2>1, Slice
    <2>3. \A i \in 1..m : T[i] = (kept \o first)[i]
      <3> SUFFICES ASSUME NEW i \in 1..m PROVE T[i] = (kept \o first)[i]
        OBVIOUS
      <3>1. i \in 1..(k + n) /\ i \in 1..(k + l) /\ (~(i <= k) => i - k \in 1..n)
        BY <1>1
      <3> QED BY <1>2, <1>3, <1>5, <3>1
    <2>4. \A i \in 1..m : SubSeq(T, 1, m)[i] = (kept \o first)[i]
      BY <2>2, <2>3
    <2> QED BY <1>5, <2>2, <2>4, SeqEqual
  <1>10. SubSeq(T, m + 1, Len(T)) = later
    <2> DEFINE L == Len(T)
    <2>1. L = k + l /\ m + 1 \in 1..(L + 1) /\ L \in (m + 1 - 1)..L /\ L - (m + 1) + 1 = l - n
      BY <1>1, <1>2
    <2>2. /\ SubSeq(T, m + 1, L) \in Seq(Token) /\ Len(SubSeq(T, m + 1, L)) = l - n
          /\ \A i \in 1..(l - n) : SubSeq(T, m + 1, L)[i] = T[m + 1 + i - 1]
      <3> DEFINE a == m + 1
      <3>1. a \in 1..(L + 1) /\ L \in (a - 1)..L /\ L - a + 1 = l - n
        BY <2>1
      <3> HIDE DEF a
      <3>2. /\ SubSeq(T, a, L) \in Seq(Token) /\ Len(SubSeq(T, a, L)) = l - n
            /\ \A i \in 1..(l - n) : SubSeq(T, a, L)[i] = T[a + i - 1]
        BY <1>2, <3>1, Slice
      <3> QED BY <3>2 DEF a
    <2> HIDE DEF L
    <2>3. \A i \in 1..(l - n) : T[m + 1 + i - 1] = onWay[n + i]
      <3> SUFFICES ASSUME NEW i \in 1..(l - n) PROVE T[m + 1 + i - 1] = onWay[n + i]
        OBVIOUS
      <3> DEFINE x == m + 1 + i - 1
      <3>1. x \in 1..(k + l) /\ ~(x <= k) /\ x - k = n + i
        BY <1>1
      <3> HIDE DEF x, m
      <3>2. T[x] = onWay[n + i]
        BY <1>2, <3>1
      <3> QED BY <3>2 DEF x
    <2>4. \A i \in 1..(l - n) : SubSeq(T, m + 1, L)[i] = later[i]
      BY <1>4, <2>2, <2>3
    <2>5. SubSeq(T, m + 1, L) = later
      BY <1>4, <2>2, <2>4, SeqEqual
    <2> QED BY <2>5 DEF L
  <1>11. drained = Drained(SubSeq(T, 1, m))
    BY <1>9 DEF first
  <1>12. Heard(drained, T, m, s)
    <2> HIDE DEF m
    <2> QED BY <1>2, <1>6, <1>8, <1>11, Draining
  <1>13. calls \in Seq(Events) /\ rest \in Seq(Token)
    BY <1>12 DEF Heard, calls, rest
  <1>14. PICK v \in Seq(Events) : <<rest \o later, v>> \in Telling /\ calls \o v = s
    BY <1>10, <1>12 DEF Heard, calls, rest
  <1>15. later = <<>> => rest = <<>>
    <2>1. ASSUME later = <<>> PROVE m = Len(T)
      <3>1. l - n = 0
        BY <1>4, <2>1
      <3> QED BY <1>1, <1>2, <3>1
    <2> QED BY <1>12, <2>1 DEF Heard, rest
  <1>16. heard \o calls \in Seq(Events) /\ (heard \o calls) \o v = due
    <2>1. (heard \o calls) \o v = heard \o (calls \o v)
      BY <1>13, Appended, Zenon
    <2> QED BY <1>6, <1>13, <1>14, <2>1, ConcatProperties
  <1>17. Hearing(bus, "open", from, later, rest, heard \o calls)
    BY <1>7, <1>14, <1>15, <1>16 DEF Hearing, due
  <1> QED BY <1>4, <1>13, <1>16, <1>17 DEF later, l, calls, rest

-----------------------------------------------------------------------------
\* It is so of every connection.
HearInv ==
  /\ StreamTypeOK
  /\ \A c \in Connections :
       Hearing(published, connection[c], since[c], wire[c], buffer[c], onEvent[c])

LEMMA HearInvInit == StreamInit => HearInv
  <1> SUFFICES ASSUME StreamInit PROVE HearInv
    OBVIOUS
  <1>1. <<>> \in Seq(Events) /\ <<>> \in Seq(Token)
    BY EmptySeq
  <1>2. StreamTypeOK
    BY <1>1, EventStreamAssumption DEF StreamInit, StreamTypeOK
  <1>3. SubSeq(<<>>, 0 + 1, Len(<<>>)) = <<>> /\ <<>> \o <<>> = <<>>
    <2>1. Len(<<>>) < 0 + 1 /\ Len(<<>>) \in Int /\ 0 + 1 \in Int
      OBVIOUS
    <2> QED BY <1>1, <2>1, SubSeqEmpty, ConcatEmptySeq
  <1>4. Hearing(<<>>, "new", 0, <<>>, <<>>, <<>>)
    <2>1. 0 <= Len(<<>>) /\ "new" # "open"
      OBVIOUS
    <2> QED BY <1>1, <1>3, <2>1, Zenon DEF Hearing
  <1>5. \A c \in Connections :
          Hearing(published, connection[c], since[c], wire[c], buffer[c], onEvent[c])
    <2> TAKE c \in Connections
    <2>1. /\ published = <<>> /\ connection[c] = "new" /\ since[c] = 0 /\ wire[c] = <<>>
          /\ buffer[c] = <<>> /\ onEvent[c] = <<>>
      BY DEF StreamInit
    <2> QED BY <1>4, <2>1, Zenon
  <1> QED BY <1>2, <1>5 DEF HearInv


LEMMA PublishKeeps ==
  ASSUME HearInv, NEW e \in Events, Publish(e)
  PROVE  HearInv'
  <1>1. published \in Seq(Events) /\ wire \in [Connections -> Seq(Token)]
    BY DEF HearInv, StreamTypeOK
  <1>2. published' = Append(published, e) /\ published' \in Seq(Events)
    BY <1>1 DEF Publish
  <1>3. ASSUME NEW c \in Connections
        PROVE  wire'[c] = IF connection[c] = "open" THEN wire[c] \o Written(e) ELSE wire[c]
    BY DEF Publish
  <1>4. wire' \in [Connections -> Seq(Token)]
    <2>1. Written(e) \in Seq(Token)
      BY FrameFacts
    <2>2. \A c \in Connections : wire[c] \o Written(e) \in Seq(Token)
      BY <1>1, <2>1, JoinedLength
    <2> QED BY <1>1, <2>2 DEF Publish
  <1>5. StreamTypeOK'
    BY <1>2, <1>4 DEF HearInv, StreamTypeOK, Publish
  <1>6. ASSUME NEW c \in Connections
        PROVE  Hearing(published, connection[c], since[c], wire[c], buffer[c], onEvent[c])'
    <2>1. Hearing(published, connection[c], since[c], wire[c], buffer[c], onEvent[c])
      BY DEF HearInv
    <2>2. /\ since[c] \in Nat /\ wire[c] \in Seq(Token) /\ buffer[c] \in Seq(Token)
          /\ onEvent[c] \in Seq(Events)
      BY DEF HearInv, StreamTypeOK
    <2>3. Hearing(Append(published, e), connection[c], since[c],
                  IF connection[c] = "open" THEN wire[c] \o Written(e) ELSE wire[c],
                  buffer[c], onEvent[c])
      BY <1>1, <2>1, <2>2, HearingPublish
    <2>4. /\ connection' = connection /\ since' = since /\ buffer' = buffer
          /\ onEvent' = onEvent
      BY DEF Publish
    <2> QED BY <1>2, <1>3, <2>3, <2>4, Zenon
  <1> QED BY <1>5, <1>6 DEF HearInv

\* A step of one connection: what it leaves the others is what they had.
LEMMA OneConnection ==
  ASSUME HearInv, StreamTypeOK', published' = published, NEW c \in Connections,
         \A d \in Connections \ {c} :
           /\ connection'[d] = connection[d] /\ since'[d] = since[d] /\ wire'[d] = wire[d]
           /\ buffer'[d] = buffer[d] /\ onEvent'[d] = onEvent[d],
         Hearing(published, connection'[c], since'[c], wire'[c], buffer'[c], onEvent'[c])
  PROVE  HearInv'
  <1>1. ASSUME NEW d \in Connections
        PROVE  Hearing(published, connection[d], since[d], wire[d], buffer[d], onEvent[d])'
    <2>1. CASE d = c
      BY <2>1, Zenon
    <2>2. CASE d # c
      <3>1. Hearing(published, connection[d], since[d], wire[d], buffer[d], onEvent[d])
        BY DEF HearInv
      <3>2. d \in Connections \ {c}
        BY <2>2
      <3>3. /\ connection'[d] = connection[d] /\ since'[d] = since[d] /\ wire'[d] = wire[d]
            /\ buffer'[d] = buffer[d] /\ onEvent'[d] = onEvent[d]
        BY <3>2
      <3> QED BY <3>1, <3>3, Zenon
    <2> QED BY <2>1, <2>2
  <1> QED BY <1>1 DEF HearInv

LEMMA SubscribeKeeps ==
  ASSUME HearInv, NEW c \in Connections, NEW token \in Tokens, Subscribe(c, token)
  PROVE  HearInv'
  <1>1. Hearing(published, connection[c], since[c], wire[c], buffer[c], onEvent[c])
    BY DEF HearInv
  <1>2. /\ connection[c] = "new" /\ published' = published /\ buffer' = buffer
        /\ onEvent' = onEvent
    BY DEF Subscribe
  <1>3. buffer[c] = <<>> /\ onEvent[c] = <<>>
    BY <1>1, <1>2 DEF Hearing
  <1>4. CommentFrame \in Seq(Token) /\ Len(CommentFrame) = 3
    BY FrameFacts
  <1>5. StreamTypeOK'
    <2>1. /\ connection' \in [Connections -> {"new", "refused", "open", "gone", "closed"}]
          /\ since' \in [Connections -> Nat] /\ wire' \in [Connections -> Seq(Token)]
      <3> DEFINE n == Len(published)
                 frame == CommentFrame
      <3>1. n \in Nat /\ frame \in Seq(Token)
        BY <1>4 DEF HearInv, StreamTypeOK
      <3>2. \/ /\ connection' = [connection EXCEPT ![c] = "open"]
               /\ since' = [since EXCEPT ![c] = n] /\ wire' = [wire EXCEPT ![c] = frame]
            \/ /\ connection' = [connection EXCEPT ![c] = "refused"]
               /\ since' = since /\ wire' = wire
        BY DEF Subscribe
      <3> HIDE DEF n, frame
      <3> QED BY <3>1, <3>2 DEF HearInv, StreamTypeOK
    <2> QED BY <1>2, <2>1 DEF HearInv, StreamTypeOK, Subscribe
  <1>6. Hearing(published, connection'[c], since'[c], wire'[c], buffer'[c], onEvent'[c])
    <2>1. CASE token = EventsToken
      <3>1. connection'[c] = "open" /\ since'[c] = Len(published) /\ wire'[c] = CommentFrame
        BY <2>1 DEF Subscribe, HearInv, StreamTypeOK
      <3> DEFINE n == Len(published)
      <3>2. n \in Nat
        BY DEF HearInv, StreamTypeOK
      <3> HIDE DEF n
      <3>3. SubSeq(published, n + 1, n) = <<>>
        BY <3>2, SubSeqEmpty
      <3>4. <<CommentFrame, <<>>>> \in Telling
        <4>1. <<CommentFrame \o <<>>, <<>>>> \in Telling
          BY TellingFrameable, EmptySeq DEF Frameable
        <4> QED BY <1>4, <4>1, ConcatEmptySeq
      <3>5. <<>> \o CommentFrame = CommentFrame /\ <<>> \o <<>> = <<>> /\ <<>> \in Seq(Events)
        BY <1>4, EmptySeq, ConcatEmptySeq
      <3>6. CommentFrame # <<>>
        <4> DEFINE frame == CommentFrame
        <4>1. frame \in Seq(Token) /\ Len(frame) = 3
          BY <1>4
        <4> HIDE DEF frame
        <4>2. frame # <<>>
          BY <4>1
        <4> QED BY <4>2 DEF frame
      <3>7. n <= n /\ "open" \notin {"new", "refused"}
        BY <3>2
      <3>8. Hearing(published, "open", n, CommentFrame, <<>>, <<>>)
        BY <3>3, <3>4, <3>5, <3>6, <3>7, Zenon DEF Hearing, n
      <3> QED BY <1>2, <1>3, <3>1, <3>8 DEF n
    <2>2. CASE token # EventsToken
      <3>1. connection'[c] = "refused" /\ since'[c] = since[c] /\ wire'[c] = wire[c]
        BY <2>2 DEF Subscribe, HearInv, StreamTypeOK
      <3>2. Hearing(published, "refused", since[c], wire[c], buffer[c], onEvent[c])
        BY <1>1, <1>2 DEF Hearing
      <3> QED BY <1>2, <3>1, <3>2
    <2> QED BY <2>1, <2>2
  <1>7. \A d \in Connections \ {c} :
          /\ connection'[d] = connection[d] /\ since'[d] = since[d] /\ wire'[d] = wire[d]
          /\ buffer'[d] = buffer[d] /\ onEvent'[d] = onEvent[d]
    BY DEF Subscribe, HearInv, StreamTypeOK
  <1> QED BY <1>2, <1>5, <1>6, <1>7, OneConnection

LEMMA HeartbeatKeeps ==
  ASSUME HearInv, NEW c \in Connections, Heartbeat(c)
  PROVE  HearInv'
  <1>1. /\ published \in Seq(Events) /\ since[c] \in Nat /\ wire[c] \in Seq(Token)
        /\ buffer[c] \in Seq(Token) /\ onEvent[c] \in Seq(Events)
        /\ Hearing(published, connection[c], since[c], wire[c], buffer[c], onEvent[c])
    BY DEF HearInv, StreamTypeOK
  <1>2. /\ connection[c] = "open" /\ published' = published /\ connection' = connection
        /\ since' = since /\ buffer' = buffer /\ onEvent' = onEvent
        /\ wire' = [wire EXCEPT ![c] = wire[c] \o CommentFrame]
    BY DEF Heartbeat
  <1>3. wire[c] \o CommentFrame \in Seq(Token)
    BY <1>1, FrameFacts, JoinedLength, Zenon
  <1>4. beats' \in 0..MaxBeats
    BY EventStreamAssumption DEF HearInv, StreamTypeOK, Heartbeat
  <1>5. StreamTypeOK'
    BY <1>2, <1>3, <1>4 DEF HearInv, StreamTypeOK
  <1>6. /\ wire'[c] = wire[c] \o CommentFrame
        /\ \A d \in Connections \ {c} : wire'[d] = wire[d]
    BY <1>2 DEF HearInv, StreamTypeOK
  <1>7. Hearing(published, "open", since[c], wire[c] \o CommentFrame, buffer[c], onEvent[c])
    BY <1>1, <1>2, HearingHeartbeat
  <1>8. Hearing(published, connection'[c], since'[c], wire'[c], buffer'[c], onEvent'[c])
    BY <1>2, <1>6, <1>7
  <1> QED BY <1>2, <1>5, <1>6, <1>8, OneConnection

LEMMA BreakKeeps ==
  ASSUME HearInv, NEW c \in Connections, Break(c) \/ Cleanup(c)
  PROVE  HearInv'
  <1>1. Hearing(published, connection[c], since[c], wire[c], buffer[c], onEvent[c])
    BY DEF HearInv
  <1>2. /\ connection'[c] \in {"gone", "closed"} /\ published' = published /\ since' = since
        /\ buffer' = buffer /\ onEvent' = onEvent
    BY DEF Break, Cleanup, HearInv, StreamTypeOK
  <1>3. StreamTypeOK'
    <2>1. <<>> \in Seq(Token)
      BY EmptySeq
    <2>2. CASE Break(c)
      BY <2>1, <2>2 DEF Break, HearInv, StreamTypeOK
    <2>3. CASE Cleanup(c)
      BY <2>3 DEF Cleanup, HearInv, StreamTypeOK
    <2> QED BY <2>2, <2>3
  <1>4. Hearing(published, connection'[c], since'[c], wire'[c], buffer'[c], onEvent'[c])
    BY <1>1, <1>2 DEF Hearing
  <1>5. \A d \in Connections \ {c} : connection'[d] = connection[d] /\ wire'[d] = wire[d]
    BY DEF Break, Cleanup, HearInv, StreamTypeOK
  <1> QED BY <1>2, <1>3, <1>4, <1>5, OneConnection

LEMMA ReadKeeps ==
  ASSUME HearInv, NEW c \in Connections, NEW n \in 1..Len(wire[c]), Read(c, n)
  PROVE  HearInv'
  <1> DEFINE drained == Drained(buffer[c] \o SubSeq(wire[c], 1, n))
             later == SubSeq(wire[c], n + 1, Len(wire[c]))
  <1>1. /\ published \in Seq(Events) /\ since[c] \in Nat /\ wire[c] \in Seq(Token)
        /\ buffer[c] \in Seq(Token) /\ onEvent[c] \in Seq(Events)
        /\ Hearing(published, connection[c], since[c], wire[c], buffer[c], onEvent[c])
    BY DEF HearInv, StreamTypeOK
  <1>2. /\ connection[c] = "open" /\ published' = published /\ connection' = connection
        /\ since' = since /\ beats' = beats
        /\ buffer' = [buffer EXCEPT ![c] = drained.rest]
        /\ onEvent' = [onEvent EXCEPT ![c] = onEvent[c] \o drained.calls]
        /\ wire' = [wire EXCEPT ![c] = later]
    BY DEF Read
  <1>3. /\ drained.rest \in Seq(Token) /\ onEvent[c] \o drained.calls \in Seq(Events)
        /\ later \in Seq(Token)
        /\ Hearing(published, "open", since[c], later, drained.rest, onEvent[c] \o drained.calls)
    BY <1>1, <1>2, HearingRead
  <1> HIDE DEF drained, later
  <1>4. StreamTypeOK'
    BY <1>2, <1>3 DEF HearInv, StreamTypeOK
  <1>5. /\ buffer'[c] = drained.rest /\ onEvent'[c] = onEvent[c] \o drained.calls
        /\ wire'[c] = later
        /\ \A d \in Connections \ {c} :
             wire'[d] = wire[d] /\ buffer'[d] = buffer[d] /\ onEvent'[d] = onEvent[d]
    BY <1>2 DEF HearInv, StreamTypeOK
  <1>6. Hearing(published, connection'[c], since'[c], wire'[c], buffer'[c], onEvent'[c])
    BY <1>2, <1>3, <1>5
  <1> QED BY <1>2, <1>4, <1>5, <1>6, OneConnection

LEMMA HearInvNext == HearInv /\ [StreamNext]_streamVars => HearInv'
  <1> SUFFICES ASSUME HearInv, [StreamNext]_streamVars PROVE HearInv'
    OBVIOUS
  <1>1. CASE UNCHANGED streamVars
    BY <1>1 DEF streamVars, HearInv, StreamTypeOK
  <1>2. ASSUME NEW e \in Events, Publish(e) PROVE HearInv'
    BY <1>2, PublishKeeps
  <1>3. ASSUME NEW c \in Connections, NEW token \in Tokens, Subscribe(c, token) PROVE HearInv'
    BY <1>3, SubscribeKeeps
  <1>4. ASSUME NEW c \in Connections, Heartbeat(c) PROVE HearInv'
    BY <1>4, HeartbeatKeeps
  <1>5. ASSUME NEW c \in Connections, Break(c) \/ Cleanup(c) PROVE HearInv'
    BY <1>5, BreakKeeps
  <1>6. ASSUME NEW c \in Connections, NEW n \in 1..Len(wire[c]), Read(c, n) PROVE HearInv'
    BY <1>6, ReadKeeps
  <1> QED BY <1>1, <1>2, <1>3, <1>4, <1>5, <1>6 DEF StreamNext

LEMMA ConcatPrefix ==
  ASSUME NEW x \in Seq(Events), NEW y \in Seq(Events)
  PROVE  IsPrefix(x, x \o y)
  <1> DEFINE k == Len(x)
             z == x \o y
  <1>1. k \in Nat /\ z \in Seq(Events) /\ Len(z) = k + Len(y) /\ k <= Len(z)
        /\ \A i \in 1..k : z[i] = x[i]
    OBVIOUS
  <1>2. /\ 1 \in 1..(k + 1) /\ 1 \in 1..(Len(z) + 1) /\ k \in (1 - 1)..k /\ k \in (1 - 1)..Len(z)
        /\ k - 1 + 1 = k /\ \A i \in 1..k : 1 + i - 1 = i
    BY <1>1
  <1>3. /\ SubSeq(x, 1, k) \in Seq(Events) /\ Len(SubSeq(x, 1, k)) = k
        /\ \A i \in 1..k : SubSeq(x, 1, k)[i] = x[i]
    BY <1>2, Slice
  <1> HIDE DEF z, k
  <1>4. /\ SubSeq(z, 1, k) \in Seq(Events) /\ Len(SubSeq(z, 1, k)) = k
        /\ \A i \in 1..k : SubSeq(z, 1, k)[i] = z[i]
    BY <1>1, <1>2, Slice
  <1>5. \A i \in 1..k : SubSeq(x, 1, k)[i] = SubSeq(z, 1, k)[i]
    BY <1>1, <1>3, <1>4
  <1>6. SubSeq(x, 1, k) = SubSeq(z, 1, k)
    BY <1>3, <1>4, <1>5, SeqEqual
  <1> QED BY <1>1, <1>6 DEF IsPrefix, k, z

LEMMA HearInvHears == HearInv => HeardInOrder
  <1> SUFFICES ASSUME HearInv, NEW c \in Connections
               PROVE  LET due == SubSeq(published, since[c] + 1, Len(published))
                      IN  /\ IsPrefix(onEvent[c], due)
                          /\ connection[c] = "open" /\ wire[c] = <<>> => onEvent[c] = due
                          /\ connection[c] \in {"new", "refused"} => onEvent[c] = <<>>
    BY DEF HearInv, HeardInOrder
  <1> DEFINE due == SubSeq(published, since[c] + 1, Len(published))
  <1>1. Hearing(published, connection[c], since[c], wire[c], buffer[c], onEvent[c])
    BY DEF HearInv
  <1>2. onEvent[c] \in Seq(Events)
    BY DEF HearInv, StreamTypeOK
  <1>3. IsPrefix(onEvent[c], due)
    <2>1. PICK s \in Seq(Events) : onEvent[c] \o s = due
      BY <1>1 DEF Hearing
    <2>2. IsPrefix(onEvent[c], onEvent[c] \o s)
      BY <1>2, ConcatPrefix
    <2> QED BY <2>1, <2>2
  <1>4. ASSUME connection[c] = "open", wire[c] = <<>> PROVE onEvent[c] = due
    <2>1. PICK s \in Seq(Events) :
            <<buffer[c] \o wire[c], s>> \in Telling /\ onEvent[c] \o s = due
      BY <1>1, <1>4 DEF Hearing
    <2>2. buffer[c] = <<>> /\ <<>> \o <<>> = <<>>
      BY <1>1, <1>4, EmptySeq, ConcatEmptySeq DEF Hearing
    <2>3. <<<<>>, s>> \in Telling /\ <<>> \in Seq(Token)
      BY <1>4, <2>1, <2>2, EmptySeq
    <2>4. s = <<>>
      <3>1. ASSUME NEW F \in Seq(Token), NEW u \in Seq(Token), NEW x, IsFrame(F, x)
            PROVE  F \o u # <<>>
        <4>1. Len(F \o u) = Len(F) + Len(u) /\ Len(F) > 2
          BY <3>1, JoinedLength DEF IsFrame
        <4> DEFINE z == F \o u
        <4>2. z \in Seq(Token) /\ Len(z) # 0
          BY <3>1, <4>1, JoinedLength
        <4> HIDE DEF z
        <4>3. z # <<>>
          BY <4>2
        <4> QED BY <4>3 DEF z
      <3>2. ASSUME NEW F \in Seq(Token), NEW u \in Seq(Token), NEW x, IsFrame(F, x),
                   <<>> = F \o u
            PROVE  FALSE
        BY <3>1, <3>2
      <3>3. \/ <<>> = <<>> /\ s = <<>>
            \/ \E F, u \in Seq(Token), x, v \in Seq(Events) :
                 IsFrame(F, x) /\ <<u, v>> \in Telling /\ <<>> = F \o u /\ s = x \o v
        BY <2>3, NextFrame
      <3> QED BY <3>2, <3>3
    <2> QED BY <1>2, <2>1, <2>4, ConcatEmptySeq
  <1>5. connection[c] \in {"new", "refused"} => onEvent[c] = <<>>
    BY <1>1 DEF Hearing
  <1> QED BY <1>3, <1>4, <1>5

\* Wherever the chunks end that the stream is read in, however many events there are and
\* whatever comments are between them, a reader is called with the events published since
\* it subscribed, in order, each once and without a gap, and with all of them once nothing
\* is on its way.
THEOREM HeardAsPublished == StreamSpec => []HeardInOrder
  <1>1. StreamInit => HearInv
    BY HearInvInit
  <1>2. HearInv /\ [StreamNext]_streamVars => HearInv'
    BY HearInvNext
  <1>3. HearInv => HeardInOrder
    BY HearInvHears
  <1> QED BY <1>1, <1>2, <1>3, PTL DEF StreamSpec
=============================================================================
