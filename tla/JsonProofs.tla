-------------------------------- MODULE JsonProofs --------------------------------
(***************************************************************************)
(* Proofs about JsonRegistry for any files, edits and delays.              *)
(***************************************************************************)
EXTENDS JsonRegistry, TLAPS

Held == Files \cup {Broken}
Reading == [pc: {"read", "parse"}, ref: JsonRefs, file: Held, began: Nat]

\* A read that is done saw the file during it, and is within its ReadTime.
InService ==
  \A l \in Reloads : reload[l] # NoReload =>
    /\ jsonNow <= reload[l].began + ReadTime
    /\ reload[l].began <= jsonNow
    /\ reload[l].pc = "parse" => HeldSince(reload[l].file, reload[l].began)

\* A file that is Broken is never put in use.
Loadable == entries \in Files

\* The map is a content that the file held one read before lastLoadedAt.
MapOK ==
  /\ Loadable
  /\ loaded <= jsonNow
  /\ HeldSince(entries, loaded - ReadTime)

ResultOK ==
  /\ jsonResult.ref \in JsonRefs \cup {NoDoc}
  /\ jsonResult.at \in Nat /\ jsonResult.at <= jsonNow

LEMMA ReadFacts ==
  ASSUME JsonTypeOK, NEW l \in Reloads,
         reload[l] # NoReload \/ reload[l].pc = "read" \/ reload[l].pc = "parse"
  PROVE  /\ reload[l] # NoReload
         /\ reload[l] \in Reading
         /\ reload[l].ref \in JsonRefs
         /\ reload[l].file \in Held
         /\ reload[l].began \in Nat
  <1>1. reload[l] # NoReload
    BY DEF NoReload
  <1>2. reload[l] \in Reading
    BY <1>1 DEF JsonTypeOK, Reading, Held
  <1> QED BY <1>1, <1>2 DEF Reading

-----------------------------------------------------------------------------
(* Types. *)

LEMMA TypeInit == JsonInit => JsonTypeOK /\ Loadable
  BY JsonAssumption DEF JsonInit, JsonTypeOK, Loadable, NoReload

LEMMA TypeNext == JsonTypeOK /\ Loadable /\ [JsonNext]_jsonVars => JsonTypeOK' /\ Loadable'
  <1> SUFFICES ASSUME JsonTypeOK, Loadable, [JsonNext]_jsonVars
               PROVE  JsonTypeOK' /\ Loadable'
    OBVIOUS
  <1> USE JsonAssumption DEF JsonTypeOK, Loadable
  <1>1. CASE JsonTick
    BY <1>1 DEF JsonTick
  <1>2. ASSUME NEW f \in Edits, Edit(f) PROVE JsonTypeOK' /\ Loadable'
    <2>1. f \in Held
      BY DEF Held
    <2>2. past' \subseteq [file: Held, at: Nat]
      BY <1>2 DEF Edit, Held
    <2> QED BY <1>2, <2>1, <2>2 DEF Edit, Held
  <1>3. ASSUME NEW r \in JsonRefs, Recent(r) PROVE JsonTypeOK' /\ Loadable'
    BY <1>3 DEF Recent
  <1>4. ASSUME NEW l \in Reloads, NEW r \in JsonRefs, Begin(l, r)
        PROVE  JsonTypeOK' /\ Loadable'
    BY <1>4 DEF Begin
  <1>5. ASSUME NEW l \in Reloads, Read(l) PROVE JsonTypeOK' /\ Loadable'
    <2>1. reload[l] \in Reading
      BY <1>5, ReadFacts DEF Read
    <2>2. [reload[l] EXCEPT !.pc = "parse", !.file = file] \in Reading
      BY <2>1 DEF Reading, Held
    <2> QED BY <1>5, <2>2 DEF Read, Reading, Held
  <1>6. ASSUME NEW l \in Reloads, Load(l) PROVE JsonTypeOK' /\ Loadable'
    <2>1. reload[l].file \in Held
      BY <1>6, ReadFacts DEF Load
    <2>2. entries' \in Files /\ loaded' \in Nat
      BY <1>6, <2>1 DEF Load, LoadInto, Held
    <2> QED BY <1>6, <2>2 DEF Load
  <1>7. CASE UNCHANGED jsonVars
    BY <1>7 DEF jsonVars
  <1> QED BY <1>1, <1>2, <1>3, <1>4, <1>5, <1>6, <1>7 DEF JsonNext

\* Type correctness of the file backend.
THEOREM JsonTypes == JsonSpec => []JsonTypeOK
  BY TypeInit, TypeNext, PTL DEF JsonSpec

-----------------------------------------------------------------------------
(* The past of the file. *)

LEMMA HeldKept ==
  ASSUME JsonTypeOK, [JsonNext]_jsonVars, NEW f, NEW t \in Int, t <= jsonNow, HeldSince(f, t)
  PROVE  file' = f \/ \E p \in past' : p.file = f /\ p.at >= t
  <1>1. CASE \E g \in Edits : Edit(g)
    <2> DEFINE old == [file |-> file, at |-> jsonNow]
    <2>1. past' = past \cup {old}
      BY <1>1 DEF Edit
    <2>2. old.file = file /\ old.at = jsonNow
      OBVIOUS
    <2> HIDE DEF old
    <2> QED BY <2>1, <2>2 DEF HeldSince
  <1>2. CASE UNCHANGED <<file, past>>
    BY <1>2 DEF HeldSince
  <1>3. (\E g \in Edits : Edit(g)) \/ UNCHANGED <<file, past>>
    BY DEF JsonNext, jsonVars, JsonTick, Recent, Begin, Read, Load
  <1> QED BY <1>1, <1>2, <1>3

LEMMA Earlier ==
  ASSUME JsonTypeOK, NEW f, NEW s \in Int, NEW t \in Int, s <= t, HeldSince(f, t)
  PROVE  HeldSince(f, s)
  <1>1. \A p \in past : p.at \in Nat
    BY DEF JsonTypeOK
  <1> QED BY <1>1 DEF HeldSince

LEMMA NowNext ==
  ASSUME JsonTypeOK, [JsonNext]_jsonVars
  PROVE  jsonNow \in Nat /\ jsonNow' \in Nat /\ jsonNow <= jsonNow' /\ (jsonNow' = jsonNow \/ JsonTick)
  <1>1. jsonNow \in Nat
    BY DEF JsonTypeOK
  <1>2. jsonNow' = jsonNow \/ (JsonTick /\ jsonNow' = jsonNow + 1)
    BY DEF JsonNext, jsonVars, JsonTick, Edit, Recent, Begin, Read, Load
  <1> QED BY <1>1, <1>2

-----------------------------------------------------------------------------
LEMMA InServiceNext ==
  ASSUME JsonTypeOK, InService, [JsonNext]_jsonVars PROVE InService'
  <1> USE JsonAssumption
  <1> DEFINE Fine(l) ==
        /\ jsonNow <= reload[l].began + ReadTime
        /\ reload[l].began <= jsonNow
        /\ reload[l].pc = "parse" => HeldSince(reload[l].file, reload[l].began)
  <1> SUFFICES ASSUME NEW l \in Reloads, reload'[l] # NoReload PROVE Fine(l)'
    BY DEF InService, NoReload
  <1>1. CASE reload'[l] = reload[l]
    <2>1. reload[l] # NoReload /\ Fine(l)
      BY <1>1 DEF InService
    <2>2. reload[l].began \in Nat
      BY <2>1, ReadFacts
    <2>3. jsonNow' <= reload[l].began + ReadTime /\ reload[l].began <= jsonNow'
      BY <2>1, <2>2, NowNext DEF JsonTick
    <2>4. ASSUME reload[l].pc = "parse"
          PROVE  \/ file' = reload[l].file
                 \/ \E p \in past' : /\ p.file = reload[l].file
                                     /\ p.at >= reload[l].began
      BY <2>1, <2>2, <2>4, HeldKept
    <2> QED BY <1>1, <2>3, <2>4 DEF HeldSince
  <1>2. ASSUME NEW r \in JsonRefs, Begin(l, r) PROVE Fine(l)'
    <2>1. reload'[l] = [pc |-> "read", ref |-> r, file |-> Broken, began |-> jsonNow]
      BY <1>2 DEF Begin, JsonTypeOK
    <2> QED BY <1>2, <2>1, NowNext DEF Begin
  <1>3. CASE Read(l)
    <2>1. reload[l] # NoReload /\ reload[l] \in Reading
      BY <1>3, ReadFacts DEF Read
    <2>2. /\ reload'[l].file = file /\ reload'[l].began = reload[l].began
          /\ file' = file /\ jsonNow' = jsonNow
      BY <1>3, <2>1 DEF Read, JsonTypeOK, Reading
    <2> QED BY <2>1, <2>2 DEF HeldSince, InService
  <1>4. CASE Load(l)
    BY <1>4 DEF Load, JsonTypeOK
  <1> QED BY <1>1, <1>2, <1>3, <1>4
          DEF JsonNext, jsonVars, JsonTick, Edit, Recent, Begin, Read, Load, JsonTypeOK

LEMMA MapNext ==
  ASSUME JsonTypeOK, InService, MapOK, [JsonNext]_jsonVars PROVE MapOK'
  <1> USE JsonAssumption
  <1>1. Loadable'
    BY TypeNext DEF MapOK
  <1>2. loaded \in Nat /\ loaded - ReadTime \in Int /\ loaded - ReadTime <= jsonNow
    BY NowNext DEF JsonTypeOK, MapOK
  <1>3. CASE entries' = entries /\ loaded' = loaded
    <2>1. \/ file' = entries
          \/ \E p \in past' : p.file = entries /\ p.at >= loaded - ReadTime
      BY <1>2, HeldKept DEF MapOK
    <2>2. loaded <= jsonNow'
      BY <1>2, NowNext DEF MapOK
    <2> QED BY <1>1, <1>3, <2>1, <2>2 DEF MapOK, HeldSince
  <1>4. ASSUME NEW l \in Reloads, Load(l), reload[l].file # Broken PROVE MapOK'
    <2>1. /\ reload[l] # NoReload /\ reload[l].began \in Nat
          /\ jsonNow <= reload[l].began + ReadTime
          /\ HeldSince(reload[l].file, reload[l].began)
      BY <1>4, ReadFacts DEF Load, InService
    <2>2. jsonNow \in Nat /\ jsonNow - ReadTime \in Int /\ jsonNow - ReadTime <= reload[l].began
      BY <2>1, NowNext
    <2>3. HeldSince(reload[l].file, jsonNow - ReadTime)
      BY <2>1, <2>2, Earlier
    <2>4. /\ entries' = reload[l].file /\ loaded' = jsonNow
          /\ jsonNow' = jsonNow /\ file' = file /\ past' = past
      BY <1>4 DEF Load, LoadInto
    <2> QED BY <1>1, <2>2, <2>3, <2>4 DEF MapOK, HeldSince
  <1> QED BY <1>3, <1>4 DEF JsonNext, jsonVars, JsonTick, Edit, Recent, Begin, Read, Load

\* The map in use is always one whole content that the file has held.
THEOREM MapIsWhole == JsonSpec => []WholeContents
  <1>1. JsonInit => JsonTypeOK /\ InService /\ MapOK
    BY TypeInit, JsonAssumption
       DEF JsonInit, InService, MapOK, HeldSince, NoReload
  <1>2. JsonTypeOK /\ InService /\ MapOK /\ [JsonNext]_jsonVars
          => JsonTypeOK' /\ InService' /\ MapOK'
    BY TypeNext, InServiceNext, MapNext DEF MapOK
  <1>3. JsonTypeOK /\ MapOK => WholeContents
    BY DEF JsonTypeOK, MapOK, WholeContents, HeldSince
  <1> QED BY <1>1, <1>2, <1>3, PTL DEF JsonSpec

-----------------------------------------------------------------------------
(* The answers. *)

\* What StaleOnlyWhileBroken says of one answer, told by the state after it.
LEMMA AnswerKept ==
  ASSUME JsonTypeOK, ResultOK, StaleOnlyWhileBroken, [JsonNext]_jsonVars, jsonResult' = jsonResult
  PROVE  StaleOnlyWhileBroken' /\ ResultOK'
  <1> USE JsonAssumption
  <1>1. ResultOK'
    BY NowNext DEF ResultOK
  <1>2. CASE jsonResult.ref = NoDoc
    BY <1>1, <1>2 DEF StaleOnlyWhileBroken
  <1>3. CASE jsonResult.ref # NoDoc
    <2> DEFINE soon == jsonResult.at - ReadTime
               old == jsonResult.at - JsonAge
    <2>1. soon \in Int /\ old \in Int /\ soon <= jsonNow /\ old <= jsonNow
      BY NowNext DEF ResultOK, JsonAge
    <2> HIDE DEF soon, old
    <2>2. CASE HeldSince(Broken, soon)
      <3>1. file' = Broken \/ \E p \in past' : p.file = Broken /\ p.at >= soon
        BY <2>1, <2>2, HeldKept
      <3> QED BY <1>1, <3>1 DEF StaleOnlyWhileBroken, HeldSince, soon
    <2>3. ASSUME NEW f \in Files, HeldSince(f, old), f[jsonResult.ref] = jsonResult.doc
          PROVE  StaleOnlyWhileBroken'
      <3>1. file' = f \/ \E p \in past' : p.file = f /\ p.at >= old
        BY <2>1, <2>3, HeldKept
      <3> QED BY <2>3, <3>1 DEF StaleOnlyWhileBroken, HeldSince, old, JsonAge
    <2> QED BY <1>1, <1>3, <2>2, <2>3 DEF StaleOnlyWhileBroken, soon, old
  <1> QED BY <1>2, <1>3

\* Every answer is given from the map of MapOK, or by a read that failed.
LEMMA AnswerFresh ==
  ASSUME JsonTypeOK, MapOK, NEW r \in JsonRefs, NEW began,
         Return(r, entries'[r], began), UNCHANGED <<jsonNow, file, past>>,
         \/ entries' = entries /\ ~Due
         \/ HeldSince(entries', jsonNow - ReadTime) /\ entries' \in Files
         \/ HeldSince(Broken, jsonNow - ReadTime)
  PROVE  StaleOnlyWhileBroken' /\ ResultOK'
  <1> USE JsonAssumption
  <1>1. /\ jsonNow \in Nat /\ jsonNow' = jsonNow /\ file' = file /\ past' = past
        /\ jsonResult'.ref = r /\ jsonResult'.doc = entries'[r] /\ jsonResult'.at = jsonNow
    BY DEF JsonTypeOK, Return
  <1>2. ResultOK'
    BY <1>1 DEF ResultOK
  <1>3. jsonNow - JsonAge \in Int /\ jsonNow - ReadTime \in Int /\ jsonNow - JsonAge <= jsonNow - ReadTime
    BY <1>1 DEF JsonAge
  <1>4. CASE HeldSince(Broken, jsonNow - ReadTime)
    BY <1>1, <1>2, <1>4 DEF StaleOnlyWhileBroken, HeldSince
  <1>5. ASSUME HeldSince(entries', jsonNow - JsonAge), entries' \in Files
        PROVE  StaleOnlyWhileBroken'
    BY <1>1, <1>5 DEF StaleOnlyWhileBroken, HeldSince, JsonAge
  <1>6. CASE HeldSince(entries', jsonNow - ReadTime) /\ entries' \in Files
    BY <1>2, <1>3, <1>5, <1>6, Earlier
  <1>7. CASE entries' = entries /\ ~Due
    <2>1. loaded \in Nat /\ loaded - ReadTime \in Int /\ jsonNow - JsonAge <= loaded - ReadTime
      BY <1>1, <1>7 DEF Due, JsonAge, JsonTypeOK
    <2>2. HeldSince(entries, jsonNow - JsonAge)
      BY <1>3, <2>1, Earlier DEF MapOK
    <2> QED BY <1>2, <1>5, <1>7, <2>2 DEF MapOK, Loadable
  <1> QED BY <1>4, <1>6, <1>7

\* The read of a lookup that returns saw the file at most ReadTime before.
LEMMA LoadSaw ==
  ASSUME JsonTypeOK, InService, NEW l \in Reloads, Load(l)
  PROVE  /\ reload[l].ref \in JsonRefs
         /\ HeldSince(reload[l].file, jsonNow - ReadTime)
         /\ reload[l].file \in Held
  <1>1. /\ reload[l] # NoReload /\ reload[l].began \in Nat /\ reload[l].ref \in JsonRefs
        /\ reload[l].file \in Held
        /\ jsonNow <= reload[l].began + ReadTime
        /\ HeldSince(reload[l].file, reload[l].began)
    BY ReadFacts DEF Load, InService
  <1>2. jsonNow - ReadTime \in Int /\ jsonNow - ReadTime <= reload[l].began
    BY <1>1, JsonAssumption DEF JsonTypeOK
  <1> QED BY <1>1, <1>2, Earlier

LEMMA AnswerNext ==
  ASSUME JsonTypeOK, InService, MapOK, ResultOK, StaleOnlyWhileBroken, [JsonNext]_jsonVars
  PROVE  StaleOnlyWhileBroken' /\ ResultOK'
  <1>1. ASSUME NEW r \in JsonRefs, Recent(r)
        PROVE  StaleOnlyWhileBroken' /\ ResultOK'
    BY <1>1, AnswerFresh DEF Recent
  <1>2. ASSUME NEW l \in Reloads, Load(l)
        PROVE  StaleOnlyWhileBroken' /\ ResultOK'
    <2>1. /\ reload[l].ref \in JsonRefs
          /\ HeldSince(reload[l].file, jsonNow - ReadTime)
          /\ reload[l].file \in Held
      BY <1>2, LoadSaw
    <2>2. /\ Return(reload[l].ref, entries'[reload[l].ref], reload[l].began)
          /\ UNCHANGED <<jsonNow, file, past>>
          /\ reload[l].file # Broken => entries' = reload[l].file
      BY <1>2 DEF Load, LoadInto
    <2>3. \/ HeldSince(entries', jsonNow - ReadTime) /\ entries' \in Files
          \/ HeldSince(Broken, jsonNow - ReadTime)
      BY <2>1, <2>2 DEF Held
    <2> QED BY <2>1, <2>2, <2>3, AnswerFresh
  <1>3. CASE jsonResult' = jsonResult
    BY <1>3, AnswerKept
  <1> QED BY <1>1, <1>2, <1>3 DEF JsonNext, jsonVars, JsonTick, Edit, Begin, Read

LEMMA ServiceInit ==
  JsonInit => InService /\ MapOK /\ ResultOK /\ StaleOnlyWhileBroken
  BY TypeInit, JsonAssumption
     DEF JsonInit, InService, MapOK, ResultOK, StaleOnlyWhileBroken, HeldSince, NoReload

\* However reads overlap, fail and return late, an answer is older than the
\* reload interval and one read only around a time when the file is broken.
THEOREM AnswersAreFresh == JsonSpec => []StaleOnlyWhileBroken
  <1>1. JsonInit => /\ JsonTypeOK /\ InService /\ MapOK
                    /\ ResultOK /\ StaleOnlyWhileBroken
    BY TypeInit, ServiceInit
  <1>2. /\ JsonTypeOK /\ InService /\ MapOK /\ ResultOK /\ StaleOnlyWhileBroken
        /\ [JsonNext]_jsonVars
        => /\ JsonTypeOK' /\ InService' /\ MapOK'
           /\ ResultOK' /\ StaleOnlyWhileBroken'
    BY TypeNext, InServiceNext, MapNext, AnswerNext DEF MapOK
  <1> QED BY <1>1, <1>2, PTL DEF JsonSpec

-----------------------------------------------------------------------------
(* The resolver's view of a file that is only replaced whole. *)

Gone == {[ref |-> q[2], doc |-> q[1].file[q[2]], at |-> q[1].at] : q \in past \X JsonRefs}
Said == [ref |-> jsonResult.ref, doc |-> jsonResult.doc, fresh |-> jsonResult.ref # NoDoc,
         at |-> jsonResult.at]

\* The Directory that Resolver assumes (RegistryAge), of age JsonAge.
D == INSTANCE Directory WITH
  Refs <- JsonRefs, Docs <- JsonDocs, None <- NoDoc, now <- jsonNow,
  Age <- JsonAge, FreshAge <- JsonAge, Sure <- TRUE, published <- file, gone <- Gone, answer <- Said

NeverBroken == file \in Files /\ \A p \in past : p.file \in Files

LEMMA NeverBrokenNext ==
  ASSUME Edits \subseteq Files, NeverBroken, [JsonNext]_jsonVars PROVE NeverBroken'
  <1>1. ASSUME NEW f \in Edits, Edit(f) PROVE NeverBroken'
    <2> DEFINE old == [file |-> file, at |-> jsonNow]
    <2>1. file' = f /\ past' = past \cup {old} /\ old.file = file
      BY <1>1 DEF Edit
    <2> HIDE DEF old
    <2> QED BY <2>1 DEF NeverBroken
  <1>2. CASE UNCHANGED <<file, past>>
    BY <1>2 DEF NeverBroken
  <1> QED BY <1>1, <1>2 DEF JsonNext, jsonVars, JsonTick, Recent, Begin, Read, Load

LEMMA OldHeld ==
  ASSUME NEW f, NEW t, HeldSince(f, t), NEW r \in JsonRefs
  PROVE  D!CurrentSince(r, f[r], t)
  <1>1. CASE file = f
    BY <1>1 DEF D!CurrentSince
  <1>2. ASSUME NEW p \in past, p.file = f, p.at >= t
        PROVE  D!CurrentSince(r, f[r], t)
    <2> DEFINE g == [ref |-> r, doc |-> p.file[r], at |-> p.at]
    <2>1. g \in Gone
      <3>1. <<p, r>> \in past \X JsonRefs
        OBVIOUS
      <3>2. g = [ref |-> <<p, r>>[2], doc |-> <<p, r>>[1].file[<<p, r>>[2]],
                 at |-> <<p, r>>[1].at]
        OBVIOUS
      <3> HIDE DEF g
      <3> QED BY <3>1, <3>2 DEF Gone
    <2>2. g.ref = r /\ g.doc = f[r] /\ g.at >= t
      BY <1>2
    <2> HIDE DEF g
    <2> QED BY <2>1, <2>2 DEF D!CurrentSince
  <1> QED BY <1>1, <1>2 DEF HeldSince

LEMMA SaysWhatWasHeld ==
  ASSUME NeverBroken, StaleOnlyWhileBroken', JsonTypeOK, NEW r \in JsonRefs, NEW began,
         Return(r, entries'[r], began), UNCHANGED <<jsonNow, file, past>>
  PROVE  D!Answer(r, entries'[r], TRUE)
  <1> USE JsonAssumption
  <1>1. /\ jsonResult' = [ref |-> r, doc |-> entries'[r], began |-> began, at |-> jsonNow]
        /\ jsonNow' = jsonNow /\ file' = file /\ past' = past /\ r # NoDoc
    BY DEF Return
  <1>2. \/ HeldSince(Broken, jsonNow - ReadTime)
        \/ \E f \in Files : HeldSince(f, jsonNow - JsonAge) /\ f[r] = entries'[r]
    <2>1. jsonResult'.ref = r /\ jsonResult'.doc = entries'[r] /\ jsonResult'.at = jsonNow
      BY <1>1
    <2> QED BY <1>1, <2>1 DEF StaleOnlyWhileBroken, HeldSince
  <1>3. ~HeldSince(Broken, jsonNow - ReadTime)
    BY DEF HeldSince, NeverBroken
  <1>4. D!CurrentSince(r, entries'[r], jsonNow - JsonAge)
    BY <1>2, <1>3, OldHeld
  <1>5. /\ Said' = [ref |-> r, doc |-> entries'[r], fresh |-> TRUE, at |-> jsonNow]
        /\ Gone' = Gone
    BY <1>1 DEF Said, Gone
  <1> QED BY <1>1, <1>4, <1>5 DEF D!Answer

LEMMA DirectoryStep ==
  ASSUME Edits \subseteq Files, JsonTypeOK, InService, MapOK, ResultOK, NeverBroken,
         StaleOnlyWhileBroken, [JsonNext]_jsonVars
  PROVE  [D!Next]_(D!vars)
  <1> USE JsonAssumption
  <1>0. StaleOnlyWhileBroken'
    BY AnswerNext
  <1>1. CASE JsonTick
    BY <1>1 DEF JsonTick, D!Next, D!Tick, Gone, Said
  <1>2. ASSUME NEW f \in Edits, Edit(f) PROVE D!Next
    <2> DEFINE old == [file |-> file, at |-> jsonNow]
               Left(q) == [ref |-> q[2], doc |-> q[1].file[q[2]], at |-> q[1].at]
    <2>1. /\ jsonNow' = jsonNow /\ file' = f /\ past' = past \cup {old}
          /\ jsonResult' = jsonResult
      BY <1>2 DEF Edit
    <2>2. /\ Gone = {Left(q) : q \in past \X JsonRefs}
          /\ Gone' = {Left(q) : q \in past' \X JsonRefs}
      BY DEF Gone
    <2>3. \A r \in JsonRefs : Left(<<old, r>>) = [ref |-> r, doc |-> file[r], at |-> jsonNow]
      OBVIOUS
    <2> HIDE DEF old, Left
    <2>4. {Left(q) : q \in past' \X JsonRefs}
            = {Left(q) : q \in past \X JsonRefs} \cup {Left(<<old, r>>) : r \in JsonRefs}
      <3>1. past' \X JsonRefs = (past \X JsonRefs) \cup {<<old, r>> : r \in JsonRefs}
        BY <2>1
      <3> DEFINE was == past \X JsonRefs
                 is == {<<old, r>> : r \in JsonRefs}
      <3>2. \A q : q \in is <=> \E r \in JsonRefs : q = <<old, r>>
        OBVIOUS
      <3>3. {Left(q) : q \in is} = {Left(<<old, r>>) : r \in JsonRefs}
        BY <3>2
      <3>4. past' \X JsonRefs = was \cup is
        BY <3>1
      <3> HIDE DEF was, is
      <3>5. {Left(q) : q \in was \cup is} = {Left(q) : q \in was} \cup {Left(q) : q \in is}
        OBVIOUS
      <3> QED BY <3>3, <3>4, <3>5 DEF was
    <2>5. {Left(<<old, r>>) : r \in JsonRefs}
            = {[ref |-> r, doc |-> file[r], at |-> jsonNow] : r \in JsonRefs}
      BY <2>3
    <2>6. Gone' = Gone \cup {[ref |-> r, doc |-> file[r], at |-> jsonNow] : r \in JsonRefs}
      BY <2>2, <2>4, <2>5
    <2>7. Said' = Said
      BY <2>1 DEF Said
    <2>8. D!Publish(file', JsonRefs)
      BY <2>1, <2>6, <2>7 DEF D!Publish
    <2> QED BY <2>8 DEF D!Next
  <1>3. ASSUME NEW r \in JsonRefs, NEW began, Return(r, entries'[r], began),
               UNCHANGED <<jsonNow, file, past>>
        PROVE  D!Next
    <2>1. D!Answer(r, entries'[r], TRUE)
      BY <1>0, <1>3, SaysWhatWasHeld
    <2>2. r = Said'.ref /\ entries'[r] = Said'.doc /\ TRUE = Said'.fresh
      BY <1>3 DEF Return, Said
    <2> QED BY <2>1, <2>2 DEF D!Next
  <1>4. ASSUME NEW l \in Reloads, Load(l) PROVE D!Next
    BY <1>3, <1>4, LoadSaw DEF Load
  <1>5. ASSUME NEW r \in JsonRefs, Recent(r) PROVE D!Next
    BY <1>3, <1>5 DEF Recent
  <1>6. CASE UNCHANGED <<jsonNow, file, past, jsonResult>>
    BY <1>6 DEF D!vars, Gone, Said
  <1> QED BY <1>1, <1>2, <1>4, <1>5, <1>6 DEF JsonNext, jsonVars, Begin, Read

\* An operator who replaces the file atomically has the Directory that the
\* resolver takes the backend for.
THEOREM FileIsDirectory == ASSUME Edits \subseteq Files PROVE JsonSpec => D!Spec
  <1>1. JsonInit => D!Init
    <2> SUFFICES ASSUME JsonInit PROVE D!Init
      OBVIOUS
    <2>1. Said = D!NoAnswer
      BY DEF JsonInit, Said, D!NoAnswer
    <2>2. past \X JsonRefs = {}
      BY DEF JsonInit
    <2>3. Gone = {}
      BY <2>2 DEF Gone
    <2> QED BY <2>1, <2>3, JsonAssumption DEF JsonInit, D!Init
  <1>2. JsonInit => /\ JsonTypeOK /\ InService /\ MapOK
                    /\ ResultOK /\ StaleOnlyWhileBroken /\ NeverBroken
    BY TypeInit, ServiceInit DEF JsonInit, NeverBroken
  <1>3. /\ JsonTypeOK /\ InService /\ MapOK /\ ResultOK /\ StaleOnlyWhileBroken
        /\ NeverBroken /\ [JsonNext]_jsonVars
        => /\ JsonTypeOK' /\ InService' /\ MapOK' /\ ResultOK'
           /\ StaleOnlyWhileBroken' /\ NeverBroken' /\ [D!Next]_(D!vars)
    BY TypeNext, InServiceNext, MapNext, AnswerNext, NeverBrokenNext,
       DirectoryStep DEF MapOK
  <1> QED BY <1>1, <1>2, <1>3, PTL DEF JsonSpec, D!Spec
=============================================================================
