------------------------------ MODULE JsonRegistry ------------------------------
(***************************************************************************)
(* The file backend of the resolver                                        *)
(* (packages/resolver/src/registry.ts, JsonFileRegistry).  A lookup more   *)
(* than ReloadEvery after the last successful load reads the file first,   *)
(* and awaits that; lookups that overlap each read it for themselves.      *)
(***************************************************************************)
EXTENDS Integers, FiniteSets

CONSTANTS
  JsonRefs,     \* agents, documents, and none
  JsonDocs, NoDoc,
  Files,        \* contents that pass load's checks: functions of JsonRefs
  Broken,       \* a content that does not, or no readable file
  Edits,        \* what the operator's editor leaves behind
  ReloadEvery,  \* reloadEveryMs
  ReadTime,     \* the longest a readFile takes
  Reloads,      \* lookups in flight (bound)
  MaxEdits,     \* edits (bound)
  JsonTime      \* clock (bound)

ASSUME JsonAssumption ==
  /\ Files \subseteq [JsonRefs -> JsonDocs \cup {NoDoc}] /\ Files # {}
  /\ Edits \subseteq Files \cup {Broken}
  /\ NoDoc \notin JsonDocs \cup JsonRefs /\ Broken \notin Files
  /\ ReloadEvery \in Nat /\ ReadTime \in Nat
  /\ MaxEdits \in Nat /\ JsonTime \in Nat

VARIABLES
  jsonNow,    \* Date.now()
  file,       \* what the operator's file holds
  past,       \* superseded contents: [file, at]
  entries,    \* the map in use
  loaded,     \* lastLoadedAt
  reload,     \* lookups in flight
  jsonResult  \* the last lookup returned: [ref, doc, began, at]

jsonVars == <<jsonNow, file, past, entries, loaded, reload, jsonResult>>

NoReload == [pc |-> "idle"]

JsonTypeOK ==
  /\ jsonNow \in Nat
  /\ file \in Files \cup {Broken}
  /\ past \subseteq [file: Files \cup {Broken}, at: Nat]
  /\ entries \in [JsonRefs -> JsonDocs \cup {NoDoc}]
  /\ loaded \in Nat
  /\ reload \in [Reloads -> {NoReload} \cup
       [pc: {"read", "parse"}, ref: JsonRefs, file: Files \cup {Broken}, began: Nat]]

\* The process starts by loading the file and does not start without.
JsonInit ==
  /\ jsonNow = 0
  /\ file \in Files
  /\ past = {}
  /\ entries = file
  /\ loaded = 0
  /\ reload = [l \in Reloads |-> NoReload]
  /\ jsonResult = [ref |-> NoDoc, doc |-> NoDoc, began |-> 0, at |-> 0]

JsonTick ==
  /\ jsonNow < JsonTime
  /\ \A l \in Reloads : reload[l] # NoReload => jsonNow < reload[l].began + ReadTime
  /\ jsonNow' = jsonNow + 1
  /\ UNCHANGED <<file, past, entries, loaded, reload, jsonResult>>

\* The operator's editor writes the file; if it does so in place the file is
\* Broken on the way.
Edit(f) ==
  /\ Cardinality(past) < MaxEdits
  /\ f # file
  /\ file' = f
  /\ past' = past \cup {[file |-> file, at |-> jsonNow]}
  /\ UNCHANGED <<jsonNow, entries, loaded, reload, jsonResult>>

DueOnce == loaded = 0 /\ jsonNow > ReloadEvery
Due == jsonNow - loaded > ReloadEvery

Return(r, doc, began) ==
  jsonResult' = [ref |-> r, doc |-> doc, began |-> began, at |-> jsonNow]

\* lookup within reloadEveryMs of the last load.
Recent(r) ==
  /\ ~Due
  /\ Return(r, entries[r], jsonNow)
  /\ UNCHANGED <<jsonNow, file, past, entries, loaded, reload>>

\* lookup up to await readFile.
Begin(l, r) ==
  /\ reload[l] = NoReload
  /\ Due
  /\ reload' = [reload EXCEPT ![l] =
                  [pc |-> "read", ref |-> r, file |-> Broken, began |-> jsonNow]]
  /\ UNCHANGED <<jsonNow, file, past, entries, loaded, jsonResult>>

\* The bytes are those of some moment before the promise resolves.
Read(l) ==
  /\ reload[l].pc = "read"
  /\ reload' = [reload EXCEPT ![l].pc = "parse", ![l].file = file]
  /\ UNCHANGED <<jsonNow, file, past, entries, loaded, jsonResult>>

MergeInto(f) == [r \in JsonRefs |-> IF f[r] = NoDoc THEN entries[r] ELSE f[r]]
\* load builds the new map whole before it replaces the old one.
LoadInto(f) == f

LoadStamped(l) ==
  /\ reload[l].pc = "parse"
  /\ entries' = IF reload[l].file = Broken THEN entries
                                           ELSE LoadInto(reload[l].file)
  /\ loaded' = jsonNow
  /\ Return(reload[l].ref, entries'[reload[l].ref], reload[l].began)
  /\ reload' = [reload EXCEPT ![l] = NoReload]
  /\ UNCHANGED <<jsonNow, file, past>>

\* Parse, validate, replace the map and return from it; a bad file throws,
\* the throw is swallowed, and the map and lastLoadedAt stay.
Load(l) ==
  /\ reload[l].pc = "parse"
  /\ IF reload[l].file = Broken
     THEN UNCHANGED <<entries, loaded>>
     ELSE entries' = LoadInto(reload[l].file) /\ loaded' = jsonNow
  /\ Return(reload[l].ref, entries'[reload[l].ref], reload[l].began)
  /\ reload' = [reload EXCEPT ![l] = NoReload]
  /\ UNCHANGED <<jsonNow, file, past>>

JsonNext ==
  \/ JsonTick
  \/ \E f \in Edits : Edit(f)
  \/ \E r \in JsonRefs : Recent(r)
  \/ \E l \in Reloads :
       \/ \E r \in JsonRefs : Begin(l, r)
       \/ Read(l)
       \/ Load(l)

JsonSpec == JsonInit /\ [][JsonNext]_jsonVars

-----------------------------------------------------------------------------
(* Properties. *)

\* The file held f at t or later.
HeldSince(f, t) == file = f \/ \E p \in past : p.file = f /\ p.at >= t

JsonAge == ReloadEvery + ReadTime

\* The map in use is one whole content of the file, never a mixture: a reload
\* that overlaps others or fails replaces all of it or nothing.
WholeContents == HeldSince(entries, 0)

\* An answer is no older than the reload interval and one read, however reads
\* overlap, unless the file could not be loaded just then: a failed reload does
\* not count as one, and the next lookup tries again.
StaleOnlyWhileBroken ==
  jsonResult.ref # NoDoc =>
    \/ HeldSince(Broken, jsonResult.at - ReadTime)
    \/ \E f \in Files : /\ HeldSince(f, jsonResult.at - JsonAge)
                        /\ f[jsonResult.ref] = jsonResult.doc

-----------------------------------------------------------------------------
(* What a text of the repository says and the code does not do: no run checks *)
(* it, and the README of this development says why it fails.                 *)

\* The comment on the class says the file is reloaded when it changes: then a
\* lookup answers with what the file held when it began, or later.
SeesEdits ==
  jsonResult.ref # NoDoc =>
    \E f \in Files : HeldSince(f, jsonResult.began) /\ f[jsonResult.ref] = jsonResult.doc
=============================================================================
