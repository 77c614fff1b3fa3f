------------------------------ MODULE CommandLine ------------------------------
(***************************************************************************)
(* The scut command (packages/cli/src): short-lived processes that share   *)
(* two files, ~/.scut/config.json and ~/.scut/keys.json.                   *)
(*                                                                         *)
(* Nothing is locked.  A file is written in place: opened, which empties   *)
(* it, and then written, so that another process may read it empty, write  *)
(* over what was written meanwhile, or find it cut short when the writer   *)
(* is killed or the disk is full.  Reads are whole.                        *)
(*                                                                         *)
(* A config is told apart by the init that wrote it, its relays and        *)
(* whether loadConfig accepts it; keys by the init that made them.  Hosts  *)
(* are as long as each other, so a config is the longer for each relay.    *)
(***************************************************************************)
EXTENDS Integers, Sequences, SequencesExt

CONSTANTS
  Procs,       \* scut processes
  Hosts,       \* relay hosts
  Priorities,  \* integers, for --priority
  Uses,        \* commands that need the identity
  MaxRuns,     \* commands started (bound)
  Faults       \* kills, failed writes and chmods (bound)

ASSUME CommandLineAssumption ==
  /\ Priorities \subseteq Int
  /\ Uses \subseteq {"identity", "send", "recv", "ack", "ping"}
  /\ MaxRuns \in Nat /\ Faults \in Nat

VARIABLES
  config,  \* config.json
  keys,    \* keys.json
  proc,    \* the processes
  runs,    \* commands started so far
  faults,  \* faults left
  calm,    \* history: since the last init, writers came one by one, and none was cut
  listed,  \* history: the hosts that commands since have put on the list and left there
  duel     \* history: two inits have run at once

files == <<config, keys>>
history == <<calm, listed, duel>>
vars == <<files, proc, runs, faults, history>>

Relay == [host: Hosts, priority: Int]
Writers == {"init", "add", "remove"}
\* An option may be one that the schema of the config refuses.
Command == [op: {"init"}, force: BOOLEAN, sound: BOOLEAN]
      \cup [op: {"add"}, relay: [host: Hosts, priority: Priorities], sound: BOOLEAN]
      \cup [op: {"remove"}, host: Hosts]
      \cup [op: Uses \cup {"list", "resolve"}]

\* What a file holds: nothing yet; nothing any more; what one process wrote; or the
\* start of one text and the end of a longer one.
Config == [is: {"absent", "empty", "whole", "mixed"}, by: Nat,
           relays: Seq(Relay), sound: BOOLEAN]
Keys == [is: {"absent", "empty", "whole"}, by: Nat, private: BOOLEAN]
NoConfig == [is |-> "absent", by |-> 0, relays |-> <<>>, sound |-> TRUE]
NoKeys == [is |-> "absent", by |-> 0, private |-> TRUE]

\* EXIT; a process that runs has none yet.
ExitCodes == 0..5
Running == -1
Idle == [run |-> 0, at |-> "ended", cmd |-> [op |-> "list"], mine |-> NoConfig,
         read |-> NoKeys, exit |-> 0, answer |-> "ok", alone |-> FALSE, calm |-> FALSE]

\* What resolver and relays say to the call of a command.
Answers == {"ok", "not_found", "no_relays", "resolver_error", "refused", "unreachable"}

TypeOK ==
  /\ config \in Config /\ keys \in Keys
  /\ \A p \in Procs :
       /\ proc[p].at \in {"check", "openKeys", "writeKeys", "load", "openConfig",
                          "writeConfig", "readKeys", "statKeys", "call", "ended"}
       /\ proc[p].mine \in Config /\ proc[p].read \in Keys
       /\ proc[p].exit \in ExitCodes \cup {Running} /\ proc[p].answer \in Answers
       /\ proc[p].exit = Running <=> proc[p].at # "ended"
       /\ proc[p].alone \in BOOLEAN /\ proc[p].calm \in BOOLEAN
  /\ runs \in 0..MaxRuns /\ faults \in 0..Faults
  /\ calm \in BOOLEAN /\ listed \subseteq Hosts /\ duel \in BOOLEAN

Init ==
  /\ config = NoConfig /\ keys = NoKeys
  /\ proc = [p \in Procs |-> Idle]
  /\ runs = 0 /\ faults = Faults
  /\ calm = TRUE /\ listed = {} /\ duel = FALSE

Op(p) == proc[p].cmd.op
Writing(p) == proc[p].exit = Running /\ Op(p) \in Writers
At(p, step) == proc[p].at = step
Goto(p, step) == proc' = [proc EXCEPT ![p].at = step]
\* The action returned (0) or threw; main turns that into the exit code.
End(p, code) == proc' = [proc EXCEPT ![p] = [Idle EXCEPT !.exit = code]]

-----------------------------------------------------------------------------
(* A command begins; main parses its options. *)

Start(p, c) ==
  LET crowd == {q \in Procs \ {p} : Writing(q)} IN
  /\ proc[p].exit # Running
  /\ runs < MaxRuns
  /\ runs' = runs + 1
  /\ proc' = [q \in Procs |->
       IF q = p
       THEN [Idle EXCEPT !.run = runs', !.cmd = c, !.exit = Running,
                         !.at = IF c.op = "init" THEN "check" ELSE "load",
                         !.alone = crowd = {}, !.calm = calm]
       ELSE [proc[q] EXCEPT !.alone = @ /\ c.op \notin Writers]]
  /\ calm' = (calm /\ (c.op \in Writers => crowd = {}))
  /\ duel' = (duel \/ (c.op = "init" /\ \E q \in crowd : Op(q) = "init"))
  /\ UNCHANGED <<files, faults, listed>>

-----------------------------------------------------------------------------
(* runInit *)

\* resolveAgentRef does not accept the options.
Refused(p) == End(p, 2)

\* Mutant: a config that no command can load does not count.
CheckLoads(p) ==
  /\ At(p, "check")
  /\ IF ~proc[p].cmd.force /\ config.is = "whole" THEN End(p, 2)
     ELSE Refused(p) \/ Goto(p, "openKeys")
  /\ UNCHANGED <<files, runs, faults, history>>

\* configExists: any file that can be read.  Then the keypairs are drawn.
Check(p) ==
  /\ At(p, "check")
  /\ IF ~proc[p].cmd.force /\ config.is # "absent" THEN End(p, 2)
     ELSE Refused(p) \/ Goto(p, "openKeys")
  /\ UNCHANGED <<files, runs, faults, history>>

Fresh(p) == [is |-> "whole", by |-> proc[p].run, relays |-> <<>>,
             sound |-> proc[p].cmd.sound]

\* Mutant: keys that are there are kept.
OpenKeysOnce(p) ==
  /\ At(p, "openKeys")
  /\ keys' = IF keys.is = "whole" THEN keys ELSE [NoKeys EXCEPT !.is = "empty"]
  /\ proc' = [proc EXCEPT ![p].mine = Fresh(p),
       ![p].at = IF keys.is = "whole" THEN "openConfig" ELSE "writeKeys"]
  /\ UNCHANGED <<config, runs, faults, history>>

\* saveKeys.  The mode given is for a file that is created.
OpenKeys(p) ==
  /\ At(p, "openKeys")
  /\ keys' = [keys EXCEPT !.is = "empty", !.by = 0]
  /\ proc' = [proc EXCEPT ![p].at = "writeKeys", ![p].mine = Fresh(p)]
  /\ UNCHANGED <<config, runs, faults, history>>

WriteKeys(p) ==
  /\ At(p, "writeKeys")
  /\ keys' = [keys EXCEPT !.is = "whole", !.by = proc[p].run]
  /\ Goto(p, "openConfig")
  /\ UNCHANGED <<config, runs, faults, history>>

-----------------------------------------------------------------------------
(* loadConfig and saveConfig, and relay add, remove and list between them. *)

\* Mutant: the schema wants a relay.
LoadsSome == config.is = "whole" /\ config.sound /\ config.relays # <<>>

Loads == config.is = "whole" /\ config.sound

OnList(h) == \E i \in DOMAIN config.relays : config.relays[i].host = h

\* Mutant: the list is not sorted again.
InsertedLast(list, r) == Append(list, r)

\* push and sort, which is stable: after those of its priority.
Inserted(list, r) ==
  LET before == {i \in DOMAIN list : list[i].priority <= r.priority} IN
  InsertAt(list, Cardinality(before) + 1, r)

Saving(p, list, ok) ==
  proc' = [proc EXCEPT ![p].at = "openConfig",
                       ![p].mine = [config EXCEPT !.relays = list, !.sound = ok]]

AddRelay(p) ==
  LET cmd == proc[p].cmd IN
  IF OnList(cmd.relay.host) THEN End(p, 1)
  ELSE Saving(p, Inserted(config.relays, cmd.relay), cmd.sound)

\* filter: add has let a host on the list once.
RemoveRelay(p) ==
  LET host == proc[p].cmd.host IN
  IF ~OnList(host) THEN End(p, 1)
  ELSE \E i \in DOMAIN config.relays :
         config.relays[i].host = host /\ Saving(p, RemoveAt(config.relays, i), TRUE)

ListRelays(p) == End(p, 0)

\* From the config as it is read to what the command does with it.
Load(p) ==
  /\ At(p, "load")
  /\ IF ~Loads THEN End(p, 2)
     ELSE CASE Op(p) = "add" -> AddRelay(p)
            [] Op(p) = "remove" -> RemoveRelay(p)
            [] Op(p) = "list" -> ListRelays(p)
            [] Op(p) = "resolve" -> Goto(p, "call")
            [] OTHER -> proc' = [proc EXCEPT ![p].at = "readKeys", ![p].mine = config]
  /\ UNCHANGED <<files, runs, faults, history>>

OpenConfig(p) ==
  /\ At(p, "openConfig")
  /\ config' = [NoConfig EXCEPT !.is = "empty"]
  /\ Goto(p, "writeConfig")
  /\ UNCHANGED <<keys, runs, faults, history>>

\* What another has written since stays where it is longer.
Overwritten(text) ==
  IF config.is # "empty" /\ Len(config.relays) > Len(text.relays)
  THEN [config EXCEPT !.is = "mixed"] ELSE text

\* The rest of saveConfig; the command succeeds.
WriteConfig(p) ==
  /\ At(p, "writeConfig")
  /\ config' = Overwritten(proc[p].mine)
  /\ End(p, 0)
  /\ calm' = (calm \/ (Op(p) = "init" /\ proc[p].alone))
  /\ listed' = CASE Op(p) = "init" -> {}
                 [] Op(p) = "add" -> listed \cup {proc[p].cmd.relay.host}
                 [] Op(p) = "remove" -> listed \ {proc[p].cmd.host}
  /\ UNCHANGED <<keys, runs, faults, duel>>

-----------------------------------------------------------------------------
(* The commands that use the identity: loadKeys, then a call. *)

ReadKeys(p) ==
  /\ At(p, "readKeys")
  /\ IF keys.is = "absent" THEN End(p, 2)
     ELSE proc' = [proc EXCEPT ![p].at = "statKeys", ![p].read = keys]
  /\ UNCHANGED <<files, runs, faults, history>>

\* buildDocument and its printing ask nobody.
Show(p) == End(p, 0)

\* Mutant: the config is taken once the keys are there.
StatKeysReload(p) ==
  /\ At(p, "statKeys")
  /\ IF ~keys.private \/ proc[p].read.is # "whole" \/ ~Loads THEN End(p, 2)
     ELSE IF Op(p) = "identity" THEN Show(p)
     ELSE proc' = [proc EXCEPT ![p].at = "call", ![p].mine = config]
  /\ UNCHANGED <<files, runs, faults, history>>

\* The mode is looked at after the text was read, and the text after that.
StatKeys(p) ==
  /\ At(p, "statKeys")
  /\ IF ~keys.private \/ proc[p].read.is # "whole" THEN End(p, 2)
     ELSE IF Op(p) = "identity" THEN Show(p) ELSE Goto(p, "call")
  /\ UNCHANGED <<files, runs, faults, history>>

\* What the commands throw on is 1 to main.
SendExit(answer) ==
  CASE answer = "ok" -> 0 [] answer \in {"not_found", "no_relays"} -> 5
    [] answer = "refused" -> 3 [] OTHER -> 1
ResolveExit(answer) ==
  CASE answer = "ok" -> 0 [] answer = "not_found" -> 5
    [] answer = "resolver_error" -> 3 [] OTHER -> 1
\* A relay that refuses has nothing to show and nothing to drop.
InboxExit(answer) == IF answer \in {"ok", "refused"} THEN 0 ELSE 1
PingExit(answer) == IF answer = "ok" THEN 0 ELSE 1

ExitOf(op, answer) ==
  CASE op = "send" -> SendExit(answer) [] op = "resolve" -> ResolveExit(answer)
    [] op \in {"recv", "ack"} -> InboxExit(answer) [] op = "ping" -> PingExit(answer)

\* resolve asks no relay.
Call(p, answer) ==
  /\ At(p, "call")
  /\ Op(p) = "resolve" => answer \notin {"no_relays", "refused"}
  /\ proc' = [proc EXCEPT ![p] =
       [Idle EXCEPT !.answer = answer, !.exit = ExitOf(Op(p), answer)]]
  /\ UNCHANGED <<files, runs, faults, history>>

-----------------------------------------------------------------------------
(* Faults. *)

\* A writer is killed, or its write fails.
Cut(p) ==
  /\ faults > 0 /\ Writing(p)
  /\ End(p, 1)
  /\ faults' = faults - 1
  /\ calm' = FALSE
  /\ UNCHANGED <<files, runs, listed, duel>>

\* chmod; a copy put back from elsewhere.
Chmod ==
  /\ faults > 0 /\ keys.is # "absent"
  /\ keys' = [keys EXCEPT !.private = ~@]
  /\ faults' = faults - 1
  /\ UNCHANGED <<config, proc, runs, history>>

-----------------------------------------------------------------------------
Step(p) ==
  \/ \E c \in Command : Start(p, c)
  \/ Check(p) \/ OpenKeys(p) \/ WriteKeys(p)
  \/ Load(p) \/ OpenConfig(p) \/ WriteConfig(p)
  \/ ReadKeys(p) \/ StatKeys(p)
  \/ \E a \in Answers : Call(p, a)
  \/ Cut(p)

Next == (\E p \in Procs : Step(p)) \/ Chmod

Spec == Init /\ [][Next]_vars

-----------------------------------------------------------------------------
(* Properties. *)

Rest == calm /\ \A p \in Procs : ~Writing(p)

\* Whatever has been run, refused or cut off and repaired by init --force: while no
\* writer is at work the two files are both there, whole and of the same init, or
\* neither is (runInit writes them one after the other).  (And variables keep their
\* types.)
OnePair ==
  /\ TypeOK
  /\ Rest =>
       \/ config.is = "absent" /\ keys.is = "absent"
       \/ config.is = "whole" /\ keys.is = "whole" /\ config.by = keys.by

\* The list holds what was added and not removed since init, each host once, in the
\* order of priority (addRelay, removeRelay).
ListKept ==
  Rest =>
    LET list == config.relays IN
    /\ {list[i].host : i \in DOMAIN list} = listed
    /\ \A i, j \in DOMAIN list :
         i < j => list[i].host # list[j].host /\ list[i].priority <= list[j].priority

\* Without --force, keys are replaced only where there is no config: not even to mend
\* one that an interrupted command left behind.  Two inits at once are another matter.
UnforcedKeepsKeys ==
  [][\A p \in Procs :
       keys.is = "whole" /\ keys'.is = "empty" /\ At(p, "openKeys")
         /\ proc'[p].at = "writeKeys" /\ proc[p].alone
       => proc[p].cmd.force \/ config.is = "absent"]_vars

\* A command that no writer overlapped, after writers that did not overlap, never
\* takes the files for broken: it ends with the configuration error (2) only before
\* the first init, for a mode that was changed, as an init that was refused, or where
\* init or relay add was given an option that the schema of the config refuses.
Served ==
  [][\A p \in Procs :
       /\ proc[p].exit = Running /\ proc'[p].exit = 2
       /\ proc[p].alone /\ proc[p].calm
       => config.is = "absent" \/ ~config.sound \/ ~keys.private \/ Op(p) = "init"]_vars

\* A command may read the config before an init --force and the keys after it: then
\* its keys are newer than its config.  Keys older than the config it acts under it
\* never has, for init writes them first, unless two inits have run at once.
KeysNotOlder ==
  ~duel => \A p \in Procs :
             At(p, "call") /\ Op(p) # "resolve" => proc[p].mine.by <= proc[p].read.by

-----------------------------------------------------------------------------
(* What a text of the repository says and the code does not do: no run checks *)
(* it, and the README of this development says why it fails.                 *)

\* e2e.test.ts: relay add, list and remove round-trip.  The config an add has saved
\* is one the next command loads.
RoundTrips ==
  [][\A p \in Procs :
       At(p, "writeConfig") /\ Op(p) = "add" /\ proc'[p].exit = 0
         /\ proc[p].alone /\ proc[p].calm
       => config'.is = "whole" /\ config'.sound]_vars

\* README of the command line: both files are written with mode 0600.
WrittenPrivate ==
  [][\A p \in Procs :
       At(p, "openKeys") /\ proc'[p].at = "writeKeys" => keys'.private]_vars

\* SPEC 10.3: 3 is for the network, all relays unreachable.
UnreachableIsNetwork ==
  [][\A p \in Procs :
       At(p, "call") /\ Op(p) = "send" /\ proc'[p].answer = "unreachable"
       => proc'[p].exit = 3]_vars
=============================================================================
