---------------------------------- MODULE Demo ----------------------------------
(***************************************************************************)
(* The demo (packages/agents/src): five scripted conversations between     *)
(* agents, sent through a relay, and a monitor that runs the reveal script *)
(* made from the same table.                                               *)
(*                                                                         *)
(* run-demo starts the stack, writes keyring and script for the monitor,   *)
(* waits for the operator to press enter and then plays all scenarios at   *)
(* once, each turn at its offset from the time the stack came up.  The     *)
(* operator starts the monitor in a second terminal; its timers count from *)
(* its own start.  The script names a scenario's envelope by sender and    *)
(* recipient alone.                                                        *)
(*                                                                         *)
(* Time is in units of Unit ms.  Timers fire when they are due, and what   *)
(* is sent is answered within the unit.  How a reveal is played, and the   *)
(* queue of reveals, is Monitor's matter; no two of a script overlap here. *)
(***************************************************************************)
EXTENDS Integers, Sequences, SequencesExt, FiniteSetsExt

CONSTANTS
  Scenarios,  \* the table: scenarios by id
  Modes,      \* of "hermetic", "on-chain", "against-prod"
  Keyed,      \* agents of --keys-in, with the keys their documents on chain name
  Unit,       \* ms
  Faults,     \* calls that fail for the network (bound)
  MaxTime     \* bound

VARIABLES
  now,
  mode,       \* how run-demo was called
  main,       \* where main is
  startedAt,  \* handles.startedAt
  sent,       \* per scenario, the turns that the relay has stored
  flying,     \* scenarios whose next turn is on its way to the relay
  log,        \* envelopes the relay has stored, in order, by sender and recipient
  monitor,    \* when the monitor connected, or Off
  broken,     \* its event stream has ended, and is not opened again
  missed,     \* what the relay stored before or after: the stream has no past
  fired,      \* entries of the script whose timer has fired
  exposed,    \* per scenario, the envelope its entry revealed
  unread,     \* history: entries that found an envelope and could not decrypt it
  prompt,     \* history: enter came before the first turn was due
  faults      \* calls that may still fail

demo == <<mode, main, startedAt, sent, flying>>
watch == <<monitor, broken, missed, fired, exposed, unread>>
demoVars == <<now, demo, log, watch, prompt, faults>>

\* The table of scenarios.ts.
Turns(reply) == <<[role |-> "A", at |-> 0], [role |-> "B", at |-> reply]>>
SCENARIOS == <<
  [a |-> "alice", b |-> "bob", start |-> 5000, reveal |-> 8000,
   revealTurn |-> 1, turns |-> Turns(700)],
  [a |-> "alice", b |-> "delivery", start |-> 17000, reveal |-> 20000,
   revealTurn |-> 1, turns |-> Turns(700)],
  [a |-> "alice", b |-> "bob", start |-> 29000, reveal |-> 32000,
   revealTurn |-> 1, turns |-> Turns(700)],
  [a |-> "alice", b |-> "hvac", start |-> 41000, reveal |-> 44000,
   revealTurn |-> 1, turns |-> Turns(700)],
  [a |-> "alice", b |-> "contractor", start |-> 53000, reveal |-> 56000,
   revealTurn |-> 1, turns |-> Turns(700)]>>

AGENT_REFS == UNION {{Scenarios[s].a, Scenarios[s].b} : s \in DOMAIN Scenarios}

ASSUME DemoAssumption ==
  /\ Modes \subseteq {"hermetic", "on-chain", "against-prod"}
  /\ Keyed \subseteq AGENT_REFS
  /\ Unit \in Nat \ {0} /\ Faults \in Nat /\ MaxTime \in Nat
  /\ \A s \in DOMAIN Scenarios :
       /\ Scenarios[s].start \in Nat /\ Scenarios[s].reveal \in Nat
       /\ Scenarios[s].turns \in Seq([role: {"A", "B"}, at: Nat])
       /\ Scenarios[s].revealTurn \in DOMAIN Scenarios[s].turns

Units(ms) == ms \div Unit
Envelopes == UNION {{s} \X DOMAIN Scenarios[s].turns : s \in DOMAIN Scenarios}
Off == -1

From(e) == LET s == Scenarios[e[1]] IN IF s.turns[e[2]].role = "A" THEN s.a ELSE s.b
To(e) == LET s == Scenarios[e[1]] IN IF s.turns[e[2]].role = "A" THEN s.b ELSE s.a
Pair(e) == <<From(e), To(e)>>
Stored == UNION {ToSet(log[p]) : p \in DOMAIN log}

\* When a turn is due, counted from the start of the stack.
Offset(e) == Units(Scenarios[e[1]].start + Scenarios[e[1]].turns[e[2]].at)

\* The table: turns are listed as they come, a reveal comes after its own turn, and
\* any other envelope of the same sender and recipient is due before that turn, or
\* after the reveal even if that counts from the first turn of all.
ASSUME SpacingAssumption ==
  \A s \in DOMAIN Scenarios :
    LET own == <<s, Scenarios[s].revealTurn>>
        reveal == Units(Scenarios[s].reveal)
    IN  /\ \A t, u \in DOMAIN Scenarios[s].turns : t <= u => Offset(<<s, t>>) <= Offset(<<s, u>>)
        /\ Offset(own) < reveal
        /\ \A e \in Envelopes \ {own} : Pair(e) = Pair(own) =>
             \/ Offset(e) < Offset(own)
             \/ \E r \in DOMAIN Scenarios : Units(Scenarios[r].start) + reveal < Offset(e)

DemoTypeOK ==
  /\ now \in 0..MaxTime
  /\ mode \in Modes
  /\ main \in {"off", "ready", "running", "done", "failed", "stopped"}
  /\ startedAt \in 0..MaxTime
  /\ \A s \in DOMAIN Scenarios : sent[s] \in 0..Len(Scenarios[s].turns)
  /\ flying \subseteq {s \in DOMAIN Scenarios : sent[s] < Len(Scenarios[s].turns)}
  /\ \A p \in DOMAIN log : log[p] \in Seq({e \in Envelopes : Pair(e) = p})
  /\ monitor \in 0..MaxTime \cup {Off}
  /\ broken \in BOOLEAN
  /\ missed \subseteq Stored
  /\ fired \subseteq DOMAIN Scenarios /\ unread \subseteq fired
  /\ \A s \in DOMAIN Scenarios : exposed[s] \subseteq Envelopes
  /\ prompt \in BOOLEAN
  /\ faults \in 0..Faults

DemoInit ==
  /\ now = 0
  /\ mode \in Modes
  /\ main = "off" /\ startedAt = 0
  /\ sent = [s \in DOMAIN Scenarios |-> 0]
  /\ flying = {}
  /\ log = [p \in {Pair(e) : e \in Envelopes} |-> <<>>]
  /\ monitor = Off /\ broken = FALSE /\ missed = {}
  /\ fired = {} /\ unread = {} /\ exposed = [s \in DOMAIN Scenarios |-> {}]
  /\ prompt = FALSE
  /\ faults = Faults

-----------------------------------------------------------------------------
(* run-demo: startDemoStack, the prompt, and the end. *)

\* The relay whose event stream the printed command names, and where the documents
\* of the recipients send a push.
Listening == IF mode = "against-prod" THEN "public" ELSE "local"
Route == IF mode = "hermetic" THEN "local" ELSE "public"

\* Does the resolver name the keys the agent holds?  Documents of a hermetic stack
\* are those of its agents; an agent that --keys-in lacks gets fresh keys.
Verifies(agent) == mode = "hermetic" \/ agent \in Keyed

Boot ==
  /\ main = "off"
  /\ main' = "ready"
  /\ startedAt' = now
  /\ UNCHANGED <<now, mode, sent, flying, log, watch, prompt, faults>>

FirstDue == Min({startedAt + Units(Scenarios[s].start) : s \in DOMAIN Scenarios})

Enter ==
  /\ main = "ready"
  /\ main' = "running"
  /\ prompt' = (now <= FirstDue)
  /\ UNCHANGED <<now, mode, startedAt, sent, flying, log, watch, faults>>

\* SIGINT or SIGTERM.
Shutdown ==
  /\ main \in {"ready", "running", "done"}
  /\ main' = "stopped"
  /\ UNCHANGED <<now, mode, startedAt, sent, flying, log, watch, prompt, faults>>

-----------------------------------------------------------------------------
(* runScenario, once for each scenario and all at the same time. *)

Upcoming(s) == <<s, sent[s] + 1>>
Due(s) == startedAt + Offset(Upcoming(s))
Left(s) == sent[s] < Len(Scenarios[s].turns)

\* Mutant: each turn counts from the one before.
SendEarly(s) ==
  /\ main = "running" /\ Left(s) /\ s \notin flying
  /\ now >= startedAt + Units(Scenarios[s].turns[sent[s] + 1].at)
  /\ flying' = flying \cup {s}
  /\ UNCHANGED <<now, mode, main, startedAt, sent, log, watch, prompt, faults>>

\* The sleep is over; send begins.
Send(s) ==
  /\ main = "running" /\ Left(s) /\ s \notin flying
  /\ now >= Due(s)
  /\ flying' = flying \cup {s}
  /\ UNCHANGED <<now, mode, main, startedAt, sent, log, watch, prompt, faults>>

\* The relay stores the next turn.
Arrive(s) ==
  LET e == Upcoming(s) IN
  /\ s \in flying
  /\ Verifies(From(e))
  /\ log' = [log EXCEPT ![Pair(e)] = Append(@, e)]
  /\ missed' = IF broken THEN missed \cup {e} ELSE missed
  /\ sent' = [sent EXCEPT ![s] = @ + 1]
  /\ flying' = flying \ {s}
  /\ UNCHANGED <<now, mode, main, startedAt, monitor, broken, fired, exposed, unread, prompt, faults>>

\* And send returns.
Accept(s) == main = "running" /\ Arrive(s)

\* Or its answer is lost, or finds no process any more.
Late(s) == main \in {"failed", "stopped"} /\ Arrive(s)

\* A call that may go well fails all the same.
Slip(fine) ==
  IF fine THEN faults > 0 /\ faults' = faults - 1 ELSE UNCHANGED faults

\* Mutant: a turn that failed is tried again.
FailRetried(s) ==
  /\ main = "running" /\ s \in flying
  /\ Slip(Verifies(From(Upcoming(s))))
  /\ flying' = flying \ {s}
  /\ UNCHANGED <<now, mode, main, startedAt, sent, log, watch, prompt>>

\* send throws: the signature is not that of the document, or the network, which may
\* have lost the turn or the answer.  Then Promise.all rejects and main's catch ends
\* the process; what it had on its way may still be stored, but never sent again.
Fail(s) ==
  /\ main = "running" /\ s \in flying
  /\ Slip(Verifies(From(Upcoming(s))))
  /\ main' = "failed"
  /\ UNCHANGED <<now, mode, startedAt, sent, flying, log, watch, prompt>>

\* runAllScenarios returns.
Complete ==
  /\ main = "running"
  /\ \A s \in DOMAIN Scenarios : ~Left(s)
  /\ main' = "done"
  /\ UNCHANGED <<now, mode, startedAt, sent, flying, log, watch, prompt, faults>>

-----------------------------------------------------------------------------
(* The monitor, given the script of revealScriptFromScenarios. *)

Connect ==
  /\ monitor = Off /\ main \in {"ready", "running", "done"}
  /\ monitor' = now
  /\ missed' = Stored
  /\ UNCHANGED <<now, demo, log, broken, fired, exposed, unread, prompt, faults>>

\* subscribeToEvents returns; the monitor does not call it again.
Sever ==
  /\ monitor # Off /\ ~broken
  /\ broken' = TRUE
  /\ UNCHANGED <<now, demo, log, monitor, missed, fired, exposed, unread, prompt, faults>>

RevealDue(s) == monitor + Units(Scenarios[s].reveal)

\* Where what the monitor has seen of this scenario's sender and recipient stands.
Seen(s) ==
  LET line == log[Pair(<<s, Scenarios[s].revealTurn>>)] IN
  {i \in DOMAIN line : Route = Listening /\ line[i] \notin missed}

\* tryDecrypt gives the text when the keyring has the key it was written for, and a
\* resolver answers: that of run-demo ends with it.
Opens(e) ==
  /\ Verifies(To(e))
  /\ main \in {"failed", "stopped"} => mode = "against-prod"

\* The envelope found, if any, is shown, or it is not decrypted and stays as it is.
Expose(s, places) ==
  LET found == {log[Pair(<<s, Scenarios[s].revealTurn>>)][i] : i \in places}
      opens == \A e \in found : Opens(e)
  IN  /\ monitor # Off /\ s \notin fired
      /\ now >= RevealDue(s)
      /\ fired' = fired \cup {s}
      /\ \/ /\ opens
            /\ exposed' = [exposed EXCEPT ![s] = found]
            /\ UNCHANGED <<unread, faults>>
         \/ /\ found # {} /\ Slip(opens)
            /\ unread' = unread \cup {s}
            /\ UNCHANGED exposed
      /\ UNCHANGED <<now, demo, log, monitor, broken, missed, prompt>>

\* Mutant: the first envelope of this sender and recipient.
RevealFirst(s) == Expose(s, {i \in Seen(s) : \A j \in Seen(s) : i <= j})

\* A timer of the script: the latest envelope in the stream of this sender and
\* recipient that has not been revealed.
Reveal(s) ==
  LET line == log[Pair(<<s, Scenarios[s].revealTurn>>)]
      fresh == {i \in Seen(s) : \A r \in DOMAIN Scenarios : line[i] \notin exposed[r]}
  IN  Expose(s, {i \in fresh : \A j \in fresh : j <= i})

-----------------------------------------------------------------------------
\* Nothing that is due waits for the next unit.
Tick ==
  /\ now < MaxTime /\ main # "off"
  /\ main = "running" => flying = {} /\ \A s \in DOMAIN Scenarios : Left(s) => now < Due(s)
  /\ monitor # Off => \A s \in DOMAIN Scenarios \ fired : now < RevealDue(s)
  /\ now' = now + 1
  /\ UNCHANGED <<demo, log, watch, prompt, faults>>

DemoNext ==
  \/ Tick \/ Boot \/ Enter \/ Shutdown \/ Complete \/ Connect \/ Sever
  \/ \E s \in DOMAIN Scenarios : Send(s) \/ Accept(s) \/ Late(s) \/ Fail(s) \/ Reveal(s)

\* Timers fire and the relay answers; the operator owes nothing.
DemoFairness ==
  /\ WF_demoVars(Tick) /\ WF_demoVars(Complete)
  /\ \A s \in DOMAIN Scenarios :
       WF_demoVars(Send(s)) /\ WF_demoVars(Accept(s) \/ Fail(s)) /\ WF_demoVars(Reveal(s))

DemoSpec == DemoInit /\ [][DemoNext]_demoVars /\ DemoFairness

-----------------------------------------------------------------------------
(* Properties. *)

\* A reply is at the relay only after what it answers, each turn is there at most
\* once, and none before its offset (the loop of runScenario awaits the send); the
\* scenarios are called completed only when all turns are.  (And variables keep their
\* types.)
InOrder ==
  /\ DemoTypeOK
  /\ \A e \in Stored :
       /\ now >= startedAt + Offset(e)
       /\ \A t \in 1..(e[2] - 1) : <<e[1], t>> \in Stored
       /\ \A i, j \in DOMAIN log[Pair(e)] : log[Pair(e)][i] = log[Pair(e)][j] => i = j
  /\ main = "done" => Stored = Envelopes

\* The operator is quick: the monitor connects and enter comes before the first turn is
\* due.  Then, although scenarios have sender and recipient in common, and whatever
\* other entries have failed to show, a reveal shows the envelope of its own scenario,
\* unless that one could not be decrypted, which shows nothing, or came while no stream
\* was open; and then it may show an older one of theirs, never one of a later turn.
Own(s) == <<s, Scenarios[s].revealTurn>>
OwnReveal(s) == exposed[s] = {Own(s)}
InTime == monitor \in startedAt..FirstDue /\ prompt
Rightly(s) ==
  /\ Own(s) \in missed \/ OwnReveal(s) \/ (s \in unread /\ exposed[s] = {})
  /\ \A e \in exposed[s] \ {Own(s)} : Pair(e) = Pair(Own(s)) /\ Offset(e) < Offset(Own(s))
RevealsOwn ==
  InTime /\ Route = Listening /\ main \in {"running", "done"} => \A s \in fired : Rightly(s)

\* However the operator hurries or dawdles, a scenario that has begun comes to an
\* end: all scenarios complete, or the process ends.
Ends == (main = "running") ~> (main # "running")

-----------------------------------------------------------------------------
(* What a text of the repository says and the code does not do: no run checks *)
(* it, and the README of this development says why it fails.                 *)

\* What run-demo prints: press enter to start the scenarios, the monitor must be
\* connected first or the reveals will fire into nothing.
RevealsAsTold ==
  missed = {} /\ unread = {} /\ monitor # Off /\ Route = Listening /\ main \in {"running", "done"} =>
    \A s \in fired : OwnReveal(s)

\* The header of run-demo: with --on-chain alone, traffic stays local.
StaysLocal == mode = "on-chain" /\ Route = "public" => Stored = {}
=============================================================================
