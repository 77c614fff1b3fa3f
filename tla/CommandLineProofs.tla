--------------------------- MODULE CommandLineProofs ---------------------------
(***************************************************************************)
(* Proofs about the scut command (CommandLine).                            *)
(*                                                                         *)
(* The files are followed through whoever works on them.  While writers    *)
(* come one by one the files are a pair, or the one writer at work holds   *)
(* what they lack (PairInv, ListInv); and as long as no two inits run at   *)
(* once, every config there is, in the file or in a process, is no newer   *)
(* than the keys (AgeInv).                                                 *)
(***************************************************************************)
EXTENDS CommandLine, FiniteSetTheorems, SequenceTheorems, WellFoundedInduction, TLAPS

-----------------------------------------------------------------------------
(* Sequences. *)

\* A nonempty set of numbers has a least one.
LEMMA LeastNumber ==
  ASSUME NEW T \in SUBSET Nat, T # {}
  PROVE  \E m \in T : \A n \in T : m <= n
  <1>1. \E m \in T : \A n \in T : ~ (<<n, m>> \in OpToRel(<, Nat))
    BY WFMin, NatLessThanWellFounded, Zenon
  <1>2. PICK m \in T : \A n \in T : ~ (<<n, m>> \in OpToRel(<, Nat))
    BY <1>1
  <1>3. \A n \in T : ~(n < m)
    BY <1>2 DEF OpToRel
  <1>4. \A n \in T : m <= n
    BY <1>3
  <1> QED BY <1>2, <1>4

LEMMA InsertAtFacts ==
  ASSUME NEW S, NEW s \in Seq(S), NEW e \in S, NEW k \in 0..Len(s)
  PROVE  LET t == InsertAt(s, k + 1, e) IN
         /\ t \in Seq(S) /\ Len(t) = Len(s) + 1
         /\ \A i \in 1..(Len(s) + 1) : t[i] = IF i <= k THEN s[i] ELSE IF i = k + 1 THEN e ELSE s[i - 1]
  <1> DEFINE n == Len(s)
             a == SubSeq(s, 1, k)
             b == SubSeq(s, k + 1, n)
  <1>0. n \in Nat /\ k \in Nat /\ k <= n
    OBVIOUS
  <1>1. a \in Seq(S) /\ Len(a) = k /\ \A i \in 1..k : a[i] = s[i]
    OBVIOUS
  <1>2. b \in Seq(S) /\ Len(b) = n - k /\ \A i \in 1..(n - k) : b[i] = s[k + i]
    OBVIOUS
  <1>3. InsertAt(s, k + 1, e) = (a \o <<e>>) \o b
    <2>1. (k + 1) - 1 = k
      OBVIOUS
    <2> QED BY <2>1 DEF InsertAt
  <1> HIDE DEF a, b, n
  <1>4. /\ a \o <<e>> \in Seq(S) /\ Len(a \o <<e>>) = k + 1
        /\ \A i \in 1..(k + 1) : (a \o <<e>>)[i] = IF i <= k THEN a[i] ELSE e
    BY <1>0, <1>1
  <1> DEFINE c == a \o <<e>>
             t == c \o b
  <1>5. c \in Seq(S) /\ Len(c) = k + 1 /\ \A i \in 1..(k + 1) : c[i] = IF i <= k THEN s[i] ELSE e
    BY <1>0, <1>1, <1>4
  <1> HIDE DEF c
  <1>6. t \in Seq(S) /\ Len(t) = n + 1
    <2>1. t \in Seq(S) /\ Len(t) = Len(c) + Len(b)
      BY <1>2, <1>5, ConcatProperties
    <2> HIDE DEF t
    <2> QED BY <1>0, <1>2, <1>5, <2>1
  <1>7. \A i \in 1..(n + 1) : t[i] = IF i <= k + 1 THEN c[i] ELSE b[i - (k + 1)]
    BY <1>0, <1>2, <1>5
  <1> HIDE DEF t
  <1>8. ASSUME NEW i \in 1..(n + 1)
        PROVE  t[i] = IF i <= k THEN s[i] ELSE IF i = k + 1 THEN e ELSE s[i - 1]
    <2>1. CASE i <= k + 1
      BY <1>0, <1>5, <1>7, <2>1
    <2>2. CASE i > k + 1
      <3>1. i - (k + 1) \in 1..(n - k) /\ k + (i - (k + 1)) = i - 1
        BY <1>0, <2>2
      <3>2. t[i] = b[i - (k + 1)]
        BY <1>0, <1>7, <2>2
      <3> QED BY <1>0, <1>2, <2>2, <3>1, <3>2
    <2> QED BY <1>0, <2>1, <2>2
  <1>9. InsertAt(s, k + 1, e) = t
    BY <1>3 DEF c, t
  <1> QED BY <1>6, <1>8, <1>9 DEF n

LEMMA RemoveAtFacts ==
  ASSUME NEW S, NEW s \in Seq(S), NEW k \in 1..Len(s)
  PROVE  LET t == RemoveAt(s, k) IN
         /\ t \in Seq(S) /\ Len(t) = Len(s) - 1
         /\ \A i \in 1..(Len(s) - 1) : t[i] = IF i < k THEN s[i] ELSE s[i + 1]
  <1> DEFINE n == Len(s)
             a == SubSeq(s, 1, k - 1)
             b == SubSeq(s, k + 1, n)
  <1>0. n \in Nat /\ k \in Nat /\ 1 <= k /\ k <= n
    OBVIOUS
  <1>1. a \in Seq(S) /\ Len(a) = k - 1 /\ \A i \in 1..(k - 1) : a[i] = s[i]
    OBVIOUS
  <1>2. b \in Seq(S) /\ Len(b) = n - k /\ \A i \in 1..(n - k) : b[i] = s[k + i]
    OBVIOUS
  <1> DEFINE t == a \o b
  <1>3. RemoveAt(s, k) = t
    BY DEF RemoveAt
  <1> HIDE DEF a, b, n
  <1>4. t \in Seq(S) /\ Len(t) = n - 1
    <2>1. t \in Seq(S) /\ Len(t) = Len(a) + Len(b)
      BY <1>1, <1>2, ConcatProperties
    <2> HIDE DEF t
    <2> QED BY <1>0, <1>1, <1>2, <2>1
  <1>5. \A i \in 1..(n - 1) : t[i] = IF i <= k - 1 THEN a[i] ELSE b[i - (k - 1)]
    BY <1>0, <1>1, <1>2
  <1> HIDE DEF t
  <1>6. ASSUME NEW i \in 1..(n - 1)
        PROVE  t[i] = IF i < k THEN s[i] ELSE s[i + 1]
    <2>1. CASE i < k
      BY <1>0, <1>1, <1>5, <2>1
    <2>2. CASE ~(i < k)
      <3>1. i - (k - 1) \in 1..(n - k) /\ k + (i - (k - 1)) = i + 1 /\ ~(i <= k - 1)
        BY <1>0, <2>2
      <3> QED BY <1>2, <1>5, <2>2, <3>1
    <2> QED BY <2>1, <2>2
  <1> QED BY <1>3, <1>4, <1>6 DEF n

-----------------------------------------------------------------------------
(* The list of relays. *)

HostsOf(list) == {list[i].host : i \in DOMAIN list}

\* Each host once, in the order of priority.
InOrderOnce(list) ==
  \A i, j \in DOMAIN list :
    i < j => list[i].host # list[j].host /\ list[i].priority <= list[j].priority

\* relay add leaves the list a list; in order if it was, and with one host more.
LEMMA InsertedFacts ==
  ASSUME NEW list \in Seq(Relay), NEW r \in Relay
  PROVE  /\ Inserted(list, r) \in Seq(Relay)
         /\ InOrderOnce(list) /\ r.host \notin HostsOf(list) =>
              /\ InOrderOnce(Inserted(list, r))
              /\ HostsOf(Inserted(list, r)) = HostsOf(list) \cup {r.host}
  <1> DEFINE n == Len(list)
             before == {i \in 1..n : list[i].priority <= r.priority}
             k == Cardinality(before)
             t == InsertAt(list, k + 1, r)
  <1>0. n \in Nat /\ DOMAIN list = 1..n /\ \A i \in 1..n : list[i] \in Relay
    OBVIOUS
  <1>1. Inserted(list, r) = t
    BY <1>0 DEF Inserted
  <1>2. k \in 0..n
    <2> HIDE DEF n
    <2>1. IsFiniteSet(1..n) /\ Cardinality(1..n) = n
      <3>1. 1 \in Int /\ n \in Int
        BY <1>0
      <3>2. IsFiniteSet(1..n) /\ Cardinality(1..n) = IF 1 > n THEN 0 ELSE n - 1 + 1
        BY <3>1, FS_Interval
      <3> QED BY <1>0, <3>2
    <2>2. IsFiniteSet(before) /\ k <= n
      BY <2>1, FS_Subset
    <2>3. k \in Nat
      BY <2>2, FS_CardinalityType
    <2> QED BY <1>0, <2>2, <2>3
  <1>3. /\ t \in Seq(Relay) /\ Len(t) = n + 1
        /\ \A i \in 1..(n + 1) :
             t[i] = IF i <= k THEN list[i] ELSE IF i = k + 1 THEN r ELSE list[i - 1]
    <2> HIDE DEF k
    <2> QED BY <1>2, InsertAtFacts
  <1>4. ASSUME InOrderOnce(list) PROVE before = 1..k
    <2> DEFINE T == {i \in 1..(n + 1) : i \notin before}
    <2>1. PICK m \in T : \A i \in T : m <= i
      <3>1. n + 1 \in T /\ T \in SUBSET Nat
        BY <1>0
      <3> QED BY <3>1, LeastNumber
    <2>2. \A i \in 1..(m - 1) : i \in before
      BY <1>0, <2>1
    <2>3. ASSUME NEW i \in before PROVE i < m
      <3>1. m \in Int /\ i \in Int /\ i <= n /\ i # m
        BY <1>0, <2>1
      <3>2. SUFFICES ASSUME m < i PROVE FALSE
        BY <3>1
      <3>3. m \in 1..n /\ i \in 1..n
        BY <1>0, <2>1, <3>1, <3>2
      <3>4. list[m].priority <= list[i].priority /\ list[i].priority <= r.priority
        BY <1>0, <1>4, <3>2, <3>3 DEF InOrderOnce
      <3>5. list[m].priority \in Int /\ list[i].priority \in Int /\ r.priority \in Int
        BY <1>0, <3>3 DEF Relay
      <3>6. list[m].priority <= r.priority
        BY <3>4, <3>5
      <3> QED BY <2>1, <3>3, <3>6
    <2>4. before = 1..(m - 1)
      BY <1>0, <2>1, <2>2, <2>3
    <2>5. Cardinality(1..(m - 1)) = m - 1
      BY <1>0, <2>1, FS_Interval
    <2> QED BY <2>4, <2>5
  <1> HIDE DEF k, t, n
  <1>5. ASSUME InOrderOnce(list), r.host \notin HostsOf(list)
        PROVE  /\ InOrderOnce(t) /\ HostsOf(t) = HostsOf(list) \cup {r.host}
    <2>1. DOMAIN t = 1..(n + 1) /\ k \in Nat /\ k <= n
      BY <1>0, <1>2, <1>3
    <2>2. \A i \in 1..n : list[i].priority \in Int /\ (i <= k <=> list[i].priority <= r.priority)
      BY <1>0, <1>2, <1>4, <1>5 DEF Relay
    <2>3. \A i \in 1..n : list[i].host # r.host
      BY <1>0, <1>5 DEF HostsOf
    <2>4. r.priority \in Int
      BY DEF Relay
    <2>5. ASSUME NEW i \in 1..(n + 1), NEW j \in 1..(n + 1), i < j
          PROVE  t[i].host # t[j].host /\ t[i].priority <= t[j].priority
      <3>1. CASE j <= k
        <4>1. t[i] = list[i] /\ t[j] = list[j] /\ i \in 1..n /\ j \in 1..n
          BY <1>0, <1>3, <2>1, <2>5, <3>1
        <4> QED BY <1>0, <1>5, <2>5, <4>1 DEF InOrderOnce
      <3>2. CASE j = k + 1
        <4>1. t[j] = r /\ i \in 1..n /\ i <= k /\ t[i] = list[i]
          BY <1>0, <1>3, <2>1, <2>5, <3>2
        <4> QED BY <2>2, <2>3, <4>1
      <3>3. CASE j > k + 1
        <4>1. j - 1 \in 1..n /\ t[j] = list[j - 1] /\ ~(j - 1 <= k)
          BY <1>0, <1>3, <2>1, <2>5, <3>3
        <4>2. CASE i <= k
          <5>1. t[i] = list[i] /\ i \in 1..n /\ i < j - 1
            BY <1>0, <1>3, <2>1, <4>1, <4>2
          <5> QED BY <1>0, <1>5, <4>1, <5>1 DEF InOrderOnce
        <4>3. CASE i = k + 1
          <5>1. t[i] = r
            BY <1>3, <2>1, <4>3
          <5> QED BY <2>2, <2>3, <2>4, <4>1, <5>1
        <4>4. CASE i > k + 1
          <5>1. t[i] = list[i - 1] /\ i - 1 \in 1..n /\ i - 1 < j - 1
            BY <1>0, <1>3, <2>1, <2>5, <4>1, <4>4
          <5> QED BY <1>0, <1>5, <4>1, <5>1 DEF InOrderOnce
        <4> QED BY <2>1, <4>2, <4>3, <4>4
      <3> QED BY <2>1, <3>1, <3>2, <3>3
    <2>6. InOrderOnce(t)
      BY <2>1, <2>5 DEF InOrderOnce
    <2>7. ASSUME NEW i \in 1..(n + 1) PROVE t[i].host \in HostsOf(list) \cup {r.host}
      <3>1. i = k + 1 \/ (i <= k /\ i \in 1..n) \/ (i > k + 1 /\ i - 1 \in 1..n)
        BY <1>0, <2>1
      <3>2. t[i] = r \/ (\E j \in 1..n : t[i] = list[j])
        BY <1>3, <2>1, <3>1
      <3> QED BY <1>0, <3>2 DEF HostsOf
    <2>8. ASSUME NEW i \in 1..n PROVE list[i].host \in HostsOf(t)
      <3>1. CASE i <= k
        <4>1. t[i] = list[i] /\ i \in 1..(n + 1)
          BY <1>0, <1>3, <3>1
        <4> QED BY <2>1, <4>1 DEF HostsOf
      <3>2. CASE ~(i <= k)
        <4>1. i + 1 \in 1..(n + 1) /\ ~(i + 1 <= k) /\ i + 1 # k + 1 /\ (i + 1) - 1 = i
          BY <1>0, <2>1, <3>2
        <4>2. t[i + 1] = list[i]
          BY <1>3, <4>1
        <4> QED BY <2>1, <4>1, <4>2 DEF HostsOf
      <3> QED BY <3>1, <3>2
    <2>9. r.host \in HostsOf(t)
      <3>1. k + 1 \in 1..(n + 1) /\ t[k + 1] = r
        BY <1>0, <1>3, <2>1
      <3> QED BY <2>1, <3>1 DEF HostsOf
    <2> QED BY <1>0, <2>1, <2>6, <2>7, <2>8, <2>9 DEF HostsOf
  <1> QED BY <1>1, <1>3, <1>5

\* relay remove takes the one host away and leaves the others in order.
LEMMA RemovedFacts ==
  ASSUME NEW list \in Seq(Relay), NEW k \in DOMAIN list
  PROVE  /\ RemoveAt(list, k) \in Seq(Relay)
         /\ InOrderOnce(list) =>
              /\ InOrderOnce(RemoveAt(list, k))
              /\ HostsOf(RemoveAt(list, k)) = HostsOf(list) \ {list[k].host}
  <1> DEFINE n == Len(list)
             t == RemoveAt(list, k)
  <1>0. n \in Nat /\ DOMAIN list = 1..n /\ k \in 1..n
    OBVIOUS
  <1>1. /\ t \in Seq(Relay) /\ Len(t) = n - 1
        /\ \A i \in 1..(n - 1) : t[i] = IF i < k THEN list[i] ELSE list[i + 1]
    BY <1>0, RemoveAtFacts
  <1> HIDE DEF t, n
  <1>2. ASSUME InOrderOnce(list)
        PROVE  InOrderOnce(t) /\ HostsOf(t) = HostsOf(list) \ {list[k].host}
    <2>1. DOMAIN t = 1..(n - 1)
      BY <1>0, <1>1
    <2> DEFINE o(i) == IF i < k THEN i ELSE i + 1
    <2>2. \A i \in 1..(n - 1) : t[i] = list[o(i)] /\ o(i) \in 1..n /\ o(i) # k
      BY <1>0, <1>1
    <2>3. \A i, j \in 1..(n - 1) : i < j => o(i) < o(j)
      BY <1>0
    <2>4. InOrderOnce(t)
      <3> SUFFICES ASSUME NEW i \in 1..(n - 1), NEW j \in 1..(n - 1), i < j
                   PROVE  t[i].host # t[j].host /\ t[i].priority <= t[j].priority
        BY <2>1 DEF InOrderOnce
      <3>1. /\ t[i] = list[o(i)] /\ t[j] = list[o(j)] /\ o(i) < o(j)
            /\ o(i) \in 1..n /\ o(j) \in 1..n
        BY <2>2, <2>3
      <3> HIDE DEF o
      <3> QED BY <1>0, <1>2, <3>1 DEF InOrderOnce
    <2>5. ASSUME NEW i \in 1..n, i # k PROVE list[i].host \in HostsOf(t)
      <3>1. CASE i < k
        <4>1. i \in 1..(n - 1) /\ o(i) = i
          BY <1>0, <3>1
        <4> QED BY <2>1, <2>2, <4>1 DEF HostsOf
      <3>2. CASE i > k
        <4>1. i - 1 \in 1..(n - 1) /\ o(i - 1) = i
          BY <1>0, <3>2
        <4> QED BY <2>1, <2>2, <4>1 DEF HostsOf
      <3> QED BY <1>0, <2>5, <3>1, <3>2
    <2>6. \A i \in 1..n : i # k => list[i].host # list[k].host
      BY <1>0, <1>2 DEF InOrderOnce
    <2>7. ASSUME NEW i \in 1..(n - 1) PROVE t[i].host \in HostsOf(list) \ {list[k].host}
      BY <1>0, <2>2, <2>6 DEF HostsOf
    <2> QED BY <1>0, <2>1, <2>4, <2>5, <2>6, <2>7 DEF HostsOf
  <1> QED BY <1>1, <1>2 DEF t

-----------------------------------------------------------------------------
(* The processes: what a step does to the one that takes it. *)

Steps == {"check", "openKeys", "writeKeys", "load", "openConfig", "writeConfig",
          "readKeys", "statKeys", "call", "ended"}
Process == [run: Nat, at: Steps, cmd: Command, mine: Config, read: Keys,
            exit: ExitCodes \cup {Running}, answer: Answers, alone: BOOLEAN, calm: BOOLEAN]

\* What a process at a step is about.
Sensible(r) ==
  /\ r.exit = Running <=> r.at # "ended"
  /\ r.at \in {"check", "openKeys", "writeKeys"} => r.cmd.op = "init"
  /\ r.at = "load" => r.cmd.op # "init"
  /\ r.at \in {"openConfig", "writeConfig"} => r.cmd.op \in Writers /\ r.mine.is = "whole"
  /\ r.at \in {"writeKeys", "openConfig", "writeConfig"} /\ r.cmd.op = "init" =>
       r.mine.is = "whole" /\ r.mine.by = r.run /\ r.mine.relays = <<>>
  /\ r.at \in {"readKeys", "statKeys"} => r.cmd.op \in Uses
  /\ r.at = "call" => r.cmd.op \in (Uses \ {"identity"}) \cup {"resolve"}
  /\ r.at = "call" /\ r.cmd.op # "resolve" => r.read.is = "whole"
  /\ r.run <= runs

Typed ==
  /\ config \in Config /\ keys \in Keys
  /\ proc \in [Procs -> Process]
  /\ runs \in 0..MaxRuns /\ faults \in 0..Faults
  /\ calm \in BOOLEAN /\ listed \in SUBSET Hosts /\ duel \in BOOLEAN
  /\ config.by <= runs
  /\ \A p \in Procs : Sensible(proc[p]) /\ proc[p].mine.by <= runs

\* A process goes on.
Moves(p, from, to) ==
  /\ proc' \in [Procs -> Process]
  /\ proc[p].at = from /\ proc'[p].at = to
  /\ proc'[p].run = proc[p].run /\ proc'[p].cmd = proc[p].cmd /\ proc'[p].exit = proc[p].exit
  /\ proc'[p].alone = proc[p].alone /\ proc'[p].calm = proc[p].calm
  /\ \A q \in Procs : q # p => proc'[q] = proc[q]

\* It exits.
Ends(p) ==
  /\ proc' \in [Procs -> Process]
  /\ proc'[p].at = "ended" /\ proc'[p].exit \in ExitCodes /\ proc'[p].run = 0
  /\ proc'[p].mine = NoConfig
  /\ \A q \in Procs : q # p => proc'[q] = proc[q]

LEMMA IdleFacts ==
  /\ Idle \in Process /\ NoConfig \in Config /\ NoKeys \in Keys
  /\ ExitCodes \subseteq Int /\ Running \in Int /\ Running \notin ExitCodes
  /\ \A code \in ExitCodes : [Idle EXCEPT !.exit = code] \in Process
  <1>1. NoConfig \in Config /\ NoKeys \in Keys
    BY DEF NoConfig, NoKeys, Config, Keys
  <1>2. [op |-> "list"] \in Command
    BY DEF Command
  <1>3. ExitCodes \subseteq Int /\ Running \in Int /\ Running \notin ExitCodes
    BY DEF ExitCodes, Running
  <1>4. 0 \in ExitCodes /\ "ok" \in Answers /\ "ended" \in Steps
    BY DEF ExitCodes, Answers, Steps
  <1> QED BY <1>1, <1>2, <1>3, <1>4 DEF Idle, Process

LEMMA CommandFacts ==
  ASSUME NEW c \in Command
  PROVE  /\ c.op \in {"init", "add", "remove", "list", "resolve"} \cup Uses
         /\ c.op = "init" => c.force \in BOOLEAN /\ c.sound \in BOOLEAN
         /\ c.op = "add" => c.relay \in Relay /\ c.sound \in BOOLEAN
         /\ c.op = "remove" => c.host \in Hosts
         /\ c.op \notin Writers => c.op \in Uses \cup {"list", "resolve"}
  BY CommandLineAssumption DEF Command, Relay, Writers

LEMMA EndFacts ==
  ASSUME Typed, NEW p \in Procs, NEW code \in ExitCodes, End(p, code)
  PROVE  Ends(p) /\ proc'[p].exit = code /\ proc'[p].answer = "ok"
  <1>1. [Idle EXCEPT !.exit = code] \in Process
    BY IdleFacts
  <1>2. /\ [Idle EXCEPT !.exit = code].at = "ended" /\ [Idle EXCEPT !.exit = code].exit = code
        /\ [Idle EXCEPT !.exit = code].run = 0 /\ [Idle EXCEPT !.exit = code].mine = NoConfig
        /\ [Idle EXCEPT !.exit = code].answer = "ok"
    BY DEF Idle
  <1>3. proc' = [proc EXCEPT ![p] = [Idle EXCEPT !.exit = code]]
    BY DEF End
  <1> QED BY <1>1, <1>2, <1>3 DEF Ends, Typed

LEMMA ProcessFields ==
  ASSUME NEW r \in Process
  PROVE  /\ r.run \in Nat /\ r.at \in Steps /\ r.cmd \in Command /\ r.mine \in Config
         /\ r.read \in Keys /\ r.exit \in ExitCodes \cup {Running} /\ r.answer \in Answers
         /\ r.alone \in BOOLEAN /\ r.calm \in BOOLEAN
  BY DEF Process

\* A process takes another step, with what it has in its hands or something else.
LEMMA StepTaken ==
  ASSUME Typed, NEW p \in Procs, NEW x \in Process, proc' = [proc EXCEPT ![p] = x],
         /\ x.run = proc[p].run /\ x.cmd = proc[p].cmd /\ x.exit = proc[p].exit
         /\ x.alone = proc[p].alone /\ x.calm = proc[p].calm
  PROVE  Moves(p, proc[p].at, x.at) /\ proc'[p] = x
  <1>1. proc'[p] = x /\ proc' \in [Procs -> Process]
        /\ \A q \in Procs : q # p => proc'[q] = proc[q]
    BY DEF Typed
  <1> QED BY <1>1 DEF Moves

LEMMA GotoFacts ==
  ASSUME Typed, NEW p \in Procs, NEW to \in Steps, Goto(p, to)
  PROVE  Moves(p, proc[p].at, to) /\ proc'[p].mine = proc[p].mine /\ proc'[p].read = proc[p].read
  <1> PICK x : x = [proc[p] EXCEPT !.at = to]
    OBVIOUS
  <1>1. proc[p] \in Process
    BY DEF Typed
  <1>2. /\ x \in Process /\ x.at = to /\ x.mine = proc[p].mine /\ x.read = proc[p].read
        /\ x.run = proc[p].run /\ x.cmd = proc[p].cmd /\ x.exit = proc[p].exit
        /\ x.alone = proc[p].alone /\ x.calm = proc[p].calm
    BY <1>1 DEF Process
  <1>3. proc' = [proc EXCEPT ![p] = x]
    BY DEF Goto
  <1>4. Moves(p, proc[p].at, x.at) /\ proc'[p] = x
    BY <1>2, <1>3, StepTaken
  <1> QED BY <1>2, <1>4

-----------------------------------------------------------------------------
(* The actions. *)

LEMMA CheckFacts ==
  ASSUME Typed, NEW p \in Procs, Check(p)
  PROVE  /\ UNCHANGED <<files, runs, faults, history>>
         /\ proc[p].at = "check"
         /\ \/ Ends(p)
            \/ /\ Moves(p, "check", "openKeys")
               /\ proc'[p].mine = proc[p].mine /\ proc'[p].read = proc[p].read
               /\ proc[p].cmd.force \/ config.is = "absent"
  <1>1. /\ At(p, "check") /\ UNCHANGED <<files, runs, faults, history>>
        /\ End(p, 2) \/ Goto(p, "openKeys")
        /\ ~proc[p].cmd.force /\ config.is # "absent" => End(p, 2)
    BY DEF Check, Refused
  <1>2. 2 \in ExitCodes /\ "openKeys" \in Steps
    BY DEF ExitCodes, Steps
  <1>3. CASE End(p, 2)
    BY <1>1, <1>2, <1>3, EndFacts DEF At
  <1>4. CASE Goto(p, "openKeys") /\ ~End(p, 2)
    BY <1>1, <1>2, <1>4, GotoFacts DEF At
  <1> QED BY <1>1, <1>3, <1>4

LEMMA OpenKeysFacts ==
  ASSUME Typed, NEW p \in Procs, OpenKeys(p)
  PROVE  /\ UNCHANGED <<config, runs, faults, history>>
         /\ Moves(p, "openKeys", "writeKeys") /\ proc'[p].read = proc[p].read
         /\ proc'[p].mine.is = "whole" /\ proc'[p].mine.by = proc[p].run
         /\ proc'[p].mine.relays = <<>>
         /\ keys' \in Keys /\ keys'.is = "empty" /\ keys'.by = 0
  <1> PICK m : m = Fresh(p)
    OBVIOUS
  <1> PICK x : x = [proc[p] EXCEPT !.at = "writeKeys", !.mine = m]
    OBVIOUS
  <1>1. proc[p] \in Process /\ proc[p].at = "openKeys" /\ proc[p].cmd.op = "init"
    BY DEF Typed, Sensible, OpenKeys, At
  <1>2. m \in Config /\ m.is = "whole" /\ m.by = proc[p].run /\ m.relays = <<>>
    BY <1>1, ProcessFields, CommandFacts DEF Fresh, Config
  <1>3. /\ x \in Process /\ x.at = "writeKeys" /\ x.mine = m /\ x.read = proc[p].read
        /\ x.run = proc[p].run /\ x.cmd = proc[p].cmd /\ x.exit = proc[p].exit
        /\ x.alone = proc[p].alone /\ x.calm = proc[p].calm
    BY <1>1, <1>2 DEF Process, Steps
  <1>4. proc' = [proc EXCEPT ![p] = x]
    BY DEF OpenKeys
  <1>5. Moves(p, proc[p].at, x.at) /\ proc'[p] = x
    BY <1>3, <1>4, StepTaken
  <1>6. keys' \in Keys /\ keys'.is = "empty" /\ keys'.by = 0
    BY DEF OpenKeys, Typed, Keys
  <1>7. UNCHANGED <<config, runs, faults, history>>
    BY DEF OpenKeys
  <1> QED BY <1>1, <1>2, <1>3, <1>5, <1>6, <1>7

LEMMA WriteKeysFacts ==
  ASSUME Typed, NEW p \in Procs, WriteKeys(p)
  PROVE  /\ UNCHANGED <<config, runs, faults, history>>
         /\ Moves(p, "writeKeys", "openConfig")
         /\ proc'[p].mine = proc[p].mine /\ proc'[p].read = proc[p].read
         /\ keys' \in Keys /\ keys'.is = "whole" /\ keys'.by = proc[p].run
  <1>1. /\ UNCHANGED <<config, runs, faults, history>> /\ proc[p].at = "writeKeys"
        /\ Goto(p, "openConfig") /\ "openConfig" \in Steps
    BY DEF WriteKeys, At, Steps
  <1>2. proc[p].run \in Nat
    BY ProcessFields DEF Typed
  <1>3. keys' \in Keys /\ keys'.is = "whole" /\ keys'.by = proc[p].run
    BY <1>2 DEF WriteKeys, Typed, Keys
  <1> QED BY <1>1, <1>3, GotoFacts

\* The config goes into the hands of a process that has read it, changed or not.
LEMMA SavingFacts ==
  ASSUME Typed, NEW p \in Procs, NEW list \in Seq(Relay), NEW ok \in BOOLEAN, Saving(p, list, ok)
  PROVE  /\ Moves(p, proc[p].at, "openConfig") /\ proc'[p].read = proc[p].read
         /\ proc'[p].mine.is = config.is /\ proc'[p].mine.by = config.by
         /\ proc'[p].mine.relays = list
  <1> PICK m : m = [config EXCEPT !.relays = list, !.sound = ok]
    OBVIOUS
  <1> PICK x : x = [proc[p] EXCEPT !.at = "openConfig", !.mine = m]
    OBVIOUS
  <1>1. proc[p] \in Process
    BY DEF Typed
  <1>2. m \in Config /\ m.is = config.is /\ m.by = config.by /\ m.relays = list
    BY DEF Typed, Config
  <1>3. /\ x \in Process /\ x.at = "openConfig" /\ x.mine = m /\ x.read = proc[p].read
        /\ x.run = proc[p].run /\ x.cmd = proc[p].cmd /\ x.exit = proc[p].exit
        /\ x.alone = proc[p].alone /\ x.calm = proc[p].calm
    BY <1>1, <1>2 DEF Process, Steps
  <1>4. proc' = [proc EXCEPT ![p] = x]
    BY DEF Saving
  <1>5. Moves(p, proc[p].at, x.at) /\ proc'[p] = x
    BY <1>3, <1>4, StepTaken
  <1> QED BY <1>2, <1>3, <1>5

LEMMA LoadFacts ==
  ASSUME Typed, NEW p \in Procs, Load(p)
  PROVE  /\ UNCHANGED <<files, runs, faults, history>>
         /\ proc[p].at = "load" /\ proc[p].cmd.op # "init"
         /\ \/ Ends(p) /\ ~Loads
            \/ Ends(p) /\ proc'[p].exit # 2
            \/ /\ Loads /\ proc[p].cmd.op = "add" /\ Moves(p, "load", "openConfig")
               /\ proc[p].cmd.relay.host \notin HostsOf(config.relays)
               /\ proc'[p].mine.relays = Inserted(config.relays, proc[p].cmd.relay)
               /\ proc'[p].mine.is = "whole" /\ proc'[p].mine.by = config.by
            \/ /\ Loads /\ proc[p].cmd.op = "remove" /\ Moves(p, "load", "openConfig")
               /\ \E i \in DOMAIN config.relays :
                    /\ config.relays[i].host = proc[p].cmd.host
                    /\ proc'[p].mine.relays = RemoveAt(config.relays, i)
               /\ proc'[p].mine.is = "whole" /\ proc'[p].mine.by = config.by
            \/ /\ proc[p].cmd.op = "resolve" /\ Moves(p, "load", "call")
               /\ proc'[p].mine = proc[p].mine
            \/ /\ Loads /\ proc[p].cmd.op \in Uses /\ Moves(p, "load", "readKeys")
               /\ proc'[p].mine = config
  <1> PICK c : c = proc[p].cmd
    OBVIOUS
  <1>1. /\ UNCHANGED <<files, runs, faults, history>> /\ proc[p].at = "load"
        /\ {0, 1, 2} \subseteq ExitCodes
    BY DEF Load, At, ExitCodes
  <1>2. /\ proc[p] \in Process /\ config \in Config /\ c \in Command /\ c.op # "init"
        /\ config.relays \in Seq(Relay)
    BY <1>1, ProcessFields DEF Typed, Sensible, Config
  <1>3. CASE ~Loads
    BY <1>1, <1>2, <1>3, EndFacts DEF Load
  <1>4. CASE Loads /\ c.op = "add"
    <2>1. AddRelay(p)
      BY <1>4 DEF Load, Op
    <2>2. CASE OnList(c.relay.host)
      BY <1>1, <1>2, <2>1, <2>2, EndFacts DEF AddRelay
    <2>3. CASE ~OnList(c.relay.host)
      <3>1. Saving(p, Inserted(config.relays, c.relay), c.sound)
        BY <2>1, <2>3 DEF AddRelay
      <3>2. c.relay \in Relay /\ c.sound \in BOOLEAN
        BY <1>2, <1>4, CommandFacts
      <3>3. Inserted(config.relays, c.relay) \in Seq(Relay)
        BY <1>2, <3>2, InsertedFacts
      <3>4. c.relay.host \notin HostsOf(config.relays)
        BY <2>3 DEF OnList, HostsOf
      <3> QED BY <1>1, <1>2, <1>4, <3>1, <3>2, <3>3, <3>4, SavingFacts DEF Loads
    <2> QED BY <2>2, <2>3
  <1>5. CASE Loads /\ c.op = "remove"
    <2>1. RemoveRelay(p)
      BY <1>5 DEF Load, Op
    <2>2. CASE ~OnList(c.host)
      BY <1>1, <1>2, <2>1, <2>2, EndFacts DEF RemoveRelay
    <2>3. CASE OnList(c.host)
      <3>1. PICK i \in DOMAIN config.relays :
              config.relays[i].host = c.host /\ Saving(p, RemoveAt(config.relays, i), TRUE)
        BY <2>1, <2>3 DEF RemoveRelay
      <3>2. RemoveAt(config.relays, i) \in Seq(Relay)
        BY <1>2, RemovedFacts
      <3> QED BY <1>1, <1>2, <1>5, <3>1, <3>2, SavingFacts DEF Loads
    <2> QED BY <2>2, <2>3
  <1>6. CASE Loads /\ c.op = "list"
    BY <1>1, <1>2, <1>6, EndFacts DEF Load, Op, ListRelays
  <1>7. CASE Loads /\ c.op = "resolve"
    <2>1. Goto(p, "call") /\ "call" \in Steps
      BY <1>7 DEF Load, Op, Steps
    <2> QED BY <1>1, <1>2, <1>7, <2>1, GotoFacts
  <1>8. CASE Loads /\ c.op \notin {"add", "remove", "list", "resolve"}
    <2> PICK x : x = [proc[p] EXCEPT !.at = "readKeys", !.mine = config]
      OBVIOUS
    <2>1. proc' = [proc EXCEPT ![p] = x]
      BY <1>8 DEF Load, Op
    <2>2. /\ x \in Process /\ x.at = "readKeys" /\ x.mine = config
          /\ x.run = proc[p].run /\ x.cmd = proc[p].cmd /\ x.exit = proc[p].exit
          /\ x.alone = proc[p].alone /\ x.calm = proc[p].calm
      BY <1>2 DEF Process, Steps
    <2>3. c.op \in Uses
      BY <1>2, <1>8, CommandFacts
    <2> QED BY <1>1, <1>2, <1>8, <2>1, <2>2, <2>3, StepTaken
  <1> QED BY <1>3, <1>4, <1>5, <1>6, <1>7, <1>8

LEMMA OpenConfigFacts ==
  ASSUME Typed, NEW p \in Procs, OpenConfig(p)
  PROVE  /\ UNCHANGED <<keys, runs, faults, history>>
         /\ Moves(p, "openConfig", "writeConfig")
         /\ proc'[p].mine = proc[p].mine /\ proc'[p].read = proc[p].read
         /\ config' \in Config /\ config'.is = "empty" /\ config'.by = 0
  <1>1. /\ UNCHANGED <<keys, runs, faults, history>> /\ proc[p].at = "openConfig"
        /\ Goto(p, "writeConfig") /\ "writeConfig" \in Steps
        /\ config' = [NoConfig EXCEPT !.is = "empty"]
    BY DEF OpenConfig, At, Steps
  <1>2. config' \in Config /\ config'.is = "empty"
    BY <1>1, IdleFacts DEF Config
  <1>3. config'.by = 0
    BY <1>1 DEF NoConfig
  <1> QED BY <1>1, <1>2, <1>3, GotoFacts

LEMMA WriteConfigFacts ==
  ASSUME Typed, NEW p \in Procs, WriteConfig(p)
  PROVE  /\ UNCHANGED <<keys, runs, faults, duel>>
         /\ proc[p].at = "writeConfig" /\ proc[p].cmd.op \in Writers /\ Ends(p)
         /\ proc'[p].exit = 0
         /\ config' \in Config /\ config'.by \in {config.by, proc[p].mine.by}
         /\ config.is = "empty" => config' = proc[p].mine
         /\ calm' = (calm \/ (proc[p].cmd.op = "init" /\ proc[p].alone))
         /\ proc[p].cmd.op = "init" => listed' = {}
         /\ proc[p].cmd.op = "add" => listed' = listed \cup {proc[p].cmd.relay.host}
         /\ proc[p].cmd.op = "remove" => listed' = listed \ {proc[p].cmd.host}
  <1>1. /\ UNCHANGED <<keys, runs, faults, duel>> /\ proc[p].at = "writeConfig"
        /\ End(p, 0) /\ 0 \in ExitCodes
        /\ config' = Overwritten(proc[p].mine)
        /\ calm' = (calm \/ (proc[p].cmd.op = "init" /\ proc[p].alone))
    BY DEF WriteConfig, At, Op, ExitCodes
  <1>2. proc[p] \in Process /\ proc[p].mine \in Config /\ proc[p].cmd.op \in Writers
    BY <1>1, ProcessFields DEF Typed, Sensible
  <1>3. \A c \in Config : [c EXCEPT !.is = "mixed"] \in Config
    BY DEF Config
  <1>4. config' \in Config /\ config'.by \in {config.by, proc[p].mine.by}
    BY <1>1, <1>2, <1>3 DEF Overwritten, Typed, Config
  <1>5. config.is = "empty" => config' = proc[p].mine
    BY <1>1 DEF Overwritten
  <1>6. /\ proc[p].cmd.op = "init" => listed' = {}
        /\ proc[p].cmd.op = "add" => listed' = listed \cup {proc[p].cmd.relay.host}
        /\ proc[p].cmd.op = "remove" => listed' = listed \ {proc[p].cmd.host}
    BY DEF WriteConfig, Op
  <1>7. Ends(p) /\ proc'[p].exit = 0
    BY <1>1, EndFacts
  <1> QED BY <1>1, <1>2, <1>4, <1>5, <1>6, <1>7

LEMMA ReadKeysFacts ==
  ASSUME Typed, NEW p \in Procs, ReadKeys(p)
  PROVE  /\ UNCHANGED <<files, runs, faults, history>> /\ proc[p].at = "readKeys"
         /\ \/ Ends(p) /\ keys.is = "absent"
            \/ /\ Moves(p, "readKeys", "statKeys") /\ keys.is # "absent"
               /\ proc'[p].mine = proc[p].mine /\ proc'[p].read = keys
  <1>1. UNCHANGED <<files, runs, faults, history>> /\ proc[p].at = "readKeys" /\ 2 \in ExitCodes
    BY DEF ReadKeys, At, ExitCodes
  <1>2. CASE keys.is = "absent"
    BY <1>1, <1>2, EndFacts DEF ReadKeys
  <1>3. CASE keys.is # "absent"
    <2> PICK x : x = [proc[p] EXCEPT !.at = "statKeys", !.read = keys]
      OBVIOUS
    <2>1. proc' = [proc EXCEPT ![p] = x]
      BY <1>3 DEF ReadKeys
    <2>2. proc[p] \in Process /\ keys \in Keys
      BY DEF Typed
    <2>3. /\ x \in Process /\ x.at = "statKeys" /\ x.mine = proc[p].mine /\ x.read = keys
          /\ x.run = proc[p].run /\ x.cmd = proc[p].cmd /\ x.exit = proc[p].exit
          /\ x.alone = proc[p].alone /\ x.calm = proc[p].calm
      BY <2>2 DEF Process, Steps
    <2>4. Moves(p, proc[p].at, x.at) /\ proc'[p] = x
      BY <2>1, <2>3, StepTaken
    <2> QED BY <1>1, <1>3, <2>3, <2>4
  <1> QED BY <1>2, <1>3

LEMMA StatKeysFacts ==
  ASSUME Typed, NEW p \in Procs, StatKeys(p)
  PROVE  /\ UNCHANGED <<files, runs, faults, history>> /\ proc[p].at = "statKeys"
         /\ \/ Ends(p) /\ (~keys.private \/ proc[p].read.is # "whole")
            \/ Ends(p) /\ proc'[p].exit # 2
            \/ /\ Moves(p, "statKeys", "call") /\ proc[p].read.is = "whole"
               /\ proc[p].cmd.op # "identity"
               /\ proc'[p].mine = proc[p].mine /\ proc'[p].read = proc[p].read
  <1>1. /\ UNCHANGED <<files, runs, faults, history>> /\ proc[p].at = "statKeys"
        /\ {0, 2} \subseteq ExitCodes /\ "call" \in Steps
    BY DEF StatKeys, At, ExitCodes, Steps
  <1>2. CASE ~keys.private \/ proc[p].read.is # "whole"
    BY <1>1, <1>2, EndFacts DEF StatKeys
  <1>3. CASE ~(~keys.private \/ proc[p].read.is # "whole") /\ proc[p].cmd.op = "identity"
    BY <1>1, <1>3, EndFacts DEF StatKeys, Op, Show
  <1>4. CASE ~(~keys.private \/ proc[p].read.is # "whole") /\ proc[p].cmd.op # "identity"
    <2>1. Goto(p, "call")
      BY <1>4 DEF StatKeys, Op
    <2> QED BY <1>1, <1>4, <2>1, GotoFacts
  <1> QED BY <1>2, <1>3, <1>4

LEMMA CallFacts ==
  ASSUME Typed, NEW p \in Procs, NEW a \in Answers, Call(p, a)
  PROVE  /\ UNCHANGED <<files, runs, faults, history>> /\ proc[p].at = "call"
         /\ Ends(p) /\ proc'[p].exit # 2
  <1> PICK e : e = ExitOf(proc[p].cmd.op, a)
    OBVIOUS
  <1> PICK x : x = [Idle EXCEPT !.answer = a, !.exit = e]
    OBVIOUS
  <1>1. /\ UNCHANGED <<files, runs, faults, history>> /\ proc[p].at = "call"
        /\ proc' = [proc EXCEPT ![p] = x]
    BY DEF Call, At, Op
  <1>2. proc[p].cmd.op \in {"send", "recv", "ack", "ping", "resolve"}
    BY <1>1, CommandLineAssumption DEF Typed, Sensible
  <1>3. e \in {0, 1, 3, 5} /\ e \in ExitCodes /\ e # 2
    BY <1>2 DEF ExitOf, SendExit, ResolveExit, InboxExit, PingExit, ExitCodes
  <1>4. Idle \in Process
    BY IdleFacts
  <1>5. /\ x \in Process /\ x.exit = e /\ x.at = "ended" /\ x.run = 0 /\ x.mine = NoConfig
    BY <1>3, <1>4 DEF Process, Idle
  <1>6. proc'[p] = x /\ proc' \in [Procs -> Process] /\ \A q \in Procs : q # p => proc'[q] = proc[q]
    BY <1>1, <1>5 DEF Typed
  <1> QED BY <1>1, <1>3, <1>5, <1>6 DEF Ends

LEMMA CutFacts ==
  ASSUME Typed, NEW p \in Procs, Cut(p)
  PROVE  /\ UNCHANGED <<files, runs, listed, duel>> /\ faults' = faults - 1 /\ faults > 0
         /\ calm' = FALSE /\ Writing(p) /\ Ends(p) /\ proc'[p].exit # 2
  BY EndFacts DEF Cut, ExitCodes

LEMMA ChmodFacts ==
  ASSUME Typed, Chmod
  PROVE  /\ UNCHANGED <<config, proc, runs, history>> /\ faults' = faults - 1 /\ faults > 0
         /\ keys' \in Keys /\ keys'.is = keys.is /\ keys'.by = keys.by
  BY DEF Chmod, Typed, Keys

\* A command begins, and if it writes no other is alone any more.
LEMMA StartFacts ==
  ASSUME Typed, NEW p \in Procs, NEW c \in Command, Start(p, c)
  PROVE  /\ UNCHANGED <<files, faults, listed>> /\ runs' = runs + 1 /\ runs' \in 0..MaxRuns
         /\ proc[p].exit # Running
         /\ proc' \in [Procs -> Process] /\ calm' \in BOOLEAN /\ duel' \in BOOLEAN
         /\ proc'[p].at = (IF c.op = "init" THEN "check" ELSE "load")
         /\ proc'[p].run = runs' /\ proc'[p].cmd = c /\ proc'[p].exit = Running
         /\ proc'[p].mine = NoConfig /\ proc'[p].calm = calm
         /\ proc'[p].alone <=> \A q \in Procs : q # p => ~Writing(q)
         /\ \A q \in Procs : q # p =>
              /\ proc'[q].at = proc[q].at /\ proc'[q].cmd = proc[q].cmd
              /\ proc'[q].exit = proc[q].exit /\ proc'[q].mine = proc[q].mine
              /\ proc'[q].read = proc[q].read /\ proc'[q].run = proc[q].run
              /\ proc'[q].calm = proc[q].calm
              /\ proc'[q].alone <=> proc[q].alone /\ c.op \notin Writers
         /\ calm' <=> calm /\ (c.op \in Writers => \A q \in Procs : q # p => ~Writing(q))
         /\ duel' <=> \/ duel
                      \/ /\ c.op = "init"
                         /\ \E q \in Procs : q # p /\ Writing(q) /\ proc[q].cmd.op = "init"
  <1> PICK crowd : crowd = {q \in Procs \ {p} : Writing(q)}
    OBVIOUS
  <1> DEFINE x == [Idle EXCEPT !.run = runs', !.cmd = c, !.exit = Running,
                         !.at = IF c.op = "init" THEN "check" ELSE "load",
                         !.alone = crowd = {}, !.calm = calm]
             y(q) == [proc[q] EXCEPT !.alone = @ /\ c.op \notin Writers]
  <1>1. /\ UNCHANGED <<files, faults, listed>> /\ runs' = runs + 1 /\ runs < MaxRuns
        /\ proc[p].exit # Running
        /\ proc' = [q \in Procs |-> IF q = p THEN x ELSE y(q)]
        /\ calm' = (calm /\ (c.op \in Writers => crowd = {}))
        /\ duel' = (duel \/ (c.op = "init" /\ \E q \in crowd : Op(q) = "init"))
    BY DEF Start
  <1>2. runs' \in 0..MaxRuns /\ runs' \in Nat
    <2>1. runs \in 0..MaxRuns /\ MaxRuns \in Nat
      BY CommandLineAssumption DEF Typed
    <2>2. runs' = runs + 1 /\ runs < MaxRuns
      BY DEF Start
    <2> QED BY <2>1, <2>2
  <1>3. /\ x \in Process /\ x.at = (IF c.op = "init" THEN "check" ELSE "load")
        /\ x.run = runs' /\ x.cmd = c /\ x.exit = Running /\ x.mine = NoConfig
        /\ x.calm = calm /\ x.alone = (crowd = {})
    <2>1. Idle \in Process /\ calm \in BOOLEAN /\ (crowd = {}) \in BOOLEAN
      BY IdleFacts DEF Typed
    <2> QED BY <1>2, <2>1 DEF Process, Idle, Steps
  <1>4. ASSUME NEW q \in Procs
        PROVE  /\ y(q) \in Process /\ y(q).at = proc[q].at /\ y(q).cmd = proc[q].cmd
               /\ y(q).exit = proc[q].exit /\ y(q).mine = proc[q].mine
               /\ y(q).read = proc[q].read /\ y(q).run = proc[q].run /\ y(q).calm = proc[q].calm
               /\ y(q).alone = (proc[q].alone /\ c.op \notin Writers)
    <2>1. proc[q] \in Process
      BY DEF Typed
    <2> QED BY <2>1 DEF Process
  <1> HIDE DEF x, y
  <1>5. proc' \in [Procs -> Process] /\ proc'[p] = x /\ \A q \in Procs : q # p => proc'[q] = y(q)
    BY <1>1, <1>3, <1>4
  <1>6. crowd = {} <=> \A q \in Procs : q # p => ~Writing(q)
    OBVIOUS
  <1>7. /\ calm' <=> calm /\ (c.op \in Writers => \A q \in Procs : q # p => ~Writing(q))
        /\ duel' <=> \/ duel
                     \/ /\ c.op = "init"
                        /\ \E q \in Procs : q # p /\ Writing(q) /\ proc[q].cmd.op = "init"
    BY <1>1, <1>6 DEF Op
  <1>8. calm' \in BOOLEAN /\ duel' \in BOOLEAN
    BY <1>1
  <1> QED BY <1>1, <1>2, <1>3, <1>4, <1>5, <1>6, <1>7, <1>8

-----------------------------------------------------------------------------
(* Types, and what each step is about. *)

LEMMA TypedInit == Init => Typed
  <1> SUFFICES ASSUME Init PROVE Typed
    OBVIOUS
  <1>1. Idle \in Process /\ NoConfig \in Config /\ NoKeys \in Keys
    BY IdleFacts
  <1>2. /\ proc = [p \in Procs |-> Idle] /\ config = NoConfig /\ keys = NoKeys
        /\ runs = 0 /\ faults = Faults /\ calm = TRUE /\ listed = {} /\ duel = FALSE
    BY DEF Init
  <1>3. Sensible(Idle) /\ Idle.mine.by = 0 /\ config.by = 0
    BY <1>2 DEF Sensible, Idle, NoConfig, Running
  <1>4. runs \in 0..MaxRuns /\ faults \in 0..Faults
    BY <1>2, CommandLineAssumption
  <1>5. config.by <= runs /\ \A p \in Procs : proc[p] = Idle /\ proc[p].mine.by <= runs
    BY <1>2, <1>3
  <1>6. \A p \in Procs : Sensible(proc[p])
    BY <1>3, <1>5
  <1>7. calm \in BOOLEAN /\ listed \in SUBSET Hosts /\ duel \in BOOLEAN
    BY <1>2
  <1>8. config \in Config /\ keys \in Keys /\ proc \in [Procs -> Process]
    BY <1>1, <1>2
  <1> QED BY <1>4, <1>5, <1>6, <1>7, <1>8 DEF Typed

\* A step of one process that starts no command.
LEMMA TypedStays ==
  ASSUME Typed, NEW p \in Procs, UNCHANGED runs,
         config' \in Config, config'.by <= runs, keys' \in Keys, faults' \in 0..Faults,
         calm' \in BOOLEAN, listed' \in SUBSET Hosts, duel' \in BOOLEAN,
         \/ Ends(p)
         \/ (\E from, to : Moves(p, from, to)) /\ Sensible(proc[p])' /\ proc'[p].mine.by <= runs
  PROVE  Typed'
  <1>1. /\ proc' \in [Procs -> Process]
        /\ \A q \in Procs : q # p => proc'[q] = proc[q]
    BY DEF Moves, Ends
  <1>2. \A q \in Procs : q # p => Sensible(proc[q])' /\ proc'[q].mine.by <= runs
    BY <1>1 DEF Typed, Sensible
  <1>3. Sensible(proc[p])' /\ proc'[p].mine.by <= runs
    <2>1. CASE Ends(p)
      <3>1. runs \in Nat /\ NoConfig.by = 0
        BY DEF Typed, NoConfig
      <3> QED BY <2>1, <3>1, IdleFacts DEF Ends, Sensible
    <2> QED BY <2>1
  <1>4. runs' \in 0..MaxRuns
    BY DEF Typed
  <1> QED BY <1>1, <1>2, <1>3, <1>4 DEF Typed

LEMMA TypedNext == Typed /\ [Next]_vars => Typed'
  <1> SUFFICES ASSUME Typed, [Next]_vars PROVE Typed'
    OBVIOUS
  <1>0. /\ config \in Config /\ keys \in Keys /\ faults \in 0..Faults
        /\ calm \in BOOLEAN /\ listed \in SUBSET Hosts /\ duel \in BOOLEAN
        /\ config.by <= runs /\ config.by \in Nat /\ keys.by \in Nat /\ runs \in Nat
        /\ \A p \in Procs : proc[p].mine.by <= runs /\ Sensible(proc[p]) /\ proc[p] \in Process
    BY DEF Typed, Config, Keys
  <1>1. ASSUME NEW p \in Procs, NEW c \in Command, Start(p, c) PROVE Typed'
    <2>1. /\ UNCHANGED <<files, faults, listed>> /\ runs' = runs + 1 /\ runs' \in 0..MaxRuns
          /\ proc' \in [Procs -> Process] /\ calm' \in BOOLEAN /\ duel' \in BOOLEAN
      BY <1>1, StartFacts
    <2>2. config'.by <= runs'
      BY <1>0, <2>1 DEF files
    <2>3. Sensible(proc[p])' /\ proc'[p].mine.by <= runs'
      <3>1. /\ proc'[p].at = (IF c.op = "init" THEN "check" ELSE "load")
            /\ proc'[p].run = runs' /\ proc'[p].cmd = c /\ proc'[p].exit = Running
            /\ proc'[p].mine = NoConfig
        BY <1>1, StartFacts
      <3>2. NoConfig.by = 0
        BY DEF NoConfig
      <3> QED BY <2>1, <3>1, <3>2 DEF Sensible
    <2>4. ASSUME NEW q \in Procs, q # p PROVE Sensible(proc[q])' /\ proc'[q].mine.by <= runs'
      <3>1. /\ proc'[q].at = proc[q].at /\ proc'[q].cmd = proc[q].cmd
            /\ proc'[q].exit = proc[q].exit /\ proc'[q].mine = proc[q].mine
            /\ proc'[q].read = proc[q].read /\ proc'[q].run = proc[q].run
        BY <1>1, <2>4, StartFacts
      <3>2. proc[q].run \in Nat /\ proc[q].mine.by \in Nat
        BY <1>0, ProcessFields DEF Config
      <3>3. proc'[q].run <= runs' /\ proc'[q].mine.by <= runs'
        <4>1. proc[q].run <= runs
          BY <1>0 DEF Sensible
        <4> QED BY <1>0, <2>1, <3>1, <3>2, <4>1
      <3> QED BY <1>0, <3>1, <3>3 DEF Sensible
    <2> QED BY <1>0, <2>1, <2>2, <2>3, <2>4 DEF Typed, files
  <1>2. ASSUME NEW p \in Procs, Check(p) PROVE Typed'
    <2>1. \/ Ends(p)
          \/ Moves(p, "check", "openKeys") /\ proc'[p].mine = proc[p].mine /\ proc[p].at = "check"
      BY <1>2, CheckFacts
    <2>2. Moves(p, "check", "openKeys") => Sensible(proc[p])'
      BY <1>0, <1>2, CheckFacts DEF Moves, Sensible
    <2> QED BY <1>0, <1>2, <2>1, <2>2, CheckFacts, TypedStays DEF files, history
  <1>3. ASSUME NEW p \in Procs, OpenKeys(p) PROVE Typed'
    <2>1. /\ UNCHANGED <<config, runs, faults, history>> /\ Moves(p, "openKeys", "writeKeys")
          /\ proc'[p].mine.is = "whole" /\ proc'[p].mine.by = proc[p].run
          /\ proc'[p].mine.relays = <<>> /\ keys' \in Keys
      BY <1>3, OpenKeysFacts
    <2>2. Sensible(proc[p])'
      BY <1>0, <2>1 DEF Moves, Sensible
    <2>3. proc'[p].mine.by <= runs
      BY <1>0, <2>1 DEF Sensible
    <2> QED BY <1>0, <2>1, <2>2, <2>3, TypedStays DEF history
  <1>4. ASSUME NEW p \in Procs, WriteKeys(p) PROVE Typed'
    <2>1. /\ UNCHANGED <<config, runs, faults, history>> /\ Moves(p, "writeKeys", "openConfig")
          /\ proc'[p].mine = proc[p].mine /\ keys' \in Keys
      BY <1>4, WriteKeysFacts
    <2>2. Sensible(proc[p])'
      BY <1>0, <2>1 DEF Moves, Sensible, Writers
    <2> QED BY <1>0, <2>1, <2>2, TypedStays DEF history
  <1>5. ASSUME NEW p \in Procs, Load(p) PROVE Typed'
    <2>1. UNCHANGED <<files, runs, faults, history>> /\ proc[p].at = "load"
      BY <1>5, LoadFacts
    <2>2. \/ Ends(p)
          \/ /\ Moves(p, "load", "openConfig") /\ proc[p].cmd.op \in {"add", "remove"}
             /\ proc'[p].mine.is = "whole" /\ proc'[p].mine.by = config.by
          \/ /\ proc[p].cmd.op = "resolve" /\ Moves(p, "load", "call")
             /\ proc'[p].mine = proc[p].mine
          \/ /\ proc[p].cmd.op \in Uses /\ Moves(p, "load", "readKeys")
             /\ proc'[p].mine = config
      BY <1>5, LoadFacts
    <2>3. \/ Ends(p)
          \/ /\ \E from, to : Moves(p, from, to)
             /\ Sensible(proc[p])' /\ proc'[p].mine.by <= runs
      BY <1>0, <2>1, <2>2 DEF Moves, Sensible, Writers
    <2> QED BY <1>0, <2>1, <2>3, TypedStays DEF files, history
  <1>6. ASSUME NEW p \in Procs, OpenConfig(p) PROVE Typed'
    <2>1. /\ UNCHANGED <<keys, runs, faults, history>> /\ Moves(p, "openConfig", "writeConfig")
          /\ proc'[p].mine = proc[p].mine /\ config' \in Config /\ config'.by = 0
      BY <1>6, OpenConfigFacts
    <2>2. Sensible(proc[p])'
      BY <1>0, <2>1 DEF Moves, Sensible
    <2> QED BY <1>0, <2>1, <2>2, TypedStays DEF history
  <1>7. ASSUME NEW p \in Procs, WriteConfig(p) PROVE Typed'
    <2>1. /\ UNCHANGED <<keys, runs, faults, duel>> /\ Ends(p) /\ proc[p].cmd.op \in Writers
          /\ config' \in Config /\ config'.by \in {config.by, proc[p].mine.by}
          /\ calm' = (calm \/ (proc[p].cmd.op = "init" /\ proc[p].alone))
      BY <1>7, WriteConfigFacts
    <2>2. listed' \in SUBSET Hosts
      <3>1. proc[p].cmd \in Command
        BY <1>0, ProcessFields
      <3>2. proc[p].cmd.op = "add" => proc[p].cmd.relay.host \in Hosts
        BY <3>1, CommandFacts DEF Relay
      <3> QED BY <1>0, <1>7, <2>1, <3>2, WriteConfigFacts DEF Writers
    <2>3. calm' \in BOOLEAN
      BY <2>1
    <2> QED BY <1>0, <2>1, <2>2, <2>3, TypedStays
  <1>8. ASSUME NEW p \in Procs, ReadKeys(p) PROVE Typed'
    <2>1. UNCHANGED <<files, runs, faults, history>> /\ proc[p].at = "readKeys"
      BY <1>8, ReadKeysFacts
    <2>2. \/ Ends(p)
          \/ Moves(p, "readKeys", "statKeys") /\ proc'[p].mine = proc[p].mine
      BY <1>8, ReadKeysFacts
    <2>3. Moves(p, "readKeys", "statKeys") => Sensible(proc[p])'
      BY <1>0, <2>1 DEF Moves, Sensible
    <2> QED BY <1>0, <2>1, <2>2, <2>3, TypedStays DEF files, history
  <1>9. ASSUME NEW p \in Procs, StatKeys(p) PROVE Typed'
    <2>1. UNCHANGED <<files, runs, faults, history>> /\ proc[p].at = "statKeys"
      BY <1>9, StatKeysFacts
    <2>2. \/ Ends(p)
          \/ /\ Moves(p, "statKeys", "call") /\ proc[p].read.is = "whole"
             /\ proc[p].cmd.op # "identity"
             /\ proc'[p].mine = proc[p].mine /\ proc'[p].read = proc[p].read
      BY <1>9, StatKeysFacts
    <2>3. \/ Ends(p)
          \/ (\E from, to : Moves(p, from, to)) /\ Sensible(proc[p])' /\ proc'[p].mine.by <= runs
      BY <1>0, <2>1, <2>2 DEF Moves, Sensible
    <2> QED BY <1>0, <2>1, <2>3, TypedStays DEF files, history
  <1>10. ASSUME NEW p \in Procs, NEW a \in Answers, Call(p, a) PROVE Typed'
    BY <1>0, <1>10, CallFacts, TypedStays DEF files, history
  <1>11. ASSUME NEW p \in Procs, Cut(p) PROVE Typed'
    <2>1. faults' \in 0..Faults
      <3>1. faults' = faults - 1 /\ faults > 0
        BY <1>11, CutFacts
      <3> QED BY <1>0, <3>1, CommandLineAssumption
    <2> QED BY <1>0, <1>11, <2>1, CutFacts, TypedStays DEF files
  <1>12. CASE Chmod
    <2>1. faults' \in 0..Faults
      BY <1>0, <1>12, ChmodFacts, CommandLineAssumption
    <2> QED BY <1>12, <2>1, ChmodFacts DEF Typed, Sensible, history
  <1>13. CASE UNCHANGED vars
    BY <1>13 DEF Typed, Sensible, vars, files, history
  <1> QED
    BY <1>1, <1>2, <1>3, <1>4, <1>5, <1>6, <1>7, <1>8, <1>9, <1>10, <1>11, <1>12, <1>13
    DEF Next, Step

-----------------------------------------------------------------------------
(* Who writes, and what the files are while somebody does. *)

\* A process that is alone is not joined by a writer, and as long as calm reigns every
\* writer is alone.
AloneInv ==
  /\ \A p, q \in Procs : proc[p].exit = Running /\ proc[p].alone /\ q # p => ~Writing(q)
  /\ calm => \A p \in Procs : Writing(p) => proc[p].alone
  /\ \A p \in Procs : proc[p].exit = Running /\ proc[p].alone /\ proc[p].calm => calm

\* A writer that has written nothing yet, and one that has the config to write.
Untouched(p) == proc[p].at \in {"check", "openKeys", "load"}
Holding(p) == proc[p].at \in {"openConfig", "writeConfig"}

Still == calm /\ \A p \in Procs : Writing(p) => Untouched(p)

Intact ==
  \/ config.is = "absent" /\ keys.is = "absent"
  \/ config.is = "whole" /\ keys.is = "whole" /\ config.by = keys.by

PairInv ==
  /\ Still => Intact
  /\ \A p \in Procs : Writing(p) /\ proc[p].alone =>
       /\ proc[p].at = "writeConfig" => config.is = "empty"
       /\ Holding(p) /\ (calm \/ proc[p].cmd.op = "init") =>
            keys.is = "whole" /\ keys.by = proc[p].mine.by
       /\ proc[p].at = "openKeys" => proc[p].cmd.force \/ config.is = "absent"
  /\ \A p \in Procs :
       proc[p].at = "statKeys" /\ proc[p].alone /\ proc[p].calm => proc[p].read.is = "whole"

ListInv ==
  /\ Still => InOrderOnce(config.relays) /\ HostsOf(config.relays) = listed
  /\ \A p \in Procs : Holding(p) /\ calm =>
       /\ InOrderOnce(proc[p].mine.relays)
       /\ proc[p].cmd.op = "add" =>
            HostsOf(proc[p].mine.relays) = listed \cup {proc[p].cmd.relay.host}
       /\ proc[p].cmd.op = "remove" =>
            HostsOf(proc[p].mine.relays) = listed \ {proc[p].cmd.host}

\* A process that has taken the config and will save it or read keys for it.
InHand(p) == proc[p].at \in {"readKeys", "openConfig", "writeConfig"} /\ proc[p].cmd.op # "init"

Initing(p) == Writing(p) /\ proc[p].cmd.op = "init"

\* No config is newer than the keys, nor newer than the init under way.
AgeInv ==
  ~duel =>
    /\ \A p, q \in Procs : Initing(p) /\ Initing(q) => p = q
    /\ \A p \in Procs : Initing(p) =>
         /\ config.by <= proc[p].run
         /\ \A q \in Procs : InHand(q) => proc[q].mine.by <= proc[p].run
         /\ Holding(p) => keys.is = "whole" /\ keys.by = proc[p].run
    /\ keys.is = "whole" =>
         /\ config.by <= keys.by
         /\ \A q \in Procs : InHand(q) => proc[q].mine.by <= keys.by
    /\ \A p \in Procs :
         proc[p].at \in {"statKeys", "call"} /\ proc[p].cmd.op # "resolve" /\ proc[p].read.is = "whole" =>
           proc[p].mine.by <= proc[p].read.by

LEMMA AloneInit == Init => AloneInv
  BY IdleFacts DEF Init, AloneInv, Idle, Writing, ExitCodes, Running

\* What the steps are to someone who does not look at the files.
LEMMA StepKinds ==
  ASSUME Typed, [Next]_vars
  PROVE  \/ \E p \in Procs, c \in Command : Start(p, c)
         \/ \E p \in Procs : (\E from, to : Moves(p, from, to)) /\ UNCHANGED <<runs, history>>
         \/ \E p \in Procs : Ends(p) /\ UNCHANGED <<files, runs, history>>
         \/ \E p \in Procs : WriteConfig(p)
         \/ \E p \in Procs : Cut(p)
         \/ UNCHANGED <<config, proc, runs, history>>
  <1>1. ASSUME NEW p \in Procs,
               Check(p) \/ Load(p) \/ ReadKeys(p) \/ StatKeys(p) \/ \E a \in Answers : Call(p, a)
        PROVE  /\ (\E from, to : Moves(p, from, to)) \/ Ends(p)
               /\ UNCHANGED <<files, runs, history>>
    BY <1>1, CheckFacts, LoadFacts, ReadKeysFacts, StatKeysFacts, CallFacts
  <1>2. ASSUME NEW p \in Procs, OpenKeys(p) \/ WriteKeys(p) \/ OpenConfig(p)
        PROVE  (\E from, to : Moves(p, from, to)) /\ UNCHANGED <<runs, history>>
    BY <1>2, OpenKeysFacts, WriteKeysFacts, OpenConfigFacts
  <1>3. CASE Chmod \/ UNCHANGED vars
    BY <1>3, ChmodFacts DEF vars, files
  <1> QED BY <1>1, <1>2, <1>3 DEF Next, Step

LEMMA AloneNext == Typed /\ AloneInv /\ [Next]_vars => AloneInv'
  <1> SUFFICES ASSUME Typed, AloneInv, [Next]_vars PROVE AloneInv'
    OBVIOUS
  <1>1. ASSUME NEW p \in Procs, NEW c \in Command, Start(p, c) PROVE AloneInv'
    <2>1. /\ proc[p].exit # Running /\ proc'[p].cmd = c /\ proc'[p].calm = calm
          /\ proc'[p].alone <=> \A q \in Procs : q # p => ~Writing(q)
          /\ \A q \in Procs : q # p =>
               /\ proc'[q].cmd = proc[q].cmd /\ proc'[q].exit = proc[q].exit
               /\ proc'[q].calm = proc[q].calm
               /\ proc'[q].alone <=> proc[q].alone /\ c.op \notin Writers
          /\ calm' <=> calm /\ (c.op \in Writers => \A q \in Procs : q # p => ~Writing(q))
      BY <1>1, StartFacts
    <2>2. /\ \A q \in Procs : q # p => (Writing(q)' <=> Writing(q))
          /\ Writing(p)' => c.op \in Writers
      BY <2>1 DEF Writing, Op
    <2> QED BY <2>1, <2>2 DEF AloneInv
  <1>2. ASSUME NEW p \in Procs, \E from, to : Moves(p, from, to), UNCHANGED calm PROVE AloneInv'
    <2>1. \A q \in Procs : /\ proc'[q].exit = proc[q].exit /\ proc'[q].cmd = proc[q].cmd
                           /\ proc'[q].alone = proc[q].alone /\ proc'[q].calm = proc[q].calm
      BY <1>2 DEF Moves
    <2> QED BY <1>2, <2>1 DEF AloneInv, Writing, Op
  <1>3. ASSUME NEW p \in Procs, Ends(p), calm' => calm \/ (Writing(p) /\ proc[p].alone),
               calm' \/ UNCHANGED calm \/ Writing(p)
        PROVE  AloneInv'
    <2>1. /\ proc'[p].exit # Running /\ \A q \in Procs : q # p => proc'[q] = proc[q]
          /\ Writing(p) => proc[p].exit = Running
      BY <1>3, IdleFacts DEF Ends, Writing
    <2>2. /\ ~Writing(p)' /\ \A q \in Procs : q # p => (Writing(q)' <=> Writing(q))
      BY <2>1 DEF Writing, Op
    <2> QED BY <1>3, <2>1, <2>2 DEF AloneInv
  <1>4. ASSUME NEW p \in Procs, WriteConfig(p) PROVE AloneInv'
    <2>1. /\ Ends(p) /\ proc[p].at = "writeConfig" /\ proc[p].cmd.op \in Writers
          /\ calm' = (calm \/ (proc[p].cmd.op = "init" /\ proc[p].alone))
      BY <1>4, WriteConfigFacts
    <2>2. Writing(p)
      BY <2>1 DEF Writing, Op, Typed, Sensible
    <2> QED BY <1>3, <2>1, <2>2
  <1>5. ASSUME NEW p \in Procs, Cut(p) PROVE AloneInv'
    BY <1>3, <1>5, CutFacts
  <1>6. ASSUME UNCHANGED <<proc, history>> PROVE AloneInv'
    BY <1>6 DEF AloneInv, Writing, Op, history
  <1> QED BY <1>1, <1>2, <1>3, <1>4, <1>5, <1>6, StepKinds DEF history

LEMMA PairInit == Init => PairInv
  BY IdleFacts DEF Init, PairInv, Still, Intact, Holding, Writing, Op, NoConfig, NoKeys, Idle, Writers

\* Those who run are at a step, and those at a step run.
LEMMA RunningFacts ==
  ASSUME Typed, NEW p \in Procs
  PROVE  /\ proc[p].exit = Running <=> proc[p].at # "ended"
         /\ Writing(p) <=> proc[p].at # "ended" /\ proc[p].cmd.op \in Writers
         /\ proc[p].at \in {"check", "openKeys", "writeKeys"} => Writing(p) /\ proc[p].cmd.op = "init"
         /\ Holding(p) => Writing(p)
         /\ proc[p].at \in {"readKeys", "statKeys", "call"} => ~Writing(p) /\ proc[p].cmd.op # "init"
  BY CommandLineAssumption DEF Typed, Sensible, Writing, Op, Holding, Writers

LEMMA RunningNext ==
  ASSUME Typed', NEW p \in Procs
  PROVE  /\ proc'[p].exit = Running <=> proc'[p].at # "ended"
         /\ Writing(p)' <=> proc'[p].at # "ended" /\ proc'[p].cmd.op \in Writers
  BY DEF Typed, Sensible, Writing, Op

\* A step of p that leaves the files alone: others have nothing to see.
LEMMA PairKept ==
  ASSUME Typed, Typed', AloneInv, PairInv, NEW p \in Procs,
         config' = config, keys'.is = keys.is, keys'.by = keys.by, UNCHANGED calm,
         \/ Ends(p) \/ \E from, to : Moves(p, from, to),
         Writing(p) => Untouched(p),
         Writing(p)' => Untouched(p)',
         proc'[p].at = "openKeys" => proc'[p].cmd.force \/ config.is = "absent",
         proc'[p].at = "statKeys" /\ proc'[p].alone /\ proc'[p].calm => proc'[p].read.is = "whole"
  PROVE  PairInv'
  <1>1. \A q \in Procs : q # p => proc'[q] = proc[q]
    BY DEF Ends, Moves
  <1>2. \A q \in Procs : q # p => (Writing(q)' <=> Writing(q)) /\ (Untouched(q)' <=> Untouched(q))
                                  /\ (Holding(q)' <=> Holding(q))
    BY <1>1 DEF Writing, Op, Untouched, Holding
  <1>3. Still' => Still
    BY <1>2 DEF Still
  <1>4. Intact <=> Intact'
    BY DEF Intact
  <1>5. Writing(p)' => ~Holding(p)' /\ proc'[p].at # "writeConfig"
    BY DEF Untouched, Holding
  <1> QED BY <1>1, <1>2, <1>3, <1>4, <1>5 DEF PairInv

\* A step of a writer that writes: no other writer is alone.
LEMMA PairWritten ==
  ASSUME Typed, Typed', AloneInv, PairInv, NEW p \in Procs, Writing(p),
         \/ Ends(p) \/ \E from, to : Moves(p, from, to),
         Still' => Intact',
         Writing(p)' /\ proc'[p].alone =>
           /\ proc'[p].at = "writeConfig" => config'.is = "empty"
           /\ Holding(p)' /\ (calm' \/ proc'[p].cmd.op = "init") =>
                keys'.is = "whole" /\ keys'.by = proc'[p].mine.by
           /\ proc'[p].at # "openKeys"
  PROVE  PairInv'
  <1>1. \A q \in Procs : q # p => proc'[q] = proc[q]
    BY DEF Ends, Moves
  <1>2. \A q \in Procs : q # p /\ proc[q].exit = Running => ~proc[q].alone
    BY DEF AloneInv
  <1>3. ASSUME NEW q \in Procs, Writing(q)', proc'[q].alone PROVE q = p
    BY <1>1, <1>2, <1>3 DEF Writing
  <1>4. ASSUME NEW q \in Procs, proc'[q].at = "statKeys", proc'[q].alone PROVE FALSE
    <2>1. proc'[q].exit = Running
      BY <1>4, RunningNext
    <2>2. q = p
      BY <1>1, <1>2, <1>4, <2>1
    <2>3. Ends(p) => proc'[p].at = "ended"
      BY DEF Ends
    <2>4. (\E from, to : Moves(p, from, to)) => proc'[p].cmd.op \in Writers
      BY RunningFacts DEF Moves
    <2>5. proc'[p].cmd.op \in Uses
      BY <1>4, <2>2 DEF Typed, Sensible
    <2> QED BY <1>4, <2>2, <2>3, <2>4, <2>5, CommandLineAssumption DEF Writers
  <1> QED BY <1>3, <1>4 DEF PairInv

LEMMA PairNext == Typed /\ AloneInv /\ PairInv /\ [Next]_vars => PairInv'
  <1> SUFFICES ASSUME Typed, AloneInv, PairInv, [Next]_vars PROVE PairInv'
    OBVIOUS
  <1>0. Typed'
    BY TypedNext
  <1>1. ASSUME NEW p \in Procs, NEW c \in Command, Start(p, c) PROVE PairInv'
    <2>1. /\ UNCHANGED files /\ proc[p].exit # Running
          /\ calm' => calm
          /\ proc'[p].at \in {"check", "load"}
          /\ \A q \in Procs : q # p =>
               /\ proc'[q].at = proc[q].at /\ proc'[q].cmd = proc[q].cmd
               /\ proc'[q].exit = proc[q].exit /\ proc'[q].mine = proc[q].mine
               /\ proc'[q].read = proc[q].read /\ proc'[q].run = proc[q].run
               /\ proc'[q].calm = proc[q].calm
               /\ proc'[q].alone => proc[q].alone
      BY <1>1, StartFacts
    <2>2. \A q \in Procs : q # p => /\ Writing(q)' <=> Writing(q)
                                    /\ Untouched(q)' <=> Untouched(q)
                                    /\ Holding(q)' <=> Holding(q)
      BY <2>1 DEF Writing, Op, Untouched, Holding
    <2>3. ~Writing(p) /\ ~Holding(p)'
      BY <2>1 DEF Writing, Holding
    <2>4. Still' => Intact'
      BY <2>1, <2>2, <2>3 DEF Still, Intact, PairInv, files
    <2> QED BY <2>1, <2>2, <2>3, <2>4 DEF PairInv, files
  <1>2. ASSUME NEW p \in Procs, Check(p) PROVE PairInv'
    <2>1. /\ UNCHANGED <<files, history>> /\ proc[p].at = "check"
          /\ \/ Ends(p)
             \/ Moves(p, "check", "openKeys") /\ (proc[p].cmd.force \/ config.is = "absent")
      BY <1>2, CheckFacts
    <2>2. /\ Untouched(p)
          /\ Writing(p)' => Untouched(p)'
          /\ proc'[p].at = "openKeys" => proc'[p].cmd.force \/ config.is = "absent"
          /\ proc'[p].at # "statKeys"
      BY <1>0, <2>1, RunningNext DEF Untouched, Ends, Moves
    <2> QED BY <1>0, <2>1, <2>2, PairKept DEF files, history
  <1>3. ASSUME NEW p \in Procs, OpenKeys(p) PROVE PairInv'
    <2>1. Moves(p, "openKeys", "writeKeys")
      BY <1>3, OpenKeysFacts
    <2>2. Writing(p) /\ proc'[p].at = "writeKeys" /\ Writing(p)'
      BY <1>0, <2>1, RunningFacts, RunningNext DEF Moves
    <2>3. ~Still' /\ ~Holding(p)'
      BY <2>2 DEF Still, Untouched, Holding
    <2> QED BY <1>0, <2>1, <2>2, <2>3, PairWritten
  <1>4. ASSUME NEW p \in Procs, WriteKeys(p) PROVE PairInv'
    <2>1. /\ Moves(p, "writeKeys", "openConfig") /\ proc'[p].mine = proc[p].mine
          /\ keys'.is = "whole" /\ keys'.by = proc[p].run
      BY <1>4, WriteKeysFacts
    <2>2. Writing(p) /\ proc'[p].at = "openConfig" /\ Writing(p)' /\ proc[p].mine.by = proc[p].run
      BY <1>0, <2>1, RunningFacts, RunningNext DEF Moves, Typed, Sensible
    <2>3. ~Still'
      BY <2>2 DEF Still, Untouched
    <2> QED BY <1>0, <2>1, <2>2, <2>3, PairWritten
  <1>5. ASSUME NEW p \in Procs, Load(p) PROVE PairInv'
    <2>1. UNCHANGED <<files, history>> /\ proc[p].at = "load" /\ Untouched(p)
      BY <1>5, LoadFacts DEF Untouched
    <2>2. CASE Ends(p)
      <3>1. /\ ~Writing(p)' /\ proc'[p].at \notin {"openKeys", "statKeys"}
        BY <1>0, <2>2, RunningNext DEF Ends
      <3> QED BY <1>0, <2>1, <2>2, <3>1, PairKept DEF files, history
    <2>3. CASE /\ Loads /\ Moves(p, "load", "openConfig") /\ proc[p].cmd.op \in {"add", "remove"}
               /\ proc'[p].mine.by = config.by
      <3>1. Writing(p) /\ proc'[p].at = "openConfig" /\ Writing(p)'
        BY <1>0, <2>1, <2>3, RunningFacts, RunningNext DEF Moves, Writers
      <3>2. ~Still'
        BY <3>1 DEF Still, Untouched
      <3>3. calm' => keys'.is = "whole" /\ keys'.by = proc'[p].mine.by
        <4>1. calm => Still
          BY <2>1, <3>1 DEF Still, AloneInv, Writing
        <4> QED BY <2>1, <2>3, <4>1 DEF PairInv, Intact, Loads, files, history
      <3>4. proc'[p].cmd.op # "init"
        BY <2>3 DEF Moves
      <3> QED BY <1>0, <2>3, <3>1, <3>2, <3>3, <3>4, PairWritten
    <2>4. CASE Moves(p, "load", "call") /\ proc[p].cmd.op = "resolve"
      <3>1. ~Writing(p)' /\ proc'[p].at = "call"
        BY <1>0, <2>4, RunningNext DEF Moves, Writers
      <3> QED BY <1>0, <2>1, <2>4, <3>1, PairKept DEF files, history
    <2>5. CASE Moves(p, "load", "readKeys") /\ proc[p].cmd.op \in Uses
      <3>1. ~Writing(p)' /\ proc'[p].at = "readKeys"
        BY <1>0, <2>5, RunningNext, CommandLineAssumption DEF Moves, Writers
      <3> QED BY <1>0, <2>1, <2>5, <3>1, PairKept DEF files, history
    <2> QED BY <1>5, <2>2, <2>3, <2>4, <2>5, LoadFacts
  <1>6. ASSUME NEW p \in Procs, OpenConfig(p) PROVE PairInv'
    <2>1. /\ Moves(p, "openConfig", "writeConfig") /\ proc'[p].mine = proc[p].mine
          /\ config'.is = "empty" /\ UNCHANGED <<keys, history>>
      BY <1>6, OpenConfigFacts
    <2>2. Writing(p) /\ proc'[p].at = "writeConfig" /\ Writing(p)' /\ Holding(p)
      BY <1>0, <2>1, RunningFacts, RunningNext DEF Moves, Holding
    <2>3. ~Still'
      BY <2>2 DEF Still, Untouched
    <2>4. proc'[p].alone /\ (calm' \/ proc'[p].cmd.op = "init") =>
            keys'.is = "whole" /\ keys'.by = proc'[p].mine.by
      BY <2>1, <2>2 DEF PairInv, Moves, history
    <2> QED BY <1>0, <2>1, <2>2, <2>3, <2>4, PairWritten
  <1>7. ASSUME NEW p \in Procs, WriteConfig(p) PROVE PairInv'
    <2>1. /\ UNCHANGED keys /\ Ends(p) /\ proc[p].at = "writeConfig"
          /\ config.is = "empty" => config' = proc[p].mine
          /\ calm' = (calm \/ (proc[p].cmd.op = "init" /\ proc[p].alone))
      BY <1>7, WriteConfigFacts
    <2>2. Writing(p) /\ ~Writing(p)' /\ Holding(p) /\ proc[p].mine.is = "whole"
      BY <1>0, <2>1, RunningFacts, RunningNext DEF Ends, Holding, Typed, Sensible
    <2>3. calm' => proc[p].alone /\ (calm \/ proc[p].cmd.op = "init")
      BY <2>1, <2>2 DEF AloneInv
    <2>4. calm' => config' = proc[p].mine /\ keys.is = "whole" /\ keys.by = proc[p].mine.by
      BY <2>1, <2>2, <2>3 DEF PairInv
    <2>5. Still' => Intact'
      BY <2>1, <2>2, <2>4 DEF Still, Intact
    <2> QED BY <1>0, <2>1, <2>2, <2>5, PairWritten
  <1>8. ASSUME NEW p \in Procs, ReadKeys(p) PROVE PairInv'
    <2>1. /\ UNCHANGED <<files, history>> /\ proc[p].at = "readKeys" /\ ~Writing(p)
          /\ proc[p].exit = Running
      BY <1>8, ReadKeysFacts, RunningFacts
    <2>2. CASE Ends(p)
      <3>1. /\ ~Writing(p)' /\ proc'[p].at \notin {"openKeys", "statKeys"}
        BY <1>0, <2>2, RunningNext DEF Ends
      <3> QED BY <1>0, <2>1, <2>2, <3>1, PairKept DEF files, history
    <2>3. CASE Moves(p, "readKeys", "statKeys") /\ keys.is # "absent" /\ proc'[p].read = keys
      <3>1. ~Writing(p)' /\ proc'[p].at = "statKeys"
        BY <1>0, <2>1, <2>3, RunningFacts, RunningNext DEF Moves
      <3>2. proc[p].alone /\ proc[p].calm => Still
        BY <2>1 DEF Still, AloneInv
      <3>3. proc[p].alone /\ proc[p].calm => keys.is = "whole"
        BY <2>3, <3>2 DEF PairInv, Intact
      <3>4. proc'[p].alone = proc[p].alone /\ proc'[p].calm = proc[p].calm
        BY <2>3 DEF Moves
      <3> QED BY <1>0, <2>1, <2>3, <3>1, <3>3, <3>4, PairKept DEF files, history
    <2> QED BY <1>8, <2>2, <2>3, ReadKeysFacts
  <1>9. ASSUME NEW p \in Procs, StatKeys(p) \/ \E a \in Answers : Call(p, a) PROVE PairInv'
    <2>1. /\ UNCHANGED <<files, history>> /\ proc[p].at \in {"statKeys", "call"}
          /\ Ends(p) \/ Moves(p, "statKeys", "call")
      BY <1>9, StatKeysFacts, CallFacts
    <2>2. ~Writing(p)
      BY <2>1, RunningFacts
    <2>3. ~Writing(p)' /\ proc'[p].at \notin {"openKeys", "statKeys"}
      BY <1>0, <2>1, RunningFacts, RunningNext DEF Ends, Moves
    <2> QED BY <1>0, <2>1, <2>2, <2>3, PairKept DEF files, history
  <1>10. ASSUME NEW p \in Procs, Cut(p) PROVE PairInv'
    <2>1. calm' = FALSE /\ Writing(p) /\ Ends(p)
      BY <1>10, CutFacts
    <2>2. ~Still' /\ ~Writing(p)'
      BY <1>0, <2>1, RunningNext DEF Still, Ends
    <2> QED BY <1>0, <2>1, <2>2, PairWritten
  <1>11. CASE Chmod \/ UNCHANGED vars
    <2>1. UNCHANGED <<config, proc, history>> /\ keys'.is = keys.is /\ keys'.by = keys.by
      BY <1>11, ChmodFacts DEF vars, files
    <2> QED BY <2>1 DEF PairInv, Still, Intact, Writing, Op, Untouched, Holding, history
  <1> QED
    BY <1>1, <1>2, <1>3, <1>4, <1>5, <1>6, <1>7, <1>8, <1>9, <1>10, <1>11 DEF Next, Step

-----------------------------------------------------------------------------
(* The list. *)

LEMMA EmptyList == InOrderOnce(<<>>) /\ HostsOf(<<>>) = {}
  BY DEF InOrderOnce, HostsOf

LEMMA ListInit == Init => ListInv
  BY EmptyList DEF Init, ListInv, Holding, NoConfig, Idle

\* A step that leaves the config and who is to write it alone.
LEMMA ListKept1 ==
  ASSUME ListInv, UNCHANGED <<config, listed>>, Still' => Still, calm' => calm,
         \A q \in Procs : Holding(q)' /\ calm' =>
           Holding(q) /\ proc'[q].mine = proc[q].mine /\ proc'[q].cmd = proc[q].cmd
  PROVE  ListInv'
  BY DEF ListInv

LEMMA ListNext == Typed /\ AloneInv /\ PairInv /\ ListInv /\ [Next]_vars => ListInv'
  <1> SUFFICES ASSUME Typed, AloneInv, PairInv, ListInv, [Next]_vars PROVE ListInv'
    OBVIOUS
  <1>0. Typed'
    BY TypedNext
  <1>1. ASSUME NEW p \in Procs, NEW c \in Command, Start(p, c) PROVE ListInv'
    <2>1. /\ UNCHANGED <<files, listed>> /\ proc[p].exit # Running
          /\ calm' => calm
          /\ proc'[p].at \in {"check", "load"}
          /\ \A q \in Procs : q # p =>
               /\ proc'[q].at = proc[q].at /\ proc'[q].cmd = proc[q].cmd
               /\ proc'[q].exit = proc[q].exit /\ proc'[q].mine = proc[q].mine
      BY <1>1, StartFacts
    <2>2. Still' => Still
      BY <2>1 DEF Still, Writing, Op, Untouched
    <2>3. ~Holding(p)' /\ \A q \in Procs : q # p => (Holding(q)' <=> Holding(q))
      BY <2>1 DEF Holding
    <2> QED BY <2>1, <2>2, <2>3, ListKept1 DEF files
  <1>2. ASSUME NEW p \in Procs, UNCHANGED <<config, history>>,
               \/ Ends(p) \/ \E from, to : Moves(p, from, to),
               Writing(p) => Untouched(p), ~Holding(p)'
        PROVE  ListInv'
    <2>1. \A q \in Procs : q # p => proc'[q] = proc[q]
      BY <1>2 DEF Ends, Moves
    <2>2. Still' => Still
      BY <1>2, <2>1 DEF Still, Writing, Op, Untouched, history
    <2>3. \A q \in Procs : Holding(q)' => q # p /\ Holding(q)
      BY <1>2, <2>1 DEF Holding
    <2> QED BY <1>2, <2>1, <2>2, <2>3, ListKept1 DEF history
  <1>3. ASSUME NEW p \in Procs, UNCHANGED listed, \E from, to : Moves(p, from, to),
               Writing(p)', Holding(p)',
               calm' => /\ calm /\ InOrderOnce(proc'[p].mine.relays)
                        /\ proc[p].cmd.op = "add" =>
                             HostsOf(proc'[p].mine.relays) = listed \cup {proc[p].cmd.relay.host}
                        /\ proc[p].cmd.op = "remove" =>
                             HostsOf(proc'[p].mine.relays) = listed \ {proc[p].cmd.host}
        PROVE  ListInv'
    <2>1. /\ \A q \in Procs : q # p => proc'[q] = proc[q]
          /\ proc'[p].cmd = proc[p].cmd
      BY <1>3 DEF Moves
    <2>2. ~Still'
      BY <1>3 DEF Still, Untouched, Holding
    <2>3. \A q \in Procs : Holding(q)' => q = p \/ Holding(q)
      BY <2>1 DEF Holding
    <2> QED BY <1>3, <2>1, <2>2, <2>3 DEF ListInv
  <1>4. ASSUME NEW p \in Procs, Check(p) PROVE ListInv'
    <2>1. /\ UNCHANGED <<files, history>> /\ proc[p].at = "check" /\ ~Holding(p)'
          /\ \/ Ends(p) \/ Moves(p, "check", "openKeys")
      BY <1>4, CheckFacts DEF Holding, Ends, Moves
    <2> QED BY <1>2, <2>1 DEF Untouched, files
  <1>5. ASSUME NEW p \in Procs, OpenKeys(p) PROVE ListInv'
    <2>1. UNCHANGED <<config, history>> /\ Moves(p, "openKeys", "writeKeys") /\ ~Holding(p)'
      BY <1>5, OpenKeysFacts DEF Holding, Moves
    <2> QED BY <1>2, <2>1 DEF Untouched, Moves
  <1>6. ASSUME NEW p \in Procs, WriteKeys(p) PROVE ListInv'
    <2>1. /\ UNCHANGED <<config, history>> /\ Moves(p, "writeKeys", "openConfig")
          /\ proc'[p].mine = proc[p].mine /\ proc[p].at = "writeKeys"
      BY <1>6, WriteKeysFacts DEF Moves
    <2>2. proc[p].cmd.op = "init" /\ proc[p].mine.relays = <<>>
      BY <2>1 DEF Typed, Sensible
    <2>3. Writing(p)' /\ Holding(p)'
      BY <1>0, <2>1, <2>2, RunningNext DEF Moves, Holding, Writers
    <2> QED BY <1>3, <2>1, <2>2, <2>3, EmptyList DEF history
  <1>7. ASSUME NEW p \in Procs, Load(p) PROVE ListInv'
    <2>1. UNCHANGED <<files, history>> /\ proc[p].at = "load" /\ Untouched(p)
      BY <1>7, LoadFacts DEF Untouched
    <2>2. CASE Ends(p) \/ Moves(p, "load", "call") \/ Moves(p, "load", "readKeys")
      <3>1. ~Holding(p)'
        BY <2>2 DEF Holding, Ends, Moves
      <3> QED BY <1>2, <2>1, <2>2, <3>1 DEF files
    <2> PICK c : c = proc[p].cmd
      OBVIOUS
    <2>3. CASE Moves(p, "load", "openConfig") /\ c.op \in {"add", "remove"}
      <3>1. Writing(p) /\ Writing(p)' /\ Holding(p)'
        BY <1>0, <2>1, <2>3, RunningFacts, RunningNext DEF Moves, Holding, Writers
      <3>2. calm => InOrderOnce(config.relays) /\ HostsOf(config.relays) = listed
        <4>1. calm => Still
          BY <2>1, <3>1 DEF Still, AloneInv, Writing
        <4> QED BY <4>1 DEF ListInv
      <3>3. config.relays \in Seq(Relay) /\ c \in Command
        BY ProcessFields DEF Typed, Config
      <3>4. CASE /\ c.op = "add" /\ c.relay.host \notin HostsOf(config.relays)
                 /\ proc'[p].mine.relays = Inserted(config.relays, c.relay)
        <4>1. calm => /\ InOrderOnce(proc'[p].mine.relays)
                      /\ HostsOf(proc'[p].mine.relays) = listed \cup {c.relay.host}
          BY <3>2, <3>3, <3>4, CommandFacts, InsertedFacts
        <4> QED BY <1>3, <2>1, <2>3, <3>1, <3>4, <4>1 DEF history
      <3>5. CASE /\ c.op = "remove"
                 /\ \E i \in DOMAIN config.relays :
                      /\ config.relays[i].host = c.host
                      /\ proc'[p].mine.relays = RemoveAt(config.relays, i)
        <4>1. calm => /\ InOrderOnce(proc'[p].mine.relays)
                      /\ HostsOf(proc'[p].mine.relays) = listed \ {c.host}
          BY <3>2, <3>3, <3>5, RemovedFacts
        <4> QED BY <1>3, <2>1, <2>3, <3>1, <3>5, <4>1 DEF history
      <3> QED BY <1>7, <2>1, <2>3, <3>4, <3>5, LoadFacts DEF Moves, Ends
    <2> QED BY <1>7, <2>2, <2>3, LoadFacts
  <1>8. ASSUME NEW p \in Procs, OpenConfig(p) PROVE ListInv'
    <2>1. /\ Moves(p, "openConfig", "writeConfig") /\ proc'[p].mine = proc[p].mine
          /\ UNCHANGED <<keys, history>> /\ Holding(p) /\ Holding(p)'
      BY <1>8, OpenConfigFacts DEF Moves, Holding
    <2>2. Writing(p)'
      BY <1>0, <2>1, RunningFacts, RunningNext DEF Moves, Holding
    <2> QED BY <1>3, <2>1, <2>2 DEF ListInv, history
  <1>9. ASSUME NEW p \in Procs, WriteConfig(p) PROVE ListInv'
    <2> PICK c : c = proc[p].cmd
      OBVIOUS
    <2>1. /\ Ends(p) /\ proc[p].at = "writeConfig" /\ c.op \in Writers
          /\ config.is = "empty" => config' = proc[p].mine
          /\ calm' = (calm \/ (c.op = "init" /\ proc[p].alone))
          /\ c.op = "init" => listed' = {}
          /\ c.op = "add" => listed' = listed \cup {c.relay.host}
          /\ c.op = "remove" => listed' = listed \ {c.host}
      BY <1>9, WriteConfigFacts
    <2>2. Writing(p) /\ Holding(p) /\ (c.op = "init" => proc[p].mine.relays = <<>>)
          /\ proc[p].exit = Running
      BY <2>1, RunningFacts DEF Holding, Typed, Sensible
    <2>3. calm' => proc[p].alone /\ (calm \/ c.op = "init")
      BY <2>1, <2>2 DEF AloneInv
    <2>4. calm' => config' = proc[p].mine
      BY <2>1, <2>2, <2>3 DEF PairInv
    <2>5. c.op = "init" => /\ InOrderOnce(proc[p].mine.relays)
                           /\ HostsOf(proc[p].mine.relays) = listed'
      BY <2>1, <2>2, EmptyList
    <2>6. c.op # "init" /\ calm' => /\ InOrderOnce(proc[p].mine.relays)
                                    /\ HostsOf(proc[p].mine.relays) = listed'
      BY <2>1, <2>2, <2>3 DEF ListInv, Writers
    <2>7. calm' => InOrderOnce(config'.relays) /\ HostsOf(config'.relays) = listed'
      BY <2>4, <2>5, <2>6
    <2>8. ASSUME NEW q \in Procs, Holding(q)', calm' PROVE FALSE
      <3>1. q # p /\ proc'[q] = proc[q]
        BY <2>1, <2>8 DEF Ends, Holding
      <3>2. Writing(q)
        BY <2>8, <3>1, RunningFacts DEF Holding
      <3> QED BY <2>2, <2>3, <2>8, <3>1, <3>2 DEF AloneInv
    <2> QED BY <2>7, <2>8 DEF ListInv, Still
  <1>10. ASSUME NEW p \in Procs, ReadKeys(p) \/ StatKeys(p) \/ \E a \in Answers : Call(p, a)
         PROVE  ListInv'
    <2>1. /\ UNCHANGED <<files, history>> /\ proc[p].at \in {"readKeys", "statKeys", "call"}
          /\ Ends(p) \/ Moves(p, "readKeys", "statKeys") \/ Moves(p, "statKeys", "call")
      BY <1>10, ReadKeysFacts, StatKeysFacts, CallFacts
    <2>2. ~Writing(p) /\ ~Holding(p)'
      BY <2>1, RunningFacts DEF Ends, Moves, Holding
    <2> QED BY <1>2, <2>1, <2>2 DEF files
  <1>11. ASSUME NEW p \in Procs, Cut(p) PROVE ListInv'
    BY <1>11, CutFacts DEF ListInv, Still
  <1>12. CASE Chmod \/ UNCHANGED vars
    <2>1. UNCHANGED <<config, proc, history>>
      BY <1>12, ChmodFacts DEF vars, files
    <2>2. (Still' => Still) /\ \A q \in Procs : Holding(q)' => Holding(q)
      BY <2>1 DEF Still, Writing, Op, Untouched, Holding, history
    <2> QED BY <2>1, <2>2, ListKept1 DEF history
  <1> QED
    BY <1>1, <1>4, <1>5, <1>6, <1>7, <1>8, <1>9, <1>10, <1>11, <1>12 DEF Next, Step

-----------------------------------------------------------------------------
(* The age of configs and keys. *)

LEMMA AgeInit == Init => AgeInv
  BY IdleFacts DEF Init, AgeInv, Initing, Writing, Op, InHand, Holding, NoConfig, NoKeys, Idle, Running,
                   Writers

\* A step of p, which starts no command: no process becomes an init, and what p holds and
\* the files contain are as they have to be.
LEMMA AgeStep ==
  ASSUME AgeInv, NEW p \in Procs, UNCHANGED duel, \/ Ends(p) \/ \E from, to : Moves(p, from, to),
         ~duel =>
           /\ \A q \in Procs : Initing(q) =>
                /\ Initing(q)' => config'.by <= proc[q].run
                /\ Initing(q)' /\ InHand(p)' => proc'[p].mine.by <= proc[q].run
                /\ Initing(q)' /\ Holding(q)' => keys'.is = "whole" /\ keys'.by = proc[q].run
           /\ keys'.is = "whole" =>
                /\ config'.by <= keys'.by
                /\ \A q \in Procs : InHand(q)' => proc'[q].mine.by <= keys'.by
           /\ proc'[p].at \in {"statKeys", "call"} /\ proc'[p].cmd.op # "resolve"
                /\ proc'[p].read.is = "whole" => proc'[p].mine.by <= proc'[p].read.by
  PROVE  AgeInv'
  <1>1. \A q \in Procs : q # p => proc'[q] = proc[q]
    BY DEF Ends, Moves
  <1>2. \A q \in Procs : Initing(q)' => Initing(q) /\ proc'[q].run = proc[q].run
    BY <1>1, IdleFacts DEF Ends, Moves, Initing, Writing, Op
  <1>3. \A q \in Procs : q # p => (InHand(q)' <=> InHand(q))
    BY <1>1 DEF InHand
  <1> SUFFICES ASSUME ~duel PROVE AgeInv'
    BY DEF AgeInv
  <1>4. \A q, r \in Procs : Initing(q)' /\ Initing(r)' => q = r
    BY <1>2 DEF AgeInv
  <1>5. \A q \in Procs : Initing(q)' =>
          /\ config'.by <= proc'[q].run
          /\ \A r \in Procs : InHand(r)' => proc'[r].mine.by <= proc'[q].run
          /\ Holding(q)' => keys'.is = "whole" /\ keys'.by = proc'[q].run
    BY <1>1, <1>2, <1>3 DEF AgeInv
  <1>6. \A q \in Procs :
          proc'[q].at \in {"statKeys", "call"} /\ proc'[q].cmd.op # "resolve"
            /\ proc'[q].read.is = "whole" => proc'[q].mine.by <= proc'[q].read.by
    BY <1>1 DEF AgeInv
  <1> QED BY <1>4, <1>5, <1>6 DEF AgeInv

LEMMA AgeNext == Typed /\ AgeInv /\ [Next]_vars => AgeInv'
  <1> SUFFICES ASSUME Typed, AgeInv, [Next]_vars PROVE AgeInv'
    OBVIOUS
  <1>0. /\ Typed' /\ config.by \in Nat /\ keys.by \in Nat /\ config.by <= runs /\ runs \in Nat
        /\ \A q \in Procs : proc[q].run \in Nat /\ proc[q].mine.by \in Nat /\ proc[q].mine.by <= runs
    BY TypedNext, ProcessFields DEF Typed, Config, Keys
  <1>1. ASSUME NEW p \in Procs, NEW c \in Command, Start(p, c) PROVE AgeInv'
    <2> SUFFICES ASSUME ~duel' PROVE AgeInv'
      BY DEF AgeInv
    <2>1. /\ UNCHANGED files /\ runs' = runs + 1
          /\ proc'[p].at \in {"check", "load"} /\ proc'[p].run = runs' /\ proc'[p].cmd = c
          /\ \A q \in Procs : q # p =>
               /\ proc'[q].at = proc[q].at /\ proc'[q].cmd = proc[q].cmd
               /\ proc'[q].exit = proc[q].exit /\ proc'[q].mine = proc[q].mine
               /\ proc'[q].read = proc[q].read /\ proc'[q].run = proc[q].run
          /\ ~duel
          /\ c.op = "init" => \A q \in Procs : q # p => ~Initing(q)
      BY <1>1, StartFacts DEF Initing
    <2>2. /\ \A q \in Procs : q # p => /\ Initing(q)' <=> Initing(q)
                                       /\ InHand(q)' <=> InHand(q)
                                       /\ Holding(q)' <=> Holding(q)
          /\ ~InHand(p)' /\ ~Holding(p)'
          /\ Initing(p)' => c.op = "init"
      BY <2>1 DEF Initing, InHand, Holding, Writing, Op
    <2>3. \A q, r \in Procs : Initing(q)' /\ Initing(r)' => q = r
      BY <2>1, <2>2 DEF AgeInv
    <2>4. config.by <= runs' /\ \A q \in Procs : proc[q].mine.by <= runs'
      BY <1>0, <2>1
    <2>5. \A q \in Procs : Initing(q)' =>
            /\ config'.by <= proc'[q].run
            /\ \A r \in Procs : InHand(r)' => proc'[r].mine.by <= proc'[q].run
            /\ Holding(q)' => keys'.is = "whole" /\ keys'.by = proc'[q].run
      BY <2>1, <2>2, <2>4 DEF AgeInv, files
    <2> QED BY <2>1, <2>2, <2>3, <2>5 DEF AgeInv, files
  <1>2. ASSUME NEW p \in Procs, UNCHANGED <<duel, config>>, keys'.is = keys.is, keys'.by = keys.by,
               \/ Ends(p)
               \/ /\ \E from, to : Moves(p, from, to)
                  /\ Holding(p)' => Holding(p) \/ proc'[p].cmd.op # "init"
                  /\ InHand(p)' => proc'[p].mine = config
                  /\ proc'[p].at \in {"statKeys", "call"} /\ proc'[p].cmd.op # "resolve"
                       /\ proc'[p].read.is = "whole" /\ ~duel =>
                         proc'[p].mine.by <= proc'[p].read.by
        PROVE  AgeInv'
    <2>1. /\ \A q \in Procs : q # p => proc'[q] = proc[q]
          /\ Ends(p) => ~InHand(p)' /\ ~Holding(p)' /\ proc'[p].at = "ended"
      BY <1>2 DEF Ends, Moves, InHand, Holding
    <2>2. \A q \in Procs : q # p => (InHand(q)' <=> InHand(q)) /\ (Holding(q)' <=> Holding(q))
      BY <2>1 DEF InHand, Holding
    <2>3. Initing(p)' => proc'[p].cmd.op = "init"
      BY DEF Initing
    <2>4. ~duel => \A q \in Procs : Initing(q) =>
            /\ config'.by <= proc[q].run
            /\ InHand(p)' => proc'[p].mine.by <= proc[q].run
            /\ Initing(q)' /\ Holding(q)' => keys'.is = "whole" /\ keys'.by = proc[q].run
      BY <1>2, <2>1, <2>2, <2>3 DEF AgeInv
    <2>5. ~duel /\ keys'.is = "whole" =>
            /\ config'.by <= keys'.by
            /\ \A q \in Procs : InHand(q)' => proc'[q].mine.by <= keys'.by
      BY <1>2, <2>1, <2>2 DEF AgeInv
    <2>6. ~duel /\ proc'[p].at \in {"statKeys", "call"} /\ proc'[p].cmd.op # "resolve"
            /\ proc'[p].read.is = "whole" => proc'[p].mine.by <= proc'[p].read.by
      BY <1>2, <2>1
    <2> QED BY <1>2, <2>4, <2>5, <2>6, AgeStep
  <1>3. ASSUME NEW p \in Procs, Check(p) PROVE AgeInv'
    <2>1. Ends(p) \/ Moves(p, "check", "openKeys")
      BY <1>3, CheckFacts
    <2>2. UNCHANGED <<files, history>>
      BY <1>3, CheckFacts
    <2> QED BY <1>2, <2>1, <2>2 DEF files, history, Moves, Holding, InHand
  <1>4. ASSUME NEW p \in Procs, OpenKeys(p) PROVE AgeInv'
    <2>1. /\ UNCHANGED <<config, history>> /\ Moves(p, "openKeys", "writeKeys")
          /\ keys'.is = "empty" /\ proc[p].at = "openKeys"
      BY <1>4, OpenKeysFacts DEF Moves
    <2>2. Initing(p) /\ ~InHand(p)' /\ ~Holding(p)' /\ proc'[p].at = "writeKeys"
      BY <2>1, RunningFacts DEF Moves, Initing, InHand, Holding
    <2>3. ~duel => \A q \in Procs : Initing(q) => q = p /\ config'.by <= proc[q].run
      BY <2>1, <2>2 DEF AgeInv
    <2> QED BY <2>1, <2>2, <2>3, AgeStep DEF history
  <1>5. ASSUME NEW p \in Procs, WriteKeys(p) PROVE AgeInv'
    <2>1. /\ UNCHANGED <<config, history>> /\ Moves(p, "writeKeys", "openConfig")
          /\ keys'.is = "whole" /\ keys'.by = proc[p].run /\ proc[p].at = "writeKeys"
      BY <1>5, WriteKeysFacts DEF Moves
    <2>2. Initing(p) /\ ~InHand(p)' /\ proc'[p].at = "openConfig"
      BY <2>1, RunningFacts DEF Moves, Initing, InHand
    <2>3. ~duel => \A q \in Procs : Initing(q) => q = p /\ config'.by <= proc[q].run
      BY <2>1, <2>2 DEF AgeInv
    <2>4. ASSUME ~duel, NEW q \in Procs, InHand(q)' PROVE proc'[q].mine.by <= keys'.by
      <3>1. q # p /\ proc'[q] = proc[q] /\ InHand(q)
        BY <2>1, <2>2, <2>4 DEF Moves, InHand
      <3> QED BY <2>1, <2>2, <2>4, <3>1 DEF AgeInv
    <2>5. ~duel => config'.by <= keys'.by
      BY <2>1, <2>2 DEF AgeInv
    <2> QED BY <2>1, <2>2, <2>3, <2>4, <2>5, AgeStep DEF history
  <1>6. ASSUME NEW p \in Procs, Load(p) PROVE AgeInv'
    <2>1. UNCHANGED <<files, history>>
      BY <1>6, LoadFacts
    <2>2. CASE Ends(p)
      BY <1>2, <2>1, <2>2 DEF files, history
    <2>3. CASE \/ Moves(p, "load", "call") /\ proc[p].cmd.op = "resolve"
               \/ Moves(p, "load", "readKeys") /\ proc'[p].mine = config
      <3>1. ~Holding(p)' /\ (InHand(p)' => proc'[p].mine = config)
        BY <2>3 DEF Moves, Holding, InHand
      <3>2. proc'[p].at \in {"statKeys", "call"} => proc'[p].cmd.op = "resolve"
        BY <2>3 DEF Moves
      <3> QED BY <1>2, <2>1, <2>3, <3>1, <3>2 DEF files, history
    <2>4. CASE /\ Moves(p, "load", "openConfig") /\ proc[p].cmd.op \in {"add", "remove"}
               /\ proc'[p].mine.by = config.by
      <3>1. /\ proc'[p].at = "openConfig" /\ proc'[p].cmd.op # "init" /\ ~Initing(p)'
            /\ \A q \in Procs : q # p => proc'[q] = proc[q]
        BY <2>4 DEF Moves, Initing
      <3>2. ~duel => \A q \in Procs : Initing(q) =>
              /\ config'.by <= proc[q].run
              /\ proc'[p].mine.by <= proc[q].run
              /\ Initing(q)' /\ Holding(q)' => keys'.is = "whole" /\ keys'.by = proc[q].run
        BY <2>1, <2>4, <3>1 DEF AgeInv, Holding, files
      <3>3. ~duel /\ keys'.is = "whole" =>
              /\ config'.by <= keys'.by
              /\ \A q \in Procs : InHand(q)' => proc'[q].mine.by <= keys'.by
        BY <2>1, <2>4, <3>1 DEF AgeInv, InHand, files
      <3> QED BY <2>1, <2>4, <3>1, <3>2, <3>3, AgeStep DEF history
    <2> QED BY <1>6, <2>2, <2>3, <2>4, LoadFacts
  <1>7. ASSUME NEW p \in Procs, OpenConfig(p) PROVE AgeInv'
    <2>1. /\ Moves(p, "openConfig", "writeConfig") /\ proc'[p].mine = proc[p].mine
          /\ config'.by = 0 /\ UNCHANGED <<keys, history>>
      BY <1>7, OpenConfigFacts
    <2>2. /\ \A q \in Procs : q # p => proc'[q] = proc[q]
          /\ proc[p].at = "openConfig" /\ proc'[p].at = "writeConfig" /\ proc'[p].cmd = proc[p].cmd
      BY <2>1 DEF Moves
    <2>3. \A q \in Procs : (InHand(q)' <=> InHand(q)) /\ (Holding(q)' <=> Holding(q))
                           /\ proc'[q].mine = proc[q].mine
      BY <2>1, <2>2 DEF InHand, Holding
    <2>4. 0 <= keys.by /\ \A q \in Procs : 0 <= proc[q].run
      BY <1>0
    <2> QED BY <2>1, <2>2, <2>3, <2>4, AgeStep DEF AgeInv, history
  <1>8. ASSUME NEW p \in Procs, WriteConfig(p) PROVE AgeInv'
    <2>1. /\ UNCHANGED <<keys, duel>> /\ Ends(p) /\ proc[p].at = "writeConfig"
          /\ config'.by \in {config.by, proc[p].mine.by}
      BY <1>8, WriteConfigFacts
    <2>2. /\ \A q \in Procs : q # p => proc'[q] = proc[q]
          /\ ~InHand(p)' /\ ~Holding(p)' /\ ~Initing(p)' /\ proc'[p].at = "ended"
      BY <2>1, IdleFacts DEF Ends, InHand, Holding, Initing, Writing
    <2>3. CASE proc[p].cmd.op = "init"
      <3>1. Initing(p) /\ Holding(p) /\ proc[p].mine.by = proc[p].run
        BY <2>1, <2>3, RunningFacts DEF Initing, Holding, Typed, Sensible
      <3>2. ~duel => /\ keys.is = "whole" /\ keys.by = proc[p].run /\ config.by <= proc[p].run
                     /\ \A q \in Procs : Initing(q) => q = p
        BY <3>1 DEF AgeInv
      <3>3. proc[p].run <= proc[p].run
        BY <1>0
      <3>4. ~duel => config'.by <= keys'.by
        BY <2>1, <3>1, <3>2, <3>3
      <3>5. ~duel => \A q \in Procs : InHand(q)' => proc'[q].mine.by <= keys'.by
        BY <2>1, <2>2, <3>2 DEF AgeInv, InHand
      <3> QED BY <2>1, <2>2, <3>2, <3>4, <3>5, AgeStep
    <2>4. CASE proc[p].cmd.op # "init"
      <3>1. InHand(p)
        BY <2>1, <2>4 DEF InHand
      <3>2. ~duel => \A q \in Procs : Initing(q) =>
              /\ config'.by <= proc[q].run
              /\ Initing(q)' /\ Holding(q)' => keys'.is = "whole" /\ keys'.by = proc[q].run
        BY <2>1, <2>2, <3>1 DEF AgeInv, Holding
      <3>3. ~duel /\ keys'.is = "whole" =>
              /\ config'.by <= keys'.by
              /\ \A q \in Procs : InHand(q)' => proc'[q].mine.by <= keys'.by
        BY <2>1, <2>2, <3>1 DEF AgeInv, InHand
      <3> QED BY <2>1, <2>2, <3>2, <3>3, AgeStep
    <2> QED BY <2>3, <2>4
  <1>9. ASSUME NEW p \in Procs, ReadKeys(p) PROVE AgeInv'
    <2>1. UNCHANGED <<files, history>> /\ proc[p].at = "readKeys"
      BY <1>9, ReadKeysFacts
    <2>2. \/ Ends(p)
          \/ /\ Moves(p, "readKeys", "statKeys")
             /\ proc'[p].mine = proc[p].mine /\ proc'[p].read = keys
      BY <1>9, ReadKeysFacts
    <2>3. InHand(p)
      BY <2>1, RunningFacts DEF InHand
    <2>4. ~duel /\ keys.is = "whole" => proc[p].mine.by <= keys.by
      BY <2>3 DEF AgeInv
    <2> QED BY <1>2, <2>1, <2>2, <2>4 DEF files, history, Moves, Holding, InHand
  <1>10. ASSUME NEW p \in Procs, StatKeys(p) PROVE AgeInv'
    <2>1. UNCHANGED <<files, history>> /\ proc[p].at = "statKeys"
      BY <1>10, StatKeysFacts
    <2>2. \/ Ends(p)
          \/ /\ Moves(p, "statKeys", "call") /\ proc[p].read.is = "whole"
             /\ proc'[p].mine = proc[p].mine /\ proc'[p].read = proc[p].read
      BY <1>10, StatKeysFacts
    <2>3. ~duel /\ proc[p].cmd.op # "resolve" /\ proc[p].read.is = "whole" =>
            proc[p].mine.by <= proc[p].read.by
      BY <2>1 DEF AgeInv
    <2> QED BY <1>2, <2>1, <2>2, <2>3 DEF files, history, Moves, Holding, InHand
  <1>11. ASSUME NEW p \in Procs, (\E a \in Answers : Call(p, a)) \/ Cut(p) PROVE AgeInv'
    <2>1. Ends(p) /\ UNCHANGED <<files, duel>>
      BY <1>11, CallFacts, CutFacts DEF history
    <2> QED BY <1>2, <2>1 DEF files
  <1>12. CASE Chmod \/ UNCHANGED vars
    <2>1. UNCHANGED <<config, proc, duel>> /\ keys'.is = keys.is /\ keys'.by = keys.by
      BY <1>12, ChmodFacts DEF vars, files, history
    <2> QED BY <2>1 DEF AgeInv, Initing, InHand, Holding, Writing, Op
  <1> QED
    BY <1>1, <1>3, <1>4, <1>5, <1>6, <1>7, <1>8, <1>9, <1>10, <1>11, <1>12 DEF Next, Step

-----------------------------------------------------------------------------

\* While no writer is at work, and none has been cut short or run into, the config and
\* the keys are both there, whole and of one scut init, or neither is.
THEOREM FilesArePair == Spec => []OnePair
  <1>1. Typed => TypeOK
    BY ProcessFields DEF Typed, TypeOK, Sensible, Steps
  <1>2. PairInv => (Rest =>
          \/ config.is = "absent" /\ keys.is = "absent"
          \/ config.is = "whole" /\ keys.is = "whole" /\ config.by = keys.by)
    BY DEF PairInv, Rest, Still, Intact
  <1> QED
    BY <1>1, <1>2, TypedInit, TypedNext, AloneInit, AloneNext, PairInit, PairNext, PTL DEF Spec, OnePair

\* At such times the list holds what was added and not removed since, each host once
\* and by priority.
THEOREM ListStaysKept == Spec => []ListKept
  <1>1. ListInv => ListKept
    BY DEF ListInv, ListKept, Rest, Still, InOrderOnce, HostsOf
  <1> QED
    BY <1>1, TypedInit, TypedNext, AloneInit, AloneNext, PairInit, PairNext, ListInit, ListNext, PTL
    DEF Spec

\* A command never uses keys older than the config it has read, unless two scut inits
\* have run at once.
THEOREM KeysAreNotOlder == Spec => []KeysNotOlder
  <1>1. Typed /\ AgeInv => KeysNotOlder
    BY DEF AgeInv, KeysNotOlder, At, Op, Typed, Sensible
  <1> QED
    BY <1>1, TypedInit, TypedNext, AgeInit, AgeNext, PTL DEF Spec

\* scut init without --force costs keys only where there is no config.
THEOREM KeysNeedForce == Spec => UnforcedKeepsKeys
  <1>1. Typed /\ AloneInv /\ PairInv /\ [Next]_vars =>
          [\A p \in Procs :
             keys.is = "whole" /\ keys'.is = "empty" /\ At(p, "openKeys")
               /\ proc'[p].at = "writeKeys" /\ proc[p].alone
             => proc[p].cmd.force \/ config.is = "absent"]_vars
    BY RunningFacts DEF PairInv, At
  <1> QED
    BY <1>1, TypedInit, TypedNext, AloneInit, AloneNext, PairInit, PairNext, PTL
    DEF Spec, UnforcedKeepsKeys

\* A command that no writer overlapped, after writers that did not overlap, takes the
\* files for broken only for the reasons there are.
THEOREM CommandsAreServed == Spec => Served
  <1>1. Typed /\ AloneInv /\ PairInv /\ [Next]_vars =>
          [\A p \in Procs :
             /\ proc[p].exit = Running /\ proc'[p].exit = 2
             /\ proc[p].alone /\ proc[p].calm
             => config.is = "absent" \/ ~config.sound \/ ~keys.private \/ Op(p) = "init"]_vars
    <2> SUFFICES ASSUME Typed, AloneInv, PairInv, [Next]_vars, NEW p \in Procs,
                        proc[p].exit = Running, proc'[p].exit = 2, proc[p].alone, proc[p].calm,
                        config.is # "absent", config.sound, keys.private, Op(p) # "init"
                 PROVE  FALSE
      OBVIOUS
    <2>0. Running # 2
      BY DEF Running
    <2>1. ~Writing(p) \/ Untouched(p) => Still /\ config.is = "whole" /\ keys.is = "whole"
      BY DEF AloneInv, Still, PairInv, Intact
    <2>2. ASSUME NEW q \in Procs, NEW c \in Command, Start(q, c) PROVE FALSE
      BY <2>0, <2>2, StartFacts
    <2>3. ASSUME NEW q \in Procs, q # p, Ends(q) \/ \E from, to : Moves(q, from, to) PROVE FALSE
      BY <2>0, <2>3 DEF Ends, Moves
    <2>4. ASSUME NEW from, NEW to, Moves(p, from, to) PROVE FALSE
      BY <2>0, <2>4 DEF Moves
    <2>5. ASSUME Check(p) \/ OpenKeys(p) \/ WriteKeys(p) \/ OpenConfig(p) PROVE FALSE
      BY <2>4, <2>5, CheckFacts, RunningFacts, OpenKeysFacts, WriteKeysFacts, OpenConfigFacts DEF Op
    <2>6. ASSUME Load(p) PROVE FALSE
      <3>1. Untouched(p)
        BY <2>6, LoadFacts DEF Untouched
      <3> QED BY <2>1, <2>4, <2>6, <3>1, LoadFacts DEF Loads
    <2>7. ASSUME WriteConfig(p) \/ Cut(p) PROVE FALSE
      <3>1. CASE WriteConfig(p)
        <4>1. proc'[p].exit = 0
          BY <3>1, WriteConfigFacts
        <4> QED BY <4>1
      <3>2. CASE Cut(p)
        BY <3>2, CutFacts
      <3> QED BY <2>7, <3>1, <3>2
    <2>8. ASSUME ReadKeys(p) PROVE FALSE
      <3>1. ~Writing(p)
        BY <2>8, ReadKeysFacts, RunningFacts
      <3> QED BY <2>1, <2>4, <2>8, <3>1, ReadKeysFacts
    <2>9. ASSUME StatKeys(p) PROVE FALSE
      <3>1. proc[p].read.is = "whole"
        BY <2>9, StatKeysFacts DEF PairInv
      <3> QED BY <2>4, <2>9, <3>1, StatKeysFacts
    <2>10. ASSUME NEW a \in Answers, Call(p, a) PROVE FALSE
      BY <2>10, CallFacts
    <2>11. CASE Chmod \/ UNCHANGED vars
      BY <2>0, <2>11, ChmodFacts DEF vars
    <2>12. ASSUME NEW q \in Procs, q # p, Step(q) PROVE FALSE
      <3>1. \/ \E c \in Command : Start(q, c)
            \/ Ends(q) \/ \E from, to : Moves(q, from, to)
        BY <2>12, CheckFacts, OpenKeysFacts, WriteKeysFacts, LoadFacts, OpenConfigFacts, WriteConfigFacts,
           ReadKeysFacts, StatKeysFacts, CallFacts, CutFacts DEF Step
      <3> QED BY <2>2, <2>3, <2>12, <3>1
    <2> QED
      BY <2>2, <2>5, <2>6, <2>7, <2>8, <2>9, <2>10, <2>11, <2>12 DEF Next, Step
  <1> QED
    BY <1>1, TypedInit, TypedNext, AloneInit, AloneNext, PairInit, PairNext, PTL DEF Spec, Served
=============================================================================
