----------------------------- MODULE RegisterProofs -----------------------------
(***************************************************************************)
(* Proofs about the registry contract (Registry) and about the service that*)
(* registers agents there (Register).                                      *)
(*                                                                         *)
(* In the contract a mint under way has the state of before in its frame,  *)
(* so what is proved of the present state is proved of each of those too   *)
(* (ChainInv, WalletInv).  The service is shown to use the contract as     *)
(* anyone may (RegisterUsesRegistry), which carries the contract's         *)
(* invariants over; what is between it and its tokens is then followed     *)
(* through the requests in service (OwnInv, RowsInv), the transfers        *)
(* (CustodyInv) and the day's count (CapInv).                              *)
(***************************************************************************)
EXTENDS Register, FiniteSetTheorems, SequenceTheorems, TLAPS

-----------------------------------------------------------------------------
(* The registry. *)

\* A mint under way.
CallOf == [token: Tokens, uri: Uris, before: State]

\* A state of the registry within the first n of the mints under way: token ids are
\* dense, and a token has a document unless it is one of those being minted.
Sound(st, cs, n) ==
  \A t \in Tokens :
    /\ st.owner[t] # Nobody <=> t < st.next
    /\ st.owner[t] = Nobody => st.uri[t] = Empty
    /\ st.owner[t] # Nobody /\ st.uri[t] = Empty =>
         \E i \in 1..n : cs[i].token = t

\* The present state is sound, and so is the state each mint under way began in; the
\* tokens being minted are new, each newer than those of the calls around it.
ChainInv ==
  /\ Sound(Here, calls, Len(calls))
  /\ \A k \in 1..Len(calls) :
       /\ Sound(calls[k].before, calls, k - 1)
       /\ calls[k].token = calls[k].before.next
       /\ calls[k].token < next
       /\ \A j \in 1..(k - 1) : calls[j].token < calls[k].token

\* The tokens of accounts without code are as they were.
Same(b, st) ==
  \A t \in Tokens : t < b.next /\ b.owner[t] \notin Contracts =>
                      st.owner[t] = b.owner[t] /\ st.uri[t] = b.uri[t]

\* They are since the outermost mint began, and were whenever an inner one did.
WalletInv ==
  calls # <<>> =>
    /\ Same(calls[1].before, Here)
    /\ \A k \in 1..Len(calls) : Same(calls[1].before, calls[k].before)

\* Types of the registry, variable by variable.
LEMMA StateFields ==
  ASSUME NEW st \in State
  PROVE  /\ st.next \in 1..(MaxTokens + 1) /\ st.owner \in [Tokens -> Accounts \cup {Nobody}]
         /\ st.uri \in [Tokens -> Uris \cup {Empty}]
  BY DEF State

LEMMA HereFields ==
  /\ Here.next = next /\ Here.owner = owner /\ Here.uri = uri
  /\ Here \in State <=> /\ next \in 1..(MaxTokens + 1)
                        /\ owner \in [Tokens -> Accounts \cup {Nobody}]
                        /\ uri \in [Tokens -> Uris \cup {Empty}]
  BY DEF Here, State

LEMMA ChainTypes ==
  ChainTypeOK <=>
    /\ next \in 1..(MaxTokens + 1) /\ owner \in [Tokens -> Accounts \cup {Nobody}]
    /\ uri \in [Tokens -> Uris \cup {Empty}] /\ calls \in Seq(CallOf)
  BY HereFields DEF ChainTypeOK, CallOf

LEMMA ChainTypesNext ==
  ASSUME /\ next' \in 1..(MaxTokens + 1) /\ owner' \in [Tokens -> Accounts \cup {Nobody}]
         /\ uri' \in [Tokens -> Uris \cup {Empty}] /\ calls' \in Seq(CallOf)
  PROVE  ChainTypeOK'
  <1>1. Here' \in State
    BY DEF Here, State
  <1> QED BY <1>1 DEF ChainTypeOK, CallOf

LEMMA CallFields ==
  ASSUME ChainTypeOK
  PROVE  /\ Len(calls) \in Nat
         /\ \A k \in 1..Len(calls) :
              /\ calls[k] \in CallOf
              /\ calls[k].token \in Tokens /\ calls[k].uri \in Uris /\ calls[k].before \in State
  <1>1. calls \in Seq(CallOf)
    BY ChainTypes
  <1>2. Len(calls) \in Nat /\ \A k \in 1..Len(calls) : calls[k] \in CallOf
    BY <1>1
  <1>3. \A c \in CallOf : c.token \in Tokens /\ c.uri \in Uris /\ c.before \in State
    BY DEF CallOf
  <1> QED BY <1>2, <1>3

\* The frame on top, and those below.
LEMMA OuterFacts ==
  ASSUME ChainTypeOK, calls # <<>>
  PROVE  /\ Len(calls) \in Nat \ {0} /\ Len(Outer) = Len(calls) - 1 /\ Outer \in Seq(CallOf)
         /\ \A k \in 1..(Len(calls) - 1) : Outer[k] = calls[k]
         /\ Inner = calls[Len(calls)] /\ Len(calls) \in 1..Len(calls)
  <1>1. calls \in Seq(CallOf) /\ Len(calls) \in Nat \ {0}
    BY ChainTypes
  <1>2. /\ 1 \in Int /\ Len(calls) - 1 \in Int
        /\ \A i \in 1..(Len(calls) - 1) : calls[i] \in CallOf
    BY <1>1
  <1>3. /\ Outer \in Seq(CallOf) /\ Len(Outer) = Len(calls) - 1
        /\ \A i \in 1..(Len(calls) - 1) : Outer[i] = calls[i]
    <2> DEFINE m == Len(calls) - 1
    <2>1. m \in Int /\ 1 \in Int /\ m >= 0 /\ m - 1 + 1 = m /\ \A i \in 1..m : 1 + i - 1 = i
      BY <1>1
    <2>2. \A i \in 1..m : calls[i] \in CallOf
      BY <1>2
    <2>3. Outer = SubSeq(calls, 1, m)
      BY DEF Outer
    <2> HIDE DEF m
    <2>4. /\ SubSeq(calls, 1, m) \in Seq(CallOf)
          /\ Len(SubSeq(calls, 1, m)) = IF 1 <= m THEN m - 1 + 1 ELSE 0
          /\ \A i \in 1 .. m - 1 + 1 : SubSeq(calls, 1, m)[i] = calls[1 + i - 1]
      BY <2>1, <2>2, SubSeqProperties
    <2>5. Len(Outer) = m /\ \A i \in 1..m : Outer[i] = calls[i]
      BY <2>1, <2>3, <2>4
    <2> QED BY <2>3, <2>4, <2>5 DEF m
  <1> QED BY <1>1, <1>3 DEF Inner

\* Variables of the registry keep their types.
LEMMA ChainTypeInit == ChainInit => ChainTypeOK
  BY RegistryAssumption, ChainTypes DEF ChainInit

LEMMA ChainTypeNext == ChainTypeOK /\ [ChainNext]_chain => ChainTypeOK'
  <1> SUFFICES ASSUME ChainTypeOK, [ChainNext]_chain PROVE ChainTypeOK'
    OBVIOUS
  <1> USE RegistryAssumption
  <1>0. /\ next \in 1..(MaxTokens + 1) /\ owner \in [Tokens -> Accounts \cup {Nobody}]
        /\ uri \in [Tokens -> Uris \cup {Empty}] /\ calls \in Seq(CallOf)
    BY ChainTypes
  <1>1. ASSUME NEW s \in Accounts, NEW to \in Accounts, NEW u \in Uris, Mint(s, to, u)
        PROVE  ChainTypeOK'
    <2>1. [token |-> next, uri |-> u, before |-> Here] \in CallOf
      BY <1>0, <1>1, HereFields DEF CallOf, Mint
    <2>2. calls' \in Seq(CallOf)
      <3> DEFINE c == [token |-> next, uri |-> u, before |-> Here]
      <3>1. calls' = Append(calls, c) \/ calls' = calls
        BY <1>1 DEF Mint
      <3>2. c \in CallOf
        BY <2>1
      <3> HIDE DEF c
      <3> QED BY <1>0, <3>1, <3>2
    <2>3. next' \in 1..(MaxTokens + 1) /\ owner' \in [Tokens -> Accounts \cup {Nobody}]
          /\ uri' \in [Tokens -> Uris \cup {Empty}]
      BY <1>0, <1>1 DEF Mint, Tokens
    <2> QED BY <2>2, <2>3, ChainTypesNext
  <1>2. ASSUME NEW s \in Accounts, NEW t \in Tokens, NEW u \in Uris, Update(s, t, u)
        PROVE  ChainTypeOK'
    BY <1>0, <1>2, ChainTypesNext DEF Update
  <1>3. ASSUME NEW s \in Accounts, NEW t \in Tokens, NEW to \in Accounts, Transfer(s, t, to)
        PROVE  ChainTypeOK'
    BY <1>0, <1>3, ChainTypesNext DEF Transfer
  <1>4. CASE Received
    <2>1. Inner \in CallOf /\ Outer \in Seq(CallOf)
      BY <1>4, OuterFacts, CallFields DEF Received
    <2>2. Inner.token \in Tokens /\ Inner.uri \in Uris
      BY <2>1 DEF CallOf
    <2> QED BY <1>0, <1>4, <2>1, <2>2, ChainTypesNext DEF Received
  <1>5. CASE Revert
    <2>1. Inner \in CallOf /\ Outer \in Seq(CallOf)
      BY <1>5, OuterFacts, CallFields DEF Revert
    <2>2. Inner.before \in State
      BY <2>1 DEF CallOf
    <2> QED BY <1>5, <2>1, <2>2, StateFields, ChainTypesNext DEF Revert
  <1>6. CASE UNCHANGED chain
    BY <1>0, <1>6, ChainTypesNext DEF chain
  <1> QED BY <1>1, <1>2, <1>3, <1>4, <1>5, <1>6 DEF ChainNext, Calls

LEMMA ChainInvInit == ChainInit => ChainInv
  BY HereFields, RegistryAssumption DEF ChainInit, ChainInv, Sound, Tokens

LEMMA ChainInvNext == ChainTypeOK /\ ChainInv /\ [ChainNext]_chain => ChainInv'
  <1> SUFFICES ASSUME ChainTypeOK, ChainInv, [ChainNext]_chain PROVE ChainInv'
    OBVIOUS
  <1> USE RegistryAssumption
  <1>0. /\ next \in 1..(MaxTokens + 1) /\ owner \in [Tokens -> Accounts \cup {Nobody}]
        /\ uri \in [Tokens -> Uris \cup {Empty}] /\ calls \in Seq(CallOf) /\ Len(calls) \in Nat
        /\ Tokens = 1..MaxTokens
    BY ChainTypes DEF Tokens
  \* The state as it is, and as it was when a mint under way began.
  <1>h. Sound(Here, calls, Len(calls)) <=>
          \A t \in Tokens :
            /\ owner[t] # Nobody <=> t < next
            /\ owner[t] = Nobody => uri[t] = Empty
            /\ owner[t] # Nobody /\ uri[t] = Empty => \E i \in 1..Len(calls) : calls[i].token = t
    BY HereFields DEF Sound
  <1>i. Sound(Here', calls', Len(calls')) <=>
          \A t \in Tokens :
            /\ owner'[t] # Nobody <=> t < next'
            /\ owner'[t] = Nobody => uri'[t] = Empty
            /\ owner'[t] # Nobody /\ uri'[t] = Empty => \E i \in 1..Len(calls') : calls'[i].token = t
    BY HereFields DEF Sound, Here
  <1>j. ASSUME NEW n \in Nat, \A i \in 1..n : calls'[i] = calls[i], NEW st, Sound(st, calls, n)
        PROVE  Sound(st, calls', n)
    BY <1>j DEF Sound
  <1>1. ASSUME NEW s \in Accounts, NEW to \in Accounts, NEW u \in Uris, Mint(s, to, u)
        PROVE  ChainInv'
    <2>1. /\ next' = next + 1 /\ owner' = [owner EXCEPT ![next] = to] /\ next \in Tokens
          /\ u # Empty /\ to # Nobody
      BY <1>1 DEF Mint
    <2>2. CASE to \in Contracts
      <3> DEFINE c == [token |-> next, uri |-> u, before |-> Here]
      <3>1. calls' = Append(calls, c) /\ uri' = uri
        BY <1>1, <2>2 DEF Mint
      <3>2. /\ Len(calls') = Len(calls) + 1 /\ calls'[Len(calls) + 1] = c
            /\ \A i \in 1..Len(calls) : calls'[i] = calls[i]
        BY <1>0, <3>1
      <3>3. c.token = next /\ c.before = Here /\ c.before.next = next
        BY HereFields
      <3> HIDE DEF c
      <3>4. Sound(Here', calls', Len(calls'))
        <4>1. ASSUME NEW t \in Tokens, owner'[t] # Nobody, uri'[t] = Empty
              PROVE  \E i \in 1..Len(calls') : calls'[i].token = t
          <5>1. CASE t = next
            BY <1>0, <3>2, <3>3, <5>1
          <5>2. CASE t # next
            <6>1. PICK i \in 1..Len(calls) : calls[i].token = t
              BY <1>0, <1>h, <2>1, <3>1, <4>1, <5>2 DEF ChainInv
            <6> QED BY <1>0, <3>2, <6>1
          <5> QED BY <5>1, <5>2
        <4>2. \A t \in Tokens : /\ owner'[t] # Nobody <=> t < next'
                                /\ owner'[t] = Nobody => uri'[t] = Empty
          BY <1>0, <1>h, <2>1, <3>1 DEF ChainInv
        <4> QED BY <4>1, <4>2, <1>i
      <3>5. ASSUME NEW k \in 1..Len(calls')
            PROVE  /\ Sound(calls'[k].before, calls', k - 1)
                   /\ calls'[k].token = calls'[k].before.next
                   /\ calls'[k].token < next'
                   /\ \A j \in 1..(k - 1) : calls'[j].token < calls'[k].token
        <4>1. CASE k \in 1..Len(calls)
          <5>1. /\ Sound(calls[k].before, calls, k - 1) /\ calls'[k] = calls[k] /\ k - 1 \in Nat
                /\ \A i \in 1..(k - 1) : calls'[i] = calls[i]
                /\ calls[k].token < next /\ calls[k].token = calls[k].before.next
                /\ \A j \in 1..(k - 1) : calls[j].token < calls[k].token
                /\ calls[k].token \in Tokens
            BY <1>0, <3>2, <4>1, CallFields DEF ChainInv
          <5>2. Sound(calls[k].before, calls', k - 1)
            BY <5>1, <1>j
          <5>3. calls'[k].token < next'
            BY <1>0, <2>1, <5>1
          <5>4. \A j \in 1..(k - 1) : calls'[j].token < calls'[k].token
            BY <5>1
          <5> QED BY <5>1, <5>2, <5>3, <5>4
        <4>2. CASE k = Len(calls) + 1
          <5>1. /\ Sound(Here, calls, Len(calls)) /\ k - 1 = Len(calls)
                /\ \A i \in 1..Len(calls) : calls[i].token < next
            BY <1>0, <4>2 DEF ChainInv
          <5>2. Sound(calls'[k].before, calls', k - 1)
            BY <1>0, <1>j, <3>2, <3>3, <4>2, <5>1
          <5>3. calls'[k].token = next /\ calls'[k].before.next = next
            BY <3>2, <3>3, <4>2
          <5>4. \A j \in 1..(k - 1) : calls'[j].token < calls'[k].token
            BY <3>2, <5>1, <5>3
          <5> QED BY <1>0, <2>1, <5>2, <5>3, <5>4
        <4> QED BY <1>0, <3>2, <4>1, <4>2
      <3> QED BY <3>4, <3>5 DEF ChainInv
    <2>3. CASE to \notin Contracts
      <3>1. calls' = calls /\ uri' = [uri EXCEPT ![next] = u]
        BY <1>1, <2>3 DEF Mint
      <3>2. Sound(Here', calls', Len(calls'))
        BY <1>0, <1>h, <1>i, <2>1, <3>1 DEF ChainInv
      <3>3. ASSUME NEW k \in 1..Len(calls) PROVE calls[k].token < next'
        <4>1. calls[k].token \in Nat /\ calls[k].token < next
          BY CallFields DEF ChainInv, Tokens
        <4> QED BY <1>0, <2>1, <4>1
      <3>4. \A k \in 1..Len(calls) : Sound(calls'[k].before, calls', k - 1)
        BY <3>1 DEF ChainInv, Sound
      <3> QED BY <3>1, <3>2, <3>3, <3>4 DEF ChainInv
    <2> QED BY <2>2, <2>3
  <1>2. ASSUME UNCHANGED <<calls, next>>, Sound(Here', calls', Len(calls')) PROVE ChainInv'
    BY <1>2 DEF ChainInv, Sound
  <1>3. ASSUME NEW s \in Accounts, NEW t \in Tokens, NEW u \in Uris, Update(s, t, u)
        PROVE  ChainInv'
    <2>1. /\ UNCHANGED <<calls, next, owner>> /\ uri' = [uri EXCEPT ![t] = u] /\ owner[t] # Nobody
          /\ u # Empty
      BY <1>3 DEF Update
    <2>2. Sound(Here', calls', Len(calls'))
      BY <1>0, <1>h, <1>i, <2>1 DEF ChainInv
    <2> QED BY <1>2, <2>1, <2>2
  <1>4. ASSUME NEW s \in Accounts, NEW t \in Tokens, NEW to \in Accounts, Transfer(s, t, to)
        PROVE  ChainInv'
    <2>1. /\ UNCHANGED <<calls, next, uri>> /\ owner' = [owner EXCEPT ![t] = to] /\ owner[t] # Nobody
          /\ to # Nobody
      BY <1>4 DEF Transfer
    <2>2. Sound(Here', calls', Len(calls'))
      BY <1>0, <1>h, <1>i, <2>1 DEF ChainInv
    <2> QED BY <1>2, <2>1, <2>2
  \* The innermost mint is over.
  <1>5. ASSUME calls # <<>>, calls' = Outer, next' \in Nat,
               \A k \in 1..(Len(calls) - 1) : calls[k].token < next',
               Sound(Here', calls', Len(calls'))
        PROVE  ChainInv'
    <2>1. /\ Len(calls') = Len(calls) - 1 /\ Len(calls) \in Nat \ {0}
          /\ \A k \in 1..(Len(calls) - 1) : calls'[k] = calls[k]
      BY <1>5, OuterFacts
    <2>2. ASSUME NEW k \in 1..Len(calls')
          PROVE  /\ Sound(calls'[k].before, calls', k - 1)
                 /\ calls'[k].token = calls'[k].before.next
                 /\ calls'[k].token < next'
                 /\ \A j \in 1..(k - 1) : calls'[j].token < calls'[k].token
      <3>1. /\ k \in 1..Len(calls) /\ k \in 1..(Len(calls) - 1) /\ k - 1 \in Nat
            /\ calls'[k] = calls[k] /\ \A i \in 1..(k - 1) : calls'[i] = calls[i]
        <4> DEFINE n == Len(calls)
        <4>1. n \in Nat \ {0} /\ k \in 1..(n - 1)
          BY <2>1
        <4> HIDE DEF n
        <4>2. k \in 1..n /\ k - 1 \in Nat /\ \A i \in 1..(k - 1) : i \in 1..(n - 1)
          BY <4>1
        <4> QED BY <2>1, <4>1, <4>2 DEF n
      <3>2. Sound(calls'[k].before, calls', k - 1)
        BY <1>j, <3>1 DEF ChainInv
      <3> QED BY <1>5, <3>1, <3>2 DEF ChainInv
    <2> QED BY <1>5, <2>2 DEF ChainInv
  <1>6. CASE Received
    <2> DEFINE n == Len(calls)
    <2>1. /\ n \in Nat \ {0} /\ n \in 1..n /\ Inner = calls[n] /\ Len(Outer) = n - 1
          /\ \A k \in 1..(n - 1) : Outer[k] = calls[k]
          /\ calls # <<>> /\ calls' = Outer /\ UNCHANGED <<next, owner>>
          /\ uri' = [uri EXCEPT ![Inner.token] = Inner.uri]
      BY <1>6, OuterFacts DEF Received
    <2>2. Inner.token \in Tokens /\ Inner.uri # Empty /\ Inner.token < next
      BY <2>1, CallFields DEF ChainInv
    <2>3. ASSUME NEW t \in Tokens, owner'[t] # Nobody, uri'[t] = Empty
          PROVE  \E i \in 1..Len(calls') : calls'[i].token = t
      <3>1. t # Inner.token /\ uri[t] = Empty
        BY <1>0, <2>1, <2>2, <2>3
      <3>2. PICK i \in 1..n : calls[i].token = t
        BY <1>h, <2>1, <2>3, <3>1 DEF ChainInv
      <3>3. i # n /\ i \in 1..(n - 1)
        BY <2>1, <3>1, <3>2
      <3> QED BY <2>1, <3>2, <3>3
    <2>4. \A t \in Tokens : /\ owner'[t] # Nobody <=> t < next'
                            /\ owner'[t] = Nobody => uri'[t] = Empty
      BY <1>0, <1>h, <2>1, <2>2 DEF ChainInv
    <2>5. Sound(Here', calls', Len(calls'))
      BY <1>i, <2>3, <2>4
    <2>6. \A k \in 1..(n - 1) : calls[k].token < next'
      BY <2>1 DEF ChainInv
    <2> QED BY <1>0, <1>5, <2>1, <2>5, <2>6
  <1>7. CASE Revert
    <2> DEFINE n == Len(calls)
    <2>1. /\ n \in Nat \ {0} /\ n \in 1..n /\ Inner = calls[n] /\ Len(Outer) = n - 1
          /\ \A k \in 1..(n - 1) : Outer[k] = calls[k]
          /\ calls # <<>> /\ calls' = Outer
          /\ next' = Inner.before.next /\ owner' = Inner.before.owner /\ uri' = Inner.before.uri
      BY <1>7, OuterFacts DEF Revert
    <2>2. /\ Inner.before \in State /\ next' \in Nat /\ Sound(Inner.before, calls, n - 1)
          /\ Inner.token = next'
          /\ \A k \in 1..(n - 1) : calls[k].token < next'
      BY <2>1, CallFields, StateFields DEF ChainInv
    <2>3. \A i \in 1..(n - 1) : calls'[i] = calls[i]
      BY <2>1
    <2>4. Sound(Inner.before, calls', n - 1)
      BY <1>j, <2>1, <2>2, <2>3 DEF Sound
    <2>5. Sound(Here', calls', Len(calls'))
      BY <1>i, <2>1, <2>2, <2>3 DEF Sound
    <2> QED BY <1>5, <2>1, <2>2, <2>5
  <1>8. CASE UNCHANGED chain
    BY <1>8 DEF chain, ChainInv, Sound, Here
  <1> QED BY <1>1, <1>3, <1>4, <1>6, <1>7, <1>8 DEF ChainNext, Calls

LEMMA WalletInvNext ==
  ChainTypeOK /\ ChainInv /\ WalletInv /\ [ChainNext]_chain => WalletInv'
  <1> SUFFICES ASSUME ChainTypeOK, ChainInv, WalletInv, [ChainNext]_chain PROVE WalletInv'
    OBVIOUS
  <1> USE RegistryAssumption
  <1>0. /\ next \in 1..(MaxTokens + 1) /\ owner \in [Tokens -> Accounts \cup {Nobody}]
        /\ uri \in [Tokens -> Uris \cup {Empty}] /\ calls \in Seq(CallOf) /\ Len(calls) \in Nat
        /\ Tokens = 1..MaxTokens /\ calls # <<>> <=> Len(calls) > 0
    BY ChainTypes DEF Tokens
  <1>1. ASSUME calls # <<>> PROVE 1 \in 1..Len(calls) /\ calls[1].before.next < next
    BY <1>0, <1>1 DEF ChainInv
  <1>h. \A b : Same(b, Here') <=>
          \A t \in Tokens : t < b.next /\ b.owner[t] \notin Contracts =>
                              owner'[t] = b.owner[t] /\ uri'[t] = b.uri[t]
    BY DEF Same, Here
  <1>i. calls # <<>> =>
          \A t \in Tokens : t < calls[1].before.next /\ calls[1].before.owner[t] \notin Contracts =>
             owner[t] = calls[1].before.owner[t] /\ uri[t] = calls[1].before.uri[t]
    BY DEF WalletInv, Same, Here
  <1>2. ASSUME UNCHANGED calls,
               calls # <<>> => \A t \in Tokens : t < calls[1].before.next /\ owner[t] \notin Contracts =>
                                 owner'[t] = owner[t] /\ uri'[t] = uri[t]
        PROVE  WalletInv'
    <2>1. calls # <<>> => Same(calls'[1].before, Here')
      <3> SUFFICES ASSUME calls # <<>> PROVE Same(calls'[1].before, Here')
        OBVIOUS
      <3> DEFINE b == calls[1].before
      <3>1. ASSUME NEW t \in Tokens, t < b.next, b.owner[t] \notin Contracts
            PROVE  owner'[t] = b.owner[t] /\ uri'[t] = b.uri[t]
        BY <1>i, <1>2, <3>1
      <3>2. calls'[1].before = b
        BY <1>2
      <3> QED BY <3>1, <3>2 DEF Same, Here
    <2> QED BY <1>2, <2>1 DEF WalletInv
  <1>3. ASSUME NEW s \in Accounts, NEW to \in Accounts, NEW u \in Uris, Mint(s, to, u)
        PROVE  WalletInv'
    <2>1. /\ next' = next + 1 /\ owner' = [owner EXCEPT ![next] = to] /\ next \in Tokens
          /\ uri' = uri \/ uri' = [uri EXCEPT ![next] = u]
      BY <1>3 DEF Mint
    <2>2. \A t \in Tokens : t < next => owner'[t] = owner[t] /\ uri'[t] = uri[t]
      BY <1>0, <2>1
    <2>3. CASE to \notin Contracts
      <3>1. calls' = calls
        BY <1>3, <2>3 DEF Mint
      <3>2. ASSUME calls # <<>>, NEW t \in Tokens, t < calls[1].before.next
            PROVE  owner'[t] = owner[t] /\ uri'[t] = uri[t]
        <4>1. calls[1].before.next \in Nat
          BY <1>1, <3>2, CallFields, StateFields
        <4> QED BY <1>0, <1>1, <2>2, <3>2, <4>1
      <3> QED BY <1>2, <3>1, <3>2
    <2>4. CASE to \in Contracts
      <3> DEFINE c == [token |-> next, uri |-> u, before |-> Here]
      <3>1. calls' = Append(calls, c)
        BY <1>3, <2>4 DEF Mint
      <3>2. /\ Len(calls') = Len(calls) + 1 /\ calls'[Len(calls) + 1] = c
            /\ \A i \in 1..Len(calls) : calls'[i] = calls[i]
        BY <1>0, <3>1
      <3>3. c.before.next = next /\ c.before.owner = owner /\ c.before.uri = uri
        BY HereFields
      <3> HIDE DEF c
      <3>4. CASE calls = <<>>
        <4>1. calls'[1] = c /\ Len(calls') = 1
          BY <1>0, <3>2, <3>4
        <4>2. Same(c.before, Here')
          BY <2>2, <3>3 DEF Same, Here
        <4>3. Same(c.before, c.before)
          BY DEF Same
        <4> QED BY <4>1, <4>2, <4>3 DEF WalletInv
      <3>5. CASE calls # <<>>
        <4> DEFINE b == calls[1].before
        <4>1. calls'[1].before = b /\ b.next < next /\ b.next \in Nat
          BY <1>0, <1>1, <3>2, <3>5, CallFields, StateFields
        <4>2. ASSUME NEW t \in Tokens, t < b.next, b.owner[t] \notin Contracts
              PROVE  owner'[t] = b.owner[t] /\ uri'[t] = b.uri[t]
          BY <1>0, <1>i, <2>2, <3>5, <4>1, <4>2
        <4>3. Same(b, c.before)
          BY <1>i, <3>3, <3>5 DEF Same
        <4>4. ASSUME NEW k \in 1..Len(calls') PROVE Same(b, calls'[k].before)
          BY <1>0, <3>2, <3>5, <4>3, <4>4 DEF WalletInv
        <4> QED BY <4>1, <4>2, <4>4 DEF WalletInv, Same, Here
      <3> QED BY <3>4, <3>5
    <2> QED BY <2>3, <2>4
  <1>4. ASSUME NEW s \in Accounts, NEW t \in Tokens, NEW u \in Uris, Update(s, t, u)
        PROVE  WalletInv'
    BY <1>0, <1>2, <1>4 DEF Update, Sender
  <1>5. ASSUME NEW s \in Accounts, NEW t \in Tokens, NEW to \in Accounts, Transfer(s, t, to)
        PROVE  WalletInv'
    BY <1>0, <1>2, <1>5 DEF Transfer, Sender
  <1>6. ASSUME Received \/ Revert, Len(calls) > 1,
               Same(calls'[1].before, Here')
        PROVE  WalletInv'
    <2>1. /\ calls # <<>> /\ calls' = Outer /\ Len(calls') = Len(calls) - 1
          /\ \A k \in 1..(Len(calls) - 1) : calls'[k] = calls[k]
      BY <1>0, <1>6, OuterFacts DEF Received, Revert
    <2>2. calls'[1] = calls[1] /\ Len(calls') \in Nat
      BY <1>0, <1>6, <2>1
    <2>3. \A k \in 1..Len(calls') : Same(calls[1].before, calls'[k].before)
      BY <1>0, <2>1 DEF WalletInv
    <2> QED BY <1>6, <2>2, <2>3 DEF WalletInv
  <1>7. ASSUME Received \/ Revert, Len(calls) = 1 PROVE WalletInv'
    <2>1. calls # <<>> /\ calls' = Outer /\ Len(calls') = 0 /\ calls' \in Seq(CallOf)
      BY <1>7, OuterFacts DEF Received, Revert
    <2> QED BY <2>1 DEF WalletInv
  <1>8. CASE Received
    <2> DEFINE b == calls[1].before
               n == Len(calls)
    <2>1. /\ calls # <<>> /\ n \in 1..n /\ Inner = calls[n] /\ UNCHANGED owner
          /\ uri' = [uri EXCEPT ![Inner.token] = Inner.uri]
      BY <1>8, OuterFacts DEF Received
    <2>2. ASSUME n > 1 PROVE WalletInv'
      <3>1. /\ 1 \in 1..(n - 1) /\ 1 \in 1..n /\ calls[1].token < calls[n].token
            /\ calls[1].token = b.next
        BY <1>0, <2>1, <2>2 DEF ChainInv
      <3>2. calls[n].token \in Tokens /\ b.next \in Nat
        BY <2>1, <3>1, CallFields, StateFields
      <3>3. \A t \in Tokens : t < b.next => uri'[t] = uri[t]
        BY <1>0, <2>1, <3>1, <3>2
      <3>4. calls'[1] = calls[1]
        BY <1>8, <2>1, <3>1, OuterFacts DEF Received
      <3>5. Same(calls'[1].before, Here')
        BY <1>i, <2>1, <3>3, <3>4 DEF Same, Here
      <3> QED BY <1>6, <1>8, <2>2, <3>5
    <2>3. Len(calls) > 1 \/ Len(calls) = 1
      <3>1. n \in Nat \ {0}
        BY <2>1, OuterFacts
      <3> HIDE DEF n
      <3>2. n > 1 \/ n = 1
        BY <3>1
      <3> QED BY <3>2 DEF n
    <2> QED BY <1>7, <1>8, <2>2, <2>3
  <1>9. CASE Revert
    <2> DEFINE n == Len(calls)
    <2>1. /\ calls # <<>> /\ n \in 1..n /\ Inner = calls[n]
          /\ next' = Inner.before.next /\ owner' = Inner.before.owner /\ uri' = Inner.before.uri
      BY <1>9, OuterFacts DEF Revert
    <2>2. ASSUME n > 1 PROVE WalletInv'
      <3>1. 1 \in 1..(n - 1)
        BY <1>0, <2>2
      <3>2. calls'[1] = calls[1] /\ Same(calls[1].before, calls[n].before)
        BY <1>9, <2>1, <3>1, OuterFacts DEF Revert, WalletInv
      <3>3. Same(calls'[1].before, Here')
        BY <2>1, <3>2 DEF Same, Here
      <3> QED BY <1>6, <1>9, <2>2, <3>3
    <2>3. Len(calls) > 1 \/ Len(calls) = 1
      <3>1. n \in Nat \ {0}
        BY <2>1, OuterFacts
      <3> HIDE DEF n
      <3>2. n > 1 \/ n = 1
        BY <3>1
      <3> QED BY <3>2 DEF n
    <2> QED BY <1>7, <1>9, <2>2, <2>3
  <1>10. CASE UNCHANGED chain
    BY <1>2, <1>10 DEF chain
  <1> QED BY <1>3, <1>4, <1>5, <1>8, <1>9, <1>10 DEF ChainNext, Calls

\* Token ids are dense and a token has a document exactly when it exists, but for tokens
\* being minted, whatever receivers do within mint and whatever is undone.
THEOREM TokensDocumented == ChainSpec => []EveryTokenDocumented
  <1>1. ChainTypeOK /\ ChainInv => EveryTokenDocumented
    <2> SUFFICES ASSUME ChainTypeOK, ChainInv PROVE EveryTokenDocumented
      OBVIOUS
    <2>1. /\ next \in 1..(MaxTokens + 1) /\ Tokens = 1..MaxTokens /\ DOMAIN calls = 1..Len(calls)
          /\ MaxTokens \in Nat
      BY ChainTypes, RegistryAssumption DEF Tokens
    <2>2. \A t \in Tokens :
            /\ owner[t] # Nobody <=> t < next
            /\ owner[t] = Nobody => uri[t] = Empty
            /\ owner[t] # Nobody /\ uri[t] = Empty => \E i \in 1..Len(calls) : calls[i].token = t
      BY HereFields DEF Sound, ChainInv
    <2>3. Existing = 1..(next - 1)
      BY <2>1, <2>2 DEF Existing
    <2> QED BY <2>1, <2>2, <2>3 DEF EveryTokenDocumented, Existing
  <1> QED
    BY <1>1, ChainTypeInit, ChainTypeNext, ChainInvInit, ChainInvNext, PTL DEF ChainSpec

\* Code that runs within a mint cannot touch the tokens of accounts without code.
THEOREM WalletsStay == ChainSpec => []WalletsUntouched
  <1>1. ChainInit => WalletInv
    BY DEF ChainInit, WalletInv
  <1>2. ChainTypeOK /\ WalletInv => WalletsUntouched
    <2> SUFFICES ASSUME ChainTypeOK, WalletInv, calls # <<>>,
                        NEW t \in 1..(calls[1].before.next - 1),
                        calls[1].before.owner[t] \notin Contracts
                 PROVE  owner[t] = calls[1].before.owner[t] /\ uri[t] = calls[1].before.uri[t]
      BY DEF WalletsUntouched
    <2>1. 1 \in 1..Len(calls)
      BY ChainTypes
    <2>2. calls[1].before.next \in 1..(MaxTokens + 1)
      BY <2>1, CallFields, StateFields
    <2>3. t \in Tokens /\ t < calls[1].before.next
      BY <2>2, RegistryAssumption DEF Tokens
    <2> QED BY <2>3 DEF WalletInv, Same, Here
  <1> QED
    BY <1>1, <1>2, ChainTypeInit, ChainTypeNext, ChainInvInit, ChainInvNext, WalletInvNext, PTL
    DEF ChainSpec
-----------------------------------------------------------------------------
(* The service's wallet and its requests. *)

\* What a request in service is about.
Job(r) ==
  \/ /\ r.kind = "register" /\ r.key \in Keys /\ r.call \in {"mint", "update"}
     /\ IF r.call = "mint" /\ r.pc # "mined" THEN r.token = 0 ELSE r.token \in Tokens
  \/ r.kind = "update" /\ r.call = "update" /\ r.token \in Held
  \/ r.kind = "transfer" /\ r.call = "transfer" /\ r.token \in Held /\ r.to \in NewOwners

\* What a transaction of the wallet is about.
Carried(tx) ==
  \/ tx.call = "mint"
  \/ tx.call = "update" /\ tx.token \in Tokens
  \/ tx.call = "transfer" /\ tx.token \in Held /\ tx.to \in NewOwners

\* A request waits for its own transaction.
Awaits(r, tx) ==
  /\ r # Idle /\ r.pc = "sent" /\ r.call = tx.call /\ r.token = tx.token
  /\ r.call # "mint" => r.key = tx.key

\* Requests and transactions are about what they began with, and no two transactions
\* have one request waiting.
JobsInv ==
  /\ \A h \in Handlers : req[h] # Idle => Job(req[h])
  /\ \A i \in 1..Len(pool) :
       /\ Carried(pool[i])
       /\ \A h \in pool[i].waiters : /\ Awaits(req[h], pool[i])
                                    /\ \A j \in 1..Len(pool) : h \in pool[j].waiters => i = j

\* While others' mints are under way the service's tokens stay as they are.
AsideInv ==
  \A k \in 1..Len(calls) :
    /\ owner[calls[k].token] # Service
    /\ \A t \in Tokens : /\ calls[k].before.owner[t] = Service <=> owner[t] = Service
                         /\ owner[t] = Service => calls[k].before.uri[t] = uri[t]
    /\ \A t \in Held : calls[k].before.owner[t] # Nobody

\* A registration that has its token.
Registering(h) == req[h] # Idle /\ req[h].kind = "register" /\ req[h].token # 0

\* The token a request is registering is the service's, until it is in a row.
OwnInv ==
  /\ \A h \in Handlers : Registering(h) => req[h].token \in Held \/ owner[req[h].token] = Service
  /\ \A t \in Held : owner[t] # Nobody

\* A token with its own document.
Named(t) == uri[t] \in Document /\ uri[t].token = t

\* What the receipt of a request's last transaction means.
Receipt(r) ==
  r.call = "update" => /\ r.key \in keysOf[r.token]
                       /\ owner[r.token] = Service => Named(r.token)

\* Rows say what the chain shows, and a request about to write one has seen it.
RowsInv ==
  /\ \A h \in Handlers : req[h] # Idle /\ req[h].pc = "mined" => Receipt(req[h])
  /\ \A t \in Held : /\ owner[t] = Service => Named(t)
                     /\ rows[t].key \in keysOf[t]

\* A transfer that was mined is in the row, or about to be, or its request has ended.
CustodyInv ==
  /\ handed \subseteq Held
  /\ \A h \in Handlers : req[h] # Idle /\ req[h].pc = "mined" /\ req[h].call = "transfer" =>
       req[h].token \in handed
  /\ \A i \in 1..Len(pool) :
       pool[i].call = "transfer" /\ pool[i].waiters = {} => pool[i].token \in gaveUp
  /\ \A t \in Held :
       /\ ~rows[t].custodial => t \in handed
       /\ rows[t].custodial /\ t \in handed => Transferring(t) \/ t \in gaveUp

\* Registrations in service.
Inside == {h \in Handlers : req[h] # Idle /\ req[h].kind = "register"}

\* What can still be counted today is in service now: the count and those together stay
\* within the cap and one request less than there are handlers.
CapInv ==
  /\ now \in 0..MaxTime
  /\ \A d \in Days : /\ d > Today => counts[d] = 0
                     /\ counts[d] <= PerDay + (Cardinality(Handlers) - 1)
                     /\ Cardinality(RegisteredOn(d)) <= counts[d] + stops
  /\ counts[Today] + Cardinality(Inside) <= PerDay + (Cardinality(Handlers) - 1)

\* Placeholders are told apart from what they stand for.
LEMMA RowFacts ==
  /\ NoRow \notin Row /\ \A r \in Row : r.key \in Keys /\ r.key # NoKey /\ r # NoRow
  /\ \A r \in Request : r # Idle
  /\ Idle \notin Request
  <1>1. \A r \in Row : r.key \in Keys /\ r.key # NoKey
    BY RegisterAssumption DEF Row
  <1>2. NoRow.key = NoKey
    BY DEF NoRow
  <1>3. \A r \in Request : r.pc # "idle"
    BY DEF Request
  <1>4. Idle.pc = "idle"
    BY DEF Idle
  <1> QED BY <1>1, <1>2, <1>3, <1>4

\* Division keeps the order of numbers.
LEMMA Divided ==
  ASSUME NEW m \in Nat, NEW n \in Nat, m <= n, NEW d \in Nat \ {0}
  PROVE  m \div d \in Nat /\ m \div d <= n \div d
  <1>1. /\ m \div d \in Int /\ n \div d \in Int
        /\ m = d * (m \div d) + (m % d) /\ m % d \in 0..(d - 1)
        /\ n = d * (n \div d) + (n % d) /\ n % d \in 0..(d - 1)
    OBVIOUS
  <1> DEFINE a == m \div d
             b == n \div d
  <1>2. a \in Int /\ b \in Int /\ d * a <= d * b + (d - 1) /\ d * a > -d
    BY <1>1
  <1> HIDE DEF a, b
  <1>3. \A x \in Int : x >= 1 => d * x >= d
    OBVIOUS
  <1>4. \A x \in Int : x <= -1 => d * x <= -d
    OBVIOUS
  <1>5. a >= 0
    BY <1>2, <1>4
  <1>6. a - b \in Int /\ d * (a - b) = d * a - d * b
    BY <1>2
  <1>7. a <= b
    BY <1>2, <1>3, <1>6
  <1> QED BY <1>2, <1>5, <1>7 DEF a, b

\* A request goes on to a step of a call about a token.
Moves(h, step, call, t) ==
  /\ req[h] \in Request /\ req'[h] \in Request /\ req' \in [Handlers -> Request \cup {Idle}]
  /\ req'[h].pc = step /\ req'[h].call = call /\ req'[h].token = t
  /\ req'[h].kind = req[h].kind /\ req'[h].key = req[h].key /\ req'[h].to = req[h].to
  /\ \A g \in Handlers : g # h => req'[g] = req[g]

\* Requests are over.
Leave(S) ==
  /\ req' \in [Handlers -> Request \cup {Idle}]
  /\ \A h \in S : req'[h] = Idle
  /\ \A g \in Handlers \ S : req'[g] = req[g]
Leaves(h) == Leave({h})

\* The requests that wait for a transaction have its receipt, which names a token.
Answered(tx, t) ==
  /\ tx.waiters \subseteq Handlers
  /\ req' \in [Handlers -> Request \cup {Idle}]
  /\ \A h \in tx.waiters :
       /\ Awaits(req[h], tx) /\ req[h] \in Request /\ req'[h] \in Request
       /\ req'[h].pc = "mined" /\ req'[h].call = tx.call /\ req'[h].token = t
       /\ req'[h].kind = req[h].kind /\ req'[h].key = req[h].key /\ req'[h].to = req[h].to
  /\ \A g \in Handlers \ tx.waiters : req'[g] = req[g]

\* Transactions keep their order and what they are about; the first n are gone, and
\* some have fewer waiting for them.
PoolMoves(n) ==
  /\ pool' \in Seq(Tx) /\ Len(pool) \in Nat /\ n <= Len(pool) /\ Len(pool') = Len(pool) - n
  /\ \A i \in 1..Len(pool') :
       /\ pool'[i].call = pool[i + n].call /\ pool'[i].token = pool[i + n].token
       /\ pool'[i].key = pool[i + n].key /\ pool'[i].to = pool[i + n].to
       /\ pool'[i].waiters \subseteq pool[i + n].waiters

\* The steps of the service, by what they change.
LEMMA BeginFacts ==
  ASSUME TypeOK, NEW h \in Handlers,
         \/ \E n \in Names \cup {Anonymous}, k \in Keys : BeginRegister(h, n, k)
         \/ \E t \in Tokens, s \in Keys, k \in Keys \cup {NoKey} : BeginUpdate(h, t, s, k)
         \/ \E t \in Tokens, s \in Keys, to \in NewOwners : BeginTransfer(h, t, s, to)
  PROVE  /\ req[h] = Idle /\ req'[h] \in Request /\ req' \in [Handlers -> Request \cup {Idle}]
         /\ req'[h].pc = "checked" /\ Job(req'[h])
         /\ req'[h].kind = "register" => req'[h].token = 0 /\ CountToday < PerDay
         /\ \A g \in Handlers : g # h => req'[g] = req[g]
         /\ admitted' \in Nat
         /\ UNCHANGED <<chain, now, rows, counts, pool, height, stops, keysOf, handed, gaveUp>>
  <1> USE DEF TypeOK
  <1>1. ASSUME NEW r \in Request, Admit(h, r)
        PROVE  /\ req[h] = Idle /\ req'[h] = r /\ req' \in [Handlers -> Request \cup {Idle}]
               /\ \A g \in Handlers : g # h => req'[g] = req[g]
               /\ admitted' \in Nat
               /\ UNCHANGED <<chain, now, rows, counts, pool, height, stops, keysOf, handed, gaveUp>>
    BY <1>1 DEF Admit
  <1>2. ASSUME NEW n \in Names \cup {Anonymous}, NEW k \in Keys, BeginRegister(h, n, k)
        PROVE  \E r \in Request :
                 /\ Admit(h, r) /\ r.pc = "checked" /\ Job(r)
                 /\ r.kind = "register" => r.token = 0 /\ CountToday < PerDay
    <2> DEFINE r == [pc |-> "checked", call |-> "mint", kind |-> "register",
                     name |-> n, key |-> k, token |-> 0, to |-> Nobody]
    <2>1. r \in Request /\ Job(r) /\ r.pc = "checked" /\ r.token = 0
      BY DEF Request, Job
    <2>2. Admit(h, r) /\ CountToday < PerDay
      BY <1>2 DEF BeginRegister
    <2> QED BY <2>1, <2>2
  <1>3. ASSUME NEW t \in Tokens, NEW s \in Keys, NEW k \in Keys \cup {NoKey}, BeginUpdate(h, t, s, k)
        PROVE  \E r \in Request : /\ Admit(h, r) /\ r.pc = "checked" /\ Job(r)
                                  /\ r.kind # "register"
    <2> DEFINE r == [pc |-> "checked", call |-> "update", kind |-> "update",
                     name |-> Anonymous, key |-> k, token |-> t, to |-> Nobody]
    <2>1. t \in Held
      BY <1>3 DEF BeginUpdate, Authorized
    <2>2. r \in Request /\ Job(r) /\ r.pc = "checked" /\ r.kind # "register"
      BY <2>1 DEF Request, Job
    <2>3. Admit(h, r)
      BY <1>3 DEF BeginUpdate
    <2> QED BY <2>2, <2>3
  <1>4. ASSUME NEW t \in Tokens, NEW s \in Keys, NEW to \in NewOwners, BeginTransfer(h, t, s, to)
        PROVE  \E r \in Request : /\ Admit(h, r) /\ r.pc = "checked" /\ Job(r)
                                  /\ r.kind # "register"
    <2> DEFINE r == [pc |-> "checked", call |-> "transfer", kind |-> "transfer",
                     name |-> Anonymous, key |-> NoKey, token |-> t, to |-> to]
    <2>1. t \in Held
      BY <1>4 DEF BeginTransfer, Authorized
    <2>2. r \in Request /\ Job(r) /\ r.pc = "checked" /\ r.kind # "register"
      BY <2>1 DEF Request, Job
    <2>3. Admit(h, r)
      BY <1>4 DEF BeginTransfer
    <2> QED BY <2>2, <2>3
  <1> QED BY <1>1, <1>2, <1>3, <1>4

\* The transaction of a request, and the request once it has sent it.
LEMMA TxOfFacts ==
  ASSUME TypeOK, NEW h \in Handlers, req[h] # Idle, req[h].pc = "checked",
         req' = [req EXCEPT ![h].pc = "sent"], NEW S \in SUBSET Handlers
  PROVE  LET tx == TxOf(req[h], S) IN
         /\ Moves(h, "sent", req[h].call, req[h].token)
         /\ tx \in Tx /\ tx.waiters = S /\ tx.call = req[h].call /\ tx.token = req[h].token
         /\ (req[h].call # "mint" => tx.key = req[h].key) /\ tx.to = req[h].to
  <1>1. req[h] \in Request /\ req \in [Handlers -> Request \cup {Idle}]
    BY DEF TypeOK
  <1> DEFINE r == [req[h] EXCEPT !.pc = "sent"]
  <1>2. req' = [req EXCEPT ![h] = r]
    OBVIOUS
  <1>3. /\ r \in Request /\ r.pc = "sent" /\ r.call = req[h].call /\ r.token = req[h].token
        /\ r.kind = req[h].kind /\ r.key = req[h].key /\ r.to = req[h].to
    BY <1>1 DEF Request
  <1> HIDE DEF r
  <1>4. Moves(h, "sent", req[h].call, req[h].token)
    BY <1>1, <1>2, <1>3 DEF Moves
  <1>5. TxOf(req[h], S) \in Tx
    BY <1>1 DEF TxOf, Request, Tx
  <1> QED BY <1>4, <1>5 DEF TxOf

LEMMA SubmitFacts ==
  ASSUME TypeOK, NEW h \in Handlers, Submit(h)
  PROVE  \E tx \in Tx :
           /\ Moves(h, "sent", req[h].call, req[h].token)
           /\ req[h].pc = "checked" /\ pool' = Append(pool, tx) /\ tx.waiters = {h}
           /\ tx.call = req[h].call /\ tx.token = req[h].token
           /\ req[h].call # "mint" => tx.key = req[h].key
           /\ tx.to = req[h].to
           /\ UNCHANGED <<chain, now, rows, counts, height, history>>
  <1> DEFINE tx == TxOf(req[h], {h})
  <1>1. /\ req[h] # Idle /\ req[h].pc = "checked" /\ req' = [req EXCEPT ![h].pc = "sent"]
        /\ pool' = Append(pool, tx) /\ UNCHANGED <<chain, now, rows, counts, height, history>>
    BY DEF Submit
  <1>2. /\ Moves(h, "sent", req[h].call, req[h].token)
        /\ tx \in Tx /\ tx.waiters = {h} /\ tx.call = req[h].call /\ tx.token = req[h].token
        /\ (req[h].call # "mint" => tx.key = req[h].key) /\ tx.to = req[h].to
    BY <1>1, TxOfFacts
  <1> HIDE DEF tx
  <1> QED BY <1>1, <1>2

LEMMA PoolFields ==
  ASSUME TypeOK
  PROVE  /\ Len(pool) \in Nat /\ DOMAIN pool = 1..Len(pool)
         /\ \A i \in 1..Len(pool) :
              /\ pool[i] \in Tx /\ pool[i].call \in {"mint", "update", "transfer"}
              /\ pool[i].token \in Tokens \cup {0} /\ pool[i].key \in Keys \cup {NoKey}
              /\ pool[i].waiters \subseteq Handlers
  <1>1. pool \in Seq(Tx)
    BY DEF TypeOK
  <1>2. Len(pool) \in Nat /\ DOMAIN pool = 1..Len(pool) /\ \A i \in 1..Len(pool) : pool[i] \in Tx
    BY <1>1
  <1>3. \A tx \in Tx : /\ tx.call \in {"mint", "update", "transfer"}
                       /\ tx.token \in Tokens \cup {0} /\ tx.key \in Keys \cup {NoKey}
                       /\ tx.waiters \subseteq Handlers
    BY DEF Tx
  <1> QED BY <1>2, <1>3

\* Another request waits for a transaction that is there.
LEMMA ShareFacts ==
  ASSUME TypeOK, NEW h \in Handlers, Share(h)
  PROVE  \E k \in 1..Len(pool) :
           /\ Moves(h, "sent", req[h].call, req[h].token)
           /\ req[h].pc = "checked"
           /\ pool' \in Seq(Tx) /\ Len(pool') = Len(pool)
           /\ \A i \in 1..Len(pool) :
                /\ pool'[i].call = pool[i].call /\ pool'[i].token = pool[i].token
                /\ pool'[i].key = pool[i].key /\ pool'[i].to = pool[i].to
                /\ pool'[i].waiters = IF i = k THEN pool[i].waiters \cup {h} ELSE pool[i].waiters
           /\ pool[k].call = req[h].call /\ pool[k].token = req[h].token
           /\ req[h].call # "mint" => pool[k].key = req[h].key
           /\ UNCHANGED <<chain, now, rows, counts, height, history>>
  <1>1. /\ req[h] # Idle /\ req[h].pc = "checked" /\ req' = [req EXCEPT ![h].pc = "sent"]
        /\ UNCHANGED <<chain, now, rows, counts, height, history>>
    BY DEF Share
  <1>2. PICK k \in DOMAIN pool : /\ pool[k] = TxOf(req[h], pool[k].waiters)
                                 /\ pool' = [pool EXCEPT ![k].waiters = pool[k].waiters \cup {h}]
    BY DEF Share
  <1>3. /\ k \in 1..Len(pool) /\ pool[k] \in Tx /\ pool[k].waiters \in SUBSET Handlers
        /\ DOMAIN pool = 1..Len(pool) /\ Len(pool) \in Nat
    BY <1>2, PoolFields
  <1> PICK tx : tx = [pool[k] EXCEPT !.waiters = pool[k].waiters \cup {h}]
    OBVIOUS
  <1>4. /\ tx \in Tx /\ tx.call = pool[k].call /\ tx.token = pool[k].token /\ tx.key = pool[k].key
        /\ tx.to = pool[k].to /\ tx.waiters = pool[k].waiters \cup {h}
    BY <1>3 DEF Tx
  <1>5. pool' = [pool EXCEPT ![k] = tx] /\ pool \in Seq(Tx)
    BY <1>2 DEF TypeOK
  <1>6. /\ pool' \in Seq(Tx) /\ Len(pool') = Len(pool) /\ pool'[k] = tx
        /\ \A i \in 1..Len(pool) : i # k => pool'[i] = pool[i]
    BY <1>3, <1>4, <1>5
  <1>7. /\ Moves(h, "sent", req[h].call, req[h].token)
        /\ pool[k].call = req[h].call /\ pool[k].token = req[h].token
        /\ req[h].call # "mint" => pool[k].key = req[h].key
    <2> PICK S \in SUBSET Handlers : S = pool[k].waiters
      BY <1>3
    <2>1. pool[k] = TxOf(req[h], S)
      BY <1>2
    <2>2. Moves(h, "sent", req[h].call, req[h].token)
      BY <1>1, TxOfFacts
    <2>3. /\ TxOf(req[h], S).call = req[h].call /\ TxOf(req[h], S).token = req[h].token
          /\ req[h].call # "mint" => TxOf(req[h], S).key = req[h].key
      BY DEF TxOf
    <2> QED BY <2>1, <2>2, <2>3
  <1>8. \A i \in 1..Len(pool) :
          /\ pool'[i].call = pool[i].call /\ pool'[i].token = pool[i].token
          /\ pool'[i].key = pool[i].key /\ pool'[i].to = pool[i].to
          /\ pool'[i].waiters = IF i = k THEN pool[i].waiters \cup {h} ELSE pool[i].waiters
    BY <1>4, <1>6
  <1> QED BY <1>1, <1>3, <1>6, <1>7, <1>8

LEMMA PoolTail ==
  ASSUME TypeOK, pool # <<>>, pool' = Tail(pool)
  PROVE  /\ PoolMoves(1) /\ Len(pool) \in Nat \ {0} /\ Head(pool) = pool[1] /\ 1 \in 1..Len(pool)
         /\ \A i \in 1..Len(pool') : i + 1 \in 1..Len(pool) /\ i + 1 # 1
  <1>1. pool \in Seq(Tx)
    BY DEF TypeOK
  <1>2. Len(pool) \in Nat \ {0}
    BY <1>1
  <1>3. /\ Head(pool) = pool[1] /\ pool' \in Seq(Tx) /\ Len(pool') = Len(pool) - 1
        /\ \A i \in 1..(Len(pool) - 1) : pool'[i] = pool[i + 1]
    BY <1>1
  <1> DEFINE n == Len(pool)
  <1>4. n \in Nat \ {0} /\ Len(pool') = n - 1
    BY <1>2, <1>3
  <1>5. \A i \in 1..(n - 1) : pool'[i] = pool[i + 1]
    BY <1>3
  <1> HIDE DEF n
  <1>6. /\ 1 <= n /\ 1 \in 1..n /\ \A i \in 1..(n - 1) : i + 1 \in 1..n /\ i + 1 # 1
    BY <1>4
  <1>7. \A i \in 1..Len(pool') : pool'[i] = pool[i + 1]
    BY <1>4, <1>5
  <1> QED BY <1>2, <1>3, <1>4, <1>6, <1>7 DEF n, PoolMoves

LEMMA PoolStays ==
  ASSUME TypeOK, UNCHANGED pool
  PROVE  PoolMoves(0)
  <1>1. pool \in Seq(Tx) /\ Len(pool) \in Nat
    BY DEF TypeOK
  <1>2. \A i \in 1..Len(pool) : i + 0 = i
    OBVIOUS
  <1> QED BY <1>1, <1>2 DEF PoolMoves

\* What requests that give up leave behind.
LEMMA GiveUpFacts ==
  ASSUME TypeOK, NEW S \in SUBSET Handlers, GiveUp(S)
  PROVE  /\ Leave(S) /\ PoolMoves(0) /\ Len(pool') = Len(pool)
         /\ \A i \in 1..Len(pool) : pool'[i].waiters = pool[i].waiters \ S
         /\ gaveUp \subseteq gaveUp'
         /\ \A h \in S : req[h] # Idle /\ req[h].call = "transfer" /\ req[h].pc \in {"sent", "mined"} =>
              req[h].token \in gaveUp'
         /\ JobsInv => gaveUp' \subseteq Tokens
  <1>1. pool \in Seq(Tx) /\ Len(pool) \in Nat /\ DOMAIN pool = 1..Len(pool)
    BY DEF TypeOK
  <1>2. \A i \in 1..Len(pool) : pool[i] \in Tx
    BY PoolFields
  <1>3. \A tx \in Tx : /\ [tx EXCEPT !.waiters = tx.waiters \ S] \in Tx
                       /\ [tx EXCEPT !.waiters = tx.waiters \ S].call = tx.call
                       /\ [tx EXCEPT !.waiters = tx.waiters \ S].token = tx.token
                       /\ [tx EXCEPT !.waiters = tx.waiters \ S].key = tx.key
                       /\ [tx EXCEPT !.waiters = tx.waiters \ S].to = tx.to
                       /\ [tx EXCEPT !.waiters = tx.waiters \ S].waiters = tx.waiters \ S
    BY DEF Tx
  <1>4. pool' = [i \in 1..Len(pool) |-> [pool[i] EXCEPT !.waiters = pool[i].waiters \ S]]
    BY <1>1 DEF GiveUp
  <1>5. pool' \in [1..Len(pool) -> Tx]
    BY <1>2, <1>3, <1>4
  <1>6. pool' \in Seq(Tx) /\ Len(pool') = Len(pool)
    BY <1>1, <1>5
  <1>7. \A i \in 1..Len(pool) :
          /\ pool'[i].call = pool[i].call /\ pool'[i].token = pool[i].token
          /\ pool'[i].key = pool[i].key /\ pool'[i].to = pool[i].to
          /\ pool'[i].waiters = pool[i].waiters \ S
    BY <1>2, <1>3, <1>4
  <1>8. PoolMoves(0)
    BY <1>1, <1>6, <1>7 DEF PoolMoves
  <1>9. Leave(S)
    BY DEF GiveUp, Leave, TypeOK
  <1>10. ASSUME JobsInv PROVE gaveUp' \subseteq Tokens
    <2>1. \A h \in S : req[h] # Idle /\ req[h].call = "transfer" => req[h].token \in Tokens
      BY <1>10 DEF JobsInv, Job, Held
    <2> QED BY <2>1 DEF GiveUp, TypeOK
  <1> QED BY <1>6, <1>7, <1>8, <1>9, <1>10 DEF GiveUp

LEMMA FailFacts ==
  ASSUME TypeOK, NEW h \in Handlers, Fail(h)
  PROVE  /\ GiveUp({h}) /\ Leaves(h) /\ PoolMoves(0)
         /\ UNCHANGED <<chain, now, rows, counts, height, stops, admitted, keysOf, handed>>
  BY GiveUpFacts DEF Fail, Leaves

LEMMA StoppedFacts ==
  ASSUME TypeOK, Stopped
  PROVE  /\ GiveUp(Handlers) /\ Leave(Handlers) /\ PoolMoves(0)
         /\ \A h \in Handlers : req'[h] = Idle
         /\ stops' = stops + 1
         /\ UNCHANGED <<chain, now, counts, height, admitted, keysOf, handed>>
  BY GiveUpFacts DEF Stopped, Leave

LEMMA VisibleFacts ==
  ASSUME TypeOK, NEW h \in Handlers, Visible(h)
  PROVE  /\ Moves(h, "checked", "update", req[h].token)
         /\ req[h].pc = "mined" /\ req[h].call = "mint"
         /\ UNCHANGED <<chain, now, rows, counts, pool, height, history>>
  <1>1. req[h] \in Request /\ req[h].pc = "mined" /\ req[h].call = "mint"
        /\ req \in [Handlers -> Request \cup {Idle}]
    BY DEF Visible, TypeOK
  <1> DEFINE r == [req[h] EXCEPT !.pc = "checked", !.call = "update"]
  <1>2. req' = [req EXCEPT ![h] = r]
    BY <1>1 DEF Visible
  <1>3. /\ r \in Request /\ r.pc = "checked" /\ r.call = "update" /\ r.token = req[h].token
        /\ r.kind = req[h].kind /\ r.key = req[h].key /\ r.to = req[h].to
    BY <1>1 DEF Request
  <1> HIDE DEF r
  <1> QED BY <1>1, <1>2, <1>3 DEF Moves, Visible

\* The transaction that is mined or reverts, and who waits for it.
LEMMA TxFacts ==
  ASSUME TypeOK, JobsInv, pool # <<>>
  PROVE  /\ pool[1] \in Tx /\ Carried(pool[1]) /\ Head(pool) = pool[1] /\ 1 \in 1..Len(pool)
         /\ pool[1].waiters \subseteq Handlers
         /\ \A h \in pool[1].waiters : Awaits(req[h], pool[1]) /\ req[h] \in Request
  <1>1. 1 \in 1..Len(pool) /\ Head(pool) = pool[1]
    <2>1. pool \in Seq(Tx)
      BY DEF TypeOK
    <2> QED BY <2>1
  <1>2. pool[1] \in Tx /\ pool[1].waiters \subseteq Handlers
    BY <1>1, PoolFields
  <1> QED BY <1>1, <1>2 DEF JobsInv, Awaits, TypeOK

LEMMA MinedFacts ==
  ASSUME TypeOK, JobsInv, Mined
  PROVE  LET tx == pool[1] IN
         /\ pool # <<>> /\ pool' = Tail(pool)
         /\ UNCHANGED <<now, rows, counts, height, stops, admitted, gaveUp>>
         /\ Answered(tx, IF tx.call = "mint" THEN next ELSE tx.token)
         /\ \/ tx.call = "mint" /\ Mint(Service, Service, Placeholder) /\ UNCHANGED <<keysOf, handed>>
            \/ /\ tx.call = "update" /\ tx.token \in Tokens
               /\ Update(Service, tx.token, [token |-> tx.token, key |-> tx.key])
               /\ keysOf' = [keysOf EXCEPT ![tx.token] = keysOf[tx.token] \cup {tx.key}]
               /\ UNCHANGED handed
            \/ /\ tx.call = "transfer" /\ tx.token \in Held /\ tx.to \in NewOwners
               /\ Transfer(Service, tx.token, tx.to) /\ UNCHANGED keysOf
               /\ handed' = handed \cup {tx.token}
  <1> DEFINE tx == pool[1]
             t == IF tx.call = "mint" THEN next ELSE tx.token
  <1>0. pool # <<>> /\ pool' = Tail(pool) /\ Head(pool) = tx /\ Notify(tx)
        /\ UNCHANGED <<now, rows, counts, height, stops, admitted, gaveUp>>
    BY TxFacts DEF Mined
  <1>1. /\ tx \in Tx /\ Carried(tx) /\ tx.waiters \subseteq Handlers
        /\ \A h \in tx.waiters : Awaits(req[h], tx) /\ req[h] \in Request
    BY <1>0, TxFacts
  <1>2. \/ tx.call = "mint" /\ Mint(Service, Service, Placeholder) /\ UNCHANGED <<keysOf, handed>>
        \/ /\ tx.call = "update" /\ UNCHANGED handed
           /\ Update(Service, tx.token, [token |-> tx.token, key |-> tx.key])
           /\ keysOf' = [keysOf EXCEPT ![tx.token] = keysOf[tx.token] \cup {tx.key}]
        \/ /\ tx.call = "transfer" /\ Transfer(Service, tx.token, tx.to) /\ UNCHANGED keysOf
           /\ handed' = handed \cup {tx.token}
    BY <1>0 DEF Mined, Publishes
  <1>3. tx.call = "mint" => next \in Tokens
    BY <1>2 DEF Mint
  <1>7. req' = [g \in Handlers |->
                  IF g \notin tx.waiters THEN req[g]
                  ELSE [req[g] EXCEPT !.pc = "mined",
                                      !.token = IF tx.call = "mint" THEN next ELSE req[g].token]]
    BY <1>0 DEF Notify
  <1> HIDE DEF tx
  <1>4. ASSUME NEW h \in tx.waiters
        PROVE  /\ req'[h] \in Request /\ req'[h].pc = "mined" /\ req'[h].call = tx.call
               /\ req'[h].token = t /\ req'[h].kind = req[h].kind /\ req'[h].key = req[h].key
               /\ req'[h].to = req[h].to
    <2>1. req[h] \in Request /\ req[h].call = tx.call /\ req[h].token = tx.token
      BY <1>1 DEF Awaits
    <2>2. req'[h] = [req[h] EXCEPT !.pc = "mined",
                                   !.token = IF tx.call = "mint" THEN next ELSE req[h].token]
      BY <1>1, <1>7
    <2>3. req'[h] = [req[h] EXCEPT !.pc = "mined", !.token = t]
      BY <2>1, <2>2
    <2>4. t \in Tokens \cup {0}
      BY <1>3, <2>1 DEF Request
    <2> HIDE DEF t
    <2> QED BY <2>1, <2>3, <2>4 DEF Request
  <1>5. Answered(tx, t)
    <2>1. \A g \in Handlers \ tx.waiters : req'[g] = req[g]
      BY <1>7
    <2>2. DOMAIN req' = Handlers /\ req' = [g \in Handlers |-> req'[g]]
      BY <1>7
    <2>3. \A g \in Handlers : req'[g] \in Request \cup {Idle}
      BY <1>4, <2>1 DEF TypeOK
    <2>4. req' \in [Handlers -> Request \cup {Idle}]
      BY <2>2, <2>3
    <2> HIDE DEF t
    <2> QED BY <1>1, <1>4, <2>1, <2>4 DEF Answered
  <1>6. /\ tx.call = "update" => tx.token \in Tokens
        /\ tx.call = "transfer" => tx.token \in Held /\ tx.to \in NewOwners
    BY <1>1 DEF Carried
  <1> QED BY <1>0, <1>2, <1>5, <1>6 DEF tx

LEMMA RevertedFacts ==
  ASSUME TypeOK, JobsInv, Reverted
  PROVE  /\ pool # <<>> /\ pool' = Tail(pool)
         /\ UNCHANGED <<chain, now, rows, counts, height, history>>
         /\ pool[1].waiters \subseteq Handlers /\ Leave(pool[1].waiters)
         /\ \A h \in pool[1].waiters : Awaits(req[h], pool[1])
  BY TxFacts DEF Reverted, Leave, TypeOK

\* 201 writes a row for a token that had none.
LEMMA InsertFacts ==
  ASSUME TypeOK, JobsInv, NEW h \in Handlers, Insert(h)
  PROVE  LET t == req[h].token IN
         /\ Registering(h) /\ req[h].pc = "mined" /\ req[h].call = "update" /\ t \in Tokens
         /\ t \notin Held /\ req[h].kind = "register"
         /\ rows' \in [Tokens -> Row \cup {NoRow}]
         /\ rows'[t].key = req[h].key /\ rows'[t].custodial = TRUE /\ rows'[t].created = now
         /\ \A u \in Tokens : u # t => rows'[u] = rows[u]
         /\ Held' = Held \cup {t}
  <1> DEFINE t == req[h].token
             row == [key |-> req[h].key, name |-> req[h].name, custodial |-> TRUE, created |-> now]
  <1>1. /\ req[h] # Idle /\ req[h].kind = "register" /\ req[h].pc = "mined" /\ req[h].call # "mint"
        /\ rows' = [rows EXCEPT ![t] = row] /\ t \notin Held
    BY DEF Insert, Finishable
  <1>2. req[h] \in Request /\ Job(req[h])
    BY <1>1 DEF TypeOK, JobsInv
  <1>3. req[h].call = "update" /\ t \in Tokens /\ req[h].key \in Keys /\ req[h].name \in Names \cup {Anonymous}
    BY <1>1, <1>2 DEF Job, Request
  <1>4. row \in Row /\ row.key = req[h].key /\ row.custodial = TRUE /\ row.created = now
    BY <1>3 DEF Row, TypeOK
  <1> HIDE DEF row
  <1>5. row # NoRow
    BY <1>4, RowFacts
  <1>6. /\ rows' \in [Tokens -> Row \cup {NoRow}] /\ rows'[t] = row
        /\ \A u \in Tokens : u # t => rows'[u] = rows[u]
    BY <1>1, <1>3, <1>4 DEF TypeOK
  <1>7. Held' = Held \cup {t}
    BY <1>3, <1>5, <1>6 DEF Held
  <1>8. t # 0
    BY <1>3, RegistryAssumption DEF Tokens
  <1> QED BY <1>1, <1>3, <1>4, <1>6, <1>7, <1>8 DEF Registering

\* 200 rewrites a field of a row.
LEMMA ChangedFacts ==
  ASSUME TypeOK, JobsInv, NEW h \in Handlers, Updated(h) \/ Transferred(h)
  PROVE  LET t == req[h].token IN
         /\ req[h] \in Request /\ req[h].pc = "mined" /\ req[h].kind # "register" /\ t \in Held
         /\ req[h].call = req[h].kind
         /\ rows' \in [Tokens -> Row \cup {NoRow}] /\ Held' = Held
         /\ \A u \in Tokens : u # t => rows'[u] = rows[u]
         /\ rows'[t].created = rows[t].created /\ rows'[t].name = rows[t].name
         /\ Leaves(h)
         /\ \/ /\ req[h].kind = "update" /\ rows'[t].custodial = rows[t].custodial
               /\ rows'[t].key = rows[t].key \/ rows'[t].key = req[h].key
            \/ /\ req[h].kind = "transfer" /\ rows'[t].key = rows[t].key
               /\ rows'[t].custodial = FALSE
         /\ UNCHANGED <<chain, now, counts, pool, height, history>>
  <1> DEFINE t == req[h].token
  <1>1. /\ req[h] # Idle /\ req[h].pc = "mined" /\ req[h].call # "mint"
        /\ req[h].kind \in {"update", "transfer"}
        /\ UNCHANGED <<chain, now, counts, pool, height, history>>
    BY DEF Updated, Transferred, Finishable
  <1>2. /\ req[h] \in Request /\ t \in Held /\ req[h].call = req[h].kind
        /\ req[h].key \in Keys \cup {NoKey}
    BY <1>1 DEF TypeOK, JobsInv, Job, Request
  <1>3. t \in Tokens /\ rows[t] \in Row /\ rows \in [Tokens -> Row \cup {NoRow}]
    BY <1>2 DEF Held, TypeOK
  <1>4. Leaves(h)
    BY DEF Updated, Transferred, Leaves, Leave, TypeOK
  <1>5. ASSUME NEW x \in Row, x.created = rows[t].created, rows' = [rows EXCEPT ![t] = x]
        PROVE  /\ rows' \in [Tokens -> Row \cup {NoRow}] /\ Held' = Held /\ rows'[t] = x
               /\ \A u \in Tokens : u # t => rows'[u] = rows[u]
    BY <1>2, <1>3, <1>5, RowFacts DEF Held
  <1>6. CASE Updated(h)
    <2>0. req[h].kind = "update"
      BY <1>6 DEF Updated, Finishable
    <2>1. CASE req[h].key = NoKey
      <3>1. rows' = rows
        BY <1>6, <2>1 DEF Updated
      <3> QED BY <1>1, <1>2, <1>3, <1>4, <2>0, <3>1 DEF Held
    <2>2. CASE req[h].key # NoKey
      <3> DEFINE x == [rows[t] EXCEPT !.key = req[h].key]
      <3>1. /\ x \in Row /\ x.created = rows[t].created /\ x.key = req[h].key
            /\ x.custodial = rows[t].custodial /\ x.name = rows[t].name
        BY <1>2, <1>3, <2>2 DEF Row
      <3>2. rows' = [rows EXCEPT ![t] = x]
        BY <1>6, <2>2 DEF Updated
      <3> HIDE DEF x
      <3> QED BY <1>1, <1>2, <1>4, <1>5, <2>0, <3>1, <3>2
    <2> QED BY <2>1, <2>2
  <1>7. CASE Transferred(h)
    <2>0. req[h].kind = "transfer"
      BY <1>7 DEF Transferred, Finishable
    <2> DEFINE x == [rows[t] EXCEPT !.custodial = FALSE]
    <2>1. /\ x \in Row /\ x.created = rows[t].created /\ x.key = rows[t].key
          /\ x.name = rows[t].name /\ x.custodial = FALSE
      BY <1>3 DEF Row
    <2>2. rows' = [rows EXCEPT ![t] = x]
      BY <1>7 DEF Transferred
    <2> HIDE DEF x
    <2> QED BY <1>1, <1>2, <1>4, <1>5, <2>0, <2>1, <2>2
  <1> QED BY <1>6, <1>7

\* Others leave the service alone.
LEMMA OthersFacts ==
  ASSUME Others
  PROVE  /\ UNCHANGED <<now, service, pool, height, history>>
         /\ \/ \E s \in Accounts \ {Service} :
                 \/ \E to \in Accounts \ {Service} : Mint(s, to, Placeholder)
                 \/ \E t \in Tokens : Update(s, t, Placeholder)
                 \/ \E t \in Tokens, to \in Accounts \ {Service} : Transfer(s, t, to)
            \/ Received
            \/ Revert
  BY DEF Others

\* Whatever the service and the others do, the registry makes one of its own steps.
LEMMA ChainMoves == TypeOK /\ JobsInv /\ [Next]_vars => [ChainNext]_chain
  <1> SUFFICES ASSUME TypeOK, JobsInv, [Next]_vars PROVE [ChainNext]_chain
    OBVIOUS
  <1> USE RegisterAssumption
  <1>1. CASE Mined
    <2> DEFINE tx == pool[1]
    <2>1. Service \in Accounts /\ Placeholder \in Uris /\ NewOwners \subseteq Accounts
      OBVIOUS
    <2>2. tx.key \in Keys \cup {NoKey}
      BY <1>1, MinedFacts, TxFacts, PoolFields
    <2>3. tx.token \in Tokens => [token |-> tx.token, key |-> tx.key] \in Uris
      BY <2>2 DEF Document
    <2>4. Calls(Service)
      <3>1. CASE Mint(Service, Service, Placeholder)
        BY <2>1, <3>1 DEF Calls
      <3>2. CASE tx.token \in Tokens /\ Update(Service, tx.token, [token |-> tx.token, key |-> tx.key])
        BY <2>3, <3>2 DEF Calls
      <3>3. CASE tx.token \in Held /\ tx.to \in NewOwners /\ Transfer(Service, tx.token, tx.to)
        BY <2>1, <3>3 DEF Calls, Held
      <3> QED BY <1>1, <3>1, <3>2, <3>3, MinedFacts
    <2> QED BY <2>1, <2>4 DEF ChainNext
  <1>2. CASE Others
    <2>1. Placeholder \in Uris
      OBVIOUS
    <2> QED BY <1>2, <2>1, OthersFacts DEF ChainNext, Calls
  <1>3. CASE \E h \in Handlers : Submit(h) \/ Share(h) \/ Fail(h) \/ Visible(h)
    BY <1>3 DEF Submit, Share, Fail, Visible
  <1>4. CASE \E h \in Handlers :
              \/ \E n \in Names \cup {Anonymous}, k \in Keys : BeginRegister(h, n, k)
              \/ \E t \in Tokens, s \in Keys, k \in Keys \cup {NoKey} : BeginUpdate(h, t, s, k)
              \/ \E t \in Tokens, s \in Keys, to \in NewOwners : BeginTransfer(h, t, s, to)
    BY <1>4, BeginFacts
  <1>5. CASE \E h \in Handlers : Registered(h) \/ RegisteredUncounted(h) \/ Updated(h) \/ Transferred(h)
    BY <1>5 DEF Registered, RegisteredUncounted, Stopped, Updated, Transferred
  <1>6. CASE Tick \/ Reverted \/ (\E b \in Backends : CatchUp(b)) \/ Restart \/ UNCHANGED vars
    BY <1>6 DEF Tick, Reverted, CatchUp, Restart, Stopped, vars
  <1> QED BY <1>1, <1>2, <1>3, <1>4, <1>5, <1>6 DEF Next, ServiceNext

LEMMA JobStays ==
  ASSUME NEW h \in Handlers, Job(req[h]), req'[h] = req[h], Held \subseteq Held'
  PROVE  Job(req[h])'
  BY DEF Job

\* What keeps the requests and the pool in order.
LEMMA JobsKept ==
  ASSUME TypeOK, JobsInv, NEW n \in Nat, PoolMoves(n), Held \subseteq Held',
         \A h \in Handlers : req'[h] # Idle => Job(req[h])',
         \A i \in 1..Len(pool') : \A h \in pool'[i].waiters : req'[h] = req[h]
  PROVE  JobsInv'
  <1>1. \A i \in 1..Len(pool') : i + n \in 1..Len(pool)
    BY DEF PoolMoves
  <1>2. ASSUME NEW i \in 1..Len(pool') PROVE Carried(pool[i])'
    <2>1. Carried(pool[i + n])
      BY <1>1 DEF JobsInv
    <2>2. /\ pool'[i].call = pool[i + n].call /\ pool'[i].token = pool[i + n].token
          /\ pool'[i].to = pool[i + n].to
      BY DEF PoolMoves
    <2> QED BY <2>1, <2>2 DEF Carried
  <1>3. ASSUME NEW i \in 1..Len(pool'), NEW h \in pool'[i].waiters
        PROVE  /\ Awaits(req'[h], pool'[i])
               /\ \A j \in 1..Len(pool') : h \in pool'[j].waiters => i = j
    <2>1. \A j \in 1..Len(pool') : h \in pool'[j].waiters => h \in pool[j + n].waiters
      BY DEF PoolMoves
    <2>2. /\ Awaits(req[h], pool[i + n])
          /\ \A j \in 1..Len(pool) : h \in pool[j].waiters => i + n = j
      BY <1>1, <2>1 DEF JobsInv
    <2>3. req'[h] = req[h]
      OBVIOUS
    <2>4. /\ pool'[i].call = pool[i + n].call /\ pool'[i].token = pool[i + n].token
          /\ pool'[i].key = pool[i + n].key
      BY DEF PoolMoves
    <2>5. \A j \in 1..Len(pool') : h \in pool'[j].waiters => i + n = j + n
      BY <1>1, <2>1, <2>2
    <2>6. \A j \in 1..Len(pool') : i + n = j + n => i = j
      OBVIOUS
    <2> QED BY <2>2, <2>3, <2>4, <2>5, <2>6 DEF Awaits
  <1> QED BY <1>2, <1>3 DEF JobsInv

LEMMA JobsNext == TypeOK /\ JobsInv /\ [Next]_vars => JobsInv'
  <1> SUFFICES ASSUME TypeOK, JobsInv, [Next]_vars PROVE JobsInv'
    OBVIOUS
  <1>0. \A i \in 1..Len(pool) : i + 0 = i /\ pool[i].waiters \subseteq Handlers
    BY PoolFields
  <1>1. ASSUME UNCHANGED <<req, pool>>, Held \subseteq Held' PROVE JobsInv'
    <2>1. \A h \in Handlers : req'[h] # Idle => Job(req[h])'
      BY <1>1, JobStays DEF JobsInv
    <2>2. \A i \in 1..Len(pool') : \A h \in pool'[i].waiters : req'[h] = req[h]
      BY <1>1
    <2> QED BY <1>1, <2>1, <2>2, PoolStays, JobsKept
  \* A request that waits for no transaction goes on or is over.
  <1>2. ASSUME NEW h \in Handlers, req[h] = Idle \/ req[h].pc # "sent",
               \A g \in Handlers : g # h => req'[g] = req[g],
               req'[h] # Idle => Job(req[h])', UNCHANGED pool, Held \subseteq Held'
        PROVE  JobsInv'
    <2>1. \A g \in Handlers : req'[g] # Idle => Job(req[g])'
      BY <1>2, JobStays DEF JobsInv
    <2>2. \A i \in 1..Len(pool) : h \notin pool[i].waiters
      BY <1>2 DEF JobsInv, Awaits
    <2>3. \A i \in 1..Len(pool') : \A g \in pool'[i].waiters : req'[g] = req[g]
      BY <1>0, <1>2, <2>2
    <2> QED BY <1>2, <2>1, <2>3, PoolStays, JobsKept
  \* The first transaction is mined or reverts.
  <1>3. ASSUME pool # <<>>, pool' = Tail(pool), Held \subseteq Held',
               \A h \in Handlers \ pool[1].waiters : req'[h] = req[h],
               \A h \in pool[1].waiters : req'[h] # Idle => Job(req[h])'
        PROVE  JobsInv'
    <2>1. ASSUME NEW g \in Handlers, req'[g] # Idle PROVE Job(req[g])'
      <3>1. CASE g \in pool[1].waiters
        BY <1>3, <2>1, <3>1
      <3>2. CASE g \notin pool[1].waiters
        <4>1. req'[g] = req[g] /\ Job(req[g])
          BY <1>3, <2>1, <3>2 DEF JobsInv
        <4> QED BY <1>3, <4>1, JobStays
      <3> QED BY <3>1, <3>2
    <2>2. /\ PoolMoves(1) /\ \A i \in 1..Len(pool') : i + 1 \in 1..Len(pool) /\ i + 1 # 1
          /\ 1 \in 1..Len(pool)
      BY <1>3, PoolTail
    <2>3. ASSUME NEW i \in 1..Len(pool'), NEW h \in pool'[i].waiters PROVE req'[h] = req[h]
      <3>1. h \in pool[i + 1].waiters /\ h \in Handlers
        BY <1>0, <2>2 DEF PoolMoves
      <3>2. h \notin pool[1].waiters
        BY <2>2, <3>1 DEF JobsInv
      <3> QED BY <1>3, <3>1, <3>2
    <2> QED BY <1>3, <2>1, <2>2, <2>3, JobsKept
  <1>4. ASSUME NEW h \in Handlers,
               \/ \E n \in Names \cup {Anonymous}, k \in Keys : BeginRegister(h, n, k)
               \/ \E t \in Tokens, s \in Keys, k \in Keys \cup {NoKey} : BeginUpdate(h, t, s, k)
               \/ \E t \in Tokens, s \in Keys, to \in NewOwners : BeginTransfer(h, t, s, to)
        PROVE  JobsInv'
    <2>1. /\ req[h] = Idle /\ Job(req'[h]) /\ UNCHANGED <<rows, pool>>
          /\ \A g \in Handlers : g # h => req'[g] = req[g]
      BY <1>4, BeginFacts
    <2>2. Held' = Held /\ Job(req[h])'
      BY <2>1 DEF Held, Job
    <2> QED BY <1>2, <2>1, <2>2
  \* A request goes to wait for a transaction with its calldata.
  <1>5. ASSUME NEW h \in Handlers, Moves(h, "sent", req[h].call, req[h].token),
               req[h].pc = "checked", UNCHANGED rows, NEW k \in 1..Len(pool'),
               Len(pool) <= Len(pool'), h \in pool'[k].waiters,
               pool'[k].call = req[h].call, pool'[k].token = req[h].token,
               req[h].call # "mint" => pool'[k].key = req[h].key,
               k \in 1..Len(pool) \/ pool'[k].to = req[h].to,
               \A i \in 1..Len(pool') : i \in 1..Len(pool) \/ i = k,
               \A i \in 1..Len(pool) :
                 /\ pool'[i].call = pool[i].call /\ pool'[i].token = pool[i].token
                 /\ pool'[i].key = pool[i].key /\ pool'[i].to = pool[i].to,
               \A i \in 1..Len(pool') : \A g \in pool'[i].waiters :
                 \/ g = h /\ i = k
                 \/ g # h /\ i \in 1..Len(pool) /\ g \in pool[i].waiters
        PROVE  JobsInv'
    <2>1. Held' = Held
      BY <1>5 DEF Held
    <2>2. req[h] # Idle /\ Job(req[h])
      BY <1>5, RowFacts DEF Moves, JobsInv
    <2>3. /\ req'[h].pc = "sent" /\ req'[h].call = req[h].call /\ req'[h].token = req[h].token
          /\ req'[h].kind = req[h].kind /\ req'[h].key = req[h].key /\ req'[h].to = req[h].to
          /\ \A g \in Handlers : g # h => req'[g] = req[g]
      BY <1>5 DEF Moves
    <2>4. Job(req[h])'
      BY <1>5, <2>1, <2>2, <2>3 DEF Job
    <2>5. \A g \in Handlers : req'[g] # Idle => Job(req[g])'
      BY <2>1, <2>3, <2>4, JobStays DEF JobsInv
    <2>6. ASSUME NEW i \in 1..Len(pool') PROVE Carried(pool[i])'
      <3>1. CASE i \in 1..Len(pool)
        BY <1>5, <2>1, <3>1 DEF JobsInv, Carried
      <3>2. CASE i = k /\ i \notin 1..Len(pool)
        <4>1. req[h].call \in {"mint", "update", "transfer"} /\ Held \subseteq Tokens
          BY <2>2 DEF Job, Held
        <4>2. req[h].call = "update" => req[h].token \in Tokens
          BY <2>2, <4>1 DEF Job
        <4>3. req[h].call = "transfer" => req[h].token \in Held /\ req[h].to \in NewOwners
          BY <2>2 DEF Job
        <4> QED BY <1>5, <2>1, <3>2, <4>1, <4>2, <4>3 DEF Carried
      <3> QED BY <1>5, <3>1, <3>2
    <2>7. ASSUME NEW i \in 1..Len(pool'), NEW g \in pool'[i].waiters
          PROVE  /\ Awaits(req'[g], pool'[i])
                 /\ \A j \in 1..Len(pool') : g \in pool'[j].waiters => i = j
      <3>1. CASE g = h /\ i = k
        <4>1. req'[h] # Idle
          BY <1>5, RowFacts DEF Moves
        <4> QED BY <1>5, <2>3, <3>1, <4>1 DEF Awaits
      <3>2. CASE g # h /\ i \in 1..Len(pool) /\ g \in pool[i].waiters
        <4>1. /\ Awaits(req[g], pool[i]) /\ g \in Handlers
              /\ \A j \in 1..Len(pool) : g \in pool[j].waiters => i = j
          BY <1>0, <3>2 DEF JobsInv
        <4>2. req'[g] = req[g]
          BY <2>3, <3>2, <4>1
        <4>3. Awaits(req'[g], pool'[i])
          BY <1>5, <3>2, <4>1, <4>2 DEF Awaits
        <4> QED BY <1>5, <3>2, <4>1, <4>3
      <3> QED BY <1>5, <3>1, <3>2
    <2> QED BY <2>5, <2>6, <2>7 DEF JobsInv
  <1>6. ASSUME NEW h \in Handlers, Submit(h) PROVE JobsInv'
    <2>1. PICK tx \in Tx :
            /\ Moves(h, "sent", req[h].call, req[h].token)
            /\ req[h].pc = "checked" /\ pool' = Append(pool, tx) /\ tx.waiters = {h}
            /\ tx.call = req[h].call /\ tx.token = req[h].token
            /\ req[h].call # "mint" => tx.key = req[h].key
            /\ tx.to = req[h].to
            /\ UNCHANGED <<chain, now, rows, counts, height, history>>
      BY <1>6, SubmitFacts
    <2>2. /\ Len(pool') = Len(pool) + 1 /\ pool'[Len(pool) + 1] = tx /\ Len(pool) \in Nat
          /\ \A i \in 1..Len(pool) : pool'[i] = pool[i]
      BY <2>1 DEF TypeOK
    <2>3. \A i \in 1..Len(pool) : h \notin pool[i].waiters
      BY <2>1 DEF JobsInv, Awaits
    <2>4. /\ Len(pool) + 1 \in 1..Len(pool') /\ Len(pool) <= Len(pool')
          /\ \A i \in 1..Len(pool') : i \in 1..Len(pool) \/ i = Len(pool) + 1
      BY <2>2
    <2>5. \A i \in 1..Len(pool') : \A g \in pool'[i].waiters :
                 \/ g = h /\ i = Len(pool) + 1
                 \/ g # h /\ i \in 1..Len(pool) /\ g \in pool[i].waiters
      BY <2>1, <2>2, <2>3, <2>4
    <2> QED BY <1>5, <2>1, <2>2, <2>4, <2>5
  <1>15. ASSUME NEW h \in Handlers, Share(h) PROVE JobsInv'
    <2>1. PICK k \in 1..Len(pool) :
            /\ Moves(h, "sent", req[h].call, req[h].token)
            /\ req[h].pc = "checked"
            /\ pool' \in Seq(Tx) /\ Len(pool') = Len(pool)
            /\ \A i \in 1..Len(pool) :
                 /\ pool'[i].call = pool[i].call /\ pool'[i].token = pool[i].token
                 /\ pool'[i].key = pool[i].key /\ pool'[i].to = pool[i].to
                 /\ pool'[i].waiters = IF i = k THEN pool[i].waiters \cup {h} ELSE pool[i].waiters
            /\ pool[k].call = req[h].call /\ pool[k].token = req[h].token
            /\ req[h].call # "mint" => pool[k].key = req[h].key
            /\ UNCHANGED <<chain, now, rows, counts, height, history>>
      BY <1>15, ShareFacts
    <2>2. \A i \in 1..Len(pool) : h \notin pool[i].waiters
      BY <2>1 DEF JobsInv, Awaits
    <2>3. \A i \in 1..Len(pool') : \A g \in pool'[i].waiters :
                 \/ g = h /\ i = k
                 \/ g # h /\ i \in 1..Len(pool) /\ g \in pool[i].waiters
      BY <2>1, <2>2
    <2>4. /\ pool'[k].call = pool[k].call /\ pool'[k].token = pool[k].token
          /\ pool'[k].key = pool[k].key /\ h \in pool'[k].waiters /\ k \in 1..Len(pool')
          /\ Len(pool) <= Len(pool')
      <3>1. Len(pool) \in Nat
        BY PoolFields
      <3>2. Len(pool) <= Len(pool') /\ k \in 1..Len(pool')
        BY <2>1, <3>1
      <3>3. /\ pool'[k].call = pool[k].call /\ pool'[k].token = pool[k].token
            /\ pool'[k].key = pool[k].key /\ h \in pool'[k].waiters
        BY <2>1
      <3> QED BY <3>2, <3>3
    <2>5. /\ \A i \in 1..Len(pool') : i \in 1..Len(pool) \/ i = k
          /\ req[h].call # "mint" => pool'[k].key = req[h].key
          /\ pool'[k].call = req[h].call /\ pool'[k].token = req[h].token
          /\ UNCHANGED rows /\ k \in 1..Len(pool)
          /\ \A i \in 1..Len(pool) :
               /\ pool'[i].call = pool[i].call /\ pool'[i].token = pool[i].token
               /\ pool'[i].key = pool[i].key /\ pool'[i].to = pool[i].to
      BY <2>1, <2>4
    <2>6. Moves(h, "sent", req[h].call, req[h].token) /\ req[h].pc = "checked"
      BY <2>1
    <2> QED BY <1>5, <2>3, <2>4, <2>5, <2>6
  \* Requests give up.
  <1>16. ASSUME NEW S \in SUBSET Handlers, GiveUp(S), Held \subseteq Held' PROVE JobsInv'
    <2>1. /\ Leave(S) /\ PoolMoves(0) /\ Len(pool') = Len(pool)
          /\ \A i \in 1..Len(pool) : pool'[i].waiters = pool[i].waiters \ S
      BY <1>16, GiveUpFacts
    <2>2. ASSUME NEW h \in Handlers, req'[h] # Idle PROVE Job(req[h])'
      <3>1. req'[h] = req[h]
        BY <2>1, <2>2 DEF Leave
      <3> QED BY <1>16, <2>2, <3>1, JobStays DEF JobsInv
    <2>3. \A i \in 1..Len(pool') : \A h \in pool'[i].waiters : req'[h] = req[h]
      BY <1>0, <2>1 DEF Leave
    <2> QED BY <1>16, <2>1, <2>2, <2>3, JobsKept
  <1>7. ASSUME NEW h \in Handlers, Visible(h) PROVE JobsInv'
    <2>1. /\ Moves(h, "checked", "update", req[h].token) /\ UNCHANGED <<rows, pool>>
          /\ req[h].pc = "mined" /\ req[h].call = "mint"
      BY <1>7, VisibleFacts
    <2>2. Held' = Held /\ req[h] # Idle /\ Job(req[h])
      BY <2>1, RowFacts DEF Held, JobsInv, Moves
    <2>3. Job(req[h])'
      BY <2>1, <2>2 DEF Job, Moves
    <2> QED BY <1>2, <2>1, <2>2, <2>3 DEF Moves
  <1>8. CASE Mined
    <2> PICK tx : tx = pool[1]
      OBVIOUS
    <2> PICK t : t = IF tx.call = "mint" THEN next ELSE tx.token
      OBVIOUS
    <2>1. /\ pool # <<>> /\ pool' = Tail(pool) /\ UNCHANGED rows /\ Answered(tx, t)
          /\ tx.call = "mint" => next \in Tokens
      BY <1>8, MinedFacts DEF Mint
    <2>2. Held' = Held
      BY <2>1 DEF Held
    <2>3. ASSUME NEW h \in tx.waiters PROVE Job(req[h])'
      <3>1. h \in Handlers /\ Awaits(req[h], tx) /\ Job(req[h])
        BY <2>1 DEF JobsInv, Awaits, Answered
      <3>2. /\ req'[h].pc = "mined" /\ req'[h].call = tx.call /\ req'[h].token = t
            /\ req'[h].kind = req[h].kind /\ req'[h].key = req[h].key /\ req'[h].to = req[h].to
            /\ req[h].call = tx.call /\ req[h].token = tx.token /\ req[h].pc = "sent"
        BY <2>1, <3>1 DEF Answered, Awaits
      <3>3. CASE tx.call = "mint"
        BY <2>1, <3>1, <3>2, <3>3 DEF Job
      <3>4. CASE tx.call # "mint"
        BY <2>2, <3>1, <3>2, <3>4 DEF Job
      <3> QED BY <3>3, <3>4
    <2> QED BY <1>3, <2>1, <2>2, <2>3 DEF Answered
  <1>9. CASE Reverted
    <2>1. pool # <<>> /\ pool' = Tail(pool) /\ UNCHANGED rows /\ Leave(pool[1].waiters)
      BY <1>9, RevertedFacts
    <2>2. Held' = Held
      BY <2>1 DEF Held
    <2> QED BY <1>3, <2>1, <2>2 DEF Leave
  <1>10. ASSUME NEW h \in Handlers, Registered(h) PROVE JobsInv'
    <2>1. Insert(h) /\ Leaves(h) /\ UNCHANGED pool
      BY <1>10 DEF Registered, Leaves, Leave, TypeOK
    <2>2. req[h].pc = "mined" /\ Held \subseteq Held'
      BY <2>1, InsertFacts
    <2> QED BY <1>2, <2>1, <2>2 DEF Leaves, Leave
  <1>11. ASSUME NEW h \in Handlers, Updated(h) \/ Transferred(h) PROVE JobsInv'
    <2>1. req[h].pc = "mined" /\ Leaves(h) /\ UNCHANGED pool /\ Held' = Held
      BY <1>11, ChangedFacts
    <2> QED BY <1>2, <2>1 DEF Leaves, Leave
  <1>12. ASSUME Stopped, Held \subseteq Held' PROVE JobsInv'
    BY <1>12, <1>16, StoppedFacts
  <1>17. ASSUME NEW h \in Handlers, Fail(h) PROVE JobsInv'
    <2>1. GiveUp({h}) /\ UNCHANGED rows
      BY <1>17, FailFacts
    <2> QED BY <1>16, <2>1 DEF Held
  <1>13. CASE Restart \/ \E h \in Handlers : RegisteredUncounted(h)
    BY <1>12, <1>13, InsertFacts DEF Restart, RegisteredUncounted, Held
  <1>14. CASE Tick \/ (\E b \in Backends : CatchUp(b)) \/ Others \/ UNCHANGED vars
    BY <1>1, <1>14 DEF Tick, CatchUp, Others, service, vars, Held
  <1> QED
    BY <1>4, <1>6, <1>7, <1>8, <1>9, <1>10, <1>11, <1>13, <1>14, <1>15, <1>17 DEF Next, ServiceNext

\* Variables keep their types.
LEMMA RegisterTypeInit == Init => TypeOK /\ JobsInv
  <1> SUFFICES ASSUME Init PROVE TypeOK /\ JobsInv
    OBVIOUS
  <1>1. ChainTypeOK
    BY ChainTypeInit DEF Init
  <1>2. pool = <<>> /\ <<>> \in Seq(Tx) /\ Len(pool) = 0
    BY DEF Init
  <1>3. TypeOK
    BY <1>1, <1>2, RegistryAssumption DEF Init, TypeOK
  <1>4. JobsInv
    BY <1>2 DEF Init, JobsInv
  <1> QED BY <1>3, <1>4

LEMMA RegisterTypeNext == TypeOK /\ JobsInv /\ [Next]_vars => TypeOK'
  <1> SUFFICES ASSUME TypeOK, JobsInv, [Next]_vars PROVE TypeOK'
    OBVIOUS
  <1> USE RegisterAssumption
  <1>0. ChainTypeOK'
    <2>1. ChainTypeOK
      BY DEF TypeOK
    <2> QED BY <2>1, ChainMoves, ChainTypeNext
  <1>1. ASSUME NEW h \in Handlers,
               \/ \E n \in Names \cup {Anonymous}, k \in Keys : BeginRegister(h, n, k)
               \/ \E t \in Tokens, s \in Keys, k \in Keys \cup {NoKey} : BeginUpdate(h, t, s, k)
               \/ \E t \in Tokens, s \in Keys, to \in NewOwners : BeginTransfer(h, t, s, to)
        PROVE  TypeOK'
    BY <1>0, <1>1, BeginFacts DEF TypeOK
  <1>2. ASSUME NEW h \in Handlers, Submit(h) PROVE TypeOK'
    <2>1. PICK tx \in Tx :
            /\ Moves(h, "sent", req[h].call, req[h].token) /\ pool' = Append(pool, tx)
            /\ UNCHANGED <<now, rows, counts, height, history>>
      BY <1>2, SubmitFacts
    <2>2. pool' \in Seq(Tx)
      BY <2>1 DEF TypeOK
    <2> QED BY <1>0, <2>1, <2>2 DEF TypeOK, Moves, history
  <1>13. ASSUME NEW h \in Handlers, Share(h) PROVE TypeOK'
    <2>1. /\ Moves(h, "sent", req[h].call, req[h].token) /\ pool' \in Seq(Tx)
          /\ UNCHANGED <<now, rows, counts, height, history>>
      BY <1>13, ShareFacts
    <2> QED BY <1>0, <2>1 DEF TypeOK, Moves, history
  <1>3. ASSUME NEW h \in Handlers, Fail(h) PROVE TypeOK'
    BY <1>0, <1>3, FailFacts, GiveUpFacts DEF TypeOK, Leaves, Leave, PoolMoves
  <1>14. ASSUME NEW h \in Handlers, Visible(h) PROVE TypeOK'
    BY <1>0, <1>14, VisibleFacts DEF TypeOK, Moves, history
  <1>4. CASE Mined
    <2> DEFINE tx == pool[1]
    <2>1. pool' \in Seq(Tx)
      BY <1>4, MinedFacts, PoolTail DEF PoolMoves
    <2>2. req' \in [Handlers -> Request \cup {Idle}]
      BY <1>4, MinedFacts DEF Answered
    <2>3. tx.key \in Keys \cup {NoKey}
      BY <1>4, MinedFacts, TxFacts, PoolFields
    <2>4. keysOf' \in [Tokens -> SUBSET (Keys \cup {NoKey})]
      BY <1>4, <2>3, MinedFacts DEF TypeOK
    <2>5. /\ UNCHANGED <<now, rows, counts, height, stops, admitted, gaveUp>>
          /\ handed' = handed \/ (tx.token \in Held /\ handed' = handed \cup {tx.token})
      BY <1>4, MinedFacts
    <2>6. handed' \subseteq Tokens
      BY <2>5 DEF TypeOK, Held
    <2> QED BY <1>0, <2>1, <2>2, <2>4, <2>5, <2>6 DEF TypeOK
  <1>5. CASE Reverted
    BY <1>0, <1>5, RevertedFacts, PoolTail DEF TypeOK, Leave, PoolMoves, history
  <1>6. \A h \in Handlers : Insert(h) => rows' \in [Tokens -> Row \cup {NoRow}]
    BY InsertFacts
  <1>7. ASSUME Stopped, rows' \in [Tokens -> Row \cup {NoRow}] PROVE TypeOK'
    BY <1>0, <1>7, StoppedFacts, GiveUpFacts DEF TypeOK, PoolMoves, Leave
  <1>8. CASE Restart \/ \E h \in Handlers : RegisteredUncounted(h)
    <2>1. rows' \in [Tokens -> Row \cup {NoRow}] /\ Stopped
      BY <1>6, <1>8 DEF Restart, RegisteredUncounted, TypeOK
    <2> QED BY <1>7, <2>1
  <1>9. ASSUME NEW h \in Handlers, Registered(h) PROVE TypeOK'
    <2>1. /\ rows' \in [Tokens -> Row \cup {NoRow}] /\ counts' \in [Days -> Nat]
          /\ req' \in [Handlers -> Request \cup {Idle}]
      <3>1. rows' \in [Tokens -> Row \cup {NoRow}]
        BY <1>6, <1>9 DEF Registered
      <3>2. counts' \in [Days -> Nat]
        <4>1. PICK d : d = Today
          OBVIOUS
        <4>2. counts \in [Days -> Nat] /\ counts' = [counts EXCEPT ![d] = counts[d] + 1]
          BY <1>9, <4>1 DEF Registered, TypeOK
        <4>3. d \in Days => counts[d] + 1 \in Nat
          BY <4>2
        <4> QED BY <4>2, <4>3
      <3> QED BY <1>9, <3>1, <3>2 DEF Registered, TypeOK
    <2> QED BY <1>0, <1>9, <2>1 DEF TypeOK, Registered, history
  <1>10. ASSUME NEW h \in Handlers, Updated(h) \/ Transferred(h) PROVE TypeOK'
    BY <1>0, <1>10, ChangedFacts DEF TypeOK, Leaves, Leave, history
  <1>11. ASSUME NEW b \in Backends, CatchUp(b) PROVE TypeOK'
    <2>1. next - 1 \in 0..MaxTokens
      BY ChainTypes, RegistryAssumption DEF TypeOK
    <2> QED BY <1>0, <1>11, <2>1 DEF CatchUp, TypeOK, service, history
  <1>12. CASE Tick \/ Others \/ UNCHANGED vars
    BY <1>0, <1>12 DEF Tick, Others, vars, TypeOK, service, history
  <1> QED
    BY <1>1, <1>2, <1>3, <1>4, <1>5, <1>8, <1>9, <1>10, <1>11, <1>12, <1>13, <1>14 DEF Next, ServiceNext

\* The service and the rest of the world use the registry as it may be used.
THEOREM RegisterUsesRegistry == Spec => ChainSpec
  <1>1. Init => ChainInit
    BY DEF Init
  <1> QED
    BY <1>1, RegisterTypeInit, RegisterTypeNext, JobsNext, ChainMoves, PTL DEF Spec, ChainSpec
\* So what holds of the contract holds of the one the service uses: its tokens have
\* documents, and code within mints leaves them alone.
COROLLARY ServiceTokensDocumented == Spec => [](EveryTokenDocumented /\ WalletsUntouched)
  BY RegisterUsesRegistry, TokensDocumented, WalletsStay, PTL

LEMMA ServiceQuiet ==
  ASSUME TypeOK, JobsInv, calls = <<>>, ServiceNext
  PROVE  calls' = <<>>
  <1>1. CASE Mined
    BY <1>1, MinedFacts, RegisterAssumption DEF Mint, Update, Transfer
  <1>2. CASE ~Mined
    <2>1. UNCHANGED chain
      BY <1>2, BeginFacts, ChangedFacts
      DEF ServiceNext, Submit, Share, Fail, Visible, Tick, Reverted, CatchUp, Registered,
          RegisteredUncounted, Restart, Stopped
    <2> QED BY <2>1 DEF chain
  <1> QED BY <1>1, <1>2

\* What others do, the service's tokens aside.
LEMMA OthersAside ==
  ASSUME TypeOK, ChainInv, AsideInv, \A t \in Held : owner[t] # Nobody, Others
  PROVE  /\ AsideInv'
         /\ \A t \in Tokens : /\ owner'[t] = Service <=> owner[t] = Service
                              /\ owner[t] = Service => uri'[t] = uri[t]
         /\ \A t \in Held : owner'[t] # Nobody
  <1> USE RegistryAssumption, RegisterAssumption
  <1>0. /\ next \in 1..(MaxTokens + 1) /\ owner \in [Tokens -> Accounts \cup {Nobody}]
        /\ uri \in [Tokens -> Uris \cup {Empty}] /\ calls \in Seq(CallOf) /\ Len(calls) \in Nat
        /\ Tokens = 1..MaxTokens /\ Service # Nobody /\ ChainTypeOK /\ Held \subseteq Tokens
    BY ChainTypes DEF TypeOK, Tokens, Held
  <1>1. Held' = Held
    BY DEF Others, service, Held
  <1>2. \A t \in Tokens : owner[t] # Nobody <=> t < next
    BY HereFields DEF ChainInv, Sound
  <1>3. \A k \in 1..Len(calls) : calls[k].token \in Tokens /\ calls[k].token < next
    BY <1>0, CallFields DEF ChainInv
  <1>4. ASSUME UNCHANGED calls,
               \A t \in Tokens : /\ owner'[t] = Service <=> owner[t] = Service
                                 /\ owner[t] = Service => uri'[t] = uri[t]
        PROVE  AsideInv'
    BY <1>1, <1>3, <1>4 DEF AsideInv
  <1>5. ASSUME NEW s \in Accounts \ {Service}, NEW to \in Accounts \ {Service}, Mint(s, to, Placeholder)
        PROVE  /\ AsideInv'
               /\ \A t \in Tokens : /\ owner'[t] = Service <=> owner[t] = Service
                                    /\ owner[t] = Service => uri'[t] = uri[t]
               /\ \A t \in Held : owner'[t] # Nobody
    <2>1. /\ next \in Tokens /\ owner' = [owner EXCEPT ![next] = to]
          /\ uri' = uri \/ uri' = [uri EXCEPT ![next] = Placeholder]
          /\ owner[next] = Nobody
      <3>1. next \in Tokens
        BY <1>5 DEF Mint
      <3>2. owner[next] = Nobody
        BY <1>0, <1>2, <3>1
      <3> QED BY <1>5, <3>1, <3>2 DEF Mint
    <2>2. \A t \in Tokens : /\ owner'[t] = Service <=> owner[t] = Service
                            /\ owner[t] = Service => uri'[t] = uri[t]
      BY <1>0, <2>1
    <2>3. \A t \in Held : owner'[t] # Nobody
      BY <1>0, <2>1
    <2>4. CASE to \notin Contracts
      BY <1>4, <1>5, <2>2, <2>3, <2>4 DEF Mint
    <2>5. CASE to \in Contracts
      <3> PICK c : c = [token |-> next, uri |-> Placeholder, before |-> Here]
        OBVIOUS
      <3>1. calls' = Append(calls, c)
        BY <1>5, <2>5 DEF Mint
      <3>2. /\ Len(calls') = Len(calls) + 1 /\ calls'[Len(calls) + 1] = c
            /\ \A i \in 1..Len(calls) : calls'[i] = calls[i]
        BY <1>0, <3>1
      <3>3. c.token = next /\ c.before.owner = owner /\ c.before.uri = uri
        BY HereFields
      <3>4. ASSUME NEW k \in 1..Len(calls')
            PROVE  /\ owner'[calls'[k].token] # Service
                   /\ \A t \in Tokens : /\ calls'[k].before.owner[t] = Service <=> owner'[t] = Service
                                        /\ owner'[t] = Service => calls'[k].before.uri[t] = uri'[t]
                   /\ \A t \in Held : calls'[k].before.owner[t] # Nobody
        <4>1. CASE k \in 1..Len(calls)
          BY <1>3, <2>2, <3>2, <4>1 DEF AsideInv
        <4>2. CASE k = Len(calls) + 1
          <5>1. calls'[k] = c
            BY <3>2, <4>2
          <5>2. owner'[next] # Service
            BY <1>0, <2>1
          <5>3. \A t \in Held : c.before.owner[t] # Nobody
            BY <3>3
          <5>4. \A t \in Tokens : /\ c.before.owner[t] = Service <=> owner'[t] = Service
                                  /\ owner'[t] = Service => c.before.uri[t] = uri'[t]
            BY <2>2, <3>3
          <5>5. calls'[k].token = next /\ calls'[k].before = c.before
            BY <3>3, <5>1
          <5> QED BY <5>2, <5>3, <5>4, <5>5
        <4>3. k \in 1..Len(calls) \/ k = Len(calls) + 1
          BY <1>0, <3>2
        <4> QED BY <4>1, <4>2, <4>3
      <3>5. AsideInv'
        BY <1>1, <3>4 DEF AsideInv
      <3> QED BY <2>2, <2>3, <3>5
    <2> QED BY <2>4, <2>5
  <1>6. ASSUME NEW s \in Accounts \ {Service}, NEW t \in Tokens, Update(s, t, Placeholder)
        PROVE  /\ AsideInv'
               /\ \A u \in Tokens : /\ owner'[u] = Service <=> owner[u] = Service
                                    /\ owner[u] = Service => uri'[u] = uri[u]
               /\ \A u \in Held : owner'[u] # Nobody
    <2>1. /\ UNCHANGED <<calls, owner>> /\ uri' = [uri EXCEPT ![t] = Placeholder]
          /\ owner[t] # Service
      BY <1>6 DEF Update
    <2> QED BY <1>0, <1>4, <2>1
  <1>7. ASSUME NEW s \in Accounts \ {Service}, NEW t \in Tokens, NEW to \in Accounts \ {Service},
               Transfer(s, t, to)
        PROVE  /\ AsideInv'
               /\ \A u \in Tokens : /\ owner'[u] = Service <=> owner[u] = Service
                                    /\ owner[u] = Service => uri'[u] = uri[u]
               /\ \A u \in Held : owner'[u] # Nobody
    <2>1. /\ UNCHANGED <<calls, uri>> /\ owner' = [owner EXCEPT ![t] = to] /\ owner[t] # Service
      BY <1>7 DEF Transfer
    <2> QED BY <1>0, <1>4, <2>1
  <1>8. ASSUME calls # <<>>, calls' = Outer,
               \A t \in Tokens : /\ owner'[t] = Service <=> owner[t] = Service
                                 /\ owner[t] = Service => uri'[t] = uri[t]
        PROVE  AsideInv'
    <2>1. /\ Len(calls') = Len(calls) - 1 /\ Len(calls) \in Nat \ {0}
          /\ \A k \in 1..(Len(calls) - 1) : calls'[k] = calls[k]
      BY <1>0, <1>8, OuterFacts
    <2>2. \A k \in 1..Len(calls') : k \in 1..Len(calls) /\ calls'[k] = calls[k]
      BY <2>1
    <2> QED BY <1>1, <1>3, <1>8, <2>2 DEF AsideInv
  <1>9. CASE Received
    <2>1. /\ calls # <<>> /\ calls' = Outer /\ UNCHANGED owner
          /\ uri' = [uri EXCEPT ![Inner.token] = Inner.uri]
          /\ owner[Inner.token] # Service
      BY <1>0, <1>9, OuterFacts DEF Received, AsideInv
    <2> QED BY <1>0, <1>8, <2>1
  <1>10. CASE Revert
    <2>1. /\ calls # <<>> /\ calls' = Outer
          /\ owner' = Inner.before.owner /\ uri' = Inner.before.uri
          /\ \A t \in Tokens : /\ Inner.before.owner[t] = Service <=> owner[t] = Service
                               /\ owner[t] = Service => Inner.before.uri[t] = uri[t]
          /\ \A t \in Held : Inner.before.owner[t] # Nobody
      BY <1>0, <1>10, OuterFacts DEF Revert, AsideInv
    <2> QED BY <1>8, <2>1
  <1> QED BY <1>5, <1>6, <1>7, <1>9, <1>10, OthersFacts

LEMMA OwnKept ==
  ASSUME OwnInv, Held \subseteq Held',
         \A h \in Handlers : Registering(h)' =>
           \/ req'[h].token \in Held' \/ owner'[req'[h].token] = Service
           \/ /\ Registering(h) /\ req'[h].token = req[h].token
              /\ owner[req[h].token] = Service => owner'[req[h].token] = Service,
         \A t \in Held' : owner'[t] # Nobody
  PROVE  OwnInv'
  BY DEF OwnInv

LEMMA OwnNext ==
  TypeOK /\ JobsInv /\ ChainInv /\ AsideInv /\ OwnInv /\ [Next]_vars => AsideInv' /\ OwnInv'
  <1> SUFFICES ASSUME TypeOK, JobsInv, ChainInv, AsideInv, OwnInv, [Next]_vars
               PROVE  AsideInv' /\ OwnInv'
    OBVIOUS
  <1> USE RegistryAssumption, RegisterAssumption
  <1>0. /\ owner \in [Tokens -> Accounts \cup {Nobody}] /\ Service # Nobody /\ Held \subseteq Tokens
        /\ Tokens = 1..MaxTokens
    BY ChainTypes DEF TypeOK, Held, Tokens
  <1>1. \A t \in Tokens : owner[t] # Nobody <=> t < next
    BY HereFields DEF ChainInv, Sound
  <1>2. \A h \in Handlers : Registering(h) => req[h].token \in Tokens
    BY DEF Registering, JobsInv, Job, Held
  <1>3. CASE calls = <<>> /\ ServiceNext
    <2>1. AsideInv'
      <3>1. Len(calls') = 0
        BY <1>3, ServiceQuiet
      <3> QED BY <3>1 DEF AsideInv
    \* No token changes hands.
    <2>2. ASSUME UNCHANGED owner, Held \subseteq Held',
                 \A h \in Handlers : Registering(h)' =>
                   Registering(h) /\ req'[h].token = req[h].token,
                 \A t \in Held' : t \in Held \/ owner[t] = Service
          PROVE  OwnInv'
      BY <1>0, <2>2, OwnKept DEF OwnInv
    <2>3. ASSUME UNCHANGED <<owner, rows>>, NEW S, Leave(S) PROVE OwnInv'
      <3>1. Held' = Held
        BY <2>3 DEF Held
      <3> QED BY <2>2, <2>3, <3>1 DEF Registering, Leave
    <2>4. ASSUME UNCHANGED <<owner, rows>>, NEW h \in Handlers, NEW step, NEW call,
                 Moves(h, step, call, req[h].token)
          PROVE  OwnInv'
      <3>1. Held' = Held /\ req[h] # Idle
        BY <2>4, RowFacts DEF Held, Moves
      <3> QED BY <2>2, <2>4, <3>1 DEF Registering, Moves
    <2>5. ASSUME NEW h \in Handlers,
                 \/ \E n \in Names \cup {Anonymous}, k \in Keys : BeginRegister(h, n, k)
                 \/ \E t \in Tokens, s \in Keys, k \in Keys \cup {NoKey} : BeginUpdate(h, t, s, k)
                 \/ \E t \in Tokens, s \in Keys, to \in NewOwners : BeginTransfer(h, t, s, to)
          PROVE  OwnInv'
      <3>1. /\ req'[h].kind = "register" => req'[h].token = 0
            /\ \A g \in Handlers : g # h => req'[g] = req[g]
            /\ UNCHANGED <<owner, rows>>
        BY <2>5, BeginFacts DEF chain
      <3>2. Held' = Held
        BY <3>1 DEF Held
      <3> QED BY <2>2, <3>1, <3>2 DEF Registering
    <2>6. ASSUME NEW h \in Handlers, Submit(h) \/ Share(h) \/ Fail(h) \/ Visible(h) PROVE OwnInv'
      <3>1. UNCHANGED <<owner, rows>>
        BY <2>6 DEF Submit, Share, Fail, Visible, chain
      <3>2. Leaves(h) \/ \E step, call : Moves(h, step, call, req[h].token)
        BY <2>6, SubmitFacts, ShareFacts, FailFacts, VisibleFacts
      <3> QED BY <2>3, <2>4, <3>1, <3>2 DEF Leaves
    <2>7. CASE Mined
      <3> PICK tx : tx = pool[1]
        OBVIOUS
      <3> PICK n : n = IF tx.call = "mint" THEN next ELSE tx.token
        OBVIOUS
      <3>1. Held' = Held /\ Answered(tx, n)
        BY <2>7, MinedFacts DEF Mined, Held
      <3>2. \A h \in Handlers : Registering(h)' =>
              \/ req'[h].token = n /\ req'[h].call = tx.call /\ h \in tx.waiters
              \/ Registering(h) /\ req'[h].token = req[h].token
        BY <3>1 DEF Answered, Registering
      <3>3. ASSUME tx.call = "mint", Mint(Service, Service, Placeholder)
            PROVE  OwnInv'
        <4>1. /\ next \in Tokens /\ owner' = [owner EXCEPT ![next] = Service] /\ n = next
          BY <3>3 DEF Mint
        <4>2. owner'[next] = Service /\ \A t \in Tokens : t # next => owner'[t] = owner[t]
          BY <1>0, <4>1
        <4>3. \A t \in Held' : owner'[t] # Nobody
          BY <1>0, <3>1, <4>1, <4>2 DEF OwnInv
        <4> QED BY <1>2, <3>1, <3>2, <4>1, <4>2, <4>3, OwnKept
      <3>4. \A h \in Handlers : Registering(h)' /\ tx.call # "mint" =>
              Registering(h) /\ req'[h].token = req[h].token
        BY <3>1, <3>2, RowFacts DEF Registering, Answered, Awaits
      <3>5. ASSUME UNCHANGED owner, tx.call # "mint" PROVE OwnInv'
        BY <2>2, <3>1, <3>4, <3>5
      <3>6. ASSUME tx.call = "transfer", tx.token \in Held, tx.to \in NewOwners,
                   Transfer(Service, tx.token, tx.to)
            PROVE  OwnInv'
        <4>1. owner' = [owner EXCEPT ![tx.token] = tx.to] /\ tx.to # Nobody
          BY <3>6 DEF Transfer
        <4>2. \A t \in Held' : owner'[t] # Nobody
          BY <1>0, <3>1, <4>1 DEF OwnInv
        <4>3. \A t \in Tokens : t \notin Held => owner'[t] = owner[t]
          BY <1>0, <3>6, <4>1
        <4> QED BY <1>2, <3>1, <3>4, <3>6, <4>2, <4>3, OwnKept
      <3> QED BY <2>1, <2>7, <3>3, <3>5, <3>6, MinedFacts DEF Update
    <2>8. CASE Reverted
      <3>1. UNCHANGED <<owner, rows>>
        BY <2>8, RevertedFacts DEF chain
      <3> QED BY <2>1, <2>3, <2>8, <3>1, RevertedFacts
    <2>9. ASSUME NEW h \in Handlers, Registered(h) PROVE OwnInv'
      <3>1. Insert(h) /\ Leaves(h) /\ UNCHANGED owner
        BY <2>9 DEF Registered, Leaves, Leave, TypeOK, chain
      <3>2. Held' = Held \cup {req[h].token} /\ Registering(h) /\ req[h].token \notin Held
        BY <3>1, InsertFacts
      <3> QED BY <2>2, <3>1, <3>2 DEF OwnInv, Leaves, Leave, Registering
    <2>10. ASSUME NEW h \in Handlers, RegisteredUncounted(h) PROVE OwnInv'
      <3>1. Insert(h) /\ Stopped /\ UNCHANGED owner /\ \A g \in Handlers : req'[g] = Idle
        BY <2>10, StoppedFacts DEF RegisteredUncounted, chain
      <3>2. Held' = Held \cup {req[h].token} /\ Registering(h) /\ req[h].token \notin Held
        BY <3>1, InsertFacts
      <3> QED BY <2>2, <3>1, <3>2 DEF OwnInv, Registering
    <2>11. CASE Restart
      <3>1. UNCHANGED <<owner, rows>> /\ \A g \in Handlers : req'[g] = Idle
        BY <2>11, StoppedFacts DEF Restart, chain
      <3>2. Held' = Held
        BY <3>1 DEF Held
      <3> QED BY <2>1, <2>2, <3>1, <3>2 DEF OwnInv, Registering
    <2>12. ASSUME NEW h \in Handlers, Updated(h) \/ Transferred(h) PROVE OwnInv'
      <3>1. Leaves(h) /\ UNCHANGED owner /\ Held' = Held
        BY <2>12, ChangedFacts DEF chain
      <3> QED BY <2>2, <3>1 DEF OwnInv, Registering, Leaves, Leave
    <2>13. CASE Tick \/ \E b \in Backends : CatchUp(b)
      <3>1. UNCHANGED <<owner, rows, req>>
        BY <2>13 DEF Tick, CatchUp, chain, service
      <3> QED BY <2>1, <3>1 DEF OwnInv, Registering, Held
    <2> QED
      BY <1>3, <2>1, <2>5, <2>6, <2>7, <2>8, <2>9, <2>10, <2>11, <2>12, <2>13 DEF ServiceNext
  <1>4. CASE Others
    <2>1. Held' = Held /\ UNCHANGED req
      BY <1>4 DEF Others, service, Held
    <2>2. /\ AsideInv' /\ \A t \in Held : owner'[t] # Nobody
          /\ \A t \in Tokens : owner'[t] = Service <=> owner[t] = Service
      BY <1>4, OthersAside DEF OwnInv
    <2>3. OwnInv'
      BY <1>2, <2>1, <2>2, OwnKept DEF OwnInv, Registering
    <2> QED BY <2>2, <2>3
  <1>5. CASE UNCHANGED vars
    <2>1. UNCHANGED <<owner, uri, calls, rows, req>>
      BY <1>5 DEF vars, chain, service
    <2> QED BY <2>1 DEF AsideInv, OwnInv, Registering, Held
  <1> QED BY <1>3, <1>4, <1>5 DEF Next

\* The row of a token stays the one first written, and its key changes only by an update
\* of that token that was mined.
THEOREM TokensAreGrantedOnce == Spec => GrantedOnce
  <1> DEFINE Kept(t) ==
        /\ t \in Held' /\ rows'[t].name = rows[t].name /\ rows'[t].created = rows[t].created
        /\ rows'[t].key # rows[t].key =>
             \E h \in Handlers : /\ Finishable(h, "update")
                                 /\ req[h].token = t /\ req[h].key = rows'[t].key
  <1>1. ASSUME TypeOK, JobsInv, [Next]_vars, NEW t \in Held PROVE Kept(t)
    <2>1. ASSUME NEW h \in Handlers, Insert(h) PROVE Kept(t)
      <3>1. t # req[h].token /\ t \in Tokens
        BY <1>1, <2>1, InsertFacts DEF Held
      <3> QED BY <1>1, <2>1, <3>1, InsertFacts DEF Held
    <2>2. ASSUME NEW h \in Handlers, Updated(h) \/ Transferred(h) PROVE Kept(t)
      <3>1. CASE t = req[h].token
        <4>1. Updated(h) => Finishable(h, "update")
          BY DEF Updated
        <4>2. req[h].kind = "update" => ~Transferred(h)
          BY DEF Transferred, Finishable
        <4> QED BY <1>1, <2>2, <3>1, <4>1, <4>2, ChangedFacts
      <3>2. CASE t # req[h].token
        BY <1>1, <2>2, <3>2, ChangedFacts DEF Held
      <3> QED BY <3>1, <3>2
    <2>3. ASSUME UNCHANGED rows PROVE Kept(t)
      BY <1>1, <2>3 DEF Held
    <2>4. ASSUME ServiceNext,
                 ~\E h \in Handlers : Insert(h) \/ Updated(h) \/ Transferred(h)
          PROVE  UNCHANGED rows
      BY <1>1, <2>4, BeginFacts
      DEF ServiceNext, Submit, Share, Fail, Visible, Tick, Mined, Reverted, CatchUp, Registered,
          RegisteredUncounted, Restart, service
    <2>5. ASSUME Others \/ UNCHANGED vars PROVE UNCHANGED rows
      BY <2>5 DEF Others, vars, service
    <2> QED BY <1>1, <2>1, <2>2, <2>3, <2>4, <2>5 DEF Next
  <1>2. TypeOK /\ JobsInv /\ [Next]_vars => [\A t \in Held : Kept(t)]_vars
    BY <1>1
  <1> QED
    BY <1>2, RegisterTypeInit, RegisterTypeNext, JobsNext, PTL DEF Spec, GrantedOnce
-----------------------------------------------------------------------------
(* The rows. *)

\* What a step of the service or of others makes of the tokens that exist.
LEMMA TokensMove ==
  ASSUME TypeOK, JobsInv, ChainInv, AsideInv, OwnInv, [Next]_vars
  PROVE  /\ \A t \in Tokens : owner[t] # Nobody /\ owner'[t] = Service =>
               owner[t] = Service /\ (Named(t) => Named(t)')
         /\ \A t \in Tokens : keysOf[t] \subseteq keysOf'[t]
  <1>0. /\ owner \in [Tokens -> Accounts \cup {Nobody}] /\ Service # Nobody
        /\ uri \in [Tokens -> Uris \cup {Empty}] /\ keysOf \in [Tokens -> SUBSET (Keys \cup {NoKey})]
    BY ChainTypes, RegisterAssumption, RegistryAssumption DEF TypeOK
  <1>1. CASE Mined
    <2> PICK tx : tx = pool[1]
      OBVIOUS
    <2>1. CASE Mint(Service, Service, Placeholder) /\ UNCHANGED keysOf
      <3>1. /\ next \in Tokens /\ owner' = [owner EXCEPT ![next] = Service]
            /\ uri' = uri \/ uri' = [uri EXCEPT ![next] = Placeholder]
        BY <2>1 DEF Mint
      <3>2. owner[next] = Nobody
        <4>1. owner[next] # Nobody <=> next < next
          BY <3>1, HereFields DEF ChainInv, Sound
        <4>2. next \in Int
          BY ChainTypes DEF TypeOK
        <4> QED BY <4>1, <4>2
      <3> QED BY <1>0, <2>1, <3>1, <3>2 DEF Named
    <2>2. CASE /\ tx.token \in Tokens
               /\ Update(Service, tx.token, [token |-> tx.token, key |-> tx.key])
               /\ keysOf' = [keysOf EXCEPT ![tx.token] = keysOf[tx.token] \cup {tx.key}]
      <3> PICK d : d = [token |-> tx.token, key |-> tx.key]
        OBVIOUS
      <3>1. owner' = owner /\ uri' = [uri EXCEPT ![tx.token] = d]
        BY <2>2 DEF Update
      <3>2. d \in Document /\ d.token = tx.token
        BY <1>1, <2>2, MinedFacts, TxFacts, PoolFields DEF Document
      <3>3. uri'[tx.token] = d /\ \A t \in Tokens : t # tx.token => uri'[t] = uri[t]
        BY <1>0, <2>2, <3>1
      <3> QED BY <1>0, <2>2, <3>1, <3>2, <3>3 DEF Named
    <2>3. CASE tx.token \in Held /\ tx.to \in NewOwners /\ Transfer(Service, tx.token, tx.to)
               /\ UNCHANGED keysOf
      <3>1. owner' = [owner EXCEPT ![tx.token] = tx.to] /\ uri' = uri /\ owner[tx.token] = Service
        BY <2>3 DEF Transfer
      <3> QED BY <1>0, <2>3, <3>1 DEF Named
    <2> QED BY <1>1, <2>1, <2>2, <2>3, MinedFacts
  <1>2. CASE Others
    <2>1. UNCHANGED keysOf
      BY <1>2 DEF Others, history
    <2> QED BY <1>2, <2>1, OthersAside DEF OwnInv, Named
  <1>3. CASE UNCHANGED <<owner, uri, keysOf>>
    BY <1>3 DEF Named
  <1>4. ASSUME ServiceNext, ~Mined PROVE UNCHANGED <<owner, uri, keysOf>>
    BY <1>4, BeginFacts, ChangedFacts
    DEF ServiceNext, Submit, Share, Fail, Visible, Tick, Reverted, CatchUp, Registered,
        RegisteredUncounted, Restart, Stopped, chain, history
  <1> QED BY <1>1, <1>2, <1>3, <1>4 DEF Next, vars, chain, history

\* The tokens of receipts exist.
LEMMA ReceiptTokens ==
  ASSUME JobsInv, OwnInv, NEW h \in Handlers, req[h] # Idle, req[h].pc = "mined",
         req[h].call # "mint"
  PROVE  req[h].token \in Tokens /\ owner[req[h].token] # Nobody
  <1>1. Job(req[h]) /\ Held \subseteq Tokens
    BY DEF JobsInv, Held
  <1>2. 0 \notin Tokens /\ Service # Nobody
    BY RegistryAssumption, RegisterAssumption DEF Tokens
  <1>3. CASE req[h].kind = "register"
    <2>1. req[h].token \in Tokens
      BY <1>1, <1>3 DEF Job
    <2> QED BY <1>2, <1>3, <2>1 DEF OwnInv, Registering
  <1>4. CASE req[h].kind # "register"
    BY <1>1, <1>4 DEF Job, OwnInv
  <1> QED BY <1>3, <1>4

LEMMA RowsKept ==
  ASSUME JobsInv, OwnInv, RowsInv, Held \subseteq Tokens,
         \A t \in Tokens : owner[t] # Nobody /\ owner'[t] = Service =>
           owner[t] = Service /\ (Named(t) => Named(t)'),
         \A t \in Tokens : keysOf[t] \subseteq keysOf'[t],
         \A h \in Handlers : req'[h] # Idle /\ req'[h].pc = "mined" =>
           req'[h] = req[h] \/ Receipt(req[h])',
         \A t \in Held' :
           \/ t \in Held /\ rows'[t] = rows[t]
           \/ /\ owner[t] # Nobody /\ t \in Tokens
              /\ owner[t] = Service => Named(t)
              /\ rows'[t].key \in keysOf[t]
  PROVE  RowsInv'
  <1>1. ASSUME NEW h \in Handlers, req'[h] # Idle, req'[h].pc = "mined", req'[h] = req[h]
        PROVE  Receipt(req[h])'
    <2>1. Receipt(req[h])
      BY <1>1 DEF RowsInv
    <2>2. req[h].call # "mint" => req[h].token \in Tokens /\ owner[req[h].token] # Nobody
      BY <1>1, ReceiptTokens
    <2> PICK t : t = req[h].token
      OBVIOUS
    <2>3. req[h].call = "update" => req[h].key \in keysOf[t] /\ (owner[t] = Service => Named(t))
      BY <2>1 DEF Receipt
    <2>4. req[h].call = "update" => req[h].key \in keysOf'[t] /\ (owner'[t] = Service => Named(t)')
      BY <2>2, <2>3
    <2> QED BY <1>1, <2>4 DEF Receipt, Named
  <1>2. ASSUME NEW t \in Held'
        PROVE  /\ owner'[t] = Service => Named(t)'
               /\ rows'[t].key \in keysOf'[t]
    <2>1. /\ owner[t] # Nobody /\ t \in Tokens
          /\ owner[t] = Service => Named(t)
          /\ rows'[t].key \in keysOf[t]
      BY <1>2 DEF RowsInv, OwnInv
    <2> QED BY <2>1
  <1> QED BY <1>1, <1>2 DEF RowsInv

LEMMA RowsNext ==
  TypeOK /\ JobsInv /\ ChainInv /\ AsideInv /\ OwnInv /\ RowsInv /\ [Next]_vars => RowsInv'
  <1> SUFFICES ASSUME TypeOK, JobsInv, ChainInv, AsideInv, OwnInv, RowsInv, [Next]_vars
               PROVE  RowsInv'
    OBVIOUS
  <1>0. Held \subseteq Tokens
    BY DEF Held
  <1>1. ASSUME \A h \in Handlers : req'[h] # Idle /\ req'[h].pc = "mined" =>
                 req'[h] = req[h] \/ Receipt(req[h])',
               \A t \in Held' :
                 \/ t \in Held /\ rows'[t] = rows[t]
                 \/ /\ owner[t] # Nobody /\ t \in Tokens
                    /\ owner[t] = Service => Named(t)
                    /\ rows'[t].key \in keysOf[t]
        PROVE  RowsInv'
    BY <1>0, <1>1, TokensMove, RowsKept
  <1>2. ASSUME UNCHANGED rows,
               \A h \in Handlers : req'[h] = req[h] \/ req'[h] = Idle \/ req'[h].pc # "mined"
        PROVE  RowsInv'
    <2>1. Held' = Held
      BY <1>2 DEF Held
    <2> QED BY <1>1, <1>2, <2>1
  <1>3. ASSUME NEW h \in Handlers,
               \/ \E n \in Names \cup {Anonymous}, k \in Keys : BeginRegister(h, n, k)
               \/ \E t \in Tokens, s \in Keys, k \in Keys \cup {NoKey} : BeginUpdate(h, t, s, k)
               \/ \E t \in Tokens, s \in Keys, to \in NewOwners : BeginTransfer(h, t, s, to)
        PROVE  RowsInv'
    <2>1. /\ req'[h].pc = "checked" /\ UNCHANGED rows
          /\ \A g \in Handlers : g # h => req'[g] = req[g]
      BY <1>3, BeginFacts
    <2> QED BY <1>2, <2>1
  <1>4. ASSUME NEW h \in Handlers, Submit(h) \/ Share(h) \/ Fail(h) \/ Visible(h) PROVE RowsInv'
    <2>1. UNCHANGED rows
      BY <1>4 DEF Submit, Share, Fail, Visible
    <2>2. Leaves(h) \/ \E call : \/ Moves(h, "sent", call, req[h].token)
                                \/ Moves(h, "checked", call, req[h].token)
      BY <1>4, SubmitFacts, ShareFacts, FailFacts, VisibleFacts
    <2> QED BY <1>2, <2>1, <2>2 DEF Moves, Leaves, Leave
  <1>5. CASE Mined
    <2> PICK tx : tx = pool[1]
      OBVIOUS
    <2>0. /\ UNCHANGED rows /\ Held' = Held
          /\ Answered(tx, IF tx.call = "mint" THEN next ELSE tx.token)
      BY <1>5, MinedFacts DEF Held
    <2>1. ASSUME \A h \in tx.waiters : Receipt(req[h])' PROVE RowsInv'
      BY <1>1, <2>0, <2>1 DEF Answered
    <2>2. \A h \in tx.waiters :
            /\ req'[h].call = tx.call
            /\ tx.call # "mint" => req'[h].token = tx.token /\ req'[h].key = tx.key
      BY <2>0 DEF Answered, Awaits
    <2>3. CASE tx.call # "update"
      BY <2>1, <2>2, <2>3 DEF Receipt
    <2>4. CASE /\ tx.call = "update" /\ tx.token \in Tokens
               /\ Update(Service, tx.token, [token |-> tx.token, key |-> tx.key])
               /\ keysOf' = [keysOf EXCEPT ![tx.token] = keysOf[tx.token] \cup {tx.key}]
      <3> PICK d : d = [token |-> tx.token, key |-> tx.key]
        OBVIOUS
      <3>1. uri' = [uri EXCEPT ![tx.token] = d] /\ uri \in [Tokens -> Uris \cup {Empty}]
        BY <2>4, ChainTypes DEF Update, TypeOK
      <3>2. d \in Document /\ d.token = tx.token
        BY <1>5, <2>4, MinedFacts, TxFacts, PoolFields DEF Document
      <3>3. uri'[tx.token] = d
        BY <2>4, <3>1
      <3>4. tx.key \in keysOf'[tx.token]
        BY <2>4 DEF TypeOK
      <3>5. \A h \in tx.waiters : Receipt(req[h])'
        BY <2>2, <2>4, <3>2, <3>3, <3>4 DEF Receipt, Named
      <3> QED BY <2>1, <3>5
    <2> QED BY <1>5, <2>3, <2>4, MinedFacts
  <1>6. CASE Reverted
    BY <1>2, <1>6, RevertedFacts DEF Leave
  <1>7. ASSUME NEW h \in Handlers, Insert(h),
               \A g \in Handlers : req'[g] = req[g] \/ req'[g] = Idle
        PROVE  RowsInv'
    <2> PICK t : t = req[h].token
      OBVIOUS
    <2>1. /\ Registering(h) /\ req[h].pc = "mined" /\ req[h].call = "update" /\ t \in Tokens
          /\ rows'[t].key = req[h].key /\ rows'[t].custodial = TRUE
          /\ \A u \in Tokens : u # t => rows'[u] = rows[u]
          /\ Held' = Held \cup {t}
      BY <1>7, InsertFacts
    <2>2. /\ owner[t] # Nobody /\ (owner[t] = Service => Named(t)) /\ req[h].key \in keysOf[t]
      <3>1. Receipt(req[h]) /\ req[h] # Idle
        BY <2>1 DEF RowsInv, Registering
      <3> QED BY <2>1, <3>1, ReceiptTokens DEF Receipt
    <2> QED BY <1>0, <1>1, <1>7, <2>1, <2>2
  <1>8. CASE \E h \in Handlers : Registered(h) \/ RegisteredUncounted(h)
    BY <1>7, <1>8, StoppedFacts DEF Registered, RegisteredUncounted, TypeOK
  <1>9. CASE Restart
    BY <1>2, <1>9, StoppedFacts DEF Restart
  <1>10. ASSUME NEW h \in Handlers, Updated(h) \/ Transferred(h) PROVE RowsInv'
    <2> PICK t : t = req[h].token
      OBVIOUS
    <2>1. /\ req[h] \in Request /\ req[h].pc = "mined" /\ t \in Held /\ req[h].call = req[h].kind
          /\ Held' = Held /\ \A u \in Tokens : u # t => rows'[u] = rows[u]
          /\ Leaves(h)
          /\ \/ /\ req[h].kind = "update" /\ rows'[t].custodial = rows[t].custodial
                /\ rows'[t].key = rows[t].key \/ rows'[t].key = req[h].key
             \/ /\ req[h].kind = "transfer" /\ rows'[t].key = rows[t].key
      BY <1>10, ChangedFacts
    <2>2. Receipt(req[h])
      BY <2>1, RowFacts DEF RowsInv
    <2>3. /\ owner[t] # Nobody /\ (owner[t] = Service => Named(t)) /\ rows'[t].key \in keysOf[t]
      BY <2>1, <2>2 DEF RowsInv, OwnInv, Receipt
    <2> QED BY <1>0, <1>1, <2>1, <2>3 DEF Leaves, Leave
  <1>11. CASE Tick \/ (\E b \in Backends : CatchUp(b)) \/ Others \/ UNCHANGED vars
    BY <1>2, <1>11 DEF Tick, CatchUp, Others, vars, service
  <1> QED
    BY <1>3, <1>4, <1>5, <1>6, <1>8, <1>9, <1>10, <1>11 DEF Next, ServiceNext

\* What keeps the rows and the transfers together.
LEMMA CustodyKept ==
  ASSUME CustodyInv, handed' = handed, Held \subseteq Held', gaveUp \subseteq gaveUp',
         \A h \in Handlers :
           req'[h] # Idle /\ req'[h].pc = "mined" /\ req'[h].call = "transfer" => req'[h] = req[h],
         \A i \in 1..Len(pool') :
           pool'[i].call = "transfer" /\ pool'[i].waiters = {} => pool'[i].token \in gaveUp',
         \A t \in Held' :
           \/ ~rows'[t].custodial /\ t \in handed
           \/ t \notin handed /\ rows'[t].custodial
           \/ /\ t \in Held /\ rows'[t].custodial = rows[t].custodial
              /\ Transferring(t) => Transferring(t)' \/ t \in gaveUp'
  PROVE  CustodyInv'
  <1>1. ASSUME NEW t \in Held'
        PROVE  /\ ~rows'[t].custodial => t \in handed'
               /\ rows'[t].custodial /\ t \in handed' => Transferring(t)' \/ t \in gaveUp'
    BY <1>1 DEF CustodyInv
  <1>2. \A h \in Handlers : req'[h] # Idle /\ req'[h].pc = "mined" /\ req'[h].call = "transfer" =>
          req'[h].token \in handed'
    BY DEF CustodyInv
  <1>3. handed' \subseteq Held'
    BY DEF CustodyInv
  <1> QED BY <1>1, <1>2, <1>3 DEF CustodyInv

LEMMA CustodyNext == TypeOK /\ JobsInv /\ CustodyInv /\ [Next]_vars => CustodyInv'
  <1> SUFFICES ASSUME TypeOK, JobsInv, CustodyInv, [Next]_vars PROVE CustodyInv'
    OBVIOUS
  <1>0. \A i \in 1..Len(pool) : pool[i].call = "transfer" /\ pool[i].waiters = {} =>
                                  pool[i].token \in gaveUp
    BY DEF CustodyInv
  \* Nothing about custody happens.
  <1>1. ASSUME UNCHANGED <<handed, rows, gaveUp>>,
               \A h \in Handlers :
                 \/ req'[h] = req[h]
                 \/ /\ ~(req'[h] # Idle /\ req'[h].pc = "mined" /\ req'[h].call = "transfer")
                    /\ ~(req[h] # Idle /\ req[h].pc = "mined" /\ req[h].call = "transfer"),
               \A i \in 1..Len(pool') :
                 pool'[i].call = "transfer" /\ pool'[i].waiters = {} => pool'[i].token \in gaveUp'
        PROVE  CustodyInv'
    <2>1. Held' = Held /\ \A t : Transferring(t) => Transferring(t)'
      BY <1>1 DEF Held, Transferring
    <2> QED BY <1>1, <2>1, CustodyKept
  <1>2. ASSUME NEW h \in Handlers,
               \/ \E n \in Names \cup {Anonymous}, k \in Keys : BeginRegister(h, n, k)
               \/ \E t \in Tokens, s \in Keys, k \in Keys \cup {NoKey} : BeginUpdate(h, t, s, k)
               \/ \E t \in Tokens, s \in Keys, to \in NewOwners : BeginTransfer(h, t, s, to)
        PROVE  CustodyInv'
    <2>1. /\ req[h] = Idle /\ req'[h].pc = "checked" /\ UNCHANGED <<handed, rows, gaveUp, pool>>
          /\ \A g \in Handlers : g # h => req'[g] = req[g]
      BY <1>2, BeginFacts
    <2> QED BY <1>0, <1>1, <2>1
  <1>3. ASSUME NEW h \in Handlers, Submit(h) PROVE CustodyInv'
    <2>1. PICK tx \in Tx :
            /\ Moves(h, "sent", req[h].call, req[h].token)
            /\ req[h].pc = "checked" /\ pool' = Append(pool, tx) /\ tx.waiters = {h}
            /\ UNCHANGED <<rows, handed, gaveUp>>
      BY <1>3, SubmitFacts DEF history
    <2>2. /\ Len(pool') = Len(pool) + 1 /\ pool'[Len(pool) + 1] = tx /\ Len(pool) \in Nat
          /\ \A i \in 1..Len(pool) : pool'[i] = pool[i]
      BY <2>1 DEF TypeOK
    <2>3. \A i \in 1..Len(pool') : i \in 1..Len(pool) \/ pool'[i].waiters # {}
      BY <2>1, <2>2
    <2> QED BY <1>0, <1>1, <2>1, <2>2, <2>3 DEF Moves
  <1>4. ASSUME NEW h \in Handlers, Share(h) PROVE CustodyInv'
    <2>1. /\ Moves(h, "sent", req[h].call, req[h].token) /\ req[h].pc = "checked"
          /\ UNCHANGED <<rows, handed, gaveUp>> /\ Len(pool') = Len(pool)
          /\ \A i \in 1..Len(pool) :
               /\ pool'[i].call = pool[i].call /\ pool'[i].token = pool[i].token
               /\ pool[i].waiters \subseteq pool'[i].waiters
      BY <1>4, ShareFacts DEF history
    <2>2. \A i \in 1..Len(pool') :
            pool'[i].call = "transfer" /\ pool'[i].waiters = {} => pool'[i].token \in gaveUp'
      BY <1>0, <2>1
    <2> QED BY <1>1, <2>1, <2>2 DEF Moves
  <1>5. ASSUME NEW h \in Handlers, Visible(h) PROVE CustodyInv'
    <2>1. /\ Moves(h, "checked", "update", req[h].token) /\ req[h].call = "mint"
          /\ UNCHANGED <<rows, handed, gaveUp, pool>>
      BY <1>5, VisibleFacts DEF history
    <2> QED BY <1>0, <1>1, <2>1 DEF Moves
  \* Requests give up, of which none has inserted a row for a token handed over.
  <1>6. ASSUME NEW S \in SUBSET Handlers, GiveUp(S), UNCHANGED handed, Held \subseteq Held',
               \A t \in Held : rows'[t].custodial = rows[t].custodial,
               \A t \in Held' : t \notin Held => rows'[t].custodial = TRUE
        PROVE  CustodyInv'
    <2>1. /\ Leave(S) /\ PoolMoves(0) /\ Len(pool') = Len(pool)
          /\ \A i \in 1..Len(pool) : pool'[i].waiters = pool[i].waiters \ S
          /\ gaveUp \subseteq gaveUp'
          /\ \A h \in S : req[h] # Idle /\ req[h].call = "transfer" /\ req[h].pc \in {"sent", "mined"} =>
               req[h].token \in gaveUp'
      BY <1>6, GiveUpFacts
    <2>2. ASSUME NEW i \in 1..Len(pool'), pool'[i].call = "transfer", pool'[i].waiters = {}
          PROVE  pool'[i].token \in gaveUp'
      <3>1. /\ i \in 1..Len(pool) /\ pool[i].call = "transfer" /\ pool'[i].token = pool[i].token
            /\ pool[i].waiters \subseteq S
        <4>1. i \in 1..Len(pool) /\ i + 0 = i
          BY <2>1
        <4> QED BY <2>1, <2>2, <4>1 DEF PoolMoves
      <3>2. CASE pool[i].waiters = {}
        BY <1>0, <2>1, <3>1, <3>2
      <3>3. ASSUME NEW h \in pool[i].waiters PROVE pool[i].token \in gaveUp'
        <4>1. Awaits(req[h], pool[i]) /\ h \in S
          BY <3>1 DEF JobsInv
        <4> QED BY <2>1, <3>1, <4>1 DEF Awaits
      <3> QED BY <3>1, <3>2, <3>3
    <2>3. ASSUME NEW t, Transferring(t) PROVE Transferring(t)' \/ t \in gaveUp'
      BY <2>1, <2>3 DEF Transferring, Leave
    <2>4. \A h \in Handlers : req'[h] # Idle => req'[h] = req[h]
      BY <2>1 DEF Leave
    <2>5. \A t \in Held' : t \notin Held => t \notin handed /\ rows'[t].custodial
      BY <1>6 DEF CustodyInv
    <2> QED BY <1>6, <2>1, <2>2, <2>3, <2>4, <2>5, CustodyKept
  <1>7. ASSUME NEW h \in Handlers, Fail(h) PROVE CustodyInv'
    <2>1. GiveUp({h}) /\ UNCHANGED <<handed, rows>>
      BY <1>7, FailFacts
    <2> QED BY <1>6, <2>1 DEF Held
  <1>8. CASE Restart
    <2>1. GiveUp(Handlers) /\ UNCHANGED <<handed, rows>>
      BY <1>8, StoppedFacts DEF Restart
    <2> QED BY <1>6, <2>1 DEF Held
  <1>9. ASSUME NEW h \in Handlers, Insert(h)
        PROVE  /\ Held \subseteq Held' /\ \A t \in Held : rows'[t].custodial = rows[t].custodial
               /\ \A t \in Held' : t \notin Held => rows'[t].custodial = TRUE
               /\ req[h].call # "transfer"
    BY <1>9, InsertFacts DEF Held
  <1>10. ASSUME NEW h \in Handlers, RegisteredUncounted(h) PROVE CustodyInv'
    <2>1. GiveUp(Handlers) /\ UNCHANGED handed /\ Insert(h)
      BY <1>10, StoppedFacts DEF RegisteredUncounted
    <2> QED BY <1>6, <1>9, <2>1
  <1>11. ASSUME NEW h \in Handlers, Registered(h) PROVE CustodyInv'
    <2>1. Insert(h) /\ Leaves(h) /\ UNCHANGED <<pool, handed, gaveUp>>
      BY <1>11 DEF Registered, Leaves, Leave, TypeOK, history
    <2>2. \A t : Transferring(t) => Transferring(t)'
      BY <1>9, <2>1 DEF Transferring, Leaves, Leave
    <2>3. \A t \in Held' : t \notin Held => t \notin handed /\ rows'[t].custodial
      BY <1>9, <2>1 DEF CustodyInv
    <2>4. \A g \in Handlers : req'[g] # Idle => req'[g] = req[g]
      BY <2>1 DEF Leaves, Leave
    <2> QED BY <1>0, <1>9, <2>1, <2>2, <2>3, <2>4, CustodyKept
  <1>12. ASSUME NEW h \in Handlers, Updated(h) \/ Transferred(h) PROVE CustodyInv'
    <2> PICK u : u = req[h].token
      OBVIOUS
    <2>1. /\ req[h] \in Request /\ req[h].pc = "mined" /\ u \in Held /\ req[h].call = req[h].kind
          /\ Held' = Held /\ \A t \in Tokens : t # u => rows'[t] = rows[t]
          /\ Leaves(h) /\ UNCHANGED <<pool, handed, gaveUp>>
          /\ \/ req[h].kind = "update" /\ rows'[u].custodial = rows[u].custodial
             \/ req[h].kind = "transfer" /\ rows'[u].custodial = FALSE
      BY <1>12, ChangedFacts DEF history
    <2>2. \A g \in Handlers : req'[g] # Idle => req'[g] = req[g]
      BY <2>1 DEF Leaves, Leave
    <2>3. req[h].kind = "transfer" => u \in handed
      BY <2>1, RowFacts DEF CustodyInv
    <2>4. ASSUME NEW t \in Held, ~(t = u /\ req[h].kind = "transfer")
          PROVE  /\ rows'[t].custodial = rows[t].custodial
                 /\ Transferring(t) => Transferring(t)'
      <3>1. rows'[t].custodial = rows[t].custodial
        BY <2>1, <2>4 DEF Held
      <3>2. Transferring(t) => Transferring(t)'
        BY <2>1, <2>4 DEF Transferring, Leaves, Leave
      <3> QED BY <3>1, <3>2
    <2>5. \A t \in Held' :
           \/ ~rows'[t].custodial /\ t \in handed
           \/ /\ t \in Held /\ rows'[t].custodial = rows[t].custodial
              /\ Transferring(t) => Transferring(t)'
      BY <2>1, <2>3, <2>4
    <2> QED BY <1>0, <2>1, <2>2, <2>5, CustodyKept
  <1>13. CASE Mined
    <2> PICK tx : tx = pool[1]
      OBVIOUS
    <2>1. /\ pool # <<>> /\ pool' = Tail(pool) /\ UNCHANGED <<rows, gaveUp>> /\ Held' = Held
          /\ Answered(tx, IF tx.call = "mint" THEN next ELSE tx.token)
          /\ \/ tx.call # "transfer" /\ UNCHANGED handed
             \/ tx.call = "transfer" /\ tx.token \in Held /\ handed' = handed \cup {tx.token}
      BY <1>13, MinedFacts DEF Held
    <2>2. /\ \A i \in 1..Len(pool') :
               pool'[i].call = "transfer" /\ pool'[i].waiters = {} => pool'[i].token \in gaveUp'
          /\ 1 \in 1..Len(pool)
      <3>1. /\ \A i \in 1..Len(pool') : i + 1 \in 1..Len(pool) /\ pool'[i] = pool[i + 1]
            /\ 1 \in 1..Len(pool)
        <4>1. pool \in Seq(Tx) /\ \A i \in 1..Len(pool') : i + 1 \in 1..Len(pool)
          BY <2>1, PoolTail DEF TypeOK
        <4>2. \A i \in 1..Len(pool') : pool'[i] = pool[i + 1]
          BY <2>1, <4>1
        <4> QED BY <2>1, <4>1, <4>2, PoolTail
      <3> QED BY <1>0, <2>1, <3>1
    <2>3. CASE tx.call # "transfer"
      <3>1. ASSUME NEW h \in Handlers
            PROVE  \/ req'[h] = req[h]
                   \/ /\ ~(req'[h] # Idle /\ req'[h].pc = "mined" /\ req'[h].call = "transfer")
                      /\ ~(req[h] # Idle /\ req[h].pc = "mined" /\ req[h].call = "transfer")
        BY <2>1, <2>3 DEF Answered, Awaits
      <3> QED BY <1>1, <2>1, <2>2, <2>3, <3>1
    <2>4. CASE tx.call = "transfer"
      <3>1. \A h \in Handlers : req'[h] # Idle /\ req'[h].pc = "mined" /\ req'[h].call = "transfer" =>
              req'[h].token \in handed'
        BY <2>1, <2>4 DEF Answered, CustodyInv
      <3>2. Transferring(tx.token)' \/ tx.token \in gaveUp'
        <4>1. CASE tx.waiters = {}
          BY <1>0, <2>1, <2>2, <2>4, <4>1
        <4>2. ASSUME NEW h \in tx.waiters PROVE Transferring(tx.token)'
          <5>1. /\ h \in Handlers /\ req'[h] \in Request /\ req'[h].call = "transfer"
                /\ req'[h].pc = "mined" /\ req'[h].token = tx.token
            BY <2>1, <2>4 DEF Answered
          <5> QED BY <5>1, RowFacts DEF Transferring
        <4> QED BY <4>1, <4>2
      <3>3. \A t : Transferring(t) => Transferring(t)'
        BY <2>1 DEF Transferring, Answered, Awaits
      <3>4. handed' \subseteq Held'
        BY <2>1 DEF CustodyInv
      <3>5. ASSUME NEW t \in Held'
            PROVE  /\ ~rows'[t].custodial => t \in handed'
                   /\ rows'[t].custodial /\ t \in handed' => Transferring(t)' \/ t \in gaveUp'
        BY <2>1, <3>2, <3>3 DEF CustodyInv
      <3> QED BY <2>2, <3>1, <3>4, <3>5 DEF CustodyInv
    <2> QED BY <2>3, <2>4
  <1>14. CASE Reverted
    <2>1. /\ pool # <<>> /\ pool' = Tail(pool) /\ UNCHANGED <<rows, gaveUp, handed>>
          /\ Leave(pool[1].waiters) /\ \A h \in pool[1].waiters : Awaits(req[h], pool[1])
      BY <1>14, RevertedFacts DEF history
    <2>2. \A i \in 1..Len(pool') :
            pool'[i].call = "transfer" /\ pool'[i].waiters = {} => pool'[i].token \in gaveUp'
      <3>1. pool \in Seq(Tx) /\ \A i \in 1..Len(pool') : i + 1 \in 1..Len(pool)
        BY <2>1, PoolTail DEF TypeOK
      <3>2. \A i \in 1..Len(pool') : pool'[i] = pool[i + 1]
        BY <2>1, <3>1
      <3> QED BY <1>0, <2>1, <3>1, <3>2
    <2> QED BY <1>1, <2>1, <2>2 DEF Leave, Awaits
  <1>15. CASE Tick \/ (\E b \in Backends : CatchUp(b)) \/ Others \/ UNCHANGED vars
    <2>1. UNCHANGED <<rows, req, pool, handed, gaveUp>>
      BY <1>15 DEF Tick, CatchUp, Others, vars, service, history
    <2> QED BY <1>0, <1>1, <2>1
  <1> QED
    BY <1>2, <1>3, <1>4, <1>5, <1>7, <1>8, <1>10, <1>11, <1>12, <1>13, <1>14, <1>15
    DEF Next, ServiceNext

LEMMA RegisterInvInit == Init => ChainInv /\ AsideInv /\ OwnInv /\ RowsInv /\ CustodyInv
  <1>1. Init => ChainInv
    BY ChainInvInit DEF Init
  <1>2. Init => AsideInv /\ OwnInv /\ RowsInv /\ CustodyInv
    BY DEF Init, ChainInit, AsideInv, OwnInv, Registering, Held, RowsInv, CustodyInv
  <1> QED BY <1>1, <1>2

LEMMA RegisterChainNext == TypeOK /\ JobsInv /\ ChainInv /\ [Next]_vars => ChainInv'
  BY ChainMoves, ChainInvNext DEF TypeOK

LEMMA RowsAlways == Spec => []RowsInv
  BY RegisterInvInit, RegisterChainNext, RegisterTypeInit, RegisterTypeNext, JobsNext, OwnNext,
     RowsNext, PTL DEF Spec

\* What the service holds with a row names its own token and is no placeholder.
THEOREM RowsAreDocumented == Spec => []RowsDocumented
  <1>1. RowsInv => RowsDocumented
    BY DEF RowsInv, RowsDocumented, Named
  <1> QED BY <1>1, RowsAlways, PTL

\* The key in a row is one the token's documents have named.
THEOREM RowKeysWerePublished == Spec => []KeysWerePublished
  <1>1. RowsInv => KeysWerePublished
    BY DEF RowsInv, KeysWerePublished
  <1> QED BY <1>1, RowsAlways, PTL

\* A row says transferred only after a transfer of its token was mined, and lags behind
\* one only while its receipt is under way, or when its request has given up or was cut
\* off.
THEOREM CustodyIsRecorded == Spec => []CustodyRecorded
  <1>1. TypeOK /\ CustodyInv => CustodyRecorded
    BY DEF CustodyInv, CustodyRecorded
  <1>2. Spec => []TypeOK /\ []CustodyInv
    BY RegisterInvInit, RegisterTypeInit, RegisterTypeNext, JobsNext, CustodyNext, PTL DEF Spec
  <1> QED BY <1>1, <1>2, PTL

-----------------------------------------------------------------------------
(* The daily cap. *)

LEMMA CapInit == Init => CapInv
  <1> SUFFICES ASSUME Init PROVE CapInv
    OBVIOUS
  <1> USE RegisterAssumption
  <1>1. now = 0 /\ now \in 0..MaxTime
    BY DEF Init
  <1>2. Today \in Days
    BY <1>1, Divided DEF Today, Days
  <1>3. \A d \in Days : counts[d] = 0 /\ RegisteredOn(d) = {}
    BY DEF Init, RegisteredOn, Held
  <1>4. Inside = {}
    BY DEF Init, Inside
  <1>5. Cardinality({}) = 0 /\ Cardinality(Handlers) \in Nat /\ stops = 0
    BY FS_EmptySet, FS_CardinalityType DEF Init
  <1>6. PerDay \in Nat \ {0} /\ 0 <= PerDay + (Cardinality(Handlers) - 1)
    BY <1>5
  <1>7. /\ counts[Today] = 0
        /\ \A d \in Days : counts[d] = 0 /\ Cardinality(RegisteredOn(d)) = 0
    BY <1>2, <1>3, <1>5
  <1>8. counts[Today] + Cardinality(Inside) = 0
    BY <1>4, <1>5, <1>7
  <1> QED BY <1>1, <1>5, <1>6, <1>7, <1>8 DEF CapInv

LEMMA CapFacts ==
  ASSUME TypeOK, CapInv
  PROVE  /\ Today \in Days /\ now \in Nat /\ counts \in [Days -> Nat] /\ stops \in Nat
         /\ PerDay \in Nat \ {0} /\ Cardinality(Handlers) \in Nat
         /\ Inside \subseteq Handlers /\ IsFiniteSet(Inside)
         /\ Cardinality(Inside) \in Nat /\ Cardinality(Inside) <= Cardinality(Handlers)
         /\ \A d \in Days : IsFiniteSet(RegisteredOn(d)) /\ Cardinality(RegisteredOn(d)) \in Nat
  <1> USE RegisterAssumption
  <1>1. now \in Nat /\ now <= MaxTime /\ now \in 0..MaxTime
    BY DEF CapInv
  <1>2. Today \in Days
    BY <1>1, Divided DEF Today, Days
  <1>3. Inside \subseteq Handlers
    BY DEF Inside
  <1>4. /\ IsFiniteSet(Inside) /\ Cardinality(Inside) <= Cardinality(Handlers)
    BY <1>3, FS_Subset
  <1>5. Cardinality(Inside) \in Nat /\ Cardinality(Handlers) \in Nat
    BY <1>4, FS_CardinalityType
  <1>6. IsFiniteSet(Tokens)
    <2>1. 1 \in Int /\ MaxTokens \in Int
      BY RegistryAssumption
    <2> QED BY <2>1, FS_Interval DEF Tokens
  <1>7. ASSUME NEW d \in Days
        PROVE  IsFiniteSet(RegisteredOn(d)) /\ Cardinality(RegisteredOn(d)) \in Nat
    <2>1. RegisteredOn(d) \subseteq Tokens
      BY DEF RegisteredOn, Held
    <2>2. IsFiniteSet(RegisteredOn(d))
      BY <1>6, <2>1, FS_Subset
    <2> QED BY <2>2, FS_CardinalityType
  <1> QED BY <1>1, <1>2, <1>3, <1>4, <1>5, <1>7 DEF TypeOK

\* Nothing is registered, and no more requests are inside.
LEMMA CapKept ==
  ASSUME TypeOK, CapInv, UNCHANGED <<now, counts, stops>>,
         Held' = Held, \A t \in Held : rows'[t].created = rows[t].created,
         Inside' \subseteq Inside
  PROVE  CapInv'
  <1>1. \A d \in Days : RegisteredOn(d)' = RegisteredOn(d)
    BY DEF RegisteredOn
  <1>2. Cardinality(Inside') <= Cardinality(Inside) /\ Cardinality(Inside') \in Nat
    <2>1. IsFiniteSet(Inside)
      BY CapFacts
    <2>2. IsFiniteSet(Inside') /\ Cardinality(Inside') <= Cardinality(Inside)
      BY <2>1, FS_Subset
    <2> QED BY <2>2, FS_CardinalityType
  <1>3. Today' = Today
    BY DEF Today
  <1>4. counts[Today] \in Nat /\ PerDay \in Nat /\ Cardinality(Handlers) \in Nat
        /\ Cardinality(Inside) \in Nat
    BY CapFacts
  <1>5. counts'[Today'] + Cardinality(Inside') <= PerDay + (Cardinality(Handlers) - 1)
    BY <1>2, <1>3, <1>4 DEF CapInv
  <1> QED BY <1>1, <1>3, <1>5 DEF CapInv

\* A row is inserted today, and its request is no longer inside.
LEMMA CapInsert ==
  ASSUME TypeOK, JobsInv, CapInv, NEW h \in Handlers, Insert(h), NEW td, td = Today
  PROVE  /\ h \in Inside
         /\ \A d \in Days : d # td => RegisteredOn(d)' = RegisteredOn(d)
         /\ Cardinality(RegisteredOn(td)') = Cardinality(RegisteredOn(td)) + 1
  <1> PICK t : t = req[h].token
    OBVIOUS
  <1>1. /\ Registering(h) /\ t \in Tokens /\ rows'[t].created = now
        /\ \A u \in Tokens : u # t => rows'[u] = rows[u]
        /\ Held' = Held \cup {t}
    BY InsertFacts
  <1>2. h \in Inside /\ t \notin Held
    BY <1>1, InsertFacts DEF Inside, Registering
  <1>3. \A u \in Held : rows'[u] = rows[u]
    BY <1>1, <1>2 DEF Held
  <1>4. ASSUME NEW d PROVE RegisteredOn(d)' = RegisteredOn(d) \cup {u \in {t} : Today = d}
    BY <1>1, <1>3 DEF RegisteredOn, Today
  <1>5. \A d \in Days : d # td => RegisteredOn(d)' = RegisteredOn(d)
    BY <1>4
  <1>6. RegisteredOn(td)' = RegisteredOn(td) \cup {t} /\ t \notin RegisteredOn(td)
    BY <1>2, <1>4 DEF RegisteredOn
  <1>7. IsFiniteSet(RegisteredOn(td))
    BY CapFacts
  <1>8. Cardinality(RegisteredOn(td) \cup {t}) = Cardinality(RegisteredOn(td)) + 1
    BY <1>6, <1>7, FS_AddElement
  <1> QED BY <1>2, <1>5, <1>6, <1>8

\* The cap holds after a step that counts, or loses a count, for the row it inserts.
LEMMA CapCounted ==
  ASSUME TypeOK, JobsInv, CapInv, NEW h \in Handlers, Insert(h), UNCHANGED now,
         Inside' \subseteq Inside \ {h},
         \/ counts' = [counts EXCEPT ![Today] = counts[Today] + 1] /\ UNCHANGED stops
         \/ UNCHANGED counts /\ stops' = stops + 1
  PROVE  CapInv'
  <1> PICK td : td = Today
    OBVIOUS
  <1> PICK H : H = Cardinality(Handlers)
    OBVIOUS
  <1>0. /\ td \in Days /\ counts \in [Days -> Nat] /\ stops \in Nat /\ PerDay \in Nat
        /\ H \in Nat /\ IsFiniteSet(Inside) /\ Cardinality(Inside) \in Nat
        /\ \A d \in Days : Cardinality(RegisteredOn(d)) \in Nat
    BY CapFacts
  <1>1. Today' = td
    BY DEF Today
  <1>2. /\ h \in Inside
        /\ \A d \in Days : d # td => RegisteredOn(d)' = RegisteredOn(d)
        /\ Cardinality(RegisteredOn(td)') = Cardinality(RegisteredOn(td)) + 1
    BY CapInsert
  <1>3. /\ Cardinality(Inside') \in Nat /\ Cardinality(Inside') + 1 <= Cardinality(Inside)
    <2>1. IsFiniteSet(Inside \ {h}) /\ Cardinality(Inside \ {h}) = Cardinality(Inside) - 1
      BY <1>0, <1>2, FS_RemoveElement
    <2>2. IsFiniteSet(Inside') /\ Cardinality(Inside') <= Cardinality(Inside \ {h})
      BY <2>1, FS_Subset
    <2>3. Cardinality(Inside') \in Nat
      BY <2>2, FS_CardinalityType
    <2> QED BY <1>0, <2>1, <2>2, <2>3
  <1>4. /\ counts[td] + Cardinality(Inside) <= PerDay + (H - 1)
        /\ \A d \in Days : /\ d > td => counts[d] = 0
                           /\ counts[d] <= PerDay + (H - 1)
                           /\ Cardinality(RegisteredOn(d)) <= counts[d] + stops
    BY DEF CapInv
  <1>5. \/ counts' = [counts EXCEPT ![td] = counts[td] + 1] /\ UNCHANGED stops
        \/ UNCHANGED counts /\ stops' = stops + 1
    OBVIOUS
  <1>6. /\ counts'[td] + stops' = counts[td] + stops + 1
        /\ counts'[td] \in Nat /\ counts'[td] <= counts[td] + 1
        /\ stops' \in Nat /\ stops' >= stops
        /\ \A d \in Days : d # td => counts'[d] = counts[d]
    BY <1>0, <1>5
  <1>7. counts'[td] + Cardinality(Inside') <= PerDay + (H - 1)
    BY <1>0, <1>3, <1>4, <1>6
  <1>8. ASSUME NEW d \in Days
        PROVE  /\ d > td => counts'[d] = 0
               /\ counts'[d] <= PerDay + (H - 1)
               /\ Cardinality(RegisteredOn(d)') <= counts'[d] + stops'
    <2>1. CASE d = td
      <3>1. ~(d > td)
        BY <2>1 DEF Days
      <3>2. Cardinality(RegisteredOn(d)') = Cardinality(RegisteredOn(td)) + 1
        BY <1>2, <2>1
      <3>3. Cardinality(RegisteredOn(d)') <= counts'[d] + stops'
        BY <1>0, <1>4, <1>6, <2>1, <3>2
      <3>4. counts'[d] <= PerDay + (H - 1)
        BY <1>0, <1>3, <1>6, <1>7, <2>1
      <3> QED BY <3>1, <3>3, <3>4
    <2>2. CASE d # td
      <3>1. counts'[d] = counts[d] /\ RegisteredOn(d)' = RegisteredOn(d)
        BY <1>2, <1>6, <2>2
      <3> QED BY <1>0, <1>4, <1>6, <3>1
    <2> QED BY <2>1, <2>2
  <1>9. now' \in 0..MaxTime
    BY DEF CapInv
  <1> QED BY <1>1, <1>7, <1>8, <1>9 DEF CapInv

LEMMA CapNext == TypeOK /\ JobsInv /\ CapInv /\ [Next]_vars => CapInv'
  <1> SUFFICES ASSUME TypeOK, JobsInv, CapInv, [Next]_vars PROVE CapInv'
    OBVIOUS
  <1>1. ASSUME UNCHANGED <<now, counts, stops>>, UNCHANGED rows,
               \A g \in Handlers : req'[g] = Idle \/ (req'[g].kind = req[g].kind /\ req[g] # Idle)
        PROVE  CapInv'
    <2>1. Inside' \subseteq Inside
      BY <1>1 DEF Inside
    <2> QED BY <1>1, <2>1, CapKept DEF Held
  <1>2. ASSUME NEW h \in Handlers,
               \/ \E n \in Names \cup {Anonymous}, k \in Keys : BeginRegister(h, n, k)
               \/ \E t \in Tokens, s \in Keys, k \in Keys \cup {NoKey} : BeginUpdate(h, t, s, k)
               \/ \E t \in Tokens, s \in Keys, to \in NewOwners : BeginTransfer(h, t, s, to)
        PROVE  CapInv'
    <2>1. /\ req[h] = Idle /\ req'[h] \in Request
          /\ req'[h].kind = "register" => CountToday < PerDay
          /\ \A g \in Handlers : g # h => req'[g] = req[g]
          /\ UNCHANGED <<now, rows, counts, stops>>
      BY <1>2, BeginFacts
    <2>2. CASE req'[h].kind # "register"
      <3>1. Inside' \subseteq Inside
        BY <2>1, <2>2 DEF Inside
      <3> QED BY <2>1, <3>1, CapKept DEF Held
    <2>3. CASE req'[h].kind = "register"
      <3> PICK td : td = Today
        OBVIOUS
      <3>1. counts[td] < PerDay /\ Today' = td
        BY <2>1, <2>3 DEF CountToday, Today
      <3>2. /\ td \in Days /\ counts \in [Days -> Nat] /\ PerDay \in Nat
            /\ Cardinality(Handlers) \in Nat
        BY CapFacts
      <3>3. Cardinality(Inside') \in Nat /\ Cardinality(Inside') <= Cardinality(Handlers)
        <4>1. Inside' \subseteq Handlers
          BY DEF Inside
        <4>2. IsFiniteSet(Inside') /\ Cardinality(Inside') <= Cardinality(Handlers)
          BY <4>1, FS_Subset, RegisterAssumption
        <4> QED BY <4>2, FS_CardinalityType
      <3>4. counts'[td] + Cardinality(Inside') <= PerDay + (Cardinality(Handlers) - 1)
        <4>1. counts[td] \in Nat /\ counts'[td] = counts[td]
          BY <2>1, <3>2
        <4> QED BY <3>1, <3>2, <3>3, <4>1
      <3>5. \A d \in Days : RegisteredOn(d)' = RegisteredOn(d)
        BY <2>1 DEF RegisteredOn, Held
      <3> QED BY <2>1, <3>1, <3>4, <3>5 DEF CapInv
    <2> QED BY <2>2, <2>3
  <1>3. ASSUME NEW h \in Handlers, Submit(h) \/ Share(h) \/ Fail(h) \/ Visible(h) PROVE CapInv'
    <2>1. UNCHANGED <<now, counts, stops>> /\ UNCHANGED rows
      BY <1>3 DEF Submit, Share, Fail, Visible, history
    <2>2. (\E step, call, t : Moves(h, step, call, t)) \/ Leaves(h)
      BY <1>3, SubmitFacts, ShareFacts, FailFacts, VisibleFacts
    <2>3. \A g \in Handlers : req[g] = Idle => req'[g] = Idle
      BY <2>2, RowFacts DEF Moves, Leaves, Leave
    <2> QED BY <1>1, <2>1, <2>2, <2>3 DEF Moves, Leaves, Leave
  <1>4. CASE Mined
    <2>1. UNCHANGED <<now, counts, stops>> /\ UNCHANGED rows
      BY <1>4 DEF Mined
    <2>2. \E t : Answered(pool[1], t)
      BY <1>4, MinedFacts
    <2> QED BY <1>1, <2>1, <2>2 DEF Answered, Awaits
  <1>5. CASE Reverted
    <2>1. UNCHANGED <<now, counts, stops, rows>> /\ Leave(pool[1].waiters)
      BY <1>5, RevertedFacts DEF history
    <2> QED BY <1>1, <2>1 DEF Leave
  <1>6. ASSUME NEW h \in Handlers, Registered(h) PROVE CapInv'
    <2>1. /\ Insert(h) /\ UNCHANGED <<now, stops>>
          /\ counts' = [counts EXCEPT ![Today] = counts[Today] + 1]
          /\ req' = [req EXCEPT ![h] = Idle]
      BY <1>6 DEF Registered, history
    <2>2. Inside' \subseteq Inside \ {h}
      BY <2>1 DEF Inside, TypeOK
    <2> QED BY <2>1, <2>2, CapCounted
  <1>7. ASSUME NEW h \in Handlers, RegisteredUncounted(h) PROVE CapInv'
    <2>1. Insert(h) /\ Stopped
      BY <1>7 DEF RegisteredUncounted
    <2>2. UNCHANGED <<now, counts>> /\ stops' = stops + 1 /\ \A g \in Handlers : req'[g] = Idle
      BY <2>1, StoppedFacts
    <2>3. Inside' \subseteq Inside \ {h}
      BY <2>2 DEF Inside
    <2> QED BY <2>1, <2>2, <2>3, CapCounted
  <1>8. CASE Restart
    <2>1. /\ UNCHANGED <<now, counts, rows>> /\ stops' = stops + 1
          /\ \A g \in Handlers : req'[g] = Idle
      BY <1>8, StoppedFacts DEF Restart
    <2>2. Inside' = {} /\ Cardinality({}) = 0
      BY <2>1, FS_EmptySet DEF Inside
    <2>3. \A d \in Days : RegisteredOn(d)' = RegisteredOn(d)
      BY <2>1 DEF RegisteredOn, Held
    <2>4. \A d \in Days : /\ Cardinality(RegisteredOn(d)) \in Nat /\ counts[d] \in Nat
                          /\ stops \in Nat
      BY CapFacts
    <2>5. \A d \in Days : Cardinality(RegisteredOn(d)') <= counts'[d] + stops'
      BY <2>1, <2>3, <2>4 DEF CapInv
    <2>6. Today' = Today /\ Today \in Days
      BY <2>1, CapFacts DEF Today
    <2>7. counts'[Today'] + Cardinality(Inside') <= PerDay + (Cardinality(Handlers) - 1)
      <3>1. counts[Today] \in Nat
        BY <2>4, <2>6
      <3>2. counts[Today] <= PerDay + (Cardinality(Handlers) - 1)
        BY <2>6 DEF CapInv
      <3>3. counts'[Today'] + Cardinality(Inside') = counts[Today]
        BY <2>1, <2>2, <2>6, <3>1
      <3> QED BY <3>2, <3>3
    <2> QED BY <2>1, <2>5, <2>6, <2>7 DEF CapInv
  <1>9. ASSUME NEW h \in Handlers, Updated(h) \/ Transferred(h) PROVE CapInv'
    <2> PICK t : t = req[h].token
      OBVIOUS
    <2>1. /\ Held' = Held /\ \A u \in Tokens : u # t => rows'[u] = rows[u]
          /\ rows'[t].created = rows[t].created
          /\ Leaves(h) /\ UNCHANGED <<now, counts, stops>>
      BY <1>9, ChangedFacts DEF history
    <2>2. \A u \in Held : rows'[u].created = rows[u].created
      BY <2>1 DEF Held
    <2>3. Inside' \subseteq Inside
      BY <2>1 DEF Leaves, Leave, Inside
    <2> QED BY <2>1, <2>2, <2>3, CapKept
  <1>10. CASE Tick
    <2> PICK td : td = Today
      OBVIOUS
    <2> PICK tn : tn = Today'
      OBVIOUS
    <2> PICK H : H = Cardinality(Handlers)
      OBVIOUS
    <2>1. now' = now + 1 /\ now < MaxTime /\ UNCHANGED <<rows, counts, req, stops>>
      BY <1>10 DEF Tick, service, history
    <2>2. now' \in 0..MaxTime /\ now \in Nat /\ now' \in Nat
      BY <2>1, RegisterAssumption DEF CapInv
    <2>3. tn \in Days /\ td <= tn
      BY <2>1, <2>2, Divided, RegisterAssumption DEF Today, Days
    <2>4. /\ td \in Days /\ PerDay \in Nat \ {0} /\ H \in Nat
          /\ Cardinality(Inside) \in Nat /\ Cardinality(Inside) <= H
      BY CapFacts
    <2>5. counts[tn] + Cardinality(Inside) <= PerDay + (H - 1)
      <3>1. CASE tn = td
        BY <3>1 DEF CapInv
      <3>2. CASE tn # td
        <4>1. tn > td
          BY <2>3, <2>4, <3>2 DEF Days
        <4>2. counts[tn] = 0
          BY <2>3, <4>1 DEF CapInv
        <4> QED BY <2>4, <4>2
      <3> QED BY <3>1, <3>2
    <2>6. \A d \in Days : d > tn => d > td
      BY <2>3, <2>4 DEF Days
    <2>7. Inside' = Inside /\ \A d \in Days : RegisteredOn(d)' = RegisteredOn(d)
      BY <2>1 DEF Inside, RegisteredOn, Held
    <2> QED BY <2>1, <2>2, <2>5, <2>6, <2>7 DEF CapInv
  <1>11. CASE (\E b \in Backends : CatchUp(b)) \/ Others \/ UNCHANGED vars
    <2>1. UNCHANGED <<now, counts, stops, rows, req>>
      BY <1>11 DEF CatchUp, Others, vars, service, history
    <2> QED BY <1>1, <2>1
  <1> QED
    BY <1>2, <1>3, <1>4, <1>5, <1>6, <1>7, <1>8, <1>9, <1>10, <1>11 DEF Next, ServiceNext

\* The daily cap is exceeded by no more than the requests that were checked before the
\* first of them was counted, and the counts a crash has lost.
THEOREM CapStaysBounded == Spec => []CapBounded
  <1>1. TypeOK /\ CapInv => CapBounded
    <2> SUFFICES ASSUME TypeOK, CapInv, NEW d \in Days
                 PROVE  Cardinality(RegisteredOn(d)) <= PerDay + (Cardinality(Handlers) - 1) + stops
      BY DEF CapBounded
    <2> PICK n : n = Cardinality(RegisteredOn(d))
      OBVIOUS
    <2> PICK H : H = Cardinality(Handlers)
      OBVIOUS
    <2>1. n \in Nat /\ H \in Nat /\ PerDay \in Nat /\ stops \in Nat /\ counts[d] \in Nat
      BY CapFacts
    <2>2. n <= counts[d] + stops /\ counts[d] <= PerDay + (H - 1)
      BY DEF CapInv
    <2> QED BY <2>1, <2>2
  <1> QED
    BY <1>1, CapInit, CapNext, RegisterTypeInit, RegisterTypeNext, JobsNext, PTL DEF Spec
=============================================================================
