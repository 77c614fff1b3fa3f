-------------------------------- MODULE Register --------------------------------
(***************************************************************************)
(* The registration service (packages/register/src): a SQLite table of the *)
(* tokens it holds for agents, and a wallet that mints them, updates their *)
(* documents and hands them over, on the Registry.                         *)
(*                                                                         *)
(* A register request awaits four times: the mint transaction and its      *)
(* receipt, until ownerOf answers, and the update transaction; update and  *)
(* transfer await their transaction.  Requests interleave at each.  The    *)
(* wallet's transactions are mined in nonce order, their receipts seen in  *)
(* any order, and one whose request has given up may be mined all the      *)
(* same.  The client draws each nonce from the node's pending count and    *)
(* manages none of its own: two sends that overlap may draw one nonce.  If *)
(* they say the same they are one transaction, with two requests waiting;  *)
(* else the node is taken to refuse the later one.  An update or a         *)
(* transfer is signed by the agent: the key stands for the signature,      *)
(* which may be one of any key the agent ever had.                         *)
(***************************************************************************)
EXTENDS Registry, FiniteSets

CONSTANTS
  Service,      \* the service wallet
  Placeholder,  \* PLACEHOLDER_URI
  Keys,         \* Ed25519 signing keys
  NoKey,        \* an update's document may lack keys
  Names,        \* display names
  Anonymous,    \* a request without one
  NewOwners,    \* wallets agents ask a token to be transferred to: any address
  Backends,     \* nodes behind the RPC endpoint
  PerDay,       \* rateLimit.globalPerDay
  DayLength,    \* a day, in ticks
  Handlers,     \* requests in service at once (bound)
  MaxStops,     \* process exits (bound)
  MaxRequests,  \* requests admitted (bound)
  MaxTime       \* clock (bound)

Document == [token: Tokens, key: Keys \cup {NoKey}]

ASSUME RegisterAssumption ==
  /\ Service \in Accounts \ Contracts
  /\ Uris = Document \cup {Placeholder} /\ Placeholder \notin Document
  /\ NoKey \notin Keys /\ Anonymous \notin Names
  /\ NewOwners \subseteq Accounts
  /\ IsFiniteSet(Handlers) /\ Nobody \notin Handlers
  /\ PerDay \in Nat \ {0} /\ DayLength \in Nat \ {0}
  /\ MaxStops \in Nat /\ MaxRequests \in Nat /\ MaxTime \in Nat

VARIABLES
  now,      \* the clock
  rows,     \* table registrations
  counts,   \* table daily_counts
  req,      \* requests in service
  pool,     \* the wallet's transactions not yet mined, by nonce
  height,   \* tokens each backend knows
  stops,    \* history: process exits so far
  admitted,   \* history: requests admitted so far
  keysOf,     \* history: signing keys each token's documents have named
  handed,     \* history: tokens of which a transfer by the service was mined
  gaveUp      \* history: tokens of which a transfer's request ended unanswered

service == <<rows, counts, req>>
history == <<stops, admitted, keysOf, handed, gaveUp>>
vars == <<chain, now, service, pool, height, history>>

Days == 0..(MaxTime \div DayLength)
Today == now \div DayLength
Idle == [pc |-> "idle"]
NoRow == [key |-> NoKey]
Request == [pc: {"checked", "sent", "mined"}, call: {"mint", "update", "transfer"},
            kind: {"register", "update", "transfer"}, name: Names \cup {Anonymous},
            key: Keys \cup {NoKey}, token: Tokens \cup {0},
            to: NewOwners \cup {Nobody}]
Row == [key: Keys, name: Names \cup {Anonymous}, custodial: BOOLEAN,
        created: Nat]
Tx == [call: {"mint", "update", "transfer"}, token: Tokens \cup {0},
       key: Keys \cup {NoKey}, to: NewOwners \cup {Nobody},
       waiters: SUBSET Handlers]

TypeOK ==
  /\ ChainTypeOK
  /\ now \in Nat
  /\ rows \in [Tokens -> Row \cup {NoRow}]
  /\ counts \in [Days -> Nat]
  /\ req \in [Handlers -> Request \cup {Idle}]
  /\ pool \in Seq(Tx)
  /\ height \in [Backends -> 0..MaxTokens]
  /\ stops \in Nat /\ admitted \in Nat
  /\ keysOf \in [Tokens -> SUBSET (Keys \cup {NoKey})]
  /\ handed \subseteq Tokens /\ gaveUp \subseteq Tokens

Init ==
  /\ ChainInit
  /\ now = 0
  /\ rows = [t \in Tokens |-> NoRow]
  /\ counts = [d \in Days |-> 0]
  /\ req = [h \in Handlers |-> Idle]
  /\ pool = <<>>
  /\ height = [b \in Backends |-> 0]
  /\ stops = 0 /\ admitted = 0
  /\ keysOf = [t \in Tokens |-> {}]
  /\ handed = {} /\ gaveUp = {}

Held == {t \in Tokens : rows[t] # NoRow}

Tick ==
  /\ now < MaxTime
  /\ now' = now + 1
  /\ UNCHANGED <<chain, service, pool, height, history>>

-----------------------------------------------------------------------------
(* What a request is checked against, and admitted. *)

\* countByDisplayNameToday: a window of a day that ends now.
NameTaken(n) == \E t \in Held : rows[t].name = n
                               /\ rows[t].created >= now - DayLength

\* countToday: the UTC day.
CountYesterday == IF Today = 0 THEN 0 ELSE counts[Today - 1]
CountToday == counts[Today]

Admit(h, r) ==
  /\ req[h] = Idle
  /\ admitted < MaxRequests
  /\ admitted' = admitted + 1
  /\ req' = [req EXCEPT ![h] = r]
  /\ UNCHANGED <<chain, now, rows, counts, pool, height, stops, keysOf, handed, gaveUp>>

\* POST /register up to the first await: 429 and 503 leave no trace.
BeginRegister(h, n, k) ==
  /\ n # Anonymous => ~NameTaken(n)
  /\ CountToday < PerDay
  /\ Admit(h, [pc |-> "checked", call |-> "mint", kind |-> "register",
               name |-> n, key |-> k, token |-> 0, to |-> Nobody])

\* 404 without a row, 409 once transferred, 401 unless the row's key signed.
Authorized(t, k) == t \in Held /\ rows[t].custodial /\ rows[t].key = k

\* POST /update: the new document names the token; its keys are not looked at.
BeginUpdate(h, t, signer, k) ==
  /\ Authorized(t, signer)
  /\ Admit(h, [pc |-> "checked", call |-> "update", kind |-> "update",
               name |-> Anonymous, key |-> k, token |-> t, to |-> Nobody])

\* POST /transfer
BeginTransfer(h, t, signer, to) ==
  /\ Authorized(t, signer)
  /\ Admit(h, [pc |-> "checked", call |-> "transfer", kind |-> "transfer",
               name |-> Anonymous, key |-> NoKey, token |-> t, to |-> to])

-----------------------------------------------------------------------------
(* RegistryClient and the chain. *)

\* A transaction of the wallet, by its calldata.
TxOf(r, S) == [call |-> r.call, token |-> r.token, to |-> r.to,
               key |-> IF r.call = "mint" THEN NoKey ELSE r.key, waiters |-> S]

SubmitRecorded(h) ==
  /\ req[h] # Idle /\ req[h].pc = "checked"
  /\ req' = [req EXCEPT ![h].pc = "sent"]
  /\ rows' = IF req[h].kind = "update" /\ req[h].key # NoKey
             THEN [rows EXCEPT ![req[h].token].key = req[h].key] ELSE rows
  /\ pool' = Append(pool, TxOf(req[h], {h}))
  /\ UNCHANGED <<chain, now, counts, height, history>>

\* writeContract: the transaction takes the wallet's next nonce.
Submit(h) ==
  /\ req[h] # Idle /\ req[h].pc = "checked"
  /\ req' = [req EXCEPT ![h].pc = "sent"]
  /\ pool' = Append(pool, TxOf(req[h], {h}))
  /\ UNCHANGED <<chain, now, rows, counts, height, history>>

\* It takes the nonce of one that another request has just sent, and says the
\* same: it is that transaction, and has the same hash.
Share(h) ==
  /\ req[h] # Idle /\ req[h].pc = "checked"
  /\ req' = [req EXCEPT ![h].pc = "sent"]
  /\ \E i \in DOMAIN pool :
       /\ pool[i] = TxOf(req[h], pool[i].waiters)
       /\ pool' = [pool EXCEPT ![i].waiters = @ \cup {h}]
  /\ UNCHANGED <<chain, now, rows, counts, height, history>>

Publishes(t, d) == keysOf' = [keysOf EXCEPT ![t] = @ \cup {d.key}]

\* The receipt reaches the requests that wait for it, and with it the token id, by
\* the SCUTIdentityRegistered event of a mint.
Notify(tx) ==
  req' = [h \in Handlers |->
            IF h \notin tx.waiters THEN req[h]
            ELSE [req[h] EXCEPT !.pc = "mined", !.token = IF tx.call = "mint" THEN next ELSE @]]

\* The transaction that is next by nonce is mined, and succeeds.
Mined ==
  /\ pool # <<>>
  /\ pool' = Tail(pool)
  /\ LET tx == Head(pool)
         d == [token |-> tx.token, key |-> tx.key]
     IN  /\ Notify(tx)
         /\ \/ /\ tx.call = "mint"
               /\ Mint(Service, Service, Placeholder)
               /\ UNCHANGED <<keysOf, handed>>
            \/ /\ tx.call = "update"
               /\ Update(Service, tx.token, d)
               /\ Publishes(tx.token, d)
               /\ UNCHANGED handed
            \/ /\ tx.call = "transfer"
               /\ Transfer(Service, tx.token, tx.to)
               /\ handed' = handed \cup {tx.token}
               /\ UNCHANGED keysOf
  /\ UNCHANGED <<now, rows, counts, height, stops, admitted, gaveUp>>

\* It reverts, because the service no longer owns the token: status is not
\* success, the client throws, 502.
Reverted ==
  /\ pool # <<>>
  /\ Head(pool).call # "mint" /\ owner[Head(pool).token] # Service
  /\ pool' = Tail(pool)
  /\ req' = [h \in Handlers |-> IF h \in Head(pool).waiters THEN Idle ELSE req[h]]
  /\ UNCHANGED <<chain, now, rows, counts, height, history>>

\* Requests end, with whatever they had sent still sent.
GiveUp(S) ==
  /\ req' = [h \in Handlers |-> IF h \in S THEN Idle ELSE req[h]]
  /\ pool' = [i \in DOMAIN pool |-> [pool[i] EXCEPT !.waiters = @ \ S]]
  /\ gaveUp' = gaveUp \cup
       {req[h].token : h \in {g \in S : /\ req[g] # Idle /\ req[g].call = "transfer"
                                        /\ req[g].pc \in {"sent", "mined"}}}

\* Whatever else ends a request, with 502 or 500: a send is refused, a receipt does
\* not come in time, ownerOf never converges, the row has its token id already.
\* What was sent stays sent, what was mined stays mined, and the tables do not
\* learn of it.
Fail(h) ==
  /\ req[h] # Idle
  /\ GiveUp({h})
  /\ UNCHANGED <<chain, now, rows, counts, height, stops, admitted, keysOf, handed>>

\* A backend catches up with the chain.
CatchUp(b) ==
  /\ height[b] < next - 1
  /\ height' = [height EXCEPT ![b] = next - 1]
  /\ UNCHANGED <<chain, now, service, pool, history>>

\* waitForOwnerVisible: the first backend that answers with the owner ends the
\* polling, and the final document is built.
Visible(h) ==
  /\ req[h] # Idle /\ req[h].pc = "mined" /\ req[h].call = "mint"
  /\ \E b \in Backends : height[b] >= req[h].token
  /\ req' = [req EXCEPT ![h].pc = "checked", ![h].call = "update"]
  /\ UNCHANGED <<chain, now, rows, counts, pool, height, history>>

-----------------------------------------------------------------------------
(* The tables. *)

FinishableEarly(h, kind) ==
  /\ req[h] # Idle /\ req[h].kind = kind
  /\ req[h].pc = "mined"

\* The last transaction of the request is mined and its receipt seen.
Finishable(h, kind) ==
  /\ req[h] # Idle /\ req[h].kind = kind
  /\ req[h].pc = "mined" /\ req[h].call # "mint"

InsertOver(h) ==
  /\ Finishable(h, "register")
  /\ rows' = [rows EXCEPT ![req[h].token] =
       [key |-> req[h].key, name |-> req[h].name, custodial |-> TRUE,
        created |-> now]]

\* The token id is the table's primary key.
Insert(h) ==
  /\ Finishable(h, "register")
  /\ req[h].token \notin Held
  /\ rows' = [rows EXCEPT ![req[h].token] =
       [key |-> req[h].key, name |-> req[h].name, custodial |-> TRUE,
        created |-> now]]

\* 201: insertRegistration, then incrementToday.
Registered(h) ==
  /\ Insert(h)
  /\ counts' = [counts EXCEPT ![Today] = @ + 1]
  /\ req' = [req EXCEPT ![h] = Idle]
  /\ UNCHANGED <<chain, now, pool, height, history>>

\* The process exits and is started again on the same file; transactions that
\* were sent have nobody waiting for them.
Stopped ==
  /\ stops < MaxStops
  /\ stops' = stops + 1
  /\ GiveUp(Handlers)
  /\ UNCHANGED <<chain, now, counts, height, admitted, keysOf, handed>>

Restart == Stopped /\ UNCHANGED rows

\* It exits between the two statements.
RegisteredUncounted(h) == Insert(h) /\ Stopped

\* 200 of update: updateAfterMutation, with the keys the document has.
Updated(h) ==
  /\ Finishable(h, "update")
  /\ rows' = IF req[h].key = NoKey THEN rows
             ELSE [rows EXCEPT ![req[h].token].key = req[h].key]
  /\ req' = [req EXCEPT ![h] = Idle]
  /\ UNCHANGED <<chain, now, counts, pool, height, history>>

TransferredUnseen(h) ==
  /\ req[h] # Idle /\ req[h].kind = "transfer" /\ req[h].pc # "checked"
  /\ rows' = [rows EXCEPT ![req[h].token].custodial = FALSE]
  /\ req' = [req EXCEPT ![h] = Idle]
  /\ UNCHANGED <<chain, now, counts, pool, height, history>>

\* 200 of transfer.
Transferred(h) ==
  /\ Finishable(h, "transfer")
  /\ rows' = [rows EXCEPT ![req[h].token].custodial = FALSE]
  /\ req' = [req EXCEPT ![h] = Idle]
  /\ UNCHANGED <<chain, now, counts, pool, height, history>>

\* Anybody but the service calls the registry, and code that is called back does so
\* from within; nobody sends a token to the service.  What they write is nothing to
\* it: one URI stands for all of theirs.
Others ==
  /\ \/ \E s \in Accounts \ {Service} :
          \/ \E to \in Accounts \ {Service} : Mint(s, to, Placeholder)
          \/ \E t \in Tokens : Update(s, t, Placeholder)
          \/ \E t \in Tokens, to \in Accounts \ {Service} : Transfer(s, t, to)
     \/ Received
     \/ Revert
  /\ UNCHANGED <<now, service, pool, height, history>>

ServiceNext ==
  \/ Tick
  \/ \E h \in Handlers :
       \/ \E n \in Names \cup {Anonymous}, k \in Keys : BeginRegister(h, n, k)
       \/ \E t \in Tokens, s \in Keys, k \in Keys \cup {NoKey} :
            BeginUpdate(h, t, s, k)
       \/ \E t \in Tokens, s \in Keys, to \in NewOwners :
            BeginTransfer(h, t, s, to)
       \/ Submit(h) \/ Share(h) \/ Fail(h) \/ Visible(h)
       \/ Registered(h) \/ RegisteredUncounted(h) \/ Updated(h) \/ Transferred(h)
  \/ Mined
  \/ Reverted
  \/ \E b \in Backends : CatchUp(b)
  \/ Restart

\* Nobody sees a transaction that is under way.
Next == (calls = <<>> /\ ServiceNext) \/ Others

Spec == Init /\ [][Next]_vars

-----------------------------------------------------------------------------
(* Properties. *)

\* A token is granted once: its row stays the one first written, whoever else was
\* handed the token by a mint they shared, and only an update of that token that
\* was mined changes its key.
GrantedOnce ==
  [][\A t \in Held :
       /\ t \in Held' /\ rows'[t].name = rows[t].name /\ rows'[t].created = rows[t].created
       /\ rows'[t].key # rows[t].key =>
            \E h \in Handlers : /\ Finishable(h, "update")
                                /\ req[h].token = t /\ req[h].key = rows'[t].key]_vars

\* A row is written only when the registry shows the agent's document: what the
\* service holds with a row names its own token and is no placeholder.
RowsDocumented ==
  \A t \in Held : owner[t] = Service => uri[t] \in Document /\ uri[t].token = t

\* The key an agent is recognised by is one its documents have named: the row
\* follows the chain and never runs ahead of it.
KeysWerePublished == \A t \in Held : rows[t].key \in keysOf[t]

Transferring(t) ==
  \E h \in Handlers : /\ req[h] # Idle /\ req[h].call = "transfer"
                      /\ req[h].pc = "mined" /\ req[h].token = t

\* The row says transferred when the chain has done a transfer, and only then: it
\* lags while the receipt is under way, and for good only if a request for a
\* transfer of this token was given up on or cut off.  (And variables keep their
\* types.)
CustodyRecorded ==
  /\ TypeOK
  /\ \A t \in Held :
       IF rows[t].custodial THEN t \in handed => Transferring(t) \/ t \in gaveUp
                            ELSE t \in handed

RegisteredOn(d) == {t \in Held : rows[t].created \div DayLength = d}

\* The daily cap is exceeded by no more than the requests that were checked
\* before the first of them was counted, and the counts a crash has lost.
CapBounded ==
  \A d \in Days :
    Cardinality(RegisteredOn(d)) <= PerDay + (Cardinality(Handlers) - 1) + stops

-----------------------------------------------------------------------------
(* What a text of the repository says and the code does not do: no run checks *)
(* it, and the README of this development says why it fails.                 *)

\* SKILL.md: the agent can update its document by a request signed with its signing
\* key, which the service verifies.  So once nothing is under way, the key that the
\* service verifies with is the one the document on chain names.
RowMatchesChain ==
  (\A h \in Handlers : req[h] = Idle) /\ pool = <<>> =>
    \A t \in Held : owner[t] = Service /\ uri[t].key # NoKey =>
                      rows[t].key = uri[t].key

\* SKILL.md: 1000 registrations across the service per day.
CapHolds == \A d \in Days : Cardinality(RegisteredOn(d)) <= PerDay

\* SKILL.md: 1 registration per displayName per day.
OneNamePerDay ==
  \A t, u \in Held :
    t # u /\ rows[t].name # Anonymous /\ rows[t].name = rows[u].name =>
      \/ rows[t].created - rows[u].created > DayLength
      \/ rows[u].created - rows[t].created > DayLength

\* The comment on mintPlaceholder: once it resolves, ownerOf is observable to
\* all RPC backends.
VisibleEverywhere ==
  \A h \in Handlers :
    req[h] # Idle /\ req[h].kind = "register" /\ req[h].call = "update" =>
      \A b \in Backends : height[b] >= req[h].token
=============================================================================
