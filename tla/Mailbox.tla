------------------------------- MODULE Mailbox -------------------------------
(***************************************************************************)
(* What a relay promises to the clients that use it: one shared box of     *)
(* signed envelopes.  An envelope enters the box once, unchanged; it       *)
(* leaves because its recipient acknowledged it or because its time to     *)
(* live is over, and for no other reason; a pickup shows its caller the    *)
(* caller's own envelopes, all of them from the asked instant on; and one  *)
(* signed request, however often it arrives, is honoured only around the   *)
(* time it names and not again until a window has passed.                  *)
(* Keys, caches, concurrent handlers, restarts and the nonce table of the  *)
(* relay do not appear here: Relay implements this module.                 *)
(***************************************************************************)
EXTENDS Integers

CONSTANTS
  MaxTtl,         \* limits.maxTtlSeconds: the longest life a relay grants
  Tolerance,      \* limits.clockSkewSeconds
  Window,         \* limits.pickupNonceWindowSeconds
  Patience,       \* the longest a request waits between the two checks
  Sinces          \* instants a pickup may name

VARIABLES
  clock,          \* the relay's clock
  sent,           \* envelopes and requests the clients have signed
  box,            \* rows held for their recipients
  done,           \* [nonce, at]: when each request was last honoured
  shown           \* <<agent, envelope>>: what pickups have returned

mailboxVars == <<clock, sent, box, done, shown>>

Init ==
  /\ clock = 0
  /\ sent = {}
  /\ box = {}
  /\ done = {}
  /\ shown = {}

Sign(m) ==
  /\ sent' = sent \cup {m}
  /\ UNCHANGED <<clock, box, done, shown>>

Pass ==
  /\ clock' = clock + 1
  /\ UNCHANGED <<sent, box, done, shown>>

Accept(e) ==
  /\ e.kind = "push"
  /\ \A r \in box : r.env.id # e.id
  /\ LET life == IF e.ttl < MaxTtl THEN e.ttl ELSE MaxTtl
     IN  box' = box \cup
           {[env |-> e, received |-> clock, expires |-> clock + life]}
  /\ UNCHANGED <<clock, sent, done, shown>>

Honour(q) ==
  /\ q.ts - Tolerance <= clock /\ clock <= q.ts + Tolerance + Patience
  /\ \A d \in done : d.nonce = q.nonce => d.at + Window < clock
  /\ done' = {d \in done : d.nonce # q.nonce}
                \cup {[nonce |-> q.nonce, at |-> clock]}
  /\ UNCHANGED <<clock, sent>>

Show(q, since) ==
  /\ q.kind = "pickup"
  /\ Honour(q)
  /\ shown' = shown \cup
       {<<q.from, r.env>> : r \in {x \in box : /\ x.env.to = q.from
                                               /\ x.received >= since}}
  /\ UNCHANGED box

Discard(q) ==
  /\ q.kind = "ack"
  /\ Honour(q)
  /\ box' = {r \in box : ~(r.env.to = q.from /\ r.env.id \in q.ids)}
  /\ UNCHANGED shown

Reap ==
  /\ box' = {r \in box : r.expires > clock}
  /\ UNCHANGED <<clock, sent, done, shown>>

Next ==
  \/ Pass
  \/ Reap
  \/ sent' # sent /\ \E m \in sent' : Sign(m)
  \/ \E m \in sent : \/ Accept(m) \/ Discard(m)
                     \/ \E since \in Sinces : Show(m, since)

Spec == Init /\ [][Next]_mailboxVars
=============================================================================
