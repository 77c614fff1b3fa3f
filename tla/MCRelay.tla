------------------------------- MODULE MCRelay -------------------------------
(* The small worlds in which TLC checks Relay. *)
EXTENDS Relay, TLC

\* Two envelopes that carry the same id and go opposite ways, so that a push
\* meets a row with another signature and an ack names a row of somebody else.
Crossing ==
  {[id |-> "e1", from |-> "alice", to |-> "bob", ttl |-> 1],
   [id |-> "e1", from |-> "bob", to |-> "alice", ttl |-> 4]}

\* Bob polls and acknowledges, and mistypes the since of a poll.
BobAll ==
  {[kind |-> "pickup", from |-> "bob", ids |-> {}],
   [kind |-> "ack", from |-> "bob", ids |-> {"e1"}]}
Typed == {1, NotADate}
Ahead == {1}
Both == {0, 1}
HandlerSymmetry == Permutations(Handlers)

\* Next where nobody rotates a key; MCKeyPath has the rotations.
KeptKeysNext ==
  \/ Tick
  \/ \E d \in Drafts : Compose(d)
  \/ \E q \in Asks, n \in Nonces, d \in Drifts : Authorize(q, n, d)
  \/ \E h \in Handlers : Serve(h)
  \/ Evict
  \/ \E s \in Subscribers : Subscribe(s) \/ Unsubscribe(s)
  \/ Stop
  \/ Start
KeptKeysSpec == Init /\ [][KeptKeysNext]_vars
=============================================================================
