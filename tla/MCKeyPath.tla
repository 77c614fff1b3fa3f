------------------------------ MODULE MCKeyPath ------------------------------
(* One sender that rotates its key while its pushes are in service. *)
EXTENDS KeyPath, TLC

OneDraft == {[id |-> "e1", from |-> "alice", to |-> "alice", ttl |-> 1]}
NoAsks == {}
Synchronised == {0}
\* The resolver's last answer is a history that neither property looks at, and no
\* row is evicted, acked or picked up here, so that only its id matters.
PathView == <<now, world, up, StoredIds, cache, req, entries, lookups>>
HandlerSymmetry == Permutations(Handlers)
=============================================================================
