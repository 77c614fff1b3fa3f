------------------------------- MODULE SiiRegistry -------------------------------
(***************************************************************************)
(* The chain backend of the resolver                                       *)
(* (packages/resolver/src/registry/sii.ts).  A lookup awaits twice: the    *)
(* contract's scutIdentityURI(tokenId), then the body behind that URI.  A  *)
(* data: URI carries its body, so its second step follows at once; an      *)
(* https: or ipfs: body can change while the first answer is under way.    *)
(* A ref of another chain throws before the first step: see Resolver.      *)
(***************************************************************************)
EXTENDS Integers, FiniteSets

CONSTANTS
  SiiRefs,   \* agents on the configured chain
  SiiDocs,   \* documents: [agentRef, version]; one that is no SII names NoSii
  NoSii,
  Hosts,     \* http(s) and ipfs URIs; a document stands for its data: URI
  Lag,       \* how far an RPC backend may lag the chain
  CallTime,  \* the longest the RPC call or the fetch takes
  Calls,     \* lookups in flight (bound)
  MaxChange, \* documents superseded (bound)
  SiiTime    \* clock (bound)

ASSUME SiiAssumption ==
  /\ SiiDocs \subseteq [agentRef: SiiRefs \cup {NoSii}, version: Nat]
  /\ NoSii \notin SiiDocs \cup Hosts \cup SiiRefs
  /\ Hosts \cap SiiDocs = {}
  /\ Lag \in Nat /\ CallTime \in Nat /\ MaxChange \in Nat /\ SiiTime \in Nat

VARIABLES
  siiNow,    \* the clock
  uri,       \* scutIdentityURI of each agent; NoSii: not minted
  body,      \* what each host serves
  moved,     \* superseded URIs: [ref, uri, at]
  edited,    \* superseded bodies: [host, doc, at]
  call,      \* lookups in flight
  siiResult  \* what the last lookup returned: [ref, doc, at]

outside == <<uri, body, moved, edited>>
siiVars == <<siiNow, outside, call, siiResult>>

Uris == SiiDocs \cup Hosts
NoCall == [pc |-> "idle"]

SiiTypeOK ==
  /\ siiNow \in Nat
  /\ uri \in [SiiRefs -> Uris \cup {NoSii}]
  /\ body \in [Hosts -> SiiDocs \cup {NoSii}]
  /\ moved \subseteq [ref: SiiRefs, uri: Uris \cup {NoSii}, at: Nat]
  /\ edited \subseteq [host: Hosts, doc: SiiDocs \cup {NoSii}, at: Nat]
  /\ call \in [Calls -> {NoCall} \cup
       [pc: {"rpc", "fetch"}, ref: SiiRefs, uri: Hosts \cup {NoSii}, start: Nat]]

SiiInit ==
  /\ siiNow = 0
  /\ uri = [r \in SiiRefs |-> NoSii]
  /\ body = [u \in Hosts |-> NoSii]
  /\ moved = {} /\ edited = {}
  /\ call = [l \in Calls |-> NoCall]
  /\ siiResult = [ref |-> NoSii, doc |-> NoSii, at |-> 0]

SiiTick ==
  /\ siiNow < SiiTime
  /\ \A l \in Calls : call[l] # NoCall => siiNow < call[l].start + CallTime
  /\ siiNow' = siiNow + 1
  /\ UNCHANGED <<outside, call, siiResult>>

\* mint or updateIdentityURI: the contract refuses the empty URI.
Point(r, u) ==
  /\ Cardinality(moved \cup edited) < MaxChange
  /\ u # uri[r]
  /\ uri' = [uri EXCEPT ![r] = u]
  /\ moved' = moved \cup {[ref |-> r, uri |-> uri[r], at |-> siiNow]}
  /\ UNCHANGED <<siiNow, body, edited, call, siiResult>>

\* Somebody edits what a host serves.
EditBody(u, d) ==
  /\ Cardinality(moved \cup edited) < MaxChange
  /\ d # body[u]
  /\ body' = [body EXCEPT ![u] = d]
  /\ edited' = edited \cup {[host |-> u, doc |-> body[u], at |-> siiNow]}
  /\ UNCHANGED <<siiNow, uri, moved, call, siiResult>>

BeginCall(l, r) ==
  /\ call[l] = NoCall
  /\ call' = [call EXCEPT ![l] =
                  [pc |-> "rpc", ref |-> r, uri |-> NoSii, start |-> siiNow]]
  /\ UNCHANGED <<siiNow, outside, siiResult>>

\* The contract pointed r at u, or host u served d, at t or later.
PointedSince(r, u, t) ==
  \/ uri[r] = u
  \/ \E p \in moved : p.ref = r /\ p.uri = u /\ p.at >= t

HostedSince(u, d, t) ==
  \/ body[u] = d
  \/ \E e \in edited : e.host = u /\ e.doc = d /\ e.at >= t

\* readContract answers, during the call, with the URI of a recent block.
Reads(l, u) ==
  /\ call[l].pc = "rpc"
  /\ PointedSince(call[l].ref, u, call[l].start - Lag)

Finish(l, d) ==
  /\ call' = [call EXCEPT ![l] = NoCall]
  /\ siiResult' = [ref |-> call[l].ref, doc |-> d, at |-> siiNow]
  /\ UNCHANGED <<siiNow, outside>>

\* Undefined, "not found": every failed call whose text says "nonexistent" or
\* "reverted" is taken for the revert of an unminted token, and the RPC client
\* words other failures so, an internal error of the node among them.
Unminted(l) == call[l].pc = "rpc" /\ Finish(l, NoSii)

AcceptedAny(l, d) == d # NoSii /\ d.agentRef # NoSii
\* The document is an SII and its agentRef is the triple looked up.
Accepted(l, d) == d # NoSii /\ d.agentRef = call[l].ref

\* A data: URI.
Inline(l, d) == Reads(l, d) /\ Accepted(l, d) /\ Finish(l, d)

\* Any other URI: the fetch begins.
Follow(l, u) ==
  /\ Reads(l, u)
  /\ call' = [call EXCEPT ![l].pc = "fetch", ![l].uri = u,
                          ![l].start = siiNow]
  /\ UNCHANGED <<siiNow, outside, siiResult>>

\* The body is what the host served at some moment of the fetch.
Fetch(l, d) ==
  /\ call[l].pc = "fetch"
  /\ HostedSince(call[l].uri, d, call[l].start)
  /\ Accepted(l, d)
  /\ Finish(l, d)

\* rpc_error, fetch_error, schema_invalid, ref_mismatch: the lookup throws.
Throw(l) ==
  /\ call[l] # NoCall
  /\ call' = [call EXCEPT ![l] = NoCall]
  /\ UNCHANGED <<siiNow, outside, siiResult>>

SiiNext ==
  \/ SiiTick
  \/ \E r \in SiiRefs, u \in Uris : Point(r, u)
  \/ \E u \in Hosts, d \in SiiDocs : EditBody(u, d)
  \/ \E l \in Calls :
       \/ \E r \in SiiRefs : BeginCall(l, r)
       \/ Unminted(l)
       \/ \E d \in SiiDocs : Inline(l, d) \/ Fetch(l, d)
       \/ \E u \in Hosts : Follow(l, u)
       \/ Throw(l)

SiiSpec == SiiInit /\ [][SiiNext]_siiVars

-----------------------------------------------------------------------------
(* Properties. *)

\* The two awaits are two moments, each true of its own: the contract pointed
\* the agent at the document itself, or at a host that served it during the
\* fetch, and the document names the agent that was asked for, however lookups
\* overlap.
PointedAndHosted ==
  LET r == siiResult.ref
      d == siiResult.doc
      read == siiResult.at - Lag - CallTime
  IN  \/ d = NoSii
      \/ /\ d # NoSii
         /\ d.agentRef = r
         /\ \/ PointedSince(r, d, read)
            \/ \E u \in Hosts : /\ PointedSince(r, u, read - CallTime)
                              /\ HostedSince(u, d, siiResult.at - CallTime)

-----------------------------------------------------------------------------
(* What a text of the repository says and the code does not do: the run      *)
(* sii_failure finds it violated.                                            *)

\* The resolver's README: 404 means that the contract returned the empty string
\* or reverted for a token that does not exist, and a failed call is a 502.
NotFoundIsUnminted ==
  siiResult.ref # NoSii /\ siiResult.doc = NoSii
    => PointedSince(siiResult.ref, NoSii, siiResult.at - Lag - CallTime)
=============================================================================
