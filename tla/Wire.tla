---------------------------------- MODULE Wire ----------------------------------
(***************************************************************************)
(* The wire formats of packages/core/src: how an agent is written in a     *)
(* URI, what an envelope signs and encrypts, and what a request to a relay *)
(* signs, followed along a whole letter: buildEnvelope, the relay that     *)
(* parses, verifies and stores it, the pickup, openEnvelope and the ack.   *)
(*                                                                         *)
(* An agent has several URIs, for the case of the contract's digits is     *)
(* free, and the packages compare some of them as they were typed.  Keys   *)
(* are told apart by their pair: scut init makes a signing and an          *)
(* encryption pair at once, and publishing puts both in the document.      *)
(* Relay and resolver answer from caches, so a lookup may tell the keys of *)
(* any document that was ever published; for how long it may is bounded in *)
(* KeyPath, where there is a clock.  Cryptography is ideal.  Faults and    *)
(* order in the mailbox are the matter of Client and Relay.                *)
(***************************************************************************)
EXTENDS Integers, Sequences

CONSTANTS
  Agents,
  Spellings,  \* how people type a URI: "canonical" or "mixed"
  Known,      \* those the resolver's registry finds
  Texts,      \* bodies of letters
  Ttls,       \* --ttl-seconds
  Rewrites,   \* what a relay of another make may do to what it hands out
  MaxPairs,   \* key pairs an agent makes (bound)
  MaxLetters  \* calls of buildEnvelope (bound)

ASSUME WireAssumption ==
  /\ Spellings \subseteq {"canonical", "mixed"}
  /\ Known \subseteq Spellings
  /\ Texts \subseteq [bom: BOOLEAN, lone: BOOLEAN]
  /\ Ttls \subseteq {"days", "hours", "zero", "half"}
  /\ Rewrites \subseteq {"none", "ttl", "address", "field"}
  /\ MaxPairs \in Nat /\ MaxLetters \in Nat

VARIABLES
  own,       \* config.agent_ref
  made,      \* the key pair in keys.json; 0: none yet
  published, \* the key pairs of the documents so far, the largest the latest
  client,    \* the options of a running ScutClient: [uri, pair]
  built,     \* history: what each call of buildEnvelope was given and gave
  posts,     \* pushes under way
  rows,      \* envelopes at the relay
  hand,      \* envelopes picked up, of which receive opens one after the other
  opened     \* history: what receive returned: [by, id, from, text]

identity == <<own, made, published>>
wire == <<identity, client, built, posts, rows, hand, opened>>

-----------------------------------------------------------------------------
(* URIs.  An AgentRef is the agent itself. *)

Uri == [agent: Agents, spelling: Spellings]
NoUri == [agent |-> "nobody", spelling |-> "none"]

\* The contract is lower-cased, the chain id read as a number.
parseScutUri(u) == u.agent
formatScutUri(a) == [agent |-> a, spelling |-> "canonical"]

\* The chain backend parses a ref; the file backend looks it up as it stands.
Finds(u) == u.spelling \in Known

\* The keys that a lookup of u may tell: those of the document as it stands, or
\* of one that the resolver, or the key cache of the relay, still keeps.
PairsTold(u) == {<<parseScutUri(u), k>> : k \in {j \in published[parseScutUri(u)] : Finds(u)}}

\* No answer: the lookup failed.
NotTold == <<"nobody", 0>>

-----------------------------------------------------------------------------
(* Envelopes.  A body is text as TextEncoder writes it: a surrogate without  *)
(* its other half becomes U+FFFD.  TextDecoder drops a byte order mark.      *)

Encoded(text) == [text EXCEPT !.lone = FALSE]
Decoded(bytes) == [bytes EXCEPT !.bom = FALSE]

Shared(pair, ephemeral) == {pair, ephemeral}
hkdf(shared, id) == [shared |-> shared, salt |-> id]
Ephemeral(id) == <<"ephemeral", id>>

encryptBody(text, pair, id) ==
  [key |-> hkdf(Shared(pair, Ephemeral(id)), id), bytes |-> Encoded(text)]

Decrypts(e, pair) ==
  e.ciphertext.key = hkdf(Shared(pair, e.ephemeral_pubkey), e.envelope_id)

\* Mutant: the addresses are left out of what is signed.
CanonicalBytesUnaddressed(e) == [f \in DOMAIN e \ {"signature", "from", "to"} |-> e[f]]
\* Every field there is but the signature.
canonicalBytesForSigning(e) == [f \in DOMAIN e \ {"signature"} |-> e[f]]

Signed(bytes, pair) == [bytes |-> bytes, by |-> pair]

\* e with one field more.
With(e, field, v) == [f \in DOMAIN e \cup {field} |-> IF f = field THEN v ELSE e[f]]

Verifies(e, pair) == e.signature = Signed(canonicalBytesForSigning(e), pair)

\* A TTL that is no number and a body over the limit throw instead.
buildEnvelope(id, from, to, ttl, text, signing, encryption) ==
  LET rest == [envelope_id |-> id, from |-> from, to |-> to, ttl_seconds |-> ttl,
               ciphertext |-> encryptBody(text, encryption, id),
               ephemeral_pubkey |-> Ephemeral(id)]
  IN  With(rest, "signature", Signed(canonicalBytesForSigning(rest), signing))

assertEnvelopeShape(e) == e.ttl_seconds \in {"days", "hours", "half"}

\* z.number().int().positive()
envelopeSchema(e) == e.ttl_seconds \in {"days", "hours"}

\* openEnvelope returns e instead of throwing, where keys are its author's as
\* they were told.
Opens(a, e, keys) ==
  /\ assertEnvelopeShape(e)
  /\ Verifies(e, keys)
  /\ Decrypts(e, <<a, client[a].pair>>)

-----------------------------------------------------------------------------
(* Authorization.  Each request draws a nonce. *)

pickupChallenge(u) == <<"pickup", u>>
ackChallenge(u, ids) == <<"ack", u, ids>>

\* Header and challenge are built by the client and parsed, the challenge
\* rebuilt and verified by the relay.
buildAuthorization(a, challenge) ==
  [agent_id |-> client[a].uri, sig |-> Signed(challenge, <<a, client[a].pair>>)]

verifyChallengeSignature(header, challenge) ==
  \E keys \in PairsTold(header.agent_id) : header.sig = Signed(challenge, keys)

-----------------------------------------------------------------------------
WireTypeOK ==
  /\ own \in [Agents -> Uri \cup {NoUri}]
  /\ \A a \in Agents : made[a] > 0 => parseScutUri(own[a]) = a
  /\ made \in [Agents -> 0..MaxPairs]
  /\ \A a \in Agents : published[a] \subseteq 1..made[a]
  /\ client \in [Agents -> [uri: Uri \cup {NoUri}, pair: 0..MaxPairs]]
  /\ \A id \in DOMAIN built : built[id].envelope.envelope_id = id
  /\ posts \cup rows \subseteq {built[id].envelope : id \in DOMAIN built}
  /\ opened \subseteq [by: Agents, id: DOMAIN built, from: Agents,
                   text: [bom: BOOLEAN, lone: BOOLEAN]]

WireInit ==
  /\ own = [a \in Agents |-> NoUri]
  /\ made = [a \in Agents |-> 0]
  /\ published = [a \in Agents |-> {}]
  /\ client = [a \in Agents |-> [uri |-> NoUri, pair |-> 0]]
  /\ built = <<>>
  /\ posts = {} /\ rows = {}
  /\ hand = [a \in Agents |-> {}]
  /\ opened = {}

\* scut init, later with --force: --agent-ref goes to the config as it is typed,
\* --contract and --token-id by way of formatScutUri.
MakeIdentity(a, u) ==
  /\ parseScutUri(u) = a
  /\ made[a] < MaxPairs
  /\ own' = [own EXCEPT ![a] = u]
  /\ made' = [made EXCEPT ![a] = @ + 1]
  /\ UNCHANGED <<published, client, built, posts, rows, hand, opened>>

\* The document with the public keys of keys.json, minted or updated.
PublishIdentity(a) ==
  /\ made[a] > 0 /\ made[a] \notin published[a]
  /\ published' = [published EXCEPT ![a] = @ \cup {made[a]}]
  /\ UNCHANGED <<own, made, client, built, posts, rows, hand, opened>>

\* A command, or a program that keeps its client for long, loads the identity.
StartClient(a) ==
  /\ made[a] > 0
  /\ client[a] # [uri |-> own[a], pair |-> made[a]]
  /\ client' = [client EXCEPT ![a] = [uri |-> own[a], pair |-> made[a]]]
  /\ hand' = [hand EXCEPT ![a] = {}]
  /\ UNCHANGED <<identity, built, posts, rows, opened>>

\* ScutClient.send up to the push, to the keys of to as they were told.
Write(a, to, ttl, text) ==
  \E keys \in PairsTold(to) :
    LET id == Len(built) + 1
        e == buildEnvelope(id, client[a].uri, to, ttl, text,
                           <<a, client[a].pair>>, keys) IN
    /\ id <= MaxLetters
    /\ client[a].pair > 0
    /\ built' = Append(built, [envelope |-> e, author |-> a, text |-> text,
                               signing |-> client[a].pair, encryption |-> keys[2]])
    /\ posts' = posts \cup {e}
    /\ UNCHANGED <<identity, client, rows, hand, opened>>

Admits(e, keys) == envelopeSchema(e) /\ Verifies(e, keys)

\* handlePush, which stores what it parsed.
Push(e) ==
  /\ posts' = posts \ {e}
  /\ \E keys \in PairsTold(e.from) \cup {NotTold} :
       rows' = IF Admits(e, keys) THEN rows \cup {e} ELSE rows
  /\ UNCHANGED <<identity, client, built, hand, opened>>

\* WHERE recipient_id = ?
RowsOf(u) == {e \in rows : e.to = u}

\* The envelope as another relay may hand it out: with the TTL it grants, with
\* addresses brought to one spelling, with a field of its own.
Rewritten(e, how) ==
  CASE how = "none"    -> e
    [] how = "ttl"     -> [e EXCEPT !.ttl_seconds = "hours"]
    [] how = "address" -> [e EXCEPT !.from = formatScutUri(parseScutUri(@)),
                                    !.to = formatScutUri(parseScutUri(@))]
    [] how = "field"   -> With(e, "relay_path", "here")

\* pickupFrom, and handlePickup at the relay.
Fetch(a, how) ==
  LET uri == client[a].uri
      challenge == pickupChallenge(uri) IN
  /\ client[a].pair > 0 /\ hand[a] = {}
  /\ verifyChallengeSignature(buildAuthorization(a, challenge), challenge)
  /\ hand' = [hand EXCEPT ![a] = {Rewritten(e, how) : e \in RowsOf(uri)}]
  /\ UNCHANGED <<identity, client, built, posts, rows, opened>>

\* receive, one envelope: returned, or dropped.
Open(a, e) ==
  /\ hand' = [hand EXCEPT ![a] = @ \ {e}]
  /\ \E keys \in PairsTold(e.from) \cup {NotTold} :
       opened' = IF Opens(a, e, keys)
                 THEN opened \cup {[by |-> a, id |-> e.envelope_id,
                                    from |-> parseScutUri(e.from),
                                    text |-> Decoded(e.ciphertext.bytes)]}
                 ELSE opened
  /\ UNCHANGED <<identity, client, built, posts, rows>>

\* ScutClient.ack of letters it returned, and handleAck.
Drop(a, ids) ==
  LET uri == client[a].uri
      challenge == ackChallenge(uri, ids) IN
  /\ ids # {}
  /\ verifyChallengeSignature(buildAuthorization(a, challenge), challenge)
  /\ rows' = {e \in rows : e.to # uri \/ e.envelope_id \notin ids}
  /\ UNCHANGED <<identity, client, built, posts, hand, opened>>

ReturnedTo(a) == {o.id : o \in {p \in opened : p.by = a}}

WireNext ==
  \/ \E a \in Agents :
       \/ \E u \in Uri : MakeIdentity(a, u)
       \/ PublishIdentity(a) \/ StartClient(a)
       \/ \E to \in Uri, ttl \in Ttls, text \in Texts : Write(a, to, ttl, text)
       \/ \E how \in Rewrites : Fetch(a, how)
       \/ \E e \in hand[a] : Open(a, e)
       \/ \E ids \in SUBSET ReturnedTo(a) : Drop(a, ids)
  \/ \E e \in posts : Push(e)

WireSpec == WireInit /\ [][WireNext]_wire

-----------------------------------------------------------------------------
(* What writer and reader may rely on. *)

\* A letter picked up was signed with keys that its author has published.  With
\* the keys that its reader is told of the author, from whatever cache, it opens
\* exactly when it is, field by field, what the author built, these keys are the
\* ones it was signed with, and the reader still uses those it was written to,
\* be they the latest or what the author was told out of a cache: JSON, the
\* relay's parser and its own TTL cap change nothing that is signed, and no
\* change by a relay of another make goes unnoticed.  What receive returns names
\* the author, and reads as written but for byte order marks and half surrogates.
OpensIffIntact ==
  /\ WireTypeOK
  /\ \A a \in Agents : \A e \in hand[a] :
       LET b == built[e.envelope_id] IN
         /\ b.signing \in published[b.author]
         /\ \A keys \in PairsTold(e.from) :
              Opens(a, e, keys) <=> /\ e = b.envelope
                                    /\ keys = <<b.author, b.signing>>
                                    /\ client[a].pair = b.encryption
  /\ \A o \in opened :
       LET b == built[o.id] IN
         /\ o.by = parseScutUri(b.envelope.to) /\ o.from = b.author
         /\ ~b.text.bom /\ ~b.text.lone => o.text = b.text

\* spec/SPEC.md:285 of the contract in a URI: 'case-insensitive on the wire'.
\* A pickup that an agent's client signs selects every letter addressed to the
\* agent, in whatever case its author typed the address.
AddressedIsPickedUp ==
  \A a \in Agents :
    client[a].pair > 0 =>
      {e \in rows : parseScutUri(e.to) = a} \subseteq RowsOf(client[a].uri)
=============================================================================
