-------------------------------- MODULE Registry --------------------------------
(***************************************************************************)
(* OpenSCUTRegistry (contracts/src/OpenSCUTRegistry.sol): an ERC-721 with  *)
(* one SII document URI per token.                                         *)
(*                                                                         *)
(* Transactions are sequential, but mint calls the receiver back, through  *)
(* _safeMint, before it has written the URI.  A receiver with code may     *)
(* call the registry again from there, itself or through other contracts,  *)
(* and may revert, which undoes its mint and all that happened within.     *)
(***************************************************************************)
EXTENDS Integers, Sequences

CONSTANTS
  Accounts,   \* addresses
  Contracts,  \* those of them with code
  Uris,       \* document URIs
  Empty,      \* the empty string
  Nobody,     \* the zero address
  MaxTokens,  \* tokens ever minted (bound)
  MaxDepth    \* mints under way at once, each within the last (bound)

ASSUME RegistryAssumption ==
  /\ Contracts \subseteq Accounts
  /\ Empty \notin Uris /\ Nobody \notin Accounts
  /\ MaxTokens \in Nat /\ MaxDepth \in Nat

VARIABLES
  next,   \* _nextTokenId
  owner,  \* ERC721._owners
  uri,    \* _identityURIs
  calls   \* mints waiting for onERC721Received, the innermost last

chain == <<next, owner, uri, calls>>

Tokens == 1..MaxTokens
Existing == {t \in Tokens : owner[t] # Nobody}
State == [next: 1..(MaxTokens + 1), owner: [Tokens -> Accounts \cup {Nobody}],
          uri: [Tokens -> Uris \cup {Empty}]]
Here == [next |-> next, owner |-> owner, uri |-> uri]

ChainTypeOK ==
  /\ Here \in State
  /\ calls \in Seq([token: Tokens, uri: Uris, before: State])

ChainInit ==
  /\ next = 1
  /\ owner = [t \in Tokens |-> Nobody]
  /\ uri = [t \in Tokens |-> Empty]
  /\ calls = <<>>

\* Who can call the registry now: within a callback, code only.
Sender(s) == calls = <<>> \/ s \in Contracts

\* mint: the counter and the owner change before the callback, the URI after.
Mint(s, to, u) ==
  /\ Sender(s)
  /\ next \in Tokens
  /\ u # Empty
  /\ next' = next + 1
  /\ owner' = [owner EXCEPT ![next] = to]
  /\ IF to \in Contracts
     THEN /\ Len(calls) < MaxDepth
          /\ calls' = Append(calls, [token |-> next, uri |-> u, before |-> Here])
          /\ UNCHANGED uri
     ELSE /\ uri' = [uri EXCEPT ![next] = u]
          /\ UNCHANGED calls

Outer == SubSeq(calls, 1, Len(calls) - 1)
Inner == calls[Len(calls)]

\* onERC721Received returned its selector: the rest of mint.
Received ==
  /\ calls # <<>>
  /\ uri' = [uri EXCEPT ![Inner.token] = Inner.uri]
  /\ calls' = Outer
  /\ UNCHANGED <<next, owner>>

RevertKeepingOwner ==
  /\ calls # <<>>
  /\ next' = Inner.before.next
  /\ uri' = Inner.before.uri
  /\ calls' = Outer
  /\ UNCHANGED owner

\* The receiver, or code it called, reverted.
Revert ==
  /\ calls # <<>>
  /\ next' = Inner.before.next
  /\ owner' = Inner.before.owner
  /\ uri' = Inner.before.uri
  /\ calls' = Outer

UpdateByAnyone(s, t, u) ==
  /\ Sender(s)
  /\ u # Empty
  /\ owner[t] # Nobody
  /\ uri' = [uri EXCEPT ![t] = u]
  /\ UNCHANGED <<next, owner, calls>>

\* updateIdentityURI; the URI of a token whose mint is under way counts too.
Update(s, t, u) ==
  /\ Sender(s)
  /\ u # Empty
  /\ owner[t] = s
  /\ uri' = [uri EXCEPT ![t] = u]
  /\ UNCHANGED <<next, owner, calls>>

\* ERC721.transferFrom by the owner.
Transfer(s, t, to) ==
  /\ Sender(s)
  /\ owner[t] = s
  /\ owner' = [owner EXCEPT ![t] = to]
  /\ UNCHANGED <<next, uri, calls>>

Calls(s) ==
  \/ \E to \in Accounts, u \in Uris : Mint(s, to, u)
  \/ \E t \in Tokens, u \in Uris : Update(s, t, u)
  \/ \E t \in Tokens, to \in Accounts : Transfer(s, t, to)

ChainNext == (\E s \in Accounts : Calls(s)) \/ Received \/ Revert

ChainSpec == ChainInit /\ [][ChainNext]_chain

-----------------------------------------------------------------------------
(* Properties. *)

\* Token ids are dense from 1, and a token has a document exactly when it
\* exists: whatever receivers do within mint, and whatever of it is undone, no
\* token is left without one.  Within mint, exactly a token being minted has
\* none yet, and scutIdentityURI says so with the empty string.
EveryTokenDocumented ==
  /\ Existing = 1..(next - 1)
  /\ \A t \in Tokens :
       uri[t] = Empty => t \notin Existing
                         \/ \E i \in DOMAIN calls : calls[i].token = t
  /\ \A t \in Tokens \ Existing : uri[t] = Empty

\* Code that runs within a mint cannot touch the tokens that accounts without
\* code held before: their owners and documents stay, however it calls the
\* registry back, and whatever is undone.
WalletsUntouched ==
  calls # <<>> =>
    LET before == calls[1].before
    IN  \A t \in 1..(before.next - 1) :
          before.owner[t] \notin Contracts =>
            owner[t] = before.owner[t] /\ uri[t] = before.uri[t]
=============================================================================
