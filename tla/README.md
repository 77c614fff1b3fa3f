# OpenSCUT in TLA+

A TLA+ development of the OpenSCUT repository: the relay, the resolver, the
registry contract, the registration service, the client library and its wire
formats, the command line, the monitor with the event stream it follows, and the
demo. Modules are translated from the source under `src/`, checked by TLC on
small instances, and proved about with TLAPS: every safety invariant, step property
and refinement of the passing runs is a theorem.
`PROJECT.json` names, for every definition, the lines it models.

Contents: [the system](#the-system), [modules](#modules),
[relay](#relay), [resolver](#resolver), [registry](#registry-contract),
[registration](#registration-service), [client](#client),
[wire formats](#wire-formats), [command line](#command-line),
[monitor](#monitor), [event stream](#event-stream), [demo](#demo),
[runs](#runs), [disagreements found](#disagreements-found), [proofs](#proofs),
[what is only model-checked](#what-is-only-model-checked),
[what is not modelled](#what-is-not-modelled), [plan](#plan).

## The system

An agent is a token of an ERC-721 contract. Its token URI leads to an SII
document with its Ed25519 signing key, its X25519 encryption key and the relays
it reads. A sender resolves the recipient's document, signs and encrypts an
envelope and pushes it to one of those relays; the relay resolves the sender's
document to check the signature and keeps the envelope until its recipient acks
it or its time is over.

| part | state | operations | hard behaviour |
|---|---|---|---|
| relay (`packages/relay`) | tables `envelopes` and `pickup_nonces`, `Keystore.cache`, requests in service, eviction timer, event streams | push, pickup, ack, events, eviction, start and stop | handlers interleave at their await; duplicates of signed requests; client clocks that differ; restart keeps the tables and loses the rest |
| resolver (`packages/resolver`) | a Map of documents by the key the client spelled, lookups in flight | resolve, fresh resolve; chain backend; file backend | overlapping lookups answered in any order; ages that add up; a body and its pointer read at two moments; a file edited while it is read |
| registry (`contracts`) | next token id, owners, URIs | mint, updateIdentityURI, transfer | mint calls its receiver back before the URI is written; reverts |
| registration service (`packages/register`) | tables `registrations` and `daily_counts`, the wallet's pending transactions | register, update, transfer | four awaits per registration; two overlapping mints that are one transaction; a transaction mined after its request was answered 502; RPC backends that lag; limits checked long before they are counted |
| client (`packages/core/src/client.ts`, `scut recv`) | the call under way, the cursor of `--watch` | send, receive, ack | answers lost after the request was served; relays that fail one by one or evict what was not yet seen; a cursor between two clocks |
| wire formats (`packages/core/src`: `agent-ref.ts`, `envelope.ts`, `encrypt.ts`, `auth.ts`) | none of their own | build, sign, verify and open an envelope; challenges and authorizations | several URIs of one agent, compared as typed in some places; keys replaced while a letter is at a relay, and told from caches; parsers that must not change what is signed |
| command line (`packages/cli`) | `config.json`, `keys.json`, what each process has read of them | init, relay add, remove and list, commands that use the identity | files written in place without a lock; a process killed between two writes; two processes at once |
| monitor (`packages/monitor`) | buffer of envelopes, reveal, reveal queue, overlay clock | apply events, pick and queue reveals, play them | a synchronous store under an asynchronous renderer; a buffer that drops what is being shown |
| event stream (`packages/relay/src/routes/events.ts`, `packages/monitor/src/sse.ts`) | subscribers, bytes on the way, the reader's buffer | subscribe, publish, heartbeat, read, close | chunks that end anywhere; a subscriber that has gone and is not yet known to have |
| demo (`packages/agents`) | the stack's start, the turns each scenario is through, the reveals shown; key and document files | boot, play the scenarios at once, reveal by script; draw keys | two processes with a schedule each and a person who starts both; a send that fails among ten, stored or not; a stream that ends and is not opened again; a run cut off between two files |

How they interact: client and service talk to relay and resolver by HTTP; the relay
asks the resolver for the sender's key at each cache miss; the resolver asks the chain
by RPC; the service sends transactions to the registry; the monitor follows the
relay's event stream; the demo is a client of the relay and writes the monitor's
script; all commands of one person share two files. Nothing is transactional across
two of them, so most properties bound how far one may be behind another.

What makes each correct:

* relay: a signed request takes effect around the time it names and not again within
  the nonce window; a signature is checked with a key that is not older than the
  caches allow; one row per envelope id; a row leaves by its recipient's ack or by
  eviction, in time; stream and table agree.
* resolver: every answer was true at a moment not longer ago than the cache and the
  registry allow, and an answer to `fresh` at a moment the registry allows.
* registry: every token that exists between transactions has a document; nobody
  changes a token of another wallet.
* service: a token is granted once; rows are written for what is on chain; limits
  hold; keys and custody in the table follow the chain and never run ahead.
* client: what `send`, `receive` and `ack` report is what the relays hold, and an
  envelope is held until it is shown or its lifetime is over, and nothing the cursor
  has not passed waits for ever.
* wire formats: a letter opens exactly when nothing that was signed has changed and
  the keys told of its author and in use at its reader are those it was written with.
* command line: config and keys are of one init; the relay list is what was added and
  not removed; nothing but `--force` costs a key.
* event stream: a reader is told each event since its subscription, once and in order.
* demo: turns are stored in their order, a reveal shows its own scenario if the
  operator is in time and its envelope was heard and decrypted, and the play ends;
  keys are not newer than the documents.
* monitor: lines tell what the relay holds; reveals come one at a time and every
  queued one comes while the buffer keeps what is shown.

## Modules

```
Mailbox      <- implemented by -  Relay  <- implemented by -  KeyPath (Relay + Resolver)
Directory    <- implemented by -  Resolver, SiiRegistry, JsonRegistry
Registry     <- extended by    -  Register
Client, Wire, CommandLine
Monitor, EventStream, Demo, Keygen
```

| module | models |
|---|---|
| `Mailbox` | abstract: what a relay promises its clients |
| `Relay` | the relay process |
| `RelayProofs` | theorems about it, and about it with the resolver |
| `Directory` | abstract: what a source of documents promises, with its age as a parameter |
| `Resolver`, `ResolverProofs` | the resolver's route and cache; theorems |
| `SiiRegistry`, `SiiProofs`; `JsonRegistry`, `JsonProofs` | the two backends of the resolver; theorems |
| `KeyPath` | relay and resolver composed |
| `Registry` | `OpenSCUTRegistry.sol` with its callbacks |
| `Register` | the registration service on the registry |
| `RegisterProofs` | theorems about the contract and the service |
| `Client` | `ScutClient` and the loop of `scut recv --watch`, over several relays |
| `Wire` | a letter from the address somebody typed to the ack: URIs, envelopes, signatures, authorizations |
| `ClientProofs` | theorems about `Client` and `Wire` |
| `CommandLine`, `CommandLineProofs` | processes of `scut` over the files of `~/.scut`; theorems |
| `EventStream` | the relay's event bus and the route that writes it out, and the reader that puts frames together |
| `Demo` | `run-demo`, its scenarios and a monitor that runs their reveal script |
| `Keygen` | `generate-demo-keys` and the operator who hosts what it wrote |
| `Monitor` | the store, orchestrator and overlay of the monitor |
| `ShowProofs` | theorems about `Monitor`, `EventStream`, `Demo` and `Keygen` |

`MC*` modules only hold instances for TLC. Three of them (`MCResolver`,
`MCCommandLine`, `MCDemo`) extend several modules that share no state and look at one
of them at a time: a step of one is possible only while the others are as they began,
so that the state spaces add up and do not multiply.

Each module has one type invariant, which is a theorem, a lemma of one, or a conjunct
of an invariant that TLC checks.

A definition that differs from its
neighbour in one slip (`RememberedBriefly` beside `Remembered`, `AckStops` beside
`AckAnswered`) is a variant that no specification uses: put in place of its
neighbour it breaks the property `PROJECT.json` pairs it with, which shows that
the property can fail.

## Relay

One Node event loop: a handler runs alone but where it awaits. push, pickup and
ack await once, in `Keystore.getSigningPublicKey`, so a request is

| step | code |
|---|---|
| `Begin` | schema, `assertFreshTimestamp`, cache lookup |
| `Answer` | the resolver's HTTP answer (or `Refuse`) |
| `Fill` | `cache.set`, back from the await |
| `ServePush`, `ServePushKnown`, `RefuseNonce`, `RefuseSince`, `ServePickup`, `ServeAck` | signature check and the synchronous database calls |

`Evict` is the interval timer, `Subscribe`/`Unsubscribe` the event stream,
`Stop`, `StopAfterClaim` and `Start` an exit (also one between two database
calls) and a start on the same file. A message once on the `wire` may be handled
never, once or many times, at any moment. A signature is the record of the
signed fields and of the key version it was made with; it verifies under that
version only. `used` and `delivered` are history for the properties.

A pickup signs neither `since` nor for how long it is meant (`auth-header.ts`), so
`Authorize` leaves `since` out of the signed request and each delivery may name
another.

The relay is checked and proved to implement `Mailbox`: an envelope enters once
and unchanged, leaves only by its recipient's ack or by its time, and a request is
honoured only around the time it names and not again within the nonce window.
That is not once. A nonce is forgotten `NonceWindow` after it was seen, a timestamp
is accepted until `Skew` after the time it names, and a client whose clock is ahead
names a time up to `Skew` later than the relay's. Nothing in the code relates the
two limits; `config.ts:27-28` makes both 300 seconds. `HonouredSeldom` says what this
comes to for any two values: `(times - 1) * (NonceWindow + 1) <= 2 * Skew + Latency`,
with the shipped ones twice, and a third time only if a request also waits two
seconds or more for the resolver; once, with a window of `2 * Skew + Latency`.
That it does happen twice is the run `replay`, whose property `HonouredOnce` is what
`spec/SPEC.md` promises.

Assumed of the environment: `Tick` lets a request stay in service at most
`Latency` and a due timer fire before time goes on (the event loop keeps up; the
proofs hold for every value of `Latency`); the database is a file (a stop loses
no committed row); the resolver's answer is at most `Stale` old, which `KeyPath`
discharges with the resolver itself.

## Resolver

`Resolver` is `routes/resolve.ts`: entries per spelling of a ref, `Serve` for a
hit, `Ask` and `Found`/`NotFound`/`Failed` around the await of the registry, and
`Restart`. It implements `Directory` with age `RegistryAge + Ttl`, and
`RegistryAge` for fresh requests, if its registry implements `Directory` with age
`RegistryAge`. The constant `Sure` of `Directory` says whether an answer "not found"
is part of that promise. Over the file backend it is. Over the chain backend it is
not: `sii.ts:69-75` takes every failed call whose text matches `nonexistent` or
`reverted` for an unminted token, and the RPC client words an internal error of the
node as a revert (`SiiRegistry!Unminted` may follow any failed call). The run
`sii_failure` shows a minted token answered 404 that way.

`SiiRegistry` implements that for `data:` URIs, with age the lag of the RPC and one
call (`DataIsDirectory`). For a hosted body pointer and body are read at two moments,
and no single instant need have had the pair; what holds is `PointedAndHosted`, of the
lookups that return a document: each was true at its own moment, and the document
names the agent asked for. `JsonRegistry` implements `Directory` with age `ReloadEvery
+ ReadTime` over a file that is only replaced whole (`FileIsDirectory`). While the file
is broken the last whole content is served (`WholeContents`, `StaleOnlyWhileBroken`).

`KeyPath` runs the relay with the resolver in place of `Answer`; it implements
`Relay` with `Stale = RegistryAge + ResolverTtl`, so the
bound of `KeysFresh` adds up the two caches.

## Registry contract

`Mint` pushes a frame on `calls`; while it is there the receiver's code may call
the registry again (`Calls`, nested up to `MaxDepth`), then `Received` writes the
URI, or `Revert` puts back the state of before. `EveryTokenDocumented` and
`WalletsUntouched` are about states between transactions and about every step.
`transferFrom` and ownership are OpenZeppelin's and modelled as used.

## Registration service

`Begin*` are the checks before the first await, `Submit` and `Mined` (or
`Reverted`) a transaction of the wallet, `Visible` the polling of `ownerOf`,
`Fail` the 502 of any await that rejects (`GiveUp`), with or without its transaction
being mined later, `Registered`/`Updated`/`Transferred` the synchronous ends.
`Restart` and `RegisteredUncounted` are exits, the latter between the insert of a
row and the increment of the day's count, which are two statements. `CatchUp` is
a lagging RPC backend. `CapBounded` states by how much the daily cap can be
exceeded: the requests in service at once and the counts lost to exits.

`registry-client.ts` sends with the nonce the node counts and manages none of its own.
Two sends that overlap may draw one; when they say the same, as two mints do, they are
one transaction with one hash, and both handlers read the same token from its receipt
(`Share`; a transaction has a set of `waiters`). The two agents' documents are then
written one over the other, the second row fails on its primary key, and the first
may be that of the document which was overwritten. So what holds
is `GrantedOnce`: the row of a token stays the one first written, and its key changes
only by a mined update of that token. The row's key is one the documents have named
(`KeysWerePublished`), not always the last one: an update whose receipt was given up
on is mined all the same, and the row keeps the old key (`RowMatchesChain`, among the
[disagreements](#disagreements-found)). Custody follows likewise: `handed` has the
tokens of which the service's transfer was mined, to whatever address (its own included), and
`CustodyRecorded` says that a row never says so too early and lags for good only when
a request for that transfer was given up on or cut off (`gaveUp`).

## Client

`Client` has one recipient with several relays, senders, and requests that the
network may lose, deliver after the caller gave up, or serve without the answer
coming back. `Resolve`, `Accepted`, `NextRelay`, `Conflict` and `Unreachable` are
the loop of `send`; `BeginPoll`, the pickups and `EndPoll` are `receive` with
`pollOnce` around it; `BeginAck` to `EndAck` are `ack`, which in the command line
is another process and so runs beside a poll. Each fetch is a step, with the
outcomes: answered ok, another status, rejected. `Faults` bounds how often
anything but the first happens. `Evict` is a relay's `evictExpired`, at any time from
`Ttl` after the row was stored.

`SentIsHeld` therefore promises an envelope until its recipient has been shown it or
its lifetime is over. `NothingWaits` is what `recv --watch` gives: what a relay it
polls holds and its cursor has not passed is shown, or goes. That the cursor may pass
what was never shown is the run `client_watch`; that a send ends at the first relay
that is down, with others untried, is `FallbackTried` among the
[disagreements](#disagreements-found).

## Wire formats

`Wire` follows a letter. `MakeIdentity` is `scut init`, `PublishIdentity` the minted
or updated document, `StartClient` a process that loads the identity; each may
happen at any moment, so that the pair in a document, the pair of a running client
and the pair a letter was written to are three things. `Write` is `ScutClient.send`
up to its push (`buildEnvelope`, `encryptBody`, `canonicalBytesForSigning`), `Push`
the relay's `handlePush` with its schema, `Fetch` the pickup with its authorization,
`Open` one turn of `receive` with `openEnvelope`, `Drop` the ack.

A URI is an agent and a spelling: canonical, as `formatScutUri` writes it, or with a
contract in another case. `parseScutUri` forgets the spelling, a comparison of two
URIs as text does not. A signature is the record of what was signed, so that whatever
a parser drops, adds or changes shows. The TTL is one that the writer lets through and
the relay's schema does not, or the other way round: zero, or half a second. A lookup,
be it the relay's or the reader's, tells any pair that the document has named so far
(`PairsTold`) or none: `Keystore.cache` and the resolver keep earlier documents for a
while, and how long is `Relay`'s and `Resolver`'s matter. So a letter of an author who
has just changed keys may be refused and one with the old keys let in, a case that
`spec/SPEC.md:301` leaves for later; `OpensIffIntact` says of each pair that may be
told whether the letter opens with it. `Rewrites` is what a relay of another make
might do to what it hands out. Texts have a byte order mark or half a surrogate pair,
which `TextDecoder` and `TextEncoder` change: `OpensIffIntact` says that nothing else
is changed.

`Known` is what the resolver finds. With the chain backend that is every spelling;
the file backend looks the ref up as it stands and finds the spelling in its file, so
that `Known = {"canonical"}` is the same system with fewer letters.

## Command line

A command is a process of its own, and a step is what it does between two awaits:
`Check`, `OpenKeys`, `WriteKeys` for `init`; `Load`, `OpenConfig`, `WriteConfig` for
the relay commands, of which `relay list` has the first only; `Load`, `ReadKeys`,
`StatKeys`, `Call` for those that use the identity. `fs.writeFile` empties a file
when it opens it and writes afterwards, so writing is two steps, and what another
process has written between them stays where it is longer (`Overwritten`). `Cut` is
a kill or a full disk in a writer, `Chmod` somebody who changes the mode.

A relay list or a resolver may be one the schema of the config refuses (`sound`),
since `init` and `relay add` save it without asking. Exit codes are those of
`EXIT`; what a command throws is 1.

`calm`, `alone` and `duel` are history: nothing is promised while two writers
overlap, for nothing is locked. The properties say what holds again afterwards.

## Monitor

`Received`, `Acked`, `Expired` are the events that reach `MonitorStore`; `Fire`
and `Decrypted`/`Undecrypted` the two halves of `pickAndQueue` around its await;
`Render` is React committing what the store holds; `Advance` and `Done` the clock
of the overlay, which exists only while the overlay is mounted. `EndReveal`
includes the whole synchronous cascade: notify, `popQueue`, `startReveal` of the
next.

## Event stream

`Monitor` takes events as they come. `EventStream` is how they do: `Publish` calls
every subscriber within the step that changed the table (what is told, and that it
agrees with the table, is `Relay`'s matter), `Subscribe` compares the token and
writes a comment, `Heartbeat` another. `Read` is one turn of the loop of
`subscribeToEvents` with a chunk of any length: the buffer grows by the chunk, and as
long as there is an empty line (`FrameEnd`, the loop's `indexOf`) the frame before it
is taken off and its data line told (`Told`); what follows the last stays in the
buffer. `Drained` is that inner loop, a recursive function of the position it has come
to. A line of JSON is two tokens, which stand for the halves of anything a chunk may
end in, a character included (the decoder is told that more is coming). `Break` is the
end of either side or of the network between, `Cleanup` the relay's noticing it.

## Demo

`Boot` is `startDemoStack`, `Enter` the prompt, `Send`, `Accept` and `Fail` a turn of
`runScenario` around its await, `Complete` and `Shutdown` the ends of `main`;
`Connect` is the operator who starts the monitor in another terminal and `Reveal` a
timer of the script. A turn may be stored although its send failed or the process has
ended (`Late`). The monitor's stream may end, after which it is not opened again
(`Sever`, `broken`), and what the relay stores before or after is `missed`. A reveal
whose envelope does not decrypt shows nothing (`unread`): the keyring lacks the key,
the resolver that came with `run-demo` has ended (`Opens`), or a call failed. The
table of scenarios is that of `scenarios.ts`, in its milliseconds; time goes by in
units of `Unit`. In which of its modes the demo was called decides which relay the
letters go to (`Route`) and which one the printed command has the monitor listen to
(`Listening`).

`RevealsOwn` is about an operator in time: the monitor connects between the start
of the stack and the first turn, and enter is pressed by then. Then an entry shows its
own scenario's envelope, unless that one was missed or not decrypted; and in no case
does it show one of a later turn, although an entry that showed nothing leaves its
envelope for others. Without an operator in time it fails; see below.

`Keygen` is a loop that writes a document per agent and the file of all keys at the
end, and an operator who hosts documents after a run that ended. `Cut` may end it at
any write.

## Runs

Passing runs (each takes from seconds to four minutes):

| run | question | bounds and why they are enough |
|---|---|---|
| `relay` | how often is a request honoured, is there one row per id, is eviction in time, does the stream agree with the table, is the relay a `Mailbox`? | two agents whose envelopes share one id and cross, bob's polls (one mistyped) and ack under one nonce, two handlers that are symmetric, no key rotation (those are in `key_path`), one subscriber, skew and nonce window of one tick each, equal as they are shipped, clients whose clock is right or ahead by the skew: within two ticks a nonce is purged, a row expires and is evicted, the process stops and starts, and a duplicate meets each of these, also while its timestamp is still accepted |
| `key_path` | how old can the verifying key be, and does the resolver keep what `Relay` assumes of it? | two key versions, two handlers racing on the relay's cache (they are symmetric), lifetimes and the registry's age of one tick, five ticks: both caches are filled late and expire, and there is time for one more. The view leaves out history the two properties do not read |
| `resolver` | is the resolver a `Directory`? Does a lookup on the chain that returns a document return what its agent's entry led to? What does the file backend answer while it reloads and while it fails? | route: two spellings of one agent, two lookups, two publications, time one beyond `RegistryAge + Ttl`. Chain: two agents, `data:` and hosted documents, one of them no SII, two lookups, two changes, an RPC that lags, and time for a change before, within and after a lookup. File: two lookups that overlap, two edits, a file that may be broken, time for two reloads. Lookups in flight are symmetric |
| `register` | do table, wallet and chain agree, and does the contract keep its promises under reentrant mints? | two handlers, two keys, one name, another wallet, an account with code whose mints nest two deep, one exit, midnight within the time, three requests, transfers to any address: two registrations overlap, in two transactions or one, or an update and a transfer of one token |
| `client` | do send, receive and ack report the truth, and does `recv --watch` leave nothing waiting? | two relays of which one may be dropped from the document, a lifetime of two ticks, two faults: a copy at each relay, an ack that one refuses, an eviction before the first poll and after it |
| `command_line` | what do the two files hold after commands that were cut off or refused, and which commands find them broken? When does a letter open? | two processes, five commands, one fault, two relay hosts with two priorities: an init, two adds and a removal, any of them cut off, and a command that reads between. For the letter two agents with two key pairs each: one letter meets a key that was replaced at either end before or after every one of its steps, and lookups that tell the old one or none |
| `demo` | does the demo end, in order, with the reveals it promises? Do the monitor's lines tell the truth, and does every queued reveal start? Does a reader of the stream miss or repeat an event? Which keys and documents end up together? | demo: the first three scenarios, two of which have sender and recipient in common, in three modes, one call that may fail, a stream that may end, an operator who may come at any unit of the play; eight units of four seconds: the third reveal is due eight after the monitor connected, so that all three are seen if it connects with the start and two if it connects in time but later. Monitor: two ids over three arrivals, a buffer of two, two timers that may pick the same envelope. Stream: two events, two readers, a heartbeat each, chunks of every length. Keys: three agents, three runs, two cut off |

Runs that TLC must find violated, each a disagreement of the code with a text of
the repository and an entry under `findings`:

| run | what the code does |
|---|---|
| `replay` | a pickup or an ack of a client whose clock is ahead is honoured again once its nonce was purged |
| `sii_failure` | a failed call whose text says reverted is answered 404 for a minted token |
| `client_watch` | the cursor of `recv --watch` passes an envelope stored during the poll, which is never fetched |
| `monitor_full` | a reveal queued behind another ends at the first tick |
| `address` | a letter to an address typed in another case than the recipient's own config has it is accepted, and the recipient's pickups do not select it |

Fairness is assumed in three places. `Monitor!Fairness`: decryption settles,
React renders what it was told, the overlay's interval ticks and its end is
handled; nothing is assumed of the stream or of the timers. `Client!FairSpec`: the
loop of `recv --watch` (`for (;;)`) begins its next poll, pickups are answered once
the finitely many faults are used up, and a call that has asked every relay
returns; nothing is assumed of senders, acks and evictions. That loop moves the cursor,
so the runs that assume it have `Watch = TRUE`. `Demo!DemoFairness`: time goes by,
timers that are due fire, a push is answered or fails, and
`runAllScenarios` returns when the scenarios have; nothing is assumed of the
operator. All other specifications are safety only.

`CHECK_DEADLOCK FALSE` stands where the model's clock or its bounded inputs end,
after which nothing need happen.

## Disagreements found

Beside the five runs above, these statements of the repository's texts are
written down at the end of the modules named. No run checks them; TLC refutes each
when it is added to the configuration named.

| statement | source | what the code does |
|---|---|---|
| `Relay!NothingPastTtl`, as a PROPERTY of `relay.cfg` | `spec/SPEC.md:552`, among what relays MUST NOT do: 'Retain envelopes past the TTL' | `repo.ts:58` does not look at `expires_at`: a row is picked up until the next eviction |
| `Resolver!ForeignIsBadRequest`, in `resolver.cfg` with `Foreign = {"upper"}` | `spec/SPEC.md:537`: a resolver 'responds `400` to a `ref` with `chainId=1` (Ethereum mainnet), not `502`' | the route's catch (`resolve.ts:42`) answers every throw 502 |
| `JsonRegistry!SeesEdits`, in `resolver.cfg` | `packages/resolver/src/registry.ts:17`: 'Reloads the file on mtime change' | the file is reloaded by age (`registry.ts:51`); `watch` is called by nobody |
| `Register!RowMatchesChain`, in `register.cfg` | `site/skill/SKILL.md:169`: 'The agent can update its own SII document by sending a signed update request' signed 'with the agent's signing key' | the key in the row changes only after a receipt has been seen (`update.ts:74`): an update answered 502 whose transaction is mined later leaves the old key in the table, with which the next update is verified |
| `Register!CapHolds`, in `register.cfg` | `site/skill/SKILL.md:179`: '1000 registrations across the service per day' | the cap is read before the mint and counted after the update; `CapBounded` says how far it can be exceeded |
| `Register!OneNamePerDay`, in `register.cfg` with `PerDay = 9` | `site/skill/SKILL.md:178`: '1 registration per `displayName` per day' | nothing reserves the name between the check and the insert |
| `Register!VisibleEverywhere`, in `register.cfg` with two `Backends` | `packages/register/src/registry-client.ts:48`: 'ownerOf(tokenId) is observable to all RPC backends' | the polling ends at the first backend that knows the token |
| `Client!FallbackTried`, in `client.cfg` | `spec/SPEC.md:95`: 'If step 4 fails (relay unreachable, relay rejects), Alice's client tries the next relay in Bob's priority list' | `fetch` rejects for a relay that is down and nothing in the loop (`client.ts:96`) catches it: the send ends with the next relay untried |
| `Monitor!QueuedAlwaysFires`, in `monitor_full.cfg` with `SPECIFICATION FairSpec`, a third id that is readable, `MaxArrivals = 3` and `Cap = 2` | `packages/monitor/README.md:78`: 'a queued reveal fires only after the previous reveal completes' | the overlay, which alone ends a reveal, is mounted only while the buffer has its entry: once that is pushed out (`store.ts:41`), the reveal never ends and no queued one starts |
| `Demo!RevealsAsTold`, in `demo.cfg` | `packages/agents/src/run-demo.ts:188`: the monitor must be connected before enter, or the reveals 'will fire into nothing' | connecting first is not enough: turns are due at offsets from the start of the stack (`orchestrator.ts:176`), reveals at offsets from the start of the monitor, so that with a late enter turns of two scenarios are sent at once and a reveal shows the other's envelope, or none |
| `Demo!StaysLocal`, in `demo.cfg` | `packages/agents/src/run-demo.ts:18`: with `--on-chain` alone traffic stays local | recipients are resolved on chain, and their documents name the public relay (`orchestrator.ts:217`) |
| `CommandLine!RoundTrips`, in `command_line.cfg` | `packages/cli/test/e2e.test.ts:82`: relay add, list and remove round-trip | `relay add` saves a `--priority` that is no integer (`relay.ts:44`), and no later command loads the config |
| `CommandLine!WrittenPrivate`, in `command_line.cfg` | `packages/cli/README.md:63`: the files have mode 0600 | the mode is given to `writeFile`, which applies it to files it creates: `init --force` leaves that of an existing one |
| `CommandLine!UnreachableIsNetwork`, in `command_line.cfg` with `send` among `Uses` | `spec/SPEC.md:739`: 3 for 'all relays unreachable' | `fetch` rejects, nothing between it and `main` catches it, and the code is 1 |

## Proofs

For every value of the constants that the named assumptions allow:

| theorem | statement | argument |
|---|---|---|
| `TypeCorrect` | `Spec => []TypeOK` of the relay | one step per action |
| `RequestsHonouredSeldom` | `HonouredSeldom`, for any skew and nonce window | it is not inductive. `NonceInv` adds that a nonce is drawn for one request (`OneRequest`), whose honoured uses lie a window apart between the first and the last moment its timestamp allows, and that the row of the last use is in the table unless it is older than the window (`NonceKept`); `InTime` bounds how long a handler has been in service |
| `VerifiesWithFreshKeys` | `KeysFresh` | `KeyInv`: the age of cached keys (`CacheAge`), of answers on their way (`AnswerAge`) and of keys about to verify (`VerifyAge`); `CurrentSince` is monotone in its bound and stable under `Rotate` |
| `OneRow` | `OneRowPerId` | inductive with types |
| `EvictedInTime` | `RetentionBounded` | `TimerArmed` and `AwaitsTimer`: the timer is at most one interval ahead, and every row waits for a firing less than one interval after its expiry |
| `ViewsAgree` | `ViewAgrees` | with `Dated`: rows and subscriptions are not from the future, so rows received since the subscription are those it was told of |
| `ImplementsMailbox` | the relay implements `Mailbox`, whatever its skew, window and caches | every step is a step of `Mailbox` or a stutter; `NonceInv` shows that a successful claim comes a window after the last one |
| `ResolverTypes`, `EntriesAreHonest` | types; a cached document was published `RegistryAge` before its `fetched` | `IInv` adds that no entry is from the future |
| `ResolverIsDirectory` | the resolver implements `Directory`, with "not found" as sure as its registry's | a hit is younger than `Ttl`; step simulation under `IInv` |
| `SiiTypes`, `LookupsAreLed` | types and `PointedAndHosted` of the chain backend | `InService` keeps, for a lookup that fetches, that its host was the entry within `Lag + CallTime` of the start of the fetch; `PointedKept` and `HostedKept`: what was true since some moment stays so |
| `DataIsDirectory` | if `Hosts = {}`, the chain backend implements `Directory` with age `Lag + CallTime`, "not found" excepted (`Sure` is false) | then no lookup fetches; a document of another agent is mapped to one that nobody may return |
| `JsonTypes`, `MapIsWhole`, `AnswersAreFresh` | types, `WholeContents` and `StaleOnlyWhileBroken` of the file backend | `MapOK`: the map was the file at most `ReadTime` before `lastLoadedAt`, though reads overlap; `InService`: a finished read saw the file since it began |
| `FileIsDirectory` | if `Edits \subseteq Files`, the file backend implements `Directory` with age `ReloadEvery + ReadTime` | `AnswersAreFresh`, whose exception then never applies |
| `PathIsRelay`, `PathKeysFresh` | the relay with the resolver (`KeyPath`) implements `Relay` with `Stale = RegistryAge + ResolverTtl`, hence `KeysFresh` end to end | `PathInv`: an entry of the resolver was published `RegistryAge` before it was fetched (`EntriesAge`), said in the relay's terms (`DirectoryIsKeys`); then each reply is an `Answer` and every step a step of `Relay` |
| `PathIsMailbox` | the relay with the resolver implements `Mailbox` | `PathIsRelay` followed by `ImplementsMailbox` |
| `TokensDocumented`, `WalletsStay` | `EveryTokenDocumented` and `WalletsUntouched` of the contract, for mints nested to any depth | what is true of the present state is not inductive, since `Revert` brings back an old one. `ChainInv` and `WalletInv` say it of each state saved in `calls` too, with the calls that were then under way |
| `RegisterUsesRegistry`, `ServiceTokensDocumented` | the service implements `Registry`, whose invariants so hold of the contract it uses | each step is one of the contract's or leaves the chain alone |
| `TokensAreGrantedOnce` | `GrantedOnce`, shared mints included | `JobsInv`: each request in service is about what it began with, and waits for one transaction, which says the same |
| `RowsAreDocumented`, `RowKeysWerePublished`, `CustodyIsRecorded` | `RowsDocumented`, `KeysWerePublished`, `CustodyRecorded` | `RowsInv`: what a request has seen mined (`Receipt`) stays so until its row is written, though another request or an exit comes between. `OwnInv`: the token of a registration is the service's or in a row. `AsideInv`: other mints, which may be undone at any moment, do not touch the service's tokens. `CustodyInv`: a transfer that nobody waits for is of a token in `gaveUp` |
| `CapStaysBounded` | `CapBounded` | `CapInv`: the day's count together with the registrations in service that began today and can still be counted is at most the cap and one request less than there are handlers |
| `FilesArePair`, `ListStaysKept` | `OnePair`, `ListKept` | `AloneInv` says who may be at the files with whom, `PairInv` and `ListInv` what a writer that is alone has in hand while the files are not whole |
| `KeysAreNotOlder`, `KeysNeedForce`, `CommandsAreServed` | `KeysNotOlder`, and the step properties `UnforcedKeepsKeys`, `Served` | `AgeInv`: each copy of the config, on disk or in a process, against the keys and against the init under way |
| `SentStaysHeld`, `ShownOncePerCall`, `CallsAreComplete`, `AcksClear` | `SentIsHeld`, `OncePerCall`, `CallIsComplete`, `AckClears`, for any number of relays and faults | `SendInv`: what a send still counts on is not lost but by its time (`Kept`). `PollInv`: each envelope that is due is opened or waits at a relay the call has yet to ask. `AckInv`: a relay that was asked has only copies younger than the call |
| `LettersOpenIffIntact` | `OpensIffIntact`, for each pair that a lookup may tell | `WireInv`: each envelope at a relay, handed out or opened goes back to a letter as `buildEnvelope` made it, and two envelopes with one signature that signs the same bytes are one |
| `RevealsSerialized`, `StatusesAgree` | `Serialized`, `StatusAgrees` | both are inductive with types; `Agree` states the second for any lines, so that a line appended, marked or pushed out of the buffer is a lemma each |
| `TurnsInOrder` | `InOrder`, for any table of scenarios | `DemoInv`: the relay has the turns that each scenario is through with, each once in its line |
| `RevealsShowTheirOwn` | `RevealsOwn` | `TimerInv`: no reveal before or after its time; `LogInv`: if enter came in time the relay has what was due before now, its lines in the order of the offsets. By `SpacingAssumption` every later turn of the same two agents is due after the reveal, so that the latest one not yet revealed is the entry's own unless that was missed, and no other entry takes it from it |
| `KeysNeverNewer`, `HostedKeysKept` | `KeysNotNewer` and the step property `KeptUntilDone` | `DrawInv`: which documents are of the run under way |
| `HeardAsPublished` | `HeardInOrder`, for any events and chunks that end anywhere | `HearInv`: what a reader was called with, followed by what buffer and wire together still tell, is what is due to it; `Telling` is the least relation between texts and the events they tell, so that a fact about all texts needs no recursion. `DrainedFacts`: the recursive function of the loop exists on every text. `Draining`: on a text cut anywhere the loop tells the frames that are whole and keeps the rest, from the end of the text backwards by a least position |

Assumptions are on constants only, each named in the module that declares them and
evaluated by TLC on every run. Most say that durations and bounds are natural numbers
and that messages have their fields (`SizesAssumption`, `MessagesAssumption`,
`ResolverAssumption`, `SiiAssumption`, `JsonAssumption`, `KeygenAssumption`,
`MonitorAssumption`, `WireAssumption`, `CommandLineAssumption`, `RoutesAssumption`,
`RegistryAssumption`, `EventStreamAssumption`). Those that say more:

* `KeyPathAssumption`: `Stale` is what `KeyPath` shows of it.
* `RegisterAssumption`: handlers are finitely many, and none is the placeholder of a
  transaction that nobody waits for.
* `DemoAssumption` and `SpacingAssumption`: the table of scenarios has its turns in
  order and each reveal after its own turn, and the turns of other scenarios that share
  sender and recipient are due before that turn or after the reveal. TLC evaluates both
  on the first three rows of `scenarios.ts`, in the run's unit of four seconds; they
  hold of the whole table too, in units of 1, 100, 500, 1000, 2000 and 4000 ms.
  `RevealsShowTheirOwn` alone uses the second.

Least elements of sets of numbers, which `Min` of the community modules chooses, come
from `WFMin` of the library (`LeastNumber`). So do the inductions over positions in a
text: a statement that fails somewhere has a first or a last place where it does.
Induction over texts is had from a least relation (`TellingLeast`), since the library's
induction theorems have an operator as a parameter, which no installed prover
instantiates.

## What is only model-checked

* Liveness under fairness (`QueuedFires`, `NothingWaits`, `Ends`), which is out of the
  prover's reach, as is anything with `ENABLED`.
* The properties of the five runs that are violated.

No module here declares a `RECURSIVE` operator.

## What is not modelled

* Parsing, schema checks, status codes and texts of errors, but where a property
  is about them; HTTP itself; health and capabilities routes.
* Cryptography. Signing, sealing and opening are exact: they succeed with the
  right key and fail with any other.
* Rate limits per IP, which a Fastify plugin applies before a handler, and the
  per-sender limit, which the relay's configuration has and no code applies.
* The relay on `:memory:` (the default of `SCUT_RELAY_DB`), for which a restart is
  a new relay; power loss that undoes a committed SQLite transaction.
* Settings that nothing reads: `SCUT_RELAY_MAX_TTL_SECONDS` is documented at
  `packages/relay/README.md:63` and not read by `loadConfigFromEnv`; the minimum TTL of
  the specification's section 7.3 is not enforced.
* OpenZeppelin's approvals, chain reorganisations, replacement transactions. Of two
  transactions that draw one nonce and say different things, the later is taken to be
  refused by the node (`Fail`); two that say the same are one (`Share`).
* A mint or a transfer of a token to the service's own wallet by others, which `Others`
  leaves out.
* That `run-demo` or a monitor is started a second time.
* The characters of the monitor's morph and its layout, and keyring files.
* Of the wire formats, the size limits, the grammar of URIs and of the authorization
  header, and the encoding of `data:` URIs.
* That `scut recv` polls the relays of its own config and senders push to those of
  the published document: keeping the two alike is left to the person.
* That in auto mode a reveal is queued at every interval though the one before may
  not have ended (`packages/monitor/src/orchestrator.ts:64`): the queue then grows as
  long as the process lives. `MaxQueue` bounds it.
* The animation of the site (`site/demo/monitor.js`), which shows made-up lines and
  takes nothing from a relay; the spikes under `scripts` and `spike`; deployment of
  the contract.
* Install and update scripts, whose effect on the services is a stop and a start at
  any moment.

## Plan

Done: `Mailbox`, `Relay` and its proofs; `Directory`, `Resolver`, the two backends
and their proofs, `KeyPath`; `Registry`, `Register`; `Client`; `Wire`;
`CommandLine`; `Monitor`, `EventStream`; `Demo`, `Keygen`.

Proved: each safety invariant, step property and refinement that a passing run checks.

Next, in this order:

1. `Client` over `Mailbox`: the tables of `Client` shown to be those of `Mailbox`, one
   for each relay.
2. The grammar of refs and headers as functions, and the phases of a reveal.
