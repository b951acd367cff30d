# Torrentia: a TLA+ verification project

Torrentia distributes AI models peer to peer and pays creators and seeders per
chunk on chain. This directory models the parts of it whose correctness depends
on the order in which things happen, checks them with TLC, and proves their
main invariants with TLAPS.

## 1. The system

| Component | Code | State | Operations |
|---|---|---|---|
| Signaling hub | `signaling/internal/ws/{hub,peer}.go`, `signal/relay.go` | routing map, per connection: identity, wallet, send buffer, closed flag | accept (with or without session token), register, heartbeat, announce, query, relay, unregister |
| Relay between replicas | `ws/hub.go`, `signal/relay.go` | each replica's sockets, a Redis channel | forward, publish, deliver |
| Tracker | `signaling/internal/tracker/tracker.go` | model -> peer -> wallet, chunks, last heartbeat | Announce, Heartbeat, Query, RemovePeer, EvictStale |
| Redis tracker | `tracker/redis_tracker.go` | the same in Redis keys with TTLs | the same, in pipelines |
| Connection limits | `ws/limiter.go` | time stamps per address, a token bucket per socket | allow a connection, allow a message |
| Wallet sessions | `signaling/internal/auth`, `cmd/signaling/main.go` | one challenge per address, stateless tokens | challenge, session, connect |
| Browser signaling client | `frontend/src/services/signaling-client.ts`, `hooks/use-p2p.ts` | one shared socket, timers, outgoing queue, token, address; one pending query per model | connect, disconnect, send, authenticate, setAddress, querySeeders, socket and timer events |
| Seeding from a tab | `hooks/use-p2p.ts`, `services/seeder.ts` | a map of running seeders beside the mounted page | start, stop, publish, navigate |
| Download page | `hooks/use-download-state-machine.ts`, `use-p2p.ts`, `DownloadSection.tsx`, `CrossChainFundingModal.tsx` | phase of the page, runs of the downloader, stored chunks | download, fund, cancel, leave, switch wallet |
| Chunk exchange | `frontend/src/services/{downloader,seeder,payment,peer-connection,chunk-store}.ts` | queue of chunks, pending requests, peer connections | request, 402, pay, prove, deliver |
| Upload wizard | `pages/Upload.tsx`, `services/{chunker,broker-client,local-models}.ts` | file, hashes, CID, local catalogue | hash, pin, register |
| Upload broker | `signaling/internal/broker` | consumed nonces, pins | verify, consume, validate, pin |
| Payment channel | `contracts/src/SplitPaymentV2.sol` | sessions, bitmap of claimed chunks, balance | openSession, settleBatch, reclaimUnspent |
| Model registry | `contracts/src/ModelRegistry.sol` | terms of each model | registerModel, deactivateModel |
| Direct payment | `contracts/src/SplitPayment.sol` | none | payForChunk |
| Seeder daemon | `signaling/internal/seeder`, `cmd/seeder` | configuration, catalog, chunk files, socket | init, doctor, add, remove, run |
| Paid downloads over HTTP | `seeder/{http_server,verifier}.go` | claimed payments | serve, 402, verify, claim |
| Indexer and lists | `indexer/src/EventHandlers.ts`, `services/{envio-client,api-client}.ts` | entities per model, creator, seeder; a cache | one handler per event; list models |
| Detail and earnings pages, gateway | `frontend/src/{pages,components}`, `cmd/gateway` | view state | reads and rendering |

How they interact. A browser (or the daemon) holds one WebSocket to the hub; it
registers a peer ID, announces the chunks it holds to the tracker, asks it for
seeders, and relays WebRTC offers, answers and candidates to other peers through
the hub. Chunks and payment proofs travel directly between the two browsers.
Money moves on chain: per chunk (`SplitPayment`), or through a session
(`SplitPaymentV2`) whose vouchers are signed off chain and settled in batches;
both read terms from `ModelRegistry`. The indexer turns events into totals.

What is hard:

- **the hub**: every connection has two goroutines; a reconnecting browser comes
  back under its old peer ID while the former connection's goroutines still run;
  a handler takes several locks one after the other;
- **the client**: callbacks of a socket act on the client, not on their socket, and
  arrive late; a wallet signature can take minutes, and the wallet can change
  meanwhile;
- **the channel**: anybody batches vouchers in any way; receivers of money run code
  in the middle of a settlement and may reject the money;
- **the exchange**: a timeout covers a payment that cannot be undone;
- **the Redis tracker, the broker, the daemon and its HTTP server**: several stores
  written one after the other, by several processes, with something that can fail or
  expire in between;
- **the pages**: what a handler read at a click is used after a wait of minutes, while
  the user selects another file, account, page, or chain; runs outlive their page.

What makes each component right is stated below, and in the `hazards` of
`PROJECT.json` line by line.

## 2. Modules

| Module | Models |
|---|---|
| `SignalingHub` | hub, peers, relay and in-memory tracker as one system |
| `ModelRegistry` | the registry's storage and its two calls |
| `SplitPaymentV2` | the channel, extending the registry it reads |
| `SessionEscrow` | what a session promises, without vouchers, transfers, callbacks |
| `SignalingClient` | the browser's shared connection |
| `ChunkExchange` | one paid download: downloader, seeders, payments, peer connections |
| `Common` | the constants and the clock that the modules below share |
| `RedisTracker` | one peer's keys in Redis, command by command |
| `WalletSession` | challenges, signatures and tokens of several tabs |
| `ConnectionLimits` | the sliding window and the token bucket |
| `HubRelay` | messages between replicas through Redis |
| `UploadBroker` | signed uploads at several replicas, with the client that posts them |
| `SeederDaemon` | the commands and the daemon on their shared files |
| `PaidDownload` | chunks over HTTP for a payment on chain |
| `SeederQuery` | `querySeeders`, its entry and its timers |
| `BrowserSeeding` | the seeders of a tab, over pages |
| `UploadWizard` | hashing, pinning and registering a model |
| `DownloadFlow` | runs of the downloader as the page starts and shows them |
| `Catalogue` | from an event on chain to a list on a page |
| `MC*` | instances, symmetry sets for TLC; `MCServices` and `MCWebApp` compose |
| `*_proofs` | theorems with their proofs: of `SignalingHub`, `SplitPaymentV2`, `SignalingClient`, `ChunkExchange`, and of the services around the hub, of the seeder and broker, and of the web application (section 5) |
| `SumTheorems` | finite sums, the least number and the smallest set of a kind, for the proofs |

An operator preceded by "Mutant of X" is not part of a specification: it is X with
a plausible mistake, and shows which property would notice that mistake.

### SignalingHub

A `Conn` is one `*Peer`: one accepted socket, used once. `pc[c]` is where its
ReadPump stands: `off`, `reading` (between messages), `installing` (a
re-registration has purged the directory and not yet taken the hub's lock),
`forwarding` (the recipient is looked up, the message not yet sent), `purging` (out
of the routing map, directory not yet purged), `closing`, `done`. So every handler
that takes the hub's lock and another one is split between them. Steps of one
goroutine that touch only its own connection's state are merged with the step they
border on. `Send` is `Peer.Send`, which drops on a closed connection or a full
buffer; `Close` empties the buffer, because it also closes the socket under the
WritePump. `peers` is `Hub.peers`, `models` is `Tracker.models` with an age instead
of a time stamp (`Tick` raises it, ages beyond `MaxAge` are alike), and `owner` is a
history variable: the connection whose announce wrote an entry. Chunk lists, SDP and
wording are left out; all messages that only cause an answer to the sender are one
action, `Answer`.

### SplitPaymentV2 and ModelRegistry

`sessions`, `claimed`, `models` and `balance` are the contracts' storage. A call that
reverts changes nothing, so its checks are guards. A call that pays is several steps:
checks and effects (`SettleBatch`, `ReclaimUnspent`), one step per transfer
(`PayCreator`, `PaySeeder`, `PayRefund`), and `Commit` or `Revert`; `tx` holds what is
still due and, in `tx.saved`, the storage to go back to. While a receiver runs
(`tx.calling`) it may call the registry; it cannot enter the channel, whose entry
points are `nonReentrant`. Either receiver may reject its money. `paid` is a history
variable. A signature is the address it recovers to. Deadlines keep their width
(`MaxUint48`). A batch is any sequence of valid claims, repeated ones included.

`SessionEscrow` is the abstract specification: a deposit, split at a fixed share in
indivisible steps, whose rest is refunded once. `SplitPaymentV2` implements it under
the mapping `Escrow`, which shows an observer only committed storage.

### SignalingClient

One task of the JavaScript event loop is one action; an `await`, a timer and a socket
event end a task. `socket[s]` is the `readyState` of a WebSocket, `closed` ones may be
used again for a new object. `ws` is `this.ws`: a closing socket that
`disconnect()` has let go of still has its close event to come. `ticket[s]` is the
wallet of the token in the socket's URL. `call` holds the runs of `authenticateWallet`
that wait for the user or the server; `live` says that a mounted component with the
current wallet still awaits the run. `SwitchWallet`, `Render` and `Unmount` are what
React does with `useSignaling`. The hub appears as `Admitted` (it takes a valid token,
or none if it is configured so), `RemoteClose` and a refused attempt (`OnClose` of a
connecting socket).

### ChunkExchange

One run of `Downloader.start()` with all its seeders. An attempt is a pair of seeder
and chunk (`downloadChunk`), made at most once; its payment, its transaction and the
connection it opened bear its name. `loop` is where `start()` stands. What makes the
module large is what an attempt that was given up leaves behind: `payment` goes on in
the wallet, `verifying` and `fetching` are handlers of a seeder that await the chain or
the storage, `streaming` is a `streamChunk` waiting for its channel, `saving` is a chunk
whose hash is being computed, and the messages in `conn[k]` wait in the data channel. A
message is handled by the listeners of the attempt that runs when it arrives
(`Listening`). `pcs` and `answering` are the two `peerConnections` maps. A connection
has two ends: either can close (`NearCloses`, `FarCloses`), and the close events come
late. Seeders behave as their code does, but what they announce may be wrong (`Holds`).
A slice names the chunk it is cut from and its place; a reassembly is genuine when every
slice is in its place. Equally many slices for every chunk is a simplification.
Discovery is one step: seeders are found, or never.

### The services: Common and MCServices

The modules below share no state, only the clock, so `MCServices` runs them one at a
time: `part` is chosen in the initial state. In all of them an operation that waits
(for Redis, for a chain, for a pin) is several steps, with what it has read kept in a
record until it goes on.

`RedisTracker` follows one peer ID. `op[c]` is the operation connection `c` is
executing: its remaining Redis commands (`todo`), when it started (`at`). `Exec` runs
the next command, `CutShort` ends the list early. `meta`, `score`, `models` and `chunks`
are the keys with their expiries. `spoke`, `wrote`, `shown` and `disturbed` are history:
what the in-memory tracker would hold (`shown`) is compared while operations did not
overlap.

`WalletSession`: `challenges[w]` is the store's entry, `tab[t]` what a tab has asked for,
signed and been given, `issued` every token ever made. `RestartHub` empties the memory
store. Nonces are numbers. `ConnectionLimits`: `Allow` of either limiter, on time stamps.

`HubRelay`: `peers[r][p]` is the socket that replica `r` has for peer `p`, `box[s]` what
reached socket `s`, `pubsub[r]` what Redis has published and `r` not yet taken.
`Forward` is `Relay.Forward` with `SendToPeer`, `Deliver` is `listenRedisRelay`,
`Resubscribe` loses what was on its way.

`UploadBroker`: `slot[q]` is a POST with the step its handler is at; `nonces` are
consumed nonces with the store they are in (`place`), `pins` what was pinned. `Build` is
the browser's part, `Duplicate` a request that arrives again.

`SeederDaemon`: `catalog` and `disk` are files, `cli[p]` a command's process with the
catalog it read, `daemon` the running one, `writer[w]` a caller of `PutChunk` between
its check and its write, `listing` what the hub lists. `PaidDownload`: `request[q]` is an
HTTP request, `claims` the receipts claimed, by place.

### The web application: MCWebApp

`SeederQuery`: `queries` are the calls of `querySeeders`, `pending` the one in the
client's map. Timers run out in the order of calls. An answer goes to the entry, whoever
is in it.

`BrowserSeeding`: `seeders` are all `Seeder` objects ever made, `active` the module's map,
`hook` what the mounted page's hook has. `Started` is the end of `startSeeding`'s wait.

`UploadWizard`: `work[h]` is what each of the handlers that wait (hash, pin, register)
read at its click, `wizard` what the page shows; `Selected` is what choosing a file
resets. `chunkStore`, `passports`, `registry`, `localModels` are written by the handlers.

`DownloadFlow`: `runs` are the runs of `Downloader.start()` with the phase each is in,
`page` the state machine's state and the run its Cancel button has, `modal` the funding
dialog that may outlive its page, `storage` the chunks by wallet, `prompt` the wallet's
open question. What the runs say to seeders is `ChunkExchange`.

`Catalogue`: `log` is the chain's events, `db` the indexer's entities, `when` has the time
of each event the indexer has processed, `asked` and `response` the client's query and cache, `list` what is shown.

## 3. Runs

| Run | Instance | Shows |
|---|---|---|
| `hub_two_peers` | 2 connections, 2 IDs, 2 wallets, buffer 2 | types; relays reach the addressed peer; the end of one peer's connection leaves the other's announcements |
| `hub_reconnect` | 3 connections, 1 ID, 2 wallets | the newest connection stays routed; announcements do not outlive their connection nor show a former wallet |
| `hub_liveness` | 2 connections, 2 IDs | closed connections are cleaned up; stale entries go |
| `hub_reannounce` | 2 connections, 1 ID | **violated**: see finding 1 |
| `channel` | 2 accounts, 1 model, 2 sessions, batches up to 2 | solvency, charges, ledger, rounding, deadlines, refinement of the escrow |
| `client_lifecycle` | 2 sockets, 2 wallets, 2 session requests | one live socket, no lost retry, quiet after disconnect, token of the announced wallet, comes back online |
| `client_heartbeat` | the same with 1 request | **violated**: see finding 2 |
| `exchange` | 2 seeders, 2 chunks of 2 slices, one seeder lacks the second chunk | only genuine chunks are stored; each seeder is paid at most once per chunk, and only for what it has |
| `exchange_liveness` | 2 seeders, 1 chunk, one failing connection | a download ends |
| `exchange_late_proof` | as `exchange` | **violated**: see finding 3 |
| `services` | 2 replicas; per part: 2 connections, tabs, sockets, requests, processes | what Redis, sessions, limits, relay, broker, daemon and HTTP server keep of their promises |
| `webapp` | 3 queries; 2 models, 3 seeders; 2 hashings; 2 chunks, 2 runs; 3 events | what queries, seeding, publishing, downloading and listing keep of theirs |

The bounds and why they are enough:

- *Hub.* The hard orders need a kicked connection, its successor, and, for a third
  party between them, one more: three connections of one ID. Interference between
  peers needs two IDs. A buffer of 1 or 2 fills at once. `MaxAge` 0 or 1
  distinguishes fresh, old and stale.
- *Channel.* Two sessions share one balance; two accounts can be any of the three
  parties and coincide; price 3 at 99 (refused), and 5000 bps rounds; deposits 3 and 7
  pay one chunk, or two with a rest; zero price, count and deposit are refused;
  `Grace` 1, `MaxUint48` 3 and `MaxTime` 4 put times before, at and after each
  deadline, and a sum of deadlines beyond the width.
- *Client.* One socket that closes while the next one connects or is open: two. The
  queue holds one message (`MaxQueue`); a run with three sockets was also explored and
  agrees. `AuthRequired = FALSE` allows every behaviour that `TRUE` does.

- *Exchange.* A late answer needs a second chunk from the same seeder, and, since a chunk
  must succeed in between, a second seeder. Two slices can be mixed or be out of place.
  Failing connections multiply the states by sixteen, so they are in the liveness run; the
  safety run with one failure (8 million states) was explored and agrees.
- *Services.* Every race of these modules is between two: two connections of one peer
  beside one asker, two tabs, two replicas with two requests, two commands beside the
  daemon. `MaxTime` 2 with TTLs of 1 or 2 puts times before, at and after every expiry;
  three tracker operations are an announcement, a heartbeat and a removal; three
  commands are two that overlap and one that finds what they left. `MaxStorage` 1 with
  two writers exceeds the quota. The transactions include one whose log pays another
  model first; the uploads include one signed by another account, one whose sizes do
  not add up and one whose indices have a hole.
- *Web application.* A timer of an answered query needs a second query to hit and a third
  to be hurt. A wizard that changes its model under a running seeder needs two models;
  three seeders admit one made twice. Two files of different size, hashed in either
  order. Two runs of two chunks overlap; two visits of the page; the funding dialog executes
  only while a run is left for it. Three events register, deactivate and pay.

Deadlock is not checked: each connection of the hub is used once and the instance
ends when all are done; a channel may be idle after all sessions are closed or the last
block; a page may rest without a wallet; a download ends; the parts of `services` and
`webapp` end at their bounds.

Fairness. The hub: a handler that was started is run to its end by the Go scheduler;
the clock and the eviction ticker go on; the bytes a closed socket has buffered are
finite, so its reader reaches the error (strong fairness, since it may handle some
messages first). Nobody is assumed to send anything or to lose a connection. The client:
its reconnection timer fires, attempts and closing handshakes end, and attempts with a
valid token do not fail for ever. Nothing is assumed of users. The exchange: the
downloader's own tasks and its two timers; nothing of seeders, wallet, chain or network. The channel has no
liveness property: nobody is obliged to settle or reclaim.

## 4. Findings

1. **The directory purge of a late unregister** (`hub.go:190`, run `hub_reannounce`).
   `UnregisterPeer` compares connections before it deletes from the routing map, and not
   before `RemovePeer`. When a browser reconnects and re-announces before the former
   connection's ReadPump ends, the announcement is removed, while
   `frontend/src/services/seeder.ts:68-72` relies on re-announcing to restore visibility.
   Heartbeats do not bring it back. (Skipping the purge altogether when another
   connection holds the ID would not do: the mutant `UnregisterPurgeIfUnrouted` leaves
   announcements nobody stands for.)
2. **The close event of an old socket** (`signaling-client.ts:373`, run
   `client_heartbeat`). It stops the heartbeat of the newer, open socket, and the retry it
   schedules finds that socket open and does nothing. Line 427 counts on the heartbeat to
   stay within the server's 60 s eviction.
3. **The pending request dropped by an earlier payment** (`seeder.ts:183`, run
   `exchange_late_proof`). The seeder keeps one pending request per peer. A payment that
   outlived its attempt's 30 s is verified slowly, while the downloader has gone on and the
   seeder has demanded payment for another chunk; after the verification the seeder
   deletes that other request. The second payment is then answered with "No pending chunk
   request", although by `README.md:56` the seeder sends the chunk after verification.

The properties of `services` and `webapp` say what the code keeps; each names the
circumstances it does not hold in. Met while modelling, and visible in their wording:

- Redis: a heartbeat that crosses a removal (`redis_tracker.go:203`) leaves a listing
  until its TTL; a removal by an old connection at another replica unlists a live peer.
  In the last second of a TTL a query can list a peer without its wallet or chunks.
- Relay: a message published before its addressee joins the sender's replica can be
  overtaken by one sent directly; a stale local socket swallows messages until it is
  unregistered; a peer with sockets at two other replicas gets a message at each.
- Broker: a nonce is spent by an upload that fails afterwards. When an answer is lost the
  client makes up a CID, outside demo mode too, though `Upload.tsx:240` speaks of demo
  mode alone.
- Seeder: a failed dial is not retried and a dropped socket not replaced
  (`engine.go:152`, `signaling_client.go:146`); errors of reading and writing the
  catalog are ignored (`engine.go:96`, `217`), commands at once lose each other's
  changes; the quota is each process's own (`store.go:85`). A HEAD spends a payment
  (`http_server.go:126`); claims kept in memory are lost at a restart.
- Queries: the 12 s timer of an answered query removes the entry of a newer one
  (`signaling-client.ts:505-511`), whose promise may then never settle. `ChunkExchange`
  abstracts from that: in `DownloadEnds` discovery answers.
- Seeding: `stopSeeding` does not withdraw the listing (`seeder.ts:198`); a second model
  published by the same wizard is not seeded (`Upload.tsx:296`); a page that holds the
  whole model starts seeding again after Stop (`DownloadSection.tsx:126`).
- Downloading: callbacks of a cancelled run write over a page that has started another,
  after which a third can be started and pay for the same chunks
  (`use-p2p.ts:335-350`); discovery does not look at `isCancelled`
  (`downloader.ts:171`); the funding dialog starts a run on a page that was left
  (`CrossChainFundingModal.tsx:74-77`); a wallet with chunks of its own does not see
  those another wallet has stored (`chunk-store.ts:127`).
- Lists: an indexer that answers with no models makes the client scan the chain, where
  deactivated models are listed as active (`api-client.ts:103`, `220`); a registration
  that reverts leaves its local copy.

## 5. Proofs

All theorems hold for any value of the constants that satisfies the assumption of
the module they are about. These assumptions say that names for "nothing" (`NoConn`,
`NoTx`, `NoModel`...) are not members of what they stand beside, that bounds, prices,
limits and times are numbers, and in a few places that a set is finite: `SessionId`
(a `bytes32`), `Replica` in `HubRelay`, `Writer` in `SeederDaemon` (both are counted).
No theorem bounds the number of peers, sessions, wallets, models, chunks, queries or runs.
TLC evaluates every assumption in the runs. Each of the 34 invariants of the passing runs is
a theorem, and so are the action property `VanishesByOwnIdOrAge` and the refinement
`ImplementsEscrow`.

A recursive sum, or a fold, is reasoned about without induction on it: `SumTheorems`
proves that a set of numbers that is not empty has a least member, and a family of
finite sets a smallest one (`LeastNumber`, `SmallestSet`), and takes the least counterexample.

- **`SignalingHub_proofs`.** `HubInv` is the conjunction of the safety properties and what
  they lean on between two locks: a connection that has taken no identity owns nothing
  and is in no map; a register message at work names the connection's own ID; a looked-up
  route names a connection that registered the ID. Without the latter,
  `EnvelopeAtAddressee` is not inductive: the step that sends relies on the step that
  looked up. One lemma per action shows that `HubInv` is preserved; routing, directory,
  relay and non-interference theorems follow from it.
- **`SplitPaymentV2_proofs`.** A revert restores a storage that only `tx` remembers, so
  `ChannelInv` speaks of two storages, the current one and the saved one: both are well
  typed and charged (`Charged`), and the saved one has no payment under way (`Ledger`).
  The charge of a batch uses that its chunks are distinct and new, hence that the
  cardinality of the claimed set grows by the batch's length. `Solvent` compares the
  balance with a sum over all sessions; a step changes one summand, and the balance by as
  much. The other promises are kept by the storage an observer sees (`Committed`: the saved
  one while a transaction runs), so a transfer or a revert cannot break them and `Commit`
  alone has to be looked at: a batch loses less than one wei per chunk to rounding (`Fair`),
  and a closed session's settlement deadline is past (`Deadlines`), which is when none of its
  vouchers is valid. What a running transaction will do is told by `TxInv` (it splits one
  session, or refunds it), so that `Commit` is a step of `SessionEscrow`; every other step
  but opening is a stutter.
- **`SignalingClient_proofs`.** `LinkInv` ties `this.ws`, the states of the sockets and the
  timers; `IdentityInv` ties token, address and running requests. Lemmas about `Connect`,
  `Disconnect`, `Send` and `SetAddress` are used by every action that calls them.
- **`ChunkExchange_proofs`.** A payment is made long after the seeder looked into its
  storage. `ExchangeInv` follows the chunk: a handler serves the seeder it is filed under
  (`MapInv`), a demand waiting in a channel is for a chunk its seeder has (`Sound`), the
  attempt that listens is one with the seeder of its connection (`LoopInv`), so what is
  signed is held (`PayInv`). `OnlyGenuine` is inductive with the types.
  `PaidOncePerSeeder` needs that nothing that leads to a payment is there twice.
  `TokenInv` says so: of one seeder and chunk there is, at any time, an attempt still to
  come, or one question in a channel, or one handler at its storage, or one demand in a
  channel, or one payment, however many attempts meet the same seeder.
- **`HubServices_proofs`.** *Signing in*: `SessionInv` ties the store, the tabs and
  the tokens together: a challenge and a tab's nonce are of the wallet the nonce was made
  for, and no two tabs have the same. So a request that consumes another tab's challenge
  consumes a newer one of its own wallet, which `spoiled` records. *Limits*: the time
  stamps kept are the admissions of the last window, in order; the tokens of a bucket are
  bounded, for each message, by the refills since it less the messages since. *Relay*: what
  is in a subscription is newer than what is in its replica's boxes; of a published
  message a history record says which one replica has its addressee. *Tracker*: between
  operations what the in-memory tracker would show and what Redis keeps agree key by
  key (`Settled`); within one the remaining commands say what is still to come
  (`Announcing`, `Beating`, `Removing`). So each command is shown to do its part, in
  whatever order a set of models is gone through.
- **`SeederServices_proofs`.** *Paid downloads*: `PaidInv` follows a request through its
  steps: past the check its transaction pays, past the claim it has claimed it, and a claim
  made at a place is `Kept` there for its time, even when a later claim has replaced the
  entry. That no two claims at one place are closer than `ClaimTTL` follows. *Uploads*: a
  nonce consumed at a place is there until its deadline, when nothing signed with it is
  valid. *Daemon*: commands that have not overlapped are one, and have the file's
  catalog; the listing is what was on the disk, but for models touched since; checked
  and unwritten chunks are counted beside those on the disk (`QuotaHeld`).
- **`WebApp_proofs`.** *Queries*: timers run out in the order of the calls, so a waiting
  call without the entry lost it to an earlier timer. *Seeding*: of a model started once at
  most one seeder is on, and the map, the page's ref or the wait for it has it. *Publishing*:
  what a handler read is all that will ever be stored under its model ID. *Downloading*:
  while no run was started beside one that cannot be stopped there is one run; what
  was paid for and not lost is stored, or is the piece at hand. *Lists*: on chain whatever
  happens to a model happens after its one registration and before its deactivation
  (`ChainOK`), so a handler of the indexer finds the entities it counts at, and each counter is
  the size of a set that the event adds one member to (`CountsInv`); an answer has what the
  indexer knew when it was asked (`Knows`), and a list is no older than travel and cache.

The proofs of `HubServices_proofs`, `SeederServices_proofs` and `WebApp_proofs` are about the
components' own specifications (`SessionSpec`, `LimitsSpec`, `RelaySpec`, `TrackerSpec`,
`PaidSpec`, `BrokerSpec`, `DaemonSpec`, `QuerySpec`, `SeedingSpec`, `WizardSpec`,
`FlowSpec`, `CatalogueSpec`); `services` and `webapp` run the same initial predicates and
next-state relations one at a time. Each inductive invariant was checked by TLC on
instances like those of the runs before it was proved. `ListedIsServed` came out stronger
than it was: it need not except models of which two seeders were started.

Only model-checked: the liveness properties (`ENABLED` and fairness are out of the
prover's reach), and the composition of each part with the choice of `part`.

## 6. Not modelled, and the plan

Nearly every part that keeps state has a module; what is left out, and why:

- the static gateway, and the reads behind a model's detail, earnings and quotes: they
  keep nothing and relate nothing;
- presentation, the wording and layout of messages, configuration files' formats;
- WebRTC's negotiation beyond connected, failed and closed: the browser's;
- cryptographic primitives (a signature is the address it recovers to), hashes (equal for
  equal content), and the chain itself (transactions are serial; reorganisations are not
  handled by the code);
- the optional REST indexer, which is not in the repository, and demo mode.

The compositions that would join modules (`SeederQuery` under `ChunkExchange`,
`RedisTracker` under `HubRelay`) multiply their states; instead the inner one states in
its property what the outer one takes for granted, or the outer one names the assumption.

Proofs to come: that an undisturbed `RedisTracker` implements the in-memory tracker as a
refinement, and action properties of the services (what a nonce, a claim or a listing
may never do again).
