# A TLA+ verification of bitfyn's sync engine

bitfyn is an SPV Bitcoin wallet: it downloads block headers and BIP158 compact
filters from several peers, downloads the blocks whose filters match its
addresses, keeps the wallet's transactions in a SQLite database and shows them.
The core logic is in `src/internal/sync`, with the header chain in
`internal/spv` and the tables in `internal/storage`. This directory models that
core, checks it with TLC on small instances and proves facts about it with TLAPS.

## Inventory

| Component | State | Operations | Interacts with |
|---|---|---|---|
| Header chain (`spv/chain.go`) | headers in memory, hash -> height | Add, AppendTrusted, Truncate, Locator, HeightOf | header sync; read by peer goroutines |
| Header sync (`sync/sync.go`) | tables `headers`, and by a rewind all others | syncHeaders, extendHeaders, rewindTo, Init | peers (getheaders), storage |
| Filter download (`sync/filters.go`) | table `cfilters`, filterStart, anchorPrev, anchorSet | syncFilters, filterHashes, syncFilterBatch, storeFilters, applyFilter | peers, ledger (processBlock) |
| Cross-check (`sync/filters.go`, `manager.go`) | anchorTried, lists of peers and hashes of a round | proveFilterAnchor, chooseFilter, resolveVariants | peers (drop), pool |
| Wallet ledger (`sync/wallet.go`) | tables `transactions`, `pending`, `matches`; coins, outpoints, pendingSpends derived | processBlock, acceptPendingTx, Broadcast, expirePending, Watch | filter download, peers (inv, tx), GUI |
| Rescan (`sync/rescan.go`) | table `rescans` | rescan, rescanTargets, rescanBlock | ledger, sync loop |
| Peer pool (`sync/manager.go`) | pool, candidates, pinnedAddr, pinnedSeen, overlays, stopped | maintain, fillPool, keepPinned, connect, SetPinned, SetOverlay, Start, Stop | GUI settings, connections |
| Peer connection (`sync/peers.go`) | reply channels, quit | getHeaders, getCFHeaders, getCFilters, getBlock, fanOut, drop | btcd peer library |
| Sync loop, status (`sync/manager.go`) | wake, announced, syncedThrough, roundOK | syncLoop, syncOnce, report, emit | everything; GUI callback |
| Blocks (`sync/blocks.go`) | - | fetchBlock, verifyBlock | pool |
| Relay, bloom (`relay.go`, `bloom.go`) | loaded filters | loadBloom, reloadBlooms | peers |
| History, statistics (`sync/history.go`, `gui/stats.go`) | - | History, buildHistory, computeStats | ledger, GUI |
| Storage (`storage/*.go`) | the database | one statement or transaction each | everything |
| Spend planning, keys (`wallet/*.go`) | - | PlanSpend, MaxAmount, SignSpend, Derive | GUI |
| GUI send and rotation (`gui/app.go`, `send.go`) | index, address shown, change addresses, the Send form and its plan | rotateIfUsed, nextChange, planSend, sendPlanned | Watch, Broadcast |
| Settings, overlays (`gui/settings.go`, `overlay.go`, `tor`, `i2p`) | clients of Tor and I2P | switched, changed, use | SetOverlay, SetPinned |
| Rates, display, `p2p`, `cmd`, `tools` | - | HTTP, layout, dials, flags | - |

What makes them hard:

* **Header sync.** Answers come late, unasked or from other branches; a rewind
  changes the memory and four tables one after another, and the process may end
  between any two writes. Correct when the tables always load again, hold only
  blocks of the chain, and the sync reaches the best branch.
* **Filter download.** The filter start moves with the chain; the resume height
  is derived from the rows. Correct when no block from the seed's day to the tip
  is skipped, in spite of forks and restarts.
* **Cross-check.** Peers lie, fail and disconnect between requests. Correct when
  an honest peer among those asked keeps payments from being hidden, honest peers
  are not dropped for the lies of others, and the download gets done.
* **Ledger and rescan.** Peer goroutines, the sync loop and the user interface
  change it in any order. Correct when it holds every wallet transaction of the
  blocks searched, and offers no spent coin.
* **Peer pool.** Dials run while settings change. Correct when the pool is
  bounded, free of duplicates and of peers a setting rules out, and a peer to
  sync with is found.
* **Status.** Counters change under one lock, callbacks run under another, and
  wake-ups are merged. Correct when it never says "Connected" with a block
  outstanding, shows the last change, and settles.
* **Header rules.** Targets are multiplied, clamped and rounded to a format with
  a sign bit, and each network has exceptions. Correct when difficulty moves by
  a bounded factor and does not drift.
* **Payments and addresses.** Planned from coins that come and go, at the edges
  of dust and fee; addresses are stored, watched and used in steps that may fail.
  Correct when a plan adds up, change is never lost, and the address shown is one
  the wallet watches and nobody paid yet.

`PROJECT.json` lists the hazards, each at its line, with the properties aimed at it.

## Modules

| Module | Models | Proofs, instance |
|---|---|---|
| `ConfirmedLedger` | nothing of the code: the promise the sync makes, which `ChainSync` implements | - |
| `ChainSync` | header sync, reorganisation, filter start, anchor, filter rows, stored transactions, restarts between any two writes; one honest source of filters | `ChainSyncProofs`, `MCChainSync` |
| `FilterRound` | a filter round against several peers, some dishonest | `FilterRoundProofs`, `MCFilterRound` |
| `WalletLedger` | the wallet's tables under scan, relay, payments, Watch, rescan, forks, restarts | `PeerRequestsProofs`, `MCWalletLedger` |
| `History` | what is computed from those tables: history entries, balances, statistics | `PeerRequestsProofs`, `MCWalletLedger` |
| `PeerPool` | the pool, its dials, pinned peer, overlays, Stop and Start | `PeerPoolProofs`, `MCPeerPool` |
| `PeerRequests` | the reply channels of the connections, the requests of a round, time-outs, late answers, fanOut | `PeerRequestsProofs`, `MCPeerRequests` |
| `Settings` | the Settings tab, its probes and switches, the clients of Tor and I2P | `SettingsProofs`, `MCSettings` |
| `SyncStatus` | the status: announcements, rounds, wake-ups, the order of callbacks | `SyncStatusProofs`, `MCSyncStatus` |
| `Keeping` | a list without the elements that do not belong to it (livePeers and the like), as an operator | `KeepingProofs` (with the lemmas on sums), `MCFilterRound` |
| `HeaderRules` | median time, difficulty and compact targets | `ChainSyncProofs`, `MCHeaderRules` |
| `SpendPlan` | sizes, dust, PlanSpend and MaxAmount, as operators | - |
| `Payments` | address rotation, the Send dialog, change addresses, broadcast | `PaymentsProofs`, `MCPayments` |

The modules meet at narrow interfaces. `ChainSync` sees `FilterRound` as
`FilterHashes`/`StoreFilters` of one honest source: `FilterRound` shows when the
cross-check delivers that. `WalletLedger` takes over where `ApplyFilter` of
`ChainSync` stores the transactions of a block, and treats a reorganisation as
one step, which `ChainSync` takes apart. `FilterRound` takes the pool as a list
that peers join and leave, which `PeerPool` details. `PeerRequests` is the layer
under all of them: what the others take as one answer or one failure of a peer
is there a message, a channel, a goroutine and a timer. `Settings` decides what
`SetPinned` and `SetOverlay` are called with, and `PeerPool` shows what they do.
`SyncStatus` has the rounds of `ChainSync` as a height that grows, and the joining
and leaving of `PeerPool` with the steps each takes to report it. `Payments` is
the user's side of `WalletLedger`: its transactions are a set that others change
in one step each. `HeaderRules` says which headers are in the set `Valid` of
`ChainSync`.

### ConfirmedLedger and the refinement

The promise has five variables: a chain, its height, the blocks searched, the
payments booked, and `broken`. It grows by valid linked headers, is cut at a fork in one step
with all that was learned above, books payments only of blocks not searched yet,
and counts a block as searched only when its payments are booked, once.
`ImplementsLedger` maps the chain in memory to the chain, and the rows of the two
tables at or below the tip to the rest: the truncation of the memory is the step
`Fork`, and the deletes that follow are stutters. So the headers of the next batch
must not uncover a row that a delete left: each wrong delete is a mutant that
breaks it, as are rows stored before their payments and rows above the tip. When a
rewind is interrupted the promise ends (`Breaks`, `broken <- interrupted`): what the
code does then is `rewind_crash` under "Findings".

### ChainSync

`chain`, `tip` are `Chain.headers` and its height; `hdrRows`, `filRows`,
`matchRows`, `txRows` the tables; `filterStart`, `anchor`, `anchorTried` the
variables of those names (`anchor = None` is `anchorSet = false`). `pc` says
where the sync loop is: between `headers` and `append` there is one place for
each delete of `rewindTo`, since each is a statement of its own and the process
may end after any of them. `from`, `next`, `end` are the cursors of syncFilters
and storeFilters. One action is what the code does between two points where the
process could end and leave a different database: an answer taken and the memory
truncated (`TakeHeaders`), each delete, the transaction that stores a header
batch (`ExtendHeaders`), the filter start, anchor vote and resume height
(`StartFilters`), each transaction stored by a matched block (`SaveTransaction`),
the end of a block (`ApplyFilter`), the transaction of a filter batch
(`StoreFilters`). `RewindFaults` says where rewindTo may fail or the process end
inside it. `interrupted` is a history variable: a rewind ended with deletes still to
do. The headers are claimed to load again and reach the best branch in any case; what
is said of the other tables is said until then.

Abstractions: a block is its header and hash, validity a set; the chained filter
header below a block is identified with that block, as an honest peer's header
commits to all filters below; chains are at most eleven blocks, so that the
locator lists every height; filters match exactly; one watched address; the
leniency for the genesis hash in checkFilterPrev, a wallet without a seed time
and PruneFilterDataFrom (old databases) are left out; rescans are in
`WalletLedger`. A peer not on the best branch, a late answer and an unasked one
are one action, `ReceiveOtherHeaders`: any branch, from any height.

### FilterRound

`pool` is the connected peers in the order of connection; `rows` the filter
rows from the filter start, each with what its filter leaves out, whether its
chained header is the one honest peers report, and (history) whether its batch was
served in the fallback; `peers`, `hashes`, `end` the list
a cfheaders batch produced, and `answers`, `picked` the filter batch in
progress. Dishonest peers claim any header and commit to any filters, serve any
that match, do not answer, leave and join as they like; honest ones answer
unless `trouble` is used up. The hashes are indexed by position, as in the code,
and `peers` shrinks between batches while `hashes` does not. A filter without
the scripts of spent outputs passes filterHasOutputs, one without an output does
not: `Complete`. When peers disagree the block is served whenever an honest peer is
connected. anchorPeerLimit (10) is not reached by three peers.

With a peer pinned nothing is requested while it is not connected, until
pinnedFallbackAfter has passed since it was last seen (`PinnedAway`): then the others
are asked, led by the oldest connection, and requirePrimary is satisfied by any of
them. `seen` is how long ago that is while it is not connected: "recent", "past", or
"closing", the time between the end of a connection and the goroutine that waits for
it. That goroutine sets pinnedSeen (`NoteLeft`), so that for a connection that lasted
longer than pinnedFallbackAfter the moment it was last seen is past until then.
`TimePasses` is the passing of pinnedFallbackAfter, which may come between any two
requests, as may the return of the pinned peer.

### WalletLedger

The tables are variables, blocks are sets of transactions. What the code keeps
in memory (outpoints, coins, pendingSpends, firstPaid) is rebuilt with every
change of the tables, under walletMu, and is written as operators on them;
processBlock uses the state from before the block, and so does `ProcessBlock`.
`snapshot` is what applyFilter matches against, taken before the block is
downloaded, so that Watch falls in between. `targets`, `jobs`, `pos` are the
rescan in progress. A restart may end processBlock after any of its writes, which
come in the order of the block's transactions. `paidBefore` is a history variable:
the first stored block that pays an address at the time it is watched, which is where
its rescan begins.
`Reorg` rewinds and takes the first header of another chain. `Watch` stands for
AddAddress and Watch, which the interface calls in a row. A transaction is
relayed when its inputs exist and no scanned block has it or a conflict;
Broadcast may also send a plan whose coins were spent meanwhile. Conflicting
spends of one coin may be pending together.

What is promised differs by when an address was watched. For those watched from
the start `FirstAddressesSettled` says that the ledger is that of the chain,
with no exception but a coin created and spent in one block (see "Findings").
For those learned late `LateAddressFollowed` says that no block from `paidBefore` on
that concerns the address is lost from the queue before it was matched for it, and
`RescanArrives` that a rescan gets to it. That the coins of such an address are
unspent is what the comments of the code say (`NoPhantomCoin`) and what the code does
not keep: `late_spend` under "Findings".

### History

Operators on the state of `WalletLedger`, in satoshis given by `Value`: the net
and the fee of each known transaction (`buildHistory`), the balances
(`computeBalance`), the statistics (`computeStats`) and the coins of
loadWalletLocked. `AmountsAgree` says the four agree in every reachable state in
which no two known transactions spend the same coin.

### PeerPool

`pool` holds connections that are live, about to be closed ("closing":
Disconnect is due) or closed and not yet taken out ("gone"). `dials` are the
handshakes in flight of maintain, fillPool and keepPinned; one action is a
section under `mu`. `pinnedOld` stands for pinnedFallbackAfter having passed
since pinnedSeen. An overlay is off, on without a dialer, or ready.

### PeerRequests

`line[c]` is what peer `c` sent and its read loop has not read, `chan[c]` the
five channels of `conn`, `stuck[c]` the message its read loop waits in deliver
with. `waits[c]` are the goroutines inside getHeaders, getCFHeaders, getCFilters
or getBlock, with what they got so far; `fresh` is false once fanOut returned
without them. `stage` says which request of syncOnce is in progress, `peers` whom
it asks, `ans` is the channel `answers` of fanOut. `Plan` lists the requests of
each stage and `Following` what may come next: what is to be downloaded is a
choice, since the other modules decide it. `Request` is a request up to its
wait, `Await`, `AwaitNotFound`, `TimeOut` and `Quit` the cases of its select,
`FanOut` and `NextPeer` what the callers do with the result.

Abstractions: peers are honest and answer in the order they are asked, but may be
slow, disconnect, or answer notfound for a transaction they announced. An answer
is on the line as soon as it is asked for and may be read any time later, which
is the same as a late answer. Answers to getheaders carry no identity: what a
wrong one does to the chain is `ReceiveOtherHeaders` of `ChainSync`. Links,
hashes and blocks verify (`FilterRound` has the liars). A pinned peer is never
away so long that the sync falls back. The capacities are `Room`: one message,
and two for the filters (`FilterBatch`), where the code has 4, 4, 1000, 2 and 2;
they matter in that they are finite and in that a batch fits. A peer whose line
holds `MaxLine` messages loses the request, which then times out.

### Settings

`field`, `inUse`, `edits` are the field's text and the variables of those names,
`checks` the goroutines of `edited`; `on` is `sw.On`, `starts` and `client` the
fields of `overlay`, with a client known by the start it belongs to; `clients`
are the clients whose goroutine or Close may still run, `session` the connection
to the network each holds. `queue` is fyne's queue of functions for the user
interface (`fyne.Do`), and `Do` runs the next. `pinnedAddr` and `overlays` are
what the last SetPinned and SetOverlay left. Every other action of the tab is
one handler on that thread, with all it calls. `disk` lets writes fail for a
while; reads succeed, as they come at start-up. A probe of a peer outside
`Reachable` may succeed or fail, of one in it fails only when cancelled. A
client's session may begin after it was closed (the connection was made when the
context ended), in `Connect`. `Lossy` networks have keepSession's loop, the
others bootstrap's, which ends with its first success. What is left out: dialling
through a client, the commands to the I2P router, the errors in the texts, and
that two Tor clients share a data directory while one of them is being closed.

### SyncStatus

`announced`, `syncedThrough`, `seen`, `roundOK`, `activity`, `height`, `wake`,
`pool` are the variables of the code; `claim[p]` is LastBlock of a connection,
`told[p]` the announcements under way, `closed` the connections that are gone
but still in the pool. A goroutine (the sync loop, the read loop and the
connection of each peer) is at a place `pc`; after a change it must take the
status under `mu` in its turn of `emitMu` (`TakeStatus`) and hand it to the window
(`ShowStatus`), with other goroutines in between. Storing a round's outcome and
reporting it are one step: between them the sync is not idle and nothing reads
the counters. `wake'` of a connection and of an announcement comes after the
callback, as in the code. Left out: balances and networks in the status, the
reports of filter batches during a round, the pinned peer (any live peer may be
the primary) and Stop. Peers are honest about their height: one that claims more
keeps the status at "Syncing", as the code means it to.

### HeaderRules

`headers` has the time and bits of each height. `Add` is Chain.Add without links,
which are in `ChainSync`, and without the hash. The numbers are parameters: a
digit of the compact format is a byte in the code, with three digits of mantissa;
the run has digits to base 4, two of them, periods of two blocks and a median of
three, so that all of the code's cases (rounding, the sign bit, the clamp, the
limit, the exceptions of testnet3 and testnet4) occur within four headers.
`Offered` holds bits out of every class checkPoW tells apart.

### SpendPlan and Payments

`SpendPlan` has the code's own constants and formulas; coins are records, a script
is its kind, with `blank` for the 22 zeros the Max button takes while there is no
address. Sums and products are those of an int64 (`Wrap`), whose largest value is the
parameter `IntMax`. That PlanSpend takes the shortest prefix of the sorted coins that
suffices is written as a minimum. `Payments` puts it to use: `shown`, `index`,
`nextIndex` and `stored` are the address shown, `gui.index`, the row of `meta` and
the table of addresses, `dialog`, `offered`, `plan` the Send dialog. The user
interface is one thread (`step`), between whose steps peers and the sync loop
relay, confirm and expire transactions, and forks orphan them (`Rewind`). `entered`
is the amount the Max button left in the form (`FillMax`), from the coins of that
moment and a destination and rate of `MaxEntries`; Review takes it with the coins,
address and rate there are by then. A `plan` is `valid` when its fee is not negative.
`forgotten` holds what expired and what a fork orphaned, which peers and blocks may
bring back. Each statement of the database may fail
and the process may end before any step. sendPlanned is `Confirm`,
`StoreChange`, `WatchChange`, `Broadcast`, `QueueToPeers`.

Abstractions: a transaction has one output of the wallet at most; storing a
receive address and watching it are one step, since after a start every stored
address is watched and a crash between the two differs from one after them only
in the queued rescan (see "Findings"); the ledger's changes are atomic here,
`WalletLedger` takes them apart; the first address was paid and rotated before, by
transactions that lie below every fork (`Seeds`); no plan is shown once `MaxTxs`
transactions were made.
Another wallet on the same seed may pay addresses this one has not derived.

## Runs

| Run | Instance | Result |
|---|---|---|
| `chain_sync` | two branches of 5 blocks forking at height 1, one branch with an invalid header, two transactions one of which is in both, a filter start that moves between 0 and 2; batches of 2 headers, 3 hashes, 2 filters; 5 adverse events, among them a process end or a failed delete inside rewindTo | 46 974 states; all properties hold, `ConfirmedLedger` is implemented |
| `wallet_ledger` | three chains of 3 or 4 blocks, six transactions two of which spend the same coin, one chain with a payment to a late address and its spend, that address watched at any time, 2 pending transactions, 2 restarts, 2 reorganisations | 59 226 states; all properties hold |
| `peer_pool` | three peers on the internet and one on Tor, two slots, two dials at once, 2 changes of settings | 149 869 states; all properties hold |
| `filter_round` | two honest peers and a liar, one honest peer pinned or none, 3 blocks, batches of 2 hashes and 1 filter, 2 adverse events; the pinned peer goes away and comes back | 726 082 states; all properties hold |
| `peer_requests` | two peers, the first pinned or not, batches of 2 filters, channels of 1 or 2 messages, lines of 3, 2 adverse events | 250 404 states; all properties hold |
| `settings` | a peer that answers and one that may not, Tor and I2P, started with the -peer flag or without, 3 moves of the user, writes that fail once for a while | 120 813 states; all properties hold |
| `sync_status` | two peers, one new block, one connection lost, round failed or poll timer | 697 304 states; all properties hold |
| `header_rules` | four networks, chains of 5 headers, 8 times, 6 bits and those of each retarget | 56 585 states; the property holds |
| `payments` | a coin of 1600 sat; requests of 300 sat at 2 sat/vB, of 300 sat at a rate whose fee wraps, and to a taproot address at 1 sat/vB by Max, which was entered at 2 sat/vB before there was an address; payments of 1700 sat received; 2 further transactions, 1 trouble; int64 of 18 bits | 319 806 states; all properties hold |
| `rewind_crash`, `anchor_stale`, `late_spend` | one documented claim each that the code does not keep | violated, see "Findings" |

The bounds are chosen so that each interesting case occurs. Two branches of which
one is longer, with a header batch smaller than the fork is deep, give rewinds
that take more than one batch; the transaction in both branches at different
heights moves from one row to another; the seed's day lies inside the branches,
so the filter start moves and moves back (with a gap of 1 it is 0, 1 or 2, so that
anchors are voted on for each of these starts and outlive a move). Five adverse
events allow a foreign answer, a failure inside the rounds it causes, an interrupted
rewind, a restart and another.
In `wallet_ledger` the late address is paid in two blocks and spent from in the one
after each, and is watched before, between and after, with forks to chains that
have only the first of these blocks or none.
In `filter_round` three blocks are two cfheaders batches, the first of two filter
batches, so peers can leave between any two requests; one liar suffices to tie
with one honest peer; the pinned peer may leave, be away for long and return
between any two requests, with rows stored in each case. `peer_pool` has one slot
fewer than it has peers and two dials in flight for it. In `peer_requests` two adverse events are one straggler
left behind and one late answer in a later request, or two transactions not
found, which fill a channel and block a read loop. In `settings` three moves turn
a network on, off and on again while its first client is still connecting, or
edit, switch and switch back while a probe runs, or restart in between; a queue
of one result is enough, since a goroutine whose result waits for its place is as
good as one that is slower. In `sync_status` one block and two peers give an
announcement before, during and after the round that brings the block, from the
peer of the round and the other, and a peer that joins with it; one trouble is a
connection lost at any of these points. In `payments` a request of 300 sat leaves change,
1700 sat come later and are the larger coin, unconfirmed at first; the amount Max
entered is stale when coins came or went, and always for another address and rate;
IntMax and the most an amount may be are scaled down together, so that of the rates
one is far above what fits, as a rate of some 10^17 is in the code. Two transactions
are a payment and one by somebody else that spends its coin, confirms, or pays the
same change address, or two payments with change; one trouble is an end of the
process, a failed write, a lost connection or a fork at any step.

Deadlock is checked except where the instance may come to rest: in
`wallet_ledger`, whose chains end and leave nothing to do; in `peer_pool`, where
an overlay that is on without a dialer just waits; in `settings` and `payments`,
where the user may leave things as they are; in `sync_status`, whose sync loop
waits for the next block; and in `header_rules`, whose chains are bounded.

### Fairness

* `ChainSync`: weak fairness of the actions that go on with a round. Every wait
  of the sync loop ends by an answer, a disconnection or a timeout (await), and
  the loop starts a round after every other (syncLoop).
* `WalletLedger`: weak fairness of the sync loop; nothing is assumed of peers,
  of the user or of restarts.
* `FilterRound`: weak fairness of the sync loop and of the goroutine that waits for
  the end of the pinned connection, and, as an assumption on the
  environment, that an honest peer that may join does.
* `PeerPool`: the goroutines maintain and keepPinned go on, a dial ends (the
  handshake has a timeout), the goroutine of a closed connection runs, time
  passes; and, as an assumption on the environment, that a reliable peer accepts
  some dial of infinitely many.
* `PeerRequests`: weak fairness of the sync loop, of the goroutines waiting for
  answers (their timers fire) and of the read loops; strong fairness of the end
  of a round that may end at infinitely many points, since the chain is finite
  and a round cannot go on downloading for ever; and, as an assumption on the
  environment, that a connection that is not in the pool joins it again.
* `Settings`: weak fairness of the user interface, strong fairness of the checks
  and the clients, which wait for a place in the bounded queue that the code does
  not have; and, as an assumption on the environment, that of infinitely many
  attempts of a client to connect one succeeds. Nothing is assumed of the user.
* `SyncStatus`: weak fairness of everything but lost connections, failed rounds
  and the poll timer: goroutines go on and announcements arrive. With these
  bounded, what can be done comes to an end, so weak fairness of the whole is
  enough. The environment is assumed to dial a lost peer again.
* `Payments`: weak fairness of the steps the user interface has begun, strong
  fairness of `RotateIfUsed`, since each status queues it and the queue is served
  between whatever the user does. Nothing is assumed of the user, peers or blocks.

## Findings

Each is a run whose one property states what a comment of the code says.

* `rewind_crash`: a crash inside rewindTo leaves filter rows of orphaned blocks,
  which the next run takes for the rows of the new ones. The headers were already
  cut, so no later round rewinds again.
* `anchor_stale`: when the filter start moves within a run, the anchor proven for
  the old one is compared at the new one, and every honest peer is dropped. This goes
  on until the process restarts or the filter start moves back: `EventuallySynced` of
  `ChainSync` excepts the runs in which neither ever happens, and those of
  `rewind_crash`.
* `late_spend`: an address is paid, then watched, then a block that spends the payment
  is scanned and recorded as matched, although the spender is not known to be the
  wallet's. The rescan finds the payment, and skips that block since it was matched:
  the spent coin is offered for ever.

Further divergences were met while modelling. They are not runs of the project:

* With a fee replacement pending besides the original, pendingSpends knows only
  one of them; when a block confirms the replacement, the original may stay
  pending and count in the balance until it expires (`wallet.go:286`, against the
  comment at `wallet.go:275-276`). `AmountsAgree` excepts it.
* An address watched while a rescan runs, before the rescan finds the block that
  pays it, is neither queued nor scanned (`rescan.go:58`, against
  `wallet.go:203-205`). `LateAddressFollowed` is about addresses found paid as they are
  watched.
* deliver waits on a full channel as long as the peer is connected. `notFound` is
  emptied by getBlock only, but is filled by answers to relayed transactions too,
  and late blocks fill `blocks`. Once a read loop is blocked every getHeaders
  times out: an ordinary primary is dropped for it (`BlockedPrimaryGoes`), the
  pinned one is kept and the sync stands still (`peers.go:160`, against
  `peers.go:158-159`).
* After a peer left between two filter batches the others are compared with each
  other's hashes, `hashes` keeping the positions of before (`filters.go:56`,
  against the comment at `filters.go:115`).
* A transaction that spends a coin created in its own block and pays nothing back
  is not stored, as describeTx reads the coins of before the block
  (`wallet.go:296`). The coin stays one in the sense of `NoPhantomCoin`.
* With two addresses watched late, of which only the first is known as paid, only
  that one is queued (`wallet.go:203-205`). When its rescan finds a payment to the
  second, what a block scanned before spends of it is not looked for: the coin stays
  on offer, as in `late_spend`.
* A dial in flight to a peer that is then pinned joins as an ordinary connection
  and keeps the pinned one out (`manager.go:188`).
* pinnedSeen moves only when the goroutine that waits for the end of the pinned
  connection runs (`manager.go:784`). Until then a connection that lasted longer than
  pinnedFallbackAfter counts as away at once when it ends, against "until it has been
  away for pinnedFallbackAfter" (`manager.go:616-618`), and rows of the others may be
  stored without the pinned peer's word. `PinnedProtects` excepts rows stored in the
  fallback, this one included.
* A false row stored in the fallback is never linked to by the pinned peer once it is
  back (`filters.go:95`), and nothing takes it out: the download stands still.
  `EventuallySynced` of `FilterRound` excepts it (`FalseFallback`), and a false
  anchor, which is voted on once in a run.
* PlanSpend tries prefixes of the sorted coins only: when a confirmed coin is
  worth less than its input costs, it may refuse what other coins could pay
  (`spend.go:95`, against `spend.go:14-15`). `RightlyRefused` names the case.
  For the same reason some of the coins can pay more than Max then: `GoodMax` says
  that Max can be paid, without change from coins ticked, and that all the coins
  together cannot pay a satoshi more.
* The rate has a lower bound only (`send.go:198-201`): from one of about 10^17 on
  `size * rate` leaves an int64 and the fee may come out negative
  (`spend.go:101`). The plan is shown, and when confirmed recorded as pending, although
  no peer will take a payment worth more than its coins. Max has the same product
  (`spend.go:120`). `PlanSound` is about the rates for which the numbers fit (`Fits`).
* The Max button enters an amount that stays when coins, address or rate change, and
  takes 22 zeros for the script of an address not entered yet (`send.go:259-262`): a
  longer script makes the amount more than can be paid, and Review refuses what Max
  entered.
* refreshAddress shows an address before storing it: when the write fails, an
  address is shown that is neither stored nor watched (`app.go:252`); and when
  the write of the next index fails, an index is skipped the next time
  (`app.go:296`). `FreshAddressShown` excepts the first.
* A payment whose recording succeeds but after which loading the wallet fails is
  reported as not sent, although the next peer gets it (`wallet.go:423`).
* A change address is used again once the payment that had it expired, or was deleted
  by a rewind because a fork orphaned its block (`sync.go:290`), although the payment
  may still confirm, or confirm again (`send.go:57-58`). `ChangeStaysOurs` excepts both.
* Inside a difficulty period the bits of a header are not compared with those of
  the period (`chain.go:192`): any target checkPoW accepts will do.
* A process that ends between AddAddress and Watch watches the address from its
  next start, without the rescan Watch would have queued (`app.go:253`).

## Proofs

### The chain

`ChainSyncProofs` proves, for every set of blocks and branches, all batch sizes
and bounds:

* `TypeCorrect`: the type invariant, including that no height leaves the tables;
* `HeadersLoadAgain`: wherever the process ends, Init accepts the stored headers.

All theorems about `ChainSync` assume that the first delete of a rewind, when it is reached, does not fail
(`"delHeaders" \notin RewindFaults`): otherwise the table keeps headers above the
chain in memory and the next batch overwrites only some of them.

`StoredHeadersLoad` is not inductive: it says nothing of the chain in memory that
the next batch is appended to. The inductive invariant `HInv` adds that the chain
in memory is the lower part of a branch (`ChainInv`), that headers waiting to be
appended continue it (`BatchInv`), and that the table equals the memory except
between the truncation of the memory and the delete after it, when it is the part
of a branch that agrees with the memory up to the tip (`HeadersInv`).
`ForkHeight` is the key lemma: a block known from a branch has the same height in
the chain, since a header commits to those below it. That is proved from `Parent`
alone (`Commits`), by induction over the heights: the library's induction theorems
take an operator as a parameter, which the provers cannot be given, but the set of
numbers that have a property is a value, and `AllNumbers` says that one which 0 is
in, and with each number the next, has them all.

As long as no rewind was interrupted (`~interrupted`; `rewind_crash` shows that the
condition is needed), it proves:

* `FilterRowsStayOnChain`: outside a rewind every filter row belongs to the block
  of its height on the chain;
* `LedgerStaysOnChain`: so do the matches and the confirmed transactions.

Neither invariant is inductive, since a rewind breaks both and repairs them one
delete after another. `RowsInv` adds to `HInv` that the cursors of a filter batch
are in order (`SpanInv`), that at every moment, a rewind included, rows at or
below the tip are those of the chain (`BelowInv`), and that a table holds rows
above the tip only until its own delete (`AboveInv`). `StepKinds` sorts the
actions into those that touch neither the chain nor these tables, the truncation,
the four deletes, and those that extend the chain or store rows; each of the
latter then has a lemma of its own.

The invariant is `HInv /\ (~interrupted => RowsInv)`. On the same condition it proves
the two results the others lead to:

* `NoPaymentIsMissed`: after a successful round every wallet transaction of every
  block from the filter start to the tip is stored;
* `SyncImplementsLedger`: `ChainSync` implements `ConfirmedLedger`, whose promise ends
  when a rewind is interrupted.

`NoPaymentMissed` speaks of the end of a round only. `LedgerInv` adds to `RowsInv`
what a row proves: that the payments of its block are stored (`SearchedInv`, and
`AcceptedInv` for those accepted and not committed), that a confirmed transaction
is one of its block (`OwnInv`), that there is no row where the download goes on
(`FreshInv`) and none missing below (`FromInv`, `NoGapInv`). The last two count
only heights with a block dated at or after the seed at or below them, since the
filter start moves with the chain. The refinement then goes step by step: the
truncation is `Fork`, the deletes stutter, a stored transaction is `Book`, and
`FirstRow` shows that the booked payment had no row before, since a transaction
is in one block of a branch only.

### The pool

`PeerPoolProofs` proves for any peers, networks, slots and workers `PoolTypes`,
`UnwantedConnsAlwaysClose` and `PoolStaysBounded`. `PoolInv` adds to the
properties that no address is in the pool twice, closed connections included, and
that the connections of ordinary peers are at most `TargetPeers`: `PoolBounded`
counts live ones, and a pinned connection that is closing while another address
is pinned would break its bound alone.

### The status

`SyncStatusProofs` proves for any peers, blocks and goroutines `StatusTypes`,
`SyncedMeansSynced` and `StatusIsCurrent`. The counters alone do not show that
the wallet is synced: `NewsCounted` says that what the peer of the round
announced is in the chain, or counted since the round began, or about to be
counted by its read loop. `StatusOnItsWay` says of callbacks that the last change
is shown, or held by the goroutine whose turn it is, or that a goroutine is still
to take one.

### The filter round

`FilterRoundProofs` proves for any number of peers, honest or not, of blocks and
of failures, and for all batch sizes, `RoundTypes`, `OneHonestPeerIsEnough`,
`PinnedPeerProtects` and `HonestMajorityDecides`. `RoundInv` keeps the lists of a
round together (`Committed`, `Served`): who served a batch served filters for all
its blocks, honest peers the true ones, and the pinned peer is the first of them.
With that each step is a comparison of variants: a complete one is there when an
honest peer served, and where honest peers are the majority no other variant has
as many peers. For a filter stored while a peer is pinned `PinnedPeerProtects`
rests on `OneHonestPeerIsEnough` for those accepted in the batch: the pinned peer is
the first of the list or the batch was served in the fallback, which the row keeps
(`fallback`), and a pinned peer that returns during a batch makes no difference to it.

### The requests

`PeerRequestsProofs` proves for any peers, capacities and sizes of batches
`RequestsTypes` (no channel holds more than its capacity), `OneRequestAtATime`
and `AnswersAreOurs`. `RequestsInv` says where requests that wait may be: those of
the request in progress on the peers it asks, one on each (`FreshAre`); those
fanOut left behind on connections that ended (`LiveAre`), which needs that the
pinned peer, whose connection is kept, is the first in the list and is waited for
(`PinnedFirst`). A request has what it got and waits for the rest, so that with
nothing left to wait for it has all it asked for (`Outstanding`).

### The header rules

`ChainSyncProofs` also proves `HeadersAreSound` (`AcceptedHeadersSound`) of
`HeaderRules`, for any base of the compact format, number of digits of its mantissa,
limit, window of the median, period and exceptions. `RulesInv` keeps each retarget
as what it was computed from (`Retargeted`), since the bounds it meets say nothing
of the next; and that the target of a retarget is positive, without which nothing
would bound the next one from below. The lemmas it rests on are about numbers:

* `Power`, the shifts of the code, is a recursive function. That there is one is
  proved first: functions that satisfy the recursion up to a number agree where both
  are defined (`PowersTo`), and their union satisfies it everywhere.
* bigToCompact cuts low digits, and one more when the highest bit would be the sign:
  decoding what it returns is the number with those digits zero (`IsCut`). Encoding a
  target that was decoded before loses nothing, which is `NoCreep`, for an even
  base and two digits at least.
* The median of a list exists, is unique, and does not fall when a header above the
  median joins and the oldest one leaves.

`NumbersAssumption` asks for an even base and two digits or more (the code: 256, three)
and a timespan divisible by four (two weeks are); `OfferedAssumption` for bits without
the sign bit, which compactToBig takes for a negative target that checkPoW refuses.

### The ledger

`PeerRequestsProofs` also proves of `WalletLedger`, for any transactions, addresses,
chains and bounds, `LedgerTyped` and `FirstAddressesAreSettled`, and of `History`
`AmountsAlwaysAgree`.

`LedgerInv` says, besides the types, that no rescan has targets between rounds, that a
block being searched has a header, and that the first addresses are watched and, while
a block is matched, in the snapshot. `OnChainInv` says that what is confirmed is in the
chain. `FirstAddressesSettled` counts blocks up to the filter row; processBlock runs
before the row is stored, so the invariant counts up to `Searched`, the block in progress
once it is processed. Its step for a block is the reason of it all: a transaction that
spends what a lower block paid a first address is found since that payment is confirmed,
which is the invariant at the lower height (`SearchSettles`; the filter matches for
the same reason). A fork keeps what is settled up to it and a crash in a block
leaves those below it alone. `ConsensusAssumption` says that a transaction is in one block
of a chain.

`AmountsAgree` holds of every state, reachable or not, so it needs no invariant; it
needs sums. `KeepingProofs` has what the proofs use of a sum over a finite set (`SumOf`):
that `MapThenSumSet` adds up, by induction over the subsets of the set; that sums
split, add up over disjoint unions and compare. With that received, sent and fees are
regrouped from transactions to outputs: each output of the wallet is counted once as
received, and, when a known transaction spends it, once as spent, as no two spend the
same. `ValueAssumption` says that there are finitely many transactions and that none
pays out more than it spends.

### The payments

`PaymentsProofs` proves for any coins, requests, failed writes and ends of the process
`ChangeIsNeverLost` (`ChangeStaysOurs`), `PaymentsTyped` and `PlansAreSound`
(`PlanSound`).

`ChangeStaysOurs` speaks of payments made; what makes it inductive is what it takes to
make one. `StoredInv`: the change addresses stored are numbered without a gap, so that
the number of them, which is what `nextChange` takes for the next index, is a new one.
`PlanInv`: a plan the user may confirm, or did, pays its change to a stored address or
to the next one, which no payment has unless it expired or was orphaned, and that
address is stored and watched when the payment is made, whatever happened since the plan was shown.
Addresses are numbered, so that of the stored ones not used one is the first
(`MinFacts`).

`PlanSound` follows from how Review computes a plan: the coins offered are finite and
told apart by number, so their order puts each at one place, the first `n` of them are
worth as much as any `n`, and what they add up to is a sum over a finite set, with the
lemmas above. Where the numbers fit, no sum or product wraps (`Unwrapped`,
`FitsInRange`), for the inputs PlanSpend tries as for all; `MaxIsGood` says the same
of Max. `TypesInv` keeps the numbers of transactions in order, without which two coins
could not be told apart.

`SeedsAssumption` says that the transactions known at first were received on the first
address: the code starts with an empty table of payments. `RequestsAssumption` says that
amounts are not negative and at most all bitcoin, as parseAmount
(`amount.go:101-126`) sees to, and rates at least 1 and an int64, as the form
does (`send.go:198-201`); `EntriesAssumption` the same of what Max finds in the form;
`ReceivedAssumption` that what is received is a natural number of satoshis;
`IntAssumption` that the largest int64 is a natural number.

### The settings

`SettingsProofs` proves for any peers, networks and moves `SettingsTypes`,
`SyncDoesWhatIsSet` and `ClosedClientsAreGone`. What the handlers do by themselves
is not enough, since results come later: `QueueOK` and `ChecksOK` say that a check
or a result of the latest edit is of the peer in the field, with no network on, so
that what `Probed` does not discard is right (`Current`); `SwitchOK` says that a
network's client is one of those started, and `ClientsOK` that a closed client's
goroutine has returned. `MovesOK` bounds edits and starts by the moves. That
`None` is no number is part of `PeersAssumption`, as clients are numbers.

### Lists

The lists of peers are filtered all along these models, and of the standard
`SelectSeq`, which is recursive and takes an operator, the provers know nothing. `Keep` in
`Keeping` says the same by places: the k-th element kept is the one at the k-th
place that holds an element of the set. `KeepingProofs` has what it keeps, in
which order and how often; `MCFilterRound` has TLC compare it with `SelectSeq`.

### What is only model-checked

* Liveness, which is out of the prover's reach: `EventuallySynced`,
  `HeadersEventuallySynced`, `RescanArrives`, `CallsEnd`, `BlockedPrimaryGoes`
  and the others.
* `FreshAddressShown`, which is about infinitely many states, hence temporal as well.
* `LateAddressFollowed`. It needs an invariant about each cursor of a rescan in
  progress at once (queue, target, position) and what a fork and a restart do to it,
  which is on the plan.
* That `Keep` is `SelectSeq`, which TLC compares on all short lists (`MCFilterRound`).

## Not modelled

* HD keys and signatures: cryptography, without state.
* Dials and handshakes (`p2p`), compact filters (`gcs.go`) and bloom filters: I/O
  and data structures, whose outcomes the models take.
* The inventory exchange (requestTxs, seenTxs): which peer is asked for a relayed
  transaction, and when it is asked again.
* The address book of peers, its scores and the choice among candidates.
* Exchange rates, the layout of the windows, flags, and the tools.

## Plan

Every safety invariant that a run checks is proved but `LateAddressFollowed`. What
would say more:

* its proof, from what the cursors of a rescan have left to do (`RescanDue`);
* a model of rescans in which filters have false positives and blocks are skipped by
  what was stored of them, so that the condition on the chains under which no spent
  coin of a late address is offered can be stated as an assumption and proved
  sufficient;
* the inventory exchange (requestTxs, seenTxs) and the address book of peers.
