# Verification of pruned-electrs

pruned-electrs is a set of patches that let electrs run on a *pruned* bitcoind, and
index a chain whose block headers change from 80 to 164 bytes at an activation height,
with the patches to Sparrow and btc-rpc-proxy that go with them and the scripts that
measured and tested it all. The patches hold the program's own logic, and line numbers
below and in `PROJECT.json` are lines of the patch files: `0004:942` is line 942 of
`src/patches/0004-headerv2-index-a-BLAKE2b-chain-end-to-end.patch`. The parts of
electrs that no patch touches (the server loop around a handler, the index write path,
the p2p threads) are modelled from how the patched code uses them and marked external
in the map.

## 1. Inventory

### Pruned-aware block fetching (0001, 0002, 0004)
* **State**: `Daemon::pruned`, read once at startup; one p2p connection with its
  channels of received blocks and headers, under a mutex; in each call, the prune
  height it read and its position in the batch.
* **Operations**: `Daemon::for_blocks` reads the prune height, resolves the heights
  of the batch, and walks it in maximal runs: blocks on bitcoind's disk are asked
  for in one `getdata` and received by position; pruned ones are fetched one by one
  over RPC. `get_new_headers` uses the same connection.
* **Interactions**: callers are the indexing pass, and the workers that serve one
  event of the server loop; the other side is bitcoind, which answers a request
  for a block it has pruned with *silence*.
* **Hard**: an untimed `recv` with the mutex held; replies without identifiers; a
  prune height that is stale when used; errors in the middle of a batch, which are
  an error reply on the query path and the end of the process on the indexing path.
* **Correct when** a caller is handed exactly its blocks in its order or is told of
  an error; nothing is asked for that is answered with silence; the connection is
  handed on with nothing in flight; every call returns.

### Retrying of RPCs (0002)
* **State**: a deadline, a delay, the exit flag. **Operations**: attempt, wait in
  slices, give up; one retried RPC after another.
* **Hard**: the deadline is tested after an attempt only; the delay doubles to a
  limit; a signal at any moment.
* **Correct when** an error is final neither early nor (much) late, a signal is
  noticed within a slice of waiting, and the operation ends.

### Archival helper (0008)
* **State**: whether the helper was accepted at startup, and the ceiling, an atomic
  shared by all threads. **Operations**: ask the helper first for a pruned block
  below the ceiling; check the hash of the header it sends; on "Block not found" lower
  the ceiling; fall back to the usual source.
* **Hard**: threads race between reading and swapping the ceiling; the startup check
  of the helper goes stale; errors that are transient and one that is not.
* **Correct when** shared history stays readable from the helper, and what it was found
  to lack is, in the end, not asked of it again.

### Header chain and index (0004, 0002)
* **State**: rows and tip row in RocksDB; the chain in memory; a pass: new headers,
  reader, writer. **Operations**: load and walk back from the stored tip, drop the
  last headers, ask for new headers, read and write batches, move the chain, reorg.
* **Hard**: the process may end between any two of them; header keys have two lengths and
  share their column family with the tip's; stale branches keep their rows.
* **Correct when** every start succeeds, the chain in memory is linked and fully
  indexed, and it ends up as bitcoind's.

### Electrum session: protocol 1.8 (0006), and the server loop (0007)
* **State**: for each client its negotiated version and last tip sent; the server's
  tip; what lies unread in each client's socket.
* **Operations**: connect, `server.version` (at any time, repeatedly),
  `headers.subscribe`, `block.header(s)`, notification after a sync, disconnect. All
  of them, and the sync, are turns of one loop, which writes with blocking writes.
* **Hard**: the chain crosses the activation height, both ways, under open sessions;
  a client that stops reading holds the loop until the write times out.
* **Correct when** no client is sent a header it cannot parse, every subscriber is
  current, a wallet that reads v2 headers is not locked out, and the loop always
  comes back to its events.

### server.features: the fork point (0006)
A binary search for the lowest v2 header. Correct when it finds it, stays on the
chain and reads a handful of headers.

### Fetch benchmarks (spikes/mainnet-fetch)
* **State**: connections to public peers, a pool of them, a shared queue of blocks,
  one thread per connection.
* **Operations**: walk the header chain, warm the pool, drain the queue by level;
  ask for many blocks down one connection; time single fetches, replacing peers.
* **Hard**: answers are counted, not identified; a peer that timed out stays in the
  pool with its answer on the way; a failed worker puts its block back when the
  others may have left.
* **Correct when** no block is fetched by two workers or lost, a block left behind is
  one a peer failed with, a connection that has not timed out stays in step, and the
  bench ends.

### Fork peer discovery and header download (spikes/blake2b-testnet4)
* **State**: the frontier of a crawl in rounds, what was gossiped, who is confirmed,
  one probe per worker of a pool; the file of peers; a headers message being walked.
* **Hard**: peers send everything in any order and whenever they like; a probe in
  gossip mode reads on after its verdict; headers have two lengths, told from their
  own first word.
* **Correct when** only fork peers are confirmed, written down and followed, none is
  forgotten, what is written are the headers of the message cut at their boundaries, up
  to the limit, and both scripts end.

### Stratum miner and share grinder (spikes/datum-pruned)
* **State**: one stream of lines; the job and difficulty in force; the round.
* **Hard**: the stream is read only while the miner waits for something; the gateway
  numbers requests of its own with the ids the miner uses.
* **Correct when** no job is ground twice, a job is ground at its difficulty, requests
  and replies stay paired, and the grind ends.

### Header v2 (0003, spikes/electrum-probe)
The fields and flags, the time with its offset modulo 2^32, the mask over a number of
bits, and two Merkle computations. Correct when the hash commits to the whole header,
the mask clears exactly its bits, and a branch proves its leaf.

### Not modelled
| part | source | why |
|---|---|---|
| byte layouts and decoders | 0003, 0005 | a field is a field here; BLAKE2b and SHA-256 are constructors without collisions |
| transactions and statuses of scripthashes | 0004 | byte-level parsing and pure look-ups, no state of its own |
| Sparrow's header store | patches/sparrow | Java whose store (`BlockHeaders`, `HeaderChainState`) is in the patch only where its lines changed: the writes and the recovery around them cannot be read there, so a model would be a guess |
| btc-rpc-proxy patches | spikes/proxy-regtest | constants of a request and a socket option |
| fallback proxy | spikes/blake2b-pruned | forwards a request, then perhaps to another node; nothing is kept between two requests, and what it answers is the "RPC succeeds or fails" of `PrunedDaemon` and `RetryRpc` |
| DNS, onion harvest, SOCKS handshake | spikes/mainnet-fetch, blake2b-testnet4 | they end before the connections that are modelled; their result is a list of addresses |
| p2p_probe.py, the remaining electrum probes | spikes/p2p-pruned, electrum-probe | they ask one question and print the answer; `midsession_probe`'s is what `SubscribersServed` says |
| regtest harness | spikes/harness | sets up and measures; what `failure_modes.sh` expects is quoted where a property answers it |

`PROJECT.json` lists the hazards at their lines, the ones no property covers included.

## 2. How the parts fit together

```
 wallets == sockets == ServerLoop --implements--> ElectrumSession     ForkPoint (features)
                          | sync, then notify, then requests
                     HeaderIndex -- rows, tip row (RocksDB)
                          | for_blocks, get_new_headers
                     PrunedDaemon --implements--> BlockSource
                     |            |
            p2p (mutex)        RPC: RetryRpc -- ArchivalHelper, then provider

 find_fork_peers: ForkCrawl --file of peers--> fetch_fork_headers: HeaderFetch   (ForkHeaders)
 fetch_bench, concurrency_bench: FetchBench over PeerConnection --implements--> WorkLedger
 stratum_miner, grind: Stratum            electrum-probe: HeaderV2
```

Three compositions are state machines of their own. `ServerLoop` puts the sessions on
sockets that fill. `ForkHeaders` instantiates the crawl and the download over one
network and one file, which the second script reads while it may hold what an earlier
run left. `FetchBench` runs its threads over the connections of `PeerConnection`. The
rest see the component below through the promise it keeps: `HeaderIndex` takes from
`BlockSource` that a batch is read completely or fails (`ReadBatch`, `ReadFails`);
`PrunedDaemon`'s `FetchPruned` is one retried RPC, which ends by `RetryRpc`, with the
block asked for by `ArchivalHelper`; the loop sees the index as a tip that moves.

| module | models | state and code |
|---|---|---|
| `BlockSource` | the promise of `for_blocks` | `status`, `batch`, `got`: a call, what it asked for, what its callback was given |
| `PrunedDaemon` | 0001, 0002, `Connection` in 0004 | `pruned`, `p2p` = the mutex, `asked`/`replies`/`headers` = the wire and the channels, `floor` = the prune height read, `runEnd` = the current run |
| `RetryRpc` | `retry_rpc` and its use in `for_blocks_with` | `deadline`, `delay`, `exitFlag` as in the code; `until` the end of a wait |
| `ArchivalHelper` | 0008 | `used` = `Daemon::helper`, `ceiling` = `helper_ceiling`; `unknown` is a history variable |
| `HeaderIndex` | `Index::load`, `Index::sync`, `Chain` | `rows`, `storedTip` = the database; `chain`; `pending`, `base`, `read`, `written`, `reader` = a pass |
| `ElectrumSession` | the handlers of 0006 | `negotiated`, `subTip` = `Client`; `readV2`, `refused` are history variables |
| `ServerLoop` | the loop around them, 0007 | `writing` = whom `Peer::send` has not returned for; `unread` = the socket |
| `ForkPoint` | `fork_point` | `lo`, `hi`; `probes` counts header reads |
| `WorkLedger` | the promise of a shared queue | `todo`, `held`, `done` |
| `PeerConnection` | `fetch_bench.Peer` | `conn`; `asked`, `wire` = the two directions; `late` counts timeouts |
| `FetchBench` | both benches | `pool`, `queue` = `q`, `worker`/`hand` = a thread and its `height`, `remaining` = answers of a batch to come |
| `ForkCrawl` | find_fork_peers.py | `frontier`, `probed`, `confirmed`, `gossip` as in the script; `phase`, `greeted`, `verdict` = `out['fork']`, `heard` = a probe; `file` = `--out`; `shown`, `saved` are history variables |
| `HeaderFetch` | fetch_fork_headers.py | `payload`, `count`, `offset` as in `split_headers`; `walked` = what it returned, `output` = what is written of it; `other` = a message read and skipped |
| `ForkHeaders` | the two in a row | the variables of both, `file` shared |
| `Stratum` | stratum_miner.py, grind.py | `wire` = the socket and `self.buf`; `job`, `difficulty`, `nextId` as in the class |
| `HeaderV2` | the stages of the hash in 0003, which headerv2_hash.py repeats on what it parses; verify_header_v2.py, verify_cp_height.py | `raw`; `layer`, `index`, `branch` of a Merkle walk |

Each is run through an `MC` module with the values of the run, the abstract and shared
ones through the module that uses them.

What the models leave out of the data: a block is its height (`PrunedDaemon`,
`ArchivalHelper`), its position in the window (`FetchBench`) or a node of a block tree
(`HeaderIndex`); a header is its height and whether it is v2, or words of which the
first tells its length, and a count in more bytes than one is two words
(`HeaderFetch`); a chain is "fork", "other" or "behind" (`ForkCrawl`); an error is one
value, except "Block not found". One write batch of RocksDB is one step: it is atomic.
Locators hold all of the last headers and some of the older ones (`DenseLocator`; ten
in the code). A helper's answer is the header it begins with, and what follows it is
nothing the code looks at. The exclusive or of a mask and a hash is a pair of the two
(`HeaderV2`): two that agree as numbers are taken to differ. The definitions headed
"Mutant" are not part of any specification: each is a plausible mistake in the
definition after it, and swapping it in makes a property fail.

## 3. Runs

| run | bounds | shows |
|---|---|---|
| `server_loop` | 2 clients (stops at 1.4, need not read; spans 1.4 to 1.8, reads), 2 branches, heights 0..3, activation 2, 3 tip changes, sockets that hold one message; 35,360 states | `NoUnreadableHeader`, `SubscribersServed`, `NegotiationIsStable`, `ImplementsSession`, `LoopReturns`, `ReaderReturns` |
| `daemon_quiet` | 2 threads, heights 0..3, batches on one side of, straddling and twice crossing the prune height, channel of 1; pruning between calls; 29,235 states | `NeverAsksForPruned`, `InFlightIsExpected`, `EveryCallReturns` |
| `daemon_pruning` | 2 threads, heights 0..2, pruning at any moment; 361,057 states | `ImplementsBlockSource` |
| `daemon_hang` | 1 thread, the same | violation: a call never returns |
| `retry` | quarter seconds; delays 1 s to 30 s, budget 37.5 s, slices 250 ms, 2 RPCs that fail at once or after 3 s; 177,164 states | `GivesUpInTime`, `ExitIsNoticed`, `OperationEnds` |
| `helper_synced` | 3 threads, heights 0..4, split at 2; 40,688 states | `CeilingSparesSharedHistory`, `BoundarySettles` |
| `fork_point` | every chain of up to 34 headers and every activation height; 5,615 states | `FindsTheFork`, `HalvesTheRange` |
| `header_index` | branches of 4 and 6 blocks that part after the first block and both reach v2; 3 headers a pass, batches of 1, 1 block reindexed, 2 failures; 3,495 states | `NeverPanics`, `ChainIsIndexed`, `ChainIsLinked`, `CatchesUp` |
| `fetch_bench` | the three modes, 3 connections, levels of 1 and 2, 2 blocks, one other message unread at a time, 2 attempts, 2 repeats; 408,637 states | `StrandedOnlyByFailure`, `AnswersInStep`, `ImplementsLedger`, `BenchEnds` |
| `fork_headers` | 3 addresses of which 2 are given and 1 is heard of from 1 of them, 3 rounds, 2 workers, an earlier file of a right and a wrong name; every payload of up to 3 words and every pair of headers with their counts, headers of 1 and 2 words, a limit of 1 and none; 464,867 states | `OnFork`, `OnlyThroughForkPeers`, `NothingForgotten`, `WritesTheHeaders`, `RefusedForAReason`, `BothEnd` |
| `stratum` | 4 jobs, 2 difficulties, 2 extra lines of the gateway unread at a time, 3 rounds; 1,389,810 states | `TypeOK`, `EachRoundOnANewerJob`, `AtItsDifficulty`, `OneReplyOwed`, `MinerEnds` |
| `header_v2` | words and bytes of 4 values of which 2 have the v2 flag, masks of 3 bytes, 2 streams, a set of headers that varies every field, bytes of flags up to 255; trees of up to 11 leaves; 63,648 states | `MatchIsTheHeader`, `MaskClears`, `BranchProves` |

Every safety property of these runs, the refinements included, is also a theorem
(section 4); the runs show it on instances whose counterexamples can be read. The type
invariants are proved and, but for `Stratum`'s, not run again; `HeaderV2` has no use for
one beside `BranchProves`, which reads its index.

**Why these bounds are enough to meet the interesting cases.** Sessions meet only in
the server loop, so two are enough for one to be dropped, or to hold the loop, while
the other is told; a socket of one message is full after one answer. Three tip changes
allow a crossing, a reorg back and another crossing, or a reorg at equal height. Two
threads are what it takes to contend for the mutex, a third lets the ceiling rise
again while one still asks, and three heights have a run on each side of the prune
height and one more. In `daemon_quiet` the channel holds one block, fewer than a run,
so bitcoind waits for the receiver; in `daemon_pruning` it holds two. The budget of
`retry` lies between the real 10 s and 300 s: the smallest in which the delay reaches
its limit and the RPC fails again after that. A reorg to the longer branch of
`header_index` takes two passes of several batches each, and a crash can fall anywhere
in it. 34 headers put a power of two on both sides of the range of `fork_point`. In
`fetch_bench` two workers on two blocks meet every order of taking, failing, putting
back and leaving, and the third connection is the one that replaces a failed peer. In
`fork_headers` one address is reachable only through another, so a round that loses
gossip loses it, and two workers leave one address waiting; the pairs of headers are
of one length or of both, hold words that look like a flag or a wide count, and are
followed by counts of zero in one word or in two and by counts that are not zero. Four
jobs for three rounds let one be skipped. Three bytes of a mask of two bits each have
an edge within a byte, at its end and in the last. `MaxInFlight`, `MaxPings` and
`MaxExtras` bound what lies *unread*: one read makes room for the next, so a peer or a
gateway may go on for ever, as the code lets it. `MaxJobs` bounds the jobs of a
gateway; `MaxSyncs` and `MaxFailures` bound counters.

### Fairness
* `ServerLoop`: the loop never stops while it has something to do, the kernel takes
  what fits, a write that does not fit times out (weak fairness of `Notify`, `Taken`,
  `WriteFails`), and clients called prompt read (weak fairness of `Reads`). A wallet
  that is cut off connects again, negotiates again, and subscribes if it may be
  served, if it gets the chance again and again (strong fairness: the chain may cross
  back in between). No fairness makes the other clients read, any client stay, or the
  chain move. That `ReaderReturns` is about prompt clients is no weakness of the check:
  one that floods the server and never reads is dropped in the midst of its handshake,
  for ever if it likes.
* `PrunedDaemon`: threads run, bitcoind works through its requests, RPCs have a
  timeout, the supervisor restarts electrs. The mutex is granted to a waiter for whom
  it is free again and again (strong fairness of `Ask` and `AskHeaders`): its holders
  are finitely many workers of one event. Nothing makes bitcoind prune, a caller call
  or a process end; a reply is *not* assumed to come.
* `RetryRpc`: an RPC ends by its timeout, a sleep ends. `HeaderIndex`: a step of the
  load or of a pass that can be taken is, and the process is started again; failures
  are bounded and may also not happen, blocks need not arrive.
* `FetchBench`, `ForkHeaders`, `Stratum`: a script that can take a step does, and a
  read that nothing satisfies times out, as every socket there has a timeout (a probe and
  `wait_for_job` a deadline). Peers and gateways owe nothing, not even silence: `get_block`,
  `fetch` and `wait_for` have a timeout for each read and none for the wait, so a peer that
  goes on sending something else keeps them. `BenchEnds`, `BothEnd` and `MinerEnds` say
  that this is the one way not to end; without the exception (`EndsAnyway` of each module)
  TLC finds it.

The runs of operations and scripts, which really do stop, and of the caught-up index do
not check for deadlock (`retry`, `fork_point`, `header_index`, `fetch_bench`,
`fork_headers`, `stratum`, `header_v2`). The others are checked.

### Finding
**A stale prune height hangs a query** (`daemon_hang`, `EveryCallReturns`). The prune
height is read once per batch, then RPCs are retried and earlier runs fetched. If
bitcoind prunes a block of a later local run meanwhile, the `getdata` is answered with
silence, and the caller waits for ever with the mutex held. 0001:111-113 and
0001:152-154 reason that reading it per batch avoids that.

### Observations
Disagreements of a doc and the code that are not worth a run of their own. The first
four can be seen by adding the definition named to a cfg; the others were met while
reading, and the models do what the code does.

* A refused `server.version` leaves the connection open (`RefusalCloses`), where
  docs/electrum-header-v2.md:110-111 says it is closed. `NoUnreadableHeader` shows that
  no header leaks through it.
* A query waits 15 s for a budget of 10 s (`WaitsNoLongerThanBudget`). `GivesUpInTime`
  says what bound does hold.
* The ceiling can rise again, by the `swap` of the thread that answers last
  (`NothingAskedAboveUnknown`; 0008:192-193). It costs RPCs only, and not for long:
  `BoundarySettles` says that once no thread is asking there any more, none asks again.
* Of what the helper sends only the header is compared (0008:289-291), where the comment
  (0008:277) says that the returned bytes are: the right header with other or fewer
  transactions behind it is handed on.
* A helper that lags at startup (`HelperMayLag = TRUE`) is written off below the split
  (`CeilingSparesSharedHistory`): the startup check compares it with the prune height
  of that moment, and "Block not found" is taken for "and never will be" (0008:152-154).
* concurrency_bench.py puts a block back to "let a healthy worker retry it"; the healthy
  workers may have left by then, and the block is not fetched
  (`StrandedOnlyByFailure` says that this is the only way).
* A pooled peer that timed out keeps its late answer, which `get_block` takes for the
  next block: neither bench compares hashes, where fetch_bench.py:8-10 speaks of the
  same validation. A `notfound` counts as fetched. `AnswersInStep` is about connections
  that have not timed out. `warm_pool` may connect to one host twice, where
  concurrency_bench.py:12 says different peers. The latency bench ends in an
  exception when no replacement answers.
* fetch_fork_headers.py takes an empty headers message for success, and a peer that
  keeps sending something is never cut off: a read after the deadline still waits
  (`EndsAnyway`; also of `get_block` in fetch_bench.py:235-242 and of `wait_for` in
  stratum_miner.py:49-53).
* find_fork_peers.py gives its verdict anew at every headers message, and one without
  headers says no (206-214): only an exception is kept from taking back a verdict (224).
  `NothingForgotten` is about the last message.
* find_fork_peers.py leaves an earlier `--out` in place when it confirms nobody. The
  fork is re-cut now and then (47-51), so such a file may name peers of another chain,
  and the headers are then fetched from them; `OnFork` is about the file a run has
  written.
* headerv2_hash.py clears the v2 flag in parsing (135) and sets it in hashing (74), so a
  header without the flag matches the hash of the one with it.
* A grind takes the *oldest* notification that lies unread, where grind.py:7-8 says a
  fresh one; `EachRoundOnANewerJob` is what holds. Any reply to a submission ends it, a
  rejection too.

## 4. Proofs

The `Proofs` modules hold the theorems, checked by TLAPS for **every** value of the
constants that satisfies the assumption of the module (`SessionAssumption`,
`LoopAssumption`, `DaemonAssumption`, ...: naturals where the code has lengths and
times, at least one where it divides work, a tree where it has a block tree; TLC
evaluates each in a run).

* **`PrunedDaemonProofs`** - `TypeCorrect`: types, and that the mutex is held by
  exactly the thread that waits on the connection. `Refinement`: `PrunedDaemon`
  implements `BlockSource`, pruning during calls included. `TypeOK` is inductive, but
  says nothing of the position of a thread in its batch; `CallInv` adds that a call
  runs exactly while its thread is inside `for_blocks`, that what has been handed over
  is the beginning of the batch, and that the current run is unfinished and within the
  batch. One lemma per kind of step (`MovingKeeps`, `LeavingKeeps`, `FailingKeeps`,
  `HandingKeeps`, `ExitKeeps`) shows that it keeps `CallInv`; `StepRefines` maps each
  step to `Begin`, `Hand`, `Return`, `Fail`, `Exit` or a stutter. The connection's
  contents play no part: a reply is compared with what is expected, so order holds
  whatever is in the channel. `AsksOnlyForBlocksOnDisk` (`NeverAsksForPruned`) and
  `ConnectionHandedOnClean` (`InFlightIsExpected`) assume `~PruneDuringCalls`, without
  which the finding of section 3 refutes the first. Their invariant adds `Wire` (what
  is on its way, the answer to getheaders included, is what the mutex's holder waits
  for, and nothing when it is free) and `Floors` (the prune height a call read is still
  at or above bitcoind's, so a run routed to p2p is on its disk; on a node that does
  not prune the height is 0, which rests on the flag read at startup still being right
  while the process is up). The two go together: a reply is never missing because no
  request is skipped, and no request is skipped because what is asked is the run.
* **`HeaderIndexProofs`** - `AlwaysResumes` (`NeverPanics`), `HistoriesComplete`
  (`ChainIsIndexed`), `LinkedToGenesis` (`ChainIsLinked`), `TypeCorrect`. They are
  proved together, as each needs the others: a walk back finds every parent because
  with a block the database has its parent and the tip is a block it has
  (`Resumable`); a batch keeps that because the new headers hang on the chain, link by
  link, and the batches before are written (`PassOnChain`), and because the chain they
  hang on is linked and indexed; and what was loaded is linked because it hung on the
  block looked for all along (`LoadedSoFar`). `IInv` is their conjunction.
* **`ElectrumSessionProofs`** - `HeadersAreReadable`: from `NegotiatedInRange`, which
  turns "negotiated 1.8" into "can read a v2 header", and `CarriedMeansCrossed`: a
  v2 header is sent only from a chain that has crossed. `SubscribersAreCurrent`: from
  `BehindWhileNotifying`: while the loop notifies, no subscription is at the tip, so
  `notify_peers` looks at all of them. `NegotiationStable`, `TypeCorrect`.
  `SessionImplemented`: each step of `ServerLoop` is one of `ElectrumSession` or of the
  sockets alone; so `LoopKeepsPromises` gets all of these for the loop with any sockets
  and any readers. `LoopTypeCorrect`.
* **`FetchBenchProofs`** - `LedgerImplemented`: the queue, the workers and the finished
  blocks implement `WorkLedger` under a mapping in which a waiting worker holds its
  block. `StrandedByFailure`. The invariant (`IInv`) says that only the team of the
  level works (`OnlyTheTeam`), that a block is queued once, in one hand or finished
  (`HeldOnce`), and that once a worker left for an empty queue, what is queued later
  was put back by one that failed (`Stranded`). `TypeCorrect`. `AnswersPaired`
  (`AnswersInStep`), by `StepInv`: a connection that never timed out carries, of answers
  and of requests not answered yet, exactly those its reader is still to receive, in
  their order - the block in hand of a worker (`WorkersInStep`), the rest of the batch
  for the thread that drains it (`MainInStep`), none while it is indexed and none on a
  fresh one (`Untouched`). Pings lie between the answers, so an answer's place is told
  by counting those up to it (`AnswersUpTo`), and the lemmas are about how that count
  moves when something is sent, answered, read or sent unasked.
* **`ForkHeadersProofs`** - `ForkPeersOnly`, `ThroughForkPeers`, `NothingIsForgotten`
  from `CrawlInv`: a verdict "fork" is told by a peer of the fork (`Truthful`), which
  the confirmed and the file inherit (`ForkPeersKept`), and what the crawl reached,
  and what its probes are for, is what was given or heard of from the confirmed
  (`CrawlPath`). `TypeCorrect` (with the bound of the pool, by the cardinality of the
  probes under way). `HeadersWritten` (`WritesTheHeaders`) from `FetchInv`, of which
  `Tiling` says that each piece begins where the one before and its count end; the cut
  of the whole message is made of these when the walk is accepted (`AcceptKeeps`).
  `HonestNotRefused` (`RefusedForAReason`), by `Forced`: if the message can be cut
  into headers at all, the pieces split off so far are the first of that cut, so
  wherever the walk stops short, the message cannot be cut.
* **`StratumProofs`** - `TypeCorrect` with `Exchange`, which says how many requests
  were made where. `ReplyOwed` (`OneReplyOwed`): the reply awaited is in the inbox or on
  the wire, once, and there is no other, whatever the gateway interleaves (`Owed`).
  `NewerJobs`: the jobs on the wire are in order and newer than the one at hand and than
  all that were ground (`Newer`). `DifficultyKept`: at each place of the wire a
  difficulty is in force, the last one set before it (`InForce`), which for a job is
  the one the gateway sent it with; it needs `NewerJobs`, for a job notified anew must
  not be one that was ground.
* **`RpcProofs`** - of `RetryRpc`, `GivesUpOnTime`: by `Backoff`, a delay is at most the
  time already spent on the RPC plus the first delay, and a wait is begun before the
  deadline. `NeverEarly`. `ExitNoticed`: by `SleepIsShort`, the sleep during which the
  signal comes is the last. `TypeCorrect`. Of `ArchivalHelper`, `SharedHistorySpared`:
  for a helper that has caught up with the split (`HelperMayLag = FALSE`), for any
  number of threads. `BoundaryStaysSettled` (`BoundarySettles`): the
  ceiling is only ever swapped for a height that somebody was asking for.
  `HelperTypeCorrect`.
* **`HeaderV2Proofs`** - of `ForkPoint`, `ForkFound`, for a chain of any length, by
  `Bracket`: below `lo` nothing is v2, and `hi` is. `SearchHalves` (`HalvesTheRange`),
  `SearchTypeCorrect`. Of `HeaderV2`, `HashMatches`: each profile's input to the hash
  commits to every field but the v2 flag, which it sets, and `OffsetCancels` modulo a
  word of any size. `MaskExact`: the number that the masked bytes make so far is 0 up
  to the byte at the edge, and from there on the remainder of the number that the
  bytes make by the power of two of the bits kept (`ClearedIsRemainder`), for bytes
  and masks of any length. `BranchIsProof`, by `Reached`: the index is the one asked
  for divided by the power of two of the layers climbed, and a climb along the branch
  so far reaches the node at it; a longer branch is one step more of the same climb
  (`OneStepMore`).

Powers of two are not known to the provers' arithmetic. `PowerOfTwo` takes them from
the library as the number of subsets of a set, which a new element doubles, and
`Induction` is stated for a *set* of numbers that holds 0 and with each number the next,
which follows from the library's facts about finite sets: a finite set cannot be mapped
one to one to itself and miss an element. That is what `PowerOfSum`, `SumsExist` and
`ClearedIsRemainder` are shown by.

Only model-checked: liveness (`LoopReturns`, `ReaderReturns`, `EveryCallReturns`,
`OperationEnds`, `CatchesUp`, `BenchEnds`, `BothEnd`, `MinerEnds`), which is out of the
prover's reach.

## 5. Limits

* The server's other requests (balances, histories, mempool, merkle proofs) are not
  modelled: the patches leave them as upstream has them.
* A helper or a provider that lies consistently about a hash is excluded by the hash
  function; the wrong header is modelled, the transactions behind a right one are not.
  The chains of the network do not change during a crawl but for peers that catch up.
  The peers of a bench are honest about the contents of what they send.
* Wall-clock time is only in `RetryRpc`; elsewhere a timeout is a failure that may
  happen at any moment.
* The constant that tells the fork's headers from the other chain's
  (find_fork_peers.py:58) is taken to be right.
* Memory, performance and the wording of errors are left out.

## 6. Plan

`HeaderStore` (patches/sparrow), should the Java around the changed lines be vendored.
Of the proofs, the half of the liveness properties that is about single steps can still
be stated: a measure for each operation (what is left of a batch, of a backoff, of a
round of the crawl) that every step of it lowers.
