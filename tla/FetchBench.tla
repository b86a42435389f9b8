----------------------------- MODULE FetchBench ------------------------------
(***************************************************************************)
(* The two benches that fetch historical blocks from public peers:         *)
(* concurrency_bench.py with its two modes, and fetch_bench.py.            *)
(*                                                                         *)
(*   "peers"    for each level n, n worker threads, one per connection of  *)
(*              a pool that was warmed up to n, drain a shared queue;      *)
(*   "single"   for each level n, n blocks are asked for at once down the  *)
(*              first connection and the answers are drained;              *)
(*   "latency"  each block is fetched a few times, one request at a time,  *)
(*              and a connection that fails is replaced by another.        *)
(***************************************************************************)
EXTENDS PeerConnection, SequencesExt

CONSTANTS
    Levels,           \* --levels
    AttemptsPerPeer,  \* warm_pool tries this many connections for each peer
    Repeat            \* --repeat

ASSUME BenchAssumption ==
    /\ Levels \in Seq(Nat)
    /\ AttemptsPerPeer \in Nat /\ Repeat \in Nat

VARIABLES
    mode,       \* which of the three runs
    phase,      \* of the main thread
    window,     \* how many blocks the header chain could name
    level,      \* the level, or in "latency" the fetch, under way
    pool,       \* the connections in use, the primary one first
    attempts,   \* of this warm_pool
    queue,      \* the shared queue
    worker,     \* worker[c]: the thread of connection c
    hand,       \* hand[c]: the block it took last
    finished,   \* the blocks for which get_block returned, in this level
    remaining   \* answers of the batch not read yet

threads == <<queue, worker, hand, finished>>
main == <<mode, phase, window, level, pool, attempts, remaining>>
vars == <<connections, threads, main>>

Ended == {"done", "stopped", "crashed"}

Init ==
    /\ ConnectionInit
    /\ mode \in {"peers", "single", "latency"}
    /\ phase = "connecting" /\ window = 0 /\ level = 1
    /\ pool = <<>> /\ attempts = 0 /\ remaining = 0
    /\ queue = <<>> /\ finished = {}
    /\ worker = [c \in Conns |-> "idle"]
    /\ hand = [c \in Conns |-> 0]

\* The peer of the main thread.
Peer == Last(pool)

(***************************************************************************)
(* The beginning, which the three share.                                   *)
(***************************************************************************)
ConnectPrimary ==
    /\ phase = "connecting"
    /\ \/ /\ \E c \in Conns : Connect(c) /\ pool' = <<c>>
          /\ phase' = "indexing"
       \/ /\ phase' = "stopped" /\ UNCHANGED <<connections, pool>>
    /\ UNCHANGED <<threads, mode, window, level, attempts, remaining>>

\* headers_from answers a ping and reads on.
IndexPing ==
    /\ phase = "indexing" /\ ReadPing(Peer)
    /\ UNCHANGED <<threads, main>>

\* The walk of the headers stops at the first empty answer; a read that
\* fails, or a chain too short for the block to probe with, ends the script.
BuildIndex ==
    /\ phase = "indexing"
    /\ \/ /\ window' \in 0..WindowSize
          /\ phase' = IF mode = "peers" THEN "warming" ELSE "asking"
       \/ phase' = "crashed" /\ UNCHANGED window
    /\ UNCHANGED <<connections, threads, mode, level, pool, attempts, remaining>>

(***************************************************************************)
(* Mode "peers".                                                           *)
(***************************************************************************)
AllLevelsDone == level > Len(Levels)
Want == Levels[level]
Team == {pool[i] : i \in 1..Want}

NoMoreLevels ==
    /\ mode = "peers" /\ phase = "warming" /\ AllLevelsDone
    /\ phase' = "done"
    /\ UNCHANGED <<connections, threads, mode, window, level, pool, attempts, remaining>>

\* warm_pool connects to a peer and has it serve a block: it joins the pool,
\* or is dropped.
WarmPool ==
    /\ mode = "peers" /\ phase = "warming" /\ ~AllLevelsDone
    /\ Len(pool) < Want /\ attempts < Want * AttemptsPerPeer
    /\ attempts' = attempts + 1
    /\ \/ \E c \in Conns : Connect(c) /\ pool' = Append(pool, c)
       \/ UNCHANGED <<connections, pool>>
    /\ UNCHANGED <<threads, mode, phase, window, level, remaining>>

\* Nobody answers, or the attempts are used up: the level is not run.
PoolTooSmall ==
    /\ mode = "peers" /\ phase = "warming" /\ ~AllLevelsDone
    /\ Len(pool) < Want
    /\ phase' = "stopped"
    /\ UNCHANGED <<connections, threads, mode, window, level, pool, attempts, remaining>>

StartLevel ==
    /\ mode = "peers" /\ phase = "warming" /\ ~AllLevelsDone
    /\ Len(pool) >= Want
    /\ phase' = "fetching"
    /\ queue' = [b \in 1..window |-> b]
    /\ finished' = {}
    /\ worker' = [c \in Conns |-> IF c \in Team THEN "taking" ELSE "idle"]
    /\ UNCHANGED <<connections, hand, mode, window, level, pool, attempts, remaining>>

\* The worker takes a block off the queue and asks its peer for it ...
TakeBlock(c) ==
    /\ worker[c] = "taking" /\ queue # <<>>
    /\ hand' = [hand EXCEPT ![c] = Head(queue)]
    /\ queue' = Tail(queue)
    /\ worker' = [worker EXCEPT ![c] = "waiting"]
    /\ Send(c, <<Head(queue)>>)
    /\ UNCHANGED <<finished, main>>

(* Mutant: a worker leaves while there is still work to do.                 *)
LeaveEarly(c) ==
    /\ worker[c] = "taking"
    /\ worker' = [worker EXCEPT ![c] = "left"]
    /\ UNCHANGED <<connections, queue, hand, finished, main>>

(* Mutant: the worker waits for work to come, as q.get() would.             *)
AwaitWork(c) ==
    worker[c] = "taking" /\ queue = <<>> /\ UNCHANGED vars

\* ... or leaves for good when there is none.
Leave(c) ==
    /\ worker[c] = "taking" /\ queue = <<>>
    /\ worker' = [worker EXCEPT ![c] = "left"]
    /\ UNCHANGED <<connections, queue, hand, finished, main>>

Pong(c) ==
    /\ worker[c] = "waiting" /\ ReadPing(c)
    /\ UNCHANGED <<threads, main>>

\* A block and a notfound both end the fetch of the block.
GotBlock(c) ==
    /\ worker[c] = "waiting" /\ ReadAnswer(c)
    /\ finished' = finished \cup {hand[c]}
    /\ worker' = [worker EXCEPT ![c] = "taking"]
    /\ UNCHANGED <<queue, hand, main>>

Fail(c) ==
    /\ worker[c] = "waiting" /\ ReadFails(c)
    /\ worker' = [worker EXCEPT ![c] = "failing"]
    /\ UNCHANGED <<queue, hand, finished, main>>

(* Mutant: the worker retires with its block.                               *)
Retire(c) ==
    /\ worker[c] = "failing"
    /\ worker' = [worker EXCEPT ![c] = "failed"]
    /\ UNCHANGED <<connections, queue, hand, finished, main>>

\* The block goes back to the queue and the worker retires.
PutBack(c) ==
    /\ worker[c] = "failing"
    /\ queue' = Append(queue, hand[c])
    /\ worker' = [worker EXCEPT ![c] = "failed"]
    /\ UNCHANGED <<connections, hand, finished, main>>

Worker(c) ==
    \/ TakeBlock(c) \/ Leave(c) \/ Pong(c) \/ GotBlock(c) \/ Fail(c) \/ PutBack(c)

\* A peer that failed stays in the pool for the next level.
Join ==
    /\ mode = "peers" /\ phase = "fetching"
    /\ \A c \in Team : worker[c] \in {"left", "failed"}
    /\ phase' = "warming" /\ level' = level + 1 /\ attempts' = 0
    /\ UNCHANGED <<connections, threads, mode, window, pool, remaining>>

(***************************************************************************)
(* Modes "single" and "latency": batches of requests down one connection.  *)
(***************************************************************************)
\* The blocks of each batch: window[:n] for each level n, or each block the
\* chain reaches, --repeat times.
Smaller(m, n) == IF m < n THEN m ELSE n
Batches ==
    IF mode = "single"
    THEN [l \in DOMAIN Levels |-> [b \in 1..Smaller(Levels[l], window) |-> b]]
    ELSE [i \in 1..(window * Repeat) |-> <<1 + (i - 1) \div Repeat>>]

Ask ==
    /\ mode # "peers" /\ phase = "asking"
    /\ IF level \in DOMAIN Batches
       THEN /\ Send(Peer, Batches[level])
            /\ remaining' = Len(Batches[level])
            /\ phase' = "draining"
       ELSE /\ phase' = "done"
            /\ UNCHANGED <<connections, remaining>>
    /\ UNCHANGED <<threads, mode, window, level, pool, attempts>>

DrainPing ==
    /\ phase = "draining" /\ remaining > 0 /\ ReadPing(Peer)
    /\ UNCHANGED <<threads, main>>

Drain ==
    /\ phase = "draining" /\ remaining > 0 /\ ReadAnswer(Peer)
    /\ remaining' = remaining - 1
    /\ UNCHANGED <<threads, mode, phase, window, level, pool, attempts>>

BatchDone ==
    /\ phase = "draining" /\ remaining = 0
    /\ phase' = "asking" /\ level' = level + 1
    /\ UNCHANGED <<connections, threads, mode, window, pool, attempts, remaining>>

\* A failed read ends the pipelined fetch.  The latency bench connects to
\* another peer and goes on with the next fetch; without one, the next use of
\* the missing peer ends it.
DrainFails ==
    /\ phase = "draining" /\ remaining > 0 /\ ReadFails(Peer)
    /\ phase' = IF mode = "single" THEN "crashed" ELSE "reconnecting"
    /\ UNCHANGED <<threads, mode, window, level, pool, attempts, remaining>>

Reconnect ==
    /\ phase = "reconnecting"
    /\ remaining' = 0
    /\ \/ /\ \E c \in Conns : Connect(c) /\ pool' = Append(pool, c)
          /\ phase' = "asking" /\ level' = level + 1
       \/ phase' = "crashed" /\ UNCHANGED <<connections, pool, level>>
    /\ UNCHANGED <<threads, mode, window, attempts>>

Main ==
    \/ ConnectPrimary \/ IndexPing \/ BuildIndex
    \/ NoMoreLevels \/ WarmPool \/ PoolTooSmall \/ StartLevel \/ Join
    \/ Ask \/ DrainPing \/ Drain \/ BatchDone \/ DrainFails \/ Reconnect

Next ==
    \/ Main
    \/ \E c \in Conns : Worker(c)
    \/ Peers /\ phase \notin Ended /\ UNCHANGED <<threads, main>>

\* Threads run, and a read of a silent peer times out.  Nothing is assumed of
\* the peers.
Fairness ==
    /\ WF_vars(Main)
    /\ \A c \in Conns : WF_vars(Worker(c))

Spec == Init /\ [][Next]_vars /\ Fairness

(***************************************************************************)
(* Properties.                                                             *)
(***************************************************************************)
Messages == 1..Ping

(* The variables have their types.                                          *)
TypeOK ==
    /\ conn \in [Conns -> {"unused", "open", "cut", "dead"}]
    /\ asked \in [Conns -> Seq(Blocks)] /\ wire \in [Conns -> Seq(Messages)]
    /\ late \in [Conns -> Nat]
    /\ mode \in {"peers", "single", "latency"}
    /\ phase \in Ended \cup {"connecting", "indexing", "warming", "fetching",
                             "asking", "draining", "reconnecting"}
    /\ window \in 0..WindowSize /\ level \in Nat /\ attempts \in Nat
    /\ pool \in Seq(Conns) /\ remaining \in Nat
    /\ queue \in Seq(Blocks) /\ finished \in SUBSET Blocks
    /\ worker \in [Conns -> {"idle", "taking", "waiting", "failing", "failed", "left"}]
    /\ hand \in [Conns -> 0..WindowSize]

(* The workers share out the window: a block is queued once, or held by one *)
(* worker, or finished, and none is lost, whichever workers fail and in     *)
(* whatever order they put their blocks back (fetch_across_peers).          *)
Ledger == INSTANCE WorkLedger WITH
    Work <- Blocks, Workers <- Conns, Nothing <- 0,
    todo <- {queue[i] : i \in DOMAIN queue},
    held <- [c \in Conns |->
               IF worker[c] \in {"waiting", "failing"} THEN hand[c] ELSE 0],
    done <- finished
ImplementsLedger == Ledger!Spec

(* Once a worker has left because the queue was empty, all that is queued   *)
(* was put back by workers that failed holding it: no block is left behind  *)
(* while the peer that had it was healthy.                                  *)
StrandedOnlyByFailure ==
    (\E c \in Conns : worker[c] = "left") =>
        \A i \in DOMAIN queue :
            \E c \in Conns : worker[c] = "failed" /\ hand[c] = queue[i]

\* What is left of a batch when n answers have still to be read.
Rest(batch, n) == SubSeq(batch, Len(batch) - n + 1, Len(batch))

(* The answers are in step with the requests on every connection that has   *)
(* not timed out: a worker that waits is owed the block it holds and        *)
(* nothing else, an idle connection is owed nothing, and a drain the rest   *)
(* of its batch, so no answer is taken for that of another block.  The      *)
(* connection in use by the latency bench never has timed out.              *)
AnswersInStep ==
    /\ \A c \in Conns :
          mode = "peers" /\ conn[c] = "open" /\ late[c] = 0 =>
              InStep(wire[c], asked[c],
                     IF worker[c] = "waiting" THEN <<hand[c]>> ELSE <<>>)
    /\ mode # "peers" /\ phase \in {"asking", "draining"} =>
          /\ late[Peer] = 0
          /\ conn[Peer] = "open" =>
                InStep(wire[Peer], asked[Peer],
                       IF phase = "asking" THEN <<>> ELSE Rest(Batches[level], remaining))

(* The bench ends, although peers fall silent, hang up or lack the block.   *)
(* The only way to keep it for ever is to send something else for ever:     *)
(* each message a read brings ends its timeout, and get_block and           *)
(* headers_from have no deadline of their own (fetch_bench.py:217-222 and   *)
(* 235-242).                                                                *)
BenchEnds ==
    \/ <>(phase \in Ended)
    \/ []<><<\E c \in Conns : PeerPings(c)>>_vars

\* That it ends whatever the peers send is more than the code promises.
EndsAnyway == <>(phase \in Ended)
=============================================================================
