---------------------------- MODULE PrunedDaemon -----------------------------
(***************************************************************************)
(* Daemon::for_blocks on a pruned bitcoind (patches/0001, 0002, and the    *)
(* Connection::for_blocks of 0004).  The prune height is read once for a   *)
(* batch; the batch is then walked in runs of blocks that are all on       *)
(* bitcoind's disk, which are asked for over p2p in one getdata, or all    *)
(* pruned, which are fetched one by one over RPC.                          *)
(*                                                                         *)
(* The p2p connection is shared under a mutex.  Its replies carry no       *)
(* request identifier: the receiver takes them from a bounded channel in   *)
(* the order they come and checks each against the hash it expects, and it *)
(* waits for them without a timeout.  bitcoind answers a getdata for a     *)
(* block it has pruned with silence.                                       *)
(*                                                                         *)
(* A block is identified with its height.  Retries are the business of     *)
(* RetryRpc and the helper of ArchivalHelper: here an RPC answers or has   *)
(* failed for good.                                                        *)
(***************************************************************************)
EXTENDS Naturals, Sequences

CONSTANTS
    Threads,          \* threads that use the daemon: rayon workers, the
                      \* indexing thread, the server loop
    Batches,          \* the batches of blocks a caller may ask for
    MaxHeight,        \* bound on the height of a block
    ReplyCapacity,    \* capacity of the channel of received blocks
    MaxInFlight,      \* bound on the requests on their way to bitcoind
    PruneDuringCalls  \* may bitcoind prune while a call is running

Heights == 0..MaxHeight
Nobody == "nobody"
NewHeaders == MaxHeight + 1    \* the getheaders request among the getdata ones

ASSUME DaemonAssumption ==
    /\ MaxHeight \in Nat
    /\ Batches \subseteq Seq(Heights) \ {<<>>}
    /\ ReplyCapacity \in Nat \ {0}
    /\ MaxInFlight \in Nat
    /\ PruneDuringCalls \in BOOLEAN
    /\ Nobody \notin Threads

VARIABLES
    pruning,      \* does bitcoind prune
    pruneHeight,  \* the lowest block on bitcoind's disk
    up,           \* is the electrs process running
    pruned,       \* Daemon::pruned, read at startup
    p2p,          \* holder of the mutex on the p2p connection
    asked,        \* requests on their way to bitcoind, in order
    replies,      \* the channel of received blocks
    headers,      \* is there an answer in the channel of received headers
    pc,           \* pc[t]: where t is
    kind,         \* kind[t]: the purpose of t's call, "index" or "query"
    floor,        \* floor[t]: the prune height t's call read
    runEnd,       \* runEnd[t]: last position of the run t is working on
    status, batch, got  \* as in BlockSource

node == <<pruning, pruneHeight>>
connection == <<p2p, asked, replies, headers>>
plan == <<kind, floor, runEnd>>
vars == <<node, up, pruned, connection, pc, plan, status, batch, got>>

Pcs == {"idle", "floor", "heights", "route", "local", "receive", "rpc",
        "headers", "answer"}

-----------------------------------------------------------------------------
\* Daemon::connect: the flag is read, and the connection made, once.
Init ==
    /\ pruning \in BOOLEAN
    /\ pruneHeight \in IF pruning THEN Heights ELSE {0}
    /\ up = TRUE /\ pruned = pruning
    /\ p2p = Nobody /\ asked = <<>> /\ replies = <<>> /\ headers = FALSE
    /\ pc = [t \in Threads |-> "idle"]
    /\ kind = [t \in Threads |-> "query"]
    /\ floor = [t \in Threads |-> 0]
    /\ runEnd = [t \in Threads |-> 0]
    /\ status = [t \in Threads |-> "idle"]
    /\ batch = [t \in Threads |-> <<>>]
    /\ got = [t \in Threads |-> <<>>]

(***************************************************************************)
(* The environment: bitcoind and the end of the process.                   *)
(***************************************************************************)
Quiet == \A t \in Threads : pc[t] = "idle"

Prune(h) ==
    /\ pruning /\ h > pruneHeight
    /\ PruneDuringCalls \/ Quiet
    /\ pruneHeight' = h
    /\ UNCHANGED <<pruning, up, pruned, connection, pc, plan, status, batch, got>>

\* bitcoind takes the next request: a block it has is sent, and waits for room
\* in the channel; a pruned one is skipped without a word.
BitcoindServes ==
    /\ asked # <<>>
    /\ asked' = Tail(asked)
    /\ LET h == Head(asked) IN
          \/ /\ h = NewHeaders /\ ~headers
             /\ headers' = TRUE
             /\ UNCHANGED replies
          \/ /\ h # NewHeaders /\ h >= pruneHeight
             /\ Len(replies) < ReplyCapacity
             /\ replies' = Append(replies, h)
             /\ UNCHANGED headers
          \/ /\ h # NewHeaders /\ h < pruneHeight
             /\ UNCHANGED <<replies, headers>>
    /\ UNCHANGED <<node, up, pruned, p2p, pc, plan, status, batch, got>>

\* The process ends: by an error on the indexing path, a signal, or the loss
\* of the connection.  Nothing of the connection survives.
Exit ==
    /\ up' = FALSE
    /\ p2p' = Nobody /\ asked' = <<>> /\ replies' = <<>> /\ headers' = FALSE
    /\ pc' = [t \in Threads |-> "idle"]
    /\ status' = [t \in Threads |->
                    IF status[t] = "running" THEN "lost" ELSE status[t]]
    /\ kind' = [t \in Threads |-> "query"]
    /\ floor' = [t \in Threads |-> 0]
    /\ runEnd' = [t \in Threads |-> 0]
    /\ UNCHANGED <<batch, got>>

Crash ==
    /\ up
    /\ Exit
    /\ UNCHANGED <<node, pruned>>

\* bitcoind restarts, perhaps with pruning switched on; electrs loses its
\* connection and ends.
BitcoindRestarts ==
    /\ pruning' \in {pruning, TRUE}
    /\ UNCHANGED <<pruneHeight, pruned>>
    /\ Exit

Restart ==
    /\ ~up
    /\ up' = TRUE
    /\ pruned' = pruning
    /\ UNCHANGED <<node, connection, pc, plan, status, batch, got>>

(***************************************************************************)
(* A call of for_blocks.                                                   *)
(***************************************************************************)
\* Queries run on the workers of one event of the server loop, so they run
\* beside each other but never beside a sync, which is the same loop.
MayStart(k) ==
    /\ up
    /\ \A t \in Threads : pc[t] # "idle" =>
          k = "query" /\ kind[t] = "query" /\ pc[t] \notin {"headers", "answer"}

Call(t, k, b) ==
    /\ pc[t] = "idle" /\ MayStart(k)
    /\ status' = [status EXCEPT ![t] = "running"]
    /\ batch' = [batch EXCEPT ![t] = b]
    /\ got' = [got EXCEPT ![t] = <<>>]
    /\ kind' = [kind EXCEPT ![t] = k]
    /\ \/ /\ pruned
          /\ pc' = [pc EXCEPT ![t] = "floor"]
          /\ UNCHANGED runEnd
       \/ /\ ~pruned    \* the upstream path: the whole batch over p2p
          /\ pc' = [pc EXCEPT ![t] = "local"]
          /\ runEnd' = [runEnd EXCEPT ![t] = Len(b)]
    /\ UNCHANGED <<node, up, pruned, connection, floor>>

\* t leaves for_blocks, and its local variables go out of scope.
Leaves(t, outcome) ==
    /\ status' = [status EXCEPT ![t] = outcome]
    /\ pc' = [pc EXCEPT ![t] = "idle"]
    /\ kind' = [kind EXCEPT ![t] = "query"]
    /\ floor' = [floor EXCEPT ![t] = 0]
    /\ runEnd' = [runEnd EXCEPT ![t] = 0]
    /\ p2p' = IF p2p = t THEN Nobody ELSE p2p
    /\ UNCHANGED <<up, asked, headers, batch, got>>

\* An error goes back to the client that asked, and the connection keeps the
\* replies that are left; on the indexing path it leaves Index::sync and ends
\* the process.
Fails(t, left) ==
    \/ kind[t] = "index" /\ Exit
    \/ kind[t] = "query" /\ Leaves(t, "err") /\ replies' = left

ReadPruneHeight(t) ==
    /\ pc[t] = "floor"
    /\ \/ /\ floor' = [floor EXCEPT ![t] = pruneHeight]
          /\ pc' = [pc EXCEPT ![t] = "heights"]
          /\ UNCHANGED <<up, connection, kind, runEnd, status, batch, got>>
       \/ Fails(t, replies)
    /\ UNCHANGED <<node, pruned>>

ResolveHeights(t) ==
    /\ pc[t] = "heights"
    /\ \/ /\ pc' = [pc EXCEPT ![t] = "route"]
          /\ UNCHANGED <<up, connection, plan, status, batch, got>>
       \/ Fails(t, replies)
    /\ UNCHANGED <<node, pruned>>

Position(t) == Len(got[t]) + 1

(* Mutant: the boundary block itself is taken for a pruned one's neighbour. *)
LocalOffByOne(t, i) == batch[t][i] + 1 >= floor[t]

Local(t, i) == batch[t][i] >= floor[t]

(* Mutant: the rest of the batch goes where its first block goes.           *)
RestOfBatch(t, end) == end = Len(batch[t])

\* Is the run from the current position to "end" maximal?
MaximalRun(t, end) ==
    /\ \A i \in Position(t)..end : Local(t, i) = Local(t, Position(t))
    /\ end < Len(batch[t]) => Local(t, end + 1) # Local(t, Position(t))

Route(t) ==
    /\ pc[t] = "route"
    /\ \/ /\ Position(t) > Len(batch[t])
          /\ Leaves(t, "ok")
          /\ UNCHANGED replies
       \/ \E end \in Position(t)..Len(batch[t]) :
             /\ MaximalRun(t, end)
             /\ runEnd' = [runEnd EXCEPT ![t] = end]
             /\ pc' = [pc EXCEPT ![t] =
                          IF Local(t, Position(t)) THEN "local" ELSE "rpc"]
             /\ UNCHANGED <<up, connection, kind, floor, status, batch, got>>
    /\ UNCHANGED <<node, pruned>>

(* Mutant: the mutex is taken for the request only.                         *)
AskUnlocked(t) ==
    /\ pc[t] = "local"
    /\ asked' = asked \o SubSeq(batch[t], Position(t), runEnd[t])
    /\ pc' = [pc EXCEPT ![t] = "receive"]
    /\ UNCHANGED <<node, up, pruned, p2p, replies, headers, plan, status, batch, got>>

\* Connection::for_blocks: one getdata for the whole run, under the mutex.
Ask(t) ==
    /\ pc[t] = "local" /\ p2p = Nobody
    /\ Len(asked) + runEnd[t] - Len(got[t]) <= MaxInFlight
    /\ p2p' = t
    /\ asked' = asked \o SubSeq(batch[t], Position(t), runEnd[t])
    /\ pc' = [pc EXCEPT ![t] = "receive"]
    /\ UNCHANGED <<node, up, pruned, replies, headers, plan, status, batch, got>>

\* The callback is handed a block; after the last one of the run t goes on to
\* the next run.
Hands(t, h) ==
    /\ got' = [got EXCEPT ![t] = Append(@, h)]
    /\ pc' = [pc EXCEPT ![t] = IF Position(t) = runEnd[t] THEN "route" ELSE @]
    /\ UNCHANGED <<up, asked, headers, plan, status, batch>>

(* Mutant: the reply is trusted to be the block that was asked for.         *)
ReceiveUnchecked(t) ==
    /\ pc[t] = "receive" /\ replies # <<>>
    /\ replies' = Tail(replies)
    /\ Hands(t, Head(replies))
    /\ p2p' = IF Position(t) = runEnd[t] THEN Nobody ELSE p2p
    /\ UNCHANGED <<node, pruned>>

\* The next reply is taken, whatever it is, and must be the block expected at
\* this position.
Receive(t) ==
    /\ pc[t] = "receive" /\ replies # <<>>
    /\ \/ /\ Head(replies) = batch[t][Position(t)]
          /\ replies' = Tail(replies)
          /\ Hands(t, Head(replies))
          /\ p2p' = IF Position(t) = runEnd[t] THEN Nobody ELSE p2p
       \/ /\ Head(replies) # batch[t][Position(t)]
          /\ Fails(t, Tail(replies))
    /\ UNCHANGED <<node, pruned>>

\* getblock over RPC: from the helper or from the provider of pruned blocks.
FetchPruned(t) ==
    /\ pc[t] = "rpc"
    /\ \/ /\ Hands(t, batch[t][Position(t)])
          /\ UNCHANGED <<p2p, replies>>
       \/ Fails(t, replies)
    /\ UNCHANGED <<node, pruned>>

(***************************************************************************)
(* Connection::get_new_headers, called by sync, shares the connection.     *)
(***************************************************************************)
GetNewHeaders(t) ==
    /\ pc[t] = "idle" /\ MayStart("index")
    /\ pc' = [pc EXCEPT ![t] = "headers"]
    /\ UNCHANGED <<node, up, pruned, connection, plan, status, batch, got>>

AskHeaders(t) ==
    /\ pc[t] = "headers" /\ p2p = Nobody
    /\ Len(asked) < MaxInFlight
    /\ p2p' = t
    /\ asked' = Append(asked, NewHeaders)
    /\ pc' = [pc EXCEPT ![t] = "answer"]
    /\ UNCHANGED <<node, up, pruned, replies, headers, plan, status, batch, got>>

ReceiveHeaders(t) ==
    /\ pc[t] = "answer" /\ headers
    /\ headers' = FALSE
    /\ p2p' = Nobody
    /\ pc' = [pc EXCEPT ![t] = "idle"]
    /\ UNCHANGED <<node, up, pruned, asked, replies, plan, status, batch, got>>

-----------------------------------------------------------------------------
ThreadStep(t) ==
    \/ ReadPruneHeight(t) \/ ResolveHeights(t) \/ Route(t)
    \/ Receive(t) \/ FetchPruned(t) \/ ReceiveHeaders(t)

Next ==
    \/ \E t \in Threads :
          \/ \E k \in {"index", "query"}, b \in Batches : Call(t, k, b)
          \/ GetNewHeaders(t)
          \/ Ask(t) \/ AskHeaders(t)
          \/ ThreadStep(t)
    \/ \E h \in Heights : Prune(h)
    \/ BitcoindServes \/ Crash \/ BitcoindRestarts \/ Restart

Spec == Init /\ [][Next]_vars

(***************************************************************************)
(* Threads run, bitcoind works through its requests, an RPC that hangs is  *)
(* cut off by its timeout, the supervisor restarts the process, and the    *)
(* mutex, contended for, is granted in the end.  Nothing makes a caller    *)
(* call, bitcoind prune or a process end.                                  *)
(***************************************************************************)
Fairness ==
    /\ WF_vars(BitcoindServes)
    /\ WF_vars(Restart)
    /\ \A t \in Threads :
          WF_vars(ThreadStep(t)) /\ SF_vars(Ask(t)) /\ SF_vars(AskHeaders(t))

FairSpec == Spec /\ Fairness

-----------------------------------------------------------------------------
(***************************************************************************)
(* Properties                                                              *)
(***************************************************************************)
\* Every variable has its type, and the mutex is held by exactly the thread
\* that waits on the connection.
TypeOK ==
    /\ pruning \in BOOLEAN /\ pruneHeight \in Heights
    /\ up \in BOOLEAN /\ pruned \in BOOLEAN
    /\ p2p \in Threads \cup {Nobody}
    /\ asked \in Seq(0..NewHeaders)
    /\ replies \in Seq(Heights) /\ Len(replies) <= ReplyCapacity
    /\ headers \in BOOLEAN
    /\ pc \in [Threads -> Pcs]
    /\ kind \in [Threads -> {"index", "query"}]
    /\ floor \in [Threads -> Heights]
    /\ runEnd \in [Threads -> Nat]
    /\ status \in [Threads -> {"idle", "running", "ok", "err", "lost"}]
    /\ batch \in [Threads -> Seq(Heights)]
    /\ got \in [Threads -> Seq(Heights)]
    /\ \A t \in Threads : p2p = t <=> pc[t] \in {"receive", "answer"}

\* for_blocks keeps the promise of BlockSource, on a pruned node or not, over
\* p2p, over RPC or both, and even when bitcoind prunes under its feet: no
\* caller is ever handed another caller's block, or one out of order.
Source == INSTANCE BlockSource
ImplementsBlockSource == Source!Spec

\* The split "decided before asking" (0001, for_blocks) is right: as long as
\* bitcoind does not prune inside a call, no block is asked for over p2p that
\* bitcoind would answer with silence.
NeverAsksForPruned ==
    \A i \in DOMAIN asked : asked[i] >= pruneHeight

\* Replies come without identifiers, so what is in flight must be exactly what
\* the holder of the mutex still expects, in its order; and the connection is
\* handed on clean, or what one caller left would be taken for the next one's.
InFlightIsExpected ==
    /\ \A t \in Threads :
          pc[t] = "receive" =>
              replies \o asked = SubSeq(batch[t], Position(t), runEnd[t])
    /\ p2p = Nobody => asked = <<>> /\ replies = <<>> /\ ~headers

\* Every call returns or ends with the process: the untimed wait for a reply
\* is never for ever (0001, connect: "a silent, permanent hang").
EveryCallReturns ==
    \A t \in Threads : pc[t] # "idle" ~> pc[t] = "idle"
=============================================================================
