----------------------------- MODULE HeaderIndex -----------------------------
(***************************************************************************)
(* The header chain and the index behind it (patches/0004, DISCOVERY.md    *)
(* sections 4.2 and 9).  Each pass of Index::sync asks bitcoind for the    *)
(* headers after the last common one, indexes their blocks in batches, a   *)
(* reader thread one batch ahead of the writer, and only then moves the    *)
(* chain in memory.  A batch is written as one: a row per header, of the   *)
(* header's own length, and the tip.  Nothing is ever deleted: blocks a    *)
(* reorg left behind keep their rows and are ignored.                      *)
(*                                                                         *)
(* The process may end between any two of these steps.  When it comes back *)
(* the chain is rebuilt by walking back from the stored tip, parent by     *)
(* parent, and a parent without a row is a panic.                          *)
(*                                                                         *)
(* A height is an index into a sequence, and genesis is at index 1.        *)
(***************************************************************************)
EXTENDS Naturals, Sequences

CONSTANTS
    Blocks,       \* the block tree, which has
    Genesis,      \* a root
    Parent,       \* and for every other block the one before it
    V2Blocks,     \* the blocks past the activation height
    Chains,       \* the branches bitcoind may have active, from genesis
    BatchSize,    \* blocks per batch
    MaxReply,     \* headers in one answer to getheaders
    DenseLocator, \* the last headers of the chain that are all in a locator
    ReindexLast,  \* reindex_last_blocks
    MaxFailures   \* bound on failed passes and crashes

NoTip == "no tip"

\* TIP_KEY: the key of the tip row, one byte long.
TipKey == "T"

ASSUME IndexAssumption ==
    /\ Genesis \in Blocks /\ NoTip \notin Blocks /\ TipKey \notin Blocks
    /\ Parent \in [Blocks \ {Genesis} -> Blocks]
    /\ V2Blocks \subseteq Blocks
    /\ \A s \in Chains :
          /\ s \in Seq(Blocks) /\ Len(s) >= 1 /\ s[1] = Genesis
          /\ \A i \in 2..Len(s) : s[i] # Genesis /\ Parent[s[i]] = s[i - 1]
    /\ BatchSize \in Nat \ {0} /\ MaxReply \in Nat \ {0}
    /\ DenseLocator \in Nat \ {0}
    /\ ReindexLast \in Nat /\ MaxFailures \in Nat

VARIABLES
    active,     \* bitcoind's active chain
    rows,       \* the blocks whose header and index rows are in the database
    storedTip,  \* the tip row
    proc,       \* "down", "loading", "up" or "panicked"
    cursor,     \* the block Chain::load is looking for
    chain,      \* the chain in memory; while loading, what was found so far
    pending,    \* the new headers of the pass under way
    base,       \* length of the chain they are to be attached to
    read,       \* batches the reader has finished
    written,    \* batches the writer has finished
    reader,     \* "reading", or "failed" when it has given up
    failures    \* failed passes and crashes so far

database == <<rows, storedTip>>
pass == <<pending, base, read, written, reader>>
vars == <<active, database, proc, cursor, chain, pass, failures>>

Smaller(a, b) == IF a <= b THEN a ELSE b

NoPass == pending = <<>> /\ base = 0 /\ read = 0 /\ written = 0 /\ reader = "reading"

Init ==
    /\ active \in Chains
    /\ rows = {} /\ storedTip = NoTip
    /\ proc = "down" /\ cursor = Genesis /\ chain = <<Genesis>>
    /\ NoPass
    /\ failures = 0

NoPassNext ==
    /\ pending' = <<>> /\ base' = 0 /\ read' = 0 /\ written' = 0
    /\ reader' = "reading"

\* bitcoind's active chain grows, or gives way to a longer branch.
BlocksArrive ==
    /\ active' \in {s \in Chains : Len(s) > Len(active)}
    /\ UNCHANGED <<database, proc, cursor, chain, pass, failures>>

(***************************************************************************)
(* Index::load, Chain::load and Chain::drop_last_headers.                  *)
(***************************************************************************)
\* The keys of the column family: a header is the key of its own row, and the
\* tip has a key next to them.
HeaderKeys == rows \cup (IF storedTip = NoTip THEN {} ELSE {TipKey})

\* The length of a key, for a header the one its version field tells.
KeySize(k) == IF k = TipKey THEN 1 ELSE IF k \in V2Blocks THEN 164 ELSE 80

(* Mutant: the scan still keeps keys of 80 bytes only.                      *)
FixedWidth == {k \in HeaderKeys : KeySize(k) = 80}

(* Mutant: the scan keeps every key, now that headers vary in length.       *)
EveryKey == HeaderKeys

\* HeaderIterator: the keys with the length of a header of either version.
IteratedRows == {k \in HeaderKeys : KeySize(k) \in {80, 164}}

\* The whole scan is parsed before the walk begins, and a key that is not a
\* header is a panic there.
Start ==
    /\ proc = "down"
    /\ \/ /\ storedTip = NoTip
          /\ proc' = "up" /\ cursor' = Genesis /\ chain' = <<Genesis>>
       \/ /\ storedTip # NoTip
          /\ proc' = IF IteratedRows \subseteq Blocks THEN "loading" ELSE "panicked"
          /\ cursor' = storedTip /\ chain' = <<>>
    /\ UNCHANGED <<active, database, pass, failures>>

LoadHeader ==
    /\ proc = "loading" /\ cursor # Genesis
    /\ \/ /\ cursor \in IteratedRows
          /\ chain' = <<cursor>> \o chain
          /\ cursor' = Parent[cursor]
          /\ UNCHANGED proc
       \/ /\ cursor \notin IteratedRows
          /\ proc' = "panicked"
          /\ UNCHANGED <<chain, cursor>>
    /\ UNCHANGED <<active, database, pass, failures>>

\* The chain without its last n headers, but never without genesis.
DropLast(s, n) == SubSeq(s, 1, IF n < Len(s) THEN Len(s) - n ELSE 1)

Loaded ==
    /\ proc = "loading" /\ cursor = Genesis
    /\ proc' = "up"
    /\ chain' = DropLast(<<Genesis>> \o chain, ReindexLast)
    /\ UNCHANGED <<active, database, cursor, pass, failures>>

(***************************************************************************)
(* Index::sync.                                                            *)
(***************************************************************************)
\* bitcoind answers from the highest locator hash on its own chain.  A locator
\* holds the last headers, ever fewer of the older ones, and genesis.
CommonTo(n) ==
    /\ n \in 1..Smaller(Len(chain), Len(active))
    /\ chain[n] = active[n]
    /\ \A m \in (n + 1)..Smaller(Len(chain), Len(active)) :
          chain[m] = active[m] => m + DenseLocator <= Len(chain)

(* Mutant: only headers on top of the tip are taken.                        *)
GetHeadersOnTop ==
    /\ proc = "up" /\ pending = <<>>
    /\ CommonTo(Len(chain)) /\ Len(active) > Len(chain)
    /\ pending' = SubSeq(active, Len(chain) + 1,
                         Smaller(Len(active), Len(chain) + MaxReply))
    /\ base' = Len(chain)
    /\ UNCHANGED <<active, database, proc, cursor, chain, read, written, reader, failures>>

\* Daemon::get_new_headers: the headers that follow the last common one, whose
\* height is looked up by the parent of the first.
GetNewHeaders ==
    /\ proc = "up" /\ pending = <<>>
    /\ \E n \in 1..Len(active) :
          /\ CommonTo(n) /\ Len(active) > n
          /\ pending' = SubSeq(active, n + 1, Smaller(Len(active), n + MaxReply))
          /\ base' = n
    /\ UNCHANGED <<active, database, proc, cursor, chain, read, written, reader, failures>>

\* The last position of the first k batches of the pass.
BatchEnd(k) == Smaller(k * BatchSize, Len(pending))

\* Between the reader's hands, a channel for one batch, and the writer's.
PipelineDepth == 3

ReadBatch ==
    /\ proc = "up" /\ reader = "reading"
    /\ BatchEnd(read) < Len(pending)
    /\ read - written < PipelineDepth
    /\ read' = read + 1
    /\ UNCHANGED <<active, database, proc, cursor, chain, pending, base, written, reader, failures>>

\* A block cannot be had (PrunedDaemon), or the exit flag is set between two
\* batches.
ReadFails ==
    /\ proc = "up" /\ reader = "reading"
    /\ BatchEnd(read) < Len(pending)
    /\ failures < MaxFailures /\ failures' = failures + 1
    /\ reader' = "failed"
    /\ UNCHANGED <<active, database, proc, cursor, chain, pending, base, read, written>>

(* Mutant: the tip is stored as of the end of the pass.                     *)
WriteTipOfPass ==
    /\ proc = "up" /\ written < read
    /\ rows' = rows \cup {pending[i] : i \in (BatchEnd(written) + 1)..BatchEnd(written + 1)}
    /\ storedTip' = pending[Len(pending)]
    /\ written' = written + 1
    /\ UNCHANGED <<active, proc, cursor, chain, pending, base, read, reader, failures>>

\* index_single_block for each block of the batch, and one write of the rows
\* and of the tip the last of them left in the batch.
WriteBatch ==
    /\ proc = "up" /\ written < read
    /\ rows' = rows \cup {pending[i] : i \in (BatchEnd(written) + 1)..BatchEnd(written + 1)}
    /\ storedTip' = pending[BatchEnd(written + 1)]
    /\ written' = written + 1
    /\ UNCHANGED <<active, proc, cursor, chain, pending, base, read, reader, failures>>

(* Mutant: the new headers are appended and nothing is drained.             *)
AppendOnly(s, n, new) == s \o new

\* Chain::update: the headers from the first new height on are replaced.
Replaced(s, n, new) == SubSeq(s, 1, n) \o new

(* Mutant: the chain moves while the last batches are still to be written.  *)
UpdateWhenRead ==
    /\ proc = "up" /\ pending # <<>> /\ reader = "reading"
    /\ BatchEnd(read) = Len(pending)
    /\ chain' = Replaced(chain, base, pending)
    /\ NoPassNext
    /\ UNCHANGED <<active, database, proc, cursor, failures>>

\* Both threads are done, and the chain in memory moves to the new headers.
Update ==
    /\ proc = "up" /\ pending # <<>> /\ reader = "reading"
    /\ BatchEnd(written) = Len(pending)
    /\ chain' = Replaced(chain, base, pending)
    /\ NoPassNext
    /\ UNCHANGED <<active, database, proc, cursor, failures>>

\* The process ends: what was in memory is gone.
Ends ==
    /\ proc' = "down" /\ cursor' = Genesis /\ chain' = <<Genesis>>
    /\ NoPassNext
    /\ UNCHANGED <<active, database>>

\* The reader's error leaves Index::sync once the writer has drained what it
\* was sent.
PassFails ==
    /\ proc = "up" /\ reader = "failed" /\ written = read
    /\ Ends
    /\ UNCHANGED failures

Crash ==
    /\ proc \in {"loading", "up"}
    /\ failures < MaxFailures /\ failures' = failures + 1
    /\ Ends

Step ==
    \/ Start \/ LoadHeader \/ Loaded
    \/ GetNewHeaders \/ ReadBatch \/ WriteBatch \/ Update \/ PassFails

Next == Step \/ ReadFails \/ BlocksArrive \/ Crash

Spec == Init /\ [][Next]_vars

\* The server loop runs, its threads are scheduled, and the supervisor starts
\* the process again.
FairSpec == Spec /\ WF_vars(Step)

-----------------------------------------------------------------------------
(***************************************************************************)
(* Properties                                                              *)
(***************************************************************************)
\* Every variable has its type, and the writer is never ahead of the reader.
TypeOK ==
    /\ active \in Chains
    /\ rows \subseteq Blocks /\ storedTip \in Blocks \cup {NoTip}
    /\ proc \in {"down", "loading", "up", "panicked"}
    /\ cursor \in Blocks /\ chain \in Seq(Blocks)
    /\ pending \in Seq(Blocks) /\ base \in Nat
    /\ read \in Nat /\ written \in 0..read
    /\ reader \in {"reading", "failed"} /\ failures \in 0..MaxFailures

\* "the index on disk is still valid to resume from" (0002,
\* RETRY_BUDGET_INDEXING): wherever the process ended, in a pass, a reorg or a
\* load, the walk back from the stored tip finds every header it needs.
NeverPanics == proc # "panicked"

\* Histories are complete: a block the server counts as part of its chain is
\* one whose rows are in the database, after any crash, reorg or reindexing.
ChainIsIndexed ==
    proc = "up" => \A i \in 2..Len(chain) : chain[i] \in rows

\* The chain in memory is a chain: from genesis, every block on top of its
\* parent, whatever was loaded, dropped, drained and appended.
ChainIsLinked ==
    proc = "up" =>
        /\ Len(chain) >= 1 /\ chain[1] = Genesis
        /\ \A i \in 2..Len(chain) :
              chain[i] # Genesis /\ Parent[chain[i]] = chain[i - 1]

\* Once blocks stop arriving and failures stop, the chain is bitcoind's
\* (failure_modes.sh: "index converged on the active chain").
CatchesUp == <>[](proc = "up" /\ chain = active)
=============================================================================
