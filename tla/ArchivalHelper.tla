--------------------------- MODULE ArchivalHelper ----------------------------
(***************************************************************************)
(* The archival helper of patches/0008: a full node on the other side of a *)
(* chain split, asked for pruned blocks before the usual source.  It holds *)
(* the history below the split and nothing of this chain above it, and     *)
(* where that is is learned: the height of a block the helper has never    *)
(* heard of becomes the ceiling above which it is not asked again.         *)
(*                                                                         *)
(* The ceiling is one atomic word, read before the helper is asked and     *)
(* swapped after it has answered, by as many threads as call for_blocks.   *)
(***************************************************************************)
EXTENDS Integers

CONSTANTS
    Threads,      \* the threads that fetch pruned blocks
    MaxHeight,    \* bound on the heights of this chain
    Split,        \* the first height the two chains do not share
    HelperMayLag  \* may the helper still be catching up with the split

Heights == 0..MaxHeight
NoCeiling == MaxHeight + 1  \* usize::MAX
NoHeader == MaxHeight + 2   \* bytes that begin with no header of this chain

ASSUME HelperAssumption ==
    /\ MaxHeight \in Nat
    /\ Split \in Heights \ {0}
    /\ HelperMayLag \in BOOLEAN

VARIABLES
    archival,     \* is the configured helper an archival node
    helperTip,    \* the height up to which it has downloaded blocks
    pruneHeight,  \* this node's prune height
    used,         \* Daemon::helper: was it accepted at startup
    ceiling,      \* Daemon::helper_ceiling
    pc,           \* pc[t]: "idle", "asking" the helper, or at the "source"
    want,         \* want[t]: the block t is fetching
    unknown       \* the lowest height reported unknown since startup

helperVars == <<archival, helperTip, pruneHeight, used, ceiling, pc, want, unknown>>
nodes == <<archival, helperTip, pruneHeight>>

Lower(a, b) == IF a <= b THEN a ELSE b

\* Does the helper have this chain's block at this height?
HelperHas(h) == h < Split /\ h <= helperTip

\* Daemon::connect: the helper is used if it answers, is archival, and has
\* reached the prune height of this node.
Usable(tip, floor) == archival /\ tip >= floor

HelperInit ==
    /\ archival \in BOOLEAN
    /\ helperTip \in IF HelperMayLag THEN Heights ELSE (Split - 1)..MaxHeight
    /\ pruneHeight \in Heights
    /\ used \in {FALSE, Usable(helperTip, pruneHeight)}
    /\ ceiling = NoCeiling
    /\ pc = [t \in Threads |-> "idle"]
    /\ want = [t \in Threads |-> 0]
    /\ unknown = NoCeiling

(***************************************************************************)
(* The two nodes move on; electrs restarts.                                *)
(***************************************************************************)
HelperSyncs ==
    /\ helperTip < MaxHeight
    /\ helperTip' = helperTip + 1
    /\ UNCHANGED <<archival, pruneHeight, used, ceiling, pc, want, unknown>>

Prune ==
    /\ pruneHeight < MaxHeight
    /\ pruneHeight' = pruneHeight + 1
    /\ UNCHANGED <<archival, helperTip, used, ceiling, pc, want, unknown>>

Restart ==
    /\ used' \in {FALSE, Usable(helperTip, pruneHeight)}
    /\ ceiling' = NoCeiling
    /\ unknown' = NoCeiling
    /\ pc' = [t \in Threads |-> "idle"]
    /\ UNCHANGED <<nodes, want>>

(***************************************************************************)
(* Fetching one pruned block: block_from_helper, then the usual source.    *)
(***************************************************************************)
(* Mutant: the height found unknown is itself asked for again.              *)
OfferedAtCeiling(h) == used /\ h <= ceiling

OfferedToHelper(h) == used /\ h < ceiling

Fetch(t, h) ==
    /\ pc[t] = "idle" /\ h < pruneHeight
    /\ want' = [want EXCEPT ![t] = h]
    /\ pc' = [pc EXCEPT ![t] = IF OfferedToHelper(h) THEN "asking" ELSE "source"]
    /\ UNCHANGED <<nodes, used, ceiling, unknown>>

\* The block goes to the caller, who fetches the next.
HandsOn(t) == pc' = [pc EXCEPT ![t] = "idle"]

FallsBack(t) == pc' = [pc EXCEPT ![t] = "source"]

\* The helper sent bytes.  The header they begin with is parsed and its hash
\* compared with the one asked for; the transactions behind it are not looked
\* at, so nothing is said of them here.
HelperSends(t, header) ==
    /\ IF header = want[t] THEN HandsOn(t) ELSE FallsBack(t)
    /\ UNCHANGED <<ceiling, unknown>>

\* "Block not found": the ceiling is swapped, whatever it was.
HelperLacks(t) ==
    /\ ceiling' = want[t]
    /\ unknown' = Lower(unknown, want[t])
    /\ FallsBack(t)

(* Mutant: every error of the helper fixes the ceiling.                     *)
HelperFailsForGood(t) ==
    /\ ceiling' = want[t]
    /\ UNCHANGED unknown
    /\ FallsBack(t)

\* Any other error is taken for transient.
HelperFails(t) ==
    /\ FallsBack(t)
    /\ UNCHANGED <<ceiling, unknown>>

\* A header has the hash asked for only if it is that block's; a helper that has
\* the block never says it does not.
HelperAnswers(t) ==
    /\ pc[t] = "asking"
    /\ \/ HelperHas(want[t]) /\ HelperSends(t, want[t])
       \/ \E header \in (Heights \cup {NoHeader}) \ {want[t]} : HelperSends(t, header)
       \/ ~HelperHas(want[t]) /\ HelperLacks(t)
       \/ HelperFails(t)
    /\ UNCHANGED <<nodes, used, want>>

\* getblock from the usual source, which answers or fails for good.
SourceAnswers(t) ==
    /\ pc[t] = "source"
    /\ HandsOn(t)
    /\ UNCHANGED <<nodes, used, ceiling, want, unknown>>

HelperNext ==
    \/ \E t \in Threads :
          \/ \E h \in Heights : Fetch(t, h)
          \/ HelperAnswers(t)
          \/ SourceAnswers(t)
    \/ HelperSyncs \/ Prune \/ Restart

HelperSpec == HelperInit /\ [][HelperNext]_helperVars

-----------------------------------------------------------------------------
(***************************************************************************)
(* Properties                                                              *)
(***************************************************************************)
\* Every variable has its type; a helper in use is an archival one.
HelperTypeOK ==
    /\ archival \in BOOLEAN
    /\ helperTip \in Heights /\ pruneHeight \in Heights
    /\ used \in BOOLEAN /\ (used => archival)
    /\ ceiling \in 0..NoCeiling /\ unknown \in 0..NoCeiling
    /\ pc \in [Threads -> {"idle", "asking", "source"}]
    /\ want \in [Threads -> Heights]

\* The helper is never written off for shared history: neither a transient
\* error nor wrong bytes, nor any race of two threads, moves the ceiling below
\* the split.  "Block not found" is "the only one that also means 'and never
\* will be'" (0008, is_block_not_found).
CeilingSparesSharedHistory == ceiling >= Split

\* "The first hash the helper reports as unknown fixes the ceiling, and nothing
\* above it is asked again" (0008, Daemon::helper_ceiling) is not quite so: a
\* thread that read the ceiling before may swap in a higher one after.  What is
\* so, until electrs restarts: once the ceiling has come down to a height and
\* nobody is still asking for that height or above, nobody ever asks there again.
AskedBelow(b) ==
    /\ ceiling <= b
    /\ \A t \in Threads : pc[t] = "asking" => want[t] < b

BoundarySettles ==
    [][~Restart => \A b \in Heights : AskedBelow(b) => AskedBelow(b)']_helperVars

\* The sentence as it stands; it does not hold when two threads ask at once.
NothingAskedAboveUnknown ==
    [][\A t \in Threads :
          pc[t] = "idle" /\ pc'[t] = "asking" => want'[t] < unknown]_helperVars
=============================================================================
