------------------------------ MODULE HeaderV2 -------------------------------
(***************************************************************************)
(* The v2 header and its hash, stage by stage as in patches/0003, and the  *)
(* probes that check them against data: headerv2_hash.py, which repeats    *)
(* the stages on a header it parses from its 164 bytes, and the Merkle     *)
(* trees of verify_header_v2.py and verify_cp_height.py.                   *)
(*                                                                         *)
(* A hash function is a constructor: what is hashed can be read off the    *)
(* hash, which is to say that it has no collisions.  Only the bytes of the *)
(* mask are bytes, and the words that are added and subtracted are words.  *)
(***************************************************************************)
EXTENDS Integers, Sequences, SequencesExt

CONSTANTS
    WordSize,   \* 2^32, the values of a 32-bit word
    VersionFlag, \* 2^31, the bit of the version that says v2
    ByteSize,   \* 256, the values of a byte, and
    ByteBits,   \* 8, its bits
    MaskBytes,  \* 32, the bytes of a mask
    Stream,     \* Stream[k]: the tagged hash of key k, as bytes
    Headers,    \* the headers on the wire
    MaxLeaves   \* bound on the leaves of a tree

Fields ==
    {"version", "prev", "height", "root", "time", "bits", "txcount", "flags", "clear",
     "key", "rhs", "extranonce", "nonce", "nonce2", "nonce3", "offset"}

ASSUME HeaderAssumption ==
    /\ VersionFlag \in Nat \ {0} /\ WordSize = 2 * VersionFlag
    /\ MaskBytes \in Nat
    /\ ByteBits \in Nat /\ ByteSize = 2^ByteBits
    /\ Headers # {}
    /\ \A h \in Headers :
          /\ h = [field \in Fields |-> h[field]]
          /\ h.time \in 0..(WordSize - 1) /\ h.offset \in 0..(WordSize - 1)
          /\ h.key # 0 => Stream[h.key] \in [1..MaskBytes -> 0..(ByteSize - 1)]
          /\ h.version \in 0..(WordSize - 1) /\ h.flags \in 0..255
          /\ h.clear \in 0..(ByteBits * MaskBytes - 1)
    /\ MaxLeaves \in Nat \ {0}

VARIABLES
    script,   \* "live": is the header on the wire the one with this hash?
              \* "tree": root of some leaves, and the branch of one of them
    raw,      \* the header on the wire
    claimed,  \* the header whose hash is expected
    outcome,  \* "none", "MATCH" or "MISMATCH"
    leaves,   \* the leaves
    start,    \* the index asked for, from 0
    layer,    \* the layer reached
    index,    \* the index in that layer
    branch    \* the siblings so far

vars == <<script, raw, claimed, outcome, leaves, start, layer, index, branch>>

(***************************************************************************)
(* The fields, and the hash.                                               *)
(***************************************************************************)
\* UseTimeOffset is bit 2 of the flags, the profile bits 0 and 1.
Offset(f) == IF (f.flags \div 4) % 2 = 1 THEN f.offset ELSE 0
Profile(f) == f.flags % 4

\* parse_live: the flag is taken off the version, and the time is what is on
\* the wire plus the offset, in 32 bits.
Parse(h) ==
    [h EXCEPT !.version = @ % VersionFlag, !.time = (@ + Offset(h)) % WordSize]

\* complete_version: the version with its flag, whether or not it was there.
CompleteVersion(f) == VersionFlag + (f.version % VersionFlag)

\* get_hash: the time as it is on the wire.
TimeOnWire(f) == (f.time - Offset(f)) % WordSize

(* Mutant: the byte at the edge is kept whole.                              *)
MaskOfBytes(m, clear) ==
    [i \in DOMAIN m |-> IF i <= clear \div ByteBits THEN 0 ELSE m[i]]

\* The bytes m with their first bits cleared: whole bytes, and then the first
\* bits of the next.
MaskOf(m, clear) ==
    LET bytes == clear \div ByteBits
        bits == clear % ByteBits
    IN [i \in DOMAIN m |->
          IF i <= bytes THEN 0
          ELSE IF i = bytes + 1 THEN m[i] % (ByteSize \div 2^bits)
          ELSE m[i]]

\* No mask without a key.
Mask(f) == IF f.key = 0 THEN [i \in 1..MaskBytes |-> 0] ELSE MaskOf(Stream[f.key], f.clear)

Tagged(tag, payload) == <<tag, payload>>

H1(f) ==
    Tagged("Bitcoin block header 1",
        <<CompleteVersion(f), f.prev, f.height, f.root, TimeOnWire(f), f.bits, f.txcount,
          f.flags, f.clear, Tagged("Bitcoin block hash PoW XOR key", f.key)>>)
H2(f) == Tagged("Merge-mining hook", <<H1(f), f.rhs>>)
Blake1(f) == <<"blake2b", <<H2(f), f.extranonce>>>>

(* Mutant: the third nonce is left out.                                     *)
AsicInputOfTwo(f) ==
    <<Profile(f), f.nonce, f.nonce2, f.offset, Blake1(f), H2(f)>>

\* The profiles differ in length and layout, which their number stands for.
\* Only profile 0 begins with the hidden hash of the previous block.
AsicInput(f) ==
    <<Profile(f), f.nonce, f.nonce2, f.nonce3, f.offset, Blake1(f),
      IF Profile(f) = 0 THEN Tagged("Bitcoin prevblock header, hashed", f.prev)
                        ELSE H2(f)>>

\* The mask is laid over the second hash.
GetHash(f) == [blake |-> <<"blake2b", AsicInput(f)>>, mask |-> Mask(f)]

(***************************************************************************)
(* The Merkle tree.                                                        *)
(***************************************************************************)
Pair(left, right) == <<left, right>>

\* The last node of an odd layer is its own sibling.
Padded == IF Len(layer) % 2 = 1 THEN Append(layer, Last(layer)) ELSE layer

(* Mutant: the sibling is always the next.                                  *)
NextOne(i) == IF i + 1 < Len(Padded) THEN i + 1 ELSE i

Sibling(i) == IF i % 2 = 0 THEN i + 1 ELSE i - 1

(***************************************************************************)
(* The scripts.                                                            *)
(***************************************************************************)
Idle == CHOOSE h \in Headers : TRUE

Init ==
    /\ outcome = "none" /\ branch = <<>>
    /\ \/ /\ script = "live"
          /\ raw \in Headers /\ claimed \in Headers
          /\ leaves = <<>> /\ start = 0
       \/ /\ script = "tree"
          /\ raw = Idle /\ claimed = Idle
          /\ \E n \in 1..MaxLeaves : leaves = [i \in 1..n |-> <<i>>] /\ start \in 0..(n - 1)
    /\ layer = leaves /\ index = start

\* main: the hash of what was parsed is compared with the one expected.
Live ==
    /\ script = "live" /\ outcome = "none"
    /\ outcome' = IF GetHash(Parse(raw)) = GetHash(Parse(claimed))
                  THEN "MATCH" ELSE "MISMATCH"
    /\ UNCHANGED <<script, raw, claimed, leaves, start, layer, index, branch>>

\* merkle_root_and_branch: one layer up.
Climb ==
    /\ script = "tree" /\ Len(layer) > 1
    /\ branch' = Append(branch, Padded[Sibling(index) + 1])
    /\ layer' = [i \in 1..(Len(Padded) \div 2) |-> Pair(Padded[2 * i - 1], Padded[2 * i])]
    /\ index' = index \div 2
    /\ UNCHANGED <<script, raw, claimed, outcome, leaves, start>>

Next == Live \/ Climb

Spec == Init /\ [][Next]_vars

(***************************************************************************)
(* Properties.                                                             *)
(***************************************************************************)
\* The header with the flag in its version.
Flagged(h) == [h EXCEPT !.version = VersionFlag + (@ % VersionFlag)]

(* The hash commits to the whole v2 header: a header matches the hash of no *)
(* other, whatever its profile and flags, and with the time taken apart and *)
(* put together again modulo the word.  Only the flag itself is not         *)
(* compared: the bytes of a v2 header without it match all the same         *)
(* (headerv2_hash.py:74 and 135).                                           *)
MatchIsTheHeader ==
    outcome = "MATCH" <=> (outcome # "none" /\ Flagged(raw) = Flagged(claimed))

\* Bytes read as one number, the first byte the highest.
Value(m) ==
    LET upTo[i \in 0..MaskBytes] ==
          IF i = 0 THEN 0 ELSE upTo[i - 1] * ByteSize + m[i]
    IN upTo[MaskBytes]

(* The mask is the tagged hash with exactly its first clear bits removed,   *)
(* also when their number ends within a byte or in the last one.            *)
MaskClears ==
    raw.key # 0 =>
        Value(Mask(raw)) =
            Value(Stream[raw.key]) % 2^(ByteBits * MaskBytes - raw.clear)

\* What a client makes of the leaf and the branch: at each step the node is
\* the left or the right of the pair as a bit of the index says.
Climbed ==
    LET after[i \in 0..Len(branch)] ==
          IF i = 0 THEN leaves[start + 1]
          ELSE IF (start \div 2^(i - 1)) % 2 = 0
               THEN Pair(after[i - 1], branch[i])
               ELSE Pair(branch[i], after[i - 1])
    IN after[Len(branch)]

(* The branch so far proves the node reached: a client that climbs from the *)
(* leaf along it gets that node, and the root in the end, for every number  *)
(* of leaves and every index, which stays within its layer                  *)
(* (merkle_root_and_branch).                                                *)
BranchProves ==
    script = "tree" => /\ index + 1 \in DOMAIN layer
                       /\ Climbed = layer[index + 1]
=============================================================================
