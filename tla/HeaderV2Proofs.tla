--------------------------- MODULE HeaderV2Proofs ----------------------------
(***************************************************************************)
(* fork_point finds the activation height of every chain, the hash of a    *)
(* header commits to all its fields, the mask is the hash with its first   *)
(* bits cleared, and the branch of a leaf proves it.                       *)
(***************************************************************************)
EXTENDS ForkPoint, HeaderV2, FiniteSetTheorems, TLAPS

(***************************************************************************)
(* Powers of two: those of a set's subsets, of which a new element doubles *)
(* the number.                                                             *)
(***************************************************************************)
LEMMA Once == 2^0 = 1
<1>1. IsFiniteSet({}) /\ Cardinality({}) = 0
  BY FS_EmptySet
<1>2. Cardinality(SUBSET {}) = 2^0
  BY <1>1, FS_SUBSET
<1>3. SUBSET {} = {{}}
  OBVIOUS
<1>4. Cardinality({{}}) = 1
  BY FS_Singleton
<1>5. QED
  BY <1>2, <1>3, <1>4

LEMMA PowerOfTwo == \A n \in Nat : 2^n \in Nat /\ 2^(n + 1) = 2 * 2^n
<1> TAKE n \in Nat
<1> DEFINE S == 1..n
           T == 1..(n + 1)
           With == {A \cup {n + 1} : A \in SUBSET S}
           join == [A \in SUBSET S |-> A \cup {n + 1}]
<1>1. /\ IsFiniteSet(S) /\ Cardinality(S) = n
      /\ IsFiniteSet(T) /\ Cardinality(T) = n + 1
  BY FS_Interval
<1>2. /\ IsFiniteSet(SUBSET S) /\ Cardinality(SUBSET S) = 2^n
      /\ Cardinality(SUBSET T) = 2^(n + 1)
  BY <1>1, FS_SUBSET
<1>3. T = S \cup {n + 1} /\ n + 1 \notin S
  OBVIOUS
<1>4. SUBSET T = (SUBSET S) \cup With
  <2>1. ASSUME NEW B \in SUBSET T, n + 1 \in B PROVE B \in With
    <3>1. B \ {n + 1} \in SUBSET S /\ B = (B \ {n + 1}) \cup {n + 1}
      BY <1>3, <2>1
    <3>2. QED
      BY <3>1, Zenon
  <2>2. QED
    BY <1>3, <2>1
<1>5. (SUBSET S) \cap With = {}
  BY <1>3
<1>6. join \in Bijection(SUBSET S, With)
  <2>1. ASSUME NEW A \in SUBSET S, NEW B \in SUBSET S, A \cup {n + 1} = B \cup {n + 1}
        PROVE  A = B
    BY <1>3, <2>1
  <2>2. IsInjective(join)
    <3>1. DOMAIN join = SUBSET S /\ \A A \in SUBSET S : join[A] = A \cup {n + 1}
      OBVIOUS
    <3>2. QED
      BY <2>1, <3>1, Zenon DEF IsInjective
  <2>3. join \in Surjection(SUBSET S, With)
    BY DEF Surjection
  <2>4. QED
    BY <2>2, <2>3 DEF Bijection, Injection, Surjection
<1>7. IsFiniteSet(With) /\ Cardinality(With) = 2^n
  BY <1>2, <1>6, FS_Bijection DEF ExistsBijection
<1>8. Cardinality((SUBSET S) \cup With) = 2^n + 2^n - Cardinality((SUBSET S) \cap With)
  BY <1>2, <1>7, FS_Union
<1>9. Cardinality((SUBSET S) \cap With) = 0
  BY <1>5, FS_EmptySet
<1>10. 2^n \in Nat
  BY <1>2, FS_CardinalityType
<1>11. Cardinality(SUBSET T) = 2^n + 2^n
  <2> HIDE DEF T, S, With
  <2>1. Cardinality(SUBSET T) = 2^n + 2^n - 0
    BY <1>4, <1>8, <1>9
  <2>2. QED
    BY <1>10, <2>1
<1>12. QED
  <2> HIDE DEF T, S, With
  <2>1. 2^(n + 1) = 2^n + 2^n
    BY <1>2, <1>11
  <2>2. QED
    BY <1>10, <2>1

(* Induction over the naturals, for a property given as a set: a finite set *)
(* cannot be mapped one to one to itself and miss an element.               *)
LEMMA Induction ==
    ASSUME NEW P, 0 \in P, \A n \in Nat : n \in P => n + 1 \in P
    PROVE  Nat \subseteq P
<1> SUFFICES ASSUME NEW n \in Nat, n \notin P PROVE FALSE
  OBVIOUS
<1> DEFINE A == {k \in 0..n : k \in P}
           next == [k \in A |-> k + 1]
<1>1. IsFiniteSet(A)
  <2>1. IsFiniteSet(0..n) /\ A \subseteq 0..n
    BY FS_Interval
  <2>2. QED
    BY <2>1, FS_Subset
<1>2. \A k \in A : k \in Nat /\ k + 1 \in A
  OBVIOUS
<1>3. next \in [A -> A] /\ \A k \in A : next[k] = k + 1
  BY <1>2
<1> HIDE DEF next
<1>4. next \in Injection(A, A)
  <2>1. \A j, k \in A : next[j] = next[k] => j = k
    BY <1>2, <1>3
  <2>2. IsInjective(next)
    <3>1. DOMAIN next = A
      BY <1>3
    <3>2. QED
      BY <2>1, <3>1, Zenon DEF IsInjective
  <2>3. QED
    BY <1>3, <2>2, Zenon DEF Injection
<1>5. next \in Surjection(A, A)
  BY <1>1, <1>4, FS_Injection
<1>6. 0 \in A
  OBVIOUS
<1>7. PICK k \in A : next[k] = 0
  BY <1>5, <1>6, Zenon DEF Surjection
<1>8. QED
  BY <1>2, <1>3, <1>7

LEMMA PowerOfSum == \A i, j \in Nat : 2^(i + j) = 2^i * 2^j /\ 2^i > 0
<1> SUFFICES ASSUME NEW i \in Nat PROVE \A j \in Nat : 2^(i + j) = 2^i * 2^j /\ 2^i > 0
  OBVIOUS
<1> DEFINE P == {j \in Nat : 2^(i + j) = 2^i * 2^j}
<1>1. 0 \in P
  <2>1. i + 0 = i /\ 2^i \in Nat
    BY PowerOfTwo
  <2>2. 2^i * 1 = 2^i
    BY <2>1
  <2>3. QED
    BY <2>1, <2>2, Once
<1>2. ASSUME NEW n \in Nat, n \in P PROVE n + 1 \in P
  <2>1. 2^(i + n) = 2^i * 2^n
    BY <1>2
  <2>2. 2^(i + (n + 1)) = 2 * 2^(i + n)
    <3>1. i + n \in Nat /\ i + (n + 1) = (i + n) + 1
      OBVIOUS
    <3>2. QED
      BY <3>1, PowerOfTwo
  <2>3. 2^(n + 1) = 2 * 2^n /\ 2^n \in Nat /\ 2^i \in Nat
    BY PowerOfTwo
  <2>4. \A a, b \in Nat : 2 * (a * b) = a * (2 * b)
    OBVIOUS
  <2>5. 2^(i + (n + 1)) = 2^i * 2^(n + 1)
    BY <2>1, <2>2, <2>3, <2>4
  <2>6. QED
    BY <2>5
<1>3. Nat \subseteq P
  <2> HIDE DEF P
  <2>1. QED
    BY <1>1, <1>2, Induction
<1>4. 2^i > 0
  <2> DEFINE Q == {j \in Nat : 2^j > 0}
  <2>1. 0 \in Q
    BY Once
  <2>2. \A n \in Nat : n \in Q => n + 1 \in Q
    BY PowerOfTwo
  <2>3. Nat \subseteq Q
    <3> HIDE DEF Q
    <3>1. QED
      BY <2>1, <2>2, Induction
  <2>4. QED
    BY <2>3
<1>5. QED
  BY <1>3, <1>4

(***************************************************************************)
(* Division.                                                               *)
(***************************************************************************)
LEMMA Division ==
    ASSUME NEW n \in Nat, NEW d \in Nat \ {0}
    PROVE  n \div d \in Nat /\ n % d \in 0..(d - 1) /\ n = (n \div d) * d + (n % d)
OBVIOUS

LEMMA DivisionIsUnique ==
    ASSUME NEW d \in Nat \ {0}, NEW a \in Nat, NEW r \in 0..(d - 1)
    PROVE  (a * d + r) \div d = a /\ (a * d + r) % d = r
<1> DEFINE n == a * d + r
           q == n \div d
           s == n % d
<1>1. n \in Nat
  OBVIOUS
<1>2. q \in Nat /\ s \in 0..(d - 1) /\ n = q * d + s
  BY <1>1, Division
<1> HIDE DEF q, s
<1>3. (q - a) * d = r - s
  BY <1>2
<1>4. q - a < 1
  <2> SUFFICES ASSUME q - a >= 1 PROVE FALSE
    BY <1>2
  <2>1. (q - a) * d >= d
    BY <1>2
  <2>2. QED
    BY <1>2, <1>3, <2>1
<1>5. q - a > -1
  <2> SUFFICES ASSUME a - q >= 1 PROVE FALSE
    BY <1>2
  <2>1. (a - q) * d >= d
    BY <1>2
  <2>2. (a - q) * d = s - r
    BY <1>2, <1>3
  <2>3. QED
    BY <1>2, <2>1, <2>2
<1>6. q = a
  BY <1>2, <1>4, <1>5
<1>7. s = r
  BY <1>2, <1>6
<1>8. QED
  BY <1>6, <1>7 DEF q, s

(* A remainder is kept when a digit is appended ...                         *)
LEMMA RemainderOfDigits ==
    ASSUME NEW n \in Nat, NEW d \in Nat \ {0}, NEW base \in Nat \ {0}, NEW x \in 0..(base - 1)
    PROVE  (n * base + x) % (d * base) = (n % d) * base + x
<1> DEFINE a == n \div d
           v == n % d
<1>1. a \in Nat /\ v \in 0..(d - 1) /\ n = a * d + v
  BY Division
<1> HIDE DEF a, v
<1>2. n * base + x = a * (d * base) + (v * base + x)
  <2>1. n * base = a * (d * base) + v * base
    BY <1>1
  <2>2. QED
    BY <1>1, <2>1
<1>3. v * base + x \in 0..(d * base - 1) /\ d * base \in Nat \ {0}
  <2>1. v * base <= (d - 1) * base /\ v * base \in Nat
    BY <1>1
  <2>2. (d - 1) * base = d * base - base
    OBVIOUS
  <2>3. d * base \in Nat /\ d * base > 0
    OBVIOUS
  <2>4. QED
    BY <2>1, <2>2, <2>3
<1>4. (a * (d * base) + (v * base + x)) % (d * base) = v * base + x
  <2> DEFINE m == d * base
             r == v * base + x
  <2>1. r \in 0..(m - 1) /\ m \in Nat \ {0}
    BY <1>3
  <2> HIDE DEF m, r
  <2>2. (a * m + r) % m = r
    BY <1>1, <2>1, DivisionIsUnique
  <2>3. QED
    BY <2>2 DEF m, r
<1>5. QED
  BY <1>2, <1>4 DEF v

(* ... and what is before a digit has no part in the remainder by a divisor *)
(* of the base.                                                             *)
LEMMA RemainderOfLast ==
    ASSUME NEW n \in Nat, NEW d \in Nat \ {0}, NEW e \in Nat, NEW x \in Nat
    PROVE  (n * (e * d) + x) % d = x % d
<1> DEFINE a == x \div d
           v == x % d
<1>1. a \in Nat /\ v \in 0..(d - 1) /\ x = a * d + v
  BY Division
<1> HIDE DEF a, v
<1>2. n * (e * d) + x = (n * e + a) * d + v
  BY <1>1
<1>3. n * e + a \in Nat
  BY <1>1
<1>4. ((n * e + a) * d + v) % d = v
  <2> DEFINE m == n * e + a
  <2>1. m \in Nat
    BY <1>3
  <2> HIDE DEF m
  <2>2. (m * d + v) % d = v
    BY <1>1, <2>1, DivisionIsUnique
  <2>3. QED
    BY <2>2 DEF m
<1>5. QED
  BY <1>2, <1>4 DEF v

(* Halving is dividing by the next power.                                   *)
LEMMA HalfOfQuotient ==
    ASSUME NEW n \in Nat, NEW d \in Nat \ {0}
    PROVE  n \div (2 * d) = (n \div d) \div 2
<1> DEFINE q == n \div d
           r == n % d
           b == q \div 2
           c == q % 2
<1>1. q \in Nat /\ r \in 0..(d - 1) /\ n = q * d + r
  BY Division
<1> HIDE DEF q, r
<1>2. b \in Nat /\ c \in 0..1 /\ q = b * 2 + c
  BY <1>1
<1> HIDE DEF b, c
<1>3. n = b * (2 * d) + (c * d + r)
  BY <1>1, <1>2
<1>4. c * d + r \in 0..(2 * d - 1)
  <2>1. c = 0 \/ c = 1
    BY <1>2
  <2>2. QED
    BY <1>1, <2>1
<1>5. n \div (2 * d) = b
  <2>1. 2 * d \in Nat \ {0}
    OBVIOUS
  <2>2. QED
    BY <1>2, <1>3, <1>4, <2>1, DivisionIsUnique
<1>6. QED
  BY <1>5 DEF b, q

LEMMA HalfAsFar ==
    ASSUME NEW r \in Nat, NEW left \in Nat, 2 * left <= r,
           NEW q \in Nat, NEW bound \in Nat, r * q <= bound
    PROVE  left * (2 * q) <= bound
<1>1. left * (2 * q) = (2 * left) * q
  OBVIOUS
<1>2. (2 * left) * q <= r * q
  OBVIOUS
<1>3. QED
  BY <1>1, <1>2

(***************************************************************************)
(* The search.                                                             *)
(***************************************************************************)
USE ForkAssumption

(* The middle of a range of two or more heights is below its end, so that   *)
(* both halves are smaller than the range.                                  *)
LEMMA MiddleInRange ==
    ASSUME lo \in Nat, hi \in Nat, lo < hi
    PROVE  Middle \in Nat /\ lo <= Middle /\ Middle < hi
BY DEF Middle

(***************************************************************************)
(* The invariant of the search: everything below lo is v1, and hi is v2.   *)
(***************************************************************************)
Bracket ==
    /\ state \in {"search", "found"} => lo <= activation /\ activation <= hi
    /\ state = "found" => lo = hi
    /\ state = "none" => height < activation

SearchInv == SearchTypeOK /\ Bracket

LEMMA SearchInvariant == SearchSpec => []SearchInv
<1>1. SearchInit => SearchInv
  BY DEF SearchInit, SearchInv, SearchTypeOK, Bracket
<1>2. SearchInv /\ [SearchNext]_searchVars => SearchInv'
  <2> SUFFICES ASSUME SearchInv, [SearchNext]_searchVars PROVE SearchInv'
    OBVIOUS
  <2> USE DEF SearchInv, SearchTypeOK, Bracket, IsV2
  <2>1. CASE Start
    BY <2>1 DEF Start, HasV2Headers
  <2>2. CASE Probe
    <3>1. Middle \in Nat /\ lo <= Middle /\ Middle < hi
      BY <2>2, MiddleInRange DEF Probe
    <3>2. CASE Middle >= activation
      BY <2>2, <3>1, <3>2 DEF Probe
    <3>3. CASE ~(Middle >= activation)
      BY <2>2, <3>1, <3>3 DEF Probe
    <3>4. QED
      BY <3>2, <3>3
  <2>3. CASE Report
    BY <2>3 DEF Report
  <2>4. CASE UNCHANGED searchVars
    BY <2>4 DEF searchVars
  <2>5. QED
    BY <2>1, <2>2, <2>3, <2>4 DEF SearchNext
<1>3. QED
  BY <1>1, <1>2, PTL DEF SearchSpec

(* The search never reads a header the chain does not have.                 *)
THEOREM SearchTypeCorrect == SearchSpec => []SearchTypeOK
BY SearchInvariant, PTL DEF SearchInv

(* What is reported is the first v2 header, and nothing is reported exactly *)
(* on chains without one.                                                   *)
THEOREM ForkFound == SearchSpec => []FindsTheFork
<1>1. SearchInv => FindsTheFork
  BY DEF SearchInv, SearchTypeOK, Bracket, FindsTheFork, IsV2
<1>2. QED
  BY <1>1, SearchInvariant, PTL

(* After each probe what is left is at most half of what was left before,   *)
(* on a chain of any length and for every activation height, so the probes  *)
(* of a chain are as many as the digits of its height in base two.          *)
THEOREM SearchHalves == SearchSpec => []HalvesTheRange
<1> DEFINE Halving == HalvesTheRange /\ (state = "start" => probes = 0)
<1>1. SearchInit => Halving
  BY DEF SearchInit, HalvesTheRange
<1>2. SearchInv /\ Halving /\ [SearchNext]_searchVars => Halving'
  <2> SUFFICES ASSUME SearchInv, Halving, [SearchNext]_searchVars PROVE Halving'
    OBVIOUS
  <2>1. /\ height \in Nat /\ lo \in Nat /\ hi \in Nat /\ lo <= hi /\ hi <= height
        /\ probes \in Nat
    BY DEF SearchInv, SearchTypeOK
  <2>2. CASE Start
    <3>1. CASE state' = "none"
      BY <3>1 DEF HalvesTheRange
    <3>2. CASE state' # "none"
      <4>1. lo' = 0 /\ hi' = height /\ height' = height /\ probes' = 0 /\ state' = "search"
        BY <2>2, <3>2 DEF Start
      <4>2. (height - 0) * 2^0 = height
        BY <2>1, Once
      <4>3. QED
        BY <2>1, <4>1, <4>2 DEF HalvesTheRange
    <3>3. QED
      BY <3>1, <3>2
  <2>3. CASE Probe
    <3>1. /\ state = "search" /\ state' = "search" /\ lo < hi
          /\ probes' = probes + 1 /\ height' = height
      BY <2>3 DEF Probe
    <3>2. Middle = lo + (hi - lo) \div 2
      BY DEF Middle
    <3>3. hi' - lo' \in Nat /\ 2 * (hi' - lo') <= hi - lo
      <4>1. CASE IsV2(Middle)
        BY <2>1, <2>3, <3>1, <3>2, <4>1 DEF Probe
      <4>2. CASE ~IsV2(Middle)
        BY <2>1, <2>3, <3>1, <3>2, <4>2 DEF Probe
      <4>3. QED
        BY <4>1, <4>2
    <3>4. (hi - lo) * 2^probes <= height
      BY <3>1 DEF HalvesTheRange
    <3>5. 2^probes \in Nat /\ 2^(probes + 1) = 2 * 2^probes
      BY <2>1, PowerOfTwo
    <3>6. hi - lo \in Nat
      BY <2>1
    <3>7. (hi' - lo') * (2 * 2^probes) <= height
      BY <2>1, <3>3, <3>4, <3>5, <3>6, HalfAsFar
    <3>8. (hi' - lo') * 2^(probes') <= height'
      BY <3>1, <3>5, <3>7
    <3>9. QED
      BY <3>1, <3>8 DEF HalvesTheRange
  <2>4. CASE Report
    BY <2>4 DEF Report, HalvesTheRange
  <2>5. CASE UNCHANGED searchVars
    BY <2>5 DEF searchVars, HalvesTheRange
  <2>6. QED
    BY <2>2, <2>3, <2>4, <2>5 DEF SearchNext
<1>3. Halving => HalvesTheRange
  OBVIOUS
<1>4. QED
  BY <1>1, <1>2, <1>3, SearchInvariant, PTL DEF SearchSpec

(***************************************************************************)
(* The hash.                                                               *)
(***************************************************************************)
LEMMA ModuloOf ==
    ASSUME NEW w \in Nat \ {0}, NEW r \in 0..(w - 1)
    PROVE  r % w = r /\ (r + w) % w = r /\ (r - w) % w = r
OBVIOUS

(* An offset that is added modulo the word is taken off again.              *)
LEMMA OffsetCancels ==
    ASSUME NEW w \in Nat \ {0}, NEW t \in 0..(w - 1), NEW o \in 0..(w - 1)
    PROVE  (((t + o) % w) - o) % w = t
<1>1. CASE t + o < w
  <2>1. t + o \in 0..(w - 1) /\ (t + o) - o = t
    BY <1>1
  <2>2. (t + o) % w = t + o /\ t % w = t
    BY <2>1, ModuloOf
  <2>3. QED
    BY <2>1, <2>2
<1>2. CASE ~(t + o < w)
  <2> DEFINE r == t + o - w
  <2>1. r \in 0..(w - 1) /\ r + w = t + o
    BY <1>2
  <2>2. (t + o) % w = r
    BY <2>1, ModuloOf
  <2>3. r - o = t - w
    OBVIOUS
  <2>4. QED
    BY <2>2, <2>3, ModuloOf
<1>3. QED
  BY <1>1, <1>2

(* What is parsed is what is on the wire, but for the time and the flag of  *)
(* the version.                                                             *)
LEMMA ParsedFields ==
    ASSUME NEW h \in Headers
    PROVE  /\ DOMAIN Parse(h) = Fields
           /\ \A field \in Fields \ {"time", "version"} : Parse(h)[field] = h[field]
           /\ Parse(h).time = (h.time + Offset(h)) % WordSize
           /\ Parse(h).version = h.version % VersionFlag
<1>1. h = [field \in Fields |-> h[field]] /\ {"time", "version"} \subseteq Fields
  BY HeaderAssumption DEF Fields
<1> DEFINE v == h.version % VersionFlag
           t == (h.time + Offset(h)) % WordSize
<1>2. Parse(h) = [h EXCEPT !["version"] = v, !["time"] = t]
  BY DEF Parse
<1> HIDE DEF v, t
<1>3. /\ DOMAIN Parse(h) = Fields
      /\ \A field \in Fields \ {"time", "version"} : Parse(h)[field] = h[field]
      /\ Parse(h)["time"] = t /\ Parse(h)["version"] = v
  BY <1>1, <1>2
<1>4. QED
  BY <1>3 DEF v, t

LEMMA FlaggedFields ==
    ASSUME NEW h \in Headers
    PROVE  /\ Flagged(h) = [field \in Fields |-> Flagged(h)[field]]
           /\ \A field \in Fields \ {"version"} : Flagged(h)[field] = h[field]
           /\ Flagged(h).version = VersionFlag + (h.version % VersionFlag)
<1>1. h = [field \in Fields |-> h[field]] /\ "version" \in Fields
  BY HeaderAssumption DEF Fields
<1> DEFINE v == VersionFlag + (h.version % VersionFlag)
<1>2. Flagged(h) = [h EXCEPT !["version"] = v]
  BY DEF Flagged
<1> HIDE DEF v
<1>3. QED
  BY <1>1, <1>2 DEF v

LEMMA Parsed ==
    ASSUME NEW h \in Headers
    PROVE  /\ TimeOnWire(Parse(h)) = h.time
           /\ CompleteVersion(Parse(h)) = Flagged(h).version
<1>1. Offset(Parse(h)) = Offset(h)
  BY ParsedFields DEF Offset, Fields
<1>2. Offset(h) \in 0..(WordSize - 1) /\ h.time \in 0..(WordSize - 1)
  BY HeaderAssumption DEF Offset
<1>3. WordSize \in Nat \ {0} /\ VersionFlag \in Nat \ {0} /\ h.version \in Nat
  BY HeaderAssumption
<1>4. (((h.time + Offset(h)) % WordSize) - Offset(h)) % WordSize = h.time
  BY <1>2, <1>3, OffsetCancels
<1>5. (h.version % VersionFlag) % VersionFlag = h.version % VersionFlag
  BY <1>3, Division, ModuloOf
<1>6. Flagged(h).version = VersionFlag + (h.version % VersionFlag)
  BY FlaggedFields
<1>7. QED
  BY <1>1, <1>4, <1>5, <1>6, ParsedFields DEF TimeOnWire, CompleteVersion

(* The fields of a header that was hashed can be read off the hash: each of *)
(* the three profiles commits to all of them.                               *)
LEMMA ReadOff ==
    ASSUME NEW f, NEW g, GetHash(f) = GetHash(g)
    PROVE  /\ \A field \in Fields \ {"time", "version"} : f[field] = g[field]
           /\ TimeOnWire(f) = TimeOnWire(g)
           /\ CompleteVersion(f) = CompleteVersion(g)
<1>1. GetHash(f).blake = GetHash(g).blake
  OBVIOUS
<1>2. AsicInput(f) = AsicInput(g)
  BY <1>1 DEF GetHash
<1>3. /\ f.nonce = g.nonce /\ f.nonce2 = g.nonce2 /\ f.nonce3 = g.nonce3
      /\ f.offset = g.offset /\ Blake1(f) = Blake1(g)
  BY <1>2 DEF AsicInput
<1>4. H2(f) = H2(g) /\ f.extranonce = g.extranonce
  BY <1>3 DEF Blake1
<1>5. H1(f) = H1(g) /\ f.rhs = g.rhs
  BY <1>4 DEF H2, Tagged
<1>6. /\ CompleteVersion(f) = CompleteVersion(g) /\ f.prev = g.prev
      /\ f.height = g.height /\ f.root = g.root
      /\ TimeOnWire(f) = TimeOnWire(g) /\ f.bits = g.bits
      /\ f.txcount = g.txcount /\ f.flags = g.flags /\ f.clear = g.clear
      /\ f.key = g.key
  BY <1>5 DEF H1, Tagged
<1>7. QED
  BY <1>3, <1>4, <1>5, <1>6 DEF Fields

LEMMA HashCommits ==
    ASSUME NEW h \in Headers, NEW g \in Headers, GetHash(Parse(h)) = GetHash(Parse(g))
    PROVE  Flagged(h) = Flagged(g)
<1>1. /\ \A field \in Fields \ {"time", "version"} : Parse(h)[field] = Parse(g)[field]
      /\ TimeOnWire(Parse(h)) = TimeOnWire(Parse(g))
      /\ CompleteVersion(Parse(h)) = CompleteVersion(Parse(g))
  BY ReadOff
<1>2. /\ h.time = g.time /\ Flagged(h).version = Flagged(g).version
      /\ \A field \in Fields \ {"time", "version"} : h[field] = g[field]
  BY <1>1, Parsed, ParsedFields
<1>3. \A field \in Fields : Flagged(h)[field] = Flagged(g)[field]
  BY <1>2, FlaggedFields
<1>4. QED
  BY <1>3, FlaggedFields

(* What the flag says is not read again after the parse.                    *)
LEMMA FlagIsIgnored ==
    ASSUME NEW h \in Headers, NEW g \in Headers, Flagged(h) = Flagged(g)
    PROVE  Parse(h) = Parse(g)
<1>1. \A field \in Fields \ {"version"} : h[field] = g[field]
  BY FlaggedFields
<1>2. Offset(h) = Offset(g) /\ h.time = g.time
  BY <1>1 DEF Offset, Fields
<1>3. h.version % VersionFlag = g.version % VersionFlag
  <2> DEFINE v == h.version % VersionFlag
             w == g.version % VersionFlag
  <2>1. v \in Nat /\ w \in Nat /\ VersionFlag \in Nat
    <3>1. VersionFlag \in Nat \ {0} /\ h.version \in Nat /\ g.version \in Nat
      BY HeaderAssumption
    <3>2. \A n \in Nat, d \in Nat \ {0} : n % d \in Nat
      OBVIOUS
    <3>3. QED
      BY <3>1, <3>2
  <2>2. VersionFlag + v = VersionFlag + w
    BY FlaggedFields
  <2> HIDE DEF v, w
  <2>3. v = w
    BY <2>1, <2>2
  <2>4. QED
    BY <2>3 DEF v, w
<1>4. \A field \in Fields : Parse(h)[field] = Parse(g)[field]
  BY <1>1, <1>2, <1>3, ParsedFields
<1>5. Parse(h) = [field \in Fields |-> Parse(h)[field]]
      /\ Parse(g) = [field \in Fields |-> Parse(g)[field]]
  BY ParsedFields DEF Parse
<1>6. QED
  BY <1>4, <1>5

(* Headers stay as they are, and a verdict is about these two.              *)
Verdict ==
    /\ script = "live" => raw \in Headers /\ claimed \in Headers
    /\ outcome \in {"none", "MATCH", "MISMATCH"}
    /\ outcome # "none" =>
          /\ script = "live"
          /\ outcome = "MATCH" <=> GetHash(Parse(raw)) = GetHash(Parse(claimed))

(* The hash of a header is the hash of no other, but for the v2 flag, over  *)
(* every profile, every byte of flags and every version, time and offset of *)
(* a word of any size.                                                      *)
THEOREM HashMatches == Spec => []MatchIsTheHeader
<1>1. Init => Verdict
  BY DEF Init, Verdict
<1>2. Verdict /\ [Next]_vars => Verdict'
  <2> SUFFICES ASSUME Verdict, [Next]_vars PROVE Verdict'
    OBVIOUS
  <2>1. CASE Live
    BY <2>1 DEF Verdict, Live
  <2>2. CASE Climb
    BY <2>2 DEF Verdict, Climb
  <2>3. CASE UNCHANGED vars
    BY <2>3 DEF Verdict, vars
  <2>4. QED
    BY <2>1, <2>2, <2>3 DEF Next
<1>3. Verdict => MatchIsTheHeader
  BY HashCommits, FlagIsIgnored DEF Verdict, MatchIsTheHeader
<1>4. QED
  BY <1>1, <1>2, <1>3, PTL DEF Spec

(***************************************************************************)
(* The mask.                                                               *)
(***************************************************************************)
\* The number that the bytes so far make.
Sums(m) ==
    CHOOSE upTo : upTo = [i \in 0..MaskBytes |->
                            IF i = 0 THEN 0 ELSE upTo[i - 1] * ByteSize + m[i]]

LEMMA ValueIsSum == \A m : Value(m) = Sums(m)[MaskBytes]
BY DEF Value, Sums

LEMMA SumsExist ==
    ASSUME NEW m, MaskBytes \in Nat
    PROVE  /\ Sums(m)[0] = 0
           /\ \A i \in 0..(MaskBytes - 1) :
                 Sums(m)[i + 1] = Sums(m)[i] * ByteSize + m[i + 1]
<1> DEFINE Is(f, n) ==
             f = [i \in 0..n |-> IF i = 0 THEN 0 ELSE f[i - 1] * ByteSize + m[i]]
           P == {n \in Nat : \E f : Is(f, n)}
<1>1. 0 \in P
  <2>1. Is([i \in 0..0 |-> 0], 0)
    OBVIOUS
  <2>2. QED
    BY <2>1
<1>2. ASSUME NEW n \in Nat, n \in P PROVE n + 1 \in P
  <2>1. PICK f : Is(f, n)
    BY <1>2
  <2> DEFINE g == [i \in 0..(n + 1) |->
                     IF i = n + 1 THEN f[n] * ByteSize + m[i] ELSE f[i]]
  <2>2. \A i \in 0..(n + 1) : g[i] = IF i = 0 THEN 0 ELSE g[i - 1] * ByteSize + m[i]
    <3>1. \A i \in 0..n : f[i] = IF i = 0 THEN 0 ELSE f[i - 1] * ByteSize + m[i]
      BY <2>1
    <3>2. SUFFICES ASSUME NEW i \in 0..(n + 1)
                   PROVE  g[i] = IF i = 0 THEN 0 ELSE g[i - 1] * ByteSize + m[i]
      OBVIOUS
    <3>3. CASE i = n + 1
      BY <3>3
    <3>4. CASE i \in 0..n /\ i # 0
      <4>1. i - 1 \in 0..n /\ g[i] = f[i] /\ g[i - 1] = f[i - 1]
        BY <3>4
      <4>2. QED
        BY <3>1, <3>4, <4>1
    <3>5. CASE i = 0
      BY <3>1, <3>5
    <3>6. QED
      BY <3>3, <3>4, <3>5
  <2>3. Is(g, n + 1)
    BY <2>2
  <2> HIDE DEF g, Is
  <2>4. n + 1 \in Nat /\ \E h : Is(h, n + 1)
    BY <2>3
  <2>5. QED
    BY <2>4
<1>3. MaskBytes \in P
  <2> HIDE DEF P
  <2>1. Nat \subseteq P
    BY <1>1, <1>2, Induction
  <2>2. QED
    BY <2>1
<1>4. \E f : Is(f, MaskBytes)
  BY <1>3
<1>5. Is(Sums(m), MaskBytes)
  BY <1>4 DEF Sums
<1>6. ASSUME NEW i \in 0..MaskBytes
      PROVE  Sums(m)[i] = IF i = 0 THEN 0 ELSE Sums(m)[i - 1] * ByteSize + m[i]
  BY <1>5
<1>7. Sums(m)[0] = 0
  BY <1>6
<1>8. ASSUME NEW i \in 0..(MaskBytes - 1)
      PROVE  Sums(m)[i + 1] = Sums(m)[i] * ByteSize + m[i + 1]
  <2>1. i + 1 \in 0..MaskBytes /\ i + 1 # 0 /\ (i + 1) - 1 = i
    OBVIOUS
  <2>2. QED
    BY <1>6, <2>1
<1>9. QED
  BY <1>7, <1>8

(* Clearing the first bits of the bytes takes the remainder of their number.*)
LEMMA ClearedIsRemainder ==
    ASSUME ByteBits \in Nat, MaskBytes \in Nat, NEW m \in [1..MaskBytes -> 0..(ByteSize - 1)],
           NEW clear \in 0..(ByteBits * MaskBytes - 1)
    PROVE  Value(MaskOf(m, clear)) = Value(m) % 2^(ByteBits * MaskBytes - clear)
<1> DEFINE q == clear \div ByteBits
           r == clear % ByteBits
           w == MaskOf(m, clear)
           U == Sums(m)
           V == Sums(w)
<1>1. ByteBits > 0 /\ clear \in Nat
  <2>1. ByteBits * MaskBytes > 0
    OBVIOUS
  <2>2. QED
    BY <2>1
<1>2. q \in Nat /\ r \in 0..(ByteBits - 1) /\ clear = q * ByteBits + r
  <2>1. ByteBits \in Nat \ {0}
    BY <1>1
  <2>2. QED
    BY <1>1, <2>1, Division
<1>3. \A i \in 1..MaskBytes :
         w[i] = IF i <= q THEN 0
                ELSE IF i = q + 1 THEN m[i] % (ByteSize \div 2^r) ELSE m[i]
  BY DEF MaskOf
<1>4. /\ U[0] = 0 /\ \A i \in 0..(MaskBytes - 1) : U[i + 1] = U[i] * ByteSize + m[i + 1]
      /\ V[0] = 0 /\ \A i \in 0..(MaskBytes - 1) : V[i + 1] = V[i] * ByteSize + w[i + 1]
  BY SumsExist
<1>5. ByteSize \in Nat /\ ByteSize > 0
  BY PowerOfTwo, PowerOfSum, HeaderAssumption
<1> DEFINE M == 2^(ByteBits - r)
<1>6. M \in Nat \ {0} /\ ByteSize = 2^r * M /\ ByteSize \div 2^r = M /\ 2^r \in Nat
  <2>1. r \in Nat /\ ByteBits - r \in Nat /\ r + (ByteBits - r) = ByteBits
    BY <1>2
  <2>2. 2^(r + (ByteBits - r)) = 2^r * M
    BY <2>1, PowerOfSum
  <2>3. M \in Nat /\ M > 0 /\ 2^r \in Nat /\ 2^r > 0
    BY <2>1, PowerOfTwo, PowerOfSum
  <2>4. ByteSize = 2^r * M
    <3>1. ByteSize = 2^ByteBits
      BY HeaderAssumption
    <3>2. QED
      BY <2>1, <2>2, <3>1
  <2> DEFINE R == 2^r
  <2> HIDE DEF R, M
  <2>5. R \in Nat \ {0} /\ M \in Nat \ {0} /\ ByteSize = R * M
    BY <2>3, <2>4 DEF R
  <2>6. ByteSize = M * R + 0 /\ 0 \in 0..(R - 1) /\ M \in Nat
    BY <2>5
  <2>7. ByteSize \div R = M
    BY <2>5, <2>6, DivisionIsUnique
  <2>8. QED
    BY <2>5, <2>7 DEF R
<1> DEFINE bits(i) == ByteBits * i - clear
           P == {i \in Nat : i <= MaskBytes =>
                    /\ U[i] \in Nat
                    /\ IF i <= q THEN V[i] = 0 ELSE V[i] = U[i] % 2^bits(i)}
<1> HIDE DEF q, r, w, U, V, M
<1>7. 0 \in P
  BY <1>2, <1>4
<1>8. ASSUME NEW i \in Nat, i \in P PROVE i + 1 \in P
  <2> SUFFICES ASSUME i + 1 <= MaskBytes
               PROVE  /\ U[i + 1] \in Nat
                      /\ IF i + 1 <= q THEN V[i + 1] = 0 ELSE V[i + 1] = U[i + 1] % 2^bits(i + 1)
    <3>1. i + 1 \in Nat
      OBVIOUS
    <3>2. QED
      BY <3>1, Zenon
  <2>1. /\ i <= MaskBytes /\ i \in 0..(MaskBytes - 1) /\ i + 1 \in 1..MaskBytes
        /\ m[i + 1] \in 0..(ByteSize - 1)
    BY <1>5
  <2>2. U[i] \in Nat /\ IF i <= q THEN V[i] = 0 ELSE V[i] = U[i] % 2^bits(i)
    BY <1>8, <2>1
  <2>3. U[i + 1] = U[i] * ByteSize + m[i + 1] /\ V[i + 1] = V[i] * ByteSize + w[i + 1]
    BY <1>4, <2>1
  <2> HIDE DEF bits, P
  <2>4. U[i + 1] \in Nat
    <3>1. U[i] * ByteSize \in Nat
      BY <1>5, <2>2
    <3>2. QED
      BY <1>5, <2>1, <2>3, <3>1
  <2>5. CASE i + 1 <= q
    <3>1. w[i + 1] = 0 /\ V[i] = 0
      <4>1. i <= q /\ V[i] = 0
        BY <1>2, <2>2, <2>5
      <4>2. QED
        BY <1>3, <2>1, <2>5, <4>1
    <3>2. V[i + 1] = 0
      BY <1>5, <2>3, <3>1
    <3>3. QED
      BY <2>4, <2>5, <3>2
  <2>6. CASE i = q
    <3>1. w[i + 1] = m[i + 1] % M /\ V[i] = 0 /\ ~(i + 1 <= q)
      <4>1. V[i] = 0 /\ ~(i + 1 <= q) /\ i + 1 = q + 1
        BY <1>2, <2>2, <2>6
      <4>2. w[i + 1] = m[i + 1] % (ByteSize \div 2^r)
        BY <1>3, <2>1, <4>1
      <4>3. QED
        BY <1>6, <4>1, <4>2
    <3>2. bits(i + 1) = ByteBits - r
      <4>1. ByteBits * (q + 1) = q * ByteBits + ByteBits
        BY <1>2
      <4>2. QED
        BY <1>2, <2>6, <4>1 DEF bits
    <3>3. (U[i] * (2^r * M) + m[i + 1]) % M = m[i + 1] % M
      <4>1. m[i + 1] \in Nat /\ U[i] \in Nat
        BY <1>5, <2>1, <2>2
      <4> DEFINE R == 2^r
      <4>2. R \in Nat
        BY <1>6
      <4> HIDE DEF R
      <4>3. M \in Nat \ {0}
        BY <1>6
      <4>4. (U[i] * (R * M) + m[i + 1]) % M = m[i + 1] % M
        BY <4>1, <4>2, <4>3, RemainderOfLast
      <4>5. QED
        BY <4>4 DEF R
    <3>4. m[i + 1] % M \in Nat
      <4>1. m[i + 1] \in Nat
        BY <1>5, <2>1
      <4>2. QED
        BY <1>6, <4>1
    <3>5. V[i + 1] = m[i + 1] % M
      BY <1>5, <2>3, <3>1, <3>4
    <3>6. U[i + 1] % M = m[i + 1] % M
      BY <1>6, <2>3, <3>3
    <3>7. V[i + 1] = U[i + 1] % 2^bits(i + 1)
      BY <3>2, <3>5, <3>6 DEF M
    <3>8. QED
      BY <2>4, <3>1, <3>7
  <2>7. CASE i > q
    <3>1. w[i + 1] = m[i + 1] /\ V[i] = U[i] % 2^bits(i) /\ ~(i + 1 <= q)
      <4>1. ~(i + 1 <= q) /\ i + 1 # q + 1 /\ ~(i <= q)
        BY <1>2, <2>7
      <4>2. QED
        BY <1>3, <2>1, <2>2, <4>1
    <3>2. bits(i) \in Nat /\ bits(i + 1) = bits(i) + ByteBits
      <4>1. ByteBits * i >= ByteBits * (q + 1)
        BY <1>2, <2>7
      <4>2. ByteBits * (q + 1) = q * ByteBits + ByteBits
        BY <1>2
      <4>3. ByteBits * (i + 1) = ByteBits * i + ByteBits /\ ByteBits * i \in Nat
        OBVIOUS
      <4>4. QED
        BY <1>1, <1>2, <4>1, <4>2, <4>3 DEF bits
    <3> DEFINE D == 2^bits(i)
    <3>3. D \in Nat \ {0} /\ 2^bits(i + 1) = D * ByteSize
      <4>1. D \in Nat /\ D > 0 /\ 2^(bits(i) + ByteBits) = D * 2^ByteBits
        BY <3>2, PowerOfTwo, PowerOfSum
      <4>2. ByteSize = 2^ByteBits
        BY HeaderAssumption
      <4>3. QED
        BY <3>2, <4>1, <4>2
    <3> HIDE DEF D
    <3>4. (U[i] * ByteSize + m[i + 1]) % (D * ByteSize) = (U[i] % D) * ByteSize + m[i + 1]
      <4>1. U[i] \in Nat /\ ByteSize \in Nat \ {0} /\ m[i + 1] \in 0..(ByteSize - 1)
        BY <1>5, <2>1, <2>2
      <4>2. QED
        BY <3>3, <4>1, RemainderOfDigits
    <3>5. V[i + 1] = U[i + 1] % 2^bits(i + 1)
      BY <2>3, <3>1, <3>3, <3>4 DEF D
    <3>6. QED
      BY <2>4, <3>1, <3>5
  <2>8. QED
    BY <1>2, <2>5, <2>6, <2>7
<1>9. MaskBytes \in P
  <2> HIDE DEF P
  <2>1. Nat \subseteq P
    BY <1>7, <1>8, Induction
  <2>2. QED
    BY <2>1
<1>10. ~(MaskBytes <= q)
  <2> SUFFICES ASSUME MaskBytes <= q PROVE FALSE
    OBVIOUS
  <2>1. ByteBits * MaskBytes <= q * ByteBits
    BY <1>2
  <2>2. QED
    BY <1>1, <1>2, <2>1
<1>11. V[MaskBytes] = U[MaskBytes] % 2^bits(MaskBytes)
  BY <1>9, <1>10 DEF P
<1>12. QED
  BY <1>11, ValueIsSum DEF U, V, w, bits

(* The mask is the tagged hash with exactly its first bits cleared, for     *)
(* every number of bits, of bytes and of bits to clear.                     *)
THEOREM MaskExact == Spec => []MaskClears
<1> DEFINE OnTheWire == raw \in Headers
<1>1. Init => OnTheWire
  BY HeaderAssumption DEF Init, Idle
<1>2. OnTheWire /\ [Next]_vars => OnTheWire'
  BY DEF Next, Live, Climb, vars
<1>3. OnTheWire => MaskClears
  <2> SUFFICES ASSUME OnTheWire, raw.key # 0
               PROVE  Value(Mask(raw)) =
                        Value(Stream[raw.key]) % 2^(ByteBits * MaskBytes - raw.clear)
    BY DEF MaskClears
  <2>1. Mask(raw) = MaskOf(Stream[raw.key], raw.clear)
    BY DEF Mask
  <2>2. /\ ByteBits \in Nat /\ MaskBytes \in Nat
        /\ Stream[raw.key] \in [1..MaskBytes -> 0..(ByteSize - 1)]
        /\ raw.clear \in 0..(ByteBits * MaskBytes - 1)
    BY HeaderAssumption
  <2>3. QED
    BY <2>1, <2>2, ClearedIsRemainder
<1> HIDE DEF OnTheWire
<1>4. QED
  BY <1>1, <1>2, <1>3, PTL DEF Spec

(***************************************************************************)
(* The tree.                                                               *)
(***************************************************************************)
ASequence(s) == \E S : s \in Seq(S)

\* f is what a client makes of the leaf and the siblings b.
IsClimb(f, leaf, at, b) ==
    f = [i \in 0..Len(b) |->
           IF i = 0 THEN leaf
           ELSE IF (at \div 2^(i - 1)) % 2 = 0
                THEN Pair(f[i - 1], b[i])
                ELSE Pair(b[i], f[i - 1])]

(* The layers are those of a tree, and every climb along the branch so far  *)
(* reaches the node of the layer.                                           *)
Reached ==
    script = "tree" =>
        /\ ASequence(layer) /\ ASequence(branch)
        /\ start \in Nat /\ index = start \div 2^Len(branch)
        /\ index + 1 \in 1..Len(layer)
        /\ \E f : IsClimb(f, leaves[start + 1], start, branch)
        /\ \A f : IsClimb(f, leaves[start + 1], start, branch) =>
                     f[Len(branch)] = layer[index + 1]

LEMMA Appended ==
    ASSUME NEW s, ASequence(s), NEW x
    PROVE  /\ ASequence(Append(s, x)) /\ Len(s) \in Nat
           /\ Len(Append(s, x)) = Len(s) + 1
           /\ \A i \in 1..Len(s) : Append(s, x)[i] = s[i]
           /\ Append(s, x)[Len(s) + 1] = x
<1>1. PICK S : s \in Seq(S)
  BY DEF ASequence
<1> DEFINE T == S \cup {x}
<1>2. s \in Seq(T) /\ x \in T
  BY <1>1
<1> HIDE DEF T
<1>3. Append(s, x) \in Seq(T)
  BY <1>2
<1>4. /\ Len(s) \in Nat /\ Len(Append(s, x)) = Len(s) + 1
      /\ \A i \in 1..Len(s) : Append(s, x)[i] = s[i]
      /\ Append(s, x)[Len(s) + 1] = x
  BY <1>2
<1>5. QED
  BY <1>3, <1>4 DEF ASequence

LEMMA FunctionIsSequence ==
    ASSUME NEW k \in Nat, NEW s, s = [i \in 1..k |-> s[i]]
    PROVE  ASequence(s) /\ Len(s) = k /\ DOMAIN s = 1..k
<1> DEFINE S == {s[i] : i \in 1..k}
<1>1. s \in [1..k -> S]
  OBVIOUS
<1> HIDE DEF S
<1>2. s \in Seq(S) /\ Len(s) = k /\ DOMAIN s = 1..k
  BY <1>1
<1>3. QED
  BY <1>2 DEF ASequence

(* A layer of an odd number of nodes is one longer when it is padded, and   *)
(* the nodes stay where they are.                                           *)
LEMMA PaddedIsEven ==
    ASSUME ASequence(layer)
    PROVE  \E k \in Nat :
              /\ Len(Padded) = 2 * k /\ Len(layer) <= 2 * k
              /\ \A i \in 1..Len(layer) : Padded[i] = layer[i]
<1>1. Len(layer) \in Nat
  BY Appended
<1> DEFINE n == Len(layer)
<1>2. CASE n % 2 = 1
  <2>1. Padded = Append(layer, Last(layer))
    BY <1>2 DEF Padded
  <2>2. Len(Padded) = n + 1 /\ \A i \in 1..n : Padded[i] = layer[i]
    BY <2>1, Appended
  <2> DEFINE k == (n + 1) \div 2
  <2> HIDE DEF n
  <2>3. n \in Nat
    BY <1>1 DEF n
  <2>4. k \in Nat /\ n + 1 = 2 * k /\ n <= 2 * k
    BY <1>2, <2>3
  <2> HIDE DEF k
  <2>5. QED
    BY <2>2, <2>4 DEF n
<1>3. CASE n % 2 # 1
  <2>1. Padded = layer
    BY <1>3 DEF Padded
  <2> DEFINE k == n \div 2
  <2> HIDE DEF n
  <2>3. n \in Nat
    BY <1>1 DEF n
  <2>4. k \in Nat /\ n = 2 * k /\ n <= 2 * k
    BY <1>3, <2>3
  <2> HIDE DEF k
  <2>5. QED
    BY <2>1, <2>4 DEF n
<1>4. QED
  BY <1>2, <1>3

(* A climb along a longer branch is one more step of a climb along the      *)
(* shorter one.                                                             *)
LEMMA OneStepMore ==
    ASSUME NEW b, ASequence(b), NEW x, NEW leaf, NEW at
    PROVE  LET step(y) == IF (at \div 2^Len(b)) % 2 = 0 THEN Pair(y, x) ELSE Pair(x, y)
               c == Append(b, x)
           IN /\ \A f : IsClimb(f, leaf, at, b) => \E g : IsClimb(g, leaf, at, c)
              /\ \A g : IsClimb(g, leaf, at, c) =>
                    \E f : IsClimb(f, leaf, at, b) /\ g[Len(c)] = step(f[Len(b)])
<1> DEFINE n == Len(b)
           c == Append(b, x)
           step(y) == IF (at \div 2^n) % 2 = 0 THEN Pair(y, x) ELSE Pair(x, y)
<1>1. n \in Nat /\ Len(c) = n + 1 /\ c[n + 1] = x /\ \A i \in 1..n : c[i] = b[i]
  BY Appended
<1> HIDE DEF n, c
<1> DEFINE Next1(f, s, i) ==
             IF i = 0 THEN leaf
             ELSE IF (at \div 2^(i - 1)) % 2 = 0 THEN Pair(f[i - 1], s[i])
                  ELSE Pair(s[i], f[i - 1])
<1>2. \A f : /\ IsClimb(f, leaf, at, b) <=> f = [i \in 0..n |-> Next1(f, b, i)]
             /\ IsClimb(f, leaf, at, c) <=> f = [i \in 0..(n + 1) |-> Next1(f, c, i)]
  BY <1>1 DEF IsClimb, n
<1>3. ASSUME NEW f, IsClimb(f, leaf, at, b) PROVE \E g : IsClimb(g, leaf, at, c)
  <2>1. f = [i \in 0..n |-> Next1(f, b, i)]
    BY <1>2, <1>3
  <2> DEFINE g == [i \in 0..(n + 1) |-> IF i = n + 1 THEN step(f[n]) ELSE f[i]]
  <2>2. \A i \in 0..(n + 1) : g[i] = Next1(g, c, i)
    <3> SUFFICES ASSUME NEW i \in 0..(n + 1) PROVE g[i] = Next1(g, c, i)
      OBVIOUS
    <3>1. CASE i = n + 1
      <4>1. g[n + 1] = step(f[n]) /\ g[n] = f[n] /\ (n + 1) - 1 = n /\ n + 1 # 0
        BY <1>1
      <4> HIDE DEF g
      <4>2. QED
        BY <1>1, <3>1, <4>1
    <3>2. CASE i \in 1..n
      <4>1. g[i] = f[i] /\ g[i - 1] = f[i - 1] /\ i # 0 /\ i \in 0..n
        BY <1>1, <3>2
      <4>2. f[i] = Next1(f, b, i)
        BY <2>1, <4>1
      <4>3. c[i] = b[i]
        BY <1>1, <3>2
      <4> HIDE DEF g
      <4>4. QED
        BY <4>1, <4>2, <4>3
    <3>3. CASE i = 0
      <4>1. g[0] = f[0] /\ 0 \in 0..n
        BY <1>1
      <4>2. f[0] = leaf
        BY <2>1, <4>1
      <4> HIDE DEF g
      <4>3. QED
        BY <3>3, <4>1, <4>2
    <3>4. QED
      BY <1>1, <3>1, <3>2, <3>3
  <2>3. g = [i \in 0..(n + 1) |-> g[i]]
    OBVIOUS
  <2> HIDE DEF g
  <2>4. g = [i \in 0..(n + 1) |-> Next1(g, c, i)]
    BY <2>2, <2>3
  <2> HIDE DEF Next1
  <2>5. IsClimb(g, leaf, at, c)
    BY <1>2, <2>4
  <2>6. QED
    BY <2>5
<1>4. ASSUME NEW g, IsClimb(g, leaf, at, c)
      PROVE  \E f : IsClimb(f, leaf, at, b) /\ g[Len(c)] = step(f[Len(b)])
  <2>1. g = [i \in 0..(n + 1) |-> Next1(g, c, i)]
    BY <1>2, <1>4
  <2> DEFINE f == [i \in 0..n |-> g[i]]
  <2>2. \A i \in 0..n : f[i] = Next1(f, b, i)
    <3> SUFFICES ASSUME NEW i \in 0..n PROVE f[i] = Next1(f, b, i)
      OBVIOUS
    <3>1. f[i] = g[i] /\ i \in 0..(n + 1)
      BY <1>1
    <3>2. g[i] = Next1(g, c, i)
      BY <2>1, <3>1
    <3>3. CASE i # 0
      <4>1. f[i - 1] = g[i - 1] /\ c[i] = b[i]
        BY <1>1, <3>3
      <4> HIDE DEF f
      <4>2. QED
        BY <3>1, <3>2, <3>3, <4>1
    <3>4. CASE i = 0
      BY <3>1, <3>2, <3>4
    <3>5. QED
      BY <3>3, <3>4
  <2>3. f = [i \in 0..n |-> f[i]] /\ f[n] = g[n]
    BY <1>1
  <2> HIDE DEF f
  <2>4. f = [i \in 0..n |-> Next1(f, b, i)]
    BY <2>2, <2>3
  <2>5. g[n + 1] = step(f[n])
    <3>1. n + 1 \in 0..(n + 1) /\ (n + 1) - 1 = n /\ n + 1 # 0
      BY <1>1
    <3>2. g[n + 1] = Next1(g, c, n + 1)
      BY <2>1, <3>1
    <3>3. QED
      BY <1>1, <2>3, <3>1, <3>2
  <2> HIDE DEF Next1
  <2>6. IsClimb(f, leaf, at, b)
    BY <1>2, <2>4
  <2> HIDE DEF step
  <2>7. g[Len(c)] = step(f[Len(b)])
    BY <1>1, <2>5 DEF n
  <2>8. QED
    BY <2>6, <2>7
<1>5. QED
  BY <1>3, <1>4 DEF c, n

LEMMA ClimbReaches ==
    ASSUME Reached, Climb
    PROVE  Reached'
<1>1. /\ script = "tree" /\ Len(layer) > 1 /\ script' = script
      /\ branch' = Append(branch, Padded[Sibling(index) + 1])
      /\ layer' = [i \in 1..(Len(Padded) \div 2) |-> Pair(Padded[2 * i - 1], Padded[2 * i])]
      /\ index' = index \div 2 /\ leaves' = leaves /\ start' = start
  BY DEF Climb
<1>2. /\ ASequence(layer) /\ ASequence(branch)
      /\ start \in Nat /\ index = start \div 2^Len(branch)
      /\ index + 1 \in 1..Len(layer)
      /\ \E f : IsClimb(f, leaves[start + 1], start, branch)
      /\ \A f : IsClimb(f, leaves[start + 1], start, branch) =>
                   f[Len(branch)] = layer[index + 1]
  BY <1>1 DEF Reached
<1> DEFINE x == Padded[Sibling(index) + 1]
<1>3. /\ Len(branch) \in Nat /\ ASequence(branch') /\ Len(branch') = Len(branch) + 1
      /\ Len(layer) \in Nat
  <2>1. branch' = Append(branch, x)
    BY <1>1
  <2> HIDE DEF x
  <2>2. QED
    BY <1>2, <2>1, Appended
<1>4. PICK k \in Nat : /\ Len(Padded) = 2 * k /\ Len(layer) <= 2 * k
                       /\ \A i \in 1..Len(layer) : Padded[i] = layer[i]
  BY <1>2, PaddedIsEven
<1>5. layer' = [i \in 1..k |-> Pair(Padded[2 * i - 1], Padded[2 * i])]
  <2>1. (2 * k) \div 2 = k
    OBVIOUS
  <2>2. QED
    BY <1>1, <1>4, <2>1
<1>6. ASequence(layer') /\ Len(layer') = k
  <2>1. layer' = [i \in 1..k |-> layer'[i]]
    BY <1>5
  <2>2. QED
    BY <2>1, FunctionIsSequence
<1>7. index \in Nat
  <2>1. 2^Len(branch) \in Nat /\ 2^Len(branch) > 0
    BY <1>3, PowerOfTwo, PowerOfSum
  <2> DEFINE d == 2^Len(branch)
  <2> HIDE DEF d
  <2>2. d \in Nat \ {0} /\ index = start \div d
    BY <1>2, <2>1 DEF d
  <2>3. QED
    BY <1>2, <2>2
<1>8. index' = start \div 2^Len(branch')
  <2> DEFINE d == 2^Len(branch)
  <2>1. d \in Nat /\ d > 0 /\ 2^(Len(branch) + 1) = 2 * d
    BY <1>3, PowerOfTwo, PowerOfSum
  <2>2. 2^Len(branch') = 2 * d
    BY <1>3, <2>1
  <2>3. index = start \div d
    BY <1>2
  <2> HIDE DEF d
  <2>4. start \div (2 * d) = (start \div d) \div 2
    BY <1>2, <2>1, HalfOfQuotient
  <2>5. QED
    BY <1>1, <2>2, <2>3, <2>4
<1> DEFINE j == index \div 2
           c == index % 2
<1>9. j \in Nat /\ c \in 0..1 /\ index = 2 * j + c /\ j + 1 \in 1..k /\ index + 1 \in 1..Len(layer)
  <2>1. j \in Nat /\ c \in 0..1 /\ index = 2 * j + c
    BY <1>7
  <2> HIDE DEF j, c
  <2>2. j + 1 <= k
    BY <1>2, <1>3, <1>4, <2>1
  <2>3. QED
    BY <1>2, <2>1, <2>2
<1>10. layer'[j + 1] = Pair(Padded[2 * j + 1], Padded[2 * j + 2])
  <2> HIDE DEF j, c
  <2>1. 2 * (j + 1) - 1 = 2 * j + 1 /\ 2 * (j + 1) = 2 * j + 2
    BY <1>9
  <2>2. QED
    BY <1>5, <1>9, <2>1
<1>11. layer'[j + 1] = IF index % 2 = 0 THEN Pair(layer[index + 1], x) ELSE Pair(x, layer[index + 1])
  <2>1. Padded[index + 1] = layer[index + 1]
    BY <1>4, <1>9
  <2>2. CASE index % 2 = 0
    <3>1. 2 * j + 1 = index + 1 /\ 2 * j + 2 = Sibling(index) + 1
      <4>1. index = 2 * j /\ Sibling(index) = index + 1
        BY <1>9, <2>2 DEF Sibling
      <4> HIDE DEF j, c
      <4>2. QED
        BY <1>7, <1>9, <4>1
    <3>2. QED
      BY <1>10, <2>1, <2>2, <3>1
  <2>3. CASE index % 2 # 0
    <3>1. 2 * j + 2 = index + 1 /\ 2 * j + 1 = Sibling(index) + 1
      <4>1. index = 2 * j + 1 /\ Sibling(index) = index - 1
        BY <1>9, <2>3 DEF Sibling
      <4> HIDE DEF j, c
      <4>2. QED
        BY <1>7, <1>9, <4>1
    <3>2. QED
      BY <1>10, <2>1, <2>3, <3>1
  <2>4. QED
    BY <2>2, <2>3
<1>12. \E f : IsClimb(f, leaves[start + 1], start, branch')
  <2>1. branch' = Append(branch, x)
    BY <1>1
  <2> HIDE DEF x
  <2>2. QED
    BY <1>2, <2>1, OneStepMore
<1>13. ASSUME NEW g, IsClimb(g, leaves[start + 1], start, branch')
       PROVE  g[Len(branch')] = layer'[index' + 1]
  <2>1. branch' = Append(branch, x)
    BY <1>1
  <2>2. PICK f : /\ IsClimb(f, leaves[start + 1], start, branch)
                 /\ g[Len(branch')] = IF (start \div 2^Len(branch)) % 2 = 0
                                      THEN Pair(f[Len(branch)], x)
                                      ELSE Pair(x, f[Len(branch)])
    <3> HIDE DEF x
    <3>1. QED
      BY <1>2, <1>13, <2>1, OneStepMore
  <2>3. f[Len(branch)] = layer[index + 1]
    BY <1>2, <2>2
  <2>4. index' + 1 = j + 1 /\ (start \div 2^Len(branch)) % 2 = index % 2
    BY <1>1, <1>2
  <2>5. g[Len(branch')] = IF index % 2 = 0 THEN Pair(layer[index + 1], x)
                          ELSE Pair(x, layer[index + 1])
    <3> HIDE DEF x
    <3>1. QED
      BY <2>2, <2>3, <2>4
  <2> HIDE DEF x, j
  <2>6. QED
    BY <1>11, <2>4, <2>5
<1>14. index' + 1 \in 1..Len(layer')
  <2>1. index' = j
    BY <1>1
  <2> HIDE DEF j
  <2>2. QED
    BY <1>6, <1>9, <2>1
<1>15. QED
  BY <1>1, <1>2, <1>3, <1>6, <1>8, <1>12, <1>13, <1>14 DEF Reached

(* A branch proves its leaf: a client that climbs along it, left or right   *)
(* as the bits of the index say, gets the node of the layer, and the root   *)
(* in the end, for every number of leaves, even or odd in any layer.        *)
THEOREM BranchIsProof == Spec => []BranchProves
<1>1. Init => Reached
  <2> SUFFICES ASSUME Init, script = "tree" PROVE Reached
    BY DEF Reached
  <2>1. PICK n \in 1..MaxLeaves : leaves = [i \in 1..n |-> <<i>>] /\ start \in 0..(n - 1)
    BY DEF Init
  <2>2. branch = <<>> /\ layer = leaves /\ index = start
    BY DEF Init
  <2>3. ASequence(layer) /\ Len(layer) = n
    <3>1. leaves = [i \in 1..n |-> leaves[i]] /\ n \in Nat
      BY <2>1, HeaderAssumption
    <3>2. QED
      BY <2>2, <3>1, FunctionIsSequence
  <2>4. ASequence(branch) /\ Len(branch) = 0
    <3>1. <<>> \in Seq({}) /\ Len(<<>>) = 0
      OBVIOUS
    <3>2. QED
      BY <2>2, <3>1 DEF ASequence
  <2>5. start \in Nat /\ start + 1 \in 1..n
    BY <2>1, HeaderAssumption
  <2>6. index = start \div 2^0
    <3>1. start \div 1 = start
      BY <2>5
    <3>2. QED
      BY <2>2, <3>1, Once
  <2> DEFINE leaf == leaves[start + 1]
             f == [i \in 0..0 |-> leaf]
  <2>7. \A g : IsClimb(g, leaf, start, branch) <=> g = f
    BY <2>4 DEF IsClimb
  <2>8. f[0] = layer[index + 1]
    BY <2>2
  <2> HIDE DEF f
  <2>9. QED
    BY <2>2, <2>3, <2>4, <2>5, <2>6, <2>7, <2>8 DEF Reached
<1>2. Reached /\ [Next]_vars => Reached'
  <2> SUFFICES ASSUME Reached, [Next]_vars PROVE Reached'
    OBVIOUS
  <2>1. CASE Live
    BY <2>1 DEF Live, Reached
  <2>2. CASE Climb
    BY <2>2, ClimbReaches
  <2>3. CASE UNCHANGED vars
    BY <2>3 DEF vars, Reached
  <2>4. QED
    BY <2>1, <2>2, <2>3 DEF Next
<1>3. Reached => BranchProves
  <2> SUFFICES ASSUME Reached, script = "tree"
               PROVE  index + 1 \in DOMAIN layer /\ Climbed = layer[index + 1]
    BY DEF BranchProves
  <2> DEFINE after == CHOOSE f : IsClimb(f, leaves[start + 1], start, branch)
  <2>1. IsClimb(after, leaves[start + 1], start, branch)
    BY DEF Reached
  <2>2. Climbed = after[Len(branch)]
    BY DEF Climbed, IsClimb
  <2> HIDE DEF after
  <2>3. Climbed = layer[index + 1]
    BY <2>1, <2>2 DEF Reached
  <2>4. DOMAIN layer = 1..Len(layer)
    BY DEF Reached, ASequence
  <2>5. QED
    BY <2>3, <2>4 DEF Reached
<1>4. QED
  BY <1>1, <1>2, <1>3, PTL DEF Spec
=============================================================================
