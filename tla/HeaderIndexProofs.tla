-------------------------- MODULE HeaderIndexProofs --------------------------
(***************************************************************************)
(* The safety properties of HeaderIndex, for any block tree, any branches, *)
(* any batch and reply sizes, and any number of crashes and failed passes. *)
(***************************************************************************)
EXTENDS HeaderIndex, TLAPS

(***************************************************************************)
(* The inductive invariant.                                                *)
(***************************************************************************)
Rooted == rows \cup {Genesis}

\* What makes the database one that can be resumed from: with a block it has
\* the block's parent, and the tip is a block it has.
Resumable ==
    /\ Genesis \notin rows
    /\ \A b \in rows : Parent[b] \in Rooted
    /\ storedTip \in rows \cup {NoTip}

\* The part of the chain found so far hangs on the block looked for.
LoadedSoFar ==
    proc = "loading" =>
        /\ cursor \in Rooted
        /\ \A i \in 1..Len(chain) : chain[i] \in rows
        /\ \A i \in 2..Len(chain) : Parent[chain[i]] = chain[i - 1]
        /\ Len(chain) >= 1 => Parent[chain[1]] = cursor

\* The new headers hang on the chain, and those of the batches written are in
\* the database.
PassOnChain ==
    /\ pending # <<>> =>
          /\ proc = "up" /\ base \in 1..Len(chain)
          /\ Genesis \notin {pending[i] : i \in 1..Len(pending)}
          /\ Parent[pending[1]] = chain[base]
          /\ \A i \in 2..Len(pending) : Parent[pending[i]] = pending[i - 1]
          /\ \A i \in 1..BatchEnd(written) : pending[i] \in rows
    /\ pending = <<>> => read = 0 /\ written = 0 /\ reader = "reading"

IInv ==
    /\ TypeOK /\ NeverPanics /\ ChainIsIndexed /\ ChainIsLinked
    /\ Resumable /\ LoadedSoFar /\ PassOnChain

-----------------------------------------------------------------------------
(* The batches of a pass cut its headers without a gap.                     *)
LEMMA Batches ==
    ASSUME TypeOK, NEW k \in Nat
    PROVE  /\ BatchEnd(k) \in 0..Len(pending)
           /\ BatchEnd(k) <= BatchEnd(k + 1)
           /\ BatchEnd(0) = 0
           /\ pending # <<>> => BatchEnd(k + 1) >= 1
<1> DEFINE now == k * BatchSize
           next == (k + 1) * BatchSize
<1>1. now \in Nat /\ next \in Nat /\ now <= next /\ 1 <= next /\ 0 * BatchSize = 0
  BY IndexAssumption
<1>2. /\ BatchEnd(k) = Smaller(now, Len(pending))
      /\ BatchEnd(k + 1) = Smaller(next, Len(pending))
      /\ BatchEnd(0) = Smaller(0, Len(pending))
  BY <1>1 DEF BatchEnd
<1> HIDE DEF now, next
<1>3. Len(pending) \in Nat /\ (pending # <<>> => Len(pending) >= 1)
  BY DEF TypeOK
<1>4. QED
  BY <1>1, <1>2, <1>3 DEF Smaller

(* A prefix of one sequence followed by another, element by element.        *)
LEMMA ReplacedElements ==
    ASSUME NEW s \in Seq(Blocks), NEW t \in Seq(Blocks), NEW n \in 0..Len(s)
    PROVE  /\ Replaced(s, n, t) \in Seq(Blocks)
           /\ Len(Replaced(s, n, t)) = n + Len(t)
           /\ \A i \in 1..n : Replaced(s, n, t)[i] = s[i]
           /\ \A i \in (n + 1)..(n + Len(t)) : Replaced(s, n, t)[i] = t[i - n]
<1>1. /\ SubSeq(s, 1, n) \in Seq(Blocks) /\ Len(SubSeq(s, 1, n)) = n
      /\ \A i \in 1..n : SubSeq(s, 1, n)[i] = s[i]
  OBVIOUS
<1>2. QED
  BY <1>1 DEF Replaced

(* The headers of an answer, element by element.                            *)
LEMMA AnswerElements ==
    ASSUME NEW s \in Seq(Blocks), NEW n \in 1..Len(s), NEW m \in (n + 1)..Len(s)
    PROVE  /\ SubSeq(s, n + 1, m) \in Seq(Blocks)
           /\ Len(SubSeq(s, n + 1, m)) = m - n
           /\ \A i \in 1..(m - n) : SubSeq(s, n + 1, m)[i] = s[n + i]
<1>1. n + 1 \in 1..(Len(s) + 1) /\ m \in n..Len(s)
  OBVIOUS
<1>2. QED
  BY <1>1

(* Dropping the last headers leaves a prefix with genesis in it.            *)
LEMMA DropLastElements ==
    ASSUME NEW s \in Seq(Blocks), Len(s) >= 1, NEW n \in Nat
    PROVE  /\ DropLast(s, n) \in Seq(Blocks)
           /\ Len(DropLast(s, n)) \in 1..Len(s)
           /\ \A i \in 1..Len(DropLast(s, n)) : DropLast(s, n)[i] = s[i]
<1>1. ASSUME NEW k \in 1..Len(s)
      PROVE  /\ SubSeq(s, 1, k) \in Seq(Blocks) /\ Len(SubSeq(s, 1, k)) = k
             /\ \A i \in 1..k : SubSeq(s, 1, k)[i] = s[i]
  OBVIOUS
<1>2. (IF n < Len(s) THEN Len(s) - n ELSE 1) \in 1..Len(s)
  OBVIOUS
<1>3. QED
  BY <1>1, <1>2 DEF DropLast

(* A block in front of a sequence, element by element.                      *)
LEMMA PrependedElements ==
    ASSUME NEW b \in Blocks, NEW s \in Seq(Blocks)
    PROVE  /\ <<b>> \o s \in Seq(Blocks)
           /\ Len(<<b>> \o s) = Len(s) + 1
           /\ (<<b>> \o s)[1] = b
           /\ \A i \in 2..(Len(s) + 1) : (<<b>> \o s)[i] = s[i - 1]
OBVIOUS

-----------------------------------------------------------------------------
(* Both lengths a header may have are lengths the scan keeps, and the tip   *)
(* row, which shares the column family, has neither.                        *)
LEMMA ScanIsComplete == rows \subseteq Blocks => IteratedRows = rows
<1> SUFFICES ASSUME rows \subseteq Blocks PROVE IteratedRows = rows
  OBVIOUS
<1>1. TipKey \notin rows
  BY IndexAssumption
<1>2. KeySize(TipKey) \notin {80, 164}
  BY DEF KeySize
<1>3. \A k \in rows : KeySize(k) \in {80, 164}
  BY <1>1 DEF KeySize
<1>4. rows \subseteq HeaderKeys /\ HeaderKeys \subseteq rows \cup {TipKey}
  BY DEF HeaderKeys
<1>5. QED
  BY <1>1, <1>2, <1>3, <1>4 DEF IteratedRows

LEMMA LoadHeaderPreserves == IInv /\ LoadHeader => IInv'
<1> SUFFICES ASSUME IInv, LoadHeader PROVE IInv'
  OBVIOUS
<1> USE DEF IInv, TypeOK
<1>1. cursor \in rows /\ cursor \in Blocks
  BY DEF LoadHeader, LoadedSoFar, Rooted
<1>2. /\ proc = "loading" /\ proc' = "loading"
      /\ chain' = <<cursor>> \o chain /\ cursor' = Parent[cursor]
      /\ UNCHANGED <<active, database, pass, failures>>
  BY <1>1, ScanIsComplete DEF LoadHeader
<1>3. Parent[cursor] \in Rooted /\ Rooted \subseteq Blocks
  BY <1>1, IndexAssumption DEF Resumable, Rooted
<1>4. /\ chain' \in Seq(Blocks) /\ Len(chain') = Len(chain) + 1
      /\ chain'[1] = cursor
      /\ \A i \in 2..(Len(chain) + 1) : chain'[i] = chain[i - 1]
  BY <1>1, <1>2, PrependedElements
<1>5. TypeOK'
  BY <1>2, <1>3, <1>4 DEF database, pass
<1>6. NeverPanics' /\ ChainIsIndexed' /\ ChainIsLinked'
  BY <1>2 DEF NeverPanics, ChainIsIndexed, ChainIsLinked
<1>7. Resumable'
  BY <1>2 DEF Resumable, Rooted, database
<1>8. LoadedSoFar'
  <2>1. rows' = rows /\ Rooted' = Rooted /\ cursor' \in Rooted
    BY <1>2, <1>3 DEF database, Rooted
  <2>2. \A i \in 1..Len(chain') : chain'[i] \in rows
    BY <1>1, <1>2, <1>4 DEF LoadedSoFar
  <2>3. ASSUME NEW i \in 2..Len(chain') PROVE Parent[chain'[i]] = chain'[i - 1]
    <3>1. CASE i = 2
      BY <1>2, <1>4, <3>1 DEF LoadedSoFar
    <3>2. CASE i > 2
      <4>1. i - 1 \in 2..Len(chain)
        BY <1>4, <3>2
      <4>2. chain'[i] = chain[i - 1] /\ chain'[i - 1] = chain[(i - 1) - 1]
        BY <1>4, <4>1
      <4>3. QED
        BY <1>2, <4>1, <4>2 DEF LoadedSoFar
    <3>3. QED
      BY <3>1, <3>2
  <2>4. Parent[chain'[1]] = cursor'
    BY <1>2, <1>4
  <2>5. QED
    BY <2>1, <2>2, <2>3, <2>4 DEF LoadedSoFar
<1>9. PassOnChain'
  BY <1>2 DEF PassOnChain, pass
<1>10. QED
  BY <1>5, <1>6, <1>7, <1>8, <1>9

LEMMA LoadedPreserves == IInv /\ Loaded => IInv'
<1> SUFFICES ASSUME IInv, Loaded PROVE IInv'
  OBVIOUS
<1> USE DEF IInv, TypeOK
<1> DEFINE full == <<Genesis>> \o chain
<1>1. /\ proc = "loading" /\ cursor = Genesis /\ proc' = "up"
      /\ chain' = DropLast(full, ReindexLast)
      /\ UNCHANGED <<active, database, cursor, pass, failures>>
  BY DEF Loaded
<1>2. /\ full \in Seq(Blocks) /\ Len(full) = Len(chain) + 1 /\ full[1] = Genesis
      /\ \A i \in 2..(Len(chain) + 1) : full[i] = chain[i - 1]
  BY PrependedElements, IndexAssumption
<1>3. ASSUME NEW i \in 2..Len(full)
      PROVE  full[i] \in rows /\ Parent[full[i]] = full[i - 1]
  <2>1. full[i] = chain[i - 1] /\ i - 1 \in 1..Len(chain)
    BY <1>2
  <2>2. CASE i = 2
    BY <1>1, <1>2, <2>1, <2>2 DEF LoadedSoFar
  <2>3. CASE i > 2
    <3>1. i - 1 \in 2..Len(chain) /\ full[i - 1] = chain[(i - 1) - 1]
      BY <1>2, <2>3
    <3>2. QED
      BY <1>1, <2>1, <3>1 DEF LoadedSoFar
  <2>4. QED
    BY <2>2, <2>3
<1> HIDE DEF full
<1>4. /\ chain' \in Seq(Blocks) /\ Len(chain') \in 1..Len(full)
      /\ \A i \in 1..Len(chain') : chain'[i] = full[i]
  BY <1>1, <1>2, DropLastElements, IndexAssumption
<1>5. TypeOK'
  BY <1>1, <1>4 DEF database, pass
<1>6. ASSUME NEW i \in 2..Len(chain')
      PROVE  /\ chain'[i] \in rows /\ chain'[i] # Genesis
             /\ Parent[chain'[i]] = chain'[i - 1]
  <2>1. /\ i \in 2..Len(full)
        /\ chain'[i] = full[i] /\ chain'[i - 1] = full[i - 1]
    BY <1>2, <1>4
  <2>2. QED
    BY <1>3, <2>1 DEF Resumable
<1>7. NeverPanics' /\ ChainIsIndexed' /\ ChainIsLinked'
  BY <1>1, <1>2, <1>4, <1>6
     DEF NeverPanics, ChainIsIndexed, ChainIsLinked, database
<1>8. Resumable' /\ LoadedSoFar'
  BY <1>1 DEF Resumable, Rooted, LoadedSoFar, database
<1>9. PassOnChain'
  BY <1>1 DEF PassOnChain, pass
<1>10. QED
  BY <1>5, <1>7, <1>8, <1>9

LEMMA GetNewHeadersPreserves == IInv /\ GetNewHeaders => IInv'
<1> SUFFICES ASSUME IInv, GetNewHeaders PROVE IInv'
  OBVIOUS
<1> USE DEF IInv, TypeOK
<1>1. PICK n \in 1..Len(active) :
          /\ CommonTo(n) /\ Len(active) > n
          /\ pending' = SubSeq(active, n + 1, Smaller(Len(active), n + MaxReply))
          /\ base' = n
  BY DEF GetNewHeaders
<1>2. /\ proc = "up" /\ pending = <<>>
      /\ UNCHANGED <<active, database, proc, cursor, chain, read, written, reader, failures>>
  BY DEF GetNewHeaders
<1>3. /\ active \in Seq(Blocks) /\ active[1] = Genesis
      /\ \A i \in 2..Len(active) : active[i] # Genesis /\ Parent[active[i]] = active[i - 1]
  BY IndexAssumption
<1>4. n \in 1..Len(chain) /\ chain[n] = active[n]
  BY <1>1, <1>3 DEF CommonTo, Smaller
<1> DEFINE m == Smaller(Len(active), n + MaxReply)
<1>5. m \in (n + 1)..Len(active)
  BY <1>1, <1>3, IndexAssumption DEF Smaller
<1> HIDE DEF m
<1>6. pending' = SubSeq(active, n + 1, m)
  BY <1>1 DEF m
<1>7. /\ pending' \in Seq(Blocks) /\ Len(pending') = m - n
      /\ \A i \in 1..(m - n) : pending'[i] = active[n + i]
  BY <1>3, <1>5, <1>6, AnswerElements
<1>8. \A i \in 1..Len(pending') : /\ n + i \in 2..Len(active)
                                    /\ pending'[i] = active[n + i]
                                    /\ pending'[i] # Genesis
  <2> TAKE i \in 1..Len(pending')
  <2>1. n + i \in 2..Len(active) /\ i \in 1..(m - n)
    BY <1>3, <1>5, <1>7
  <2>2. QED
    BY <1>3, <1>7, <2>1
<1>9. ASSUME NEW i \in 2..Len(pending') PROVE Parent[pending'[i]] = pending'[i - 1]
  <2>1. i \in 1..Len(pending') /\ i - 1 \in 1..Len(pending')
    <3>1. Len(pending') \in Nat
      BY <1>7
    <3>2. QED
      BY <3>1
  <2>2. /\ n + i \in 2..Len(active) /\ (n + i) - 1 = n + (i - 1)
        /\ pending'[i] = active[n + i] /\ pending'[i - 1] = active[n + (i - 1)]
    <3>1. (n + i) - 1 = n + (i - 1)
      OBVIOUS
    <3>2. n + i \in 2..Len(active) /\ pending'[i] = active[n + i]
      BY <1>8, <2>1
    <3>3. pending'[i - 1] = active[n + (i - 1)]
      BY <1>8, <2>1
    <3>4. QED
      BY <3>1, <3>2, <3>3
  <2>3. QED
    BY <1>3, <2>2
<1>10. TypeOK'
  BY <1>1, <1>2, <1>7 DEF database
<1>11. NeverPanics' /\ ChainIsIndexed' /\ ChainIsLinked' /\ Resumable' /\ LoadedSoFar'
  BY <1>2 DEF NeverPanics, ChainIsIndexed, ChainIsLinked, Resumable, Rooted,
              LoadedSoFar, database
<1>12. PassOnChain'
  <2>1. written' = 0 /\ BatchEnd(written)' = 0
    <3>1. written' = 0 /\ 0 * BatchSize = 0 /\ Len(pending') \in Nat
      BY <1>2, <1>7, IndexAssumption DEF PassOnChain
    <3>2. QED
      BY <3>1 DEF BatchEnd, Smaller
  <2>2. pending' # <<>> /\ 1 \in 1..Len(pending')
    BY <1>5, <1>7
  <2>3. Parent[pending'[1]] = chain[n]
    <3>1. n + 1 \in 2..Len(active) /\ (n + 1) - 1 = n /\ pending'[1] = active[n + 1]
      BY <1>8, <2>2
    <3>2. QED
      BY <1>3, <1>4, <3>1
  <2>4. Genesis \notin {pending'[i] : i \in 1..Len(pending')}
    BY <1>8
  <2>5. \A i \in 1..BatchEnd(written)' : pending'[i] \in rows'
    BY <2>1
  <2>6. proc' = "up" /\ base' = n /\ chain' = chain
    BY <1>1, <1>2
  <2>7. QED
    BY <1>4, <1>9, <2>2, <2>3, <2>4, <2>5, <2>6 DEF PassOnChain
<1>13. QED
  BY <1>10, <1>11, <1>12

LEMMA WriteBatchPreserves == IInv /\ WriteBatch => IInv'
<1> SUFFICES ASSUME IInv, WriteBatch PROVE IInv'
  OBVIOUS
<1> USE DEF IInv, TypeOK
<1> DEFINE from == BatchEnd(written)
           to == BatchEnd(written + 1)
<1>1. /\ proc = "up" /\ written < read
      /\ rows' = rows \cup {pending[i] : i \in (from + 1)..to}
      /\ storedTip' = pending[to]
      /\ written' = written + 1
      /\ UNCHANGED <<active, proc, cursor, chain, pending, base, read, reader, failures>>
  BY DEF WriteBatch
<1>2. pending # <<>>
  BY <1>1 DEF PassOnChain
<1>3. from \in 0..Len(pending) /\ to \in 1..Len(pending) /\ from <= to
  <2>1. written \in Nat /\ written + 1 \in Nat
    BY <1>1
  <2>2. /\ BatchEnd(written) \in 0..Len(pending)
        /\ BatchEnd(written + 1) \in 0..Len(pending)
        /\ BatchEnd(written) <= BatchEnd(written + 1)
        /\ BatchEnd(written + 1) >= 1
    BY <1>2, <2>1, Batches
  <2>3. QED
    BY <2>2
<1>4. BatchEnd(written)' = to
  BY <1>1 DEF BatchEnd
<1> HIDE DEF from, to
<1>5. \A i \in 1..from : pending[i] \in rows
  BY <1>2 DEF PassOnChain, from
<1>6. \A i \in 1..to : pending[i] \in rows'
  <2> TAKE i \in 1..to
  <2>1. CASE i \in 1..from
    BY <1>1, <1>5, <2>1
  <2>2. CASE i \in (from + 1)..to
    BY <1>1, <2>2
  <2>3. QED
    BY <1>3, <2>1, <2>2
<1>7. \A i \in 1..Len(pending) : pending[i] \in Blocks /\ pending[i] # Genesis
  BY <1>2 DEF PassOnChain
<1>8. rows \subseteq rows' /\ rows' \subseteq Blocks /\ Genesis \notin rows'
  BY <1>1, <1>3, <1>7 DEF Resumable
<1>9. TypeOK'
  BY <1>1, <1>3, <1>7, <1>8
<1>10. NeverPanics' /\ ChainIsIndexed' /\ ChainIsLinked' /\ LoadedSoFar'
  BY <1>1, <1>8 DEF NeverPanics, ChainIsIndexed, ChainIsLinked, LoadedSoFar
<1>11. Resumable'
  <2>1. ASSUME NEW b \in rows' PROVE Parent[b] \in Rooted'
    <3>1. CASE b \in rows
      BY <1>8, <3>1 DEF Resumable, Rooted
    <3>2. CASE b \notin rows
      <4>1. PICK i \in (from + 1)..to : b = pending[i]
        BY <1>1, <3>2
      <4>2. CASE i = 1
        <5>1. Parent[b] = chain[base] /\ base \in 1..Len(chain)
          BY <1>2, <4>1, <4>2 DEF PassOnChain
        <5>2. chain[base] \in Rooted
          BY <1>1, <5>1 DEF ChainIsIndexed, ChainIsLinked, Rooted
        <5>3. QED
          BY <1>8, <5>1, <5>2 DEF Rooted
      <4>3. CASE i # 1
        <5>1. i \in 2..Len(pending) /\ i - 1 \in 1..to
          BY <1>3, <4>1, <4>3
        <5>2. Parent[b] = pending[i - 1]
          BY <1>2, <4>1, <5>1 DEF PassOnChain
        <5>3. QED
          BY <1>6, <5>1, <5>2 DEF Rooted
      <4>4. QED
        BY <4>2, <4>3
    <3>3. QED
      BY <3>1, <3>2
  <2>2. storedTip' \in rows'
    BY <1>1, <1>3, <1>6
  <2>3. QED
    BY <1>8, <2>1, <2>2 DEF Resumable
<1>12. PassOnChain'
  BY <1>1, <1>2, <1>4, <1>6 DEF PassOnChain
<1>13. QED
  BY <1>9, <1>10, <1>11, <1>12

LEMMA UpdatePreserves == IInv /\ Update => IInv'
<1> SUFFICES ASSUME IInv, Update PROVE IInv'
  OBVIOUS
<1> USE DEF IInv, TypeOK
<1>1. /\ proc = "up" /\ pending # <<>>
      /\ BatchEnd(written) = Len(pending)
      /\ chain' = Replaced(chain, base, pending)
      /\ NoPassNext
      /\ UNCHANGED <<active, database, proc, cursor, failures>>
  BY DEF Update
<1>2. base \in 1..Len(chain) /\ base \in 0..Len(chain)
  BY <1>1 DEF PassOnChain
<1>3. /\ chain' \in Seq(Blocks) /\ Len(chain') = base + Len(pending)
      /\ \A i \in 1..base : chain'[i] = chain[i]
      /\ \A i \in (base + 1)..(base + Len(pending)) : chain'[i] = pending[i - base]
  BY <1>1, <1>2, ReplacedElements
<1>4. /\ \A i \in 1..Len(pending) : pending[i] \in rows /\ pending[i] # Genesis
      /\ \A i \in 2..Len(pending) : Parent[pending[i]] = pending[i - 1]
      /\ Parent[pending[1]] = chain[base]
  BY <1>1 DEF PassOnChain
<1>5. TypeOK'
  BY <1>1, <1>3 DEF database, NoPassNext
<1>6. chain'[1] = Genesis /\ Len(chain') >= 1
  BY <1>1, <1>2, <1>3 DEF ChainIsLinked
<1>7. ASSUME NEW i \in 2..Len(chain')
      PROVE  /\ chain'[i] \in rows /\ chain'[i] # Genesis
             /\ Parent[chain'[i]] = chain'[i - 1]
  <2>1. CASE i <= base
    <3>1. /\ i \in 2..Len(chain)
          /\ chain'[i] = chain[i] /\ chain'[i - 1] = chain[i - 1]
      BY <1>2, <1>3, <2>1
    <3>2. QED
      BY <1>1, <3>1 DEF ChainIsIndexed, ChainIsLinked
  <2>2. CASE i = base + 1
    <3>1. /\ chain'[i] = pending[1] /\ chain'[i - 1] = chain[base]
          /\ 1 \in 1..Len(pending)
      <4>1. /\ i \in (base + 1)..(base + Len(pending)) /\ i - base = 1
            /\ i - 1 \in 1..base /\ i - 1 = base /\ 1 \in 1..Len(pending)
        BY <1>2, <1>3, <2>2
      <4>2. QED
        BY <1>3, <4>1
    <3>2. QED
      BY <1>4, <3>1
  <2>3. CASE i > base + 1
    <3>1. /\ i - base \in 2..Len(pending) /\ i - base \in 1..Len(pending)
          /\ (i - 1) - base = (i - base) - 1
          /\ chain'[i] = pending[i - base]
          /\ chain'[i - 1] = pending[(i - 1) - base]
      <4>1. /\ i \in (base + 1)..(base + Len(pending))
            /\ i - 1 \in (base + 1)..(base + Len(pending))
            /\ i - base \in 2..Len(pending) /\ i - base \in 1..Len(pending)
            /\ (i - 1) - base = (i - base) - 1
        BY <1>2, <1>3, <2>3
      <4>2. QED
        BY <1>3, <4>1
    <3>2. /\ pending[i - base] \in rows /\ pending[i - base] # Genesis
          /\ Parent[pending[i - base]] = pending[(i - base) - 1]
      BY <1>4, <3>1
    <3>3. QED
      BY <3>1, <3>2
  <2>4. QED
    BY <1>2, <1>3, <2>1, <2>2, <2>3
<1>8. NeverPanics' /\ ChainIsIndexed' /\ ChainIsLinked'
  BY <1>1, <1>6, <1>7 DEF NeverPanics, ChainIsIndexed, ChainIsLinked, database
<1>9. Resumable' /\ LoadedSoFar' /\ PassOnChain'
  BY <1>1 DEF Resumable, Rooted, LoadedSoFar, PassOnChain, NoPassNext, database
<1>10. QED
  BY <1>5, <1>8, <1>9

(* Every step that ends the process leaves the database as it was, and a    *)
(* database that can be resumed from is all the next start needs.           *)
LEMMA EndsPreserves ==
    ASSUME IInv, Ends, failures' \in 0..MaxFailures
    PROVE  IInv'
<1> USE DEF IInv, TypeOK, Ends, NoPassNext, database
<1>1. TypeOK'
  BY IndexAssumption
<1>2. NeverPanics' /\ ChainIsIndexed' /\ ChainIsLinked' /\ LoadedSoFar' /\ PassOnChain'
  BY DEF NeverPanics, ChainIsIndexed, ChainIsLinked, LoadedSoFar, PassOnChain
<1>3. Resumable'
  BY DEF Resumable, Rooted
<1>4. QED
  BY <1>1, <1>2, <1>3

LEMMA Invariant == Spec => []IInv
<1>1. Init => IInv
  BY IndexAssumption DEF Init, IInv, TypeOK, NoPass, NeverPanics, ChainIsIndexed, ChainIsLinked,
         Resumable, Rooted, LoadedSoFar, PassOnChain
<1>2. IInv /\ [Next]_vars => IInv'
  <2> SUFFICES ASSUME IInv, [Next]_vars PROVE IInv'
    OBVIOUS
  <2>1. CASE Start
    <3>0. IteratedRows \subseteq Blocks
      BY ScanIsComplete DEF IInv, TypeOK
    <3>1. TypeOK'
      <4>1. cursor' \in Blocks /\ chain' \in Seq(Blocks) /\ proc' \in {"up", "loading"}
        <5>1. Genesis \in Blocks /\ <<Genesis>> \in Seq(Blocks) /\ <<>> \in Seq(Blocks)
          BY IndexAssumption
        <5>2. CASE storedTip = NoTip
          BY <2>1, <5>1, <5>2 DEF Start
        <5>3. CASE storedTip # NoTip
          BY <2>1, <3>0, <5>1, <5>3 DEF Start, IInv, TypeOK
        <5>4. QED
          BY <5>2, <5>3
      <4>2. UNCHANGED <<active, database, pass, failures>>
        BY <2>1 DEF Start
      <4>3. QED
        BY <4>1, <4>2 DEF IInv, TypeOK, database, pass
    <3>2. NeverPanics' /\ ChainIsIndexed' /\ ChainIsLinked'
      <4>1. \/ proc' = "loading"
            \/ proc' = "up" /\ chain' = <<Genesis>>
        BY <2>1, <3>0 DEF Start
      <4>2. Len(<<Genesis>>) = 1 /\ <<Genesis>>[1] = Genesis
        OBVIOUS
      <4>3. QED
        BY <4>1, <4>2 DEF NeverPanics, ChainIsIndexed, ChainIsLinked
    <3>3. Resumable' /\ LoadedSoFar'
      BY <2>1 DEF IInv, Start, Resumable, Rooted, LoadedSoFar, database
    <3>4. PassOnChain'
      BY <2>1 DEF IInv, Start, PassOnChain, pass
    <3>5. QED
      BY <3>1, <3>2, <3>3, <3>4 DEF IInv
  <2>2. CASE LoadHeader
    BY <2>2, LoadHeaderPreserves
  <2>3. CASE Loaded
    BY <2>3, LoadedPreserves
  <2>4. CASE GetNewHeaders
    BY <2>4, GetNewHeadersPreserves
  <2>5. CASE ReadBatch
    <3>1. /\ read' = read + 1 /\ pending # <<>>
          /\ UNCHANGED <<active, database, proc, cursor, chain, pending, base, written, reader, failures>>
      <4>1. read \in Nat /\ BatchEnd(read) \in 0..Len(pending)
        BY Batches DEF IInv, TypeOK
      <4>2. QED
        BY <2>5, <4>1 DEF ReadBatch
    <3>2. TypeOK'
      BY <3>1 DEF IInv, TypeOK, database
    <3>3. BatchEnd(written)' = BatchEnd(written)
      BY <3>1 DEF BatchEnd
    <3>4. QED
      BY <3>1, <3>2, <3>3 DEF IInv, NeverPanics, ChainIsIndexed, ChainIsLinked,
         Resumable, Rooted, LoadedSoFar, PassOnChain, database
  <2>6. CASE WriteBatch
    BY <2>6, WriteBatchPreserves
  <2>7. CASE Update
    BY <2>7, UpdatePreserves
  <2>8. CASE PassFails
    BY <2>8, EndsPreserves DEF PassFails, IInv, TypeOK
  <2>9. CASE ReadFails
    <3>1. /\ reader' = "failed" /\ pending # <<>> /\ failures' \in 0..MaxFailures
          /\ UNCHANGED <<active, database, proc, cursor, chain, pending, base, read, written>>
      <4>1. /\ read \in Nat /\ BatchEnd(read) \in 0..Len(pending)
            /\ failures \in 0..MaxFailures /\ MaxFailures \in Nat
        BY Batches, IndexAssumption DEF IInv, TypeOK
      <4>2. QED
        BY <2>9, <4>1 DEF ReadFails
    <3>2. TypeOK'
      BY <3>1 DEF IInv, TypeOK, database
    <3>3. BatchEnd(written)' = BatchEnd(written)
      BY <3>1 DEF BatchEnd
    <3>4. QED
      BY <3>1, <3>2, <3>3 DEF IInv, NeverPanics, ChainIsIndexed, ChainIsLinked,
         Resumable, Rooted, LoadedSoFar, PassOnChain, database
  <2>10. CASE BlocksArrive
    <3>1. active' \in Chains /\ UNCHANGED <<database, proc, cursor, chain, pass, failures>>
      BY <2>10 DEF BlocksArrive
    <3>2. BatchEnd(written)' = BatchEnd(written)
      BY <3>1 DEF BatchEnd, pass
    <3>3. QED
      BY <3>1, <3>2 DEF IInv, TypeOK, NeverPanics, ChainIsIndexed, ChainIsLinked,
         Resumable, Rooted, LoadedSoFar, PassOnChain, database, pass
  <2>11. CASE Crash
    <3>1. Ends /\ failures' \in 0..MaxFailures
      BY <2>11, IndexAssumption DEF Crash, IInv, TypeOK
    <3>2. QED
      BY <3>1, EndsPreserves
  <2>12. CASE UNCHANGED vars
    <3>1. BatchEnd(written)' = BatchEnd(written)
      BY <2>12 DEF BatchEnd, vars, pass
    <3>2. TypeOK'
      BY <2>12 DEF IInv, TypeOK, vars, database, pass
    <3>3. NeverPanics' /\ ChainIsIndexed' /\ ChainIsLinked' /\ Resumable' /\ LoadedSoFar'
      BY <2>12 DEF IInv, NeverPanics, ChainIsIndexed, ChainIsLinked,
         Resumable, Rooted, LoadedSoFar, vars, database
    <3>4. PassOnChain'
      BY <2>12, <3>1 DEF IInv, PassOnChain, vars, database, pass
    <3>5. QED
      BY <3>2, <3>3, <3>4 DEF IInv
  <2>13. QED
    BY <2>1, <2>2, <2>3, <2>4, <2>5, <2>6, <2>7, <2>8, <2>9, <2>10, <2>11, <2>12
       DEF Next, Step
<1>3. QED
  BY <1>1, <1>2, PTL DEF Spec

-----------------------------------------------------------------------------
(* Every variable keeps its type.                                           *)
THEOREM TypeCorrect == Spec => []TypeOK
BY Invariant, PTL DEF IInv

(* Wherever the process ends, the next start finds every header it needs.   *)
THEOREM AlwaysResumes == Spec => []NeverPanics
BY Invariant, PTL DEF IInv

(* Every block of the chain in memory has its rows in the database.         *)
THEOREM HistoriesComplete == Spec => []ChainIsIndexed
BY Invariant, PTL DEF IInv

(* The chain in memory goes from genesis, parent by parent, through every   *)
(* load, drop and reorg.                                                    *)
THEOREM LinkedToGenesis == Spec => []ChainIsLinked
BY Invariant, PTL DEF IInv
=============================================================================
