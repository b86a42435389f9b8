-------------------------- MODULE FetchBenchProofs ---------------------------
(***************************************************************************)
(* For any number of workers and blocks, any levels, and peers that        *)
(* answer, fall silent or hang up at any moment:                           *)
(*   - the shared queue of fetch_across_peers.  What arrives on the        *)
(*     connections plays no part in it: whatever a worker takes for an     *)
(*     answer, it accounts for the block it holds;                         *)
(*   - what arrives on the connections, which is in step with what was     *)
(*     asked for.  It is proved by counting the answers among the messages *)
(*     of a connection.                                                    *)
(***************************************************************************)
EXTENDS FetchBench, FiniteSetTheorems, TLAPS

USE ConnectionAssumption, BenchAssumption DEF Conns, Blocks

(***************************************************************************)
(* Sequences as sets.                                                      *)
(***************************************************************************)
Elements(s) == {s[i] : i \in DOMAIN s}

NoRepeats(s) == \A i, j \in DOMAIN s : s[i] = s[j] => i = j

LEMMA AppendElements ==
    ASSUME NEW S, NEW s \in Seq(S), NEW e \in S
    PROVE  /\ Append(s, e) \in Seq(S)
           /\ Elements(Append(s, e)) = Elements(s) \cup {e}
           /\ NoRepeats(s) /\ e \notin Elements(s) => NoRepeats(Append(s, e))
<1> DEFINE t == Append(s, e)
<1>1. /\ t \in Seq(S) /\ DOMAIN t = 1..(Len(s) + 1) /\ DOMAIN s = 1..Len(s)
      /\ \A i \in DOMAIN s : t[i] = s[i]
      /\ t[Len(s) + 1] = e
      /\ Len(s) \in Nat
  OBVIOUS
<1> HIDE DEF t
<1>2. Elements(t) = Elements(s) \cup {e}
  <2>1. ASSUME NEW x \in Elements(t) PROVE x \in Elements(s) \cup {e}
    <3>1. PICK i \in DOMAIN t : x = t[i]
      BY DEF Elements
    <3>2. CASE i = Len(s) + 1
      BY <1>1, <3>1, <3>2
    <3>3. CASE i \in DOMAIN s
      BY <1>1, <3>1, <3>3 DEF Elements
    <3>4. QED
      BY <1>1, <3>2, <3>3
  <2>2. ASSUME NEW i \in DOMAIN s PROVE s[i] \in Elements(t)
    <3>1. i \in DOMAIN t /\ t[i] = s[i]
      BY <1>1
    <3>2. QED
      BY <3>1 DEF Elements
  <2>3. e \in Elements(t)
    <3>1. Len(s) + 1 \in DOMAIN t
      BY <1>1
    <3>2. QED
      BY <1>1, <3>1 DEF Elements
  <2>4. QED
    BY <2>1, <2>2, <2>3 DEF Elements
<1>3. ASSUME NoRepeats(s), e \notin Elements(s) PROVE NoRepeats(t)
  <2>1. \A i \in DOMAIN s : s[i] # e
    BY <1>3 DEF Elements
  <2>2. QED
    BY <1>1, <1>3, <2>1 DEF NoRepeats
<1>4. QED
  BY <1>1, <1>2, <1>3 DEF t

LEMMA TailElements ==
    ASSUME NEW S, NEW s \in Seq(S), s # <<>>, NoRepeats(s)
    PROVE  /\ Tail(s) \in Seq(S) /\ Head(s) \in S
           /\ Head(s) \in Elements(s)
           /\ Elements(Tail(s)) = Elements(s) \ {Head(s)}
           /\ NoRepeats(Tail(s))
<1> DEFINE t == Tail(s)
<1>1. /\ t \in Seq(S) /\ Len(s) \in Nat /\ Len(s) > 0
      /\ DOMAIN t = 1..(Len(s) - 1) /\ DOMAIN s = 1..Len(s)
      /\ \A i \in DOMAIN t : t[i] = s[i + 1]
      /\ Head(s) = s[1] /\ Head(s) \in S
  OBVIOUS
<1> HIDE DEF t
<1>2. Head(s) \in Elements(s)
  <2>1. 1 \in DOMAIN s
    BY <1>1
  <2>2. QED
    BY <1>1, <2>1 DEF Elements
<1>3. ASSUME NEW x \in Elements(t) PROVE x \in Elements(s) \ {Head(s)}
  <2>1. PICK i \in DOMAIN t : x = t[i]
    BY DEF Elements
  <2>2. x = s[i + 1] /\ i + 1 \in DOMAIN s /\ 1 \in DOMAIN s /\ i + 1 # 1
    BY <1>1, <2>1
  <2>3. x # s[1]
    BY <2>2 DEF NoRepeats
  <2>4. QED
    BY <1>1, <2>2, <2>3 DEF Elements
<1>4. ASSUME NEW x \in Elements(s), x # Head(s) PROVE x \in Elements(t)
  <2>1. PICK i \in DOMAIN s : x = s[i]
    BY DEF Elements
  <2>2. i - 1 \in DOMAIN t /\ t[i - 1] = s[i]
    BY <1>1, <1>4, <2>1
  <2>3. QED
    BY <2>1, <2>2 DEF Elements
<1>5. NoRepeats(t)
  <2> SUFFICES ASSUME NEW i \in DOMAIN t, NEW j \in DOMAIN t, t[i] = t[j]
               PROVE  i = j
    BY DEF NoRepeats
  <2>1. s[i + 1] = s[j + 1] /\ i + 1 \in DOMAIN s /\ j + 1 \in DOMAIN s
    BY <1>1
  <2>2. i + 1 = j + 1
    BY <2>1 DEF NoRepeats
  <2>3. QED
    BY <1>1, <2>2
<1>6. QED
  BY <1>1, <1>2, <1>3, <1>4, <1>5 DEF t

(***************************************************************************)
(* The inductive invariant.                                                *)
(***************************************************************************)
Busy(c) == worker[c] \in {"waiting", "failing"}
Working(c) == worker[c] = "taking" \/ Busy(c)

QueueTypes ==
    /\ queue \in Seq(Blocks) /\ finished \in SUBSET Blocks
    /\ hand \in [Conns -> 0..WindowSize]
    /\ worker \in [Conns -> {"idle", "taking", "waiting", "failing", "failed", "left"}]
    /\ window \in 0..WindowSize

\* Nobody works outside of a level, and in it only the team does.
OnlyTheTeam == \A c \in Conns : Working(c) => phase = "fetching" /\ c \in Team

\* A block that is held is held once, and is not in the queue.
HeldOnce ==
    \A c \in Conns : Busy(c) =>
        /\ hand[c] \in Blocks
        /\ hand[c] \notin Elements(queue)
        /\ \A d \in Conns : Busy(d) /\ hand[d] = hand[c] => d = c

\* StrandedOnlyByFailure, with the queue as a set.
Stranded ==
    (\E c \in Conns : worker[c] = "left") =>
        \A b \in Elements(queue) :
            \E c \in Conns : worker[c] = "failed" /\ hand[c] = b

IInv ==
    QueueTypes /\ OnlyTheTeam /\ NoRepeats(queue) /\ HeldOnce /\ Stranded

LEMMA InitIInv == Init => IInv
<1> SUFFICES ASSUME Init PROVE IInv
  OBVIOUS
<1>1. queue = <<>> /\ DOMAIN queue = {}
  BY DEF Init
<1>2. NoRepeats(queue) /\ Stranded
  BY <1>1 DEF NoRepeats, Stranded, Elements
<1>3. OnlyTheTeam /\ HeldOnce
  BY DEF Init, OnlyTheTeam, HeldOnce, Working, Busy
<1>4. QueueTypes
  BY DEF Init, QueueTypes
<1>5. QED
  BY <1>2, <1>3, <1>4 DEF IInv

(* When nobody works, the main thread may do what it likes with the rest.   *)
LEMMA NobodyWorks ==
    ASSUME IInv, UNCHANGED threads, window' \in 0..WindowSize,
           \A c \in Conns : ~Working(c)
    PROVE  IInv'
<1>1. QueueTypes' /\ NoRepeats(queue)' /\ Stranded'
  BY DEF IInv, QueueTypes, NoRepeats, Stranded, Elements, threads
<1>2. OnlyTheTeam' /\ HeldOnce'
  BY DEF OnlyTheTeam, HeldOnce, Working, Busy, threads
<1>3. QED
  BY <1>1, <1>2 DEF IInv

\* The workers' steps leave the main thread where it is.
LEMMA MainStays ==
    ASSUME NEW c \in Conns, Worker(c)
    PROVE  UNCHANGED main
BY DEF Worker, TakeBlock, Leave, Pong, GotBlock, Fail, PutBack, main, vars

LEMMA TakeBlockKeeps ==
    ASSUME IInv, NEW c \in Conns, TakeBlock(c)
    PROVE  /\ IInv'
           /\ hand'[c] = Head(queue) /\ Head(queue) \in Elements(queue) /\ Head(queue) \in Blocks
           /\ Elements(queue') = Elements(queue) \ {Head(queue)}
<1>1. /\ worker[c] = "taking" /\ queue # <<>>
      /\ worker' = [worker EXCEPT ![c] = "waiting"]
      /\ hand' = [hand EXCEPT ![c] = Head(queue)]
      /\ queue' = Tail(queue) /\ finished' = finished /\ UNCHANGED main
  BY DEF TakeBlock
<1>2. /\ queue \in Seq(Blocks) /\ NoRepeats(queue)
      /\ hand \in [Conns -> 0..WindowSize]
      /\ worker \in [Conns -> {"idle", "taking", "waiting", "failing", "failed", "left"}]
  BY DEF IInv, QueueTypes
<1>3. /\ queue' \in Seq(Blocks) /\ Head(queue) \in Blocks
      /\ Head(queue) \in Elements(queue)
      /\ Elements(queue') = Elements(queue) \ {Head(queue)}
      /\ NoRepeats(queue')
  BY <1>1, <1>2, TailElements, Zenon
<1>4. QueueTypes'
  <2>1. hand' \in [Conns -> 0..WindowSize]
    BY <1>1, <1>2, <1>3
  <2>2. worker' \in [Conns -> {"idle", "taking", "waiting", "failing", "failed", "left"}]
    BY <1>1, <1>2
  <2>3. QED
    BY <1>1, <1>3, <2>1, <2>2 DEF IInv, QueueTypes, main
<1>5. OnlyTheTeam'
  BY <1>1, <1>2 DEF IInv, OnlyTheTeam, Working, Busy, Team, Want, main
<1>6. HeldOnce'
  <2>1. HeldOnce
    BY DEF IInv
  <2>2. \A d \in Conns : d # c => (Busy(d)' <=> Busy(d)) /\ hand'[d] = hand[d]
    BY <1>1, <1>2 DEF Busy
  <2>3. hand'[c] = Head(queue)
    BY <1>1, <1>2
  <2>4. \A d \in Conns : d # c /\ Busy(d) => hand[d] # Head(queue)
    BY <1>3, <2>1 DEF HeldOnce
  <2>5. QED
    BY <1>3, <2>1, <2>2, <2>3, <2>4 DEF HeldOnce
<1>7. Stranded'
  <2>1. \A d \in Conns : /\ worker'[d] = "left" => worker[d] = "left"
                         /\ worker[d] = "failed" => worker'[d] = "failed" /\ hand'[d] = hand[d]
    BY <1>1, <1>2
  <2>2. QED
    BY <1>3, <2>1 DEF IInv, Stranded
<1>8. hand'[c] = Head(queue)
  BY <1>1, <1>2
<1>9. QED
  BY <1>3, <1>4, <1>5, <1>6, <1>7, <1>8 DEF IInv

LEMMA LeaveKeeps ==
    ASSUME IInv, NEW c \in Conns, Leave(c)
    PROVE  IInv'
<1>1. /\ worker[c] = "taking" /\ queue = <<>>
      /\ worker' = [worker EXCEPT ![c] = "left"]
      /\ UNCHANGED <<queue, hand, finished, main>>
  BY DEF Leave
<1>2. Elements(queue) = {}
  BY <1>1 DEF Elements
<1>3. QueueTypes' /\ NoRepeats(queue)'
  BY <1>1 DEF IInv, QueueTypes, NoRepeats, main
<1>4. OnlyTheTeam' /\ HeldOnce'
  BY <1>1 DEF IInv, QueueTypes, OnlyTheTeam, HeldOnce, Working, Busy, Team, Want, main, Elements
<1>5. Stranded'
  BY <1>1, <1>2 DEF Stranded, Elements
<1>6. QED
  BY <1>3, <1>4, <1>5 DEF IInv

LEMMA GotBlockKeeps ==
    ASSUME IInv, NEW c \in Conns, GotBlock(c)
    PROVE  IInv'
<1>1. /\ worker[c] = "waiting" /\ worker' = [worker EXCEPT ![c] = "taking"]
      /\ finished' = finished \cup {hand[c]}
      /\ UNCHANGED <<queue, hand, main>>
  BY DEF GotBlock
<1>2. hand[c] \in Blocks
  BY <1>1 DEF IInv, HeldOnce, Busy
<1>3. QueueTypes' /\ NoRepeats(queue)'
  BY <1>1, <1>2 DEF IInv, QueueTypes, NoRepeats, main
<1>4. OnlyTheTeam' /\ HeldOnce'
  BY <1>1 DEF IInv, QueueTypes, OnlyTheTeam, HeldOnce, Working, Busy, Team, Want, main, Elements
<1>5. Stranded'
  <2>1. /\ queue' = queue /\ hand' = hand
        /\ \A d \in Conns : /\ worker'[d] = "left" => worker[d] = "left"
                            /\ worker[d] = "failed" => worker'[d] = "failed"
    BY <1>1 DEF IInv, QueueTypes
  <2>2. QED
    BY <2>1 DEF IInv, Stranded
<1>6. QED
  BY <1>3, <1>4, <1>5 DEF IInv

LEMMA FailKeeps ==
    ASSUME IInv, NEW c \in Conns, Fail(c)
    PROVE  IInv'
<1>1. /\ worker[c] = "waiting" /\ worker' = [worker EXCEPT ![c] = "failing"]
      /\ UNCHANGED <<queue, hand, finished, main>>
  BY DEF Fail
<1>2. QueueTypes' /\ NoRepeats(queue)'
  BY <1>1 DEF IInv, QueueTypes, NoRepeats, main
<1>3. OnlyTheTeam' /\ HeldOnce'
  <2>1. /\ UNCHANGED <<queue, hand, phase, pool, level>>
        /\ \A d \in Conns : (Busy(d)' <=> Busy(d)) /\ (Working(d)' <=> Working(d))
    BY <1>1 DEF IInv, QueueTypes, Working, Busy, main
  <2>2. QED
    BY <2>1 DEF IInv, OnlyTheTeam, HeldOnce, Team, Want
<1>4. Stranded'
  <2>1. /\ queue' = queue /\ hand' = hand
        /\ \A d \in Conns : /\ worker'[d] = "left" => worker[d] = "left"
                            /\ worker[d] = "failed" => worker'[d] = "failed"
    BY <1>1 DEF IInv, QueueTypes
  <2>2. QED
    BY <2>1 DEF IInv, Stranded
<1>5. QED
  BY <1>2, <1>3, <1>4 DEF IInv

LEMMA PutBackKeeps ==
    ASSUME IInv, NEW c \in Conns, PutBack(c)
    PROVE  IInv' /\ Elements(queue') = Elements(queue) \cup {hand[c]}
<1>1. /\ worker[c] = "failing" /\ worker' = [worker EXCEPT ![c] = "failed"]
      /\ queue' = Append(queue, hand[c])
      /\ UNCHANGED <<hand, finished, main>>
  BY DEF PutBack
<1>2. /\ hand[c] \in Blocks /\ hand[c] \notin Elements(queue)
      /\ \A d \in Conns : Busy(d) /\ d # c => hand[d] # hand[c]
  BY <1>1 DEF IInv, HeldOnce, Busy
<1>3. queue \in Seq(Blocks) /\ NoRepeats(queue)
  BY DEF IInv, QueueTypes
<1>4. /\ queue' \in Seq(Blocks) /\ NoRepeats(queue')
      /\ Elements(queue') = Elements(queue) \cup {hand[c]}
  <2> HIDE ConnectionAssumption, BenchAssumption DEF Conns, Blocks
  <2> DEFINE q == Append(queue, hand[c])
  <2>1. q \in Seq(Blocks) /\ Elements(q) = Elements(queue) \cup {hand[c]} /\ NoRepeats(q)
    BY <1>2, <1>3, AppendElements, Zenon
  <2>2. QED
    BY <1>1, <2>1
<1>5. QueueTypes'
  BY <1>1, <1>4 DEF IInv, QueueTypes, main
<1>6. OnlyTheTeam'
  BY <1>1 DEF IInv, QueueTypes, OnlyTheTeam, Working, Busy, Team, Want, main
<1>7. \A d \in Conns : Busy(d)' => d # c /\ Busy(d)
  BY <1>1 DEF IInv, QueueTypes, Busy
<1>8. HeldOnce'
  BY <1>1, <1>2, <1>4, <1>7 DEF IInv, HeldOnce
<1>9. Stranded'
  <2>1. \A d \in Conns : /\ worker'[d] = "left" => worker[d] = "left"
                         /\ worker[d] = "failed" => worker'[d] = "failed"
    BY <1>1 DEF IInv, QueueTypes
  <2>2. worker'[c] = "failed" /\ hand' = hand
    BY <1>1 DEF IInv, QueueTypes
  <2>3. QED
    BY <1>4, <2>1, <2>2 DEF IInv, Stranded
<1>10. QED
  BY <1>4, <1>5, <1>6, <1>8, <1>9 DEF IInv

LEMMA StartLevelKeeps ==
    ASSUME IInv, StartLevel
    PROVE  /\ IInv' /\ Elements(queue') \in SUBSET Blocks
           /\ \A c \in Conns : ~Busy(c) /\ ~Busy(c)'
<1>1. /\ phase = "warming" /\ phase' = "fetching"
      /\ queue' = [b \in 1..window |-> b] /\ finished' = {}
      /\ worker' = [c \in Conns |-> IF c \in Team THEN "taking" ELSE "idle"]
      /\ UNCHANGED <<hand, window, level, pool>>
  BY DEF StartLevel
<1>2. window \in 0..WindowSize /\ hand \in [Conns -> 0..WindowSize]
  BY DEF IInv, QueueTypes
<1>3. queue' \in Seq(Blocks) /\ NoRepeats(queue')
  BY <1>1, <1>2 DEF NoRepeats
<1>4. QueueTypes'
  BY <1>1, <1>2, <1>3 DEF QueueTypes
<1>5. OnlyTheTeam'
  BY <1>1 DEF OnlyTheTeam, Working, Busy, Team, Want
<1>6. \A c \in Conns : ~Busy(c)' /\ worker'[c] # "left"
  BY <1>1 DEF Busy
<1>7. HeldOnce' /\ Stranded'
  BY <1>6 DEF HeldOnce, Stranded
<1>8. Elements(queue') \in SUBSET Blocks
  BY <1>3 DEF Elements
<1>9. \A c \in Conns : ~Busy(c)
  BY <1>1 DEF IInv, OnlyTheTeam, Working
<1>10. QED
  BY <1>3, <1>4, <1>5, <1>6, <1>7, <1>8, <1>9 DEF IInv

\* What the main thread does besides.
LEMMA MainKeeps ==
    ASSUME IInv, Main, ~StartLevel
    PROVE  IInv' /\ UNCHANGED threads
<1>1. UNCHANGED threads /\ window' \in 0..WindowSize
  BY DEF IInv, QueueTypes, Main, ConnectPrimary, IndexPing, BuildIndex, NoMoreLevels, WarmPool,
         PoolTooSmall, Join, Ask, DrainPing, Drain, BatchDone, DrainFails,
         Reconnect, main, threads
<1>2. CASE Join
  <2>1. \A c \in Conns : ~Working(c)
    BY <1>2 DEF IInv, OnlyTheTeam, Working, Busy, Join
  <2>2. QED
    BY <1>1, <2>1, NobodyWorks
<1>3. CASE ~Join
  <2>1. phase # "fetching"
    BY <1>3 DEF Main, ConnectPrimary, IndexPing, BuildIndex, NoMoreLevels, WarmPool,
         PoolTooSmall, Ask, DrainPing, Drain, BatchDone, DrainFails, Reconnect
  <2>2. \A c \in Conns : ~Working(c)
    BY <2>1 DEF IInv, OnlyTheTeam
  <2>3. QED
    BY <1>1, <2>2, NobodyWorks
<1>4. QED
  BY <1>1, <1>2, <1>3

LEMMA StutterKeeps ==
    ASSUME IInv, UNCHANGED <<threads, main>>
    PROVE  IInv'
<1>1. /\ UNCHANGED <<queue, worker, hand, finished, phase, window, pool, level>>
      /\ \A d \in Conns : (Busy(d)' <=> Busy(d)) /\ (Working(d)' <=> Working(d))
  BY DEF threads, main, Busy, Working
<1>2. QueueTypes' /\ NoRepeats(queue)'
  BY <1>1 DEF IInv, QueueTypes
<1>3. OnlyTheTeam' /\ HeldOnce' /\ Stranded'
  BY <1>1 DEF IInv, OnlyTheTeam, HeldOnce, Stranded, Team, Want
<1>4. QED
  BY <1>2, <1>3 DEF IInv

LEMMA StepKeeps == IInv /\ [Next]_vars => IInv'
<1> SUFFICES ASSUME IInv, [Next]_vars PROVE IInv'
  OBVIOUS
<1>1. ASSUME NEW c \in Conns, Worker(c) PROVE IInv'
  <2>1. CASE Pong(c)
    BY <2>1, StutterKeeps DEF Pong
  <2>2. QED
    BY <1>1, <2>1, TakeBlockKeeps, LeaveKeeps, GotBlockKeeps, FailKeeps, PutBackKeeps
       DEF Worker
<1>2. CASE Main
  BY <1>2, MainKeeps, StartLevelKeeps
<1>3. CASE Peers /\ UNCHANGED <<threads, main>>
  BY <1>3, StutterKeeps
<1>4. CASE UNCHANGED vars
  BY <1>4, StutterKeeps DEF vars
<1>5. QED
  BY <1>1, <1>2, <1>3, <1>4 DEF Next

LEMMA Invariance == Spec => []IInv
BY InitIInv, StepKeeps, PTL DEF Spec

(* A block left behind when the workers are gone was put back by a worker   *)
(* that failed holding it, for any number of workers, blocks and failures.  *)
THEOREM StrandedByFailure == Spec => []StrandedOnlyByFailure
<1>1. IInv => StrandedOnlyByFailure
  BY DEF IInv, Stranded, StrandedOnlyByFailure, Elements
<1>2. QED
  BY <1>1, Invariance, PTL

(***************************************************************************)
(* The refinement.                                                         *)
(***************************************************************************)
\* What the ledger sees: the queue as a set, and the blocks in hand.
Held == [c \in Conns |-> IF Busy(c) THEN hand[c] ELSE 0]

\* Steps that the ledger does not see.
LEMMA Unseen ==
    ASSUME UNCHANGED <<queue, hand, finished>>, \A c \in Conns : Busy(c)' <=> Busy(c)
    PROVE  UNCHANGED Ledger!vars
<1>1. Held' = Held
  BY DEF Held
<1>2. Elements(queue') = Elements(queue)
  OBVIOUS
<1>3. QED
  BY <1>1, <1>2 DEF Held, Busy, Elements, Ledger!vars

LEMMA LedgerInit == Init => Ledger!Init
<1> SUFFICES ASSUME Init PROVE Ledger!Init
  OBVIOUS
<1>1. DOMAIN queue = {} /\ finished = {} /\ worker = [c \in Conns |-> "idle"]
  BY DEF Init
<1>2. QED
  BY <1>1 DEF Ledger!Init

LEMMA TakeBlockRefines ==
    ASSUME IInv, NEW c \in Conns, TakeBlock(c)
    PROVE  Ledger!Take(c, Head(queue)) /\ Head(queue) \in Blocks
<1>1. /\ worker[c] = "taking" /\ worker' = [worker EXCEPT ![c] = "waiting"]
      /\ hand' = [hand EXCEPT ![c] = Head(queue)] /\ finished' = finished
      /\ worker \in [Conns -> {"idle", "taking", "waiting", "failing", "failed", "left"}]
      /\ hand \in [Conns -> 0..WindowSize]
  BY DEF TakeBlock, IInv, QueueTypes
<1>2. /\ Head(queue) \in Elements(queue) /\ Head(queue) \in Blocks
      /\ Elements(queue') = Elements(queue) \ {Head(queue)}
  BY TakeBlockKeeps
<1>3. Held[c] = 0 /\ Held' = [Held EXCEPT ![c] = Head(queue)]
  BY <1>1 DEF Held, Busy
<1>4. QED
  BY <1>1, <1>2, <1>3 DEF Ledger!Take, Held, Busy, Elements

LEMMA GotBlockRefines ==
    ASSUME IInv, NEW c \in Conns, GotBlock(c)
    PROVE  Ledger!Finish(c)
<1>1. /\ worker[c] = "waiting" /\ worker' = [worker EXCEPT ![c] = "taking"]
      /\ hand' = hand /\ queue' = queue /\ finished' = finished \cup {hand[c]}
      /\ worker \in [Conns -> {"idle", "taking", "waiting", "failing", "failed", "left"}]
  BY DEF GotBlock, IInv, QueueTypes
<1>2. hand[c] \in Blocks
  BY <1>1 DEF IInv, HeldOnce, Busy
<1>3. Held[c] = hand[c] /\ Held' = [Held EXCEPT ![c] = 0]
  BY <1>1 DEF Held, Busy
<1>4. QED
  BY <1>1, <1>2, <1>3 DEF Ledger!Finish, Held, Busy

LEMMA PutBackRefines ==
    ASSUME IInv, NEW c \in Conns, PutBack(c)
    PROVE  Ledger!GiveBack(c)
<1>1. /\ worker[c] = "failing" /\ worker' = [worker EXCEPT ![c] = "failed"]
      /\ hand' = hand /\ finished' = finished
      /\ worker \in [Conns -> {"idle", "taking", "waiting", "failing", "failed", "left"}]
  BY DEF PutBack, IInv, QueueTypes
<1>2. hand[c] \in Blocks
  BY <1>1 DEF IInv, HeldOnce, Busy
<1>3. Elements(queue') = Elements(queue) \cup {hand[c]}
  BY PutBackKeeps
<1>4. Held[c] = hand[c] /\ Held' = [Held EXCEPT ![c] = 0]
  BY <1>1 DEF Held, Busy
<1>5. QED
  BY <1>1, <1>2, <1>3, <1>4 DEF Ledger!GiveBack, Held, Busy, Elements

LEMMA StartLevelRefines ==
    ASSUME IInv, StartLevel
    PROVE  Ledger!Open
<1>1. /\ Elements(queue') \in SUBSET Blocks /\ finished' = {}
      /\ \A c \in Conns : ~Busy(c) /\ ~Busy(c)'
  BY StartLevelKeeps DEF StartLevel
<1>2. /\ Held' = Held
      /\ \A c \in Conns : Held[c] = 0
  BY <1>1 DEF Held
<1>3. QED
  BY <1>1, <1>2 DEF Ledger!Open, Held, Busy, Elements

LEMMA StepRefines == IInv /\ [Next]_vars => [Ledger!Next]_(Ledger!vars)
<1> SUFFICES ASSUME IInv, [Next]_vars PROVE Ledger!Next \/ UNCHANGED Ledger!vars
  OBVIOUS
<1>1. ASSUME NEW c \in Conns, Worker(c) PROVE Ledger!Next \/ UNCHANGED Ledger!vars
  <2>1. CASE TakeBlock(c)
    <3>1. Head(queue) \in Blocks /\ Ledger!Take(c, Head(queue))
      BY <2>1, TakeBlockRefines
    <3>2. QED
      BY <3>1, Zenon DEF Ledger!Next, Ledger!Take
  <2>2. CASE GotBlock(c)
    BY <2>2, GotBlockRefines DEF Ledger!Next
  <2>3. CASE PutBack(c)
    BY <2>3, PutBackRefines DEF Ledger!Next
  <2>4. CASE Leave(c) \/ Fail(c) \/ Pong(c)
    <3>1. /\ UNCHANGED <<queue, hand, finished>>
          /\ \A d \in Conns : Busy(d)' <=> Busy(d)
      BY <2>4 DEF Leave, Fail, Pong, threads, Busy, IInv, QueueTypes
    <3>2. QED
      BY <3>1, Unseen
  <2>5. QED
    BY <1>1, <2>1, <2>2, <2>3, <2>4 DEF Worker
<1>2. CASE StartLevel
  BY <1>2, StartLevelRefines DEF Ledger!Next
<1>3. CASE UNCHANGED threads
  <2>1. /\ UNCHANGED <<queue, hand, finished>>
        /\ \A d \in Conns : Busy(d)' <=> Busy(d)
    BY <1>3 DEF threads, Busy
  <2>2. QED
    BY <2>1, Unseen
<1>4. Main /\ ~StartLevel => UNCHANGED threads
  BY MainKeeps
<1>5. QED
  BY <1>1, <1>2, <1>3, <1>4 DEF Next, vars

(* The workers of a level share out its window as WorkLedger promises: a    *)
(* block waits, is in one worker's hands or is done, and none is lost.      *)
THEOREM LedgerImplemented == Spec => ImplementsLedger
BY LedgerInit, StepRefines, Invariance, PTL DEF Spec, ImplementsLedger, Ledger!Spec

(***************************************************************************)
(* Types.                                                                  *)
(***************************************************************************)
ConnectionTypes ==
    /\ conn \in [Conns -> {"unused", "open", "cut", "dead"}]
    /\ asked \in [Conns -> Seq(Blocks)] /\ wire \in [Conns -> Seq(Messages)]
    /\ late \in [Conns -> Nat]

MainTypes ==
    /\ mode \in {"peers", "single", "latency"}
    /\ phase \in Ended \cup {"connecting", "indexing", "warming", "fetching",
                             "asking", "draining", "reconnecting"}
    /\ level \in Nat /\ attempts \in Nat /\ pool \in Seq(Conns) /\ remaining \in Nat

\* A fetch of the latency bench is of a block of the window.
LEMMA FetchInWindow ==
    ASSUME NEW w \in Nat, NEW r \in Nat, NEW i \in 1..(w * r)
    PROVE  1 + (i - 1) \div r \in 1..w
<1>1. w * r >= 1
  OBVIOUS
<1>2. r >= 1
  BY <1>1
<1> DEFINE q == (i - 1) \div r
<1>3. q \in Nat /\ r * q <= i - 1
  BY <1>2
<1>4. q < w
  <2> HIDE DEF q
  <2> SUFFICES ASSUME q >= w PROVE FALSE
    BY <1>3
  <2>1. r * q >= r * w
    BY <1>2, <1>3
  <2>2. r * w = w * r /\ i <= w * r
    OBVIOUS
  <2>3. QED
    BY <1>3, <2>1, <2>2
<1>5. QED
  BY <1>3, <1>4

LEMMA BatchTypes ==
    ASSUME window \in 0..WindowSize, mode \in {"single", "latency"}, level \in DOMAIN Batches
    PROVE  Batches[level] \in Seq(Blocks)
<1>1. CASE mode = "single"
  <2>1. /\ Batches = [l \in DOMAIN Levels |-> [b \in 1..Smaller(Levels[l], window) |-> b]]
        /\ level \in DOMAIN Levels /\ Levels[level] \in Nat
    BY <1>1 DEF Batches
  <2>2. Smaller(Levels[level], window) \in 0..WindowSize
    BY <2>1 DEF Smaller
  <2>3. Batches[level] = [b \in 1..Smaller(Levels[level], window) |-> b]
    BY <2>1
  <2>4. QED
    BY <2>2, <2>3
<1>2. CASE mode # "single"
  <2>1. /\ Batches = [i \in 1..(window * Repeat) |-> <<1 + (i - 1) \div Repeat>>]
        /\ level \in 1..(window * Repeat)
    BY <1>2 DEF Batches
  <2>2. 1 + (level - 1) \div Repeat \in 1..window
    <3>1. window \in Nat /\ Repeat \in Nat
      OBVIOUS
    <3>2. QED
      BY <2>1, <3>1, FetchInWindow, Zenon
  <2>3. Batches[level] = <<1 + (level - 1) \div Repeat>>
    BY <2>1
  <2>4. QED
    BY <2>2, <2>3
<1>3. QED
  BY <1>1, <1>2

LEMMA Update ==
    ASSUME NEW D, NEW S, NEW f \in [D -> S], NEW c, NEW v, c \in D => v \in S
    PROVE  [f EXCEPT ![c] = v] \in [D -> S]
OBVIOUS

LEMMA AppendType ==
    ASSUME NEW S, NEW s \in Seq(S), NEW e \in S
    PROVE  Append(s, e) \in Seq(S)
OBVIOUS

LEMMA TailType ==
    ASSUME NEW S, NEW s \in Seq(S), s # <<>>
    PROVE  Tail(s) \in Seq(S) /\ Head(s) \in S
OBVIOUS

LEMMA MessageKinds == Blocks \subseteq Messages /\ NotFound \in Messages /\ Ping \in Messages
BY DEF Messages, NotFound, Ping

\* What is read.
LEMMA ReadKeeps ==
    ASSUME ConnectionTypes, NEW c, ReadMessage(c) \/ ReadFails(c)
    PROVE  ConnectionTypes'
<1> USE DEF ConnectionTypes
<1> HIDE DEF Conns, Blocks
<1>1. CASE ReadMessage(c)
  <2>1. c \in Conns => Tail(wire[c]) \in Seq(Messages)
    BY <1>1, TailType DEF ReadMessage
  <2>2. wire' = [wire EXCEPT ![c] = Tail(wire[c])]
    BY <1>1 DEF ReadMessage
  <2>3. wire' \in [Conns -> Seq(Messages)]
    BY <2>1, <2>2, Update
  <2>4. QED
    BY <1>1, <2>3 DEF ReadMessage
<1>2. CASE TimesOut(c)
  <2>1. late' = [late EXCEPT ![c] = late[c] + 1] /\ (c \in Conns => late[c] + 1 \in Nat)
    BY <1>2 DEF TimesOut
  <2>2. late' \in [Conns -> Nat]
    BY <2>1, Update
  <2>3. conn' \in [Conns -> {"unused", "open", "cut", "dead"}]
    BY <1>2 DEF TimesOut
  <2>4. <<>> \in Seq(Blocks)
    OBVIOUS
  <2>5. asked' \in [Conns -> Seq(Blocks)]
    BY <1>2, <2>4, Update DEF TimesOut
  <2>6. QED
    BY <1>2, <2>2, <2>3, <2>5 DEF TimesOut
<1>3. CASE UNCHANGED connections
  BY <1>3 DEF connections
<1>4. QED
  BY <1>1, <1>2, <1>3 DEF ReadFails

LEMMA PeersKeep ==
    ASSUME ConnectionTypes, Peers
    PROVE  ConnectionTypes'
<1> USE DEF ConnectionTypes
<1> HIDE DEF Conns, Blocks
<1>1. PICK d \in Conns : PeerAnswers(d) \/ PeerPings(d) \/ PeerCloses(d)
  BY DEF Peers
<1>2. asked[d] \in Seq(Blocks) /\ wire[d] \in Seq(Messages)
  OBVIOUS
<1>3. CASE PeerAnswers(d)
  <2>1. /\ asked[d] # <<>> /\ asked' = [asked EXCEPT ![d] = Tail(asked[d])]
        /\ UNCHANGED <<conn, late>>
    BY <1>3 DEF PeerAnswers
  <2>2. PICK m \in {Head(asked[d]), NotFound} : wire' = [wire EXCEPT ![d] = Append(wire[d], m)]
    BY <1>3 DEF PeerAnswers
  <2>3. m \in Messages /\ Tail(asked[d]) \in Seq(Blocks)
    BY <1>2, <2>1, <2>2, TailType, MessageKinds
  <2>4. Append(wire[d], m) \in Seq(Messages)
    BY <1>2, <2>3, AppendType
  <2>5. wire' \in [Conns -> Seq(Messages)]
    BY <2>2, <2>4, Update
  <2>6. asked' \in [Conns -> Seq(Blocks)]
    BY <2>1, <2>3, Update
  <2>7. QED
    BY <2>1, <2>5, <2>6
<1>4. CASE PeerPings(d)
  <2>1. /\ wire' = [wire EXCEPT ![d] = Append(wire[d], Ping)]
        /\ UNCHANGED <<conn, asked, late>>
    BY <1>4 DEF PeerPings
  <2>2. Append(wire[d], Ping) \in Seq(Messages)
    BY <1>2, AppendType, MessageKinds
  <2>3. wire' \in [Conns -> Seq(Messages)]
    BY <2>1, <2>2, Update
  <2>4. QED
    BY <2>1, <2>3
<1>5. CASE PeerCloses(d)
  <2>1. PICK kept \in {wire[d], <<>>} : wire' = [wire EXCEPT ![d] = kept]
    BY <1>5 DEF PeerCloses
  <2>2. kept \in Seq(Messages)
    <3>1. <<>> \in Seq(Messages)
      OBVIOUS
    <3>2. QED
      BY <1>2, <2>1, <3>1, Zenon
  <2>3. wire' \in [Conns -> Seq(Messages)]
    BY <2>1, <2>2, Update
  <2>4. asked' \in [Conns -> Seq(Blocks)]
    BY <1>5, Update DEF PeerCloses
  <2>5. QED
    BY <1>5, <2>3, <2>4 DEF PeerCloses
<1>6. QED
  BY <1>1, <1>3, <1>4, <1>5

LEMMA SendKeeps ==
    ASSUME ConnectionTypes, NEW c, NEW blocks \in Seq(Blocks), Send(c, blocks)
    PROVE  ConnectionTypes'
<1> USE DEF ConnectionTypes
<1> HIDE DEF Conns, Blocks
<1> DEFINE sent == IF conn[c] = "open" THEN asked[c] \o blocks ELSE asked[c]
<1>1. asked' = [asked EXCEPT ![c] = sent] /\ UNCHANGED <<conn, wire, late>>
  BY DEF Send
<1>2. c \in Conns => sent \in Seq(Blocks)
  OBVIOUS
<1>3. asked' \in [Conns -> Seq(Blocks)]
  BY <1>1, <1>2, Update
<1>4. QED
  BY <1>1, <1>3

LEMMA ConnectionKeeps ==
    ASSUME ConnectionTypes, NEW c,
           \/ Connect(c) \/ ReadMessage(c) \/ ReadFails(c)
           \/ Peers \/ UNCHANGED connections
    PROVE  ConnectionTypes'
<1>1. CASE Connect(c)
  BY <1>1 DEF Connect, ConnectionTypes
<1>2. CASE UNCHANGED connections
  BY <1>2 DEF connections, ConnectionTypes
<1>3. QED
  BY <1>1, <1>2, ReadKeeps, PeersKeep

LEMMA WorkerTypes ==
    ASSUME IInv, ConnectionTypes, NEW c \in Conns, Worker(c)
    PROVE  ConnectionTypes'
<1>1. CASE TakeBlock(c)
  <2>1. <<Head(queue)>> \in Seq(Blocks)
    BY <1>1, TakeBlockKeeps
  <2>2. QED
    BY <1>1, <2>1, SendKeeps DEF TakeBlock
<1>2. ReadPing(c) \/ ReadAnswer(c) => ReadMessage(c)
  BY DEF ReadPing, ReadAnswer
<1>3. QED
  BY <1>1, <1>2, ConnectionKeeps DEF Worker, Leave, Pong, GotBlock, Fail, PutBack

LEMMA MainThreadTypes ==
    ASSUME IInv, ConnectionTypes, MainTypes, Main
    PROVE  ConnectionTypes' /\ MainTypes'
<1> USE DEF MainTypes, Ended
<1>1. ReadPing(Peer) \/ ReadAnswer(Peer) => ReadMessage(Peer)
  BY DEF ReadPing, ReadAnswer
<1>2. window \in 0..WindowSize
  BY DEF IInv, QueueTypes
<1>3. CASE ConnectPrimary \/ Reconnect \/ WarmPool
  <2>1. \A c \in Conns : <<c>> \in Seq(Conns) /\ Append(pool, c) \in Seq(Conns)
    OBVIOUS
  <2>2. \/ UNCHANGED <<connections, pool>>
        \/ \E c \in Conns : Connect(c) /\ pool' \in Seq(Conns)
    BY <1>3, <2>1 DEF ConnectPrimary, Reconnect, WarmPool
  <2>3. ConnectionTypes' /\ pool' \in Seq(Conns)
    BY <2>2, ConnectionKeeps
  <2>4. level' \in Nat /\ attempts' \in Nat /\ remaining' \in Nat /\ mode' = mode
    BY <1>3 DEF ConnectPrimary, Reconnect, WarmPool
  <2>5. phase' \in {"indexing", "stopped", "asking", "crashed", phase}
    BY <1>3 DEF ConnectPrimary, Reconnect, WarmPool
  <2>6. QED
    BY <2>3, <2>4, <2>5
<1>4. CASE BuildIndex \/ NoMoreLevels \/ PoolTooSmall \/ StartLevel \/ Join \/ BatchDone
  <2>1. ConnectionTypes'
    BY <1>4, ConnectionKeeps
       DEF BuildIndex, NoMoreLevels, PoolTooSmall, StartLevel, Join, BatchDone
  <2>2. QED
    BY <1>4, <2>1 DEF BuildIndex, NoMoreLevels, PoolTooSmall, StartLevel, Join, BatchDone
<1>5. CASE Ask
  <2>1. CASE level \in DOMAIN Batches
    <3>1. Batches[level] \in Seq(Blocks)
      BY <1>2, <1>5, <2>1, BatchTypes DEF Ask
    <3>2. ConnectionTypes'
      BY <1>5, <2>1, <3>1, SendKeeps DEF Ask
    <3>3. Len(Batches[level]) \in Nat
      BY <3>1
    <3>4. QED
      BY <1>5, <2>1, <3>2, <3>3 DEF Ask
  <2>2. CASE level \notin DOMAIN Batches
    BY <1>5, <2>2, ConnectionKeeps DEF Ask
  <2>3. QED
    BY <2>1, <2>2
<1>6. CASE IndexPing \/ DrainPing \/ Drain \/ DrainFails
  <2>1. ConnectionTypes'
    BY <1>1, <1>6, ConnectionKeeps DEF IndexPing, DrainPing, Drain, DrainFails
  <2>2. QED
    BY <1>6, <2>1 DEF IndexPing, DrainPing, Drain, DrainFails, main
<1>7. QED
  BY <1>3, <1>4, <1>5, <1>6 DEF Main

Types == IInv /\ ConnectionTypes /\ MainTypes

LEMMA TypesInvariant == Spec => []Types
<1> DEFINE Both == ConnectionTypes /\ MainTypes
<1>1. Init => Both
  <2> SUFFICES ASSUME Init PROVE Both
    OBVIOUS
  <2>1. ConnectionTypes
    BY DEF Init, ConnectionInit, ConnectionTypes
  <2>2. MainTypes
    BY DEF Init, MainTypes
  <2>3. QED
    BY <2>1, <2>2
<1>2. IInv /\ Both /\ [Next]_vars => Both'
  <2> SUFFICES ASSUME IInv, Both, [Next]_vars PROVE Both'
    OBVIOUS
  <2>1. ASSUME NEW c \in Conns, Worker(c) PROVE Both'
    <3>1. ConnectionTypes'
      BY <2>1, WorkerTypes
    <3>2. MainTypes'
      BY <2>1, MainStays DEF MainTypes, main
    <3>3. QED
      BY <3>1, <3>2
  <2>2. CASE Main
    BY <2>2, MainThreadTypes
  <2>3. CASE Peers /\ UNCHANGED main
    <3>1. ConnectionTypes'
      BY <2>3, ConnectionKeeps
    <3>2. QED
      BY <2>3, <3>1 DEF MainTypes, main
  <2>4. CASE UNCHANGED vars
    <3>1. ConnectionTypes'
      BY <2>4, ConnectionKeeps DEF vars
    <3>2. QED
      BY <2>4, <3>1 DEF MainTypes, main, vars
  <2>5. QED
    BY <2>1, <2>2, <2>3, <2>4 DEF Next
<1>3. QED
  BY <1>1, <1>2, Invariance, PTL DEF Spec, Types

(* Every variable keeps its type, for any number of connections, blocks and *)
(* levels.                                                                  *)
THEOREM TypeCorrect == Spec => []TypeOK
<1>1. Types => TypeOK
  BY DEF Types, IInv, QueueTypes, ConnectionTypes, MainTypes, TypeOK
<1>2. QED
  BY <1>1, TypesInvariant, PTL

(***************************************************************************)
(* Answers in step.                                                        *)
(***************************************************************************)
\* Sequences as functions on 1..n, which is all that the count looks at.
LEMMA CountType ==
    ASSUME NEW s, NEW i \in Nat
    PROVE  /\ IsFiniteSet({j \in 1..i : s[j] # Ping})
           /\ AnswersUpTo(s, i) \in Nat
<1>1. IsFiniteSet(1..i)
  BY FS_Interval
<1>2. {j \in 1..i : s[j] # Ping} \subseteq 1..i
  OBVIOUS
<1>3. IsFiniteSet({j \in 1..i : s[j] # Ping})
  BY <1>1, <1>2, FS_Subset
<1>4. QED
  BY <1>3, FS_CardinalityType DEF AnswersUpTo

LEMMA CountNone ==
    ASSUME NEW s, NEW i \in Nat
    PROVE  AnswersUpTo(s, i) = 0 <=> \A j \in 1..i : s[j] = Ping
<1>1. AnswersUpTo(s, i) = 0 <=> {j \in 1..i : s[j] # Ping} = {}
  BY CountType, FS_EmptySet DEF AnswersUpTo
<1>2. QED
  BY <1>1

LEMMA CountStep ==
    ASSUME NEW s, NEW i \in Nat
    PROVE  AnswersUpTo(s, i + 1) = AnswersUpTo(s, i) + (IF s[i + 1] = Ping THEN 0 ELSE 1)
<1> DEFINE A == {j \in 1..i : s[j] # Ping}
           B == {j \in 1..(i + 1) : s[j] # Ping}
<1>1. IsFiniteSet(A)
  BY CountType
<1>2. i + 1 \notin A
  OBVIOUS
<1>3. /\ AnswersUpTo(s, i) = Cardinality(A) /\ AnswersUpTo(s, i + 1) = Cardinality(B)
      /\ Cardinality(A) \in Nat
  BY CountType DEF AnswersUpTo
<1>4. CASE s[i + 1] = Ping
  <2>1. B = A
    BY <1>4
  <2> HIDE DEF A, B
  <2>2. QED
    BY <1>3, <1>4, <2>1
<1>5. CASE s[i + 1] # Ping
  <2>1. B = A \cup {i + 1}
    BY <1>5
  <2> HIDE DEF A, B
  <2>2. Cardinality(B) = Cardinality(A) + 1
    BY <1>1, <1>2, <2>1, FS_AddElement
  <2>3. QED
    BY <1>3, <1>5, <2>2
<1>6. QED
  BY <1>4, <1>5

LEMMA CountGrows ==
    ASSUME NEW s, NEW i \in Nat, NEW n \in Nat, i <= n
    PROVE  AnswersUpTo(s, i) <= AnswersUpTo(s, n)
<1>1. {j \in 1..i : s[j] # Ping} \subseteq {j \in 1..n : s[j] # Ping}
  OBVIOUS
<1>2. QED
  BY <1>1, CountType, FS_Subset DEF AnswersUpTo

LEMMA CountSame ==
    ASSUME NEW s, NEW t, NEW i \in Nat, \A j \in 1..i : s[j] = t[j]
    PROVE  AnswersUpTo(s, i) = AnswersUpTo(t, i)
<1>1. {j \in 1..i : s[j] # Ping} = {j \in 1..i : t[j] # Ping}
  OBVIOUS
<1>2. QED
  BY <1>1 DEF AnswersUpTo

(* Without its first message a sequence has the answers it had, or one less.*)
LEMMA CountShift ==
    ASSUME NEW s, NEW t, NEW i \in Nat, \A j \in 1..i : t[j] = s[j + 1]
    PROVE  AnswersUpTo(s, i + 1) = AnswersUpTo(t, i) + (IF s[1] = Ping THEN 0 ELSE 1)
<1> DEFINE A == {j \in 1..i : t[j] # Ping}
           B == {j \in 2..(i + 1) : s[j] # Ping}
           C == {j \in 1..(i + 1) : s[j] # Ping}
           next == [j \in A |-> j + 1]
<1>1. IsFiniteSet(A) /\ Cardinality(A) \in Nat
  BY CountType DEF AnswersUpTo
<1>2. AnswersUpTo(t, i) = Cardinality(A) /\ AnswersUpTo(s, i + 1) = Cardinality(C)
  BY DEF AnswersUpTo
<1>3. next \in [A -> B] /\ IsInjective(next)
  <2>1. \A j \in A : j \in Nat /\ j + 1 \in B
    OBVIOUS
  <2>2. DOMAIN next = A /\ \A j \in A : next[j] = j + 1
    OBVIOUS
  <2>3. QED
    BY <2>1, <2>2 DEF IsInjective
<1>4. \A b \in B : \E a \in A : next[a] = b
  <2> SUFFICES ASSUME NEW b \in B PROVE \E a \in A : next[a] = b
    OBVIOUS
  <2>1. b - 1 \in A /\ next[b - 1] = b
    OBVIOUS
  <2>2. QED
    BY <2>1
<1>5. next \in Bijection(A, B)
  BY <1>3, <1>4, Zenon DEF Bijection, Injection, Surjection
<1>6. IsFiniteSet(B) /\ Cardinality(B) = Cardinality(A)
  BY <1>1, <1>5, FS_Bijection DEF ExistsBijection
<1>7. CASE s[1] = Ping
  <2>1. C = B
    BY <1>7
  <2> HIDE DEF A, B, C
  <2>2. QED
    BY <1>1, <1>2, <1>6, <1>7, <2>1
<1>8. CASE s[1] # Ping
  <2>1. C = B \cup {1} /\ 1 \notin B
    BY <1>8
  <2> HIDE DEF A, B, C
  <2>2. Cardinality(C) = Cardinality(B) + 1
    BY <1>6, <2>1, FS_AddElement
  <2>3. QED
    BY <1>1, <1>2, <1>6, <1>8, <2>2
<1>9. QED
  BY <1>7, <1>8

LEMMA CountPastAnswer ==
    ASSUME NEW s, NEW t, NEW i \in Nat, \A j \in 1..i : t[j] = s[j + 1], s[1] # Ping
    PROVE  AnswersUpTo(s, i + 1) = AnswersUpTo(t, i) + 1
BY CountShift

LEMMA CountOfNothing == \A s : AnswersUpTo(s, 0) = 0
<1>1. \A s : \A j \in 1..0 : s[j] = Ping
  OBVIOUS
<1>2. QED
  BY <1>1, CountNone

LEMMA SequenceFacts ==
    ASSUME NEW S, NEW s \in Seq(S)
    PROVE  /\ Len(s) \in Nat /\ DOMAIN s = 1..Len(s)
           /\ \A i \in 1..Len(s) : s[i] \in S
           /\ s # <<>> => /\ Len(s) > 0 /\ Head(s) = s[1] /\ Head(s) \in S
                          /\ Tail(s) \in Seq(S) /\ Len(Tail(s)) = Len(s) - 1
                          /\ \A i \in 1..(Len(s) - 1) : Tail(s)[i] = s[i + 1]
           /\ Len(s) = 0 => s = <<>>
OBVIOUS

LEMMA AppendFacts ==
    ASSUME NEW S, NEW s \in Seq(S), NEW e \in S
    PROVE  /\ Append(s, e) \in Seq(S) /\ Len(Append(s, e)) = Len(s) + 1
           /\ \A i \in 1..Len(s) : Append(s, e)[i] = s[i]
           /\ Append(s, e)[Len(s) + 1] = e
OBVIOUS

LEMMA NothingInStep == InStep(<<>>, <<>>, <<>>)
BY CountOfNothing DEF InStep

(* A ping may arrive at any moment.                                         *)
LEMMA PingArrives ==
    ASSUME NEW a \in Seq(Messages), NEW r \in Seq(Blocks), NEW b \in Seq(Blocks),
           InStep(a, r, b)
    PROVE  InStep(Append(a, Ping), r, b)
<1> HIDE DEF Blocks, Conns
<1> DEFINE t == Append(a, Ping)
           n == Len(a)
<1>1. Ping \in Messages
  BY DEF Messages, Ping
<1>2. /\ t \in Seq(Messages) /\ Len(t) = n + 1 /\ DOMAIN t = 1..(n + 1)
      /\ \A i \in 1..n : t[i] = a[i]
      /\ t[n + 1] = Ping /\ n \in Nat /\ DOMAIN a = 1..n
  BY <1>1, AppendFacts, SequenceFacts
<1> HIDE DEF t, n
<1>3. ASSUME NEW i \in Nat, i <= n
      PROVE  AnswersUpTo(t, i) = AnswersUpTo(a, i) /\ AnswersUpTo(a, i) \in Nat
  <2>1. \A j \in 1..i : t[j] = a[j]
    BY <1>2, <1>3
  <2>2. QED
    BY <2>1, CountSame, CountType
<1>4. AnswersUpTo(t, n + 1) = AnswersUpTo(a, n)
  <2>1. AnswersUpTo(t, n + 1) = AnswersUpTo(t, n) + 0
    BY <1>2, CountStep
  <2>2. QED
    BY <1>2, <1>3, <2>1
<1>5. ASSUME NEW i \in DOMAIN t, t[i] # Ping
      PROVE  t[i] \in {b[AnswersUpTo(t, i)], NotFound}
  <2>1. i \in 1..n /\ t[i] = a[i] /\ AnswersUpTo(t, i) = AnswersUpTo(a, i)
    BY <1>2, <1>3, <1>5
  <2>2. QED
    BY <1>2, <1>5, <2>1 DEF InStep, n
<1>6. QED
  BY <1>2, <1>4, <1>5 DEF InStep, n, t

(* So may the answer to the first request.                                  *)
LEMMA AnswerArrives ==
    ASSUME NEW a \in Seq(Messages), NEW r \in Seq(Blocks), NEW b \in Seq(Blocks),
           InStep(a, r, b), r # <<>>, NEW m \in {Head(r), NotFound}
    PROVE  InStep(Append(a, m), Tail(r), b)
<1> DEFINE t == Append(a, m)
           n == Len(a)
           k == AnswersUpTo(a, n)
<1>1. m \in Messages /\ m # Ping
  <2>1. Head(r) \in Blocks
    BY SequenceFacts
  <2>2. QED
    BY <2>1 DEF Messages, Ping, NotFound
<1>2. /\ t \in Seq(Messages) /\ Len(t) = n + 1 /\ DOMAIN t = 1..(n + 1)
      /\ \A i \in 1..n : t[i] = a[i]
      /\ t[n + 1] = m /\ n \in Nat /\ DOMAIN a = 1..n
  BY <1>1, AppendFacts, SequenceFacts
<1>3. /\ Len(r) \in Nat /\ Len(r) > 0 /\ DOMAIN r = 1..Len(r) /\ Head(r) = r[1]
      /\ Tail(r) \in Seq(Blocks)
      /\ Len(Tail(r)) = Len(r) - 1 /\ DOMAIN Tail(r) = 1..(Len(r) - 1)
      /\ \A i \in 1..(Len(r) - 1) : Tail(r)[i] = r[i + 1]
  BY SequenceFacts
<1> HIDE DEF t, n, Blocks, Conns
<1>4. k \in Nat
  BY <1>2, CountType
<1>5. /\ k + Len(r) = Len(b)
      /\ \A i \in 1..n : a[i] # Ping => a[i] \in {b[AnswersUpTo(a, i)], NotFound}
      /\ \A i \in 1..Len(r) : r[i] = b[k + i]
  BY <1>2, <1>3 DEF InStep, n
<1> HIDE DEF k
<1>6. ASSUME NEW i \in Nat, i <= n
      PROVE  AnswersUpTo(t, i) = AnswersUpTo(a, i)
  <2>1. \A j \in 1..i : t[j] = a[j]
    BY <1>2, <1>6
  <2>2. QED
    BY <2>1, CountSame
<1>7. AnswersUpTo(t, n + 1) = k + 1
  <2>1. AnswersUpTo(t, n + 1) = AnswersUpTo(t, n) + 1
    BY <1>1, <1>2, CountStep
  <2>2. QED
    BY <1>2, <1>6, <2>1 DEF k
<1>8. ASSUME NEW i \in DOMAIN t, t[i] # Ping
      PROVE  t[i] \in {b[AnswersUpTo(t, i)], NotFound}
  <2>1. CASE i = n + 1
    <3>1. r[1] = b[k + 1]
      BY <1>3, <1>5
    <3>2. QED
      BY <1>2, <1>3, <1>7, <2>1, <3>1
  <2>2. CASE i # n + 1
    <3>1. i \in 1..n /\ t[i] = a[i] /\ AnswersUpTo(t, i) = AnswersUpTo(a, i)
      BY <1>2, <1>6, <2>2
    <3>2. QED
      BY <1>5, <1>8, <3>1
  <2>3. QED
    BY <2>1, <2>2
<1>9. \A i \in DOMAIN Tail(r) : Tail(r)[i] = b[k + 1 + i]
  <2> SUFFICES ASSUME NEW i \in 1..(Len(r) - 1) PROVE Tail(r)[i] = b[k + 1 + i]
    BY <1>3
  <2>1. i + 1 \in 1..Len(r) /\ k + (i + 1) = k + 1 + i
    BY <1>3, <1>4
  <2>2. QED
    BY <1>3, <1>5, <2>1
<1>10. k + 1 + Len(Tail(r)) = Len(b)
  BY <1>3, <1>4, <1>5
<1>11. QED
  BY <1>2, <1>7, <1>8, <1>9, <1>10 DEF InStep, t

(* Where nothing is due, blocks may be asked for.                           *)
LEMMA BlocksAsked ==
    ASSUME NEW a \in Seq(Messages), NEW r \in Seq(Blocks), NEW b \in Seq(Blocks),
           InStep(a, r, <<>>)
    PROVE  InStep(a, r \o b, b)
<1> DEFINE n == Len(a)
<1>1. n \in Nat /\ DOMAIN a = 1..n /\ Len(r) \in Nat /\ (Len(r) = 0 => r = <<>>)
  BY SequenceFacts
<1>2. AnswersUpTo(a, n) + Len(r) = 0 /\ AnswersUpTo(a, n) \in Nat
  <2>1. AnswersUpTo(a, n) + Len(r) = Len(<<>>)
    BY DEF InStep
  <2>2. QED
    BY <1>1, <2>1, CountType
<1>3. AnswersUpTo(a, n) = 0 /\ r = <<>>
  BY <1>1, <1>2
<1>4. \A i \in 1..n : a[i] = Ping
  BY <1>1, <1>3, CountNone
<1>5. r \o b = b /\ Len(b) \in Nat
  BY <1>3
<1>6. \A i \in DOMAIN b : b[i] = b[0 + i]
  OBVIOUS
<1>7. QED
  BY <1>1, <1>3, <1>4, <1>5, <1>6 DEF InStep

(* A ping is read and nothing else changes ...                              *)
LEMMA PingRead ==
    ASSUME NEW a \in Seq(Messages), NEW r \in Seq(Blocks), NEW b \in Seq(Blocks),
           InStep(a, r, b), a # <<>>, Head(a) = Ping
    PROVE  InStep(Tail(a), r, b)
<1> DEFINE t == Tail(a)
           n == Len(a)
<1>1. /\ n \in Nat /\ n > 0 /\ DOMAIN a = 1..n /\ a[1] = Ping
      /\ t \in Seq(Messages) /\ Len(t) = n - 1 /\ DOMAIN t = 1..(n - 1)
      /\ \A i \in 1..(n - 1) : t[i] = a[i + 1]
  BY SequenceFacts
<1> HIDE DEF t, n, Blocks, Conns
<1>2. ASSUME NEW i \in Nat, i <= n - 1
      PROVE  AnswersUpTo(t, i) = AnswersUpTo(a, i + 1)
  <2> \A j \in 1..i : t[j] = a[j + 1]
    BY <1>1, <1>2
  <2>1. AnswersUpTo(a, i + 1) = AnswersUpTo(t, i) + 0
    BY <1>1, CountShift
  <2>2. AnswersUpTo(t, i) \in Nat
    BY CountType
  <2>3. QED
    BY <2>1, <2>2
<1>3. AnswersUpTo(t, n - 1) = AnswersUpTo(a, n)
  <2>1. n - 1 \in Nat /\ (n - 1) + 1 = n
    BY <1>1
  <2>2. QED
    BY <1>2, <2>1
<1>4. ASSUME NEW i \in DOMAIN t, t[i] # Ping
      PROVE  t[i] \in {b[AnswersUpTo(t, i)], NotFound}
  <2>1. i + 1 \in 1..n /\ i \in Nat /\ i <= n - 1
    BY <1>1
  <2>2. t[i] = a[i + 1] /\ AnswersUpTo(t, i) = AnswersUpTo(a, i + 1)
    BY <1>1, <1>2, <2>1
  <2>3. QED
    BY <1>1, <1>4, <2>1, <2>2 DEF InStep
<1>5. QED
  BY <1>1, <1>3, <1>4 DEF InStep, n, t

(* ... and an answer is the one that was due.                               *)
LEMMA AnswerRead ==
    ASSUME NEW a \in Seq(Messages), NEW r \in Seq(Blocks), NEW b \in Seq(Blocks),
           InStep(a, r, b), a # <<>>, Head(a) # Ping
    PROVE  b # <<>> /\ InStep(Tail(a), r, Tail(b))
<1> DEFINE t == Tail(a)
           n == Len(a)
           k == AnswersUpTo(a, n)
<1>1. /\ n \in Nat /\ n > 0 /\ DOMAIN a = 1..n /\ a[1] # Ping
      /\ t \in Seq(Messages) /\ Len(t) = n - 1 /\ DOMAIN t = 1..(n - 1)
      /\ \A i \in 1..(n - 1) : t[i] = a[i + 1]
  BY SequenceFacts
<1>2. Len(r) \in Nat /\ DOMAIN r = 1..Len(r)
  BY SequenceFacts
<1> HIDE DEF t, n, k, Blocks, Conns
<1>3. \A i \in Nat : AnswersUpTo(t, i) \in Nat /\ AnswersUpTo(a, i) \in Nat
  BY CountType
<1>4. ASSUME NEW i \in Nat, i <= n - 1
      PROVE  AnswersUpTo(a, i + 1) = AnswersUpTo(t, i) + 1
  <2>1. \A j \in 1..i : t[j] = a[j + 1]
    BY <1>1, <1>4
  <2>2. a[1] # Ping
    BY <1>1
  <2>3. QED
    BY <2>1, <2>2, CountPastAnswer
<1>5. k = AnswersUpTo(t, n - 1) + 1
  <2>1. n - 1 \in Nat /\ (n - 1) + 1 = n
    BY <1>1
  <2>2. QED
    BY <1>4, <2>1 DEF k
<1>6. /\ k + Len(r) = Len(b)
      /\ \A i \in 1..n : a[i] # Ping => a[i] \in {b[AnswersUpTo(a, i)], NotFound}
      /\ \A i \in 1..Len(r) : r[i] = b[k + i]
  BY <1>1, <1>2 DEF InStep, n, k
<1>7. k \in Nat /\ k > 0
  <2>1. n - 1 \in Nat
    BY <1>1
  <2>2. AnswersUpTo(t, n - 1) \in Nat
    BY <1>3, <2>1
  <2>3. QED
    BY <1>5, <2>2
<1>8. b # <<>>
  BY <1>2, <1>6, <1>7
<1>9. /\ Len(Tail(b)) = Len(b) - 1
      /\ \A i \in 1..(Len(b) - 1) : Tail(b)[i] = b[i + 1]
  BY <1>8, SequenceFacts
<1>10. ASSUME NEW i \in DOMAIN t, t[i] # Ping
       PROVE  t[i] \in {Tail(b)[AnswersUpTo(t, i)], NotFound}
  <2>1. i + 1 \in 1..n /\ i \in Nat /\ i <= n - 1 /\ t[i] = a[i + 1]
    BY <1>1
  <2>2. AnswersUpTo(a, i + 1) = AnswersUpTo(t, i) + 1
    BY <1>4, <2>1
  <2>3. a[i + 1] \in {b[AnswersUpTo(t, i) + 1], NotFound}
    BY <1>6, <1>10, <2>1, <2>2
  <2>4. AnswersUpTo(t, i) # 0
    <3>1. i \in 1..i
      BY <2>1, <1>1
    <3>2. QED
      BY <1>10, <2>1, <3>1, CountNone
  <2>5. AnswersUpTo(a, i + 1) <= k
    BY <1>1, <2>1, CountGrows DEF k
  <2>6. AnswersUpTo(t, i) \in 1..(Len(b) - 1)
    <3>1. AnswersUpTo(t, i) \in Nat
      BY <1>3, <2>1
    <3>2. k + Len(r) = Len(b)
      BY <1>6
    <3>3. QED
      BY <1>2, <1>7, <2>2, <2>4, <2>5, <3>1, <3>2
  <2>7. QED
    BY <1>9, <2>1, <2>3, <2>6
<1>11. ASSUME NEW i \in 1..Len(r)
       PROVE  r[i] = Tail(b)[k - 1 + i]
  <2>1. k - 1 + i \in 1..(Len(b) - 1) /\ (k - 1 + i) + 1 = k + i
    BY <1>2, <1>6, <1>7
  <2>2. QED
    BY <1>6, <1>9, <2>1
<1>12. AnswersUpTo(t, Len(t)) = k - 1
  <2>1. AnswersUpTo(t, n - 1) \in Nat
    BY <1>1, <1>3
  <2>2. QED
    BY <1>1, <1>5, <2>1 DEF k
<1>13. k - 1 + Len(r) = Len(b) - 1
  BY <1>2, <1>6, <1>7
<1>14. InStep(t, r, Tail(b))
  BY <1>1, <1>2, <1>9, <1>10, <1>11, <1>12, <1>13 DEF InStep
<1>15. QED
  BY <1>8, <1>14 DEF t

(***************************************************************************)
(* Every connection has its answers in step, whoever uses it.              *)
(***************************************************************************)
LEMMA Empty == <<>> \in Seq(Blocks)
OBVIOUS

\* On a connection that has not been made nothing was said.
Untouched ==
    \A c \in Conns : conn[c] = "unused" =>
        asked[c] = <<>> /\ wire[c] = <<>> /\ late[c] = 0

Same(d) ==
    conn'[d] = conn[d] /\ asked'[d] = asked[d] /\ wire'[d] = wire[d] /\ late'[d] = late[d]

(* What is done on one connection is not seen on the others.                *)
LEMMA Elsewhere ==
    ASSUME ConnectionTypes, Untouched, NEW c \in Conns,
           \/ Connect(c) \/ ReadMessage(c) \/ ReadFails(c)
           \/ \E b \in Seq(Blocks) : Send(c, b)
           \/ PeerAnswers(c) \/ PeerPings(c) \/ PeerCloses(c)
    PROVE  Untouched' /\ \A d \in Conns \ {c} : Same(d)
<1> HIDE DEF Conns, Blocks
<1> USE DEF Same, ConnectionTypes, Untouched
<1>1. CASE Connect(c)
  BY <1>1 DEF Connect
<1>2. CASE ReadMessage(c)
  BY <1>2 DEF ReadMessage
<1>3. CASE TimesOut(c)
  BY <1>3 DEF TimesOut
<1>4. CASE UNCHANGED connections
  BY <1>4 DEF connections
<1>5. ASSUME NEW b \in Seq(Blocks), Send(c, b)
      PROVE  Untouched' /\ \A d \in Conns \ {c} : Same(d)
  BY <1>5 DEF Send
<1>6. CASE PeerAnswers(c)
  BY <1>6 DEF PeerAnswers
<1>7. CASE PeerPings(c)
  BY <1>7 DEF PeerPings
<1>8. CASE PeerCloses(c)
  BY <1>8 DEF PeerCloses
<1>9. QED
  BY <1>1, <1>2, <1>3, <1>4, <1>5, <1>6, <1>7, <1>8 DEF ReadFails

(* The peers may answer, ping and hang up when they like.                   *)
LEMMA PeersStayInStep ==
    ASSUME ConnectionTypes, Untouched, Peers
    PROVE  /\ Untouched' /\ late' = late
           /\ \A c \in Conns, b \in Seq(Blocks) :
                 /\ conn[c] = "open" => InStep(wire[c], asked[c], b)
                 /\ conn'[c] = "open"
                 => InStep(wire'[c], asked'[c], b)
<1> HIDE DEF Conns, Blocks
<1>1. PICK d \in Conns : PeerAnswers(d) \/ PeerPings(d) \/ PeerCloses(d)
  BY DEF Peers
<1>2. Untouched' /\ \A c \in Conns \ {d} : Same(c)
  BY <1>1, Elsewhere
<1>3. late' = late
  BY <1>1 DEF PeerAnswers, PeerPings, PeerCloses
<1>4. asked[d] \in Seq(Blocks) /\ wire[d] \in Seq(Messages)
  BY DEF ConnectionTypes
<1>5. ASSUME NEW b \in Seq(Blocks), conn[d] = "open" => InStep(wire[d], asked[d], b),
             conn'[d] = "open"
      PROVE  InStep(wire'[d], asked'[d], b)
  <2>1. CASE PeerAnswers(d)
    <3>1. PICK m \in {Head(asked[d]), NotFound} : wire'[d] = Append(wire[d], m)
      BY <2>1 DEF PeerAnswers, ConnectionTypes
    <3>2. conn[d] = "open" /\ asked[d] # <<>> /\ asked'[d] = Tail(asked[d])
      BY <2>1 DEF PeerAnswers, ConnectionTypes
    <3>3. InStep(Append(wire[d], m), Tail(asked[d]), b)
      BY <1>4, <1>5, <3>2, AnswerArrives
    <3>4. QED
      BY <3>1, <3>2, <3>3
  <2>2. CASE PeerPings(d)
    <3>1. /\ conn[d] = "open" /\ asked'[d] = asked[d]
          /\ wire'[d] = Append(wire[d], Ping)
      BY <2>2 DEF PeerPings, ConnectionTypes
    <3>2. InStep(Append(wire[d], Ping), asked[d], b)
      BY <1>4, <1>5, <3>1, PingArrives
    <3>3. QED
      BY <3>1, <3>2
  <2>3. CASE PeerCloses(d)
    BY <1>5, <2>3 DEF PeerCloses, ConnectionTypes
  <2>4. QED
    BY <1>1, <2>1, <2>2, <2>3
<1>6. ASSUME NEW c \in Conns, NEW b \in Seq(Blocks), c # d,
             conn[c] = "open" => InStep(wire[c], asked[c], b), conn'[c] = "open"
      PROVE  InStep(wire'[c], asked'[c], b)
  <2>1. Same(c)
    BY <1>2, <1>6
  <2>2. QED
    BY <1>6, <2>1 DEF Same
<1>7. QED
  BY <1>2, <1>3, <1>5, <1>6

LEMMA ReadingStaysInStep ==
    ASSUME ConnectionTypes, NEW c \in Conns, NEW b \in Seq(Blocks),
           conn[c] = "open" => InStep(wire[c], asked[c], b), conn'[c] = "open"
    PROVE  /\ ReadPing(c) => InStep(wire'[c], asked'[c], b)
           /\ ReadAnswer(c) => b # <<>> /\ InStep(wire'[c], asked'[c], Tail(b))
<1> HIDE DEF Conns, Blocks
<1>1. asked[c] \in Seq(Blocks) /\ wire[c] \in Seq(Messages)
  BY DEF ConnectionTypes
<1>2. ASSUME ReadMessage(c)
      PROVE  /\ wire[c] # <<>> /\ wire'[c] = Tail(wire[c]) /\ asked'[c] = asked[c]
             /\ InStep(wire[c], asked[c], b)
  BY <1>2 DEF ReadMessage, ConnectionTypes
<1>3. ASSUME ReadPing(c) PROVE InStep(wire'[c], asked'[c], b)
  <2>1. ReadMessage(c) /\ Head(wire[c]) = Ping
    BY <1>3 DEF ReadPing
  <2>2. InStep(Tail(wire[c]), asked[c], b)
    BY <1>1, <1>2, <2>1, PingRead
  <2>3. QED
    BY <1>2, <2>1, <2>2
<1>4. ASSUME ReadAnswer(c) PROVE b # <<>> /\ InStep(wire'[c], asked'[c], Tail(b))
  <2>1. ReadMessage(c) /\ Head(wire[c]) # Ping
    BY <1>4 DEF ReadAnswer
  <2>2. b # <<>> /\ InStep(Tail(wire[c]), asked[c], Tail(b))
    BY <1>1, <1>2, <2>1, AnswerRead
  <2>3. QED
    BY <1>2, <2>1, <2>2
<1>5. QED
  BY <1>3, <1>4

LEMMA SendingStaysInStep ==
    ASSUME ConnectionTypes, NEW c \in Conns, NEW b \in Seq(Blocks), Send(c, b),
           conn[c] = "open" => InStep(wire[c], asked[c], <<>>), conn'[c] = "open"
    PROVE  InStep(wire'[c], asked'[c], b)
<1> HIDE DEF Conns, Blocks
<1>1. asked[c] \in Seq(Blocks) /\ wire[c] \in Seq(Messages)
  BY DEF ConnectionTypes
<1>2. conn[c] = "open" /\ wire'[c] = wire[c] /\ asked'[c] = asked[c] \o b
  BY DEF Send, ConnectionTypes
<1>3. InStep(wire[c], asked[c] \o b, b)
  BY <1>1, <1>2, BlocksAsked
<1>4. QED
  BY <1>2, <1>3

\* A new connection begins with nothing due, and was never late.
LEMMA ConnectingIsInStep ==
    ASSUME ConnectionTypes, Untouched, NEW c \in Conns, Connect(c)
    PROVE  InStep(wire'[c], asked'[c], <<>>) /\ late'[c] = 0
<1> HIDE DEF Conns, Blocks
<1>1. wire'[c] = <<>> /\ asked'[c] = <<>> /\ late'[c] = 0
  BY DEF Connect, Untouched
<1>2. QED
  BY <1>1, NothingInStep

LEMMA RestFacts ==
    ASSUME NEW S, NEW batch \in Seq(S), NEW n \in 0..Len(batch)
    PROVE  /\ Rest(batch, n) \in Seq(S)
           /\ Rest(batch, 0) = <<>> /\ Rest(batch, Len(batch)) = batch
           /\ n > 0 => Tail(Rest(batch, n)) = Rest(batch, n - 1)
<1>1. Rest(batch, n) \in Seq(S)
  BY DEF Rest
<1>2. Rest(batch, 0) = <<>>
  BY DEF Rest
<1>3. Rest(batch, Len(batch)) = batch
  BY DEF Rest
<1>4. n > 0 => Tail(Rest(batch, n)) = Rest(batch, n - 1)
  BY DEF Rest
<1>5. QED
  BY <1>1, <1>2, <1>3, <1>4

(***************************************************************************)
(* The inductive invariant.                                                *)
(***************************************************************************)
\* Each phase belongs to one way of using the connections.
Modes ==
    /\ phase \in {"warming", "fetching"} => mode = "peers"
    /\ phase \in {"asking", "draining", "reconnecting"} => mode # "peers"

\* What a worker is owed.
Due(c) == IF worker[c] = "waiting" THEN <<hand[c]>> ELSE <<>>

WorkersInStep ==
    \A c \in Conns :
        mode = "peers" /\ conn[c] = "open" /\ late[c] = 0 => InStep(wire[c], asked[c], Due(c))

\* What is left of the batch, in the phases in which the main thread has the
\* last connection to itself.
Left == IF phase = "draining" THEN Rest(Batches[level], remaining) ELSE <<>>

MainInStep ==
    phase \in {"indexing", "asking", "draining"} =>
        /\ pool # <<>> /\ late[Peer] = 0
        /\ conn[Peer] = "open" => InStep(wire[Peer], asked[Peer], Left)
        /\ phase = "draining" =>
              level \in DOMAIN Batches /\ remaining \in 0..Len(Batches[level])

StepInv == Untouched /\ Modes /\ WorkersInStep /\ MainInStep

LEMMA PeerType ==
    ASSUME MainTypes, pool # <<>>
    PROVE  Peer \in Conns
<1> HIDE DEF Conns
<1>1. pool \in Seq(Conns)
  BY DEF MainTypes
<1>2. Len(pool) \in 1..Len(pool)
  BY <1>1
<1>3. QED
  BY <1>1, <1>2, SequenceFacts DEF Peer, Last

LEMMA LeftType ==
    ASSUME Types, StepInv, phase \in {"indexing", "asking", "draining"}
    PROVE  Left \in Seq(Blocks)
<1> HIDE DEF Conns, Blocks
<1>1. CASE phase = "draining"
  <2>1. /\ window \in 0..WindowSize /\ mode \in {"single", "latency"}
        /\ level \in DOMAIN Batches /\ remaining \in 0..Len(Batches[level])
    BY <1>1 DEF Types, IInv, QueueTypes, MainTypes, StepInv, Modes, MainInStep
  <2>2. Batches[level] \in Seq(Blocks)
    BY <2>1, BatchTypes
  <2>3. QED
    BY <1>1, <2>1, <2>2, RestFacts DEF Left
<1>2. CASE phase # "draining"
  BY <1>2, Empty DEF Left
<1>3. QED
  BY <1>1, <1>2

LEMMA DueType ==
    ASSUME IInv, NEW c \in Conns
    PROVE  Due(c) \in Seq(Blocks)
<1>1. worker[c] = "waiting" => hand[c] \in Blocks
  BY DEF IInv, HeldOnce, Busy
<1>2. CASE worker[c] = "waiting"
  <2>1. <<hand[c]>> \in Seq(Blocks)
    BY <1>1, <1>2
  <2>2. QED
    BY <1>2, <2>1 DEF Due
<1>3. CASE worker[c] # "waiting"
  BY <1>3, Empty DEF Due
<1>4. QED
  BY <1>2, <1>3

(* The workers keep in step with their own peers, and leave the others be.  *)
LEMMA WorkerStaysInStep ==
    ASSUME Types, StepInv, NEW c \in Conns, Worker(c)
    PROVE  StepInv'
<1> HIDE DEF Conns, Blocks
<1>1. Working(c)
  BY DEF Worker, TakeBlock, Leave, Pong, GotBlock, Fail, PutBack, Working, Busy
<1>2. phase = "fetching"
  BY <1>1 DEF Types, IInv, OnlyTheTeam
<1>3. phase' = "fetching" /\ mode' = mode /\ mode = "peers"
  BY <1>2, MainStays DEF main, StepInv, Modes
<1>4. ReadPing(c) \/ ReadAnswer(c) => ReadMessage(c)
  BY DEF ReadPing, ReadAnswer
<1>5. /\ worker \in [Conns -> {"idle", "taking", "waiting", "failing", "failed", "left"}]
      /\ hand \in [Conns -> 0..WindowSize]
  BY DEF Types, IInv, QueueTypes
<1>6. Untouched' /\ \A d \in Conns \ {c} : Same(d)
  <2>1. CASE TakeBlock(c)
    <3>1. <<Head(queue)>> \in Seq(Blocks)
      BY <2>1, TakeBlockKeeps DEF Types
    <3>2. Send(c, <<Head(queue)>>)
      BY <2>1 DEF TakeBlock
    <3>3. QED
      BY <3>1, <3>2, Elsewhere DEF Types, StepInv
  <2>2. CASE Leave(c) \/ PutBack(c)
    <3>1. UNCHANGED connections
      BY <2>2 DEF Leave, PutBack
    <3>2. QED
      BY <3>1 DEF connections, Untouched, Same, StepInv
  <2>3. CASE Pong(c) \/ GotBlock(c) \/ Fail(c)
    BY <1>4, <2>3, Elsewhere DEF Pong, GotBlock, Fail, Types, StepInv
  <2>4. QED
    BY <2>1, <2>2, <2>3 DEF Worker
<1>7. \A d \in Conns \ {c} : Due(d)' = Due(d)
  BY <1>5 DEF Worker, TakeBlock, Leave, Pong, GotBlock, Fail, PutBack, threads, Due
<1>8. conn[c] = "open" /\ late[c] = 0 => InStep(wire[c], asked[c], Due(c))
  BY <1>3 DEF StepInv, WorkersInStep
<1>9. ASSUME conn'[c] = "open", late'[c] = 0
      PROVE  InStep(wire'[c], asked'[c], Due(c)')
  <2>1. CASE TakeBlock(c)
    <3>1. /\ Send(c, <<Head(queue)>>) /\ Due(c) = <<>> /\ Due(c)' = <<Head(queue)>>
          /\ late' = late /\ conn' = conn
      BY <1>5, <2>1 DEF TakeBlock, Send, Due
    <3>2. <<Head(queue)>> \in Seq(Blocks)
      BY <2>1, TakeBlockKeeps DEF Types
    <3>3. InStep(wire'[c], asked'[c], <<Head(queue)>>)
      BY <1>8, <1>9, <3>1, <3>2, SendingStaysInStep DEF Types
    <3>4. QED
      BY <3>1, <3>3
  <2>2. CASE Leave(c) \/ PutBack(c)
    <3>1. Due(c)' = <<>> /\ Due(c) = <<>> /\ UNCHANGED connections
      BY <1>5, <2>2 DEF Leave, PutBack, Due
    <3>2. QED
      BY <1>8, <1>9, <3>1 DEF connections
  <2>3. CASE Pong(c)
    <3>1. Due(c)' = Due(c) /\ ReadPing(c) /\ conn' = conn /\ late' = late
      BY <2>3 DEF Pong, threads, Due, ReadPing, ReadMessage
    <3>2. InStep(wire'[c], asked'[c], Due(c))
      BY <1>8, <1>9, <3>1, DueType, ReadingStaysInStep DEF Types
    <3>3. QED
      BY <3>1, <3>2
  <2>4. CASE GotBlock(c)
    <3>1. /\ Due(c) = <<hand[c]>> /\ Due(c)' = <<>> /\ ReadAnswer(c)
          /\ conn' = conn /\ late' = late
      BY <1>5, <2>4 DEF GotBlock, Due, ReadAnswer, ReadMessage
    <3>2. InStep(wire'[c], asked'[c], Tail(Due(c)))
      BY <1>8, <1>9, <3>1, DueType, ReadingStaysInStep DEF Types
    <3>3. Tail(Due(c)) = <<>>
      BY <3>1
    <3>4. QED
      BY <3>1, <3>2, <3>3
  <2>5. CASE Fail(c)
    <3>1. ReadFails(c) /\ late[c] \in Nat
      BY <2>5 DEF Fail, Types, ConnectionTypes
    <3>2. CASE TimesOut(c)
      <4>1. late'[c] = late[c] + 1
        BY <3>2 DEF TimesOut, Types, ConnectionTypes
      <4>2. QED
        BY <1>9, <3>1, <4>1
    <3>3. CASE ~TimesOut(c)
      BY <1>9, <3>1, <3>3 DEF ReadFails, connections
    <3>4. QED
      BY <3>2, <3>3
  <2>6. QED
    BY <2>1, <2>2, <2>3, <2>4, <2>5 DEF Worker
<1>10. WorkersInStep'
  <2> SUFFICES ASSUME NEW d \in Conns, mode' = "peers", conn'[d] = "open", late'[d] = 0
               PROVE  InStep(wire'[d], asked'[d], Due(d)')
    BY DEF WorkersInStep
  <2>1. CASE d # c
    <3>1. Same(d) /\ Due(d)' = Due(d)
      BY <1>6, <1>7, <2>1
    <3>2. QED
      BY <1>3, <3>1 DEF Same, StepInv, WorkersInStep
  <2>2. CASE d = c
    BY <1>9, <2>2
  <2>3. QED
    BY <2>1, <2>2
<1>11. Modes' /\ MainInStep'
  BY <1>3 DEF Modes, MainInStep
<1>12. QED
  BY <1>6, <1>10, <1>11 DEF StepInv

(* When nothing is done on the connections, what is due must stay the same. *)
LEMMA QuietStaysInStep ==
    ASSUME StepInv, UNCHANGED <<connections, mode>>, \A c \in Conns : Due(c)' = Due(c)
    PROVE  Untouched' /\ WorkersInStep'
<1> HIDE DEF Conns, Blocks
<1>1. Untouched'
  BY DEF StepInv, Untouched, connections
<1>2. UNCHANGED <<conn, asked, wire, late, mode>>
  BY DEF connections
<1>3. WorkersInStep'
  <2> SUFFICES ASSUME NEW c \in Conns, mode' = "peers", conn'[c] = "open", late'[c] = 0
               PROVE  InStep(wire'[c], asked'[c], Due(c)')
    BY DEF WorkersInStep
  <2>1. QED
    BY <1>2 DEF StepInv, WorkersInStep
<1>4. QED
  BY <1>1, <1>3

\* The same for one connection that the main thread uses: no worker does.
LEMMA MainUses ==
    ASSUME Types, StepInv, NEW c \in Conns, UNCHANGED <<threads, mode>>,
           Untouched', \A d \in Conns \ {c} : Same(d),
           mode = "peers" /\ conn'[c] = "open" /\ late'[c] = 0 =>
               InStep(wire'[c], asked'[c], Due(c))
    PROVE  WorkersInStep'
<1> HIDE DEF Conns, Blocks
<1>1. \A d \in Conns : Due(d)' = Due(d)
  BY DEF threads, Due
<1>2. mode' = mode
  OBVIOUS
<1> SUFFICES ASSUME NEW d \in Conns, mode' = "peers", conn'[d] = "open", late'[d] = 0
             PROVE  InStep(wire'[d], asked'[d], Due(d)')
  BY DEF WorkersInStep
<1>3. CASE d # c
  <2>1. Same(d)
    BY <1>3
  <2>2. QED
    BY <1>1, <1>2, <2>1 DEF Same, StepInv, WorkersInStep
<1>4. CASE d = c
  BY <1>1, <1>2, <1>4
<1>5. QED
  BY <1>3, <1>4

\* A connection is made while no worker works, and nothing is due on it.
LEMMA MainConnects ==
    ASSUME Types, StepInv, NEW c \in Conns, Connect(c), UNCHANGED <<threads, mode>>,
           phase # "fetching"
    PROVE  /\ Untouched' /\ WorkersInStep'
           /\ InStep(wire'[c], asked'[c], <<>>) /\ late'[c] = 0
<1> HIDE DEF Conns, Blocks
<1>1. Untouched' /\ \A d \in Conns \ {c} : Same(d)
  BY Elsewhere DEF Types, StepInv
<1>2. InStep(wire'[c], asked'[c], <<>>) /\ late'[c] = 0
  BY ConnectingIsInStep DEF Types, StepInv
<1>3. Due(c) = <<>>
  BY DEF Due, Types, IInv, OnlyTheTeam, Working, Busy
<1>4. QED
  BY <1>1, <1>2, <1>3, MainUses

LEMMA MainStaysInStep ==
    ASSUME Types, StepInv, Main
    PROVE  StepInv'
<1> HIDE DEF Conns, Blocks
<1>1. pool \in Seq(Conns) /\ mode \in {"peers", "single", "latency"} /\ remaining \in Nat
  BY DEF Types, MainTypes
<1>2. ASSUME NEW c \in Conns
      PROVE  /\ <<c>> # <<>> /\ Last(<<c>>) = c
             /\ Append(pool, c) # <<>> /\ Last(Append(pool, c)) = c
  <2>1. Len(pool) \in Nat /\ Len(Append(pool, c)) = Len(pool) + 1
    BY <1>1, AppendFacts
  <2>2. Append(pool, c)[Len(pool) + 1] = c
    BY <1>1, AppendFacts
  <2>3. Append(pool, c) # <<>>
    BY <2>1
  <2>4. QED
    BY <2>1, <2>2, <2>3 DEF Last
<1>3. ASSUME NEW c \in Conns, Connect(c), UNCHANGED <<threads, mode>>, phase # "fetching",
             pool' # <<>>, Last(pool') = c, phase' \in {"indexing", "asking"}
      PROVE  Untouched' /\ WorkersInStep' /\ MainInStep'
  <2>1. /\ Untouched' /\ WorkersInStep'
        /\ InStep(wire'[c], asked'[c], <<>>) /\ late'[c] = 0
    BY <1>3, MainConnects
  <2>2. Peer' = c /\ Left' = <<>>
    BY <1>3 DEF Peer, Left
  <2>3. QED
    BY <1>3, <2>1, <2>2 DEF MainInStep
<1>4. CASE ConnectPrimary
  <2>1. ASSUME NEW c \in Conns, Connect(c), pool' = <<c>>
        PROVE  StepInv'
    <3>1. /\ UNCHANGED <<threads, mode>> /\ phase = "connecting"
          /\ phase' \in {"indexing", "stopped"}
      BY <1>4 DEF ConnectPrimary
    <3>2. CASE phase' = "indexing"
      <4>1. Untouched' /\ WorkersInStep' /\ MainInStep'
        BY <1>2, <1>3, <2>1, <3>1, <3>2
      <4>2. QED
        BY <3>2, <4>1 DEF StepInv, Modes
    <3>3. CASE phase' = "stopped"
      <4>1. Untouched' /\ WorkersInStep'
        BY <2>1, <3>1, MainConnects
      <4>2. QED
        BY <3>3, <4>1 DEF StepInv, Modes, MainInStep
    <3>4. QED
      BY <3>1, <3>2, <3>3
  <2>2. CASE UNCHANGED <<connections, pool>> /\ phase' = "stopped"
    <3>1. UNCHANGED <<threads, mode>>
      BY <1>4 DEF ConnectPrimary
    <3>2. \A c \in Conns : Due(c)' = Due(c)
      BY <3>1 DEF threads, Due
    <3>3. Untouched' /\ WorkersInStep'
      BY <2>2, <3>1, <3>2, QuietStaysInStep
    <3>4. QED
      BY <2>2, <3>3 DEF StepInv, Modes, MainInStep
  <2>3. phase' = "indexing" \/ phase' = "stopped"
    BY <1>4 DEF ConnectPrimary
  <2>4. QED
    BY <1>4, <2>1, <2>2 DEF ConnectPrimary
<1>5. CASE BuildIndex
  <2>1. /\ phase = "indexing" /\ UNCHANGED <<connections, threads, mode, pool, level, remaining>>
        /\ \/ phase' = (IF mode = "peers" THEN "warming" ELSE "asking")
           \/ phase' = "crashed"
    BY <1>5 DEF BuildIndex
  <2>2. \A c \in Conns : Due(c)' = Due(c)
    BY <2>1 DEF threads, Due
  <2>3. Untouched' /\ WorkersInStep'
    BY <2>1, <2>2, QuietStaysInStep
  <2>4. Modes'
    BY <2>1 DEF Modes
  <2>5. MainInStep'
    <3>1. phase' # "draining" /\ Left' = <<>> /\ Left = <<>> /\ Peer' = Peer
      BY <2>1 DEF Left, Peer
    <3>2. QED
      BY <2>1, <3>1 DEF MainInStep, StepInv, connections
  <2>6. QED
    BY <2>3, <2>4, <2>5 DEF StepInv
<1>6. CASE IndexPing
  <2>1. /\ phase = "indexing" /\ ReadPing(Peer)
        /\ UNCHANGED <<threads, phase, mode, pool, level, remaining>>
    BY <1>6 DEF IndexPing, main
  <2>2. /\ pool # <<>> /\ late[Peer] = 0
        /\ conn[Peer] = "open" => InStep(wire[Peer], asked[Peer], <<>>)
    BY <2>1 DEF StepInv, MainInStep, Left
  <2>3. Peer \in Conns /\ Peer' = Peer /\ late' = late
    BY <2>1, <2>2, PeerType DEF Types, Peer, ReadPing, ReadMessage
  <2>4. Untouched' /\ \A d \in Conns \ {Peer} : Same(d)
    BY <2>1, <2>3, Elsewhere DEF Types, StepInv, ReadPing
  <2>5. <<>> \in Seq(Blocks)
    OBVIOUS
  <2>6. conn'[Peer] = "open" => InStep(wire'[Peer], asked'[Peer], <<>>)
    BY <2>1, <2>2, <2>3, <2>5, ReadingStaysInStep DEF Types
  <2>7. \A d \in Conns : Due(d) = <<>>
    BY <2>1 DEF Due, Types, IInv, OnlyTheTeam, Working, Busy
  <2>8. WorkersInStep'
    BY <2>1, <2>3, <2>4, <2>6, <2>7, MainUses
  <2>9. MainInStep'
    <3>1. phase' = "indexing" /\ Left' = <<>>
      BY <2>1 DEF Left
    <3>2. QED
      BY <2>1, <2>2, <2>3, <2>6, <3>1 DEF MainInStep
  <2>10. QED
    BY <2>1, <2>4, <2>8, <2>9 DEF StepInv, Modes
<1>7. CASE WarmPool
  <2>1. ASSUME NEW c \in Conns, Connect(c)
        PROVE  StepInv'
    <3>1. UNCHANGED <<threads, mode, phase>> /\ phase = "warming" /\ mode = "peers"
      BY <1>7 DEF WarmPool
    <3>2. Untouched' /\ WorkersInStep'
      BY <2>1, <3>1, MainConnects
    <3>3. QED
      BY <3>1, <3>2 DEF StepInv, Modes, MainInStep
  <2>2. CASE UNCHANGED <<connections, pool>>
    <3>1. UNCHANGED <<threads, mode, phase>> /\ phase = "warming" /\ mode = "peers"
      BY <1>7 DEF WarmPool
    <3>2. \A c \in Conns : Due(c)' = Due(c)
      BY <3>1 DEF threads, Due
    <3>3. Untouched' /\ WorkersInStep'
      BY <2>2, <3>1, <3>2, QuietStaysInStep
    <3>4. QED
      BY <3>1, <3>3 DEF StepInv, Modes, MainInStep
  <2>3. QED
    BY <1>7, <2>1, <2>2 DEF WarmPool
<1>8. CASE NoMoreLevels \/ PoolTooSmall \/ StartLevel \/ Join
  <2>1. /\ UNCHANGED <<connections, mode>> /\ mode = "peers"
        /\ phase' \in {"done", "stopped", "fetching", "warming"}
    BY <1>8 DEF NoMoreLevels, PoolTooSmall, StartLevel, Join
  <2>2. \A c \in Conns : Due(c)' = Due(c)
    <3>1. CASE StartLevel
      <4>1. \A c \in Conns : worker[c] # "waiting"
        BY <3>1 DEF StartLevel, Types, IInv, OnlyTheTeam, Working, Busy
      <4>2. \A c \in Conns : worker'[c] # "waiting"
        BY <3>1 DEF StartLevel
      <4>3. QED
        BY <4>1, <4>2 DEF Due
    <3>2. CASE ~StartLevel
      BY <1>8, <3>2 DEF NoMoreLevels, PoolTooSmall, Join, threads, Due
    <3>3. QED
      BY <3>1, <3>2
  <2>3. Untouched' /\ WorkersInStep'
    BY <2>1, <2>2, QuietStaysInStep
  <2>4. QED
    BY <2>1, <2>3 DEF StepInv, Modes, MainInStep
<1>9. CASE Ask
  <2>1. /\ mode # "peers" /\ phase = "asking" /\ Left = <<>>
        /\ UNCHANGED <<threads, mode, window, level, pool, attempts>>
    BY <1>9 DEF Ask, Left
  <2>2. /\ pool # <<>> /\ late[Peer] = 0
        /\ conn[Peer] = "open" => InStep(wire[Peer], asked[Peer], <<>>)
    BY <2>1 DEF StepInv, MainInStep
  <2>3. Peer \in Conns /\ Peer' = Peer /\ Batches' = Batches
    BY <2>1, <2>2, PeerType DEF Types, Peer, Batches
  <2>4. CASE level \in DOMAIN Batches
    <3>1. Batches[level] \in Seq(Blocks)
      BY <1>1, <2>1, <2>4, BatchTypes DEF Types, IInv, QueueTypes
    <3>2. /\ Send(Peer, Batches[level]) /\ remaining' = Len(Batches[level])
          /\ phase' = "draining"
      BY <1>9, <2>4 DEF Ask
    <3>3. Untouched' /\ \A d \in Conns \ {Peer} : Same(d)
      BY <2>3, <3>1, <3>2, Elsewhere DEF Types, StepInv
    <3>4. WorkersInStep'
      BY <2>1, <2>3, <3>3, MainUses
    <3>5. conn'[Peer] = "open" => InStep(wire'[Peer], asked'[Peer], Batches[level])
      BY <2>2, <2>3, <3>1, <3>2, SendingStaysInStep DEF Types
    <3>6. Len(Batches[level]) \in 0..Len(Batches[level])
      BY <3>1
    <3>7. Left' = Batches[level]
      <4>1. Left' = Rest(Batches[level], Len(Batches[level]))
        BY <2>1, <2>3, <3>2 DEF Left
      <4>2. QED
        BY <3>1, <3>6, <4>1, RestFacts
    <3>8. late' = late
      BY <3>2 DEF Send
    <3>9. MainInStep'
      BY <2>1, <2>2, <2>3, <2>4, <3>2, <3>5, <3>6, <3>7, <3>8 DEF MainInStep
    <3>10. QED
      BY <2>1, <3>2, <3>3, <3>4, <3>9 DEF StepInv, Modes
  <2>5. CASE level \notin DOMAIN Batches
    <3>1. phase' = "done" /\ UNCHANGED connections
      BY <1>9, <2>5 DEF Ask
    <3>2. \A c \in Conns : Due(c)' = Due(c)
      BY <2>1 DEF threads, Due
    <3>3. Untouched' /\ WorkersInStep'
      BY <2>1, <3>1, <3>2, QuietStaysInStep
    <3>4. QED
      BY <3>1, <3>3 DEF StepInv, Modes, MainInStep
  <2>6. QED
    BY <2>4, <2>5
<1>10. CASE DrainPing \/ Drain \/ DrainFails
  <2>1. /\ phase = "draining" /\ remaining > 0 /\ mode # "peers"
        /\ UNCHANGED <<threads, mode, window, level, pool>>
    BY <1>10 DEF DrainPing, Drain, DrainFails, main, StepInv, Modes
  <2>2. /\ pool # <<>> /\ late[Peer] = 0 /\ level \in DOMAIN Batches
        /\ remaining \in 0..Len(Batches[level])
        /\ conn[Peer] = "open" => InStep(wire[Peer], asked[Peer], Left)
    BY <2>1 DEF StepInv, MainInStep
  <2>3. Peer \in Conns /\ Peer' = Peer /\ Batches' = Batches
    BY <2>1, <2>2, PeerType DEF Types, Peer, Batches
  <2>4. ReadPing(Peer) \/ ReadAnswer(Peer) => ReadMessage(Peer)
    BY DEF ReadPing, ReadAnswer
  <2>5. Untouched' /\ \A d \in Conns \ {Peer} : Same(d)
    BY <1>10, <2>3, <2>4, Elsewhere DEF Types, StepInv, DrainPing, Drain, DrainFails
  <2>6. WorkersInStep'
    BY <2>1, <2>3, <2>5, MainUses
  <2>7. Left \in Seq(Blocks)
    BY <2>1, LeftType
  <2>8. CASE DrainPing
    <3>1. ReadPing(Peer) /\ phase' = phase /\ remaining' = remaining
      BY <2>8 DEF DrainPing, main
    <3>2. late' = late
      BY <3>1 DEF ReadPing, ReadMessage
    <3>3. Left' = Left
      BY <2>1, <2>3, <3>1 DEF Left
    <3>4. conn'[Peer] = "open" => InStep(wire'[Peer], asked'[Peer], Left)
      BY <2>2, <2>3, <2>7, <3>1, ReadingStaysInStep DEF Types
    <3>5. MainInStep'
      BY <2>1, <2>2, <2>3, <3>1, <3>2, <3>3, <3>4 DEF MainInStep
    <3>6. QED
      BY <2>1, <2>5, <2>6, <3>1, <3>5 DEF StepInv, Modes
  <2>9. CASE Drain
    <3>1. ReadAnswer(Peer) /\ phase' = phase /\ remaining' = remaining - 1
      BY <2>9 DEF Drain
    <3>2. late' = late
      BY <3>1 DEF ReadAnswer, ReadMessage
    <3>3. Batches[level] \in Seq(Blocks)
      BY <1>1, <2>1, <2>2, BatchTypes DEF Types, IInv, QueueTypes
    <3>4. Left' = Tail(Left)
      <4>1. /\ Left = Rest(Batches[level], remaining)
            /\ Left' = Rest(Batches[level], remaining - 1)
        BY <2>1, <2>3, <3>1 DEF Left
      <4>2. QED
        BY <2>1, <2>2, <3>3, <4>1, RestFacts
    <3>5. conn'[Peer] = "open" => InStep(wire'[Peer], asked'[Peer], Tail(Left))
      BY <2>2, <2>3, <2>7, <3>1, ReadingStaysInStep DEF Types
    <3>6. remaining - 1 \in 0..Len(Batches[level])
      BY <1>1, <2>1, <2>2, <3>3
    <3>7. MainInStep'
      BY <2>1, <2>2, <2>3, <3>1, <3>2, <3>4, <3>5, <3>6 DEF MainInStep
    <3>8. QED
      BY <2>1, <2>5, <2>6, <3>1, <3>7 DEF StepInv, Modes
  <2>10. CASE DrainFails
    <3>1. phase' \in {"crashed", "reconnecting"}
      BY <2>10 DEF DrainFails
    <3>2. QED
      BY <2>1, <2>5, <2>6, <3>1 DEF StepInv, Modes, MainInStep
  <2>11. QED
    BY <1>10, <2>8, <2>9, <2>10
<1>11. CASE BatchDone
  <2>1. /\ phase = "draining" /\ remaining = 0 /\ phase' = "asking"
        /\ UNCHANGED <<connections, threads, mode, window, pool>>
    BY <1>11 DEF BatchDone
  <2>2. \A c \in Conns : Due(c)' = Due(c)
    BY <2>1 DEF threads, Due
  <2>3. Untouched' /\ WorkersInStep'
    BY <2>1, <2>2, QuietStaysInStep
  <2>4. mode # "peers" /\ level \in DOMAIN Batches /\ 0 \in 0..Len(Batches[level])
    BY <2>1 DEF StepInv, Modes, MainInStep
  <2>5. Batches[level] \in Seq(Blocks)
    BY <1>1, <2>4, BatchTypes DEF Types, IInv, QueueTypes
  <2>6. Left = <<>> /\ Left' = <<>> /\ Peer' = Peer
    BY <2>1, <2>4, <2>5, RestFacts DEF Left, Peer
  <2>7. MainInStep'
    BY <2>1, <2>6 DEF MainInStep, StepInv, connections
  <2>8. QED
    BY <2>1, <2>3, <2>4, <2>7 DEF StepInv, Modes
<1>12. CASE Reconnect
  <2>1. phase = "reconnecting" /\ UNCHANGED <<threads, mode>> /\ mode # "peers"
    BY <1>12 DEF Reconnect, StepInv, Modes
  <2>2. ASSUME NEW c \in Conns, Connect(c), pool' = Append(pool, c), phase' = "asking"
        PROVE  StepInv'
    BY <1>2, <1>3, <2>1, <2>2 DEF StepInv, Modes
  <2>3. CASE phase' = "crashed" /\ UNCHANGED connections
    <3>1. \A c \in Conns : Due(c)' = Due(c)
      BY <2>1 DEF threads, Due
    <3>2. Untouched' /\ WorkersInStep'
      BY <2>1, <2>3, <3>1, QuietStaysInStep
    <3>3. QED
      BY <2>3, <3>2 DEF StepInv, Modes, MainInStep
  <2>4. QED
    BY <1>12, <2>2, <2>3 DEF Reconnect
<1>13. QED
  BY <1>4, <1>5, <1>6, <1>7, <1>8, <1>9, <1>10, <1>11, <1>12 DEF Main

LEMMA PeersKeepStep ==
    ASSUME Types, StepInv, Peers, UNCHANGED <<threads, main>>
    PROVE  StepInv'
<1> HIDE DEF Conns, Blocks
<1>1. /\ Untouched' /\ late' = late
      /\ \A c \in Conns, b \in Seq(Blocks) :
            /\ conn[c] = "open" => InStep(wire[c], asked[c], b)
            /\ conn'[c] = "open"
            => InStep(wire'[c], asked'[c], b)
  BY PeersStayInStep DEF Types, StepInv
<1>2. /\ UNCHANGED <<mode, phase, pool, level, remaining>>
      /\ Left' = Left /\ Peer' = Peer /\ Batches' = Batches
      /\ \A c \in Conns : Due(c)' = Due(c)
  BY DEF main, threads, Left, Peer, Batches, Due
<1>3. \A c \in Conns : conn'[c] = "open" => conn[c] = "open"
  BY DEF Peers, PeerAnswers, PeerPings, PeerCloses, Types, ConnectionTypes
<1>4. WorkersInStep'
  <2> SUFFICES ASSUME NEW c \in Conns, mode' = "peers", conn'[c] = "open", late'[c] = 0
               PROVE  InStep(wire'[c], asked'[c], Due(c)')
    BY DEF WorkersInStep
  <2>1. Due(c) \in Seq(Blocks)
    BY DueType DEF Types
  <2>2. InStep(wire[c], asked[c], Due(c))
    BY <1>1, <1>2, <1>3 DEF StepInv, WorkersInStep
  <2>3. InStep(wire'[c], asked'[c], Due(c))
    BY <1>1, <2>1, <2>2
  <2>4. QED
    BY <1>2, <2>3
<1>5. MainInStep'
  <2>1. CASE phase \in {"indexing", "asking", "draining"}
    <3>1. /\ pool # <<>> /\ late[Peer] = 0
          /\ conn[Peer] = "open" => InStep(wire[Peer], asked[Peer], Left)
          /\ phase = "draining" =>
                level \in DOMAIN Batches /\ remaining \in 0..Len(Batches[level])
      BY <2>1 DEF StepInv, MainInStep
    <3>2. Peer \in Conns /\ Left \in Seq(Blocks)
      BY <2>1, <3>1, PeerType, LeftType DEF Types
    <3>3. conn'[Peer] = "open" => InStep(wire'[Peer], asked'[Peer], Left)
      BY <1>1, <3>1, <3>2
    <3>4. QED
      BY <1>1, <1>2, <3>1, <3>3 DEF MainInStep
  <2>2. CASE phase \notin {"indexing", "asking", "draining"}
    BY <1>2, <2>2 DEF MainInStep
  <2>3. QED
    BY <2>1, <2>2
<1>6. QED
  BY <1>1, <1>2, <1>4, <1>5 DEF StepInv, Modes

(* No answer is taken for that of another block while its connection has    *)
(* not timed out: for any number of connections, workers, levels and        *)
(* blocks, batches of any length, and peers that answer, ping, lack the     *)
(* block, fall silent and hang up in any order.                             *)
THEOREM AnswersPaired == Spec => []AnswersInStep
<1>1. Init => StepInv
  <2> SUFFICES ASSUME Init PROVE StepInv
    OBVIOUS
  <2>1. Untouched
    BY DEF Init, ConnectionInit, Untouched
  <2>2. \A c \in Conns : conn[c] # "open"
    BY DEF Init, ConnectionInit
  <2>3. phase = "connecting"
    BY DEF Init
  <2>4. QED
    BY <2>1, <2>2, <2>3 DEF StepInv, Modes, WorkersInStep, MainInStep
<1>2. Types /\ StepInv /\ [Next]_vars => StepInv'
  <2> SUFFICES ASSUME Types, StepInv, [Next]_vars PROVE StepInv'
    OBVIOUS
  <2>1. ASSUME NEW c \in Conns, Worker(c) PROVE StepInv'
    BY <2>1, WorkerStaysInStep
  <2>2. CASE Main
    BY <2>2, MainStaysInStep
  <2>3. CASE Peers /\ UNCHANGED <<threads, main>>
    BY <2>3, PeersKeepStep
  <2>4. CASE UNCHANGED vars
    <3>1. UNCHANGED <<connections, mode>> /\ UNCHANGED <<threads, main>>
      BY <2>4 DEF vars, main
    <3>2. \A c \in Conns : Due(c)' = Due(c)
      BY <3>1 DEF threads, Due
    <3>3. Untouched' /\ WorkersInStep'
      BY <3>1, <3>2, QuietStaysInStep
    <3>4. /\ UNCHANGED <<mode, phase, pool, level, remaining, conn, asked, wire, late>>
          /\ Left' = Left /\ Peer' = Peer /\ Batches' = Batches
      BY <3>1 DEF main, connections, Left, Peer, Batches
    <3>5. Modes' /\ MainInStep'
      BY <3>4 DEF StepInv, Modes, MainInStep
    <3>6. QED
      BY <3>3, <3>5 DEF StepInv
  <2>5. QED
    BY <2>1, <2>2, <2>3, <2>4 DEF Next
<1>3. StepInv => AnswersInStep
  BY DEF StepInv, WorkersInStep, MainInStep, AnswersInStep, Left, Due
<1>4. QED
  BY <1>1, <1>2, <1>3, TypesInvariant, PTL DEF Spec
=============================================================================
