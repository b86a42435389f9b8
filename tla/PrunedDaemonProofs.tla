------------------------- MODULE PrunedDaemonProofs --------------------------
(***************************************************************************)
(* Type correctness of PrunedDaemon, and that it implements BlockSource:   *)
(* for any number of threads, any batches, any channel capacity, and       *)
(* whether or not bitcoind prunes while a call is running; and, when it    *)
(* does not, what is on its way over the shared connection.                *)
(***************************************************************************)
EXTENDS PrunedDaemon, SequenceTheorems, TLAPS

USE DaemonAssumption DEF Heights, NewHeaders

Calling == {"floor", "heights", "route", "local", "receive", "rpc"}
OnARun == {"local", "receive", "rpc"}

(***************************************************************************)
(* What ties the position of a thread in the code to the call it is in:    *)
(* a call is running exactly while its thread is inside for_blocks, what   *)
(* has been handed over is the beginning of the batch, and a run the       *)
(* thread works on has not been finished and lies within the batch.  The   *)
(* refinement needs all three: the first for the guards of BlockSource,    *)
(* the second for "ok" to mean that everything was handed over, the third  *)
(* for every block handed over to be one of the batch.                     *)
(***************************************************************************)
CallInv ==
    \A t \in Threads :
        /\ pc[t] \in Calling <=> status[t] = "running"
        /\ Len(got[t]) <= Len(batch[t])
        /\ \A i \in 1..Len(got[t]) : got[t][i] = batch[t][i]
        /\ pc[t] \in OnARun =>
              Position(t) <= runEnd[t] /\ runEnd[t] <= Len(batch[t])

IInv == TypeOK /\ CallInv

-----------------------------------------------------------------------------
(***************************************************************************)
(* The effects that several actions share.                                 *)
(***************************************************************************)
LEMMA Empty ==
    /\ <<>> \in Seq(Heights) /\ <<>> \in Seq(0..NewHeaders)
    /\ Len(<<>>) = 0
BY EmptySeq

\* A step that hands nothing over keeps the invariant if it moves threads in
\* and out of calls as their status says, and leaves the runs sensible.
LEMMA NothingHanded ==
    ASSUME CallInv, UNCHANGED <<batch, got>>,
           \A t \in Threads :
              /\ pc'[t] \in Calling <=> status'[t] = "running"
              /\ pc'[t] \in OnARun =>
                    Position(t) <= runEnd'[t] /\ runEnd'[t] <= Len(batch[t])
    PROVE  CallInv'
BY DEF CallInv, Position

\* A step of the environment leaves the calls as they are.
LEMMA NobodyMoves ==
    ASSUME CallInv, UNCHANGED <<pc, runEnd, status, batch, got>>
    PROVE  CallInv'
BY NothingHanded DEF CallInv

\* A thread that moves on within a call, or outside one, leaves them too.
LEMMA MovingInside ==
    ASSUME IInv, NEW t \in Threads, NEW p \in Pcs,
           pc' = [pc EXCEPT ![t] = p],
           p \in Calling <=> pc[t] \in Calling,
           p \in OnARun => pc[t] \in OnARun,
           UNCHANGED <<runEnd, status, batch, got>>
    PROVE  CallInv'
<1>1. pc'[t] = p /\ \A u \in Threads \ {t} : pc'[u] = pc[u]
  BY DEF IInv, TypeOK
<1>2. ASSUME NEW u \in Threads
      PROVE  /\ pc'[u] \in Calling <=> pc[u] \in Calling
             /\ pc'[u] \in OnARun => pc[u] \in OnARun
  <2>1. CASE u = t
    BY <1>1, <2>1
  <2>2. CASE u # t
    BY <1>1, <2>2
  <2>3. QED
    BY <2>1, <2>2
<1>3. QED
  BY <1>2, NothingHanded DEF IInv, CallInv

\* A thread that moves on, taking or leaving the mutex as its new place in the
\* code says, keeps the types.
LEMMA MovingKeeps ==
    ASSUME TypeOK, NEW t \in Threads, NEW p \in Pcs,
           pc' = [pc EXCEPT ![t] = p],
           \/ p \in {"receive", "answer"} /\ p2p = Nobody /\ p2p' = t
           \/ /\ p \notin {"receive", "answer"}
              /\ p2p' = IF p2p = t THEN Nobody ELSE p2p,
           asked' \in Seq(0..NewHeaders), headers' \in BOOLEAN,
           floor' \in [Threads -> Heights],
           UNCHANGED <<node, up, pruned, replies, kind, runEnd, status, batch, got>>
    PROVE  TypeOK'
<1>1. /\ pc' \in [Threads -> Pcs]
      /\ pc'[t] = p
      /\ \A u \in Threads \ {t} : pc'[u] = pc[u]
  BY DEF TypeOK
<1>2. p2p' \in Threads \cup {Nobody}
  BY DEF TypeOK
<1>3. ASSUME NEW u \in Threads
      PROVE  p2p' = u <=> pc'[u] \in {"receive", "answer"}
  <2>1. p2p = u <=> pc[u] \in {"receive", "answer"}
    BY DEF TypeOK
  <2>2. CASE u = t
    BY <1>1, <2>2
  <2>3. CASE u # t
    BY <1>1, <2>1, <2>3
  <2>4. QED
    BY <2>2, <2>3
<1>4. QED
  BY <1>1, <1>2, <1>3 DEF TypeOK, node

\* The end of the process leaves the invariant intact.
LEMMA ExitKeeps ==
    ASSUME IInv, Exit, UNCHANGED pruneHeight, pruning' \in BOOLEAN,
           pruned' \in BOOLEAN
    PROVE  IInv'
<1>1. TypeOK'
  <2>1. \A t \in Threads : p2p' = t <=> pc'[t] \in {"receive", "answer"}
    BY DEF Exit
  <2>2. up' \in BOOLEAN /\ headers' \in BOOLEAN /\ pruning' \in BOOLEAN
    BY DEF Exit
  <2>3. asked' \in Seq(0..NewHeaders) /\ replies' \in Seq(Heights)
    BY Empty DEF Exit
  <2>4. Len(replies') <= ReplyCapacity
    BY Empty DEF Exit
  <2>5. /\ pc' \in [Threads -> Pcs]
        /\ kind' \in [Threads -> {"index", "query"}]
        /\ floor' \in [Threads -> Heights]
        /\ runEnd' \in [Threads -> Nat]
        /\ status' \in [Threads -> {"idle", "running", "ok", "err", "lost"}]
    BY DEF Exit, Pcs, IInv, TypeOK
  <2>6. /\ p2p' \in Threads \cup {Nobody}
        /\ UNCHANGED <<pruneHeight, batch, got>>
    BY DEF Exit
  <2>7. QED
    BY <2>1, <2>2, <2>3, <2>4, <2>5, <2>6 DEF IInv, TypeOK
<1>2. CallInv'
  <2>1. ASSUME NEW t \in Threads
        PROVE  pc'[t] = "idle" /\ status'[t] # "running"
    BY DEF Exit
  <2>2. UNCHANGED <<batch, got>>
    BY DEF Exit
  <2>3. QED
    BY <2>1, <2>2, NothingHanded DEF IInv, Calling, OnARun
<1>3. QED
  BY <1>1, <1>2 DEF IInv

\* Leaving for_blocks, with an error or without, leaves it intact.
LEMMA LeavingKeeps ==
    ASSUME IInv, NEW t \in Threads, NEW outcome \in {"ok", "err"},
           pc[t] \in Calling, Leaves(t, outcome),
           replies' \in Seq(Heights), Len(replies') <= ReplyCapacity,
           UNCHANGED <<node, pruned>>
    PROVE  IInv'
<1>1. TypeOK'
  <2>1. UNCHANGED <<pruning, pruneHeight, pruned, up, asked, headers, batch, got>>
    BY DEF Leaves, node
  <2>2. /\ pc' \in [Threads -> Pcs]
        /\ kind' \in [Threads -> {"index", "query"}]
        /\ status' \in [Threads -> {"idle", "running", "ok", "err", "lost"}]
    BY DEF Leaves, IInv, TypeOK, Pcs
  <2>3. /\ floor' \in [Threads -> Heights]
        /\ runEnd' \in [Threads -> Nat]
    BY DEF Leaves, IInv, TypeOK
  <2>4. p2p' \in Threads \cup {Nobody}
    BY DEF Leaves, IInv, TypeOK
  <2>5. ASSUME NEW u \in Threads
        PROVE  p2p' = u <=> pc'[u] \in {"receive", "answer"}
    BY DEF Leaves, IInv, TypeOK
  <2>6. QED
    BY <2>1, <2>2, <2>3, <2>4, <2>5 DEF IInv, TypeOK
<1>2. CallInv'
  <2>1. ASSUME NEW u \in Threads
        PROVE  /\ pc'[u] \in Calling <=> status'[u] = "running"
               /\ pc'[u] \in OnARun =>
                     Position(u) <= runEnd'[u] /\ runEnd'[u] <= Len(batch[u])
    BY DEF IInv, TypeOK, CallInv, Leaves, Calling, OnARun
  <2>2. QED
    BY <2>1, NothingHanded DEF IInv, Leaves
<1>3. QED
  BY <1>1, <1>2 DEF IInv

\* A failed step of a call leaves it intact.
LEMMA FailingKeeps ==
    ASSUME IInv, NEW t \in Threads, NEW left \in Seq(Heights),
           Len(left) <= ReplyCapacity, pc[t] \in Calling, Fails(t, left),
           UNCHANGED <<node, pruned>>
    PROVE  IInv'
<1>1. CASE Exit
  BY <1>1, ExitKeeps DEF node, IInv, TypeOK
<1>2. CASE Leaves(t, "err") /\ replies' = left
  BY <1>2, LeavingKeeps
<1>3. QED
  BY <1>1, <1>2 DEF Fails

LEMMA LastOrBefore ==
    ASSUME NEW n \in Nat, NEW i \in 1..(n + 1)
    PROVE  i = n + 1 \/ i \in 1..n
OBVIOUS

\* Handing over the expected block leaves the call's invariant intact.
LEMMA HandingKeeps ==
    ASSUME IInv, NEW t \in Threads, pc[t] \in {"receive", "rpc"},
           Hands(t, batch[t][Position(t)])
    PROVE  /\ CallInv'
           /\ got' \in [Threads -> Seq(Heights)]
           /\ pc' \in [Threads -> Pcs]
<1> DEFINE h == batch[t][Position(t)]
<1>1. /\ got[t] \in Seq(Heights) /\ batch[t] \in Seq(Heights)
      /\ Len(got[t]) \in Nat /\ Len(batch[t]) \in Nat /\ runEnd[t] \in Nat
  BY LenProperties DEF IInv, TypeOK
<1>2. Position(t) \in 1..Len(batch[t]) /\ Position(t) <= runEnd[t]
  BY <1>1 DEF IInv, CallInv, OnARun, Position
<1>3. h \in Heights
  BY <1>1, <1>2, ElementOfSeq
<1>4. /\ got'[t] = Append(got[t], h)
      /\ \A u \in Threads \ {t} : got'[u] = got[u]
      /\ got' \in [Threads -> Seq(Heights)]
  <2>1. Append(got[t], h) \in Seq(Heights)
    BY <1>1, <1>3, AppendProperties
  <2>2. /\ got' = [got EXCEPT ![t] = Append(@, h)]
        /\ got \in [Threads -> Seq(Heights)]
    BY DEF Hands, IInv, TypeOK
  <2>3. QED
    BY <2>1, <2>2
<1>5. /\ Len(got'[t]) = Len(got[t]) + 1
      /\ \A i \in 1..Len(got[t]) : got'[t][i] = got[t][i]
      /\ got'[t][Len(got[t]) + 1] = h
  BY <1>1, <1>3, <1>4, AppendProperties
<1>6. pc' \in [Threads -> Pcs]
  BY DEF Hands, IInv, TypeOK, Pcs
<1>7. ASSUME NEW u \in Threads
      PROVE  /\ pc'[u] \in Calling <=> status'[u] = "running"
             /\ Len(got'[u]) <= Len(batch'[u])
             /\ \A i \in 1..Len(got'[u]) : got'[u][i] = batch'[u][i]
             /\ pc'[u] \in OnARun =>
                   Position(u)' <= runEnd'[u] /\ runEnd'[u] <= Len(batch'[u])
  <2>0. UNCHANGED <<batch, status, runEnd>>
    BY DEF Hands, plan
  <2>1. CASE u = t
    <3>1. pc'[t] = IF Position(t) = runEnd[t] THEN "route" ELSE pc[t]
      BY DEF Hands, IInv, TypeOK
    <3>2. pc'[t] \in Calling /\ status'[t] = "running"
      BY <2>0, <3>1 DEF IInv, CallInv, Calling
    <3>3. Len(got'[t]) <= Len(batch[t])
      BY <1>1, <1>2, <1>5 DEF Position
    <3>4. ASSUME NEW i \in 1..Len(got'[t]) PROVE got'[t][i] = batch[t][i]
      <4>1. CASE i = Len(got[t]) + 1
        BY <1>5, <4>1 DEF Position
      <4>2. CASE i \in 1..Len(got[t])
        BY <1>5, <4>2 DEF IInv, CallInv
      <4>3. Len(got'[t]) = Len(got[t]) + 1
        BY <1>5
      <4>4. i = Len(got[t]) + 1 \/ i \in 1..Len(got[t])
        BY <1>1, <4>3, LastOrBefore
      <4>5. QED
        BY <4>1, <4>2, <4>4
    <3>5. pc'[t] \in OnARun =>
            Position(t)' <= runEnd[t] /\ runEnd[t] <= Len(batch[t])
      BY <1>1, <1>2, <1>5, <3>1, <2>0 DEF IInv, CallInv, OnARun, Position
    <3>6. QED
      BY <2>0, <2>1, <3>2, <3>3, <3>4, <3>5
  <2>2. CASE u # t
    <3>1. pc'[u] = pc[u] /\ got'[u] = got[u]
      BY <1>4, <2>2 DEF Hands, IInv, TypeOK
    <3>2. QED
      BY <2>0, <3>1 DEF IInv, CallInv, Position
  <2>3. QED
    BY <2>1, <2>2
<1>8. CallInv'
  BY <1>7 DEF CallInv
<1>9. QED
  BY <1>4, <1>6, <1>8

-----------------------------------------------------------------------------
\* Starting a call: nothing has been handed over, and on a node that does not
\* prune the batch is one run.
LEMMA CallKeeps ==
    ASSUME IInv, NEW t \in Threads, NEW k \in {"index", "query"},
           NEW b \in Batches, Call(t, k, b)
    PROVE  IInv'
<1>1. b \in Seq(Heights) /\ Len(b) \in Nat \ {0}
  BY EmptySeq
<1>2. TypeOK'
  <2>1. \A u \in Threads : p2p' = u <=> pc'[u] \in {"receive", "answer"}
    BY DEF Call, IInv, TypeOK, connection
  <2>2. /\ status' \in [Threads -> {"idle", "running", "ok", "err", "lost"}]
        /\ batch' \in [Threads -> Seq(Heights)]
        /\ got' \in [Threads -> Seq(Heights)]
        /\ kind' \in [Threads -> {"index", "query"}]
    BY <1>1, Empty DEF Call, IInv, TypeOK
  <2>3. /\ runEnd' \in [Threads -> Nat]
        /\ pc' \in [Threads -> Pcs]
    <3>1. CASE runEnd' = runEnd /\ pc' = [pc EXCEPT ![t] = "floor"]
      BY <3>1 DEF IInv, TypeOK, Pcs
    <3>2. CASE /\ runEnd' = [runEnd EXCEPT ![t] = Len(b)]
               /\ pc' = [pc EXCEPT ![t] = "local"]
      BY <1>1, <3>2 DEF IInv, TypeOK, Pcs
    <3>3. QED
      BY <3>1, <3>2 DEF Call
  <2>4. UNCHANGED <<node, up, pruned, connection, floor>>
    BY DEF Call
  <2>5. QED
    BY <2>1, <2>2, <2>3, <2>4 DEF IInv, TypeOK, node, connection
<1>3. /\ got'[t] = <<>> /\ batch'[t] = b /\ status'[t] = "running"
      /\ pc'[t] \in {"floor", "local"}
      /\ pc'[t] = "local" => runEnd'[t] = Len(b)
      /\ \A u \in Threads \ {t} :
            /\ got'[u] = got[u] /\ batch'[u] = batch[u] /\ pc'[u] = pc[u]
            /\ status'[u] = status[u] /\ runEnd'[u] = runEnd[u]
  BY DEF Call, IInv, TypeOK
<1>4. Len(<<>>) = 0
  BY EmptySeq
<1>5. CallInv'
  <2>1. /\ pc'[t] \in Calling <=> status'[t] = "running"
        /\ Len(got'[t]) <= Len(batch'[t])
        /\ \A i \in 1..Len(got'[t]) : got'[t][i] = batch'[t][i]
        /\ pc'[t] \in OnARun =>
              Position(t)' <= runEnd'[t] /\ runEnd'[t] <= Len(batch'[t])
    BY <1>1, <1>3, <1>4 DEF Calling, OnARun, Position
  <2>2. ASSUME NEW u \in Threads \ {t}
        PROVE  /\ pc'[u] \in Calling <=> status'[u] = "running"
               /\ Len(got'[u]) <= Len(batch'[u])
               /\ \A i \in 1..Len(got'[u]) : got'[u][i] = batch'[u][i]
               /\ pc'[u] \in OnARun =>
                     Position(u)' <= runEnd'[u] /\ runEnd'[u] <= Len(batch'[u])
    <3>1. /\ got'[u] = got[u] /\ batch'[u] = batch[u] /\ pc'[u] = pc[u]
          /\ status'[u] = status[u] /\ runEnd'[u] = runEnd[u]
      BY <1>3
    <3>2. /\ pc[u] \in Calling <=> status[u] = "running"
          /\ Len(got[u]) <= Len(batch[u])
          /\ \A i \in 1..Len(got[u]) : got[u][i] = batch[u][i]
          /\ pc[u] \in OnARun =>
                Position(u) <= runEnd[u] /\ runEnd[u] <= Len(batch[u])
      BY DEF IInv, CallInv
    <3>3. QED
      BY <3>1, <3>2 DEF Position
  <2>3. QED
    BY <2>1, <2>2 DEF CallInv
<1>6. QED
  BY <1>2, <1>5 DEF IInv

\* Routing the next run, or returning after the last.
LEMMA RouteKeeps ==
    ASSUME IInv, NEW t \in Threads, Route(t)
    PROVE  IInv'
<1>1. CASE Leaves(t, "ok") /\ replies' = replies
  BY <1>1, LeavingKeeps DEF Route, IInv, TypeOK, Calling
<1>2. ASSUME NEW end \in Position(t)..Len(batch[t]),
             runEnd' = [runEnd EXCEPT ![t] = end],
             pc' = [pc EXCEPT ![t] =
                      IF Local(t, Position(t)) THEN "local" ELSE "rpc"],
             UNCHANGED <<up, connection, kind, floor, status, batch, got>>
      PROVE  IInv'
  <2>1. Len(got[t]) \in Nat /\ Len(batch[t]) \in Nat /\ end \in Nat
    BY LenProperties DEF IInv, TypeOK, Position
  <2>2. TypeOK'
    BY <1>2, <2>1 DEF Route, IInv, TypeOK, Pcs, node, connection
  <2>3. CallInv'
    <3>1. ASSUME NEW u \in Threads
          PROVE  /\ pc'[u] \in Calling <=> status'[u] = "running"
                 /\ pc'[u] \in OnARun =>
                       Position(u) <= runEnd'[u] /\ runEnd'[u] <= Len(batch[u])
      BY <1>2, <2>1 DEF Route, IInv, TypeOK, CallInv, Calling, OnARun, Position
    <3>2. QED
      BY <1>2, <3>1, NothingHanded DEF IInv
  <2>4. QED
    BY <2>2, <2>3 DEF IInv
<1>3. QED
  BY <1>1, <1>2 DEF Route

LEMMA ReceiveKeeps ==
    ASSUME IInv, NEW t \in Threads, Receive(t)
    PROVE  IInv'
<1>1. replies # <<>> /\ pc[t] = "receive" /\ UNCHANGED <<node, pruned>>
  BY DEF Receive
<1>2. /\ Tail(replies) \in Seq(Heights)
      /\ Len(Tail(replies)) <= ReplyCapacity
  BY <1>1, HeadTailProperties, LenProperties DEF IInv, TypeOK
<1>3. CASE /\ Head(replies) = batch[t][Position(t)]
           /\ replies' = Tail(replies)
           /\ Hands(t, Head(replies))
           /\ p2p' = IF Position(t) = runEnd[t] THEN Nobody ELSE p2p
  <2>1. /\ CallInv' /\ got' \in [Threads -> Seq(Heights)]
        /\ pc' \in [Threads -> Pcs]
    BY <1>1, <1>3, HandingKeeps
  <2>2. \A u \in Threads : p2p' = u <=> pc'[u] \in {"receive", "answer"}
    BY <1>1, <1>3 DEF Hands, IInv, TypeOK
  <2>3. TypeOK'
    BY <1>1, <1>2, <1>3, <2>1, <2>2 DEF Hands, IInv, TypeOK, node, plan
  <2>4. QED
    BY <2>1, <2>3 DEF IInv
<1>4. CASE Fails(t, Tail(replies))
  BY <1>1, <1>2, <1>4, FailingKeeps DEF Calling
<1>5. QED
  BY <1>3, <1>4 DEF Receive

LEMMA FetchKeeps ==
    ASSUME IInv, NEW t \in Threads, FetchPruned(t)
    PROVE  IInv'
<1>1. pc[t] = "rpc" /\ UNCHANGED <<node, pruned>>
  BY DEF FetchPruned
<1>2. CASE Hands(t, batch[t][Position(t)]) /\ UNCHANGED <<p2p, replies>>
  <2>1. /\ CallInv' /\ got' \in [Threads -> Seq(Heights)]
        /\ pc' \in [Threads -> Pcs]
    BY <1>1, <1>2, HandingKeeps
  <2>2. TypeOK'
    BY <1>1, <1>2, <2>1 DEF Hands, IInv, TypeOK, node, plan
  <2>3. QED
    BY <2>1, <2>2 DEF IInv
<1>3. CASE Fails(t, replies)
  BY <1>1, <1>3, FailingKeeps DEF Calling, IInv, TypeOK
<1>4. QED
  BY <1>2, <1>3 DEF FetchPruned

LEMMA AskKeeps ==
    ASSUME IInv, NEW t \in Threads, Ask(t)
    PROVE  IInv'
<1>1. /\ Len(got[t]) \in Nat /\ Len(batch[t]) \in Nat /\ runEnd[t] \in Nat
      /\ batch[t] \in Seq(Heights)
  BY LenProperties DEF IInv, TypeOK
<1>2. Position(t) \in Int /\ Position(t) >= 1 /\ runEnd[t] <= Len(batch[t])
  <2>1. pc[t] \in OnARun
    BY DEF Ask, OnARun
  <2>2. runEnd[t] <= Len(batch[t])
    BY <2>1 DEF IInv, CallInv
  <2>3. Position(t) \in Int /\ Position(t) >= 1
    BY <1>1 DEF Position
  <2>4. QED
    BY <2>2, <2>3
<1>3. \A i \in Position(t)..runEnd[t] : batch[t][i] \in 0..NewHeaders
  <2> TAKE i \in Position(t)..runEnd[t]
  <2>1. i \in 1..Len(batch[t])
    BY <1>1, <1>2
  <2>2. batch[t][i] \in Heights
    BY <1>1, <2>1, ElementOfSeq
  <2>3. QED
    BY <2>2
<1>4. SubSeq(batch[t], Position(t), runEnd[t]) \in Seq(0..NewHeaders)
  BY <1>1, <1>2, <1>3, SubSeqProperties
<1>5. asked' \in Seq(0..NewHeaders)
  BY <1>4, ConcatProperties DEF Ask, IInv, TypeOK
<1>6. TypeOK'
  <2>1. headers' \in BOOLEAN /\ floor' \in [Threads -> Heights]
    BY DEF Ask, IInv, TypeOK, plan
  <2>2. QED
    BY <1>5, <2>1, MovingKeeps DEF Ask, IInv, Pcs, plan
<1>7. CallInv'
  BY MovingInside DEF Ask, Pcs, Calling, OnARun, plan
<1>8. QED
  BY <1>6, <1>7 DEF IInv

LEMMA ServeKeeps ==
    ASSUME IInv, BitcoindServes
    PROVE  IInv'
<1>1. Tail(asked) \in Seq(0..NewHeaders) /\ Head(asked) \in 0..NewHeaders
  BY HeadTailProperties DEF BitcoindServes, IInv, TypeOK
<1>2. /\ asked' = Tail(asked)
      /\ UNCHANGED <<node, up, pruned, p2p, pc, plan, status, batch, got>>
  BY DEF BitcoindServes
<1>3. CallInv'
  BY <1>2, NobodyMoves DEF IInv, plan
<1>4. ASSUME replies' \in Seq(Heights), Len(replies') <= ReplyCapacity,
             headers' \in BOOLEAN
      PROVE  TypeOK'
  BY <1>1, <1>2, <1>4 DEF IInv, TypeOK, node, plan
<1>5. CASE replies' = replies /\ headers' \in BOOLEAN
  <2>1. replies' \in Seq(Heights) /\ Len(replies') <= ReplyCapacity
    BY <1>5 DEF IInv, TypeOK
  <2>2. QED
    BY <1>3, <1>4, <1>5, <2>1 DEF IInv
<1>6. CASE /\ Head(asked) # NewHeaders
           /\ Len(replies) < ReplyCapacity
           /\ replies' = Append(replies, Head(asked))
           /\ headers' = headers
  <2>1. Head(asked) \in Heights
    BY <1>1, <1>6
  <2>2. replies' \in Seq(Heights) /\ Len(replies') <= ReplyCapacity
    BY <1>6, <2>1, AppendProperties, LenProperties DEF IInv, TypeOK
  <2>3. headers' \in BOOLEAN
    BY <1>6 DEF IInv, TypeOK
  <2>4. QED
    BY <1>3, <1>4, <2>2, <2>3 DEF IInv
<1>7. QED
  BY <1>5, <1>6 DEF BitcoindServes, IInv, TypeOK

(***************************************************************************)
(* The inductive invariant.                                                *)
(***************************************************************************)
LEMMA Inductive == IInv /\ [Next]_vars => IInv'
<1> SUFFICES ASSUME IInv, [Next]_vars PROVE IInv'
  OBVIOUS
<1>1. ASSUME NEW t \in Threads, NEW k \in {"index", "query"},
             NEW b \in Batches, Call(t, k, b)
      PROVE  IInv'
  BY <1>1, CallKeeps
<1>2. ASSUME NEW t \in Threads, GetNewHeaders(t) PROVE IInv'
  <2>1. TypeOK'
    <3>1. p2p # t
      BY <1>2 DEF GetNewHeaders, IInv, TypeOK
    <3>2. /\ asked' \in Seq(0..NewHeaders) /\ headers' \in BOOLEAN
          /\ floor' \in [Threads -> Heights]
      BY <1>2 DEF GetNewHeaders, IInv, TypeOK, connection, plan
    <3>3. QED
      BY <1>2, <3>1, <3>2, MovingKeeps
      DEF GetNewHeaders, IInv, Pcs, connection, plan
  <2>2. CallInv'
    BY <1>2, MovingInside DEF GetNewHeaders, Pcs, Calling, OnARun, plan
  <2>3. QED
    BY <2>1, <2>2 DEF IInv
<1>3. ASSUME NEW t \in Threads, Ask(t) PROVE IInv'
  BY <1>3, AskKeeps
<1>4. ASSUME NEW t \in Threads, AskHeaders(t) PROVE IInv'
  <2>1. asked' \in Seq(0..NewHeaders)
    BY <1>4, AppendProperties DEF AskHeaders, IInv, TypeOK
  <2>2. headers' \in BOOLEAN /\ floor' \in [Threads -> Heights]
    BY <1>4 DEF AskHeaders, IInv, TypeOK, plan
  <2>3. TypeOK'
    BY <1>4, <2>1, <2>2, MovingKeeps DEF AskHeaders, IInv, Pcs, plan
  <2>4. CallInv'
    BY <1>4, MovingInside DEF AskHeaders, Pcs, Calling, OnARun, plan
  <2>5. QED
    BY <2>3, <2>4 DEF IInv
<1>5. ASSUME NEW t \in Threads, ReadPruneHeight(t) PROVE IInv'
  <2>1. CASE Fails(t, replies)
    BY <1>5, <2>1, FailingKeeps DEF ReadPruneHeight, IInv, TypeOK, Calling
  <2>2. CASE ~Fails(t, replies)
    <3>1. /\ pc[t] = "floor"
          /\ floor' = [floor EXCEPT ![t] = pruneHeight]
          /\ pc' = [pc EXCEPT ![t] = "heights"]
          /\ UNCHANGED <<node, up, pruned, connection, kind, runEnd, status,
                         batch, got>>
      BY <1>5, <2>2 DEF ReadPruneHeight
    <3>2. TypeOK'
      <4>1. p2p # t
        BY <3>1 DEF IInv, TypeOK
      <4>2. floor' \in [Threads -> Heights]
        BY <3>1 DEF IInv, TypeOK
      <4>3. asked' \in Seq(0..NewHeaders) /\ headers' \in BOOLEAN
        BY <3>1 DEF IInv, TypeOK, connection
      <4>4. QED
        BY <3>1, <4>1, <4>2, <4>3, MovingKeeps DEF IInv, Pcs, connection
    <3>3. CallInv'
      BY <3>1, MovingInside DEF Pcs, Calling, OnARun
    <3>4. QED
      BY <3>2, <3>3 DEF IInv
  <2>3. QED
    BY <2>1, <2>2
<1>6. ASSUME NEW t \in Threads, ResolveHeights(t) PROVE IInv'
  <2>1. CASE Fails(t, replies)
    BY <1>6, <2>1, FailingKeeps DEF ResolveHeights, IInv, TypeOK, Calling
  <2>2. CASE ~Fails(t, replies)
    <3>1. /\ pc' = [pc EXCEPT ![t] = "route"] /\ pc[t] = "heights"
          /\ UNCHANGED <<node, up, pruned, p2p, asked, replies, headers,
                         kind, floor, runEnd, status, batch, got>>
      BY <1>6, <2>2 DEF ResolveHeights, connection, plan
    <3>2. TypeOK'
      <4>1. p2p # t
        BY <3>1 DEF IInv, TypeOK
      <4>2. /\ asked' \in Seq(0..NewHeaders) /\ headers' \in BOOLEAN
            /\ floor' \in [Threads -> Heights]
        BY <3>1 DEF IInv, TypeOK
      <4>3. QED
        BY <3>1, <4>1, <4>2, MovingKeeps DEF IInv, Pcs
    <3>3. CallInv'
      BY <3>1, MovingInside DEF Pcs, Calling, OnARun
    <3>4. QED
      BY <3>2, <3>3 DEF IInv
  <2>3. QED
    BY <2>1, <2>2
<1>7. ASSUME NEW t \in Threads, Route(t) PROVE IInv'
  BY <1>7, RouteKeeps
<1>8. ASSUME NEW t \in Threads, Receive(t) PROVE IInv'
  BY <1>8, ReceiveKeeps
<1>9. ASSUME NEW t \in Threads, FetchPruned(t) PROVE IInv'
  BY <1>9, FetchKeeps
<1>10. ASSUME NEW t \in Threads, ReceiveHeaders(t) PROVE IInv'
  <2>1. TypeOK'
    <3>1. p2p = t
      BY <1>10 DEF ReceiveHeaders, IInv, TypeOK
    <3>2. /\ asked' \in Seq(0..NewHeaders) /\ headers' \in BOOLEAN
          /\ floor' \in [Threads -> Heights]
      BY <1>10 DEF ReceiveHeaders, IInv, TypeOK, plan
    <3>3. QED
      BY <1>10, <3>1, <3>2, MovingKeeps DEF ReceiveHeaders, IInv, Pcs, plan
  <2>2. CallInv'
    BY <1>10, MovingInside DEF ReceiveHeaders, Pcs, Calling, OnARun, plan
  <2>3. QED
    BY <2>1, <2>2 DEF IInv
<1>11. ASSUME NEW h \in Heights, Prune(h) PROVE IInv'
  <2>1. TypeOK'
    BY <1>11 DEF Prune, IInv, TypeOK, connection, plan
  <2>2. CallInv'
    BY <1>11, NobodyMoves DEF Prune, IInv, plan
  <2>3. QED
    BY <2>1, <2>2 DEF IInv
<1>12. CASE BitcoindServes
  BY <1>12, ServeKeeps
<1>13. CASE Crash
  BY <1>13, ExitKeeps DEF Crash, IInv, TypeOK, node
<1>14. CASE BitcoindRestarts
  BY <1>14, ExitKeeps DEF BitcoindRestarts, IInv, TypeOK
<1>15. CASE Restart
  <2>1. TypeOK'
    <3>1. up' \in BOOLEAN /\ pruned' \in BOOLEAN
      BY <1>15, Zenon DEF Restart, IInv, TypeOK
    <3>2. UNCHANGED <<node, connection, pc, plan, status, batch, got>>
      BY <1>15 DEF Restart
    <3>3. QED
      BY <3>1, <3>2 DEF IInv, TypeOK, node, connection, plan
  <2>2. CallInv'
    BY <1>15, NobodyMoves DEF Restart, IInv, plan
  <2>3. QED
    BY <2>1, <2>2 DEF IInv
<1>16. CASE UNCHANGED vars
  <2>1. TypeOK'
    BY <1>16 DEF vars, IInv, TypeOK, node, connection, plan
  <2>2. CallInv'
    BY <1>16, NobodyMoves DEF vars, IInv, plan
  <2>3. QED
    BY <2>1, <2>2 DEF IInv
<1>17. QED
  BY <1>1, <1>2, <1>3, <1>4, <1>5, <1>6, <1>7, <1>8, <1>9, <1>10, <1>11,
     <1>12, <1>13, <1>14, <1>15, <1>16 DEF Next, ThreadStep

LEMMA Invariant == Spec => []IInv
<1>1. Init => IInv
  <2> SUFFICES ASSUME Init PROVE TypeOK /\ CallInv
    BY DEF IInv
  <2>1. /\ pruneHeight \in Heights /\ pruned \in BOOLEAN
        /\ pruning \in BOOLEAN
    BY DEF Init
  <2>2. ASSUME NEW t \in Threads
        PROVE  /\ got[t] = <<>> /\ batch[t] = <<>>
               /\ pc[t] = "idle" /\ status[t] = "idle"
               /\ Len(got[t]) = 0 /\ Len(batch[t]) = 0
    BY Empty, Zenon DEF Init
  <2>3. TypeOK
    <3>1. Len(replies) <= ReplyCapacity
      <4>1. Len(replies) = 0
        BY Empty, Zenon DEF Init
      <4>2. QED
        BY <4>1
    <3>2. asked \in Seq(0..NewHeaders) /\ replies \in Seq(Heights)
      BY Empty, Zenon DEF Init
    <3>3. /\ pc \in [Threads -> Pcs]
          /\ kind \in [Threads -> {"index", "query"}]
          /\ floor \in [Threads -> Heights]
          /\ runEnd \in [Threads -> Nat]
          /\ status \in [Threads -> {"idle", "running", "ok", "err", "lost"}]
      BY DEF Init, Pcs
    <3>4. /\ up \in BOOLEAN /\ headers \in BOOLEAN
          /\ p2p \in Threads \cup {Nobody}
      BY DEF Init
    <3>5. \A t \in Threads : p2p = t <=> pc[t] \in {"receive", "answer"}
      BY <2>2 DEF Init
    <3>6. /\ batch \in [Threads -> Seq(Heights)]
          /\ got \in [Threads -> Seq(Heights)]
      BY Empty DEF Init
    <3>7. QED
      BY <2>1, <3>1, <3>6, <3>2, <3>3, <3>4, <3>5 DEF TypeOK
  <2>4. CallInv
    <3>1. ASSUME NEW t \in Threads
          PROVE  /\ Len(got[t]) <= Len(batch[t])
                 /\ 1..Len(got[t]) = {}
                 /\ pc[t] \notin Calling /\ pc[t] \notin OnARun
                 /\ status[t] # "running"
      BY <2>2 DEF Calling, OnARun
    <3>2. QED
      BY <3>1 DEF CallInv
  <2>5. QED
    BY <2>3, <2>4
<1>2. QED
  BY <1>1, Inductive, PTL DEF Spec

(* Every variable keeps its type, and the mutex is held by exactly the      *)
(* thread that waits for the connection: no two threads ever wait on it.    *)
THEOREM TypeCorrect == Spec => []TypeOK
BY Invariant, PTL DEF IInv

-----------------------------------------------------------------------------
(***************************************************************************)
(* A bitcoind that prunes only between calls.                              *)
(*                                                                         *)
(* Neither property is inductive.  What is on its way must also be tied to *)
(* what the one holder of the mutex waits for, the answer to getheaders    *)
(* included, and nothing be on its way when there is none; and the floor a *)
(* call has read, with the run routed by it, must still be right about     *)
(* bitcoind, which on a node that does not prune rests on the flag read at *)
(* startup.                                                                *)
(***************************************************************************)
Routed == {"heights", "route", "local", "receive", "rpc"}

Expected(t) ==
    /\ pc[t] = "receive" =>
          /\ replies \o asked = SubSeq(batch[t], Position(t), runEnd[t])
          /\ ~headers
    /\ pc[t] = "answer" =>
          /\ replies = <<>>
          /\ \/ asked = <<NewHeaders>> /\ ~headers
             \/ asked = <<>> /\ headers

Wire ==
    /\ p2p = Nobody => asked = <<>> /\ replies = <<>> /\ ~headers
    /\ \A t \in Threads : Expected(t)

FloorHolds(t) ==
    /\ pc[t] \in Routed => pruneHeight <= floor[t]
    /\ pc[t] \in {"local", "receive"} =>
          \A i \in Position(t)..runEnd[t] : pruneHeight <= batch[t][i]

Floors ==
    /\ ~pruning => pruneHeight = 0
    /\ up => pruned = pruning
    /\ ~up => Quiet
    /\ \A t \in Threads : FloorHolds(t)

QInv == IInv /\ Wire /\ Floors

\* A step that leaves the connection, and those who wait on it, alone.
LEMMA WireKept ==
    ASSUME Wire, UNCHANGED connection,
           \A t \in Threads :
              pc'[t] \in {"receive", "answer"} =>
                 /\ pc'[t] = pc[t] /\ batch'[t] = batch[t]
                 /\ got'[t] = got[t] /\ runEnd'[t] = runEnd[t]
    PROVE  Wire'
<1>1. ASSUME NEW t \in Threads PROVE Expected(t)'
  <2>1. Expected(t)
    BY DEF Wire
  <2>2. QED
    BY <2>1 DEF Expected, Position, connection
<1>2. QED
  BY <1>1 DEF Wire, connection

\* A step of one thread, which leaves the others' plans alone.
LEMMA FloorsKept ==
    ASSUME Floors, NEW t \in Threads, up, UNCHANGED <<node, up, pruned>>,
           \A u \in Threads \ {t} :
              /\ pc'[u] = pc[u] /\ batch'[u] = batch[u] /\ got'[u] = got[u]
              /\ floor'[u] = floor[u] /\ runEnd'[u] = runEnd[u],
           FloorHolds(t)'
    PROVE  Floors'
<1>1. ASSUME NEW u \in Threads PROVE FloorHolds(u)'
  <2>1. CASE u = t
    BY <2>1
  <2>2. CASE u # t
    <3>1. FloorHolds(u)
      BY DEF Floors
    <3>2. QED
      BY <2>2, <3>1 DEF FloorHolds, Position, node
  <2>3. QED
    BY <2>1, <2>2
<1>2. QED
  BY <1>1 DEF Floors, node

\* Only one thread waits on the connection, and it holds the mutex.
LEMMA OneHolder ==
    ASSUME IInv, NEW t \in Threads, pc[t] \in {"receive", "answer"}
    PROVE  /\ p2p = t /\ p2p # Nobody
           /\ \A u \in Threads \ {t} : pc[u] \notin {"receive", "answer"}
BY DEF IInv, TypeOK

\* The end of the process, and of the connection with it.
LEMMA ExitQuiet ==
    ASSUME Floors, Exit, UNCHANGED pruneHeight, pruning' \in {pruning, TRUE}
    PROVE  Wire' /\ Floors'
<1>1. /\ ~up' /\ asked' = <<>> /\ replies' = <<>> /\ headers' = FALSE
      /\ \A t \in Threads : pc'[t] = "idle"
  BY DEF Exit
<1>2. Wire'
  BY <1>1 DEF Wire, Expected
<1>3. \A t \in Threads : FloorHolds(t)'
  BY <1>1 DEF FloorHolds, Routed
<1>4. QED
  BY <1>1, <1>2, <1>3 DEF Floors, Quiet

\* Leaving for_blocks outside a run over p2p.
LEMMA LeavingQuiet ==
    ASSUME QInv, NEW t \in Threads, NEW outcome, Leaves(t, outcome),
           pc[t] \in {"floor", "heights", "route", "rpc"},
           UNCHANGED <<node, pruned, replies>>
    PROVE  Wire' /\ Floors'
<1>1. /\ pc'[t] = "idle"
      /\ \A u \in Threads \ {t} :
            pc'[u] = pc[u] /\ floor'[u] = floor[u] /\ runEnd'[u] = runEnd[u]
      /\ UNCHANGED <<up, asked, headers, batch, got>>
  BY DEF Leaves, QInv, IInv, TypeOK
<1>2. p2p' = p2p
  BY DEF Leaves, QInv, IInv, TypeOK
<1>3. Wire'
  <2>1. \A u \in Threads : pc'[u] \in {"receive", "answer"} => u # t
    BY <1>1
  <2>2. QED
    BY <1>1, <1>2, <2>1, WireKept DEF QInv, connection
<1>4. FloorHolds(t)'
  BY <1>1 DEF FloorHolds, Routed
<1>5. up
  BY DEF QInv, Floors, Quiet
<1>6. QED
  BY <1>1, <1>3, <1>4, <1>5, FloorsKept DEF QInv

LEMMA FailingQuiet ==
    ASSUME QInv, NEW t \in Threads, Fails(t, replies),
           pc[t] \in {"floor", "heights", "route", "rpc"},
           UNCHANGED <<node, pruned>>
    PROVE  Wire' /\ Floors'
<1>1. CASE Exit
  BY <1>1, ExitQuiet DEF QInv, node
<1>2. CASE Leaves(t, "err") /\ replies' = replies
  BY <1>2, LeavingQuiet
<1>3. QED
  BY <1>1, <1>2 DEF Fails

\* A call starts: on a node that does not prune, everything is on its disk.
LEMMA CallQuiet ==
    ASSUME QInv, NEW t \in Threads, NEW k \in {"index", "query"},
           NEW b \in Batches, Call(t, k, b)
    PROVE  Wire' /\ Floors'
<1>1. up /\ b \in Seq(Heights) /\ Len(b) \in Nat
  BY LenProperties DEF Call, MayStart
<1>2. /\ \A u \in Threads \ {t} :
            /\ pc'[u] = pc[u] /\ batch'[u] = batch[u] /\ got'[u] = got[u]
            /\ floor'[u] = floor[u] /\ runEnd'[u] = runEnd[u]
      /\ batch'[t] = b /\ got'[t] = <<>> /\ floor'[t] = floor[t]
      /\ \/ pc'[t] = "floor"
         \/ pc'[t] = "local" /\ ~pruned /\ runEnd'[t] = Len(b)
      /\ UNCHANGED <<node, up, pruned, connection>>
  BY DEF Call, QInv, IInv, TypeOK
<1>3. Wire'
  <2>1. \A u \in Threads : pc'[u] \in {"receive", "answer"} => u # t
    BY <1>2
  <2>2. QED
    BY <1>2, <2>1, WireKept DEF QInv
<1>4. FloorHolds(t)'
  <2>1. CASE pc'[t] = "floor"
    BY <2>1 DEF FloorHolds, Routed
  <2>2. CASE pc'[t] = "local" /\ ~pruned /\ runEnd'[t] = Len(b)
    <3>1. pruneHeight' = 0
      BY <1>1, <1>2, <2>2 DEF QInv, Floors, node
    <3>2. floor'[t] \in Nat
      BY <1>2 DEF QInv, IInv, TypeOK
    <3>3. Position(t)' = 1
      BY <1>2, Empty DEF Position
    <3>4. \A i \in 1..Len(b) : b[i] \in Nat
      BY <1>1, ElementOfSeq
    <3>5. QED
      BY <1>2, <2>2, <3>1, <3>2, <3>3, <3>4 DEF FloorHolds
  <2>3. QED
    BY <1>2, <2>1, <2>2
<1>5. QED
  BY <1>1, <1>2, <1>3, <1>4, FloorsKept DEF QInv

\* The prune height is read, and is right until the call is over.
LEMMA ReadQuiet ==
    ASSUME QInv, NEW t \in Threads, ReadPruneHeight(t)
    PROVE  Wire' /\ Floors'
<1>1. pc[t] = "floor" /\ UNCHANGED <<node, pruned>>
  BY DEF ReadPruneHeight
<1>2. CASE Fails(t, replies)
  BY <1>1, <1>2, FailingQuiet
<1>3. CASE /\ floor' = [floor EXCEPT ![t] = pruneHeight]
           /\ pc' = [pc EXCEPT ![t] = "heights"]
           /\ UNCHANGED <<up, connection, kind, runEnd, status, batch, got>>
  <2>1. /\ pc'[t] = "heights" /\ floor'[t] = pruneHeight
        /\ \A u \in Threads \ {t} : pc'[u] = pc[u] /\ floor'[u] = floor[u]
    BY <1>3 DEF QInv, IInv, TypeOK
  <2>2. Wire'
    <3>1. \A u \in Threads : pc'[u] \in {"receive", "answer"} => u # t
      BY <2>1
    <3>2. QED
      BY <1>3, <2>1, <3>1, WireKept DEF QInv
  <2>3. FloorHolds(t)'
    <3>1. pruneHeight' = pruneHeight /\ pruneHeight \in Nat
      BY <1>1 DEF node, QInv, IInv, TypeOK
    <3>2. QED
      BY <2>1, <3>1 DEF FloorHolds, Routed
  <2>4. up
    BY <1>1 DEF QInv, Floors, Quiet
  <2>5. QED
    BY <1>1, <1>3, <2>1, <2>2, <2>3, <2>4, FloorsKept DEF QInv
<1>4. QED
  BY <1>2, <1>3 DEF ReadPruneHeight

LEMMA ResolveQuiet ==
    ASSUME QInv, NEW t \in Threads, ResolveHeights(t)
    PROVE  Wire' /\ Floors'
<1>1. pc[t] = "heights" /\ UNCHANGED <<node, pruned>>
  BY DEF ResolveHeights
<1>2. CASE Fails(t, replies)
  BY <1>1, <1>2, FailingQuiet
<1>3. CASE /\ pc' = [pc EXCEPT ![t] = "route"]
           /\ UNCHANGED <<up, connection, plan, status, batch, got>>
  <2>1. /\ pc'[t] = "route"
        /\ \A u \in Threads \ {t} : pc'[u] = pc[u]
    BY <1>3 DEF QInv, IInv, TypeOK
  <2>2. Wire'
    <3>1. \A u \in Threads : pc'[u] \in {"receive", "answer"} => u # t
      BY <2>1
    <3>2. QED
      BY <1>3, <2>1, <3>1, WireKept DEF QInv, plan
  <2>3. FloorHolds(t)'
    <3>1. FloorHolds(t)
      BY DEF QInv, Floors
    <3>2. pruneHeight <= floor[t]
      BY <1>1, <3>1 DEF FloorHolds, Routed
    <3>3. QED
      BY <1>1, <1>3, <2>1, <3>2 DEF FloorHolds, node, plan
  <2>4. up
    BY <1>1 DEF QInv, Floors, Quiet
  <2>5. QED
    BY <1>1, <1>3, <2>1, <2>2, <2>3, <2>4, FloorsKept DEF QInv, plan
<1>4. QED
  BY <1>2, <1>3 DEF ResolveHeights

\* A run goes over p2p only if it lies above the floor as a whole.
LEMMA RouteQuiet ==
    ASSUME QInv, NEW t \in Threads, Route(t)
    PROVE  Wire' /\ Floors'
<1>1. pc[t] = "route" /\ UNCHANGED <<node, pruned>>
  BY DEF Route
<1>2. CASE Leaves(t, "ok") /\ UNCHANGED replies
  BY <1>1, <1>2, LeavingQuiet
<1>3. ASSUME NEW end \in Position(t)..Len(batch[t]),
             MaximalRun(t, end),
             runEnd' = [runEnd EXCEPT ![t] = end],
             pc' = [pc EXCEPT ![t] =
                      IF Local(t, Position(t)) THEN "local" ELSE "rpc"],
             UNCHANGED <<up, connection, kind, floor, status, batch, got>>
      PROVE  Wire' /\ Floors'
  <2>1. Len(got[t]) \in Nat /\ Len(batch[t]) \in Nat
        /\ batch[t] \in Seq(Heights)
    BY LenProperties DEF QInv, IInv, TypeOK
  <2>2. Position(t) \in Nat /\ Position(t) >= 1 /\ end \in Nat
        /\ Position(t) <= end /\ end <= Len(batch[t])
    BY <1>3, <2>1 DEF Position
  <2>3. /\ runEnd'[t] = end
        /\ pc'[t] = IF Local(t, Position(t)) THEN "local" ELSE "rpc"
        /\ \A u \in Threads \ {t} : pc'[u] = pc[u] /\ runEnd'[u] = runEnd[u]
    BY <1>3 DEF QInv, IInv, TypeOK
  <2>4. Wire'
    <3>1. \A u \in Threads : pc'[u] \in {"receive", "answer"} => u # t
      BY <2>3
    <3>2. QED
      BY <1>3, <2>3, <3>1, WireKept DEF QInv
  <2>5. FloorHolds(t)'
    <3>1. pruneHeight <= floor[t] /\ pruneHeight \in Nat /\ floor[t] \in Nat
      <4>1. FloorHolds(t)
        BY DEF QInv, Floors
      <4>2. QED
        BY <1>1, <4>1 DEF FloorHolds, Routed, QInv, IInv, TypeOK
    <3>2. ASSUME Local(t, Position(t)), NEW i \in Position(t)..end
          PROVE  pruneHeight <= batch[t][i]
      <4>1. i \in 1..Len(batch[t])
        BY <2>1, <2>2
      <4>2. batch[t][i] \in Nat
        BY <2>1, <4>1, ElementOfSeq
      <4>3. batch[t][i] >= floor[t]
        BY <1>3, <3>2 DEF MaximalRun, Local
      <4>4. QED
        BY <3>1, <4>2, <4>3
    <3>3. /\ pruneHeight' = pruneHeight /\ floor' = floor /\ batch' = batch
          /\ Position(t)' = Position(t)
      BY <1>1, <1>3 DEF node, Position
    <3>4. CASE Local(t, Position(t))
      BY <2>3, <3>1, <3>2, <3>3, <3>4 DEF FloorHolds
    <3>5. CASE ~Local(t, Position(t))
      BY <2>3, <3>1, <3>3, <3>5 DEF FloorHolds
    <3>6. QED
      BY <3>4, <3>5
  <2>6. up
    BY <1>1 DEF QInv, Floors, Quiet
  <2>7. QED
    BY <1>1, <1>3, <2>3, <2>4, <2>5, <2>6, FloorsKept DEF QInv
<1>4. QED
  BY <1>2, <1>3 DEF Route

LEMMA SumIsOne ==
    ASSUME NEW m \in Nat \ {0}, NEW n \in Nat, m + n = 1
    PROVE  m = 1 /\ n = 0
OBVIOUS

LEMMA InsideTheRun ==
    ASSUME NEW m \in Nat, NEW n \in Nat, NEW last \in Nat, NEW i \in Nat,
           1 <= m, n <= last, m <= i, i <= n
    PROVE  i \in m..n /\ i \in 1..last
OBVIOUS

LEMMA FirstAndRest ==
    ASSUME NEW S, NEW s \in Seq(S), s # <<>>
    PROVE  <<Head(s)>> \o Tail(s) = s
<1>1. Len(s) \in Nat \ {0}
  BY EmptySeq
<1>2. 1 \in 1..Len(s) /\ Len(s) \in 1..Len(s)
  BY <1>1
<1>3. SubSeq(s, 1, Len(s)) = <<s[1]>> \o SubSeq(s, 1 + 1, Len(s))
  BY <1>2, SubSeqRecursiveFirst
<1>4. SubSeq(s, 1, Len(s)) = s /\ Tail(s) = SubSeq(s, 2, Len(s))
  BY SubSeqFull, TailIsSubSeq
<1>5. Head(s) = s[1]
  OBVIOUS
<1>6. QED
  BY <1>3, <1>4, <1>5

\* The first of one sequence may as well be the last of the other.
LEMMA Regrouped ==
    ASSUME NEW S, NEW r \in Seq(S), NEW f \in Seq(S), NEW u \in Seq(S)
    PROVE  (r \o f) \o u = r \o (f \o u)
BY ConcatAssociative

LEMMA MovedAcross ==
    ASSUME NEW S, NEW r \in Seq(S), NEW s \in Seq(S), s # <<>>
    PROVE  Append(r, Head(s)) \o Tail(s) = r \o s
<1>1. Head(s) \in S /\ Tail(s) \in Seq(S)
  BY HeadTailProperties
<1>2. <<Head(s)>> \in Seq(S)
  BY <1>1
<1>3. Append(r, Head(s)) = r \o <<Head(s)>>
  BY <1>1, AppendIsConcat
<1>4. <<Head(s)>> \o Tail(s) = s
  BY FirstAndRest
<1>5. ASSUME NEW f \in Seq(S), Append(r, Head(s)) = r \o f, f \o Tail(s) = s
      PROVE  Append(r, Head(s)) \o Tail(s) = r \o s
  <2>1. (r \o f) \o Tail(s) = r \o (f \o Tail(s))
    BY <1>1, Regrouped
  <2>2. QED
    BY <1>5, <2>1, Zenon
<1>6. QED
  BY <1>2, <1>3, <1>4, <1>5, Zenon

\* What is on its way to a thread in a run is the rest of that run, block by
\* block.
LEMMA RestOfTheRun ==
    ASSUME QInv, NEW t \in Threads, pc[t] = "receive"
    PROVE  /\ Position(t) \in 1..Len(batch[t])
           /\ runEnd[t] \in Position(t)..Len(batch[t])
           /\ batch[t] \in Seq(Heights)
           /\ asked \in Seq(0..NewHeaders) /\ replies \in Seq(0..NewHeaders)
           /\ Len(replies) + Len(asked) = runEnd[t] - Position(t) + 1
           /\ \A i \in 1..Len(replies) + Len(asked) :
                 (replies \o asked)[i] = batch[t][Position(t) + i - 1]
<1>1. /\ Len(got[t]) \in Nat /\ Len(batch[t]) \in Nat /\ runEnd[t] \in Nat
      /\ batch[t] \in Seq(Heights)
  BY LenProperties DEF QInv, IInv, TypeOK
<1>2. /\ Position(t) \in 1..Len(batch[t])
      /\ runEnd[t] \in Position(t)..Len(batch[t])
  BY <1>1 DEF QInv, IInv, CallInv, OnARun, Position
<1>3. asked \in Seq(0..NewHeaders) /\ replies \in Seq(0..NewHeaders)
  BY SeqMonotonic DEF QInv, IInv, TypeOK
<1>4. \A i \in Position(t)..runEnd[t] : batch[t][i] \in Heights
  BY <1>1, <1>2, ElementOfSeq
<1>5. replies \o asked = SubSeq(batch[t], Position(t), runEnd[t])
  BY DEF QInv, Wire, Expected
<1>6. Len(replies \o asked) = Len(replies) + Len(asked)
  BY <1>3, ConcatProperties
<1>7. Position(t) \in Int /\ runEnd[t] \in Int /\ Position(t) <= runEnd[t]
  BY <1>1, <1>2
<1>8. /\ Len(replies \o asked) = runEnd[t] - Position(t) + 1
      /\ \A i \in 1..runEnd[t] - Position(t) + 1 :
            (replies \o asked)[i] = batch[t][Position(t) + i - 1]
  BY <1>4, <1>5, <1>7, SubSeqProperties
<1>9. QED
  BY <1>1, <1>2, <1>3, <1>6, <1>8

\* Every request on its way is for a block bitcoind still has.
LEMMA OnDisk ==
    ASSUME QInv, NEW t \in Threads, pc[t] = "receive"
    PROVE  \A i \in 1..Len(asked) : asked[i] \in Heights /\ asked[i] >= pruneHeight
<1> TAKE i \in 1..Len(asked)
<1> DEFINE j == Len(replies) + i
<1>1. /\ Len(replies) \in Nat /\ Len(asked) \in Nat /\ Len(batch[t]) \in Nat
      /\ asked \in Seq(0..NewHeaders) /\ replies \in Seq(0..NewHeaders)
  BY RestOfTheRun, LenProperties
<1>2. j \in 1..Len(replies) + Len(asked) /\ ~(j <= Len(replies))
  BY <1>1
<1>3. asked[i] = (replies \o asked)[j]
  BY <1>1, <1>2, ConcatProperties
<1>4. asked[i] = batch[t][Position(t) + j - 1]
  BY <1>2, <1>3, RestOfTheRun
<1>5. /\ Position(t) + j - 1 \in Position(t)..runEnd[t]
      /\ Position(t) + j - 1 \in 1..Len(batch[t])
  <2>1. /\ Position(t) \in 1..Len(batch[t])
        /\ runEnd[t] \in Position(t)..Len(batch[t])
        /\ Len(replies) + Len(asked) = runEnd[t] - Position(t) + 1
    BY RestOfTheRun
  <2>2. /\ Position(t) \in Nat /\ runEnd[t] \in Nat /\ j \in Nat
        /\ 1 <= Position(t) /\ 1 <= j
    BY <1>1, <2>1
  <2>3. j <= runEnd[t] - Position(t) + 1
    BY <1>1, <1>2, <2>1
  <2>4. Position(t) + j - 1 <= runEnd[t] /\ Position(t) <= Position(t) + j - 1
    BY <2>2, <2>3
  <2>5. Position(t) + j - 1 \in Nat /\ runEnd[t] <= Len(batch[t])
    <3>1. Position(t) + j - 1 \in Nat
      BY <2>2
    <3>2. runEnd[t] <= Len(batch[t])
      BY <1>1, <2>1
    <3>3. QED
      BY <3>1, <3>2
  <2>6. QED
    BY <1>1, <2>2, <2>4, <2>5, InsideTheRun
<1>6. batch[t][Position(t) + j - 1] \in Heights
  BY <1>5, RestOfTheRun, ElementOfSeq
<1>7. pruneHeight <= batch[t][Position(t) + j - 1]
  BY <1>5 DEF QInv, Floors, FloorHolds
<1>8. QED
  BY <1>4, <1>6, <1>7 DEF QInv, IInv, TypeOK

\* A request for a run goes out over a clean connection.
LEMMA AskQuiet ==
    ASSUME QInv, NEW t \in Threads, Ask(t)
    PROVE  Wire' /\ Floors'
<1> DEFINE run == SubSeq(batch[t], Position(t), runEnd[t])
<1>1. /\ pc[t] = "local" /\ p2p = Nobody
      /\ asked' = asked \o run
      /\ p2p' = t
      /\ UNCHANGED <<pruning, pruneHeight, up, pruned, replies, headers, kind,
                     floor, runEnd, status, batch, got>>
  BY DEF Ask, node, plan
<1>2. /\ pc'[t] = "receive"
      /\ \A u \in Threads \ {t} : pc'[u] = pc[u]
  BY DEF Ask, QInv, IInv, TypeOK
<1>3. asked = <<>> /\ replies = <<>> /\ ~headers
  BY <1>1 DEF QInv, Wire
<1>4. run \in Seq(Heights)
  <2>1. /\ Len(got[t]) \in Nat /\ Len(batch[t]) \in Nat /\ runEnd[t] \in Nat
        /\ batch[t] \in Seq(Heights)
    BY LenProperties DEF QInv, IInv, TypeOK
  <2>2. runEnd[t] <= Len(batch[t])
    BY <1>1 DEF QInv, IInv, CallInv, OnARun
  <2>3. Position(t) \in Int /\ Position(t) >= 1 /\ runEnd[t] \in Int
    BY <2>1 DEF Position
  <2>4. \A i \in Position(t)..runEnd[t] : batch[t][i] \in Heights
    BY <2>1, <2>2, <2>3, ElementOfSeq
  <2>5. QED
    BY <2>3, <2>4, SubSeqProperties
<1>5. replies' \o asked' = run
  BY <1>1, <1>3, <1>4, ConcatEmptySeq
<1>6. Expected(t)'
  BY <1>1, <1>2, <1>3, <1>5 DEF Expected, Position
<1>7. ASSUME NEW u \in Threads \ {t} PROVE Expected(u)'
  BY <1>1, <1>2 DEF Expected, QInv, IInv, TypeOK
<1>8. Wire'
  BY <1>1, <1>6, <1>7 DEF Wire
<1>9. FloorHolds(t)'
  <2>1. FloorHolds(t)
    BY DEF QInv, Floors
  <2>2. QED
    BY <1>1, <1>2, <2>1 DEF FloorHolds, Routed, Position
<1>10. up
  BY <1>1 DEF QInv, Floors, Quiet
<1>11. QED
  BY <1>1, <1>2, <1>8, <1>9, <1>10, FloorsKept DEF QInv, node

\* The next reply is the block expected at this position; the one after the
\* last leaves nothing behind.
LEMMA ReceiveQuiet ==
    ASSUME QInv, NEW t \in Threads, Receive(t)
    PROVE  Wire' /\ Floors'
<1> DEFINE b == batch[t]
           m == Position(t)
           n == runEnd[t]
<1>1. pc[t] = "receive" /\ replies # <<>> /\ UNCHANGED <<node, pruned>>
  BY DEF Receive
<1>2. /\ m \in 1..Len(b) /\ n \in m..Len(b) /\ b \in Seq(Heights)
      /\ asked \in Seq(0..NewHeaders) /\ replies \in Seq(0..NewHeaders)
      /\ Len(replies) + Len(asked) = n - m + 1
      /\ \A i \in 1..Len(replies) + Len(asked) : (replies \o asked)[i] = b[m + i - 1]
  BY <1>1, RestOfTheRun
<1>3. /\ Len(replies) \in Nat \ {0} /\ Len(asked) \in Nat /\ Len(b) \in Nat
      /\ m \in Nat /\ n \in Nat
  <2>1. Len(replies) \in Nat \ {0}
    BY <1>1, <1>2, EmptySeq
  <2>2. Len(asked) \in Nat /\ Len(b) \in Nat
    BY <1>2, LenProperties
  <2>3. m \in Nat /\ n \in Nat
    BY <1>2, <2>2
  <2>4. QED
    BY <2>1, <2>2, <2>3
<1>4. Head(replies) = b[m]
  <2>1. (replies \o asked)[1] = replies[1]
    BY <1>2, <1>3, ConcatProperties
  <2>2. (replies \o asked)[1] = b[m + 1 - 1] /\ m + 1 - 1 = m
    <3>1. 1 \in 1..Len(replies) + Len(asked)
      BY <1>3
    <3>2. (replies \o asked)[1] = b[m + 1 - 1]
      BY <1>2, <3>1
    <3>3. m + 1 - 1 = m
      BY <1>3
    <3>4. QED
      BY <3>2, <3>3
  <2>3. Head(replies) = replies[1]
    BY <1>1, <1>2
  <2>4. QED
    BY <1>3, <2>1, <2>2, <2>3
<1>5. /\ replies' = Tail(replies)
      /\ Hands(t, Head(replies))
      /\ p2p' = IF m = n THEN Nobody ELSE p2p
  BY <1>4 DEF Receive
<1>6. /\ got' = [got EXCEPT ![t] = Append(@, Head(replies))]
      /\ pc' = [pc EXCEPT ![t] = IF m = n THEN "route" ELSE @]
      /\ UNCHANGED <<up, asked, headers, kind, floor, runEnd, status, batch>>
  BY <1>5 DEF Hands, plan
<1>7. /\ pc'[t] = IF m = n THEN "route" ELSE "receive"
      /\ \A u \in Threads \ {t} : pc'[u] = pc[u] /\ got'[u] = got[u]
  BY <1>1, <1>6 DEF QInv, IInv, TypeOK
<1>8. Position(t)' = m + 1
  <2>1. got[t] \in Seq(Heights) /\ Head(replies) \in Heights
    <3>1. b[m] \in Heights
      BY <1>2, ElementOfSeq
    <3>2. QED
      BY <1>4, <3>1 DEF QInv, IInv, TypeOK
  <2>2. got'[t] = Append(got[t], Head(replies))
    BY <1>6 DEF QInv, IInv, TypeOK
  <2>3. Len(got'[t]) = Len(got[t]) + 1 /\ Len(got[t]) \in Nat
    BY <2>1, <2>2, AppendProperties, LenProperties
  <2>4. QED
    BY <2>3 DEF Position
<1>9. ~headers
  BY <1>1 DEF QInv, Wire, Expected
<1>10. /\ Tail(replies) \in Seq(0..NewHeaders)
       /\ Len(Tail(replies)) = Len(replies) - 1
       /\ \A i \in 1..Len(Tail(replies)) : Tail(replies)[i] = replies[i + 1]
  BY <1>1, <1>2, HeadTailProperties
<1>11. Tail(replies) \o asked = SubSeq(b, m + 1, n)
  <2> DEFINE s == Tail(replies) \o asked
             r == SubSeq(b, m + 1, n)
  <2>1. /\ s \in Seq(0..NewHeaders)
        /\ Len(s) = Len(replies) - 1 + Len(asked)
        /\ \A i \in 1..Len(replies) - 1 + Len(asked) :
              s[i] = IF i <= Len(replies) - 1 THEN Tail(replies)[i]
                     ELSE asked[i - (Len(replies) - 1)]
    BY <1>2, <1>10, ConcatProperties
  <2>2. /\ r \in Seq(0..NewHeaders)
        /\ Len(r) = IF m + 1 <= n THEN n - (m + 1) + 1 ELSE 0
        /\ \A i \in 1..n - (m + 1) + 1 : r[i] = b[m + 1 + i - 1]
    <3>1. \A i \in m + 1..n : b[i] \in 0..NewHeaders
      <4> TAKE i \in m + 1..n
      <4>1. i \in 1..Len(b)
        BY <1>2, <1>3
      <4>2. b[i] \in Heights
        BY <1>2, <4>1, ElementOfSeq
      <4>3. QED
        BY <4>2
    <3>2. m + 1 \in Int /\ n \in Int
      BY <1>3
    <3>3. QED
      BY <3>1, <3>2, SubSeqProperties
  <2>3. Len(s) = Len(r)
    <3>1. Len(replies) + Len(asked) = n - m + 1 /\ m <= n
      BY <1>2, <1>3
    <3>2. /\ Len(s) = Len(replies) - 1 + Len(asked)
          /\ Len(r) = IF m + 1 <= n THEN n - (m + 1) + 1 ELSE 0
      BY <2>1, <2>2
    <3>3. QED
      BY <1>3, <3>1, <3>2
  <2>4. ASSUME NEW i \in 1..Len(s) PROVE s[i] = r[i]
    <3>1. i \in Nat /\ 1 <= i /\ i <= n - m /\ i + 1 \in 1..Len(replies) + Len(asked)
      BY <1>2, <1>3, <2>1
    <3>2. (replies \o asked)[i + 1] = b[m + (i + 1) - 1]
      BY <1>2, <3>1
    <3>3. r[i] = b[m + 1 + i - 1]
      <4>1. i \in 1..n - (m + 1) + 1
        BY <1>3, <3>1
      <4>2. QED
        BY <2>2, <4>1
    <3>4. (replies \o asked)[i + 1] =
             IF i + 1 <= Len(replies) THEN replies[i + 1]
             ELSE asked[(i + 1) - Len(replies)]
      BY <1>2, <3>1, ConcatProperties
    <3>5. CASE i <= Len(replies) - 1
      <4>1. i \in 1..Len(Tail(replies)) /\ i + 1 <= Len(replies)
        BY <1>3, <1>10, <3>1, <3>5
      <4>2. s[i] = Tail(replies)[i]
        BY <2>1, <2>4, <3>5
      <4>3. s[i] = replies[i + 1]
        BY <1>10, <4>1, <4>2
      <4>4. m + 1 + i - 1 = m + (i + 1) - 1
        BY <1>3, <3>1
      <4>5. QED
        BY <3>2, <3>3, <3>4, <4>1, <4>3, <4>4
    <3>6. CASE ~(i <= Len(replies) - 1)
      <4>1. /\ ~(i + 1 <= Len(replies))
            /\ (i + 1) - Len(replies) = i - (Len(replies) - 1)
        BY <1>3, <3>1, <3>6
      <4>2. s[i] = asked[i - (Len(replies) - 1)]
        BY <2>1, <2>4, <3>6
      <4>3. m + 1 + i - 1 = m + (i + 1) - 1
        BY <1>3, <3>1
      <4>4. QED
        BY <3>2, <3>3, <3>4, <4>1, <4>2, <4>3
    <3>7. QED
      BY <3>5, <3>6
  <2>5. QED
    BY <2>1, <2>2, <2>3, <2>4, SeqEqual
<1>12. Expected(t)'
  <2>1. replies' \o asked' = SubSeq(batch'[t], Position(t)', runEnd'[t])
    BY <1>5, <1>6, <1>8, <1>11
  <2>2. QED
    BY <1>6, <1>7, <1>9, <2>1 DEF Expected
<1>13. ASSUME NEW u \in Threads \ {t} PROVE Expected(u)'
  BY <1>1, <1>7, OneHolder DEF Expected, QInv
<1>14. p2p' = Nobody => asked' = <<>> /\ replies' = <<>> /\ ~headers'
  <2>1. CASE m = n
    <3>1. Len(replies) = 1 /\ Len(asked) = 0
      <4>1. Len(replies) + Len(asked) = n - m + 1
        BY <1>2
      <4>2. n - m + 1 = 1
        BY <1>3, <2>1
      <4>3. Len(replies) + Len(asked) = 1
        BY <4>1, <4>2
      <4>4. QED
        BY <1>3, <4>3, SumIsOne
    <3>2. asked = <<>>
      BY <1>2, <3>1, EmptySeq
    <3>3. Tail(replies) = <<>>
      <4>1. Len(Tail(replies)) = 0
        BY <1>10, <3>1
      <4>2. QED
        BY <1>10, <4>1, EmptySeq
    <3>4. QED
      BY <1>5, <1>6, <1>9, <3>2, <3>3
  <2>2. CASE m # n
    BY <1>1, <1>5, <2>2, OneHolder DEF QInv
  <2>3. QED
    BY <2>1, <2>2
<1>15. Wire'
  BY <1>12, <1>13, <1>14 DEF Wire
<1>16. FloorHolds(t)'
  <2>1. /\ pruneHeight' = pruneHeight /\ pruneHeight <= floor[t]
        /\ \A i \in m..n : pruneHeight <= b[i]
    BY <1>1 DEF node, QInv, Floors, FloorHolds, Routed
  <2>2. \A i \in m + 1..n : i \in m..n
    BY <1>3
  <2>3. QED
    BY <1>6, <1>7, <1>8, <2>1, <2>2 DEF FloorHolds
<1>17. up
  BY <1>1 DEF QInv, Floors, Quiet
<1>18. QED
  BY <1>1, <1>6, <1>7, <1>15, <1>16, <1>17, FloorsKept DEF QInv

\* A pruned block is handed over, and the call moves on.
LEMMA FetchQuiet ==
    ASSUME QInv, NEW t \in Threads, FetchPruned(t)
    PROVE  Wire' /\ Floors'
<1>1. pc[t] = "rpc" /\ UNCHANGED <<node, pruned>>
  BY DEF FetchPruned
<1>2. CASE Fails(t, replies)
  BY <1>1, <1>2, FailingQuiet
<1>3. CASE Hands(t, batch[t][Position(t)]) /\ UNCHANGED <<p2p, replies>>
  <2>1. /\ pc'[t] \in {"route", "rpc"}
        /\ \A u \in Threads \ {t} : pc'[u] = pc[u] /\ got'[u] = got[u]
        /\ UNCHANGED <<up, asked, headers, kind, floor, runEnd, status, batch>>
    BY <1>1, <1>3 DEF Hands, plan, QInv, IInv, TypeOK
  <2>2. Wire'
    <3>1. \A u \in Threads : pc'[u] \in {"receive", "answer"} => u # t
      BY <2>1
    <3>2. QED
      BY <1>3, <2>1, <3>1, WireKept DEF QInv, connection
  <2>3. FloorHolds(t)'
    <3>1. pruneHeight <= floor[t]
      BY <1>1 DEF QInv, Floors, FloorHolds, Routed
    <3>2. QED
      BY <1>1, <2>1, <3>1 DEF FloorHolds, node
  <2>4. up
    BY <1>1 DEF QInv, Floors, Quiet
  <2>5. QED
    BY <1>1, <2>1, <2>2, <2>3, <2>4, FloorsKept DEF QInv
<1>4. QED
  BY <1>2, <1>3 DEF FetchPruned

\* The three steps of a header request.
LEMMA HeadersQuiet ==
    ASSUME QInv, NEW t \in Threads,
           GetNewHeaders(t) \/ AskHeaders(t) \/ ReceiveHeaders(t)
    PROVE  Wire' /\ Floors'
<1>1. /\ UNCHANGED <<pruning, pruneHeight, up, pruned, floor, runEnd, batch,
                     got, replies>>
      /\ up /\ pc'[t] \in {"headers", "answer", "idle"}
      /\ \A u \in Threads \ {t} : pc'[u] = pc[u]
  BY DEF GetNewHeaders, AskHeaders, ReceiveHeaders, MayStart, node, plan,
         connection, QInv, IInv, TypeOK, Floors, Quiet
<1>2. FloorHolds(t)'
  BY <1>1 DEF FloorHolds, Routed
<1>3. Floors'
  BY <1>1, <1>2, FloorsKept DEF QInv, node
<1>4. CASE GetNewHeaders(t)
  <2>1. \A u \in Threads : pc'[u] \in {"receive", "answer"} => u # t
    BY <1>4 DEF GetNewHeaders, QInv, IInv, TypeOK
  <2>2. QED
    BY <1>1, <1>3, <1>4, <2>1, WireKept DEF QInv, GetNewHeaders
<1>5. CASE AskHeaders(t)
  <2>1. /\ p2p = Nobody /\ p2p' = t /\ headers' = headers
        /\ asked' = Append(asked, NewHeaders) /\ pc'[t] = "answer"
    BY <1>5 DEF AskHeaders, QInv, IInv, TypeOK
  <2>2. asked = <<>> /\ replies = <<>> /\ ~headers
    BY <2>1 DEF QInv, Wire
  <2>3. Expected(t)'
    <3>1. asked' = <<NewHeaders>>
      BY <2>1, <2>2
    <3>2. QED
      BY <1>1, <2>1, <2>2, <3>1 DEF Expected
  <2>4. ASSUME NEW u \in Threads \ {t} PROVE Expected(u)'
    BY <1>1, <2>1 DEF Expected, QInv, IInv, TypeOK
  <2>5. QED
    BY <1>3, <2>1, <2>3, <2>4 DEF Wire
<1>6. CASE ReceiveHeaders(t)
  <2>1. /\ pc[t] = "answer" /\ headers /\ headers' = FALSE /\ p2p' = Nobody
        /\ asked' = asked /\ pc'[t] = "idle"
    BY <1>6 DEF ReceiveHeaders, QInv, IInv, TypeOK
  <2>2. asked = <<>> /\ replies = <<>>
    BY <2>1 DEF QInv, Wire, Expected
  <2>3. \A u \in Threads : pc'[u] \notin {"receive", "answer"}
    BY <1>1, <2>1, OneHolder DEF QInv
  <2>4. QED
    BY <1>1, <1>3, <2>1, <2>2, <2>3 DEF Wire, Expected
<1>7. QED
  BY <1>4, <1>5, <1>6

\* bitcoind skips nothing: the block moves from the requests to the replies.
LEMMA ServeQuiet ==
    ASSUME QInv, BitcoindServes
    PROVE  Wire' /\ Floors'
<1>1. /\ asked # <<>> /\ asked' = Tail(asked)
      /\ UNCHANGED <<pruning, pruneHeight, up, pruned, p2p, pc, kind, floor,
                     runEnd, status, batch, got>>
  BY DEF BitcoindServes, node, plan
<1>2. Floors'
  <2>1. ASSUME NEW t \in Threads PROVE FloorHolds(t)'
    BY <1>1 DEF QInv, Floors, FloorHolds, Position
  <2>2. QED
    BY <1>1, <2>1 DEF QInv, Floors, Quiet
<1>3. PICK t \in Threads : p2p = t
  BY <1>1 DEF QInv, Wire, IInv, TypeOK
<1>4. /\ pc[t] \in {"receive", "answer"} /\ p2p' # Nobody
      /\ \A u \in Threads \ {t} : pc[u] \notin {"receive", "answer"}
  BY <1>1, <1>3 DEF QInv, IInv, TypeOK
<1>5. Expected(t)
  BY DEF QInv, Wire
<1>6. CASE pc[t] = "answer"
  <2>1. asked = <<NewHeaders>> /\ ~headers /\ replies = <<>>
    BY <1>1, <1>5, <1>6 DEF Expected
  <2>2. Head(asked) = NewHeaders /\ asked' = <<>>
    BY <1>1, <2>1
  <2>3. headers' /\ replies' = replies
    BY <2>2 DEF BitcoindServes
  <2>4. Expected(t)'
    BY <1>1, <1>6, <2>1, <2>2, <2>3 DEF Expected
  <2>5. QED
    BY <1>1, <1>2, <1>4, <2>4 DEF Wire, Expected
<1>7. CASE pc[t] = "receive"
  <2>1. asked \in Seq(0..NewHeaders) /\ replies \in Seq(0..NewHeaders)
    BY <1>7, RestOfTheRun
  <2>2. Head(asked) \in Heights /\ Head(asked) >= pruneHeight
    <3>1. 1 \in 1..Len(asked)
      BY <1>1, <2>1, EmptySeq
    <3>2. Head(asked) = asked[1]
      BY <1>1, <2>1
    <3>3. QED
      BY <1>7, <3>1, <3>2, OnDisk
  <2>3. Head(asked) # NewHeaders /\ ~(Head(asked) < pruneHeight)
    <3>1. pruneHeight \in Nat
      BY DEF QInv, IInv, TypeOK
    <3>2. QED
      BY <2>2, <3>1
  <2>4. replies' = Append(replies, Head(asked)) /\ headers' = headers
    BY <2>3 DEF BitcoindServes
  <2>5. replies' \o asked' = replies \o asked
    BY <1>1, <2>1, <2>4, MovedAcross
  <2>6. Expected(t)'
    BY <1>1, <1>5, <1>7, <2>4, <2>5 DEF Expected, Position
  <2>7. QED
    BY <1>1, <1>2, <1>4, <2>6 DEF Wire, Expected
<1>8. QED
  BY <1>4, <1>6, <1>7

\* Between calls bitcoind may prune, and nothing is on its way.
LEMMA PruneQuiet ==
    ASSUME QInv, ~PruneDuringCalls, NEW h \in Heights, Prune(h)
    PROVE  Wire' /\ Floors'
<1>1. /\ pruning /\ Quiet
      /\ UNCHANGED <<pruning, up, pruned, connection, pc, plan, batch, got>>
  BY DEF Prune
<1>2. \A t \in Threads : pc'[t] = "idle"
  BY <1>1 DEF Quiet
<1>3. Wire'
  BY <1>1, <1>2, WireKept DEF QInv
<1>4. Floors'
  BY <1>1, <1>2 DEF QInv, Floors, FloorHolds, Routed, Quiet
<1>5. QED
  BY <1>3, <1>4

LEMMA QuietInductive == ~PruneDuringCalls /\ QInv /\ [Next]_vars => QInv'
<1> SUFFICES ASSUME ~PruneDuringCalls, QInv, [Next]_vars PROVE Wire' /\ Floors'
  BY Inductive DEF QInv
<1>1. ASSUME NEW t \in Threads, NEW k \in {"index", "query"},
             NEW b \in Batches, Call(t, k, b)
      PROVE  Wire' /\ Floors'
  BY <1>1, CallQuiet
<1>2. ASSUME NEW t \in Threads,
             GetNewHeaders(t) \/ AskHeaders(t) \/ ReceiveHeaders(t)
      PROVE  Wire' /\ Floors'
  BY <1>2, HeadersQuiet
<1>3. ASSUME NEW t \in Threads, Ask(t) PROVE Wire' /\ Floors'
  BY <1>3, AskQuiet
<1>4. ASSUME NEW t \in Threads, ReadPruneHeight(t) PROVE Wire' /\ Floors'
  BY <1>4, ReadQuiet
<1>5. ASSUME NEW t \in Threads, ResolveHeights(t) PROVE Wire' /\ Floors'
  BY <1>5, ResolveQuiet
<1>6. ASSUME NEW t \in Threads, Route(t) PROVE Wire' /\ Floors'
  BY <1>6, RouteQuiet
<1>7. ASSUME NEW t \in Threads, Receive(t) PROVE Wire' /\ Floors'
  BY <1>7, ReceiveQuiet
<1>8. ASSUME NEW t \in Threads, FetchPruned(t) PROVE Wire' /\ Floors'
  BY <1>8, FetchQuiet
<1>9. ASSUME NEW h \in Heights, Prune(h) PROVE Wire' /\ Floors'
  BY <1>9, PruneQuiet
<1>10. CASE BitcoindServes
  BY <1>10, ServeQuiet
<1>11. CASE Crash
  BY <1>11, ExitQuiet DEF Crash, QInv, node
<1>12. CASE BitcoindRestarts
  BY <1>12, ExitQuiet DEF BitcoindRestarts, QInv
<1>13. CASE Restart
  <2>1. /\ ~up /\ pruned' = pruning
        /\ UNCHANGED <<pruning, pruneHeight, connection, pc, plan, batch, got>>
    BY <1>13 DEF Restart, node
  <2>2. \A t \in Threads : pc[t] = "idle"
    BY <2>1 DEF QInv, Floors, Quiet
  <2>3. Wire'
    BY <2>1, <2>2, WireKept DEF QInv
  <2>4. \A t \in Threads : FloorHolds(t)'
    BY <2>1, <2>2 DEF FloorHolds, Routed
  <2>5. QED
    BY <2>1, <2>2, <2>3, <2>4 DEF QInv, Floors, Quiet
<1>14. CASE UNCHANGED vars
  <2>1. Wire'
    <3>1. UNCHANGED <<connection, pc, runEnd, batch, got>>
      BY <1>14 DEF vars, plan
    <3>2. QED
      BY <3>1, WireKept DEF QInv
  <2>2. UNCHANGED <<pruning, pruneHeight, up, pruned, pc, floor, runEnd,
                    batch, got>>
    BY <1>14 DEF vars, node, plan
  <2>3. ASSUME NEW t \in Threads PROVE FloorHolds(t)'
    BY <2>2 DEF QInv, Floors, FloorHolds, Position
  <2>4. QED
    BY <2>1, <2>2, <2>3 DEF QInv, Floors, Quiet
<1>15. QED
  BY <1>1, <1>2, <1>3, <1>4, <1>5, <1>6, <1>7, <1>8, <1>9, <1>10, <1>11,
     <1>12, <1>13, <1>14 DEF Next, ThreadStep

LEMMA QuietInvariant ==
    ASSUME ~PruneDuringCalls
    PROVE  Spec => []QInv
<1>1. Init => Wire /\ Floors
  <2> SUFFICES ASSUME Init PROVE Wire /\ Floors
    OBVIOUS
  <2>1. ASSUME NEW t \in Threads PROVE pc[t] = "idle"
    BY DEF Init
  <2>2. Wire
    BY <2>1, Zenon DEF Init, Wire, Expected
  <2>3. \A t \in Threads : FloorHolds(t)
    BY <2>1, Zenon DEF FloorHolds, Routed
  <2>4. QED
    BY <2>1, <2>2, <2>3 DEF Init, Floors, Quiet
<1>2. QInv /\ [Next]_vars => QInv'
  BY QuietInductive
<1>3. Init /\ IInv => QInv
  BY <1>1 DEF QInv
<1>4. QED
  BY <1>2, <1>3, Invariant, PTL DEF Spec

(* As long as bitcoind prunes only between calls, nothing that is on its    *)
(* way over p2p is a block it has pruned and would answer with silence:     *)
(* the split "decided before asking" of Daemon::for_blocks is right for     *)
(* every batch and every prune height, on a node that prunes or does not.   *)
THEOREM AsksOnlyForBlocksOnDisk ==
    ASSUME ~PruneDuringCalls
    PROVE  Spec => []NeverAsksForPruned
<1>1. QInv => NeverAsksForPruned
  <2> SUFFICES ASSUME QInv, NEW i \in DOMAIN asked
               PROVE  asked[i] >= pruneHeight
    BY DEF NeverAsksForPruned
  <2>1. i \in 1..Len(asked)
    BY LenProperties DEF QInv, IInv, TypeOK
  <2>2. asked # <<>>
    BY <2>1, EmptySeq
  <2>3. PICK t \in Threads : p2p = t
    BY <2>2 DEF QInv, Wire, IInv, TypeOK
  <2>4. CASE pc[t] = "receive"
    BY <2>1, <2>4, OnDisk
  <2>5. CASE pc[t] = "answer"
    <3>1. asked = <<NewHeaders>>
      BY <2>2, <2>5 DEF QInv, Wire, Expected
    <3>2. asked[i] = NewHeaders
      BY <2>1, <3>1
    <3>3. QED
      BY <3>2 DEF QInv, IInv, TypeOK
  <2>6. QED
    BY <2>3, <2>4, <2>5 DEF QInv, IInv, TypeOK
<1>2. QED
  BY <1>1, QuietInvariant, PTL

(* What is on its way over the shared connection is exactly what the holder *)
(* of the mutex still expects, in its order, and the mutex is passed on     *)
(* with nothing left: replies without identifiers never reach the wrong     *)
(* caller of Connection::for_blocks.                                        *)
THEOREM ConnectionHandedOnClean ==
    ASSUME ~PruneDuringCalls
    PROVE  Spec => []InFlightIsExpected
<1>1. QInv => InFlightIsExpected
  BY DEF QInv, Wire, Expected, InFlightIsExpected
<1>2. QED
  BY <1>1, QuietInvariant, PTL

-----------------------------------------------------------------------------
(***************************************************************************)
(* Refinement.                                                             *)
(***************************************************************************)
\* A step that fails is a Fail of the abstract source, or its Exit.
LEMMA FailingRefines ==
    ASSUME IInv, NEW t \in Threads, pc[t] \in Calling,
           NEW left, Fails(t, left)
    PROVE  Source!Next
<1>1. status[t] = "running"
  BY DEF IInv, CallInv
<1>2. CASE Exit
  BY <1>2 DEF Exit, Source!Next, Source!Exit
<1>3. CASE Leaves(t, "err")
  BY <1>1, <1>3 DEF Leaves, Source!Next, Source!Fail
<1>4. QED
  BY <1>2, <1>3 DEF Fails

\* Handing over the expected block is a Hand of the abstract source.
LEMMA HandingRefines ==
    ASSUME IInv, NEW t \in Threads, pc[t] \in {"receive", "rpc"},
           Hands(t, batch[t][Position(t)])
    PROVE  Source!Next
<1>1. status[t] = "running"
  BY DEF IInv, CallInv, Calling
<1>2. Len(got[t]) \in Nat /\ Len(batch[t]) \in Nat /\ runEnd[t] \in Nat
  BY LenProperties DEF IInv, TypeOK
<1>3. Len(got[t]) < Len(batch[t])
  BY <1>2 DEF IInv, CallInv, OnARun, Position
<1>4. got' = [got EXCEPT ![t] = Append(@, batch[t][Len(@) + 1])]
  BY DEF Hands, Position
<1>5. Source!Hand(t)
  BY <1>1, <1>3, <1>4 DEF Source!Hand, Hands
<1>6. QED
  BY <1>5 DEF Source!Next

\* "ok" is returned only when the whole batch has been handed over.
LEMMA ReturningRefines ==
    ASSUME IInv, NEW t \in Threads, pc[t] = "route",
           Position(t) > Len(batch[t]), Leaves(t, "ok")
    PROVE  Source!Next
<1>1. status[t] = "running"
  BY DEF IInv, CallInv, Calling
<1>2. got[t] \in Seq(Heights) /\ batch[t] \in Seq(Heights)
  BY DEF IInv, TypeOK
<1>3. Len(got[t]) = Len(batch[t])
  BY <1>2, LenProperties DEF IInv, CallInv, Position
<1>4. \A i \in 1..Len(got[t]) : got[t][i] = batch[t][i]
  BY DEF IInv, CallInv
<1>5. got[t] = batch[t]
  BY <1>2, <1>3, <1>4, SeqEqual
<1>6. QED
  BY <1>1, <1>5 DEF Leaves, Source!Next, Source!Return

LEMMA StepRefines == IInv /\ [Next]_vars => [Source!Next]_(Source!vars)
<1> SUFFICES ASSUME IInv, [Next]_vars
             PROVE  Source!Next \/ UNCHANGED <<status, batch, got>>
  BY DEF Source!vars
<1>1. ASSUME NEW t \in Threads, NEW k \in {"index", "query"},
             NEW b \in Batches, Call(t, k, b)
      PROVE  Source!Next
  <2>1. status[t] # "running"
    BY <1>1 DEF Call, IInv, CallInv, Calling
  <2>2. QED
    BY <1>1, <2>1 DEF Call, Source!Next, Source!Begin
<1>2. ASSUME NEW t \in Threads, ReadPruneHeight(t) \/ ResolveHeights(t)
      PROVE  Source!Next \/ UNCHANGED <<status, batch, got>>
  BY <1>2, FailingRefines DEF ReadPruneHeight, ResolveHeights, Calling
<1>3. ASSUME NEW t \in Threads, Route(t)
      PROVE  Source!Next \/ UNCHANGED <<status, batch, got>>
  BY <1>3, ReturningRefines DEF Route
<1>4. ASSUME NEW t \in Threads, Receive(t) PROVE Source!Next
  BY <1>4, HandingRefines, FailingRefines DEF Receive, Calling
<1>5. ASSUME NEW t \in Threads, FetchPruned(t) PROVE Source!Next
  BY <1>5, HandingRefines, FailingRefines DEF FetchPruned, Calling
<1>6. CASE Crash \/ BitcoindRestarts
  BY <1>6 DEF Crash, BitcoindRestarts, Exit, Source!Next, Source!Exit
<1>7. CASE UNCHANGED <<status, batch, got>>
  BY <1>7
<1>8. QED
  BY <1>1, <1>2, <1>3, <1>4, <1>5, <1>6, <1>7
  DEF Next, ThreadStep, vars, GetNewHeaders, Ask, AskHeaders, ReceiveHeaders,
      Prune, BitcoindServes, Restart

(* for_blocks implements BlockSource: whatever bitcoind prunes and whoever   *)
(* else uses the connection, a caller is handed the blocks of its own batch, *)
(* in order, and told "ok" only after the last of them.                     *)
THEOREM Refinement == Spec => ImplementsBlockSource
<1>1. Init => Source!Init
  BY DEF Init, Source!Init
<1>2. QED
  BY <1>1, StepRefines, Invariant, PTL
  DEF Spec, ImplementsBlockSource, Source!Spec
=============================================================================
