------------------------------ MODULE RpcProofs ------------------------------
(***************************************************************************)
(* What the RPCs to a block source promise: the bounds on retry_rpc, for   *)
(* every budget, every pair of delays, every slice, every RPC timeout and  *)
(* any number of RPCs, and what the archival helper may and may not do,    *)
(* for any number of threads fetching at once and a split at any height.   *)
(***************************************************************************)
EXTENDS RetryRpc, ArchivalHelper, TLAPS

USE RetryAssumption

(***************************************************************************)
(* The argument about the backoff.  A delay is at most the time this RPC   *)
(* has already taken plus the first delay: the delays before it add up to  *)
(* exactly that much, and the attempts only add to the time.  A wait is    *)
(* begun before the deadline.  So when it ends, the time is past the       *)
(* deadline by less than that last delay.                                  *)
(***************************************************************************)
Backoff ==
    /\ Budget <= deadline
    /\ state = "calling" =>
          /\ deadline - Budget <= now
          /\ delay + deadline <= FirstDelay + Budget + now
          /\ now <= deadline + Smaller(Budget + FirstDelay, MaxDelay)
    /\ state = "waiting" =>
          /\ delay <= until
          /\ deadline - Budget <= until - delay
          /\ until - delay < deadline
          /\ delay + deadline <= FirstDelay + Budget + (until - delay)
          /\ until - delay <= now /\ now <= until

IInv == TypeOK /\ Backoff /\ NeverGivesUpEarly /\ GivesUpInTime

LEMMA AtMostTwice ==
    ASSUME NEW x \in Nat, NEW y \in Nat, NEW d \in Nat, NEW s \in Nat,
           x <= y + y, y + y + d <= s
    PROVE  x + d <= s
OBVIOUS

LEMMA SmallerLarger ==
    ASSUME NEW a \in Nat, NEW b \in Nat
    PROVE  /\ Smaller(a, b) \in Nat /\ Smaller(a, b) <= a /\ Smaller(a, b) <= b
           /\ a <= Larger(a, b) /\ b <= Larger(a, b) /\ Larger(a, b) \in Nat
BY DEF Smaller, Larger

\* A failed RPC, either way it is taken.
LEMMA ErrKeeps ==
    ASSUME IInv, NEW d \in CallTimes, Err(d)
    PROVE  IInv'
<1> USE DEF IInv, TypeOK, Err, Passes, Ended
<1>1. d \in Nat /\ d <= MaxCall
  OBVIOUS
<1>2. now \in Nat /\ deadline \in Nat /\ delay \in Nat
  OBVIOUS
<1>3. Smaller(Budget + FirstDelay, MaxDelay) \in Nat
  BY DEF Smaller
<1>4. CASE now' >= deadline /\ state' = "failed" /\ UNCHANGED until
  BY <1>1, <1>2, <1>3, <1>4
  DEF Backoff, NeverGivesUpEarly, GivesUpInTime, Overrun
<1>5. CASE now' < deadline /\ state' = "waiting" /\ until' = now' + delay
  BY <1>1, <1>2, <1>5 DEF Backoff, NeverGivesUpEarly, GivesUpInTime
<1>6. QED
  BY <1>4, <1>5

LEMMA SucceedKeeps ==
    ASSUME IInv, NEW d \in CallTimes, Succeed(d)
    PROVE  IInv'
<1> USE DEF IInv, TypeOK, Succeed, Passes, Ended
<1>1. d \in Nat /\ now \in Nat /\ deadline \in Nat /\ now' \in Nat
  OBVIOUS
<1>2. Smaller(Budget + FirstDelay, MaxDelay) \in Nat
  BY DEF Smaller
<1>3. QED
  BY <1>1, <1>2 DEF Backoff, NeverGivesUpEarly, GivesUpInTime

LEMMA WaitKeeps ==
    ASSUME IInv, Wait
    PROVE  IInv'
<1> USE DEF IInv, TypeOK, Ended
<1>1. /\ now \in Nat /\ until \in Nat /\ delay \in Nat /\ deadline \in Nat
      /\ state = "waiting"
      /\ UNCHANGED <<rpc, deadline, until, exitFlag, exitAt>>
  BY DEF Wait
<1>2. CASE state' = "interrupted" /\ UNCHANGED <<now, since, delay>>
  BY <1>1, <1>2 DEF Backoff, NeverGivesUpEarly, GivesUpInTime
<1>3. CASE /\ now >= until /\ state' = "calling"
           /\ delay' = Doubled(delay) /\ UNCHANGED <<now, since>>
  <2>1. now = until
    BY <1>1, <1>3 DEF Backoff
  <2>2. /\ delay' \in FirstDelay..MaxDelay /\ delay' <= 2 * delay
    BY <1>1, <1>3 DEF Doubled, Smaller
  <2>3. /\ now < deadline + delay
        /\ delay <= MaxDelay /\ delay <= Budget + FirstDelay
    BY <1>1, <2>1 DEF Backoff
  <2>4. now <= deadline + Smaller(Budget + FirstDelay, MaxDelay)
    BY <1>1, <2>3 DEF Smaller
  <2>5. delay' + deadline <= FirstDelay + Budget + now
    <3>1. delay + deadline <= FirstDelay + Budget + (until - delay)
      BY <1>1 DEF Backoff
    <3>2. delay' \in Nat
      BY <2>2
    <3>3. delay' <= delay + delay
      BY <1>1, <2>2
    <3>4. Budget \in Nat /\ FirstDelay \in Nat
      OBVIOUS
    <3>5. deadline \in Nat /\ until \in Nat /\ delay \in Nat
      BY <1>1
    <3>6. delay + delay + deadline <= FirstDelay + Budget + until
      BY <3>1, <3>4, <3>5
    <3>7. FirstDelay + Budget + until \in Nat
      BY <3>4, <3>5
    <3>8. delay' + deadline <= FirstDelay + Budget + until
      BY ONLY AtMostTwice, <3>2, <3>3, <3>5, <3>6, <3>7
    <3>9. QED
      BY <2>1, <3>8
  <2>6. QED
    BY <1>1, <1>3, <2>1, <2>2, <2>4, <2>5
    DEF Backoff, NeverGivesUpEarly, GivesUpInTime
<1>4. CASE /\ now < until /\ Passes(SleepFor(until - now))
           /\ UNCHANGED <<state, delay>>
  <2>1. until - now \in Nat /\ SleepFor(until - now) \in Nat
    BY <1>1, <1>4 DEF SleepFor, Smaller
  <2>2. SleepFor(until - now) <= until - now
    BY <1>1, <2>1 DEF SleepFor, Smaller
  <2>3. QED
    BY <1>1, <1>4, <2>1, <2>2
    DEF Backoff, Passes, NeverGivesUpEarly, GivesUpInTime
<1>5. QED
  BY <1>2, <1>3, <1>4 DEF Wait

LEMMA Inductive == IInv /\ [Next]_vars => IInv'
<1> SUFFICES ASSUME IInv, [Next]_vars PROVE IInv'
  OBVIOUS
<1>1. ASSUME NEW d \in CallTimes, Succeed(d) PROVE IInv'
  BY <1>1, SucceedKeeps
<1>2. ASSUME NEW d \in CallTimes, Err(d) PROVE IInv'
  BY <1>2, ErrKeeps
<1>3. CASE Wait
  BY <1>3, WaitKeeps
<1>4. CASE Signal
  BY <1>4 DEF Signal, IInv, TypeOK, Ended, Backoff, NeverGivesUpEarly,
              GivesUpInTime, Overrun
<1>5. CASE UNCHANGED vars
  BY <1>5 DEF vars, IInv, TypeOK, Ended, Backoff, NeverGivesUpEarly,
              GivesUpInTime, Overrun
<1>6. QED
  BY <1>1, <1>2, <1>3, <1>4, <1>5 DEF Next

LEMMA Invariant == Spec => []IInv
<1>1. Init => IInv
  <2> SUFFICES ASSUME Init PROVE IInv
    OBVIOUS
  <2>1. TypeOK
    <3>1. /\ now \in Nat /\ since \in 0..now /\ rpc \in 1..Rpcs
          /\ deadline \in Nat /\ until \in Nat /\ exitAt \in 0..now
          /\ delay \in FirstDelay..MaxDelay
      BY DEF Init
    <3>2. state \in {"calling", "waiting"} \cup Ended
      BY DEF Init
    <3>3. exitFlag \in BOOLEAN
      BY DEF Init
    <3>4. QED
      BY <3>1, <3>2, <3>3 DEF TypeOK
  <2>2. Smaller(Budget + FirstDelay, MaxDelay) \in Nat
    BY DEF Smaller
  <2>3. Backoff
    BY <2>2 DEF Init, Backoff
  <2>4. QED
    BY <2>1, <2>3 DEF Init, IInv, NeverGivesUpEarly, GivesUpInTime
<1>2. QED
  BY <1>1, Inductive, PTL DEF Spec

(* Every variable keeps its type; in particular no delay exceeds the limit. *)
THEOREM TypeCorrect == Spec => []TypeOK
BY Invariant, PTL DEF IInv

(* No RPC is given up before its budget, and none is retried for longer than *)
(* the smaller of twice the budget and the budget plus the longest delay.   *)
THEOREM GivesUpOnTime == Spec => [](NeverGivesUpEarly /\ GivesUpInTime)
BY Invariant, PTL DEF IInv

(* The first half by itself: the whole budget is used before an error is    *)
(* final.                                                                   *)
THEOREM NeverEarly == Spec => []NeverGivesUpEarly
BY GivesUpOnTime, PTL

-----------------------------------------------------------------------------
(***************************************************************************)
(* The exit flag.  A sleep is at most one slice and ends the moment the    *)
(* flag is polled, so the sleep during which a signal arrives is the last. *)
(***************************************************************************)
SleepIsShort ==
    state = "waiting" =>
        \/ since + Slice >= now
        \/ now = until - delay

ExitInv == SleepIsShort /\ ExitIsNoticed

LEMMA ExitInductive == IInv /\ ExitInv /\ [Next]_vars => ExitInv'
<1> SUFFICES ASSUME IInv, ExitInv, [Next]_vars PROVE ExitInv'
  OBVIOUS
<1> USE DEF ExitInv, IInv, TypeOK, Ended
<1>0. now \in Nat /\ until \in Nat /\ delay \in Nat /\ since \in Nat
      /\ exitAt \in Nat
  OBVIOUS
<1>1. ASSUME NEW d \in CallTimes, Succeed(d) PROVE ExitInv'
  BY <1>1 DEF Succeed, SleepIsShort, ExitIsNoticed
<1>2. ASSUME NEW d \in CallTimes, Err(d) PROVE ExitInv'
  <2>1. CASE state' = "failed"
    BY <2>1 DEF SleepIsShort, ExitIsNoticed
  <2>2. CASE state' = "waiting" /\ until' = now' + delay
    <3>1. /\ until' - delay' = now' /\ now' \in Nat
          /\ exitAt' = exitAt
      BY <1>0, <1>2, <2>2 DEF Err, Passes
    <3>2. now' <= Larger(exitAt', until' - delay') + Slice
      BY <1>0, <3>1 DEF Larger
    <3>3. QED
      BY <3>1, <3>2 DEF SleepIsShort, ExitIsNoticed
  <2>3. QED
    BY <1>2, <2>1, <2>2 DEF Err
<1>3. CASE Wait
  <2>1. CASE state' # "waiting"
    BY <2>1 DEF SleepIsShort, ExitIsNoticed
  <2>2. CASE ~exitFlag /\ now < until /\ Passes(SleepFor(until - now))
    BY <1>0, <1>3, <2>2 DEF Wait, Passes, SleepFor, Smaller, SleepIsShort,
                            ExitIsNoticed
  <2>3. QED
    BY <1>3, <2>1, <2>2 DEF Wait
<1>4. CASE Signal
  <2>1. CASE state # "waiting"
    BY <1>4, <2>1 DEF Signal, SleepIsShort, ExitIsNoticed
  <2>2. CASE state = "waiting"
    <3>1. /\ exitAt' \in Nat /\ since <= exitAt' /\ until - delay \in Nat
          /\ now' = now /\ until' = until /\ delay' = delay /\ since' = since
      BY <1>0, <1>4, <2>2 DEF Signal, Backoff
    <3>2. now <= Larger(exitAt', until - delay) + Slice
      <4>1. /\ exitAt' <= Larger(exitAt', until - delay)
            /\ until - delay <= Larger(exitAt', until - delay)
            /\ Larger(exitAt', until - delay) \in Nat
        BY <3>1, SmallerLarger
      <4>2. CASE since + Slice >= now
        BY <1>0, <3>1, <4>1, <4>2
      <4>3. CASE now = until - delay
        BY <1>0, <3>1, <4>1, <4>3
      <4>4. QED
        BY <2>2, <4>2, <4>3 DEF SleepIsShort
    <3>3. QED
      BY <1>4, <2>2, <3>1, <3>2 DEF Signal, SleepIsShort, ExitIsNoticed
  <2>3. QED
    BY <2>1, <2>2
<1>5. CASE UNCHANGED vars
  BY <1>5 DEF vars, SleepIsShort, ExitIsNoticed
<1>6. QED
  BY <1>1, <1>2, <1>3, <1>4, <1>5 DEF Next

(* A wait is cut short within one slice of a signal.                        *)
THEOREM ExitNoticed == Spec => []ExitIsNoticed
<1>1. Init => ExitInv
  BY DEF Init, ExitInv, SleepIsShort, ExitIsNoticed
<1>2. QED
  BY <1>1, Invariant, ExitInductive, PTL DEF Spec, ExitInv

-----------------------------------------------------------------------------
(***************************************************************************)
(* The archival helper.                                                    *)
(***************************************************************************)
USE HelperAssumption DEF Heights, NoCeiling, NoHeader

(* Every variable keeps its type, and only an archival helper is used.      *)
THEOREM HelperTypeCorrect == HelperSpec => []HelperTypeOK
<1>1. HelperInit => HelperTypeOK
  <2> SUFFICES ASSUME HelperInit PROVE HelperTypeOK
    OBVIOUS
  <2>1. archival \in BOOLEAN /\ used \in BOOLEAN /\ (used => archival)
    BY Zenon DEF HelperInit, Usable
  <2>2. helperTip \in Heights /\ pruneHeight \in Heights
    BY DEF HelperInit
  <2>3. /\ ceiling \in 0..NoCeiling /\ unknown \in 0..NoCeiling
        /\ 0 \in Heights
    BY DEF HelperInit
  <2>4. /\ pc \in [Threads -> {"idle", "asking", "source"}]
        /\ want \in [Threads -> Heights]
    BY <2>3 DEF HelperInit
  <2>5. QED
    BY <2>1, <2>2, <2>3, <2>4 DEF HelperTypeOK
<1>2. HelperTypeOK /\ [HelperNext]_helperVars => HelperTypeOK'
  <2> SUFFICES ASSUME HelperTypeOK, [HelperNext]_helperVars PROVE HelperTypeOK'
    OBVIOUS
  <2> USE DEF HelperTypeOK
  <2>1. ASSUME NEW t \in Threads, NEW h \in Heights, Fetch(t, h)
        PROVE  HelperTypeOK'
    BY <2>1 DEF Fetch, nodes
  <2>2. ASSUME NEW t \in Threads, HelperAnswers(t) PROVE HelperTypeOK'
    <3>1. ASSUME NEW header, HelperSends(t, header)
          PROVE  HelperTypeOK'
      BY <2>2, <3>1 DEF HelperAnswers, HelperSends, HandsOn, FallsBack, nodes
    <3>2. CASE HelperLacks(t)
      BY <2>2, <3>2 DEF HelperAnswers, HelperLacks, FallsBack, Lower, nodes
    <3>3. CASE HelperFails(t)
      BY <2>2, <3>3 DEF HelperAnswers, HelperFails, FallsBack, nodes
    <3>4. QED
      BY <2>2, <3>1, <3>2, <3>3 DEF HelperAnswers
  <2>3. ASSUME NEW t \in Threads, SourceAnswers(t) PROVE HelperTypeOK'
    BY <2>3 DEF SourceAnswers, HandsOn, nodes
  <2>4. CASE HelperSyncs
    BY <2>4 DEF HelperSyncs
  <2>5. CASE Prune
    BY <2>5 DEF Prune
  <2>6. CASE Restart
    <3>1. /\ archival' \in BOOLEAN /\ used' \in BOOLEAN
          /\ (used' => archival')
      BY <2>6, Zenon DEF Restart, Usable, nodes
    <3>2. UNCHANGED <<helperTip, pruneHeight, want>>
      BY <2>6 DEF Restart, nodes
    <3>3. /\ ceiling' \in 0..NoCeiling /\ unknown' \in 0..NoCeiling
          /\ pc' \in [Threads -> {"idle", "asking", "source"}]
      BY <2>6 DEF Restart
    <3>4. QED
      BY <3>1, <3>2, <3>3
  <2>7. CASE UNCHANGED helperVars
    BY <2>7 DEF helperVars
  <2>8. QED
    BY <2>1, <2>2, <2>3, <2>4, <2>5, <2>6, <2>7 DEF HelperNext
<1>3. QED
  BY <1>1, <1>2, PTL DEF HelperSpec

(* Once the ceiling has come down to a height and nobody is still asking    *)
(* there, nobody asks at that height or above again before a restart, for   *)
(* any number of threads and whatever the helper answers.                   *)
THEOREM BoundaryStaysSettled == HelperSpec => BoundarySettles
<1>1. HelperTypeOK /\ [HelperNext]_helperVars =>
        [~Restart => \A b \in Heights : AskedBelow(b) => AskedBelow(b)']_helperVars
  <2> SUFFICES ASSUME HelperTypeOK, HelperNext, ~Restart,
                      NEW b \in Heights, AskedBelow(b)
               PROVE  AskedBelow(b)'
    OBVIOUS
  <2> USE DEF HelperTypeOK, AskedBelow
  <2>1. ASSUME NEW t \in Threads, NEW h \in Heights, Fetch(t, h)
        PROVE  AskedBelow(b)'
    <3>1. pc'[t] = "asking" => want'[t] < b
      BY <2>1 DEF Fetch, OfferedToHelper
    <3>2. ASSUME NEW u \in Threads, u # t, pc'[u] = "asking" PROVE want'[u] < b
      BY <2>1, <3>2 DEF Fetch
    <3>3. QED
      BY <2>1, <3>1, <3>2 DEF Fetch
  <2>2. ASSUME NEW t \in Threads, HelperAnswers(t)
        PROVE  AskedBelow(b)'
    <3>1. /\ pc[t] = "asking" /\ want' = want
          /\ pc' = [pc EXCEPT ![t] = "idle"] \/ pc' = [pc EXCEPT ![t] = "source"]
      BY <2>2 DEF HelperAnswers, HelperSends, HelperLacks, HelperFails,
                  HandsOn, FallsBack
    <3>2. ceiling' = ceiling \/ ceiling' = want[t]
      BY <2>2 DEF HelperAnswers, HelperSends, HelperLacks, HelperFails
    <3>3. QED
      BY <3>1, <3>2
  <2>3. ASSUME NEW t \in Threads, SourceAnswers(t)
        PROVE  AskedBelow(b)'
    BY <2>3 DEF SourceAnswers, HandsOn
  <2>4. CASE HelperSyncs \/ Prune
    BY <2>4 DEF HelperSyncs, Prune
  <2>5. QED
    BY <2>1, <2>2, <2>3, <2>4 DEF HelperNext
<1>2. QED
  BY <1>1, HelperTypeCorrect, PTL DEF BoundarySettles, HelperSpec

(***************************************************************************)
(* A helper that has reached the split before it is first used never       *)
(* leaves it, so what it does not have is not shared.                      *)
(***************************************************************************)
HelperSynced == ~HelperMayLag => helperTip >= Split - 1

(* However threads race and whatever errors the helper makes, it is never   *)
(* written off for a block it shares, if it had caught up with the split.   *)
THEOREM SharedHistorySpared ==
    ASSUME HelperMayLag = FALSE
    PROVE  HelperSpec => []CeilingSparesSharedHistory
<1>1. HelperInit => HelperSynced /\ CeilingSparesSharedHistory
  BY DEF HelperInit, HelperSynced, CeilingSparesSharedHistory
<1>2. HelperTypeOK /\ HelperSynced /\ CeilingSparesSharedHistory /\ [HelperNext]_helperVars
        => HelperSynced' /\ CeilingSparesSharedHistory'
  <2> SUFFICES ASSUME HelperTypeOK, HelperSynced, CeilingSparesSharedHistory,
                      [HelperNext]_helperVars
               PROVE  HelperSynced' /\ CeilingSparesSharedHistory'
    OBVIOUS
  <2> USE DEF HelperTypeOK, HelperSynced, CeilingSparesSharedHistory
  <2>1. ASSUME NEW t \in Threads, HelperLacks(t), ~HelperHas(want[t]),
               UNCHANGED nodes
        PROVE  HelperSynced' /\ CeilingSparesSharedHistory'
    BY <2>1 DEF HelperLacks, HelperHas, nodes
  <2>2. ASSUME NEW t \in Threads, HelperAnswers(t)
        PROVE  HelperSynced' /\ CeilingSparesSharedHistory'
    BY <2>1, <2>2 DEF HelperAnswers, HelperSends, HelperFails, nodes
  <2>3. CASE UNCHANGED <<helperTip, ceiling>>
    BY <2>3
  <2>4. CASE HelperSyncs
    BY <2>4 DEF HelperSyncs
  <2>5. CASE Restart
    BY <2>5 DEF Restart, nodes
  <2>6. QED
    BY <2>2, <2>3, <2>4, <2>5
    DEF HelperNext, Fetch, SourceAnswers, Prune, helperVars, nodes
<1>3. QED
  BY <1>1, <1>2, HelperTypeCorrect, PTL DEF HelperSpec
=============================================================================
