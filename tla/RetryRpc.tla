------------------------------ MODULE RetryRpc -------------------------------
(***************************************************************************)
(* Daemon::retry_rpc (patches/0002) and the way for_blocks_with uses it:   *)
(* an operation is a sequence of RPCs (the prune height, the heights of    *)
(* the batch, each pruned block), and each is retried on its own, with the *)
(* same budget of time and with exponential backoff between attempts.      *)
(*                                                                         *)
(* Time is counted in ticks and only passes while an RPC is under way or   *)
(* the thread sleeps.  "now" is read at the points where the code reads    *)
(* its clock.                                                              *)
(***************************************************************************)
EXTENDS Naturals

CONSTANTS
    Budget,      \* how long one RPC is retried
    FirstDelay,  \* the first wait between two attempts
    MaxDelay,    \* the longest one (RPC_RETRY_MAX_DELAY)
    Slice,       \* the longest sleep between two looks at the exit flag
    CallTimes,   \* how long an RPC may take; its longest is the RPC timeout
    MaxCall,     \* that timeout
    Rpcs         \* the number of RPCs the operation makes

ASSUME RetryAssumption ==
    /\ Budget \in Nat
    /\ FirstDelay \in Nat \ {0}
    /\ MaxDelay \in Nat /\ FirstDelay <= MaxDelay
    /\ Slice \in Nat \ {0}
    /\ MaxCall \in Nat
    /\ CallTimes \subseteq 0..MaxCall
    /\ Rpcs \in Nat \ {0}

VARIABLES
    now,       \* time since the operation began
    since,     \* when the RPC or the sleep that ended at "now" began
    rpc,       \* which of its RPCs is being made
    state,     \* "calling", "waiting", or how the operation ended
    deadline,  \* end of the budget of this RPC
    delay,     \* the wait after the next failure, or the wait under way
    until,     \* end of the wait under way
    exitFlag,  \* has the process been told to stop
    exitAt     \* when it was

vars == <<now, since, rpc, state, deadline, delay, until, exitFlag, exitAt>>

Ended == {"done", "failed", "interrupted"}
Smaller(a, b) == IF a <= b THEN a ELSE b
Larger(a, b) == IF a >= b THEN a ELSE b

Init ==
    /\ now = 0 /\ since = 0 /\ rpc = 1 /\ state = "calling"
    /\ deadline = Budget /\ delay = FirstDelay /\ until = 0
    /\ exitFlag = FALSE /\ exitAt = 0

\* Time passes while an RPC or a sleep lasts.
Passes(d) == now' = now + d /\ since' = now

\* The RPC answers.  The next one of the operation starts with a budget and a
\* delay of its own; the exit flag is not looked at.
Succeed(d) ==
    /\ state = "calling"
    /\ Passes(d)
    /\ \/ /\ rpc = Rpcs
          /\ state' = "done"
          /\ UNCHANGED <<rpc, deadline, delay>>
       \/ /\ rpc < Rpcs
          /\ rpc' = rpc + 1
          /\ deadline' = now' + Budget
          /\ delay' = FirstDelay
          /\ UNCHANGED state
    /\ UNCHANGED <<until, exitFlag, exitAt>>

(* Mutant: the clock is read before the attempt and not after it.           *)
ErrByItsBeginning(d) ==
    /\ state = "calling"
    /\ Passes(d)
    /\ \/ now >= deadline /\ state' = "failed" /\ UNCHANGED until
       \/ /\ now < deadline
          /\ state' = "waiting"
          /\ until' = now' + delay
    /\ UNCHANGED <<rpc, deadline, delay, exitFlag, exitAt>>

\* The RPC fails: past the deadline the error is returned, before it another
\* wait begins, however long it is.
Err(d) ==
    /\ state = "calling"
    /\ Passes(d)
    /\ \/ now' >= deadline /\ state' = "failed" /\ UNCHANGED until
       \/ /\ now' < deadline
          /\ state' = "waiting"
          /\ until' = now' + delay
    /\ UNCHANGED <<rpc, deadline, delay, exitFlag, exitAt>>

Doubled(d) == Smaller(2 * d, MaxDelay)

(* Mutant: one long sleep instead of slices.                                *)
SleepThrough(left) == left

SleepFor(left) == Smaller(Slice, left)

(* Mutant: the loop of slices is never left.                                *)
WaitWithoutBreak ==
    /\ state = "waiting"
    /\ \/ /\ exitFlag
          /\ state' = "interrupted"
          /\ UNCHANGED <<now, since>>
       \/ /\ ~exitFlag
          /\ Passes(IF now < until THEN SleepFor(until - now) ELSE 0)
          /\ UNCHANGED state
    /\ UNCHANGED <<rpc, deadline, delay, until, exitFlag, exitAt>>

\* One turn of the waiting loop: the exit flag is polled first, then the clock
\* is read, and the next attempt or another slice of sleep follows.
Wait ==
    /\ state = "waiting"
    /\ \/ /\ exitFlag
          /\ state' = "interrupted"
          /\ UNCHANGED <<now, since, delay>>
       \/ /\ ~exitFlag /\ now >= until
          /\ state' = "calling"
          /\ delay' = Doubled(delay)
          /\ UNCHANGED <<now, since>>
       \/ /\ ~exitFlag /\ now < until
          /\ Passes(SleepFor(until - now))
          /\ UNCHANGED <<state, delay>>
    /\ UNCHANGED <<rpc, deadline, until, exitFlag, exitAt>>

\* A signal, which may have arrived at any moment of the RPC or the sleep
\* that has just ended.
Signal ==
    /\ ~exitFlag /\ state \notin Ended
    /\ exitFlag' = TRUE
    /\ exitAt' \in since..now
    /\ UNCHANGED <<now, since, rpc, state, deadline, delay, until>>

Next ==
    \/ \E d \in CallTimes : Succeed(d) \/ Err(d)
    \/ Wait
    \/ Signal

Spec == Init /\ [][Next]_vars

\* An RPC is cut off by its timeout, and a sleep ends.
FairSpec ==
    Spec /\ WF_vars(Wait) /\ WF_vars(\E d \in CallTimes : Succeed(d) \/ Err(d))

-----------------------------------------------------------------------------
(***************************************************************************)
(* Properties                                                              *)
(***************************************************************************)
\* Every variable has its type, and no wait is longer than the longest one.
TypeOK ==
    /\ now \in Nat /\ since \in 0..now /\ rpc \in 1..Rpcs
    /\ state \in {"calling", "waiting"} \cup Ended
    /\ deadline \in Nat /\ until \in Nat
    /\ delay \in FirstDelay..MaxDelay
    /\ exitFlag \in BOOLEAN /\ exitAt \in 0..now

\* The error of an RPC is final only after its whole budget: a provider that
\* comes back within it is never missed by giving up early.
NeverGivesUpEarly == state = "failed" => now >= deadline

\* The backoff never more than doubles the budget: a wait is at most as long
\* as the time already spent on this RPC, give or take the first, so an error
\* is returned within twice the budget, the first delay and one RPC timeout,
\* and never more than one longest delay and one RPC timeout past the deadline.
Overrun == Smaller(Budget + FirstDelay, MaxDelay) + MaxCall
GivesUpInTime == state = "failed" => now <= deadline + Overrun

\* "so the exit flag is observed within a fraction of a second": a wait goes
\* on for at most one slice after the signal, or after its own beginning if the
\* signal came during the RPC before it.
ExitIsNoticed ==
    state = "waiting" /\ exitFlag =>
        now <= Larger(exitAt, until - delay) + Slice

\* An operation ends, with its result, an error, or because of a signal.
OperationEnds == <>(state \in Ended)

\* ARCHITECTURE.md, "serving waits 10 s": an operation that ends with an error
\* has not kept its caller waiting for longer than the budget and the RPC
\* that was under way when it ran out.
WaitsNoLongerThanBudget == state = "failed" => now <= Budget + MaxCall
=============================================================================
