----------------------------- MODULE BlockSource -----------------------------
(***************************************************************************)
(* What Daemon::for_blocks promises to its callers, wherever the blocks    *)
(* come from: a caller is handed the blocks it asked for, all of them, one *)
(* at a time and in the order it asked, and is told "ok" only after the    *)
(* last one; otherwise it is told of an error, or the process ends.        *)
(***************************************************************************)
EXTENDS Naturals, Sequences

CONSTANTS
    Threads,  \* the threads that call for_blocks
    Batches   \* the sequences of blocks a caller may ask for

VARIABLES
    status,   \* status[t]: "idle", "running", or how the last call ended
    batch,    \* batch[t]: the blocks t's last call asked for
    got       \* got[t]: the blocks its callback has been handed

vars == <<status, batch, got>>

Statuses == {"idle", "running", "ok", "err", "lost"}

Init ==
    /\ status = [t \in Threads |-> "idle"]
    /\ batch = [t \in Threads |-> <<>>]
    /\ got = [t \in Threads |-> <<>>]

Begin(t, b) ==
    /\ status[t] # "running"
    /\ status' = [status EXCEPT ![t] = "running"]
    /\ batch' = [batch EXCEPT ![t] = b]
    /\ got' = [got EXCEPT ![t] = <<>>]

\* The callback is given the next block of the batch.
Hand(t) ==
    /\ status[t] = "running"
    /\ Len(got[t]) < Len(batch[t])
    /\ got' = [got EXCEPT ![t] = Append(@, batch[t][Len(@) + 1])]
    /\ UNCHANGED <<status, batch>>

Return(t) ==
    /\ status[t] = "running"
    /\ got[t] = batch[t]
    /\ status' = [status EXCEPT ![t] = "ok"]
    /\ UNCHANGED <<batch, got>>

Fail(t) ==
    /\ status[t] = "running"
    /\ status' = [status EXCEPT ![t] = "err"]
    /\ UNCHANGED <<batch, got>>

\* The process ends, and every running call with it.
Exit ==
    /\ status' = [t \in Threads |->
                    IF status[t] = "running" THEN "lost" ELSE status[t]]
    /\ UNCHANGED <<batch, got>>

Next ==
    \/ \E t \in Threads :
          \/ \E b \in Batches : Begin(t, b)
          \/ Hand(t) \/ Return(t) \/ Fail(t)
    \/ Exit

Spec == Init /\ [][Next]_vars
=============================================================================
