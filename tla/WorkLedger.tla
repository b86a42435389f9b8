----------------------------- MODULE WorkLedger ------------------------------
(***************************************************************************)
(* What a shared queue of work promises while workers come and go: a piece *)
(* of work is waiting, in the hands of one worker, or done; it is never in *)
(* two of these places, and never lost before the next round of work.      *)
(***************************************************************************)
CONSTANTS
    Work,     \* the pieces of work
    Workers,  \* those who do it
    Nothing   \* what an idle worker holds

VARIABLES
    todo,  \* the work that waits
    held,  \* held[w]: what w is working on
    done   \* the work that is done

vars == <<todo, held, done>>

Init ==
    /\ todo = {} /\ done = {}
    /\ held = [w \in Workers |-> Nothing]

\* A round of work is laid out, when nobody is working.
Open ==
    /\ \A w \in Workers : held[w] = Nothing
    /\ todo' \in SUBSET Work /\ done' = {}
    /\ UNCHANGED held

Take(w, b) ==
    /\ held[w] = Nothing /\ b \in todo
    /\ todo' = todo \ {b}
    /\ held' = [held EXCEPT ![w] = b]
    /\ UNCHANGED done

Finish(w) ==
    /\ held[w] \in Work
    /\ done' = done \cup {held[w]}
    /\ held' = [held EXCEPT ![w] = Nothing]
    /\ UNCHANGED todo

GiveBack(w) ==
    /\ held[w] \in Work
    /\ todo' = todo \cup {held[w]}
    /\ held' = [held EXCEPT ![w] = Nothing]
    /\ UNCHANGED done

Next ==
    \/ Open
    \/ \E w \in Workers :
          \/ \E b \in Work : Take(w, b)
          \/ Finish(w) \/ GiveBack(w)

Spec == Init /\ [][Next]_vars
=============================================================================
