------------------------------ MODULE ForkPoint ------------------------------
(***************************************************************************)
(* headerv2::fork_point (patches/0006): the height at which the headers of *)
(* a chain change format, reported by server.features.  It is found by     *)
(* binary search, because the switch is monotone: the consensus rule of    *)
(* the fork makes every header from the activation height on a v2 one.     *)
(***************************************************************************)
EXTENDS Integers

CONSTANTS MaxHeight  \* bound on the height of the chain

ASSUME ForkAssumption == MaxHeight \in Nat

VARIABLES
    height,      \* Chain::height
    activation,  \* the first v2 height, perhaps above the tip
    lo, hi,      \* the bounds of the search
    state,       \* "start", "search", "none" or "found"
    probes       \* headers read so far

searchVars == <<height, activation, lo, hi, state, probes>>

\* AnyHeader::is_v2 of the header at this height.
IsV2(h) == h >= activation

\* Chain::has_v2_headers
HasV2Headers == IsV2(height)

SearchInit ==
    /\ height \in 0..MaxHeight
    /\ activation \in 0..(MaxHeight + 1)
    /\ lo = 0 /\ hi = 0 /\ state = "start" /\ probes = 0

Start ==
    /\ state = "start"
    /\ \/ /\ ~HasV2Headers
          /\ state' = "none"
          /\ UNCHANGED <<lo, hi>>
       \/ /\ HasV2Headers
          /\ lo' = 0 /\ hi' = height
          /\ state' = "search"
    /\ UNCHANGED <<height, activation, probes>>

Middle == lo + (hi - lo) \div 2

(* Mutant: the probed v2 header is excluded with the rest.                  *)
ProbeExcludingHit ==
    /\ state = "search" /\ lo < hi
    /\ IF IsV2(Middle) THEN hi' = Middle - 1 /\ UNCHANGED lo
                       ELSE lo' = Middle + 1 /\ UNCHANGED hi
    /\ probes' = probes + 1
    /\ UNCHANGED <<height, activation, state>>

(* Mutant: the search goes down one header at a time.                       *)
ProbeLinearly ==
    /\ state = "search" /\ lo < hi
    /\ IF IsV2(lo) THEN hi' = lo /\ UNCHANGED lo
                   ELSE lo' = lo + 1 /\ UNCHANGED hi
    /\ probes' = probes + 1
    /\ UNCHANGED <<height, activation, state>>

Probe ==
    /\ state = "search" /\ lo < hi
    /\ IF IsV2(Middle) THEN hi' = Middle /\ UNCHANGED lo
                       ELSE lo' = Middle + 1 /\ UNCHANGED hi
    /\ probes' = probes + 1
    /\ UNCHANGED <<height, activation, state>>

Report ==
    /\ state = "search" /\ ~(lo < hi)
    /\ state' = "found"
    /\ UNCHANGED <<height, activation, lo, hi, probes>>

SearchNext == Start \/ Probe \/ Report

SearchSpec == SearchInit /\ [][SearchNext]_searchVars

-----------------------------------------------------------------------------
(***************************************************************************)
(* Properties                                                              *)
(***************************************************************************)
\* Every variable has its type, and the search never leaves the chain: no
\* header is read that does not exist.
SearchTypeOK ==
    /\ height \in 0..MaxHeight
    /\ activation \in 0..(MaxHeight + 1)
    /\ lo \in 0..height /\ hi \in 0..height /\ lo <= hi
    /\ state \in {"start", "search", "none", "found"}
    /\ probes \in Nat

\* A fork point is reported exactly when the chain has a v2 header, and it is
\* the lowest one: a client can "ask for that height's header and check it is
\* v2" (0006, fork_point), and the one below it is not.
FindsTheFork ==
    /\ state = "found" => /\ IsV2(lo)
                          /\ \A h \in 0..height : h < lo => ~IsV2(h)
    /\ state = "none" => \A h \in 0..height : ~IsV2(h)

\* The search halves what is left: after n probes the range is no longer than
\* the chain divided by 2^n, so the search ends, and a features request reads a
\* handful of headers of a chain of any length.
HalvesTheRange ==
    state \in {"search", "found"} => (hi - lo) * 2^probes <= height
=============================================================================
