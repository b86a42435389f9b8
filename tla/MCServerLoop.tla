----------------------------- MODULE MCServerLoop -----------------------------
(* Two kinds of wallet: one that stops at 1.4, and one whose range spans both *)
(* versions (Sparrow as patched).                                             *)
EXTENDS ServerLoop

CONSTANTS legacy, ranged

MCSpeaks == [c \in Clients |-> IF c = legacy THEN {V1} ELSE {V1, V2}]
=============================================================================
