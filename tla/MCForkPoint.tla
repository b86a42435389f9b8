----------------------------- MODULE MCForkPoint -----------------------------
(* Every chain of up to 34 headers and every activation height, that is every *)
(* shape of the range around a power of two.                                  *)
EXTENDS ForkPoint
=============================================================================
