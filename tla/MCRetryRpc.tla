----------------------------- MODULE MCRetryRpc ------------------------------
(* Time in quarters of a second, with the delays of the code: 1 s doubling up *)
(* to 30 s, slept in slices of 250 ms.  The run that checks the properties    *)
(* takes a budget of 37.5 s, between the 10 s of a query and the 300 s of     *)
(* indexing: the delays reach their limit in it.  An RPC fails at once or at  *)
(* its timeout, shortened to 3 s.                                             *)
EXTENDS RetryRpc

MCCallTimes == {0, 12}
=============================================================================
