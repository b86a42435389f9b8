---------------------------- MODULE MCFetchBench -----------------------------
EXTENDS FetchBench

\* One worker, then two on the same two blocks.
MCLevels == <<1, 2>>
=============================================================================
