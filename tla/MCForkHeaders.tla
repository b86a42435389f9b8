--------------------------- MODULE MCForkHeaders -----------------------------
EXTENDS ForkHeaders

\* Addresses 1 and 2 are given; 3 is heard of from 2 only.
MCKnows == [a \in Addrs |-> CASE a = 1 -> {2} [] a = 2 -> {1, 3} [] OTHER -> {1}]

\* A file of an earlier run, whose names may be right or wrong.
MCOldFiles == {{1, 3}}

\* Every payload of up to three words, and whatever two headers and their counts
\* make: short or long, with words that look like what they are not.  The words
\* are HeaderFetch's: 0 Zero, 1 Plain, 2 Flagged, 3 Wide.
MCHeaders == {<<1>>, <<3>>, <<2, 0>>, <<2, 2>>}
MCCounts == {<<0>>, <<3, 0>>, <<1>>}
MCPayloads ==
    UNION {[1..n -> 0..3] : n \in 0..3}
        \cup {g \o c \o h \o d : g, h \in MCHeaders, c, d \in MCCounts}
=============================================================================
