----------------------------- MODULE MCHeaderV2 ------------------------------
EXTENDS HeaderV2

\* All combinations of time, offset, flags, key and cleared bits, flags of
\* more than three bits and versions without the v2 flag among them, and from
\* some of them one other field changed.
Plain ==
    [version |-> 2, prev |-> 0, height |-> 0, root |-> 0, time |-> 0, bits |-> 0,
     txcount |-> 0, flags |-> 0, clear |-> 0, key |-> 0, rhs |-> 0, extranonce |-> 0,
     nonce |-> 0, nonce2 |-> 0, nonce3 |-> 0, offset |-> 0]

MCHeaders ==
    {[Plain EXCEPT !.time = t, !.offset = o, !.flags = f, !.key = k, !.clear = c] :
        t \in {0, 3}, o \in {0, 3}, f \in 0..7 \cup {8, 13, 255}, k \in {0, 1}, c \in {3}}
    \cup {[Plain EXCEPT !.flags = f, !.key = 2, !.clear = c] : f \in 0..3, c \in 0..5}
    \cup {[Plain EXCEPT !.version = v, !.flags = f] : v \in 0..3, f \in {0, 1}}
    \cup {[[Plain EXCEPT !.flags = f] EXCEPT ![field] = v] :
              f \in 0..3, v \in {0, 1}, field \in DOMAIN Plain \ {"version", "flags"}}

MCStream == <<<<3, 3, 3>>, <<2, 1, 3>>>>
=============================================================================
