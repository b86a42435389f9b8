----------------------------- MODULE HeaderFetch -----------------------------
(***************************************************************************)
(* fetch_fork_headers.py: a run of headers from the first peer of a file   *)
(* that sends one.                                                         *)
(*                                                                         *)
(* The payload of a headers message is a count and then, for each header,  *)
(* its bytes and a count of transactions that is zero.  A header is short  *)
(* or long as a bit of its first word says, so where a header begins is    *)
(* known only by walking from the one before.  Words stand for the bytes:  *)
(* Flagged is a word that would say "long" if a header began with it, Zero *)
(* is what a count of transactions must be, and Wide is the byte that says *)
(* a count follows in more bytes than one, zero or not.  The words inside  *)
(* a header are arbitrary.                                                 *)
(*                                                                         *)
(* While it waits for the version and for the headers, the script reads    *)
(* and skips whatever else the peer sends.  Its deadline bounds each read  *)
(* and not the wait: a peer that keeps sending keeps it waiting.           *)
(***************************************************************************)
EXTENDS Integers, Sequences, FiniteSets

CONSTANTS
    Addrs,     \* addresses of the network
    ShortLen,  \* words of a v1 header, 80 bytes
    LongLen,   \* words of a v2 header, 164 bytes
    Payloads,  \* what may follow the count of a headers message
    MaxCount,  \* bound on that count
    Keeps      \* what --limit may be, 0 for none

Zero == 0
Plain == 1
Flagged == 2
Wide == 3
Words == {Zero, Plain, Flagged, Wide}

VARIABLES
    file,     \* --peers: the addresses in it
    step,     \* "idle", "connecting", "greeting", "asked", "walking", "written", "failed"
    tried,    \* the peers tried so far, the one under way among them
    peer,     \* that one; None before the first
    other,    \* does something lie unread that the script does not wait for?
    payload,  \* the words of the headers message, after the count
    count,    \* the count
    walked,   \* the headers split off: where each begins and its length
    offset,   \* where the next begins
    output    \* what --out holds, for this run of the script

None == "none"
fetchVars == <<step, tried, peer, other, payload, count, walked, offset, output>>

FetchInit ==
    /\ step = "idle" /\ tried = {} /\ peer = None /\ other = FALSE
    /\ payload = <<>> /\ count = 0 /\ walked = <<>> /\ offset = 1
    /\ output = <<>>

\* main: the next line of the file, or the end of it.
NextPeer ==
    /\ step \in {"idle", "connecting"}
    /\ \/ \E a \in file \ tried :
             /\ peer' = a /\ tried' = tried \cup {a} /\ step' = "greeting"
       \/ /\ file \subseteq tried
          /\ step' = "failed" /\ UNCHANGED <<tried, peer>>
    /\ UNCHANGED <<file, other, payload, count, walked, offset, output>>

Waiting == step \in {"greeting", "asked"}

\* The peer sends something else: a ping, an announcement, a version again.
PeerSends ==
    /\ Waiting /\ ~other
    /\ other' = TRUE
    /\ UNCHANGED <<file, step, tried, peer, payload, count, walked, offset, output>>

\* It is read, answered if it is a ping, and the script waits on.
ReadOther ==
    /\ Waiting /\ other
    /\ other' = FALSE
    /\ UNCHANGED <<file, step, tried, peer, payload, count, walked, offset, output>>

\* fetch: the version message is answered and the headers are asked for.
GotVersion ==
    /\ step = "greeting" /\ ~other
    /\ step' = "asked"
    /\ UNCHANGED <<file, tried, peer, other, payload, count, walked, offset, output>>

\* The headers message comes, whatever is in it.
GotHeaders ==
    /\ step = "asked" /\ ~other
    /\ count' \in 0..MaxCount /\ payload' \in Payloads
    /\ walked' = <<>> /\ offset' = 1
    /\ step' = "walking"
    /\ UNCHANGED <<file, tried, peer, other, output>>

\* The connection is refused or closed, or what comes is garbled.
PeerFails ==
    /\ Waiting
    /\ step' = "connecting" /\ other' = FALSE
    /\ UNCHANGED <<file, tried, peer, payload, count, walked, offset, output>>

(* Mutant: only the wait for the version times out.                         *)
TimeoutGreeting ==
    /\ step = "greeting" /\ ~other
    /\ step' = "connecting"
    /\ UNCHANGED <<file, tried, peer, other, payload, count, walked, offset, output>>

\* Nothing comes for as long as a read may take.
Timeout ==
    /\ Waiting /\ ~other
    /\ step' = "connecting"
    /\ UNCHANGED <<file, tried, peer, other, payload, count, walked, offset, output>>

(***************************************************************************)
(* split_headers.                                                          *)
(***************************************************************************)
Length(o) == IF payload[o] = Flagged THEN LongLen ELSE ShortLen

\* read_varint: the words of the count that begins at e, and whether it is zero.
CountLen(e) == IF payload[e] = Wide THEN 2 ELSE 1
ZeroAt(e) ==
    /\ e + CountLen(e) <= Len(payload) + 1
    /\ payload[e + CountLen(e) - 1] = Zero

(* Mutant: the count of transactions is skipped unseen.                     *)
AnyCountAt(o) ==
    /\ o <= Len(payload)
    /\ o + Length(o) <= Len(payload)
    /\ o + Length(o) + CountLen(o + Length(o)) <= Len(payload) + 1

(* Mutant: the last word of the payload is never reached.                   *)
HeaderBefore(o) ==
    /\ o <= Len(payload)
    /\ o + Length(o) < Len(payload)
    /\ ZeroAt(o + Length(o))

\* A whole header at o and a zero after it.
HeaderAt(o) ==
    /\ o <= Len(payload)
    /\ o + Length(o) <= Len(payload)
    /\ ZeroAt(o + Length(o))

WalkHeader ==
    /\ step = "walking" /\ Len(walked) < count /\ HeaderAt(offset)
    /\ walked' = Append(walked, [at |-> offset, len |-> Length(offset)])
    /\ offset' = offset + Length(offset) + CountLen(offset + Length(offset))
    /\ UNCHANGED <<file, step, tried, peer, other, payload, count, output>>

\* The run ends within a header, a header is followed by transactions, or
\* words are left over: the message is refused and the next peer tried.
Refused ==
    \/ Len(walked) < count /\ ~HeaderAt(offset)
    \/ Len(walked) = count /\ offset # Len(payload) + 1

Refuse ==
    /\ step = "walking" /\ Refused
    /\ step' = "connecting"
    /\ payload' = <<>> /\ count' = 0 /\ walked' = <<>> /\ offset' = 1
    /\ UNCHANGED <<file, tried, peer, other, output>>

\* How many of n headers a limit lets through.
Kept(keep, n) == IF keep = 0 \/ n < keep THEN n ELSE keep

Accept ==
    /\ step = "walking" /\ Len(walked) = count /\ offset = Len(payload) + 1
    /\ \E keep \in Keeps : output' = SubSeq(walked, 1, Kept(keep, Len(walked)))
    /\ step' = "written"
    /\ UNCHANGED <<file, tried, peer, other, payload, count, walked, offset>>

\* What the script does of itself, and what its peer does.
FetchOwn == NextPeer \/ ReadOther \/ Timeout \/ WalkHeader \/ Refuse \/ Accept
FetchPeer == PeerSends \/ GotVersion \/ GotHeaders \/ PeerFails

FetchNext == FetchOwn \/ FetchPeer

(***************************************************************************)
(* Properties.                                                             *)
(***************************************************************************)
FetchTypeOK ==
    /\ step \in {"idle", "connecting", "greeting", "asked", "walking", "written", "failed"}
    /\ tried \in SUBSET Addrs /\ (tried # {} => peer \in tried)
    /\ other \in BOOLEAN
    /\ payload \in Seq(Words) /\ count \in 0..MaxCount
    /\ walked \in Seq([at : Nat, len : {ShortLen, LongLen}])
    /\ offset \in Nat /\ output \in Seq([at : Nat, len : {ShortLen, LongLen}])

\* The words from e to before b are a count of zero, in one word or in two.
ZeroCount(e, b) ==
    \/ b = e + 1 /\ payload[e] = Zero
    \/ b = e + 2 /\ payload[e] = Wide /\ payload[e + 1] = Zero

\* The payload is count headers, as long as they say, each followed by a count
\* of zero; begins[i] is where the header number i begins.
Stream(begins) ==
    /\ begins[1] = 1 /\ begins[count + 1] = Len(payload) + 1
    /\ \A i \in 1..count :
          /\ begins[i] \in DOMAIN payload
          /\ ZeroCount(begins[i] + Length(begins[i]), begins[i + 1])

Cuts == [1..(count + 1) -> 1..(Len(payload) + 1)]

(* What is written are the headers of a message that is made of headers and *)
(* nothing else: the first of them, each from where it begins and as long   *)
(* as it says, as many as there are or as a limit allows (split_headers,    *)
(* main).                                                                   *)
WritesTheHeaders ==
    step = "written" =>
        /\ \E keep \in Keeps : Len(output) = Kept(keep, count)
        /\ \E begins \in Cuts :
              /\ Stream(begins)
              /\ \A i \in DOMAIN output :
                    output[i] = [at |-> begins[i], len |-> Length(begins[i])]

(* A message is refused only when it is not a stream of headers, wherever   *)
(* one might cut it, and then another peer is asked: no honest peer's       *)
(* answer is thrown away (split_headers).                                   *)
RefusedForAReason ==
    step = "walking" /\ Refused => ~\E begins \in Cuts : Stream(begins)
=============================================================================
