--------------------------- MODULE PeerConnection ----------------------------
(***************************************************************************)
(* The connections of fetch_bench.Peer, and the peers at their other ends. *)
(* A block is asked for with a getdata of its own and the next "block" or  *)
(* "notfound" that arrives is taken for the answer: nothing on the wire    *)
(* says which request it answers.                                          *)
(*                                                                         *)
(* A read times out when nothing arrives for a while.  The request is then *)
(* still with the peer, whose answer may come later; or a part of the      *)
(* answer has been read already, and the rest of it will be read as the    *)
(* beginning of a message.                                                 *)
(***************************************************************************)
EXTENDS Naturals, Sequences, FiniteSets

CONSTANTS
    MaxConns,    \* bound on the connections a script makes
    WindowSize,  \* the number of blocks to fetch
    MaxPings     \* bound on the pings of a connection that lie unread

Conns == 1..MaxConns
Blocks == 1..WindowSize
NotFound == WindowSize + 1
Ping == WindowSize + 2

ASSUME ConnectionAssumption ==
    /\ MaxConns \in Nat
    /\ WindowSize \in Nat \ {0}
    /\ MaxPings \in Nat

VARIABLES
    conn,   \* conn[c]: "unused", "open", "cut" within a message, or "dead"
    asked,  \* asked[c]: requests the peer has not answered yet
    wire,   \* wire[c]: messages that have arrived and not been read
    late    \* late[c]: timeouts so far

connections == <<conn, asked, wire, late>>

ConnectionInit ==
    /\ conn = [c \in Conns |-> "unused"]
    /\ asked = [c \in Conns |-> <<>>]
    /\ wire = [c \in Conns |-> <<>>]
    /\ late = [c \in Conns |-> 0]

(***************************************************************************)
(* The peers.  They answer in order, if they answer.                       *)
(***************************************************************************)
PeerAnswers(c) ==
    /\ conn[c] = "open" /\ asked[c] # <<>>
    /\ asked' = [asked EXCEPT ![c] = Tail(@)]
    /\ \E m \in {Head(asked[c]), NotFound} : wire' = [wire EXCEPT ![c] = Append(@, m)]
    /\ UNCHANGED <<conn, late>>

\* There is no end to the pings, and a ping stands for any other message that
\* answers nothing.
PeerPings(c) ==
    /\ conn[c] = "open"
    /\ Cardinality({i \in DOMAIN wire[c] : wire[c][i] = Ping}) < MaxPings
    /\ wire' = [wire EXCEPT ![c] = Append(@, Ping)]
    /\ UNCHANGED <<conn, asked, late>>

\* The peer hangs up; what it sent before may be lost with the connection.
PeerCloses(c) ==
    /\ conn[c] \in {"open", "cut"}
    /\ conn' = [conn EXCEPT ![c] = "dead"]
    /\ asked' = [asked EXCEPT ![c] = <<>>]
    /\ \E kept \in {wire[c], <<>>} : wire' = [wire EXCEPT ![c] = kept]
    /\ UNCHANGED late

Peers ==
    \E c \in Conns : PeerAnswers(c) \/ PeerPings(c) \/ PeerCloses(c)

(***************************************************************************)
(* Our end.                                                                *)
(***************************************************************************)
\* connect_one: the next connection is to a peer that completed the
\* handshake and offers NODE_NETWORK.
Connect(c) ==
    /\ conn[c] = "unused" /\ \A b \in 1..(c - 1) : conn[b] # "unused"
    /\ conn' = [conn EXCEPT ![c] = "open"]
    /\ UNCHANGED <<asked, wire, late>>

\* getdata, once for each of the blocks.
Send(c, blocks) ==
    /\ asked' = [asked EXCEPT ![c] = IF conn[c] = "open" THEN @ \o blocks ELSE @]
    /\ UNCHANGED <<conn, wire, late>>

ReadMessage(c) ==
    /\ conn[c] # "cut" /\ wire[c] # <<>>
    /\ wire' = [wire EXCEPT ![c] = Tail(@)]
    /\ UNCHANGED <<conn, asked, late>>

\* A ping is answered and the reading goes on.
ReadPing(c) == ReadMessage(c) /\ Head(wire[c]) = Ping

(* Mutant: whatever arrives is taken for the answer.                        *)
ReadAnything(c) == ReadMessage(c)

\* The next message that is an answer, to whatever was asked.
ReadAnswer(c) == ReadMessage(c) /\ Head(wire[c]) # Ping

\* Nothing arrives for the length of the timeout.
TimesOut(c) ==
    /\ conn[c] = "open" /\ wire[c] = <<>>
    /\ late' = [late EXCEPT ![c] = @ + 1]
    /\ \/ UNCHANGED <<conn, asked>>
       \/ /\ asked[c] # <<>>
          /\ conn' = [conn EXCEPT ![c] = "cut"]
          /\ asked' = [asked EXCEPT ![c] = <<>>]
    /\ UNCHANGED wire

\* A read that fails: at once when the connection was cut or is closed.
ReadFails(c) ==
    \/ TimesOut(c)
    \/ /\ \/ conn[c] = "cut"
          \/ conn[c] = "dead" /\ wire[c] = <<>>
       /\ UNCHANGED connections

\* Of the messages up to number i, those that are no pings.
AnswersUpTo(messages, i) == Cardinality({j \in 1..i : messages[j] # Ping})

\* What has arrived and what is asked for are, in this order and pings apart,
\* an answer to each of the blocks.
InStep(arrived, requests, blocks) ==
    LET answers == AnswersUpTo(arrived, Len(arrived)) IN
    /\ answers + Len(requests) = Len(blocks)
    /\ \A i \in DOMAIN arrived : arrived[i] # Ping =>
          arrived[i] \in {blocks[AnswersUpTo(arrived, i)], NotFound}
    /\ \A i \in DOMAIN requests : requests[i] = blocks[answers + i]
=============================================================================
