------------------------------ MODULE ServerLoop ------------------------------
(***************************************************************************)
(* The loop of the Electrum server with the sockets it writes to           *)
(* (patches/0007).  Requests are answered and peers are notified from the  *)
(* one loop that also syncs the chain, and the writes are blocking: a      *)
(* client that stops reading fills its socket, and the loop stands still   *)
(* until the kernel takes the write or the write times out.                *)
(*                                                                         *)
(* What the handlers decide is ElectrumSession; this module adds when they *)
(* can run, and what becomes of their answers.                             *)
(***************************************************************************)
EXTENDS ElectrumSession

CONSTANTS
    SendBuffer,  \* how many messages a socket holds that nobody reads
    Prompt       \* the clients that never shut their window for WRITE_TIMEOUT

ASSUME LoopAssumption ==
    /\ SendBuffer \in Nat \ {0}
    /\ Prompt \subseteq Clients

VARIABLES
    writing,     \* the clients to whom a write has not been taken yet
    unread       \* unread[c]: messages in c's socket

wire == <<writing, unread>>
loopVars == <<vars, wire>>

\* The loop turns to its next event when the writes of the last are done.
Idle == writing = {}

LoopInit ==
    /\ Init
    /\ writing = {}
    /\ unread = [c \in Clients |-> 0]

Accept(c) == Idle /\ Connect(c) /\ UNCHANGED wire

\* recv_loop reports the end of the connection, and the loop forgets the peer.
HangUp(c) ==
    /\ Idle
    /\ Disconnect(c)
    /\ unread' = [unread EXCEPT ![c] = 0]
    /\ UNCHANGED writing

\* handle_peer_events: what the peer asked is answered, with a result or with
\* an error, in one Peer::send.
Answer(c, request) ==
    /\ Idle
    /\ request
    /\ writing' = {c}
    /\ UNCHANGED unread

Update(new) == Idle /\ Sync(new) /\ UNCHANGED wire

\* The peers that are told of the tip are written to in parallel, and the loop
\* waits for all of them.
Notify ==
    /\ Idle
    /\ NotifyPeers
    /\ writing' = {c \in Stale : MayServeHeaders(c)}
    /\ unread' = [c \in Clients |-> IF conn'[c] = "open" THEN unread[c] ELSE 0]

\* The kernel takes the write.
Taken(c) ==
    /\ c \in writing
    /\ unread[c] < SendBuffer
    /\ unread' = [unread EXCEPT ![c] = @ + 1]
    /\ writing' = writing \ {c}
    /\ UNCHANGED vars

\* The wallet reads a message; nothing makes one do so.
Reads(c) ==
    /\ unread[c] > 0
    /\ unread' = [unread EXCEPT ![c] = @ - 1]
    /\ UNCHANGED <<writing, vars>>

(* Mutant: writes without a timeout, as before the patch. *)
WriteBlocks(c) == FALSE /\ UNCHANGED loopVars

(* Mutant: the socket is shut down, the peer is kept. *)
WriteFailsKeepingPeer(c) ==
    /\ c \in writing \ Prompt
    /\ unread[c] = SendBuffer
    /\ conn' = [conn EXCEPT ![c] = "closed"]
    /\ writing' = writing \ {c}
    /\ unread' = [unread EXCEPT ![c] = 0]
    /\ UNCHANGED <<tip, phase, negotiated, subTip, readV2, refused, syncs>>

\* WRITE_TIMEOUT has passed with c's window shut, or c is gone: the write fails
\* and the peer is dropped.
WriteFails(c) ==
    /\ c \in writing \ Prompt
    /\ unread[c] = SendBuffer
    /\ Disconnect(c)
    /\ writing' = writing \ {c}
    /\ unread' = [unread EXCEPT ![c] = 0]

LoopNext ==
    \/ \E c \in Clients :
          \/ Accept(c) \/ HangUp(c)
          \/ Answer(c, Version(c)) \/ Answer(c, HeadersSubscribe(c))
          \/ \E start, count \in 0..MaxHeight :
                Answer(c, BlockHeaders(c, start, count))
          \/ Taken(c) \/ Reads(c) \/ WriteFails(c)
    \/ \E new \in Tips : Update(new)
    \/ Notify

LoopSpec == LoopInit /\ [][LoopNext]_loopVars

(***************************************************************************)
(* The loop never stops while it has something to do, the kernel takes     *)
(* what fits, a write that does not fit times out, and prompt clients      *)
(* read.  A wallet that was cut off keeps coming back; one that is         *)
(* connected again and again gets round to negotiating, and one that could *)
(* be served gets round to subscribing.  Nothing makes a client stay, the  *)
(* others read, or the chain move.                                         *)
(***************************************************************************)
Fairness ==
    /\ WF_loopVars(Notify)
    /\ \A c \in Clients :
          /\ WF_loopVars(Taken(c))
          /\ WF_loopVars(WriteFails(c))
          /\ SF_loopVars(Accept(c))
          /\ SF_loopVars(Answer(c, Version(c)))
          /\ SF_loopVars(Answer(c, HeadersSubscribe(c) /\ MayServeHeaders(c)))
    /\ \A c \in Prompt : WF_loopVars(Reads(c))

FairSpec == LoopSpec /\ Fairness

-----------------------------------------------------------------------------
(***************************************************************************)
(* Properties                                                              *)
(***************************************************************************)
\* Every variable has its type; what is written to is a connected peer, and
\* what was left unread goes with the connection.
LoopTypeOK ==
    /\ TypeOK
    /\ writing \in SUBSET {c \in Clients : conn[c] = "open"}
    /\ unread \in [Clients -> 0..SendBuffer]
    /\ \A c \in Clients : conn[c] = "closed" => unread[c] = 0

\* Blocking writes do not show in what the sessions do: each step of the loop
\* is a step of ElectrumSession, the failing of a write a client that left.
ImplementsSession == Spec

\* A client that stops reading cannot freeze the server for everyone else:
\* whoever it writes to, the loop comes back to its events (comment in
\* accept_loop, 0007:54-60).
LoopReturns == ~Idle ~> Idle

\* A prompt wallet that can read v2 headers is not locked out, neither by the
\* crossing nor by the clients that do not read: it is back at the tip again
\* and again, even if its 1.4 session was cut off.
ReaderReturns ==
    \A c \in Prompt : V2 \in Speaks[c] => []<>(subTip[c] = tip)
=============================================================================
