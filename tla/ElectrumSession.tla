--------------------------- MODULE ElectrumSession ---------------------------
(***************************************************************************)
(* Protocol 1.8 of the Electrum server (patches/0006): which version a     *)
(* session negotiates, which sessions are served block headers, and what   *)
(* happens to the sessions that are open when the chain crosses the height *)
(* at which its headers become 164 bytes long.                             *)
(*                                                                         *)
(* The server is one loop: it syncs the chain, notifies every peer, and    *)
(* only then handles a batch of client events, so a client's request never *)
(* sees a tip its subscription has not been told about.                    *)
(***************************************************************************)
EXTENDS Naturals

CONSTANTS
    Clients,     \* the wallets that connect to the server
    Speaks,      \* Speaks[c]: the versions inside the range client c offers
    Branches,    \* competing chains, which share their first headers
    Activation,  \* height of the first v2 header
    MaxHeight,   \* bound on the height of a chain
    MaxSyncs     \* bound on the number of times the tip changes

V1 == "1.4"
V2 == "1.8"
Versions == {V1, V2}
Unnegotiated == "unnegotiated"

Tips == [height : 0..MaxHeight, branch : Branches]
NoTip == [height |-> MaxHeight + 1, branch |-> "none"]

ASSUME SessionAssumption ==
    /\ Speaks \in [Clients -> SUBSET Versions]
    /\ Activation \in Nat
    /\ MaxHeight \in Nat
    /\ MaxSyncs \in Nat

VARIABLES
    tip,         \* tip of the chain the server has indexed
    phase,       \* what the server loop does next: "notify" or "events"
    conn,        \* conn[c]: is c connected, "open" or "closed"
    negotiated,  \* Client::negotiated
    subTip,      \* Client::tip: the last tip a subscribed client was sent
    readV2,      \* has c been sent a v2 header, in any session
    refused,     \* was c's last request refused because of the version rule
    syncs        \* how often the tip has changed

vars == <<tip, phase, conn, negotiated, subTip, readV2, refused, syncs>>
session == <<conn, negotiated, subTip, refused>>

(***************************************************************************)
(* The rules every handler consults.                                       *)
(***************************************************************************)
\* Chain::has_v2_headers looks at the tip alone: the format switches once.
HasV2Headers == tip.height >= Activation

(* Mutant: the version is a constant again. *)
OldVersion == V1

ProtocolVersion == IF HasV2Headers THEN V2 ELSE V1

(* Mutant: any negotiated session may read headers. *)
AnyNegotiatedMayRead(c) == ~HasV2Headers \/ negotiated[c] # Unnegotiated

MayServeHeaders(c) == ~HasV2Headers \/ negotiated[c] = V2

\* Does the run of headers at these heights hold a v2 one?
CarriesV2(heights) == \E h \in heights : h >= Activation /\ h <= tip.height

Sent(c, heights) ==
    readV2' = [readV2 EXCEPT ![c] = @ \/ CarriesV2(heights)]

-----------------------------------------------------------------------------
Init ==
    /\ tip \in Tips
    /\ phase = "events"
    /\ conn = [c \in Clients |-> "closed"]
    /\ negotiated = [c \in Clients |-> Unnegotiated]
    /\ subTip = [c \in Clients |-> NoTip]
    /\ readV2 = [c \in Clients |-> FALSE]
    /\ refused = [c \in Clients |-> FALSE]
    /\ syncs = 0

\* A new connection starts unnegotiated and unsubscribed.
Connect(c) ==
    /\ phase = "events" /\ conn[c] = "closed"
    /\ conn' = [conn EXCEPT ![c] = "open"]
    /\ UNCHANGED <<tip, phase, negotiated, subTip, readV2, refused, syncs>>

\* The peer's state goes with its connection, whoever closed it.
Closed(S) ==
    /\ conn' = [c \in Clients |-> IF c \in S THEN "closed" ELSE conn[c]]
    /\ negotiated' = [c \in Clients |->
                        IF c \in S THEN Unnegotiated ELSE negotiated[c]]
    /\ refused' = [c \in Clients |-> IF c \in S THEN FALSE ELSE refused[c]]

\* The client hangs up, or a write to it fails or times out.
Disconnect(c) ==
    /\ phase = "events" /\ conn[c] = "open"
    /\ Closed({c})
    /\ subTip' = [subTip EXCEPT ![c] = NoTip]
    /\ UNCHANGED <<tip, phase, readV2, syncs>>

(* Mutant: a failed handshake resets what was agreed. *)
VersionForgets(c) ==
    /\ phase = "events" /\ conn[c] = "open"
    /\ negotiated' = [negotiated EXCEPT ![c] =
                        IF ProtocolVersion \in Speaks[c] THEN ProtocolVersion
                        ELSE Unnegotiated]
    /\ refused' = [refused EXCEPT ![c] = ProtocolVersion \notin Speaks[c]]
    /\ UNCHANGED <<tip, phase, conn, subTip, readV2, syncs>>

\* server.version, which a client may send at any time and more than once.
\* A range that does not hold the chain's version is answered with an error
\* and leaves the session exactly as it was.
Version(c) ==
    /\ phase = "events" /\ conn[c] = "open"
    /\ \/ /\ ProtocolVersion \in Speaks[c]
          /\ negotiated' = [negotiated EXCEPT ![c] = ProtocolVersion]
          /\ refused' = [refused EXCEPT ![c] = FALSE]
       \/ /\ ProtocolVersion \notin Speaks[c]
          /\ refused' = [refused EXCEPT ![c] = TRUE]
          /\ UNCHANGED negotiated
    /\ UNCHANGED <<tip, phase, conn, subTip, readV2, syncs>>

\* check_may_serve_headers fails: the request is answered with an error.
RefuseHeaders(c) ==
    /\ ~MayServeHeaders(c)
    /\ refused' = [refused EXCEPT ![c] = TRUE]
    /\ UNCHANGED <<subTip, readV2>>

\* blockchain.headers.subscribe
HeadersSubscribe(c) ==
    /\ phase = "events" /\ conn[c] = "open"
    /\ \/ RefuseHeaders(c)
       \/ /\ MayServeHeaders(c)
          /\ subTip' = [subTip EXCEPT ![c] = tip]
          /\ Sent(c, {tip.height})
          /\ refused' = [refused EXCEPT ![c] = FALSE]
    /\ UNCHANGED <<tip, phase, conn, negotiated, syncs>>

\* blockchain.block.header at one height, and blockchain.block.headers over a
\* range that is cut off at the tip.
BlockHeaders(c, start, count) ==
    /\ phase = "events" /\ conn[c] = "open"
    /\ \/ RefuseHeaders(c)
       \/ /\ MayServeHeaders(c)
          /\ Sent(c, start..(start + count - 1))
          /\ refused' = [refused EXCEPT ![c] = FALSE]
          /\ UNCHANGED subTip
    /\ UNCHANGED <<tip, phase, conn, negotiated, syncs>>

\* The sync step of the loop found a new best chain: longer on the same
\* branch, or another branch altogether.
Sync(new) ==
    /\ phase = "events" /\ syncs < MaxSyncs
    /\ new \in Tips
    /\ new.branch = tip.branch => new.height > tip.height
    /\ tip' = new
    /\ phase' = "notify"
    /\ syncs' = syncs + 1
    /\ UNCHANGED <<session, readV2>>

(* Mutant: a reorg to an equal height goes unnoticed. *)
StaleByHeight == {c \in Clients : conn[c] = "open" /\ subTip[c] # NoTip
                                  /\ subTip[c].height # tip.height}

\* The peers whose subscription is behind the tip: update_client compares the
\* tip it last sent with the chain's.
Stale == {c \in Clients : conn[c] = "open" /\ subTip[c] \notin {NoTip, tip}}

\* notify_peers: a stale peer is sent the new tip, or dropped if the chain has
\* crossed its activation height since the peer negotiated.
NotifyPeers ==
    LET dropped == {c \in Stale : ~MayServeHeaders(c)}
        told    == Stale \ dropped
    IN  /\ phase = "notify"
        /\ Closed(dropped)
        /\ subTip' = [c \in Clients |-> IF c \in dropped THEN NoTip
                                        ELSE IF c \in told THEN tip
                                        ELSE subTip[c]]
        /\ readV2' = [c \in Clients |->
                        readV2[c] \/ (c \in told /\ CarriesV2({tip.height}))]
        /\ phase' = "events"
        /\ UNCHANGED <<tip, syncs>>

Next ==
    \/ \E c \in Clients :
          \/ Connect(c) \/ Disconnect(c) \/ Version(c) \/ HeadersSubscribe(c)
          \/ \E start, count \in 0..MaxHeight : BlockHeaders(c, start, count)
    \/ \E new \in Tips : Sync(new)
    \/ NotifyPeers

Spec == Init /\ [][Next]_vars

-----------------------------------------------------------------------------
(***************************************************************************)
(* Properties                                                              *)
(***************************************************************************)
\* Every variable has its type; a closed connection carries no session.
TypeOK ==
    /\ tip \in Tips
    /\ phase \in {"notify", "events"}
    /\ conn \in [Clients -> {"open", "closed"}]
    /\ negotiated \in [Clients -> Versions \cup {Unnegotiated}]
    /\ subTip \in [Clients -> Tips \cup {NoTip}]
    /\ readV2 \in [Clients -> BOOLEAN]
    /\ refused \in [Clients -> BOOLEAN]
    /\ syncs \in 0..MaxSyncs
    /\ \A c \in Clients : conn[c] = "closed" =>
          /\ negotiated[c] = Unnegotiated
          /\ subTip[c] = NoTip
          /\ ~refused[c]

\* The promise of may_serve_headers: whatever the chain does while sessions
\* are open, no client that cannot parse a 164-byte header is ever sent one,
\* by a request or by a notification (docs/electrum-header-v2.md, section 2).
NoUnreadableHeader == \A c \in Clients : readV2[c] => V2 \in Speaks[c]

\* No request is handled while a subscriber is behind: once the loop reads
\* events again, every subscription names the current tip.
SubscribersAtTip ==
    phase = "events" => \A c \in Clients : subTip[c] \in {NoTip, tip}

\* Nobody is subscribed to a chain he could not be served: after the loop has
\* notified its peers, every subscriber is one that may have the tip header.
SubscribersMayRead ==
    phase = "events" =>
        \A c \in Clients : subTip[c] # NoTip => MayServeHeaders(c)

\* So subscribers are served: each is told the tip, and may have its header.
SubscribersServed == SubscribersAtTip /\ SubscribersMayRead

\* A session never loses or swaps its version while it lives, except through
\* its own server.version: a reorg below the activation, or a refused
\* handshake, does not touch what was agreed (comment in Rpc::version).
VersionChangesByHandshake ==
    \A c \in Clients :
        conn[c] = "open" /\ conn'[c] = "open" /\ negotiated'[c] # negotiated[c]
          => negotiated'[c] = ProtocolVersion /\ ~refused'[c]

NegotiationIsStable == [][VersionChangesByHandshake]_vars

\* docs/electrum-header-v2.md, section 2: a server on a chain with v2 headers
\* refuses to negotiate below 1.8 by closing the connection.
RefusalCloses ==
    [][\A c \in Clients :
          Version(c) => ~refused'[c] \/ conn'[c] = "closed"]_vars
=============================================================================
