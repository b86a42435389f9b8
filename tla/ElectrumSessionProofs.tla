------------------------ MODULE ElectrumSessionProofs ------------------------
(***************************************************************************)
(* The safety properties of ElectrumSession, for any set of clients, any   *)
(* versions they offer, any branches and any activation height; and that   *)
(* ServerLoop, whose writes block and fail, implements it.                 *)
(***************************************************************************)
EXTENDS ServerLoop, TLAPS

USE SessionAssumption

(* NoTip, the value of "not subscribed", is the tip of no chain.            *)
LEMMA NoTipIsNoTip == NoTip \notin Tips
BY DEF NoTip, Tips

(* A run of headers that holds a v2 header can only come from a chain whose *)
(* own tip is past the activation: the rule about the tip covers every      *)
(* height below it.                                                         *)
LEMMA CarriedMeansCrossed ==
    ASSUME TypeOK, NEW heights \in SUBSET Nat, CarriesV2(heights)
    PROVE  HasV2Headers
BY DEF TypeOK, Tips, CarriesV2, HasV2Headers

(* Every variable keeps its type, and closing a connection by either side    *)
(* leaves nothing of its session behind.                                    *)
THEOREM TypeCorrect == Spec => []TypeOK
<1>1. Init => TypeOK
  BY DEF Init, TypeOK, Versions, NoTip, Tips
<1>2. TypeOK /\ [Next]_vars => TypeOK'
  <2> SUFFICES ASSUME TypeOK, [Next]_vars PROVE TypeOK'
    OBVIOUS
  <2> USE DEF TypeOK, Versions
  <2>1. ASSUME NEW c \in Clients, Connect(c) PROVE TypeOK'
    BY <2>1 DEF Connect
  <2>2. ASSUME NEW c \in Clients, Disconnect(c) PROVE TypeOK'
    BY <2>2 DEF Disconnect, Closed
  <2>3. ASSUME NEW c \in Clients, Version(c) PROVE TypeOK'
    <3>1. ProtocolVersion \in Versions
      BY DEF ProtocolVersion
    <3>2. /\ negotiated' \in [Clients -> Versions \cup {Unnegotiated}]
          /\ refused' \in [Clients -> BOOLEAN]
      BY <2>3, <3>1 DEF Version
    <3>3. ASSUME NEW d \in Clients, conn'[d] = "closed"
          PROVE  negotiated'[d] = Unnegotiated /\ subTip'[d] = NoTip /\ ~refused'[d]
      BY <2>3, <3>3 DEF Version
    <3>4. UNCHANGED <<tip, phase, conn, subTip, readV2, syncs>>
      BY <2>3 DEF Version
    <3>5. QED
      BY <3>2, <3>3, <3>4
  <2>4. ASSUME NEW c \in Clients, HeadersSubscribe(c) PROVE TypeOK'
    <3>1. /\ conn[c] = "open"
          /\ UNCHANGED <<tip, phase, conn, negotiated, syncs>>
      BY <2>4 DEF HeadersSubscribe
    <3>2. /\ subTip' \in [Clients -> Tips \cup {NoTip}]
          /\ \A d \in Clients \ {c} : subTip'[d] = subTip[d]
      BY <2>4 DEF HeadersSubscribe, RefuseHeaders
    <3>3. readV2' \in [Clients -> BOOLEAN]
      BY <2>4 DEF HeadersSubscribe, RefuseHeaders, Sent, CarriesV2
    <3>4. /\ refused' \in [Clients -> BOOLEAN]
          /\ \A d \in Clients \ {c} : refused'[d] = refused[d]
      BY <2>4 DEF HeadersSubscribe, RefuseHeaders
    <3>5. QED
      BY <3>1, <3>2, <3>3, <3>4
  <2>5. ASSUME NEW c \in Clients, NEW start \in 0..MaxHeight,
               NEW count \in 0..MaxHeight, BlockHeaders(c, start, count)
        PROVE  TypeOK'
    <3>1. /\ conn[c] = "open"
          /\ UNCHANGED <<tip, phase, conn, negotiated, subTip, syncs>>
      BY <2>5 DEF BlockHeaders, RefuseHeaders
    <3>2. readV2' \in [Clients -> BOOLEAN]
      BY <2>5 DEF BlockHeaders, RefuseHeaders, Sent, CarriesV2
    <3>3. /\ refused' \in [Clients -> BOOLEAN]
          /\ \A d \in Clients \ {c} : refused'[d] = refused[d]
      BY <2>5 DEF BlockHeaders, RefuseHeaders
    <3>4. QED
      BY <3>1, <3>2, <3>3
  <2>6. ASSUME NEW new \in Tips, Sync(new) PROVE TypeOK'
    BY <2>6 DEF Sync, session
  <2>7. CASE NotifyPeers
    BY <2>7 DEF NotifyPeers, Closed, CarriesV2, Stale
  <2>8. CASE UNCHANGED vars
    BY <2>8 DEF vars
  <2>9. QED
    BY <2>1, <2>2, <2>3, <2>4, <2>5, <2>6, <2>7, <2>8 DEF Next
<1>3. QED
  BY <1>1, <1>2, PTL DEF Spec

-----------------------------------------------------------------------------
(***************************************************************************)
(* What was negotiated is in the range the client offered.  This is what   *)
(* turns "negotiated 1.8" into "can read a v2 header".                     *)
(***************************************************************************)
NegotiatedInRange ==
    \A c \in Clients : negotiated[c] \in Speaks[c] \cup {Unnegotiated}

ReadingInv == TypeOK /\ NegotiatedInRange /\ NoUnreadableHeader

(* A session that may be served headers of a chain with v2 ones belongs to a *)
(* client that can read them.                                               *)
LEMMA ServedMeansReads ==
    ASSUME TypeOK, NegotiatedInRange, NEW c \in Clients,
           MayServeHeaders(c), HasV2Headers
    PROVE  V2 \in Speaks[c]
BY DEF MayServeHeaders, NegotiatedInRange, V2, Unnegotiated

(* No client is ever sent a header it cannot parse, by any request, at any  *)
(* height, or by a tip notification, however the chain moves.               *)
THEOREM HeadersAreReadable == Spec => []NoUnreadableHeader
<1>1. Init => NegotiatedInRange /\ NoUnreadableHeader
  BY DEF Init, NegotiatedInRange, NoUnreadableHeader
<1>2. ReadingInv /\ [Next]_vars => NegotiatedInRange'
  <2> SUFFICES ASSUME ReadingInv, [Next]_vars PROVE NegotiatedInRange'
    OBVIOUS
  <2> USE DEF ReadingInv, TypeOK, NegotiatedInRange
  <2>1. ASSUME NEW c \in Clients, Connect(c) PROVE NegotiatedInRange'
    BY <2>1 DEF Connect
  <2>2. ASSUME NEW c \in Clients, Disconnect(c) PROVE NegotiatedInRange'
    BY <2>2 DEF Disconnect, Closed
  <2>3. ASSUME NEW c \in Clients, Version(c) PROVE NegotiatedInRange'
    BY <2>3 DEF Version
  <2>4. ASSUME NEW c \in Clients, HeadersSubscribe(c)
        PROVE  NegotiatedInRange'
    BY <2>4 DEF HeadersSubscribe
  <2>5. ASSUME NEW c \in Clients, NEW start \in 0..MaxHeight,
               NEW count \in 0..MaxHeight, BlockHeaders(c, start, count)
        PROVE  NegotiatedInRange'
    BY <2>5 DEF BlockHeaders
  <2>6. ASSUME NEW new \in Tips, Sync(new) PROVE NegotiatedInRange'
    BY <2>6 DEF Sync, session
  <2>7. CASE NotifyPeers
    BY <2>7 DEF NotifyPeers, Closed
  <2>8. CASE UNCHANGED vars
    BY <2>8 DEF vars
  <2>9. QED
    BY <2>1, <2>2, <2>3, <2>4, <2>5, <2>6, <2>7, <2>8 DEF Next
<1>3. ReadingInv /\ [Next]_vars => NoUnreadableHeader'
  <2> SUFFICES ASSUME ReadingInv, [Next]_vars,
                      NEW d \in Clients, readV2'[d]
               PROVE  V2 \in Speaks[d]
    BY DEF NoUnreadableHeader
  <2>a. CASE readV2[d]
    BY <2>a DEF ReadingInv, NoUnreadableHeader
  <2>b. CASE ~readV2[d]
    <3>1. ASSUME NEW heights \in SUBSET Nat, CarriesV2(heights),
                 MayServeHeaders(d)
          PROVE  V2 \in Speaks[d]
      BY <3>1, CarriedMeansCrossed, ServedMeansReads DEF ReadingInv
    <3>2. ASSUME NEW c \in Clients, NEW heights \in SUBSET Nat,
                 MayServeHeaders(c), Sent(c, heights)
          PROVE  V2 \in Speaks[d]
      <4>1. c = d /\ CarriesV2(heights)
        BY <2>b, <3>2 DEF ReadingInv, TypeOK, Sent
      <4>2. QED
        BY <3>1, <3>2, <4>1
    <3>3. ASSUME NEW c \in Clients, HeadersSubscribe(c)
          PROVE  V2 \in Speaks[d]
      <4>1. {tip.height} \in SUBSET Nat
        BY DEF ReadingInv, TypeOK, Tips
      <4>2. MayServeHeaders(c) /\ Sent(c, {tip.height})
        BY <2>b, <3>3 DEF HeadersSubscribe, RefuseHeaders
      <4>3. QED
        BY <3>2, <4>1, <4>2
    <3>4. ASSUME NEW c \in Clients, NEW start \in 0..MaxHeight,
                 NEW count \in 0..MaxHeight, BlockHeaders(c, start, count)
          PROVE  V2 \in Speaks[d]
      <4>1. start..(start + count - 1) \in SUBSET Nat
        OBVIOUS
      <4>2. MayServeHeaders(c) /\ Sent(c, start..(start + count - 1))
        BY <2>b, <3>4 DEF BlockHeaders, RefuseHeaders
      <4>3. QED
        BY <3>2, <4>1, <4>2
    <3>5. ASSUME NotifyPeers PROVE V2 \in Speaks[d]
      <4>1. {tip.height} \in SUBSET Nat
        BY DEF ReadingInv, TypeOK, Tips
      <4>2. MayServeHeaders(d) /\ CarriesV2({tip.height})
        BY <2>b, <3>5 DEF NotifyPeers, Stale
      <4>3. QED
        BY <3>1, <4>1, <4>2
    <3>6. CASE UNCHANGED readV2
      BY <2>b, <3>6
    <3>7. QED
      BY <3>3, <3>4, <3>5, <3>6
      DEF Next, vars, Connect, Disconnect, Version, Sync
  <2>c. QED
    BY <2>a, <2>b
<1>4. QED
  BY <1>1, <1>2, <1>3, TypeCorrect, PTL DEF Spec, ReadingInv

-----------------------------------------------------------------------------
(***************************************************************************)
(* Subscribers.  Between a sync and the notification that follows it every *)
(* subscription is behind; that is what makes notify_peers find all of     *)
(* them, and so drop the ones that can no longer be served.                *)
(***************************************************************************)
BehindWhileNotifying ==
    phase = "notify" => \A c \in Clients : subTip[c] # tip

SubscriberInv ==
    TypeOK /\ SubscribersAtTip /\ SubscribersMayRead /\ BehindWhileNotifying

(* Whenever the loop reads events, each subscriber has been told the        *)
(* current tip and is one that may be sent its header.                      *)
THEOREM SubscribersAreCurrent == Spec => []SubscribersServed
<1>1. Init => SubscribersAtTip /\ SubscribersMayRead /\ BehindWhileNotifying
  BY DEF Init, SubscribersAtTip, SubscribersMayRead, BehindWhileNotifying
<1>2. SubscriberInv /\ [Next]_vars
        => SubscribersAtTip' /\ SubscribersMayRead' /\ BehindWhileNotifying'
  <2> SUFFICES ASSUME SubscriberInv, [Next]_vars
               PROVE  SubscribersAtTip' /\ SubscribersMayRead'
                        /\ BehindWhileNotifying'
    OBVIOUS
  <2> USE DEF SubscriberInv, TypeOK, SubscribersAtTip, SubscribersMayRead,
              BehindWhileNotifying, MayServeHeaders, HasV2Headers
  <2> DEFINE Goal == SubscribersAtTip' /\ SubscribersMayRead'
                        /\ BehindWhileNotifying'
  <2>1. ASSUME NEW c \in Clients, Connect(c) PROVE Goal
    BY <2>1 DEF Connect
  <2>2. ASSUME NEW c \in Clients, Disconnect(c) PROVE Goal
    BY <2>2 DEF Disconnect, Closed
  <2>3. ASSUME NEW c \in Clients, Version(c) PROVE Goal
    BY <2>3 DEF Version, ProtocolVersion
  <2>4. ASSUME NEW c \in Clients, HeadersSubscribe(c) PROVE Goal
    BY <2>4 DEF HeadersSubscribe, RefuseHeaders
  <2>5. ASSUME NEW c \in Clients, NEW start \in 0..MaxHeight,
               NEW count \in 0..MaxHeight, BlockHeaders(c, start, count)
        PROVE  Goal
    BY <2>5 DEF BlockHeaders, RefuseHeaders
  <2>6. ASSUME NEW new \in Tips, Sync(new) PROVE Goal
    <3>1. new # tip
      BY <2>6 DEF Sync, Tips
    <3>2. \A c \in Clients : subTip[c] # new
      BY <2>6, <3>1, NoTipIsNoTip DEF Sync
    <3>3. QED
      BY <2>6, <3>2 DEF Sync, session
  <2>7. CASE NotifyPeers
    <3>1. phase = "notify" /\ phase' = "events" /\ tip' = tip
      BY <2>7 DEF NotifyPeers
    <3>2. ASSUME NEW c \in Clients
          PROVE  \/ subTip'[c] = NoTip
                 \/ subTip'[c] = tip /\ negotiated'[c] = negotiated[c]
                      /\ MayServeHeaders(c)
      <4>1. CASE c \in Stale
        BY <2>7, <4>1 DEF NotifyPeers, Closed
      <4>2. CASE c \notin Stale
        <5>1. subTip[c] = NoTip
          BY <3>1, <4>2 DEF Stale
        <5>2. QED
          BY <2>7, <4>2, <5>1 DEF NotifyPeers
      <4>3. QED
        BY <4>1, <4>2
    <3>3. QED
      BY <3>1, <3>2
  <2>8. CASE UNCHANGED vars
    BY <2>8 DEF vars
  <2>9. QED
    BY <2>1, <2>2, <2>3, <2>4, <2>5, <2>6, <2>7, <2>8 DEF Next
<1>3. QED
  BY <1>1, <1>2, TypeCorrect, PTL DEF Spec, SubscriberInv, SubscribersServed

(* A live session changes its version only by a handshake that succeeded,   *)
(* and then to the version the chain speaks at that moment.                 *)
THEOREM NegotiationStable == Spec => NegotiationIsStable
<1>1. TypeOK /\ [Next]_vars => [VersionChangesByHandshake]_vars
  <2> SUFFICES ASSUME TypeOK, Next, NEW d \in Clients,
                      conn[d] = "open", conn'[d] = "open",
                      negotiated'[d] # negotiated[d]
               PROVE  negotiated'[d] = ProtocolVersion /\ ~refused'[d]
    BY DEF VersionChangesByHandshake
  <2>1. ASSUME NEW c \in Clients, Version(c)
        PROVE  negotiated'[d] = ProtocolVersion /\ ~refused'[d]
    BY <2>1 DEF Version, TypeOK
  <2>2. ASSUME NEW c \in Clients, Disconnect(c) PROVE FALSE
    BY <2>2 DEF Disconnect, Closed, TypeOK
  <2>3. CASE NotifyPeers
    BY <2>3 DEF NotifyPeers, Closed
  <2>4. CASE UNCHANGED negotiated
    BY <2>4
  <2>5. QED
    BY <2>1, <2>2, <2>3, <2>4
    DEF Next, Connect, HeadersSubscribe, BlockHeaders, Sync, session
<1>2. QED
  BY <1>1, TypeCorrect, PTL DEF Spec, NegotiationIsStable
-----------------------------------------------------------------------------
(***************************************************************************)
(* The loop with its sockets.  A step of it is a step of the sessions, or  *)
(* one of the sockets alone; a write that fails is a client that left.     *)
(***************************************************************************)
(* Blocking writes, and the dropping of peers who do not read, show in what *)
(* the sessions do only as clients who leave.                               *)
THEOREM SessionImplemented == LoopSpec => ImplementsSession
<1>1. LoopInit => Init
  BY DEF LoopInit
<1>2. [LoopNext]_loopVars => [Next]_vars
  <2> SUFFICES ASSUME [LoopNext]_loopVars PROVE [Next]_vars
    OBVIOUS
  <2>1. ASSUME NEW c \in Clients,
               Connect(c) \/ Disconnect(c) \/ Version(c) \/ HeadersSubscribe(c)
        PROVE  Next
    BY <2>1 DEF Next
  <2>2. ASSUME NEW c \in Clients,
               \/ Accept(c) \/ HangUp(c) \/ Answer(c, Version(c))
               \/ Answer(c, HeadersSubscribe(c)) \/ WriteFails(c)
        PROVE  Next
    BY <2>1, <2>2 DEF Accept, HangUp, Answer, WriteFails
  <2>3. ASSUME NEW c \in Clients, NEW start \in 0..MaxHeight,
               NEW count \in 0..MaxHeight,
               Answer(c, BlockHeaders(c, start, count))
        PROVE  Next
    BY <2>3 DEF Answer, Next
  <2>4. ASSUME NEW c \in Clients, Taken(c) \/ Reads(c) PROVE UNCHANGED vars
    BY <2>4 DEF Taken, Reads
  <2>5. ASSUME NEW new \in Tips, Update(new) PROVE Next
    BY <2>5 DEF Update, Next
  <2>6. CASE Notify
    BY <2>6 DEF Notify, Next
  <2>7. CASE UNCHANGED loopVars
    BY <2>7 DEF loopVars
  <2>8. QED
    BY <2>2, <2>3, <2>4, <2>5, <2>6, <2>7 DEF LoopNext
<1>3. QED
  BY <1>1, <1>2, PTL DEF LoopSpec, ImplementsSession, Spec

(* So the loop keeps the promises of the sessions, for any size of the      *)
(* sockets and whoever reads.                                               *)
THEOREM LoopKeepsPromises ==
    LoopSpec => /\ [](NoUnreadableHeader /\ SubscribersServed)
                /\ NegotiationIsStable
BY SessionImplemented, HeadersAreReadable, SubscribersAreCurrent,
   NegotiationStable, PTL DEF ImplementsSession

(* What is written to is a connected peer, a socket never holds more than    *)
(* it takes, and what was left unread goes with the connection.             *)
THEOREM LoopTypeCorrect == LoopSpec => []LoopTypeOK
<1> DEFINE Wire ==
      /\ writing \in SUBSET {c \in Clients : conn[c] = "open"}
      /\ unread \in [Clients -> 0..SendBuffer]
      /\ \A c \in Clients : conn[c] = "closed" => unread[c] = 0
<1> USE LoopAssumption
<1>1. LoopInit => Wire
  BY DEF LoopInit, Init
<1>2. ASSUME TypeOK, TypeOK', Wire, [LoopNext]_loopVars PROVE Wire'
  <2> USE <1>2
  <2>a. /\ conn \in [Clients -> {"open", "closed"}]
        /\ conn' \in [Clients -> {"open", "closed"}]
    BY DEF TypeOK
  <2> USE <2>a
  <2>1. ASSUME NEW c \in Clients, Accept(c) PROVE Wire'
    BY <2>1 DEF Accept, Connect, Idle, wire
  <2>2. ASSUME NEW c \in Clients, HangUp(c) PROVE Wire'
    BY <2>2 DEF HangUp, Disconnect, Closed, Idle
  <2>3. ASSUME NEW c \in Clients, Answer(c, Version(c)) PROVE Wire'
    BY <2>3 DEF Answer, Version
  <2>4. ASSUME NEW c \in Clients, Taken(c) PROVE Wire'
    BY <2>4 DEF Taken, vars
  <2>5. ASSUME NEW c \in Clients, Reads(c) PROVE Wire'
    BY <2>5 DEF Reads, vars
  <2>6. ASSUME NEW c \in Clients, WriteFails(c) PROVE Wire'
    BY <2>6 DEF WriteFails, Disconnect, Closed
  <2>7. ASSUME NEW new \in Tips, Update(new) PROVE Wire'
    BY <2>7 DEF Update, Sync, session, Idle, wire
  <2>8. CASE Notify
    <3>1. \A c \in Clients : conn'[c] = IF c \in Stale /\ ~MayServeHeaders(c)
                                       THEN "closed" ELSE conn[c]
      BY <2>8 DEF Notify, NotifyPeers, Closed
    <3>2. writing' = {c \in Stale : MayServeHeaders(c)}
      BY <2>8 DEF Notify
    <3>3. \A c \in Stale : c \in Clients /\ conn[c] = "open"
      BY DEF Stale
    <3>4. unread' = [c \in Clients |-> IF conn'[c] = "open" THEN unread[c] ELSE 0]
      BY <2>8 DEF Notify
    <3>5. QED
      BY <3>1, <3>2, <3>3, <3>4
  <2>9. CASE UNCHANGED loopVars
    BY <2>9 DEF loopVars, vars, wire
  <2>10. ASSUME NEW c \in Clients, Answer(c, HeadersSubscribe(c)) PROVE Wire'
    BY <2>10 DEF Answer, HeadersSubscribe
  <2>11. ASSUME NEW c \in Clients, NEW start \in 0..MaxHeight,
                NEW count \in 0..MaxHeight,
                Answer(c, BlockHeaders(c, start, count))
         PROVE  Wire'
    BY <2>11 DEF Answer, BlockHeaders
  <2>12. QED
    BY <2>1, <2>2, <2>3, <2>4, <2>5, <2>6, <2>7, <2>8, <2>9, <2>10, <2>11
    DEF LoopNext
<1>3. LoopSpec => []TypeOK
  BY SessionImplemented, TypeCorrect, PTL DEF ImplementsSession
<1>4. QED
  BY <1>1, <1>2, <1>3, PTL DEF LoopSpec, LoopTypeOK
=============================================================================
