---------------------------- MODULE StratumProofs ----------------------------
(***************************************************************************)
(* What the miner grinds and what it answers to, for any number of rounds, *)
(* of jobs, of difficulties and of requests of the gateway's own, and      *)
(* however the lines of the gateway interleave with the miner's reading.   *)
(***************************************************************************)
EXTENDS Stratum, SequenceTheorems, TLAPS

USE StratumAssumption

(***************************************************************************)
(* Lines and the wire.                                                     *)
(***************************************************************************)
\* What a line may carry.
LEMMA LineTypes ==
    ASSUME NEW line \in Lines
    PROVE  /\ line.kind = "notify" => line.job \in Jobs
           /\ line.kind = "set_difficulty" => line.to \in Difficulties
BY DEF Lines, Reply, Request, Notify, SetDifficulty

\* What a line does to the miner.
LEMMA HandledTypes ==
    ASSUME NEW line \in Lines, Handle(line),
           job \in 0..MaxJobs, difficulty \in Difficulties
    PROVE  job' \in 0..MaxJobs /\ difficulty' \in Difficulties
<1>1. job' \in 0..MaxJobs
  <2>1. CASE line.kind = "notify"
    <3>1. job' = line.job
      BY <2>1 DEF Handle
    <3>2. QED
      BY <2>1, <3>1, LineTypes DEF Jobs
  <2>2. CASE line.kind # "notify"
    BY <2>2 DEF Handle
  <2>3. QED
    BY <2>1, <2>2
<1>2. difficulty' \in Difficulties
  <2>1. CASE line.kind = "set_difficulty"
    <3>1. difficulty' = line.to
      BY <2>1 DEF Handle
    <3>2. QED
      BY <2>1, <3>1, LineTypes
  <2>2. CASE line.kind # "set_difficulty"
    BY <2>2 DEF Handle
  <2>3. QED
    BY <2>1, <2>2
<1>3. QED
  BY <1>1, <1>2

\* What the gateway may send.
LEMMA SentLines ==
    /\ \A id \in Ids :
          Request(id) \in Lines /\ \A ok \in BOOLEAN : Reply(id, ok) \in Lines
    /\ \A j \in Jobs : Notify(j) \in Lines
    /\ \A d \in Difficulties : SetDifficulty(d) \in Lines
BY DEF Lines

\* The kinds of what it sends.
LEMMA Kinds ==
    ASSUME NEW n
    PROVE  /\ Request(n).kind = "request"
           /\ \A ok : Reply(n, ok).kind = "reply" /\ Reply(n, ok).id = n
           /\ Notify(n).kind = "notify" /\ Notify(n).job = n
           /\ SetDifficulty(n).kind = "set_difficulty" /\ SetDifficulty(n).to = n
BY DEF Reply, Request, Notify, SetDifficulty

\* A line read: what is left has moved up by one.
LEMMA ReadMovesUp ==
    ASSUME NEW S, NEW s \in Seq(S), s # <<>>
    PROVE  /\ Head(s) \in S /\ Head(s) = s[1]
           /\ Tail(s) \in Seq(S)
           /\ Len(s) \in Nat \ {0} /\ Len(Tail(s)) = Len(s) - 1
           /\ DOMAIN s = 1..Len(s) /\ DOMAIN Tail(s) = 1..(Len(s) - 1)
           /\ \A i \in 1..(Len(s) - 1) : Tail(s)[i] = s[i + 1]
OBVIOUS

\* A line sent: it comes last.
LEMMA SentComesLast ==
    ASSUME NEW S, NEW s \in Seq(S), NEW line \in S
    PROVE  /\ Append(s, line) \in Seq(S)
           /\ Len(s) \in Nat /\ Len(Append(s, line)) = Len(s) + 1
           /\ DOMAIN s = 1..Len(s) /\ DOMAIN Append(s, line) = 1..(Len(s) + 1)
           /\ \A i \in 1..Len(s) : Append(s, line)[i] = s[i]
           /\ Append(s, line)[Len(s) + 1] = line
OBVIOUS

(***************************************************************************)
(* Where the miner is in its exchange says how many requests it has made   *)
(* and that it has not ground anything before it is authorized.            *)
(***************************************************************************)
Handshake == {"connected", "subscribing", "authorizing"}

Exchange ==
    /\ phase = "connected" => nextId = 1 /\ waiting = 0
    /\ phase = "subscribing" => nextId = 2 /\ waiting = 1
    /\ phase \in {"authorizing", "wanting", "grinding"} => nextId = 3 /\ waiting = 2
    /\ phase \in Handshake => round = 0 /\ ground = <<>>
    /\ phase = "grinding" => round < Rounds

Typed == TypeOK /\ Exchange

LEMMA TypedSteps == Typed /\ [Next]_vars => Typed'
<1> SUFFICES ASSUME Typed, [Next]_vars PROVE Typed'
  OBVIOUS
<1>1. ASSUME Read, Handle(Head(wire))
      PROVE  /\ wire' \in Seq(Lines)
             /\ job' \in 0..MaxJobs /\ difficulty' \in Difficulties
  <2>1. wire \in Seq(Lines) /\ job \in 0..MaxJobs /\ difficulty \in Difficulties
    BY DEF Typed, TypeOK
  <2>2. wire' \in Seq(Lines) /\ Head(wire) \in Lines
    BY <1>1, <2>1, ReadMovesUp DEF Read
  <2>3. QED
    BY <1>1, <2>1, <2>2, HandledTypes
<1> USE DEF Typed, TypeOK, Exchange, Handshake, Awaiting, Ended
<1>0. 1..3 \subseteq Ids
  BY DEF Ids
<1>2. Read => wire' \in Seq(Lines)
  BY ReadMovesUp DEF Read
<1>3. ASSUME NEW id \in Ids, inbox' = Append(inbox, id)
      PROVE  inbox' \in Seq(Ids)
  BY <1>3, SentComesLast
<1>4. CASE Subscribe
  BY <1>0, <1>3, <1>4 DEF Subscribe, Send
<1>5. CASE Pump
  BY <1>1, <1>5 DEF Pump, gateway
<1>6. CASE Subscribed
  <2>1. CASE phase' = "crashed"
    BY <1>2, <1>6, <2>1 DEF Subscribed, gateway
  <2>2. CASE Send /\ phase' = "authorizing"
    BY <1>0, <1>2, <1>3, <1>6, <2>2 DEF Subscribed, Send
  <2>3. QED
    BY <1>6, <2>1, <2>2 DEF Subscribed
<1>7. CASE Authorized \/ Answered
  BY <1>2, <1>7 DEF Authorized, Answered, gateway
<1>8. CASE AwaitJob
  BY <1>1, <1>8 DEF AwaitJob, Wanting, gateway
<1>9. CASE NoJob \/ ReadFails
  BY <1>9 DEF NoJob, ReadFails, Wanting, gateway
<1>10. CASE StartRound
  <2>1. [job |-> job, difficulty |-> difficulty] \in [job : Jobs, difficulty : Difficulties]
    BY <1>10 DEF StartRound, Jobs
  <2>2. ground' \in Seq([job : Jobs, difficulty : Difficulties])
    <3>1. CASE ground' = Append(ground, [job |-> job, difficulty |-> difficulty])
      BY <2>1, <3>1, SentComesLast
    <3>2. CASE UNCHANGED ground
      BY <3>2
    <3>3. QED
      BY <1>10, <3>1, <3>2 DEF StartRound
  <2>3. QED
    BY <1>10, <2>2 DEF StartRound, gateway
<1>11. CASE Found
  BY <1>0, <1>3, <1>11 DEF Found, Send
<1>12. CASE FoundNothing
  BY <1>12 DEF FoundNothing, gateway
<1>13. ASSUME NEW line \in Lines, Arrives(line)
       PROVE  wire' \in Seq(Lines)
  BY <1>13, SentComesLast DEF Arrives
<1>14. CASE GatewayReplies
  <2>1. Head(inbox) \in Ids /\ inbox' \in Seq(Ids)
    BY <1>14, ReadMovesUp DEF GatewayReplies
  <2>2. QED
    BY <1>13, <1>14, <2>1, SentLines DEF GatewayReplies, miner
<1>15. CASE GatewayNotifies
  BY <1>13, <1>15, SentLines DEF GatewayNotifies, miner, Jobs
<1>16. CASE GatewaySets
  BY <1>13, <1>16, SentLines DEF GatewaySets, miner
<1>17. CASE GatewayAsks
  BY <1>13, <1>17, SentLines DEF GatewayAsks, miner
<1>18. CASE UNCHANGED vars
  BY <1>18 DEF vars, gateway
<1> HIDE DEF Typed, TypeOK, Exchange
<1>19. QED
  BY <1>4, <1>5, <1>6, <1>7, <1>8, <1>9, <1>10, <1>11, <1>12, <1>14, <1>15,
     <1>16, <1>17, <1>18 DEF Next, Miner, Gateway

LEMMA AlwaysTyped == Spec => []Typed
<1>1. Init => Typed
  <2> SUFFICES ASSUME Init PROVE Typed
    OBVIOUS
  <2>1. /\ wire \in Seq(Lines) /\ inbox \in Seq(Ids)
        /\ ground \in Seq([job : Jobs, difficulty : Difficulties])
    BY DEF Init
  <2>2. setFor \in [Jobs -> Difficulties]
    BY DEF Init
  <2>3. /\ issued \in 0..MaxJobs /\ set \in Difficulties
        /\ nextId \in 1..4 /\ waiting \in 0..3
        /\ job \in 0..MaxJobs /\ difficulty \in Difficulties /\ round \in 0..Rounds
    BY DEF Init
  <2>4. Exchange
    BY DEF Init, Exchange, Handshake
  <2>5. QED
    BY <2>1, <2>2, <2>3, <2>4 DEF Init, Typed, TypeOK
<1>2. QED
  BY <1>1, TypedSteps, PTL DEF Spec

(* Every variable keeps its type: no request of the miner has an id of more *)
(* than three, no grind takes more rounds than it may.                      *)
THEOREM TypeCorrect == Spec => []TypeOK
BY AlwaysTyped, PTL DEF Typed

(***************************************************************************)
(* Requests and replies.                                                   *)
(***************************************************************************)
NoReply(w) == \A i \in DOMAIN w : w[i].kind # "reply"
OneReply(w, id) ==
    \E i \in DOMAIN w :
       /\ w[i].kind = "reply" /\ w[i].id = id
       /\ \A k \in DOMAIN w : w[k].kind = "reply" => k = i

\* OneReplyOwed without the set of replies.
Owed ==
    IF phase \in Awaiting
    THEN \/ inbox = <<waiting>> /\ NoReply(wire)
         \/ inbox = <<>> /\ OneReply(wire, waiting)
    ELSE phase # "crashed" => inbox = <<>> /\ NoReply(wire)

\* Reading takes away the reply, if there is one in front.
LEMMA RepliesRead ==
    ASSUME NEW w \in Seq(Lines), w # <<>>, NEW id
    PROVE  /\ NoReply(w) => Head(w).kind # "reply" /\ NoReply(Tail(w))
           /\ OneReply(w, id) /\ Head(w).kind # "reply" => OneReply(Tail(w), id)
           /\ OneReply(w, id) /\ Head(w).kind = "reply" => Head(w).id = id /\ NoReply(Tail(w))
<1>1. /\ Head(w) = w[1] /\ Len(w) \in Nat \ {0}
      /\ DOMAIN w = 1..Len(w) /\ DOMAIN Tail(w) = 1..(Len(w) - 1)
      /\ \A i \in 1..(Len(w) - 1) : Tail(w)[i] = w[i + 1]
  BY ReadMovesUp
<1>2. NoReply(w) => Head(w).kind # "reply" /\ NoReply(Tail(w))
  BY <1>1 DEF NoReply
<1>3. ASSUME NEW i \in DOMAIN w, w[i].kind = "reply", w[i].id = id,
             \A k \in DOMAIN w : w[k].kind = "reply" => k = i
      PROVE  /\ Head(w).kind # "reply" => OneReply(Tail(w), id)
             /\ Head(w).kind = "reply" => Head(w).id = id /\ NoReply(Tail(w))
  <2>1. CASE i = 1
    BY <1>1, <1>3, <2>1 DEF NoReply
  <2>2. CASE i # 1
    <3>1. i - 1 \in DOMAIN Tail(w) /\ Tail(w)[i - 1] = w[i]
      BY <1>1, <1>3, <2>2
    <3>2. \A k \in DOMAIN Tail(w) : Tail(w)[k].kind = "reply" => k = i - 1
      BY <1>1, <1>3
    <3>3. Head(w).kind # "reply"
      BY <1>1, <1>3, <2>2
    <3>4. QED
      BY <1>3, <3>1, <3>2, <3>3 DEF OneReply
  <2>3. QED
    BY <2>1, <2>2
<1>4. QED
  BY <1>2, <1>3 DEF OneReply

\* Sending adds one if it is a reply.
LEMMA RepliesSent ==
    ASSUME NEW w \in Seq(Lines), NEW line \in Lines, NEW id
    PROVE  /\ line.kind # "reply" =>
                 /\ NoReply(w) => NoReply(Append(w, line))
                 /\ OneReply(w, id) => OneReply(Append(w, line), id)
           /\ line.kind = "reply" /\ line.id = id /\ NoReply(w)
                 => OneReply(Append(w, line), id)
<1>1. /\ Len(w) \in Nat
      /\ DOMAIN w = 1..Len(w) /\ DOMAIN Append(w, line) = 1..(Len(w) + 1)
      /\ \A i \in 1..Len(w) : Append(w, line)[i] = w[i]
      /\ Append(w, line)[Len(w) + 1] = line
  BY SentComesLast
<1>2. line.kind # "reply" /\ NoReply(w) => NoReply(Append(w, line))
  BY <1>1 DEF NoReply
<1>3. ASSUME line.kind # "reply", OneReply(w, id)
      PROVE  OneReply(Append(w, line), id)
  <2>1. PICK i \in DOMAIN w : /\ w[i].kind = "reply" /\ w[i].id = id
                              /\ \A k \in DOMAIN w : w[k].kind = "reply" => k = i
    BY <1>3 DEF OneReply
  <2>2. i \in DOMAIN Append(w, line) /\ Append(w, line)[i] = w[i]
    BY <1>1, <2>1
  <2>3. \A k \in DOMAIN Append(w, line) : Append(w, line)[k].kind = "reply" => k = i
    BY <1>1, <1>3, <2>1
  <2>4. QED
    BY <2>1, <2>2, <2>3 DEF OneReply
<1>4. ASSUME line.kind = "reply", line.id = id, NoReply(w)
      PROVE  OneReply(Append(w, line), id)
  <2>1. /\ Len(w) + 1 \in DOMAIN Append(w, line)
        /\ \A k \in DOMAIN Append(w, line) :
              Append(w, line)[k].kind = "reply" => k = Len(w) + 1
    BY <1>1, <1>4 DEF NoReply
  <2>2. QED
    BY <1>1, <1>4, <2>1 DEF OneReply
<1>5. QED
  BY <1>2, <1>3, <1>4

LEMMA OwedSteps == Typed /\ Owed /\ [Next]_vars => Owed'
<1> SUFFICES ASSUME Typed, Owed, [Next]_vars PROVE Owed'
  OBVIOUS
<1>0. wire \in Seq(Lines) /\ inbox \in Seq(Ids)
  BY DEF Typed, TypeOK
<1>1. ASSUME Read, phase \in Awaiting, ~IsReply(Head(wire))
      PROVE  /\ NoReply(wire) => NoReply(wire')
             /\ OneReply(wire, waiting) => OneReply(wire', waiting)
  BY <1>0, <1>1, RepliesRead DEF Read, IsReply
<1>2. ASSUME Read, phase \in Awaiting, IsReply(Head(wire))
      PROVE  inbox = <<>> /\ NoReply(wire')
  BY <1>0, <1>2, RepliesRead DEF Read, IsReply, Owed
<1>3. ASSUME inbox = <<>>, Send
      PROVE  inbox' = <<waiting'>>
  BY <1>3 DEF Send
<1>4. CASE Subscribe
  <2>1. inbox = <<>> /\ NoReply(wire)
    BY <1>4 DEF Subscribe, Owed, Awaiting
  <2>2. QED
    BY <1>3, <1>4, <2>1 DEF Subscribe, Owed, Awaiting, NoReply
<1>5. CASE Pump
  BY <1>1, <1>5 DEF Pump, Owed, gateway
<1>6. CASE Subscribed
  <2>1. inbox = <<>> /\ NoReply(wire')
    BY <1>2, <1>6 DEF Subscribed, Awaiting
  <2>2. CASE phase' = "crashed"
    BY <2>2 DEF Owed, Awaiting
  <2>3. CASE Send /\ phase' = "authorizing"
    BY <1>3, <2>1, <2>3 DEF Owed, Awaiting
  <2>4. QED
    BY <1>6, <2>2, <2>3 DEF Subscribed
<1>7. CASE Authorized \/ Answered
  <2>1. inbox = <<>> /\ NoReply(wire') /\ inbox' = inbox
    BY <1>2, <1>7 DEF Authorized, Answered, Awaiting, gateway
  <2>2. QED
    BY <1>7, <2>1 DEF Authorized, Answered, Owed, Awaiting
<1>8. CASE AwaitJob
  <2>1. inbox = <<>> /\ NoReply(wire) /\ NoReply(wire')
    BY <1>0, <1>8, RepliesRead DEF AwaitJob, Wanting, Read, Owed, Awaiting
  <2>2. QED
    BY <1>8, <2>1 DEF AwaitJob, Wanting, Owed, Awaiting, gateway
<1>9. CASE NoJob \/ StartRound \/ FoundNothing
  <2>1. inbox = <<>> /\ NoReply(wire) /\ phase' \notin Awaiting
    BY <1>9 DEF NoJob, StartRound, FoundNothing, Wanting, Owed, Awaiting
  <2>2. UNCHANGED <<inbox, wire>>
    BY <1>9 DEF NoJob, StartRound, FoundNothing, gateway
  <2>3. QED
    BY <2>1, <2>2 DEF Owed, NoReply
<1>10. CASE ReadFails
  BY <1>10 DEF ReadFails, Owed, Awaiting
<1>11. CASE Found
  <2>1. inbox = <<>> /\ NoReply(wire)
    BY <1>11 DEF Found, Owed, Awaiting
  <2>2. QED
    BY <1>3, <1>11, <2>1 DEF Found, Owed, Awaiting, NoReply
<1>12. CASE GatewayReplies
  <2>1. \/ inbox = <<waiting>> /\ NoReply(wire) /\ phase \in Awaiting
        \/ phase = "crashed"
    BY <1>12 DEF GatewayReplies, Owed
  <2>2. CASE phase = "crashed"
    BY <1>12, <2>2 DEF GatewayReplies, miner, Owed, Awaiting
  <2>3. CASE inbox = <<waiting>> /\ NoReply(wire) /\ phase \in Awaiting
    <3>1. inbox' = <<>> /\ Head(inbox) = waiting
      BY <1>12, <2>3 DEF GatewayReplies
    <3>2. waiting \in Ids
      BY <1>0, <2>3
    <3>3. PICK ok \in BOOLEAN : wire' = Append(wire, Reply(waiting, ok))
      BY <1>12, <3>1 DEF GatewayReplies, Arrives
    <3>4. OneReply(wire', waiting)
      BY <1>0, <2>3, <3>2, <3>3, RepliesSent, SentLines, Kinds
    <3>5. QED
      BY <1>12, <2>3, <3>1, <3>4 DEF GatewayReplies, miner, Owed
  <2>4. QED
    BY <2>1, <2>2, <2>3
<1>13. ASSUME NEW line \in Lines, line.kind # "reply", Arrives(line),
              UNCHANGED <<inbox, phase, waiting>>
       PROVE  Owed'
  BY <1>0, <1>13, RepliesSent DEF Arrives, Owed
<1>14. CASE GatewayNotifies
  <2>1. issued + 1 \in Jobs
    BY <1>14 DEF GatewayNotifies, Jobs, Typed, TypeOK
  <2>2. QED
    BY <1>13, <1>14, <2>1, SentLines, Kinds DEF GatewayNotifies, miner
<1>15. CASE GatewaySets
  BY <1>13, <1>15, SentLines, Kinds DEF GatewaySets, miner
<1>16. CASE GatewayAsks
  BY <1>13, <1>16, SentLines, Kinds DEF GatewayAsks, miner
<1>17. CASE UNCHANGED vars
  BY <1>17 DEF vars, gateway, Owed, NoReply, OneReply
<1>18. QED
  BY <1>4, <1>5, <1>6, <1>7, <1>8, <1>9, <1>10, <1>11, <1>12, <1>14, <1>15,
     <1>16, <1>17 DEF Next, Miner, Gateway

(* While the miner waits for a reply exactly one is owed or on the wire,    *)
(* and it is the one it waits for; otherwise there is none.                 *)
THEOREM ReplyOwed == Spec => []OneReplyOwed
<1>1. Init => Owed
  BY DEF Init, Owed, NoReply, Awaiting
<1>2. Owed => OneReplyOwed
  <2> DEFINE replies == {i \in DOMAIN wire : wire[i].kind = "reply"}
  <2>1. NoReply(wire) => replies = {}
    BY DEF NoReply
  <2>2. OneReply(wire, waiting) =>
          \E i \in replies : replies = {i} /\ wire[i].id = waiting
    BY DEF OneReply
  <2>3. QED
    BY <2>1, <2>2 DEF Owed, OneReplyOwed
<1>3. QED
  BY <1>1, <1>2, OwedSteps, AlwaysTyped, PTL DEF Spec

(***************************************************************************)
(* Jobs are numbered as they are notified, so those on the wire are newer  *)
(* than the one at hand and than any that has been ground.                 *)
(***************************************************************************)
IsNotify(i) == i \in DOMAIN wire /\ wire[i].kind = "notify"

Newer ==
    /\ job <= issued
    /\ \A r \in DOMAIN ground : ground[r].job <= issued
    /\ \A i \in DOMAIN wire : IsNotify(i) =>
          /\ job < wire[i].job /\ wire[i].job <= issued
          /\ \A r \in DOMAIN ground : ground[r].job < wire[i].job
          /\ \A k \in DOMAIN wire : k < i /\ IsNotify(k) => wire[k].job < wire[i].job
    /\ phase = "wanting" /\ job # 0 => \A r \in DOMAIN ground : ground[r].job < job

JobOrder == Newer /\ EachRoundOnANewerJob

\* The numbers that are compared.
LEMMA JobNumbers ==
    ASSUME Typed
    PROVE  /\ job \in Nat /\ issued \in Nat /\ Len(ground) \in Nat
           /\ DOMAIN ground = 1..Len(ground)
           /\ \A r \in DOMAIN ground :
                 ground[r].job \in Jobs /\ ground[r].difficulty \in Difficulties
           /\ \A i \in DOMAIN wire : IsNotify(i) => wire[i].job \in Jobs
           /\ \A i \in DOMAIN wire : wire[i] \in Lines
           /\ Jobs \subseteq Nat
<1>1. Jobs \subseteq Nat
  BY DEF Jobs
<1>2. \A i \in DOMAIN wire : wire[i] \in Lines
  BY DEF Typed, TypeOK
<1>3. \A i \in DOMAIN wire : IsNotify(i) => wire[i].job \in Jobs
  BY <1>2, LineTypes DEF IsNotify
<1>4. /\ Len(ground) \in Nat /\ DOMAIN ground = 1..Len(ground)
      /\ \A r \in DOMAIN ground :
            ground[r].job \in Jobs /\ ground[r].difficulty \in Difficulties
  <2>1. ground \in Seq([job : Jobs, difficulty : Difficulties])
    BY DEF Typed, TypeOK
  <2>2. /\ Len(ground) \in Nat /\ DOMAIN ground = 1..Len(ground)
        /\ \A r \in DOMAIN ground : ground[r] \in [job : Jobs, difficulty : Difficulties]
    BY <2>1, LenProperties, ElementOfSeq
  <2>3. QED
    BY <2>2
<1>5. job \in Nat /\ issued \in Nat
  BY DEF Typed, TypeOK
<1>6. QED
  BY <1>1, <1>2, <1>3, <1>4, <1>5

LEMMA JobOrderSteps == Typed /\ JobOrder /\ [Next]_vars => JobOrder'
<1> SUFFICES ASSUME Typed, JobOrder, [Next]_vars PROVE JobOrder'
  OBVIOUS
<1>1. wire \in Seq(Lines)
  BY DEF Typed, TypeOK
<1>2. ASSUME Read
      PROVE  /\ wire # <<>> /\ Head(wire) = wire[1] /\ 1 \in DOMAIN wire
             /\ \A i \in DOMAIN wire' :
                   i + 1 \in DOMAIN wire /\ wire'[i] = wire[i + 1] /\ i \in Nat \ {0}
  BY <1>1, <1>2, ReadMovesUp DEF Read
<1>3. ASSUME Read, UNCHANGED <<issued, ground>>, job' = job,
             phase' = "wanting" => phase = "wanting" \/ ground = <<>>
      PROVE  JobOrder'
  <2>1. \A i \in DOMAIN wire' : IsNotify(i)' => IsNotify(i + 1)
    BY <1>2, <1>3 DEF IsNotify
  <2>2. ASSUME NEW i \in DOMAIN wire', IsNotify(i)'
        PROVE  /\ job < wire'[i].job /\ wire'[i].job <= issued
               /\ \A r \in DOMAIN ground : ground[r].job < wire'[i].job
               /\ \A k \in DOMAIN wire' : k < i /\ IsNotify(k)' => wire'[k].job < wire'[i].job
    <3>1. IsNotify(i + 1) /\ i + 1 \in DOMAIN wire /\ wire'[i] = wire[i + 1] /\ i \in Nat
      BY <1>2, <1>3, <2>1, <2>2
    <3>2. ASSUME NEW k \in DOMAIN wire', k < i, IsNotify(k)'
          PROVE  wire'[k].job < wire'[i].job
      <4>1. /\ IsNotify(k + 1) /\ k + 1 \in DOMAIN wire /\ k + 1 < i + 1
            /\ wire'[k] = wire[k + 1]
        BY <1>2, <1>3, <2>1, <3>1, <3>2
      <4>2. QED
        BY <3>1, <4>1 DEF JobOrder, Newer
    <3>3. QED
      BY <3>1, <3>2 DEF JobOrder, Newer
  <2>3. phase' = "wanting" /\ job # 0 => \A r \in DOMAIN ground : ground[r].job < job
    BY <1>3 DEF JobOrder, Newer
  <2>4. Newer'
    BY <1>3, <2>2, <2>3 DEF JobOrder, Newer
  <2>5. QED
    BY <1>3, <2>4 DEF JobOrder, EachRoundOnANewerJob
<1>4. ASSUME Read, Handle(Head(wire)), UNCHANGED <<issued, ground, phase>>
      PROVE  JobOrder'
  <2>1. CASE Head(wire).kind = "notify"
    <3>1. IsNotify(1) /\ job' = wire[1].job
      BY <1>2, <1>4, <2>1 DEF IsNotify, Handle
    <3>2. \A i \in DOMAIN wire' : IsNotify(i)' => IsNotify(i + 1)
      BY <1>2, <1>4 DEF IsNotify
    <3>3. job' \in Nat /\ job < job' /\ job' <= issued
      BY <1>2, <1>4, <3>1, JobNumbers DEF JobOrder, Newer
    <3>4. \A r \in DOMAIN ground : ground[r].job < job'
      BY <1>2, <1>4, <3>1 DEF JobOrder, Newer
    <3>5. ASSUME NEW i \in DOMAIN wire', IsNotify(i)'
          PROVE  /\ job' < wire'[i].job /\ wire'[i].job <= issued
                 /\ \A r \in DOMAIN ground : ground[r].job < wire'[i].job
                 /\ \A k \in DOMAIN wire' : k < i /\ IsNotify(k)' => wire'[k].job < wire'[i].job
      <4>1. i + 1 \in DOMAIN wire /\ IsNotify(i + 1) /\ wire'[i] = wire[i + 1] /\ 1 < i + 1
        BY <1>2, <1>4, <3>2, <3>5
      <4>2. ASSUME NEW k \in DOMAIN wire', k < i, IsNotify(k)'
            PROVE  wire'[k].job < wire'[i].job
        BY <1>2, <1>4, <3>2, <4>1, <4>2 DEF JobOrder, Newer
      <4>3. QED
        BY <1>2, <1>4, <3>1, <4>1, <4>2 DEF JobOrder, Newer
    <3>6. Newer'
      BY <1>4, <3>3, <3>4, <3>5 DEF JobOrder, Newer
    <3>7. QED
      BY <1>4, <3>6 DEF JobOrder, EachRoundOnANewerJob
  <2>2. CASE Head(wire).kind # "notify"
    BY <1>3, <1>4, <2>2 DEF Handle
  <2>3. QED
    BY <2>1, <2>2
<1>5. ASSUME UNCHANGED <<wire, issued, ground, job>>, phase' # "wanting"
      PROVE  JobOrder'
  BY <1>5 DEF JobOrder, Newer, IsNotify, EachRoundOnANewerJob
<1>6. CASE Pump \/ AwaitJob
  BY <1>4, <1>6 DEF Pump, AwaitJob, gateway
<1>7. CASE Subscribed \/ Authorized \/ Answered
  <2>1. phase = "authorizing" => ground = <<>>
    BY DEF Typed, Exchange, Handshake
  <2>2. QED
    BY <1>3, <1>7, <2>1 DEF Subscribed, Authorized, Answered, Send, gateway
<1>8. CASE Subscribe \/ NoJob \/ Found \/ ReadFails
  BY <1>5, <1>8 DEF Subscribe, NoJob, Found, ReadFails, Send, gateway
<1>9. CASE StartRound
  <2>1. CASE UNCHANGED ground
    BY <1>5, <1>9, <2>1 DEF StartRound, gateway
  <2>2. CASE ground' = Append(ground, [job |-> job, difficulty |-> difficulty])
    <3>1. /\ DOMAIN ground' = 1..(Len(ground) + 1) /\ Len(ground') = Len(ground) + 1
          /\ \A r \in DOMAIN ground : ground'[r] = ground[r]
          /\ ground'[Len(ground) + 1].job = job
      <4>1. /\ ground \in Seq([job : Jobs, difficulty : Difficulties])
            /\ [job |-> job, difficulty |-> difficulty] \in [job : Jobs, difficulty : Difficulties]
        BY <1>9 DEF StartRound, Typed, TypeOK, Jobs
      <4>2. QED
        BY <2>2, <4>1, SentComesLast
    <3>2. /\ job # 0 /\ phase = "wanting" /\ phase' # "wanting"
          /\ UNCHANGED <<wire, issued, job>>
      BY <1>9, <2>2 DEF StartRound, gateway
    <3>3. \A r \in DOMAIN ground : ground[r].job < job
      BY <3>2 DEF JobOrder, Newer
    <3>4. Newer'
      BY <3>1, <3>2, JobNumbers DEF JobOrder, Newer, IsNotify
    <3>5. EachRoundOnANewerJob'
      BY <3>1, <3>3, JobNumbers DEF JobOrder, EachRoundOnANewerJob
    <3>6. QED
      BY <3>4, <3>5 DEF JobOrder
  <2>3. QED
    BY <1>9, <2>1, <2>2 DEF StartRound
<1>10. CASE FoundNothing
  <2>1. \/ job' = 0 /\ phase' = "wanting"
        \/ job' = job /\ phase' = "done"
    BY <1>10 DEF FoundNothing
  <2>2. UNCHANGED <<wire, issued, ground>>
    BY <1>10 DEF FoundNothing, gateway
  <2>3. Newer'
    BY <2>1, <2>2, JobNumbers DEF JobOrder, Newer, IsNotify
  <2>4. QED
    BY <2>2, <2>3 DEF JobOrder, EachRoundOnANewerJob
<1>11. ASSUME NEW line \in Lines, Arrives(line), UNCHANGED <<job, ground, phase>>
       PROVE  /\ \A i \in DOMAIN wire : i \in DOMAIN wire' /\ wire'[i] = wire[i] /\ i \in Nat
              /\ DOMAIN wire' = DOMAIN wire \cup {Len(wire) + 1}
              /\ wire'[Len(wire) + 1] = line
              /\ \A i \in DOMAIN wire : i < Len(wire) + 1
  BY <1>1, <1>11, SentComesLast DEF Arrives
<1>12. ASSUME NEW line \in Lines, Arrives(line), line.kind # "notify",
              UNCHANGED <<issued, job, ground, phase>>
       PROVE  JobOrder'
  <2>1. \A i \in DOMAIN wire' : IsNotify(i)' => IsNotify(i) /\ wire'[i] = wire[i]
    BY <1>11, <1>12 DEF IsNotify
  <2>2. Newer'
    BY <1>12, <2>1 DEF JobOrder, Newer, IsNotify
  <2>3. QED
    BY <1>12, <2>2 DEF JobOrder, EachRoundOnANewerJob
<1>13. CASE GatewayNotifies
  <2>1. /\ issued + 1 \in Jobs /\ issued' = issued + 1 /\ Arrives(Notify(issued + 1))
        /\ UNCHANGED <<job, ground, phase>>
    BY <1>13 DEF GatewayNotifies, Jobs, miner, Typed, TypeOK
  <2>2. Notify(issued + 1) \in Lines /\ Notify(issued + 1).job = issued + 1
    BY <2>1, SentLines, Kinds
  <2>3. \A i \in DOMAIN wire' :
           \/ i \in DOMAIN wire /\ wire'[i] = wire[i] /\ (IsNotify(i)' => IsNotify(i))
           \/ i = Len(wire) + 1 /\ wire'[i].job = issued + 1
    BY <1>11, <2>1, <2>2 DEF IsNotify
  <2>4. \A i \in DOMAIN wire : i < Len(wire) + 1
    BY <1>11, <2>1, <2>2
  <2>5. ASSUME NEW i \in DOMAIN wire', IsNotify(i)'
        PROVE  /\ job' < wire'[i].job /\ wire'[i].job <= issued'
               /\ \A r \in DOMAIN ground' : ground'[r].job < wire'[i].job
               /\ \A k \in DOMAIN wire' : k < i /\ IsNotify(k)' => wire'[k].job < wire'[i].job
    <3>1. CASE i \in DOMAIN wire /\ wire'[i] = wire[i] /\ IsNotify(i)
      <4>1. \A k \in DOMAIN wire' : k < i /\ IsNotify(k)' => wire'[k].job < wire'[i].job
        <5>1. \A k \in DOMAIN wire' : k < i => k # Len(wire) + 1
          BY <1>1, <2>4, <3>1
        <5>2. QED
          BY <2>3, <3>1, <5>1 DEF JobOrder, Newer
      <4>2. wire[i].job <= issued + 1
        BY <3>1, JobNumbers DEF JobOrder, Newer
      <4>3. QED
        BY <2>1, <3>1, <4>1, <4>2 DEF JobOrder, Newer
    <3>2. CASE i = Len(wire) + 1 /\ wire'[i].job = issued + 1
      <4>1. \A k \in DOMAIN wire' : k < i /\ IsNotify(k)' => wire'[k].job <= issued
        BY <1>1, <2>3, <3>2 DEF JobOrder, Newer
      <4>2. \A k \in DOMAIN wire' : k < i /\ IsNotify(k)' => wire'[k].job \in Nat
        BY <1>1, <2>3, <3>2, JobNumbers
      <4>3. QED
        BY <2>1, <3>2, <4>1, <4>2, JobNumbers DEF JobOrder, Newer
    <3>3. QED
      BY <2>3, <2>5, <3>1, <3>2
  <2>6. Newer'
    <3>1. job' <= issued' /\ \A r \in DOMAIN ground' : ground'[r].job <= issued'
      BY <2>1, JobNumbers DEF JobOrder, Newer
    <3>2. phase' = "wanting" /\ job' # 0 => \A r \in DOMAIN ground' : ground'[r].job < job'
      BY <2>1 DEF JobOrder, Newer
    <3>3. QED
      BY <2>5, <3>1, <3>2 DEF Newer
  <2>7. QED
    BY <2>1, <2>6 DEF JobOrder, EachRoundOnANewerJob
<1>14. CASE GatewayReplies
  <2>1. inbox # <<>> => Head(inbox) \in Ids
    BY ReadMovesUp DEF Typed, TypeOK
  <2>2. QED
    BY <1>12, <1>14, <2>1, SentLines, Kinds DEF GatewayReplies, miner
<1>15. CASE GatewaySets \/ GatewayAsks
  BY <1>12, <1>15, SentLines, Kinds DEF GatewaySets, GatewayAsks, miner
<1>16. CASE UNCHANGED vars
  BY <1>16 DEF vars, gateway, JobOrder, Newer, IsNotify, EachRoundOnANewerJob
<1>17. QED
  BY <1>6, <1>7, <1>8, <1>9, <1>10, <1>13, <1>14, <1>15, <1>16
  DEF Next, Miner, Gateway

(* Every round of a grind takes a job newer than those before it.           *)
THEOREM NewerJobs == Spec => []EachRoundOnANewerJob
<1>1. Init => JobOrder
  BY DEF Init, JobOrder, Newer, EachRoundOnANewerJob
<1>2. QED
  BY <1>1, JobOrderSteps, AlwaysTyped, PTL DEF Spec, JobOrder

(***************************************************************************)
(* The difficulty in force at a place i of a wire w is the last one set    *)
(* before it, or the miner's own if none is.                               *)
(***************************************************************************)
Sets(line) == line.kind = "set_difficulty"
Taken(own, line) == IF Sets(line) THEN line.to ELSE own

InForce(w, own, i, d) ==
    /\ (\A k \in 1..(i - 1) : ~Sets(w[k])) => own = d
    /\ \A k \in 1..(i - 1) :
          Sets(w[k]) /\ (\A m \in (k + 1)..(i - 1) : ~Sets(w[m])) => w[k].to = d

\* Reading moves every place up by one, and takes a difficulty that is read.
LEMMA InForceRead ==
    ASSUME NEW w \in Seq(Lines), w # <<>>, NEW own, NEW d, NEW i \in 1..Len(w),
           InForce(w, own, i + 1, d)
    PROVE  InForce(Tail(w), Taken(own, Head(w)), i, d)
<1>1. /\ Head(w) = w[1] /\ Len(w) \in Nat \ {0}
      /\ \A k \in 1..(Len(w) - 1) : Tail(w)[k] = w[k + 1]
  BY ReadMovesUp
<1>2. \A k \in 1..(i - 1) : Tail(w)[k] = w[k + 1] /\ k + 1 \in 1..i /\ k + 1 \in Nat
  BY <1>1
<1>3. ASSUME \A k \in 1..(i - 1) : ~Sets(Tail(w)[k])
      PROVE  Taken(own, Head(w)) = d
  <2>1. \A m \in 2..i : ~Sets(w[m])
    <3>1. ASSUME NEW m \in 2..i PROVE ~Sets(w[m])
      <4>1. m - 1 \in 1..(i - 1) /\ (m - 1) + 1 = m
        OBVIOUS
      <4>2. QED
        BY <1>2, <1>3, <4>1
    <3>2. QED
      BY <3>1
  <2>2. CASE Sets(w[1])
    <3>1. 1 \in 1..((i + 1) - 1) /\ (1 + 1)..((i + 1) - 1) = 2..i
      OBVIOUS
    <3>2. QED
      BY <1>1, <2>1, <2>2, <3>1 DEF InForce, Taken
  <2>3. CASE ~Sets(w[1])
    <3>1. \A m \in 1..((i + 1) - 1) : m = 1 \/ m \in 2..i
      OBVIOUS
    <3>2. QED
      BY <1>1, <2>1, <2>3, <3>1 DEF InForce, Taken
  <2>4. QED
    BY <2>2, <2>3
<1>4. ASSUME NEW k \in 1..(i - 1), Sets(Tail(w)[k]),
             \A m \in (k + 1)..(i - 1) : ~Sets(Tail(w)[m])
      PROVE  Tail(w)[k].to = d
  <2>1. k + 1 \in 1..((i + 1) - 1) /\ Sets(w[k + 1]) /\ Tail(w)[k] = w[k + 1]
    BY <1>2, <1>4
  <2>2. ASSUME NEW m \in ((k + 1) + 1)..((i + 1) - 1) PROVE ~Sets(w[m])
    <3>1. m - 1 \in (k + 1)..(i - 1) /\ m - 1 \in 1..(i - 1) /\ (m - 1) + 1 = m
      OBVIOUS
    <3>2. QED
      BY <1>2, <1>4, <3>1
  <2>3. QED
    BY <2>1, <2>2 DEF InForce
<1>5. QED
  BY <1>3, <1>4 DEF InForce

\* A line that arrives changes nothing before it, ...
LEMMA InForceBefore ==
    ASSUME NEW w \in Seq(Lines), NEW line \in Lines, NEW own, NEW d,
           NEW i \in 1..(Len(w) + 1), InForce(w, own, i, d)
    PROVE  InForce(Append(w, line), own, i, d)
<1>1. Len(w) \in Nat /\ \A k \in 1..Len(w) : Append(w, line)[k] = w[k]
  BY SentComesLast
<1>2. \A k \in 1..(i - 1) : Append(w, line)[k] = w[k]
  BY <1>1
<1>3. \A k \in 1..(i - 1) : \A m \in (k + 1)..(i - 1) : m \in 1..(i - 1)
  BY <1>1
<1>4. QED
  BY <1>2, <1>3 DEF InForce

\* ... and after it the difficulty it sets is in force, if it sets one.
LEMMA InForceAfter ==
    ASSUME NEW w \in Seq(Lines), NEW line \in Lines, NEW own, NEW d,
           InForce(w, own, Len(w) + 1, d)
    PROVE  InForce(Append(w, line), own, Len(Append(w, line)) + 1, Taken(d, line))
<1> DEFINE n == Len(w)
           v == Append(w, line)
<1>1. n \in Nat /\ Len(v) = n + 1 /\ v[n + 1] = line
  BY SentComesLast
<1>2. InForce(v, own, n + 1, d)
  BY <1>1, InForceBefore
<1>3. /\ (n + 2) - 1 = n + 1 /\ (n + 1) - 1 = n /\ Len(v) + 1 = n + 2
      /\ \A k \in 1..(n + 1) : k \in 1..n \/ k = n + 1
      /\ \A k \in 1..n : k \in 1..(n + 1) /\ n + 1 \in (k + 1)..(n + 1)
      /\ \A k \in 1..n : \A m \in (k + 1)..n : m \in (k + 1)..(n + 1)
      /\ n + 1 \in 1..(n + 1)
  BY <1>1
<1> HIDE DEF n, v
<1>4. CASE Sets(line)
  <2>1. ~ \A k \in 1..((n + 2) - 1) : ~Sets(v[k])
    BY <1>1, <1>3, <1>4
  <2>2. ASSUME NEW k \in 1..((n + 2) - 1), Sets(v[k]),
               \A m \in (k + 1)..((n + 2) - 1) : ~Sets(v[m])
        PROVE  v[k].to = line.to
    BY <1>1, <1>3, <1>4, <2>2
  <2>3. InForce(v, own, n + 2, Taken(d, line))
    BY <1>4, <2>1, <2>2 DEF InForce, Taken
  <2>4. QED
    BY <1>3, <2>3 DEF v
<1>5. CASE ~Sets(line)
  <2>1. (\A k \in 1..((n + 2) - 1) : ~Sets(v[k])) => own = d
    BY <1>2, <1>3 DEF InForce
  <2>2. ASSUME NEW k \in 1..((n + 2) - 1), Sets(v[k]),
               \A m \in (k + 1)..((n + 2) - 1) : ~Sets(v[m])
        PROVE  v[k].to = d
    <3>1. k \in 1..n
      BY <1>1, <1>3, <1>5, <2>2
    <3>2. \A m \in (k + 1)..((n + 1) - 1) : ~Sets(v[m])
      BY <1>3, <2>2, <3>1
    <3>3. QED
      BY <1>2, <1>3, <2>2, <3>1, <3>2 DEF InForce
  <2>3. InForce(v, own, n + 2, Taken(d, line))
    BY <1>5, <2>1, <2>2 DEF InForce, Taken
  <2>4. QED
    BY <1>3, <2>3 DEF v
<1>6. QED
  BY <1>4, <1>5

(***************************************************************************)
(* At the end of the wire the gateway's difficulty is in force, and at a   *)
(* job the one it was notified with.                                       *)
(***************************************************************************)
InOrder ==
    /\ InForce(wire, difficulty, Len(wire) + 1, set)
    /\ \A i \in DOMAIN wire :
          IsNotify(i) => InForce(wire, difficulty, i, setFor[wire[i].job])
    /\ phase = "wanting" /\ job # 0 /\ ground # <<>> => difficulty = setFor[job]

DifficultyOrder == InOrder /\ AtItsDifficulty

LEMMA DifficultySteps ==
    Typed /\ JobOrder /\ DifficultyOrder /\ [Next]_vars => DifficultyOrder'
<1> SUFFICES ASSUME Typed, JobOrder, DifficultyOrder, [Next]_vars
             PROVE  DifficultyOrder'
  OBVIOUS
<1>1. wire \in Seq(Lines) /\ DOMAIN wire = 1..Len(wire) /\ Len(wire) \in Nat
  BY DEF Typed, TypeOK
<1>2. ASSUME Read, difficulty' = Taken(difficulty, Head(wire)), UNCHANGED <<set, setFor>>
      PROVE  /\ InForce(wire, difficulty, Len(wire) + 1, set)'
             /\ \A i \in DOMAIN wire' : IsNotify(i)' =>
                   InForce(wire', difficulty', i, setFor'[wire'[i].job])
  <2>1. /\ wire # <<>> /\ wire' = Tail(wire) /\ Len(wire) \in 1..Len(wire)
        /\ DOMAIN wire' = 1..(Len(wire) - 1) /\ Len(wire') + 1 = Len(wire)
        /\ \A i \in DOMAIN wire' :
              i \in 1..Len(wire) /\ i + 1 \in DOMAIN wire /\ wire'[i] = wire[i + 1]
    BY <1>1, <1>2, ReadMovesUp DEF Read
  <2>2. InForce(wire', difficulty', Len(wire), set)
    BY <1>1, <1>2, <2>1, InForceRead DEF DifficultyOrder, InOrder
  <2>3. ASSUME NEW i \in DOMAIN wire', IsNotify(i)'
        PROVE  InForce(wire', difficulty', i, setFor'[wire'[i].job])
    <3>1. IsNotify(i + 1)
      BY <2>1, <2>3 DEF IsNotify
    <3>2. InForce(wire, difficulty, i + 1, setFor[wire[i + 1].job])
      BY <2>1, <3>1 DEF DifficultyOrder, InOrder
    <3>3. QED
      BY <1>1, <1>2, <2>1, <3>2, InForceRead
  <2>4. QED
    BY <1>2, <2>1, <2>2, <2>3
<1>3. ASSUME Read, difficulty' = Taken(difficulty, Head(wire)),
             UNCHANGED <<set, setFor, ground>>,
             phase' = "wanting" /\ job' # 0 /\ ground # <<>> => difficulty' = setFor[job']
      PROVE  DifficultyOrder'
  BY <1>2, <1>3 DEF DifficultyOrder, InOrder, AtItsDifficulty
<1>4. ASSUME Read, Handle(Head(wire))
      PROVE  difficulty' = Taken(difficulty, Head(wire))
  BY <1>4 DEF Handle, Taken, Sets
<1>5. CASE Pump
  BY <1>3, <1>4, <1>5 DEF Pump, gateway, Awaiting
<1>6. CASE AwaitJob
  <2>1. job' # 0 => IsNotify(1) /\ job' = wire[1].job /\ ~Sets(Head(wire))
    BY <1>1, <1>6, ReadMovesUp DEF AwaitJob, Wanting, Handle, IsNotify, Read, Sets
  <2>2. IsNotify(1) => difficulty = setFor[wire[1].job]
    <3>1. ASSUME IsNotify(1) PROVE InForce(wire, difficulty, 1, setFor[wire[1].job])
      BY <3>1 DEF DifficultyOrder, InOrder, IsNotify
    <3>2. 1..(1 - 1) = {}
      OBVIOUS
    <3>3. QED
      BY <3>1, <3>2 DEF InForce
  <2>3. job' # 0 => difficulty' = setFor[job']
    BY <1>4, <1>6, <2>1, <2>2 DEF AwaitJob, Taken
  <2>4. QED
    BY <1>3, <1>4, <1>6, <2>3 DEF AwaitJob, gateway
<1>7. CASE Subscribed \/ Authorized \/ Answered
  <2>1. Read /\ ~Sets(Head(wire)) /\ UNCHANGED <<set, setFor, ground, difficulty, job>>
    BY <1>7 DEF Subscribed, Authorized, Answered, Send, gateway, IsReply, Sets
  <2>2. difficulty' = Taken(difficulty, Head(wire))
    BY <2>1 DEF Taken
  <2>3. phase' = "wanting" => ground = <<>>
    BY <1>7 DEF Subscribed, Authorized, Answered, Typed, Exchange, Handshake
  <2>4. QED
    BY <1>3, <2>1, <2>2, <2>3
<1>8. ASSUME UNCHANGED <<wire, set, setFor, difficulty, ground>>,
             phase' # "wanting" \/ job' = 0 \/ (phase' = phase /\ job' = job)
      PROVE  DifficultyOrder'
  BY <1>8 DEF DifficultyOrder, InOrder, IsNotify, AtItsDifficulty
<1>9. CASE Subscribe \/ NoJob \/ Found \/ FoundNothing \/ ReadFails
  BY <1>8, <1>9 DEF Subscribe, NoJob, Found, FoundNothing, ReadFails, Send, gateway
<1>10. CASE StartRound
  <2>1. CASE UNCHANGED ground
    BY <1>8, <1>10, <2>1 DEF StartRound, gateway
  <2>2. CASE ground' = Append(ground, [job |-> job, difficulty |-> difficulty])
    <3>1. /\ Len(ground) \in Nat /\ Len(ground') = Len(ground) + 1
          /\ \A r \in 1..Len(ground) : ground'[r] = ground[r]
          /\ ground'[Len(ground) + 1] = [job |-> job, difficulty |-> difficulty]
      <4>1. /\ ground \in Seq([job : Jobs, difficulty : Difficulties])
            /\ [job |-> job, difficulty |-> difficulty] \in [job : Jobs, difficulty : Difficulties]
        BY <1>10 DEF StartRound, Typed, TypeOK, Jobs
      <4>2. QED
        BY <2>2, <4>1, SentComesLast
    <3>2. /\ job # 0 /\ phase = "wanting" /\ phase' # "wanting"
          /\ UNCHANGED <<wire, set, setFor, difficulty>>
      BY <1>10, <2>2 DEF StartRound, gateway
    <3>3. Len(ground) # 0 => difficulty = setFor[job]
      BY <3>2 DEF DifficultyOrder, InOrder
    <3>4. AtItsDifficulty'
      <4>1. ASSUME NEW r \in 2..Len(ground')
            PROVE  ground'[r].difficulty = setFor'[ground'[r].job]
        <5>1. CASE r \in 2..Len(ground)
          BY <3>1, <3>2, <5>1 DEF DifficultyOrder, AtItsDifficulty
        <5>2. CASE r = Len(ground) + 1
          BY <3>1, <3>2, <3>3, <4>1, <5>2
        <5>3. QED
          BY <3>1, <4>1, <5>1, <5>2
      <4>2. QED
        BY <4>1 DEF AtItsDifficulty
    <3>5. InOrder'
      BY <3>2 DEF DifficultyOrder, InOrder, IsNotify
    <3>6. QED
      BY <3>4, <3>5 DEF DifficultyOrder
  <2>3. QED
    BY <1>10, <2>1, <2>2 DEF StartRound
<1>11. ASSUME NEW line \in Lines, Arrives(line), UNCHANGED <<difficulty, phase, job, ground>>,
              set' = Taken(set, line),
              line.kind = "notify" => setFor'[line.job] = set,
              \A j \in Jobs : j <= issued => setFor'[j] = setFor[j]
       PROVE  DifficultyOrder'
  <2>1. /\ wire' = Append(wire, line) /\ wire'[Len(wire) + 1] = line
        /\ \A i \in DOMAIN wire : wire'[i] = wire[i] /\ i \in 1..(Len(wire) + 1)
        /\ DOMAIN wire' = DOMAIN wire \cup {Len(wire) + 1}
        /\ Len(wire) + 1 \in 1..(Len(wire) + 1)
    BY <1>1, <1>11, SentComesLast DEF Arrives
  <2>2. InForce(wire', difficulty', Len(wire') + 1, set')
    BY <1>1, <1>11, <2>1, InForceAfter DEF DifficultyOrder, InOrder
  <2>3. ASSUME NEW i \in DOMAIN wire', IsNotify(i)'
        PROVE  InForce(wire', difficulty', i, setFor'[wire'[i].job])
    <3>1. CASE i \in DOMAIN wire
      <4>1. IsNotify(i) /\ wire'[i] = wire[i]
        BY <2>1, <2>3, <3>1 DEF IsNotify
      <4>2. setFor'[wire[i].job] = setFor[wire[i].job]
        BY <1>11, <3>1, <4>1, JobNumbers DEF JobOrder, Newer
      <4>3. InForce(wire, difficulty, i, setFor[wire[i].job])
        BY <3>1, <4>1 DEF DifficultyOrder, InOrder
      <4>4. QED
        BY <1>1, <1>11, <2>1, <3>1, <4>1, <4>2, <4>3, InForceBefore
    <3>2. CASE i = Len(wire) + 1
      <4>1. setFor'[wire'[i].job] = set
        BY <1>11, <2>1, <2>3, <3>2 DEF IsNotify
      <4>2. QED
        BY <1>1, <1>11, <2>1, <3>2, <4>1, InForceBefore DEF DifficultyOrder, InOrder
    <3>3. QED
      BY <2>1, <3>1, <3>2
  <2>4. phase' = "wanting" /\ job' # 0 /\ ground' # <<>> => difficulty' = setFor'[job']
    <3>1. job # 0 => job \in Jobs /\ job <= issued
      BY DEF Typed, TypeOK, Jobs, JobOrder, Newer
    <3>2. QED
      BY <1>11, <3>1 DEF DifficultyOrder, InOrder
  <2>5. AtItsDifficulty'
    <3>1. \A r \in 2..Len(ground) : r \in DOMAIN ground
      BY JobNumbers
    <3>2. \A r \in 2..Len(ground) : ground[r].job \in Jobs /\ ground[r].job <= issued
      BY <3>1, JobNumbers DEF JobOrder, Newer
    <3>3. QED
      BY <1>11, <3>2 DEF DifficultyOrder, AtItsDifficulty
  <2>6. QED
    BY <2>2, <2>3, <2>4, <2>5 DEF DifficultyOrder, InOrder
<1>12. CASE GatewayReplies
  <2>1. inbox # <<>> => Head(inbox) \in Ids
    BY ReadMovesUp DEF Typed, TypeOK
  <2>2. QED
    BY <1>11, <1>12, <2>1, SentLines, Kinds DEF GatewayReplies, miner, Taken, Sets
<1>13. CASE GatewayNotifies
  <2>1. /\ issued + 1 \in Jobs /\ Arrives(Notify(issued + 1))
        /\ setFor' = [setFor EXCEPT ![issued + 1] = set]
        /\ UNCHANGED <<difficulty, phase, job, ground, set>>
    BY <1>13 DEF GatewayNotifies, Jobs, miner, Typed, TypeOK
  <2>2. /\ Notify(issued + 1) \in Lines /\ Notify(issued + 1).job = issued + 1
        /\ ~Sets(Notify(issued + 1))
    BY <2>1, SentLines, Kinds DEF Sets
  <2>3. /\ setFor'[issued + 1] = set
        /\ \A j \in Jobs : j <= issued => setFor'[j] = setFor[j]
    BY <2>1, JobNumbers DEF Typed, TypeOK
  <2>4. QED
    BY <1>11, <2>1, <2>2, <2>3 DEF Taken
<1>14. CASE GatewaySets
  <2>1. PICK d \in Difficulties : set' = d /\ Arrives(SetDifficulty(d))
    BY <1>14 DEF GatewaySets
  <2>2. SetDifficulty(d) \in Lines /\ Taken(set, SetDifficulty(d)) = d
        /\ SetDifficulty(d).kind # "notify"
    BY <2>1, SentLines, Kinds DEF Taken, Sets
  <2>3. QED
    BY <1>11, <1>14, <2>1, <2>2 DEF GatewaySets, miner
<1>15. CASE GatewayAsks
  BY <1>11, <1>15, SentLines, Kinds DEF GatewayAsks, miner, Taken, Sets
<1>16. CASE UNCHANGED vars
  BY <1>8, <1>16 DEF vars, gateway
<1>17. QED
  BY <1>5, <1>6, <1>7, <1>9, <1>10, <1>12, <1>13, <1>14, <1>15, <1>16
  DEF Next, Miner, Gateway

(* From the second round on a job is ground at the difficulty in force when *)
(* it was notified.                                                         *)
THEOREM DifficultyKept == Spec => []AtItsDifficulty
<1>1. Init => DifficultyOrder
  BY DEF Init, DifficultyOrder, InOrder, InForce, IsNotify, AtItsDifficulty
<1>2. Init => JobOrder
  BY DEF Init, JobOrder, Newer, EachRoundOnANewerJob
<1>3. QED
  BY <1>1, <1>2, DifficultySteps, JobOrderSteps, AlwaysTyped, PTL
  DEF Spec, DifficultyOrder
=============================================================================
