------------------------------- MODULE Stratum -------------------------------
(***************************************************************************)
(* stratum_miner.py and grind.py: a miner behind the DATUM gateway.  The   *)
(* connection is a stream of lines: replies to requests, notifications of  *)
(* jobs and difficulties, and requests of the gateway's own.  The miner    *)
(* reads it only while it waits for something; during a grind all that     *)
(* arrives stays in the socket.  "mine" is stratum_miner.py on its own,    *)
(* which searches one window, "grind" is grind.py, which searches several. *)
(***************************************************************************)
EXTENDS Naturals, Sequences, FiniteSets

CONSTANTS
    Rounds,        \* windows a grind may take, 8
    MaxJobs,       \* bound on the jobs of the gateway
    Difficulties,  \* difficulties it may set
    MaxExtras      \* bound on the other lines that lie unread

ASSUME StratumAssumption ==
    /\ Rounds \in Nat \ {0} /\ MaxJobs \in Nat /\ MaxExtras \in Nat
    /\ Difficulties \subseteq Nat /\ 1 \in Difficulties

VARIABLES
    wire,        \* the lines that have arrived and not been read
    inbox,       \* the miner's request the gateway has not answered
    issued,      \* jobs notified so far; a job is its number
    set,         \* the difficulty in force
    setFor,      \* setFor[j]: the difficulty in force when job j was notified
    script,      \* "mine" or "grind"
    phase,       \* what the miner does
    nextId,      \* next_id
    waiting,     \* the id of the reply it waits for
    job,         \* s.job, 0 for None
    difficulty,  \* s.difficulty
    round,       \* round_no
    ground       \* the work of each round so far: job and difficulty

gateway == <<inbox, issued, set, setFor>>
vars == <<wire, gateway, script, phase, nextId, waiting, job, difficulty, round, ground>>

Jobs == 1..MaxJobs

\* The miner sends three requests at most; the last id is none of theirs.
Ids == 1..4
Ended == {"done", "refused", "jobless", "crashed"}

Reply(id, ok) == [kind |-> "reply", id |-> id, ok |-> ok]
Request(id) == [kind |-> "request", id |-> id]
Notify(j) == [kind |-> "notify", job |-> j]
SetDifficulty(d) == [kind |-> "set_difficulty", to |-> d]

Init ==
    /\ wire = <<>> /\ inbox = <<>> /\ issued = 0
    /\ set = 1 /\ setFor = [j \in Jobs |-> 1]
    /\ script \in {"mine", "grind"}
    /\ phase = "connected" /\ nextId = 1 /\ waiting = 0
    /\ job = 0 /\ difficulty = 1
    /\ round = 0 /\ ground = <<>>

(***************************************************************************)
(* The gateway.                                                            *)
(***************************************************************************)
Arrives(line) == wire' = Append(wire, line)

miner == <<script, phase, nextId, waiting, job, difficulty, round, ground>>

GatewayReplies ==
    /\ inbox # <<>>
    /\ inbox' = Tail(inbox)
    /\ \E ok \in BOOLEAN : Arrives(Reply(Head(inbox), ok))
    /\ UNCHANGED <<issued, set, setFor, miner>>

GatewayNotifies ==
    /\ issued < MaxJobs
    /\ issued' = issued + 1
    /\ setFor' = [setFor EXCEPT ![issued + 1] = set]
    /\ Arrives(Notify(issued + 1))
    /\ UNCHANGED <<inbox, set, miner>>

\* Of changes of difficulty and requests of its own there is no end.
RoomForMore ==
    Cardinality({i \in DOMAIN wire : wire[i].kind \in {"set_difficulty", "request"}})
        < MaxExtras

GatewaySets ==
    /\ RoomForMore
    /\ \E d \in Difficulties \ {set} : set' = d /\ Arrives(SetDifficulty(d))
    /\ UNCHANGED <<inbox, issued, setFor, miner>>

\* Its requests number themselves: an id may be one the miner waits for.
GatewayAsks ==
    /\ RoomForMore
    /\ \E id \in Ids : Arrives(Request(id))
    /\ UNCHANGED <<inbox, issued, set, setFor, miner>>

Gateway == GatewayReplies \/ GatewayNotifies \/ GatewaySets \/ GatewayAsks

(***************************************************************************)
(* The miner.                                                              *)
(***************************************************************************)
\* send: a request of the miner, and then wait_for.
Send ==
    /\ inbox' = Append(inbox, nextId)
    /\ waiting' = nextId /\ nextId' = nextId + 1
    /\ UNCHANGED <<issued, set, setFor>>

Subscribe ==
    /\ phase = "connected" /\ Send /\ phase' = "subscribing"
    /\ UNCHANGED <<script, wire, job, difficulty, round, ground>>

Read == wire # <<>> /\ wire' = Tail(wire)

(* Mutant: any line with the id is the reply.                               *)
HasId(line) == line.kind \in {"reply", "request"} /\ line.id = waiting

\* wait_for: the line with this id that is no request ends the wait.
IsReply(line) == line.kind = "reply" /\ line.id = waiting

(* Mutant: the difficulty stays what it was.                                *)
HandleJobs(line) ==
    /\ job' = IF line.kind = "notify" THEN line.job ELSE job
    /\ UNCHANGED difficulty

\* handle_notification: anything else is read and forgotten.
Handle(line) ==
    /\ job' = IF line.kind = "notify" THEN line.job ELSE job
    /\ difficulty' = IF line.kind = "set_difficulty" THEN line.to ELSE difficulty

\* reply.get("result"): none in an error, or in anything but a reply.
Accepts(line) == line.kind = "reply" /\ line.ok

Awaiting == {"subscribing", "authorizing", "submitted"}

Pump ==
    /\ phase \in Awaiting /\ Read /\ ~IsReply(Head(wire))
    /\ Handle(Head(wire))
    /\ UNCHANGED <<gateway, script, phase, nextId, waiting, round, ground>>

\* subscribe_and_authorize: an error has no result to take apart.
Subscribed ==
    /\ phase = "subscribing" /\ Read /\ IsReply(Head(wire))
    /\ \/ Accepts(Head(wire)) /\ Send /\ phase' = "authorizing"
       \/ ~Accepts(Head(wire)) /\ phase' = "crashed" /\ UNCHANGED <<gateway, nextId, waiting>>
    /\ UNCHANGED <<script, job, difficulty, round, ground>>

Authorized ==
    /\ phase = "authorizing" /\ Read /\ IsReply(Head(wire))
    /\ phase' = IF Accepts(Head(wire)) THEN "wanting" ELSE "refused"
    /\ UNCHANGED <<gateway, script, nextId, waiting, job, difficulty, round, ground>>

\* Any reply ends the grind, an acceptance or not.
Answered ==
    /\ phase = "submitted" /\ Read /\ IsReply(Head(wire))
    /\ phase' = "done"
    /\ UNCHANGED <<gateway, script, nextId, waiting, job, difficulty, round, ground>>

Wanting == phase = "wanting" /\ job = 0

\* wait_for_job: notifications are read until one brings a job ...
AwaitJob ==
    /\ Wanting /\ Read
    /\ Handle(Head(wire))
    /\ UNCHANGED <<gateway, script, phase, nextId, waiting, round, ground>>

\* ... or the time is up, whatever else has arrived.
NoJob ==
    /\ Wanting
    /\ phase' = "jobless"
    /\ UNCHANGED <<wire, gateway, script, nextId, waiting, job, difficulty, round, ground>>

(* Mutant: one round too many.                                              *)
StartAnotherRound ==
    /\ phase = "wanting" /\ job # 0 /\ round <= Rounds
    /\ ground' = Append(ground, [job |-> job, difficulty |-> difficulty])
    /\ phase' = "grinding"
    /\ UNCHANGED <<wire, gateway, script, nextId, waiting, job, difficulty, round>>

\* run_round: the work is fixed by the job and the difficulty of this moment.
StartRound ==
    /\ phase = "wanting" /\ job # 0
    /\ IF round < Rounds
       THEN /\ ground' = Append(ground, [job |-> job, difficulty |-> difficulty])
            /\ phase' = "grinding"
       ELSE phase' = "done" /\ UNCHANGED ground
    /\ UNCHANGED <<wire, gateway, script, nextId, waiting, job, difficulty, round>>

\* A share is found: it is submitted, and the miner reads again.
Found ==
    /\ phase = "grinding"
    /\ Send /\ phase' = "submitted"
    /\ UNCHANGED <<script, wire, job, difficulty, round, ground>>

(* Mutant: the next window goes on with the job at hand.                    *)
FoundNothingKeepingJob ==
    /\ phase = "grinding"
    /\ round' = round + 1 /\ phase' = "wanting"
    /\ UNCHANGED <<wire, gateway, script, nextId, waiting, job, difficulty, ground>>

\* None is found in the window: the grind waits for another job.
FoundNothing ==
    /\ phase = "grinding"
    /\ IF script = "grind"
       THEN job' = 0 /\ round' = round + 1 /\ phase' = "wanting"
       ELSE phase' = "done" /\ UNCHANGED <<job, round>>
    /\ UNCHANGED <<wire, gateway, script, nextId, waiting, difficulty, ground>>

(* Mutant: the socket has no timeout.                                       *)
ReadBlocks ==
    phase \in Awaiting /\ wire = <<>> /\ UNCHANGED vars

\* A read of a silent gateway times out, or the gateway closes: wait_for
\* expects neither, wait_for_job not the second.
ReadFails ==
    /\ phase \in Awaiting \/ Wanting
    /\ wire = <<>>
    /\ phase' = "crashed"
    /\ UNCHANGED <<wire, gateway, script, nextId, waiting, job, difficulty, round, ground>>

Miner ==
    \/ Subscribe \/ Pump \/ Subscribed \/ Authorized \/ Answered
    \/ AwaitJob \/ NoJob \/ StartRound \/ Found \/ FoundNothing \/ ReadFails

Next == Miner \/ (phase \notin Ended /\ Gateway)

\* The miner runs, the search of a window is finite, a read of a silent
\* gateway times out and wait_for_job has a deadline of its own.
Spec == Init /\ [][Next]_vars /\ WF_vars(Miner) /\ WF_vars(NoJob)

(***************************************************************************)
(* Properties.                                                             *)
(***************************************************************************)
Lines ==
    UNION {{Reply(id, ok) : id \in Ids, ok \in BOOLEAN},
           {Request(id) : id \in Ids},
           {Notify(j) : j \in Jobs}, {SetDifficulty(d) : d \in Difficulties}}

(* The variables have their types.                                          *)
TypeOK ==
    /\ wire \in Seq(Lines) /\ inbox \in Seq(Ids)
    /\ issued \in 0..MaxJobs /\ set \in Difficulties
    /\ setFor \in [Jobs -> Difficulties]
    /\ script \in {"mine", "grind"}
    /\ phase \in Ended \cup Awaiting \cup {"connected", "wanting", "grinding"}
    /\ nextId \in 1..4 /\ waiting \in 0..3
    /\ job \in 0..MaxJobs /\ difficulty \in Difficulties
    /\ round \in 0..Rounds
    /\ ground \in Seq([job : Jobs, difficulty : Difficulties])

(* No work is done twice: the extranonce2 of a round is its number, and the *)
(* job of a round is newer than that of every round before, however many    *)
(* notifications piled up meanwhile (grind.py, "takes a fresh job").        *)
EachRoundOnANewerJob ==
    \A r \in 2..Len(ground) : ground[r].job > ground[r - 1].job

(* A job is ground at the difficulty that was in force when it was          *)
(* notified, although difficulties and jobs are read in a row and the       *)
(* socket holds newer ones.  Only the first may be ground at a later one:   *)
(* the handshake reads on after the job.                                    *)
AtItsDifficulty ==
    \A r \in 2..Len(ground) : ground[r].difficulty = setFor[ground[r].job]

(* Requests and replies stay paired although the gateway numbers requests   *)
(* of its own with the same ids: while the miner waits for a reply it is    *)
(* the gateway that owes it, or it is on the wire, and otherwise neither.   *)
OneReplyOwed ==
    LET replies == {i \in DOMAIN wire : wire[i].kind = "reply"} IN
    IF phase \in Awaiting
    THEN \/ inbox = <<waiting>> /\ replies = {}
         \/ /\ inbox = <<>>
            /\ \E i \in replies : replies = {i} /\ wire[i].id = waiting
    ELSE phase # "crashed" => inbox = <<>> /\ replies = {}

(* The miner ends: with a reply, without a job, or with an error.  The only *)
(* way to keep it is to leave a request unanswered and send other lines for *)
(* ever, for wait_for has no deadline (stratum_miner.py:49-53).             *)
MinerEnds ==
    \/ <>(phase \in Ended)
    \/ <>[](phase \in Awaiting) /\ []<><<GatewaySets \/ GatewayAsks>>_vars

\* That it ends whatever the gateway sends is more than the code promises.
EndsAnyway == <>(phase \in Ended)
=============================================================================
