------------------------------ MODULE ForkCrawl ------------------------------
(***************************************************************************)
(* find_fork_peers.py: which of the addresses one hears about follow the   *)
(* BLAKE2b chain.  Three scripts share the probes:                         *)
(*                                                                         *)
(*   "crawl"  --from-fork: breadth first from known fork peers, in rounds, *)
(*            following only the gossip of peers confirmed on the fork;    *)
(*   "scan"   one round of gossip from the DNS seeds, then a sample of all *)
(*            that was heard;                                              *)
(*   "list"   the given addresses.                                         *)
(*                                                                         *)
(* A probe reads messages in whatever order the peer sends them, until it  *)
(* has its answer, its deadline passes or the connection fails.            *)
(***************************************************************************)
EXTENDS Naturals, FiniteSets

CONSTANTS
    Addrs,      \* addresses of the network
    Seeds,      \* those one starts from
    Knows,      \* Knows[a]: the addresses a gossips
    Rounds,     \* --rounds
    Workers,    \* --workers
    SeedLimit,  \* seeds asked for gossip by a scan, 40
    Limit,      \* --limit
    OldFiles    \* what --out may hold before the script runs

VARIABLES
    chain,      \* chain[a]: "fork", "other", or "behind" the fork height
    script,     \* "crawl", "scan" or "list"; "gone" after it has ended
    stage,      \* "round", "gossip" or "survey" of the probes under way; "finished"
    round,      \* rounds of the crawl begun
    frontier,   \* the addresses this stage probes
    probed,     \* those the crawl has probed
    gossip,     \* what was heard in this stage
    confirmed,  \* the peers found on the fork
    file,       \* --out, as it is on disk
    saved,      \* history: was the file written by this run?
    phase,      \* phase[a]: of the probe of a
    greeted,    \* greeted[a]: its version message was read
    verdict,    \* verdict[a]: "none" until headers are read, then "fork" or "not"
    shown,      \* history: did the last headers read from a begin with the fork's?
    heard       \* heard[a]: the addresses read from a

probes == <<phase, greeted, verdict, shown, heard>>
crawl == <<script, stage, round, frontier, probed, gossip, confirmed, file, saved>>
vars == <<chain, crawl, probes>>

Running == {"greeting", "asking", "lingering"}

Fresh ==
    /\ phase' = [a \in Addrs |-> "idle"]
    /\ greeted' = [a \in Addrs |-> FALSE]
    /\ verdict' = [a \in Addrs |-> "none"]
    /\ shown' = [a \in Addrs |-> FALSE]
    /\ heard' = [a \in Addrs |-> {}]

\* n elements of a set, or all when there are fewer.
Sample(set, n) ==
    {s \in SUBSET set : Cardinality(s) <= n /\ (Cardinality(s) < n => s = set)}

\* On disk may be the file of an earlier run, whomever that took for fork peers:
\* the fork has been re-cut more than once.
Init ==
    /\ chain \in [Addrs -> {"fork", "other", "behind"}]
    /\ script \in {"crawl", "scan", "list"}
    /\ stage = CASE script = "crawl" -> "between"
                 [] script = "scan" -> "gossip"
                 [] script = "list" -> "survey"
    /\ round = 0
    /\ frontier \in CASE script = "crawl" -> {Seeds}
                      [] script = "scan" -> Sample(Seeds, SeedLimit)
                      [] script = "list" -> Sample(Seeds, Limit)
    /\ gossip = IF script = "scan" THEN Seeds ELSE {}
    /\ probed = {} /\ confirmed = {}
    /\ file \in OldFiles /\ saved = FALSE
    /\ phase = [a \in Addrs |-> "idle"]
    /\ greeted = [a \in Addrs |-> FALSE]
    /\ verdict = [a \in Addrs |-> "none"]
    /\ shown = [a \in Addrs |-> FALSE]
    /\ heard = [a \in Addrs |-> {}]

\* A peer that was behind reaches the fork height, on one chain or the other.
CatchUp(a) ==
    /\ chain[a] = "behind"
    /\ \E to \in {"fork", "other"} : chain' = [chain EXCEPT ![a] = to]
    /\ UNCHANGED <<crawl, probes>>

(***************************************************************************)
(* A probe.                                                                *)
(***************************************************************************)
WantAddrs == stage \in {"round", "gossip"}

\* A worker of the pool takes an address up, and connects or does not.
Dial(a) ==
    /\ stage \in {"round", "gossip", "survey"}
    /\ a \in frontier /\ phase[a] = "idle"
    /\ Cardinality({b \in Addrs : phase[b] \in Running}) < Workers
    /\ \E p \in {"greeting", "ended"} : phase' = [phase EXCEPT ![a] = p]
    /\ UNCHANGED <<chain, crawl, greeted, verdict, shown, heard>>

GotVersion(a) ==
    /\ phase[a] = "greeting" /\ ~greeted[a]
    /\ greeted' = [greeted EXCEPT ![a] = TRUE]
    /\ UNCHANGED <<chain, crawl, phase, verdict, shown, heard>>

\* A verack that comes before the version is not counted: the probe waits for
\* another.
GotVerack(a) ==
    /\ phase[a] = "greeting" /\ greeted[a]
    /\ phase' = [phase EXCEPT ![a] = "asking"]
    /\ UNCHANGED <<chain, crawl, greeted, verdict, shown, heard>>

GotAddr(a) ==
    /\ phase[a] \in {"asking", "lingering"}
    /\ \E s \in SUBSET Knows[a] : heard' = [heard EXCEPT ![a] = @ \cup s]
    /\ UNCHANGED <<chain, crawl, phase, greeted, verdict, shown>>

\* What the first header of a headers message may be: asked for what follows the
\* last common block, a peer of the fork shows the fork's first header, any other
\* one of the old format, and any peer may send a message without headers.
Flavours(a) == {"empty"} \cup (IF chain[a] = "fork" THEN {"v2"} ELSE {"v1"})

(* Mutant: anything but the other chain's header is taken for the fork's.   *)
GotAnyHeaders(a) ==
    /\ phase[a] \in {"asking", "lingering"}
    /\ \E flavour \in Flavours(a) :
          /\ verdict' = [verdict EXCEPT ![a] = IF flavour = "v1" THEN "not" ELSE "fork"]
          /\ shown' = [shown EXCEPT ![a] = (flavour = "v2")]
    /\ phase' = [phase EXCEPT ![a] = IF WantAddrs THEN "lingering" ELSE "ended"]
    /\ UNCHANGED <<chain, crawl, greeted, heard>>

\* Each headers message gives the verdict anew, a later one over an earlier; one
\* without headers says no.  A probe that wants gossip goes on reading for a while.
GotHeaders(a) ==
    /\ phase[a] \in {"asking", "lingering"}
    /\ \E flavour \in Flavours(a) :
          /\ verdict' = [verdict EXCEPT ![a] = IF flavour = "v2" THEN "fork" ELSE "not"]
          /\ shown' = [shown EXCEPT ![a] = (flavour = "v2")]
    /\ phase' = [phase EXCEPT ![a] = IF WantAddrs THEN "lingering" ELSE "ended"]
    /\ UNCHANGED <<chain, crawl, greeted, heard>>

(* Mutant: an error forgets the verdict.                                    *)
GiveUpAll(a) ==
    /\ phase[a] \in Running
    /\ phase' = [phase EXCEPT ![a] = "ended"]
    /\ verdict' = [verdict EXCEPT ![a] = "none"]
    /\ UNCHANGED <<chain, crawl, greeted, shown, heard>>

(* Mutant: the handshake has no deadline.                                   *)
GiveUpAsking(a) ==
    /\ phase[a] \in {"asking", "lingering"}
    /\ phase' = [phase EXCEPT ![a] = "ended"]
    /\ UNCHANGED <<chain, crawl, greeted, verdict, shown, heard>>

\* The deadline passes or the connection fails, with or without a verdict:
\* what was read before stays.
GiveUp(a) ==
    /\ phase[a] \in Running
    /\ phase' = [phase EXCEPT ![a] = "ended"]
    /\ UNCHANGED <<chain, crawl, greeted, verdict, shown, heard>>

Probe(a) ==
    \/ Dial(a) \/ GotVersion(a) \/ GotVerack(a)
    \/ GotAddr(a) \/ GotHeaders(a) \/ GiveUp(a)

(***************************************************************************)
(* The main thread.                                                        *)
(***************************************************************************)
(* Mutant: every peer's gossip is followed.                                 *)
CollectAll(a) ==
    /\ phase[a] = "ended"
    /\ phase' = [phase EXCEPT ![a] = "collected"]
    /\ confirmed' = IF verdict[a] = "fork" THEN confirmed \cup {a} ELSE confirmed
    /\ gossip' = gossip \cup heard[a]
    /\ UNCHANGED <<chain, script, stage, round, frontier, probed, file, saved,
                   greeted, verdict, shown, heard>>

(* Mutant: the gossip of one peer takes the place of that of the others.    *)
CollectLast(a) ==
    /\ phase[a] = "ended"
    /\ phase' = [phase EXCEPT ![a] = "collected"]
    /\ confirmed' = IF verdict[a] = "fork" /\ stage # "gossip"
                    THEN confirmed \cup {a} ELSE confirmed
    /\ gossip' = IF verdict[a] = "fork" THEN heard[a] ELSE gossip
    /\ UNCHANGED <<chain, script, stage, round, frontier, probed, file, saved,
                   greeted, verdict, shown, heard>>

\* The result of a probe.
Collect(a) ==
    /\ phase[a] = "ended"
    /\ phase' = [phase EXCEPT ![a] = "collected"]
    /\ confirmed' = IF verdict[a] = "fork" /\ stage # "gossip"
                    THEN confirmed \cup {a} ELSE confirmed
    /\ gossip' = IF WantAddrs /\ (stage = "gossip" \/ verdict[a] = "fork")
                 THEN gossip \cup heard[a] ELSE gossip
    /\ UNCHANGED <<chain, script, stage, round, frontier, probed, file, saved,
                   greeted, verdict, shown, heard>>

AllCollected == \A a \in frontier : phase[a] = "collected"

\* crawl_from_fork: a round probes what was gossiped and not probed before.
StartRound ==
    /\ stage = "between" /\ round < Rounds /\ frontier \ probed # {}
    /\ round' = round + 1
    /\ frontier' = frontier \ probed
    /\ probed' = probed \cup frontier
    /\ gossip' = {} /\ stage' = "round"
    /\ UNCHANGED <<chain, script, confirmed, file, saved, probes>>

EndRound ==
    /\ stage = "round" /\ AllCollected
    /\ frontier' = gossip /\ stage' = "between"
    /\ UNCHANGED <<chain, script, round, probed, gossip, confirmed, file, saved, probes>>

\* main: the scan goes on to a sample of what was heard.
EndGossip ==
    /\ stage = "gossip" /\ AllCollected
    /\ frontier' \in Sample(gossip, Limit)
    /\ stage' = "survey"
    /\ Fresh
    /\ UNCHANGED <<chain, script, round, probed, gossip, confirmed, file, saved>>

\* The file is written when there is something to write.
Report ==
    /\ stage' = "finished"
    /\ IF confirmed # {} THEN file' = confirmed /\ saved' = TRUE
                         ELSE UNCHANGED <<file, saved>>
    /\ UNCHANGED <<chain, script, round, frontier, probed, gossip, confirmed, probes>>

EndCrawl ==
    /\ stage = "between" /\ (round = Rounds \/ frontier \subseteq probed)
    /\ Report

EndSurvey == stage = "survey" /\ AllCollected /\ Report

Main ==
    \/ StartRound \/ EndRound \/ EndCrawl
    \/ EndGossip \/ EndSurvey
    \/ \E a \in Addrs : Collect(a)

Next ==
    \/ Main
    \/ \E a \in Addrs : Probe(a) \/ (CatchUp(a) /\ stage # "finished")

\* The workers run, and a probe does not outlast its deadline.
Fairness ==
    /\ WF_vars(Main)
    /\ \A a \in Addrs : WF_vars(Dial(a)) /\ WF_vars(GiveUp(a))

Spec == Init /\ [][Next]_vars /\ Fairness

(***************************************************************************)
(* Properties.                                                             *)
(***************************************************************************)
(* The variables have their types, and no more probes run than the pool has *)
(* workers.                                                                 *)
TypeOK ==
    /\ chain \in [Addrs -> {"fork", "other", "behind"}]
    /\ script \in {"crawl", "scan", "list", "gone"}
    /\ stage \in {"between", "round", "gossip", "survey", "finished"}
    /\ round \in 0..Rounds
    /\ {frontier, probed, gossip, confirmed, file} \subseteq SUBSET Addrs
    /\ phase \in [Addrs -> Running \cup {"idle", "ended", "collected"}]
    /\ greeted \in [Addrs -> BOOLEAN]
    /\ verdict \in [Addrs -> {"none", "fork", "not"}]
    /\ shown \in [Addrs -> BOOLEAN] /\ saved \in BOOLEAN
    /\ heard \in [Addrs -> SUBSET Addrs]
    /\ Cardinality({a \in Addrs : phase[a] \in Running}) <= Workers

(* Whom the script calls a fork peer is one, also in the file it writes:    *)
(* what else a peer sends, and how its probe ends, changes nothing.         *)
OnFork ==
    \A a \in Addrs :
        a \in confirmed \/ (saved /\ a \in file) => chain[a] = "fork"

(* The crawl leaves the fork peers' neighbourhood for nobody: it probes     *)
(* only what it was given and what confirmed peers gossiped.                *)
OnlyThroughForkPeers ==
    script = "crawl" =>
        probed \subseteq Seeds \cup UNION {Knows[a] : a \in confirmed}

(* A peer whose last headers began with a header of the fork is among the   *)
(* confirmed once its probe is collected, though the probe then ran into    *)
(* its deadline or an error; and no address a confirmed peer gossiped is    *)
(* lost between the rounds.                                                 *)
NothingForgotten ==
    /\ \A a \in Addrs :
          phase[a] = "collected" /\ shown[a] /\ stage # "gossip" => a \in confirmed
    /\ script = "crawl" =>
          \A a \in confirmed : heard[a] \subseteq probed \cup frontier \cup gossip
=============================================================================
