------------------------- MODULE ForkHeadersProofs ---------------------------
(***************************************************************************)
(* Whom the crawl finds, and what is made of the headers a peer sends: for *)
(* any network and any gossip, any number of workers and rounds, and       *)
(* headers of any two lengths.                                             *)
(***************************************************************************)
EXTENDS ForkHeaders, FiniteSetTheorems, SequenceTheorems, TLAPS

USE CrawlAssumption, FetchAssumption

(***************************************************************************)
(* The crawl's inductive invariant.                                        *)
(***************************************************************************)
CrawlTypes ==
    /\ chain \in [Addrs -> {"fork", "other", "behind"}]
    /\ script \in {"crawl", "scan", "list", "gone"}
    /\ stage \in {"between", "round", "gossip", "survey", "finished"}
    /\ round \in 0..Rounds
    /\ frontier \in SUBSET Addrs /\ probed \in SUBSET Addrs /\ gossip \in SUBSET Addrs
    /\ confirmed \in SUBSET Addrs /\ file \in SUBSET Addrs
    /\ phase \in [Addrs -> Crawl!Running \cup {"idle", "ended", "collected"}]
    /\ greeted \in [Addrs -> BOOLEAN]
    /\ verdict \in [Addrs -> {"none", "fork", "not"}]
    /\ shown \in [Addrs -> BOOLEAN] /\ saved \in BOOLEAN
    /\ heard \in [Addrs -> SUBSET Addrs]

\* What a peer said holds of it, and whom one calls a fork peer is one.
Truthful ==
    /\ \A a \in Addrs : /\ verdict[a] = "fork" => chain[a] = "fork"
                        /\ shown[a] => verdict[a] = "fork"
                        /\ heard[a] \subseteq Knows[a]
    /\ \A a \in Addrs : a \in confirmed \/ (saved /\ a \in file) => chain[a] = "fork"

\* The first half of NothingForgotten, from what is read to what is kept.
ForkPeersKept ==
    \A a \in Addrs :
        phase[a] = "collected" /\ verdict[a] = "fork" /\ stage # "gossip" => a \in confirmed

\* How far the crawl goes, and where it keeps what it has heard.
Reached == probed \cup frontier \cup gossip
CrawlPath ==
    script = "crawl" =>
        /\ stage \in {"between", "round", "finished"}
        /\ Reached \subseteq Seeds \cup UNION {Knows[a] : a \in confirmed}
        /\ stage = "between" => gossip \subseteq frontier
        /\ stage = "round" => frontier \subseteq probed
        /\ \A a \in confirmed : phase[a] = "collected" /\ heard[a] \subseteq Reached
        /\ \A a \in Addrs : \/ phase[a] \in {"idle", "collected"}
                            \/ stage = "round" /\ a \in frontier

CrawlInv == CrawlTypes /\ Truthful /\ ForkPeersKept /\ CrawlPath

LEMMA CrawlInit == Crawl!Init => CrawlInv
<1> SUFFICES ASSUME Crawl!Init PROVE CrawlInv
  OBVIOUS
<1>1. /\ chain \in [Addrs -> {"fork", "other", "behind"}]
      /\ script \in {"crawl", "scan", "list"} /\ round = 0
      /\ stage = CASE script = "crawl" -> "between"
                   [] script = "scan" -> "gossip"
                   [] script = "list" -> "survey"
      /\ gossip = IF script = "scan" THEN Seeds ELSE {}
      /\ probed = {} /\ confirmed = {}
      /\ file \in OldFiles /\ saved = FALSE
      /\ phase = [a \in Addrs |-> "idle"] /\ greeted = [a \in Addrs |-> FALSE]
      /\ verdict = [a \in Addrs |-> "none"] /\ heard = [a \in Addrs |-> {}]
      /\ shown = [a \in Addrs |-> FALSE]
  BY Zenon DEF Crawl!Init
<1>2. frontier \subseteq Seeds
  BY <1>1 DEF Crawl!Init, Crawl!Sample
<1>3. stage \in {"between", "gossip", "survey"} /\ (script = "crawl" => stage = "between")
  BY <1>1
<1>4. CrawlTypes
  <2>1. file \in SUBSET Addrs /\ frontier \in SUBSET Addrs /\ gossip \in SUBSET Addrs
    BY <1>1, <1>2
  <2>2. /\ script \in {"crawl", "scan", "list", "gone"}
        /\ stage \in {"between", "round", "gossip", "survey", "finished"}
        /\ round \in 0..Rounds /\ saved \in BOOLEAN
    <3>1. script \in {"crawl", "scan", "list", "gone"} /\ saved \in BOOLEAN
      BY <1>1
    <3>2. stage \in {"between", "round", "gossip", "survey", "finished"}
      BY <1>3
    <3>3. round \in 0..Rounds
      BY <1>1
    <3>4. QED
      BY <3>1, <3>2, <3>3
  <2>3. /\ phase \in [Addrs -> Crawl!Running \cup {"idle", "ended", "collected"}]
        /\ greeted \in [Addrs -> BOOLEAN] /\ shown \in [Addrs -> BOOLEAN]
        /\ verdict \in [Addrs -> {"none", "fork", "not"}]
        /\ heard \in [Addrs -> SUBSET Addrs]
    BY <1>1
  <2>4. QED
    BY <1>1, <2>1, <2>2, <2>3 DEF CrawlTypes
<1>5. Truthful /\ ForkPeersKept
  BY <1>1 DEF Truthful, ForkPeersKept
<1>6. CrawlPath
  BY <1>1, <1>2, <1>3 DEF CrawlPath, Reached
<1>7. QED
  BY <1>4, <1>5, <1>6 DEF CrawlInv

(***************************************************************************)
(* The steps of a probe.                                                   *)
(***************************************************************************)
\* A probe changes nothing but its own record, and leaves a collected one be.
LEMMA ProbeFrame ==
    ASSUME CrawlInv, NEW a \in Addrs, Crawl!Probe(a)
    PROVE  /\ UNCHANGED <<chain, script, stage, round, frontier, probed, gossip,
                          confirmed, file, saved>>
           /\ \E p \in Crawl!Running \cup {"ended"} : phase' = [phase EXCEPT ![a] = p]
           /\ phase[a] # "collected"
           /\ phase[a] = "idle" =>
                  a \in frontier /\ stage \in {"round", "gossip", "survey"}
           /\ greeted' \in [Addrs -> BOOLEAN]
           /\ \/ verdict' = verdict /\ shown' = shown
              \/ \E v \in {"fork", "not"} : /\ verdict' = [verdict EXCEPT ![a] = v]
                                            /\ shown' = [shown EXCEPT ![a] = (v = "fork")]
                                            /\ v = "fork" => chain[a] = "fork"
           /\ \/ heard' = heard
              \/ \E s \in SUBSET Knows[a] : heard' = [heard EXCEPT ![a] = @ \cup s]
<1> USE DEF CrawlInv, CrawlTypes, Crawl!Running, Crawl!crawl
<1>1. CASE Crawl!Dial(a)
  BY <1>1 DEF Crawl!Dial
<1>2. CASE Crawl!GotVersion(a)
  BY <1>2 DEF Crawl!GotVersion
<1>3. CASE Crawl!GotVerack(a)
  BY <1>3 DEF Crawl!GotVerack
<1>4. CASE Crawl!GotAddr(a)
  <2>1. /\ phase[a] \in {"asking", "lingering"} /\ phase' = phase
        /\ UNCHANGED <<chain, script, stage, round, frontier, probed, gossip,
                       confirmed, file, saved, greeted, verdict, shown>>
    BY <1>4 DEF Crawl!GotAddr
  <2>2. \E s \in SUBSET Knows[a] : heard' = [heard EXCEPT ![a] = @ \cup s]
    BY <1>4 DEF Crawl!GotAddr
  <2>3. phase' = [phase EXCEPT ![a] = phase[a]]
    BY <2>1
  <2>4. QED
    BY <2>1, <2>2, <2>3
<1>5. CASE Crawl!GotHeaders(a)
  <2>1. PICK flavour \in Crawl!Flavours(a) :
           /\ verdict' = [verdict EXCEPT ![a] = IF flavour = "v2" THEN "fork" ELSE "not"]
           /\ shown' = [shown EXCEPT ![a] = (flavour = "v2")]
    BY <1>5 DEF Crawl!GotHeaders
  <2>2. /\ phase[a] \in {"asking", "lingering"}
        /\ \E p \in Crawl!Running \cup {"ended"} : phase' = [phase EXCEPT ![a] = p]
        /\ UNCHANGED <<chain, script, stage, round, frontier, probed, gossip,
                       confirmed, file, saved, greeted, heard>>
    BY <1>5 DEF Crawl!GotHeaders
  <2>3. CASE flavour = "v2"
    <3>1. chain[a] = "fork"
      BY <2>1, <2>3 DEF Crawl!Flavours
    <3>2. /\ verdict' = [verdict EXCEPT ![a] = "fork"]
          /\ shown' = [shown EXCEPT ![a] = ("fork" = "fork")]
      BY <2>1, <2>3
    <3>3. QED
      BY <2>2, <3>1, <3>2
  <2>4. CASE flavour # "v2"
    <3>1. /\ verdict' = [verdict EXCEPT ![a] = "not"]
          /\ shown' = [shown EXCEPT ![a] = ("not" = "fork")]
      BY <2>1, <2>4
    <3>2. QED
      BY <2>2, <3>1
  <2>5. QED
    BY <2>3, <2>4
<1>6. CASE Crawl!GiveUp(a)
  BY <1>6 DEF Crawl!GiveUp
<1>7. QED
  BY <1>1, <1>2, <1>3, <1>4, <1>5, <1>6 DEF Crawl!Probe

LEMMA ProbeKeeps ==
    ASSUME CrawlInv, NEW a \in Addrs, Crawl!Probe(a)
    PROVE  CrawlInv'
<1>1. /\ UNCHANGED <<chain, script, stage, round, frontier, probed, gossip,
                     confirmed, file, saved>>
      /\ phase[a] # "collected" /\ greeted' \in [Addrs -> BOOLEAN]
      /\ phase[a] = "idle" =>
             a \in frontier /\ stage \in {"round", "gossip", "survey"}
  BY ProbeFrame
<1>2. PICK p \in Crawl!Running \cup {"ended"} : phase' = [phase EXCEPT ![a] = p]
  BY ProbeFrame
<1>3. /\ verdict' \in [Addrs -> {"none", "fork", "not"}]
      /\ \A b \in Addrs : verdict'[b] = "fork" => verdict[b] = "fork" \/ chain[b] = "fork"
      /\ \A b \in Addrs : b # a => verdict'[b] = verdict[b]
      /\ shown' \in [Addrs -> BOOLEAN]
      /\ \A b \in Addrs : shown'[b] => verdict'[b] = "fork"
  <2>1. /\ verdict \in [Addrs -> {"none", "fork", "not"}] /\ shown \in [Addrs -> BOOLEAN]
        /\ \A b \in Addrs : shown[b] => verdict[b] = "fork"
    BY DEF CrawlInv, CrawlTypes, Truthful
  <2>2. CASE verdict' = verdict /\ shown' = shown
    BY <2>1, <2>2
  <2>3. CASE /\ verdict' = [verdict EXCEPT ![a] = "fork"] /\ chain[a] = "fork"
             /\ shown' = [shown EXCEPT ![a] = TRUE]
    BY <2>1, <2>3
  <2>4. CASE /\ verdict' = [verdict EXCEPT ![a] = "not"]
             /\ shown' = [shown EXCEPT ![a] = FALSE]
    BY <2>1, <2>4
  <2>5. QED
    <3>1. ("fork" = "fork") = TRUE /\ ("not" = "fork") = FALSE
      OBVIOUS
    <3>2. CASE \E v \in {"fork", "not"} : /\ verdict' = [verdict EXCEPT ![a] = v]
                                          /\ shown' = [shown EXCEPT ![a] = (v = "fork")]
                                          /\ v = "fork" => chain[a] = "fork"
      <4>1. PICK v \in {"fork", "not"} : /\ verdict' = [verdict EXCEPT ![a] = v]
                                         /\ shown' = [shown EXCEPT ![a] = (v = "fork")]
                                         /\ v = "fork" => chain[a] = "fork"
        BY <3>2
      <4>2. CASE v = "fork"
        BY <2>3, <3>1, <4>1, <4>2
      <4>3. CASE v = "not"
        BY <2>4, <3>1, <4>1, <4>3
      <4>4. QED
        BY <4>1, <4>2, <4>3
    <3>3. QED
      BY <2>2, <3>2, ProbeFrame
<1>4. /\ heard' \in [Addrs -> SUBSET Addrs]
      /\ \A b \in Addrs : heard'[b] \subseteq heard[b] \cup Knows[b]
      /\ \A b \in Addrs : b # a => heard'[b] = heard[b]
  BY ProbeFrame DEF CrawlInv, CrawlTypes
<1>5. /\ phase' \in [Addrs -> Crawl!Running \cup {"idle", "ended", "collected"}]
      /\ phase'[a] # "collected"
      /\ \A b \in Addrs : b # a => phase'[b] = phase[b]
  BY <1>2 DEF CrawlInv, CrawlTypes, Crawl!Running
<1>6. CrawlTypes'
  BY <1>1, <1>3, <1>4, <1>5 DEF CrawlInv, CrawlTypes
<1>7. Truthful'
  BY <1>1, <1>3, <1>4 DEF CrawlInv, Truthful
<1>8. ForkPeersKept'
  BY <1>1, <1>3, <1>5 DEF CrawlInv, ForkPeersKept
<1>9. CrawlPath'
  <2> SUFFICES ASSUME script = "crawl" PROVE CrawlPath'
    BY <1>1 DEF CrawlPath
  <2>1. Reached' = Reached
    BY <1>1 DEF Reached
  <2>2. \A b \in confirmed : b \in Addrs /\ b # a
    BY <1>1 DEF CrawlInv, CrawlTypes, CrawlPath
  <2>3. stage = "round" /\ a \in frontier
    BY <1>1 DEF CrawlInv, CrawlTypes, CrawlPath
  <2>4. QED
    BY <1>1, <1>4, <1>5, <2>1, <2>2, <2>3 DEF CrawlInv, CrawlPath
<1>10. QED
  BY <1>6, <1>7, <1>8, <1>9 DEF CrawlInv

LEMMA CatchUpKeeps ==
    ASSUME CrawlInv, NEW a \in Addrs, Crawl!CatchUp(a)
    PROVE  CrawlInv'
<1>1. /\ chain[a] = "behind" /\ UNCHANGED <<Crawl!crawl, Crawl!probes>>
      /\ \E to \in {"fork", "other"} : chain' = [chain EXCEPT ![a] = to]
  BY DEF Crawl!CatchUp
<1>2. /\ chain' \in [Addrs -> {"fork", "other", "behind"}]
      /\ \A b \in Addrs : chain[b] = "fork" => chain'[b] = "fork"
  BY <1>1 DEF CrawlInv, CrawlTypes
<1>3. CrawlTypes' /\ Truthful'
  BY <1>1, <1>2 DEF CrawlInv, CrawlTypes, Truthful, Crawl!crawl, Crawl!probes
<1>4. ForkPeersKept' /\ CrawlPath'
  BY <1>1 DEF CrawlInv, ForkPeersKept, CrawlPath, Reached, Crawl!crawl, Crawl!probes
<1>5. QED
  BY <1>3, <1>4 DEF CrawlInv

(***************************************************************************)
(* The steps of the main thread.                                           *)
(***************************************************************************)
LEMMA CollectKeeps ==
    ASSUME CrawlInv, NEW a \in Addrs, Crawl!Collect(a)
    PROVE  CrawlInv'
<1>1. /\ phase[a] = "ended" /\ phase' = [phase EXCEPT ![a] = "collected"]
      /\ confirmed' = IF verdict[a] = "fork" /\ stage # "gossip"
                      THEN confirmed \cup {a} ELSE confirmed
      /\ gossip' = IF Crawl!WantAddrs /\ (stage = "gossip" \/ verdict[a] = "fork")
                   THEN gossip \cup heard[a] ELSE gossip
      /\ UNCHANGED <<chain, script, stage, round, frontier, probed, file, saved,
                     greeted, verdict, shown, heard>>
  BY DEF Crawl!Collect
<1>2. /\ phase \in [Addrs -> Crawl!Running \cup {"idle", "ended", "collected"}]
      /\ heard[a] \in SUBSET Addrs /\ heard[a] \subseteq Knows[a]
      /\ verdict[a] = "fork" => chain[a] = "fork"
  BY DEF CrawlInv, CrawlTypes, Truthful
<1>3. /\ phase' \in [Addrs -> Crawl!Running \cup {"idle", "ended", "collected"}]
      /\ phase'[a] = "collected" /\ \A b \in Addrs : b # a => phase'[b] = phase[b]
  BY <1>1, <1>2
<1>4. CrawlTypes'
  BY <1>1, <1>2, <1>3 DEF CrawlInv, CrawlTypes
<1>5. Truthful'
  BY <1>1, <1>2 DEF CrawlInv, Truthful
<1>6. ForkPeersKept'
  BY <1>1, <1>3 DEF CrawlInv, ForkPeersKept
<1>7. CrawlPath'
  <2> SUFFICES ASSUME script = "crawl" PROVE CrawlPath'
    BY <1>1 DEF CrawlPath
  <2>1. CrawlPath /\ stage = "round" /\ a \in frontier
    BY <1>1 DEF CrawlInv, CrawlPath
  <2>2. CASE verdict[a] = "fork"
    <3>1. confirmed' = confirmed \cup {a} /\ gossip' = gossip \cup heard[a]
      BY <1>1, <2>1, <2>2 DEF Crawl!WantAddrs
    <3>2. Reached' = Reached \cup heard[a]
      BY <1>1, <3>1 DEF Reached
    <3>3. QED
      BY <1>1, <1>2, <1>3, <2>1, <2>2, <3>1, <3>2 DEF CrawlInv, CrawlTypes, CrawlPath
  <2>3. CASE verdict[a] # "fork"
    <3>1. UNCHANGED <<gossip, Reached, confirmed>>
      BY <1>1, <2>1, <2>3 DEF Crawl!WantAddrs, Reached
    <3>2. QED
      BY <1>1, <1>3, <2>1, <3>1 DEF CrawlInv, CrawlTypes, CrawlPath
  <2>4. QED
    BY <2>2, <2>3
<1>8. QED
  BY <1>4, <1>5, <1>6, <1>7 DEF CrawlInv

\* A round is over: what was heard is the next frontier, or what is left of it.
LEMMA RoundKeeps ==
    ASSUME CrawlInv, Crawl!StartRound \/ Crawl!EndRound
    PROVE  CrawlInv'
<1>1. CASE Crawl!StartRound
  <2>1. /\ stage = "between" /\ round < Rounds /\ round' = round + 1
        /\ frontier' = frontier \ probed /\ probed' = probed \cup frontier
        /\ gossip' = {} /\ stage' = "round"
        /\ UNCHANGED <<chain, script, confirmed, file, saved,
                       phase, greeted, verdict, shown, heard>>
    BY <1>1 DEF Crawl!StartRound, Crawl!probes
  <2>2. CrawlTypes'
    BY <2>1 DEF CrawlInv, CrawlTypes
  <2>3. Truthful' /\ ForkPeersKept'
    BY <2>1 DEF CrawlInv, Truthful, ForkPeersKept
  <2>4. CrawlPath'
    <3> SUFFICES ASSUME script = "crawl" PROVE CrawlPath'
      BY <2>1 DEF CrawlPath
    <3>1. Reached' = Reached
      BY <2>1 DEF CrawlInv, CrawlPath, Reached
    <3>2. QED
      BY <2>1, <3>1 DEF CrawlInv, CrawlPath
  <2>5. QED
    BY <2>2, <2>3, <2>4 DEF CrawlInv
<1>2. CASE Crawl!EndRound
  <2>1. /\ stage = "round" /\ \A a \in frontier : phase[a] = "collected"
        /\ frontier' = gossip /\ stage' = "between"
        /\ UNCHANGED <<chain, script, round, probed, gossip, confirmed, file, saved,
                       phase, greeted, verdict, shown, heard>>
    BY <1>2 DEF Crawl!EndRound, Crawl!AllCollected, Crawl!probes
  <2>2. CrawlTypes'
    BY <2>1 DEF CrawlInv, CrawlTypes
  <2>3. Truthful' /\ ForkPeersKept'
    BY <2>1 DEF CrawlInv, Truthful, ForkPeersKept
  <2>4. CrawlPath'
    <3> SUFFICES ASSUME script = "crawl" PROVE CrawlPath'
      BY <2>1 DEF CrawlPath
    <3>1. Reached' = Reached
      BY <2>1 DEF CrawlInv, CrawlPath, Reached
    <3>2. QED
      BY <2>1, <3>1 DEF CrawlInv, CrawlPath
  <2>5. QED
    BY <2>2, <2>3, <2>4 DEF CrawlInv
<1>3. QED
  BY <1>1, <1>2

LEMMA EndGossipKeeps ==
    ASSUME CrawlInv, Crawl!EndGossip
    PROVE  CrawlInv'
<1>1. /\ stage = "gossip" /\ stage' = "survey"
      /\ UNCHANGED <<chain, script, round, probed, gossip, confirmed, file, saved>>
      /\ shown' = [a \in Addrs |-> FALSE]
      /\ phase' = [a \in Addrs |-> "idle"] /\ greeted' = [a \in Addrs |-> FALSE]
      /\ verdict' = [a \in Addrs |-> "none"] /\ heard' = [a \in Addrs |-> {}]
  BY DEF Crawl!EndGossip, Crawl!Fresh
<1>2. frontier' \subseteq gossip
  BY DEF Crawl!EndGossip, Crawl!Sample
<1>3. CrawlTypes'
  BY <1>1, <1>2 DEF CrawlInv, CrawlTypes
<1>4. Truthful' /\ ForkPeersKept'
  BY <1>1 DEF CrawlInv, Truthful, ForkPeersKept
<1>5. CrawlPath'
  BY <1>1 DEF CrawlInv, CrawlPath
<1>6. QED
  BY <1>3, <1>4, <1>5 DEF CrawlInv

LEMMA ReportKeeps ==
    ASSUME CrawlInv, Crawl!EndCrawl \/ Crawl!EndSurvey
    PROVE  CrawlInv'
<1>1. /\ \/ stage = "survey"
         \/ stage = "between"
      /\ stage' = "finished"
      /\ \/ file' = confirmed /\ saved' = TRUE
         \/ UNCHANGED <<file, saved>>
      /\ UNCHANGED <<chain, script, round, frontier, probed, gossip, confirmed,
                     phase, greeted, verdict, shown, heard>>
  BY DEF Crawl!EndCrawl, Crawl!EndSurvey, Crawl!Report, Crawl!probes
<1>2. CrawlTypes'
  BY <1>1 DEF CrawlInv, CrawlTypes
<1>3. Truthful' /\ ForkPeersKept'
  BY <1>1 DEF CrawlInv, Truthful, ForkPeersKept
<1>4. CrawlPath'
  <2>1. Reached' = Reached
    BY <1>1 DEF Reached
  <2>2. QED
    BY <1>1, <2>1 DEF CrawlInv, CrawlPath
<1>5. QED
  BY <1>2, <1>3, <1>4 DEF CrawlInv

LEMMA CrawlingKeeps ==
    ASSUME CrawlInv, Crawl!Next
    PROVE  CrawlInv'
<1>1. CASE \E a \in Addrs : Crawl!Probe(a)
  BY <1>1, ProbeKeeps
<1>2. CASE \E a \in Addrs : Crawl!CatchUp(a)
  BY <1>2, CatchUpKeeps
<1>3. CASE Crawl!Main
  BY <1>3, RoundKeeps, EndGossipKeeps, ReportKeeps, CollectKeeps DEF Crawl!Main
<1>4. QED
  BY <1>1, <1>2, <1>3 DEF Crawl!Next

\* The process is gone and leaves its file.
LEMMA ExitKeeps ==
    ASSUME CrawlInv, Exit
    PROVE  CrawlInv'
<1>1. /\ script' = "gone" /\ round' = 0 /\ UNCHANGED <<chain, stage, file, saved>>
      /\ shown' = [a \in Addrs |-> FALSE]
      /\ frontier' = {} /\ probed' = {} /\ gossip' = {} /\ confirmed' = {}
      /\ phase' = [a \in Addrs |-> "idle"] /\ greeted' = [a \in Addrs |-> FALSE]
      /\ verdict' = [a \in Addrs |-> "none"] /\ heard' = [a \in Addrs |-> {}]
  BY DEF Exit, Crawl!Fresh
<1>2. CrawlTypes'
  BY <1>1 DEF CrawlInv, CrawlTypes
<1>3. Truthful' /\ ForkPeersKept' /\ CrawlPath'
  BY <1>1 DEF CrawlInv, Truthful, ForkPeersKept, CrawlPath
<1>4. QED
  BY <1>2, <1>3 DEF CrawlInv

LEMMA CrawlUntouched ==
    ASSUME CrawlInv, UNCHANGED <<crawling, file>>
    PROVE  CrawlInv'
BY DEF CrawlInv, CrawlTypes, Truthful, ForkPeersKept, CrawlPath, Reached, crawling

\* The fetch reads the file and writes none of the crawl's state.
LEMMA FetchLeavesFile ==
    ASSUME Fetch!FetchNext
    PROVE  UNCHANGED file
BY DEF Fetch!FetchNext, Fetch!FetchOwn, Fetch!FetchPeer, Fetch!NextPeer,
       Fetch!PeerSends, Fetch!ReadOther, Fetch!GotVersion, Fetch!GotHeaders,
       Fetch!PeerFails, Fetch!Timeout, Fetch!WalkHeader, Fetch!Refuse, Fetch!Accept

LEMMA CrawlStep == CrawlInv /\ [Next]_vars => CrawlInv'
<1> SUFFICES ASSUME CrawlInv, [Next]_vars PROVE CrawlInv'
  OBVIOUS
<1>1. CASE Crawling
  BY <1>1, CrawlingKeeps DEF Crawling
<1>2. CASE Exit
  BY <1>2, ExitKeeps
<1>3. CASE Fetching
  BY <1>3, FetchLeavesFile, CrawlUntouched DEF Fetching
<1>4. CASE UNCHANGED vars
  BY <1>4, CrawlUntouched DEF vars
<1>5. QED
  BY <1>1, <1>2, <1>3, <1>4 DEF Next

(* The parts of the invariant hold together, in every state of the crawl.   *)
THEOREM CrawlInvariant == Spec => []CrawlInv
<1>1. Init => CrawlInv
  BY CrawlInit DEF Init
<1>2. QED
  BY <1>1, CrawlStep, PTL DEF Spec

(* Every peer confirmed, or named in the file written, has the fork's chain  *)
(* (find_fork_peers.py: probe, crawl_from_fork, main).                       *)
THEOREM ForkPeersOnly == Spec => []OnFork
<1>1. CrawlInv => OnFork
  BY DEF CrawlInv, Truthful, OnFork, Crawl!OnFork
<1>2. QED
  BY <1>1, CrawlInvariant, PTL

(* Only the gossip of confirmed peers is followed (crawl_from_fork).         *)
THEOREM ThroughForkPeers == Spec => []OnlyThroughForkPeers
<1>1. CrawlInv => OnlyThroughForkPeers
  BY DEF CrawlInv, CrawlPath, Reached, OnlyThroughForkPeers, Crawl!OnlyThroughForkPeers
<1>2. QED
  BY <1>1, CrawlInvariant, PTL

(* No fork peer and no gossip of one is lost (crawl_from_fork).              *)
THEOREM NothingIsForgotten == Spec => []NothingForgotten
<1>1. CrawlInv => NothingForgotten
  BY DEF CrawlInv, Truthful, ForkPeersKept, CrawlPath, Reached, NothingForgotten,
         Crawl!NothingForgotten
<1>2. QED
  BY <1>1, CrawlInvariant, PTL

(***************************************************************************)
(* The pool's size.                                                        *)
(***************************************************************************)
UnderWay == {a \in Addrs : phase[a] \in Crawl!Running}
WorkersBound == Cardinality(UnderWay) <= Workers

LEMMA OneCardinality == \A S : Crawl!Cardinality(S) = Cardinality(S)
BY Zenon DEF Cardinality, Crawl!Cardinality

LEMMA UnderWayFinite == IsFiniteSet(UnderWay)
BY FS_Subset DEF UnderWay

\* No probe is begun except by Dial, which counts those under way.
LEMMA FewerUnderWay ==
    ASSUME WorkersBound, UnderWay' \subseteq UnderWay
    PROVE  WorkersBound'
<1>1. Cardinality(UnderWay') <= Cardinality(UnderWay) /\ IsFiniteSet(UnderWay')
  BY UnderWayFinite, FS_Subset
<1>2. Cardinality(UnderWay) \in Nat /\ Cardinality(UnderWay') \in Nat
  BY <1>1, UnderWayFinite, FS_CardinalityType
<1>3. QED
  BY <1>1, <1>2 DEF WorkersBound

LEMMA BoundCrawling ==
    ASSUME CrawlInv, WorkersBound, Crawl!Next
    PROVE  WorkersBound'
<1>1. CASE \E a \in Addrs : Crawl!Dial(a)
  <2>1. PICK a \in Addrs : Crawl!Dial(a)
    BY <1>1
  <2>2. \E p \in {"greeting", "ended"} : phase' = [phase EXCEPT ![a] = p]
    BY <2>1 DEF Crawl!Dial
  <2>3. UnderWay' \subseteq UnderWay \cup {a}
    BY <2>2 DEF UnderWay, CrawlInv, CrawlTypes
  <2>4. Cardinality(UnderWay) < Workers
    <3>1. Crawl!Cardinality({b \in Addrs : phase[b] \in Crawl!Running}) < Workers
      BY <2>1, Zenon DEF Crawl!Dial
    <3>2. UnderWay = {b \in Addrs : phase[b] \in Crawl!Running}
      BY Zenon DEF UnderWay
    <3>3. QED
      BY <3>1, <3>2, OneCardinality, Zenon
  <2>5. /\ IsFiniteSet(UnderWay \cup {a}) /\ Cardinality(UnderWay) \in Nat
        /\ Cardinality(UnderWay \cup {a}) <= Cardinality(UnderWay) + 1
    <3>1. IsFiniteSet(UnderWay)
      BY UnderWayFinite
    <3>2. /\ IsFiniteSet(UnderWay \cup {a})
          /\ \/ Cardinality(UnderWay \cup {a}) = Cardinality(UnderWay)
             \/ Cardinality(UnderWay \cup {a}) = Cardinality(UnderWay) + 1
      BY <3>1, FS_AddElement, Zenon
    <3>3. Cardinality(UnderWay) \in Nat
      BY <3>1, FS_CardinalityType
    <3>4. QED
      BY <3>2, <3>3
  <2>6. /\ Cardinality(UnderWay') <= Cardinality(UnderWay \cup {a})
        /\ Cardinality(UnderWay') \in Nat /\ Cardinality(UnderWay \cup {a}) \in Nat
    BY <2>3, <2>5, FS_Subset, FS_CardinalityType
  <2>7. QED
    BY <2>4, <2>5, <2>6 DEF WorkersBound
<1>2. CASE \E a \in Addrs : \/ Crawl!GotVersion(a) \/ Crawl!GotVerack(a) \/ Crawl!GotAddr(a)
                            \/ Crawl!GotHeaders(a) \/ Crawl!GiveUp(a)
  <2>1. PICK a \in Addrs : \/ Crawl!GotVersion(a) \/ Crawl!GotVerack(a) \/ Crawl!GotAddr(a)
                           \/ Crawl!GotHeaders(a) \/ Crawl!GiveUp(a)
    BY <1>2
  <2>2. /\ phase[a] \in Crawl!Running
        /\ phase' = phase \/ \E p \in Crawl!Running \cup {"ended"} :
                                 phase' = [phase EXCEPT ![a] = p]
    BY <2>1 DEF Crawl!GotVersion, Crawl!GotVerack, Crawl!GotAddr, Crawl!GotHeaders,
                Crawl!GiveUp, Crawl!Running
  <2>3. UnderWay' \subseteq UnderWay
    BY <2>2 DEF UnderWay, CrawlInv, CrawlTypes
  <2>4. QED
    BY <2>3, FewerUnderWay
<1>3. CASE \E a \in Addrs : Crawl!Collect(a)
  <2>1. PICK a \in Addrs : phase' = [phase EXCEPT ![a] = "collected"]
    BY <1>3 DEF Crawl!Collect
  <2>2. UnderWay' \subseteq UnderWay
    BY <2>1 DEF UnderWay, CrawlInv, CrawlTypes, Crawl!Running
  <2>3. QED
    BY <2>2, FewerUnderWay
<1>4. CASE Crawl!StartRound \/ Crawl!EndRound \/ Crawl!EndCrawl \/ Crawl!EndSurvey
           \/ \E a \in Addrs : Crawl!CatchUp(a)
  <2>1. phase' = phase
    BY <1>4 DEF Crawl!StartRound, Crawl!EndRound, Crawl!EndCrawl, Crawl!EndSurvey,
                Crawl!Report, Crawl!CatchUp, Crawl!probes
  <2>2. QED
    BY <2>1, FewerUnderWay DEF UnderWay
<1>5. CASE Crawl!EndGossip
  <2>1. phase' = [a \in Addrs |-> "idle"]
    BY <1>5 DEF Crawl!EndGossip, Crawl!Fresh
  <2>2. UnderWay' \subseteq UnderWay
    BY <2>1 DEF UnderWay, Crawl!Running
  <2>3. QED
    BY <2>2, FewerUnderWay
<1>6. QED
  BY <1>1, <1>2, <1>3, <1>4, <1>5 DEF Crawl!Next, Crawl!Main, Crawl!Probe

LEMMA BoundStep == CrawlInv /\ WorkersBound /\ [Next]_vars => WorkersBound'
<1> SUFFICES ASSUME CrawlInv, WorkersBound, [Next]_vars PROVE WorkersBound'
  OBVIOUS
<1>1. CASE Crawling
  BY <1>1, BoundCrawling DEF Crawling
<1>2. CASE Exit
  <2>1. phase' = [a \in Addrs |-> "idle"]
    BY <1>2 DEF Exit, Crawl!Fresh
  <2>2. UnderWay' \subseteq UnderWay
    BY <2>1 DEF UnderWay, Crawl!Running
  <2>3. QED
    BY <2>2, FewerUnderWay
<1>3. CASE Fetching \/ UNCHANGED vars
  <2>1. phase' = phase
    BY <1>3 DEF Fetching, vars, crawling
  <2>2. QED
    BY <2>1, FewerUnderWay DEF UnderWay
<1>4. QED
  BY <1>1, <1>2, <1>3 DEF Next

LEMMA BoundInit == Init => WorkersBound
<1> SUFFICES ASSUME Init PROVE WorkersBound
  OBVIOUS
<1>1. phase = [a \in Addrs |-> "idle"]
  BY Zenon DEF Init, Crawl!Init
<1>2. UnderWay = {}
  BY <1>1 DEF UnderWay, Crawl!Running
<1>3. QED
  BY <1>2, FS_EmptySet DEF WorkersBound

(***************************************************************************)
(* The fetch.  What was split off tiles the payload from its first word up *)
(* to offset, a count of zero after each piece.                            *)
(***************************************************************************)
After(piece) == piece.at + piece.len + Fetch!CountLen(piece.at + piece.len)
Tiling ==
    step = "walking" =>
        /\ \A i \in DOMAIN walked :
              /\ walked[i].at = IF i = 1 THEN 1 ELSE After(walked[i - 1])
              /\ walked[i].at \in DOMAIN payload
              /\ walked[i].len = Fetch!Length(walked[i].at)
              /\ Fetch!ZeroAt(walked[i].at + walked[i].len)
        /\ offset = IF walked = <<>> THEN 1 ELSE After(walked[Len(walked)])
        /\ offset <= Len(payload) + 1

Pieces == [at : Nat, len : {ShortLen, LongLen}]
Bounds == Len(walked) <= count /\ offset >= 1
FetchInv == Fetch!FetchTypeOK /\ Bounds /\ Tiling /\ WritesTheHeaders

LEMMA FetchInit == Init => FetchInv
<1> SUFFICES ASSUME Init PROVE FetchInv
  OBVIOUS
<1>1. /\ step = "idle" /\ tried = {} /\ other = FALSE /\ payload = <<>> /\ count = 0
      /\ walked = <<>> /\ offset = 1 /\ output = <<>>
  BY DEF Init, Fetch!FetchInit
<1>2. Fetch!FetchTypeOK /\ Bounds
  <2>1. /\ payload \in Seq(Fetch!Words) /\ walked \in Seq(Pieces)
        /\ output \in Seq(Pieces) /\ Len(walked) = 0
    BY <1>1
  <2>2. tried \in SUBSET Addrs /\ (tried # {} => peer \in tried) /\ other \in BOOLEAN
    BY <1>1
  <2>3. count \in 0..MaxCount /\ offset \in Nat /\ offset >= 1 /\ count = 0
    BY <1>1
  <2>4. QED
    BY <1>1, <2>1, <2>2, <2>3 DEF Fetch!FetchTypeOK, Bounds, Pieces
<1>3. Tiling /\ WritesTheHeaders
  BY <1>1 DEF Tiling, WritesTheHeaders, Fetch!WritesTheHeaders
<1>4. QED
  BY <1>2, <1>3 DEF FetchInv

\* The two ways of saying that a count of zero lies between e and b.
LEMMA ZeroCounts ==
    ASSUME NEW e \in Nat
    PROVE  /\ Fetch!ZeroAt(e) => Fetch!ZeroCount(e, e + Fetch!CountLen(e))
           /\ \A b \in 1..(Len(payload) + 1) :
                 Fetch!ZeroCount(e, b) => b = e + Fetch!CountLen(e) /\ Fetch!ZeroAt(e)
BY DEF Fetch!ZeroAt, Fetch!ZeroCount, Fetch!CountLen, Fetch!Zero, Fetch!Wide

\* A header is split off: the pieces tile up to the end of it.
LEMMA WalkKeeps ==
    ASSUME FetchInv, Fetch!WalkHeader
    PROVE  FetchInv'
<1> DEFINE new == [at |-> offset, len |-> Fetch!Length(offset)]
<1>1. /\ step = "walking" /\ Len(walked) < count /\ Fetch!HeaderAt(offset)
      /\ walked' = Append(walked, new) /\ offset' = After(new)
      /\ UNCHANGED <<file, step, tried, peer, other, payload, count, output>>
  BY DEF Fetch!WalkHeader, After
<1>2. /\ payload \in Seq(Fetch!Words) /\ count \in Nat /\ offset \in Nat
      /\ walked \in Seq(Pieces) /\ offset >= 1
      /\ Fetch!Length(offset) \in {ShortLen, LongLen} /\ Fetch!Length(offset) \in Nat
  BY DEF FetchInv, Fetch!FetchTypeOK, Fetch!Length, Bounds, Pieces
<1>3. new \in Pieces
  BY <1>2 DEF Pieces
<1>4. /\ walked' \in Seq(Pieces)
      /\ Len(walked') = Len(walked) + 1 /\ DOMAIN walked' = 1..(Len(walked) + 1)
      /\ walked'[Len(walked) + 1] = new
      /\ \A i \in DOMAIN walked : walked'[i] = walked[i]
      /\ DOMAIN walked = 1..Len(walked) /\ Len(walked) \in Nat
  <2> HIDE DEF new
  <2>1. QED
    BY <1>1, <1>2, <1>3
<1>5. /\ offset \in DOMAIN payload /\ Fetch!ZeroAt(offset + Fetch!Length(offset))
      /\ Fetch!CountLen(offset + Fetch!Length(offset)) \in 1..2
  BY <1>1, <1>2 DEF Fetch!HeaderAt, Fetch!CountLen
<1>6. offset' \in Nat /\ offset' >= 1 /\ offset' <= Len(payload) + 1
  <2>1. offset' = offset + Fetch!Length(offset) + Fetch!CountLen(offset + Fetch!Length(offset))
    BY <1>1 DEF After
  <2>2. offset + Fetch!Length(offset) + Fetch!CountLen(offset + Fetch!Length(offset))
            <= Len(payload) + 1
    BY <1>5 DEF Fetch!ZeroAt
  <2>3. QED
    BY <1>2, <1>5, <2>1, <2>2
<1>7. Fetch!FetchTypeOK' /\ Bounds'
  BY <1>1, <1>2, <1>4, <1>6 DEF FetchInv, Fetch!FetchTypeOK, Bounds, Pieces
<1>8. Tiling'
  <2>1. /\ \A i \in DOMAIN walked :
              /\ walked[i].at = IF i = 1 THEN 1 ELSE After(walked[i - 1])
              /\ walked[i].at \in DOMAIN payload
              /\ walked[i].len = Fetch!Length(walked[i].at)
              /\ Fetch!ZeroAt(walked[i].at + walked[i].len)
        /\ offset = IF walked = <<>> THEN 1 ELSE After(walked[Len(walked)])
    BY <1>1 DEF FetchInv, Tiling
  <2>2. ASSUME NEW i \in DOMAIN walked'
        PROVE  /\ walked'[i].at = IF i = 1 THEN 1 ELSE After(walked'[i - 1])
               /\ walked'[i].at \in DOMAIN payload
               /\ walked'[i].len = Fetch!Length(walked'[i].at)
               /\ Fetch!ZeroAt(walked'[i].at + walked'[i].len)
    <3>1. CASE i \in DOMAIN walked
      BY <1>4, <2>1, <3>1
    <3>2. CASE i = Len(walked) + 1
      <4>1. walked'[i] = new
        BY <1>4, <3>2
      <4>2. offset = IF i = 1 THEN 1 ELSE After(walked'[i - 1])
        <5>1. i = 1 <=> walked = <<>>
          BY <1>2, <1>4, <3>2
        <5>2. i # 1 => i - 1 = Len(walked) /\ walked'[i - 1] = walked[i - 1]
          BY <1>4, <3>2
        <5>3. QED
          BY <2>1, <5>1, <5>2
      <4>3. QED
        BY <1>5, <4>1, <4>2
    <3>3. QED
      BY <1>4, <3>1, <3>2
  <2>3. offset' = After(walked'[Len(walked')])
    BY <1>1, <1>4
  <2>4. walked' # <<>> /\ payload' = payload
    <3>1. Len(walked') # 0
      BY <1>4
    <3>2. QED
      BY <1>1, <3>1
  <2>5. ASSUME NEW piece PROVE (After(piece))' = After(piece')
    BY <2>4 DEF After, Fetch!CountLen
  <2>6. QED
    BY <1>6, <2>2, <2>3, <2>4
    DEF Tiling, After, Fetch!CountLen, Fetch!Length, Fetch!ZeroAt
<1>9. WritesTheHeaders'
  BY <1>1 DEF WritesTheHeaders, Fetch!WritesTheHeaders
<1>10. QED
  BY <1>7, <1>8, <1>9 DEF FetchInv

\* The walk has come to the end: the pieces are a cut of the whole message.
LEMMA AcceptKeeps ==
    ASSUME FetchInv, Fetch!Accept
    PROVE  FetchInv'
<1>1. /\ step = "walking" /\ Len(walked) = count /\ offset = Len(payload) + 1
      /\ step' = "written"
      /\ UNCHANGED <<tried, peer, other, payload, count, walked, offset>>
  BY DEF Fetch!Accept
<1>2. PICK keep \in Keeps : output' = SubSeq(walked, 1, Fetch!Kept(keep, Len(walked)))
  BY DEF Fetch!Accept
<1>3. /\ payload \in Seq(Fetch!Words) /\ count \in Nat /\ walked \in Seq(Pieces)
      /\ DOMAIN walked = 1..count /\ DOMAIN payload = 1..Len(payload)
      /\ Len(payload) \in Nat
  BY <1>1 DEF FetchInv, Fetch!FetchTypeOK, Pieces
<1>4. \A i \in 1..count : walked[i] \in Pieces
  BY <1>3
<1> DEFINE n == Fetch!Kept(keep, count)
<1>5. n \in 0..count
  BY <1>3 DEF Fetch!Kept
<1>6. /\ output' \in Seq(Pieces) /\ Len(output') = n /\ DOMAIN output' = 1..n
      /\ \A i \in 1..n : output'[i] = walked[i]
  <2>1. output' = SubSeq(walked, 1, n)
    BY <1>1, <1>2
  <2> HIDE DEF n
  <2>2. n \in Int /\ 1 \in Int /\ n \in Nat
    BY <1>5
  <2>3. \A i \in 1..n : walked[i] \in Pieces
    BY <1>3, <1>4, <1>5
  <2>4. SubSeq(walked, 1, n) \in Seq(Pieces)
    BY <2>2, <2>3, SubSeqProperties, Zenon
  <2>5. Len(output') = n
    BY <2>1, <2>2
  <2>6. \A i \in 1..n : output'[i] = walked[i]
    BY <2>1, <2>2
  <2>7. DOMAIN output' = 1..n
    BY <2>1, <2>4, <2>5
  <2>8. QED
    BY <2>1, <2>4, <2>5, <2>6, <2>7
<1>7. Fetch!FetchTypeOK' /\ Bounds' /\ Tiling'
  BY <1>1, <1>6 DEF FetchInv, Fetch!FetchTypeOK, Bounds, Tiling, Pieces
<1> DEFINE begins == [i \in 1..(count + 1) |->
                        IF i = count + 1 THEN offset ELSE walked[i].at]
<1>8. /\ \A i \in 1..count :
            /\ walked[i].at = IF i = 1 THEN 1 ELSE After(walked[i - 1])
            /\ walked[i].at \in DOMAIN payload
            /\ walked[i].len = Fetch!Length(walked[i].at)
            /\ Fetch!ZeroAt(walked[i].at + walked[i].len)
      /\ offset = IF walked = <<>> THEN 1 ELSE After(walked[count])
  BY <1>1, <1>3 DEF FetchInv, Tiling
<1>9. begins \in Fetch!Cuts /\ begins[1] = 1 /\ begins[count + 1] = Len(payload) + 1
  <2>1. walked = <<>> <=> count = 0
    BY <1>1, <1>3
  <2>2. \A i \in 1..count : walked[i].at \in 1..(Len(payload) + 1)
    BY <1>3, <1>8
  <2>3. begins[1] = 1
    <3>1. CASE count = 0
      BY <1>8, <2>1, <3>1
    <3>2. CASE count # 0
      BY <1>3, <1>8, <3>2
    <3>3. QED
      BY <3>1, <3>2
  <2>4. offset \in 1..(Len(payload) + 1)
    BY <1>1, <1>3
  <2>5. QED
    BY <1>1, <1>3, <2>2, <2>3, <2>4 DEF Fetch!Cuts
<1>10. ASSUME NEW i \in 1..count
       PROVE  /\ begins[i] = walked[i].at /\ begins[i] \in DOMAIN payload
              /\ Fetch!ZeroCount(begins[i] + Fetch!Length(begins[i]), begins[i + 1])
  <2>1. begins[i] = walked[i].at
    BY <1>3
  <2>2. begins[i + 1] = After(walked[i])
    <3>1. CASE i = count
      BY <1>1, <1>3, <1>8, <3>1
    <3>2. CASE i # count
      <4>1. i + 1 \in 1..count /\ i + 1 # 1 /\ (i + 1) - 1 = i /\ i + 1 # count + 1
        BY <1>3, <3>2
      <4>2. QED
        <5>1. walked[i + 1].at = After(walked[i])
          BY <1>8, <4>1
        <5>2. i + 1 \in 1..(count + 1)
          BY <1>3
        <5>3. begins[i + 1] = walked[i + 1].at
          BY <4>1, <5>2
        <5>4. QED
          BY <5>1, <5>3
    <3>3. QED
      BY <3>1, <3>2
  <2>3. walked[i].at + walked[i].len \in Nat
    BY <1>4 DEF Pieces
  <2>4. QED
    BY <1>8, <2>1, <2>2, <2>3, ZeroCounts DEF After
<1>11. \A i \in 1..n : output'[i] = [at |-> begins[i], len |-> Fetch!Length(begins[i])]
  <2> SUFFICES ASSUME NEW i \in 1..n
               PROVE  output'[i] = [at |-> begins[i], len |-> Fetch!Length(begins[i])]
    OBVIOUS
  <2>1. i \in 1..count
    BY <1>3, <1>5
  <2>2. output'[i] = walked[i] /\ begins[i] = walked[i].at /\ walked[i] \in Pieces
    BY <1>4, <1>6, <1>10, <2>1
  <2>3. walked[i] = [at |-> walked[i].at, len |-> walked[i].len]
    BY <2>2 DEF Pieces
  <2>4. QED
    BY <1>8, <2>1, <2>2, <2>3
<1> HIDE DEF begins, n
<1>12. Fetch!Stream(begins)
  BY <1>9, <1>10 DEF Fetch!Stream
<1>13. WritesTheHeaders'
  <2>1. Len(output') = Fetch!Kept(keep, count')
    BY <1>1, <1>6 DEF n
  <2>2. PICK cut \in Fetch!Cuts :
           /\ Fetch!Stream(cut)
           /\ \A i \in 1..n : output'[i] = [at |-> cut[i], len |-> Fetch!Length(cut[i])]
    BY <1>9, <1>11, <1>12
  <2>3. cut \in (Fetch!Cuts)' /\ (Fetch!Stream(cut))'
    BY <1>1, <2>2 DEF Fetch!Cuts, Fetch!Stream, Fetch!ZeroCount, Fetch!Length
  <2>4. \A i \in DOMAIN output' :
           output'[i] = [at |-> cut[i], len |-> (Fetch!Length(cut[i]))']
    BY <1>1, <1>6, <2>2 DEF Fetch!Length
  <2>5. QED
    BY <2>1, <2>3, <2>4 DEF WritesTheHeaders, Fetch!WritesTheHeaders
<1>14. QED
  BY <1>7, <1>13 DEF FetchInv

LEMMA FetchKeeps ==
    ASSUME CrawlTypes, FetchInv, Fetch!FetchNext
    PROVE  FetchInv'
<1>1. CASE \/ Fetch!NextPeer \/ Fetch!PeerSends \/ Fetch!ReadOther
           \/ Fetch!GotVersion \/ Fetch!PeerFails \/ Fetch!Timeout
  <2>1. /\ step' \in {"greeting", "failed", "asked", "connecting"}
        /\ other' \in BOOLEAN
        /\ UNCHANGED <<payload, count, walked, offset, output>>
        /\ \/ UNCHANGED <<tried, peer>>
           \/ \E a \in file : peer' = a /\ tried' = tried \cup {a}
    BY <1>1 DEF Fetch!NextPeer, Fetch!PeerSends, Fetch!ReadOther, Fetch!GotVersion,
                Fetch!PeerFails, Fetch!Timeout, Fetch!Waiting, FetchInv, Fetch!FetchTypeOK
  <2>2. QED
    BY <2>1 DEF FetchInv, CrawlTypes, Fetch!FetchTypeOK, Bounds, Tiling,
                WritesTheHeaders, Fetch!WritesTheHeaders
<1>2. CASE Fetch!GotHeaders
  <2>1. /\ count' \in 0..MaxCount /\ walked' = <<>> /\ offset' = 1 /\ step' = "walking"
        /\ payload' \in Payloads
        /\ UNCHANGED <<tried, peer, other, output>>
    BY <1>2 DEF Fetch!GotHeaders
  <2>2. payload' \in Seq(Fetch!Words)
    <3>1. Fetch!Words = 0..3
      BY DEF Fetch!Words, Fetch!Zero, Fetch!Plain, Fetch!Flagged, Fetch!Wide
    <3>2. QED
      BY <2>1, <3>1
  <2>3. Len(payload') \in Nat /\ DOMAIN walked' = {} /\ Len(walked') = 0
    BY <2>1, <2>2
  <2>4. QED
    BY <2>1, <2>2, <2>3 DEF FetchInv, Fetch!FetchTypeOK, Bounds, Tiling,
                            WritesTheHeaders, Fetch!WritesTheHeaders
<1>3. CASE Fetch!WalkHeader
  BY <1>3, WalkKeeps
<1>4. CASE Fetch!Refuse
  <2>1. /\ step' = "connecting" /\ payload' = <<>> /\ count' = 0 /\ walked' = <<>>
        /\ offset' = 1 /\ UNCHANGED <<tried, peer, other, output>>
    BY <1>4 DEF Fetch!Refuse
  <2>2. QED
    BY <2>1 DEF FetchInv, Fetch!FetchTypeOK, Bounds, Tiling, WritesTheHeaders,
                Fetch!WritesTheHeaders
<1>5. CASE Fetch!Accept
  BY <1>5, AcceptKeeps
<1>6. QED
  BY <1>1, <1>2, <1>3, <1>4, <1>5 DEF Fetch!FetchNext, Fetch!FetchOwn, Fetch!FetchPeer

LEMMA FetchStep == CrawlInv /\ FetchInv /\ [Next]_vars => FetchInv'
<1> SUFFICES ASSUME CrawlInv, FetchInv, [Next]_vars PROVE FetchInv'
  OBVIOUS
<1>1. CASE Fetching
  BY <1>1, FetchKeeps DEF Fetching, CrawlInv
<1>2. CASE Crawling \/ Exit \/ UNCHANGED vars
  <2>1. UNCHANGED fetching
    BY <1>2 DEF Crawling, Exit, vars
  <2>2. QED
    <3>1. Fetch!FetchTypeOK' /\ Bounds'
      BY <2>1 DEF fetching, FetchInv, Fetch!FetchTypeOK, Bounds
    <3>2. Tiling'
      BY <2>1 DEF fetching, FetchInv, Tiling, After, Fetch!CountLen, Fetch!ZeroAt,
                  Fetch!Length
    <3>3. WritesTheHeaders'
      BY <2>1 DEF fetching, FetchInv, WritesTheHeaders, Fetch!WritesTheHeaders,
                  Fetch!Cuts, Fetch!Stream, Fetch!ZeroCount, Fetch!Length
    <3>4. QED
      BY <3>1, <3>2, <3>3 DEF FetchInv
<1>3. QED
  BY <1>1, <1>2 DEF Next

(* Both scripts' invariants and the bound on the pool hold throughout.      *)
THEOREM FetchInvariant == Spec => [](CrawlInv /\ FetchInv /\ WorkersBound)
<1>1. Init => FetchInv /\ WorkersBound
  BY FetchInit, BoundInit
<1>2. QED
  BY <1>1, CrawlInvariant, FetchStep, BoundStep, PTL DEF Spec

(* The types, and the bound on the probes under way (ThreadPoolExecutor's    *)
(* max_workers).                                                             *)
THEOREM TypeCorrect == Spec => []TypeOK
<1>1. CrawlInv /\ FetchInv /\ WorkersBound => TypeOK
  <2> SUFFICES ASSUME CrawlInv, FetchInv, WorkersBound PROVE TypeOK
    OBVIOUS
  <2>1. CrawlTypes /\ Fetch!FetchTypeOK
    BY DEF CrawlInv, FetchInv
  <2>2. Crawl!Cardinality({a \in Addrs : phase[a] \in Crawl!Running}) <= Workers
    BY OneCardinality, Zenon DEF WorkersBound, UnderWay
  <2>3. Crawl!TypeOK
    <3> HIDE CrawlAssumption, FetchAssumption
    <3>1. {frontier, probed, gossip, confirmed, file} \subseteq SUBSET Addrs
      BY <2>1 DEF CrawlTypes
    <3>2. QED
      BY <2>1, <2>2, <3>1, Zenon DEF CrawlTypes, Crawl!TypeOK
  <2>4. QED
    BY <2>1, <2>3 DEF TypeOK
<1>2. QED
  BY <1>1, FetchInvariant, PTL

(* Only the headers of a message made of headers and nothing else are       *)
(* written, from the first on, whatever its words, whatever two lengths      *)
(* headers have and whatever the limit (split_headers, main).                *)
THEOREM HeadersWritten == Spec => []WritesTheHeaders
<1>1. FetchInv => WritesTheHeaders
  BY DEF FetchInv
<1>2. QED
  BY <1>1, FetchInvariant, PTL

(***************************************************************************)
(* Refusals.  The walk is forced: if the message can be cut into headers   *)
(* at all, then the pieces split off so far are the first of them, and the *)
(* walk stands where the next begins.                                      *)
(***************************************************************************)
Forced ==
    step = "walking" =>
        \A begins \in Fetch!Cuts : Fetch!Stream(begins) =>
            begins[Len(walked) + 1] = offset

\* Where a header of the message begins, one is found, and after it the next.
LEMMA HeaderFound ==
    ASSUME FetchInv, Len(walked) < count,
           NEW begins \in Fetch!Cuts, Fetch!Stream(begins),
           begins[Len(walked) + 1] = offset
    PROVE  /\ Fetch!HeaderAt(offset)
           /\ begins[Len(walked) + 2]
                  = offset + Fetch!Length(offset) + Fetch!CountLen(offset + Fetch!Length(offset))
<1>1. /\ payload \in Seq(Fetch!Words) /\ count \in Nat /\ offset \in Nat
      /\ Len(walked) \in Nat /\ Len(payload) \in Nat /\ DOMAIN payload = 1..Len(payload)
      /\ Fetch!Length(offset) \in Nat
  BY DEF FetchInv, Fetch!FetchTypeOK, Fetch!Length
<1>2. /\ Len(walked) + 1 \in 1..count /\ (Len(walked) + 1) + 1 = Len(walked) + 2
      /\ Len(walked) + 2 \in 1..(count + 1)
  BY <1>1
<1>3. /\ offset \in DOMAIN payload
      /\ Fetch!ZeroCount(offset + Fetch!Length(offset), begins[Len(walked) + 2])
  BY <1>2 DEF Fetch!Stream
<1>4. begins[Len(walked) + 2] \in 1..(Len(payload) + 1)
  BY <1>2 DEF Fetch!Cuts
<1>5. /\ begins[Len(walked) + 2]
             = offset + Fetch!Length(offset) + Fetch!CountLen(offset + Fetch!Length(offset))
      /\ Fetch!ZeroAt(offset + Fetch!Length(offset))
  BY <1>1, <1>3, <1>4, ZeroCounts
<1>6. Fetch!CountLen(offset + Fetch!Length(offset)) \in 1..2
  BY DEF Fetch!CountLen
<1>7. QED
  BY <1>1, <1>3, <1>4, <1>5, <1>6 DEF Fetch!HeaderAt

LEMMA WalkForced ==
    ASSUME FetchInv, Forced, Fetch!WalkHeader
    PROVE  Forced'
<1>1. /\ step = "walking" /\ Len(walked) < count
      /\ offset' = offset + Fetch!Length(offset) + Fetch!CountLen(offset + Fetch!Length(offset))
      /\ walked' = Append(walked, [at |-> offset, len |-> Fetch!Length(offset)])
      /\ UNCHANGED <<payload, count>>
  BY DEF Fetch!WalkHeader
<1>2. Len(walked') = Len(walked) + 1 /\ Len(walked) \in Nat
  BY <1>1 DEF FetchInv, Fetch!FetchTypeOK
<1>3. ASSUME NEW begins \in (Fetch!Cuts)', (Fetch!Stream(begins))'
      PROVE  begins[Len(walked') + 1] = offset'
  <2>1. begins \in Fetch!Cuts /\ Fetch!Stream(begins)
    BY <1>1, <1>3 DEF Fetch!Cuts, Fetch!Stream, Fetch!ZeroCount, Fetch!Length
  <2>2. begins[Len(walked) + 1] = offset
    BY <1>1, <2>1 DEF Forced
  <2>3. Len(walked') + 1 = Len(walked) + 2
    BY <1>2
  <2>4. QED
    BY <1>1, <2>1, <2>2, <2>3, HeaderFound
<1>4. QED
  BY <1>3 DEF Forced

LEMMA ForcedStep == FetchInv /\ Forced /\ [Next]_vars => Forced'
<1> SUFFICES ASSUME FetchInv, Forced, [Next]_vars PROVE Forced'
  OBVIOUS
<1>1. CASE Fetching
  <2>1. CASE Fetch!WalkHeader
    BY <2>1, WalkForced
  <2>2. CASE Fetch!GotHeaders
    <3>1. offset' = 1 /\ Len(walked') + 1 = 1
      BY <2>2 DEF Fetch!GotHeaders
    <3>2. QED
      BY <3>1 DEF Forced, Fetch!Stream
  <2>3. CASE \/ Fetch!NextPeer \/ Fetch!PeerSends \/ Fetch!ReadOther
             \/ Fetch!GotVersion \/ Fetch!PeerFails \/ Fetch!Timeout
             \/ Fetch!Refuse \/ Fetch!Accept
    <3>1. step' # "walking"
      BY <2>3 DEF Fetch!NextPeer, Fetch!PeerSends, Fetch!ReadOther, Fetch!GotVersion,
                  Fetch!PeerFails, Fetch!Timeout, Fetch!Waiting, Fetch!Refuse,
                  Fetch!Accept
    <3>2. QED
      BY <3>1 DEF Forced
  <2>4. QED
    BY <1>1, <2>1, <2>2, <2>3 DEF Fetching, Fetch!FetchNext, Fetch!FetchOwn,
                                  Fetch!FetchPeer
<1>2. CASE Crawling \/ Exit \/ UNCHANGED vars
  <2>1. UNCHANGED <<step, payload, count, walked, offset>>
    BY <1>2 DEF Crawling, Exit, vars, fetching
  <2>2. QED
    BY <2>1 DEF Forced, Fetch!Cuts, Fetch!Stream, Fetch!ZeroCount, Fetch!Length
<1>3. QED
  BY <1>1, <1>2 DEF Next

(* No stream of headers is refused, whatever two lengths headers have and   *)
(* whatever else it might be taken for.                                     *)
THEOREM HonestNotRefused == Spec => []RefusedForAReason
<1>1. Init => Forced
  BY DEF Init, Fetch!FetchInit, Forced
<1>2. FetchInv /\ Forced => RefusedForAReason
  <2> SUFFICES ASSUME FetchInv, Forced, step = "walking", Fetch!Refused,
                      NEW begins \in Fetch!Cuts, Fetch!Stream(begins)
               PROVE  FALSE
    BY DEF RefusedForAReason, Fetch!RefusedForAReason
  <2>1. begins[Len(walked) + 1] = offset
    BY DEF Forced
  <2>2. CASE Len(walked) < count /\ ~Fetch!HeaderAt(offset)
    BY <2>1, <2>2, HeaderFound
  <2>3. CASE Len(walked) = count /\ offset # Len(payload) + 1
    BY <2>1, <2>3 DEF Fetch!Stream
  <2>4. QED
    BY <2>2, <2>3 DEF Fetch!Refused
<1>3. QED
  BY <1>1, <1>2, FetchInvariant, ForcedStep, PTL DEF Spec
=============================================================================
