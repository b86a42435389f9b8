----------------------------- MODULE ForkHeaders -----------------------------
(***************************************************************************)
(* The two scripts as they are used: find_fork_peers.py leaves a file of   *)
(* peers, fetch_fork_headers.py takes its headers from one of them.  They  *)
(* share nothing but the file and the network.                             *)
(***************************************************************************)
EXTENDS Integers, Sequences, FiniteSets

CONSTANTS
    Addrs, Seeds, Knows, Rounds, Workers, SeedLimit, Limit, OldFiles,  \* of ForkCrawl
    ShortLen, LongLen, Payloads, MaxCount, Keeps                       \* of HeaderFetch

ASSUME CrawlAssumption ==
    /\ IsFiniteSet(Addrs)
    /\ Seeds \in SUBSET Addrs /\ Knows \in [Addrs -> SUBSET Addrs]
    /\ Rounds \in Nat /\ Workers \in Nat \ {0}
    /\ SeedLimit \in Nat /\ Limit \in Nat
    /\ OldFiles \subseteq SUBSET Addrs

ASSUME FetchAssumption ==
    /\ ShortLen \in Nat \ {0} /\ LongLen \in Nat \ {0}
    /\ Payloads \subseteq Seq(0..3) /\ MaxCount \in Nat /\ Keeps \subseteq Nat

VARIABLES
    chain, script, stage, round, frontier, probed, gossip, confirmed, file,
    saved, phase, greeted, verdict, shown, heard,
    step, tried, peer, other, payload, count, walked, offset, output

Crawl == INSTANCE ForkCrawl
Fetch == INSTANCE HeaderFetch

crawling == <<chain, script, stage, round, frontier, probed, gossip, confirmed,
              saved, phase, greeted, verdict, shown, heard>>
fetching == <<step, tried, peer, other, payload, count, walked, offset, output>>
vars == <<crawling, fetching, file>>

Init == Crawl!Init /\ Fetch!FetchInit

\* The crawl, the peers catching up meanwhile ...
Crawling == Crawl!Next /\ UNCHANGED fetching

\* ... its process, which is gone but for the file ...
Exit ==
    /\ stage = "finished" /\ step = "idle" /\ script # "gone"
    /\ script' = "gone" /\ round' = 0
    /\ frontier' = {} /\ probed' = {} /\ gossip' = {} /\ confirmed' = {}
    /\ Crawl!Fresh
    /\ UNCHANGED <<chain, stage, file, saved, fetching>>

\* ... and the fetch.
Fetching == script = "gone" /\ Fetch!FetchNext /\ UNCHANGED crawling

Next == Crawling \/ Exit \/ Fetching

\* The workers run and a probe does not outlast its deadline.  The fetch goes on
\* reading and a read of a silent peer times out; that a peer falls silent, or
\* answers, or hangs up, nothing makes sure of.
Fairness ==
    /\ WF_vars(Crawl!Main /\ UNCHANGED fetching)
    /\ \A a \in Addrs :
          /\ WF_vars(Crawl!Dial(a) /\ UNCHANGED fetching)
          /\ WF_vars(Crawl!GiveUp(a) /\ UNCHANGED fetching)
    /\ WF_vars(Exit)
    /\ WF_vars(script = "gone" /\ Fetch!FetchOwn /\ UNCHANGED crawling)

Spec == Init /\ [][Next]_vars /\ Fairness

(***************************************************************************)
(* Properties.                                                             *)
(***************************************************************************)
(* The variables have their types, and no more probes run than the pool has *)
(* workers (ThreadPoolExecutor's max_workers).                              *)
TypeOK == Crawl!TypeOK /\ Fetch!FetchTypeOK

(* Whom the crawl confirms, and whom the file names that it then writes,    *)
(* follows the fork: what else a peer sends, and how its probe ends,        *)
(* changes nothing (probe, crawl_from_fork, main).  A file that was there   *)
(* before and is left in place may name anyone.                             *)
OnFork == Crawl!OnFork

(* The crawl leaves the fork peers' neighbourhood for nobody: it probes     *)
(* only what it was given and what confirmed peers gossiped                 *)
(* (crawl_from_fork).                                                       *)
OnlyThroughForkPeers == Crawl!OnlyThroughForkPeers

(* A peer whose last headers began with a header of the fork is among the   *)
(* confirmed once its probe is collected, though the probe then ran into    *)
(* its deadline or an error; and no address a confirmed peer gossiped is    *)
(* lost between the rounds (probe, crawl_from_fork).                        *)
NothingForgotten == Crawl!NothingForgotten

(* What is written are the headers of a message that is made of headers and *)
(* nothing else: the first of them, each from where it begins and as long   *)
(* as it says, as many as there are or as a limit allows (split_headers,    *)
(* main).                                                                   *)
WritesTheHeaders == Fetch!WritesTheHeaders

(* A message is refused only when it is not a stream of headers, wherever   *)
(* one might cut it, and then another peer is asked: no honest peer's       *)
(* answer is thrown away (split_headers).                                   *)
RefusedForAReason == Fetch!RefusedForAReason

(* The crawl ends, and so does the fetch, unless a peer keeps sending it    *)
(* something else for ever: fetch has no deadline for the wait as a whole.  *)
BothEnd ==
    /\ <>(script = "gone")
    /\ <>(step \in {"written", "failed"}) \/ []<>other

\* Without the exception it does not hold.
EndsAnyway == <>(step \in {"written", "failed"})
=============================================================================
