--------------------------- MODULE ResolverFinder ---------------------------
(***************************************************************************)
(* The pool of upstream resolvers (dns_relay/src/resolver.rs): the health  *)
(* check of the configured ones at boot, and the background search that    *)
(* fetches lists, probes what is new on them and merges what answers into  *)
(* the pool, remembering what failed.                                      *)
(*                                                                         *)
(* Probes run concurrently.  Those of plain UDP resolvers all go out on    *)
(* one socket, and each waits for whatever datagram that socket receives   *)
(* next; the others (DoH, DoQ) have a connection of their own.             *)
(***************************************************************************)
EXTENDS Naturals, Sequences, FiniteSets, SequencesExt

CONSTANTS
    Resolvers,      \* resolver addresses
    Doh,            \* the ones probed over a connection of their own
    Alive,          \* the ones that answer probes (in time, late, or not at all)
    Configured,     \* the config's resolvers
    Listed,         \* what the sources' lists name, parsed and filtered
    Concurrency,    \* HEALTH_CHECK_CONCURRENCY
    MaxHealthy,     \* MAX_HEALTHY_RESOLVERS
    FailedCap,      \* FAILED_RESOLVER_CAP
    FlushInterval,  \* FAILED_RESOLVER_FLUSH_INTERVAL, in ticks
    UdpTimeout,     \* UDP_PROBE_TIMEOUT, in ticks
    DohTimeout,     \* RESOLVE_TIMEOUT, in ticks
    SockBuf         \* datagrams the probe socket buffers

ASSUME FinderAssumption ==
    /\ IsFiniteSet(Resolvers)
    /\ {Doh, Alive, Configured, Listed} \subseteq SUBSET Resolvers
    /\ {Concurrency, MaxHealthy, FailedCap, UdpTimeout, DohTimeout, SockBuf} \subseteq Nat \ {0}
    /\ FlushInterval \in Nat

VARIABLES
    healthy,    \* the pool: addresses and their latency, the preferred one first
    failed,     \* FAILED_RESOLVERS
    flushed,    \* ticks since it was flushed, saturated at FlushInterval
    phase,      \* what the program does with resolvers
    probe,      \* where each resolver's probe is
    elapsed,    \* ticks since each probe was sent
    wire,       \* resolvers whose answer is on its way to the probe socket
    inbox       \* answers the probe socket has received, by their sender

vars == <<healthy, failed, flushed, phase, probe, elapsed, wire, inbox>>

Known == {healthy[i].addr : i \in DOMAIN healthy}
InState(s) == {r \in Resolvers : probe[r] = s}
Timeout(r) == IF r \in Doh THEN DohTimeout ELSE UdpTimeout
Probing(rs) == [r \in Resolvers |-> IF r \in rs THEN "queued" ELSE "none"]

\* run_server has built the picker's arguments; test_resolvers starts.
Init ==
    /\ healthy = <<>>
    /\ failed = {}
    /\ flushed = 0
    /\ phase = "boot"
    /\ probe = Probing(Configured)
    /\ elapsed = [r \in Resolvers |-> 0]
    /\ wire = {}
    /\ inbox = <<>>

-----------------------------------------------------------------------------
(* measure_latency, for at most Concurrency resolvers at once.              *)

StartProbe(r) ==
    /\ probe[r] = "queued"
    /\ Cardinality(InState("sent")) < Concurrency
    /\ probe' = [probe EXCEPT ![r] = "sent"]
    /\ elapsed' = [elapsed EXCEPT ![r] = 0]
    /\ wire' = wire \cup ({r} \cap (Alive \ Doh))
    /\ UNCHANGED <<healthy, failed, flushed, phase, inbox>>

\* A UDP answer reaches the socket, or is lost on the way or for lack of room.
Deliver(r) ==
    /\ r \in wire
    /\ wire' = wire \ {r}
    /\ \/ Len(inbox) < SockBuf /\ inbox' = Append(inbox, r)
       \/ UNCHANGED inbox
    /\ UNCHANGED <<healthy, failed, flushed, phase, probe, elapsed>>

\* recv_from on the shared socket takes the next datagram, whoever sent it.
UdpAnswered(r) ==
    /\ probe[r] = "sent" /\ r \notin Doh
    /\ inbox # <<>>
    /\ inbox' = Tail(inbox)
    /\ probe' = [probe EXCEPT ![r] = "ok"]
    /\ UNCHANGED <<healthy, failed, flushed, phase, elapsed, wire>>

DohAnswered(r) ==
    /\ probe[r] = "sent" /\ r \in Doh \cap Alive
    /\ probe' = [probe EXCEPT ![r] = "ok"]
    /\ UNCHANGED <<healthy, failed, flushed, phase, elapsed, wire, inbox>>

\* Bug: no cap.
record_failed_uncapped(r) ==
    /\ failed' = (IF flushed >= FlushInterval THEN {} ELSE failed) \cup {r}
    /\ flushed' = IF flushed >= FlushInterval THEN 0 ELSE flushed

record_failed_resolver(r) ==
    LET expired == flushed >= FlushInterval
        kept == IF expired THEN {} ELSE failed
    IN  /\ failed' = IF Cardinality(kept) >= FailedCap THEN kept ELSE kept \cup {r}
        /\ flushed' = IF expired THEN 0 ELSE flushed

\* The search remembers a resolver whose probe failed; the boot does not.
ProbeFailed(r) ==
    /\ probe[r] = "sent"
    /\ probe' = [probe EXCEPT ![r] = "bad"]
    /\ IF phase = "probe"
       THEN record_failed_resolver(r)
       ELSE UNCHANGED <<failed, flushed>>
    /\ UNCHANGED <<healthy, phase, elapsed, wire, inbox>>

ProbeTimeout(r) == elapsed[r] >= Timeout(r) /\ ProbeFailed(r)

\* Sending or receiving fails, or the answer is an HTTP error.
ProbeError(r) == elapsed[r] < Timeout(r) /\ ProbeFailed(r)

-----------------------------------------------------------------------------
(* What is done with the results.                                           *)

\* The results of the resolvers rs, in an order of increasing latency.
SortedResults(rs) ==
    {s \in {[i \in DOMAIN t |-> [addr |-> t[i], delay |-> elapsed[t[i]]]] :
               t \in SetToSeqs(rs)} :
        \A i, j \in DOMAIN s : i < j => s[i].delay <= s[j].delay}

ProbesDone == InState("queued") = {} /\ InState("sent") = {}

\* Bug: test_resolvers does not check for an empty result.
BootUnchecked ==
    /\ phase = "boot" /\ ProbesDone
    /\ \E s \in SortedResults(InState("ok")) : healthy' = s
    /\ phase' = "idle"
    /\ probe' = Probing({})
    /\ wire' = {} /\ inbox' = <<>>
    /\ flushed' = 0
    /\ UNCHANGED <<failed, elapsed>>

\* test_resolvers returns.  Without a healthy resolver run_server fails; else the
\* search is spawned, with a socket of its own; its first tick is at once, and with
\* it the hour of FAILED_RESOLVERS begins.
Boot ==
    /\ phase = "boot" /\ ProbesDone
    /\ \E s \in SortedResults(InState("ok")) : healthy' = s
    /\ phase' = IF InState("ok") = {} THEN "exit" ELSE "idle"
    /\ probe' = Probing({})
    /\ wire' = {} /\ inbox' = <<>>
    /\ flushed' = 0
    /\ UNCHANGED <<failed, elapsed>>

\* Bug: the resolvers of the pool are candidates too.
SearchKnown ==
    /\ phase = "idle"
    /\ \E fetched \in SUBSET Listed :
          LET candidates == fetched \ failed
          IN  candidates # {} /\ phase' = "probe" /\ probe' = Probing(candidates)
    /\ UNCHANGED <<healthy, failed, flushed, elapsed, wire, inbox>>

\* A tick of the search: any of the sources may fail to load.  Without a
\* candidate nothing happens until the next tick.
Search ==
    /\ phase = "idle"
    /\ \E fetched \in SUBSET Listed :
          LET candidates == (fetched \ failed) \ Known
          IN  candidates # {} /\ phase' = "probe" /\ probe' = Probing(candidates)
    /\ UNCHANGED <<healthy, failed, flushed, elapsed, wire, inbox>>

\* merge_discovered_into_healthy: what is new, in its order, goes to the front, what
\* is then too much is cut off at the end.  Without anything new the pool stays.
Merged(new) ==
    LET all == new \o healthy
    IN  IF new # <<>> /\ Len(all) > MaxHealthy THEN SubSeq(all, 1, MaxHealthy) ELSE all

\* Bug: a search without results leaves its running flag set.
MergeResultsOnly ==
    /\ phase = "probe" /\ ProbesDone
    /\ InState("ok") # {}
    /\ \E new \in SortedResults(InState("ok") \ Known) : healthy' = Merged(new)
    /\ phase' = "idle"
    /\ probe' = Probing({})
    /\ UNCHANGED <<failed, flushed, elapsed, wire, inbox>>

Merge ==
    /\ phase = "probe" /\ ProbesDone
    /\ \E new \in SortedResults(InState("ok") \ Known) : healthy' = Merged(new)
    /\ phase' = "idle"
    /\ probe' = Probing({})
    /\ UNCHANGED <<failed, flushed, elapsed, wire, inbox>>

\* Time does not pass the deadline of a probe.
Tick ==
    /\ \A r \in InState("sent") : elapsed[r] < Timeout(r)
    /\ elapsed' = [r \in Resolvers |-> IF probe[r] = "sent" THEN elapsed[r] + 1 ELSE elapsed[r]]
    /\ flushed' = IF flushed < FlushInterval THEN flushed + 1 ELSE flushed
    /\ UNCHANGED <<healthy, failed, phase, probe, wire, inbox>>

ProbeStep(r) ==
    StartProbe(r) \/ UdpAnswered(r) \/ DohAnswered(r) \/ ProbeError(r) \/ ProbeTimeout(r)

Next ==
    \/ \E r \in Resolvers : ProbeStep(r) \/ Deliver(r)
    \/ Boot
    \/ Search
    \/ Merge
    \/ Tick

Spec == Init /\ [][Next]_vars

\* Tasks that can run do, and time goes on; no resolver need answer.
FairSpec ==
    /\ Spec
    /\ WF_vars(Tick) /\ WF_vars(Boot) /\ WF_vars(Merge)
    /\ \A r \in Resolvers : WF_vars(StartProbe(r)) /\ WF_vars(ProbeTimeout(r))

-----------------------------------------------------------------------------
(* Properties.                                                              *)

\* The types of the finder's state, with the limits on its collections.
TypeOK ==
    /\ healthy \in Seq([addr : Resolvers, delay : Nat])
    /\ Len(healthy) <= MaxHealthy \/ Len(healthy) <= Cardinality(Configured)
    /\ failed \subseteq Resolvers /\ Cardinality(failed) <= FailedCap
    /\ flushed \in 0..FlushInterval
    /\ phase \in {"boot", "idle", "probe", "exit"}
    /\ probe \in [Resolvers -> {"none", "queued", "sent", "ok", "bad"}]
    /\ elapsed \in [Resolvers -> Nat]
    /\ wire \subseteq Resolvers
    /\ inbox \in Seq(Resolvers) /\ Len(inbox) <= SockBuf

\* Once the server takes queries pick() finds a resolver at the front of the pool,
\* and no resolver is in the pool twice, whatever searches have come between.
PoolUsable ==
    /\ phase \in {"idle", "probe"} => healthy # <<>>
    /\ \A i, j \in DOMAIN healthy : healthy[i].addr = healthy[j].addr => i = j

\* No resolver is at once in the pool and remembered as failed: a search neither
\* probes what is in the pool nor adds what it remembers.
FailedNotPooled == failed \cap Known = {}

\* Every search ends, whether or not anything answers, so that the next can start.
SearchEnds == phase = "probe" ~> phase = "idle"

=============================================================================
