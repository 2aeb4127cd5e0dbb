------------------------ MODULE ResolverFinderProofs ------------------------
(***************************************************************************)
(* For any resolvers, lists and limits: the finder's collections keep to   *)
(* their limits, the pool of a running server is never empty and holds no  *)
(* resolver twice, and none that is remembered as failed.                  *)
(*                                                                         *)
(* None of the three is inductive: what a merge adds is new to the pool    *)
(* and not remembered as failed only because the search that probed it     *)
(* chose its candidates so, and neither the pool nor the memory of it has  *)
(* changed against them since.  The invariant says so of every probe.      *)
(***************************************************************************)
EXTENDS ResolverFinder, FiniteSetTheorems, TLAPS

\* The resolvers of the probes under way.
Probed == {r \in Resolvers : probe[r] # "none"}

\* At boot only what is configured is probed, and nothing is remembered or pooled;
\* while no search is under way, nothing is probed.
PhaseProbes ==
    /\ phase = "boot" => Probed \subseteq Configured /\ failed = {} /\ healthy = <<>>
    /\ phase \in {"idle", "exit"} => Probed = {}

\* A search probes what is neither in the pool nor, until its probe fails, remembered
\* as failed.
CandidatesNew ==
    phase = "probe" => /\ Probed \cap Known = {}
                       /\ \A r \in failed : probe[r] \in {"none", "bad"}

FinderInv == TypeOK /\ PhaseProbes /\ CandidatesNew /\ PoolUsable /\ FailedNotPooled

-----------------------------------------------------------------------------
(* The lists that results are turned into.                                  *)

Found == [addr : Resolvers, delay : Nat]

\* No two entries of a list are of the same resolver.
Distinct(s) == \A i, j \in 1..Len(s) : s[i].addr = s[j].addr => i = j

\* The sorted results of some resolvers name each of them once.
LEMMA SortedFacts ==
    ASSUME elapsed \in [Resolvers -> Nat], NEW rs \in SUBSET Resolvers, NEW s \in SortedResults(rs)
    PROVE  /\ s \in Seq(Found) /\ Len(s) = Cardinality(rs) /\ Cardinality(rs) \in Nat
           /\ \A i \in 1..Len(s) : s[i].addr \in rs
           /\ Distinct(s)
           /\ rs # {} => s # <<>>
  <1> DEFINE k == Cardinality(rs)
  <1>1. k \in Nat /\ (k = 0 <=> rs = {})
    BY FinderAssumption, FS_Subset, FS_CardinalityType, FS_EmptySet
  <1>2. PICK t \in SetToSeqs(rs) :
           s = [i \in DOMAIN t |-> [addr |-> t[i], delay |-> elapsed[t[i]]]]
    BY DEF SortedResults
  <1>3. t \in [1..k -> rs] /\ \A i, j \in 1..k : i # j => t[i] # t[j]
    BY <1>2 DEF SetToSeqs
  <1> HIDE DEF k
  <1>4. \A i \in 1..k : s[i] \in Found /\ s[i].addr = t[i]
    BY <1>2, <1>3 DEF Found
  <1>5. s \in [1..k -> Found]
    BY <1>2, <1>3, <1>4
  <1>6. s \in Seq(Found) /\ Len(s) = k
    BY <1>1, <1>5
  <1> QED
    BY <1>1, <1>3, <1>4, <1>6 DEF Distinct, k

\* A merge keeps the pool a list without duplicates, within its limit if it grows,
\* and adds nothing but what is new.
LEMMA MergedFacts ==
    ASSUME healthy \in Seq(Found), Distinct(healthy), NEW new \in Seq(Found), Distinct(new),
           \A i \in 1..Len(new) : new[i].addr \notin Known
    PROVE  /\ Merged(new) \in Seq(Found) /\ Distinct(Merged(new))
           /\ Len(Merged(new)) <= MaxHealthy \/ Merged(new) = healthy
           /\ healthy # <<>> => Merged(new) # <<>>
           /\ \A i \in 1..Len(Merged(new)) :
                 \/ \E j \in 1..Len(new) : Merged(new)[i] = new[j]
                 \/ \E j \in 1..Len(healthy) : Merged(new)[i] = healthy[j]
  <1> DEFINE all == new \o healthy
             a == Len(new)
             b == Len(healthy)
             m == Merged(new)
  <1>1. /\ all \in Seq(Found) /\ Len(all) = a + b /\ a \in Nat /\ b \in Nat
        /\ \A i \in 1..a : all[i] = new[i]
        /\ \A i \in (a + 1)..(a + b) : all[i] = healthy[i - a] /\ i - a \in 1..b
    OBVIOUS
  <1>2. \A i \in 1..b : healthy[i].addr \in Known
    BY DEF Known
  <1> HIDE DEF all, a, b
  <1>3. ASSUME NEW i \in 1..(a + b)
        PROVE  \/ i \in 1..a /\ all[i] = new[i]
               \/ i \in (a + 1)..(a + b) /\ i - a \in 1..b /\ all[i] = healthy[i - a]
    BY <1>1
  <1>4. Distinct(all)
    <2> SUFFICES ASSUME NEW i \in 1..(a + b), NEW j \in 1..(a + b), all[i].addr = all[j].addr
                 PROVE  i = j
      BY <1>1 DEF Distinct
    <2>1. CASE i \in 1..a /\ j \in 1..a
      BY <1>1, <2>1 DEF Distinct, a
    <2>2. CASE i \in (a + 1)..(a + b) /\ j \in (a + 1)..(a + b)
      <3>1. healthy[i - a].addr = healthy[j - a].addr /\ i - a \in 1..b /\ j - a \in 1..b
        BY <1>1, <2>2
      <3>2. i - a = j - a
        BY <3>1 DEF Distinct, b
      <3> QED
        BY <1>1, <2>2, <3>2
    <2>3. ~(i \in 1..a /\ j \in (a + 1)..(a + b)) /\ ~(j \in 1..a /\ i \in (a + 1)..(a + b))
      BY <1>1, <1>2 DEF a
    <2> QED
      BY <1>1, <2>1, <2>2, <2>3
  <1>5. m = IF new # <<>> /\ Len(all) > MaxHealthy THEN SubSeq(all, 1, MaxHealthy) ELSE all
    BY DEF Merged, all
  <1>6. MaxHealthy \in Nat \ {0}
    BY FinderAssumption
  <1> HIDE DEF m
  <1>7. CASE new # <<>> /\ Len(all) > MaxHealthy
    <2>1. /\ m \in Seq(Found) /\ Len(m) = MaxHealthy /\ MaxHealthy <= a + b
          /\ \A i \in 1..MaxHealthy : m[i] = all[i] /\ i \in 1..(a + b)
      BY <1>1, <1>5, <1>6, <1>7
    <2>2. Distinct(m)
      BY <1>1, <1>4, <1>6, <2>1 DEF Distinct
    <2>3. m # <<>>
      BY <1>6, <2>1
    <2>4. ASSUME NEW i \in 1..Len(m)
          PROVE  (\E j \in 1..a : m[i] = new[j]) \/ (\E j \in 1..b : m[i] = healthy[j])
      BY <1>3, <2>1
    <2> QED
      BY <1>6, <2>1, <2>2, <2>3, <2>4 DEF m, a, b
  <1>8. CASE ~(new # <<>> /\ Len(all) > MaxHealthy)
    <2>1. m = all
      BY <1>5, <1>8
    <2>2. Len(m) <= MaxHealthy \/ m = healthy
      <3>1. CASE new = <<>>
        BY <2>1, <3>1 DEF all
      <3>2. CASE new # <<>>
        BY <1>1, <1>6, <1>8, <2>1, <3>2
      <3> QED
        BY <3>1, <3>2
    <2>3. healthy # <<>> => m # <<>>
      <3>1. healthy # <<>> => b > 0
        BY DEF b
      <3> QED
        BY <1>1, <2>1, <3>1
    <2>4. ASSUME NEW i \in 1..Len(m)
          PROVE  (\E j \in 1..a : m[i] = new[j]) \/ (\E j \in 1..b : m[i] = healthy[j])
      BY <1>1, <1>3, <2>1
    <2> QED
      BY <1>1, <1>4, <2>1, <2>2, <2>3, <2>4 DEF m, a, b
  <1> QED
    BY <1>7, <1>8

\* Remembering a failure keeps to the cap and remembers nothing else.
LEMMA RecordFacts ==
    ASSUME TypeOK, NEW r \in Resolvers, record_failed_resolver(r)
    PROVE  /\ failed' \subseteq failed \cup {r} /\ Cardinality(failed') <= FailedCap
           /\ flushed' \in 0..FlushInterval
  <1> DEFINE kept == IF flushed >= FlushInterval THEN {} ELSE failed
  <1>1. /\ failed' = (IF Cardinality(kept) >= FailedCap THEN kept ELSE kept \cup {r})
        /\ flushed' = (IF flushed >= FlushInterval THEN 0 ELSE flushed)
    BY DEF record_failed_resolver
  <1>2. kept \subseteq failed /\ kept \subseteq Resolvers
    BY DEF TypeOK
  <1>3. FailedCap \in Nat \ {0} /\ FlushInterval \in Nat
    BY FinderAssumption
  <1>4. Cardinality(kept) <= FailedCap
    BY <1>3, FS_EmptySet DEF TypeOK
  <1>5. flushed' \in 0..FlushInterval
    BY <1>1, <1>3 DEF TypeOK
  <1> HIDE DEF kept
  <1>6. IsFiniteSet(kept) /\ Cardinality(kept) \in Nat
    BY <1>2, FinderAssumption, FS_Subset, FS_CardinalityType
  <1>7. Cardinality(kept) < FailedCap => Cardinality(kept \cup {r}) <= FailedCap
    <2>1. Cardinality(kept \cup {r})
            = IF r \in kept THEN Cardinality(kept) ELSE Cardinality(kept) + 1
      BY <1>6, FS_AddElement
    <2> QED
      BY <1>3, <1>6, <2>1
  <1>8. Cardinality(failed') <= FailedCap
    BY <1>1, <1>3, <1>4, <1>6, <1>7
  <1> QED
    BY <1>1, <1>2, <1>5, <1>8

-----------------------------------------------------------------------------
(* The steps of the finder.                                                 *)

States == {"none", "queued", "sent", "ok", "bad"}

\* Initially nothing is probed, pooled or remembered.
LEMMA FinderInit == Init => FinderInv
  <1> SUFFICES ASSUME Init PROVE FinderInv
    OBVIOUS
  <1>1. Probed = Configured /\ Configured \subseteq Resolvers /\ Known = {}
    BY FinderAssumption DEF Init, Probing, Probed, Known
  <1>2. TypeOK
    BY FinderAssumption, FS_EmptySet DEF Init, TypeOK, Probing
  <1> QED
    BY <1>1, <1>2
       DEF Init, FinderInv, PhaseProbes, CandidatesNew, PoolUsable, FailedNotPooled

\* A probe that moves on without failing.
LEMMA ProbeMovesInv ==
    ASSUME FinderInv, NEW r \in Resolvers, NEW s \in {"sent", "ok"}, probe[r] \in {"queued", "sent"},
           probe' = [probe EXCEPT ![r] = s], elapsed' \in [Resolvers -> Nat],
           wire' \subseteq Resolvers, inbox' \in Seq(Resolvers), Len(inbox') <= SockBuf,
           UNCHANGED <<healthy, failed, flushed, phase>>
    PROVE  FinderInv'
  <1>1. probe \in [Resolvers -> States]
    BY DEF FinderInv, TypeOK, States
  <1>2. Probed' = Probed
    BY <1>1 DEF Probed
  <1>3. probe' \in [Resolvers -> States]
    BY <1>1 DEF States
  <1>4. TypeOK'
    BY <1>3 DEF FinderInv, TypeOK, States
  <1>5. \A p \in failed : probe[p] \in {"none", "bad"} => probe'[p] = probe[p]
    BY <1>1 DEF FinderInv, TypeOK
  <1>6. PhaseProbes' /\ PoolUsable' /\ FailedNotPooled'
    BY <1>2 DEF FinderInv, PhaseProbes, PoolUsable, FailedNotPooled, Known
  <1>7. CandidatesNew'
    BY <1>2, <1>5 DEF FinderInv, CandidatesNew, Known
  <1> QED
    BY <1>4, <1>6, <1>7 DEF FinderInv

\* A probe that fails; a search remembers it.
LEMMA ProbeFailedInv ==
    ASSUME FinderInv, NEW r \in Resolvers, ProbeFailed(r)
    PROVE  FinderInv'
  <1>1. probe \in [Resolvers -> States] /\ probe[r] = "sent" /\ probe' = [probe EXCEPT ![r] = "bad"]
    BY DEF ProbeFailed, FinderInv, TypeOK, States
  <1>2. UNCHANGED <<healthy, phase, elapsed, wire, inbox>>
    BY DEF ProbeFailed
  <1>3. Probed' = Probed /\ r \in Probed
    BY <1>1 DEF Probed
  <1>4. /\ failed' \subseteq failed \cup {r} /\ Cardinality(failed') <= FailedCap
        /\ flushed' \in 0..FlushInterval
        /\ phase # "probe" => failed' = failed
    BY RecordFacts DEF ProbeFailed, FinderInv, TypeOK
  <1>5. probe' \in [Resolvers -> States] /\ failed' \subseteq Resolvers
    BY <1>1, <1>4 DEF States, FinderInv, TypeOK
  <1>6. TypeOK'
    BY <1>2, <1>4, <1>5 DEF FinderInv, TypeOK, States
  <1>7. PhaseProbes' /\ PoolUsable'
    BY <1>2, <1>3, <1>4 DEF FinderInv, PhaseProbes, PoolUsable
  <1>8. Known' = Known
    BY <1>2 DEF Known
  <1>9. ASSUME phase = "probe" PROVE failed' \cap Known = {} /\ CandidatesNew'
    <2>1. Probed \cap Known = {} /\ failed \cap Known = {}
      BY <1>9 DEF FinderInv, CandidatesNew, FailedNotPooled
    <2>2. \A p \in failed' : probe'[p] \in {"none", "bad"}
      BY <1>1, <1>4, <1>5, <1>9 DEF FinderInv, CandidatesNew
    <2> QED
      BY <1>3, <1>4, <1>8, <2>1, <2>2 DEF CandidatesNew
  <1>10. FailedNotPooled' /\ CandidatesNew'
    BY <1>2, <1>4, <1>8, <1>9 DEF FinderInv, FailedNotPooled, CandidatesNew
  <1> QED
    BY <1>6, <1>7, <1>10 DEF FinderInv

\* Every step of a probe.
LEMMA ProbeInv ==
    ASSUME FinderInv, NEW r \in Resolvers, ProbeStep(r)
    PROVE  FinderInv'
  <1>1. TypeOK
    BY DEF FinderInv
  <1>2. CASE StartProbe(r)
    <2>1. elapsed' \in [Resolvers -> Nat] /\ wire' \subseteq Resolvers
      BY <1>1, <1>2 DEF StartProbe, TypeOK
    <2> QED
      BY <1>1, <1>2, <2>1, ProbeMovesInv DEF StartProbe, TypeOK
  <1>3. CASE UdpAnswered(r)
    <2>1. inbox' \in Seq(Resolvers) /\ Len(inbox') <= SockBuf
      <3>1. inbox \in Seq(Resolvers) /\ inbox # <<>> /\ inbox' = Tail(inbox) /\ Len(inbox) <= SockBuf
        BY <1>1, <1>3 DEF UdpAnswered, TypeOK
      <3>2. Len(inbox') = Len(inbox) - 1 /\ Len(inbox) \in Nat /\ inbox' \in Seq(Resolvers)
        BY <3>1
      <3>3. SockBuf \in Nat
        BY FinderAssumption
      <3> QED
        BY <3>1, <3>2, <3>3
    <2> QED
      BY <1>1, <1>3, <2>1, ProbeMovesInv DEF UdpAnswered, TypeOK
  <1>4. CASE DohAnswered(r)
    BY <1>1, <1>4, ProbeMovesInv DEF DohAnswered, TypeOK
  <1>5. CASE ProbeFailed(r)
    BY <1>5, ProbeFailedInv
  <1> QED
    BY <1>2, <1>3, <1>4, <1>5 DEF ProbeStep, ProbeError, ProbeTimeout

\* Datagrams and ticks touch neither the pool nor what is remembered.
LEMMA OutsideInv ==
    ASSUME FinderInv, Tick \/ (\E r \in Resolvers : Deliver(r)) \/ UNCHANGED vars
    PROVE  FinderInv'
  <1>1. TypeOK /\ UNCHANGED <<healthy, failed, phase, probe>>
    BY DEF FinderInv, Tick, Deliver, vars
  <1>2. PhaseProbes' /\ CandidatesNew' /\ PoolUsable' /\ FailedNotPooled'
    BY <1>1 DEF FinderInv, PhaseProbes, CandidatesNew, PoolUsable, FailedNotPooled, Probed, Known
  <1>3. elapsed' \in [Resolvers -> Nat] /\ flushed' \in 0..FlushInterval
    BY <1>1, FinderAssumption DEF TypeOK, Tick, Deliver, vars
  <1>4. wire' \subseteq Resolvers /\ inbox' \in Seq(Resolvers) /\ Len(inbox') <= SockBuf
    <2>1. CASE \E r \in Resolvers : Deliver(r)
      <3>1. PICK r \in Resolvers : Deliver(r)
        BY <2>1
      <3>2. SockBuf \in Nat /\ inbox \in Seq(Resolvers) /\ Len(inbox) \in Nat
        BY <1>1, FinderAssumption DEF TypeOK
      <3>3. CASE Len(inbox) < SockBuf /\ inbox' = Append(inbox, r)
        <4>1. Len(inbox') = Len(inbox) + 1 /\ inbox' \in Seq(Resolvers)
          BY <3>2, <3>3
        <4> QED
          BY <1>1, <3>1, <3>2, <3>3, <4>1 DEF Deliver, TypeOK
      <3>4. CASE UNCHANGED inbox
        BY <1>1, <3>1, <3>4 DEF Deliver, TypeOK
      <3> QED
        BY <3>1, <3>3, <3>4 DEF Deliver
    <2>2. CASE Tick \/ UNCHANGED vars
      BY <1>1, <2>2 DEF Tick, vars, TypeOK
    <2> QED
      BY <2>1, <2>2
  <1>5. TypeOK'
    BY <1>1, <1>3, <1>4 DEF TypeOK
  <1> QED
    BY <1>2, <1>5 DEF FinderInv

\* The pool starts with the configured resolvers that answered.
LEMMA BootInv == FinderInv /\ Boot => FinderInv'
  <1> SUFFICES ASSUME FinderInv, Boot PROVE FinderInv'
    OBVIOUS
  <1> DEFINE ok == InState("ok")
  <1>1. /\ TypeOK /\ phase = "boot" /\ Probed \subseteq Configured /\ failed = {}
    BY DEF FinderInv, Boot, PhaseProbes
  <1>2. /\ phase' = (IF ok = {} THEN "exit" ELSE "idle") /\ probe' = Probing({})
        /\ wire' = {} /\ inbox' = <<>> /\ flushed' = 0 /\ UNCHANGED <<failed, elapsed>>
    BY DEF Boot
  <1>3. healthy' \in SortedResults(ok)
    BY DEF Boot
  <1>4. ok \subseteq Configured /\ ok \subseteq Resolvers
    BY <1>1 DEF InState, Probed
  <1> HIDE DEF ok
  <1>5. /\ healthy' \in Seq(Found) /\ Len(healthy') = Cardinality(ok)
        /\ Distinct(healthy') /\ (ok # {} => healthy' # <<>>)
    BY <1>1, <1>3, <1>4, SortedFacts DEF TypeOK
  <1>6. Cardinality(ok) <= Cardinality(Configured)
    BY <1>4, FinderAssumption, FS_Subset
  <1>7. Probed' = {} /\ probe' \in [Resolvers -> States]
    BY <1>2 DEF Probing, Probed, States
  <1>8. TypeOK'
    <2>1. SockBuf \in Nat /\ FlushInterval \in Nat
      BY FinderAssumption
    <2>2. inbox' \in Seq(Resolvers) /\ Len(inbox') <= SockBuf /\ flushed' \in 0..FlushInterval
      BY <1>2, <2>1
    <2> QED
      BY <1>1, <1>2, <1>5, <1>6, <1>7, <2>2 DEF TypeOK, Found, States
  <1>9. PoolUsable'
    <2>1. DOMAIN healthy' = 1..Len(healthy')
      BY <1>5
    <2> QED
      BY <1>2, <1>5, <2>1 DEF PoolUsable, Distinct
  <1> QED
    BY <1>1, <1>2, <1>7, <1>8, <1>9 DEF FinderInv, PhaseProbes, CandidatesNew, FailedNotPooled

\* A search picks its candidates.
LEMMA SearchInv == FinderInv /\ Search => FinderInv'
  <1> SUFFICES ASSUME FinderInv, Search PROVE FinderInv'
    OBVIOUS
  <1>1. PICK fetched \in SUBSET Listed : probe' = Probing((fetched \ failed) \ Known)
    BY DEF Search
  <1> DEFINE cs == (fetched \ failed) \ Known
  <1>2. /\ TypeOK /\ phase = "idle" /\ phase' = "probe"
        /\ UNCHANGED <<healthy, failed, flushed, elapsed, wire, inbox>>
    BY DEF FinderInv, Search
  <1>3. /\ probe' \in [Resolvers -> States]
        /\ \A r \in Resolvers : probe'[r] = IF r \in cs THEN "queued" ELSE "none"
    BY <1>1 DEF Probing, States
  <1>4. Known' = Known /\ failed \subseteq Resolvers
    BY <1>2 DEF Known, TypeOK
  <1>5. CandidatesNew'
    <2>1. Probed' \subseteq cs
      BY <1>3 DEF Probed
    <2>2. \A r \in failed : probe'[r] = "none"
      BY <1>3, <1>4
    <2> QED
      BY <1>2, <1>4, <2>1, <2>2 DEF CandidatesNew
  <1>6. TypeOK'
    BY <1>2, <1>3 DEF TypeOK, States
  <1> QED
    BY <1>2, <1>4, <1>5, <1>6 DEF FinderInv, PhaseProbes, PoolUsable, FailedNotPooled

\* What a search found joins the pool.
LEMMA MergeInv == FinderInv /\ Merge => FinderInv'
  <1> SUFFICES ASSUME FinderInv, Merge PROVE FinderInv'
    OBVIOUS
  <1> DEFINE rs == InState("ok") \ Known
  <1>1. PICK new \in SortedResults(rs) : healthy' = Merged(new)
    BY DEF Merge
  <1>2. /\ TypeOK /\ phase = "probe" /\ phase' = "idle" /\ probe' = Probing({})
        /\ UNCHANGED <<failed, flushed, elapsed, wire, inbox>>
    BY DEF FinderInv, Merge
  <1>3. rs \subseteq Resolvers /\ rs \subseteq InState("ok") /\ rs \cap Known = {}
    BY DEF InState
  <1>4. \A r \in rs : probe[r] = "ok"
    BY DEF InState
  <1> HIDE DEF rs
  <1>5. /\ new \in Seq(Found) /\ Distinct(new) /\ \A i \in 1..Len(new) : new[i].addr \in rs
    BY <1>1, <1>2, <1>3, SortedFacts DEF TypeOK
  <1>6. healthy \in Seq(Found) /\ healthy # <<>>
    BY <1>2 DEF FinderInv, TypeOK, PoolUsable, Found
  <1>7. Distinct(healthy) /\ DOMAIN healthy = 1..Len(healthy)
    BY <1>6 DEF FinderInv, PoolUsable, Distinct
  <1>8. /\ healthy' \in Seq(Found) /\ Distinct(healthy') /\ healthy' # <<>>
        /\ Len(healthy') <= MaxHealthy \/ healthy' = healthy
        /\ \A i \in 1..Len(healthy') :
              \/ \E j \in 1..Len(new) : healthy'[i] = new[j]
              \/ \E j \in 1..Len(healthy) : healthy'[i] = healthy[j]
    BY <1>1, <1>3, <1>5, <1>6, <1>7, MergedFacts
  <1>9. DOMAIN healthy' = 1..Len(healthy')
    BY <1>8
  <1>10. Known' \subseteq Known \cup rs
    <2>1. \A j \in 1..Len(healthy) : healthy[j].addr \in Known
      BY <1>7 DEF Known
    <2> SUFFICES ASSUME NEW i \in 1..Len(healthy') PROVE healthy'[i].addr \in Known \cup rs
      BY <1>9 DEF Known
    <2> QED
      BY <1>5, <1>8, <2>1
  <1>11. Probed' = {} /\ probe' \in [Resolvers -> States]
    BY <1>2 DEF Probing, Probed, States
  <1>12. TypeOK'
    BY <1>2, <1>8, <1>11 DEF TypeOK, Found, States
  <1>13. PoolUsable'
    BY <1>8, <1>9 DEF PoolUsable, Distinct
  <1>14. FailedNotPooled'
    BY <1>2, <1>4, <1>10 DEF FinderInv, CandidatesNew, FailedNotPooled
  <1> QED
    BY <1>2, <1>11, <1>12, <1>13, <1>14 DEF FinderInv, PhaseProbes, CandidatesNew

-----------------------------------------------------------------------------
\* The finder's invariant holds in every state.
THEOREM FinderInvariant == Spec => []FinderInv
  <1>1. FinderInv /\ [Next]_vars => FinderInv'
    BY ProbeInv, OutsideInv, BootInv, SearchInv, MergeInv DEF Next
  <1> QED
    BY <1>1, FinderInit, PTL DEF Spec

\* The finder's collections keep to their types and their limits: the pool, the set of
\* failed resolvers, the socket's buffer (MAX_HEALTHY_RESOLVERS, FAILED_RESOLVER_CAP).
THEOREM FinderTypeCorrect == Spec => []TypeOK
  <1>1. FinderInv => TypeOK
    BY DEF FinderInv
  <1> QED
    BY <1>1, FinderInvariant, PTL

\* A server that takes queries has a resolver to pick, and none is in its pool twice
\* (test_resolvers, merge_discovered_into_healthy).
THEOREM PoolIsUsable == Spec => []PoolUsable
  <1>1. FinderInv => PoolUsable
    BY DEF FinderInv
  <1> QED
    BY <1>1, FinderInvariant, PTL

\* No resolver is at once in the pool and remembered as failed
\* (record_failed_resolver, the search's candidates).
THEOREM FailedStayOut == Spec => []FailedNotPooled
  <1>1. FinderInv => FailedNotPooled
    BY DEF FinderInv
  <1> QED
    BY <1>1, FinderInvariant, PTL

=============================================================================
