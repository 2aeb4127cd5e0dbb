---------------------------- MODULE LookupProofs ----------------------------
(***************************************************************************)
(* The two tables a query is looked up in: the rule trie and the LRU list  *)
(* of the response cache.                                                  *)
(*                                                                         *)
(* Trie, for lists of any length over names of any depth: a lookup finds   *)
(* what the lists say, and what a reload purges is ruled.  The inductive   *)
(* invariant describes the trie under construction: its paths are closed   *)
(* under prefixes, every entry of the lists has its node, and a node has   *)
(* the policy of the last redirect for its path, without one that of a     *)
(* drop, and without that none.                                            *)
(*                                                                         *)
(* Cache, for any capacity: the list implements the map ResponseCache      *)
(* promises, and gives up what was used longest ago.  The inductive        *)
(* invariant: distinct keys, as many as there is room for, in the order of *)
(* their last use.                                                         *)
(***************************************************************************)
EXTENDS DomainTrie, LruCache, WellFoundedInduction, FiniteSetTheorems, TLAPS

-----------------------------------------------------------------------------
(* The rule trie.                                                           *)

\* The lists hold patterns, and redirects a target each.
ListsTyped == drops \in Seq(Patterns) /\ redirects \in Seq(Patterns \X Targets)

\* A path with a node is a name or the root, and so is each of its prefixes.
PathsClosed ==
    \A p \in DOMAIN nodes :
        /\ p \in Domains \cup {Root}
        /\ \A n \in 1..Len(p) : Prefix(p, n) \in DOMAIN nodes

\* The redirects for a path; whether it is to be dropped.
RedirectsAt(p) == {i \in 1..Len(redirects) : redirects[i][1].name = p}
DroppedAt(p) == \E i \in 1..Len(drops) : drops[i].name = p

EntriesHaveNodes ==
    \A p \in Domains : RedirectsAt(p) # {} \/ DroppedAt(p) => p \in DOMAIN nodes

NodeRuled(p) ==
    /\ \A i \in RedirectsAt(p) :
          (\A j \in RedirectsAt(p) : j <= i) => nodes[p] = Redirect(redirects[i][2])
    /\ RedirectsAt(p) = {} /\ DroppedAt(p) => nodes[p] = Drop
    /\ RedirectsAt(p) = {} /\ ~DroppedAt(p) => nodes[p] = None

TrieInv ==
    /\ ListsTyped /\ PathsClosed /\ EntriesHaveNodes
    /\ \A p \in DOMAIN nodes : NodeRuled(p)

-----------------------------------------------------------------------------
\* A set of numbers has a least one,
LEMMA NatMin == ASSUME NEW T \in SUBSET Nat, T # {} PROVE \E n \in T : \A m \in T : n <= m
  <1> DEFINE R == OpToRel(<, Nat)
  <1>1. IsWellFoundedOn(R, Nat)
    BY NatLessThanWellFounded
  <1>2. R = {ss \in Nat \X Nat : ss[1] < ss[2]}
    BY DEF OpToRel
  <1> HIDE DEF R
  <1>3. PICK x \in T : \A y \in T : ~(<<y, x>> \in R)
    BY <1>1, WFMin, Zenon
  <1>4. ASSUME NEW m \in T PROVE x <= m
    <2>1. <<m, x>> \notin R
      BY <1>3
    <2>2. m < x => <<m, x>> \in R
      BY <1>2
    <2> QED
      BY <2>1, <2>2
  <1> QED
    BY <1>4

\* and a set of numbers up to k a greatest.
LEMMA UpToMax ==
    ASSUME NEW k \in Nat, NEW T \in SUBSET (1..k), T # {}
    PROVE  \E n \in T : \A m \in T : m <= n
  <1> DEFINE U == {k - n : n \in T}
  <1>1. U \in SUBSET Nat /\ U # {}
    <2>1. \A n \in T : k - n \in Nat
      OBVIOUS
    <2> QED
      BY <2>1
  <1>2. PICK u \in U : \A v \in U : u <= v
    BY <1>1, NatMin
  <1>3. PICK n \in T : u = k - n
    BY <1>2
  <1>4. ASSUME NEW m \in T PROVE m <= n
    <2>1. k - m \in U
      OBVIOUS
    <2>2. k - n <= k - m
      BY <1>2, <1>3, <2>1
    <2> QED
      BY <2>2
  <1> QED
    BY <1>3, <1>4

\* A name is a sequence of labels, of which it has one at least.
LEMMA DomainFacts ==
    ASSUME NEW d \in Domains
    PROVE  d \in Seq(Labels) /\ Len(d) \in 1..MaxLabels
  BY TrieAssumption DEF Domains

\* A prefix of a name is a name; a prefix of a prefix is a prefix.
LEMMA PrefixFacts ==
    ASSUME NEW d \in Domains, NEW n \in 1..Len(d)
    PROVE  /\ Prefix(d, n) \in Domains /\ Len(Prefix(d, n)) = n
           /\ \A m \in 1..n : Prefix(Prefix(d, n), m) = Prefix(d, m)
           /\ Prefix(d, Len(d)) = d
  <1>1. d \in Seq(Labels) /\ Len(d) \in 1..MaxLabels /\ MaxLabels \in Nat
    BY DomainFacts, TrieAssumption
  <1>2. Prefix(d, n) \in [1..n -> Labels] /\ Len(Prefix(d, n)) = n /\ n \in 1..MaxLabels
    <2>1. n \in Nat /\ n <= Len(d) /\ n \in 1..MaxLabels
      BY <1>1
    <2>2. Prefix(d, n) \in Seq(Labels) /\ Len(Prefix(d, n)) = n
      BY <1>1, <2>1 DEF Prefix
    <2> QED
      BY <2>1, <2>2
  <1>3. Prefix(d, n) \in Domains
    BY <1>2 DEF Domains
  <1>4. ASSUME NEW m \in 1..n PROVE Prefix(Prefix(d, n), m) = Prefix(d, m)
    <2>1. Prefix(d, n) \in Seq(Labels) /\ m \in Nat /\ m <= n /\ n <= Len(d)
      BY <1>1, <1>2
    <2>2. Prefix(Prefix(d, n), m) = [i \in 1..m |-> Prefix(d, n)[i]]
      BY <1>2, <2>1 DEF Prefix
    <2>3. \A i \in 1..m : Prefix(d, n)[i] = d[i]
      BY <1>1, <2>1 DEF Prefix
    <2>4. Prefix(d, m) = [i \in 1..m |-> d[i]]
      BY <1>1, <2>1 DEF Prefix
    <2> QED
      BY <2>2, <2>3, <2>4
  <1>5. Prefix(d, Len(d)) = d
    BY <1>1 DEF Prefix
  <1> QED
    BY <1>2, <1>3, <1>4, <1>5

\* What the lists hold are patterns, of names.
LEMMA EntryFacts ==
    ASSUME ListsTyped
    PROVE  /\ DOMAIN drops = 1..Len(drops) /\ DOMAIN redirects = 1..Len(redirects)
           /\ \A i \in 1..Len(drops) : drops[i] \in Patterns /\ drops[i].name \in Domains
           /\ \A i \in 1..Len(redirects) :
                 redirects[i][1] \in Patterns /\ redirects[i][1].name \in Domains
  <1>1. \A e \in Patterns : e.name \in Domains
    BY DEF Patterns
  <1>2. drops \in Seq(Patterns) /\ redirects \in Seq(Patterns \X Targets)
    BY DEF ListsTyped
  <1>3. \A e \in Patterns \X Targets : e[1] \in Patterns
    OBVIOUS
  <1>4. \A i \in 1..Len(redirects) : redirects[i] \in Patterns \X Targets
    BY <1>2
  <1> QED
    BY <1>1, <1>2, <1>3, <1>4

\* The three kinds of policy differ.
LEMMA PoliciesDiffer == Drop # None /\ \A t : Redirect(t) # None /\ Redirect(t) # Drop
  <1>1. None.kind = "none" /\ Drop.kind = "drop" /\ \A t : Redirect(t).kind = "redirect"
    BY DEF None, Drop, Redirect
  <1> QED
    BY <1>1

-----------------------------------------------------------------------------
(* The steps of build.                                                      *)

\* Inserting adds the way to the entry's node, and sets that node only.
LEMMA InsertFacts ==
    ASSUME TrieInv, NEW pattern \in Patterns, NEW policy, insert_with_policy(pattern, policy)
    PROVE  /\ PathsClosed'
           /\ pattern.name \in DOMAIN nodes' /\ nodes'[pattern.name] = policy
           /\ DOMAIN nodes \subseteq DOMAIN nodes'
           /\ \A p \in DOMAIN nodes' : p # pattern.name =>
                 nodes'[p] = IF p \in DOMAIN nodes THEN nodes[p] ELSE None
  <1> DEFINE path == pattern.name
             way == {Prefix(path, n) : n \in 0..Len(path)}
  <1>1. path \in Domains
    BY DEF Patterns
  <1>2. path \in Seq(Labels) /\ Len(path) \in Nat /\ Len(path) \in 1..Len(path)
    BY <1>1, DomainFacts, TrieAssumption
  <1>3. nodes' = [p \in DOMAIN nodes \cup way |->
                     IF p = path THEN policy ELSE IF p \in DOMAIN nodes THEN nodes[p] ELSE None]
    BY DEF insert_with_policy
  <1>4. path \in way
    BY <1>1, <1>2, PrefixFacts
  <1>5. Prefix(path, 0) = Root
    BY <1>2 DEF Prefix, Root
  <1>6. DOMAIN nodes' = DOMAIN nodes \cup way
    BY <1>3
  <1>7. ASSUME NEW p \in way
        PROVE  p \in Domains \cup {Root} /\ \A n \in 1..Len(p) : Prefix(p, n) \in way
    <2>1. PICK k \in 0..Len(path) : p = Prefix(path, k)
      OBVIOUS
    <2>2. CASE k = 0
      BY <1>5, <2>1, <2>2 DEF Root
    <2>3. CASE k # 0
      <3>1. k \in 1..Len(path)
        BY <1>2, <2>3
      <3>2. p \in Domains /\ Len(p) = k /\ \A m \in 1..k : Prefix(p, m) = Prefix(path, m)
        BY <1>1, <2>1, <3>1, PrefixFacts
      <3>3. \A m \in 1..k : m \in 0..Len(path)
        BY <1>2, <3>1
      <3> QED
        BY <3>2, <3>3
    <2> QED
      BY <2>2, <2>3
  <1> HIDE DEF way
  <1>8. PathsClosed'
    BY <1>6, <1>7 DEF TrieInv, PathsClosed
  <1> QED
    BY <1>3, <1>4, <1>6, <1>8

\* A drop is inserted before any redirect.
LEMMA DropInv ==
    ASSUME TrieInv, NEW pattern \in Patterns, insert_drop(pattern)
    PROVE  TrieInv'
  <1> DEFINE path == pattern.name
  <1>1. /\ redirects = <<>> /\ redirects' = redirects /\ drops' = Append(drops, pattern)
        /\ insert_with_policy(pattern, Drop) /\ drops \in Seq(Patterns) /\ path \in Domains
    BY DEF insert_drop, TrieInv, ListsTyped, Patterns
  <1>2. ListsTyped'
    BY <1>1 DEF TrieInv, ListsTyped
  <1>3. /\ PathsClosed' /\ path \in DOMAIN nodes' /\ nodes'[path] = Drop
        /\ DOMAIN nodes \subseteq DOMAIN nodes'
        /\ \A p \in DOMAIN nodes' : p # path =>
              nodes'[p] = IF p \in DOMAIN nodes THEN nodes[p] ELSE None
    BY <1>1, InsertFacts
  <1>4. \A p : RedirectsAt(p) = {} /\ RedirectsAt(p)' = {}
    BY <1>1 DEF RedirectsAt
  <1>5. \A p : DroppedAt(p)' <=> DroppedAt(p) \/ p = path
    <2>1. /\ Len(drops') = Len(drops) + 1 /\ Len(drops) \in Nat
          /\ \A i \in 1..Len(drops) : drops'[i] = drops[i]
          /\ drops'[Len(drops) + 1] = pattern
      BY <1>1
    <2>2. ASSUME NEW p, DroppedAt(p) PROVE DroppedAt(p)'
      BY <2>1, <2>2 DEF DroppedAt
    <2>3. DroppedAt(path)'
      BY <2>1 DEF DroppedAt
    <2>4. ASSUME NEW p, DroppedAt(p)' PROVE DroppedAt(p) \/ p = path
      <3>1. PICK i \in 1..Len(drops') : drops'[i].name = p
        BY <2>4 DEF DroppedAt
      <3> QED
        BY <2>1, <3>1 DEF DroppedAt
    <2> QED
      BY <2>2, <2>3, <2>4
  <1> HIDE DEF path
  <1>6. EntriesHaveNodes'
    BY <1>3, <1>4, <1>5 DEF TrieInv, EntriesHaveNodes
  <1>7. ASSUME NEW p \in DOMAIN nodes' PROVE NodeRuled(p)'
    <2>1. CASE p = path
      BY <1>3, <1>4, <1>5, <2>1 DEF NodeRuled
    <2>2. CASE p # path /\ p \in DOMAIN nodes
      BY <1>3, <1>4, <1>5, <2>2 DEF TrieInv, NodeRuled
    <2>3. CASE p # path /\ p \notin DOMAIN nodes
      <3>1. ~DroppedAt(p)
        <4>1. CASE p \in Domains
          BY <2>3, <4>1 DEF TrieInv, EntriesHaveNodes
        <4>2. CASE p \notin Domains
          BY <4>2, EntryFacts DEF DroppedAt, TrieInv
        <4> QED
          BY <4>1, <4>2
      <3> QED
        BY <1>3, <1>4, <1>5, <2>3, <3>1 DEF NodeRuled
    <2> QED
      BY <2>1, <2>2, <2>3
  <1> QED
    BY <1>2, <1>3, <1>6, <1>7 DEF TrieInv

\* A redirect overrides what is at its node, an earlier redirect too.
LEMMA RedirectInv ==
    ASSUME TrieInv, NEW pattern \in Patterns, NEW t \in Targets, insert_redirect(pattern, t)
    PROVE  TrieInv'
  <1> DEFINE path == pattern.name
             k == Len(redirects) + 1
  <1>1. /\ redirects' = Append(redirects, <<pattern, t>>) /\ drops' = drops
        /\ insert_with_policy(pattern, Redirect(t)) /\ path \in Domains
        /\ redirects \in Seq(Patterns \X Targets)
    BY DEF insert_redirect, TrieInv, ListsTyped, Patterns
  <1>2. ListsTyped'
    BY <1>1 DEF TrieInv, ListsTyped
  <1>3. /\ PathsClosed' /\ path \in DOMAIN nodes' /\ nodes'[path] = Redirect(t)
        /\ DOMAIN nodes \subseteq DOMAIN nodes'
        /\ \A p \in DOMAIN nodes' : p # path =>
              nodes'[p] = IF p \in DOMAIN nodes THEN nodes[p] ELSE None
    BY <1>1, InsertFacts
  <1>4. \A p : DroppedAt(p)' <=> DroppedAt(p)
    BY <1>1 DEF DroppedAt
  <1>5. /\ Len(redirects') = k /\ k \in Nat \ {0} /\ Len(redirects) = k - 1
        /\ \A i \in 1..(k - 1) : redirects'[i] = redirects[i]
        /\ redirects'[k] = <<pattern, t>>
    BY <1>1
  <1> HIDE DEF k
  <1>6. \A p : p # path => RedirectsAt(p)' = RedirectsAt(p)
    BY <1>5 DEF RedirectsAt
  <1>7. k \in RedirectsAt(path)' /\ \A i \in RedirectsAt(path)' : i <= k
    BY <1>5 DEF RedirectsAt
  <1>8. \A p : \A i \in RedirectsAt(p) : redirects'[i] = redirects[i]
    BY <1>5 DEF RedirectsAt
  <1> HIDE DEF path
  <1>9. EntriesHaveNodes'
    BY <1>3, <1>4, <1>6 DEF TrieInv, EntriesHaveNodes
  <1>10. ASSUME NEW p \in DOMAIN nodes' PROVE NodeRuled(p)'
    <2>1. CASE p = path
      <3>1. ASSUME NEW i \in RedirectsAt(path)', \A j \in RedirectsAt(path)' : j <= i
            PROVE  i = k
        <4>1. i \in Nat /\ i <= k /\ k <= i
          BY <1>5, <1>7, <3>1 DEF RedirectsAt
        <4> QED
          BY <1>5, <4>1
      <3>2. redirects'[k][2] = t /\ RedirectsAt(path)' # {}
        BY <1>5, <1>7
      <3> QED
        BY <1>3, <2>1, <3>1, <3>2 DEF NodeRuled
    <2>2. CASE p # path /\ p \in DOMAIN nodes
      <3>1. NodeRuled(p) /\ nodes'[p] = nodes[p] /\ RedirectsAt(p)' = RedirectsAt(p)
        BY <1>3, <1>6, <2>2 DEF TrieInv
      <3> QED
        BY <1>4, <1>8, <3>1 DEF NodeRuled
    <2>3. CASE p # path /\ p \notin DOMAIN nodes
      <3>1. ~DroppedAt(p) /\ RedirectsAt(p) = {}
        <4>1. CASE p \in Domains
          BY <2>3, <4>1 DEF TrieInv, EntriesHaveNodes
        <4>2. CASE p \notin Domains
          BY <4>2, EntryFacts DEF DroppedAt, RedirectsAt, TrieInv
        <4> QED
          BY <4>1, <4>2
      <3> QED
        BY <1>3, <1>4, <1>6, <2>3, <3>1 DEF NodeRuled
    <2> QED
      BY <2>1, <2>2, <2>3
  <1> QED
    BY <1>2, <1>3, <1>9, <1>10 DEF TrieInv

\* The trie under construction says what the lists inserted so far say.
THEOREM TrieInvariant == Spec => []TrieInv
  <1>1. Init => TrieInv
    <2> SUFFICES ASSUME Init PROVE TrieInv
      OBVIOUS
    <2>1. /\ drops = <<>> /\ redirects = <<>> /\ DOMAIN nodes = {Root} /\ nodes[Root] = None
      BY DEF Init
    <2>2. \A p : RedirectsAt(p) = {} /\ ~DroppedAt(p)
      BY <2>1 DEF RedirectsAt, DroppedAt
    <2>3. ListsTyped /\ PathsClosed
      BY <2>1 DEF ListsTyped, PathsClosed, Root
    <2> QED
      BY <2>1, <2>2, <2>3 DEF TrieInv, EntriesHaveNodes, NodeRuled
  <1>2. TrieInv /\ UNCHANGED vars => TrieInv'
    BY DEF vars, TrieInv, ListsTyped, PathsClosed, EntriesHaveNodes, NodeRuled, RedirectsAt,
           DroppedAt
  <1>3. TrieInv /\ [Next]_vars => TrieInv'
    BY <1>2, DropInv, RedirectInv DEF Next
  <1> QED
    BY <1>1, <1>3, PTL DEF Spec

-----------------------------------------------------------------------------
(* Lookups.                                                                 *)

RuledAt(p) == RedirectsAt(p) # {} \/ DroppedAt(p)

\* A node on the way to a name has a policy exactly when an entry names its path.
LEMMA PolicyIsListed ==
    ASSUME TrieInv, NEW p \in Domains
    PROVE  /\ RuledAt(p) => p \in DOMAIN nodes /\ nodes[p] # None
           /\ p \in DOMAIN nodes /\ nodes[p] # None => RuledAt(p)
  <1>1. RuledAt(p) => p \in DOMAIN nodes
    BY DEF TrieInv, EntriesHaveNodes, RuledAt
  <1>2. p \in DOMAIN nodes => NodeRuled(p)
    BY DEF TrieInv
  <1>3. CASE RedirectsAt(p) # {}
    <2>1. Len(redirects) \in Nat /\ RedirectsAt(p) \in SUBSET (1..Len(redirects))
      BY DEF TrieInv, ListsTyped, RedirectsAt
    <2>2. PICK i \in RedirectsAt(p) : \A j \in RedirectsAt(p) : j <= i
      BY <1>3, <2>1, UpToMax
    <2> QED
      BY <1>1, <1>2, <1>3, <2>2, PoliciesDiffer DEF NodeRuled, RuledAt
  <1>4. CASE RedirectsAt(p) = {}
    BY <1>1, <1>2, <1>4, PoliciesDiffer DEF NodeRuled, RuledAt
  <1> QED
    BY <1>3, <1>4

\* The walk stops at the entry for the shortest prefix of the name.
LEMMA LookupFinds ==
    ASSUME TrieInv, NEW d \in Domains
    PROVE  /\ (\A n \in 1..Len(d) : ~RuledAt(Prefix(d, n))) => lookup(d) = None
           /\ \A top \in 1..Len(d) :
                 /\ RuledAt(Prefix(d, top))
                 /\ \A n \in 1..Len(d) : RuledAt(Prefix(d, n)) => top <= n
                 => lookup(d) = nodes[Prefix(d, top)]
  <1> DEFINE found == {n \in 1..Len(d) : Reached(d, n) /\ nodes[Prefix(d, n)] # None}
  <1>1. lookup(d) = IF found = {} THEN None ELSE nodes[Prefix(d, CHOOSE n \in found : TRUE)]
    BY DEF lookup
  <1>2. Len(d) \in Nat
    BY DomainFacts, TrieAssumption
  <1>3. ASSUME NEW n \in 1..Len(d)
        PROVE  /\ Prefix(d, n) \in Domains
               /\ Prefix(d, n) \in DOMAIN nodes => \A m \in 1..n : Prefix(d, m) \in DOMAIN nodes
    <2>1. /\ Prefix(d, n) \in Domains /\ Len(Prefix(d, n)) = n
          /\ \A m \in 1..n : Prefix(Prefix(d, n), m) = Prefix(d, m)
      BY PrefixFacts
    <2>2. Prefix(d, n) \in DOMAIN nodes
             => \A m \in 1..Len(Prefix(d, n)) : Prefix(Prefix(d, n), m) \in DOMAIN nodes
      BY DEF TrieInv, PathsClosed
    <2> QED
      BY <2>1, <2>2
  <1>4. ASSUME NEW n \in found PROVE n \in 1..Len(d) /\ RuledAt(Prefix(d, n))
    <2>1. n \in 1..Len(d) /\ Reached(d, n) /\ nodes[Prefix(d, n)] # None
      BY <1>4
    <2>2. Prefix(d, n) \in DOMAIN nodes /\ Prefix(d, n) \in Domains
      BY <1>2, <1>3, <2>1 DEF Reached
    <2> QED
      BY <2>1, <2>2, PolicyIsListed
  <1>5. ASSUME NEW top \in 1..Len(d), RuledAt(Prefix(d, top)),
               \A n \in 1..Len(d) : RuledAt(Prefix(d, n)) => top <= n
        PROVE  found = {top}
    <2>1. Prefix(d, top) \in Domains /\ Prefix(d, top) \in DOMAIN nodes /\ nodes[Prefix(d, top)] # None
      BY <1>3, <1>5, PolicyIsListed
    <2>2. \A m \in 1..top : Prefix(d, m) \in DOMAIN nodes
      BY <1>3, <2>1
    <2>3. ASSUME NEW m \in 1..top-1 PROVE nodes[Prefix(d, m)] = None
      <3>1. m \in 1..Len(d) /\ m \in 1..top /\ ~(top <= m)
        BY <1>2
      <3>2. Prefix(d, m) \in Domains /\ Prefix(d, m) \in DOMAIN nodes /\ ~RuledAt(Prefix(d, m))
        BY <1>3, <1>5, <2>2, <3>1
      <3> QED
        BY <3>2, PolicyIsListed
    <2>4. top \in found
      BY <2>1, <2>2, <2>3 DEF Reached
    <2>5. ASSUME NEW n \in found PROVE n = top
      <3>1. n \in 1..Len(d) /\ top <= n /\ Reached(d, n)
        BY <1>4, <1>5
      <3>2. top \in 1..n-1 => nodes[Prefix(d, top)] = None
        BY <3>1 DEF Reached
      <3> QED
        BY <1>2, <2>1, <3>1, <3>2
    <2> QED
      BY <2>4, <2>5
  <1> HIDE DEF found
  <1>6. ASSUME \A n \in 1..Len(d) : ~RuledAt(Prefix(d, n)) PROVE lookup(d) = None
    BY <1>1, <1>4, <1>6
  <1>7. ASSUME NEW top \in 1..Len(d), RuledAt(Prefix(d, top)),
               \A n \in 1..Len(d) : RuledAt(Prefix(d, n)) => top <= n
        PROVE  lookup(d) = nodes[Prefix(d, top)]
    <2>1. found = {top}
      BY <1>5, <1>7
    <2>2. (CHOOSE n \in found : TRUE) = top
      BY <2>1
    <2> QED
      BY <1>1, <2>1, <2>2
  <1> QED
    BY <1>6, <1>7

\* The depths at which the lists have entries for a name.
LEMMA DepthsAreRuled ==
    ASSUME TrieInv, NEW d \in Domains
    PROVE  {Len(e.name) : e \in {e \in Listed : Covers(e, d)}}
              = {n \in 1..Len(d) : RuledAt(Prefix(d, n))}
  <1> DEFINE depths == {Len(e.name) : e \in {e \in Listed : Covers(e, d)}}
             ruled == {n \in 1..Len(d) : RuledAt(Prefix(d, n))}
  <1>0. drops \in Seq(Patterns) /\ redirects \in Seq(Patterns \X Targets)
    BY DEF TrieInv, ListsTyped
  <1>1. ASSUME NEW e \in Listed PROVE e \in Patterns /\ e.name \in Domains /\ RuledAt(e.name)
    <2>1. CASE \E i \in DOMAIN drops : e = drops[i]
      BY <2>1, EntryFacts DEF TrieInv, RuledAt, DroppedAt
    <2>2. CASE \E i \in DOMAIN redirects : e = redirects[i][1]
      BY <2>2, EntryFacts DEF TrieInv, RuledAt, RedirectsAt
    <2> QED
      BY <1>1, <2>1, <2>2 DEF Listed
  <1>2. ASSUME NEW p, RuledAt(p) PROVE \E e \in Listed : e.name = p
    <2>1. CASE DroppedAt(p)
      BY <1>0, <2>1 DEF DroppedAt, Listed
    <2>2. CASE RedirectsAt(p) # {}
      BY <1>0, <2>2 DEF RedirectsAt, Listed
    <2> QED
      BY <1>2, <2>1, <2>2 DEF RuledAt
  <1>3. ASSUME NEW n \in depths PROVE n \in ruled
    <2>1. PICK e \in Listed : Covers(e, d) /\ n = Len(e.name)
      OBVIOUS
    <2>2. Len(e.name) \in 1..MaxLabels /\ Len(e.name) <= Len(d) /\ Prefix(d, n) = e.name
      BY <1>1, <2>1, DomainFacts DEF Covers
    <2> QED
      BY <1>1, <2>1, <2>2, TrieAssumption
  <1>4. ASSUME NEW n \in ruled PROVE n \in depths
    <2>1. PICK e \in Listed : e.name = Prefix(d, n)
      BY <1>2
    <2>2. Len(e.name) = n /\ n <= Len(d)
      BY <2>1, PrefixFacts, DomainFacts, TrieAssumption
    <2>3. Covers(e, d)
      BY <2>1, <2>2 DEF Covers
    <2> QED
      BY <2>2, <2>3
  <1> QED
    BY <1>3, <1>4

\* Walking the trie gives every name what the lists say of it, for lists of any length
\* in any order and nesting (DomainTrie::build, DomainTrie::lookup).
THEOREM LookupsFollowLists == Spec => []LookupFollowsLists
  <1>1. TrieInv => LookupFollowsLists
    <2> SUFFICES ASSUME TrieInv, NEW d \in Domains PROVE lookup(d) = Ruling(d)
      BY DEF LookupFollowsLists
    <2> DEFINE depths == {Len(e.name) : e \in {e \in Listed : Covers(e, d)}}
               top == CHOOSE n \in depths : \A m \in depths : n <= m
               at == {i \in DOMAIN redirects : redirects[i][1].name = Prefix(d, top)}
    <2>1. Ruling(d) = IF depths = {} THEN None
                      ELSE IF at = {} THEN Drop
                      ELSE Redirect(redirects[CHOOSE i \in at : \A j \in at : j <= i][2])
      BY DEF Ruling
    <2>2. depths = {n \in 1..Len(d) : RuledAt(Prefix(d, n))}
      BY DepthsAreRuled
    <2>3. redirects \in Seq(Patterns \X Targets)
      BY DEF TrieInv, ListsTyped
    <2>4. at = RedirectsAt(Prefix(d, top))
      BY <2>3 DEF RedirectsAt
    <2> HIDE DEF depths, at
    <2>5. CASE depths = {}
      BY <2>1, <2>2, <2>5, LookupFinds
    <2>6. CASE depths # {}
      <3>1. Len(d) \in Nat /\ depths \in SUBSET Nat
        BY <2>2, DomainFacts, TrieAssumption
      <3>2. top \in depths /\ \A m \in depths : top <= m
        <4>1. \E n \in depths : \A m \in depths : n <= m
          BY <2>6, <3>1, NatMin
        <4> QED
          BY <4>1
      <3> HIDE DEF top
      <3>3. top \in 1..Len(d) /\ RuledAt(Prefix(d, top)) /\ Prefix(d, top) \in Domains
        BY <2>2, <3>2, PrefixFacts
      <3>4. lookup(d) = nodes[Prefix(d, top)]
        BY <2>2, <3>2, <3>3, LookupFinds
      <3>5. NodeRuled(Prefix(d, top))
        BY <3>3, PolicyIsListed DEF TrieInv
      <3>6. CASE at = {}
        BY <2>1, <2>4, <2>6, <3>3, <3>4, <3>5, <3>6 DEF NodeRuled, RuledAt
      <3>7. CASE at # {}
        <4> DEFINE last == CHOOSE i \in at : \A j \in at : j <= i
        <4>1. Len(redirects) \in Nat /\ at \in SUBSET (1..Len(redirects))
          BY <2>3, <2>4 DEF RedirectsAt
        <4>2. \E i \in at : \A j \in at : j <= i
          BY <3>7, <4>1, UpToMax
        <4>3. last \in at /\ \A j \in at : j <= last
          BY <4>2
        <4> HIDE DEF last
        <4>4. nodes[Prefix(d, top)] = Redirect(redirects[last][2])
          BY <2>4, <3>5, <4>3 DEF NodeRuled
        <4> QED
          BY <2>1, <2>6, <3>4, <3>7, <4>4 DEF last
      <3> QED
        BY <3>6, <3>7
    <2> QED
      BY <2>5, <2>6
  <1> QED
    BY <1>1, TrieInvariant, PTL

\* A name whose cached answers a reload purges is ruled by the new trie
\* (matches_domain_pattern against DomainTrie::lookup).
THEOREM PurgedNamesAreRuled == Spec => []PurgedIsRuled
  <1>1. TrieInv => PurgedIsRuled
    <2> SUFFICES ASSUME TrieInv, NEW d \in Domains, NEW i \in DOMAIN drops,
                        matches_domain_pattern(d, drops[i])
                 PROVE  lookup(d) # None
      BY DEF PurgedIsRuled
    <2> DEFINE k == Len(drops[i].name)
               ruled == {n \in 1..Len(d) : RuledAt(Prefix(d, n))}
    <2>1. drops \in Seq(Patterns) /\ i \in 1..Len(drops) /\ drops[i] \in Patterns
      BY DEF TrieInv, ListsTyped
    <2>2. drops[i].name \in Domains /\ DroppedAt(drops[i].name)
      BY <2>1 DEF Patterns, DroppedAt
    <2>3. k \in 1..Len(d) /\ Prefix(d, k) = drops[i].name /\ Len(d) \in Nat
      <3>1. Len(d) \in 1..MaxLabels /\ k \in 1..MaxLabels /\ MaxLabels \in Nat
        BY <2>2, DomainFacts, TrieAssumption
      <3>2. Prefix(d, Len(d)) = d
        BY <3>1, PrefixFacts
      <3> QED
        BY <3>1, <3>2 DEF matches_domain_pattern
    <2>4. k \in ruled /\ ruled \in SUBSET Nat
      BY <2>2, <2>3 DEF RuledAt
    <2>5. PICK top \in ruled : \A n \in ruled : top <= n
      BY <2>4, NatMin
    <2>6. lookup(d) = nodes[Prefix(d, top)]
      BY <2>5, LookupFinds
    <2> QED
      BY <2>5, <2>6, PrefixFacts, PolicyIsListed
  <1> QED
    BY <1>1, TrieInvariant, PTL

-----------------------------------------------------------------------------
(* The LRU list.                                                            *)

\* An entry of the list; what the map has for it.
LruEntries == [key : Keys, packet : Abstract!Packets, left : 0..TtlMax]
ValueOf(e) == [packet |-> e.packet, left |-> e.left]

\* The keys of a list are distinct; each was used since the keys behind it were.
KeysOnce(s) == \A i, j \in 1..Len(s) : s[i].key = s[j].key => i = j
MostRecentFirst(s, used) ==
    \A i, j \in 1..Len(s) : i < j => s[i].key \in used[s[j].key]

LruInv ==
    /\ lru \in Seq(LruEntries) /\ since \in [Keys -> SUBSET Keys]
    /\ Len(lru) <= CacheCap
    /\ KeysOnce(lru)
    /\ MostRecentFirst(lru, since)

\* The map has the value of each entry under its key, and nothing else.
Stands(m, s) ==
    /\ m = [k \in Keys |-> m[k]]
    /\ \A i \in 1..Len(s) : m[s[i].key] = ValueOf(s[i])
    /\ \A k \in Keys \ KeysOf(s) : m[k] = NoEntry

\* Mapped is the map that the list stands for.
LEMMA MappedStands == LruInv => Stands(Mapped, lru)
  <1> SUFFICES ASSUME LruInv PROVE Stands(Mapped, lru)
    OBVIOUS
  <1>1. DOMAIN lru = 1..Len(lru) /\ \A i \in 1..Len(lru) : lru[i] \in LruEntries
    BY DEF LruInv
  <1>2. ASSUME NEW i \in 1..Len(lru)
        PROVE  lru[i].key \in Keys /\ lru[i].key \in KeysOf(lru) /\ PosOf(lru[i].key) = i
    <2>1. lru[i].key \in Keys /\ lru[i].key \in KeysOf(lru)
      BY <1>1 DEF KeysOf, LruEntries
    <2>2. \A j \in DOMAIN lru : lru[j].key = lru[i].key => j = i
      BY <1>1 DEF LruInv, KeysOnce
    <2> QED BY <1>1, <2>1, <2>2 DEF PosOf
  <1>3. \A i \in 1..Len(lru) : Mapped[lru[i].key] = ValueOf(lru[i])
    BY <1>2 DEF Mapped, EntryOf, ValueOf
  <1>4. \A k \in Keys \ KeysOf(lru) : Mapped[k] = NoEntry
    BY DEF Mapped
  <1>5. Mapped = [k \in Keys |-> Mapped[k]]
    BY DEF Mapped
  <1> QED BY <1>3, <1>4, <1>5 DEF Stands

Represented == Stands(Mapped, lru)

\* It is so after a step, too.
LEMMA MappedNext == LruInv' => Stands(Mapped', lru')
  <1>1. LruInv => Represented
    BY MappedStands DEF Represented
  <1>2. LruInv' => Represented'
    BY <1>1, PTL
  <1> QED BY <1>2 DEF Represented

\* The key of an entry is a key.
LEMMA EntryKey == \A e \in LruEntries : e.key \in Keys
  BY DEF LruEntries

\* Two maps that stand for lists agree where the lists do.
LEMMA StandsFor ==
    ASSUME NEW s \in Seq(LruEntries), NEW m, Stands(m, s), NEW k \in Keys
    PROVE  /\ k \in KeysOf(s) <=> \E i \in 1..Len(s) : s[i].key = k
           /\ \A i \in 1..Len(s) : s[i].key = k => m[k] = ValueOf(s[i])
           /\ ~(\E i \in 1..Len(s) : s[i].key = k) => m[k] = NoEntry
           /\ m[k] = NoEntry <=> k \notin KeysOf(s)
  <1>1. DOMAIN s = 1..Len(s) /\ \A i \in 1..Len(s) : s[i] \in LruEntries
    OBVIOUS
  <1>2. k \in KeysOf(s) <=> \E i \in 1..Len(s) : s[i].key = k
    BY <1>1 DEF KeysOf
  <1>3. \A i \in 1..Len(s) : s[i].key = k => m[k] = ValueOf(s[i])
    BY DEF Stands
  <1>4. ~(\E i \in 1..Len(s) : s[i].key = k) => m[k] = NoEntry
    BY <1>2 DEF Stands
  <1>5. \A i \in 1..Len(s) : ValueOf(s[i]) \in Abstract!Entries
    BY <1>1 DEF ValueOf, LruEntries, Abstract!Entries
  <1> QED BY <1>2, <1>3, <1>4, <1>5, LruNoEntryAssumption

\* The elements of two lists put together.
LEMMA ConcatFacts ==
    ASSUME NEW S, NEW a \in Seq(S), NEW b \in Seq(S)
    PROVE  /\ a \o b \in Seq(S) /\ Len(a \o b) = Len(a) + Len(b)
           /\ \A i \in 1..Len(a) : (a \o b)[i] = a[i]
           /\ \A i \in 1..Len(b) : (a \o b)[Len(a) + i] = b[i]
  OBVIOUS

\* The list without a key.
LEMMA WithoutFacts ==
    ASSUME LruInv, NEW k \in Keys, k \in KeysOf(lru)
    PROVE  /\ PosOf(k) \in 1..Len(lru) /\ lru[PosOf(k)].key = k
           /\ EntryOf(k) \in LruEntries /\ EntryOf(k).key = k
           /\ Without(k) \in Seq(LruEntries) /\ Len(Without(k)) = Len(lru) - 1
           /\ \A i \in 1..Len(Without(k)) :
                 Without(k)[i] = lru[IF i < PosOf(k) THEN i ELSE i + 1]
  <1> DEFINE p == PosOf(k)
  <1>1. p \in 1..Len(lru) /\ lru[p].key = k
    BY DEF LruInv, PosOf, KeysOf
  <1>2. EntryOf(k) \in LruEntries /\ EntryOf(k).key = k
    BY <1>1 DEF EntryOf, LruInv
  <1>3. Without(k) = SubSeq(lru, 1, p - 1) \o SubSeq(lru, p + 1, Len(lru))
    BY DEF Without, RemoveAt
  <1> HIDE DEF p
  <1>4. lru \in Seq(LruEntries) /\ Len(lru) \in Nat
    BY DEF LruInv
  <1>5. /\ SubSeq(lru, 1, p - 1) \in Seq(LruEntries) /\ Len(SubSeq(lru, 1, p - 1)) = p - 1
        /\ \A i \in 1..(p - 1) : SubSeq(lru, 1, p - 1)[i] = lru[i]
    BY <1>1, <1>4
  <1>6. /\ SubSeq(lru, p + 1, Len(lru)) \in Seq(LruEntries)
        /\ Len(SubSeq(lru, p + 1, Len(lru))) = Len(lru) - p
        /\ \A i \in 1..(Len(lru) - p) : SubSeq(lru, p + 1, Len(lru))[i] = lru[p + i]
    BY <1>1, <1>4
  <1>7. /\ Without(k) \in Seq(LruEntries) /\ Len(Without(k)) = Len(lru) - 1
        /\ \A i \in 1..(Len(lru) - 1) : Without(k)[i] = lru[IF i < p THEN i ELSE i + 1]
    <2> DEFINE a == SubSeq(lru, 1, p - 1)
               b == SubSeq(lru, p + 1, Len(lru))
    <2>1. a \in Seq(LruEntries) /\ b \in Seq(LruEntries)
      BY <1>5, <1>6
    <2>2. Len(a) = p - 1 /\ Len(b) = Len(lru) - p
      BY <1>5, <1>6
    <2>3. Without(k) = a \o b
      BY <1>3
    <2>4. /\ \A i \in 1..(p - 1) : a[i] = lru[i]
          /\ \A i \in 1..(Len(lru) - p) : b[i] = lru[p + i]
      BY <1>5, <1>6
    <2> HIDE DEF a, b
    <2>A. /\ a \o b \in Seq(LruEntries) /\ Len(a \o b) = Len(a) + Len(b)
          /\ \A i \in 1..Len(a) : (a \o b)[i] = a[i]
          /\ \A i \in 1..Len(b) : (a \o b)[Len(a) + i] = b[i]
      BY <2>1, ConcatFacts
    <2>5. ASSUME NEW i \in 1..(Len(lru) - 1), i < p PROVE Without(k)[i] = lru[i]
      BY <1>1, <2>A, <2>2, <2>3, <2>4, <2>5
    <2>6. ASSUME NEW i \in 1..(Len(lru) - 1), ~(i < p) PROVE Without(k)[i] = lru[i + 1]
      <3>1. i + 1 - p \in 1..(Len(lru) - p) /\ p + (i + 1 - p) = i + 1 /\ p - 1 + (i + 1 - p) = i
        BY <1>1, <1>4, <2>6
      <3> QED BY <2>A, <2>2, <2>3, <2>4, <3>1
    <2>G. Without(k) \in Seq(LruEntries) /\ Len(Without(k)) = Len(lru) - 1
      BY <1>1, <1>4, <2>A, <2>2, <2>3
    <2> QED BY <2>5, <2>6, <2>G
  <1> QED BY <1>1, <1>2, <1>7 DEF p

\* A key used now has no key used since, all others have.
LEMMA UsedFacts ==
    ASSUME LruInv, NEW k \in Keys, Used(k)
    PROVE  /\ since' \in [Keys -> SUBSET Keys]
           /\ \A j \in Keys \ {k} : since[j] \subseteq since'[j] /\ k \in since'[j]
  BY DEF LruInv, Used

\* An entry put in front of a list without its key.
LEMMA PutInFront ==
    ASSUME NEW e \in LruEntries, NEW s \in Seq(LruEntries), KeysOnce(s),
           \A i \in 1..Len(s) : s[i].key # e.key
    PROVE  /\ <<e>> \o s \in Seq(LruEntries) /\ Len(<<e>> \o s) = Len(s) + 1
           /\ (<<e>> \o s)[1] = e
           /\ \A i \in 2..(Len(s) + 1) : (<<e>> \o s)[i] = s[i - 1]
           /\ KeysOnce(<<e>> \o s)
           /\ \A k \in Keys : k \in KeysOf(<<e>> \o s) <=> k = e.key \/ k \in KeysOf(s)
  <1> DEFINE t == <<e>> \o s
  <1>1. <<e>> \in Seq(LruEntries) /\ Len(<<e>>) = 1 /\ <<e>>[1] = e
    OBVIOUS
  <1>2. /\ t \in Seq(LruEntries) /\ Len(t) = Len(s) + 1
        /\ t[1] = e /\ \A i \in 1..Len(s) : t[1 + i] = s[i]
    BY <1>1, ConcatFacts
  <1> HIDE DEF t
  <1>3. \A i \in 2..(Len(s) + 1) : t[i] = s[i - 1] /\ i - 1 \in 1..Len(s)
    <2> TAKE i \in 2..(Len(s) + 1)
    <2>1. i - 1 \in 1..Len(s) /\ 1 + (i - 1) = i
      OBVIOUS
    <2> QED BY <1>2, <2>1
  <1>4. KeysOnce(t)
    <2> SUFFICES ASSUME NEW i \in 1..Len(t), NEW j \in 1..Len(t), t[i].key = t[j].key
                 PROVE  i = j
      BY DEF KeysOnce
    <2>1. CASE i = 1 /\ j = 1
      BY <2>1
    <2>2. CASE i = 1 /\ j # 1
      <3>1. j \in 2..(Len(s) + 1)
        BY <1>2, <2>2
      <3> QED BY <1>2, <1>3, <2>2, <3>1
    <2>3. CASE i # 1 /\ j = 1
      <3>1. i \in 2..(Len(s) + 1)
        BY <1>2, <2>3
      <3> QED BY <1>2, <1>3, <2>3, <3>1
    <2>4. CASE i # 1 /\ j # 1
      <3>1. i \in 2..(Len(s) + 1) /\ j \in 2..(Len(s) + 1)
        BY <1>2, <2>4
      <3>2. i - 1 = j - 1
        BY <1>3, <3>1 DEF KeysOnce
      <3> QED BY <3>2
    <2> QED BY <2>1, <2>2, <2>3, <2>4
  <1>5. ASSUME NEW k \in Keys PROVE k \in KeysOf(t) <=> k = e.key \/ k \in KeysOf(s)
    <2>1. DOMAIN t = 1..(Len(s) + 1) /\ DOMAIN s = 1..Len(s)
      BY <1>2
    <2>2. k \in KeysOf(t) => k = e.key \/ k \in KeysOf(s)
      <3> SUFFICES ASSUME NEW i \in 1..(Len(s) + 1), k = t[i].key, i # 1 PROVE k \in KeysOf(s)
        BY <1>2, <2>1 DEF KeysOf
      <3> QED BY <1>3, <2>1 DEF KeysOf
    <2>3. k = e.key => k \in KeysOf(t)
      BY <1>2, <2>1 DEF KeysOf
    <2>4. k \in KeysOf(s) => k \in KeysOf(t)
      <3> SUFFICES ASSUME NEW i \in 1..Len(s), k = s[i].key PROVE k \in KeysOf(t)
        BY <2>1 DEF KeysOf
      <3>1. 1 + i \in DOMAIN t /\ t[1 + i] = s[i]
        BY <1>2, <2>1
      <3> QED BY <3>1 DEF KeysOf
    <2> QED BY <2>2, <2>3, <2>4
  <1> QED BY <1>2, <1>3, <1>4, <1>5 DEF t

\* A use of k puts an entry for k in front of what is left of the others: the order of
\* use is kept.
LEMMA FrontMostRecent ==
    ASSUME LruInv, NEW e \in LruEntries, Used(e.key), NEW s \in Seq(LruEntries),
           KeysOnce(s), MostRecentFirst(s, since),
           \A i \in 1..Len(s) : s[i].key # e.key
    PROVE  MostRecentFirst(<<e>> \o s, since')
  <1> DEFINE t == <<e>> \o s
  <1>1. /\ t \in Seq(LruEntries) /\ Len(t) = Len(s) + 1 /\ t[1] = e
        /\ \A i \in 2..(Len(s) + 1) : t[i] = s[i - 1]
    BY PutInFront
  <1> HIDE DEF t
  <1>2. \A i \in 1..Len(s) : s[i].key \in Keys \ {e.key}
    <2>1. \A i \in 1..Len(s) : s[i] \in LruEntries
      OBVIOUS
    <2>2. \A x \in LruEntries : x.key \in Keys
      BY DEF LruEntries
    <2> QED BY <2>1, <2>2
  <1>3. e.key \in Keys
    BY DEF LruEntries
  <1>4. \A j \in Keys \ {e.key} : since[j] \subseteq since'[j] /\ e.key \in since'[j]
    BY <1>3, UsedFacts
  <1> SUFFICES ASSUME NEW i \in 1..Len(t), NEW j \in 1..Len(t), i < j
               PROVE  t[i].key \in since'[t[j].key]
    BY DEF MostRecentFirst, t
  <1>5. j \in 2..(Len(s) + 1) /\ j - 1 \in 1..Len(s)
    BY <1>1
  <1>6. CASE i = 1
    BY <1>1, <1>2, <1>4, <1>5, <1>6
  <1>7. CASE i # 1
    <2>1. i \in 2..(Len(s) + 1) /\ i - 1 \in 1..Len(s) /\ i - 1 < j - 1
      BY <1>1, <1>7
    <2>2. s[i - 1].key \in since[s[j - 1].key]
      BY <1>5, <2>1 DEF MostRecentFirst
    <2> QED BY <1>1, <1>2, <1>4, <1>5, <2>1, <2>2
  <1> QED BY <1>6, <1>7

\* t has entries of the list only.
Taken(t) == \A i \in 1..Len(t) : \E j \in 1..Len(lru) : t[i] = lru[j]

\* Entries of the list that keep their order have distinct keys in the order of use.
LEMMA ThinnedFacts ==
    ASSUME LruInv, NEW t \in Seq(LruEntries), NEW at \in [1..Len(t) -> 1..Len(lru)],
           \A i, j \in 1..Len(t) : i < j => at[i] < at[j],
           \A i \in 1..Len(t) : t[i] = lru[at[i]]
    PROVE  KeysOnce(t) /\ MostRecentFirst(t, since) /\ Taken(t)
  <1>1. \A i \in 1..Len(t) : at[i] \in 1..Len(lru)
    OBVIOUS
  <1>2. ASSUME NEW i \in 1..Len(t), NEW j \in 1..Len(t), t[i].key = t[j].key PROVE i = j
    <2>1. at[i] = at[j]
      <3>1. lru[at[i]].key = lru[at[j]].key /\ at[i] \in 1..Len(lru) /\ at[j] \in 1..Len(lru)
        BY <1>1, <1>2
      <3> QED BY <3>1 DEF LruInv, KeysOnce
    <2>2. at[i] \in Int /\ i \in Int /\ j \in Int
      BY <1>1
    <2> QED BY <2>1, <2>2
  <1>3. \A i, j \in 1..Len(t) : i < j => t[i].key \in since[t[j].key]
    BY <1>1 DEF LruInv, MostRecentFirst
  <1> QED BY <1>1, <1>2, <1>3 DEF KeysOnce, MostRecentFirst, Taken

\* The map that such entries stand for has of Mapped what they hold.
LEMMA MapOfTaken ==
    ASSUME LruInv, NEW t \in Seq(LruEntries), Taken(t), NEW m, Stands(m, t), NEW k \in Keys
    PROVE  m[k] = IF k \in KeysOf(t) THEN Mapped[k] ELSE NoEntry
  <1>1. Stands(Mapped, lru) /\ lru \in Seq(LruEntries)
    BY MappedStands DEF LruInv
  <1>2. CASE k \in KeysOf(t)
    <2>1. PICK i \in 1..Len(t) : t[i].key = k
      BY <1>2, StandsFor
    <2>2. PICK j \in 1..Len(lru) : t[i] = lru[j]
      BY DEF Taken
    <2>3. m[k] = ValueOf(t[i])
      BY <2>1, StandsFor
    <2>4. Mapped[k] = ValueOf(lru[j])
      BY <1>1, <2>1, <2>2, StandsFor
    <2> QED BY <1>2, <2>2, <2>3, <2>4
  <1>3. CASE k \notin KeysOf(t)
    BY <1>3 DEF Stands
  <1> QED BY <1>2, <1>3

\* With an entry put in front of them, it has that one besides.
LEMMA MapOfFront ==
    ASSUME LruInv, NEW e \in LruEntries, NEW t \in Seq(LruEntries), Taken(t), KeysOnce(t),
           \A i \in 1..Len(t) : t[i].key # e.key,
           NEW m, Stands(m, <<e>> \o t), NEW k \in Keys
    PROVE  m[k] = IF k = e.key THEN ValueOf(e)
                  ELSE IF k \in KeysOf(t) THEN Mapped[k] ELSE NoEntry
  <1> DEFINE s == <<e>> \o t
  <1>1. Stands(Mapped, lru) /\ lru \in Seq(LruEntries)
    BY MappedStands DEF LruInv
  <1>2. /\ s \in Seq(LruEntries) /\ Len(s) = Len(t) + 1 /\ s[1] = e
        /\ \A i \in 2..(Len(t) + 1) : s[i] = t[i - 1]
        /\ k \in KeysOf(s) <=> k = e.key \/ k \in KeysOf(t)
    BY PutInFront
  <1>3. Stands(m, s)
    OBVIOUS
  <1> HIDE DEF s
  <1>4. CASE k = e.key
    <2>1. 1 \in 1..Len(s)
      BY <1>2
    <2>2. m[s[1].key] = ValueOf(s[1])
      BY <1>3, <2>1 DEF Stands
    <2> QED BY <1>2, <1>4, <2>2
  <1>5. CASE k # e.key /\ k \in KeysOf(t)
    <2>1. PICK i \in 1..Len(t) : t[i].key = k
      BY <1>5 DEF KeysOf
    <2>2. PICK j \in 1..Len(lru) : t[i] = lru[j]
      BY DEF Taken
    <2>3. i + 1 \in 2..(Len(t) + 1) /\ i + 1 \in 1..Len(s) /\ (i + 1) - 1 = i
      BY <1>2
    <2>4. s[i + 1] = t[i]
      BY <1>2, <2>3
    <2>5. m[k] = ValueOf(t[i])
      BY <1>2, <1>3, <2>1, <2>3, <2>4, StandsFor
    <2>6. Mapped[k] = ValueOf(lru[j])
      BY <1>1, <2>1, <2>2, StandsFor
    <2> QED BY <1>5, <2>2, <2>5, <2>6
  <1>6. CASE k # e.key /\ k \notin KeysOf(t)
    BY <1>2, <1>3, <1>6 DEF Stands
  <1> QED BY <1>4, <1>5, <1>6

\* The list without a key has its other entries in their order.
LEMMA WithoutKept ==
    ASSUME LruInv, NEW k \in Keys, k \in KeysOf(lru)
    PROVE  /\ KeysOnce(Without(k)) /\ MostRecentFirst(Without(k), since) /\ Taken(Without(k))
           /\ \A i \in 1..Len(Without(k)) : Without(k)[i].key # k
           /\ \A j \in Keys : j \in KeysOf(Without(k)) <=> j # k /\ j \in KeysOf(lru)
  <1> DEFINE w == Without(k)
             p == PosOf(k)
  <1>1. /\ p \in 1..Len(lru) /\ lru[p].key = k
        /\ w \in Seq(LruEntries) /\ Len(w) = Len(lru) - 1
        /\ \A i \in 1..Len(w) : w[i] = lru[IF i < p THEN i ELSE i + 1]
    BY WithoutFacts
  <1>2. DOMAIN w = 1..Len(w) /\ DOMAIN lru = 1..Len(lru) /\ Len(lru) \in Nat
    BY <1>1 DEF LruInv
  <1> HIDE DEF w, p
  <1> DEFINE at == [i \in 1..Len(w) |-> IF i < p THEN i ELSE i + 1]
  <1>3. /\ at \in [1..Len(w) -> 1..Len(lru)]
        /\ \A i, j \in 1..Len(w) : i < j => at[i] < at[j]
        /\ \A i \in 1..Len(w) : w[i] = lru[at[i]] /\ at[i] # p
    BY <1>1, <1>2
  <1>4. KeysOnce(w) /\ MostRecentFirst(w, since) /\ Taken(w)
    <2> HIDE DEF at
    <2> QED BY <1>1, <1>3, ThinnedFacts
  <1>5. \A i \in 1..Len(w) : w[i].key # k
    <2> HIDE DEF at
    <2> QED BY <1>1, <1>3 DEF LruInv, KeysOnce
  <1>6. ASSUME NEW j \in Keys PROVE j \in KeysOf(w) <=> j # k /\ j \in KeysOf(lru)
    <2>1. j \in KeysOf(w) => j # k /\ j \in KeysOf(lru)
      <3> HIDE DEF at
      <3> QED BY <1>2, <1>3, <1>5 DEF KeysOf
    <2>2. ASSUME j # k, j \in KeysOf(lru) PROVE j \in KeysOf(w)
      <3>1. PICK i \in 1..Len(lru) : lru[i].key = j
        BY <1>2, <2>2 DEF KeysOf
      <3>2. i # p
        BY <1>1, <2>2, <3>1
      <3> DEFINE n == IF i < p THEN i ELSE i - 1
      <3>3. n \in 1..Len(w) /\ at[n] = i
        BY <1>1, <1>2, <3>2
      <3> HIDE DEF n, at
      <3> QED BY <1>2, <1>3, <3>1, <3>3 DEF KeysOf
    <2> QED BY <2>1, <2>2
  <1> QED BY <1>4, <1>5, <1>6 DEF w

\* There are m numbers from 1 to m.
LEMMA UpToCounted ==
    ASSUME NEW m \in Nat PROVE IsFiniteSet(1..m) /\ Cardinality(1..m) = m
  BY FS_Interval

\* The number of entries is the number of keys that have one.
LEMMA EntriesCounted ==
    ASSUME LruInv
    PROVE  Abstract!Cached = KeysOf(lru) /\ Cardinality(KeysOf(lru)) = Len(lru)
  <1>1. lru \in Seq(LruEntries) /\ Stands(Mapped, lru) /\ DOMAIN lru = 1..Len(lru)
    BY MappedStands DEF LruInv
  <1>2. KeysOf(lru) \subseteq Keys
    <2>1. \A e \in LruEntries : e.key \in Keys
      BY DEF LruEntries
    <2> QED BY <1>1, <2>1 DEF KeysOf
  <1>3. Abstract!Keys = Keys
    BY DEF Abstract!Keys, Keys
  <1>4. Abstract!Cached = KeysOf(lru)
    BY <1>1, <1>2, <1>3, StandsFor DEF Abstract!Cached
  <1> DEFINE f == [i \in 1..Len(lru) |-> lru[i].key]
  <1>5. f \in Bijection(1..Len(lru), KeysOf(lru))
    <2>1. f \in [1..Len(lru) -> KeysOf(lru)]
      BY <1>1 DEF KeysOf
    <2>2. \A i, j \in 1..Len(lru) : f[i] = f[j] => i = j
      BY DEF LruInv, KeysOnce
    <2>3. \A k \in KeysOf(lru) : \E i \in 1..Len(lru) : f[i] = k
      BY <1>1 DEF KeysOf
    <2> HIDE DEF f
    <2> QED BY <2>1, <2>2, <2>3 DEF Bijection, Injection, Surjection, IsInjective
  <1>6. IsFiniteSet(1..Len(lru)) /\ Cardinality(1..Len(lru)) = Len(lru)
    BY <1>1, UpToCounted
  <1>7. ExistsBijection(1..Len(lru), KeysOf(lru))
    BY <1>5 DEF ExistsBijection
  <1> QED BY <1>4, <1>6, <1>7, FS_Bijection

\* Which entries the map may give up for a key.
LEMMA VictimsAre ==
    ASSUME LruInv, NEW k \in Keys
    PROVE  Abstract!Victims(k) = IF k \in KeysOf(lru) \/ Len(lru) < CacheCap
                                 THEN {k} ELSE KeysOf(lru)
  <1>1. Mapped[k] = NoEntry <=> k \notin KeysOf(lru)
    BY MappedStands, StandsFor DEF LruInv
  <1>2. Abstract!Cached = KeysOf(lru) /\ Cardinality(Abstract!Cached) = Len(lru)
    BY EntriesCounted
  <1>3. \A S : Abstract!Cardinality(S) = Cardinality(S)
    BY DEF Abstract!Cardinality, Cardinality
  <1> QED BY <1>1, <1>2, <1>3 DEF Abstract!Victims

-----------------------------------------------------------------------------
(* The steps.                                                               *)

\* A map that has the same value as another under every key is the same map.
LEMMA SameMap ==
    ASSUME NEW m, NEW n, m = [k \in Keys |-> m[k]], n = [k \in Keys |-> n[k]],
           \A k \in Keys : m[k] = n[k]
    PROVE  m = n
  OBVIOUS

\* Initially the list is empty, and so is the map.
LEMMA LruInitInv == ASSUME LruInit PROVE LruInv /\ Abstract!CacheInit
  <1>1. lru = <<>> /\ since = [k \in Keys |-> {}] /\ CacheCap \in Nat
    BY LruAssumption DEF LruInit
  <1>2. LruInv
    BY <1>1 DEF LruInv, KeysOnce, MostRecentFirst
  <1>3. Mapped = [k \in Keys |-> NoEntry]
    BY <1>1 DEF Mapped, KeysOf
  <1> QED BY <1>2, <1>3 DEF Abstract!CacheInit, Abstract!Keys, Keys

\* A lookup moves a live entry to the front, which the map does not show, and removes
\* an expired one.
LEMMA LookupStep ==
    ASSUME LruInv, NEW k \in Keys, cache_lookup(k)
    PROVE  LruInv' /\ (Abstract!LookupMiss(k) \/ UNCHANGED Mapped)
  <1> DEFINE e == EntryOf(k)
             w == Without(k)
  <1>1. k \in KeysOf(lru)
    BY DEF cache_lookup
  <1>2. /\ PosOf(k) \in 1..Len(lru) /\ e \in LruEntries /\ e.key = k
        /\ w \in Seq(LruEntries) /\ Len(w) = Len(lru) - 1
    BY <1>1, WithoutFacts
  <1>3. /\ KeysOnce(w) /\ MostRecentFirst(w, since) /\ Taken(w)
        /\ \A i \in 1..Len(w) : w[i].key # k
        /\ \A j \in Keys : j \in KeysOf(w) <=> j # k /\ j \in KeysOf(lru)
    BY <1>1, WithoutKept
  <1>4. lru \in Seq(LruEntries) /\ Len(lru) \in Nat /\ CacheCap \in Nat
    BY LruAssumption DEF LruInv
  <1>5. Stands(Mapped, lru) /\ Mapped[k] = ValueOf(e)
    <2>1. Stands(Mapped, lru)
      BY MappedStands
    <2> QED BY <1>2, <1>4, <2>1, StandsFor DEF EntryOf
  <1>6. LruInv' => Stands(Mapped', lru')
    BY MappedNext
  <1> HIDE DEF e, w
  <1>7. CASE e.left = 0
    <2>1. lru' = w /\ since' = since
      BY <1>7 DEF cache_lookup, e, w
    <2>2. LruInv'
      BY <1>2, <1>3, <1>4, <2>1 DEF LruInv
    <2>3. \A j \in Keys : Mapped'[j] = IF j \in KeysOf(w) THEN Mapped[j] ELSE NoEntry
      BY <1>2, <1>3, <1>6, <2>1, <2>2, MapOfTaken
    <2>4. \A j \in Keys : Mapped'[j] = [Mapped EXCEPT ![k] = NoEntry][j]
      BY <1>3, <1>4, <1>5, <2>3 DEF Stands
    <2>5. Mapped' = [Mapped EXCEPT ![k] = NoEntry]
      BY <1>5, <1>6, <2>2, <2>4, SameMap DEF Stands
    <2>6. ~Abstract!Hit(k)
      BY <1>5, <1>7 DEF Abstract!Hit, ValueOf
    <2> QED BY <2>2, <2>5, <2>6 DEF Abstract!LookupMiss
  <1>8. CASE e.left # 0
    <2>1. lru' = <<e>> \o w /\ Used(e.key)
      BY <1>2, <1>8 DEF cache_lookup, e, w
    <2>2. /\ lru' \in Seq(LruEntries) /\ Len(lru') = Len(w) + 1 /\ KeysOnce(lru')
      BY <1>2, <1>3, <2>1, PutInFront
    <2>3. MostRecentFirst(lru', since')
      BY <1>2, <1>3, <2>1, FrontMostRecent
    <2>4. since' \in [Keys -> SUBSET Keys]
      BY <1>2, <2>1, UsedFacts
    <2>5. LruInv'
      BY <1>2, <1>4, <2>2, <2>3, <2>4 DEF LruInv
    <2>6. \A j \in Keys : Mapped'[j] = IF j = e.key THEN ValueOf(e)
                                       ELSE IF j \in KeysOf(w) THEN Mapped[j] ELSE NoEntry
      <3>1. Stands(Mapped', <<e>> \o w) /\ \A i \in 1..Len(w) : w[i].key # e.key
        BY <1>2, <1>3, <1>6, <2>1, <2>5
      <3> QED BY <1>2, <1>3, <3>1, MapOfFront
    <2>7. \A j \in Keys : Mapped'[j] = Mapped[j]
      BY <1>2, <1>3, <1>5, <2>6 DEF Stands
    <2> QED BY <1>5, <1>6, <2>5, <2>7, SameMap DEF Stands
  <1> QED BY <1>7, <1>8

\* A store makes room, if it must, by the entry at the back.
LEMMA StoreStep ==
    ASSUME LruInv, NEW k \in Keys, NEW ttl \in StoredTtls, cache_store(k, ttl)
    PROVE  /\ LruInv'
           /\ \E p \in Abstract!Packets, n \in 0..TtlMax : Abstract!Store(k, p, n)
           /\ \A j \in KeysOf(lru) \ KeysOf(lru') :
                 Len(lru) = CacheCap /\ Len(lru') = CacheCap /\ j = lru[Len(lru)].key
  <1> DEFINE p == [about |-> k, old |-> 0]
             e == [key |-> k, packet |-> p, left |-> Abstract!EntryTtl(ttl)]
             full == k \notin KeysOf(lru) /\ Len(lru) = CacheCap
             t == IF full THEN Front(lru) ELSE Without(k)
  <1>1. lru' = <<e>> \o t /\ Used(k)
    BY DEF cache_store
  <1>2. /\ lru \in Seq(LruEntries) /\ Len(lru) \in Nat /\ Len(lru) <= CacheCap
        /\ CacheCap \in Nat \ {0} /\ DOMAIN lru = 1..Len(lru)
    BY LruAssumption DEF LruInv
  <1>3. p \in Abstract!Packets
    BY LruAssumption DEF Abstract!Packets, Abstract!Keys, Keys
  <1> DEFINE n == IF ttl > TtlMax THEN TtlMax ELSE ttl
  <1>4. /\ n \in 0..TtlMax /\ Abstract!EntryTtl(n) = Abstract!EntryTtl(ttl)
        /\ Abstract!EntryTtl(ttl) \in 0..TtlMax
    BY LruAssumption DEF Abstract!EntryTtl
  <1>5. e \in LruEntries /\ e.key = k /\ ValueOf(e) = [packet |-> p, left |-> Abstract!EntryTtl(n)]
    BY <1>3, <1>4 DEF LruEntries, ValueOf
  <1> DEFINE v == IF full THEN lru[Len(lru)].key ELSE k
  <1>6. /\ t \in Seq(LruEntries) /\ Len(t) < CacheCap
        /\ KeysOnce(t) /\ MostRecentFirst(t, since) /\ Taken(t)
        /\ \A i \in 1..Len(t) : t[i].key # k
        /\ \A j \in Keys : j \in KeysOf(t) <=> j # k /\ j # v /\ j \in KeysOf(lru)
        /\ v \in Keys /\ v \in Abstract!Victims(k)
        /\ full => Len(t) = CacheCap - 1
    <2> HIDE DEF e, n, p
    <2>1. Abstract!Victims(k) = IF k \in KeysOf(lru) \/ Len(lru) < CacheCap
                                THEN {k} ELSE KeysOf(lru)
      BY VictimsAre
    <2>3. CASE full
      <3>1. t = SubSeq(lru, 1, Len(lru) - 1) /\ v = lru[Len(lru)].key
        BY <2>3 DEF Front
      <3> DEFINE at == [i \in 1..(Len(lru) - 1) |-> i]
      <3>2. /\ t \in Seq(LruEntries) /\ Len(t) = Len(lru) - 1
            /\ \A i \in 1..(Len(lru) - 1) : t[i] = lru[i]
        BY <1>2, <2>3, <3>1
      <3> HIDE DEF t, v
      <3>3. KeysOnce(t) /\ MostRecentFirst(t, since) /\ Taken(t)
        <4> HIDE DEF full
        <4>1. /\ at \in [1..Len(t) -> 1..Len(lru)]
              /\ \A i, j \in 1..Len(t) : i < j => at[i] < at[j]
              /\ \A i \in 1..Len(t) : t[i] = lru[at[i]]
          BY <1>2, <3>2
        <4> HIDE DEF at
        <4> QED BY <3>2, <4>1, ThinnedFacts
      <3>4. Len(lru) \in 1..Len(lru) /\ v \in KeysOf(lru) /\ v \in Keys
        <4>1. Len(lru) \in 1..Len(lru) /\ lru[Len(lru)] \in LruEntries
          BY <1>2, <2>3
        <4> QED BY <1>2, <3>1, <4>1, EntryKey DEF KeysOf
      <3> HIDE DEF at
      <3>5. DOMAIN t = 1..(Len(lru) - 1)
        BY <3>2
      <3>6. ASSUME NEW j \in Keys
            PROVE  j \in KeysOf(t) <=> j # k /\ j # v /\ j \in KeysOf(lru)
        <4>1. ASSUME NEW i \in 1..(Len(lru) - 1), j = t[i].key
              PROVE  j # k /\ j # v /\ j \in KeysOf(lru)
          <5>1. i \in 1..Len(lru) /\ i # Len(lru) /\ j = lru[i].key
            <6>1. Len(lru) \in Nat
              BY <1>2
            <6>2. i \in 1..Len(lru) /\ i # Len(lru)
              BY <6>1
            <6>3. t[i] = lru[i]
              BY <3>2
            <6> QED BY <4>1, <6>2, <6>3
          <5>2. j \in KeysOf(lru)
            BY <1>2, <5>1 DEF KeysOf
          <5>3. j # v
            BY <3>1, <3>4, <5>1 DEF LruInv, KeysOnce
          <5> QED BY <2>3, <5>2, <5>3
        <4>2. ASSUME j # v, j \in KeysOf(lru) PROVE j \in KeysOf(t)
          <5>1. PICK i \in 1..Len(lru) : lru[i].key = j
            BY <1>2, <4>2 DEF KeysOf
          <5>2. i \in 1..(Len(lru) - 1)
            BY <1>2, <3>1, <4>2, <5>1
          <5> QED BY <3>2, <3>5, <5>1, <5>2 DEF KeysOf
        <4> QED BY <3>5, <4>1, <4>2 DEF KeysOf
      <3>7. \A i \in 1..Len(t) : t[i].key # k
        BY <1>2, <2>3, <3>2 DEF KeysOf
      <3>8. v \in Abstract!Victims(k)
        BY <1>2, <2>1, <2>3, <3>4
      <3> QED BY <1>2, <2>3, <3>2, <3>3, <3>4, <3>6, <3>7, <3>8
    <2>4. CASE k \in KeysOf(lru)
      <3>1. t = Without(k) /\ v = k
        BY <2>4
      <3>2. k \in Abstract!Victims(k)
        BY <2>1, <2>4
      <3> HIDE DEF t, v
      <3>3. t \in Seq(LruEntries) /\ Len(t) = Len(lru) - 1
        BY <2>4, <3>1, WithoutFacts
      <3>4. /\ KeysOnce(t) /\ MostRecentFirst(t, since) /\ Taken(t)
            /\ \A i \in 1..Len(t) : t[i].key # k
            /\ \A j \in Keys : j \in KeysOf(t) <=> j # k /\ j \in KeysOf(lru)
        BY <2>4, <3>1, WithoutKept
      <3>5. Len(t) < CacheCap
        BY <1>2, <3>3
      <3> QED BY <2>4, <3>1, <3>2, <3>3, <3>4, <3>5
    <2>5. CASE k \notin KeysOf(lru) /\ Len(lru) # CacheCap
      <3>1. t = lru /\ v = k
        BY <2>5 DEF Without
      <3> HIDE DEF t, v, full
      <3>2. Len(lru) < CacheCap /\ k \in Abstract!Victims(k)
        <4>1. Len(lru) < CacheCap
          <5>1. Len(lru) \in Nat /\ CacheCap \in Nat /\ Len(lru) <= CacheCap /\ Len(lru) # CacheCap
            BY <1>2, <2>5
          <5> QED BY <5>1
        <4> QED BY <2>1, <4>1
      <3>3. Taken(lru)
        BY DEF Taken
      <3>4. \A i \in 1..Len(lru) : lru[i].key # k
        BY <1>2, <2>5 DEF KeysOf
      <3>5. \A j \in Keys : j \in KeysOf(t) <=> j # k /\ j \in KeysOf(lru)
        BY <2>5, <3>1
      <3>6. KeysOnce(t) /\ MostRecentFirst(t, since) /\ Len(t) < CacheCap
        BY <1>2, <3>1, <3>2 DEF LruInv
      <3> QED BY <1>2, <2>5, <3>1, <3>2, <3>3, <3>4, <3>5, <3>6 DEF full
    <2> QED BY <2>3, <2>4, <2>5
  <1> HIDE DEF t, v, e, n, p, full
  <1>7. LruInv'
    <2>1. lru' \in Seq(LruEntries) /\ Len(lru') = Len(t) + 1 /\ KeysOnce(lru')
      BY <1>1, <1>5, <1>6, PutInFront
    <2>2. MostRecentFirst(lru', since')
      BY <1>1, <1>5, <1>6, FrontMostRecent
    <2>3. since' \in [Keys -> SUBSET Keys]
      BY <1>1, UsedFacts
    <2>4. Len(t) \in Nat
      BY <1>6
    <2> QED BY <1>2, <1>6, <2>1, <2>2, <2>3, <2>4 DEF LruInv
  <1>8. Stands(Mapped, lru) /\ Stands(Mapped', lru')
    BY <1>7, MappedStands, MappedNext
  <1>9. \A j \in Keys : Mapped'[j] = IF j = k THEN ValueOf(e)
                                     ELSE IF j \in KeysOf(t) THEN Mapped[j] ELSE NoEntry
    BY <1>1, <1>5, <1>6, <1>8, MapOfFront
  <1> DEFINE new == [[Mapped EXCEPT ![v] = NoEntry] EXCEPT ![k] = ValueOf(e)]
  <1>10. Mapped' = new
    <2>1. \A j \in Keys : new[j] = IF j = k THEN ValueOf(e) ELSE IF j = v THEN NoEntry ELSE Mapped[j]
      BY <1>8 DEF Stands
    <2>2. \A j \in Keys : j \notin KeysOf(lru) => Mapped[j] = NoEntry
      BY <1>8 DEF Stands
    <2>3. \A j \in Keys : Mapped'[j] = new[j]
      BY <1>6, <1>9, <2>1, <2>2
    <2>4. new = [j \in Keys |-> new[j]]
      BY <1>8 DEF Stands
    <2> HIDE DEF new
    <2> QED BY <1>8, <2>3, <2>4, SameMap DEF Stands
  <1>11. Abstract!Store(k, p, n)
    BY <1>5, <1>6, <1>10 DEF Abstract!Store
  <1>12. ASSUME NEW j \in KeysOf(lru) \ KeysOf(lru')
         PROVE  Len(lru) = CacheCap /\ Len(lru') = CacheCap /\ j = lru[Len(lru)].key
    <2>1. j \in Keys
      BY <1>2, EntryKey DEF KeysOf
    <2>2. j \in KeysOf(lru') <=> j = k \/ j \in KeysOf(t)
      BY <1>1, <1>5, <1>6, <2>1, PutInFront
    <2>3. j = v /\ v # k
      BY <1>6, <2>1, <2>2
    <2>4. full /\ j = lru[Len(lru)].key
      BY <2>3 DEF v
    <2>5. Len(lru') = Len(t) + 1 /\ Len(t) = CacheCap - 1
      BY <1>1, <1>5, <1>6, <2>4, PutInFront
    <2> QED BY <1>2, <2>4, <2>5 DEF full
  <1> QED BY <1>3, <1>4, <1>7, <1>11, <1>12

\* A purge removes the keys of those names and no others.
LEMMA PurgeStep ==
    ASSUME LruInv, NEW names \in SUBSET Names, remove_domains_from_cache(names)
    PROVE  LruInv' /\ Abstract!Purge(names)
  <1> DEFINE kept == {i \in DOMAIN lru : lru[i].key[1] \notin names}
             n == Cardinality(kept)
  <1>1. PICK at \in [1..n -> kept] :
           /\ \A i, j \in DOMAIN at : i < j => at[i] < at[j]
           /\ lru' = [i \in DOMAIN at |-> lru[at[i]]]
           /\ UNCHANGED since
    BY DEF remove_domains_from_cache
  <1>2. lru \in Seq(LruEntries) /\ Len(lru) \in Nat /\ DOMAIN lru = 1..Len(lru)
    BY DEF LruInv
  <1>3. IsFiniteSet(kept) /\ n \in Nat /\ n <= Len(lru) /\ kept \subseteq 1..Len(lru)
    <2>1. IsFiniteSet(1..Len(lru)) /\ Cardinality(1..Len(lru)) = Len(lru)
      BY <1>2, UpToCounted
    <2>2. kept \subseteq 1..Len(lru)
      BY <1>2
    <2> HIDE DEF kept
    <2> QED BY <2>1, <2>2, FS_Subset, FS_CardinalityType
  <1>4. \A i \in 1..Len(lru) : i \in kept <=> lru[i].key[1] \notin names
    BY <1>2
  <1>5. \A i \in kept : lru[i].key[1] \notin names
    OBVIOUS
  <1> HIDE DEF kept, n
  <1>6. \A i \in 1..n : at[i] \in kept /\ at[i] \in 1..Len(lru)
    BY <1>3
  <1>7. /\ lru' \in Seq(LruEntries) /\ Len(lru') = n
        /\ \A i \in 1..n : lru'[i] = lru[at[i]]
    BY <1>1, <1>2, <1>3, <1>6
  <1>8. KeysOnce(lru') /\ MostRecentFirst(lru', since) /\ Taken(lru')
    <2>1. at \in [1..Len(lru') -> 1..Len(lru)]
      BY <1>3, <1>7
    <2> QED BY <1>1, <1>7, <2>1, ThinnedFacts
  <1>9. LruInv'
    BY <1>1, <1>2, <1>3, <1>7, <1>8, LruAssumption DEF LruInv
  <1>10. \A i \in kept : \E j \in 1..n : at[j] = i
    <2>1. IsFiniteSet(1..n) /\ Cardinality(1..n) = n
      BY <1>3, UpToCounted
    <2>2. \A i, j \in 1..n : at[i] = at[j] => i = j
      <3> TAKE i, j \in 1..n
      <3>1. at[i] \in Int /\ i \in Int /\ j \in Int /\ (i < j => at[i] < at[j]) /\ (j < i => at[j] < at[i])
        BY <1>1, <1>3, <1>6
      <3> QED BY <3>1
    <2>3. at \in Injection(1..n, kept)
      BY <2>2 DEF Injection, IsInjective
    <2>4. Cardinality(1..n) = Cardinality(kept)
      BY <2>1 DEF n
    <2>5. at \in Surjection(1..n, kept)
      BY <1>3, <2>3, <2>4, FS_Injection
    <2> QED BY <2>5 DEF Surjection
  <1>11. Stands(Mapped, lru) /\ Stands(Mapped', lru')
    BY <1>9, MappedStands, MappedNext
  <1>12. ASSUME NEW k \in Keys
         PROVE  Mapped'[k] = IF k[1] \in names THEN NoEntry ELSE Mapped[k]
    <2>1. Mapped'[k] = IF k \in KeysOf(lru') THEN Mapped[k] ELSE NoEntry
      BY <1>7, <1>8, <1>11, MapOfTaken
    <2>2. k \in KeysOf(lru') => k[1] \notin names
      <3> SUFFICES ASSUME NEW i \in 1..n, lru'[i].key = k PROVE k[1] \notin names
        BY <1>7 DEF KeysOf
      <3> QED BY <1>5, <1>6, <1>7
    <2>3. k \in KeysOf(lru) /\ k[1] \notin names => k \in KeysOf(lru')
      <3> SUFFICES ASSUME NEW i \in 1..Len(lru), lru[i].key = k, k[1] \notin names
                   PROVE  k \in KeysOf(lru')
        BY <1>2 DEF KeysOf
      <3>1. PICK j \in 1..n : at[j] = i
        BY <1>4, <1>10
      <3>2. j \in DOMAIN lru' /\ lru'[j].key = k
        BY <1>7, <3>1
      <3> QED BY <3>2 DEF KeysOf
    <2>4. k \notin KeysOf(lru) => Mapped[k] = NoEntry
      BY <1>11 DEF Stands
    <2> QED BY <2>1, <2>2, <2>3, <2>4
  <1>13. Mapped' = [k \in Keys |-> IF k[1] \in names THEN NoEntry ELSE Mapped[k]]
    BY <1>11, <1>12 DEF Stands
  <1> QED BY <1>9, <1>13 DEF Abstract!Purge, Abstract!Keys, Keys

\* An entry one tick later.
Aged(e) ==
    [key    |-> e.key,
     packet |-> [e.packet EXCEPT !.old = Abstract!Older(@)],
     left   |-> IF e.left = 0 THEN 0 ELSE e.left - 1]

\* It is an entry still, under the same key.
LEMMA AgedFacts ==
    ASSUME NEW e \in LruEntries
    PROVE  Aged(e) \in LruEntries /\ Aged(e).key = e.key
  <1>1. e.packet.old \in 0..(OldMax + 1) /\ e.left \in 0..TtlMax /\ e.key \in Keys
    BY DEF LruEntries, Abstract!Packets
  <1>2. OldMax \in Nat /\ TtlMax \in Nat
    BY LruAssumption
  <1>3. Abstract!Older(e.packet.old) \in 0..(OldMax + 1)
    BY <1>1, <1>2 DEF Abstract!Older
  <1>4. [e.packet EXCEPT !.old = Abstract!Older(@)] \in Abstract!Packets
    BY <1>3 DEF LruEntries, Abstract!Packets
  <1>5. (IF e.left = 0 THEN 0 ELSE e.left - 1) \in 0..TtlMax
    BY <1>1, <1>2
  <1> QED BY <1>1, <1>4, <1>5 DEF Aged, LruEntries

\* A tick ages every entry where it is.
LEMMA ElapseStep ==
    ASSUME LruInv, Elapse
    PROVE  LruInv' /\ Abstract!Expiring
  <1>1. lru' = [i \in DOMAIN lru |-> Aged(lru[i])] /\ since' = since
    BY DEF Elapse, Aged
  <1>2. lru \in Seq(LruEntries) /\ Len(lru) \in Nat /\ DOMAIN lru = 1..Len(lru)
    BY DEF LruInv
  <1>3. \A i \in 1..Len(lru) : Aged(lru[i]) \in LruEntries /\ Aged(lru[i]).key = lru[i].key
    BY <1>2, AgedFacts
  <1>4. /\ lru' \in Seq(LruEntries) /\ Len(lru') = Len(lru)
        /\ \A i \in 1..Len(lru) : lru'[i] = Aged(lru[i]) /\ lru'[i].key = lru[i].key
    BY <1>1, <1>2, <1>3
  <1>5. LruInv'
    BY <1>1, <1>4 DEF LruInv, KeysOnce, MostRecentFirst
  <1>6. Stands(Mapped, lru) /\ Stands(Mapped', lru')
    BY <1>5, MappedStands, MappedNext
  <1> DEFINE Later(v) == IF v = NoEntry THEN NoEntry
                        ELSE [packet |-> [v.packet EXCEPT !.old = Abstract!Older(@)],
                              left   |-> IF v.left = 0 THEN 0 ELSE v.left - 1]
  <1>7. ASSUME NEW k \in Keys PROVE Mapped'[k] = Later(Mapped[k])
    <2>1. CASE k \in KeysOf(lru)
      <3>1. PICK i \in 1..Len(lru) : lru[i].key = k
        BY <1>2, <2>1 DEF KeysOf
      <3>2. Mapped[k] = ValueOf(lru[i]) /\ Mapped[k] # NoEntry
        BY <1>2, <1>6, <2>1, <3>1, StandsFor
      <3>3. Mapped'[k] = ValueOf(Aged(lru[i]))
        BY <1>4, <1>6, <3>1, StandsFor
      <3> QED BY <3>2, <3>3 DEF ValueOf, Aged
    <2>2. CASE k \notin KeysOf(lru)
      <3>1. k \notin KeysOf(lru')
        BY <1>2, <1>4, <2>2 DEF KeysOf
      <3> QED BY <1>6, <2>2, <3>1 DEF Stands
    <2> QED BY <2>1, <2>2
  <1>8. Mapped' = [k \in Keys |-> Later(Mapped[k])]
    BY <1>6, <1>7 DEF Stands
  <1> QED BY <1>5, <1>8 DEF Abstract!Expiring, Abstract!Keys, Keys

-----------------------------------------------------------------------------
(* What follows.                                                            *)

\* A step of the list is a step of the map or leaves it alone.
LEMMA LruStep ==
    ASSUME LruInv, [LruNext]_<<lru, since>>
    PROVE  LruInv' /\ [Abstract!CacheNext]_Mapped
  <1>0. Abstract!Keys = Keys
    BY DEF Abstract!Keys, Keys
  <1>1. ASSUME NEW k \in Keys, cache_lookup(k) PROVE LruInv' /\ [Abstract!CacheNext]_Mapped
    BY <1>0, <1>1, LookupStep DEF Abstract!CacheNext
  <1>2. ASSUME NEW k \in Keys, NEW ttl \in StoredTtls, cache_store(k, ttl)
        PROVE  LruInv' /\ [Abstract!CacheNext]_Mapped
    BY <1>0, <1>2, StoreStep DEF Abstract!CacheNext
  <1>3. ASSUME NEW names \in SUBSET Names, remove_domains_from_cache(names)
        PROVE  LruInv' /\ [Abstract!CacheNext]_Mapped
    BY <1>3, PurgeStep DEF Abstract!CacheNext
  <1>4. CASE Elapse
    BY <1>4, ElapseStep DEF Abstract!CacheNext
  <1>5. CASE UNCHANGED <<lru, since>>
    <2>1. LruInv'
      BY <1>5 DEF LruInv, KeysOnce, MostRecentFirst
    <2>2. Mapped' = Mapped
      BY <1>5 DEF Mapped, KeysOf, EntryOf, PosOf
    <2> QED BY <2>1, <2>2
  <1> QED BY <1>1, <1>2, <1>3, <1>4, <1>5 DEF LruNext

\* The inductive invariant of the LRU list: distinct keys, no more than the capacity, in
\* the order of their last use.
THEOREM LruInvariant == LruSpec => []LruInv
  <1>1. LruInit => LruInv
    BY LruInitInv
  <1>2. LruInv /\ [LruNext]_<<lru, since>> => LruInv'
    BY LruStep
  <1> QED BY <1>1, <1>2, PTL DEF LruSpec

\* The LRU list of cache_lookup, cache_store and remove_domains_from_cache implements
\* the bounded, expiring map that the servers' models rely on.
THEOREM LruImplements == LruSpec => ImplementsCache
  <1>1. LruInit => Abstract!CacheInit
    BY LruInitInv
  <1>2. LruInv /\ [LruNext]_<<lru, since>> => [Abstract!CacheNext]_Mapped
    BY LruStep
  <1> QED BY <1>1, <1>2, LruInvariant, PTL DEF LruSpec, ImplementsCache, Abstract!CacheSpec

\* What a step removes from the list it may remove.
LEMMA LeavesStep == ASSUME LruInv, LruNext PROVE MayLeave
  <1> SUFFICES ASSUME NEW k \in KeysOf(lru) \ KeysOf(lru')
               PROVE  \/ EntryOf(k).left = 0
                      \/ \E names \in SUBSET Names :
                            k[1] \in names /\ remove_domains_from_cache(names)
                      \/ /\ Len(lru) = CacheCap /\ Len(lru') = CacheCap
                         /\ \A j \in KeysOf(lru) \cap KeysOf(lru') : j \in since[k]
    BY DEF MayLeave
  <1>1. lru \in Seq(LruEntries) /\ DOMAIN lru = 1..Len(lru) /\ Len(lru) \in Nat
    BY DEF LruInv
  <1>2. k \in Keys
    BY <1>1, EntryKey DEF KeysOf
  <1>3. Mapped[k] # NoEntry
    BY <1>1, <1>2, MappedStands, StandsFor
  <1>4. LruInv' /\ lru' \in Seq(LruEntries)
    BY LruStep DEF LruInv
  <1>5. Mapped'[k] = NoEntry
    BY <1>2, <1>4, MappedNext DEF Stands
  <1>6. ASSUME NEW j \in Keys, cache_lookup(j) PROVE EntryOf(k).left = 0
    <2>1. Abstract!LookupMiss(j)
      BY <1>3, <1>5, <1>6, LookupStep
    <2>2. Mapped' = [Mapped EXCEPT ![j] = NoEntry] /\ ~Abstract!Hit(j)
      BY <2>1 DEF Abstract!LookupMiss
    <2>3. k = j
      BY <1>2, <1>3, <1>5, <2>2 DEF Mapped
    <2>4. Mapped[k].left = EntryOf(k).left
      BY <1>2 DEF Mapped
    <2>5. EntryOf(k) \in LruEntries
      BY <1>2, WithoutFacts
    <2>6. EntryOf(k).left \in Nat
      BY <2>5, LruAssumption DEF LruEntries
    <2> QED BY <1>3, <2>2, <2>3, <2>4, <2>6 DEF Abstract!Hit
  <1>7. ASSUME NEW j \in Keys, NEW ttl \in StoredTtls, cache_store(j, ttl)
        PROVE  /\ Len(lru) = CacheCap /\ Len(lru') = CacheCap
               /\ \A i \in KeysOf(lru) \cap KeysOf(lru') : i \in since[k]
    <2>1. Len(lru) = CacheCap /\ Len(lru') = CacheCap /\ k = lru[Len(lru)].key
      BY <1>7, StoreStep
    <2>2. ASSUME NEW i \in KeysOf(lru), i \in KeysOf(lru') PROVE i \in since[k]
      <3>1. PICK p \in 1..Len(lru) : lru[p].key = i
        BY <1>1 DEF KeysOf
      <3>2. p # Len(lru)
        BY <2>1, <2>2, <3>1
      <3>3. p < Len(lru) /\ Len(lru) \in 1..Len(lru)
        <4>1. Len(lru) \in Nat
          BY <1>1
        <4> QED BY <3>2, <4>1
      <3> QED BY <2>1, <3>1, <3>3 DEF LruInv, MostRecentFirst
    <2> QED BY <2>1, <2>2
  <1>8. ASSUME NEW names \in SUBSET Names, remove_domains_from_cache(names)
        PROVE  k[1] \in names
    <2>1. Mapped' = [i \in Keys |-> IF i[1] \in names THEN NoEntry ELSE Mapped[i]]
      BY <1>8, PurgeStep DEF Abstract!Purge, Abstract!Keys, Keys
    <2> QED BY <1>2, <1>3, <1>5, <2>1
  <1>9. CASE Elapse
    <2>1. Len(lru') = Len(lru) /\ \A i \in 1..Len(lru) : lru'[i].key = lru[i].key
      BY <1>1, <1>9 DEF Elapse
    <2>2. DOMAIN lru' = 1..Len(lru')
      BY <1>4
    <2>3. KeysOf(lru') = KeysOf(lru)
      BY <1>1, <2>1, <2>2 DEF KeysOf
    <2> QED BY <2>3
  <1> QED BY <1>6, <1>7, <1>8, <1>9 DEF LruNext

\* Whatever leaves the cache before its time, other than by a purge, was used longer ago
\* than all that stays: for any capacity, what keeps being asked for is never pushed out
\* by names asked for once.
THEOREM LeastRecentlyUsedGo == LruSpec => LeastRecentlyUsedLeaves
  <1>1. LruInv /\ [LruNext]_<<lru, since>> => [MayLeave]_<<lru, since>>
    BY LeavesStep
  <1> QED BY <1>1, LruInvariant, PTL DEF LruSpec, LeastRecentlyUsedLeaves
=============================================================================
