----------------------------- MODULE DomainTrie -----------------------------
(***************************************************************************)
(* The rule trie of shared/src/domain_trie.rs: how DomainTrie::build turns *)
(* the drop list and the redirect list into a trie, entry by entry, and    *)
(* what lookup finds in it.  A name is the sequence of its labels, the     *)
(* top-level one first (the order in which the code walks them).           *)
(***************************************************************************)
EXTENDS Naturals, Sequences, FiniteSets

CONSTANTS
    Labels,     \* what names are made of
    Targets,    \* what a redirect may point to
    MaxLabels,  \* bound: labels per name
    MaxEntries  \* bound: entries per list

ASSUME TrieAssumption == MaxLabels \in Nat \ {0} /\ MaxEntries \in Nat

Domains == UNION {[1..n -> Labels] : n \in 1..MaxLabels}

\* A pattern is a name, with or without a leading "*.".
Patterns == [wild : BOOLEAN, name : Domains]

None == [kind |-> "none"]
Drop == [kind |-> "drop"]
Redirect(t) == [kind |-> "redirect", to |-> t]

VARIABLES
    drops,      \* the drop list entries inserted so far
    redirects,  \* the redirect list entries inserted so far
    nodes       \* the trie: a policy for each path that has a node

vars == <<drops, redirects, nodes>>

Root == <<>>
Prefix(path, n) == SubSeq(path, 1, n)

Init ==
    /\ drops = <<>>
    /\ redirects = <<>>
    /\ nodes = [path \in {Root} |-> None]

\* Bug: a wildcard's policy is left out.
insert_with_policy_exact(pattern, policy) ==
    LET path == pattern.name
        way == {Prefix(path, n) : n \in 0..Len(path)}
    IN  nodes' = [p \in DOMAIN nodes \cup way |->
                     IF p = path /\ ~pattern.wild THEN policy
                     ELSE IF p \in DOMAIN nodes THEN nodes[p] ELSE None]

\* insert_with_policy: a leading "*." is stripped, the missing nodes on the way
\* are created, and the policy of the last one is set.
insert_with_policy(pattern, policy) ==
    LET path == pattern.name
        way == {Prefix(path, n) : n \in 0..Len(path)}
    IN  nodes' = [p \in DOMAIN nodes \cup way |->
                     IF p = path THEN policy
                     ELSE IF p \in DOMAIN nodes THEN nodes[p] ELSE None]

\* build: every drop first, in order, then every redirect.
insert_drop(pattern) ==
    /\ redirects = <<>>
    /\ Len(drops) < MaxEntries
    /\ insert_with_policy(pattern, Drop)
    /\ drops' = Append(drops, pattern)
    /\ UNCHANGED redirects

insert_redirect(pattern, target) ==
    /\ Len(redirects) < MaxEntries
    /\ insert_with_policy(pattern, Redirect(target))
    /\ redirects' = Append(redirects, <<pattern, target>>)
    /\ UNCHANGED drops

\* lookup: down from the top-level label to the first node with a policy, as
\* long as there are nodes.
Reached(domain, n) ==
    /\ \A m \in 1..n : Prefix(domain, m) \in DOMAIN nodes
    /\ \A m \in 1..n-1 : nodes[Prefix(domain, m)] = None

\* Bug: the last policy on the way is taken, not the first.
lookup_longest(domain) ==
    LET found == {n \in 1..Len(domain) :
                     /\ \A m \in 1..n : Prefix(domain, m) \in DOMAIN nodes
                     /\ nodes[Prefix(domain, n)] # None}
    IN  IF found = {} THEN None
        ELSE nodes[Prefix(domain, CHOOSE n \in found : \A m \in found : m <= n)]

lookup(domain) ==
    LET found == {n \in 1..Len(domain) :
                     Reached(domain, n) /\ nodes[Prefix(domain, n)] # None}
    IN  IF found = {} THEN None ELSE nodes[Prefix(domain, CHOOSE n \in found : TRUE)]

\* matches_domain_pattern, with which a reload purges the cache: unlike the trie
\* it lets a pattern without "*." match its own name only.
matches_domain_pattern(domain, pattern) ==
    \/ ~pattern.wild /\ domain = pattern.name
    \/ pattern.wild /\ Len(pattern.name) <= Len(domain)
                    /\ Prefix(domain, Len(pattern.name)) = pattern.name

Next ==
    \/ \E p \in Patterns : insert_drop(p)
    \/ \E p \in Patterns, t \in Targets : insert_redirect(p, t)

Spec == Init /\ [][Next]_vars

-----------------------------------------------------------------------------
(* Properties.                                                              *)

\* The lists' own account of a name: of the entries whose name is the name or an
\* ancestor of it, those closest to the root decide; among those the last
\* redirect, and without one, a drop.
Covers(entry, domain) ==
    Len(entry.name) <= Len(domain) /\ Prefix(domain, Len(entry.name)) = entry.name

Listed == {drops[i] : i \in DOMAIN drops} \cup {redirects[i][1] : i \in DOMAIN redirects}

Ruling(domain) ==
    LET depths == {Len(e.name) : e \in {e \in Listed : Covers(e, domain)}}
        top == CHOOSE d \in depths : \A e \in depths : d <= e
        at == {i \in DOMAIN redirects : redirects[i][1].name = Prefix(domain, top)}
    IN  IF depths = {} THEN None
        ELSE IF at = {} THEN Drop
        ELSE Redirect(redirects[CHOOSE i \in at : \A j \in at : j <= i][2])

\* Walking the trie gives every name what the lists say of it, whatever order and
\* nesting the entries come in (DomainTrie::build, DomainTrie::lookup).
LookupFollowsLists == \A d \in Domains : lookup(d) = Ruling(d)

\* A name whose cached answers a reload purges is ruled by the new trie: the purge
\* never takes away the answers of a name that is still let through.
PurgedIsRuled ==
    \A d \in Domains :
        (\E i \in DOMAIN drops : matches_domain_pattern(d, drops[i])) => lookup(d) # None

=============================================================================
