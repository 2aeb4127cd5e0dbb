---- MODULE MCLookup ----
(* The rule trie with names of up to two labels and lists of up to two entries, and a    *)
(* response cache of three entries for which four names compete.  The two share nothing, *)
(* and each is explored with the other at rest.                                          *)
EXTENDS DomainTrie, LruCache

lruVars == <<lru, since>>

TrieAtRest == drops = <<>> /\ redirects = <<>>
CacheAtRest == \A k \in Keys : since[k] = {}

TablesNext ==
    \/ Next /\ CacheAtRest /\ UNCHANGED lruVars
    \/ LruNext /\ TrieAtRest /\ UNCHANGED vars

TablesInit == Init /\ LruInit

Tables == TablesInit /\ [][TablesNext]_<<vars, lruVars>>

\* A name in the cache is like any other.
Symmetry == Permutations(Names)
====
