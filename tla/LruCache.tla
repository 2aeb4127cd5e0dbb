------------------------------ MODULE LruCache ------------------------------
(***************************************************************************)
(* The response cache as shared/src/cache.rs builds it: an LruCache (crate *)
(* lru) behind a mutex, with the lookup that expires entries, the store    *)
(* and the purge.  Abstract is the promise RelayServer relies on.          *)
(***************************************************************************)
EXTENDS Naturals, FiniteSets, Sequences, SequencesExt

CONSTANTS Names, Types, NoEntry, CacheCap, TtlMin, TtlMax, TtlFallback, OldMax,
          StoredTtls    \* smallest answer TTLs of the replies that are stored

ASSUME LruKeysAssumption == IsFiniteSet(Names) /\ IsFiniteSet(Types)
ASSUME LruAssumption ==
    /\ {CacheCap, TtlMin, TtlMax, TtlFallback} \subseteq Nat \ {0}
    /\ OldMax \in Nat /\ StoredTtls \subseteq Nat
    /\ TtlMin <= TtlFallback /\ TtlFallback <= TtlMax

VARIABLES
    lru,    \* the entries, the most recently used first
    since   \* history: the other keys that were used since each key was

Keys == Names \X Types
KeysOf(s) == {s[i].key : i \in DOMAIN s}

Used(k) == since' = [j \in Keys |-> IF j = k THEN {} ELSE since[j] \cup {k}]

\* Where the list has a key, and the list once LruCache has unlinked that entry.
PosOf(k) == CHOOSE i \in DOMAIN lru : lru[i].key = k
EntryOf(k) == lru[PosOf(k)]
Without(k) == IF k \in KeysOf(lru) THEN RemoveAt(lru, PosOf(k)) ELSE lru

LruInit ==
    /\ lru = <<>>
    /\ since = [k \in Keys |-> {}]

\* Bug: LruCache::peek instead of get.
cache_lookup_peek(k) ==
    /\ k \in KeysOf(lru)
    /\ IF EntryOf(k).left = 0 THEN lru' = Without(k) /\ UNCHANGED since
       ELSE UNCHANGED lru /\ Used(k)

\* LruCache::get moves the entry to the front; an expired one is then popped.
cache_lookup(k) ==
    /\ k \in KeysOf(lru)
    /\ IF EntryOf(k).left = 0
       THEN lru' = Without(k) /\ UNCHANGED since
       ELSE lru' = <<EntryOf(k)>> \o Without(k) /\ Used(k)

\* The map that the list stands for.
Mapped ==
    [k \in Keys |-> IF k \in KeysOf(lru)
                    THEN [packet |-> EntryOf(k).packet, left |-> EntryOf(k).left]
                    ELSE NoEntry]

Abstract == INSTANCE ResponseCache WITH cache <- Mapped

ASSUME LruNoEntryAssumption == NoEntry \notin Abstract!Entries

\* Bug: an unbounded LruCache, which never makes room.
cache_store_unbounded(k, ttl) ==
    LET fresh == [key |-> k, packet |-> [about |-> k, old |-> 0], left |-> Abstract!EntryTtl(ttl)]
    IN  lru' = <<fresh>> \o Without(k) /\ Used(k)

\* LruCache::put replaces an entry in place of the old one, at the front; a new
\* key in a full cache pushes out the entry at the back.
cache_store(k, ttl) ==
    LET fresh == [key |-> k, packet |-> [about |-> k, old |-> 0], left |-> Abstract!EntryTtl(ttl)]
        kept  == IF k \notin KeysOf(lru) /\ Len(lru) = CacheCap THEN Front(lru) ELSE Without(k)
    IN  lru' = <<fresh>> \o kept /\ Used(k)

\* The entries of those names are popped one after the other under the mutex; the
\* others keep their order.
remove_domains_from_cache(names) ==
    LET kept == {i \in DOMAIN lru : lru[i].key[1] \notin names}
    IN  \E at \in [1..Cardinality(kept) -> kept] :
           /\ \A i, j \in DOMAIN at : i < j => at[i] < at[j]
           /\ lru' = [i \in DOMAIN at |-> lru[at[i]]]
           /\ UNCHANGED since

\* One tick passes.
Elapse ==
    /\ lru' = [i \in DOMAIN lru |->
                  [key    |-> lru[i].key,
                   packet |-> [lru[i].packet EXCEPT !.old = Abstract!Older(@)],
                   left   |-> IF lru[i].left = 0 THEN 0 ELSE lru[i].left - 1]]
    /\ UNCHANGED since

LruNext ==
    \/ \E k \in Keys : cache_lookup(k)
    \/ \E k \in Keys, ttl \in StoredTtls : cache_store(k, ttl)
    \/ \E names \in SUBSET Names : remove_domains_from_cache(names)
    \/ Elapse

LruSpec == LruInit /\ [][LruNext]_<<lru, since>>

-----------------------------------------------------------------------------
(* Properties.                                                              *)

\* The LRU list implements the bounded, expiring map.
ImplementsCache == Abstract!CacheSpec

\* What a step removes is expired, or its name is purged, or it makes room and every
\* key that stays was used since it was.
MayLeave ==
    \A k \in KeysOf(lru) \ KeysOf(lru') :
        \/ EntryOf(k).left = 0
        \/ \E names \in SUBSET Names : k[1] \in names /\ remove_domains_from_cache(names)
        \/ /\ Len(lru) = CacheCap /\ Len(lru') = CacheCap
           /\ \A j \in KeysOf(lru) \cap KeysOf(lru') : j \in since[k]

\* An entry leaves the cache before its time only through a purge of its name or as the
\* least recently used of a full one: what keeps being asked for is never pushed out by
\* names asked for once.
LeastRecentlyUsedLeaves == [][MayLeave]_<<lru, since>>

=============================================================================
