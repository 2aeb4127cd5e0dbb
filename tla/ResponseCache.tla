---------------------------- MODULE ResponseCache ----------------------------
(***************************************************************************)
(* What the response cache of shared/src/cache.rs promises its users: a    *)
(* bounded map from a question to a reply that expires.  Every operation   *)
(* runs under the cache's mutex, so each is one step.  Which entry a full  *)
(* cache gives up is left open here; LruCache shows that the LRU list the  *)
(* code uses is one way to choose it.                                      *)
(*                                                                         *)
(* An entry counts the ticks it has left (expires_at - now) and, to state  *)
(* freshness, the ticks since its answer was asked for upstream; the       *)
(* latter saturates above every value a property distinguishes.            *)
(***************************************************************************)
EXTENDS Naturals, FiniteSets

CONSTANTS
    Names,          \* domain names
    Types,          \* query types
    NoEntry,        \* "nothing cached under this key"
    CacheCap,       \* CACHE_CAPACITY
    TtlMin,         \* CACHE_TTL_MIN, in ticks
    TtlMax,         \* CACHE_TTL_MAX
    TtlFallback,    \* CACHE_TTL_FALLBACK
    OldMax          \* ages above this are not told apart

ASSUME KeysAssumption == IsFiniteSet(Names) /\ IsFiniteSet(Types)
ASSUME CacheCapAssumption == CacheCap \in Nat \ {0}
ASSUME TtlAssumption ==
    /\ {TtlMin, TtlMax, TtlFallback} \subseteq Nat \ {0}
    /\ OldMax \in Nat
    /\ TtlMin <= TtlFallback
    /\ TtlFallback <= TtlMax

VARIABLE cache

\* CacheKey: the name and the type of a question.
Keys == Names \X Types

\* A packet is what it answers and how long ago it was asked for.  It is stored
\* with its transaction ID zeroed, so it carries none.
Packets == [about : Keys, old : 0..OldMax + 1]

Entries == [packet : Packets, left : 0..TtlMax]

ASSUME NoEntryAssumption == NoEntry \notin Entries

Cached == {k \in Keys : cache[k] # NoEntry}

CacheInit == cache = [k \in Keys |-> NoEntry]

\* Bug: the TTL is not clamped from above.
EntryTtlUnclamped(ttl) ==
    IF ttl = 0 THEN TtlFallback ELSE IF ttl < TtlMin THEN TtlMin ELSE ttl

\* The lifetime of a reply whose smallest non-zero answer TTL is ttl; 0 stands
\* for a reply that has none.
EntryTtl(ttl) ==
    IF ttl = 0 THEN TtlFallback
    ELSE IF ttl < TtlMin THEN TtlMin
    ELSE IF ttl > TtlMax THEN TtlMax
    ELSE ttl

\* Bug: the lookup does not look at expires_at.
HitExpired(k) == cache[k] # NoEntry

Hit(k) == cache[k] # NoEntry /\ cache[k].left > 0

\* cache_lookup under a key that is not a hit removes what has expired there.
LookupMiss(k) ==
    /\ ~Hit(k)
    /\ cache' = [cache EXCEPT ![k] = NoEntry]

\* cache_store: a new key in a full cache costs some other key its entry.
Victims(k) ==
    IF cache[k] # NoEntry \/ Cardinality(Cached) < CacheCap THEN {k} ELSE Cached

Store(k, packet, ttl) ==
    \E v \in Victims(k) :
        cache' = [[cache EXCEPT ![v] = NoEntry]
                        EXCEPT ![k] = [packet |-> packet, left |-> EntryTtl(ttl)]]

\* remove_domains_from_cache: every key whose name a pattern matches.
Purge(names) ==
    cache' = [k \in Keys |-> IF k[1] \in names THEN NoEntry ELSE cache[k]]

\* One tick passes.
Older(n) == IF n > OldMax THEN n ELSE n + 1

Expiring ==
    cache' = [k \in Keys |->
                IF cache[k] = NoEntry THEN NoEntry
                ELSE [packet |-> [cache[k].packet EXCEPT !.old = Older(@)],
                      left   |-> IF cache[k].left = 0 THEN 0 ELSE cache[k].left - 1]]

CacheNext ==
    \/ \E k \in Keys : LookupMiss(k)
    \/ \E k \in Keys, p \in Packets, ttl \in 0..TtlMax : Store(k, p, ttl)
    \/ \E names \in SUBSET Names : Purge(names)
    \/ Expiring

CacheSpec == CacheInit /\ [][CacheNext]_cache

=============================================================================
