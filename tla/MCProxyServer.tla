---- MODULE MCProxyServer ----
(* The proxy with few queries and targets. *)
EXTENDS ProxyServer, TLC

CONSTANTS n1, t1, t2, t3

QuerySymmetry == Permutations(Queries)

ThreeTargets == <<t1, t2, t3>>
TwoTargets == <<t1, t2>>

\* The name is let through, dropped, or redirected, to a usable address or to none.
Conf(policy) == [rules |-> [n \in Names |-> policy], purge |-> {}]
DropConfs == {Conf(p) : p \in {"none", "drop"}}
RedirectConfs == {Conf(p) : p \in {"none", "redirect", "dead_redirect"}}

KeysOrMalformed == Keys \cup {Malformed}
====
