---- MODULE MCUpstream ----
(* Three tasks on two names: resolvers of each scheme, or a worker reached directly and *)
(* through a script, with an instance whose key the worker does not have.               *)
EXTENDS Upstream, TLC

CONSTANTS t1, t2, t3, k1, k2, c1, c2, c3, n1, n2

TaskSymmetry == Permutations(Tasks)
ConnSymmetry == Permutations(Conns)
Symmetry == TaskSymmetry \cup ConnSymmetry

AskedQuestions == {<<n1, "A">>, <<n1, "AAAA">>, <<n2, "A">>}

PoolOrders == {<<"quic", "udp">>, <<"udp", "https">>}

RelayInstances ==
    <<[transport |-> "google_chained", key |-> k1, url |-> "script"],
      [transport |-> "direct", key |-> k1, url |-> "worker"],
      [transport |-> "google_chained", key |-> k2, url |-> "script"]>>
OneWorker == [url \in {"worker", "script"} |-> "worker"]
OneKey == [w \in {"worker"} |-> k1]

\* The endpoints agree on one address of n1; n2 has another.
Zone == [e \in Endpoints |-> [n \in Names |->
            IF n = n2 THEN {3} ELSE IF e = "cloudflare" THEN {1} ELSE {1, 2}]]

\* Queries of up to three records behind the question, whole or cut off, of which the
\* counts put all, some or too many into the last two sections.
Question == [type |-> "Q", whole |-> TRUE]
Cookie == [code |-> "cookie", data |-> 7]
Old == [code |-> "ecs", data |-> "old"]
Bad == [code |-> "bad", data |-> 0]
Records ==
    {[type |-> "RR", whole |-> w] : w \in BOOLEAN}
        \cup {OptRecord(1232, 1, options) :
                options \in {<<>>, <<Old>>, <<Old, Cookie>>, <<Cookie, Old, Old>>, <<Cookie, Bad>>}}
QueryPackets ==
    {[qd |-> 1, an |-> 0, ns |-> ns, ar |-> ar, body |-> <<Question>> \o body] :
        ns \in 0..1, ar \in 0..3, body \in UNION {[1..n -> Records] : n \in 0..3}}
====
