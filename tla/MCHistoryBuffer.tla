---- MODULE MCHistoryBuffer ----
(* The history buffer with small queues, few threads and colliding entries. *)
EXTENDS HistoryBuffer

CONSTANTS p1, p2, p3, p4, p5

Characters == {"0", "1", ".", "c", "g", "h"}

\* The domain g twice, with an ip in common, one ip being the other cut short; g.g,
\* of which a torn line leaves g; c.g; and a domain that no pattern matches.
Entries == [p \in Pushers |->
    CASE p = p1 -> [domain |-> <<"g">>, ips |-> <<<<"1">>>>]
      [] p = p2 -> [domain |-> <<"g">>, ips |-> <<<<"1", "0">>, <<"1">>>>]
      [] p = p3 -> [domain |-> <<"g", ".", "g">>, ips |-> <<<<"1">>>>]
      [] p = p4 -> [domain |-> <<"c", ".", "g">>, ips |-> <<<<"1">>>>]
      [] p = p5 -> [domain |-> <<"h">>, ips |-> <<<<"1">>>>]]

\* A wildcard; no matched_list at all.
Patterns == {<<"*", "g">>}
AllDomains == {}
====
