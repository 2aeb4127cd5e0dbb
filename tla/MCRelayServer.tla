---- MODULE MCRelayServer ----
(* The relay server on small sets of queries, names and configs. *)
EXTENDS RelayServer, TLC

CONSTANTS q1, q2, q3, n1, n2

QuerySymmetry == Permutations(Queries)

\* n1 let through; n1 dropped by a pattern the purge matches; n1 dropped by a
\* list file, which the purge does not match.
OpenConf == [rules |-> [n \in Names |-> "none"], purge |-> {}]
DropConf == [rules |-> [n \in Names |-> IF n = n1 THEN "drop" ELSE "none"], purge |-> {n1}]
FileDropConf == [DropConf EXCEPT !.purge = {}]

DropConfs == {OpenConf, DropConf, FileDropConf}

\* Redirects: one that works, and one without a usable address.
RedirectConf == [rules |-> [n \in Names |-> "redirect"], purge |-> {}]
DeadConf == [rules |-> [n \in Names |-> "dead_redirect"], purge |-> {}]
RedirectConfs == {OpenConf, RedirectConf, DeadConf}

LiveConfs == {OpenConf, DeadConf}

\* Well-formed questions only, or every kind of question.
KeysAsked == Keys
AllAsked == Questions
====
