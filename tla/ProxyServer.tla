----------------------------- MODULE ProxyServer -----------------------------
(***************************************************************************)
(* resolver_proxy, the forwarder in front of dns_relay.  It takes queries  *)
(* in as dns_relay's plain listener does (Admission), with the same rules  *)
(* and cache; a query that neither answers is forwarded to the configured  *)
(* targets, one after the other, until one of them replies                 *)
(* (resolver_proxy/src/handler.rs, main.rs, conf.rs).                      *)
(*                                                                         *)
(* Each attempt has a socket of its own, on any free port.  Whatever the   *)
(* target sends to that port is taken for the answer: neither the          *)
(* transaction ID nor the question is compared.  So an attempt may take    *)
(* the late, or second, answer to one that had the port before it and is   *)
(* over.  How a datagram is encoded for a target does not matter here; a   *)
(* target is taken to answer the question it was asked.                    *)
(***************************************************************************)
EXTENDS Admission, ConfWatcher

CONSTANTS
    TargetList,     \* the configured targets, in order
    Strategies,     \* the values of strategy: "ordered", "round_robin"
    CursorMod,      \* 2^64, where the cursor of the round robin wraps
    UpstreamTimeout,\* RESOLVE_TIMEOUT, of each attempt, in ticks
    NoType,         \* the type of a query cut off before its type field
    Malformed,      \* the question of a datagram that has no parsable name
    NoReply,        \* "no reply"
    Asked           \* the questions clients ask

Zero == "zero"      \* the transaction ID of a cached packet
Questions == (Names \X (Types \cup {NoType})) \cup {Malformed}
Targets == {TargetList[i] : i \in DOMAIN TargetList}
Replies == [about : Questions, txid : Queries \cup {Zero}]

ASSUME ProxyAssumption ==
    /\ TargetList \in Seq(Targets) /\ TargetList # <<>>
    /\ \A i, j \in DOMAIN TargetList : TargetList[i] = TargetList[j] => i = j
    /\ Strategies \subseteq {"ordered", "round_robin"}
    /\ CursorMod \in Nat \ {0} /\ UpstreamTimeout \in Nat \ {0}
    /\ NoType \notin Types /\ Malformed \notin Names \X (Types \cup {NoType})
    /\ NoReply \notin Replies /\ Asked \subseteq Questions

VARIABLES
    strategy,   \* of the TargetPicker
    cursor,     \* of the TargetPicker
    question,   \* what each query asks
    snap,       \* the trie each task loaded when it was dispatched
    task,       \* where each task is in handle_query
    left,       \* the targets it has left to try; the first is being tried
    waited,     \* ticks it has awaited that one
    reply,      \* the reply it sends to its client
    metric,     \* the outcome counters
    late,       \* the questions each target was asked in attempts that are over, whose
                \* answers may still come, or come again
    tried,      \* history: the targets it has tried so far, or the one that answered
    spent,      \* history: ticks spent on all of them
    picks,      \* history: how often an order was picked
    turns,      \* history: how often each target was the first to be tried
    reloaded    \* history: were the rules swapped while the task ran?

proxyVars == <<strategy, cursor, question, snap, task, left, waited, reply, metric,
               late, tried, spent, picks, turns, reloaded>>
forwardVars == <<left, waited, late, tried, spent, picks, turns>>
vars == <<admissionVars, watcherVars, cache, proxyVars>>

Counters == {"drop", "redirect", "cached", "resolved", "failed"}

\* run_server refuses to start without a target.
Init ==
    /\ AdmissionInit /\ WatcherInit /\ CacheInit
    /\ strategy \in Strategies
    /\ cursor = 0
    /\ question = [q \in Queries |-> Malformed]
    /\ snap = [q \in Queries |-> trie]
    /\ task = [q \in Queries |-> "none"]
    /\ left = [q \in Queries |-> <<>>]
    /\ waited = [q \in Queries |-> 0]
    /\ reply = [q \in Queries |-> NoReply]
    /\ metric = [c \in Counters |-> 0]
    /\ late = [t \in Targets |-> {}]
    /\ tried = [q \in Queries |-> {}]
    /\ spent = [q \in Queries |-> 0]
    /\ picks = 0
    /\ turns = [t \in Targets |-> 0]
    /\ reloaded = [q \in Queries |-> FALSE]

-----------------------------------------------------------------------------
(* Clients, the listener and the backlog's worker.  There is one socket.    *)

Ask(q) ==
    /\ Arrive(q, "plain")
    /\ \E ask \in Asked : question' = [question EXCEPT ![q] = ask]
    /\ UNCHANGED <<watcherVars, cache, strategy, cursor, snap, task, forwardVars, reply,
                   metric, reloaded>>

Spawned(q) == stage[q] # "running" /\ stage'[q] = "running"

Admit ==
    /\ Listening \/ Working
    /\ snap' = [q \in Queries |-> IF Spawned(q) THEN trie ELSE snap[q]]
    /\ task' = [q \in Queries |-> IF Spawned(q) THEN "start" ELSE task[q]]
    /\ UNCHANGED <<watcherVars, cache, strategy, cursor, question, forwardVars, reply,
                   metric, reloaded>>

-----------------------------------------------------------------------------
(* handle_query.                                                            *)

Policy(q) == snap[q].rules[question[q][1]]
Count(c) == metric' = [metric EXCEPT ![c] = @ + 1]
Goto(q, t) == task' = [task EXCEPT ![q] = t]
Respond(q, about, txid) == reply' = [reply EXCEPT ![q] = [about |-> about, txid |-> txid]]

\* The task returns without a reply: no parsable name or type, or a redirect to no usable
\* address.  A name whose compression pointer leads back to itself is not asked for
\* (parse_domain follows it without bound).
GiveUp(q) ==
    /\ task[q] = "start"
    /\ \/ question[q] = Malformed
       \/ question[q] # Malformed /\ Policy(q) = "dead_redirect"
       \/ question[q] # Malformed /\ question[q][2] = NoType /\ Policy(q) # "drop"
    /\ Goto(q, "ended")
    /\ Finish(q)
    /\ UNCHANGED <<watcherVars, cache, strategy, cursor, question, snap, forwardVars,
                   reply, metric, reloaded>>

\* A dropped name gets NXDOMAIN, a redirected one its address.
RuleReply(q) ==
    /\ task[q] = "start"
    /\ question[q] # Malformed
    /\ \/ Policy(q) = "drop" /\ Count("drop")
       \/ Policy(q) = "redirect" /\ question[q] \in Keys /\ Count("redirect")
    /\ Respond(q, question[q], q)
    /\ Goto(q, "send")
    /\ UNCHANGED <<admissionVars, watcherVars, cache, strategy, cursor, question, snap,
                   forwardVars, reloaded>>

\* Bug: the cache is asked before the rules.
RuleNoneOrCached(q) ==
    /\ task[q] = "start"
    /\ question[q] \in Keys
    /\ Policy(q) = "none" \/ Hit(question[q])
    /\ Goto(q, "lookup")
    /\ UNCHANGED <<admissionVars, watcherVars, cache, strategy, cursor, question, snap,
                   forwardVars, reply, metric, reloaded>>

RuleNone(q) ==
    /\ task[q] = "start"
    /\ question[q] \in Keys
    /\ Policy(q) = "none"
    /\ Goto(q, "lookup")
    /\ UNCHANGED <<admissionVars, watcherVars, cache, strategy, cursor, question, snap,
                   forwardVars, reply, metric, reloaded>>

\* Bug: the key of the cache leaves the type out.
CacheHitAnyType(q) ==
    /\ task[q] = "lookup"
    /\ \E k \in Keys :
          k[1] = question[q][1] /\ Hit(k) /\ Respond(q, cache[k].packet.about, q)
    /\ Count("cached")
    /\ Goto(q, "send")
    /\ UNCHANGED <<admissionVars, watcherVars, cache, strategy, cursor, question, snap,
                   forwardVars, reloaded>>

CacheHit(q) ==
    /\ task[q] = "lookup"
    /\ Hit(question[q])
    /\ Respond(q, cache[question[q]].packet.about, q)
    /\ Count("cached")
    /\ Goto(q, "send")
    /\ UNCHANGED <<admissionVars, watcherVars, cache, strategy, cursor, question, snap,
                   forwardVars, reloaded>>

CacheMiss(q) ==
    /\ task[q] = "lookup"
    /\ LookupMiss(question[q])
    /\ Goto(q, "pick")
    /\ UNCHANGED <<admissionVars, watcherVars, strategy, cursor, question, snap,
                   forwardVars, reply, metric, reloaded>>

\* The configured order, from target number start (counted from 0) round.
Rotated(start) ==
    SubSeq(TargetList, start + 1, Len(TargetList)) \o SubSeq(TargetList, 1, start)

\* Bugs: the targets before the first are left out; the cursor is read and
\* written back, and another task's turn may be lost in between.
try_order_suffix ==
    IF strategy = "ordered" THEN TargetList
    ELSE SubSeq(TargetList, (cursor % Len(TargetList)) + 1, Len(TargetList))

MoveCursorRacy == cursor' \in {cursor, (cursor + 1) % CursorMod}

try_order ==
    IF strategy = "ordered" THEN TargetList ELSE Rotated(cursor % Len(TargetList))

\* fetch_add on an AtomicUsize, which wraps.
MoveCursor == cursor' = IF strategy = "ordered" THEN cursor ELSE (cursor + 1) % CursorMod

Pick(q) ==
    /\ task[q] = "pick"
    /\ MoveCursor
    /\ left' = [left EXCEPT ![q] = try_order]
    /\ tried' = [tried EXCEPT ![q] = {Head(try_order)}]
    /\ picks' = picks + 1
    /\ turns' = [turns EXCEPT ![Head(try_order)] = @ + 1]
    /\ Goto(q, "forward")
    /\ UNCHANGED <<admissionVars, watcherVars, cache, strategy, question, snap, waited,
                   reply, metric, late, spent, reloaded>>

\* The attempt is over; its answer may still be under way.
Leave(q) == late' = [late EXCEPT ![Head(left[q])] = @ \cup {question[q]}]

\* The first datagram from the target, which may be an error of its own, is stored and
\* sent; what forward_query kept is gone with it.
ForwardOk(q) ==
    /\ task[q] = "forward"
    /\ \E about \in {question[q]} \cup late[Head(left[q])] :
          /\ Store(question[q], [about |-> about, old |-> 0], 0)
          /\ Respond(q, about, q)
    /\ Count("resolved")
    /\ Goto(q, "send")
    /\ Leave(q)
    /\ left' = [left EXCEPT ![q] = <<>>]
    /\ waited' = [waited EXCEPT ![q] = 0]
    /\ tried' = [tried EXCEPT ![q] = {Head(left[q])}]
    /\ spent' = [spent EXCEPT ![q] = 0]
    /\ UNCHANGED <<admissionVars, watcherVars, strategy, cursor, question, snap, picks,
                   turns, reloaded>>

\* Bug: a target that failed is tried again after the others.
NextTargetAgain(q) ==
    LET rest == Append(Tail(left[q]), Head(left[q]))
    IN  /\ left' = [left EXCEPT ![q] = rest]
        /\ waited' = [waited EXCEPT ![q] = 0]
        /\ tried' = [tried EXCEPT ![q] = @ \cup {Head(rest)}]
        /\ UNCHANGED <<admissionVars, task, metric, spent>>

\* On to the next target.  After the last one the task ends: the SERVFAIL it
\* crafts is not sent.
NextTarget(q) ==
    LET rest == Tail(left[q])
    IN  /\ left' = [left EXCEPT ![q] = rest]
        /\ waited' = [waited EXCEPT ![q] = 0]
        /\ \/ /\ rest # <<>>
              /\ tried' = [tried EXCEPT ![q] = @ \cup {Head(rest)}]
              /\ UNCHANGED <<admissionVars, task, metric, spent>>
           \/ /\ rest = <<>>
              /\ Count("failed")
              /\ Goto(q, "failed")
              /\ Finish(q)
              /\ spent' = [spent EXCEPT ![q] = 0]
              /\ UNCHANGED tried

\* Binding or sending fails, so that the target was never asked, or receiving does, or
\* the reply cannot be decoded.
ForwardError(q) ==
    /\ task[q] = "forward"
    /\ NextTarget(q)
    /\ Leave(q) \/ UNCHANGED late
    /\ UNCHANGED <<watcherVars, cache, strategy, cursor, question, snap, reply, picks,
                   turns, reloaded>>

ForwardTimeout(q) ==
    /\ task[q] = "forward"
    /\ waited[q] >= UpstreamTimeout
    /\ NextTarget(q)
    /\ Leave(q)
    /\ UNCHANGED <<watcherVars, cache, strategy, cursor, question, snap, reply, picks,
                   turns, reloaded>>

\* Bug: the permit is not dropped with the task.
SendKeepingPermit(q) ==
    /\ task[q] = "send"
    /\ Goto(q, "ended")
    /\ stage' = [stage EXCEPT ![q] = "done"]
    /\ UNCHANGED <<sock, batch, backlog, age, permits, waiter, granted, total_req>>
    /\ UNCHANGED <<watcherVars, cache, strategy, cursor, question, snap, forwardVars,
                   reply, metric, reloaded>>

Send(q) ==
    /\ task[q] = "send"
    /\ Goto(q, "ended")
    /\ Finish(q)
    /\ UNCHANGED <<watcherVars, cache, strategy, cursor, question, snap, forwardVars,
                   reply, metric, reloaded>>

Handle(q) ==
    \/ GiveUp(q) \/ RuleReply(q) \/ RuleNone(q) \/ CacheHit(q) \/ CacheMiss(q)
    \/ Pick(q) \/ ForwardOk(q) \/ ForwardError(q) \/ ForwardTimeout(q) \/ Send(q)

-----------------------------------------------------------------------------
(* The watcher, which does not purge the cache, and time.                   *)

EditConf == Edit /\ UNCHANGED <<admissionVars, cache, proxyVars>>

ProxyLoad ==
    /\ watch = "load"
    /\ trie' = IF file.conf \in Confs THEN file.conf ELSE trie
    /\ watch' = "idle"
    /\ UNCHANGED <<file, seen>>

Watch ==
    /\ WatchBoot \/ WatchStat \/ ProxyLoad
    /\ reloaded' = [q \in Queries |-> stage[q] = "running" /\ (reloaded[q] \/ trie' # trie)]
    /\ UNCHANGED <<admissionVars, cache, strategy, cursor, question, snap, task,
                   forwardVars, reply, metric>>

\* Time does not pass the deadline of an attempt.
Tick ==
    /\ \A q \in Queries : task[q] = "forward" => waited[q] < UpstreamTimeout
    /\ Aging
    /\ Expiring
    /\ waited' = [q \in Queries |-> IF task[q] = "forward" THEN waited[q] + 1 ELSE waited[q]]
    /\ spent' = [q \in Queries |-> IF task[q] = "forward" THEN spent[q] + 1 ELSE spent[q]]
    /\ UNCHANGED <<watcherVars, strategy, cursor, question, snap, task, left, reply, metric,
                   late, tried, picks, turns, reloaded>>

Next ==
    \/ \E q \in Queries : Ask(q) \/ Handle(q)
    \/ Admit
    \/ EditConf
    \/ Watch
    \/ Tick

Spec == Init /\ [][Next]_vars

-----------------------------------------------------------------------------
(* Properties.                                                              *)

\* A query fails only when every target has been tried, whichever came first and
\* wherever the cursor stood, also after it has wrapped (the comment on try_order:
\* "still returns every target as a fallback chain").
FailsAfterAll == \A q \in Queries : task[q] = "failed" => tried[q] = Targets

\* However the attempts end, a query is forwarded, and holds its permit for it, for
\* at most one timeout per target (forward_query's loop).
ForwardingBounded ==
    \A q \in Queries : spent[q] <= UpstreamTimeout * Len(TargetList)

\* Concurrent queries share the targets out evenly: until the cursor wraps no target
\* has been first more than once oftener than another.  In "ordered" the primary
\* target always is (try_order).
TurnsTaken ==
    IF strategy = "ordered" THEN \A t \in Targets : t # TargetList[1] => turns[t] = 0
    ELSE picks <= CursorMod => \A t, u \in Targets : turns[t] <= turns[u] + 1

\* q was answered by the target t itself.
AnsweredBy(q, t) == reply[q] # NoReply /\ tried[q] = {t}

\* The reply of q is the late answer to another question that t had been asked, which
\* a query for the question of q, itself or the one whose reply q found in the cache,
\* took on a port used again.
FromOldPort(q) ==
    \E w \in Queries, t \in Targets :
        /\ AnsweredBy(w, t) /\ question[w] = question[q]
        /\ reply[w].about = reply[q].about /\ reply[q].about \in late[t]

\* Every reply has the transaction ID of its query, and its question too, also when
\* another client's query brought it into the cache (with_txid, CacheKey).  The one
\* exception is a late answer that went to an old port: it is labelled with the ID of
\* whoever took it and cached under the question that one asked.
ReplyToAsker ==
    \A q \in Queries :
        reply[q] # NoReply =>
            reply[q].txid = q /\ (reply[q].about = question[q] \/ FromOldPort(q))

\* The watcher leaves the cache as it is when a name is put on the drop list; still no
\* query for that name gets as far as the cache or a target, unless the rules were
\* swapped while its task ran (rules before the cache in handle_query).
RulesInForce ==
    \A q \in Queries :
        task[q] \in {"lookup", "pick", "forward"} /\ ~reloaded[q]
            => trie.rules[question[q][1]] = "none"

\* The proxy admits queries as Admission says: a task that fails over holds one permit
\* throughout and gives it back once.
Admits == AdmissionSpec

=============================================================================
