----------------------------- MODULE RelayServer -----------------------------
(***************************************************************************)
(* The dns_relay server: the admission of queries (Admission), the config  *)
(* watcher (ConfWatcher) and the response cache (ResponseCache) composed   *)
(* with the pipeline every spawned task runs, resolve_query in             *)
(* dns_relay/src/handler.rs: rules, cache, upstream, reply.                *)
(*                                                                         *)
(* A task awaits in two places, the upstream resolution and the sending of *)
(* the reply; between them it runs without yielding, but other threads run *)
(* beside it, so each access to shared state is a step of its own.         *)
(***************************************************************************)
EXTENDS Admission, ConfWatcher

CONSTANTS
    NoType,         \* the type of a query cut off before its type field
    Malformed,      \* the question of a datagram that has no parsable name
    NoReply,        \* "no reply crafted"
    Asked,          \* the questions clients ask
    AnswerTtls,     \* smallest answer TTLs an upstream may return; 0 is none
    ResolveTimeout  \* RESOLVE_TIMEOUT (or the relay's own), in ticks

ASSUME PipelineAssumption ==
    /\ AnswerTtls \subseteq Nat
    /\ ResolveTimeout \in Nat \ {0}
    /\ ResolveTimeout <= OldMax + 1
    /\ NoType \notin Types
    /\ Malformed \notin Names \X (Types \cup {NoType})

VARIABLES
    question,   \* what each query asks
    snap,       \* the trie each task loaded when it was dispatched
    task,       \* where each task is in resolve_query
    waited,     \* ticks each task has awaited its upstream
    reply,      \* the reply each task has for its client
    metric,     \* the outcome counters
    reloaded    \* history: were the rules swapped while the task ran?

pipelineVars == <<question, snap, task, waited, reply, metric, reloaded>>
vars == <<admissionVars, watcherVars, cache, pipelineVars>>

Questions == (Names \X (Types \cup {NoType})) \cup {Malformed}
Tasks == {"none", "start", "lookup", "upstream", "send", "ended"}
Kinds == {"nxdomain", "redirect", "answer", "servfail"}
Counters == {"drop", "redirect", "cached", "resolved", "timeout", "failed"}
Zero == "zero"      \* the transaction ID of a cached packet

Replies == [kind : Kinds, about : Questions, txid : Queries \cup {Zero}, old : 0..OldMax + 1]
ASSUME NoReplyAssumption == NoReply \notin Replies
ASSUME AskedAssumption == Asked \subseteq Questions

Init ==
    /\ AdmissionInit
    /\ WatcherInit
    /\ CacheInit
    /\ question = [q \in Queries |-> Malformed]
    /\ snap = [q \in Queries |-> trie]
    /\ task = [q \in Queries |-> "none"]
    /\ waited = [q \in Queries |-> 0]
    /\ reply = [q \in Queries |-> NoReply]
    /\ metric = [c \in Counters |-> 0]
    /\ reloaded = [q \in Queries |-> FALSE]

-----------------------------------------------------------------------------
(* Admission.  A query is dispatched when it gets its permit; the task is   *)
(* spawned with the trie loaded at that moment.                             *)

Spawned(q) == stage[q] # "running" /\ stage'[q] = "running"

\* Bug: the listener loads the trie once per batch.
LoadTriePerBatch ==
    /\ snap' = [q \in Queries |->
                  IF stage[q] # "batch" /\ stage'[q] = "batch" THEN trie ELSE snap[q]]
    /\ task' = [q \in Queries |-> IF Spawned(q) THEN "start" ELSE task[q]]

LoadTrie ==
    /\ snap' = [q \in Queries |-> IF Spawned(q) THEN trie ELSE snap[q]]
    /\ task' = [q \in Queries |-> IF Spawned(q) THEN "start" ELSE task[q]]

Ask(q) ==
    /\ \E l \in Listeners : Arrive(q, l)
    /\ \E ask \in Asked : question' = [question EXCEPT ![q] = ask]
    /\ UNCHANGED <<watcherVars, cache, snap, task, waited, reply, metric, reloaded>>

Admit ==
    /\ Listening \/ Working
    /\ LoadTrie
    /\ UNCHANGED <<watcherVars, cache, question, waited, reply, metric, reloaded>>

-----------------------------------------------------------------------------
(* resolve_query.                                                           *)

Policy(q) == snap[q].rules[question[q][1]]

\* Bug: the cache key leaves out the type.
KeyOfName(q) == <<question[q][1], CHOOSE t \in Types : TRUE>>

Key(q) == question[q]

Count(c) == metric' = [metric EXCEPT ![c] = @ + 1]
Goto(q, t) == task' = [task EXCEPT ![q] = t]

\* with_txid: the reply to q, crafted from its payload or relabelled for it.
Respond(q, kind, about, old) ==
    reply' = [reply EXCEPT ![q] = [kind |-> kind, about |-> about, txid |-> q, old |-> old]]

\* The task returns without a reply: a payload without a parsable name or type, or a
\* redirect to no usable address.  A name whose compression pointer leads back to itself
\* is not among the payloads: parse_domain follows it without bound.
GiveUp(q) ==
    /\ task[q] = "start"
    /\ \/ question[q] = Malformed
       \/ question[q] # Malformed /\ Policy(q) = "dead_redirect"
       \/ question[q] # Malformed /\ question[q][2] = NoType /\ Policy(q) # "drop"
    /\ Goto(q, "ended")
    /\ Finish(q)
    /\ UNCHANGED <<watcherVars, cache, question, snap, waited, reply, metric, reloaded>>

RuleDrop(q) ==
    /\ task[q] = "start"
    /\ question[q] # Malformed
    /\ Policy(q) = "drop"
    /\ Respond(q, "nxdomain", question[q], 0)
    /\ Count("drop")
    /\ Goto(q, "send")
    /\ UNCHANGED <<admissionVars, watcherVars, cache, question, snap, waited, reloaded>>

RuleRedirect(q) ==
    /\ task[q] = "start"
    /\ question[q] \in Keys
    /\ Policy(q) = "redirect"
    /\ Respond(q, "redirect", question[q], 0)
    /\ Count("redirect")
    /\ Goto(q, "send")
    /\ UNCHANGED <<admissionVars, watcherVars, cache, question, snap, waited, reloaded>>

RuleNone(q) ==
    /\ task[q] = "start"
    /\ question[q] \in Keys
    /\ Policy(q) = "none"
    /\ Goto(q, "lookup")
    /\ UNCHANGED <<admissionVars, watcherVars, cache, question, snap, waited, reply, metric,
                   reloaded>>

CacheHit(q) ==
    /\ task[q] = "lookup"
    /\ Hit(Key(q))
    /\ LET p == cache[Key(q)].packet IN Respond(q, "answer", p.about, p.old)
    /\ Count("cached")
    /\ Goto(q, "send")
    /\ UNCHANGED <<admissionVars, watcherVars, cache, question, snap, waited, reloaded>>

CacheMiss(q) ==
    /\ task[q] = "lookup"
    /\ LookupMiss(Key(q))
    /\ Goto(q, "upstream")
    /\ UNCHANGED <<admissionVars, watcherVars, question, snap, waited, reply, metric, reloaded>>

\* The upstream (a resolver or a relay) answers before the timeout fires.
UpstreamOk(q) ==
    /\ task[q] = "upstream"
    /\ \E ttl \in AnswerTtls :
          Store(Key(q), [about |-> question[q], old |-> waited[q]], ttl)
    /\ Respond(q, "answer", question[q], waited[q])
    /\ Count("resolved")
    /\ Goto(q, "send")
    /\ UNCHANGED <<admissionVars, watcherVars, question, snap, waited, reloaded>>

\* Bug: the permit is given up before the reply is sent.
UpstreamErrorUnheld(q) ==
    /\ task[q] = "upstream"
    /\ Respond(q, "servfail", question[q], 0)
    /\ Count("failed")
    /\ Goto(q, "send")
    /\ Finish(q)
    /\ UNCHANGED <<watcherVars, cache, question, snap, waited, reloaded>>

UpstreamError(q) ==
    /\ task[q] = "upstream"
    /\ Respond(q, "servfail", question[q], 0)
    /\ Count("failed")
    /\ Goto(q, "send")
    /\ UNCHANGED <<admissionVars, watcherVars, cache, question, snap, waited, reloaded>>

\* Bugs: a timeout counts as a failure too; a timeout sends no reply.
UpstreamTimeoutTwice(q) ==
    /\ task[q] = "upstream"
    /\ waited[q] >= ResolveTimeout
    /\ Respond(q, "servfail", question[q], 0)
    /\ metric' = [metric EXCEPT !["timeout"] = @ + 1, !["failed"] = @ + 1]
    /\ Goto(q, "send")
    /\ UNCHANGED <<admissionVars, watcherVars, cache, question, snap, waited, reloaded>>

UpstreamTimeoutSilent(q) ==
    /\ task[q] = "upstream"
    /\ waited[q] >= ResolveTimeout
    /\ Count("timeout")
    /\ Goto(q, "ended")
    /\ Finish(q)
    /\ UNCHANGED <<watcherVars, cache, question, snap, waited, reply, reloaded>>

UpstreamTimeout(q) ==
    /\ task[q] = "upstream"
    /\ waited[q] >= ResolveTimeout
    /\ Respond(q, "servfail", question[q], 0)
    /\ Count("timeout")
    /\ Goto(q, "send")
    /\ UNCHANGED <<admissionVars, watcherVars, cache, question, snap, waited, reloaded>>

\* Bug: the permit is forgotten (mem::forget) instead of dropped.
SendKeepingPermit(q) ==
    /\ task[q] = "send"
    /\ Goto(q, "ended")
    /\ stage' = [stage EXCEPT ![q] = "done"]
    /\ UNCHANGED <<sock, batch, backlog, age, permits, waiter, granted, total_req>>
    /\ UNCHANGED <<watcherVars, cache, question, snap, waited, reply, metric, reloaded>>

\* The reply is sent (an error doing so is only logged) and the task ends.
Send(q) ==
    /\ task[q] = "send"
    /\ Goto(q, "ended")
    /\ Finish(q)
    /\ UNCHANGED <<watcherVars, cache, question, snap, waited, reply, metric, reloaded>>

Pipeline(q) ==
    \/ GiveUp(q) \/ RuleDrop(q) \/ RuleRedirect(q) \/ RuleNone(q)
    \/ CacheHit(q) \/ CacheMiss(q)
    \/ UpstreamOk(q) \/ UpstreamError(q) \/ UpstreamTimeout(q)
    \/ Send(q)

-----------------------------------------------------------------------------
(* The watcher, and time.                                                   *)

EditConf == Edit /\ UNCHANGED <<admissionVars, cache, pipelineVars>>

Watch ==
    /\ \/ WatchBoot /\ UNCHANGED cache
       \/ WatchStat /\ UNCHANGED cache
       \/ WatchLoad /\ UNCHANGED cache
       \/ WatchPurge
    /\ reloaded' = [q \in Queries |-> stage[q] = "running" /\ (reloaded[q] \/ trie' # trie)]
    /\ UNCHANGED <<admissionVars, question, snap, task, waited, reply, metric>>

\* Time does not pass a task's deadline: tokio's timer wakes the task then, and
\* it either finds its answer or has timed out.
Tick ==
    /\ \A q \in Queries : task[q] = "upstream" => waited[q] < ResolveTimeout
    /\ Aging
    /\ Expiring
    /\ waited' = [q \in Queries |-> IF task[q] = "upstream" THEN waited[q] + 1 ELSE waited[q]]
    /\ UNCHANGED <<watcherVars, question, snap, task, reply, metric, reloaded>>

Next ==
    \/ \E q \in Queries : Ask(q) \/ Pipeline(q)
    \/ Admit
    \/ EditConf
    \/ Watch
    \/ Tick

Spec == Init /\ [][Next]_vars

\* The runtime schedules every task that can run; time goes on.  Clients and
\* the editor of the file need not do anything, and no upstream need answer.
Fairness ==
    /\ WF_vars(Tick)
    /\ WF_vars(Watch)
    /\ \A l \in Listeners : WF_vars(Admit /\ batch'[l] # batch[l])
    /\ WF_vars(Admit /\ Working)
    /\ \A q \in Queries :
          WF_vars(GiveUp(q) \/ RuleDrop(q) \/ RuleRedirect(q) \/ RuleNone(q)
                  \/ CacheHit(q) \/ CacheMiss(q) \/ UpstreamTimeout(q) \/ Send(q))

FairSpec == Spec /\ Fairness

-----------------------------------------------------------------------------
(* Properties.                                                              *)

\* The types of the composed server's state: the pipeline's own variables, and
\* those of the watcher and the cache it shares.
TypeOK ==
    /\ AdmissionTypeOK
    /\ cache \in [Keys -> Entries \cup {NoEntry}]
    /\ file \in [mtime : Nat, conf : Confs \cup {BadConf, NoFile}]
    /\ seen \in Nat
    /\ watch \in {"boot", "idle", "load", "purge"}
    /\ trie \in Confs
    /\ question \in [Queries -> Questions]
    /\ snap \in [Queries -> Confs]
    /\ task \in [Queries -> Tasks]
    /\ waited \in [Queries -> 0..ResolveTimeout]
    /\ reply \in [Queries -> Replies \cup {NoReply}]
    /\ metric \in [Counters -> Nat]
    /\ reloaded \in [Queries -> BOOLEAN]

\* A permit is held exactly while resolve_query or the sending of its reply is
\* under way: no early return of the pipeline keeps a permit or gives one back
\* twice (the OwnedSemaphorePermit moved into each spawned task).
TaskHoldsPermit ==
    \A q \in Queries :
        stage[q] = "running" <=> task[q] \in {"start", "lookup", "upstream", "send"}

\* Every reply carries the transaction ID of the query it answers and is about
\* the question that query asked, also when the packet came out of the cache,
\* where another client's query put it (with_txid, CacheKey).
ReplyToAsker ==
    \A q \in Queries :
        reply[q] # NoReply => reply[q].txid = q /\ reply[q].about = question[q]

\* No task asks an upstream, or has an answer from an upstream or from the cache,
\* for a name the rules in force do not let through, unless the rules were
\* swapped while the task was already running.  Waiting in the batch, in the
\* backlog or for a permit across a reload does not let a query escape the new
\* rules, nor does an answer that was cached, or is cached by a task still under
\* way, after the purge (load_full at dispatch; rules before the cache).
RulesInForce ==
    \A q \in Queries :
        /\ task[q] \in {"upstream", "send"}
        /\ reply[q] = NoReply \/ reply[q].kind = "answer"
        /\ ~reloaded[q]
        => trie.rules[question[q][1]] = "none"

\* Every reply is counted once, under one outcome, and total_req counts what the
\* listeners took from their sockets (incr_metric! in resolve_query, fetch_add
\* in the listeners).
MetricsAccount ==
    /\ metric["drop"] + metric["redirect"] + metric["cached"] + metric["resolved"]
         + metric["timeout"] + metric["failed"]
       = Cardinality({q \in Queries : reply[q] # NoReply})
    /\ total_req = Cardinality({q \in Queries : stage[q] \notin {"new", "socket"}})

\* No reply rests on data the upstream was asked for longer ago than the longest
\* resolution plus the longest cache lifetime, whichever of several tasks
\* resolving the same question stored last (cache_lookup's expiry check,
\* clamp_cache_ttl, the resolve timeout).
BoundedStaleness ==
    \A q \in Queries :
        reply[q] # NoReply => reply[q].old <= ResolveTimeout + TtlMax

\* Every query that reaches a socket is eventually finished with or dropped, even
\* if no upstream ever answers: nothing waits for ever in a batch, in the
\* backlog, for a permit or on an upstream.
EveryQueryLeaves ==
    \A q \in Queries : stage[q] = "socket" ~> stage[q] \in {"done", "dropped"}

\* Every query that gets a permit and that the pipeline can craft a response for
\* is answered, with SERVFAIL if all else fails.
EveryTaskReplies ==
    \A q \in Queries :
        task[q] = "start" /\ question[q] \in Keys /\ Policy(q) # "dead_redirect"
            ~> task[q] = "ended" /\ reply[q] # NoReply

\* The server admits queries as Admission says.
Admits == AdmissionSpec

=============================================================================
