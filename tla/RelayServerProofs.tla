-------------------------- MODULE RelayServerProofs --------------------------
(***************************************************************************)
(* For any queries, configs, cache and limits: the relay server admits     *)
(* queries as Admission says, its tasks hold a permit exactly while they   *)
(* run, every reply is for the query and the question it is sent to, no    *)
(* task lets through what the rules in force at its dispatch refuse, and   *)
(* they use the cache as CacheSpec says.                                   *)
(***************************************************************************)
EXTENDS RelayServer, SharedProofs

-----------------------------------------------------------------------------
(* The server implements the admission of queries.                          *)

\* The server starts as Admission does.
LEMMA InitAdmits == Init => AdmissionInit
  BY DEF Init

\* Every step of the server is a step of Admission, or changes nothing of it.
LEMMA NextAdmits == [Next]_vars => [AdmissionNext]_admissionVars
  <1> SUFFICES ASSUME [Next]_vars PROVE [AdmissionNext]_admissionVars
    OBVIOUS
  <1>1. ASSUME NEW q \in Queries, Ask(q) PROVE AdmissionNext
    BY <1>1 DEF Ask, AdmissionNext
  <1>2. ASSUME NEW q \in Queries, Pipeline(q) PROVE [AdmissionNext]_admissionVars
    <2>1. CASE GiveUp(q)
      BY <2>1 DEF GiveUp, AdmissionNext
    <2>2. CASE Send(q)
      BY <2>2 DEF Send, AdmissionNext
    <2>3. CASE RuleDrop(q) \/ RuleRedirect(q) \/ RuleNone(q)
      BY <2>3 DEF RuleDrop, RuleRedirect, RuleNone
    <2>4. CASE CacheHit(q) \/ CacheMiss(q)
      BY <2>4 DEF CacheHit, CacheMiss
    <2>5. CASE UpstreamOk(q) \/ UpstreamError(q) \/ UpstreamTimeout(q)
      BY <2>5 DEF UpstreamOk, UpstreamError, UpstreamTimeout
    <2> QED
      BY <1>2, <2>1, <2>2, <2>3, <2>4, <2>5 DEF Pipeline
  <1>3. CASE Admit
    BY <1>3 DEF Admit, AdmissionNext
  <1>4. CASE EditConf \/ Watch
    BY <1>4 DEF EditConf, Watch
  <1>5. CASE Tick
    BY <1>5 DEF Tick, AdmissionNext
  <1>6. CASE UNCHANGED vars
    BY <1>6 DEF vars
  <1> QED
    BY <1>1, <1>2, <1>3, <1>4, <1>5, <1>6 DEF Next

\* The server admits queries as Admission says, whatever its pipeline, its watcher
\* and its cache do in between.
THEOREM ServerAdmits == Spec => Admits
  <1>1. Spec => AdmissionInit /\ [][AdmissionNext]_admissionVars
    BY InitAdmits, NextAdmits, PTL DEF Spec
  <1> QED
    BY <1>1 DEF Admits, AdmissionSpec

\* So the permits of the server are conserved, and its waiting worker is never
\* forgotten.
THEOREM ServerConservesPermits == Spec => [](AdmissionInv /\ PermitsConserved /\ NoLostWakeup)
  BY ServerAdmits, AdmissionInvariant, PermitsAreConserved, WakeupIsNeverLost, PTL DEF Admits

-----------------------------------------------------------------------------
(* The invariant of the pipeline.                                           *)

\* A task exists from its dispatch on, and has ended when its query is done.
TaskStages ==
    \A q \in Queries :
        /\ task[q] = "none" <=> stage[q] \notin {"running", "done"}
        /\ task[q] = "ended" <=> stage[q] = "done"

\* A task that looks something up has a well-formed question; one that sends has
\* a reply, for its own query and about its own question; no other has one.
Replied ==
    \A q \in Queries :
        /\ task[q] \in {"lookup", "upstream"} => question[q] \in Keys
        /\ task[q] = "send" => reply[q] # NoReply
        /\ reply[q] # NoReply => /\ task[q] \in {"send", "ended"}
                                 /\ reply[q].txid = q
                                 /\ reply[q].about = question[q]

\* A task runs with the rules in force unless they were swapped since, and got
\* past its rules only if they let it.
RulesKept ==
    \A q \in Queries :
        /\ stage[q] = "running" /\ ~reloaded[q] => snap[q] = trie
        /\ task[q] \in {"lookup", "upstream"} => Policy(q) = "none"
        /\ task[q] = "send" /\ reply[q].kind = "answer" => Policy(q) = "none"

ServerInv == TypeOK /\ TaskStages /\ CacheAbout /\ Replied /\ RulesKept

-----------------------------------------------------------------------------
(* The steps of the server.                                                 *)

\* The server's invariant holds at the start.
LEMMA ServerInit == Init => ServerInv
  <1> SUFFICES ASSUME Init PROVE ServerInv
    OBVIOUS
  <1>1. file.mtime = 1 /\ file.conf \in Confs /\ file = [mtime |-> file.mtime, conf |-> file.conf]
    BY DEF Init, WatcherInit
  <1>2. AdmissionTypeOK
    BY InitInv DEF Init, AdmissionInv
  <1>3. TypeOK
    BY <1>1, <1>2, PipelineAssumption
       DEF Init, WatcherInit, CacheInit, TypeOK, Questions, Tasks, Counters
  <1>4. TaskStages
    BY DEF Init, AdmissionInit, TaskStages
  <1>5. CacheAbout /\ Replied /\ RulesKept
    BY DEF Init, AdmissionInit, CacheInit, CacheAbout, Replied, RulesKept
  <1> QED
    BY <1>3, <1>4, <1>5 DEF ServerInv

\* A task that crafts its reply.
LEMMA RespondInv ==
  ASSUME ServerInv, NEW q \in Queries, NEW kind \in Kinds, NEW old \in 0..OldMax + 1,
         NEW c \in Counters,
         task[q] \in {"start", "lookup", "upstream"},
         Respond(q, kind, question[q], old), Count(c), Goto(q, "send"),
         kind = "answer" => Policy(q) = "none",
         CacheTyped', CacheAbout',
         UNCHANGED <<admissionVars, watcherVars, question, snap, waited, reloaded>>
  PROVE  ServerInv'
  <1> DEFINE r == [kind |-> kind, about |-> question[q], txid |-> q, old |-> old]
  <1>1. r \in Replies /\ r # NoReply
    <2>1. question[q] \in Questions
      BY DEF ServerInv, TypeOK
    <2>2. r \in Replies
      BY <2>1 DEF Replies
    <2> QED
      BY <2>2, NoReplyAssumption
  <1>2. r.kind = kind /\ r.about = question[q] /\ r.txid = q
    OBVIOUS
  <1>3. reply' = [reply EXCEPT ![q] = r]
    BY DEF Respond
  <1> HIDE DEF r
  <1>4. task' = [task EXCEPT ![q] = "send"]
    BY DEF Goto
  <1>5. UNCHANGED <<stage, question, snap, waited, reloaded, file, seen, watch, trie>>
    BY DEF admissionVars, watcherVars
  <1>6. TypeOK'
    <2>1. AdmissionTypeOK'
      BY DEF ServerInv, TypeOK, AdmissionTypeOK, admissionVars
    <2>2. metric' \in [Counters -> Nat]
      BY DEF ServerInv, TypeOK, Count
    <2>3. task' \in [Queries -> Tasks] /\ reply' \in [Queries -> Replies \cup {NoReply}]
      BY <1>1, <1>3, <1>4 DEF ServerInv, TypeOK, Tasks
    <2> QED
      BY <1>5, <2>1, <2>2, <2>3 DEF ServerInv, TypeOK, CacheTyped
  <1>7. TaskStages'
    BY <1>4, <1>5 DEF ServerInv, TypeOK, TaskStages
  <1>8. Replied'
    BY <1>1, <1>2, <1>3, <1>4, <1>5 DEF ServerInv, TypeOK, Replied
  <1>9. RulesKept'
    BY <1>2, <1>3, <1>4, <1>5 DEF ServerInv, TypeOK, RulesKept, Policy
  <1> QED
    BY <1>6, <1>7, <1>8, <1>9 DEF ServerInv

\* A task that ends, with or without a reply.
LEMMA EndInv ==
  ASSUME ServerInv, AdmissionInv', NEW q \in Queries, task[q] \in {"start", "send"},
         Goto(q, "ended"), Finish(q),
         UNCHANGED <<watcherVars, cache, question, snap, waited, reply, metric, reloaded>>
  PROVE  ServerInv'
  <1>1. task' = [task EXCEPT ![q] = "ended"]
    BY DEF Goto
  <1>2. stage[q] = "running" /\ stage' = [stage EXCEPT ![q] = "done"]
    BY DEF Finish
  <1>3. TypeOK'
    BY <1>1 DEF ServerInv, TypeOK, AdmissionInv, Tasks, watcherVars
  <1>4. TaskStages'
    BY <1>1, <1>2 DEF ServerInv, TypeOK, AdmissionTypeOK, TaskStages
  <1>5. CacheAbout'
    BY DEF ServerInv, CacheAbout
  <1>6. Replied'
    BY <1>1 DEF ServerInv, TypeOK, Replied
  <1>7. RulesKept'
    BY <1>1, <1>2 DEF ServerInv, TypeOK, AdmissionTypeOK, RulesKept, Policy, watcherVars
  <1> QED
    BY <1>3, <1>4, <1>5, <1>6, <1>7 DEF ServerInv

\* A task that goes on, past its rules or past the cache.
LEMMA GoOnInv ==
  ASSUME ServerInv, NEW q \in Queries, NEW t \in {"lookup", "upstream"},
         task[q] \in {"start", "lookup"}, Goto(q, t),
         question[q] \in Keys, Policy(q) = "none",
         CacheTyped', CacheAbout',
         UNCHANGED <<admissionVars, watcherVars, question, snap, waited, reply, metric, reloaded>>
  PROVE  ServerInv'
  <1>1. task' = [task EXCEPT ![q] = t]
    BY DEF Goto
  <1>2. UNCHANGED <<stage, file, seen, watch, trie>>
    BY DEF admissionVars, watcherVars
  <1>3. TypeOK'
    <2>1. AdmissionTypeOK'
      BY DEF ServerInv, TypeOK, AdmissionTypeOK, admissionVars
    <2> QED
      BY <1>1, <1>2, <2>1 DEF ServerInv, TypeOK, Tasks, CacheTyped
  <1>4. TaskStages'
    BY <1>1, <1>2 DEF ServerInv, TypeOK, TaskStages
  <1>5. Replied'
    BY <1>1 DEF ServerInv, TypeOK, Replied
  <1>6. RulesKept'
    BY <1>1, <1>2 DEF ServerInv, TypeOK, RulesKept, Policy
  <1> QED
    BY <1>3, <1>4, <1>5, <1>6 DEF ServerInv

\* Every step of resolve_query keeps the invariant.
LEMMA PipelineInv ==
  ASSUME ServerInv, AdmissionInv', NEW q \in Queries, Pipeline(q)
  PROVE  ServerInv'
  <1>1. CacheTyped /\ CacheAbout
    BY DEF ServerInv, TypeOK, CacheTyped
  <1>2. UNCHANGED cache => CacheTyped' /\ CacheAbout'
    BY <1>1 DEF CacheTyped, CacheAbout
  <1>3. 0 \in 0..OldMax + 1
    BY TtlAssumption
  <1>4. CASE GiveUp(q)
    BY <1>4, EndInv DEF GiveUp
  <1>5. CASE Send(q)
    BY <1>5, EndInv DEF Send
  <1>6. CASE RuleDrop(q)
    BY <1>2, <1>3, <1>6, RespondInv DEF RuleDrop, Kinds, Counters
  <1>7. CASE RuleRedirect(q)
    BY <1>2, <1>3, <1>7, RespondInv DEF RuleRedirect, Kinds, Counters
  <1>8. CASE RuleNone(q)
    BY <1>2, <1>8, GoOnInv DEF RuleNone
  <1>9. CASE CacheHit(q)
    <2>1. task[q] = "lookup" /\ Key(q) \in Keys /\ Key(q) = question[q]
      BY <1>9 DEF CacheHit, ServerInv, Replied, Key
    <2>2. cache[Key(q)] \in Entries /\ cache[Key(q)].packet.about = question[q]
      BY <1>1, <1>9, <2>1 DEF CacheHit, Hit, CacheTyped, CacheAbout
    <2>3. cache[Key(q)].packet.old \in 0..OldMax + 1
      BY <2>2 DEF Entries, Packets
    <2>4. Respond(q, "answer", question[q], cache[Key(q)].packet.old)
      BY <1>9, <2>2 DEF CacheHit
    <2>5. Policy(q) = "none"
      BY <2>1 DEF ServerInv, RulesKept
    <2> QED
      BY <1>2, <1>9, <2>1, <2>3, <2>4, <2>5, RespondInv DEF CacheHit, Kinds, Counters
  <1>10. CASE CacheMiss(q)
    <2>1. task[q] = "lookup" /\ Key(q) \in Keys /\ Key(q) = question[q] /\ Policy(q) = "none"
      BY <1>10 DEF CacheMiss, ServerInv, Replied, RulesKept, Key
    <2>2. CacheTyped' /\ CacheAbout'
      BY <1>1, <1>10, <2>1, MissKeeps DEF CacheMiss
    <2> QED
      BY <1>10, <2>1, <2>2, GoOnInv DEF CacheMiss
  <1>11. CASE UpstreamOk(q)
    <2>1. task[q] = "upstream" /\ Key(q) \in Keys /\ Key(q) = question[q] /\ Policy(q) = "none"
      BY <1>11 DEF UpstreamOk, ServerInv, Replied, RulesKept, Key
    <2>2. waited[q] \in 0..OldMax + 1
      BY PipelineAssumption, TtlAssumption DEF ServerInv, TypeOK
    <2> DEFINE p == [about |-> question[q], old |-> waited[q]]
    <2>3. p \in Packets /\ p.about = Key(q)
      BY <2>1, <2>2 DEF Packets
    <2>4. PICK ttl \in AnswerTtls : Store(Key(q), p, ttl)
      BY <1>11 DEF UpstreamOk
    <2> HIDE DEF p
    <2>5. CacheTyped' /\ CacheAbout'
      BY <1>1, <2>1, <2>3, <2>4, StoreKeeps, PipelineAssumption
    <2> QED
      BY <1>11, <2>1, <2>2, <2>5, RespondInv DEF UpstreamOk, Kinds, Counters
  <1>12. CASE UpstreamError(q)
    BY <1>2, <1>3, <1>12, RespondInv DEF UpstreamError, Kinds, Counters
  <1>13. CASE UpstreamTimeout(q)
    BY <1>2, <1>3, <1>13, RespondInv DEF UpstreamTimeout, Kinds, Counters
  <1> QED
    BY <1>4, <1>5, <1>6, <1>7, <1>8, <1>9, <1>10, <1>11, <1>12, <1>13 DEF Pipeline

\* A query that arrives has no task yet, so its question may still change.
LEMMA AskInv ==
  ASSUME ServerInv, AdmissionInv', NEW q \in Queries, Ask(q)
  PROVE  ServerInv'
  <1>1. stage[q] = "new" /\ stage' = [stage EXCEPT ![q] = "socket"]
    BY DEF Ask, Arrive
  <1>2. PICK ask \in Asked : question' = [question EXCEPT ![q] = ask]
    BY DEF Ask
  <1>3. task[q] = "none" /\ reply[q] = NoReply
    BY <1>1 DEF ServerInv, TaskStages, Replied
  <1>4. UNCHANGED <<file, seen, watch, trie, cache, snap, task, waited, reply, metric, reloaded>>
    BY DEF Ask, watcherVars
  <1>5. TypeOK'
    BY <1>2, <1>4, AskedAssumption DEF ServerInv, TypeOK, AdmissionInv
  <1>6. TaskStages' /\ CacheAbout'
    BY <1>1, <1>3, <1>4 DEF ServerInv, TypeOK, AdmissionTypeOK, TaskStages, CacheAbout
  <1>7. Replied'
    BY <1>2, <1>3, <1>4 DEF ServerInv, TypeOK, Replied
  <1>8. RulesKept'
    BY <1>1, <1>2, <1>3, <1>4 DEF ServerInv, TypeOK, AdmissionTypeOK, RulesKept, Policy
  <1> QED
    BY <1>5, <1>6, <1>7, <1>8 DEF ServerInv

\* A dispatched query gets the trie in force; every other keeps what it has.
LEMMA AdmitInv ==
  ASSUME ServerInv, AdmissionInv, AdmissionInv', Admit
  PROVE  ServerInv'
  <1>1. \A q \in Queries :
           /\ stage[q] \in {"running", "done"} => stage'[q] = stage[q]
           /\ stage'[q] = "done" => stage[q] = "done"
    BY StagesKept DEF Admit
  <1>2. UNCHANGED <<file, seen, watch, trie, cache, question, waited, reply, metric, reloaded>>
    BY DEF Admit, watcherVars
  <1>3. \A q \in Queries :
           IF Spawned(q) THEN snap'[q] = trie /\ task'[q] = "start"
                         ELSE snap'[q] = snap[q] /\ task'[q] = task[q]
    BY DEF Admit, LoadTrie
  <1>4. TypeOK'
    <2>1. task' \in [Queries -> Tasks] /\ snap' \in [Queries -> Confs]
      BY <1>3 DEF Admit, LoadTrie, ServerInv, TypeOK, Tasks
    <2> QED
      BY <1>2, <2>1 DEF ServerInv, TypeOK, AdmissionInv
  <1>5. TaskStages'
    BY <1>1, <1>3 DEF ServerInv, TaskStages, Spawned
  <1>6. \A q \in Queries : Spawned(q) => task[q] = "none" /\ reply[q] = NoReply
    BY <1>1 DEF ServerInv, TaskStages, Replied, Spawned
  <1>7. CacheAbout' /\ Replied'
    BY <1>2, <1>3, <1>6 DEF ServerInv, CacheAbout, Replied
  <1>8. RulesKept'
    BY <1>1, <1>2, <1>3, <1>6 DEF ServerInv, RulesKept, Policy, Spawned
  <1> QED
    BY <1>4, <1>5, <1>7, <1>8 DEF ServerInv

\* A reload marks every running task when it swaps the trie.
LEMMA WatchInv ==
  ASSUME ServerInv, AdmissionInv', Watch
  PROVE  ServerInv'
  <1>1. UNCHANGED <<stage, question, snap, task, waited, reply, metric>>
    BY DEF Watch, admissionVars
  <1>2. reloaded' = [q \in Queries |-> stage[q] = "running" /\ (reloaded[q] \/ trie' # trie)]
    BY DEF Watch
  <1>3. CacheTyped /\ CacheAbout
    BY DEF ServerInv, TypeOK, CacheTyped
  <1>4. CacheTyped' /\ CacheAbout'
    <2>1. CASE WatchPurge
      BY <1>3, <2>1, PurgeKeeps DEF WatchPurge
    <2>2. CASE UNCHANGED cache
      BY <1>3, <2>2 DEF CacheTyped, CacheAbout
    <2> QED
      BY <2>1, <2>2 DEF Watch
  <1>5. /\ file' \in [mtime : Nat, conf : Confs \cup {BadConf, NoFile}]
        /\ seen' \in Nat
        /\ watch' \in {"boot", "idle", "load", "purge"}
        /\ trie' \in Confs
    BY DEF Watch, WatchBoot, WatchStat, WatchLoad, WatchPurge, ServerInv, TypeOK
  <1>6. TypeOK'
    <2>1. reloaded' \in [Queries -> BOOLEAN]
      BY <1>2
    <2> QED
      BY <1>1, <1>4, <1>5, <2>1 DEF ServerInv, TypeOK, AdmissionInv, CacheTyped
  <1>7. TaskStages' /\ Replied'
    BY <1>1 DEF ServerInv, TaskStages, Replied
  <1>8. RulesKept'
    <2>1. ASSUME NEW q \in Queries, stage[q] = "running", ~reloaded'[q]
          PROVE  snap[q] = trie'
      BY <1>2, <2>1 DEF ServerInv, RulesKept
    <2> QED
      BY <1>1, <2>1 DEF ServerInv, RulesKept, Policy
  <1> QED
    BY <1>4, <1>6, <1>7, <1>8 DEF ServerInv

\* Time passes, and stops at the deadline of a task that awaits its upstream.
LEMMA TickInv ==
  ASSUME ServerInv, AdmissionInv', Tick
  PROVE  ServerInv'
  <1>1. /\ UNCHANGED <<stage, file, seen, watch, trie, question, snap, task, reply, metric, reloaded>>
    BY DEF Tick, Aging, watcherVars
  <1>2. waited' \in [Queries -> 0..ResolveTimeout]
    <2>1. ASSUME NEW q \in Queries PROVE waited'[q] \in 0..ResolveTimeout
      <3>1. waited[q] \in 0..ResolveTimeout
        BY DEF ServerInv, TypeOK
      <3>2. CASE task[q] = "upstream"
        BY <3>1, <3>2, PipelineAssumption DEF Tick
      <3>3. CASE task[q] # "upstream"
        BY <3>1, <3>3 DEF Tick
      <3> QED
        BY <3>2, <3>3
    <2> QED
      BY <2>1 DEF Tick
  <1>3. CacheTyped' /\ CacheAbout'
    BY ExpiringKeeps DEF Tick, ServerInv, TypeOK, CacheTyped
  <1>4. TypeOK'
    BY <1>1, <1>2, <1>3 DEF ServerInv, TypeOK, AdmissionInv, CacheTyped
  <1>5. TaskStages' /\ Replied' /\ RulesKept'
    BY <1>1 DEF ServerInv, TaskStages, Replied, RulesKept, Policy
  <1> QED
    BY <1>3, <1>4, <1>5 DEF ServerInv

\* So does an edit of the config file.
LEMMA EditInv ==
  ASSUME ServerInv, EditConf
  PROVE  ServerInv'
  <1>1. /\ UNCHANGED <<admissionVars, cache, pipelineVars, seen, watch, trie>>
        /\ \E c \in Confs \cup {BadConf, NoFile} : file' = [mtime |-> file.mtime + 1, conf |-> c]
    BY DEF EditConf, Edit
  <1>2. file' \in [mtime : Nat, conf : Confs \cup {BadConf, NoFile}]
    BY <1>1 DEF ServerInv, TypeOK
  <1>3. UNCHANGED <<question, snap, task, waited, reply, metric, reloaded, stage>>
    BY <1>1 DEF pipelineVars, admissionVars
  <1>4. AdmissionTypeOK'
    BY <1>1 DEF ServerInv, TypeOK, AdmissionTypeOK, admissionVars
  <1> QED
    BY <1>1, <1>2, <1>3, <1>4
       DEF ServerInv, TypeOK, TaskStages, CacheAbout, Replied, RulesKept, Policy

\* Every step of the server keeps the invariant.
LEMMA ServerNext ==
  ServerInv /\ AdmissionInv /\ AdmissionInv' /\ [Next]_vars => ServerInv'
  <1> SUFFICES ASSUME ServerInv, AdmissionInv, AdmissionInv', [Next]_vars PROVE ServerInv'
    OBVIOUS
  <1>1. ASSUME NEW q \in Queries, Ask(q) \/ Pipeline(q) PROVE ServerInv'
    BY <1>1, AskInv, PipelineInv
  <1>2. CASE Admit
    BY <1>2, AdmitInv
  <1>3. CASE EditConf
    BY <1>3, EditInv
  <1>4. CASE Watch
    BY <1>4, WatchInv
  <1>5. CASE Tick
    BY <1>5, TickInv
  <1>6. CASE UNCHANGED vars
    <2>1. AdmissionTypeOK'
      BY <1>6 DEF ServerInv, TypeOK, AdmissionTypeOK, admissionVars, vars
    <2> QED
      BY <1>6, <2>1 DEF vars, admissionVars, watcherVars, pipelineVars, ServerInv, TypeOK,
                        TaskStages, CacheAbout, Replied, RulesKept, Policy
  <1> QED
    BY <1>1, <1>2, <1>3, <1>4, <1>5, <1>6 DEF Next

-----------------------------------------------------------------------------
\* The invariant of the pipeline holds in every state of the server.
THEOREM ServerInvariant == Spec => []ServerInv
  BY ServerInit, ServerNext, ServerConservesPermits, PTL DEF Spec

\* The server's state always has its types: no step stores an entry with an
\* unclamped lifetime, overruns a deadline or leaves a reply half made.
THEOREM ServerTypeCorrect == Spec => []TypeOK
  <1>1. ServerInv => TypeOK
    BY DEF ServerInv
  <1> QED
    BY <1>1, ServerInvariant, PTL

\* A task holds a permit exactly while it runs.
THEOREM TasksHoldPermits == Spec => []TaskHoldsPermit
  <1>1. ServerInv => TaskHoldsPermit
    BY DEF ServerInv, TypeOK, Tasks, AdmissionTypeOK, TaskStages, TaskHoldsPermit
  <1> QED
    BY <1>1, ServerInvariant, PTL

\* Every reply goes to the query, and is about the question, it was crafted for.
THEOREM RepliesGoToAskers == Spec => []ReplyToAsker
  <1>1. ServerInv => ReplyToAsker
    BY DEF ServerInv, Replied, ReplyToAsker
  <1> QED
    BY <1>1, ServerInvariant, PTL

\* No task lets through a name that the rules in force since its dispatch refuse.
THEOREM RulesAreInForce == Spec => []RulesInForce
  <1>1. ServerInv => RulesInForce
    <2> SUFFICES ASSUME ServerInv, NEW q \in Queries, task[q] \in {"upstream", "send"},
                        reply[q] = NoReply \/ reply[q].kind = "answer", ~reloaded[q]
                 PROVE  trie.rules[question[q][1]] = "none"
      BY DEF RulesInForce
    <2>1. stage[q] = "running"
      BY DEF ServerInv, TaskStages
    <2>2. snap[q] = trie
      BY <2>1 DEF ServerInv, RulesKept
    <2>3. Policy(q) = "none"
      BY DEF ServerInv, Replied, RulesKept
    <2> QED
      BY <2>2, <2>3 DEF Policy
  <1> QED
    BY <1>1, ServerInvariant, PTL

-----------------------------------------------------------------------------
(* The age of what is sent.                                                 *)

RepliesFresh ==
    \A q \in Queries : reply[q] # NoReply => reply[q].old <= ResolveTimeout + TtlMax

Fresh == CacheFresh(ResolveTimeout) /\ RepliesFresh

\* A reply crafted from fresh data leaves the others as they are.
LEMMA RespondFresh ==
  ASSUME ServerInv, RepliesFresh, NEW q \in Queries, NEW kind, NEW about, NEW old,
         Respond(q, kind, about, old), old <= ResolveTimeout + TtlMax
  PROVE  RepliesFresh'
  <1> DEFINE r == [kind |-> kind, about |-> about, txid |-> q, old |-> old]
  <1>1. reply' = [reply EXCEPT ![q] = r] /\ r.old = old
    BY DEF Respond
  <1> HIDE DEF r
  <1> QED
    BY <1>1 DEF RepliesFresh, ServerInv, TypeOK

\* Every step of resolve_query keeps what is cached and what is sent fresh.
LEMMA PipelineFresh ==
  ASSUME ServerInv, Fresh, NEW q \in Queries, Pipeline(q)
  PROVE  Fresh'
  <1>1. CacheTyped /\ CacheFresh(ResolveTimeout) /\ RepliesFresh /\ ResolveTimeout \in Nat
    BY PipelineAssumption DEF Fresh, ServerInv, TypeOK, CacheTyped
  <1>2. UNCHANGED cache => CacheFresh(ResolveTimeout)'
    BY <1>1, RemovalFresh
  <1>3. UNCHANGED reply => RepliesFresh'
    BY <1>1 DEF RepliesFresh
  <1>4. 0 <= ResolveTimeout + TtlMax
    BY <1>1, TtlAssumption
  <1>5. CASE GiveUp(q) \/ Send(q) \/ RuleNone(q)
    BY <1>2, <1>3, <1>5 DEF GiveUp, Send, RuleNone, Fresh
  <1>6. CASE RuleDrop(q) \/ RuleRedirect(q)
    <2>1. RepliesFresh'
      BY <1>1, <1>4, <1>6, RespondFresh DEF RuleDrop, RuleRedirect
    <2> QED
      BY <1>2, <1>6, <2>1 DEF RuleDrop, RuleRedirect, Fresh
  <1>7. CASE UpstreamError(q) \/ UpstreamTimeout(q)
    <2>1. RepliesFresh'
      BY <1>1, <1>4, <1>7, RespondFresh DEF UpstreamError, UpstreamTimeout
    <2> QED
      BY <1>2, <1>7, <2>1 DEF UpstreamError, UpstreamTimeout, Fresh
  <1>8. CASE CacheMiss(q)
    <2>1. Key(q) \in Keys
      BY <1>8 DEF CacheMiss, ServerInv, Replied, Key
    <2>2. CacheFresh(ResolveTimeout)'
      BY <1>1, <1>8, <2>1, RemovalFresh DEF CacheMiss
    <2> QED
      BY <1>3, <1>8, <2>2 DEF CacheMiss, Fresh
  <1>9. CASE CacheHit(q)
    <2> DEFINE e == cache[Key(q)]
    <2>1. Key(q) \in Keys /\ Hit(Key(q))
      BY <1>9 DEF CacheHit, ServerInv, Replied, Key
    <2>2. e \in Entries /\ e.packet.old + e.left <= ResolveTimeout + TtlMax
      BY <1>1, <2>1 DEF CacheTyped, CacheFresh, Hit
    <2>3. e.packet.old \in Nat /\ e.left \in Nat
      BY <2>2, TtlAssumption DEF Entries, Packets
    <2>4. Respond(q, "answer", e.packet.about, e.packet.old)
      BY <1>9 DEF CacheHit
    <2> HIDE DEF e
    <2>5. e.packet.old <= ResolveTimeout + TtlMax
      BY <1>1, <2>2, <2>3, TtlAssumption
    <2>6. RepliesFresh'
      BY <1>1, <2>4, <2>5, RespondFresh
    <2> QED
      BY <1>2, <1>9, <2>6 DEF CacheHit, Fresh
  <1>10. CASE UpstreamOk(q)
    <2>1. Key(q) \in Keys /\ Key(q) = question[q]
      BY <1>10 DEF UpstreamOk, ServerInv, Replied, Key
    <2>2. waited[q] \in 0..ResolveTimeout
      BY DEF ServerInv, TypeOK
    <2>3. waited[q] \in 0..OldMax + 1 /\ waited[q] <= ResolveTimeout
          /\ waited[q] <= ResolveTimeout + TtlMax
      BY <1>1, <2>2, PipelineAssumption, TtlAssumption
    <2> DEFINE p == [about |-> question[q], old |-> waited[q]]
    <2>4. p \in Packets /\ p.old <= ResolveTimeout
      BY <2>1, <2>3 DEF Packets
    <2>5. PICK ttl \in AnswerTtls : Store(Key(q), p, ttl)
      BY <1>10 DEF UpstreamOk
    <2> HIDE DEF p
    <2>6. CacheFresh(ResolveTimeout)'
      BY <1>1, <2>1, <2>4, <2>5, StoreFresh, PipelineAssumption
    <2>7. RepliesFresh'
      BY <1>1, <1>10, <2>3, RespondFresh DEF UpstreamOk
    <2> QED
      BY <2>6, <2>7 DEF Fresh
  <1> QED
    BY <1>5, <1>6, <1>7, <1>8, <1>9, <1>10 DEF Pipeline

\* Every step of the server keeps ages within the bound.
LEMMA FreshNext == ServerInv /\ Fresh /\ [Next]_vars => Fresh'
  <1> SUFFICES ASSUME ServerInv, Fresh, [Next]_vars PROVE Fresh'
    OBVIOUS
  <1>1. CacheTyped /\ CacheFresh(ResolveTimeout) /\ RepliesFresh /\ ResolveTimeout \in Nat
    BY PipelineAssumption DEF Fresh, ServerInv, TypeOK, CacheTyped
  <1>2. UNCHANGED reply => RepliesFresh'
    BY <1>1 DEF RepliesFresh
  <1>3. CASE Tick
    BY <1>1, <1>2, <1>3, ExpiringFresh DEF Tick, Fresh
  <1>4. CASE Watch
    <2>1. CacheFresh(ResolveTimeout)'
      BY <1>1, <1>4, RemovalFresh DEF Watch, WatchPurge
    <2> QED
      BY <1>2, <1>4, <2>1 DEF Watch, Fresh
  <1>5. ASSUME Admit \/ EditConf \/ UNCHANGED vars \/ \E q \in Queries : Ask(q) PROVE Fresh'
    <2>1. UNCHANGED <<cache, reply>>
      BY <1>5 DEF Admit, EditConf, vars, pipelineVars, Ask
    <2> QED
      BY <1>1, <1>2, <2>1, RemovalFresh DEF Fresh
  <1> QED
    BY <1>3, <1>4, <1>5, PipelineFresh DEF Next

\* No reply rests on data older than the longest resolution and the longest cache
\* lifetime together, whichever task stored it last (cache_lookup, clamp_cache_ttl).
THEOREM StalenessIsBounded == Spec => []BoundedStaleness
  <1>1. Init => Fresh
    BY DEF Init, CacheInit, Fresh, CacheFresh, Hit, RepliesFresh
  <1>2. Fresh => BoundedStaleness
    BY DEF Fresh, RepliesFresh, BoundedStaleness
  <1> QED
    BY <1>1, <1>2, FreshNext, ServerInvariant, PTL DEF Spec

-----------------------------------------------------------------------------
(* The counters.                                                            *)

Answered == {q \in Queries : reply[q] # NoReply}

Outcomes ==
    metric["drop"] + metric["redirect"] + metric["cached"] + metric["resolved"]
      + metric["timeout"] + metric["failed"]

OutcomesCounted == Outcomes = Cardinality(Answered)

\* A task has no reply before it crafts one, and counts it once, under one outcome.
LEMMA RespondCounted ==
  ASSUME ServerInv, OutcomesCounted, NEW q \in Queries, NEW kind \in Kinds,
         NEW about \in Questions, NEW old \in 0..OldMax + 1, NEW c \in Counters,
         task[q] \in {"start", "lookup", "upstream"}, Respond(q, kind, about, old), Count(c)
  PROVE  OutcomesCounted'
  <1> DEFINE r == [kind |-> kind, about |-> about, txid |-> q, old |-> old]
  <1>1. r # NoReply
    BY NoReplyAssumption DEF Replies
  <1>2. reply' = [reply EXCEPT ![q] = r]
    BY DEF Respond
  <1>3. reply[q] = NoReply
    BY DEF ServerInv, Replied
  <1> HIDE DEF r
  <1>4. Answered' = Answered \cup {q} /\ q \notin Answered
    BY <1>1, <1>2, <1>3 DEF Answered, ServerInv, TypeOK
  <1>5. IsFiniteSet(Answered) /\ Cardinality(Answered) \in Nat
    BY QueriesAssumption, FS_Subset, FS_CardinalityType DEF Answered
  <1>6. Cardinality(Answered') = Cardinality(Answered) + 1
    BY <1>4, <1>5, FS_AddElement
  <1>7. metric \in [Counters -> Nat] /\ metric' = [metric EXCEPT ![c] = @ + 1]
    BY DEF ServerInv, TypeOK, Count
  <1>8. Outcomes' = Outcomes + 1
    <2>1. \A d \in Counters : /\ metric[d] \in Nat
                              /\ metric'[d] = IF d = c THEN metric[d] + 1 ELSE metric[d]
      BY <1>7
    <2>2. CASE c = "drop"
      BY <2>1, <2>2 DEF Outcomes, Counters
    <2>3. CASE c = "redirect"
      BY <2>1, <2>3 DEF Outcomes, Counters
    <2>4. CASE c = "cached"
      BY <2>1, <2>4 DEF Outcomes, Counters
    <2>5. CASE c = "resolved"
      BY <2>1, <2>5 DEF Outcomes, Counters
    <2>6. CASE c = "timeout"
      BY <2>1, <2>6 DEF Outcomes, Counters
    <2>7. CASE c = "failed"
      BY <2>1, <2>7 DEF Outcomes, Counters
    <2> QED
      BY <2>2, <2>3, <2>4, <2>5, <2>6, <2>7 DEF Counters
  <1> QED
    BY <1>6, <1>8 DEF OutcomesCounted

\* Every step counts the outcomes it brings about, once.
LEMMA CountedNext == ServerInv /\ OutcomesCounted /\ [Next]_vars => OutcomesCounted'
  <1> SUFFICES ASSUME ServerInv, OutcomesCounted, [Next]_vars PROVE OutcomesCounted'
    OBVIOUS
  <1>1. UNCHANGED <<reply, metric>> => OutcomesCounted'
    BY DEF OutcomesCounted, Outcomes, Answered
  <1>2. CASE Admit \/ EditConf \/ Watch \/ Tick \/ UNCHANGED vars
    BY <1>1, <1>2 DEF Admit, EditConf, Watch, Tick, vars, pipelineVars
  <1>3. ASSUME NEW q \in Queries, Ask(q) PROVE OutcomesCounted'
    BY <1>1, <1>3 DEF Ask
  <1>4. ASSUME NEW q \in Queries, Pipeline(q) PROVE OutcomesCounted'
    <2>1. /\ question[q] \in Questions /\ 0 \in 0..OldMax + 1 /\ waited[q] \in 0..OldMax + 1
      BY PipelineAssumption, TtlAssumption DEF ServerInv, TypeOK
    <2>2. CASE GiveUp(q) \/ Send(q) \/ RuleNone(q) \/ CacheMiss(q)
      BY <1>1, <2>2 DEF GiveUp, Send, RuleNone, CacheMiss
    <2>3. CASE RuleDrop(q) \/ RuleRedirect(q)
      BY <2>1, <2>3, RespondCounted DEF RuleDrop, RuleRedirect, Kinds, Counters
    <2>4. CASE UpstreamError(q) \/ UpstreamTimeout(q)
      BY <2>1, <2>4, RespondCounted DEF UpstreamError, UpstreamTimeout, Kinds, Counters
    <2>5. CASE UpstreamOk(q)
      BY <2>1, <2>5, RespondCounted DEF UpstreamOk, Kinds, Counters
    <2>6. CASE CacheHit(q)
      <3> DEFINE p == cache[Key(q)].packet
      <3>1. task[q] = "lookup" /\ Key(q) \in Keys /\ cache[Key(q)] \in Entries
        BY <2>6 DEF CacheHit, Hit, ServerInv, TypeOK, Replied, Key
      <3>2. p.about \in Questions /\ p.old \in 0..OldMax + 1
        BY <3>1 DEF Entries, Packets, Questions, Keys
      <3>3. Respond(q, "answer", p.about, p.old) /\ Count("cached")
        BY <2>6 DEF CacheHit
      <3> HIDE DEF p
      <3> QED
        BY <3>1, <3>2, <3>3, RespondCounted DEF Kinds, Counters
    <2> QED
      BY <1>4, <2>2, <2>3, <2>4, <2>5, <2>6 DEF Pipeline
  <1> QED
    BY <1>2, <1>3, <1>4 DEF Next

\* The outcome counters add up to the replies crafted, and total_req to the queries
\* the listeners took (incr_metric!, fetch_add).
THEOREM MetricsAddUp == Spec => []MetricsAccount
  <1>1. Init => OutcomesCounted
    <2> SUFFICES ASSUME Init PROVE OutcomesCounted
      OBVIOUS
    <2>1. Answered = {} /\ \A c \in Counters : metric[c] = 0
      BY DEF Init, Answered
    <2> QED
      BY <2>1, FS_EmptySet DEF OutcomesCounted, Outcomes, Counters
  <1>2. OutcomesCounted /\ TotalCounted => MetricsAccount
    BY DEF OutcomesCounted, Outcomes, Answered, TotalCounted, Taken, MetricsAccount
  <1> QED
    BY <1>1, <1>2, CountedNext, ServerInvariant, ServerAdmits, TotalIsCounted, PTL
       DEF Spec, Admits

\* Every query of the server is in the one place its stage says.
THEOREM ServerKeepsPlaces == Spec => []Places
  BY ServerAdmits, PlacesAreKept, PTL DEF Admits

-----------------------------------------------------------------------------
(* The server uses the cache by its operations alone.                       *)

\* Every step of the server is an operation of the cache, or leaves it alone.
LEMMA StepOfCache == ServerInv /\ [Next]_vars => [CacheNext]_cache
  <1> SUFFICES ASSUME ServerInv, [Next]_vars PROVE [CacheNext]_cache
    OBVIOUS
  <1>1. ASSUME NEW q \in Queries, Pipeline(q) PROVE [CacheNext]_cache
    <2>1. CASE CacheMiss(q)
      <3>1. Key(q) \in Keys /\ LookupMiss(Key(q))
        BY <2>1 DEF CacheMiss, ServerInv, Replied, Key
      <3> QED
        BY <3>1 DEF CacheNext
    <2>2. CASE UpstreamOk(q)
      <3>1. Key(q) \in Keys /\ Key(q) = question[q]
        BY <2>2 DEF UpstreamOk, ServerInv, Replied, Key
      <3>2. waited[q] \in 0..OldMax + 1
        BY PipelineAssumption, TtlAssumption DEF ServerInv, TypeOK
      <3> DEFINE p == [about |-> question[q], old |-> waited[q]]
      <3>3. p \in Packets
        BY <3>1, <3>2 DEF Packets
      <3>4. PICK ttl \in AnswerTtls : Store(Key(q), p, ttl)
        BY <2>2 DEF UpstreamOk
      <3> HIDE DEF p
      <3>5. ttl \in Nat
        BY PipelineAssumption
      <3> QED
        BY <3>1, <3>3, <3>4, <3>5, StoreIsNext
    <2>3. CASE GiveUp(q) \/ RuleDrop(q) \/ RuleRedirect(q) \/ RuleNone(q) \/ CacheHit(q)
      BY <2>3 DEF GiveUp, RuleDrop, RuleRedirect, RuleNone, CacheHit
    <2>4. CASE UpstreamError(q) \/ UpstreamTimeout(q) \/ Send(q)
      BY <2>4 DEF UpstreamError, UpstreamTimeout, Send
    <2> QED
      BY <1>1, <2>1, <2>2, <2>3, <2>4 DEF Pipeline
  <1>2. CASE Watch
    <2>1. CASE WatchPurge
      <3>1. trie.purge \in SUBSET Names
        BY ConfsAssumption DEF ServerInv, TypeOK
      <3> QED
        BY <2>1, <3>1 DEF WatchPurge, CacheNext
    <2> QED
      BY <1>2, <2>1 DEF Watch
  <1>3. CASE Tick
    BY <1>3 DEF Tick, CacheNext
  <1>4. CASE (\E q \in Queries : Ask(q)) \/ Admit \/ EditConf \/ UNCHANGED vars
    BY <1>4 DEF Ask, Admit, EditConf, vars
  <1> QED
    BY <1>1, <1>2, <1>3, <1>4 DEF Next

\* Tasks, watcher and clock leave nothing in the cache but what one of its operations
\* does at a time (the mutex of DNS_CACHE): what holds of every use of the cache holds of
\* the server's.
THEOREM ServerUsesCache == Spec => CacheSpec
  <1>1. Init => CacheInit
    BY DEF Init
  <1>2. Spec => CacheInit /\ [][CacheNext]_cache
    BY <1>1, StepOfCache, ServerInvariant, PTL DEF Spec
  <1> QED
    BY <1>2 DEF CacheSpec

\* Above all its capacity, however many tasks store at once.
THEOREM ServerCacheBounded == Spec => []CacheBounded
  BY ServerUsesCache, CacheIsBounded, PTL

=============================================================================
