-------------------------- MODULE ProxyServerProofs --------------------------
(***************************************************************************)
(* For any queries, targets, rules and limits: resolver_proxy admits       *)
(* queries as Admission says, gives up on a query only after all targets   *)
(* and within their timeouts, sends a reply to whoever asked, asks no      *)
(* target for what the rules refuse, and uses the cache as CacheSpec says. *)
(***************************************************************************)
EXTENDS ProxyServer, SharedProofs

-----------------------------------------------------------------------------
(* The proxy implements the admission of queries.                           *)

\* A step of the proxy is a step of Admission, or leaves its variables alone.
LEMMA NextAdmits == [Next]_vars => [AdmissionNext]_admissionVars
  <1> SUFFICES ASSUME [Next]_vars PROVE [AdmissionNext]_admissionVars
    OBVIOUS
  <1>1. ASSUME NEW q \in Queries, Ask(q) PROVE AdmissionNext
    BY <1>1 DEF Ask, AdmissionNext, Listeners
  <1>2. ASSUME NEW q \in Queries, Handle(q) PROVE [AdmissionNext]_admissionVars
    <2>1. CASE GiveUp(q) \/ Send(q)
      BY <2>1 DEF GiveUp, Send, AdmissionNext
    <2>2. CASE RuleReply(q) \/ RuleNone(q) \/ CacheHit(q) \/ CacheMiss(q)
      BY <2>2 DEF RuleReply, RuleNone, CacheHit, CacheMiss
    <2>3. CASE Pick(q) \/ ForwardOk(q)
      BY <2>3 DEF Pick, ForwardOk
    <2>4. CASE ForwardError(q) \/ ForwardTimeout(q)
      BY <2>4 DEF ForwardError, ForwardTimeout, NextTarget, AdmissionNext
    <2> QED
      BY <1>2, <2>1, <2>2, <2>3, <2>4 DEF Handle
  <1>3. CASE Admit
    BY <1>3 DEF Admit, AdmissionNext
  <1>4. CASE EditConf \/ Watch
    BY <1>4 DEF EditConf, Watch
  <1>5. CASE Tick
    BY <1>5 DEF Tick, AdmissionNext
  <1>6. CASE UNCHANGED vars
    BY <1>6 DEF vars
  <1> QED
    BY <1>1, <1>2, <1>3, <1>4, <1>5, <1>6 DEF Next

\* A task of the proxy holds one permit from its dispatch to its end, however many
\* targets it tries, and gives it back once.
THEOREM ProxyAdmits == Spec => Admits
  <1>1. Init => AdmissionInit
    BY DEF Init
  <1>2. Spec => AdmissionInit /\ [][AdmissionNext]_admissionVars
    BY <1>1, NextAdmits, PTL DEF Spec
  <1> QED
    BY <1>2 DEF Admits, AdmissionSpec

-----------------------------------------------------------------------------
(* The orders in which targets are tried.                                   *)

\* An order tries every target, and no more often than there are targets.
Complete(order) ==
    /\ order \in Seq(Targets) /\ order # <<>> /\ Len(order) <= Len(TargetList)
    /\ Targets = {order[i] : i \in 1..Len(order)}

\* Wherever the round begins.
LEMMA RotatedComplete ==
    ASSUME NEW start \in 0..(Len(TargetList) - 1)
    PROVE  Complete(Rotated(start))
  <1> DEFINE n == Len(TargetList)
             a == SubSeq(TargetList, start + 1, n)
             b == SubSeq(TargetList, 1, start)
  <1>1. TargetList \in Seq(Targets) /\ n \in Nat /\ n > 0
    BY ProxyAssumption
  <1>2. /\ a \in Seq(Targets) /\ Len(a) = n - start
        /\ \A i \in 1..(n - start) : a[i] = TargetList[start + i]
    BY <1>1
  <1>3. b \in Seq(Targets) /\ Len(b) = start /\ \A i \in 1..start : b[i] = TargetList[i]
    BY <1>1
  <1> HIDE DEF a, b
  <1> DEFINE order == a \o b
  <1>4. order \in Seq(Targets) /\ Len(order) = n
    BY <1>1, <1>2, <1>3
  <1>5. \A i \in 1..n : order[i] = IF i <= n - start THEN a[i] ELSE b[i - (n - start)]
    BY <1>1, <1>2, <1>3
  <1>6. \A i \in 1..n : order[i] = TargetList[IF i <= n - start THEN start + i ELSE i - (n - start)]
    BY <1>1, <1>2, <1>3, <1>5
  <1> HIDE DEF order, n
  <1>7. ASSUME NEW i \in 1..n PROVE \E j \in 1..n : order[j] = TargetList[i]
    <2>1. CASE i > start
      <3>1. i - start \in 1..n /\ order[i - start] = TargetList[i]
        BY <1>1, <1>6, <2>1
      <3> QED BY <3>1
    <2>2. CASE i <= start
      <3> DEFINE j == i + (n - start)
      <3>1. j \in 1..n /\ ~(j <= n - start) /\ j - (n - start) = i
        BY <1>1, <2>2 DEF n
      <3> HIDE DEF j
      <3>2. order[j] = TargetList[i]
        BY <1>6, <3>1
      <3> QED BY <3>1, <3>2
    <2> QED BY <1>1, <2>1, <2>2
  <1>8. ASSUME NEW i \in 1..n PROVE order[i] \in Targets
    BY <1>4
  <1>9. Targets = {order[i] : i \in 1..n}
    <2>1. Targets = {TargetList[i] : i \in 1..n}
      BY <1>1 DEF Targets, n
    <2>2. ASSUME NEW t \in Targets PROVE t \in {order[i] : i \in 1..n}
      BY <1>7, <2>1
    <2> QED BY <1>8, <2>2
  <1>10. Rotated(start) = order
    BY DEF Rotated, a, b, order, n
  <1>11. order # <<>>
    BY <1>1, <1>4
  <1>12. Complete(order)
    BY <1>1, <1>4, <1>9, <1>11 DEF Complete, n
  <1> QED BY <1>10, <1>12

\* In either strategy, with the cursor anywhere.
LEMMA OrderComplete == ASSUME cursor \in Nat PROVE Complete(try_order)
  <1>1. Len(TargetList) \in Nat /\ Len(TargetList) > 0 /\ TargetList \in Seq(Targets)
    BY ProxyAssumption
  <1>2. cursor % Len(TargetList) \in 0..(Len(TargetList) - 1)
    BY <1>1
  <1>3. Complete(TargetList)
    BY <1>1 DEF Complete, Targets
  <1> QED BY <1>2, <1>3, RotatedComplete DEF try_order

-----------------------------------------------------------------------------
(* The invariant of the proxy.                                              *)

ProxyTasks == {"none", "start", "lookup", "pick", "forward", "send", "ended", "failed"}
Asking == {"lookup", "pick", "forward"}

ProxyTyped ==
    /\ trie \in Confs
    /\ cursor \in Nat
    /\ question \in [Queries -> Questions]
    /\ snap \in [Queries -> Confs]
    /\ task \in [Queries -> ProxyTasks]
    /\ left \in [Queries -> Seq(Targets)]
    /\ waited \in [Queries -> 0..UpstreamTimeout]
    /\ reply \in [Queries -> Replies \cup {NoReply}]
    /\ late \in [Targets -> SUBSET Keys]
    /\ tried \in [Queries -> SUBSET Targets]
    /\ spent \in [Queries -> Nat]
    /\ reloaded \in [Queries -> BOOLEAN]

\* A task exists from its dispatch on, and has ended when its query is done.
TaskStages ==
    \A q \in Queries :
        /\ task[q] = "none" <=> stage[q] \notin {"running", "done"}
        /\ task[q] \in {"ended", "failed"} <=> stage[q] = "done"

\* The targets of a list after the one in hand.
Later(s) == {s[i] : i \in 2..Len(s)}

\* A task that forwards has tried all targets but those after the one in hand, each
\* for one timeout at most.
ForwardingTask(q) ==
    /\ task[q] = "forward" =>
          /\ left[q] # <<>> /\ Len(left[q]) <= Len(TargetList)
          /\ Targets \subseteq tried[q] \cup Later(left[q])
          /\ spent[q] <= UpstreamTimeout * (Len(TargetList) - Len(left[q])) + waited[q]
    /\ task[q] # "forward" => spent[q] = 0 /\ waited[q] = 0
    /\ task[q] = "failed" => tried[q] = Targets

\* A reply is for its own query, and is there only for a task that sends it or has sent
\* it.
RepliedTask(q) ==
    /\ task[q] \in Asking => question[q] \in Keys
    /\ reply[q] # NoReply => task[q] \in {"send", "ended"} /\ reply[q].txid = q

\* What is taken for an answer to k answers k, or another question that the target it
\* came from had been asked.
Traced(k, about) ==
    \/ about = k
    \/ \E w \in Queries, t \in Targets :
          AnsweredBy(w, t) /\ question[w] = k /\ reply[w].about = about /\ about \in late[t]

\* So does every reply, and whatever the cache holds.
RepliesTraced == \A q \in Queries : reply[q] # NoReply => Traced(question[q], reply[q].about)
CacheTraced == \A k \in Keys : cache[k] # NoEntry => Traced(k, cache[k].packet.about)

\* A task runs with the rules in force unless they were swapped since, and got past
\* its rules only if they let it.
RuledTask(q) ==
    /\ stage[q] = "running" /\ ~reloaded[q] => snap[q] = trie
    /\ task[q] \in Asking => Policy(q) = "none"

ProxyInv ==
    /\ ProxyTyped /\ CacheTyped /\ TaskStages /\ RepliesTraced /\ CacheTraced
    /\ \A q \in Queries : ForwardingTask(q) /\ RepliedTask(q) /\ RuledTask(q)

\* A reply stays what it is, and what was asked may be answered for ever.
AnswersKept ==
    /\ \A w \in Queries : reply[w] # NoReply =>
          reply'[w] = reply[w] /\ tried'[w] = tried[w] /\ question'[w] = question[w]
    /\ \A t \in Targets : late[t] \subseteq late'[t]

\* No packet comes into the cache.
NothingCached ==
    \A k \in Keys : cache'[k] # NoEntry =>
        cache[k] # NoEntry /\ cache'[k].packet.about = cache[k].packet.about

\* So whatever was traced still is,
LEMMA TracedStays ==
    ASSUME AnswersKept, NEW k, NEW about, Traced(k, about)
    PROVE  Traced(k, about)'
  <1>1. CASE about = k
    BY <1>1 DEF Traced
  <1>2. ASSUME NEW w \in Queries, NEW t \in Targets, AnsweredBy(w, t), question[w] = k,
               reply[w].about = about, about \in late[t]
        PROVE  Traced(k, about)'
    <2>1. /\ reply'[w] = reply[w] /\ tried'[w] = tried[w] /\ question'[w] = question[w]
          /\ about \in late'[t]
      BY <1>2 DEF AnswersKept, AnsweredBy
    <2> QED BY <1>2, <2>1 DEF Traced, AnsweredBy
  <1> QED BY <1>1, <1>2 DEF Traced

\* the replies,
LEMMA RepliesStay ==
    ASSUME RepliesTraced, AnswersKept, NEW p \in Queries, reply[p] # NoReply
    PROVE  Traced(question[p], reply[p].about)' /\ reply'[p] # NoReply
  <1> DEFINE k == question[p]
             about == reply[p].about
  <1>1. reply'[p] = reply[p] /\ question'[p] = question[p]
    BY DEF AnswersKept
  <1>2. PICK k0, about0 : k0 = question[p] /\ about0 = reply[p].about
    OBVIOUS
  <1>3. Traced(k0, about0)
    BY <1>2 DEF RepliesTraced, Traced
  <1>4. Traced(k0, about0)'
    BY <1>3, TracedStays
  <1> QED BY <1>1, <1>2, <1>4 DEF Traced

\* and the cache.
LEMMA CacheStays ==
    ASSUME CacheTraced, AnswersKept, NothingCached
    PROVE  CacheTraced'
  <1> SUFFICES ASSUME NEW k \in Keys, cache'[k] # NoEntry
               PROVE  Traced(k, cache[k].packet.about)'
    BY DEF CacheTraced
  <1>1. PICK about : about = cache[k].packet.about /\ about = cache'[k].packet.about
    BY DEF NothingCached
  <1>2. Traced(k, about)
    BY <1>1 DEF CacheTraced, NothingCached
  <1>3. Traced(k, about)'
    BY <1>2, TracedStays
  <1> QED BY <1>1, <1>3 DEF Traced

\* A step that sends no reply and stores none keeps both.
LEMMA TraceStays ==
    ASSUME RepliesTraced, CacheTraced, AnswersKept, NothingCached, reply' = reply
    PROVE  RepliesTraced' /\ CacheTraced'
  <1>1. ASSUME NEW p \in Queries, reply'[p] # NoReply
        PROVE  Traced(question[p], reply[p].about)'
    BY <1>1, RepliesStay
  <1> QED BY <1>1, CacheStays DEF RepliesTraced

\* Initially there are no tasks and nothing is cached.
LEMMA ProxyInit == Init => ProxyInv
  <1> SUFFICES ASSUME Init PROVE ProxyInv
    OBVIOUS
  <1>1. trie \in Confs
    BY DEF Init, WatcherInit
  <1>2. ProxyTyped
    BY <1>1, ProxyAssumption DEF Init, ProxyTyped, ProxyTasks, Questions
  <1>3. CacheTyped /\ CacheTraced /\ RepliesTraced
    BY DEF Init, CacheInit, CacheTyped, CacheTraced, RepliesTraced
  <1>4. TaskStages
    BY DEF Init, AdmissionInit, TaskStages
  <1>5. ASSUME NEW q \in Queries PROVE ForwardingTask(q) /\ RepliedTask(q) /\ RuledTask(q)
    BY DEF Init, AdmissionInit, ForwardingTask, RepliedTask, RuledTask, Asking
  <1> QED BY <1>2, <1>3, <1>4, <1>5 DEF ProxyInv

\* Everything about the other tasks is as it was.
OthersKept(q) ==
    /\ UNCHANGED <<trie, question, snap, reloaded>>
    /\ \A p \in Queries \ {q} :
          /\ stage'[p] = stage[p] /\ task'[p] = task[p] /\ left'[p] = left[p]
          /\ waited'[p] = waited[p] /\ reply'[p] = reply[p]
          /\ tried'[p] = tried[p] /\ spent'[p] = spent[p]

\* A step of handle_query has to be looked at for its own task alone.
LEMMA StepOfTask ==
    ASSUME ProxyInv, NEW q \in Queries, OthersKept(q),
           ProxyTyped', CacheTyped', RepliesTraced', CacheTraced',
           task'[q] # "none", task[q] # "none", stage'[q] \in {"running", "done"},
           task'[q] \in {"ended", "failed"} <=> stage'[q] = "done",
           ForwardingTask(q)', RepliedTask(q)', RuledTask(q)'
    PROVE  ProxyInv'
  <1>1. ASSUME NEW p \in Queries \ {q}
        PROVE  ForwardingTask(p)' /\ RepliedTask(p)' /\ RuledTask(p)'
    <2>1. ForwardingTask(p) /\ RepliedTask(p) /\ RuledTask(p)
      BY DEF ProxyInv
    <2>2. ForwardingTask(p)'
      BY <2>1 DEF ForwardingTask, OthersKept
    <2>3. RepliedTask(p)'
      BY <2>1 DEF RepliedTask, OthersKept
    <2>4. RuledTask(p)'
      BY <2>1 DEF RuledTask, Policy, OthersKept
    <2> QED BY <2>2, <2>3, <2>4
  <1>2. TaskStages'
    BY DEF ProxyInv, TaskStages, OthersKept
  <1> QED BY <1>1, <1>2 DEF ProxyInv

\* A task that crafts its reply.
LEMMA RespondInv ==
    ASSUME ProxyInv, NEW q \in Queries, task[q] \in {"start", "lookup", "forward"},
           NEW about \in Questions, Respond(q, about, q), Goto(q, "send"),
           CacheTyped', RepliesTraced', CacheTraced',
           UNCHANGED <<admissionVars, watcherVars, cursor, question, snap, reloaded>>,
           \/ task[q] # "forward" /\ UNCHANGED <<left, waited, late, tried, spent>>
           \/ /\ left' = [left EXCEPT ![q] = <<>>] /\ waited' = [waited EXCEPT ![q] = 0]
              /\ late' \in [Targets -> SUBSET Keys]
              /\ \E t \in Targets : tried' = [tried EXCEPT ![q] = {t}]
              /\ spent' = [spent EXCEPT ![q] = 0]
    PROVE  ProxyInv'
  <1> DEFINE r == [about |-> about, txid |-> q]
  <1>1. r \in Replies /\ r # NoReply /\ r.txid = q
    BY ProxyAssumption DEF Replies
  <1>2. reply' = [reply EXCEPT ![q] = r] /\ task' = [task EXCEPT ![q] = "send"]
    BY DEF Respond, Goto
  <1> HIDE DEF r
  <1>3. ProxyTyped'
    <2>1. /\ left' \in [Queries -> Seq(Targets)] /\ waited' \in [Queries -> 0..UpstreamTimeout]
          /\ tried' \in [Queries -> SUBSET Targets] /\ spent' \in [Queries -> Nat]
          /\ late' \in [Targets -> SUBSET Keys]
      <3>1. 0 \in 0..UpstreamTimeout /\ <<>> \in Seq(Targets) /\ 0 \in Nat
        BY ProxyAssumption
      <3>2. CASE UNCHANGED <<left, waited, late, tried, spent>>
        BY <3>2 DEF ProxyInv, ProxyTyped
      <3>3. CASE /\ left' = [left EXCEPT ![q] = <<>>] /\ waited' = [waited EXCEPT ![q] = 0]
                 /\ late' \in [Targets -> SUBSET Keys]
                 /\ \E t \in Targets : tried' = [tried EXCEPT ![q] = {t}]
                 /\ spent' = [spent EXCEPT ![q] = 0]
        BY <3>1, <3>3 DEF ProxyInv, ProxyTyped
      <3> QED BY <3>2, <3>3
    <2> QED BY <1>1, <1>2, <2>1 DEF ProxyInv, ProxyTyped, ProxyTasks, watcherVars
  <1>4. /\ OthersKept(q) /\ stage' = stage /\ task'[q] = "send" /\ reply'[q] = r
        /\ spent'[q] = 0 /\ waited'[q] = 0
    BY <1>2 DEF OthersKept, admissionVars, watcherVars, ProxyInv, ProxyTyped, ForwardingTask
  <1>5. stage[q] = "running"
    BY DEF ProxyInv, TaskStages
  <1>6. ForwardingTask(q)'
    BY <1>4 DEF ForwardingTask
  <1>7. RepliedTask(q)' /\ RuledTask(q)'
    BY <1>1, <1>4, <1>5 DEF RepliedTask, RuledTask, Asking, ProxyInv, OthersKept
  <1> QED BY <1>3, <1>4, <1>5, <1>6, <1>7, StepOfTask

\* A task that goes on, past its rules or past the cache.
LEMMA GoOnInv ==
    ASSUME ProxyInv, NEW q \in Queries, NEW t \in {"lookup", "pick"},
           task[q] \in {"start", "lookup"}, Goto(q, t), question[q] \in Keys,
           Policy(q) = "none", CacheTyped', RepliesTraced', CacheTraced',
           UNCHANGED <<admissionVars, watcherVars, cursor, question, snap, forwardVars, reply,
                       reloaded>>
    PROVE  ProxyInv'
  <1>1. ProxyTyped'
    BY DEF Goto, ProxyInv, ProxyTyped, ProxyTasks, watcherVars, forwardVars
  <1>2. OthersKept(q) /\ stage' = stage /\ task'[q] = t
    BY DEF OthersKept, Goto, admissionVars, watcherVars, forwardVars, ProxyInv, ProxyTyped
  <1>3. stage[q] = "running" /\ reply[q] = NoReply
    BY DEF ProxyInv, TaskStages, RepliedTask
  <1>4. ForwardingTask(q)'
    BY <1>2 DEF ForwardingTask, forwardVars, ProxyInv
  <1>5. RepliedTask(q)' /\ RuledTask(q)'
    BY <1>2, <1>3 DEF RepliedTask, RuledTask, Policy, ProxyInv, OthersKept
  <1> QED BY <1>1, <1>2, <1>3, <1>4, <1>5, StepOfTask

\* A task that ends.
LEMMA EndInv ==
    ASSUME ProxyInv, AdmissionInv, NEW q \in Queries, task[q] \in {"start", "send"},
           Goto(q, "ended"), Finish(q),
           UNCHANGED <<watcherVars, cache, cursor, question, snap, forwardVars, reply, reloaded>>
    PROVE  ProxyInv'
  <1>1. ProxyTyped'
    BY DEF Goto, ProxyInv, ProxyTyped, ProxyTasks, watcherVars, forwardVars
  <1>2. OthersKept(q) /\ stage'[q] = "done" /\ task'[q] = "ended"
    BY DEF OthersKept, Goto, Finish, watcherVars, forwardVars, ProxyInv, ProxyTyped,
           AdmissionInv, AdmissionTypeOK
  <1>3. CacheTyped' /\ RepliesTraced' /\ CacheTraced'
    <2>1. AnswersKept /\ NothingCached
      BY DEF AnswersKept, NothingCached, forwardVars
    <2> QED BY <2>1, TraceStays DEF ProxyInv, CacheTyped
  <1>4. ForwardingTask(q)'
    BY <1>2 DEF ForwardingTask, forwardVars, ProxyInv
  <1>5. RepliedTask(q)' /\ RuledTask(q)'
    BY <1>2 DEF RepliedTask, RuledTask, Asking, ProxyInv, OthersKept
  <1> QED BY <1>1, <1>2, <1>3, <1>4, <1>5, StepOfTask

\* The picker's order is complete, and its head is tried at once.
LEMMA PickInv == ASSUME ProxyInv, NEW q \in Queries, Pick(q) PROVE ProxyInv'
  <1> DEFINE order == try_order
  <1>1. Complete(order)
    BY OrderComplete DEF ProxyInv, ProxyTyped
  <1>2. /\ task[q] = "pick" /\ task' = [task EXCEPT ![q] = "forward"]
        /\ left' = [left EXCEPT ![q] = order]
        /\ tried' = [tried EXCEPT ![q] = {Head(order)}]
        /\ UNCHANGED <<stage, trie, cache, question, snap, waited, reply, late, spent, reloaded>>
    BY DEF Pick, Goto, admissionVars, watcherVars
  <1> HIDE DEF order
  <1>3. /\ order \in Seq(Targets) /\ order # <<>> /\ Len(order) \in Nat /\ Len(order) >= 1
        /\ Head(order) \in Targets /\ Head(order) = order[1]
    BY <1>1 DEF Complete
  <1>4. cursor' \in Nat
    BY ProxyAssumption DEF Pick, MoveCursor, ProxyInv, ProxyTyped
  <1>5. ProxyTyped'
    BY <1>2, <1>3, <1>4 DEF ProxyInv, ProxyTyped, ProxyTasks
  <1>6. OthersKept(q) /\ task'[q] = "forward" /\ left'[q] = order /\ tried'[q] = {Head(order)}
    BY <1>2 DEF OthersKept, ProxyInv, ProxyTyped
  <1>7. CacheTyped' /\ RepliesTraced' /\ CacheTraced'
    <2>1. reply[q] = NoReply
      BY <1>2 DEF ProxyInv, RepliedTask
    <2>2. AnswersKept /\ NothingCached
      BY <1>2, <1>6, <2>1 DEF AnswersKept, NothingCached, OthersKept
    <2> QED BY <1>2, <2>2, TraceStays DEF ProxyInv, CacheTyped
  <1>8. ForwardingTask(q)'
    <2>1. Targets \subseteq {Head(order)} \cup {order[i] : i \in 2..Len(order)}
      <3> SUFFICES ASSUME NEW t \in Targets, t # Head(order)
                   PROVE  t \in {order[i] : i \in 2..Len(order)}
        OBVIOUS
      <3>1. PICK i \in 1..Len(order) : t = order[i]
        BY <1>1 DEF Complete
      <3>2. i \in 2..Len(order)
        BY <1>3, <3>1
      <3> QED BY <3>1, <3>2
    <2>2. spent[q] = 0 /\ waited[q] = 0
      BY <1>2 DEF ProxyInv, ForwardingTask
    <2>3. 0 <= UpstreamTimeout * (Len(TargetList) - Len(order)) + 0
      <3>1. Len(TargetList) - Len(order) \in Nat
        BY <1>1, <1>3, ProxyAssumption DEF Complete
      <3>2. \A u, v \in Nat : u * v \in Nat
        OBVIOUS
      <3> QED BY <3>1, <3>2, ProxyAssumption
    <2> QED BY <1>1, <1>2, <1>6, <2>1, <2>2, <2>3 DEF ForwardingTask, Complete, Later
  <1>9. stage[q] = "running" /\ RepliedTask(q)' /\ RuledTask(q)'
    BY <1>2, <1>6 DEF ProxyInv, TaskStages, RepliedTask, RuledTask, Policy, Asking
  <1> QED BY <1>2, <1>5, <1>6, <1>7, <1>8, <1>9, StepOfTask

\* A target fails or times out: the next one is tried, or none is left and all were.
LEMMA NextTargetInv ==
    ASSUME ProxyInv, AdmissionInv, NEW q \in Queries, task[q] = "forward", NextTarget(q),
           UNCHANGED <<watcherVars, cache, cursor, question, snap, reply, reloaded>>,
           late' \in [Targets -> SUBSET Keys], \A t \in Targets : late[t] \subseteq late'[t]
    PROVE  ProxyInv'
  <1> DEFINE rest == Tail(left[q])
  <1>1. /\ left[q] \in Seq(Targets) /\ left[q] # <<>> /\ Len(left[q]) <= Len(TargetList)
        /\ Targets \subseteq tried[q] \cup {left[q][i] : i \in 2..Len(left[q])}
        /\ spent[q] <= UpstreamTimeout * (Len(TargetList) - Len(left[q])) + waited[q]
        /\ waited[q] \in 0..UpstreamTimeout /\ tried[q] \in SUBSET Targets /\ spent[q] \in Nat
    BY DEF ProxyInv, ProxyTyped, ForwardingTask, Later
  <1>2. /\ rest \in Seq(Targets) /\ Len(rest) = Len(left[q]) - 1 /\ Len(rest) \in Nat
        /\ \A i \in 1..Len(rest) : rest[i] = left[q][i + 1]
    BY <1>1, TailFacts
  <1>3. left' = [left EXCEPT ![q] = rest] /\ waited' = [waited EXCEPT ![q] = 0]
    BY DEF NextTarget
  <1>4. CacheTyped' /\ UNCHANGED <<trie, question, snap, reply, reloaded, cursor>>
    BY DEF ProxyInv, CacheTyped, watcherVars
  <1>5. stage[q] = "running" /\ reply[q] = NoReply /\ Policy(q) = "none" /\ question[q] \in Keys
    BY DEF ProxyInv, TaskStages, RepliedTask, RuledTask, Asking
  <1>6. left'[q] = rest /\ waited'[q] = 0
        /\ \A p \in Queries \ {q} : left'[p] = left[p] /\ waited'[p] = waited[p]
    BY <1>3 DEF ProxyInv, ProxyTyped
  <1>9. RepliesTraced' /\ CacheTraced'
    <2>1. \A w \in Queries : w # q => tried'[w] = tried[w]
      BY DEF NextTarget, ProxyInv, ProxyTyped
    <2>2. AnswersKept /\ NothingCached
      BY <1>5, <2>1 DEF AnswersKept, NothingCached
    <2> QED BY <1>4, <2>2, TraceStays DEF ProxyInv
  <1>7. CASE rest # <<>>
    <2>1. /\ tried' = [tried EXCEPT ![q] = tried[q] \cup {Head(rest)}]
          /\ UNCHANGED <<stage, task, spent>>
      BY <1>7 DEF NextTarget, admissionVars
    <2> HIDE DEF rest
    <2>2. Head(rest) \in Targets /\ Head(rest) = rest[1] /\ Len(rest) >= 1
      BY <1>2, <1>7
    <2>3. ProxyTyped'
      BY <1>1, <1>2, <1>3, <1>4, <2>1, <2>2, ProxyAssumption DEF ProxyInv, ProxyTyped
    <2>4. OthersKept(q) /\ tried'[q] = tried[q] \cup {Head(rest)}
      BY <1>4, <1>6, <2>1 DEF OthersKept, ProxyInv, ProxyTyped
    <2>5. Targets \subseteq tried'[q] \cup {rest[i] : i \in 2..Len(rest)}
      <3> SUFFICES ASSUME NEW t \in Targets, t \notin tried[q], t # rest[1]
                   PROVE  t \in {rest[i] : i \in 2..Len(rest)}
        BY <2>2, <2>4
      <3>1. PICK i \in 2..Len(left[q]) : t = left[q][i]
        BY <1>1
      <3>2. i - 1 \in 1..Len(rest) /\ rest[i - 1] = t
        BY <1>2, <3>1
      <3>3. i - 1 \in 2..Len(rest)
        BY <1>2, <3>1, <3>2
      <3> QED BY <3>2, <3>3
    <2>6. spent[q] <= UpstreamTimeout * (Len(TargetList) - Len(rest)) + 0
      <3> DEFINE m == Len(TargetList) - Len(left[q])
      <3>1. m \in Nat /\ Len(TargetList) - Len(rest) = m + 1
        BY <1>1, <1>2, ProxyAssumption
      <3>2. spent[q] <= UpstreamTimeout * m + UpstreamTimeout
        <4>1. UpstreamTimeout * m \in Nat
          BY <3>1, ProxyAssumption
        <4> QED BY <1>1, <4>1, ProxyAssumption
      <3>3. \A u, v \in Nat : u * (v + 1) = u * v + u
        OBVIOUS
      <3> HIDE DEF m
      <3> QED BY <3>1, <3>2, <3>3, ProxyAssumption
    <2>7. ForwardingTask(q)'
      <3>1. Len(rest) <= Len(TargetList)
        BY <1>1, <1>2, ProxyAssumption
      <3>2. task'[q] = "forward" /\ spent'[q] = spent[q]
        BY <2>1
      <3> QED BY <1>6, <1>7, <2>5, <2>6, <3>1, <3>2, Zenon DEF ForwardingTask, Later
    <2>8. RepliedTask(q)' /\ RuledTask(q)'
      BY <1>4, <1>5, <2>1 DEF RepliedTask, RuledTask, Policy, ProxyInv
    <2> QED BY <1>4, <1>5, <1>9, <2>1, <2>3, <2>4, <2>7, <2>8, StepOfTask
  <1>8. CASE rest = <<>>
    <2>1. /\ tried' = tried /\ spent' = [spent EXCEPT ![q] = 0]
          /\ task' = [task EXCEPT ![q] = "failed"] /\ stage' = [stage EXCEPT ![q] = "done"]
      BY <1>8 DEF NextTarget, Goto, Finish
    <2> HIDE DEF rest
    <2>2. ProxyTyped'
      BY <1>2, <1>3, <1>4, <2>1, ProxyAssumption DEF ProxyInv, ProxyTyped, ProxyTasks
    <2>3. OthersKept(q) /\ task'[q] = "failed" /\ spent'[q] = 0 /\ stage'[q] = "done"
      BY <1>4, <1>6, <2>1 DEF OthersKept, ProxyInv, ProxyTyped, AdmissionInv, AdmissionTypeOK
    <2>4. tried[q] = Targets
      <3>1. Len(left[q]) = 1
        BY <1>1, <1>2, <1>8
      <3>2. 2..Len(left[q]) = {}
        BY <3>1
      <3> QED BY <1>1, <3>2
    <2>5. ForwardingTask(q)' /\ RepliedTask(q)' /\ RuledTask(q)'
      BY <1>4, <1>5, <1>6, <2>1, <2>3, <2>4 DEF ForwardingTask, RepliedTask, RuledTask, Asking
    <2> QED BY <1>4, <1>9, <2>2, <2>3, <2>5, StepOfTask
  <1> QED BY <1>7, <1>8

\* What an attempt leaves behind is a question of the cache.
LEMMA LeaveKeeps ==
    ASSUME ProxyInv, NEW q \in Queries, task[q] = "forward", Leave(q) \/ UNCHANGED late
    PROVE  /\ late' \in [Targets -> SUBSET Keys]
           /\ \A t \in Targets : late[t] \subseteq late'[t]
  <1>1. late \in [Targets -> SUBSET Keys] /\ question[q] \in Keys
    BY DEF ProxyInv, ProxyTyped, RepliedTask, Asking
  <1> QED BY <1>1 DEF Leave

\* A reply about what was asked, and nothing stored.
LEMMA ReplyTraced ==
    ASSUME ProxyInv, NEW q \in Queries, task[q] \in {"start", "lookup"}, NEW about,
           Traced(question[q], about), Respond(q, about, q),
           UNCHANGED <<cache, question, late, tried>>
    PROVE  CacheTyped' /\ RepliesTraced' /\ CacheTraced'
  <1>1. reply[q] = NoReply /\ reply \in [Queries -> Replies \cup {NoReply}]
    BY DEF ProxyInv, ProxyTyped, RepliedTask
  <1>2. /\ reply'[q].about = about
        /\ \A p \in Queries : p # q => reply'[p] = reply[p]
    BY <1>1 DEF Respond
  <1>3. AnswersKept /\ NothingCached
    BY <1>1, <1>2 DEF AnswersKept, NothingCached
  <1>4. PICK k : k = question[q]
    OBVIOUS
  <1>5. Traced(k, about)'
    BY <1>3, <1>4, TracedStays DEF Traced
  <1>6. Traced(question[q], reply[q].about)'
    BY <1>2, <1>4, <1>5 DEF Traced
  <1>7. ASSUME NEW p \in Queries, reply'[p] # NoReply
        PROVE  Traced(question[p], reply[p].about)'
    BY <1>2, <1>3, <1>6, <1>7, RepliesStay DEF ProxyInv
  <1> QED BY <1>3, <1>7, CacheStays DEF ProxyInv, CacheTyped, RepliesTraced

\* The answer of a target is about the question, or late and about another that this
\* target was asked; under the question it is stored.
LEMMA AnswerTraced ==
    ASSUME ProxyInv, NEW q \in Queries, task[q] = "forward", NEW t \in Targets,
           NEW about \in {question[q]} \cup late[t],
           Store(question[q], [about |-> about, old |-> 0], 0), Respond(q, about, q),
           Leave(q), tried' = [tried EXCEPT ![q] = {t}], UNCHANGED question
    PROVE  CacheTyped' /\ RepliesTraced' /\ CacheTraced'
  <1> DEFINE r == [about |-> about, txid |-> q]
             packet == [about |-> about, old |-> 0]
  <1>1. /\ reply[q] = NoReply /\ reply \in [Queries -> Replies \cup {NoReply}]
        /\ question[q] \in Keys /\ tried \in [Queries -> SUBSET Targets]
        /\ late \in [Targets -> SUBSET Keys] /\ CacheTyped
    BY DEF ProxyInv, ProxyTyped, RepliedTask, Asking
  <1>2. about \in Keys /\ r.about = about /\ packet.about = about /\ packet \in Packets
    BY <1>1, TtlAssumption DEF Packets
  <1>3. r # NoReply
    <2>1. about \in Questions
      BY <1>2 DEF Questions, Keys
    <2>2. r \in Replies
      BY <2>1 DEF Replies
    <2> QED BY <2>2, ProxyAssumption
  <1> HIDE DEF r, packet
  <1>4. /\ reply'[q] = r /\ tried'[q] = {t} /\ question'[q] = question[q]
        /\ \A p \in Queries : p # q => reply'[p] = reply[p] /\ tried'[p] = tried[p]
    BY <1>1 DEF Respond, r
  <1>5. AnswersKept
    BY <1>1, <1>4, LeaveKeeps DEF AnswersKept
  <1>6. about = question[q] \/ about \in late'[t]
    BY <1>5 DEF AnswersKept
  <1>7. PICK k \in Keys : k = question[q]
    BY <1>1
  <1>8. Traced(k, about)'
    BY <1>2, <1>3, <1>4, <1>6, <1>7 DEF Traced, AnsweredBy
  <1>9. Traced(question[q], reply[q].about)'
    BY <1>2, <1>4, <1>7, <1>8 DEF Traced
  <1>10. ASSUME NEW p \in Queries, reply'[p] # NoReply
         PROVE  Traced(question[p], reply[p].about)'
    BY <1>4, <1>5, <1>9, <1>10, RepliesStay DEF ProxyInv
  <1>11. Store(k, packet, 0)
    BY <1>7 DEF packet
  <1>12. CacheTyped'
    BY <1>1, <1>2, <1>11, StoreTyped
  <1>13. ASSUME NEW j \in Keys, cache'[j] # NoEntry
         PROVE  Traced(j, cache[j].packet.about)'
    <2> DEFINE e == [packet |-> packet, left |-> EntryTtl(0)]
    <2>1. e.packet = packet
      OBVIOUS
    <2> HIDE DEF e
    <2>2. PICK v \in Victims(k) : cache' = [[cache EXCEPT ![v] = NoEntry] EXCEPT ![k] = e]
      BY <1>11 DEF Store, e
    <2>3. CASE j = k
      <3>1. cache'[j].packet.about = about
        BY <1>1, <1>2, <2>1, <2>2, <2>3 DEF CacheTyped
      <3> QED BY <1>8, <2>3, <3>1 DEF Traced
    <2>4. CASE j # k
      <3>1. cache[j] # NoEntry /\ cache'[j] = cache[j]
        BY <1>1, <1>13, <2>2, <2>4 DEF CacheTyped
      <3>2. PICK a : a = cache[j].packet.about
        OBVIOUS
      <3>3. Traced(j, a)
        BY <3>1, <3>2 DEF ProxyInv, CacheTraced
      <3>4. Traced(j, a)'
        BY <1>5, <3>3, TracedStays
      <3> QED BY <3>1, <3>2, <3>4 DEF Traced
    <2> QED BY <2>3, <2>4
  <1> QED BY <1>10, <1>12, <1>13 DEF RepliesTraced, CacheTraced

\* Every step of handle_query keeps the invariant.
LEMMA HandleInv ==
    ASSUME ProxyInv, AdmissionInv, NEW q \in Queries, Handle(q) PROVE ProxyInv'
  <1>1. CacheTyped /\ RepliesTraced /\ CacheTraced /\ RepliedTask(q) /\ RuledTask(q)
    BY DEF ProxyInv
  <1>2. CASE GiveUp(q) \/ Send(q)
    BY <1>2, EndInv DEF GiveUp, Send
  <1>3. CASE RuleReply(q)
    <2>1. question[q] \in Questions /\ Traced(question[q], question[q])
      BY DEF ProxyInv, ProxyTyped, Traced
    <2>2. CacheTyped' /\ RepliesTraced' /\ CacheTraced'
      BY <1>3, <2>1, ReplyTraced DEF RuleReply, forwardVars
    <2> QED BY <1>3, <2>1, <2>2, RespondInv DEF RuleReply, forwardVars
  <1>4. CASE RuleNone(q)
    <2>1. AnswersKept /\ NothingCached
      BY <1>4 DEF RuleNone, AnswersKept, NothingCached, forwardVars
    <2>2. CacheTyped' /\ RepliesTraced' /\ CacheTraced'
      BY <1>1, <1>4, <2>1, TraceStays DEF RuleNone, CacheTyped
    <2> QED BY <1>4, <2>2, GoOnInv DEF RuleNone
  <1>5. CASE CacheHit(q)
    <2> DEFINE about == cache[question[q]].packet.about
    <2>1. question[q] \in Keys /\ cache[question[q]] # NoEntry
      BY <1>1, <1>5 DEF CacheHit, Hit, RepliedTask, Asking
    <2>2. about \in Questions /\ Traced(question[q], about)
      BY <1>1, <2>1 DEF CacheTyped, CacheTraced, Entries, Packets, Questions, Keys
    <2>3. task[q] = "lookup" /\ Respond(q, about, q) /\ Goto(q, "send")
      BY <1>5 DEF CacheHit
    <2> HIDE DEF about
    <2>4. CacheTyped' /\ RepliesTraced' /\ CacheTraced'
      BY <1>5, <2>2, <2>3, ReplyTraced DEF CacheHit, forwardVars
    <2> QED BY <1>5, <2>2, <2>3, <2>4, RespondInv DEF CacheHit, forwardVars
  <1>6. CASE CacheMiss(q)
    <2>1. question[q] \in Keys /\ Policy(q) = "none" /\ LookupMiss(question[q])
      BY <1>1, <1>6 DEF CacheMiss, RepliedTask, RuledTask, Asking
    <2>2. CacheTyped' /\ NothingCached
      BY <1>1, <2>1 DEF CacheTyped, LookupMiss, NothingCached
    <2>3. AnswersKept
      BY <1>6 DEF CacheMiss, AnswersKept, forwardVars
    <2>4. RepliesTraced' /\ CacheTraced'
      BY <1>1, <1>6, <2>2, <2>3, TraceStays DEF CacheMiss
    <2> QED BY <1>6, <2>1, <2>2, <2>4, GoOnInv DEF CacheMiss
  <1>7. CASE ForwardOk(q)
    <2> DEFINE t == Head(left[q])
    <2>1. t \in Targets
      BY <1>7 DEF ForwardOk, ProxyInv, ProxyTyped, ForwardingTask
    <2>2. /\ task[q] = "forward" /\ Leave(q) /\ tried' = [tried EXCEPT ![q] = {t}]
          /\ UNCHANGED question
      BY <1>7 DEF ForwardOk
    <2>3. PICK about \in {question[q]} \cup late[t] :
             Store(question[q], [about |-> about, old |-> 0], 0) /\ Respond(q, about, q)
      BY <1>7 DEF ForwardOk
    <2> HIDE DEF t
    <2>4. about \in Questions
      BY <2>1 DEF ProxyInv, ProxyTyped, Questions, Keys
    <2>5. CacheTyped' /\ RepliesTraced' /\ CacheTraced'
      BY <2>1, <2>2, <2>3, AnswerTraced
    <2>6. late' \in [Targets -> SUBSET Keys]
      BY <2>2, LeaveKeeps
    <2> QED BY <1>7, <2>1, <2>2, <2>3, <2>4, <2>5, <2>6, RespondInv DEF ForwardOk
  <1>8. CASE ForwardError(q) \/ ForwardTimeout(q)
    BY <1>8, LeaveKeeps, NextTargetInv DEF ForwardError, ForwardTimeout
  <1> QED BY <1>2, <1>3, <1>4, <1>5, <1>6, <1>7, <1>8, PickInv DEF Handle

\* A client asks: the query has no task yet.
LEMMA AskInv ==
    ASSUME ProxyInv, AdmissionInv, NEW q \in Queries, Ask(q) PROVE ProxyInv'
  <1>1. stage[q] = "new" /\ stage' = [stage EXCEPT ![q] = "socket"]
    BY DEF Ask, Arrive
  <1>2. PICK ask \in Asked : question' = [question EXCEPT ![q] = ask]
    BY DEF Ask
  <1>3. UNCHANGED <<trie, cache, cursor, snap, task, left, waited, late, tried, spent, reply,
                    reloaded>>
    BY DEF Ask, watcherVars, forwardVars
  <1>4. task[q] = "none" /\ reply[q] = NoReply
    BY <1>1 DEF ProxyInv, TaskStages, RepliedTask
  <1>5. ProxyTyped'
    BY <1>2, <1>3, ProxyAssumption DEF ProxyInv, ProxyTyped
  <1>6. CacheTyped' /\ RepliesTraced' /\ CacheTraced'
    <2>1. AnswersKept /\ NothingCached
      BY <1>2, <1>3, <1>4 DEF AnswersKept, NothingCached, ProxyInv, ProxyTyped
    <2> QED BY <1>3, <2>1, TraceStays DEF ProxyInv, CacheTyped
  <1>7. /\ stage'[q] = "socket"
        /\ \A p \in Queries \ {q} : stage'[p] = stage[p] /\ question'[p] = question[p]
    BY <1>1, <1>2 DEF ProxyInv, ProxyTyped, AdmissionInv, AdmissionTypeOK
  <1>8. TaskStages'
    BY <1>1, <1>3, <1>4, <1>7 DEF ProxyInv, TaskStages
  <1>9. ASSUME NEW p \in Queries PROVE ForwardingTask(p)' /\ RepliedTask(p)' /\ RuledTask(p)'
    <2>1. ForwardingTask(p) /\ RepliedTask(p) /\ RuledTask(p)
      BY DEF ProxyInv
    <2>2. ForwardingTask(p)'
      BY <1>3, <2>1 DEF ForwardingTask
    <2>3. RepliedTask(p)' /\ RuledTask(p)'
      BY <1>3, <1>4, <1>7, <2>1 DEF RepliedTask, RuledTask, Policy, Asking
    <2> QED BY <2>2, <2>3
  <1> QED BY <1>5, <1>6, <1>8, <1>9 DEF ProxyInv

\* A dispatched query gets the trie in force; every other keeps what it has.
LEMMA AdmitInv == ASSUME ProxyInv, AdmissionInv, Admit PROVE ProxyInv'
  <1>1. \A q \in Queries :
           /\ stage[q] \in {"running", "done"} => stage'[q] = stage[q]
           /\ stage'[q] = "done" => stage[q] = "done"
    BY StagesKept DEF Admit
  <1>2. UNCHANGED <<trie, cache, cursor, question, left, waited, late, tried, spent, reply,
                    reloaded>>
    BY DEF Admit, watcherVars, forwardVars
  <1>3. \A q \in Queries :
           IF Spawned(q) THEN snap'[q] = trie /\ task'[q] = "start"
                         ELSE snap'[q] = snap[q] /\ task'[q] = task[q]
    BY DEF Admit
  <1>4. ProxyTyped'
    <2>1. task' \in [Queries -> ProxyTasks] /\ snap' \in [Queries -> Confs]
      BY <1>3 DEF Admit, ProxyInv, ProxyTyped, ProxyTasks
    <2> QED BY <1>2, <2>1 DEF ProxyInv, ProxyTyped
  <1>5. CacheTyped' /\ RepliesTraced' /\ CacheTraced'
    <2>1. AnswersKept /\ NothingCached
      BY <1>2 DEF AnswersKept, NothingCached
    <2> QED BY <1>2, <2>1, TraceStays DEF ProxyInv, CacheTyped
  <1>6. TaskStages'
    BY <1>1, <1>3 DEF ProxyInv, TaskStages, Spawned
  <1>7. \A q \in Queries : Spawned(q) => task[q] = "none" /\ reply[q] = NoReply
    BY <1>1 DEF ProxyInv, TaskStages, RepliedTask, Spawned
  <1>8. ASSUME NEW p \in Queries PROVE ForwardingTask(p)' /\ RepliedTask(p)' /\ RuledTask(p)'
    <2>1. ForwardingTask(p) /\ RepliedTask(p) /\ RuledTask(p)
      BY DEF ProxyInv
    <2>2. ForwardingTask(p)'
      BY <1>2, <1>3, <1>7, <2>1 DEF ForwardingTask
    <2>3. RepliedTask(p)'
      BY <1>2, <1>3, <1>7, <2>1 DEF RepliedTask, Asking
    <2>4. RuledTask(p)'
      BY <1>1, <1>2, <1>3, <1>7, <2>1 DEF RuledTask, Policy, Asking, Spawned
    <2> QED BY <2>2, <2>3, <2>4
  <1> QED BY <1>4, <1>5, <1>6, <1>8 DEF ProxyInv

\* A reload marks every running task when it swaps the trie.
LEMMA WatchInv == ASSUME ProxyInv, Watch PROVE ProxyInv'
  <1>1. UNCHANGED <<stage, cache, cursor, question, snap, task, left, waited, late, tried, spent,
                    reply>>
    BY DEF Watch, admissionVars, forwardVars
  <1>2. reloaded' = [q \in Queries |-> stage[q] = "running" /\ (reloaded[q] \/ trie' # trie)]
    BY DEF Watch
  <1>3. trie' \in Confs
    BY DEF Watch, WatchBoot, WatchStat, ProxyLoad, ProxyInv, ProxyTyped
  <1>4. ProxyTyped'
    <2>1. reloaded' \in [Queries -> BOOLEAN]
      BY <1>2
    <2> QED BY <1>1, <1>3, <2>1 DEF ProxyInv, ProxyTyped
  <1>5. CacheTyped' /\ RepliesTraced' /\ CacheTraced' /\ TaskStages'
    <2>1. AnswersKept /\ NothingCached
      BY <1>1 DEF AnswersKept, NothingCached
    <2> QED BY <1>1, <2>1, TraceStays DEF ProxyInv, CacheTyped, TaskStages
  <1>6. ASSUME NEW p \in Queries PROVE ForwardingTask(p)' /\ RepliedTask(p)' /\ RuledTask(p)'
    <2>1. ForwardingTask(p) /\ RepliedTask(p) /\ RuledTask(p)
      BY DEF ProxyInv
    <2>2. ForwardingTask(p)' /\ RepliedTask(p)'
      BY <1>1, <2>1 DEF ForwardingTask, RepliedTask
    <2>3. stage[p] = "running" /\ ~reloaded'[p] => snap[p] = trie'
      BY <1>2, <2>1 DEF RuledTask
    <2>4. RuledTask(p)'
      BY <1>1, <2>1, <2>3 DEF RuledTask, Policy
    <2> QED BY <2>2, <2>4
  <1> QED BY <1>4, <1>5, <1>6 DEF ProxyInv

\* Time passes for tasks that await a target, up to its timeout.
LEMMA TickInv == ASSUME ProxyInv, Tick PROVE ProxyInv'
  <1>1. UNCHANGED <<stage, trie, cursor, question, snap, task, left, reply, late, tried, reloaded>>
    BY DEF Tick, Aging, watcherVars
  <1>2. CacheTyped' /\ RepliesTraced' /\ CacheTraced'
    <2>1. CacheTyped /\ Expiring
      BY DEF Tick, ProxyInv
    <2>2. ASSUME NEW k \in Keys, cache'[k] # NoEntry
          PROVE  cache[k] # NoEntry /\ cache'[k].packet.about = cache[k].packet.about
      <3>1. cache[k] # NoEntry
        BY <2>1, <2>2 DEF Expiring
      <3>2. cache[k].packet \in Packets
        BY <2>1, <3>1 DEF CacheTyped, Entries
      <3>3. cache'[k].packet = [cache[k].packet EXCEPT !.old = Older(@)]
        BY <2>1, <3>1 DEF Expiring
      <3> QED BY <3>1, <3>2, <3>3 DEF Packets
    <2>3. AnswersKept /\ NothingCached
      BY <1>1, <2>2 DEF AnswersKept, NothingCached
    <2> QED BY <1>1, <2>1, <2>3, TraceStays, ExpiringTyped DEF ProxyInv
  <1>3. ASSUME NEW p \in Queries
        PROVE  /\ waited[p] \in 0..UpstreamTimeout /\ spent[p] \in Nat
               /\ waited'[p] = (IF task[p] = "forward" THEN waited[p] + 1 ELSE waited[p])
               /\ spent'[p] = (IF task[p] = "forward" THEN spent[p] + 1 ELSE spent[p])
               /\ task[p] = "forward" => waited[p] < UpstreamTimeout
    BY DEF Tick, ProxyInv, ProxyTyped
  <1>4. ProxyTyped'
    <2>1. ASSUME NEW p \in Queries PROVE waited'[p] \in 0..UpstreamTimeout /\ spent'[p] \in Nat
      BY <1>3, ProxyAssumption
    <2>2. waited' \in [Queries -> 0..UpstreamTimeout] /\ spent' \in [Queries -> Nat]
      BY <2>1 DEF Tick
    <2> QED BY <1>1, <2>2 DEF ProxyInv, ProxyTyped
  <1>5. TaskStages'
    BY <1>1 DEF ProxyInv, TaskStages
  <1>6. ASSUME NEW p \in Queries PROVE ForwardingTask(p)' /\ RepliedTask(p)' /\ RuledTask(p)'
    <2>1. ForwardingTask(p) /\ RepliedTask(p) /\ RuledTask(p)
      BY DEF ProxyInv
    <2>2. RepliedTask(p)' /\ RuledTask(p)'
      BY <1>1, <2>1 DEF RepliedTask, RuledTask, Policy
    <2>3. CASE task[p] = "forward"
      <3> DEFINE bound == UpstreamTimeout * (Len(TargetList) - Len(left[p]))
      <3>1. bound \in Int
        <4>1. left[p] \in Seq(Targets) /\ TargetList \in Seq(Targets)
          BY ProxyAssumption DEF ProxyInv, ProxyTyped
        <4>2. Len(TargetList) - Len(left[p]) \in Int
          BY <4>1
        <4> QED BY <4>2, ProxyAssumption
      <3>2. spent[p] <= bound + waited[p]
        BY <2>1, <2>3 DEF ForwardingTask
      <3> HIDE DEF bound
      <3>3. spent'[p] <= bound + waited'[p]
        BY <1>3, <2>3, <3>1, <3>2
      <3>4. /\ left'[p] = left[p] /\ tried'[p] = tried[p] /\ task'[p] = task[p]
            /\ waited'[p] \in 0..UpstreamTimeout
        BY <1>1, <1>4 DEF ProxyTyped
      <3>5. spent'[p] <= UpstreamTimeout * (Len(TargetList) - Len(left'[p])) + waited'[p]
        BY <3>3, <3>4, Zenon DEF bound
      <3> HIDE DEF bound
      <3> QED BY <2>1, <2>2, <2>3, <3>4, <3>5, Zenon DEF ForwardingTask
    <2>4. CASE task[p] # "forward"
      <3>1. /\ left'[p] = left[p] /\ tried'[p] = tried[p] /\ task'[p] = task[p]
            /\ waited'[p] = waited[p] /\ spent'[p] = spent[p]
        BY <1>1, <1>3, <2>4
      <3> QED BY <2>1, <2>2, <2>4, <3>1, Zenon DEF ForwardingTask
    <2> QED BY <2>2, <2>3, <2>4
  <1> QED BY <1>2, <1>4, <1>5, <1>6 DEF ProxyInv

\* Every step of the proxy keeps the invariant.
LEMMA ProxyNext == ProxyInv /\ AdmissionInv /\ [Next]_vars => ProxyInv'
  <1> SUFFICES ASSUME ProxyInv, AdmissionInv, [Next]_vars PROVE ProxyInv'
    OBVIOUS
  <1>1. CASE EditConf \/ UNCHANGED vars
    <2>1. UNCHANGED <<stage, trie, cache, cursor, question, snap, task, left, waited, reply, late,
                      tried, spent, reloaded>>
      BY <1>1 DEF EditConf, Edit, vars, admissionVars, watcherVars, proxyVars
    <2>2. AnswersKept /\ NothingCached
      BY <2>1 DEF AnswersKept, NothingCached
    <2>3. RepliesTraced' /\ CacheTraced'
      BY <2>1, <2>2, TraceStays DEF ProxyInv
    <2> QED BY <2>1, <2>3 DEF ProxyInv, ProxyTyped, CacheTyped, TaskStages, ForwardingTask,
                              RepliedTask, RuledTask, Policy
  <1> QED BY <1>1, AskInv, HandleInv, AdmitInv, WatchInv, TickInv DEF Next

-----------------------------------------------------------------------------
\* The proxy's invariant holds in every state.
THEOREM ProxyInvariant == Spec => []ProxyInv
  BY ProxyInit, ProxyNext, ProxyAdmits, AdmissionInvariant, PTL DEF Spec, Admits

\* A query fails only after every target was tried, whichever came first and wherever
\* the cursor stood (try_order, forward_query).
THEOREM AllTargetsTried == Spec => []FailsAfterAll
  <1>1. ProxyInv => FailsAfterAll
    BY DEF ProxyInv, ForwardingTask, FailsAfterAll
  <1> QED BY <1>1, ProxyInvariant, PTL

\* A query is forwarded for at most one timeout per target (forward_query's loop).
THEOREM ForwardingIsBounded == Spec => []ForwardingBounded
  <1>1. ProxyInv => ForwardingBounded
    <2> SUFFICES ASSUME ProxyInv, NEW q \in Queries
                 PROVE  spent[q] <= UpstreamTimeout * Len(TargetList)
      BY DEF ForwardingBounded
    <2>1. Len(TargetList) \in Nat /\ UpstreamTimeout \in Nat
      BY ProxyAssumption
    <2>2. \A u, v \in Nat : u * v \in Nat
      OBVIOUS
    <2>5. \A u, v, w \in Nat : u * (v + w) = u * v + u * w
      OBVIOUS
    <2>3. CASE task[q] = "forward"
      <3>0. /\ left[q] \in Seq(Targets) /\ left[q] # <<>> /\ Len(left[q]) <= Len(TargetList)
            /\ waited[q] \in 0..UpstreamTimeout /\ spent[q] \in Nat
        BY <2>3 DEF ProxyInv, ProxyTyped, ForwardingTask
      <3>1. spent[q] <= UpstreamTimeout * (Len(TargetList) - Len(left[q])) + waited[q]
        BY <2>3 DEF ProxyInv, ForwardingTask
      <3>7. Len(left[q]) \in Nat \ {0}
        BY <3>0
      <3>2. PICK m \in Nat : Len(left[q]) = m + 1
        <4>1. Len(left[q]) - 1 \in Nat /\ Len(left[q]) = (Len(left[q]) - 1) + 1
          BY <3>7
        <4> QED BY <4>1
      <3> DEFINE k == Len(TargetList) - Len(left[q])
      <3>3. k \in Nat /\ Len(TargetList) = (k + 1) + m
        <4>1. Len(left[q]) <= Len(TargetList)
          BY <3>0
        <4> QED BY <2>1, <3>2, <4>1
      <3> HIDE DEF k
      <3>4. /\ UpstreamTimeout * ((k + 1) + m) = UpstreamTimeout * (k + 1) + UpstreamTimeout * m
            /\ UpstreamTimeout * (k + 1) = UpstreamTimeout * k + UpstreamTimeout
            /\ UpstreamTimeout * k \in Nat /\ UpstreamTimeout * m \in Nat
        <4>1. k + 1 \in Nat /\ 1 \in Nat /\ UpstreamTimeout * 1 = UpstreamTimeout
          BY <2>1, <3>3
        <4>2. UpstreamTimeout * ((k + 1) + m) = UpstreamTimeout * (k + 1) + UpstreamTimeout * m
          BY <2>1, <2>5, <3>2, <4>1, Zenon
        <4>3. UpstreamTimeout * (k + 1) = UpstreamTimeout * k + UpstreamTimeout * 1
          BY <2>1, <2>5, <3>3, <4>1, Zenon
        <4>4. UpstreamTimeout * k \in Nat /\ UpstreamTimeout * m \in Nat
          BY <2>1, <2>2, <3>2, <3>3, Zenon
        <4> QED BY <4>1, <4>2, <4>3, <4>4, Zenon
      <3>5. spent[q] <= UpstreamTimeout * k + waited[q]
        BY <3>1 DEF k
      <3>6. UpstreamTimeout * Len(TargetList)
                = UpstreamTimeout * k + UpstreamTimeout + UpstreamTimeout * m
        BY <3>3, <3>4
      <3> QED BY <2>1, <3>0, <3>4, <3>5, <3>6
    <2>4. CASE task[q] # "forward"
      BY <2>1, <2>2, <2>4 DEF ProxyInv, ForwardingTask
    <2> QED BY <2>3, <2>4
  <1> QED BY <1>1, ProxyInvariant, PTL

\* Every reply goes to the query it was crafted for and is about its question, or is a
\* late answer that the target gave to another question and that a query for this
\* question, the same one or whoever's reply was cached, took on an old port (with_txid,
\* CacheKey, send_plain, send_obfs).
THEOREM RepliesGoToAskers == Spec => []ReplyToAsker
  <1>1. ProxyInv => ReplyToAsker
    BY DEF ProxyInv, RepliedTask, RepliesTraced, Traced, FromOldPort, ReplyToAsker
  <1> QED BY <1>1, ProxyInvariant, PTL

\* Though a reload leaves the cache as it is, no task gets as far as the cache or a
\* target for a name that the rules in force since its dispatch refuse (handle_query).
THEOREM RulesAreInForce == Spec => []RulesInForce
  <1>1. ProxyInv => RulesInForce
    <2> SUFFICES ASSUME ProxyInv, NEW q \in Queries, task[q] \in Asking, ~reloaded[q]
                 PROVE  trie.rules[question[q][1]] = "none"
      BY DEF RulesInForce, Asking
    <2>1. stage[q] = "running"
      BY DEF ProxyInv, TaskStages, Asking
    <2> QED BY <2>1 DEF ProxyInv, RuledTask, Policy
  <1> QED BY <1>1, ProxyInvariant, PTL
-----------------------------------------------------------------------------
(* Taking turns.                                                            *)

\* Division with remainder: what the cursor, reduced by the number of targets, is.
LEMMA Remainder ==
    ASSUME NEW n \in Nat \ {0}, NEW k \in Nat, NEW r \in 0..(n - 1)
    PROVE  (n * k + r) % n = r
  <1> DEFINE p == n * k + r
             d == p \div n
             m == p % n
  <1>1. \A u, v \in Nat : u * v \in Nat
    OBVIOUS
  <1>2. \A u, v, w \in Nat : u * (v + w) = u * v + u * w
    OBVIOUS
  <1>3. p \in Nat
    BY <1>1
  <1> HIDE DEF p
  <1>4. d \in Nat /\ m \in 0..(n - 1) /\ p = n * d + m
    BY <1>3
  <1> HIDE DEF d, m
  <1>5. ASSUME NEW a \in Nat, NEW b \in Nat, a < b PROVE n * a + n <= n * b
    <2> DEFINE j == b - (a + 1)
    <2>1. j \in Nat /\ b = (a + 1) + j
      BY <1>5
    <2> HIDE DEF j
    <2>2. n * ((a + 1) + j) = n * (a + 1) + n * j /\ n * (a + 1) = n * a + n * 1
      BY <1>2, <2>1
    <2>3. n * 1 = n /\ n * j \in Nat /\ n * a \in Nat
      BY <1>1, <2>1
    <2> QED BY <2>1, <2>2, <2>3
  <1>6. n * k \in Nat /\ n * d \in Nat
    BY <1>1, <1>4
  <1>7. p = n * k + r
    BY DEF p
  <1>8. d = k
    <2>1. ~(d < k)
      BY <1>4, <1>5, <1>6, <1>7
    <2>2. ~(k < d)
      BY <1>4, <1>5, <1>6, <1>7
    <2> QED BY <1>4, <2>1, <2>2
  <1>9. m = r
    BY <1>4, <1>6, <1>7, <1>8
  <1> QED BY <1>9 DEF m, p

\* k rounds of turns and r turns of the next one were taken.
RoundsTaken(k, r) ==
    /\ picks = Len(TargetList) * k + r
    /\ \A i \in 1..Len(TargetList) : turns[TargetList[i]] = IF i <= r THEN k + 1 ELSE k

\* Until the cursor wraps it counts the orders picked, and the turns follow from it.
TurnInv ==
    /\ strategy \in Strategies /\ picks \in Nat /\ turns \in [Targets -> Nat]
    /\ strategy = "ordered" => \A t \in Targets : t # TargetList[1] => turns[t] = 0
    /\ strategy # "ordered" /\ picks <= CursorMod =>
         /\ picks < CursorMod => cursor = picks
         /\ \E k \in Nat, r \in 0..(Len(TargetList) - 1) : RoundsTaken(k, r)

\* Initially no turn is taken.
LEMMA TurnInit == Init => TurnInv
  <1> SUFFICES ASSUME Init PROVE TurnInv
    OBVIOUS
  <1>1. Len(TargetList) \in Nat /\ Len(TargetList) > 0 /\ TargetList \in Seq(Targets)
    BY ProxyAssumption
  <1>2. strategy \in Strategies /\ picks = 0 /\ cursor = 0 /\ turns = [t \in Targets |-> 0]
    BY DEF Init
  <1>3. \A i \in 1..Len(TargetList) : turns[TargetList[i]] = 0
    BY <1>1, <1>2
  <1>4. Len(TargetList) * 0 + 0 = 0
    BY <1>1
  <1>5. RoundsTaken(0, 0)
    BY <1>1, <1>2, <1>3, <1>4 DEF RoundsTaken
  <1>6. 0 \in Nat /\ 0 \in 0..(Len(TargetList) - 1)
    BY <1>1
  <1> QED BY <1>2, <1>5, <1>6 DEF TurnInv

\* The order that is picked begins with the target whose turn it is.
LEMMA FirstOfOrder ==
    ASSUME NEW start \in 0..(Len(TargetList) - 1)
    PROVE  Head(Rotated(start)) = TargetList[start + 1]
  <1>1. TargetList \in Seq(Targets) /\ Len(TargetList) \in Nat
    BY ProxyAssumption
  <1>2. Rotated(start) \in Seq(Targets) /\ Rotated(start) # <<>>
    BY RotatedComplete DEF Complete
  <1> DEFINE a == SubSeq(TargetList, start + 1, Len(TargetList))
             b == SubSeq(TargetList, 1, start)
  <1>3. /\ a \in Seq(Targets) /\ b \in Seq(Targets) /\ Len(a) >= 1
        /\ a[1] = TargetList[start + 1]
    BY <1>1
  <1> HIDE DEF a, b
  <1>4. (a \o b)[1] = a[1]
    BY <1>3
  <1>5. Rotated(start) = a \o b
    BY DEF Rotated, a, b
  <1> QED BY <1>2, <1>3, <1>4, <1>5

\* Whoever picks takes the next turn and moves the cursor on in one step.
LEMMA PickTurn == ASSUME TurnInv, NEW q \in Queries, Pick(q) PROVE TurnInv'
  <1> DEFINE n == Len(TargetList)
             first == Head(try_order)
  <1>1. n \in Nat \ {0} /\ TargetList \in Seq(Targets)
    BY ProxyAssumption
  <1>2. /\ strategy' = strategy /\ picks' = picks + 1 /\ picks \in Nat
        /\ turns' = [turns EXCEPT ![first] = @ + 1] /\ turns \in [Targets -> Nat]
        /\ strategy \in Strategies
        /\ cursor' = IF strategy = "ordered" THEN cursor ELSE (cursor + 1) % CursorMod
    BY DEF Pick, MoveCursor, TurnInv
  <1> HIDE DEF first, n
  <1>3. /\ turns' \in [Targets -> Nat]
        /\ \A t \in Targets : turns'[t] = IF t = first THEN turns[t] + 1 ELSE turns[t]
    <2>1. \A t \in Targets : turns[t] + 1 \in Nat
      BY <1>2
    <2>2. turns' = [t \in Targets |-> IF t = first THEN turns[t] + 1 ELSE turns[t]]
      BY <1>2
    <2> QED BY <1>2, <2>1, <2>2
  <1>4. CASE strategy = "ordered"
    <2>1. first = TargetList[1]
      BY <1>1, <1>4, ProxyAssumption DEF first, try_order
    <2>2. \A t \in Targets : t # TargetList[1] => turns[t] = 0
      BY <1>4 DEF TurnInv
    <2>3. \A t \in Targets : t # TargetList[1] => turns'[t] = 0
      BY <1>3, <2>1, <2>2
    <2> QED BY <1>2, <1>3, <1>4, <2>3 DEF TurnInv
  <1>5. CASE strategy # "ordered" /\ picks' <= CursorMod
    <2>1. CursorMod \in Nat /\ picks < CursorMod /\ picks <= CursorMod
      BY <1>2, <1>5, ProxyAssumption
    <2>2. cursor = picks
      BY <1>5, <2>1 DEF TurnInv
    <2>3. picks' < CursorMod => cursor' = picks'
      BY <1>2, <1>5, <2>1, <2>2
    <2>4. PICK k \in Nat, r \in 0..(n - 1) : RoundsTaken(k, r)
      BY <1>5, <2>1 DEF TurnInv, n
    <2>5. /\ picks = n * k + r
          /\ \A i \in 1..n : turns[TargetList[i]] = IF i <= r THEN k + 1 ELSE k
      BY <2>4 DEF RoundsTaken, n
    <2>6. first = TargetList[r + 1]
      <3>1. cursor % n = r
        BY <1>1, <2>2, <2>5, Remainder
      <3>2. try_order = Rotated(r)
        BY <1>5, <3>1 DEF try_order, n
      <3> QED BY <3>2, FirstOfOrder DEF first, n
    <2>7. \A i \in 1..n : TargetList[i] \in Targets /\ (TargetList[i] = first <=> i = r + 1)
      <3>1. r + 1 \in 1..n /\ DOMAIN TargetList = 1..n
        BY <1>1 DEF n
      <3> QED BY <2>6, <3>1, ProxyAssumption DEF Targets
    <2>8. \A i \in 1..n : turns'[TargetList[i]] = IF i <= r + 1 THEN k + 1 ELSE k
      BY <1>1, <1>3, <2>5, <2>7
    <2>9. n * k \in Nat /\ n * (k + 1) = n * k + n
      <3>1. \A u, v \in Nat : u * v \in Nat /\ u * (v + 1) = u * v + u
        OBVIOUS
      <3> QED BY <1>1, <3>1
    <2> DEFINE full == r + 1 = n
    <2>10. CASE full
      <3>1. picks' = n * (k + 1) + 0
        BY <1>1, <1>2, <2>5, <2>9, <2>10
      <3>2. \A i \in 1..n : turns'[TargetList[i]] = IF i <= 0 THEN (k + 1) + 1 ELSE k + 1
        BY <1>1, <2>8, <2>10
      <3>3. RoundsTaken(k + 1, 0)'
        BY <3>1, <3>2 DEF RoundsTaken, n
      <3>4. k + 1 \in Nat /\ 0 \in 0..(n - 1)
        BY <1>1
      <3> QED BY <1>2, <1>3, <1>5, <2>3, <3>3, <3>4 DEF TurnInv, n
    <2>11. CASE ~full
      <3>1. picks' = n * k + (r + 1)
        BY <1>1, <1>2, <2>5, <2>9
      <3>2. RoundsTaken(k, r + 1)'
        BY <2>8, <3>1 DEF RoundsTaken, n
      <3>3. r + 1 \in 0..(n - 1)
        BY <1>1, <2>11
      <3> QED BY <1>2, <1>3, <1>5, <2>3, <3>2, <3>3 DEF TurnInv, n
    <2> QED BY <2>10, <2>11
  <1>6. CASE strategy # "ordered" /\ ~(picks' <= CursorMod)
    BY <1>2, <1>3, <1>6 DEF TurnInv
  <1> QED BY <1>4, <1>5, <1>6

\* Nothing but a pick takes a turn.
LEMMA TurnNext == TurnInv /\ [Next]_vars => TurnInv'
  <1> SUFFICES ASSUME TurnInv, [Next]_vars PROVE TurnInv'
    OBVIOUS
  <1>1. ASSUME UNCHANGED <<strategy, cursor, picks, turns>> PROVE TurnInv'
    BY <1>1 DEF TurnInv, RoundsTaken
  <1>2. ASSUME NEW q \in Queries, Handle(q) PROVE TurnInv'
    <2>1. CASE GiveUp(q) \/ RuleReply(q) \/ RuleNone(q) \/ CacheHit(q) \/ CacheMiss(q) \/ Send(q)
      BY <1>1, <2>1 DEF GiveUp, RuleReply, RuleNone, CacheHit, CacheMiss, Send, forwardVars
    <2>2. CASE ForwardOk(q) \/ ForwardError(q) \/ ForwardTimeout(q)
      BY <1>1, <2>2 DEF ForwardOk, ForwardError, ForwardTimeout
    <2> QED BY <1>2, <2>1, <2>2, PickTurn DEF Handle
  <1>3. ASSUME NEW q \in Queries, Ask(q) PROVE TurnInv'
    BY <1>1, <1>3 DEF Ask, forwardVars
  <1>4. CASE Admit \/ EditConf \/ Watch \/ Tick
    BY <1>1, <1>4 DEF Admit, EditConf, Watch, Tick, forwardVars, proxyVars
  <1>5. CASE UNCHANGED vars
    BY <1>1, <1>5 DEF vars, proxyVars
  <1> QED BY <1>2, <1>3, <1>4, <1>5 DEF Next

\* However many tasks pick concurrently, no target is first more than once oftener
\* than another until the cursor wraps, and only the primary one is in "ordered".
THEOREM TurnsAreTaken == Spec => []TurnsTaken
  <1>1. TurnInv => TurnsTaken
    <2> SUFFICES ASSUME TurnInv PROVE TurnsTaken
      OBVIOUS
    <2>1. CASE strategy = "ordered"
      BY <2>1 DEF TurnInv, TurnsTaken
    <2>2. CASE strategy # "ordered" /\ picks <= CursorMod
      <3>1. PICK k \in Nat, r \in 0..(Len(TargetList) - 1) : RoundsTaken(k, r)
        BY <2>2 DEF TurnInv
      <3>2. \A i \in 1..Len(TargetList) : turns[TargetList[i]] \in {k, k + 1}
        BY <3>1 DEF RoundsTaken
      <3>3. \A t \in Targets : turns[t] \in {k, k + 1}
        BY <3>2, ProxyAssumption DEF Targets
      <3>4. \A t, u \in Targets : turns[t] <= turns[u] + 1
        BY <3>3
      <3> QED BY <2>2, <3>4 DEF TurnsTaken
    <2>3. CASE strategy # "ordered" /\ ~(picks <= CursorMod)
      BY <2>3 DEF TurnsTaken
    <2> QED BY <2>1, <2>2, <2>3
  <1> QED BY <1>1, TurnInit, TurnNext, PTL DEF Spec

-----------------------------------------------------------------------------
(* The proxy uses the cache by its operations alone.                        *)

\* Every step of the proxy is an operation of the cache, or leaves it alone.
LEMMA StepOfCache == ProxyInv /\ [Next]_vars => [CacheNext]_cache
  <1> SUFFICES ASSUME ProxyInv, [Next]_vars PROVE [CacheNext]_cache
    OBVIOUS
  <1>1. ASSUME NEW q \in Queries, Handle(q) PROVE [CacheNext]_cache
    <2>1. RepliedTask(q)
      BY DEF ProxyInv
    <2>2. CASE CacheMiss(q)
      <3>1. question[q] \in Keys /\ LookupMiss(question[q])
        BY <2>1, <2>2 DEF CacheMiss, RepliedTask, Asking
      <3> QED
        BY <3>1 DEF CacheNext
    <2>3. CASE ForwardOk(q)
      <3>1. PICK about \in {question[q]} \cup late[Head(left[q])] :
               Store(question[q], [about |-> about, old |-> 0], 0)
        BY <2>3 DEF ForwardOk
      <3>2. Head(left[q]) \in Targets /\ question[q] \in Keys
        BY <2>1, <2>3 DEF ForwardOk, ProxyInv, ProxyTyped, ForwardingTask, RepliedTask, Asking
      <3>3. about \in Keys
        BY <3>2 DEF ProxyInv, ProxyTyped
      <3> DEFINE p == [about |-> about, old |-> 0]
      <3>4. p \in Packets
        BY <3>3, TtlAssumption DEF Packets
      <3>5. Store(question[q], p, 0)
        BY <3>1
      <3> HIDE DEF p
      <3> QED
        BY <3>2, <3>4, <3>5, StoreIsNext
    <2>4. CASE GiveUp(q) \/ RuleReply(q) \/ RuleNone(q) \/ CacheHit(q) \/ Pick(q)
      BY <2>4 DEF GiveUp, RuleReply, RuleNone, CacheHit, Pick
    <2>5. CASE ForwardError(q) \/ ForwardTimeout(q) \/ Send(q)
      BY <2>5 DEF ForwardError, ForwardTimeout, Send
    <2> QED
      BY <1>1, <2>2, <2>3, <2>4, <2>5 DEF Handle
  <1>2. CASE Tick
    BY <1>2 DEF Tick, CacheNext
  <1>3. CASE (\E q \in Queries : Ask(q)) \/ Admit \/ EditConf \/ Watch \/ UNCHANGED vars
    BY <1>3 DEF Ask, Admit, EditConf, Watch, vars, proxyVars
  <1> QED
    BY <1>1, <1>2, <1>3 DEF Next

\* The proxy's tasks leave nothing in the cache but what one of its operations does at a
\* time, and its reload leaves it alone.
THEOREM ProxyUsesCache == Spec => CacheSpec
  <1>1. Init => CacheInit
    BY DEF Init
  <1>2. Spec => CacheInit /\ [][CacheNext]_cache
    BY <1>1, StepOfCache, ProxyInvariant, PTL DEF Spec
  <1> QED
    BY <1>2 DEF CacheSpec

\* So it keeps to its capacity.
THEOREM ProxyCacheBounded == Spec => []CacheBounded
  BY ProxyUsesCache, CacheIsBounded, PTL

=============================================================================
