---------------------------- MODULE SharedProofs ----------------------------
(***************************************************************************)
(* What dns_relay and resolver_proxy have in common and the proofs about   *)
(* both rest on: the admission of queries and the response cache.          *)
(*                                                                         *)
(* Admission, for any number of queries, permits and backlog slots: the    *)
(* types of its state, that permits are conserved, that the queries in     *)
(* flight are bounded and that the waiting worker is never forgotten.      *)
(* Conservation is not inductive by itself: a listener that dispatched a   *)
(* query already running would take a permit without adding a task.  The   *)
(* inductive invariant therefore also says that what a socket, a batch,    *)
(* the backlog and the worker hold is in that stage, and held once.        *)
(*                                                                         *)
(* The cache, for any keys, lifetimes and capacity: what its operations    *)
(* keep, and that it keeps to its capacity; at the end of the module.      *)
(***************************************************************************)
EXTENDS Admission, ResponseCache, FiniteSetTheorems, TLAPS

\* What the listeners' queues f hold is in stage st, and is held once.
Queued(f, st) == \A l \in Listeners : \A i \in 1..Len(f[l]) : stage[f[l][i]] = st
Unique(f) ==
    \A l, m \in Listeners : \A i \in 1..Len(f[l]), j \in 1..Len(f[m]) :
        f[l][i] = f[m][j] => l = m /\ i = j

\* The same of the backlog, and of the worker.
BacklogQueued == \A i \in 1..Len(backlog) : stage[backlog[i]] = "backlog"
BacklogUnique == \A i, j \in 1..Len(backlog) : backlog[i] = backlog[j] => i = j
WaiterHeld == waiter # NoQuery => stage[waiter] = "waiter"

InPlace == Queued(sock, "socket") /\ Queued(batch, "batch") /\ BacklogQueued /\ WaiterHeld
Once == Unique(sock) /\ Unique(batch) /\ BacklogUnique

\* A permit is on its way only to a worker that waits, and none is available
\* while the worker waits without one.
Handover ==
    /\ granted => waiter # NoQuery
    /\ waiter # NoQuery /\ ~granted => permits = 0

AdmissionInv ==
    AdmissionTypeOK /\ InPlace /\ Once /\ Handover /\ PermitsConserved /\ BacklogBounded

-----------------------------------------------------------------------------
\* What is left of a queue when its head is taken.
LEMMA TailFacts ==
    ASSUME NEW S, NEW s \in Seq(S), s # <<>>
    PROVE  /\ Head(s) \in S /\ Head(s) = s[1] /\ 1 \in 1..Len(s)
           /\ Tail(s) \in Seq(S)
           /\ Len(Tail(s)) = Len(s) - 1
           /\ \A i \in 1..Len(Tail(s)) : i + 1 \in 1..Len(s) /\ Tail(s)[i] = s[i + 1]
  OBVIOUS

\* What a queue holds when something is appended.
LEMMA AppendFacts ==
    ASSUME NEW S, NEW s \in Seq(S), NEW e \in S
    PROVE  /\ Append(s, e) \in Seq(S)
           /\ Len(Append(s, e)) = Len(s) + 1
           /\ \A i \in 1..Len(s) : Append(s, e)[i] = s[i]
           /\ Append(s, e)[Len(s) + 1] = e
  OBVIOUS

\* What the two parts of a queue hold when it is cut after its first n elements.
LEMMA CutFacts ==
    ASSUME NEW S, NEW s \in Seq(S), NEW n \in 1..Len(s)
    PROVE  /\ SubSeq(s, 1, n) \in Seq(S)
           /\ Len(SubSeq(s, 1, n)) = n
           /\ \A i \in 1..n : SubSeq(s, 1, n)[i] = s[i]
           /\ SubSeq(s, n + 1, Len(s)) \in Seq(S)
           /\ Len(SubSeq(s, n + 1, Len(s))) = Len(s) - n
           /\ \A i \in 1..(Len(s) - n) : SubSeq(s, n + 1, Len(s))[i] = s[n + i]
  OBVIOUS

\* The running tasks are finitely many.
LEMMA RunningFinite == IsFiniteSet(Running) /\ Cardinality(Running) \in Nat
  BY QueriesAssumption, FS_Subset, FS_CardinalityType DEF Running

\* A task more, a task less, and no change.
LEMMA RunningCounts ==
    ASSUME NEW q \in Queries, AdmissionTypeOK
    PROVE  /\ stage[q] # "running" /\ stage' = [stage EXCEPT ![q] = "running"]
                => Cardinality(Running') = Cardinality(Running) + 1
           /\ stage[q] = "running" /\ stage' = [stage EXCEPT ![q] = "done"]
                => Cardinality(Running') = Cardinality(Running) - 1
           /\ \A s \in Stages \ {"running"} :
                stage[q] # "running" /\ stage' = [stage EXCEPT ![q] = s]
                    => Running' = Running
  <1>1. ASSUME stage[q] # "running", stage' = [stage EXCEPT ![q] = "running"]
        PROVE  Running' = Running \cup {q} /\ q \notin Running
    BY <1>1 DEF Running, AdmissionTypeOK
  <1>2. ASSUME stage[q] = "running", stage' = [stage EXCEPT ![q] = "done"]
        PROVE  Running' = Running \ {q} /\ q \in Running
    BY <1>2 DEF Running, AdmissionTypeOK
  <1>3. ASSUME NEW s \in Stages \ {"running"}, stage[q] # "running",
               stage' = [stage EXCEPT ![q] = s]
        PROVE  Running' = Running
    BY <1>3 DEF Running, AdmissionTypeOK
  <1> QED
    BY <1>1, <1>2, <1>3, RunningFinite, FS_AddElement, FS_RemoveElement

\* The initial state satisfies the invariant.
LEMMA InitInv == AdmissionInit => AdmissionInv
  <1> SUFFICES ASSUME AdmissionInit PROVE AdmissionInv
    OBVIOUS
  <1> USE QueriesAssumption, PermitsAssumption, BacklogAssumption DEF AdmissionInit
  <1>1. AdmissionTypeOK
    <2>1. <<>> \in Seq(Queries)
      OBVIOUS
    <2>2. sock \in [Listeners -> Seq(Queries)] /\ batch \in [Listeners -> Seq(Queries)]
      BY <2>1
    <2>3. stage \in [Queries -> Stages]
      BY DEF Stages
    <2>4. age \in [Queries -> 0..MaxAge + 1] /\ permits \in 0..Permits
      OBVIOUS
    <2> QED
      BY <2>1, <2>2, <2>3, <2>4 DEF AdmissionTypeOK
  <1>2. InPlace /\ Once /\ Handover /\ BacklogBounded
    BY DEF InPlace, Queued, BacklogQueued, WaiterHeld, Once, Unique, BacklogUnique,
           Handover, BacklogBounded, Listeners
  <1>3. Running = {}
    BY DEF Running
  <1>4. PermitsConserved
    BY <1>3, FS_EmptySet DEF PermitsConserved
  <1> QED
    BY <1>1, <1>2, <1>4 DEF AdmissionInv

\* A query that leaves the head of a batch leaves everything in its place.
LEMMA TakeFromBatchInv ==
    ASSUME AdmissionTypeOK, InPlace, Once,
           NEW l \in Listeners, NEW s \in {"running", "backlog", "dropped"},
           TakeFromBatch(l, s)
    PROVE  /\ Head(batch[l]) \in Queries /\ stage[Head(batch[l])] = "batch"
           /\ stage' \in [Queries -> Stages] /\ batch' \in [Listeners -> Seq(Queries)]
           /\ Queued(sock, "socket")' /\ Queued(batch, "batch")' /\ WaiterHeld'
           /\ Unique(sock)' /\ Unique(batch)'
           /\ \A i \in 1..Len(backlog) :
                 stage'[backlog[i]] = "backlog" /\ backlog[i] # Head(batch[l])
  <1> DEFINE q == Head(batch[l])
             rest == Tail(batch[l])
  <1>1. /\ batch[l] \in Seq(Queries) /\ batch[l] # <<>>
        /\ batch \in [Listeners -> Seq(Queries)] /\ stage \in [Queries -> Stages]
        /\ sock \in [Listeners -> Seq(Queries)] /\ backlog \in Seq(Queries)
    BY DEF AdmissionTypeOK, TakeFromBatch
  <1>2. /\ q \in Queries /\ q = batch[l][1] /\ 1 \in 1..Len(batch[l])
        /\ rest \in Seq(Queries)
        /\ Len(rest) = Len(batch[l]) - 1
        /\ \A i \in 1..Len(rest) : i + 1 \in 1..Len(batch[l]) /\ rest[i] = batch[l][i + 1]
    BY <1>1, TailFacts
  <1> HIDE DEF q, rest
  <1>3. /\ batch' = [batch EXCEPT ![l] = rest]
        /\ stage' = [stage EXCEPT ![q] = s]
        /\ sock' = sock /\ waiter' = waiter
    BY DEF TakeFromBatch, q, rest
  <1>4. stage[q] = "batch"
    BY <1>2 DEF InPlace, Queued
  <1>5. stage' \in [Queries -> Stages] /\ batch' \in [Listeners -> Seq(Queries)]
    BY <1>1, <1>2, <1>3 DEF Stages
  <1>6. \A m \in Listeners : \A i \in 1..Len(batch'[m]) :
           \E j \in 1..Len(batch[m]) :
               /\ batch'[m][i] = batch[m][j]
               /\ j = IF m = l THEN i + 1 ELSE i
    BY <1>1, <1>2, <1>3
  <1>7. \A m \in Listeners : \A i \in 1..Len(batch'[m]) :
           batch'[m][i] # q /\ stage[batch'[m][i]] = "batch"
    <2> TAKE m \in Listeners
    <2> TAKE i \in 1..Len(batch'[m])
    <2>1. PICK j \in 1..Len(batch[m]) :
             batch'[m][i] = batch[m][j] /\ j = IF m = l THEN i + 1 ELSE i
      BY <1>6
    <2>2. ~(m = l /\ j = 1)
      BY <1>5, <2>1
    <2>3. batch[m][j] # batch[l][1]
      BY <1>2, <2>2 DEF Once, Unique
    <2>4. stage[batch[m][j]] = "batch"
      BY DEF InPlace, Queued
    <2> QED
      BY <1>2, <2>1, <2>3, <2>4
  <1>8. Unique(sock)' /\ Unique(batch)'
    <2>1. ASSUME NEW m \in Listeners, NEW n \in Listeners,
                 NEW i \in 1..Len(batch'[m]), NEW k \in 1..Len(batch'[n]),
                 batch'[m][i] = batch'[n][k]
          PROVE  m = n /\ i = k
      <3>1. PICK j \in 1..Len(batch[m]) :
               batch'[m][i] = batch[m][j] /\ j = IF m = l THEN i + 1 ELSE i
        BY <1>6
      <3>2. PICK h \in 1..Len(batch[n]) :
               batch'[n][k] = batch[n][h] /\ h = IF n = l THEN k + 1 ELSE k
        BY <1>6
      <3>3. m = n /\ j = h
        <4>1. batch[m][j] = batch[n][h]
          BY <2>1, <3>1, <3>2
        <4> QED
          BY <4>1 DEF Once, Unique
      <3>4. i \in Int /\ k \in Int
        BY <1>5
      <3>5. CASE m = l
        BY <3>1, <3>2, <3>3, <3>4, <3>5
      <3>6. CASE m # l
        BY <3>1, <3>2, <3>3, <3>6
      <3> QED
        BY <3>5, <3>6
    <2>2. Unique(batch)'
      BY <2>1 DEF Unique
    <2>3. Unique(sock)'
      BY <1>3 DEF Once, Unique
    <2> QED
      BY <2>2, <2>3
  <1>9. Queued(sock, "socket")'
    BY <1>1, <1>2, <1>3, <1>4 DEF InPlace, Queued
  <1>10. Queued(batch, "batch")'
    BY <1>1, <1>2, <1>3, <1>5, <1>7 DEF Queued
  <1>11. WaiterHeld'
    BY <1>1, <1>2, <1>3, <1>4 DEF InPlace, WaiterHeld, AdmissionTypeOK
  <1>12. \A i \in 1..Len(backlog) : stage'[backlog[i]] = "backlog" /\ backlog[i] # q
    BY <1>1, <1>2, <1>3, <1>4 DEF InPlace, BacklogQueued
  <1> QED
    BY <1>2, <1>4, <1>5, <1>8, <1>9, <1>10, <1>11, <1>12 DEF q

\* The same for a query that leaves the head of the backlog.
LEMMA TakeFromBacklogInv ==
    ASSUME AdmissionTypeOK, InPlace, Once, NEW s \in {"running", "waiter", "dropped"},
           TakeFromBacklog(s)
    PROVE  /\ Head(backlog) \in Queries /\ stage[Head(backlog)] = "backlog"
           /\ stage' \in [Queries -> Stages] /\ backlog' \in Seq(Queries)
           /\ Len(backlog') = Len(backlog) - 1
           /\ Queued(sock, "socket")' /\ Queued(batch, "batch")' /\ BacklogQueued'
           /\ Once'
  <1> DEFINE q == Head(backlog)
  <1>1. /\ backlog # <<>> /\ backlog \in Seq(Queries) /\ stage \in [Queries -> Stages]
        /\ batch \in [Listeners -> Seq(Queries)] /\ sock \in [Listeners -> Seq(Queries)]
    BY DEF AdmissionTypeOK, TakeFromBacklog
  <1>2. /\ q \in Queries /\ q = backlog[1] /\ 1 \in 1..Len(backlog)
        /\ Tail(backlog) \in Seq(Queries)
        /\ Len(Tail(backlog)) = Len(backlog) - 1
        /\ \A i \in 1..Len(Tail(backlog)) :
              i + 1 \in 1..Len(backlog) /\ Tail(backlog)[i] = backlog[i + 1]
    BY <1>1, TailFacts
  <1> HIDE DEF q
  <1>3. /\ backlog' = Tail(backlog) /\ stage' = [stage EXCEPT ![q] = s]
        /\ sock' = sock /\ batch' = batch
    BY DEF TakeFromBacklog, q
  <1>4. stage[q] = "backlog"
    BY <1>2 DEF InPlace, BacklogQueued
  <1>5. stage' \in [Queries -> Stages]
    BY <1>1, <1>2, <1>3 DEF Stages
  <1>6. Queued(sock, "socket")' /\ Queued(batch, "batch")'
    BY <1>1, <1>2, <1>3, <1>4 DEF InPlace, Queued
  <1>7. BacklogQueued'
    <2> SUFFICES ASSUME NEW i \in 1..Len(Tail(backlog))
                 PROVE  stage'[Tail(backlog)[i]] = "backlog"
      BY <1>3 DEF BacklogQueued
    <2>1. i + 1 \in 1..Len(backlog) /\ Tail(backlog)[i] = backlog[i + 1]
      BY <1>2
    <2>2. backlog[i + 1] # q
      BY <1>2, <2>1 DEF Once, BacklogUnique
    <2>3. stage[backlog[i + 1]] = "backlog" /\ backlog[i + 1] \in Queries
      BY <1>1, <2>1 DEF InPlace, BacklogQueued
    <2> QED
      BY <1>1, <1>3, <2>1, <2>2, <2>3
  <1>8. BacklogUnique'
    <2> SUFFICES ASSUME NEW i \in 1..Len(Tail(backlog)), NEW j \in 1..Len(Tail(backlog)),
                        Tail(backlog)[i] = Tail(backlog)[j]
                 PROVE  i = j
      BY <1>3 DEF BacklogUnique
    <2>1. i + 1 = j + 1
      BY <1>2 DEF Once, BacklogUnique
    <2> QED
      BY <2>1
  <1>9. Once'
    BY <1>3, <1>8 DEF Once, Unique
  <1> QED
    BY <1>2, <1>3, <1>4, <1>5, <1>6, <1>7, <1>9 DEF q

\* A query at the end of a socket's buffer.
LEMMA ArriveInv ==
    ASSUME AdmissionInv, NEW q \in Queries, NEW l \in Listeners, Arrive(q, l)
    PROVE  AdmissionInv'
  <1> USE DEF AdmissionInv
  <1>1. /\ stage[q] = "new" /\ stage' = [stage EXCEPT ![q] = "socket"]
        /\ sock' = [sock EXCEPT ![l] = Append(@, q)]
        /\ UNCHANGED <<batch, backlog, age, permits, waiter, granted, total_req>>
    BY DEF Arrive
  <1>2. /\ stage \in [Queries -> Stages] /\ sock \in [Listeners -> Seq(Queries)]
        /\ batch \in [Listeners -> Seq(Queries)] /\ backlog \in Seq(Queries)
    BY DEF AdmissionTypeOK
  <1>3. /\ Append(sock[l], q) \in Seq(Queries)
        /\ Len(Append(sock[l], q)) = Len(sock[l]) + 1
        /\ \A i \in 1..Len(sock[l]) : Append(sock[l], q)[i] = sock[l][i]
        /\ Append(sock[l], q)[Len(sock[l]) + 1] = q
    BY <1>2, AppendFacts
  <1>4. AdmissionTypeOK'
    BY <1>1, <1>2, <1>3 DEF AdmissionTypeOK, Stages
  <1>5. \A m \in Listeners : \A i \in 1..Len(sock'[m]) :
           \/ m = l /\ i = Len(sock[l]) + 1 /\ sock'[m][i] = q
           \/ i \in 1..Len(sock[m]) /\ sock'[m][i] = sock[m][i] /\ sock[m][i] # q
                /\ sock[m][i] \in Queries
    BY <1>1, <1>2, <1>3 DEF InPlace, Queued
  <1>6. InPlace'
    <2>1. Queued(sock, "socket")'
      BY <1>1, <1>2, <1>5 DEF InPlace, Queued
    <2>2. Queued(batch, "batch")' /\ BacklogQueued' /\ WaiterHeld'
      BY <1>1, <1>2 DEF InPlace, Queued, BacklogQueued, WaiterHeld, AdmissionTypeOK
    <2> QED
      BY <2>1, <2>2 DEF InPlace
  <1>7. Once'
    <2>1. Unique(sock)'
      BY <1>5 DEF Once, Unique
    <2> QED
      BY <1>1, <2>1 DEF Once, Unique, BacklogUnique
  <1>8. Running' = Running
    BY <1>1, RunningCounts DEF Stages
  <1>9. Handover' /\ PermitsConserved' /\ BacklogBounded'
    BY <1>1, <1>8 DEF Handover, PermitsConserved, BacklogBounded
  <1> QED
    BY <1>4, <1>6, <1>7, <1>9

\* A listener's empty batch filled with the first n datagrams of its socket.
LEMMA RecvBatchInv ==
    ASSUME AdmissionInv, NEW l \in Listeners, RecvBatch(l)
    PROVE  AdmissionInv'
  <1> USE DEF AdmissionInv
  <1>1. PICK n \in 1..Len(sock[l]) :
           /\ batch' = [batch EXCEPT ![l] = SubSeq(sock[l], 1, n)]
           /\ sock' = [sock EXCEPT ![l] = SubSeq(sock[l], n + 1, Len(sock[l]))]
           /\ stage' = [q \in Queries |->
                           IF \E i \in 1..n : sock[l][i] = q THEN "batch" ELSE stage[q]]
           /\ total_req' = total_req + n
    BY DEF RecvBatch
  <1>2. /\ batch[l] = <<>>
        /\ UNCHANGED <<backlog, age, permits, waiter, granted>>
    BY DEF RecvBatch
  <1>3. /\ stage \in [Queries -> Stages] /\ sock \in [Listeners -> Seq(Queries)]
        /\ batch \in [Listeners -> Seq(Queries)] /\ backlog \in Seq(Queries)
        /\ total_req \in Nat
    BY DEF AdmissionTypeOK
  <1> DEFINE front == SubSeq(sock[l], 1, n)
             rest == SubSeq(sock[l], n + 1, Len(sock[l]))
  <1>4. /\ front \in Seq(Queries) /\ Len(front) = n
        /\ \A i \in 1..n : front[i] = sock[l][i]
        /\ rest \in Seq(Queries) /\ Len(rest) = Len(sock[l]) - n
        /\ \A i \in 1..(Len(sock[l]) - n) : rest[i] = sock[l][n + i]
    BY <1>3, CutFacts
  <1> HIDE DEF front, rest
  <1>5. batch' = [batch EXCEPT ![l] = front] /\ sock' = [sock EXCEPT ![l] = rest]
    BY <1>1 DEF front, rest
  <1>6. n \in Nat /\ n >= 1 /\ n <= Len(sock[l]) /\ Len(sock[l]) \in Nat
    BY <1>3
  <1>7. AdmissionTypeOK'
    <2>1. stage' \in [Queries -> Stages]
      BY <1>1, <1>3 DEF Stages
    <2>2. total_req' \in Nat
      BY <1>1, <1>3, <1>6
    <2>3. batch' \in [Listeners -> Seq(Queries)] /\ sock' \in [Listeners -> Seq(Queries)]
      BY <1>3, <1>4, <1>5
    <2> QED
      BY <1>2, <2>1, <2>2, <2>3 DEF AdmissionTypeOK
  \* Where the contents of the queues come from.
  <1>8. \A m \in Listeners : \A i \in 1..Len(batch'[m]) :
           \/ m = l /\ i \in 1..n /\ batch'[m][i] = sock[l][i]
           \/ m # l /\ i \in 1..Len(batch[m]) /\ batch'[m][i] = batch[m][i]
    BY <1>3, <1>4, <1>5
  <1>9. \A m \in Listeners : \A i \in 1..Len(sock'[m]) :
           \/ m = l /\ n + i \in 1..Len(sock[m]) /\ sock'[m][i] = sock[m][n + i]
           \/ m # l /\ i \in 1..Len(sock[m]) /\ sock'[m][i] = sock[m][i]
    <2> TAKE m \in Listeners
    <2> TAKE i \in 1..Len(sock'[m])
    <2>1. CASE m = l
      <3>1. sock'[m] = rest
        BY <1>3, <1>5, <2>1
      <3>2. i \in 1..(Len(sock[l]) - n)
        BY <1>4, <3>1
      <3>3. n + i \in 1..Len(sock[l])
        BY <1>6, <3>2
      <3> QED
        BY <1>4, <2>1, <3>1, <3>2, <3>3
    <2>2. CASE m # l
      BY <1>3, <1>5, <2>2
    <2> QED
      BY <2>1, <2>2
  <1>10. \A i \in 1..n : i \in 1..Len(sock[l]) /\ stage[sock[l][i]] = "socket"
    BY <1>6 DEF InPlace, Queued
  <1>11. \A q \in Queries : stage[q] # "socket" => stage'[q] = stage[q]
    BY <1>1, <1>10
  <1>12. Queued(batch, "batch")'
    <2> SUFFICES ASSUME NEW m \in Listeners, NEW i \in 1..Len(batch'[m])
                 PROVE  stage'[batch'[m][i]] = "batch"
      BY DEF Queued
    <2>1. batch'[m][i] \in Queries
      BY <1>7 DEF AdmissionTypeOK
    <2>2. CASE m = l
      BY <1>1, <1>8, <2>1, <2>2
    <2>3. CASE m # l
      BY <1>8, <1>11, <2>1, <2>3 DEF InPlace, Queued
    <2> QED
      BY <2>2, <2>3
  <1>13. Queued(sock, "socket")'
    <2> SUFFICES ASSUME NEW m \in Listeners, NEW i \in 1..Len(sock'[m])
                 PROVE  stage'[sock'[m][i]] = "socket"
      BY DEF Queued
    <2> DEFINE at == IF m = l THEN n + i ELSE i
    <2>1. sock'[m][i] \in Queries
      BY <1>7 DEF AdmissionTypeOK
    <2>2. at \in 1..Len(sock[m]) /\ sock'[m][i] = sock[m][at]
      BY <1>9
    <2>3. ~\E k \in 1..n : sock[l][k] = sock[m][at]
      <3> SUFFICES ASSUME NEW k \in 1..n, sock[l][k] = sock[m][at] PROVE FALSE
        OBVIOUS
      <3>1. l = m /\ k = at
        BY <1>10, <2>2 DEF Once, Unique
      <3>2. i \in Nat /\ i >= 1
        BY <1>7 DEF AdmissionTypeOK
      <3> QED
        BY <1>6, <3>1, <3>2
    <2>4. stage[sock[m][at]] = "socket"
      BY <2>2 DEF InPlace, Queued
    <2> QED
      BY <1>1, <2>1, <2>2, <2>3, <2>4
  <1>14. BacklogQueued' /\ WaiterHeld'
    <2>1. \A i \in 1..Len(backlog) : backlog[i] \in Queries /\ stage[backlog[i]] = "backlog"
      BY <1>3 DEF InPlace, BacklogQueued
    <2>2. BacklogQueued'
      BY <1>2, <1>11, <2>1 DEF BacklogQueued
    <2>3. waiter # NoQuery => waiter \in Queries /\ stage[waiter] = "waiter"
      BY DEF InPlace, WaiterHeld, AdmissionTypeOK
    <2>4. WaiterHeld'
      BY <1>2, <1>11, <2>3 DEF WaiterHeld
    <2> QED
      BY <2>2, <2>4
  <1>15. Unique(batch)'
    <2> SUFFICES ASSUME NEW m \in Listeners, NEW k \in Listeners,
                        NEW i \in 1..Len(batch'[m]), NEW j \in 1..Len(batch'[k]),
                        batch'[m][i] = batch'[k][j]
                 PROVE  m = k /\ i = j
      BY DEF Unique
    <2>0. \A p \in Listeners : \A h \in 1..Len(batch'[p]) :
             IF p = l THEN stage[batch'[p][h]] = "socket" ELSE stage[batch'[p][h]] = "batch"
      <3> TAKE p \in Listeners
      <3> TAKE h \in 1..Len(batch'[p])
      <3>1. CASE p = l
        BY <1>8, <1>10, <3>1
      <3>2. CASE p # l
        <4>1. h \in 1..Len(batch[p]) /\ batch'[p][h] = batch[p][h]
          BY <1>8, <3>2
        <4>2. stage[batch[p][h]] = "batch"
          BY <4>1 DEF InPlace, Queued
        <4> QED
          BY <3>2, <4>1, <4>2
      <3> QED
        BY <3>1, <3>2
    <2>1. CASE m = l /\ k = l
      BY <1>8, <1>10, <2>1 DEF Once, Unique
    <2>2. CASE m # l /\ k # l
      BY <1>8, <2>2 DEF Once, Unique
    <2>3. CASE m = l /\ k # l
      BY <2>0, <2>3
    <2>4. CASE m # l /\ k = l
      BY <2>0, <2>4
    <2> QED
      BY <2>1, <2>2, <2>3, <2>4
  <1>16. Unique(sock)'
    <2> SUFFICES ASSUME NEW m \in Listeners, NEW k \in Listeners,
                        NEW i \in 1..Len(sock'[m]), NEW j \in 1..Len(sock'[k]),
                        sock'[m][i] = sock'[k][j]
                 PROVE  m = k /\ i = j
      BY DEF Unique
    <2> DEFINE at == IF m = l THEN n + i ELSE i
               on == IF k = l THEN n + j ELSE j
    <2>1. at \in 1..Len(sock[m]) /\ on \in 1..Len(sock[k]) /\ sock[m][at] = sock[k][on]
      BY <1>9
    <2>2. m = k /\ at = on
      BY <2>1 DEF Once, Unique
    <2>3. i \in Int /\ j \in Int
      BY <1>7 DEF AdmissionTypeOK
    <2> QED
      BY <1>6, <2>2, <2>3
  <1>17. Running' = Running
    <2>1. \A q \in Queries : stage'[q] = "running" <=> stage[q] = "running"
      BY <1>1, <1>10
    <2> QED
      BY <2>1 DEF Running
  <1>18. Handover' /\ PermitsConserved' /\ BacklogBounded' /\ BacklogUnique'
    BY <1>2, <1>17 DEF Handover, PermitsConserved, BacklogBounded, Once, BacklogUnique
  <1> QED
    BY <1>7, <1>12, <1>13, <1>14, <1>15, <1>16, <1>18 DEF InPlace, Once

\* The head of a batch becomes a task and takes a permit.
LEMMA BatchSpawnInv ==
    ASSUME AdmissionInv, NEW l \in Listeners, TakeFromBatch(l, "running"),
           permits > 0, permits' = permits - 1, UNCHANGED <<backlog, age>>
    PROVE  AdmissionInv'
  <1> DEFINE q == Head(batch[l])
  <1>1. /\ AdmissionTypeOK /\ InPlace /\ Once /\ Handover /\ PermitsConserved /\ BacklogBounded
        /\ stage' = [stage EXCEPT ![q] = "running"]
        /\ UNCHANGED <<sock, waiter, granted, total_req>>
    BY DEF AdmissionInv, TakeFromBatch
  <1>2. /\ q \in Queries /\ stage[q] = "batch"
        /\ stage' \in [Queries -> Stages] /\ batch' \in [Listeners -> Seq(Queries)]
        /\ Queued(sock, "socket")' /\ Queued(batch, "batch")' /\ WaiterHeld'
        /\ Unique(sock)' /\ Unique(batch)'
        /\ \A i \in 1..Len(backlog) : stage'[backlog[i]] = "backlog" /\ backlog[i] # q
    BY <1>1, TakeFromBatchInv
  <1>3. InPlace' /\ Once'
    BY <1>1, <1>2 DEF InPlace, Once, BacklogQueued, BacklogUnique
  <1>4. Cardinality(Running') = Cardinality(Running) + 1 /\ Cardinality(Running) \in Nat
    BY <1>1, <1>2, RunningCounts, RunningFinite
  <1>5. permits \in Nat /\ permits' \in 0..Permits
    BY <1>1, PermitsAssumption DEF AdmissionTypeOK
  <1>6. PermitsConserved'
    BY <1>1, <1>4, <1>5 DEF PermitsConserved
  <1>7. Handover' /\ BacklogBounded'
    BY <1>1, <1>5 DEF Handover, BacklogBounded
  <1>8. AdmissionTypeOK'
    BY <1>1, <1>2, <1>5 DEF AdmissionTypeOK
  <1> QED
    BY <1>3, <1>6, <1>7, <1>8 DEF AdmissionInv

\* The head of a batch is dropped.
LEMMA BatchDropInv ==
    ASSUME AdmissionInv, NEW l \in Listeners, TakeFromBatch(l, "dropped"),
           UNCHANGED <<backlog, age, permits>>
    PROVE  AdmissionInv'
  <1> DEFINE q == Head(batch[l])
  <1>1. /\ AdmissionTypeOK /\ InPlace /\ Once /\ Handover /\ PermitsConserved /\ BacklogBounded
        /\ stage' = [stage EXCEPT ![q] = "dropped"]
        /\ UNCHANGED <<sock, waiter, granted, total_req>>
    BY DEF AdmissionInv, TakeFromBatch
  <1>2. /\ q \in Queries /\ stage[q] = "batch"
        /\ stage' \in [Queries -> Stages] /\ batch' \in [Listeners -> Seq(Queries)]
        /\ Queued(sock, "socket")' /\ Queued(batch, "batch")' /\ WaiterHeld'
        /\ Unique(sock)' /\ Unique(batch)'
        /\ \A i \in 1..Len(backlog) : stage'[backlog[i]] = "backlog" /\ backlog[i] # q
    BY <1>1, TakeFromBatchInv
  <1>3. InPlace' /\ Once'
    BY <1>1, <1>2 DEF InPlace, Once, BacklogQueued, BacklogUnique
  <1>4. Running' = Running
    BY <1>1, <1>2, RunningCounts DEF Stages
  <1>5. Handover' /\ BacklogBounded' /\ PermitsConserved'
    BY <1>1, <1>4 DEF Handover, BacklogBounded, PermitsConserved
  <1>6. AdmissionTypeOK'
    BY <1>1, <1>2 DEF AdmissionTypeOK
  <1> QED
    BY <1>3, <1>5, <1>6 DEF AdmissionInv

\* The head of the plain listener's batch goes to the end of the backlog.
LEMMA PlainBacklogInv == AdmissionInv /\ PlainBacklog => AdmissionInv'
  <1> SUFFICES ASSUME AdmissionInv, PlainBacklog PROVE AdmissionInv'
    OBVIOUS
  <1> DEFINE q == Head(batch["plain"])
  <1>1. /\ AdmissionTypeOK /\ InPlace /\ Once /\ Handover /\ PermitsConserved /\ BacklogBounded
        /\ TakeFromBatch("plain", "backlog") /\ "plain" \in Listeners
        /\ stage' = [stage EXCEPT ![q] = "backlog"]
        /\ backlog' = Append(backlog, q) /\ Len(backlog) < BacklogCap
        /\ UNCHANGED <<sock, age, permits, waiter, granted, total_req>>
    BY DEF AdmissionInv, PlainBacklog, TakeFromBatch, Listeners
  <1>2. /\ q \in Queries /\ stage[q] = "batch"
        /\ stage' \in [Queries -> Stages] /\ batch' \in [Listeners -> Seq(Queries)]
        /\ Queued(sock, "socket")' /\ Queued(batch, "batch")' /\ WaiterHeld'
        /\ Unique(sock)' /\ Unique(batch)'
        /\ \A i \in 1..Len(backlog) : stage'[backlog[i]] = "backlog" /\ backlog[i] # q
    BY <1>1, TakeFromBatchInv
  <1> HIDE DEF q
  <1>3. /\ backlog' \in Seq(Queries) /\ Len(backlog') = Len(backlog) + 1
        /\ \A i \in 1..Len(backlog) : backlog'[i] = backlog[i]
        /\ backlog'[Len(backlog) + 1] = q
        /\ Len(backlog) \in Nat
    BY <1>1, <1>2, AppendFacts DEF AdmissionTypeOK
  <1>4. \A i \in 1..Len(backlog') : i = Len(backlog) + 1 \/ i \in 1..Len(backlog)
    BY <1>3
  <1>5. BacklogQueued'
    <2>1. stage'[q] = "backlog"
      BY <1>1, <1>2 DEF AdmissionTypeOK
    <2> QED
      BY <1>2, <1>3, <1>4, <2>1 DEF BacklogQueued
  <1>6. BacklogUnique'
    BY <1>1, <1>2, <1>3, <1>4 DEF Once, BacklogUnique
  <1>7. Running' = Running
    BY <1>1, <1>2, RunningCounts DEF Stages
  <1>8. Handover' /\ PermitsConserved'
    BY <1>1, <1>7 DEF Handover, PermitsConserved
  <1>9. BacklogBounded'
    BY <1>1, <1>3, BacklogAssumption DEF BacklogBounded
  <1>10. AdmissionTypeOK'
    BY <1>1, <1>2, <1>3 DEF AdmissionTypeOK
  <1> QED
    BY <1>2, <1>5, <1>6, <1>8, <1>9, <1>10 DEF AdmissionInv, InPlace, Once

\* The worker takes the head of the backlog: drops it, spawns it or waits with it.
LEMMA WorkerTakesInv ==
    AdmissionInv /\ (WorkerStale \/ WorkerSpawn \/ WorkerWait) => AdmissionInv'
  <1> SUFFICES ASSUME AdmissionInv, WorkerStale \/ WorkerSpawn \/ WorkerWait
               PROVE  AdmissionInv'
    OBVIOUS
  <1> DEFINE q == Head(backlog)
  <1>1. /\ AdmissionTypeOK /\ InPlace /\ Once /\ Handover /\ PermitsConserved /\ BacklogBounded
        /\ \E s \in {"running", "waiter", "dropped"} : TakeFromBacklog(s)
    BY DEF AdmissionInv, WorkerStale, WorkerSpawn, WorkerWait
  <1>2. /\ q \in Queries /\ stage[q] = "backlog"
        /\ stage' \in [Queries -> Stages] /\ backlog' \in Seq(Queries)
        /\ Len(backlog') = Len(backlog) - 1
        /\ Queued(sock, "socket")' /\ Queued(batch, "batch")' /\ BacklogQueued'
        /\ Once'
    BY <1>1, TakeFromBacklogInv
  <1>3. /\ waiter = NoQuery /\ ~granted /\ permits \in Nat /\ Permits \in Nat
        /\ UNCHANGED <<sock, batch, age, granted, total_req>>
    BY <1>1, PermitsAssumption DEF TakeFromBacklog, Handover, AdmissionTypeOK
  <1>4. BacklogBounded'
    BY <1>1, <1>2, BacklogAssumption DEF BacklogBounded, AdmissionTypeOK
  <1>5. Cardinality(Running) \in Nat
    BY RunningFinite
  <1>6. CASE WorkerStale
    <2>1. stage' = [stage EXCEPT ![q] = "dropped"] /\ UNCHANGED <<permits, waiter>>
      BY <1>6 DEF WorkerStale, TakeFromBacklog
    <2>2. Running' = Running
      BY <1>1, <1>2, <2>1, RunningCounts DEF Stages
    <2>3. AdmissionTypeOK'
      BY <1>1, <1>2, <1>3, <2>1 DEF AdmissionTypeOK
    <2>4. WaiterHeld' /\ Handover' /\ PermitsConserved'
      BY <1>1, <1>3, <2>1, <2>2 DEF WaiterHeld, Handover, PermitsConserved
    <2> QED
      BY <1>2, <1>4, <2>3, <2>4 DEF AdmissionInv, InPlace
  <1>7. CASE WorkerSpawn
    <2>1. /\ stage' = [stage EXCEPT ![q] = "running"] /\ waiter' = waiter
          /\ permits > 0 /\ permits' = permits - 1
      BY <1>7 DEF WorkerSpawn, TakeFromBacklog
    <2>2. Cardinality(Running') = Cardinality(Running) + 1
      BY <1>1, <1>2, <2>1, RunningCounts
    <2>3. permits' \in 0..Permits
      BY <1>1, <1>3, <2>1 DEF AdmissionTypeOK
    <2>4. AdmissionTypeOK'
      BY <1>1, <1>2, <1>3, <2>1, <2>3 DEF AdmissionTypeOK
    <2>5. WaiterHeld' /\ Handover'
      BY <1>3, <2>1 DEF WaiterHeld, Handover
    <2>6. PermitsConserved'
      BY <1>1, <1>3, <1>5, <2>1, <2>2 DEF PermitsConserved
    <2> QED
      BY <1>2, <1>4, <2>4, <2>5, <2>6 DEF AdmissionInv, InPlace
  <1>8. CASE WorkerWait
    <2>1. /\ stage' = [stage EXCEPT ![q] = "waiter"] /\ waiter' = q
          /\ permits = 0 /\ permits' = permits
      BY <1>8 DEF WorkerWait, TakeFromBacklog
    <2>2. Running' = Running
      BY <1>1, <1>2, <2>1, RunningCounts DEF Stages
    <2>3. AdmissionTypeOK'
      BY <1>1, <1>2, <1>3, <2>1 DEF AdmissionTypeOK
    <2>4. WaiterHeld'
      BY <1>1, <1>2, <2>1 DEF WaiterHeld, AdmissionTypeOK
    <2>5. Handover' /\ PermitsConserved'
      BY <1>1, <1>3, <2>1, <2>2 DEF Handover, PermitsConserved
    <2> QED
      BY <1>2, <1>4, <2>3, <2>4, <2>5 DEF AdmissionInv, InPlace
  <1> QED
    BY <1>6, <1>7, <1>8

\* The waiting worker finds the permit handed to it and spawns its query.
LEMMA WorkerResumeInv == AdmissionInv /\ WorkerResume => AdmissionInv'
  <1> SUFFICES ASSUME AdmissionInv, WorkerResume PROVE AdmissionInv'
    OBVIOUS
  <1>1. /\ AdmissionTypeOK /\ InPlace /\ Once /\ Handover /\ PermitsConserved /\ BacklogBounded
        /\ granted /\ waiter' = NoQuery /\ granted' = FALSE
        /\ stage' = [stage EXCEPT ![waiter] = "running"]
        /\ UNCHANGED <<sock, batch, backlog, age, permits, total_req>>
    BY DEF AdmissionInv, WorkerResume
  <1>2. waiter \in Queries /\ stage[waiter] = "waiter"
    BY <1>1 DEF AdmissionTypeOK, Handover, InPlace, WaiterHeld
  <1>3. Cardinality(Running') = Cardinality(Running) + 1 /\ Cardinality(Running) \in Nat
    BY <1>1, <1>2, RunningCounts, RunningFinite
  <1>4. AdmissionTypeOK'
    BY <1>1, <1>2 DEF AdmissionTypeOK, Stages
  <1>5. \A r \in Queries : stage[r] # "waiter" => stage'[r] = stage[r]
    BY <1>1, <1>2 DEF AdmissionTypeOK
  <1>6. Queued(sock, "socket")' /\ Queued(batch, "batch")'
    BY <1>1, <1>5 DEF InPlace, Queued, AdmissionTypeOK
  <1>7. BacklogQueued' /\ WaiterHeld'
    BY <1>1, <1>5 DEF InPlace, BacklogQueued, WaiterHeld, AdmissionTypeOK
  <1>8. Once' /\ BacklogBounded' /\ Handover'
    BY <1>1 DEF Once, Unique, BacklogUnique, BacklogBounded, Handover
  <1>9. PermitsConserved'
    BY <1>1, <1>3, PermitsAssumption DEF PermitsConserved, AdmissionTypeOK
  <1> QED
    BY <1>4, <1>6, <1>7, <1>8, <1>9 DEF AdmissionInv, InPlace

\* A task ends and its permit goes to the waiting worker or becomes available.
LEMMA FinishInv ==
    ASSUME AdmissionInv, NEW q \in Queries, Finish(q)
    PROVE  AdmissionInv'
  <1>1. /\ AdmissionTypeOK /\ InPlace /\ Once /\ Handover /\ PermitsConserved /\ BacklogBounded
        /\ stage[q] = "running" /\ stage' = [stage EXCEPT ![q] = "done"]
        /\ UNCHANGED <<sock, batch, backlog, age, waiter, total_req>>
    BY DEF AdmissionInv, Finish
  <1>2. Cardinality(Running') = Cardinality(Running) - 1
    BY <1>1, RunningCounts
  <1>3. Cardinality(Running) \in Nat /\ Cardinality(Running) # 0 /\ Permits \in Nat
    BY <1>1, RunningFinite, FS_EmptySet, PermitsAssumption DEF Running
  <1>4. /\ permits' \in 0..Permits /\ granted' \in BOOLEAN
        /\ Handover' /\ PermitsConserved'
    <2>1. CASE waiter # NoQuery /\ ~granted
      <3>1. granted' = TRUE /\ permits' = permits
        BY <2>1 DEF Finish, ReleasePermit
      <3> QED
        BY <1>1, <1>2, <1>3, <2>1, <3>1 DEF AdmissionTypeOK, Handover, PermitsConserved
    <2>2. CASE ~(waiter # NoQuery /\ ~granted)
      <3>1. granted' = granted /\ permits' = permits + 1
        BY <2>2 DEF Finish, ReleasePermit
      <3>2. permits + Cardinality(Running) <= Permits
        BY <1>1, <1>3 DEF AdmissionTypeOK, PermitsConserved
      <3>3. permits' \in 0..Permits
        BY <1>1, <1>3, <3>1, <3>2 DEF AdmissionTypeOK
      <3>4. PermitsConserved'
        <4> DEFINE given == IF granted THEN 1 ELSE 0
        <4>1. /\ given \in Int /\ given' = given
              /\ permits + given + Cardinality(Running) = Permits
          BY <1>1, <3>1 DEF PermitsConserved
        <4> HIDE DEF given
        <4>2. permits' + given' + Cardinality(Running') = Permits
          BY <1>1, <1>2, <1>3, <3>1, <4>1 DEF AdmissionTypeOK
        <4> QED
          BY <4>2 DEF given, PermitsConserved
      <3>5. Handover'
        BY <1>1, <2>2, <3>1 DEF Handover
      <3> QED
        BY <1>1, <3>1, <3>3, <3>4, <3>5 DEF AdmissionTypeOK
    <2> QED
      BY <2>1, <2>2
  <1>5. AdmissionTypeOK'
    BY <1>1, <1>4 DEF AdmissionTypeOK, Stages
  <1>6. \A r \in Queries : stage[r] # "running" => stage'[r] = stage[r]
    BY <1>1 DEF AdmissionTypeOK
  <1>7. Queued(sock, "socket")' /\ Queued(batch, "batch")'
    BY <1>1, <1>6 DEF InPlace, Queued, AdmissionTypeOK
  <1>8. BacklogQueued'
    BY <1>1, <1>6 DEF InPlace, BacklogQueued, AdmissionTypeOK
  <1>9. WaiterHeld'
    BY <1>1, <1>6 DEF InPlace, WaiterHeld, AdmissionTypeOK
  <1>10. Once' /\ BacklogBounded'
    BY <1>1 DEF Once, Unique, BacklogUnique, BacklogBounded
  <1> QED
    BY <1>4, <1>5, <1>7, <1>8, <1>9, <1>10 DEF AdmissionInv, InPlace

\* A tick only makes waiting queries older.
LEMMA AgingInv == AdmissionInv /\ Aging => AdmissionInv'
  <1> SUFFICES ASSUME AdmissionInv, Aging PROVE AdmissionInv'
    OBVIOUS
  <1>1. UNCHANGED <<stage, sock, batch, backlog, permits, waiter, granted, total_req>>
    BY DEF Aging
  <1>2. age' \in [Queries -> 0..MaxAge + 1]
    BY BacklogAssumption DEF AdmissionInv, AdmissionTypeOK, Aging
  <1>3. AdmissionTypeOK'
    BY <1>1, <1>2 DEF AdmissionInv, AdmissionTypeOK
  <1>4. InPlace' /\ Once'
    BY <1>1 DEF AdmissionInv, InPlace, Queued, BacklogQueued, WaiterHeld, Once, Unique,
               BacklogUnique
  <1>5. Handover' /\ PermitsConserved' /\ BacklogBounded'
    BY <1>1 DEF AdmissionInv, Handover, PermitsConserved, Running, BacklogBounded
  <1> QED
    BY <1>3, <1>4, <1>5 DEF AdmissionInv

\* Every step of the admission preserves the invariant.
LEMMA NextInv == AdmissionInv /\ [AdmissionNext]_admissionVars => AdmissionInv'
  <1> SUFFICES ASSUME AdmissionInv, [AdmissionNext]_admissionVars PROVE AdmissionInv'
    OBVIOUS
  <1>1. ASSUME NEW q \in Queries, NEW l \in Listeners, Arrive(q, l) PROVE AdmissionInv'
    BY <1>1, ArriveInv
  <1>2. ASSUME NEW l \in Listeners, RecvBatch(l) PROVE AdmissionInv'
    BY <1>2, RecvBatchInv
  <1>3. CASE PlainSpawn
    BY <1>3, BatchSpawnInv DEF PlainSpawn, Listeners
  <1>4. CASE PlainBacklog
    BY <1>4, PlainBacklogInv
  <1>5. CASE PlainOverflow
    BY <1>5, BatchDropInv DEF PlainOverflow, Listeners
  <1>6. CASE ObfsSpawn
    BY <1>6, BatchSpawnInv DEF ObfsSpawn, Listeners
  <1>7. CASE ObfsDrop
    BY <1>7, BatchDropInv DEF ObfsDrop, Listeners
  <1>8. CASE Working
    BY <1>8, WorkerTakesInv, WorkerResumeInv DEF Working
  <1>9. ASSUME NEW q \in Queries, Finish(q) PROVE AdmissionInv'
    BY <1>9, FinishInv
  <1>10. CASE Aging
    BY <1>10, AgingInv
  <1>11. CASE UNCHANGED admissionVars
    BY <1>11 DEF admissionVars, AdmissionInv, AdmissionTypeOK, InPlace, Queued, BacklogQueued,
                 WaiterHeld, Once, Unique, BacklogUnique, Handover, PermitsConserved, Running,
                 BacklogBounded
  <1> QED
    BY <1>1, <1>2, <1>3, <1>4, <1>5, <1>6, <1>7, <1>8, <1>9, <1>10, <1>11
       DEF AdmissionNext, Listening

-----------------------------------------------------------------------------
\* The inductive invariant holds in every state of the admission of queries.
THEOREM AdmissionInvariant == AdmissionSpec => []AdmissionInv
  BY InitInv, NextInv, PTL DEF AdmissionSpec

\* The admission state always has its types; in particular the semaphore never
\* has more permits available than it was created with.
THEOREM AdmissionTypeCorrect == AdmissionSpec => []AdmissionTypeOK
  <1>1. AdmissionInv => AdmissionTypeOK
    BY DEF AdmissionInv
  <1> QED
    BY <1>1, AdmissionInvariant, PTL

\* Whatever the interleaving of the listeners, the worker and the tasks, no permit
\* is lost or made up.
THEOREM PermitsAreConserved == AdmissionSpec => []PermitsConserved
  <1>1. AdmissionInv => PermitsConserved
    BY DEF AdmissionInv
  <1> QED
    BY <1>1, AdmissionInvariant, PTL

\* The backlog keeps to its capacity, and beyond its sockets and batches the server
\* never holds more queries than its permits, its backlog and the worker's hand have
\* room for.
THEOREM InFlightIsBounded == AdmissionSpec => [](BacklogBounded /\ InFlightBounded)
  <1>1. AdmissionInv => BacklogBounded /\ InFlightBounded
    <2> SUFFICES ASSUME AdmissionInv PROVE BacklogBounded /\ InFlightBounded
      OBVIOUS
    <2>1. Cardinality(Running) <= Permits
      BY RunningFinite, PermitsAssumption DEF AdmissionInv, PermitsConserved, AdmissionTypeOK
    <2>2. Len(backlog) <= BacklogCap /\ Len(backlog) \in Nat
      BY DEF AdmissionInv, BacklogBounded, AdmissionTypeOK
    <2> QED
      BY <2>1, <2>2, RunningFinite, PermitsAssumption, BacklogAssumption
         DEF BacklogBounded, InFlightBounded
  <1> QED
    BY <1>1, AdmissionInvariant, PTL

\* While the worker waits for a permit, some task runs that will give it one, and
\* no listener can take a permit ahead of it.
THEOREM WakeupIsNeverLost == AdmissionSpec => []NoLostWakeup
  <1>1. AdmissionInv => NoLostWakeup
    <2> SUFFICES ASSUME AdmissionInv, waiter # NoQuery, ~granted
                 PROVE  permits = 0 /\ Running # {}
      BY DEF NoLostWakeup
    <2>1. permits = 0
      BY DEF AdmissionInv, Handover
    <2>2. Cardinality(Running) = Permits
      BY <2>1, RunningFinite DEF AdmissionInv, PermitsConserved
    <2> QED
      BY <2>1, <2>2, FS_EmptySet, PermitsAssumption
  <1> QED
    BY <1>1, AdmissionInvariant, PTL

-----------------------------------------------------------------------------
(* What no queue holds any more is not forgotten.                           *)

Held(s, q) == \E i \in 1..Len(s) : s[i] = q

\* A query whose stage says it waits somewhere is held there.
Found(q) ==
    /\ stage[q] = "waiter" => waiter = q
    /\ stage[q] = "backlog" => Held(backlog, q)
    /\ stage[q] = "batch" => \E l \in Listeners : Held(batch[l], q)
    /\ stage[q] = "socket" => \E l \in Listeners : Held(sock[l], q)

AllFound == \A q \in Queries : Found(q)

\* Taking the head of a queue forgets nothing else.
LEMMA HeldTail ==
    ASSUME NEW S, NEW s \in Seq(S), s # <<>>, NEW q, Held(s, q), q # Head(s)
    PROVE  Held(Tail(s), q)
  <1>1. PICK i \in 1..Len(s) : s[i] = q
    BY DEF Held
  <1>2. i # 1
    BY <1>1
  <1>3. i - 1 \in 1..Len(Tail(s)) /\ Tail(s)[i - 1] = s[i]
    BY <1>2
  <1> QED
    BY <1>1, <1>3 DEF Held

\* Appending forgets nothing and adds what is appended.
LEMMA HeldAppend ==
    ASSUME NEW S, NEW s \in Seq(S), NEW e \in S, NEW q, Held(s, q) \/ q = e
    PROVE  Held(Append(s, e), q)
  <1>1. CASE Held(s, q)
    <2>1. PICK i \in 1..Len(s) : s[i] = q
      BY <1>1 DEF Held
    <2>2. i \in 1..Len(Append(s, e)) /\ Append(s, e)[i] = q
      BY <2>1
    <2> QED
      BY <2>2 DEF Held
  <1>2. CASE q = e
    <2>1. Len(s) + 1 \in 1..Len(Append(s, e)) /\ Append(s, e)[Len(s) + 1] = q
      BY <1>2
    <2> QED
      BY <2>1 DEF Held
  <1> QED
    BY <1>1, <1>2

\* What a queue holds is in one of its two parts when it is cut.
LEMMA HeldCut ==
    ASSUME NEW S, NEW s \in Seq(S), NEW n \in 1..Len(s), NEW q
    PROVE  /\ (\E i \in 1..n : s[i] = q) => Held(SubSeq(s, 1, n), q)
           /\ Held(s, q) /\ ~(\E i \in 1..n : s[i] = q) => Held(SubSeq(s, n + 1, Len(s)), q)
  <1> DEFINE a == SubSeq(s, 1, n)  b == SubSeq(s, n + 1, Len(s))
  <1>1. /\ Len(a) = n /\ \A i \in 1..n : a[i] = s[i]
        /\ Len(b) = Len(s) - n /\ \A i \in 1..(Len(s) - n) : b[i] = s[n + i]
        /\ Len(s) \in Nat
    BY CutFacts
  <1> HIDE DEF a, b
  <1>2. ASSUME NEW i \in 1..n, s[i] = q PROVE Held(a, q)
    BY <1>1, <1>2 DEF Held
  <1>3. ASSUME Held(s, q), ~(\E i \in 1..n : s[i] = q) PROVE Held(b, q)
    <2>1. PICK i \in 1..Len(s) : s[i] = q
      BY <1>3 DEF Held
    <2>2. i - n \in 1..Len(b) /\ n + (i - n) = i /\ i - n \in 1..(Len(s) - n)
      BY <1>1, <1>3, <2>1
    <2>3. b[i - n] = q
      BY <1>1, <2>1, <2>2
    <2> QED
      BY <2>2, <2>3 DEF Held
  <1> QED
    BY <1>2, <1>3 DEF a, b

\* A datagram that arrives, and the batch a listener takes, are still found.
LEMMA ListenerFinds ==
    ASSUME AdmissionInv, AllFound, NEW q \in Queries, NEW l \in Listeners,
           RecvBatch(l) \/ \E p \in Queries : Arrive(p, l)
    PROVE  Found(q)'
  <1>1. AdmissionTypeOK /\ Found(q)
    BY DEF AdmissionInv, AllFound
  <1>2. ASSUME NEW p \in Queries, Arrive(p, l) PROVE Found(q)'
    <2>1. /\ stage[p] = "new" /\ stage' = [stage EXCEPT ![p] = "socket"]
          /\ sock' = [sock EXCEPT ![l] = Append(@, p)]
          /\ UNCHANGED <<batch, backlog, waiter>>
      BY <1>2 DEF Arrive
    <2>2. \A m \in Listeners : Held(sock[m], q) => Held(sock'[m], q)
      BY <1>1, <2>1, HeldAppend DEF AdmissionTypeOK
    <2>3. CASE q = p
      <3>1. stage'[q] = "socket" /\ sock'[l] = Append(sock[l], q) /\ sock[l] \in Seq(Queries)
        BY <1>1, <2>1, <2>3 DEF AdmissionTypeOK
      <3>2. Held(sock'[l], q)
        BY <3>1, HeldAppend
      <3> QED
        BY <3>1, <3>2 DEF Found
    <2>4. CASE q # p
      <3>1. stage'[q] = stage[q]
        BY <1>1, <2>1, <2>4 DEF AdmissionTypeOK
      <3> QED
        BY <1>1, <2>1, <2>2, <3>1 DEF Found
    <2> QED
      BY <2>3, <2>4
  <1>3. CASE RecvBatch(l)
    <2>1. PICK n \in 1..Len(sock[l]) :
             /\ batch' = [batch EXCEPT ![l] = SubSeq(sock[l], 1, n)]
             /\ sock' = [sock EXCEPT ![l] = SubSeq(sock[l], n + 1, Len(sock[l]))]
             /\ stage' = [p \in Queries |->
                             IF \E i \in 1..n : sock[l][i] = p THEN "batch" ELSE stage[p]]
      BY <1>3 DEF RecvBatch
    <2>2. batch[l] = <<>> /\ UNCHANGED <<backlog, waiter>>
      BY <1>3 DEF RecvBatch
    <2>3. sock[l] \in Seq(Queries) /\ ~Held(batch[l], q)
      BY <1>1, <2>2 DEF AdmissionTypeOK, Held
    <2>4. /\ sock'[l] = SubSeq(sock[l], n + 1, Len(sock[l])) /\ batch'[l] = SubSeq(sock[l], 1, n)
          /\ \A m \in Listeners : m # l => sock'[m] = sock[m] /\ batch'[m] = batch[m]
      BY <1>1, <2>1 DEF AdmissionTypeOK
    <2>5. CASE \E i \in 1..n : sock[l][i] = q
      <3>1. stage'[q] = "batch"
        BY <2>1, <2>5
      <3>2. Held(batch'[l], q)
        BY <2>3, <2>4, <2>5, HeldCut
      <3> QED
        BY <3>1, <3>2 DEF Found
    <2>6. CASE ~\E i \in 1..n : sock[l][i] = q
      <3>1. stage'[q] = stage[q]
        BY <2>1, <2>6
      <3>2. Held(sock[l], q) => Held(sock'[l], q)
        <4>1. Held(sock[l], q) /\ ~(\E i \in 1..n : sock[l][i] = q)
                 => Held(SubSeq(sock[l], n + 1, Len(sock[l])), q)
          BY <2>3, HeldCut
        <4> QED
          BY <2>4, <2>6, <4>1, Zenon
      <3>3. \A m \in Listeners : Held(sock[m], q) => Held(sock'[m], q)
        BY <2>4, <3>2, Zenon
      <3>4. \A m \in Listeners : Held(batch[m], q) => Held(batch'[m], q)
        BY <2>3, <2>4, Zenon
      <3> QED
        BY <1>1, <2>2, <3>1, <3>3, <3>4 DEF Found
    <2> QED
      BY <2>5, <2>6
  <1> QED
    BY <1>2, <1>3

\* A query taken from a batch goes where its new stage says.
LEMMA BatchFinds ==
    ASSUME AdmissionInv, AllFound, NEW q \in Queries, NEW l \in Listeners,
           NEW s \in {"running", "dropped", "backlog"}, TakeFromBatch(l, s),
           IF s = "backlog" THEN backlog' = Append(backlog, Head(batch[l]))
                            ELSE backlog' = backlog
    PROVE  Found(q)'
  <1> DEFINE h == Head(batch[l])
  <1>1. AdmissionTypeOK /\ Found(q)
    BY DEF AdmissionInv, AllFound
  <1>2. /\ batch[l] # <<>> /\ batch' = [batch EXCEPT ![l] = Tail(@)]
        /\ stage' = [stage EXCEPT ![h] = s]
        /\ UNCHANGED <<sock, waiter>>
    BY DEF TakeFromBatch
  <1>3. batch[l] \in Seq(Queries) /\ h \in Queries /\ backlog \in Seq(Queries)
    BY <1>1, <1>2 DEF AdmissionTypeOK
  <1> HIDE DEF h
  <1>4. Held(backlog, q) => Held(backlog', q)
    BY <1>3, HeldAppend DEF h
  <1>5. CASE q = h
    <2>1. stage'[q] = s
      BY <1>1, <1>2, <1>5 DEF AdmissionTypeOK
    <2>2. s = "backlog" => Held(backlog', q)
      BY <1>3, <1>5, HeldAppend DEF h
    <2> QED
      BY <2>1, <2>2 DEF Found
  <1>6. CASE q # h
    <2>1. stage'[q] = stage[q]
      BY <1>1, <1>2, <1>3, <1>6 DEF AdmissionTypeOK
    <2>2. Held(batch[l], q) => Held(Tail(batch[l]), q)
      BY <1>2, <1>3, <1>6, HeldTail DEF h
    <2>3. \A m \in Listeners : Held(batch[m], q) => Held(batch'[m], q)
      BY <1>1, <1>2, <2>2 DEF AdmissionTypeOK
    <2> QED
      BY <1>1, <1>2, <1>4, <2>1, <2>3 DEF Found
  <1> QED
    BY <1>5, <1>6

\* A query the worker takes is dropped, runs or is in the worker's hand.
LEMMA WorkerFinds ==
    ASSUME AdmissionInv, AllFound, NEW q \in Queries, Working
    PROVE  Found(q)'
  <1> DEFINE h == Head(backlog)
  <1>1. AdmissionTypeOK /\ Found(q)
    BY DEF AdmissionInv, AllFound
  <1>2. ASSUME NEW s \in {"running", "waiter", "dropped"}, TakeFromBacklog(s),
               waiter' = (IF s = "waiter" THEN h ELSE waiter)
        PROVE  Found(q)'
    <2>1. /\ backlog # <<>> /\ backlog' = Tail(backlog) /\ stage' = [stage EXCEPT ![h] = s]
          /\ waiter = NoQuery /\ UNCHANGED <<sock, batch>>
      BY <1>2 DEF TakeFromBacklog
    <2>2. backlog \in Seq(Queries) /\ h \in Queries
      BY <1>1, <2>1 DEF AdmissionTypeOK
    <2>3. CASE q = h
      <3>1. stage'[q] = s
        BY <1>1, <2>1, <2>3 DEF AdmissionTypeOK
      <3> QED
        BY <1>2, <2>3, <3>1 DEF Found
    <2>4. CASE q # h
      <3>1. stage'[q] = stage[q]
        BY <1>1, <2>1, <2>2, <2>4 DEF AdmissionTypeOK
      <3>2. Held(backlog, q) => Held(backlog', q)
        BY <2>1, <2>2, <2>4, HeldTail
      <3>3. stage[q] # "waiter"
        BY <1>1, <2>1, QueriesAssumption DEF Found
      <3> QED
        BY <1>1, <2>1, <3>1, <3>2, <3>3 DEF Found
    <2> QED
      BY <2>3, <2>4
  <1>3. CASE WorkerResume
    <2>1. waiter \in Queries /\ stage' = [stage EXCEPT ![waiter] = "running"]
      BY <1>3 DEF WorkerResume, AdmissionInv, AdmissionTypeOK, Handover
    <2>2. CASE q = waiter
      <3>1. stage'[q] = "running"
        BY <1>1, <2>1, <2>2 DEF AdmissionTypeOK
      <3> QED
        BY <3>1 DEF Found
    <2>3. CASE q # waiter
      <3>1. stage'[q] = stage[q] /\ UNCHANGED <<sock, batch, backlog>>
        BY <1>1, <1>3, <2>1, <2>3 DEF AdmissionTypeOK, WorkerResume
      <3> QED
        BY <1>1, <2>3, <3>1 DEF Found
    <2> QED
      BY <2>2, <2>3
  <1> QED
    BY <1>2, <1>3 DEF Working, WorkerStale, WorkerSpawn, WorkerWait

\* Every step of the admission moves a query from one place to the next.
LEMMA FoundNext == AdmissionInv /\ AllFound /\ [AdmissionNext]_admissionVars => AllFound'
  <1> SUFFICES ASSUME AdmissionInv, AllFound, [AdmissionNext]_admissionVars,
                      NEW q \in Queries
               PROVE  Found(q)'
    BY DEF AllFound
  <1>1. AdmissionTypeOK /\ Found(q) /\ "plain" \in Listeners /\ "obfs" \in Listeners
    BY DEF AdmissionInv, AllFound, Listeners
  <1>2. ASSUME NEW p \in Queries, Finish(p) PROVE Found(q)'
    <2>1. /\ stage' = [stage EXCEPT ![p] = "done"] /\ UNCHANGED <<sock, batch, backlog, waiter>>
      BY <1>2 DEF Finish
    <2>2. stage'[q] = stage[q] \/ stage'[q] = "done"
      BY <1>1, <2>1 DEF AdmissionTypeOK
    <2> QED
      BY <1>1, <2>1, <2>2 DEF Found
  <1>3. CASE Aging \/ UNCHANGED admissionVars
    <2>1. UNCHANGED <<stage, sock, batch, backlog, waiter>>
      BY <1>3 DEF Aging, admissionVars
    <2> QED
      BY <1>1, <2>1 DEF Found, Held
  <1>4. CASE PlainSpawn \/ PlainBacklog \/ PlainOverflow \/ ObfsSpawn \/ ObfsDrop
    BY <1>1, <1>4, BatchFinds
       DEF PlainSpawn, PlainBacklog, PlainOverflow, ObfsSpawn, ObfsDrop
  <1> QED
    BY <1>2, <1>3, <1>4, ListenerFinds, WorkerFinds DEF AdmissionNext, Listening

\* Every query is in the one place its stage says: no listener and no worker loses
\* one, and none has it twice.
THEOREM PlacesAreKept == AdmissionSpec => []Places
  <1>1. AdmissionInit => AllFound
    BY DEF AdmissionInit, AllFound, Found
  <1>2. AdmissionSpec => []AllFound
    BY <1>1, FoundNext, AdmissionInvariant, PTL DEF AdmissionSpec
  <1>3. AdmissionInv /\ AllFound => Places
    <2> SUFFICES ASSUME AdmissionInv, AllFound, NEW q \in Queries
                 PROVE  /\ stage[q] = "waiter" <=> q = waiter
                        /\ stage[q] = "backlog" <=> Held(backlog, q)
                        /\ stage[q] = "batch" <=> \E l \in Listeners : Held(batch[l], q)
                        /\ stage[q] = "socket" <=> \E l \in Listeners : Held(sock[l], q)
      BY DEF Places, Held
    <2>1. Found(q)
      BY DEF AllFound
    <2>2. q = waiter => stage[q] = "waiter"
      BY QueriesAssumption DEF AdmissionInv, InPlace, WaiterHeld
    <2>3. Held(backlog, q) => stage[q] = "backlog"
      BY DEF AdmissionInv, InPlace, BacklogQueued, Held
    <2>4. (\E l \in Listeners : Held(batch[l], q)) => stage[q] = "batch"
      BY DEF AdmissionInv, InPlace, Queued, Held
    <2>5. (\E l \in Listeners : Held(sock[l], q)) => stage[q] = "socket"
      BY DEF AdmissionInv, InPlace, Queued, Held
    <2> QED
      BY <2>1, <2>2, <2>3, <2>4, <2>5 DEF Found
  <1> QED
    BY <1>2, <1>3, AdmissionInvariant, PTL

-----------------------------------------------------------------------------
(* What total_req counts.                                                   *)

\* The queries the listeners have taken from their sockets.
Taken == {q \in Queries : stage[q] \notin {"new", "socket"}}

TotalCounted == total_req = Cardinality(Taken)

\* No step but a listener's RecvBatch takes a query from a socket or puts one back.
LEMMA TakenKept ==
    ASSUME AdmissionInv, [AdmissionNext]_admissionVars, \A l \in Listeners : ~RecvBatch(l)
    PROVE  Taken' = Taken /\ total_req' = total_req
  <1>1. AdmissionTypeOK /\ "plain" \in Listeners /\ "obfs" \in Listeners
    BY DEF AdmissionInv, Listeners
  <1>2. ASSUME NEW p \in Queries, NEW s, NEW old, stage[p] = old,
               stage' = [stage EXCEPT ![p] = s],
               old \in {"new", "socket"} <=> s \in {"new", "socket"}
        PROVE  Taken' = Taken
    BY <1>1, <1>2 DEF Taken, AdmissionTypeOK
  <1>3. ASSUME NEW p \in Queries, NEW l \in Listeners, Arrive(p, l)
        PROVE  Taken' = Taken /\ total_req' = total_req
    BY <1>2, <1>3 DEF Arrive
  <1>4. ASSUME NEW l \in Listeners, NEW s \in {"running", "dropped", "backlog"},
               TakeFromBatch(l, s)
        PROVE  Taken' = Taken /\ total_req' = total_req
    <2>1. /\ batch[l] # <<>> /\ stage' = [stage EXCEPT ![Head(batch[l])] = s]
          /\ total_req' = total_req /\ batch[l] \in Seq(Queries)
      BY <1>1, <1>4 DEF TakeFromBatch, AdmissionTypeOK
    <2>2. Head(batch[l]) \in Queries /\ stage[Head(batch[l])] = "batch"
      BY <2>1 DEF AdmissionInv, InPlace, Queued
    <2> QED
      BY <1>2, <2>1, <2>2
  <1>5. ASSUME NEW s \in {"running", "waiter", "dropped"}, TakeFromBacklog(s)
        PROVE  Taken' = Taken /\ total_req' = total_req
    <2>1. /\ backlog # <<>> /\ stage' = [stage EXCEPT ![Head(backlog)] = s]
          /\ total_req' = total_req /\ backlog \in Seq(Queries)
      BY <1>1, <1>5 DEF TakeFromBacklog, AdmissionTypeOK
    <2>2. Head(backlog) \in Queries /\ stage[Head(backlog)] = "backlog"
      BY <2>1 DEF AdmissionInv, InPlace, BacklogQueued
    <2> QED
      BY <1>2, <2>1, <2>2
  <1>6. CASE WorkerResume
    <2>1. waiter \in Queries /\ stage[waiter] = "waiter"
      BY <1>6 DEF WorkerResume, AdmissionInv, AdmissionTypeOK, InPlace, WaiterHeld, Handover
    <2> QED
      BY <1>2, <1>6, <2>1 DEF WorkerResume
  <1>7. ASSUME NEW p \in Queries, Finish(p) PROVE Taken' = Taken /\ total_req' = total_req
    BY <1>2, <1>7 DEF Finish
  <1>8. CASE Aging \/ UNCHANGED admissionVars
    BY <1>8 DEF Aging, admissionVars, Taken
  <1>9. CASE Listening
    BY <1>1, <1>4, <1>9 DEF Listening, PlainSpawn, PlainBacklog, PlainOverflow, ObfsSpawn, ObfsDrop
  <1>10. CASE Working
    BY <1>5, <1>6, <1>10 DEF Working, WorkerStale, WorkerSpawn, WorkerWait
  <1> QED
    BY <1>3, <1>7, <1>8, <1>9, <1>10 DEF AdmissionNext

\* A batch is counted as a whole, and holds as many queries as it is counted for.
LEMMA BatchCounted ==
    ASSUME AdmissionInv, TotalCounted, NEW l \in Listeners, RecvBatch(l)
    PROVE  TotalCounted'
  <1>1. PICK n \in 1..Len(sock[l]) :
           /\ stage' = [p \in Queries |->
                           IF \E i \in 1..n : sock[l][i] = p THEN "batch" ELSE stage[p]]
           /\ total_req' = total_req + n
    BY DEF RecvBatch
  <1> DEFINE new == {sock[l][i] : i \in 1..n}
             f == [i \in 1..n |-> sock[l][i]]
  <1>2. /\ sock[l] \in Seq(Queries) /\ n \in Nat
        /\ \A i \in 1..n : i \in 1..Len(sock[l]) /\ sock[l][i] \in Queries
    BY DEF AdmissionInv, AdmissionTypeOK
  <1>3. \A i \in 1..n : stage[sock[l][i]] = "socket"
    BY <1>2 DEF AdmissionInv, InPlace, Queued
  <1>4. \A i, j \in 1..n : sock[l][i] = sock[l][j] => i = j
    BY <1>2 DEF AdmissionInv, Once, Unique
  <1>5. Cardinality(new) = n /\ IsFiniteSet(new)
    <2>1. f \in Injection(1..n, new)
      BY <1>4 DEF Injection, IsInjective
    <2>2. f \in Surjection(1..n, new)
      BY DEF Surjection
    <2>3. ExistsBijection(1..n, new)
      BY <2>1, <2>2, Zenon DEF ExistsBijection, Bijection
    <2>4. new \subseteq Queries
      BY <1>2
    <2> HIDE DEF new, f
    <2> QED
      BY <1>2, <2>3, <2>4, FS_CountingElements, FS_Subset, QueriesAssumption
  <1>6. Taken' = Taken \cup new
    BY <1>1, <1>2 DEF Taken
  <1>7. Taken \cap new = {}
    BY <1>3 DEF Taken
  <1> HIDE DEF new, f
  <1>8. IsFiniteSet(Taken)
    BY QueriesAssumption, FS_Subset DEF Taken
  <1>9. Cardinality(Taken') = Cardinality(Taken) + Cardinality(new)
    <2>1. Cardinality(Taken \cup new)
            = Cardinality(Taken) + Cardinality(new) - Cardinality(Taken \cap new)
      BY <1>5, <1>8, FS_Union
    <2>2. Cardinality(Taken \cap new) = 0 /\ Cardinality(Taken) \in Nat
      BY <1>7, <1>8, FS_EmptySet, FS_CardinalityType
    <2> QED
      BY <1>2, <1>5, <1>6, <2>1, <2>2
  <1> QED
    BY <1>1, <1>5, <1>9 DEF TotalCounted

\* total_req is the number of queries the listeners took from their sockets, however
\* their batches interleave.
THEOREM TotalIsCounted == AdmissionSpec => []TotalCounted
  <1>1. AdmissionInit => TotalCounted
    <2> SUFFICES ASSUME AdmissionInit PROVE TotalCounted
      OBVIOUS
    <2>1. Taken = {} /\ total_req = 0
      BY DEF AdmissionInit, Taken
    <2> QED
      BY <2>1, FS_EmptySet DEF TotalCounted
  <1>2. AdmissionInv /\ TotalCounted /\ [AdmissionNext]_admissionVars => TotalCounted'
    <2> SUFFICES ASSUME AdmissionInv, TotalCounted, [AdmissionNext]_admissionVars
                 PROVE  TotalCounted'
      OBVIOUS
    <2>1. CASE \A l \in Listeners : ~RecvBatch(l)
      BY <2>1, TakenKept DEF TotalCounted
    <2> QED
      BY <2>1, BatchCounted
  <1> QED
    BY <1>1, <1>2, AdmissionInvariant, PTL DEF AdmissionSpec

-----------------------------------------------------------------------------
\* No step of a listener or of the worker moves a query that runs or is done, and
\* none finishes one.
LEMMA StagesKept ==
  ASSUME AdmissionInv, Listening \/ Working, NEW q \in Queries
  PROVE  /\ stage' \in [Queries -> Stages]
         /\ stage[q] \in {"running", "done"} => stage'[q] = stage[q]
         /\ stage'[q] = "done" => stage[q] = "done"
  <1> USE DEF Stages
  <1>1. ASSUME NEW l \in Listeners, NEW s \in {"running", "backlog", "dropped"},
               TakeFromBatch(l, s)
        PROVE  /\ stage' \in [Queries -> Stages]
               /\ stage[q] \in {"running", "done"} => stage'[q] = stage[q]
               /\ stage'[q] = "done" => stage[q] = "done"
    <2>1. Len(batch[l]) > 0 /\ stage[Head(batch[l])] = "batch" /\ Head(batch[l]) \in Queries
      BY <1>1 DEF TakeFromBatch, AdmissionInv, InPlace, Queued, AdmissionTypeOK
    <2> QED
      BY <1>1, <2>1 DEF TakeFromBatch, AdmissionInv, AdmissionTypeOK
  <1>2. ASSUME NEW s \in {"running", "waiter", "dropped"}, TakeFromBacklog(s)
        PROVE  /\ stage' \in [Queries -> Stages]
               /\ stage[q] \in {"running", "done"} => stage'[q] = stage[q]
               /\ stage'[q] = "done" => stage[q] = "done"
    <2>1. Len(backlog) > 0 /\ stage[Head(backlog)] = "backlog" /\ Head(backlog) \in Queries
      BY <1>2 DEF TakeFromBacklog, AdmissionInv, InPlace, BacklogQueued, AdmissionTypeOK
    <2> QED
      BY <1>2, <2>1 DEF TakeFromBacklog, AdmissionInv, AdmissionTypeOK
  <1>3. ASSUME NEW l \in Listeners, RecvBatch(l)
        PROVE  /\ stage' \in [Queries -> Stages]
               /\ stage[q] \in {"running", "done"} => stage'[q] = stage[q]
               /\ stage'[q] = "done" => stage[q] = "done"
    <2>1. PICK n \in 1..Len(sock[l]) :
             stage' = [p \in Queries |->
                          IF \E i \in 1..n : sock[l][i] = p THEN "batch" ELSE stage[p]]
      BY <1>3 DEF RecvBatch
    <2>2. \A i \in 1..n : stage[sock[l][i]] = "socket"
      <3>1. Len(sock[l]) \in Nat
        BY DEF AdmissionInv, AdmissionTypeOK
      <3>2. \A i \in 1..Len(sock[l]) : stage[sock[l][i]] = "socket"
        BY DEF AdmissionInv, InPlace, Queued
      <3> QED
        BY <2>1, <3>1, <3>2
    <2>3. stage \in [Queries -> Stages]
      BY DEF AdmissionInv, AdmissionTypeOK
    <2>4. stage' \in [Queries -> Stages]
      BY <2>1, <2>3
    <2>5. CASE \E i \in 1..n : sock[l][i] = q
      BY <2>1, <2>2, <2>4, <2>5
    <2>6. CASE ~\E i \in 1..n : sock[l][i] = q
      BY <2>1, <2>4, <2>6
    <2> QED
      BY <2>5, <2>6
  <1>4. CASE WorkerResume
    <2>1. waiter \in Queries /\ stage[waiter] = "waiter"
      BY <1>4 DEF WorkerResume, AdmissionInv, AdmissionTypeOK, InPlace, WaiterHeld, Handover
    <2> QED
      BY <1>4, <2>1 DEF WorkerResume, AdmissionInv, AdmissionTypeOK
  <1>5. CASE Listening
    <2>1. "plain" \in Listeners /\ "obfs" \in Listeners
      BY DEF Listeners
    <2> QED
      BY <1>1, <1>3, <1>5, <2>1
         DEF Listening, PlainSpawn, PlainBacklog, PlainOverflow, ObfsSpawn, ObfsDrop
  <1>6. CASE Working
    BY <1>2, <1>4, <1>6 DEF Working, WorkerStale, WorkerSpawn, WorkerWait
  <1> QED
    BY <1>5, <1>6

-----------------------------------------------------------------------------
(* The response cache.                                                      *)

CacheTyped == cache \in [Keys -> Entries \cup {NoEntry}]

\* Under each key the cache holds a packet about that key.
CacheAbout == \A k \in Keys : cache[k] # NoEntry => cache[k].packet.about = k

\* cache_store keeps the cache typed,
LEMMA StoreTyped ==
  ASSUME CacheTyped, NEW k \in Keys, NEW p \in Packets, NEW ttl \in Nat, Store(k, p, ttl)
  PROVE  CacheTyped'
  <1>1. EntryTtl(ttl) \in 0..TtlMax
    BY TtlAssumption DEF EntryTtl
  <1> DEFINE e == [packet |-> p, left |-> EntryTtl(ttl)]
  <1>2. e \in Entries
    BY <1>1 DEF Entries
  <1> HIDE DEF e
  <1>3. PICK v \in Victims(k) : cache' = [[cache EXCEPT ![v] = NoEntry] EXCEPT ![k] = e]
    BY DEF Store, e
  <1> QED
    BY <1>2, <1>3 DEF CacheTyped

\* and each packet under its own key.
LEMMA StoreKeeps ==
  ASSUME CacheTyped, CacheAbout, NEW k \in Keys, NEW p \in Packets, NEW ttl \in Nat,
         p.about = k, Store(k, p, ttl)
  PROVE  CacheTyped' /\ CacheAbout'
  <1> DEFINE e == [packet |-> p, left |-> EntryTtl(ttl)]
  <1>1. e.packet.about = k
    OBVIOUS
  <1> HIDE DEF e
  <1>2. PICK v \in Victims(k) : cache' = [[cache EXCEPT ![v] = NoEntry] EXCEPT ![k] = e]
    BY DEF Store, e
  <1>3. v \in Keys
    BY DEF Victims, Cached
  <1>4. CacheAbout'
    BY <1>1, <1>2, <1>3 DEF CacheTyped, CacheAbout
  <1> QED
    BY <1>4, StoreTyped

\* So does a lookup that removes an expired entry,
LEMMA MissKeeps ==
  ASSUME CacheTyped, CacheAbout, NEW k \in Keys, LookupMiss(k)
  PROVE  CacheTyped' /\ CacheAbout'
  BY DEF CacheTyped, CacheAbout, LookupMiss

\* the purge of a reload,
LEMMA PurgeKeeps ==
  ASSUME CacheTyped, CacheAbout, NEW names, Purge(names)
  PROVE  CacheTyped' /\ CacheAbout'
  BY DEF CacheTyped, CacheAbout, Purge

\* and the passing of time.
LEMMA ExpiringTyped == ASSUME CacheTyped, Expiring PROVE CacheTyped'
  <1>1. ASSUME NEW k \in Keys, cache[k] # NoEntry PROVE cache'[k] \in Entries
    <2>1. cache[k] \in Entries
      BY <1>1 DEF CacheTyped
    <2>2. cache'[k] = [packet |-> [cache[k].packet EXCEPT !.old = Older(@)],
                       left   |-> IF cache[k].left = 0 THEN 0 ELSE cache[k].left - 1]
      BY <1>1 DEF Expiring
    <2>3. Older(cache[k].packet.old) \in 0..OldMax + 1
      BY <2>1, TtlAssumption DEF Older, Entries, Packets
    <2>4. (IF cache[k].left = 0 THEN 0 ELSE cache[k].left - 1) \in 0..TtlMax
      BY <2>1, TtlAssumption DEF Entries
    <2>5. [cache[k].packet EXCEPT !.old = Older(@)] \in Packets
      BY <2>1, <2>3 DEF Entries, Packets
    <2> QED
      BY <2>2, <2>4, <2>5 DEF Entries
  <1>2. ASSUME NEW k \in Keys, cache[k] = NoEntry PROVE cache'[k] = NoEntry
    BY <1>2 DEF Expiring
  <1> QED
    BY <1>1, <1>2 DEF CacheTyped, Expiring

\* which changes no packet's question either.
LEMMA ExpiringKeeps ==
  ASSUME CacheTyped, CacheAbout, Expiring
  PROVE  CacheTyped' /\ CacheAbout'
  <1>1. ASSUME NEW k \in Keys, cache'[k] # NoEntry PROVE cache'[k].packet.about = k
    <2>1. cache[k] # NoEntry
      BY <1>1 DEF Expiring
    <2>2. cache[k].packet \in Packets /\ cache[k].packet.about = k
      BY <2>1 DEF CacheTyped, CacheAbout, Entries
    <2>3. cache'[k].packet = [cache[k].packet EXCEPT !.old = Older(@)]
      BY <2>1 DEF Expiring
    <2> QED
      BY <2>2, <2>3 DEF Packets
  <1> QED
    BY <1>1, ExpiringTyped DEF CacheAbout

-----------------------------------------------------------------------------
(* How old a packet that the cache gives out can be.                        *)

\* The age of a packet and the time it has left add up to at most b ticks for the
\* resolution and the longest lifetime.
CacheFresh(b) ==
    \A k \in Keys : Hit(k) => cache[k].packet.old + cache[k].left <= b + TtlMax

\* cache_store starts an entry with a lifetime within the limits, whatever it replaces.
LEMMA StoreFresh ==
  ASSUME CacheTyped, NEW b \in Nat, CacheFresh(b), NEW k \in Keys, NEW p \in Packets,
         NEW ttl \in Nat, p.old <= b, Store(k, p, ttl)
  PROVE  CacheFresh(b)'
  <1>1. EntryTtl(ttl) \in 0..TtlMax
    BY TtlAssumption DEF EntryTtl
  <1> DEFINE e == [packet |-> p, left |-> EntryTtl(ttl)]
  <1>2. e.packet.old + e.left <= b + TtlMax
    BY <1>1, TtlAssumption DEF Packets
  <1> HIDE DEF e
  <1>3. PICK v \in Victims(k) : cache' = [[cache EXCEPT ![v] = NoEntry] EXCEPT ![k] = e]
    BY DEF Store, e
  <1>4. v \in Keys
    BY DEF Victims, Cached
  <1>5. ASSUME NEW j \in Keys, Hit(j)' PROVE cache'[j].packet.old + cache'[j].left <= b + TtlMax
    <2>1. CASE j = k
      BY <1>2, <1>3, <1>4, <2>1 DEF CacheTyped
    <2>2. CASE j # k
      <3>1. cache'[j] = cache[j]
        BY <1>3, <1>4, <1>5, <2>2 DEF CacheTyped, Hit
      <3> QED
        BY <1>5, <3>1 DEF Hit, CacheFresh
    <2> QED
      BY <2>1, <2>2
  <1> QED
    BY <1>5 DEF CacheFresh

\* Lookups and purges only remove.
LEMMA RemovalFresh ==
  ASSUME CacheTyped, NEW b, CacheFresh(b),
         (\E k \in Keys : LookupMiss(k)) \/ (\E names : Purge(names)) \/ UNCHANGED cache
  PROVE  CacheFresh(b)'
  <1>1. \A k \in Keys : cache'[k] \in {NoEntry, cache[k]}
    BY DEF LookupMiss, Purge, CacheTyped
  <1> QED
    BY <1>1 DEF CacheFresh, Hit

\* What a packet gains in age it loses in lifetime.
LEMMA ExpiringFresh ==
  ASSUME CacheTyped, NEW b \in Nat, CacheFresh(b), Expiring
  PROVE  CacheFresh(b)'
  <1> SUFFICES ASSUME NEW k \in Keys, Hit(k)'
               PROVE  cache'[k].packet.old + cache'[k].left <= b + TtlMax
    BY DEF CacheFresh
  <1>1. cache[k] # NoEntry
    BY DEF Hit, Expiring
  <1>2. /\ cache[k] \in Entries
        /\ cache'[k] = [packet |-> [cache[k].packet EXCEPT !.old = Older(@)],
                        left   |-> IF cache[k].left = 0 THEN 0 ELSE cache[k].left - 1]
    BY <1>1 DEF CacheTyped, Expiring
  <1> DEFINE old == cache[k].packet.old  left == cache[k].left
  <1>3. /\ old \in 0..OldMax + 1 /\ left \in 0..TtlMax
        /\ cache'[k].packet.old = Older(old)
        /\ cache'[k].left = IF left = 0 THEN 0 ELSE left - 1
    BY <1>2 DEF Entries, Packets
  <1>4. cache'[k].left > 0
    BY DEF Hit
  <1>5. left > 0
    BY <1>3, <1>4, TtlAssumption
  <1>6. old + left <= b + TtlMax
    BY <1>1, <1>5 DEF CacheFresh, Hit
  <1> HIDE DEF old, left
  <1>7. Older(old) \in Nat /\ Older(old) <= old + 1
    BY <1>3, TtlAssumption DEF Older
  <1> QED
    BY <1>3, <1>5, <1>6, <1>7, TtlAssumption

-----------------------------------------------------------------------------
(* How much the cache holds, and who may use it.                            *)

\* The cache keeps to its capacity: a full one gives up one entry for each new key, also
\* when tasks that all missed store one after the other (LruCache::put).
CacheBounded == Cardinality(Cached) <= CacheCap

\* The keys that have an entry are finitely many.
LEMMA CachedFinite == IsFiniteSet(Cached) /\ Cardinality(Cached) \in Nat
  <1>1. IsFiniteSet(Keys)
    BY KeysAssumption, FS_Product DEF Keys
  <1>2. Cached \in SUBSET Keys
    BY DEF Cached
  <1>3. IsFiniteSet(Cached)
    BY <1>1, <1>2, FS_Subset
  <1> QED
    BY <1>3, FS_CardinalityType

\* cache_store takes the place of an entry in a full cache, and of no more than one.
LEMMA StoreBounded ==
  ASSUME CacheTyped, CacheBounded, NEW k \in Keys, NEW p \in Packets, NEW ttl \in Nat,
         Store(k, p, ttl)
  PROVE  CacheBounded'
  <1>1. EntryTtl(ttl) \in 0..TtlMax
    BY TtlAssumption DEF EntryTtl
  <1> DEFINE e == [packet |-> p, left |-> EntryTtl(ttl)]
  <1>2. e \in Entries /\ e # NoEntry
    <2>1. e \in Entries
      BY <1>1 DEF Entries
    <2> QED
      BY <2>1, NoEntryAssumption
  <1> HIDE DEF e
  <1>3. PICK v \in Victims(k) : cache' = [[cache EXCEPT ![v] = NoEntry] EXCEPT ![k] = e]
    BY DEF Store, e
  <1>4. v \in Keys
    BY DEF Victims, Cached
  <1>5. Cached' = (Cached \ {v}) \cup {k}
    BY <1>2, <1>3, <1>4 DEF CacheTyped, Cached
  <1>6. IsFiniteSet(Cached) /\ Cardinality(Cached) \in Nat /\ CacheCap \in Nat
    BY CachedFinite, CacheCapAssumption
  <1> DEFINE C == Cached  n == Cardinality(Cached)  R == C \ {v}
  <1>7. IsFiniteSet(R) /\ Cardinality(R) = IF v \in C THEN n - 1 ELSE n
    BY <1>6, FS_RemoveElement
  <1>8. Cardinality(R \cup {k}) = IF k \in R THEN Cardinality(R) ELSE Cardinality(R) + 1
    BY <1>7, FS_AddElement
  <1>9. \/ v = k /\ (k \in C \/ n < CacheCap)
        \/ v \in C
    BY DEF Victims, Cached
  <1>10. n <= CacheCap
    BY DEF CacheBounded
  <1>11. Cardinality(R \cup {k}) <= CacheCap
    <2> HIDE DEF C, n, R
    <2>1. CASE v \in C
      BY <1>6, <1>7, <1>8, <1>10, <2>1 DEF n
    <2>2. CASE v \notin C
      BY <1>6, <1>7, <1>8, <1>9, <2>2 DEF n
    <2> QED
      BY <2>1, <2>2
  <1> QED
    BY <1>5, <1>11 DEF CacheBounded

\* No other step adds an entry.
LEMMA RestBounded ==
  ASSUME CacheTyped, CacheBounded,
         (\E k \in Keys : LookupMiss(k)) \/ (\E names : Purge(names)) \/ Expiring
            \/ UNCHANGED cache
  PROVE  CacheBounded'
  <1>1. \A k \in Keys : cache[k] = NoEntry => cache'[k] = NoEntry
    BY DEF LookupMiss, Purge, Expiring, CacheTyped
  <1>2. Cached' \in SUBSET Cached
    BY <1>1 DEF Cached
  <1>3. Cardinality(Cached') <= Cardinality(Cached)
    BY <1>2, CachedFinite, FS_Subset
  <1>4. IsFiniteSet(Cached') /\ Cardinality(Cached') \in Nat
    <2>1. IsFiniteSet(Cached')
      BY <1>2, CachedFinite, FS_Subset
    <2> QED
      BY <2>1, FS_CardinalityType
  <1> QED
    BY <1>3, <1>4, CachedFinite, CacheCapAssumption DEF CacheBounded

\* Whoever uses the cache by its operations alone, it keeps its types and its capacity.
THEOREM CacheIsBounded == CacheSpec => [](CacheTyped /\ CacheBounded)
  <1>1. CacheInit => CacheTyped /\ CacheBounded
    <2> SUFFICES ASSUME CacheInit PROVE CacheTyped /\ CacheBounded
      OBVIOUS
    <2>1. CacheTyped /\ Cached = {}
      BY DEF CacheInit, CacheTyped, Cached
    <2>2. Cardinality(Cached) = 0
      BY <2>1, FS_EmptySet
    <2> QED
      BY <2>1, <2>2, CacheCapAssumption DEF CacheBounded
  <1>2. CacheTyped /\ CacheBounded /\ [CacheNext]_cache => (CacheTyped /\ CacheBounded)'
    <2> SUFFICES ASSUME CacheTyped, CacheBounded, [CacheNext]_cache
                 PROVE  CacheTyped' /\ CacheBounded'
      OBVIOUS
    <2>1. ASSUME NEW k \in Keys, LookupMiss(k) PROVE CacheTyped' /\ CacheBounded'
      BY <2>1, RestBounded DEF LookupMiss, CacheTyped
    <2>2. ASSUME NEW k \in Keys, NEW p \in Packets, NEW ttl \in 0..TtlMax, Store(k, p, ttl)
          PROVE  CacheTyped' /\ CacheBounded'
      <3>1. ttl \in Nat
        OBVIOUS
      <3> QED
        BY <2>2, <3>1, StoreTyped, StoreBounded
    <2>3. ASSUME NEW names \in SUBSET Names, Purge(names) PROVE CacheTyped' /\ CacheBounded'
      BY <2>3, RestBounded DEF Purge, CacheTyped
    <2>4. CASE Expiring
      BY <2>4, RestBounded, ExpiringTyped
    <2>5. CASE UNCHANGED cache
      BY <2>5, RestBounded DEF CacheTyped
    <2> QED
      BY <2>1, <2>2, <2>3, <2>4, <2>5 DEF CacheNext
  <1> QED
    BY <1>1, <1>2, PTL DEF CacheSpec

\* A lifetime above the longest is stored as the longest: cache_store does nothing that
\* CacheNext does not.
LEMMA StoreIsNext ==
  ASSUME NEW k \in Keys, NEW p \in Packets, NEW ttl \in Nat, Store(k, p, ttl)
  PROVE  CacheNext
  <1> DEFINE t == IF ttl > TtlMax THEN TtlMax ELSE ttl
  <1>1. t \in 0..TtlMax /\ EntryTtl(t) = EntryTtl(ttl)
    BY TtlAssumption DEF EntryTtl
  <1> HIDE DEF t
  <1>2. Store(k, p, t)
    BY <1>1 DEF Store
  <1> QED
    BY <1>1, <1>2 DEF CacheNext

=============================================================================
