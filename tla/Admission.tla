------------------------------ MODULE Admission ------------------------------
(***************************************************************************)
(* How dns_relay takes datagrams in: the two UDP listeners and their       *)
(* batches, the resolve semaphore both share, the bounded backlog and the  *)
(* worker that drains it (dns_relay/src/main.rs).  What a spawned task     *)
(* does with its query is the business of RelayServer; here a task is      *)
(* "running" until it finishes and its permit is dropped with it.          *)
(*                                                                         *)
(* Time is counted in abstract ticks.  A query's age is the number of      *)
(* ticks since it entered the backlog; it saturates one above MaxAge (all  *)
(* larger ages are alike) and freezes when the query is dispatched.        *)
(***************************************************************************)
EXTENDS Naturals, Sequences, FiniteSets

CONSTANTS
    Queries,        \* the datagrams clients send
    NoQuery,        \* "the backlog worker holds nothing"
    Permits,        \* RESOLVE_SEMAPHORE
    BacklogCap,     \* BACKLOG_CAPACITY
    MaxAge,         \* MAX_BACKLOG_AGE_MS, in ticks
    RecvBatchMax,   \* RECV_BATCH_MAX
    ObfsBatchMax    \* OBFS_RECV_BATCH_MAX

ASSUME QueriesAssumption == IsFiniteSet(Queries) /\ NoQuery \notin Queries
ASSUME PermitsAssumption == Permits \in Nat \ {0}
ASSUME BacklogAssumption == BacklogCap \in Nat \ {0} /\ MaxAge \in Nat
ASSUME BatchAssumption   == RecvBatchMax \in Nat \ {0} /\ ObfsBatchMax \in Nat \ {0}

VARIABLES
    stage,      \* where each query is
    sock,       \* what each listener's socket has buffered, in order
    batch,      \* the rest of the batch each listener is working through
    backlog,    \* the mpsc channel between the plain listener and the worker
    age,        \* ticks each query has spent in the backlog and with the worker
    permits,    \* permits the semaphore has available
    waiter,     \* the query for which the worker awaits a permit, or NoQuery
    granted,    \* whether a released permit was handed to that waiting worker
    total_req   \* the metric of the same name

admissionVars ==
    <<stage, sock, batch, backlog, age, permits, waiter, granted, total_req>>

Listeners == {"plain", "obfs"}
Stages == {"new", "socket", "batch", "backlog", "waiter", "running", "done", "dropped"}

BatchMax(l) == IF l = "plain" THEN RecvBatchMax ELSE ObfsBatchMax

Running == {q \in Queries : stage[q] = "running"}

AdmissionInit ==
    /\ stage = [q \in Queries |-> "new"]
    /\ sock = [l \in Listeners |-> <<>>]
    /\ batch = [l \in Listeners |-> <<>>]
    /\ backlog = <<>>
    /\ age = [q \in Queries |-> 0]
    /\ permits = Permits
    /\ waiter = NoQuery
    /\ granted = FALSE
    /\ total_req = 0

-----------------------------------------------------------------------------
(* The semaphore.  tokio's Semaphore is fair: a permit dropped while a task *)
(* awaits one goes to that task and never shows as available.              *)

\* Bug: the permit is not handed over to the worker that waits.
ReleaseToPool == permits' = permits + 1 /\ UNCHANGED granted

ReleasePermit ==
    IF waiter # NoQuery /\ ~granted
    THEN granted' = TRUE /\ UNCHANGED permits
    ELSE permits' = permits + 1 /\ UNCHANGED granted

-----------------------------------------------------------------------------
(* The listeners.  A client's datagram reaches a socket; the listener takes *)
(* what is buffered, up to its batch limit (an error while draining ends    *)
(* the batch early), counts it, and then dispatches it item by item.        *)

Arrive(q, l) ==
    /\ stage[q] = "new"
    /\ stage' = [stage EXCEPT ![q] = "socket"]
    /\ sock' = [sock EXCEPT ![l] = Append(@, q)]
    /\ UNCHANGED <<batch, backlog, age, permits, waiter, granted, total_req>>

RecvBatch(l) ==
    /\ batch[l] = <<>>
    /\ \E n \in 1..Len(sock[l]) :
          /\ n <= BatchMax(l)
          /\ batch' = [batch EXCEPT ![l] = SubSeq(sock[l], 1, n)]
          /\ sock' = [sock EXCEPT ![l] = SubSeq(sock[l], n + 1, Len(sock[l]))]
          /\ stage' = [q \in Queries |->
                          IF \E i \in 1..n : sock[l][i] = q THEN "batch" ELSE stage[q]]
          /\ total_req' = total_req + n
    /\ UNCHANGED <<backlog, age, permits, waiter, granted>>

\* The head of listener l's batch leaves it for stage s.
TakeFromBatch(l, s) ==
    /\ batch[l] # <<>>
    /\ batch' = [batch EXCEPT ![l] = Tail(@)]
    /\ stage' = [stage EXCEPT ![Head(batch[l])] = s]
    /\ UNCHANGED <<sock, waiter, granted, total_req>>

\* Bug: the permit is dropped where it was taken, not moved into the task.
PlainSpawnUnheld ==
    /\ TakeFromBatch("plain", "running")
    /\ permits > 0
    /\ UNCHANGED <<backlog, age, permits>>

PlainSpawn ==
    /\ TakeFromBatch("plain", "running")
    /\ permits > 0
    /\ permits' = permits - 1
    /\ UNCHANGED <<backlog, age>>

\* Bug: one entry too many.
PlainBacklogOver ==
    /\ TakeFromBatch("plain", "backlog")
    /\ permits = 0
    /\ Len(backlog) <= BacklogCap
    /\ backlog' = Append(backlog, Head(batch["plain"]))
    /\ UNCHANGED <<age, permits>>

\* Bug: no `continue` after try_send, so the query is spawned as well.
PlainBacklogAndSpawn ==
    /\ TakeFromBatch("plain", "running")
    /\ permits = 0
    /\ Len(backlog) < BacklogCap
    /\ backlog' = Append(backlog, Head(batch["plain"]))
    /\ UNCHANGED <<age, permits>>

PlainBacklog ==
    /\ TakeFromBatch("plain", "backlog")
    /\ permits = 0
    /\ Len(backlog) < BacklogCap
    /\ backlog' = Append(backlog, Head(batch["plain"]))
    /\ UNCHANGED <<age, permits>>

PlainOverflow ==
    /\ TakeFromBatch("plain", "dropped")
    /\ permits = 0
    /\ Len(backlog) >= BacklogCap
    /\ UNCHANGED <<backlog, age, permits>>

ObfsSpawn ==
    /\ TakeFromBatch("obfs", "running")
    /\ permits > 0
    /\ permits' = permits - 1
    /\ UNCHANGED <<backlog, age>>

\* No key decodes the datagram, or it decodes and no permit is free: the
\* obfs listener has no backlog.
ObfsDrop ==
    /\ TakeFromBatch("obfs", "dropped")
    /\ UNCHANGED <<backlog, age, permits>>

-----------------------------------------------------------------------------
(* The backlog worker.  It looks at an entry's age when it receives the     *)
(* entry, and only then asks for a permit.                                  *)

TakeFromBacklog(s) ==
    /\ waiter = NoQuery
    /\ backlog # <<>>
    /\ backlog' = Tail(backlog)
    /\ stage' = [stage EXCEPT ![Head(backlog)] = s]
    /\ UNCHANGED <<sock, batch, age, granted, total_req>>

WorkerStale ==
    /\ TakeFromBacklog("dropped")
    /\ age[Head(backlog)] > MaxAge
    /\ UNCHANGED <<permits, waiter>>

WorkerSpawn ==
    /\ TakeFromBacklog("running")
    /\ age[Head(backlog)] <= MaxAge
    /\ permits > 0
    /\ permits' = permits - 1
    /\ UNCHANGED waiter

WorkerWait ==
    /\ TakeFromBacklog("waiter")
    /\ age[Head(backlog)] <= MaxAge
    /\ permits = 0
    /\ waiter' = Head(backlog)
    /\ UNCHANGED permits

WorkerResume ==
    /\ granted
    /\ stage' = [stage EXCEPT ![waiter] = "running"]
    /\ waiter' = NoQuery
    /\ granted' = FALSE
    /\ UNCHANGED <<sock, batch, backlog, age, permits, total_req>>

-----------------------------------------------------------------------------
(* The spawned task ends: its permit is dropped with it.                    *)

Finish(q) ==
    /\ stage[q] = "running"
    /\ stage' = [stage EXCEPT ![q] = "done"]
    /\ ReleasePermit
    /\ UNCHANGED <<sock, batch, backlog, age, waiter, total_req>>

Aging ==
    /\ age' = [q \in Queries |->
                  IF stage[q] \in {"backlog", "waiter"} /\ age[q] <= MaxAge
                  THEN age[q] + 1 ELSE age[q]]
    /\ UNCHANGED <<stage, sock, batch, backlog, permits, waiter, granted, total_req>>

-----------------------------------------------------------------------------
Listening ==
    \/ PlainSpawn \/ PlainBacklog \/ PlainOverflow
    \/ ObfsSpawn \/ ObfsDrop
    \/ \E l \in Listeners : RecvBatch(l)

Working == WorkerStale \/ WorkerSpawn \/ WorkerWait \/ WorkerResume

AdmissionNext ==
    \/ \E q \in Queries, l \in Listeners : Arrive(q, l)
    \/ Listening
    \/ Working
    \/ \E q \in Queries : Finish(q)
    \/ Aging

AdmissionSpec == AdmissionInit /\ [][AdmissionNext]_admissionVars

-----------------------------------------------------------------------------
(* Properties.                                                              *)

\* The types of the admission state.
AdmissionTypeOK ==
    /\ stage \in [Queries -> Stages]
    /\ sock \in [Listeners -> Seq(Queries)]
    /\ batch \in [Listeners -> Seq(Queries)]
    /\ backlog \in Seq(Queries)
    /\ age \in [Queries -> 0..MaxAge + 1]
    /\ permits \in 0..Permits
    /\ waiter \in Queries \cup {NoQuery}
    /\ granted \in BOOLEAN
    /\ total_req \in Nat

\* No permit is lost or made up: the available ones, the one on its way to the
\* waiting worker and those of the running tasks are the semaphore's permits.
PermitsConserved ==
    permits + (IF granted THEN 1 ELSE 0) + Cardinality(Running) = Permits

\* The backlog channel holds at most BACKLOG_CAPACITY queries; beyond that the
\* listener drops, it never waits.
BacklogBounded == Len(backlog) <= BacklogCap

\* However fast queries come in, the server holds at most as many beyond its
\* sockets and batches as it has permits and backlog entries, plus the one the
\* worker holds.
InFlightBounded ==
    Cardinality(Running) + Len(backlog) + (IF waiter = NoQuery THEN 0 ELSE 1)
        <= Permits + BacklogCap + 1

\* The worker never waits for a permit nobody will give it: while it waits
\* ungranted no permit is available for a listener to take past it, and some
\* task is running whose permit will come to it.
NoLostWakeup ==
    waiter # NoQuery /\ ~granted => permits = 0 /\ Running # {}

\* A query is in one place only, the place its stage says, so that it is never
\* dispatched twice (by a listener and by the worker) nor forgotten.
Places ==
    \A q \in Queries :
        /\ stage[q] = "waiter" <=> q = waiter
        /\ stage[q] = "backlog" <=> \E i \in 1..Len(backlog) : backlog[i] = q
        /\ stage[q] = "batch" <=>
              \E l \in Listeners : \E i \in 1..Len(batch[l]) : batch[l][i] = q
        /\ stage[q] = "socket" <=>
              \E l \in Listeners : \E i \in 1..Len(sock[l]) : sock[l][i] = q

=============================================================================
