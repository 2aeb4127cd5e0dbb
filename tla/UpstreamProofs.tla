--------------------------- MODULE UpstreamProofs ---------------------------
(***************************************************************************)
(* For any tasks, resolvers, relays and hops: whose answer a task gets,    *)
(* what the worker merges and the script caches, which QUIC connection a   *)
(* query is given; and for any packets, what set_ecs_option makes of them. *)
(*                                                                         *)
(* A run uses a relay or resolvers, so that the variables of the other way *)
(* never move; each way has an invariant of its own.                       *)
(***************************************************************************)
EXTENDS Upstream, FiniteSetTheorems, WellFoundedInduction, TLAPS

Messages == [about : Names \X Types, id : Tasks \cup {Zero}, ips : SUBSET Addresses]

\* A task's question, phase and reply.
ResolutionTyped(phases) ==
    /\ ask \in [Tasks -> Names \X Types]
    /\ at \in [Tasks -> phases]
    /\ reply \in [Tasks -> Messages \cup {NoReply}]

-----------------------------------------------------------------------------
(* The invariant of the relay chain.                                        *)

RelayPhases == {"start", "relay", "answered", "failed"}
Hops == {"none", "script", "worker", "script_put", "reply"}
Jobs == [round : Nat, ips : SUBSET Addresses, some : BOOLEAN]
Tags == Keys \X Names
SealedMessages == [key : Keys, message : Messages]

RelayTyped ==
    /\ ResolutionTyped(RelayPhases)
    /\ via \in [Tasks -> 0..Len(Relays)]
    /\ hop \in [Tasks -> Hops]
    /\ job \in [Tasks -> Jobs]
    /\ sealed \in [Tasks -> SealedMessages \cup {NoSeal}]
    /\ script \in [Scripts -> [Tags -> SealedMessages \cup {NoSeal}]]
    /\ last_idx \in Nat

\* The addresses of a message are those of that name.
OfName(message, name) ==
    message.about[1] = name /\ message.ips \subseteq AddressesFrom(Endpoints, name)

\* A message that may come to t: about t's name, and unless a script is on the way,
\* about t's question.
Suits(t, message) == OfName(message, Name(t)) /\ (Chained(t) \/ message.about = ask[t])

\* A task that has not begun has nothing with the hops.
Unsent(t) == via[t] = 0 /\ hop[t] = "none" /\ sealed[t] = NoSeal /\ job[t] = NoJob

\* Whatever the hops hold for t is about what t asked for, under t's key.
RelayTask(t) ==
    /\ at[t] = "start" => Unsent(t)
    /\ at[t] # "start" => via[t] \in 1..Len(Relays)
    /\ hop[t] \in {"script", "script_put"} => Chained(t)
    /\ hop[t] = "reply" => sealed[t] # NoSeal
    /\ job[t].ips \subseteq AddressesFrom(Endpoints, Name(t))
    /\ sealed[t] # NoSeal => sealed[t].key = Instance(t).key /\ Suits(t, sealed[t].message)
    /\ at[t] = "answered" => reply[t] \in Messages /\ reply[t].id = t /\ Suits(t, reply[t])

ScriptOwn ==
    \A s \in Scripts, tag \in Tags :
        script[s][tag] # NoSeal =>
            script[s][tag].key = tag[1] /\ OfName(script[s][tag].message, tag[2])

RelayInv == RelayTyped /\ ScriptOwn /\ \A t \in Tasks : RelayTask(t)

-----------------------------------------------------------------------------
(* Facts about the chain's operators.                                       *)

\* What some of the endpoints say is part of what all of them say, and an address.
LEMMA FromEndpoints ==
    ASSUME NEW settled \in Settled, NEW name \in Names
    PROVE  /\ AddressesFrom(settled, name) \subseteq AddressesFrom(Endpoints, name)
           /\ AddressesFrom(settled, name) \subseteq Addresses
  BY RelaysAssumption DEF Settled, AddressesFrom

\* The picker always finds an instance.
LEMMA PickInRange == ASSUME last_idx \in Nat PROVE pick \in 1..Len(Relays)
  BY RelaysAssumption DEF pick

\* An instance has a key and, if it is a script's, its URL is one of a script.
LEMMA InstanceFacts ==
    ASSUME NEW t \in Tasks, via[t] \in 1..Len(Relays)
    PROVE  Instance(t).key \in Keys /\ (Chained(t) => Instance(t).url \in Scripts)
  BY RelaysAssumption DEF Instance, Keys, Scripts, Chained

\* A step of one task leaves what the hops hold for another alone.
LEMMA OtherTask ==
    ASSUME NEW u \in Tasks, RelayTask(u),
           at'[u] = at[u], ask'[u] = ask[u], reply'[u] = reply[u], via'[u] = via[u],
           hop'[u] = hop[u], job'[u] = job[u], sealed'[u] = sealed[u]
    PROVE  RelayTask(u)'
  BY DEF RelayTask, Unsent, Suits, OfName, Chained, Instance, Name

-----------------------------------------------------------------------------
(* The relay chain keeps its invariant.                                     *)

\* Nothing that a task has is touched, but t's.
OnlyTask(t) ==
    \A u \in Tasks \ {t} :
        /\ at'[u] = at[u] /\ ask'[u] = ask[u] /\ reply'[u] = reply[u]
        /\ via'[u] = via[u] /\ hop'[u] = hop[u]
        /\ job'[u] = job[u] /\ sealed'[u] = sealed[u]

\* A step of t has to be looked at for t alone.
LEMMA StepOfTask ==
    ASSUME RelayInv, NEW t \in Tasks, OnlyTask(t), RelayTyped', ScriptOwn', RelayTask(t)'
    PROVE  RelayInv'
  <1>1. ASSUME NEW u \in Tasks \ {t} PROVE RelayTask(u)'
    BY OtherTask, Zenon DEF RelayInv, OnlyTask
  <1> QED BY <1>1, Zenon DEF RelayInv

\* Without a step of any task.
LEMMA StepOfNone ==
    ASSUME RelayInv, UNCHANGED <<resolutionVars, via, hop, job, sealed>>,
           RelayTyped', ScriptOwn'
    PROVE  RelayInv'
  <1>1. ASSUME NEW u \in Tasks PROVE RelayTask(u)'
    BY OtherTask, Zenon DEF RelayInv, resolutionVars
  <1> QED BY <1>1, Zenon DEF RelayInv

\* The chain before the first query.
LEMMA RelayStarts == ASSUME ResolutionInit, RelayInit PROVE RelayInv
  <1>1. (CHOOSE q \in Asked : TRUE) \in Names \X Types
    BY AskedAssumption
  <1>2. RelayTyped
    <2>1. 0 \in 0..Len(Relays) /\ 0 \in Nat /\ NoJob \in Jobs
      BY RelaysAssumption DEF NoJob, Jobs
    <2> QED BY <1>1, <2>1, Zenon
            DEF ResolutionInit, RelayInit, RelayTyped, ResolutionTyped, RelayPhases, Hops, Tags
  <1>3. ScriptOwn
    BY DEF RelayInit, ScriptOwn, Tags
  <1>4. ASSUME NEW t \in Tasks PROVE RelayTask(t)
    BY DEF ResolutionInit, RelayInit, RelayTask, Unsent, NoJob
  <1> QED BY <1>2, <1>3, <1>4 DEF RelayInv

\* A query that is posted is with the hop its instance stands for.
LEMMA RelayPostInv == ASSUME RelayInv, NEW t \in Tasks, RelayPost(t) PROVE RelayInv'
  <1> USE DEF RelayInv, RelayPost, Begin, Goto
  <1>1. PICK q \in Asked : ask' = [ask EXCEPT ![t] = q]
    OBVIOUS
  <1>2. q \in Names \X Types
    BY AskedAssumption
  <1>3. pick \in 1..Len(Relays)
    BY PickInRange DEF RelayTyped
  <1>4. RelayTyped'
    BY <1>1, <1>2, <1>3, RelaysAssumption
    DEF RelayTyped, ResolutionTyped, RelayPhases, Hops
  <1>5. ScriptOwn'
    BY DEF ScriptOwn, OfName
  <1>6. RelayTask(t)'
    <2>1. sealed'[t] = NoSeal /\ job'[t] = NoJob /\ via'[t] = pick /\ at'[t] = "relay"
      BY DEF RelayTyped, ResolutionTyped, RelayTask, Unsent
    <2>2. hop'[t] = IF Relays[pick].transport = "direct" THEN "worker" ELSE "script"
      BY <2>1 DEF RelayTyped
    <2> QED BY <1>3, <2>1, <2>2, RelaysAssumption DEF RelayTask, Chained, Instance, NoJob
  <1>7. OnlyTask(t)
    BY <1>1 DEF OnlyTask, RelayTyped, ResolutionTyped
  <1> QED BY <1>4, <1>5, <1>6, <1>7, StepOfTask

\* The client hangs up, with a reply that suits it or without one.
LEMMA HangUpInv ==
    ASSUME RelayInv, NEW t \in Tasks, at[t] = "relay", HangUp(t), UNCHANGED ask,
           NEW phase \in {"answered", "failed"}, Goto(t, phase),
           NEW message \in Messages \cup {NoReply}, reply' = [reply EXCEPT ![t] = message],
           phase = "answered" => message \in Messages /\ message.id = t /\ Suits(t, message)
    PROVE  RelayInv'
  <1> USE DEF RelayInv, HangUp, Goto
  <1>1. RelayTyped'
    BY DEF RelayTyped, ResolutionTyped, RelayPhases, Hops
  <1>2. ScriptOwn'
    BY DEF ScriptOwn, OfName
  <1>3. RelayTask(t)'
    <2>1. /\ at'[t] = phase /\ reply'[t] = message
          /\ hop'[t] = hop[t] \/ hop'[t] = "none"
          /\ hop'[t] # "reply"
          /\ sealed'[t] = sealed[t] \/ sealed'[t] = NoSeal
      BY DEF RelayTyped, ResolutionTyped
    <2> QED BY <2>1 DEF RelayTask, Chained, Instance, Suits, OfName, Name
  <1>4. OnlyTask(t)
    BY DEF OnlyTask, RelayTyped, ResolutionTyped
  <1> QED BY <1>1, <1>2, <1>3, <1>4, StepOfTask

\* The task gets what the relay returned, if it can open it.
LEMMA RelayReceiveInv == ASSUME RelayInv, NEW t \in Tasks, RelayReceive(t) PROVE RelayInv'
  <1>1. CASE Opens(sealed[t], Instance(t).key)
    <2> DEFINE m == with_txid(sealed[t].message, t)
    <2>1. sealed[t] \in SealedMessages
      BY DEF RelayReceive, RelayInv, RelayTask, RelayTyped
    <2>2. m \in Messages /\ m.id = t /\ m.about = sealed[t].message.about
                /\ m.ips = sealed[t].message.ips
      BY <2>1 DEF SealedMessages, Messages, with_txid
    <2>3. Suits(t, m)
      BY <2>2 DEF RelayReceive, RelayInv, RelayTask, Suits, OfName
    <2>4. reply' = [reply EXCEPT ![t] = m] /\ Goto(t, "answered") /\ UNCHANGED ask
      BY <1>1 DEF RelayReceive, Answered
    <2> HIDE DEF m
    <2> QED BY <2>2, <2>3, <2>4, HangUpInv DEF RelayReceive
  <1>2. CASE ~Opens(sealed[t], Instance(t).key)
    <2>1. reply' = [reply EXCEPT ![t] = reply[t]] /\ Goto(t, "failed") /\ UNCHANGED ask
      BY <1>2 DEF RelayReceive, Fail, RelayInv, RelayTyped, ResolutionTyped
    <2>2. reply[t] \in Messages \cup {NoReply}
      BY DEF RelayInv, RelayTyped, ResolutionTyped
    <2> QED BY <2>1, <2>2, HangUpInv DEF RelayReceive
  <1> QED BY <1>1, <1>2

\* The request fails on the way; the task ends without a reply.
LEMMA RelayFailsInv == ASSUME RelayInv, NEW t \in Tasks, RelayFails(t) PROVE RelayInv'
  <1>1. reply' = [reply EXCEPT ![t] = reply[t]] /\ Goto(t, "failed") /\ UNCHANGED ask
    BY DEF RelayFails, Fail, RelayInv, RelayTyped, ResolutionTyped
  <1>2. reply[t] \in Messages \cup {NoReply}
    BY DEF RelayInv, RelayTyped, ResolutionTyped
  <1> QED BY <1>1, <1>2, HangUpInv DEF RelayFails

\* A hop sends the client something that suits it, or an error.
LEMMA ToClientInv ==
    ASSUME RelayInv, NEW t \in Tasks, hop[t] # "none", UNCHANGED <<resolutionVars, last_idx, via>>,
           NEW answer \in SealedMessages \cup {NoSeal}, ToClient(t, answer),
           answer # NoSeal => answer.key = Instance(t).key /\ Suits(t, answer.message),
           NEW work \in {job[t], NoJob}, job' = [job EXCEPT ![t] = work],
           script' \in [Scripts -> [Tags -> SealedMessages \cup {NoSeal}]], ScriptOwn'
    PROVE  RelayInv'
  <1> USE DEF RelayInv, ToClient, resolutionVars
  <1>1. work \in Jobs /\ work.ips \subseteq AddressesFrom(Endpoints, Name(t))
    <2>1. CASE work = job[t]
      BY <2>1 DEF RelayTyped, RelayTask
    <2>2. CASE work = NoJob
      BY <2>2 DEF NoJob, Jobs
    <2> QED BY <2>1, <2>2
  <1>2. RelayTyped'
    BY <1>1 DEF RelayTyped, ResolutionTyped, Hops
  <1>3. RelayTask(t)'
    <2>1. hop'[t] \in {"none", "reply"} /\ (hop'[t] = "reply" => sealed'[t] # NoSeal)
          /\ sealed'[t] \in {answer, NoSeal} /\ job'[t] = work
      BY DEF RelayTyped
    <2>2. at[t] # "start"
      BY DEF RelayTask, Unsent
    <2> QED BY <1>1, <2>1, <2>2 DEF RelayTask, Chained, Instance, Suits, OfName, Name
  <1>4. OnlyTask(t)
    BY DEF OnlyTask, RelayTyped
  <1> QED BY <1>2, <1>3, <1>4, StepOfTask

\* The job and the scripts as they are, as ToClientInv takes them.
LEMMA Untouched ==
    ASSUME RelayInv, NEW t \in Tasks
    PROVE  /\ job' = job => job' = [job EXCEPT ![t] = job[t]]
           /\ script' = script =>
                script' \in [Scripts -> [Tags -> SealedMessages \cup {NoSeal}]] /\ ScriptOwn'
  BY DEF RelayInv, RelayTyped, ScriptOwn, OfName

\* With the script means through an instance whose URL is a script's.
LEMMA AtScript ==
    ASSUME RelayInv, NEW t \in Tasks, hop[t] \in {"script", "script_put"}
    PROVE  /\ Chained(t) /\ Instance(t).url \in Scripts /\ cache_key_for_domain(t) \in Tags
           /\ cache_key_for_domain(t)[1] = Instance(t).key
           /\ cache_key_for_domain(t)[2] = Name(t)
  <1>1. via[t] \in 1..Len(Relays) /\ Chained(t)
    BY DEF RelayInv, RelayTask, Unsent
  <1>2. ask[t] \in Names \X Types
    BY DEF RelayInv, RelayTyped, ResolutionTyped
  <1> QED BY <1>1, <1>2, InstanceFacts DEF cache_key_for_domain, Tags, Name

\* The script answers from its cache.
LEMMA ScriptHitInv == ASSUME RelayInv, NEW t \in Tasks, ScriptHit(t) PROVE RelayInv'
  <1> DEFINE entry == script[Instance(t).url][cache_key_for_domain(t)]
  <1>1. entry \in SealedMessages \cup {NoSeal} /\ entry # NoSeal
    BY AtScript DEF ScriptHit, RelayInv, RelayTyped
  <1>2. entry.key = Instance(t).key /\ Suits(t, entry.message)
    BY AtScript, <1>1 DEF ScriptHit, RelayInv, ScriptOwn, Suits
  <1>3. /\ ToClient(t, entry) /\ hop[t] # "none"
        /\ UNCHANGED <<resolutionVars, last_idx, via, job, script>>
    BY DEF ScriptHit
  <1> HIDE DEF entry
  <1> QED BY <1>1, <1>2, <1>3, Untouched, ToClientInv

\* The script passes the request on.
LEMMA ScriptMissInv == ASSUME RelayInv, NEW t \in Tasks, ScriptMiss(t) PROVE RelayInv'
  <1> USE DEF RelayInv, ScriptMiss, resolutionVars
  <1>1. RelayTyped'
    BY DEF RelayTyped, ResolutionTyped, Hops
  <1>2. ScriptOwn'
    BY Untouched
  <1>3. RelayTask(t)'
    <2>1. hop'[t] = "worker"
      BY DEF RelayTyped
    <2> QED BY <2>1 DEF RelayTask, Unsent, Chained, Instance, Suits, OfName, Name
  <1>4. OnlyTask(t)
    BY DEF OnlyTask, RelayTyped
  <1> QED BY <1>1, <1>2, <1>3, <1>4, StepOfTask

\* The script caches what came back and returns it.
LEMMA ScriptPutInv == ASSUME RelayInv, NEW t \in Tasks, ScriptPut(t) PROVE RelayInv'
  <1> DEFINE url == Instance(t).url
             tag == cache_key_for_domain(t)
  <1>1. url \in Scripts /\ tag \in Tags /\ tag[1] = Instance(t).key /\ tag[2] = Name(t)
    BY AtScript DEF ScriptPut
  <1>2. /\ sealed[t] \in SealedMessages \cup {NoSeal}
        /\ sealed[t] # NoSeal => sealed[t].key = Instance(t).key /\ Suits(t, sealed[t].message)
    BY DEF RelayInv, RelayTyped, RelayTask
  <1>3. script' = [script EXCEPT ![url][tag] = sealed[t]]
    BY DEF ScriptPut
  <1> HIDE DEF url, tag
  <1>4. script' \in [Scripts -> [Tags -> SealedMessages \cup {NoSeal}]]
    BY <1>1, <1>2, <1>3 DEF RelayInv, RelayTyped
  <1>5. ScriptOwn'
    <2> SUFFICES ASSUME NEW s \in Scripts, NEW g \in Tags, script'[s][g] # NoSeal
                 PROVE  script'[s][g].key = g[1] /\ OfName(script'[s][g].message, g[2])
      BY DEF ScriptOwn, OfName
    <2>1. CASE s = url /\ g = tag
      <3>1. script'[s][g] = sealed[t]
        BY <2>1, <1>1, <1>3 DEF RelayInv, RelayTyped
      <3> QED BY <2>1, <3>1, <1>1, <1>2 DEF Suits
    <2>2. CASE ~(s = url /\ g = tag)
      <3>1. script'[s][g] = script[s][g]
        BY <2>2, <1>1, <1>3 DEF RelayInv, RelayTyped
      <3> QED BY <3>1 DEF RelayInv, ScriptOwn
    <2> QED BY <2>1, <2>2
  <1>6. /\ ToClient(t, sealed[t]) /\ hop[t] # "none"
        /\ UNCHANGED <<resolutionVars, last_idx, via, job>>
    BY DEF ScriptPut
  <1> QED BY <1>2, <1>4, <1>5, <1>6, Untouched, ToClientInv

\* The script fails, and caches nothing.
LEMMA ScriptThrowsInv == ASSUME RelayInv, NEW t \in Tasks, ScriptThrows(t) PROVE RelayInv'
  <1>1. /\ ToClient(t, NoSeal) /\ hop[t] # "none"
        /\ UNCHANGED <<resolutionVars, last_idx, via, job, script>>
    BY DEF ScriptThrows
  <1> QED BY <1>1, Untouched, ToClientInv

\* The worker cannot open the request.
LEMMA WorkerRejectsInv == ASSUME RelayInv, NEW t \in Tasks, WorkerRejects(t) PROVE RelayInv'
  <1>1. /\ ToClient(t, NoSeal) /\ hop[t] # "none"
        /\ UNCHANGED <<resolutionVars, last_idx, via, job, script>>
    BY DEF WorkerRejects
  <1> QED BY <1>1, Untouched, ToClientInv

\* An entry of the script's cache expires.
LEMMA ScriptForgetsInv ==
    ASSUME RelayInv, NEW s \in Scripts, NEW tag \in Tags, ScriptForgets(s, tag)
    PROVE  RelayInv'
  <1> USE DEF RelayInv, ScriptForgets, resolutionVars
  <1>1. RelayTyped'
    BY DEF RelayTyped, ResolutionTyped
  <1>2. ScriptOwn'
    <2> SUFFICES ASSUME NEW z \in Scripts, NEW g \in Tags, script'[z][g] # NoSeal
                 PROVE  script'[z][g].key = g[1] /\ OfName(script'[z][g].message, g[2])
      BY DEF ScriptOwn, OfName
    <2>1. script'[z][g] = script[z][g]
      BY DEF RelayTyped
    <2> QED BY <2>1 DEF ScriptOwn
  <1> QED BY <1>1, <1>2, StepOfNone

\* A round of the worker adds addresses of the name that was asked.
LEMMA WorkerRoundInv == ASSUME RelayInv, NEW t \in Tasks, WorkerRound(t) PROVE RelayInv'
  <1> USE DEF RelayInv, WorkerRound, resolutionVars
  <1>1. PICK settled \in Settled :
           job' = [job EXCEPT ![t] =
                     [round |-> job[t].round + 1,
                      ips |-> job[t].ips \cup AddressesFrom(settled, Name(t)),
                      some |-> job[t].some \/ settled # {}]]
    OBVIOUS
  <1>2. Name(t) \in Names
    BY DEF RelayTyped, ResolutionTyped, Name
  <1>3. /\ AddressesFrom(settled, Name(t)) \subseteq AddressesFrom(Endpoints, Name(t))
        /\ AddressesFrom(settled, Name(t)) \subseteq Addresses
    BY <1>2, FromEndpoints
  <1>4. RelayTyped'
    <2>1. job[t] \in Jobs
      BY DEF RelayTyped
    <2>2. [round |-> job[t].round + 1,
           ips |-> job[t].ips \cup AddressesFrom(settled, Name(t)),
           some |-> job[t].some \/ settled # {}] \in Jobs
      BY <1>3, <2>1 DEF Jobs
    <2> QED BY <1>1, <2>2 DEF RelayTyped, ResolutionTyped
  <1>5. ScriptOwn'
    BY Untouched
  <1>6. RelayTask(t)'
    <2>1. job'[t].ips = job[t].ips \cup AddressesFrom(settled, Name(t))
      BY <1>1 DEF RelayTyped
    <2>2. hop[t] = "worker" /\ at[t] # "start"
      BY DEF RelayTask, Unsent
    <2> QED BY <1>3, <2>1, <2>2 DEF RelayTask, Chained, Instance, Suits, OfName, Name
  <1>7. OnlyTask(t)
    BY <1>1 DEF OnlyTask, RelayTyped
  <1> QED BY <1>4, <1>5, <1>6, <1>7, StepOfTask

\* The worker's merged reply suits the task it is for, under the task's key.
LEMMA FinalReplySuits ==
    ASSUME RelayInv, NEW t \in Tasks, hop[t] = "worker", Decodes(t)
    PROVE  LET answer == [key |-> WorkerKey[Worker(t)], message |-> FinalReply(t)]
           IN  /\ answer \in SealedMessages
               /\ answer.key = Instance(t).key
               /\ Suits(t, answer.message)
  <1>1. via[t] \in 1..Len(Relays)
    BY DEF RelayInv, RelayTask, Unsent
  <1>2. Instance(t).key \in Keys
    BY <1>1, InstanceFacts
  <1>3. /\ job[t].ips \subseteq Addresses
        /\ job[t].ips \subseteq AddressesFrom(Endpoints, Name(t))
        /\ ask[t] \in Names \X Types
    BY DEF RelayInv, RelayTask, RelayTyped, ResolutionTyped, Jobs
  <1> QED BY <1>2, <1>3 DEF Decodes, FinalReply, SealedMessages, Messages, Suits, OfName, Name

\* The worker returns what it has merged.
LEMMA WorkerDoneInv == ASSUME RelayInv, NEW t \in Tasks, WorkerDone(t) PROVE RelayInv'
  <1> DEFINE answer == [key |-> WorkerKey[Worker(t)], message |-> FinalReply(t)]
  <1>1. /\ UNCHANGED <<resolutionVars, last_idx, via, script>> /\ hop[t] # "none"
        /\ hop[t] = "worker" /\ Decodes(t)
        /\ job' = [job EXCEPT ![t] = NoJob]
    BY DEF WorkerDone
  <1>2. /\ answer \in SealedMessages /\ answer.key = Instance(t).key
        /\ Suits(t, answer.message)
    BY <1>1, FinalReplySuits
  <1>3. CASE job[t].some /\ Chained(t)
    <2> USE DEF RelayInv, resolutionVars
    <2>1. hop' = [hop EXCEPT ![t] = "script_put"] /\ sealed' = [sealed EXCEPT ![t] = answer]
      BY <1>3 DEF WorkerDone, FromWorker
    <2> HIDE DEF answer
    <2>2. RelayTyped'
      BY <1>1, <1>2, <2>1 DEF RelayTyped, ResolutionTyped, Hops, Jobs, NoJob
    <2>3. ScriptOwn'
      BY <1>1, Untouched
    <2>4. RelayTask(t)'
      <3>1. hop'[t] = "script_put" /\ sealed'[t] = answer /\ job'[t] = NoJob /\ at[t] # "start"
        BY <1>1, <2>1 DEF RelayTyped, RelayTask, Unsent
      <3> QED BY <1>1, <1>2, <1>3, <3>1 DEF RelayTask, NoJob, Chained, Instance, Suits, OfName, Name
    <2>5. OnlyTask(t)
      BY <1>1, <2>1 DEF OnlyTask, RelayTyped
    <2> QED BY <2>2, <2>3, <2>4, <2>5, StepOfTask
  <1>4. CASE job[t].some /\ ~Chained(t)
    <2>1. ToClient(t, answer)
      BY <1>4 DEF WorkerDone, FromWorker
    <2> HIDE DEF answer
    <2> QED BY <1>1, <1>2, <2>1, Untouched, ToClientInv
  <1>5. CASE ~job[t].some
    <2>1. ToClient(t, NoSeal)
      BY <1>5 DEF WorkerDone
    <2> QED BY <1>1, <2>1, Untouched, ToClientInv
  <1> QED BY <1>3, <1>4, <1>5

\* Whatever the client, the script and the worker do, for tasks that wait and for tasks
\* that have given up.
LEMMA RelayNextInv == ASSUME RelayInv, RelayNext PROVE RelayInv'
  <1>1. CASE BootRelay \/ EarlierPick
    <2>1. RelayTyped'
      BY <1>1, RelaysAssumption
      DEF BootRelay, EarlierPick, RelayInv, RelayTyped, ResolutionTyped, resolutionVars
    <2>2. ScriptOwn'
      BY <1>1 DEF BootRelay, EarlierPick, RelayInv, ScriptOwn, OfName
    <2> QED BY <1>1, <2>1, <2>2, StepOfNone DEF BootRelay, EarlierPick
  <1>2. ASSUME NEW t \in Tasks, RelayStep(t) PROVE RelayInv'
    BY <1>2, RelayPostInv, RelayReceiveInv, RelayFailsInv, ScriptHitInv, ScriptMissInv,
       ScriptPutInv, ScriptThrowsInv, WorkerRejectsInv, WorkerRoundInv, WorkerDoneInv
    DEF RelayStep
  <1>3. ASSUME NEW s \in Scripts, NEW tag \in Tags, ScriptForgets(s, tag) PROVE RelayInv'
    BY <1>3, ScriptForgetsInv
  <1> QED BY <1>1, <1>2, <1>3 DEF RelayNext, Tags

-----------------------------------------------------------------------------
(* The invariant of the transports.                                         *)

TransportPhases ==
    {"start", "doh", "udp", "udp_wait", "doq", "doq_shake", "doq_store", "doq_wait",
     "answered", "failed"}
LinkStates == {"unused", "dialing", "open", "closed"}

TransportTyped ==
    /\ ResolutionTyped(TransportPhases)
    /\ upstream \in [Tasks -> Resolvers \cup {NoUpstream}]
    /\ conn \in [Tasks -> Conns \cup {NoConn}]
    /\ dead \in [Tasks -> SUBSET Conns]
    /\ pool \in [Quic -> Conns \cup {NoConn}]
    /\ link \in [Conns -> LinkStates]
    /\ port \in [Tasks -> Ports \cup {NoPort}]

\* A connection that a task shakes hands on is the task's alone until it is open; one
\* that had ended when the task began stays ended and is none the task holds.
DoqTask(t) ==
    /\ at[t] = "start" => conn[t] = NoConn
    /\ at[t] = "doq" => upstream[t] \in Quic
    /\ at[t] \in {"doq_shake", "doq_store", "doq_wait"} => conn[t] \in Conns
    /\ at[t] = "doq_shake" =>
          /\ link[conn[t]] = "dialing"
          /\ \A u \in Tasks \ {t} : at[u] = "doq_shake" => conn[u] # conn[t]
    /\ \A c \in dead[t] : link[c] = "closed"
    /\ conn[t] \notin dead[t]

\* A port is used by one waiting task at a time, and by a task once.
UdpTask(t) ==
    /\ at[t] \in {"udp", "udp_wait"} => upstream[t] \in Udp
    /\ at[t] = "udp_wait" =>
          /\ port[t] # NoPort
          /\ \A u \in Tasks \ {t} : at[u] = "udp_wait" => port[u] # port[t]
    /\ port[t] # NoPort => upstream[t] \in Udp /\ at[t] \in {"udp_wait", "answered", "failed"}

\* The answer to u's query, sent to where u asked from.
AnswerTo(u) == [port |-> port[u], from |-> upstream[u], message |-> Message(u, u)]

\* An answer on the wire is to the query of a task that has asked, whether it still
\* waits or not.
WireOwned == \A d \in wire : \E u \in Tasks : d = AnswerTo(u) /\ port[u] # NoPort

AnswerOwn(t) ==
    at[t] = "answered" =>
        /\ reply[t] \in Messages /\ reply[t].id = t /\ reply[t].ips = {}
        /\ reply[t].about = ask[t] \/ FromOldPort(t)

TransportInv ==
    /\ TransportTyped
    /\ WireOwned
    /\ \A t \in Tasks : DoqTask(t) /\ UdpTask(t) /\ AnswerOwn(t)

-----------------------------------------------------------------------------
(* The transports keep their invariant.                                     *)

\* A set of numbers has a least one.
LEMMA NatMin == ASSUME NEW T \in SUBSET Nat, T # {} PROVE \E n \in T : \A m \in T : n <= m
  <1> DEFINE R == OpToRel(<, Nat)
  <1>1. IsWellFoundedOn(R, Nat)
    BY NatLessThanWellFounded
  <1>2. R = {ss \in Nat \X Nat : ss[1] < ss[2]}
    BY DEF OpToRel
  <1> HIDE DEF R
  <1>3. PICK x \in T : \A y \in T : ~(<<y, x>> \in R)
    BY <1>1, WFMin, Zenon
  <1>4. ASSUME NEW m \in T PROVE x <= m
    <2>1. <<m, x>> \notin R
      BY <1>3
    <2>2. m < x => <<m, x>> \in R
      BY <1>2
    <2> QED BY <2>1, <2>2
  <1> QED BY <1>4

\* One of the healthy resolvers is picked.
LEMMA PickIsResolver ==
    ASSUME NEW healthy \in Pools, NEW prefer_doh \in BOOLEAN
    PROVE  pick_doh_first(healthy, prefer_doh) \in Resolvers
  <1>1. healthy \in Seq(Resolvers) /\ healthy # <<>>
    BY TransportsAssumption
  <1>2. healthy[1] \in Resolvers
    BY <1>1
  <1> DEFINE doh == {i \in DOMAIN healthy : healthy[i] \in Https}
             first == CHOOSE i \in doh : \A j \in doh : i <= j
  <1>3. ASSUME doh # {} PROVE healthy[first] \in Resolvers
    <2>1. doh \in SUBSET Nat
      BY <1>1
    <2>2. \E i \in doh : \A j \in doh : i <= j
      BY <1>3, <2>1, NatMin
    <2>3. first \in doh
      BY <2>2
    <2> QED BY <2>3 DEF Resolvers
  <1> QED BY <1>2, <1>3 DEF pick_doh_first

\* Nothing that a task has is touched, but t's.
OthersKept(t) ==
    \A u \in Tasks \ {t} :
        /\ at'[u] = at[u] /\ ask'[u] = ask[u] /\ reply'[u] = reply[u]
        /\ port'[u] = port[u] /\ upstream'[u] = upstream[u]

\* What others were answered stays right: a task they got an answer of has ended.
LEMMA AnswersStay ==
    ASSUME TransportInv, NEW t \in Tasks, OthersKept(t), at[t] \notin {"answered", "failed"}
    PROVE  \A u \in Tasks \ {t} : AnswerOwn(u)'
  <1> SUFFICES ASSUME NEW u \in Tasks \ {t}, at[u] = "answered" PROVE AnswerOwn(u)'
    BY DEF OthersKept, AnswerOwn
  <1>1. AnswerOwn(u) /\ \A v \in Tasks : UdpTask(v)
    BY DEF TransportInv
  <1>2. ASSUME NEW v \in Tasks, UsedBefore(v, u)
        PROVE  v # t /\ UsedBefore(v, u)' /\ at'[v] = at[v] /\ ask'[v] = ask[v]
    <2>1. v # t
      BY <1>1, <1>2 DEF UsedBefore, UdpTask
    <2> QED BY <1>2, <2>1 DEF UsedBefore, OthersKept
  <1>3. FromOldPort(u) => FromOldPort(u)'
    BY <1>2 DEF FromOldPort, OthersKept
  <1> QED BY <1>1, <1>3 DEF AnswerOwn, OthersKept

\* No port is taken.
LEMMA PortsStay ==
    ASSUME TransportInv, NEW t \in Tasks, OthersKept(t), at'[t] # "udp_wait"
    PROVE  \A u \in Tasks \ {t} : UdpTask(u)'
  BY DEF TransportInv, UdpTask, OthersKept

\* Answers on the wire that are not to t.
LEMMA WireStays ==
    ASSUME TransportInv, NEW t \in Tasks, OthersKept(t), at[t] # "failed",
           NEW d \in wire, NEW u \in Tasks \ {t}, d = AnswerTo(u), port[u] # NoPort
    PROVE  d = AnswerTo(u)' /\ port'[u] # NoPort
  BY DEF AnswerTo, Message, OthersKept

\* A task without a port neither owns an answer nor takes one.
LEMMA WireStaysAll ==
    ASSUME TransportInv, NEW t \in Tasks, OthersKept(t), at[t] # "failed", port[t] = NoPort,
           wire' \subseteq wire
    PROVE  WireOwned'
  <1> SUFFICES ASSUME NEW d \in wire'
               PROVE  \E u \in Tasks : d = AnswerTo(u)' /\ port'[u] # NoPort
    BY DEF WireOwned, AnswerTo, Message
  <1>1. PICK u \in Tasks : d = AnswerTo(u) /\ port[u] # NoPort
    BY DEF TransportInv, WireOwned
  <1> QED BY <1>1, WireStays

\* A step that leaves the connections alone.
LEMMA ConnsStay ==
    ASSUME TransportInv, NEW t \in Tasks, OthersKept(t), UNCHANGED <<conn, dead, link>>,
           at'[t] \notin {"start", "doq", "doq_shake", "doq_store", "doq_wait"}
    PROVE  \A u \in Tasks : DoqTask(u)'
  BY DEF TransportInv, DoqTask, OthersKept

\* A step that ends t, or moves it on, over DoH or DoQ.
LEMMA StepWithoutUdp ==
    ASSUME TransportInv, NEW t \in Tasks, OthersKept(t),
           at[t] \in {"doh", "doq", "doq_shake", "doq_store", "doq_wait"},
           at'[t] \notin {"udp", "udp_wait"},
           UNCHANGED <<upstream, udpVars>>,
           TransportTyped', AnswerOwn(t)', \A u \in Tasks : DoqTask(u)'
    PROVE  TransportInv'
  <1>1. port[t] = NoPort
    BY DEF TransportInv, UdpTask
  <1>2. WireOwned'
    BY <1>1, WireStaysAll DEF udpVars
  <1>3. UdpTask(t)'
    BY <1>1 DEF UdpTask, udpVars
  <1>4. \A u \in Tasks \ {t} : UdpTask(u)' /\ AnswerOwn(u)'
    BY PortsStay, AnswersStay
  <1> QED BY <1>2, <1>3, <1>4 DEF TransportInv

\* What a resolver says to t, with t's ID.
LEMMA MessageFor ==
    ASSUME TransportInv, NEW t \in Tasks, NEW id \in Tasks \cup {Zero}
    PROVE  /\ with_txid(Message(t, id), t) = Message(t, t)
           /\ Message(t, t) \in Messages
           /\ Message(t, t).id = t /\ Message(t, t).about = ask[t] /\ Message(t, t).ips = {}
  <1>1. ask[t] \in Names \X Types
    BY DEF TransportInv, TransportTyped, ResolutionTyped
  <1> QED BY <1>1 DEF with_txid, Message, Messages

\* A task ends with an answer of its own, or without one.
Ends(t, message) == Answered(t, message) \/ Fail(t)

\* A task that ends has an answer to its own question, or none.
LEMMA EndOfTask ==
    ASSUME TransportInv, NEW t \in Tasks, NEW id \in Tasks \cup {Zero}, Ends(t, Message(t, id))
    PROVE  /\ ResolutionTyped(TransportPhases)'
           /\ at'[t] \in {"answered", "failed"}
           /\ \A u \in Tasks \ {t} : at'[u] = at[u] /\ ask'[u] = ask[u] /\ reply'[u] = reply[u]
           /\ AnswerOwn(t)'
  <1> DEFINE m == Message(t, t)
  <1>1. /\ with_txid(Message(t, id), t) = m
        /\ m \in Messages /\ m.id = t /\ m.about = ask[t] /\ m.ips = {}
    BY MessageFor
  <1>2. ResolutionTyped(TransportPhases)
    BY DEF TransportInv, TransportTyped
  <1> HIDE DEF m
  <1>3. CASE Answered(t, Message(t, id))
    <2>1. /\ at' = [at EXCEPT ![t] = "answered"] /\ ask' = ask
          /\ reply' = [reply EXCEPT ![t] = m]
      BY <1>1, <1>3 DEF Answered, Goto
    <2> QED BY <1>1, <1>2, <2>1 DEF ResolutionTyped, TransportPhases, AnswerOwn
  <1>4. CASE Fail(t)
    BY <1>2, <1>4 DEF Fail, Goto, ResolutionTyped, TransportPhases, AnswerOwn
  <1> QED BY <1>3, <1>4 DEF Ends

\* A POST to a DoH resolver is answered or fails.
LEMMA DohInv ==
    ASSUME TransportInv, NEW t \in Tasks, DohAnswers(t) \/ DohFails(t)
    PROVE  TransportInv'
  <1>1. Ends(t, Message(t, t)) /\ UNCHANGED transportVars /\ at[t] = "doh"
    BY DEF DohAnswers, DohFails, Ends
  <1>2. UNCHANGED <<upstream, conn, dead, pool, link, port, wire>>
    BY <1>1 DEF transportVars, doqVars, udpVars
  <1>3. TransportTyped'
    BY <1>1, <1>2, EndOfTask DEF TransportInv, TransportTyped
  <1>4. OthersKept(t) /\ at'[t] \in {"answered", "failed"} /\ AnswerOwn(t)'
    BY <1>1, <1>2, EndOfTask DEF OthersKept
  <1>5. \A u \in Tasks : DoqTask(u)'
    BY <1>2, <1>4, ConnsStay
  <1> QED BY <1>1, <1>2, <1>3, <1>4, <1>5, StepWithoutUdp DEF udpVars

\* A task begins: nothing it holds has ended.
LEMMA PickInv == ASSUME TransportInv, NEW t \in Tasks, Pick(t) PROVE TransportInv'
  <1>1. PICK healthy \in Pools, prefer_doh \in BOOLEAN :
           LET r == pick_doh_first(healthy, prefer_doh)
           IN  upstream' = [upstream EXCEPT ![t] = r] /\ Begin(t, Scheme(r))
    BY DEF Pick
  <1> DEFINE r == pick_doh_first(healthy, prefer_doh)
  <1>2. r \in Resolvers
    BY PickIsResolver
  <1>3. upstream' = [upstream EXCEPT ![t] = r] /\ at' = [at EXCEPT ![t] = Scheme(r)] /\ reply' = reply
    BY <1>1 DEF Begin, Goto
  <1>4. PICK q \in Names \X Types : ask' = [ask EXCEPT ![t] = q]
    BY <1>1, AskedAssumption DEF Begin
  <1> HIDE DEF r
  <1>5. /\ at[t] = "start" /\ UNCHANGED <<conn, pool, link, ticket, port, wire>>
        /\ dead' = [dead EXCEPT ![t] = {c \in Conns : link[c] = "closed"}]
    BY DEF Pick, doqVars, udpVars
  <1>6. TransportTyped
    BY DEF TransportInv
  <1>7. /\ Scheme(r) \in {"doh", "doq", "udp"}
        /\ Scheme(r) = "udp" => r \in Udp
        /\ Scheme(r) = "doq" => r \in Quic
    BY <1>2 DEF Scheme, Resolvers
  <1>8. TransportTyped'
    BY <1>2, <1>3, <1>4, <1>5, <1>6, <1>7 DEF TransportTyped, ResolutionTyped, TransportPhases
  <1>9. OthersKept(t) /\ at'[t] = Scheme(r) /\ upstream'[t] = r
    BY <1>3, <1>4, <1>5, <1>6 DEF OthersKept, TransportTyped, ResolutionTyped
  <1>10. port[t] = NoPort /\ conn[t] = NoConn
    BY <1>5 DEF TransportInv, UdpTask, DoqTask
  <1>11. \A u \in Tasks : DoqTask(u)'
    <2>1. DoqTask(t)'
      <3>1. dead'[t] = {c \in Conns : link[c] = "closed"}
        BY <1>5, <1>6 DEF TransportTyped
      <3> QED BY <1>5, <1>7, <1>9, <1>10, <3>1, TransportsAssumption DEF DoqTask
    <2>2. ASSUME NEW u \in Tasks \ {t} PROVE DoqTask(u)'
      <3>1. dead'[u] = dead[u]
        BY <1>5, <1>6 DEF TransportTyped
      <3> QED BY <1>5, <1>7, <1>9, <3>1 DEF DoqTask, OthersKept, TransportInv
    <2> QED BY <2>1, <2>2
  <1>12. WireOwned'
    BY <1>5, <1>9, <1>10, WireStaysAll
  <1>13. \A u \in Tasks \ {t} : UdpTask(u)' /\ AnswerOwn(u)'
    BY <1>5, <1>7, <1>9, PortsStay, AnswersStay
  <1>14. UdpTask(t)' /\ AnswerOwn(t)'
    BY <1>5, <1>7, <1>9, <1>10 DEF UdpTask, AnswerOwn
  <1> QED BY <1>8, <1>11, <1>12, <1>13, <1>14 DEF TransportInv

\* A socket is bound to a port that no waiting task has.
LEMMA UdpSendInv == ASSUME TransportInv, NEW t \in Tasks, UdpSend(t) PROVE TransportInv'
  <1>1. PICK p \in Ports \ {port[u] : u \in {v \in Tasks : at[v] = "udp_wait"}} :
           /\ port' = [port EXCEPT ![t] = p]
           /\ \/ wire' = wire \cup {[port |-> p, from |-> upstream[t], message |-> Message(t, t)]}
              \/ UNCHANGED wire
    BY DEF UdpSend
  <1>2. /\ at[t] = "udp" /\ at' = [at EXCEPT ![t] = "udp_wait"]
        /\ UNCHANGED <<ask, reply, upstream, dead, conn, pool, link>>
    BY DEF UdpSend, Goto, doqVars
  <1>3. TransportTyped
    BY DEF TransportInv
  <1>4. TransportTyped'
    BY <1>1, <1>2, <1>3 DEF TransportTyped, ResolutionTyped, TransportPhases
  <1>5. /\ OthersKept(t) /\ at'[t] = "udp_wait" /\ port'[t] = p /\ p # NoPort
        /\ port[t] = NoPort /\ upstream[t] \in Udp
    <2>1. port[t] = NoPort /\ upstream[t] \in Udp
      BY <1>2 DEF TransportInv, UdpTask
    <2> QED BY <1>1, <1>2, <1>3, <2>1, TransportsAssumption
            DEF OthersKept, TransportTyped, ResolutionTyped
  <1>6. \A u \in Tasks : DoqTask(u)'
    BY <1>2, <1>5, ConnsStay
  <1>7. ASSUME NEW d \in wire'
        PROVE  \E u \in Tasks : d = AnswerTo(u)' /\ port'[u] # NoPort
    <2>1. CASE d \in wire
      <3>1. PICK u \in Tasks : d = AnswerTo(u) /\ port[u] # NoPort
                                 
        BY <2>1 DEF TransportInv, WireOwned
      <3> QED BY <1>2, <1>5, <2>1, <3>1, WireStays
    <2>2. CASE d = [port |-> p, from |-> upstream[t], message |-> Message(t, t)]
      <3>1. d = AnswerTo(t)'
        BY <1>2, <1>5, <2>2 DEF AnswerTo, Message
      <3> QED BY <1>5, <3>1
    <2> QED BY <1>1, <2>1, <2>2
  <1>8. WireOwned'
    BY <1>7 DEF WireOwned, AnswerTo, Message
  <1>9. \A u \in Tasks : UdpTask(u)'
    <2>1. ASSUME NEW u \in Tasks \ {t} PROVE at[u] = "udp_wait" => port[u] # p
      BY <1>1
    <2>2. UdpTask(t)'
      BY <1>2, <1>5, <2>1 DEF UdpTask, OthersKept
    <2>3. ASSUME NEW u \in Tasks \ {t} PROVE UdpTask(u)'
      BY <1>5, <2>1 DEF UdpTask, OthersKept, TransportInv
    <2> QED BY <2>2, <2>3
  <1>10. \A u \in Tasks \ {t} : AnswerOwn(u)'
    BY <1>2, <1>5, AnswersStay
  <1>11. AnswerOwn(t)'
    BY <1>5 DEF AnswerOwn
  <1> QED BY <1>4, <1>6, <1>8, <1>9, <1>10, <1>11 DEF TransportInv

\* An answer that is not t's own is to the query of a former user of its port.
LEMMA UdpReceiveInv == ASSUME TransportInv, NEW t \in Tasks, UdpReceive(t) PROVE TransportInv'
  <1>1. PICK d \in wire : /\ d.port = port[t] /\ d.from = upstream[t]
                          /\ Answered(t, d.message) /\ wire' \subseteq wire
    BY DEF UdpReceive
  <1>2. /\ at[t] = "udp_wait"
        /\ UNCHANGED <<upstream, dead, conn, pool, link, port>>
    BY DEF UdpReceive, doqVars
  <1>3. TransportTyped
    BY DEF TransportInv
  <1>4. PICK u \in Tasks : d = AnswerTo(u) /\ port[u] # NoPort
                             
    BY DEF TransportInv, WireOwned
  <1>5. port[u] = port[t] /\ upstream[u] = upstream[t] /\ d.message = Message(u, u)
    BY <1>1, <1>4 DEF AnswerTo
  <1> DEFINE m == with_txid(Message(u, u), t)
  <1>7. m \in Messages /\ m.id = t /\ m.about = ask[u] /\ m.ips = {}
    <2>1. ask[u] \in Names \X Types
      BY <1>3 DEF TransportTyped, ResolutionTyped
    <2> QED BY <2>1 DEF with_txid, Message, Messages
  <1>8. /\ at' = [at EXCEPT ![t] = "answered"] /\ reply' = [reply EXCEPT ![t] = m]
        /\ ask' = ask
    BY <1>1, <1>5 DEF Answered, Goto
  <1> HIDE DEF m
  <1>9. TransportTyped'
    BY <1>2, <1>3, <1>7, <1>8 DEF TransportTyped, ResolutionTyped, TransportPhases
  <1>10. OthersKept(t) /\ at'[t] = "answered" /\ reply'[t] = m
    BY <1>2, <1>3, <1>8 DEF OthersKept, TransportTyped, ResolutionTyped
  <1>11. \A v \in Tasks : DoqTask(v)'
    BY <1>2, <1>10, ConnsStay
  <1>12. \A v \in Tasks \ {t} : UdpTask(v)' /\ AnswerOwn(v)'
    BY <1>2, <1>10, PortsStay, AnswersStay
  <1>13. UdpTask(t)'
    BY <1>2, <1>10 DEF UdpTask, TransportInv
  <1>15. AnswerOwn(t)'
    <2>1. CASE u = t
      BY <1>7, <1>8, <1>10, <2>1 DEF AnswerOwn
    <2>2. CASE u # t
      <3>1. upstream[t] \in Udp /\ port[t] # NoPort
        BY <1>2 DEF TransportInv, UdpTask
      <3>2. at[u] # "udp_wait"
        BY <1>2, <1>5, <2>2 DEF TransportInv, UdpTask
      <3>3. UsedBefore(u, t)'
        BY <1>2, <1>5, <1>10, <2>2, <3>1, <3>2 DEF UsedBefore, OthersKept
      <3>4. FromOldPort(t)'
        BY <1>7, <1>8, <1>10, <2>2, <3>3 DEF FromOldPort
      <3> QED BY <1>7, <1>10, <3>4 DEF AnswerOwn
    <2> QED BY <2>1, <2>2
  <1>16. ASSUME NEW e \in wire'
         PROVE  \E v \in Tasks : e = AnswerTo(v)' /\ port'[v] # NoPort
    <2>1. e \in wire
      BY <1>1
    <2>2. PICK v \in Tasks : e = AnswerTo(v) /\ port[v] # NoPort
      BY <2>1 DEF TransportInv, WireOwned
    <2>3. CASE v = t
      <3>1. e = AnswerTo(t)' /\ port'[t] # NoPort
        BY <1>2, <1>8, <2>2, <2>3 DEF AnswerTo, Message
      <3> QED BY <3>1
    <2>4. CASE v # t
      BY <1>2, <1>10, <2>1, <2>2, <2>4, WireStays
    <2> QED BY <2>3, <2>4
  <1>17. WireOwned'
    BY <1>16 DEF WireOwned, AnswerTo, Message
  <1> QED BY <1>9, <1>11, <1>12, <1>13, <1>15, <1>17 DEF TransportInv

\* A task that gives up leaves its answer on the wire.
LEMMA UdpFailsInv == ASSUME TransportInv, NEW t \in Tasks, UdpFails(t) PROVE TransportInv'
  <1>1. /\ at[t] \in {"udp", "udp_wait"} /\ at' = [at EXCEPT ![t] = "failed"]
        /\ UNCHANGED <<ask, reply, upstream, conn, dead, pool, link, port, wire>>
    BY DEF UdpFails, Fail, Goto, transportVars, doqVars, udpVars
  <1>2. TransportTyped
    BY DEF TransportInv
  <1>3. TransportTyped'
    BY <1>1, <1>2 DEF TransportTyped, ResolutionTyped, TransportPhases
  <1>4. OthersKept(t) /\ at'[t] = "failed"
    BY <1>1, <1>2 DEF OthersKept, TransportTyped, ResolutionTyped
  <1>5. \A u \in Tasks : DoqTask(u)'
    BY <1>1, <1>4, ConnsStay
  <1>6. \A u \in Tasks \ {t} : UdpTask(u)' /\ AnswerOwn(u)'
    BY <1>1, <1>4, PortsStay, AnswersStay
  <1>7. UdpTask(t)' /\ AnswerOwn(t)'
    BY <1>1, <1>4 DEF UdpTask, AnswerOwn, TransportInv
  <1>8. ASSUME NEW d \in wire'
        PROVE  \E u \in Tasks : d = AnswerTo(u)' /\ port'[u] # NoPort
    <2>1. PICK u \in Tasks : d = AnswerTo(u) /\ port[u] # NoPort
                               
      BY <1>1 DEF TransportInv, WireOwned
    <2>2. CASE u = t
      <3>1. d = AnswerTo(t)' /\ port'[t] # NoPort
        BY <1>1, <2>1, <2>2 DEF AnswerTo, Message
      <3> QED BY <3>1
    <2>3. CASE u # t
      BY <1>1, <1>4, <2>1, <2>3, WireStays
    <2> QED BY <2>2, <2>3
  <1>9. WireOwned'
    BY <1>8 DEF WireOwned, AnswerTo, Message
  <1> QED BY <1>3, <1>5, <1>6, <1>7, <1>9 DEF TransportInv

\* An answer comes to a port that nobody listens on.
LEMMA UdpUnclaimedInv == ASSUME TransportInv, NEW d \in wire, UdpUnclaimed(d) PROVE TransportInv'
  BY DEF UdpUnclaimed, resolutionVars, doqVars, TransportInv, TransportTyped, ResolutionTyped,
         WireOwned, AnswerTo, Message, DoqTask, UdpTask, AnswerOwn, FromOldPort,
         UsedBefore

\* A step of t from one phase of DoQ to the next.
LEMMA DoqMoves ==
    ASSUME TransportInv, NEW t \in Tasks, at[t] \in {"doq", "doq_shake", "doq_store"},
           NEW phase \in {"doq_shake", "doq_store", "doq_wait"}, Goto(t, phase),
           UNCHANGED <<ask, reply, upstream, udpVars>>,
           TransportTyped', \A u \in Tasks : DoqTask(u)'
    PROVE  TransportInv'
  <1>1. TransportTyped
    BY DEF TransportInv
  <1>2. OthersKept(t) /\ at'[t] = phase
    BY <1>1 DEF OthersKept, Goto, udpVars, TransportTyped, ResolutionTyped
  <1>3. AnswerOwn(t)'
    BY <1>2 DEF AnswerOwn
  <1> QED BY <1>2, <1>3, StepWithoutUdp

\* A pooled connection is used again: it had not ended when the query began.
LEMMA DoqReuseInv == ASSUME TransportInv, NEW t \in Tasks, DoqReuse(t) PROVE TransportInv'
  <1>1. PICK c \in cached(upstream[t]) : conn' = [conn EXCEPT ![t] = c]
    BY DEF DoqReuse
  <1>2. /\ at[t] = "doq" /\ Goto(t, "doq_wait")
        /\ UNCHANGED <<ask, reply, upstream, dead, pool, link, udpVars>>
    BY DEF DoqReuse
  <1>3. TransportTyped /\ \A u \in Tasks : DoqTask(u)
    BY DEF TransportInv
  <1>4. link[c] = "open" /\ c = pool[upstream[t]] /\ c # NoConn
    BY DEF cached
  <1>5. c \in Conns
    BY <1>2, <1>3, <1>4 DEF TransportTyped, DoqTask
  <1>6. TransportTyped'
    BY <1>1, <1>2, <1>3, <1>5
    DEF Goto, udpVars, TransportTyped, ResolutionTyped, TransportPhases
  <1>7. /\ at'[t] = "doq_wait" /\ conn'[t] = c
        /\ \A u \in Tasks \ {t} : at'[u] = at[u] /\ conn'[u] = conn[u]
    BY <1>1, <1>2, <1>3 DEF Goto, TransportTyped, ResolutionTyped
  <1>8. DoqTask(t)'
    BY <1>2, <1>3, <1>4, <1>5, <1>7 DEF DoqTask
  <1>9. ASSUME NEW u \in Tasks \ {t} PROVE DoqTask(u)'
    BY <1>2, <1>3, <1>7 DEF DoqTask
  <1> QED BY <1>2, <1>6, <1>8, <1>9, DoqMoves

\* The connection t makes is nobody's yet, and so nobody shakes hands on it.
LEMMA DoqConnectInv == ASSUME TransportInv, NEW t \in Tasks, DoqConnect(t) PROVE TransportInv'
  <1>1. PICK c \in Conns :
           /\ link[c] = "unused"
           /\ conn' = [conn EXCEPT ![t] = c]
           /\ \/ link' = [link EXCEPT ![c] = "open"] /\ Goto(t, "doq_store")
              \/ link' = [link EXCEPT ![c] = "dialing"] /\ Goto(t, "doq_shake")
    BY DEF DoqConnect
  <1>2. at[t] = "doq" /\ UNCHANGED <<ask, reply, upstream, dead, pool, udpVars>>
    BY DEF DoqConnect
  <1>3. TransportTyped /\ \A u \in Tasks : DoqTask(u)
    BY DEF TransportInv
  <1>4. PICK phase \in {"doq_store", "doq_shake"}, state \in {"open", "dialing"} :
           /\ Goto(t, phase) /\ link' = [link EXCEPT ![c] = state]
           /\ phase = "doq_shake" => state = "dialing"
    BY <1>1
  <1>5. TransportTyped'
    BY <1>1, <1>2, <1>3, <1>4
    DEF Goto, udpVars, TransportTyped, ResolutionTyped, TransportPhases, LinkStates
  <1>6. /\ at'[t] = phase /\ conn'[t] = c /\ link'[c] = state
        /\ \A u \in Tasks \ {t} : at'[u] = at[u] /\ conn'[u] = conn[u]
        /\ \A b \in Conns \ {c} : link'[b] = link[b]
    BY <1>1, <1>3, <1>4 DEF Goto, TransportTyped, ResolutionTyped
  <1>7. ASSUME NEW u \in Tasks, at[u] = "doq_shake" PROVE conn[u] \in Conns /\ conn[u] # c
    BY <1>1, <1>3, <1>7 DEF DoqTask
  <1>8. ASSUME NEW u \in Tasks PROVE dead'[u] = dead[u] /\ c \notin dead[u] /\ dead[u] \subseteq Conns
    BY <1>1, <1>2, <1>3 DEF DoqTask, TransportTyped
  <1>9. DoqTask(t)'
    BY <1>1, <1>2, <1>3, <1>4, <1>6, <1>7, <1>8 DEF DoqTask
  <1>10. ASSUME NEW u \in Tasks \ {t} PROVE DoqTask(u)'
    BY <1>1, <1>2, <1>3, <1>6, <1>7, <1>8 DEF DoqTask
  <1> QED BY <1>2, <1>4, <1>5, <1>9, <1>10, DoqMoves

\* The handshake of a connection is done.
LEMMA DoqShakenInv == ASSUME TransportInv, NEW t \in Tasks, DoqShaken(t) PROVE TransportInv'
  <1>1. /\ at[t] = "doq_shake" /\ Goto(t, "doq_store")
        /\ link' = [link EXCEPT ![conn[t]] = "open"]
        /\ UNCHANGED <<ask, reply, upstream, dead, conn, pool, udpVars>>
    BY DEF DoqShaken
  <1>2. TransportTyped /\ \A u \in Tasks : DoqTask(u)
    BY DEF TransportInv
  <1>3. TransportTyped'
    BY <1>1, <1>2 DEF Goto, udpVars, TransportTyped, ResolutionTyped, TransportPhases, LinkStates
  <1>4. conn[t] \in Conns /\ link[conn[t]] = "dialing"
    BY <1>1, <1>2 DEF DoqTask
  <1>5. /\ at'[t] = "doq_store"
        /\ \A u \in Tasks \ {t} : at'[u] = at[u]
        /\ \A b \in Conns \ {conn[t]} : link'[b] = link[b]
    BY <1>1, <1>2 DEF Goto, TransportTyped, ResolutionTyped
  <1>6. ASSUME NEW u \in Tasks PROVE dead[u] \subseteq Conns /\ conn[t] \notin dead[u]
    BY <1>2, <1>4 DEF DoqTask, TransportTyped
  <1>7. DoqTask(t)'
    BY <1>1, <1>2, <1>4, <1>5, <1>6 DEF DoqTask
  <1>8. ASSUME NEW u \in Tasks \ {t} PROVE DoqTask(u)'
    BY <1>1, <1>2, <1>4, <1>5, <1>6 DEF DoqTask
  <1> QED BY <1>1, <1>3, <1>7, <1>8, DoqMoves

\* The new connection goes into the pool.
LEMMA DoqStoreInv == ASSUME TransportInv, NEW t \in Tasks, DoqStore(t) PROVE TransportInv'
  <1>1. /\ at[t] = "doq_store" /\ Goto(t, "doq_wait")
        /\ pool' = [pool EXCEPT ![upstream[t]] = conn[t]]
        /\ UNCHANGED <<ask, reply, upstream, dead, conn, link, udpVars>>
    BY DEF DoqStore
  <1>2. TransportTyped /\ \A u \in Tasks : DoqTask(u)
    BY DEF TransportInv
  <1>3. TransportTyped'
    BY <1>1, <1>2 DEF Goto, udpVars, TransportTyped, ResolutionTyped, TransportPhases
  <1>4. at'[t] = "doq_wait" /\ \A u \in Tasks \ {t} : at'[u] = at[u]
    BY <1>1, <1>2 DEF Goto, TransportTyped, ResolutionTyped
  <1>5. \A u \in Tasks : DoqTask(u)'
    BY <1>1, <1>2, <1>4 DEF DoqTask
  <1> QED BY <1>1, <1>3, <1>5, DoqMoves

\* A task that ends closes at most a connection nobody else has.
LEMMA DoqEndsInv ==
    ASSUME TransportInv, NEW t \in Tasks, DoqAnswers(t) \/ DoqFails(t)
    PROVE  TransportInv'
  <1>1. /\ at[t] \in {"doq", "doq_shake", "doq_wait"}
        /\ Ends(t, Message(t, Zero)) /\ UNCHANGED <<upstream, pool, udpVars>>
        /\ conn' = [conn EXCEPT ![t] = NoConn] /\ dead' = [dead EXCEPT ![t] = {}]
        /\ \/ link' = link
           \/ at[t] = "doq_shake" /\ link' = [link EXCEPT ![conn[t]] = "closed"]
    <2>1. CASE DoqAnswers(t)
      BY <2>1 DEF DoqAnswers, Ends, Release
    <2>2. CASE DoqFails(t)
      BY <2>2 DEF DoqFails, Ends, Release
    <2> QED BY <2>1, <2>2
  <1>2. TransportTyped /\ \A u \in Tasks : DoqTask(u)
    BY DEF TransportInv
  <1>3. ResolutionTyped(TransportPhases)' /\ at'[t] \in {"answered", "failed"} /\ AnswerOwn(t)'
    BY <1>1, EndOfTask
  <1>4. TransportTyped'
    BY <1>1, <1>2, <1>3 DEF udpVars, TransportTyped, LinkStates
  <1>5. OthersKept(t)
    BY <1>1, EndOfTask DEF OthersKept, udpVars
  <1>6. /\ conn'[t] = NoConn /\ dead'[t] = {}
        /\ \A u \in Tasks \ {t} : conn'[u] = conn[u] /\ dead'[u] = dead[u]
    BY <1>1, <1>2 DEF TransportTyped
  <1>7. DoqTask(t)'
    BY <1>3, <1>6 DEF DoqTask
  <1>8. ASSUME NEW u \in Tasks \ {t} PROVE DoqTask(u)'
    <2>1. ASSUME NEW c \in Conns, link'[c] # link[c]
          PROVE  link'[c] = "closed" /\ at[t] = "doq_shake" /\ c = conn[t]
      BY <1>1, <1>2, <2>1 DEF TransportTyped
    <2>2. DoqTask(t) /\ DoqTask(u) /\ dead[u] \subseteq Conns
      BY <1>2 DEF TransportTyped
    <2>3. \A c \in dead'[u] : link'[c] = "closed"
      BY <1>6, <2>1, <2>2 DEF DoqTask
    <2>4. at[u] = "doq_shake" => link'[conn[u]] = link[conn[u]]
      BY <2>1, <2>2 DEF DoqTask
    <2> QED BY <1>3, <1>5, <1>6, <2>2, <2>3, <2>4 DEF DoqTask, OthersKept
  <1> QED BY <1>1, <1>3, <1>4, <1>5, <1>7, <1>8, StepWithoutUdp

\* A connection ends.
LEMMA DoqClosesInv == ASSUME TransportInv, NEW c \in Conns, DoqCloses(c) PROVE TransportInv'
  <1>1. /\ link[c] = "open" /\ link' = [link EXCEPT ![c] = "closed"]
        /\ UNCHANGED <<ask, at, reply, upstream, dead, conn, pool, port, wire>>
    BY DEF DoqCloses, resolutionVars, udpVars
  <1>2. TransportTyped'
    BY <1>1 DEF TransportInv, TransportTyped, ResolutionTyped, LinkStates
  <1>3. ASSUME NEW u \in Tasks PROVE DoqTask(u)'
    <2>1. DoqTask(u) /\ dead[u] \subseteq Conns
      BY DEF TransportInv, TransportTyped
    <2>2. link'[c] = "closed" /\ \A b \in Conns \ {c} : link'[b] = link[b]
      BY <1>1 DEF TransportInv, TransportTyped
    <2> QED BY <1>1, <2>1, <2>2 DEF DoqTask
  <1>4. WireOwned' /\ \A u \in Tasks : UdpTask(u)' /\ AnswerOwn(u)'
    BY <1>1 DEF TransportInv, WireOwned, AnswerTo, Message, UdpTask, AnswerOwn,
                FromOldPort, UsedBefore
  <1> QED BY <1>2, <1>3, <1>4 DEF TransportInv

\* Every step of the transports keeps their invariant.
LEMMA TransportNextInv == ASSUME TransportInv, TransportNext PROVE TransportInv'
  <1>1. ASSUME NEW t \in Tasks, TransportStep(t) PROVE TransportInv'
    BY <1>1, PickInv, DohInv, UdpSendInv, UdpReceiveInv, UdpFailsInv, DoqReuseInv,
       DoqConnectInv, DoqShakenInv, DoqStoreInv, DoqEndsInv
    DEF TransportStep
  <1> QED BY <1>1, UdpUnclaimedInv, DoqClosesInv DEF TransportNext

\* Initially no task has begun.
LEMMA TransportStarts == ASSUME ResolutionInit, TransportInit PROVE TransportInv
  <1>1. (CHOOSE q \in Asked : TRUE) \in Names \X Types
    BY AskedAssumption
  <1>2. TransportTyped
    BY <1>1 DEF ResolutionInit, TransportInit, TransportTyped, ResolutionTyped,
                TransportPhases, LinkStates
  <1>3. WireOwned
    BY DEF TransportInit, WireOwned
  <1>4. ASSUME NEW t \in Tasks PROVE DoqTask(t) /\ UdpTask(t) /\ AnswerOwn(t)
    BY DEF ResolutionInit, TransportInit, DoqTask, UdpTask, AnswerOwn
  <1> QED BY <1>2, <1>3, <1>4 DEF TransportInv

-----------------------------------------------------------------------------
(* The client's subnet.                                                     *)

\* How many of S are at a place or before it.
Rank(S, i) == Cardinality(S \cap 1..i)

\* Ranks count the places of S in their order.
LEMMA RankFacts ==
  ASSUME NEW n \in Nat, NEW S \in SUBSET (1..n)
  PROVE  /\ IsFiniteSet(S) /\ Cardinality(S) \in Nat
         /\ \A i \in S : Rank(S, i) \in 1..Cardinality(S)
         /\ \A i, j \in S : i < j => Rank(S, i) < Rank(S, j)
  <1>1. IsFiniteSet(S) /\ Cardinality(S) \in Nat
    <2>1. IsFiniteSet(1..n)
      BY FS_Interval
    <2>2. IsFiniteSet(S)
      BY <2>1, FS_Subset
    <2> QED
      BY <2>2, FS_CardinalityType
  <1>2. ASSUME NEW T \in SUBSET S PROVE IsFiniteSet(T) /\ Cardinality(T) \in Nat /\ Cardinality(T) <= Cardinality(S)
    <2>1. IsFiniteSet(T) /\ Cardinality(T) <= Cardinality(S)
      BY <1>1, FS_Subset
    <2> QED
      BY <2>1, FS_CardinalityType
  <1>3. ASSUME NEW i \in S PROVE Rank(S, i) \in 1..Cardinality(S)
    <2> DEFINE T == S \cap 1..i
    <2>1. T \in SUBSET S /\ i \in T
      OBVIOUS
    <2> HIDE DEF T
    <2>2. IsFiniteSet(T) /\ Cardinality(T) \in Nat /\ Cardinality(T) <= Cardinality(S)
      BY <1>2, <2>1
    <2>3. Cardinality(T) # 0
      BY <2>1, <2>2, FS_EmptySet
    <2>4. Rank(S, i) = Cardinality(T)
      BY DEF Rank, T
    <2> QED
      BY <1>1, <2>2, <2>3, <2>4
  <1>4. ASSUME NEW i \in S, NEW j \in S, i < j PROVE Rank(S, i) < Rank(S, j)
    <2> DEFINE T == S \cap 1..i
               U == S \cap 1..j
    <2>1. T \in SUBSET U /\ T \in SUBSET S /\ U \in SUBSET S /\ j \in U /\ j \notin T
      BY <1>4
    <2>2. Rank(S, i) = Cardinality(T) /\ Rank(S, j) = Cardinality(U)
      BY DEF Rank
    <2> HIDE DEF T, U
    <2>3. IsFiniteSet(U) /\ Cardinality(T) \in Nat /\ Cardinality(U) \in Nat
      BY <1>2, <2>1
    <2>4. Cardinality(T) <= Cardinality(U) /\ Cardinality(T) # Cardinality(U)
      <3>1. Cardinality(T) <= Cardinality(U) /\ (Cardinality(U) = Cardinality(T) => U = T)
        BY <2>1, <2>3, FS_Subset
      <3> QED
        BY <2>1, <3>1
    <2> QED
      BY <2>2, <2>3, <2>4
  <1> QED
    BY <1>1, <1>3, <1>4

\* A set of places and its ranks are in bijection, so that there is an n-th place.
LEMMA NthFacts ==
  ASSUME NEW n \in Nat, NEW S \in SUBSET (1..n)
  PROVE  /\ [i \in S |-> Rank(S, i)] \in Bijection(S, 1..Cardinality(S))
         /\ \A m \in 1..Cardinality(S) : Nth(S, m) \in S /\ Rank(S, Nth(S, m)) = m
         /\ \A i \in S : Nth(S, Rank(S, i)) = i
  <1> DEFINE rank == [i \in S |-> Rank(S, i)]
             N == 1..Cardinality(S)
  <1>1. /\ IsFiniteSet(S) /\ Cardinality(S) \in Nat
        /\ \A i \in S : Rank(S, i) \in N
        /\ \A i, j \in S : i < j => Rank(S, i) < Rank(S, j)
    BY RankFacts
  <1>2. \A i, j \in S : Rank(S, i) = Rank(S, j) => i = j
    <2> SUFFICES ASSUME NEW i \in S, NEW j \in S, Rank(S, i) = Rank(S, j) PROVE i = j
      OBVIOUS
    <2>1. i \in Nat /\ j \in Nat
      OBVIOUS
    <2>2. Rank(S, i) \in Nat /\ Rank(S, j) \in Nat
      BY <1>1
    <2>3. ~(i < j) /\ ~(j < i)
      BY <1>1, <2>2
    <2> QED
      BY <2>1, <2>3
  <1>3. rank \in Injection(S, N)
    BY <1>1, <1>2 DEF Injection, IsInjective
  <1>4. IsFiniteSet(N) /\ Cardinality(N) = Cardinality(S)
    <2>1. IsFiniteSet(N) /\ Cardinality(N) = IF 1 > Cardinality(S) THEN 0 ELSE Cardinality(S) - 1 + 1
      BY <1>1, FS_Interval
    <2> QED
      BY <1>1, <2>1
  <1>5. rank \in Surjection(S, N)
    <2> HIDE DEF rank, N
    <2> QED
      BY <1>3, <1>4, FS_Injection
  <1>6. ASSUME NEW m \in N PROVE Nth(S, m) \in S /\ Rank(S, Nth(S, m)) = m
    <2>1. \E i \in S : rank[i] = m
      BY <1>5 DEF Surjection
    <2>2. \E i \in S : Cardinality(S \cap 1..i) = m
      BY <2>1 DEF Rank
    <2> QED
      BY <2>2 DEF Nth, Rank
  <1>7. ASSUME NEW i \in S PROVE Nth(S, Rank(S, i)) = i
    <2>1. Rank(S, i) \in N
      BY <1>1
    <2>2. Nth(S, Rank(S, i)) \in S /\ Rank(S, Nth(S, Rank(S, i))) = Rank(S, i)
      BY <1>6, <2>1
    <2> QED
      BY <1>2, <2>2
  <1> QED
    BY <1>3, <1>5, <1>6, <1>7 DEF Bijection

\* What set_ecs_option makes of a list of options: the others are kept, in order.
LEMMA RetainFacts ==
  ASSUME NEW R, NEW options \in Seq(R)
  PROVE  /\ retain(options) \in Seq(R)
         /\ Cardinality(Others(options)) \in Nat
         /\ Len(retain(options)) = Cardinality(Others(options))
         /\ \A m \in DOMAIN retain(options) :
               \E i \in Others(options) : retain(options)[m] = options[i]
         /\ \A i \in Others(options) :
               /\ Rank(Others(options), i) \in DOMAIN retain(options)
               /\ retain(options)[Rank(Others(options), i)] = options[i]
  <1> DEFINE S == Others(options)
             N == 1..Cardinality(S)
             r == [m \in N |-> options[Nth(S, m)]]
  <1>1. Len(options) \in Nat /\ S \in SUBSET (1..Len(options))
    BY DEF Others
  <1>2. r = retain(options)
    BY DEF retain
  <1>3. \A i \in S : options[i] \in R
    BY <1>1
  <1> HIDE DEF S
  <1>4. /\ Cardinality(S) \in Nat
        /\ \A i \in S : Rank(S, i) \in N
    BY <1>1, RankFacts
  <1>5. /\ \A m \in N : Nth(S, m) \in S
        /\ \A i \in S : Nth(S, Rank(S, i)) = i
    BY <1>1, NthFacts
  <1>6. r \in [N -> R]
    BY <1>3, <1>5
  <1>7. r \in Seq(R) /\ Len(r) = Cardinality(S) /\ DOMAIN r = N
    BY <1>4, <1>6
  <1>8. \A m \in N : \E i \in S : r[m] = options[i]
    BY <1>5
  <1>9. \A i \in S : r[Rank(S, i)] = options[i]
    BY <1>4, <1>5
  <1> HIDE DEF r
  <1> QED
    BY <1>2, <1>4, <1>7, <1>8, <1>9 DEF S

\* Options that all fit are parsed to the last.
LEMMA ParseAll ==
  ASSUME NEW R, NEW options \in Seq(R), \A k \in DOMAIN options : options[k].code # "bad"
  PROVE  parse_options(options) = options
  <1> DEFINE Fits(n) == \A i \in 1..n : options[i].code # "bad"
             Stops(n) == Fits(n) /\ (n < Len(options) => ~Fits(n + 1))
             n == CHOOSE n \in 0..Len(options) : Stops(n)
  <1>1. Len(options) \in Nat /\ DOMAIN options = 1..Len(options)
    OBVIOUS
  <1>2. \A m \in 0..Len(options) : Fits(m)
    BY <1>1
  <1>3. Stops(Len(options))
    BY <1>1, <1>2
  <1>4. n \in 0..Len(options) /\ Stops(n)
    BY <1>1, <1>3
  <1>5. n < Len(options) => n + 1 \in 0..Len(options)
    BY <1>1, <1>4
  <1>6. n = Len(options)
    BY <1>1, <1>2, <1>4, <1>5
  <1>7. parse_options(options) = SubSeq(options, 1, n)
    BY DEF parse_options
  <1> HIDE DEF n
  <1> QED
    BY <1>1, <1>6, <1>7

\* The client's options with its network set are what InSubnet asks for.
LEMMA OptionsAreSet ==
  ASSUME NEW R, NEW options \in Seq(R), NEW client,
         \A k \in DOMAIN options : options[k].code # "bad"
  PROVE  /\ OptionsInSubnet(options, client, new_options(options, client))
         /\ \A k \in DOMAIN new_options(options, client) :
               new_options(options, client)[k].code # "bad"
  <1> DEFINE S == Others(options)
             r == retain(options)
             new == new_options(options, client)
             to == [i \in S |-> Rank(S, i)]
  <1>1. Len(options) \in Nat /\ S \in SUBSET (1..Len(options))
    BY DEF Others
  <1>2. \A i \in S : options[i].code # "bad" /\ options[i].code # "ecs"
    BY DEF Others
  <1>3. /\ r \in Seq(R) /\ Len(r) = Cardinality(S) /\ Cardinality(S) \in Nat
        /\ \A m \in DOMAIN r : \E i \in S : r[m] = options[i]
        /\ \A i \in S : Rank(S, i) \in DOMAIN r /\ r[Rank(S, i)] = options[i]
    BY RetainFacts
  <1>4. new = Append(r, Ecs(client))
    BY ParseAll DEF new_options
  <1>5. Ecs(client).code = "ecs"
    BY DEF Ecs
  <1> HIDE DEF S, r, new
  <1>6. /\ DOMAIN r = 1..Cardinality(S)
        /\ DOMAIN new = 1..Cardinality(S) + 1
        /\ \A m \in DOMAIN r : new[m] = r[m]
        /\ new[Cardinality(S) + 1] = Ecs(client)
    BY <1>3, <1>4
  <1>7. \A m \in DOMAIN r : new[m].code # "ecs" /\ new[m].code # "bad"
    BY <1>2, <1>3, <1>6
  <1>8. \A k \in DOMAIN new : k \in DOMAIN r \/ k = Cardinality(S) + 1
    BY <1>3, <1>6
  <1>9. Others(new) = 1..Cardinality(S)
    <2>1. Others(new) = {k \in DOMAIN new : new[k].code # "ecs"}
      BY DEF Others
    <2>2. DOMAIN r \subseteq DOMAIN new
      BY <1>3, <1>6
    <2>3. \A k : k \in Others(new) <=> k \in DOMAIN r
      BY <1>5, <1>6, <1>7, <1>8, <2>1, <2>2
    <2> QED
      BY <1>6, <2>3
  <1>10. SameInOrder(options, S, new, Others(new))
    <2>1. to \in Bijection(S, Others(new))
      BY <1>1, <1>9, NthFacts
    <2>2. \A i \in S : new[to[i]] = options[i]
      BY <1>3, <1>6
    <2>3. \A i, j \in S : i < j => to[i] < to[j]
      BY <1>1, RankFacts
    <2> HIDE DEF to
    <2> QED
      BY <2>1, <2>2, <2>3 DEF SameInOrder
  <1>11. /\ Cardinality(S) + 1 \in DOMAIN new
         /\ \A l \in DOMAIN new : new[l].code = "ecs" => l = Cardinality(S) + 1
    BY <1>3, <1>6, <1>7, <1>8
  <1>12. OptionsInSubnet(options, client, new)
    BY <1>6, <1>10, <1>11 DEF OptionsInSubnet, S
  <1>13. \A k \in DOMAIN new : new[k].code # "bad"
    BY <1>5, <1>6, <1>7, <1>8
  <1> QED
    BY <1>12, <1>13 DEF new

\* The options of an OPT record that was added.
LEMMA OptionIsAdded ==
  ASSUME NEW client
  PROVE  OptionsInSubnet(<<>>, client, <<Ecs(client)>>)
  <1> DEFINE new == <<Ecs(client)>>
             to == [i \in {} |-> i]
  <1>1. DOMAIN new = {1} /\ new[1] = Ecs(client) /\ new[1].code = "ecs"
    BY DEF Ecs
  <1> HIDE DEF new
  <1>2. Others(new) = {} /\ Others(<<>>) = {}
    BY <1>1 DEF Others
  <1>3. to \in Bijection({}, {})
    BY DEF Bijection, Injection, Surjection, IsInjective
  <1>4. SameInOrder(<<>>, {}, new, {})
    BY <1>3 DEF SameInOrder
  <1>5. OptionsInSubnet(<<>>, client, new)
    BY <1>1, <1>2, <1>4 DEF OptionsInSubnet
  <1> QED
    BY <1>5 DEF new

\* What every packet is.
LEMMA PacketFacts ==
  ASSUME NEW p \in Packets
  PROVE  /\ p.qd \in Nat /\ p.an \in Nat /\ p.ns \in Nat /\ p.ar \in Nat
         /\ p.body \in Seq(Range(p.body)) /\ Len(p.body) \in Nat /\ DOMAIN p.body = 1..Len(p.body)
         /\ DOMAIN p = {"qd", "an", "ns", "ar", "body"}
         /\ \A i \in DOMAIN p.body : p.body[i].type = "OPT" =>
               p.body[i].options \in Seq(Range(p.body[i].options))
  <1> DEFINE R == Range(p.body)
  <1>1. /\ p \in [qd : Counts, an : Counts, ns : Counts, ar : Counts, body : Seq(R)]
        /\ \A i \in DOMAIN p.body : p.body[i].type = "OPT" =>
               p.body[i].options \in Seq(Range(p.body[i].options))
    BY PacketsAssumption
  <1> HIDE DEF R
  <1>2. p.body \in Seq(R)
    BY <1>1
  <1>3. Len(p.body) \in Nat /\ DOMAIN p.body = 1..Len(p.body)
    BY <1>2
  <1>4. p.qd \in Nat /\ p.an \in Nat /\ p.ns \in Nat /\ p.ar \in Nat
    <2>1. p.qd \in Counts /\ p.an \in Counts /\ p.ns \in Counts /\ p.ar \in Counts
      BY <1>1
    <2>2. Counts \subseteq Nat
      BY DEF Counts, CountMod
    <2> QED
      BY <2>1, <2>2
  <1>5. DOMAIN p = {"qd", "an", "ns", "ar", "body"}
    BY <1>1
  <1> QED
    BY <1>1, <1>2, <1>3, <1>4, <1>5 DEF R

\* Places that stay where they are, with what is there.
LEMMA SamePlaces ==
  ASSUME NEW s, NEW t, NEW S, \A i \in S : t[i] = s[i]
  PROVE  SameInOrder(s, S, t, S)
  <1> DEFINE to == [i \in S |-> i]
  <1>1. to \in Bijection(S, S)
    BY DEF Bijection, Injection, Surjection, IsInjective
  <1>2. \A i \in S : to[i] = i
    OBVIOUS
  <1> HIDE DEF to
  <1> QED
    BY <1>1, <1>2 DEF SameInOrder

\* find_opt_record finds the OPT record of a well-formed packet, if it has one.
LEMMA FindsOpt ==
  ASSUME NEW p \in Packets, WellFormed(p)
  PROVE  \A i : i \in find_opt_record(p) <=> i \in DOMAIN p.body /\ p.body[i].type = "OPT"
  <1>1. /\ Len(p.body) \in Nat /\ DOMAIN p.body = 1..Len(p.body)
        /\ p.qd \in Nat /\ p.an \in Nat /\ p.ns \in Nat /\ p.ar \in Nat
    BY PacketFacts
  <1>2. /\ Len(p.body) = p.qd + p.an + p.ns + p.ar
        /\ \A i \in DOMAIN p.body :
              p.body[i].whole /\ (p.body[i].type = "OPT" => i \in Additional(p))
        /\ \A i, j \in DOMAIN p.body : p.body[i].type = "OPT" /\ p.body[j].type = "OPT" => i = j
    BY DEF WellFormed
  <1>3. Additional(p) \subseteq DOMAIN p.body
    BY <1>1, <1>2 DEF Additional
  <1>4. \A i \in DOMAIN p.body : 1..i \subseteq DOMAIN p.body /\ i \in Nat
    BY <1>1
  <1>5. ASSUME NEW i \in DOMAIN p.body, p.body[i].type = "OPT" PROVE i \in find_opt_record(p)
    <2>1. \A j \in 1..i : p.body[j].whole
      BY <1>2, <1>4
    <2>2. ASSUME NEW j \in Additional(p), j < i PROVE p.body[j].type # "OPT"
      BY <1>1, <1>2, <1>3, <1>5, <2>2
    <2> QED
      BY <1>2, <1>5, <2>1, <2>2 DEF find_opt_record
  <1>6. ASSUME NEW i \in find_opt_record(p) PROVE i \in DOMAIN p.body /\ p.body[i].type = "OPT"
    BY <1>6 DEF find_opt_record
  <1> QED
    BY <1>5, <1>6

\* A packet with an OPT record gets the client's network there.
LEMMA OptIsRewritten ==
  ASSUME NEW p \in Packets, WellFormed(p), NEW client,
         NEW i \in DOMAIN p.body, p.body[i].type = "OPT"
  PROVE  InSubnet(p, client, rebuild_with_new_opt(p, client))
  <1> DEFINE o == p.body[i]
             new == OptRecord(o.size, o.flags, new_options(o.options, client))
             body == [p.body EXCEPT ![i] = new]
             out == [p EXCEPT !.body = body]
  <1>1. /\ Len(p.body) \in Nat /\ DOMAIN p.body = 1..Len(p.body) /\ p.body \in Seq(Range(p.body))
        /\ DOMAIN p = {"qd", "an", "ns", "ar", "body"}
        /\ o.options \in Seq(Range(o.options))
    BY PacketFacts
  <1>2. /\ Len(p.body) = p.qd + p.an + p.ns + p.ar
        /\ \A k \in DOMAIN p.body :
              p.body[k].whole /\ (p.body[k].type = "OPT" => k \in Additional(p))
        /\ \A k \in DOMAIN p.body : p.body[k].type = "OPT" => k = i
        /\ \A k \in DOMAIN o.options : o.options[k].code # "bad"
    BY DEF WellFormed
  <1>3. rebuild_with_new_opt(p, client) = out
    <2>1. i \in find_opt_record(p) /\ \A k \in find_opt_record(p) : k = i
      BY <1>2, FindsOpt
    <2> DEFINE c == CHOOSE c \in find_opt_record(p) : TRUE
    <2>2. c = i
      BY <2>1
    <2> QED
      BY <2>1, <2>2 DEF rebuild_with_new_opt
  <1>4. /\ OptionsInSubnet(o.options, client, new_options(o.options, client))
        /\ \A k \in DOMAIN new_options(o.options, client) :
              new_options(o.options, client)[k].code # "bad"
    BY <1>1, <1>2, OptionsAreSet
  <1>5. /\ new.type = "OPT" /\ new.whole /\ new.size = o.size /\ new.flags = o.flags
        /\ new.options = new_options(o.options, client)
    BY DEF OptRecord
  <1> HIDE DEF new
  <1>6. /\ Len(body) = Len(p.body) /\ DOMAIN body = DOMAIN p.body /\ body[i] = new
        /\ \A k \in DOMAIN p.body : k # i => body[k] = p.body[k]
    BY <1>1
  <1> HIDE DEF body
  <1>7. out.body = body /\ out.qd = p.qd /\ out.an = p.an /\ out.ns = p.ns /\ out.ar = p.ar
    BY <1>1
  <1> HIDE DEF out
  <1>8. \A k \in DOMAIN body : body[k].type = "OPT" <=> k = i
    BY <1>2, <1>5, <1>6
  <1>9. WellFormed(out)
    <2>1. Additional(out) = Additional(p)
      BY <1>7 DEF Additional
    <2>2. \A k \in DOMAIN body : body[k].whole /\ (body[k].type = "OPT" => k \in Additional(p))
      BY <1>2, <1>5, <1>6, <1>8
    <2>3. \A k \in DOMAIN body : body[k].type = "OPT" =>
             \A l \in DOMAIN body[k].options : body[k].options[l].code # "bad"
      BY <1>4, <1>5, <1>6, <1>8
    <2> QED
      BY <1>2, <1>6, <1>7, <1>8, <2>1, <2>2, <2>3 DEF WellFormed
  <1>10. SameInOrder(p.body, NotOpts(p), out.body, NotOpts(out))
    <2>1. NotOpts(p) = DOMAIN p.body \ {i}
      BY <1>2 DEF NotOpts
    <2>2. NotOpts(out) = DOMAIN p.body \ {i}
      BY <1>6, <1>7, <1>8 DEF NotOpts
    <2>3. \A k \in NotOpts(p) : out.body[k] = p.body[k]
      BY <1>6, <1>7, <2>1
    <2> QED
      BY <2>1, <2>2, <2>3, SamePlaces
  <1>11. NotOpts(p) # DOMAIN p.body
    BY DEF NotOpts
  <1>12. \A j \in DOMAIN p.body : p.body[j].type = "OPT" =>
            /\ out.body[i].size = p.body[j].size /\ out.body[i].flags = p.body[j].flags
            /\ OptionsInSubnet(p.body[j].options, client, out.body[i].options)
    BY <1>2, <1>4, <1>5, <1>6, <1>7
  <1>13. i \in DOMAIN out.body /\ out.body[i].type = "OPT"
    BY <1>5, <1>6, <1>7
  <1> HIDE DEF o
  <1>14. InSubnet(p, client, out)
    BY <1>7, <1>9, <1>10, <1>11, <1>12, <1>13 DEF InSubnet
  <1> QED
    BY <1>3, <1>14

\* A packet without an OPT record gets one, at its end.
LEMMA OptIsAdded ==
  ASSUME NEW p \in Packets, WellFormed(p), NEW client,
         \A i \in DOMAIN p.body : p.body[i].type # "OPT"
  PROVE  InSubnet(p, client, rebuild_with_new_opt(p, client))
  <1> DEFINE n == Len(p.body) + 1
             new == OptRecord(DefaultSize, 0, <<Ecs(client)>>)
             body == Append(p.body, new)
             out == [p EXCEPT !.body = body, !.ar = (@ + 1) % CountMod]
  <1>1. /\ Len(p.body) \in Nat /\ DOMAIN p.body = 1..Len(p.body) /\ p.body \in Seq(Range(p.body))
        /\ DOMAIN p = {"qd", "an", "ns", "ar", "body"}
        /\ p.qd \in Nat /\ p.an \in Nat /\ p.ns \in Nat /\ p.ar \in Nat
    BY PacketFacts
  <1>2. /\ Len(p.body) = p.qd + p.an + p.ns + p.ar
        /\ \A k \in DOMAIN p.body : p.body[k].whole
    BY DEF WellFormed
  <1>3. rebuild_with_new_opt(p, client) = out
    <2>1. find_opt_record(p) = {}
      BY FindsOpt
    <2> QED
      BY <2>1 DEF rebuild_with_new_opt
  <1>4. (p.ar + 1) % CountMod = p.ar + 1
    <2>1. Len(p.body) + 1 < CountMod
      BY PacketsAssumption
    <2> QED
      BY <1>1, <1>2, <2>1 DEF CountMod
  <1>5. /\ new.type = "OPT" /\ new.whole /\ new.options = <<Ecs(client)>>
        /\ \A l \in DOMAIN new.options : new.options[l].code # "bad"
    BY DEF OptRecord, Ecs
  <1> HIDE DEF new
  <1>6. /\ n \in Nat /\ Len(body) = n /\ DOMAIN body = 1..n /\ body[n] = new
        /\ \A k \in DOMAIN p.body : k \in 1..n /\ k # n /\ body[k] = p.body[k]
        /\ \A k \in 1..n : k # n => k \in DOMAIN p.body
    BY <1>1
  <1> HIDE DEF body
  <1>7. out.body = body /\ out.qd = p.qd /\ out.an = p.an /\ out.ns = p.ns /\ out.ar = p.ar + 1
    BY <1>1, <1>4
  <1> HIDE DEF out
  <1>8. \A k \in DOMAIN body : body[k].type = "OPT" <=> k = n
    BY <1>5, <1>6
  <1>9. WellFormed(out)
    <2>1. n \in Additional(out) /\ n = out.qd + out.an + out.ns + out.ar
      BY <1>1, <1>2, <1>7 DEF Additional
    <2>2. \A k \in DOMAIN body : body[k].whole /\ (body[k].type = "OPT" => k \in Additional(out))
      BY <1>2, <1>5, <1>6, <1>8, <2>1
    <2>3. \A k \in DOMAIN body : body[k].type = "OPT" =>
             \A l \in DOMAIN body[k].options : body[k].options[l].code # "bad"
      BY <1>5, <1>6, <1>8
    <2> QED
      BY <1>6, <1>7, <1>8, <2>1, <2>2, <2>3 DEF WellFormed
  <1>10. SameInOrder(p.body, NotOpts(p), out.body, NotOpts(out))
    <2>1. NotOpts(p) = DOMAIN p.body
      BY DEF NotOpts
    <2>2. NotOpts(out) = DOMAIN p.body
      BY <1>6, <1>7, <1>8 DEF NotOpts
    <2>3. \A k \in NotOpts(p) : out.body[k] = p.body[k]
      BY <1>6, <1>7, <2>1
    <2> QED
      BY <2>1, <2>2, <2>3, SamePlaces
  <1>11. OptionsInSubnet(<<>>, client, out.body[n].options)
    BY <1>5, <1>6, <1>7, OptionIsAdded
  <1>12. n \in DOMAIN out.body /\ out.body[n].type = "OPT"
    BY <1>5, <1>6, <1>7
  <1> HIDE DEF n
  <1>13. InSubnet(p, client, out)
    BY <1>7, <1>9, <1>10, <1>11, <1>12 DEF InSubnet
  <1> QED
    BY <1>3, <1>13

-----------------------------------------------------------------------------
(* The theorems.                                                            *)

\* Whichever way the queries go, the variables of the other stay as they were.
UpstreamInv ==
    /\ relayed \in BOOLEAN
    /\ relayed => RelayInv /\ TransportInit
    /\ ~relayed => TransportInv /\ RelayInit

\* Whichever way the tasks use, its invariant holds in every state.
LEMMA UpstreamInvHolds == Spec => []UpstreamInv
  <1>1. Init => UpstreamInv
    BY RelayStarts, TransportStarts DEF Init, UpstreamInv
  <1>2. ASSUME UpstreamInv, [Next]_vars PROVE UpstreamInv'
    <2>1. CASE ViaRelay
      <3>1. RelayInv' /\ relayed /\ relayed'
        BY <1>2, <2>1, RelayNextInv DEF ViaRelay, UpstreamInv
      <3>2. TransportInit'
        BY <1>2, <2>1 DEF ViaRelay, UpstreamInv, TransportInit, transportVars, doqVars, udpVars
      <3> QED BY <1>2, <3>1, <3>2 DEF UpstreamInv
    <2>2. CASE ViaResolver
      <3>1. TransportInv' /\ ~relayed /\ relayed' = relayed
        BY <1>2, <2>2, TransportNextInv DEF ViaResolver, UpstreamInv
      <3>2. RelayInit'
        BY <1>2, <2>2 DEF ViaResolver, UpstreamInv, RelayInit, relayVars
      <3> QED BY <1>2, <3>1, <3>2 DEF UpstreamInv
    <2>3. CASE UNCHANGED vars
      <3>1. UNCHANGED <<ask, at, reply, relayed, booted, last_idx, via, hop, job, sealed, script,
                        upstream, dead, conn, pool, link, ticket, port, wire>>
        BY <2>3 DEF vars, resolutionVars, relayVars, transportVars, doqVars, udpVars
      <3>2. RelayInit => RelayInit'
        BY <3>1 DEF RelayInit
      <3>3. TransportInit => TransportInit'
        BY <3>1 DEF TransportInit
      <3>4. RelayInv => RelayInv'
        <4>1. ASSUME RelayInv PROVE RelayTyped' /\ ScriptOwn'
          BY <3>1, <4>1 DEF RelayInv, RelayTyped, ResolutionTyped, ScriptOwn, OfName
        <4> QED BY <3>1, <4>1, StepOfNone DEF resolutionVars
      <3>5. TransportInv => TransportInv'
        BY <3>1 DEF TransportInv, TransportTyped, ResolutionTyped, WireOwned, AnswerTo,
                    Message, DoqTask, UdpTask, AnswerOwn, FromOldPort, UsedBefore
      <3> QED BY <1>2, <3>1, <3>2, <3>3, <3>4, <3>5 DEF UpstreamInv
    <2> QED BY <1>2, <2>1, <2>2, <2>3 DEF Next
  <1> QED BY <1>1, <1>2, PTL DEF Spec

\* A reply answers the question its task asked and has its ID, whatever the transport,
\* except for the two ways AnswerMatches names (resolve_query).
THEOREM RepliesMatch == Spec => []AnswerMatches
  <1>1. ASSUME UpstreamInv PROVE AnswerMatches
    <2>1. CASE relayed
      <3> SUFFICES ASSUME NEW t \in Tasks, at[t] = "answered"
                   PROVE  reply[t].id = t /\ (reply[t].about = ask[t] \/ FromScript(t))
        BY DEF AnswerMatches
      <3>1. RelayTask(t) /\ via[t] \in 1..Len(Relays) /\ Suits(t, reply[t]) /\ reply[t].id = t
        BY <1>1, <2>1 DEF UpstreamInv, RelayInv, RelayTask
      <3>2. via[t] # 0
        BY <3>1, RelaysAssumption
      <3> QED BY <3>1, <3>2 DEF Suits, OfName, FromScript
    <2>2. CASE ~relayed
      BY <1>1, <2>2 DEF UpstreamInv, TransportInv, AnswerOwn, AnswerMatches
    <2> QED BY <2>1, <2>2
  <1> QED BY <1>1, UpstreamInvHolds, PTL

\* However many jobs the worker merges at once, and whatever the script has cached, a
\* reply has no address of another name (allIps, relay_worker.js).
THEOREM AddressesAreOwn == Spec => []OnlyOwnAddresses
  <1>1. ASSUME UpstreamInv PROVE OnlyOwnAddresses
    <2>1. CASE relayed
      BY <1>1, <2>1 DEF UpstreamInv, RelayInv, RelayTask, Suits, OfName, OnlyOwnAddresses
    <2>2. CASE ~relayed
      BY <1>1, <2>2 DEF UpstreamInv, TransportInv, AnswerOwn, OnlyOwnAddresses
    <2> QED BY <2>1, <2>2
  <1> QED BY <1>1, UpstreamInvHolds, PTL

\* What a script has cached opens for whoever asks for its tag (cache_key_for_domain).
THEOREM ScriptCacheOpens == Spec => []CachedOpens
  <1>1. ASSUME UpstreamInv PROVE CachedOpens
    <2>1. CASE relayed
      BY <1>1, <2>1 DEF UpstreamInv, RelayInv, ScriptOwn, OfName, Tags, CachedOpens
    <2>2. CASE ~relayed
      BY <1>1, <2>2 DEF UpstreamInv, RelayInit, CachedOpens
    <2> QED BY <2>1, <2>2
  <1> QED BY <1>1, UpstreamInvHolds, PTL

\* DoqPool::cached never hands a query a connection that had ended before it began.
THEOREM PoolIsFresh == Spec => []StaleNotHandedBack
  <1>1. ASSUME UpstreamInv PROVE StaleNotHandedBack
    <2>1. CASE relayed
      BY <1>1, <2>1 DEF UpstreamInv, TransportInit, StaleNotHandedBack
    <2>2. CASE ~relayed
      BY <1>1, <2>2 DEF UpstreamInv, TransportInv, DoqTask, StaleNotHandedBack
    <2> QED BY <2>1, <2>2
  <1> QED BY <1>1, UpstreamInvHolds, PTL

\* set_ecs_option puts the client's network, and nothing else that is new, into every
\* well-formed query, whatever its records and options.
THEOREM SubnetSet == SubnetIsSet
  <1> SUFFICES ASSUME NEW p \in Packets, NEW client \in Subnets \cup {NoClient}
               PROVE  IF client = NoClient
                      THEN set_ecs_option(p, client) = p
                      ELSE WellFormed(p) => InSubnet(p, client, set_ecs_option(p, client))
    BY DEF SubnetIsSet
  <1>1. CASE client = NoClient
    BY <1>1 DEF set_ecs_option
  <1>2. CASE client # NoClient
    <2> SUFFICES ASSUME WellFormed(p) PROVE InSubnet(p, client, rebuild_with_new_opt(p, client))
      BY <1>2 DEF set_ecs_option
    <2> QED
      BY OptIsRewritten, OptIsAdded
  <1> QED
    BY <1>1, <1>2

\* What a task hands to the resolver it has picked is its client's query with the client's
\* network in it (resolve_from_upstream calls set_ecs_option first of all).
THEOREM SubnetIsSeen == Spec => []UpstreamSeesSubnet
  <1>1. UpstreamSeesSubnet
    BY SubnetSet DEF UpstreamSeesSubnet
  <1> QED BY <1>1, PTL

=============================================================================
