----------------------------- MODULE RelayChain -----------------------------
(***************************************************************************)
(* The relay chain: dns_relay's picker and clients (dns_relay/src/         *)
(* relay.rs), the Google Apps Script hop with its cache (assets/           *)
(* relay_google_script.js) and the Cloudflare Worker that asks several DoH *)
(* endpoints and merges what they say (assets/relay_worker.js).            *)
(*                                                                         *)
(* A request goes on through the hops after its task has given up, and     *)
(* what the script gets back then is still cached.  Encryption is modelled *)
(* by the key: what is sealed under one key opens under that key only.     *)
(***************************************************************************)
EXTENDS Resolution, Naturals, Sequences

CONSTANTS
    Relays,     \* the instances: [transport, key, url] each
    WorkerOf,   \* the worker behind each URL: its own, or the one a script calls
    WorkerKey,  \* each worker's RELAY_KEY
    Endpoints,  \* DOH_ENDPOINTS
    Addresses,  \* IPv4 addresses
    Gives,      \* the addresses each endpoint gives for each name
    ARounds,    \* how often the worker asks for addresses
    CursorMod,  \* the number of values of the picker's usize
    NoSeal      \* "nothing sealed"

ASSUME RelaysAssumption ==
    /\ Len(Relays) \in Nat \ {0} /\ DOMAIN Relays = 1..Len(Relays)
    /\ \A i \in DOMAIN Relays : Relays[i].transport \in {"direct", "google_chained"}
    /\ Gives \in [Endpoints -> [Names -> SUBSET Addresses]]
    /\ ARounds \in Nat \ {0} /\ CursorMod \in Nat \ {0}

VARIABLES
    booted,     \* the instances RelayPicker::new has built so far
    last_idx,   \* the picker's counter
    via,        \* the instance each task has picked
    hop,        \* where each task's request is
    job,        \* the worker's work on it
    sealed,     \* the encrypted reply on its way back
    script      \* what each script has cached under each tag

relayVars == <<booted, last_idx, via, hop, job, sealed, script>>

Keys == {Relays[i].key : i \in DOMAIN Relays}
Scripts == {Relays[i].url : i \in {j \in DOMAIN Relays : Relays[j].transport = "google_chained"}}
NoJob == [round |-> 0, ips |-> {}, some |-> FALSE]

RelayInit ==
    /\ booted = 0
    /\ last_idx = 0
    /\ via = [t \in Tasks |-> 0]
    /\ hop = [t \in Tasks |-> "none"]
    /\ job = [t \in Tasks |-> NoJob]
    /\ sealed = [t \in Tasks |-> NoSeal]
    /\ script = [s \in Scripts |-> [tag \in Keys \X Names |-> NoSeal]]

Instance(t) == Relays[via[t]]
Chained(t) == Instance(t).transport = "google_chained"
Name(t) == ask[t][1]
IsAQuery(t) == ask[t][2] = "A"

\* The hops send the client an answer to its POST, or an error, if it is still there.
ToClient(t, answer) ==
    /\ hop' = [hop EXCEPT ![t] = IF at[t] = "relay" /\ answer # NoSeal THEN "reply" ELSE "none"]
    /\ sealed' = [sealed EXCEPT ![t] = IF at[t] = "relay" THEN answer ELSE NoSeal]

\* The client no longer waits; a request that is still with a hop stays there.
HangUp(t) ==
    /\ hop' = IF hop[t] = "reply" THEN [hop EXCEPT ![t] = "none"] ELSE hop
    /\ sealed' = IF hop[t] = "reply" THEN [sealed EXCEPT ![t] = NoSeal] ELSE sealed
    /\ UNCHANGED <<booted, last_idx, via, job, script>>

-----------------------------------------------------------------------------
(* The client.                                                              *)

\* RelayInstance::new for the next instance; RelayPicker::new returns after the last.
BootRelay ==
    /\ booted < Len(Relays)
    /\ booted' = booted + 1
    /\ UNCHANGED <<resolutionVars, last_idx, via, hop, job, sealed, script>>

\* A query served before the ones followed here takes its turn.
EarlierPick ==
    /\ booted = Len(Relays) /\ \A t \in Tasks : at[t] = "start"
    /\ last_idx' = (last_idx + 1) % CursorMod
    /\ UNCHANGED <<resolutionVars, booted, via, hop, job, sealed, script>>

\* The instance whose turn it is: fetch_add on an AtomicUsize, which wraps.
pick == (last_idx % Len(Relays)) + 1

\* The query is sealed and posted to the instance's URL.
RelayPost(t) ==
    /\ at[t] = "start"
    /\ booted = Len(Relays)
    /\ via' = [via EXCEPT ![t] = pick]
    /\ last_idx' = (last_idx + 1) % CursorMod
    /\ hop' = [hop EXCEPT ![t] =
                 IF Relays[via'[t]].transport = "direct" THEN "worker" ELSE "script"]
    /\ Begin(t, "relay")
    /\ UNCHANGED <<booted, job, sealed, script>>

\* decode_from_relay: a message opens under the key it was sealed with.
Opens(message, key) == message.key = key

RelayReceive(t) ==
    /\ at[t] = "relay" /\ hop[t] = "reply"
    /\ IF Opens(sealed[t], Instance(t).key)
       THEN Answered(t, sealed[t].message)
       ELSE Fail(t)
    /\ HangUp(t)

\* An HTTP error, a hop's error message, which does not decrypt or says "error", or the
\* timeout.
RelayFails(t) ==
    /\ at[t] = "relay"
    /\ Fail(t)
    /\ HangUp(t)

-----------------------------------------------------------------------------
(* The Apps Script hop.                                                     *)

\* The tag is made by the client: the name under its key, without the type.
cache_key_for_domain(t) == <<Instance(t).key, Name(t)>>

ScriptHit(t) ==
    /\ hop[t] = "script"
    /\ LET entry == script[Instance(t).url][cache_key_for_domain(t)]
       IN  entry # NoSeal /\ ToClient(t, entry)
    /\ UNCHANGED <<resolutionVars, booted, last_idx, via, job, script>>

ScriptMiss(t) ==
    /\ hop[t] = "script"
    /\ script[Instance(t).url][cache_key_for_domain(t)] = NoSeal
    /\ hop' = [hop EXCEPT ![t] = "worker"]
    /\ UNCHANGED <<resolutionVars, booted, last_idx, via, job, sealed, script>>

\* The worker's reply is cached and passed on.
ScriptPut(t) ==
    /\ hop[t] = "script_put"
    /\ script' = [script EXCEPT ![Instance(t).url][cache_key_for_domain(t)] = sealed[t]]
    /\ ToClient(t, sealed[t])
    /\ UNCHANGED <<resolutionVars, booted, last_idx, via, job>>

\* An exception: the client gets an error.
ScriptThrows(t) ==
    /\ hop[t] \in {"script", "script_put"}
    /\ ToClient(t, NoSeal)
    /\ UNCHANGED <<resolutionVars, booted, last_idx, via, job, script>>

\* After CACHE_TTL_SECONDS, or when the cache service has no more room.
ScriptForgets(s, tag) ==
    /\ script[s][tag] # NoSeal
    /\ script' = [script EXCEPT ![s][tag] = NoSeal]
    /\ UNCHANGED <<resolutionVars, booted, last_idx, via, hop, job, sealed>>

-----------------------------------------------------------------------------
(* The worker.                                                              *)

Worker(t) == WorkerOf[Instance(t).url]
Rounds(t) == IF IsAQuery(t) THEN ARounds ELSE 1
Decodes(t) == WorkerKey[Worker(t)] = Instance(t).key

\* A query that does not open under the worker's key is a bad request.
WorkerRejects(t) ==
    /\ hop[t] = "worker" /\ ~Decodes(t)
    /\ ToClient(t, NoSeal)
    /\ UNCHANGED <<resolutionVars, booted, last_idx, via, job, script>>

\* Endpoints are asked all at once, and any of them may fail.
Settled == SUBSET Endpoints

AddressesFrom(settled, name) == UNION {Gives[e][name] : e \in settled}

\* Bug: allIps outlives the request, as a variable of the worker.
WorkerRoundShared(t) ==
    /\ hop[t] = "worker" /\ Decodes(t) /\ job[t].round < Rounds(t)
    /\ \E settled \in Settled :
          job' = [job EXCEPT ![t] =
                    [round |-> @.round + 1,
                     ips |-> UNION {job[u].ips : u \in Tasks}
                               \cup AddressesFrom(settled, Name(t)),
                     some |-> @.some \/ settled # {}]]
    /\ UNCHANGED <<resolutionVars, booted, last_idx, via, hop, sealed, script>>

\* What the endpoints say in one round is added to what they said before.
WorkerRound(t) ==
    /\ hop[t] = "worker" /\ Decodes(t) /\ job[t].round < Rounds(t)
    /\ \E settled \in Settled :
          job' = [job EXCEPT ![t] =
                    [round |-> @.round + 1,
                     ips |-> @.ips \cup AddressesFrom(settled, Name(t)),
                     some |-> @.some \/ settled # {}]]
    /\ UNCHANGED <<resolutionVars, booted, last_idx, via, hop, sealed, script>>

\* rewriteAnswersWithIps: the addresses of all rounds go into the last reply.  A reply
\* of another type passes as it is.
FinalReply(t) ==
    [about |-> ask[t], id |-> t, ips |-> IF IsAQuery(t) THEN job[t].ips ELSE {}]

\* What the worker returns goes to the script, if one asked, or else to the client.
FromWorker(t, answer) ==
    IF Chained(t)
    THEN /\ hop' = [hop EXCEPT ![t] = "script_put"]
         /\ sealed' = [sealed EXCEPT ![t] = answer]
    ELSE ToClient(t, answer)

\* Bug: the script does not look at the status of what it caches.
WorkerDoneUnchecked(t) ==
    /\ hop[t] = "worker" /\ Decodes(t) /\ job[t].round = Rounds(t)
    /\ FromWorker(t, [key |-> IF job[t].some THEN WorkerKey[Worker(t)] ELSE "plain",
                      message |-> FinalReply(t)])
    /\ job' = [job EXCEPT ![t] = NoJob]
    /\ UNCHANGED <<resolutionVars, booted, last_idx, via, script>>

\* Without any reply the worker answers with a 502, which no hop caches.
WorkerDone(t) ==
    /\ hop[t] = "worker" /\ Decodes(t) /\ job[t].round = Rounds(t)
    /\ IF job[t].some
       THEN FromWorker(t, [key |-> WorkerKey[Worker(t)], message |-> FinalReply(t)])
       ELSE ToClient(t, NoSeal)
    /\ job' = [job EXCEPT ![t] = NoJob]
    /\ UNCHANGED <<resolutionVars, booted, last_idx, via, script>>

-----------------------------------------------------------------------------

RelayStep(t) ==
    \/ RelayPost(t) \/ RelayReceive(t) \/ RelayFails(t)
    \/ ScriptHit(t) \/ ScriptMiss(t) \/ ScriptPut(t) \/ ScriptThrows(t)
    \/ WorkerRejects(t) \/ WorkerRound(t) \/ WorkerDone(t)

RelayNext ==
    \/ BootRelay
    \/ EarlierPick
    \/ \E t \in Tasks : RelayStep(t)
    \/ \E s \in Scripts, tag \in Keys \X Names : ScriptForgets(s, tag)

-----------------------------------------------------------------------------
(* Properties.                                                              *)

\* t may have got what a script cached for another query of the same name.
FromScript(t) == via[t] # 0 /\ Chained(t) /\ reply[t].about[1] = Name(t)

\* Every address in a relayed reply is one that some endpoint gives for the very name
\* the task asked for, however many requests the worker is merging answers for at once
\* and whoever's reply the script had cached (allIps of the worker, the tag of the
\* script's cache).
OnlyOwnAddresses ==
    \A t \in Tasks :
        at[t] = "answered" => reply[t].ips \subseteq AddressesFrom(Endpoints, Name(t))

\* Everything a script has cached under a tag opens under the key the tag was made
\* with and is about its name: no error of a worker, and no reply for a client with
\* another key, is ever served from the cache (the status check before cache.put,
\* cache_key_for_domain).
CachedOpens ==
    \A s \in Scripts, tag \in Keys \X Names :
        script[s][tag] # NoSeal =>
            script[s][tag].key = tag[1] /\ script[s][tag].message.about[1] = tag[2]

\* "Same job as `resolve_via_relay`": a reply that came through a script answers the
\* question that was asked, as one straight from the worker does.
SameJob ==
    \A t \in Tasks :
        at[t] = "answered" /\ via[t] # 0 /\ Chained(t) => reply[t].about = ask[t]

=============================================================================
