----------------------------- MODULE Resolution -----------------------------
(***************************************************************************)
(* One upstream resolution of dns_relay, as resolve_query                  *)
(* (dns_relay/src/handler.rs) starts and ends it: a task has a question,   *)
(* awaits a relay or a resolver under a timeout, and turns what comes back *)
(* into the reply for its client.  Transports and RelayChain say what      *)
(* happens in between.                                                     *)
(***************************************************************************)

CONSTANTS
    Tasks,      \* tasks resolving a question; also the IDs of their queries
    Names,      \* names asked for
    Types,      \* record types asked for
    Asked,      \* the questions that are asked
    NoReply     \* "no reply yet"

ASSUME AskedAssumption == Asked \subseteq Names \X Types /\ Asked # {}

VARIABLES
    ask,    \* each task's question, once it has begun
    at,     \* where each task is
    reply   \* the reply each task has for its client

resolutionVars == <<ask, at, reply>>

Zero == "zero"      \* the ID of a message sent over DoQ

ResolutionInit ==
    /\ ask = [t \in Tasks |-> CHOOSE q \in Asked : TRUE]
    /\ at = [t \in Tasks |-> "start"]
    /\ reply = [t \in Tasks |-> NoReply]

Goto(t, phase) == at' = [at EXCEPT ![t] = phase]

\* The cache had no answer to some question, and the upstream is asked.
Begin(t, phase) ==
    /\ \E q \in Asked : ask' = [ask EXCEPT ![t] = q]
    /\ Goto(t, phase)
    /\ UNCHANGED reply

\* The message, relabelled with the ID of the client's query.
with_txid(message, t) == [message EXCEPT !.id = t]

\* The Ok arm of resolve_query.
Answered(t, message) ==
    /\ Goto(t, "answered")
    /\ reply' = [reply EXCEPT ![t] = with_txid(message, t)]
    /\ UNCHANGED ask

\* The Err arms: an error, or the timeout passes and what the task awaited is dropped.
\* The client gets a SERVFAIL made from its own query.
Fail(t) == Goto(t, "failed") /\ UNCHANGED <<ask, reply>>

=============================================================================
