------------------------------ MODULE Upstream ------------------------------
(***************************************************************************)
(* What resolve_query awaits on a cache miss (dns_relay/src/handler.rs): a *)
(* relay instance if relays are configured, else a resolver.  The two ways *)
(* share nothing but the tasks.                                            *)
(***************************************************************************)
EXTENDS Transports, RelayChain, EdnsSubnet

VARIABLE
    relayed     \* is there a relay_picker?

vars == <<resolutionVars, transportVars, relayVars, relayed>>

Init ==
    /\ relayed \in BOOLEAN
    /\ ResolutionInit
    /\ TransportInit
    /\ RelayInit

ViaRelay == relayed /\ RelayNext /\ UNCHANGED <<transportVars, relayed>>

ViaResolver == ~relayed /\ TransportNext /\ UNCHANGED <<relayVars, relayed>>

Next == ViaRelay \/ ViaResolver

Spec == Init /\ [][Next]_vars

-----------------------------------------------------------------------------
(* Properties.                                                              *)

\* Every reply has the ID of its client's query and answers that query's question,
\* though DoQ zeroes the ID, a script returns another query's, and several queries are
\* on one connection.  There are two ways to get another answer: a script has cached
\* one of another type for the same name, or a UDP port is used again while an answer to
\* its former query, which was given up or is answered twice, is still on its way.
AnswerMatches ==
    \A t \in Tasks :
        at[t] = "answered" =>
            /\ reply[t].id = t
            /\ reply[t].about = ask[t] \/ FromScript(t) \/ FromOldPort(t)

\* What a task hands to the resolver it picked, whichever the transport, is the client's
\* query with the client's network and no other in it (set_ecs_option is applied first
\* of all in resolve_from_upstream): all the client asked for is still there, in a
\* well-formed packet, whether it came without EDNS, with other options, with a network
\* of its own choice or with records behind the OPT record.
UpstreamSeesSubnet == \A t \in Tasks : upstream[t] # NoUpstream => SubnetIsSet

=============================================================================
