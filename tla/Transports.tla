----------------------------- MODULE Transports -----------------------------
(***************************************************************************)
(* The ways from dns_relay to an upstream resolver                         *)
(* (dns_relay/src/resolver.rs): a POST over HTTPS, a datagram from a UDP   *)
(* socket of the query's own, or a stream of a pooled QUIC connection      *)
(* (DoqPool).                                                              *)
(*                                                                         *)
(* Tasks look for a connection, connect and store at their own pace, and   *)
(* connections end at any time.  A UDP socket is given any free port; an   *)
(* answer may be lost, arrive twice, or arrive after its socket is gone,   *)
(* when the port may be another query's.                                   *)
(***************************************************************************)
EXTENDS Resolution, Naturals, Sequences

CONSTANTS
    Https, Quic, Udp,   \* resolvers, by the scheme of their address
    Pools,              \* the orders the healthy list may be in
    Conns,              \* bound: QUIC connections made
    NoConn,             \* "no connection"
    Ports               \* bound: ephemeral ports

Resolvers == Https \cup Quic \cup Udp
NoPort == 0
NoUpstream == "none"

ASSUME TransportsAssumption ==
    /\ Pools \subseteq Seq(Resolvers) \ {<<>>}
    /\ NoConn \notin Conns
    /\ NoPort \notin Ports

VARIABLES
    upstream,   \* the resolver each task has picked
    conn,       \* the connection each task holds
    dead,       \* history: the connections that had ended when the task began
    pool,       \* DoqPool's connection for each resolver, or NoConn
    link,       \* the state of each connection
    ticket,     \* resolvers a session ticket is held for, so that 0-RTT works
    port,       \* the port each task has sent from
    wire        \* UDP answers on their way

doqVars == <<conn, pool, link, ticket>>
udpVars == <<port, wire>>
transportVars == <<upstream, dead, doqVars, udpVars>>

TransportInit ==
    /\ upstream = [t \in Tasks |-> NoUpstream]
    /\ conn = [t \in Tasks |-> NoConn]
    /\ dead = [t \in Tasks |-> {}]
    /\ pool = [r \in Quic |-> NoConn]
    /\ link = [c \in Conns |-> "unused"]
    /\ ticket = {}
    /\ port = [t \in Tasks |-> NoPort]
    /\ wire = {}

-----------------------------------------------------------------------------
(* resolve_from_upstream.                                                   *)

\* The first DoH resolver while a VPN is up, if there is one; else the first of all.
pick_doh_first(healthy, prefer_doh) ==
    LET doh == {i \in DOMAIN healthy : healthy[i] \in Https}
    IN  IF prefer_doh /\ doh # {}
        THEN healthy[CHOOSE i \in doh : \A j \in doh : i <= j]
        ELSE healthy[1]

Scheme(r) == IF r \in Https THEN "doh" ELSE IF r \in Quic THEN "doq" ELSE "udp"

Pick(t) ==
    /\ at[t] = "start"
    /\ \E healthy \in Pools, prefer_doh \in BOOLEAN :
          LET r == pick_doh_first(healthy, prefer_doh)
          IN  upstream' = [upstream EXCEPT ![t] = r] /\ Begin(t, Scheme(r))
    /\ dead' = [dead EXCEPT ![t] = {c \in Conns : link[c] = "closed"}]
    /\ UNCHANGED <<doqVars, udpVars>>

Message(t, id) == [about |-> ask[t], id |-> id, ips |-> {}]

\* resolve_via_doh: the answer belongs to the request.
DohAnswers(t) ==
    /\ at[t] = "doh"
    /\ Answered(t, Message(t, t))
    /\ UNCHANGED transportVars

\* An HTTP error, or the timeout.
DohFails(t) ==
    /\ at[t] = "doh"
    /\ Fail(t)
    /\ UNCHANGED transportVars

-----------------------------------------------------------------------------
(* UDP.                                                                     *)

\* Bug: all queries share one socket.
UdpSendShared(t) ==
    /\ at[t] = "udp"
    /\ port' = [port EXCEPT ![t] = CHOOSE p \in Ports : TRUE]
    /\ \/ wire' = wire \cup {[port |-> port'[t], from |-> upstream[t], message |-> Message(t, t)]}
       \/ UNCHANGED wire
    /\ Goto(t, "udp_wait")
    /\ UNCHANGED <<ask, reply, upstream, dead, doqVars>>

\* bind, connect, send.  The query or its answer may be lost.
UdpSend(t) ==
    /\ at[t] = "udp"
    /\ \E p \in Ports \ {port[u] : u \in {v \in Tasks : at[v] = "udp_wait"}} :
          /\ port' = [port EXCEPT ![t] = p]
          /\ \/ wire' = wire \cup {[port |-> p, from |-> upstream[t], message |-> Message(t, t)]}
             \/ UNCHANGED wire
    /\ Goto(t, "udp_wait")
    /\ UNCHANGED <<ask, reply, upstream, dead, doqVars>>

\* recv on the connected socket: from that resolver, to that port, unread otherwise.  The
\* datagram may have been duplicated, so that it is still to come.
UdpReceive(t) ==
    /\ at[t] = "udp_wait"
    /\ \E d \in wire :
          /\ d.port = port[t] /\ d.from = upstream[t]
          /\ Answered(t, d.message)
          /\ wire' \in {wire, wire \ {d}}
    /\ UNCHANGED <<upstream, dead, doqVars, port>>

\* An address that does not parse, a socket error, or the timeout.
UdpFails(t) ==
    /\ at[t] \in {"udp", "udp_wait"}
    /\ Fail(t)
    /\ UNCHANGED transportVars

\* An answer finds no socket at its port.
UdpUnclaimed(d) ==
    /\ d \in wire
    /\ \A t \in Tasks : at[t] = "udp_wait" => port[t] # d.port
    /\ wire' = wire \ {d}
    /\ UNCHANGED <<resolutionVars, upstream, dead, doqVars, port>>

-----------------------------------------------------------------------------
(* DoqPool.                                                                 *)

\* Bug: an entry is handed back without a look at close_reason.
cached_unchecked(r) == {pool[r]} \ {NoConn}

\* The connection to r that may be used, as a set of at most one.
cached(r) == {c \in {pool[r]} \ {NoConn} : link[c] = "open"}

DoqReuse(t) ==
    /\ at[t] = "doq"
    /\ \E c \in cached(upstream[t]) : conn' = [conn EXCEPT ![t] = c]
    /\ Goto(t, "doq_wait")
    /\ UNCHANGED <<ask, reply, upstream, dead, pool, link, ticket, udpVars>>

\* into_0rtt: with a session ticket that is still good the connection is usable before
\* its handshake is done.
DoqConnect(t) ==
    /\ at[t] = "doq"
    /\ cached(upstream[t]) = {}
    /\ \E c \in Conns :
          /\ link[c] = "unused"
          /\ conn' = [conn EXCEPT ![t] = c]
          /\ \/ /\ upstream[t] \in ticket
                /\ link' = [link EXCEPT ![c] = "open"] /\ Goto(t, "doq_store")
             \/ link' = [link EXCEPT ![c] = "dialing"] /\ Goto(t, "doq_shake")
    /\ UNCHANGED <<ask, reply, upstream, dead, pool, ticket, udpVars>>

DoqShaken(t) ==
    /\ at[t] = "doq_shake"
    /\ link' = [link EXCEPT ![conn[t]] = "open"]
    /\ ticket' = ticket \cup {upstream[t]}
    /\ Goto(t, "doq_store")
    /\ UNCHANGED <<ask, reply, upstream, dead, conn, pool, udpVars>>

\* store: it replaces what another task has stored meanwhile, and does not look at
\* whether the connection has ended since.
DoqStore(t) ==
    /\ at[t] = "doq_store"
    /\ pool' = [pool EXCEPT ![upstream[t]] = conn[t]]
    /\ Goto(t, "doq_wait")
    /\ UNCHANGED <<ask, reply, upstream, dead, conn, link, ticket, udpVars>>

\* A task that ends drops its handle of the connection.
Release(t) == conn' = [conn EXCEPT ![t] = NoConn] /\ dead' = [dead EXCEPT ![t] = {}]

\* send_query: a stream of the query's own, with the ID zeroed.
DoqAnswers(t) ==
    /\ at[t] = "doq_wait"
    /\ link[conn[t]] = "open"
    /\ Answered(t, Message(t, Zero))
    /\ Release(t)
    /\ UNCHANGED <<upstream, pool, link, ticket, udpVars>>

\* The target does not parse, no connection can be set up, the handshake or the
\* stream fails, or the timeout passes at one of them.  A task that is dropped drops the
\* connection it was still setting up; nothing is taken out of the pool.
DoqFails(t) ==
    /\ at[t] \in {"doq", "doq_shake", "doq_wait"}
    /\ at[t] = "doq" => cached(upstream[t]) = {}
    /\ Fail(t)
    /\ link' = IF at[t] = "doq_shake" THEN [link EXCEPT ![conn[t]] = "closed"] ELSE link
    /\ Release(t)
    /\ UNCHANGED <<upstream, pool, ticket, udpVars>>

\* The peer closes, the idle timeout passes, the handshake of a 0-RTT connection fails.
DoqCloses(c) ==
    /\ link[c] = "open"
    /\ link' = [link EXCEPT ![c] = "closed"]
    /\ UNCHANGED <<resolutionVars, upstream, dead, conn, pool, ticket, udpVars>>

-----------------------------------------------------------------------------

TransportStep(t) ==
    \/ Pick(t)
    \/ DohAnswers(t) \/ DohFails(t)
    \/ UdpSend(t) \/ UdpReceive(t) \/ UdpFails(t)
    \/ DoqReuse(t) \/ DoqConnect(t) \/ DoqShaken(t) \/ DoqStore(t)
    \/ DoqAnswers(t) \/ DoqFails(t)

TransportNext ==
    \/ \E t \in Tasks : TransportStep(t)
    \/ \E d \in wire : UdpUnclaimed(d)
    \/ \E c \in Conns : DoqCloses(c)

-----------------------------------------------------------------------------
(* Properties.                                                              *)

\* u has used the port that t uses, to the same resolver, and no longer does.
UsedBefore(u, t) ==
    /\ upstream[u] = upstream[t] /\ upstream[t] \in Udp
    /\ port[u] = port[t] /\ port[t] # NoPort
    /\ at[u] # "udp_wait"

\* t got the answer to another query, which had used the same port: UDP answers are told
\* apart by the socket alone.  That query was given up, or had its answer twice.
FromOldPort(t) == \E u \in Tasks \ {t} : UsedBefore(u, t) /\ reply[t].about = ask[u]

\* No query is given a connection that had ended before the query began, whatever
\* stale entry another task left in the pool or stored over a live one ("a stale entry
\* is worse than no entry, so don't hand it back", DoqPool::cached): what a connection
\* takes down with it are the queries that were already under way.
StaleNotHandedBack == \A t \in Tasks : conn[t] \notin dead[t]

=============================================================================
