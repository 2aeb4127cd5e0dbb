------------------------------ MODULE NetGuard ------------------------------
(***************************************************************************)
(* The network guard of shared/src/netguard.rs with its Linux backend: a   *)
(* loop that looks for a VPN interface and, while there is one, points the *)
(* DNS of that interface and of the default route at this resolver, and    *)
(* takes back what it set when the VPN is gone.                            *)
(*                                                                         *)
(* Each tick is a series of external commands (ip, resolvectl).  Between   *)
(* any two of them the VPN, its client and the routes may change, and each *)
(* of them may fail.                                                       *)
(* MacGuard adds the other backend and the specification.                  *)
(***************************************************************************)
EXTENDS Naturals, FiniteSets

CONSTANTS
    Links,      \* network interfaces
    Tunnels,    \* the ones with a VPN prefix
    Routable,   \* the ones that may hold the default route
    Static,     \* the ones whose user has set this resolver with resolvectl
    NoLink,     \* "no interface"
    Faults,     \* the commands that may fail
    MaxFaults,  \* bound: how many of them do
    MaxEvents   \* bound: how often the network changes

Commands == {"detect", "route", "status", "check", "set", "domain", "force", "revert"}

ASSUME GuardAssumption ==
    /\ Tunnels \subseteq Links /\ Routable \subseteq Links /\ Static \subseteq Links
    /\ NoLink \notin Links
    /\ Faults \subseteq Commands
    /\ MaxFaults \in Nat /\ MaxEvents \in Nat

VARIABLES
    up,             \* the tunnels that are up
    default,        \* the interface with the default route, or NoLink
    dns,            \* who set each interface's DNS: "auto", "user", "vpn" or "guard"
    domain,         \* does the interface have the "~." routing domain?
    is_vpn_active,  \* the flag the picker reads
    touched,        \* TOUCHED_LINKS
    pc,             \* the command the guard runs next
    todo,           \* the targets left in this tick
    iface,          \* the target in hand
    faults,         \* commands that failed so far
    events          \* changes of the network so far

network == <<up, default, events>>
vars == <<up, default, dns, domain, is_vpn_active, touched, pc, todo, iface, faults, events>>

Init ==
    /\ up = {}
    /\ default \in Routable
    /\ dns = [l \in Links |-> IF l \in Static THEN "user" ELSE "auto"]
    /\ domain = [l \in Links |-> FALSE]
    /\ is_vpn_active \in BOOLEAN     \* dns_relay starts with FALSE, resolver_proxy with TRUE
    /\ touched = {}
    /\ pc = "detect"
    /\ todo = {}
    /\ iface = NoLink
    /\ faults = 0
    /\ events = 0

\* Command c works, or fails.
Works == UNCHANGED faults
Fails(c) == c \in Faults /\ faults < MaxFaults /\ faults' = faults + 1

-----------------------------------------------------------------------------
(* A tick of the guard.                                                     *)

\* Bug: the DNS is asserted only when the flag changes.
DetectOnChange ==
    /\ pc = "detect" /\ Works
    /\ is_vpn_active' = (up # {})
    /\ \/ \E v \in up : todo' = {v} /\ pc' = IF is_vpn_active THEN "sleep" ELSE "route"
       \/ /\ up = {} /\ UNCHANGED todo
          /\ pc' = IF is_vpn_active THEN "revert" ELSE "sleep"
    /\ UNCHANGED <<network, dns, domain, touched, iface>>

\* detect_vpn_interface and the swap of the flag.
Detect ==
    /\ pc = "detect" /\ Works
    /\ is_vpn_active' = (up # {})
    /\ \/ \E v \in up : todo' = {v} /\ pc' = "route"
       \/ /\ up = {} /\ UNCHANGED todo
          /\ pc' = IF is_vpn_active THEN "revert" ELSE "sleep"
    /\ UNCHANGED <<network, dns, domain, touched, iface>>

\* Bug: every link is a target.
RouteAllLinks ==
    /\ pc = "route" /\ Works
    /\ todo' = Links
    /\ pc' = "status"
    /\ UNCHANGED <<network, dns, domain, is_vpn_active, touched, iface>>

\* get_default_route_iface: a failure counts as no default route.
Route ==
    /\ pc = "route"
    /\ \/ Works /\ todo' = todo \cup ({default} \ {NoLink})
       \/ Fails("route") /\ UNCHANGED todo
    /\ pc' = "status"
    /\ UNCHANGED <<network, dns, domain, is_vpn_active, touched, iface>>

Status ==
    /\ pc = "status" /\ Works
    /\ pc' = "check"
    /\ UNCHANGED <<network, dns, domain, is_vpn_active, touched, todo, iface>>

\* The commands whose failure ends the tick.
TickFails ==
    /\ pc \in {"detect", "status", "set"}
    /\ Fails(pc)
    /\ pc' = "sleep" /\ todo' = {}
    /\ UNCHANGED <<network, dns, domain, is_vpn_active, touched, iface>>

\* is_already_correct: it compares the address only, not the routing domain.
Check(l) ==
    /\ pc = "check" /\ l \in todo
    /\ todo' = todo \ {l}
    /\ \/ /\ Works /\ dns[l] \in {"guard", "user"}
          /\ touched' = touched \cup {l}
          /\ UNCHANGED <<pc, iface>>
       \/ /\ (Works /\ dns[l] \notin {"guard", "user"}) \/ Fails("check")
          /\ pc' = "set" /\ iface' = l
          /\ UNCHANGED touched
    /\ UNCHANGED <<network, dns, domain, is_vpn_active>>

CheckDone ==
    /\ pc = "check" /\ todo = {} /\ Works
    /\ pc' = "sleep"
    /\ UNCHANGED <<network, dns, domain, is_vpn_active, touched, todo, iface>>

\* Bug: the link is remembered only after the whole tick.
SetUntracked ==
    /\ pc = "set" /\ Works
    /\ dns' = [dns EXCEPT ![iface] = "guard"]
    /\ pc' = "domain"
    /\ UNCHANGED <<network, touched, domain, is_vpn_active, todo, iface>>

\* resolvectl dns; it may also run and report an error.
Set ==
    /\ pc = "set"
    /\ \/ /\ Works
          /\ dns' = [dns EXCEPT ![iface] = "guard"]
          /\ touched' = touched \cup {iface}
          /\ pc' = "domain"
       \/ Fails("set") /\ pc' = "check" /\ UNCHANGED <<dns, touched>>
    /\ UNCHANGED <<network, domain, is_vpn_active, todo, iface>>

Domain ==
    /\ pc = "domain"
    /\ \/ Works /\ domain' = [domain EXCEPT ![iface] = TRUE]
       \/ Fails("domain") /\ UNCHANGED domain
    /\ pc' = "check"
    /\ UNCHANGED <<network, dns, is_vpn_active, touched, todo, iface>>

\* revert drains the set: what fails to be reverted is forgotten all the same.
Revert(l) ==
    /\ pc = "revert" /\ l \in touched
    /\ touched' = touched \ {l}
    /\ \/ /\ Works
          /\ dns' = [dns EXCEPT ![l] = "auto"]
          /\ domain' = [domain EXCEPT ![l] = FALSE]
       \/ Fails("revert") /\ UNCHANGED <<dns, domain>>
    /\ UNCHANGED <<network, is_vpn_active, pc, todo, iface>>

RevertDone ==
    /\ pc = "revert" /\ touched = {} /\ Works
    /\ pc' = "sleep"
    /\ UNCHANGED <<network, dns, domain, is_vpn_active, touched, todo, iface>>

Wake ==
    /\ pc = "sleep" /\ Works
    /\ pc' = "detect"
    /\ UNCHANGED <<network, dns, domain, is_vpn_active, touched, todo, iface>>

Guard ==
    \/ Detect \/ Route \/ Status \/ TickFails
    \/ \E l \in Links : Check(l) \/ Revert(l)
    \/ CheckDone \/ Set \/ Domain \/ RevertDone \/ Wake

-----------------------------------------------------------------------------
(* The network around it.                                                   *)

Event == events < MaxEvents /\ events' = events + 1
guardVars == <<is_vpn_active, touched, pc, todo, iface, faults>>

VpnUp(l) ==
    /\ Event
    /\ l \in Tunnels \ up
    /\ up' = up \cup {l}
    /\ dns' = [dns EXCEPT ![l] = "vpn"]
    /\ UNCHANGED <<default, domain, guardVars>>

\* The interface goes away, and its DNS configuration with it.
VpnDown(l) ==
    /\ Event
    /\ l \in up
    /\ up' = up \ {l}
    /\ dns' = [dns EXCEPT ![l] = "auto"]
    /\ domain' = [domain EXCEPT ![l] = FALSE]
    /\ UNCHANGED <<default, guardVars>>

\* The VPN client points an interface at its own resolver.
Hijack(l) ==
    /\ Event
    /\ up # {} /\ l \in up \cup ({default} \ {NoLink})
    /\ dns[l] # "vpn"
    /\ dns' = [dns EXCEPT ![l] = "vpn"]
    /\ UNCHANGED <<up, default, domain, guardVars>>

MoveDefault(l) ==
    /\ Event
    /\ l \in (Routable \cup {NoLink}) \ {default}
    /\ default' = l
    /\ UNCHANGED <<up, dns, domain, guardVars>>

Network == \E l \in Links \cup {NoLink} : VpnUp(l) \/ VpnDown(l) \/ Hijack(l) \/ MoveDefault(l)

Next == Guard \/ Network

-----------------------------------------------------------------------------
(* Properties.                                                              *)

\* The guard changes no interface that is neither a tunnel nor ever has the default
\* route (the bug the comment in tick tells of: docker0, br-*, veth*).  The README of
\* dns_relay says the opposite, that the resolver is set on "every link" (line 159).
OthersUntouched ==
    \A l \in Links \ (Tunnels \cup Routable) : dns[l] # "guard" /\ ~domain[l]

\* While the guard believes that no VPN is up, nothing it set is left: also when
\* the VPN went down, moved the default route or came back in the middle of a tick,
\* and when a tick was cut short by a failing command (only the revert itself must
\* work).  A tick that is about to revert is not done yet.
NothingLeftBehind ==
    ~is_vpn_active /\ pc # "revert" => \A l \in Links : dns[l] # "guard" /\ ~domain[l]

\* While a VPN stays up the interface with the default route is brought back to this
\* resolver every time something else takes it over.
LinkReasserted ==
    \A l \in Routable :
        default = l /\ up # {} /\ dns[l] = "vpn" ~>
            default # l \/ up = {} \/ dns[l] # "vpn"

=============================================================================
