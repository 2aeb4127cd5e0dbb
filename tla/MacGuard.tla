------------------------------ MODULE MacGuard ------------------------------
(***************************************************************************)
(* The network guard with its macOS backend (shared/src/netguard.rs):      *)
(* while a VPN is up, the DNS of every network service is set with         *)
(* networksetup, and that of the primary service is overridden in the      *)
(* State: store of scutil as well.  The loop, the detection and the flag   *)
(* are NetGuard's; a program has one backend or the other.                 *)
(***************************************************************************)
EXTENDS NetGuard

CONSTANTS
    Services,   \* network services that are enabled
    Manual      \* the ones whose user has set this resolver

ASSUME ServicesAssumption == Manual \subseteq Services /\ NoLink \notin Services

VARIABLES
    platform,           \* "linux" or "macos"
    primary,            \* the primary service, or NoLink
    service_dns,        \* who set each service's DNS: "auto", "user", "vpn" or "guard"
    override,           \* does the guard's State: override of the service stand?
    scutil_service_id,  \* the service remembered for it, or NoLink
    forgotten           \* history: services that another one was remembered in place of
                        \* since they were overridden last

services == <<primary, service_dns, override>>
memory == <<scutil_service_id, forgotten>>
macVars == <<services, memory>>
linuxVars == <<default, dns, domain>>
guardedVars == <<vars, platform, macVars>>

GuardedInit ==
    /\ Init
    /\ platform \in {"linux", "macos"}
    /\ primary \in IF platform = "macos" THEN Services ELSE {NoLink}
    /\ service_dns = [s \in Services |-> IF s \in Manual THEN "user" ELSE "auto"]
    /\ override = [s \in Services |-> FALSE]
    /\ scutil_service_id = NoLink
    /\ forgotten = {}

-----------------------------------------------------------------------------
(* A tick.                                                                  *)

\* get_primary_service_id.
MacPrimary ==
    /\ pc = "route"
    /\ \/ Works /\ primary # NoLink /\ iface' = primary /\ pc' = "force"
       \/ Works /\ primary = NoLink /\ pc' = "status" /\ UNCHANGED iface
       \/ Fails("route") /\ pc' = "status" /\ UNCHANGED iface
    /\ UNCHANGED <<up, events, is_vpn_active, touched, todo, macVars>>

\* There is room for one service id: the one it held is forgotten.
Remember(s) ==
    /\ scutil_service_id' = s
    /\ forgotten' = (forgotten \cup ({scutil_service_id} \ {NoLink})) \ {s}

\* Bug: a service is remembered only when the command prints nothing unexpected.
MacForceUnremembered ==
    /\ pc = "force" /\ Works
    /\ override' = [override EXCEPT ![iface] = TRUE]
    /\ Remember(iface) \/ UNCHANGED memory
    /\ pc' = "status"
    /\ UNCHANGED <<up, events, is_vpn_active, touched, todo, iface, primary, service_dns>>

\* force_primary_dns_state.  scutil may also fail in its exit status, which nobody
\* looks at.
MacForce ==
    /\ pc = "force"
    /\ \/ /\ Works
          /\ override' = [override EXCEPT ![iface] = TRUE]
          /\ Remember(iface)
       \/ /\ Fails("force")
          /\ Remember(iface) \/ UNCHANGED memory
          /\ UNCHANGED override
    /\ pc' = "status"
    /\ UNCHANGED <<up, events, is_vpn_active, touched, todo, iface, primary, service_dns>>

\* reassert_dns_on_all_services.
MacList ==
    /\ pc = "status" /\ Works
    /\ todo' = Services
    /\ pc' = "check"
    /\ UNCHANGED <<up, events, is_vpn_active, touched, iface, macVars>>

\* reassert_dns_on_service, up to the look at the current setting.
MacCheck(s) ==
    /\ pc = "check" /\ s \in todo
    /\ todo' = todo \ {s}
    /\ \/ /\ Works /\ service_dns[s] \in {"guard", "user"}
          /\ touched' = touched \cup {s}
          /\ UNCHANGED <<pc, iface>>
       \/ /\ (Works /\ service_dns[s] \notin {"guard", "user"}) \/ Fails("check")
          /\ pc' = "set" /\ iface' = s
          /\ UNCHANGED touched
    /\ UNCHANGED <<up, events, is_vpn_active, macVars>>

\* The rest of it.  A service that cannot be set does not end the tick.
MacSet ==
    /\ pc = "set"
    /\ \/ /\ Works
          /\ service_dns' = [service_dns EXCEPT ![iface] = "guard"]
          /\ touched' = touched \cup {iface}
       \/ Fails("set") /\ UNCHANGED <<service_dns, touched>>
    /\ pc' = "check"
    /\ UNCHANGED <<up, events, is_vpn_active, todo, iface, primary, override, memory>>

\* revert: the override that is remembered is removed first.
MacUnforce ==
    /\ pc = "revert" /\ scutil_service_id # NoLink
    /\ scutil_service_id' = NoLink
    /\ \/ Works /\ override' = [override EXCEPT ![scutil_service_id] = FALSE]
       \/ Fails("revert") /\ UNCHANGED override
    /\ UNCHANGED <<up, events, is_vpn_active, touched, pc, todo, iface, primary, service_dns,
                   forgotten>>

MacRevert(s) ==
    /\ pc = "revert" /\ scutil_service_id = NoLink /\ s \in touched
    /\ touched' = touched \ {s}
    /\ \/ Works /\ service_dns' = [service_dns EXCEPT ![s] = "auto"]
       \/ Fails("revert") /\ UNCHANGED service_dns
    /\ UNCHANGED <<up, events, is_vpn_active, pc, todo, iface, primary, override, memory>>

\* The steps a tick has in common with the one on Linux.
MacCommon ==
    /\ \/ Detect \/ CheckDone \/ Wake
       \/ TickFails /\ pc # "set"
       \/ RevertDone /\ scutil_service_id = NoLink
    /\ UNCHANGED macVars

MacTick ==
    \/ MacCommon \/ MacPrimary \/ MacForce \/ MacList \/ MacSet \/ MacUnforce
    \/ \E s \in Services : MacCheck(s) \/ MacRevert(s)

-----------------------------------------------------------------------------
(* The machine around it.                                                   *)

MacVpn(l) ==
    /\ Event
    /\ l \in Tunnels
    /\ up' = IF l \in up THEN up \ {l} ELSE up \cup {l}
    /\ UNCHANGED <<guardVars, macVars>>

\* The VPN client sets a service's DNS, or publishes its own in the State: store.
MacHijack(s) ==
    /\ Event /\ up # {}
    /\ \/ /\ service_dns[s] # "vpn"
          /\ service_dns' = [service_dns EXCEPT ![s] = "vpn"]
          /\ UNCHANGED override
       \/ /\ override[s]
          /\ override' = [override EXCEPT ![s] = FALSE]
          /\ UNCHANGED service_dns
    /\ UNCHANGED <<up, guardVars, primary, memory>>

MovePrimary(s) ==
    /\ Event
    /\ s # primary
    /\ primary' = s
    /\ UNCHANGED <<up, guardVars, service_dns, override, memory>>

MacNetwork ==
    \/ \E l \in Tunnels : MacVpn(l)
    \/ \E s \in Services : MacHijack(s)
    \/ \E s \in Services \cup {NoLink} : MovePrimary(s)

-----------------------------------------------------------------------------
(* A program with either backend.                                           *)

LinuxStep == platform = "linux" /\ Next /\ UNCHANGED <<platform, macVars>>
MacStep == platform = "macos" /\ (MacTick \/ MacNetwork) /\ UNCHANGED <<platform, linuxVars>>

GuardedNext == LinuxStep \/ MacStep

\* The loop keeps running; commands return.
GuardRuns == (LinuxStep /\ Guard) \/ (MacStep /\ MacTick)

GuardedSpec == GuardedInit /\ [][GuardedNext]_guardedVars /\ WF_guardedVars(GuardRuns)

-----------------------------------------------------------------------------
(* Properties.                                                              *)

\* While the guard on macOS believes that no VPN is up, no service has the DNS it set
\* (revert drains the set of touched services), and no override in the State: store is
\* left but those of services that it forgot while their override stood: TouchedState
\* has room for one service id, and a tick that finds another service to be primary puts
\* that one in its place.  Whether such a service is primary again by now makes no
\* difference: its override stays.
MacUndone ==
    ~is_vpn_active /\ pc # "revert" =>
        \A s \in Services : service_dns[s] # "guard" /\ (override[s] => s \in forgotten)

\* While a VPN stays up, what it takes over is brought back to this resolver, every
\* time: the interface with the default route, or on macOS every service.
Reasserted ==
    /\ LinkReasserted
    /\ \A s \in Services :
          up # {} /\ service_dns[s] = "vpn" ~> up = {} \/ service_dns[s] # "vpn"

=============================================================================
