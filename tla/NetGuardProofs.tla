--------------------------- MODULE NetGuardProofs ---------------------------
(***************************************************************************)
(* For any interfaces, services and faults, and however often the network  *)
(* changes: what the guard sets, and that it takes all of it back.         *)
(***************************************************************************)
EXTENDS MacGuard, TLAPS

\* The interfaces that the guard may set: those of a VPN and of a default route.
Targets == Tunnels \cup Routable

Owners == {"auto", "user", "vpn", "guard"}
TickPhases == {"route", "status", "check", "set", "domain", "force"}
Phases == TickPhases \cup {"detect", "revert", "sleep"}

GuardTyped ==
    /\ platform \in {"linux", "macos"} /\ pc \in Phases /\ is_vpn_active \in BOOLEAN
    /\ up \subseteq Tunnels
    /\ default \in Routable \cup {NoLink}
    /\ dns \in [Links -> Owners]
    /\ domain \in [Links -> BOOLEAN]
    /\ primary \in Services \cup {NoLink}
    /\ scutil_service_id \in Services \cup {NoLink}
    /\ service_dns \in [Services -> Owners]
    /\ override \in [Services -> BOOLEAN]

\* What a tick has in hand are targets of its backend.
TickInHand ==
    /\ platform = "linux" =>
          /\ todo \subseteq Targets
          /\ pc \in {"set", "domain"} => iface \in Targets
    /\ platform = "macos" =>
          /\ pc \in {"check", "set"} => todo \subseteq Services
          /\ pc \in {"set", "force"} => iface \in Services

\* The other backend's settings are nobody's.
OtherIdle ==
    /\ platform = "linux" =>
          scutil_service_id = NoLink /\ \A s \in Services : service_dns[s] # "guard" /\ ~override[s]
    /\ platform = "macos" =>
          \A l \in Links : dns[l] # "guard" /\ ~domain[l]

ConfinedInv == GuardTyped /\ TickInHand /\ OtherIdle /\ OthersUntouched

\* The guard starts without having set anything.
LEMMA ConfinedInit == ASSUME GuardedInit PROVE ConfinedInv
  BY GuardAssumption, ServicesAssumption
  DEF GuardedInit, Init, ConfinedInv, GuardTyped, Owners, Phases, TickInHand, OtherIdle,
      OthersUntouched

\* The commands of a tick on Linux set links of a VPN or of a default route only.
LEMMA LinuxGuardConfined ==
    ASSUME ConfinedInv, LinuxStep, Guard PROVE ConfinedInv'
  <1> USE GuardAssumption DEF ConfinedInv, LinuxStep, macVars, services, memory, network
  <1>1. CASE Detect
    BY <1>1 DEF Detect, GuardTyped, Phases, TickPhases, TickInHand, Targets,
                OtherIdle, OthersUntouched
  <1>2. CASE Route
    BY <1>2 DEF Route, GuardTyped, Phases, TickPhases, TickInHand, Targets,
                OtherIdle, OthersUntouched
  <1>3. CASE Status \/ TickFails \/ CheckDone \/ RevertDone \/ Wake
    BY <1>3 DEF Status, TickFails, CheckDone, RevertDone, Wake, GuardTyped, Phases, TickPhases,
                TickInHand, OtherIdle, OthersUntouched
  <1>4. ASSUME NEW l \in Links, Check(l) PROVE ConfinedInv'
    BY <1>4 DEF Check, GuardTyped, Phases, TickPhases, TickInHand, OtherIdle, OthersUntouched
  <1>5. ASSUME NEW l \in Links, Revert(l) PROVE ConfinedInv'
    BY <1>5 DEF Revert, GuardTyped, Owners, TickInHand, OtherIdle, OthersUntouched
  <1>6. CASE Set
    BY <1>6 DEF Set, GuardTyped, Owners, Phases, TickPhases, TickInHand, Targets,
                OtherIdle, OthersUntouched
  <1>7. CASE Domain
    BY <1>7 DEF Domain, GuardTyped, Phases, TickPhases, TickInHand, Targets,
                OtherIdle, OthersUntouched
  <1> QED BY <1>1, <1>2, <1>3, <1>4, <1>5, <1>6, <1>7 DEF Guard

\* VPN clients and route changes on Linux keep to those links too.
LEMMA LinuxNetworkConfined ==
    ASSUME ConfinedInv, LinuxStep, Network PROVE ConfinedInv'
  <1> USE GuardAssumption
      DEF ConfinedInv, LinuxStep, macVars, services, memory, guardVars, GuardTyped, Owners,
          TickInHand, OtherIdle, OthersUntouched
  <1> SUFFICES ASSUME NEW l \in Links \cup {NoLink},
                      VpnUp(l) \/ VpnDown(l) \/ Hijack(l) \/ MoveDefault(l)
               PROVE  ConfinedInv'
    BY DEF Network
  <1>1. CASE VpnUp(l)
    BY <1>1 DEF VpnUp
  <1>2. CASE VpnDown(l)
    BY <1>2 DEF VpnDown
  <1>3. CASE Hijack(l)
    BY <1>3 DEF Hijack
  <1>4. CASE MoveDefault(l)
    BY <1>4 DEF MoveDefault
  <1> QED BY <1>1, <1>2, <1>3, <1>4

\* On macOS no link is set at all.
LEMMA MacConfined ==
    ASSUME ConfinedInv, MacStep PROVE ConfinedInv'
  <1> USE GuardAssumption, ServicesAssumption
      DEF ConfinedInv, MacStep, linuxVars, macVars, services, memory, network, guardVars, GuardTyped,
          TickInHand, OtherIdle, OthersUntouched
  <1>1. CASE MacCommon
    BY <1>1 DEF MacCommon, Detect, CheckDone, Wake, TickFails, RevertDone, Phases, TickPhases
  <1>2. CASE MacPrimary
    BY <1>2 DEF MacPrimary, Phases, TickPhases
  <1>3. CASE MacForce
    BY <1>3 DEF MacForce, Remember, Phases, TickPhases
  <1>4. CASE MacList
    BY <1>4 DEF MacList, Phases, TickPhases
  <1>5. CASE MacSet
    BY <1>5 DEF MacSet, Phases, TickPhases, Owners
  <1>6. CASE MacUnforce
    BY <1>6 DEF MacUnforce
  <1>7. ASSUME NEW s \in Services, MacCheck(s) PROVE ConfinedInv'
    BY <1>7 DEF MacCheck, Phases, TickPhases
  <1>8. ASSUME NEW s \in Services, MacRevert(s) PROVE ConfinedInv'
    BY <1>8 DEF MacRevert, Owners
  <1>9. CASE MacNetwork
    <2>1. ASSUME NEW l \in Tunnels, MacVpn(l) PROVE ConfinedInv'
      BY <2>1 DEF MacVpn
    <2>2. ASSUME NEW s \in Services, MacHijack(s) PROVE ConfinedInv'
      BY <2>2 DEF MacHijack, Owners
    <2>3. ASSUME NEW s \in Services \cup {NoLink}, MovePrimary(s) PROVE ConfinedInv'
      BY <2>3 DEF MovePrimary
    <2> QED BY <1>9, <2>1, <2>2, <2>3 DEF MacNetwork
  <1> QED BY <1>1, <1>2, <1>3, <1>4, <1>5, <1>6, <1>7, <1>8, <1>9 DEF MacTick

\* On either platform, then.
LEMMA ConfinedNext == ASSUME ConfinedInv, [GuardedNext]_guardedVars PROVE ConfinedInv'
  <1>1. CASE UNCHANGED guardedVars
    BY <1>1
    DEF guardedVars, vars, macVars, services, memory, ConfinedInv, GuardTyped, TickInHand, OtherIdle,
        OthersUntouched
  <1>2. CASE LinuxStep
    BY <1>2, LinuxGuardConfined, LinuxNetworkConfined DEF LinuxStep, Next
  <1> QED BY <1>1, <1>2, MacConfined DEF GuardedNext

\* Whatever fails and whatever the network does in the middle of a tick, no bridge or
\* container interface is ever set (Targets of tick, netguard.rs).
THEOREM BridgesUntouched == GuardedSpec => []OthersUntouched
  <1>1. GuardedInit => ConfinedInv
    BY ConfinedInit
  <1>2. ConfinedInv /\ [GuardedNext]_guardedVars => ConfinedInv'
    BY ConfinedNext
  <1>3. ConfinedInv => OthersUntouched
    BY DEF ConfinedInv
  <1> QED BY <1>1, <1>2, <1>3, PTL DEF GuardedSpec

-----------------------------------------------------------------------------
(* Nothing is left behind, given that a revert works.                       *)

\* The flag is up while a tick sets anything; once it is down and the revert is over,
\* nothing is remembered.
FlagCovers ==
    /\ pc \in TickPhases => is_vpn_active
    /\ ~is_vpn_active /\ pc # "revert" => touched = {} /\ scutil_service_id = NoLink

\* What the guard has set, it remembers.
LinksRemembered ==
    /\ \A l \in Links : dns[l] = "guard" \/ domain[l] => l \in touched
    /\ platform = "linux" /\ pc = "domain" => iface \in touched

\* An override that is not remembered is one that another was remembered in place of.
ServicesRemembered ==
    /\ \A s \in Services : service_dns[s] = "guard" => s \in touched
    /\ \A s \in Services : override[s] => s \in forgotten \cup {scutil_service_id}

RememberedInv == ConfinedInv /\ FlagCovers /\ LinksRemembered /\ ServicesRemembered

\* Whatever the guard sets on a link is among the links it will revert.
LEMMA LinuxRemembers ==
    ASSUME RememberedInv, LinuxStep, "revert" \notin Faults
    PROVE  FlagCovers' /\ LinksRemembered' /\ ServicesRemembered'
  <1> USE GuardAssumption
      DEF RememberedInv, ConfinedInv, GuardTyped, TickInHand, OtherIdle, LinuxStep, macVars,
          services, memory, network, FlagCovers, LinksRemembered, ServicesRemembered, TickPhases
  <1>1. CASE Detect
    BY <1>1 DEF Detect
  <1>2. CASE Route
    BY <1>2 DEF Route
  <1>3. CASE Status \/ TickFails \/ CheckDone \/ RevertDone \/ Wake
    BY <1>3 DEF Status, TickFails, CheckDone, RevertDone, Wake
  <1>4. ASSUME NEW l \in Links, Check(l)
        PROVE  FlagCovers' /\ LinksRemembered' /\ ServicesRemembered'
    BY <1>4 DEF Check
  <1>5. ASSUME NEW l \in Links, Revert(l)
        PROVE  FlagCovers' /\ LinksRemembered' /\ ServicesRemembered'
    BY <1>5 DEF Revert, Fails
  <1>6. CASE Set
    BY <1>6 DEF Set, Targets
  <1>7. CASE Domain
    BY <1>7 DEF Domain, Targets
  <1>8. CASE Network
    <2> SUFFICES ASSUME NEW l \in Links \cup {NoLink},
                        VpnUp(l) \/ VpnDown(l) \/ Hijack(l) \/ MoveDefault(l)
                 PROVE  FlagCovers' /\ LinksRemembered' /\ ServicesRemembered'
      BY <1>8 DEF Network
    <2> USE DEF guardVars
    <2>1. CASE VpnUp(l)
      BY <2>1 DEF VpnUp
    <2>2. CASE VpnDown(l)
      BY <2>2 DEF VpnDown
    <2>3. CASE Hijack(l)
      BY <2>3 DEF Hijack
    <2>4. CASE MoveDefault(l)
      BY <2>4 DEF MoveDefault
    <2> QED BY <2>1, <2>2, <2>3, <2>4
  <1> QED BY <1>1, <1>2, <1>3, <1>4, <1>5, <1>6, <1>7, <1>8 DEF Next, Guard

\* The same of the services of macOS and of the override.
LEMMA MacRemembers ==
    ASSUME RememberedInv, MacStep, "revert" \notin Faults
    PROVE  FlagCovers' /\ LinksRemembered' /\ ServicesRemembered'
  <1> USE GuardAssumption, ServicesAssumption
      DEF RememberedInv, ConfinedInv, GuardTyped, TickInHand, OtherIdle, MacStep, linuxVars,
          macVars, services, memory, network, guardVars, FlagCovers, LinksRemembered,
          ServicesRemembered, TickPhases
  <1>1. CASE MacCommon
    BY <1>1 DEF MacCommon, Detect, CheckDone, Wake, TickFails, RevertDone
  <1>2. CASE MacPrimary
    BY <1>2 DEF MacPrimary
  <1>3. CASE MacForce
    BY <1>3 DEF MacForce, Remember
  <1>4. CASE MacList
    BY <1>4 DEF MacList
  <1>5. CASE MacSet
    BY <1>5 DEF MacSet
  <1>6. CASE MacUnforce
    BY <1>6 DEF MacUnforce, Fails
  <1>7. ASSUME NEW s \in Services, MacCheck(s)
        PROVE  FlagCovers' /\ LinksRemembered' /\ ServicesRemembered'
    BY <1>7 DEF MacCheck
  <1>8. ASSUME NEW s \in Services, MacRevert(s)
        PROVE  FlagCovers' /\ LinksRemembered' /\ ServicesRemembered'
    BY <1>8 DEF MacRevert, Fails
  <1>9. CASE MacNetwork
    <2>1. ASSUME NEW l \in Tunnels, MacVpn(l)
          PROVE  FlagCovers' /\ LinksRemembered' /\ ServicesRemembered'
      BY <2>1 DEF MacVpn
    <2>2. ASSUME NEW s \in Services, MacHijack(s)
          PROVE  FlagCovers' /\ LinksRemembered' /\ ServicesRemembered'
      BY <2>2 DEF MacHijack
    <2>3. ASSUME NEW s \in Services \cup {NoLink}, MovePrimary(s)
          PROVE  FlagCovers' /\ LinksRemembered' /\ ServicesRemembered'
      BY <2>3 DEF MovePrimary
    <2> QED BY <1>9, <2>1, <2>2, <2>3 DEF MacNetwork
  <1> QED BY <1>1, <1>2, <1>3, <1>4, <1>5, <1>6, <1>7, <1>8, <1>9 DEF MacTick

\* So the guard remembers all it has set, as long as no revert fails.
LEMMA RememberedInvHolds ==
    ASSUME "revert" \notin Faults PROVE GuardedSpec => []RememberedInv
  <1>1. GuardedInit => RememberedInv
    BY ConfinedInit
    DEF GuardedInit, Init, RememberedInv, FlagCovers, LinksRemembered, ServicesRemembered,
        TickPhases
  <1>2. RememberedInv /\ [GuardedNext]_guardedVars => RememberedInv'
    <2> SUFFICES ASSUME RememberedInv, [GuardedNext]_guardedVars
                 PROVE  FlagCovers' /\ LinksRemembered' /\ ServicesRemembered'
      BY ConfinedNext DEF RememberedInv
    <2>1. CASE UNCHANGED guardedVars
      BY <2>1
      DEF guardedVars, vars, macVars, services, memory, RememberedInv, FlagCovers, LinksRemembered,
          ServicesRemembered
    <2> QED BY <2>1, LinuxRemembers, MacRemembers DEF GuardedNext
  <1> QED BY <1>1, <1>2, PTL DEF GuardedSpec

\* If resolvectl can revert what it set, then the guard on Linux leaves nothing behind
\* once it believes the VPN gone, whatever tick was cut short and however the default
\* route moved meanwhile (TOUCHED_LINKS).
THEOREM LinksUndone ==
    ASSUME "revert" \notin Faults PROVE GuardedSpec => []NothingLeftBehind
  <1>1. RememberedInv => NothingLeftBehind
    BY DEF RememberedInv, FlagCovers, LinksRemembered, NothingLeftBehind
  <1> QED BY <1>1, RememberedInvHolds, PTL

\* The same on macOS, where all that can be left is the override of a service which the
\* guard forgot, for it remembered another in its place, while that override stood
\* (TouchedState).
THEOREM ServicesUndone ==
    ASSUME "revert" \notin Faults PROVE GuardedSpec => []MacUndone
  <1>1. RememberedInv => MacUndone
    BY ServicesAssumption DEF RememberedInv, FlagCovers, ServicesRemembered, MacUndone
  <1> QED BY <1>1, RememberedInvHolds, PTL

=============================================================================
