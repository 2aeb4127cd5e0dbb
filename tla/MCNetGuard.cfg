SPECIFICATION GuardedSpec
CONSTANTS
    Links = {"tun", "eth", "wlan", "docker"}
    Tunnels = {"tun"}
    Routable = {"eth", "wlan"}
    Static = {"wlan"}
    NoLink = "none"
    Faults = {"detect", "route", "status", "check", "set", "domain", "force"}
    MaxFaults = 2
    MaxEvents = 4
    Services = {"wifi", "usb"}
    Manual = {"usb"}
INVARIANTS
    MacUndone
    OthersUntouched
    NothingLeftBehind
PROPERTY Reasserted
