\* Two clients that compete for one address, two names for every file.
CONSTANTS
    Macs = {m1, m2}
    Ips = {Unspecified, Relay, ip1}
    Unspecified = Unspecified
    Relay = Relay
    Broadcast = Broadcast
    Targets = {}
    None = None
    MaxTracked = 2
    MaxLogs = 1
    Ttl = 1
    Names = {n1, n2}
    Profiles <- MCProfiles
    Defaults <- MCDefaults
SYMMETRY NameSymmetry
SPECIFICATION Spec
INVARIANTS ReplyServes LoadsItsOwn OverrideLoaded
