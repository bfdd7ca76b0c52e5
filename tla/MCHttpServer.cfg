\* Two hosts of which one fits in the store, two handlers at a time.
CONSTANTS
    Macs = {m1, m2}
    Ips = {ip1}
    Targets = {ok, broken}
    None = None
    MaxTracked = 1
    MaxLogs = 0
    Ttl = 1
    Calls = {r1, r2}
    Broken = {broken}
    MaxTime = 1
SPECIFICATION Spec
CHECK_DEADLOCK FALSE
PROPERTIES OverrideKept OverrideServed
