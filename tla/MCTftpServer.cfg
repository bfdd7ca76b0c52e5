\* Three MACs compete for a store of two, two tasks for one permit.
CONSTANTS
    Macs = {m1, m2, m3}
    Ips = {ip1, ip2}
    Targets = {}
    None = None
    MaxTracked = 2
    MaxLogs = 0
    Ttl = 2
    MaxTransfers = 1
    Tasks = {t1, t2}
    Deadline = 1
    MaxTime = 3
SPECIFICATION Spec
CHECK_DEADLOCK FALSE
INVARIANTS LimitsKept ReporterTracked
PROPERTIES SlotsComeBack
