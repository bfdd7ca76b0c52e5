\* The host configuration changes and changes back around a crash.
CONSTANTS
    Paths = {p1, p2}
    Overrides = {auto}
    MaxVersion = 0
    Faults = {"crash"}
SPECIFICATION Spec
INVARIANT HitIsExact
