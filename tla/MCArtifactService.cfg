\* Two images, two overrides, no faults, and the health probe.
CONSTANTS
    Paths = {p1, p2}
    Overrides = {auto, given}
    MaxVersion = 1
    Faults = {}
SPECIFICATION ServiceSpec
INVARIANTS HitIsExact PairNeverMixed SettledInv HealthIsTrue
