\* Two good contents, one that makes the callback panic, one invalid, and no file.
CONSTANTS
    Contents = {c1, c2, p, bad, missing}
    Valid = {c1, c2, p}
    Poison = {p}
    Missing = missing
    MaxQueue = 3
SPECIFICATION Spec
CHECK_DEADLOCK FALSE
INVARIANTS LiveIsSynced EditIsPending
PROPERTIES EditTakesEffect
