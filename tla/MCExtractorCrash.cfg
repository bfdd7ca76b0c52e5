\* One host configuration that never changes; the image is replaced, and the
\* process may crash or fail to write metadata.json at any point.
CONSTANTS
    Paths = {p1}
    Overrides = {auto}
    MaxVersion = 3
    Faults = {"crash", "metadata"}
SPECIFICATION Spec
INVARIANTS HitIsExact
