SPECIFICATION Spec
CONSTANTS
    Players = {ann, ben, cy}
    Row = {r1, r2}
    Source = {s1, s2}
    None = None
    RacingSales = FALSE
SYMMETRY Symmetry
INVARIANTS
    HostedOnce
    OwnersHost
