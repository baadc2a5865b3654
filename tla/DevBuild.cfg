SPECIFICATION Spec
CONSTANTS
    Terminals = {t1, t2}
    Version = {1, 2}
    Submodules <- MCSubmodules
    MaxDisturbances = 2
INVARIANTS
    TypeOK
    BuiltAsPrepared
    NoneLingers
PROPERTIES
    EndsOnlyOutdated
    Recovers
