SPECIFICATION Spec
CONSTANTS
    Worlds <- MCWorlds
    Runs = {r1, r2}
CHECK_DEADLOCK FALSE
INVARIANT TypeOK
INVARIANT RestIsWellFormed
INVARIANT CreatedIsReachable
INVARIANT AreasFreed
PROPERTY PagesKept
