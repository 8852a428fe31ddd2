SPECIFICATION FairSpec
CONSTANTS
    Pages = {p1, p2}
    Paths = {"a", "b"}
    Namespaces = {g1, g2}
    Grants = {{g1}, {g2}}
    Operations = {"create", "edit", "grant", "rename", "delete", "descendant-grant", "descendant-overlapping-grant", "descendant-rename", "descendant-delete"}
    Threshold = 2
    ChunkSize = 3
    MaxOps = 3
    MaxFailures = 1
CHECK_DEADLOCK FALSE
INVARIANT TypeOK
INVARIANT EntriesOnceHeld
INVARIANT CalmPathsMirror
PROPERTY Settles
