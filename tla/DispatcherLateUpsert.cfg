SPECIFICATION Spec
CONSTANTS
    Pages = {p1}
    Paths = {"a", "b"}
    Namespaces = {g1, g2}
    Grants = {{g1}, {g2}}
    Operations = {"create", "edit", "delete"}
    Threshold = 2
    ChunkSize = 3
    MaxOps = 3
    MaxFailures = 0
CHECK_DEADLOCK FALSE
INVARIANT MirrorsPages
