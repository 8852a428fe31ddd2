SPECIFICATION Spec
CONSTANTS
    pub = pub
    own = own
    Runners = {a, b}
    Namespaces <- MCNamespaces
    NamespacesOf <- MCNamespacesOf
    FirstPages = 2
    ChunkSize = 2
    MaxAttempts = 1
    Envs = {"true"}
    MaxQueue = 2
    MaxInputs = 1
    ManagerFails = TRUE
    MaxFaults = 1
SYMMETRY MCSymmetry
CHECK_DEADLOCK FALSE
INVARIANT TypeOK
PROPERTY SeededWhenDone
INVARIANT NobodyLeftRunning
