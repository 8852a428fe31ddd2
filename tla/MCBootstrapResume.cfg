SPECIFICATION Spec
CONSTANTS
    pub = pub
    own = own
    Runners = {a}
    Namespaces <- MCNamespaces
    NamespacesOf <- MCNamespacesOf
    FirstPages = 2
    ChunkSize = 2
    MaxAttempts = 1
    Envs = {"true"}
    MaxQueue = 2
    MaxInputs = 0
    ManagerFails = FALSE
    MaxFaults = 1
CHECK_DEADLOCK FALSE
INVARIANT DoneIsComplete
