SPECIFICATION Spec
CONSTANTS
    pub = pub
    own = own
    r1 = r1
    r2 = r2
    gone = gone
    Blank = Blank
    NoBlob = NoBlob
    NoCommit = NoCommit
    NoDoc = NoDoc
    Namespaces <- MCNamespaces
    Paths <- MCPaths
    Excluded <- MCExcluded
    Revisions <- MCRevisions
    Lost <- MCLost
    SquashThreshold = 1
    MaxCommits = 5
    Instructions <- MCUpserts
    Aged = {}
CHECK_DEADLOCK FALSE
PROPERTY SquashKeepsHead
