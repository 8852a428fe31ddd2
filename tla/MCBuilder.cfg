SPECIFICATION Spec
CONSTANTS
    pub = pub
    own = own
    r1 = r1
    r2 = r2
    gone = gone
    Blank = Blank
    NoBlob = NoBlob
    NoCommit = NoCommit
    NoDoc = NoDoc
    Namespaces <- MCNamespaces
    Paths <- MCPaths
    Excluded <- MCExcluded
    Revisions <- MCRevisions
    Lost <- MCLost
    SquashThreshold = 1
    MaxCommits = 4
    Instructions <- MCEveryOp
    Aged = {own}
CHECK_DEADLOCK FALSE
INVARIANT TypeOK
INVARIANT BodiesStayInTheirNamespace
INVARIANT AcknowledgedIsRecorded
PROPERTY NoLostUpdate
PROPERTY ImplementsContents
