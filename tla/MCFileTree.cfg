SPECIFICATION Spec
CONSTANTS
    pub = pub
    own = own
    r1 = r1
    r2 = r2
    gone = gone
    Blank = Blank
    NoBlob = NoBlob
    Namespaces <- MCNamespaces
    Paths <- MCPaths
    Excluded = {}
    Revisions <- MCRevisions
    Lost <- MCLost
    Instructions <- MCInstructions
    UnsafeTokens <- MCUnsafe
    ReservedNames <- MCReserved
    Rankings <- MCRankings
    Lower <- MCLower
    Dotted <- MCDotted
    Wide <- MCWide
    NameBudget = 4
CHECK_DEADLOCK FALSE
INVARIANT SameFiles
INVARIANT NoEmptyDirectory
INVARIANT Cloneable
INVARIANT ViewHoldsFiles
INVARIANT DeltaIsFull
PROPERTY NamesStay
