SPECIFICATION SessionSpec
CONSTANTS
    pub = pub
    own = own
    Namespaces <- MCNamespaces
    Accessible <- MCAccessible
    Requests = {q1, q2, q3}
    NoView = NoView
    MaxCommits = 3
    MaxResets = 1
CHECK_DEADLOCK FALSE
INVARIANT TypeOK
INVARIANT FreshView
PROPERTY ReturnsTheTip
INVARIANT ToldIsServed
PROPERTY ToldIsFresh
SYMMETRY Clients
CONSTRAINT Bounded
