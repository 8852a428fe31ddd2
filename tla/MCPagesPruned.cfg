SPECIFICATION FairSpec
CONSTANTS
    Worlds <- MCWorlds
    Runs = {r1, r2}
CHECK_DEADLOCK FALSE
PROPERTY PruningRemovesEmptyPages
