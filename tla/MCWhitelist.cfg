SPECIFICATION WhitelistSpec
CONSTANTS
    Job = {j1, j2}
    Wallet = {w1}
    NonceBound = 0
    a = a
    b = b
    c = c
    Address = {a, b, c}
    Seed = seed
    SeedList <- MCSeedList
    Command <- Commands
SYMMETRY Symmetry
INVARIANTS WhitelistTypeOK SettledWasPublished ProofsMatchRoots SerialNoDuplicates SerialRootIsCurrent
PROPERTIES KeepsListPromise
