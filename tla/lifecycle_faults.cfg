SPECIFICATION Spec
CONSTANTS
    Calls = {c1, c2, c3}
    Domains = {"api", "infra"}
    Ids = {"r1", "r2"}
    Ops = {"write", "move", "delete", "adminDelete", "adminRestore"}
    StrictDomains = {FALSE, TRUE}
    InitLive <- OneSeed
    Faults = {"db", "ml", "crash"}
    MaxFaults = 1
    MaxAdmin = 1
    NoRow = NoRow
    NoCall = NoCall
SYMMETRY CallSymmetry
INVARIANTS OneAcknowledgedWriter AcknowledgedWriteSurvives EmptyFileIsSwept ChangesAreTracked
PROPERTIES OnlyUnlinkLoses OnlyMovesSplit
