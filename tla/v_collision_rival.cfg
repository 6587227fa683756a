SPECIFICATION Spec
CONSTANTS
    Calls = {c1, c2}
    Domains = {"api", "infra"}
    Ids = {"r1"}
    Ops = {"write", "delete"}
    StrictDomains = {FALSE}
    InitLive <- OneSeed
    Faults = {}
    MaxFaults = 0
    MaxAdmin = 0
    NoRow = NoRow
    NoCall = NoCall
INVARIANT CollisionHasARival
