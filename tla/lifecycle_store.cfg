SPECIFICATION FairSpec
CONSTANTS
    Calls = {c1, c2, c3}
    Domains = {"api", "infra"}
    Ids = {"r1", "r2", "r3"}
    Ops = {"write", "delete", "adminDelete"}
    StrictDomains = {FALSE}
    InitLive <- OneSeed
    Faults = {}
    MaxFaults = 0
    MaxAdmin = 1
    NoRow = NoRow
    NoCall = NoCall
INVARIANTS RegisteredHome
PROPERTIES ImplementsKnowledgeStore DuplicateResolves
