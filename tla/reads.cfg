SPECIFICATION Spec
CONSTANTS
    s1 = s1
    s2 = s2
    a = a
    b = b
    Scans = {s1, s2}
    Files = {a, b}
    MaxRev = 2
    NoScan = NoScan
    NoFile = NoFile
    NoEntry = NoEntry
    N = 4
    DomainOf <- TwoFiles
    InitLive <- AllOrAllButOne
    MaxChanges = 1
SYMMETRY Symmetric
INVARIANTS FreshUnlessRaced FailsOnlyOnRemoval
    CyclesAreFound ResolvesToCurrent HintsNameTheTips NeverMissing
