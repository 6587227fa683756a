SPECIFICATION Spec
CONSTANTS
    c1 = c1
    c2 = c2
    c3 = c3
    Calls = {c1, c2, c3}
    Users = {"ann", "bob"}
    User <- TwoEditors
    Editors = {"ann", "bob"}
    Required = {"title", "content"}
    Optional = {"files"}
    ContentFields = {"title", "content"}
    Statuses = {"success"}
    Regimes <- All
    MaxFaults = 2
    PageLimit = 2
    Original = Original
    Absent = Absent
    AdminValue = AdminValue
    NoStatus = NoStatus
INVARIANTS HistoryNeverCrossesActors PairsOwnSnapshot OneOutcomePerStatus SnapshotsReplay ConfirmedByAnother
