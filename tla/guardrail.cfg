SPECIFICATION Spec
CONSTANTS
    c1 = c1
    c2 = c2
    api = api
    infra = infra
    Calls = {c1, c2}
    Asked <- AnyAndAnEdit
    Admin = Admin
    Domains = {api, infra}
    Envs <- UnsetOrLocked
    MaxChanges = 1
    MaxUpsets = 1
SYMMETRY DomainSymmetry
INVARIANTS StaleOnlyByRace NothingReplacedUnasked
CHECK_DEADLOCK FALSE
