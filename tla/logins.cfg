SPECIFICATION LoginSpec
CONSTANTS
    Users = {"ann", "bob", "eve"}
    Requests = {q1, q2, q3}
    Allowed = {"ann", "bob"}
    MaxUses = 1
    Ops = {"open", "login", "revoke", "expire", "addMember", "removeMember"}
    NoUser = NoUser
    Subs = {"gh-ann", "oidc-bob"}
    Profiles <- EmailChanges
    MaxUpsets = 1
    Settings <- Both
    NoSub = NoSub
SYMMETRY RequestSymmetry
INVARIANTS WithinLimit CountMatchesUses LoginMeetsIdentity DeactivatedStaysOut FirstLoginIsLogged
