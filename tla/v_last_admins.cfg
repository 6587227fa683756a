SPECIFICATION Spec
CONSTANTS
    Users = {"ann", "bob"}
    Requests = {q1, q2}
    Admins = {"ann", "bob"}
    Bootstrap = {}
    Ops = {"revoke"}
    SerialTxns = FALSE
    NoUser = NoUser
    NoGrant = NoGrant
INVARIANT GrantRemains
