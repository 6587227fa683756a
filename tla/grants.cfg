SPECIFICATION Spec
CONSTANTS
    Users = {"ann", "bob", "eve"}
    Requests = {q1, q2, q3, q4}
    Admins = {}
    Bootstrap = {"ann", "bob"}
    Ops = {"grant", "revoke", "deactivate", "activate", "bootstrap"}
    SerialTxns = FALSE
    NoUser = NoUser
    NoGrant = NoGrant
SYMMETRY RequestSymmetry
INVARIANT AuditBalances
PROPERTY RevocationLeavesOne
