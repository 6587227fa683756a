SPECIFICATION Spec
CONSTANTS
    Requests = {q1, q2, q3, q4}
    Projects = {"notes", "wiki"}
    MaxRole = 2
    Membership <- WriterInBoth
    Ops = {"page", "consent", "exchange", "refresh", "resolve", "remove", "revoke", "expire", "members", "activate", "fail"}
    MaxUpsets = 1
    NoGrant = NoGrant
    NoSecret = NoSecret
SYMMETRY RequestSymmetry
INVARIANTS SpentOnce OneLivePair NothingOutlivesItsGrant ServedWithinConsent
PROPERTY EndedStaysEnded
