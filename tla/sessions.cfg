SPECIFICATION Spec
CONSTANTS
    a = a
    b = b
    c = c
    d = d
    Sessions = {a, b, c, d}
    Sse = {d}
    Projects = {"notes", "wiki"}
    Domains = {"infra"}
    ProjectOf <- Project
    Settings <- Both
    MaxLines = 2
    MaxUpsets = 2
INVARIANTS NeverMoreThanHeld OwnProjectOnly SteadySubscribersAreTold
CHECK_DEADLOCK FALSE
