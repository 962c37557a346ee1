SPECIFICATION Spec
CONSTANTS
    p1 = p1
    p2 = p2
    s1 = s1
    Ids = {s1}
    Procs <- OneProc
    IdOf <- ItsId
    MaxCrashes = 0
    MaxFailures = 0
    MayRevoke = FALSE
    None = None
INVARIANT
    UpIsReachable
