SPECIFICATION Spec
CONSTANTS
    l1 = l1
    l2 = l2
    im = im
    seed = seed
    a = a
    b = b
    c = c
    Logins = {l1, l2}
    Relogins = {im}
    Seed = seed
    Uid <- MCUid
    Requests = {q1}
    None = none
    MaxCrashes = 2
    MaxFaults = 1
CONSTRAINT TwoMints
INVARIANTS
    TokenSurvives
    HeadersAgree
CHECK_DEADLOCK FALSE
