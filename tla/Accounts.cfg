SPECIFICATION Spec
CONSTANTS
    s1 = s1
    s2 = s2
    l1 = l1
    l2 = l2
    h1 = h1
    c1 = c1
    c2 = c2
    none = none
    Sessions = {s1, s2}
    Links = {l1, l2}
    Challenges = {h1}
    Calls = {c1, c2}
    None = none
    MaxAttempts = 1
    MaxSends = 2
    MaxVersion = 1
SYMMETRY Symmetric
CHECK_DEADLOCK FALSE
INVARIANTS
    OneSessionPerChallenge
    SessionsOfPresentPassword
    LinksOfPresentPassword
    WrongCodesBounded
PROPERTIES
    ImplementsCredentialLife
