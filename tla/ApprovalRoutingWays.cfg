SPECIFICATION FairSpec
CONSTANTS
    staff = staff
    boardHead = boardHead
    head = head
    head2 = head2
    director = director
    deputy = deputy
    s1 = s1
    s2 = s2
    s3 = s3
    q1 = q1
    q2 = q2
    liquidation = liquidation
    extension = extension
    council = council
    package = package
    KindOf <- MCKindOf
    InitialRole <- MCInitialRole
    Keys = {extension}
    Legacy = {extension}
    People = {staff, boardHead, head, head2, director}
    InScope = {staff, boardHead, head, head2}
    Submissions = {s1, s2}
    Requests = {q1}
    RoleChanges <- MCRoleChanges
    MaxVersion = 2
    MaxRoleChanges = 0
CHECK_DEADLOCK FALSE
INVARIANTS
    LockedIffPending
    SomebodysTurn
PROPERTIES
    ImplementsProcedure
    EverySubmissionEnds
