SPECIFICATION Spec
CONSTANTS
    staff = staff
    boardHead = boardHead
    head = head
    head2 = head2
    director = director
    deputy = deputy
    s1 = s1
    s2 = s2
    s3 = s3
    q1 = q1
    q2 = q2
    liquidation = liquidation
    extension = extension
    council = council
    package = package
    KindOf <- MCKindOf
    InitialRole <- MCInitialRole
    Keys = {liquidation}
    Legacy = {}
    People = {staff, boardHead, head, director, deputy}
    InScope = {staff, boardHead, head}
    Submissions = {s1, s2}
    Requests = {q1, q2}
    RoleChanges <- MCRoleChanges
    MaxVersion = 3
    MaxRoleChanges = 1
SYMMETRY Symmetric
CHECK_DEADLOCK FALSE
INVARIANTS
    OneReviewAtATime
    SignedAsReviewed
