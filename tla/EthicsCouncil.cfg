SPECIFICATION Spec
CONSTANTS
    ann = ann
    bob = bob
    cam = cam
    dir = dir
    none = none
    People = {ann, bob, cam, dir}
    Authorities = {dir, cam}
    Lists <- MCLists
    OldList <- First
    Min <- MCMin
    Max <- MCMax
    MaxNumber = 2
    None = none
CHECK_DEADLOCK FALSE
INVARIANTS
    RouteAgrees
    CouncilAsAccepted
    CertificateEarned
    NumberOfOneProposal
PROPERTIES
    NoReviewLost
