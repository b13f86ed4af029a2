SPECIFICATION Spec
CONSTANTS
    owner = owner
    colleague = colleague
    head = head
    boardHead = boardHead
    clerk = clerk
    director = director
    deputy = deputy
    ann = ann
    bob = bob
    eve = eve
    nobody = nobody
    PI = owner
    Nobody = nobody
    People = {owner, head, clerk, deputy, ann, bob, eve}
    Heads = {head}
    BoardHeads = {head}
    Staff = {clerk}
    Portfolio = {clerk}
    Directors = {}
    Deputies = {deputy}
    Limits <- MCCouncilLimits
    Candidates <- MCMixedCandidates
    Rosters <- MCRosters
    Teams = {{bob, clerk}}
    MaxAssignments = 3
    MaxRounds = 2
    MaxRevision = 0
CHECK_DEADLOCK FALSE
INVARIANTS
    RoleLimits
    TeamNeverJudges
    RouteAgrees
PROPERTIES
    CouncilEstablishedForRound
    ImplementsProcedure
