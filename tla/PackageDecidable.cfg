SPECIFICATION Spec
CONSTANTS
    owner = owner
    colleague = colleague
    head = head
    boardHead = boardHead
    clerk = clerk
    director = director
    deputy = deputy
    ann = ann
    bob = bob
    eve = eve
    nobody = nobody
    PI = owner
    Nobody = nobody
    People = {owner, head, director, eve}
    Heads = {head}
    BoardHeads = {head}
    Staff = {}
    Portfolio = {}
    Directors = {director}
    Deputies = {}
    Limits <- MCLimits
    Candidates <- MCCandidates
    Rosters = {}
    Teams = {}
    MaxAssignments = 3
    MaxRounds = 1
    MaxRevision = 5
CHECK_DEADLOCK FALSE
INVARIANTS
    SubmittedPackageDecidable
