SPECIFICATION Spec
CONSTANTS
    clerk = clerk
    head = head
    director = director
    expert = expert
    nobody = nobody
    p1 = p1
    p2 = p2
    c1 = c1
    r1 = r1
    r2 = r2
    People = {clerk, head, director, expert}
    Staff = {clerk}
    Assigners = {head}
    Leaders = {director}
    Directors = {director}
    Experts = {expert}
    Evaluators = {}
    Founders = {}
    Products = {p1, p2}
    Checkpoints = {}
    Reports = {}
    Amounts = {0, 1}
    MaxRounds = 2
    None = nobody
    Changes <- MCLevelChanges
SYMMETRY MCProductSymmetry
INVARIANTS
    OutcomeAgrees
    LiquidationBalanced
PROPERTIES
    ConcludedStays
    ImplementsPhases
