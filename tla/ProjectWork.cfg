SPECIFICATION Spec
CONSTANTS
    clerk = clerk
    head = head
    director = director
    expert = expert
    nobody = nobody
    p1 = p1
    p2 = p2
    c1 = c1
    r1 = r1
    r2 = r2
    People = {clerk, head, director, expert}
    Staff = {clerk, expert}
    Assigners = {head}
    Leaders = {director}
    Directors = {director}
    Experts = {expert}
    Evaluators = {}
    Founders = {}
    Products = {p1}
    Checkpoints = {c1}
    Reports = {r1, r2}
    Amounts = {0}
    MaxRounds = 1
    None = nobody
    Changes <- MCTeamChanges
SYMMETRY MCReportSymmetry
INVARIANTS
    OpenWorkAgrees
    Independence
PROPERTIES
    DecidedAsReviewed
