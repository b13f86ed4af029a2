SPECIFICATION Spec
CONSTANTS
    lee = lee
    amy = amy
    bob = bob
    here = here
    there = there
    f1 = f1
    c1 = c1
    c2 = c2
    none = none
    People = {lee, amy, bob}
    Registrants = {lee, amy}
    Supervisors = {lee, amy, bob}
    Staff = {amy, bob}
    Units = {here, there}
    ScopeOf <- MCScopeOf
    Files = {f1}
    Calls = {c1, c2}
    None = none
SYMMETRY Symmetric
CHECK_DEADLOCK FALSE
INVARIANTS
    ContentAccounted
PROPERTIES
    JudgedByThirdPerson
    FinishedStays
