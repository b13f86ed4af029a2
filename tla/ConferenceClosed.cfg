SPECIFICATION Spec
CONSTANTS
    g1 = g1
    g2 = g2
    ann = ann
    bob = bob
    clerk = clerk
    dana = dana
    nobody = nobody
    c1 = c1
    c2 = c2
    Guests = {g1}
    People = {ann, bob, clerk}
    Officers = {clerk}
    Registered = {clerk}
    Calls = {c1}
    Nobody = nobody
    Edits <- MCEdits
    MaxLinks = 1
CHECK_DEADLOCK FALSE
PROPERTIES
    ClosedIsFinal
