SPECIFICATION Spec
CONSTANTS
    g1 = g1
    g2 = g2
    ann = ann
    bob = bob
    clerk = clerk
    dana = dana
    nobody = nobody
    c1 = c1
    c2 = c2
    Guests = {g1}
    People = {ann, bob, dana, clerk}
    Officers = {clerk}
    Registered = {clerk, dana}
    Calls = {c1, c2}
    Nobody = nobody
    Edits <- MCEdits
    MaxLinks = 2
SYMMETRY Symmetric
CHECK_DEADLOCK FALSE
INVARIANTS
    LivePaperHasGuest
    ProgramAgrees
PROPERTIES
    LinkKeepsFitting
    OnlyPublicationReopens
    ImplementsGuestLife
