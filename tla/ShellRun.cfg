SPECIFICATION Spec
CONSTANTS
    Attempt = {a1, a2, a3}
    Page = {p1, p2}
    MaxAsks = 2
    None = None
    a1 = a1
    a2 = a2
    a3 = a3
    p1 = p1
    p2 = p2
SYMMETRY Symmetric
INVARIANTS
    TypeOK
    PageShowsService
    OneSubscription
    ConnectedHasTerminal
