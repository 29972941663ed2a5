SPECIFICATION FairSpec
CONSTANTS
    Call = {c1, c2, c3}
    Key = {k1, k2}
    KeyOf <- Keys
    None = None
    c1 = c1
    c2 = c2
    c3 = c3
    k1 = k1
    k2 = k2
INVARIANTS
    TypeOK
    JoinersServed
    StoreMatchesPage
PROPERTIES
    KeepsSingleFlight
    CallsSettle
