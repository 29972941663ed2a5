SPECIFICATION Spec
CONSTANTS
    Conn = {r1, r2}
    Db = {d0, d1}
    Key = {a, b}
    Slot = {s1, s2}
    None = None
    r1 = r1
    r2 = r2
    d0 = d0
    d1 = d1
    a = a
    b = b
    s1 = s1
    s2 = s2
SYMMETRY Symmetric
INVARIANTS
    TypeOK
    PanelCoherent
    SwitchNamed
    FormNamesTarget
    LoadingServed
