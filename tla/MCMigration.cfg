SPECIFICATION HomeSpec
CONSTANTS
    Proc = {p1, p2}
    NoProc = NoProc
    Key = {k1, k2, k3}
    NoFile = NoFile
    Empty = Empty
INVARIANT
    OpenMigrates
