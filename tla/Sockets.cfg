SPECIFICATION Spec
CONSTANTS
    n1 = n1
    s2 = s2
    s1 = s1
    b = b
    a = a
    Nics = {n1}
    NoNic = NoNic
    Addrs = {a, b}
    NoAddr = NoAddr
    Losses = TRUE
    Socks = {s1, s2}
    FdBits = 3
    FdMax = 2
    OneAtATime = TRUE
    CloseFirst = TRUE
    SoftResets = TRUE
SYMMETRY Symmetry
INVARIANTS TypeOK FdsOwned SendsHome LinkOwned ModeSettled
