SPECIFICATION Spec
CONSTANTS
    n1 = n1
    s2 = s2
    s1 = s1
    b = b
    a = a
    Nics = {n1}
    NoNic = NoNic
    Addrs = {a, b}
    NoAddr = NoAddr
    Losses = FALSE
    Socks = {s1, s2}
    FdBits = 3
    FdMax = 2
    OneAtATime = TRUE
    CloseFirst = FALSE
    SoftResets = FALSE
SYMMETRY Symmetry
INVARIANT SendsHome
