CONSTANTS
    Unset = Unset
    Empty = Empty
    Malformed = Malformed
    Localhost = Localhost
    URL = URL
    Refused = Refused
    Unreadable = Unreadable
    None = None
    Broken = Broken
    Inside = Inside
    Outside = Outside
    k1 = k1
    k2 = k2
    p1 = p1
    p2 = p2
    g1 = g1
    cidr = cidr
    Call = {c1, c2}
    Attempts = 2
    MaxRequests = 2
    Buffer = {b1, b2, b3, b4}
    Reader = {z1, z2}
    Source <- MCSource
SPECIFICATION Spec
SYMMETRY Symmetry
INVARIANTS
    HashIsChecked
CHECK_DEADLOCK FALSE
