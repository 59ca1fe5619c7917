SPECIFICATION Spec
CONSTANTS
    Proc = {p1, p2, p3}
    Block = {b1, b2, b3, b4}
    Data = {d1, d2}
    Buf = {u1, u2, u3}
    NUM = 7
    MaxPinned = 1
    MaxCalls = 5
    None = None
SYMMETRY Symmetry
INVARIANTS RequestsExact DriverWakes
PROPERTY ImplementsBlockStore
