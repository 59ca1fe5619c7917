SPECIFICATION Spec
CONSTANTS
    Thread = {t1, t2, t3}
    Frames = {f1, f2}
    Use = {u1, u2, u3, u4}
    None = None
SYMMETRY Symmetry
INVARIANTS RefCountExact FreeIsUnused NoPageLost Inv
