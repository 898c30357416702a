CONSTANTS
    a1 = a1  a2 = a2  a3 = a3
    s1 = s1  s2 = s2  s3 = s3  s4 = s4
    AS = {a1, a2, a3}
    boot = a1
    Page = {1, 2}
    Seg = {s1, s2, s3, s4}
    Threaded = {}
    None = None
SPECIFICATION Spec
SYMMETRY Symmetric
INVARIANTS
    Isolation RefsCount 
CHECK_DEADLOCK FALSE
