CONSTANTS
    USER_BEGIN = 1
    KERNEL_BEGIN = 10
    Pages = {1, 2, 3}
    Load = {3, 6}
    Fixed = {3}
    MAX_LOST = 1
SPECIFICATION Spec
INVARIANTS
    RegionsTile 
