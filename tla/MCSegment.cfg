CONSTANTS
    LOW = 0
    HIGH = 11
    Reserved <- BootReserved
    Pages = {1, 2, 3}
    Phys <- Video
    MAX_REF = 3
SPECIFICATION Spec
INVARIANTS
    SegmentsTile RefsExact
