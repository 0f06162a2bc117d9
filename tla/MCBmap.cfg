\* One create_block caller (p1) and one bmap caller (p2) on one inode:
\* 1 direct zone, blocks of 2 zone numbers (7 blocks), 4 data zones.
CONSTANTS
    p1 = p1
    p2 = p2
    Procs <- MCProcs
    Creators <- MCCreatorsOne
    NR_DIRECT = 1
    ADDR_PER_BLOCK = 2
    NZONES = 4
    Garbage = Garbage
    NoProc = NoProc
SPECIFICATION Spec
INVARIANTS
    TypeOK
    BmapMatchesReference
    NoGarbageMapped
    NoLeak
PROPERTIES
    NoZoneOverwrite
