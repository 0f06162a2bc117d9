\* Two create_block callers on one inode, as two add_entry calls on one
\* directory do (namei.c:202): the second assignment overwrites the first.
CONSTANTS
    p1 = p1
    p2 = p2
    Procs <- MCProcs
    Creators <- MCCreatorsTwo
    NR_DIRECT = 1
    ADDR_PER_BLOCK = 2
    NZONES = 4
    Garbage = Garbage
    NoProc = NoProc
SPECIFICATION Spec
PROPERTIES
    NoZoneOverwrite
