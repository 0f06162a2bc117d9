\* Task 0 and two user slots; two directory entries of two page-table
\* entries each, of which one is copied from task 0; 5 pages above LOW_MEM;
\* pids wrap after 3.
CONSTANTS
    NR_TASKS = 3
    NDIR = 2
    NPTE = 2
    LOW_COPY = 1
    NFRAMES = 5
    PID_MAX = 3
    MaxWrites = 2
SPECIFICATION Spec
INVARIANTS
    TypeOK
    MemMapExact
    PrivateView
    UniquePids
