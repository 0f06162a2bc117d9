\* Two requests over two blocks.  NR_SECTS = 4 makes block 1 the last of
\* the partition, so do_hd_request's sector test is met on a retry of its
\* second sector.  MAX_ERRORS is the code's 7: the reset after the fourth
\* error and the failure at the seventh both happen.  No symmetry: the
\* run checks liveness.
CONSTANTS
  Unwritten = Unwritten
  Garbage = Garbage
  NR_REQUEST = 2
  Blocks = {0, 1}
  NR_SECTS = 4
  MAX_ERRORS = 7
SPECIFICATION FairSpec
INVARIANT
  TypeOK
PROPERTIES
  DiskRefined
  RequestEnds
