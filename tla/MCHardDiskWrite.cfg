\* The error limit that hd.c's comment gives (MAX_ERRORS per sector) on a
\* partition large enough that do_hd_request's range test never fails a
\* retry: write_intr's errors, never cleared between sectors, end a write
\* with fewer than MAX_ERRORS errors on any one sector.
CONSTANTS
  Unwritten = Unwritten
  Garbage = Garbage
  NR_REQUEST = 2
  Blocks = {0, 1}
  NR_SECTS = 8
  MAX_ERRORS = 7
SPECIFICATION Spec
PROPERTY
  FailsOnlyAfterRetries
