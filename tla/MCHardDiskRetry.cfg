\* The constants of MCHardDisk.cfg, checking the error limit that hd.c's
\* comment gives: MAX_ERRORS per sector.
CONSTANTS
  Unwritten = Unwritten
  Garbage = Garbage
  NR_REQUEST = 2
  Blocks = {0, 1}
  NR_SECTS = 4
  MAX_ERRORS = 7
SPECIFICATION Spec
PROPERTY
  FailsOnlyAfterRetries
