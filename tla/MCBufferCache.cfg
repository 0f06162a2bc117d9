\* Two processes sharing two buffers over three blocks: every getblk path
\* but the buffer_wait sleep, two client writes, sync and write-back.
CONSTANTS
  p1 = p1
  p2 = p2
  p3 = p3
  NoProc = NoProc
  NR_BUFFERS = 2
  Blocks = {1, 2, 3}
  NR_REQUEST = 2
  Procs <- MCProcsTwo
  MaxWrites = 2
  WriteErrors = FALSE
SPECIFICATION Spec
SYMMETRY ProcSymmetryTwo
INVARIANTS
  NoLostWakeup
  TypeOK
  RefCountExact
  HolderKeepsBlock
  UniqueBlocks
  CacheCoherent
  NoLostWrite
PROPERTY
  DeviceRefined
