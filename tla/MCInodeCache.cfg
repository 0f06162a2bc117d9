\* Two processes over three slots and three inodes: the table is full with
\* two cached inodes and an empty one, so get_empty_inode evicts dirty
\* inodes, and iget races with eviction and with read_inode.
CONSTANTS
  p1 = p1
  p2 = p2
  p3 = p3
  NoProc = NoProc
  Procs <- MCProcsTwo
  NR_INODE = 3
  Inums = {1, 2, 3}
  MaxWrites = 2
SPECIFICATION Spec
SYMMETRY ProcSymmetryTwo
INVARIANTS
  TypeOK
  InodeRefCountExact
  UniqueInodes
  HolderHasInode
  NoLostInodeUpdate
  CachedInodeCurrent
  NoLostWakeup
  UnreferencedClean
