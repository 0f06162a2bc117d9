\* Three processes and two buffers: the pool runs dry and getblk sleeps
\* on buffer_wait.  No client writes, so the state space stays small.
CONSTANTS
  p1 = p1
  p2 = p2
  p3 = p3
  NoProc = NoProc
  NR_BUFFERS = 2
  Blocks = {1, 2, 3}
  NR_REQUEST = 2
  Procs <- MCProcs
  MaxWrites = 0
  WriteErrors = FALSE
SPECIFICATION Spec
SYMMETRY ProcSymmetry
INVARIANTS
  NoLostWakeup
