\* Three readers and three buffers and requests: the request list holds
\* three entries, so the elevator can link new requests ahead of a queued one.
\* No symmetry: it is not sound for liveness checking.
CONSTANTS
  p1 = p1
  p2 = p2
  p3 = p3
  NoProc = NoProc
  Procs <- MCProcs
  NR_BUFFERS = 3
  Blocks = {1, 2, 3}
  NR_REQUEST = 3
  MaxWrites = 0
  WriteErrors = FALSE
SPECIFICATION FairSpec
PROPERTY
  RequestServed
