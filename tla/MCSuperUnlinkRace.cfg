\* Two processes open, close and unlink files of the root directory.  A
\* sys_unlink that slept in iget clears the directory entry it found
\* before the sleep, though the name was unlinked and the entry reused by
\* another file meanwhile.
CONSTANTS
  p1 = p1
  p2 = p2
  p3 = p3
  a = a
  b = b
  NoName = NoName
  NoProc = NoProc
  Procs <- MCProcsTwo
  Mounters = {}
  Umounters = {}
  NR_SUPER = 2
  ROOT_DEV = 1
  Devs = {2, 3}
  ROOT_INO = 1
  Dirs = {2, 3}
  IMAP_BLOCKS = 1
  ZMAP_BLOCKS = 1
  Namers <- MCNamersTwo
  Files = {4, 5}
  Names <- MCNamesTwo
  NENT = 1
  NR_OPEN = 2
  NR_FILE = 2
SPECIFICATION Spec
VIEW LiveView
INVARIANTS
  LinkCountExact
