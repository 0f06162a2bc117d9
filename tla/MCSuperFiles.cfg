\* Files of the root directory.  p1 opens (creating), closes and unlinks
\* with two fds, two names, two inode numbers and a directory of one
\* entry, so that new_inode finds the bitmap full and add_entry finds the
\* directory full; p2 calls chdir and sync_inodes, which lock the files'
\* inodes to write them.  Nobody mounts.
CONSTANTS
  p1 = p1
  p2 = p2
  p3 = p3
  a = a
  b = b
  NoName = NoName
  NoProc = NoProc
  Procs <- MCProcsTwo
  Mounters = {}
  Umounters = {}
  NR_SUPER = 2
  ROOT_DEV = 1
  Devs = {2, 3}
  ROOT_INO = 1
  Dirs = {2, 3}
  IMAP_BLOCKS = 1
  ZMAP_BLOCKS = 1
  Namers <- MCNamerOne
  Files = {4, 5}
  Names <- MCNamesTwo
  NENT = 1
  NR_OPEN = 2
  NR_FILE = 2
SPECIFICATION Spec
VIEW LiveView
INVARIANTS
  MountRefExact
  LinkCountExact
