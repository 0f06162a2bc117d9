\* Two processes, a superblock table of two slots (the root's and one
\* more) and two devices besides the root, so that sys_mount can find the
\* table full; two directories to mount on.  Only p2 calls sys_mount and
\* only p1 calls sys_umount.
CONSTANTS
  p1 = p1
  p2 = p2
  p3 = p3
  a = a
  b = b
  NoName = NoName
  NoProc = NoProc
  Procs <- MCProcsTwo
  Mounters <- MCMounterTwo
  Umounters <- MCUmounterOne
  NR_SUPER = 2
  ROOT_DEV = 1
  Devs = {2, 3}
  ROOT_INO = 1
  Dirs = {2, 3}
  IMAP_BLOCKS = 1
  ZMAP_BLOCKS = 1
  Namers = {}
  Files = {4, 5}
  Names <- MCNamesTwo
  NENT = 1
  NR_OPEN = 2
  NR_FILE = 2
SPECIFICATION Spec
VIEW LiveView
INVARIANTS
  TypeOK
  UniqueSuper
  BitmapsPinned
  MountRefExact
  MountFlagHasSuper
  CrossingReachesMounted
