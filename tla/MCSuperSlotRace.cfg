\* Two processes that both call sys_mount, p1 also sys_umount: read_super
\* claims a free slot (s_dev = dev) before lock_super, so get_super in
\* another sys_mount can hand out the slot before it has been read.
CONSTANTS
  p1 = p1
  p2 = p2
  p3 = p3
  a = a
  b = b
  NoName = NoName
  NoProc = NoProc
  Procs <- MCProcsTwo
  Mounters <- MCMountersTwo
  Umounters <- MCUmounterOne
  NR_SUPER = 2
  ROOT_DEV = 1
  Devs = {2, 3}
  ROOT_INO = 1
  Dirs = {2, 3}
  IMAP_BLOCKS = 1
  ZMAP_BLOCKS = 1
  Namers = {}
  Files = {4, 5}
  Names <- MCNamesTwo
  NENT = 1
  NR_OPEN = 2
  NR_FILE = 2
SPECIFICATION Spec
VIEW LiveView
INVARIANT MountFlagHasSuper
