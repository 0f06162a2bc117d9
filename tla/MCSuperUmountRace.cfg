\* Two processes that both call sys_umount (p2 also mounts): sys_umount
\* sleeps in get_super/iput between its "sb->s_imount" test and clearing
\* it, so two umounts of one device can both pass the test.
CONSTANTS
  p1 = p1
  p2 = p2
  p3 = p3
  a = a
  b = b
  NoName = NoName
  NoProc = NoProc
  Procs <- MCProcsTwo
  Mounters <- MCMounterTwo
  Umounters <- MCUmountersTwo
  NR_SUPER = 2
  ROOT_DEV = 1
  Devs = {2, 3}
  ROOT_INO = 1
  Dirs = {2, 3}
  IMAP_BLOCKS = 1
  ZMAP_BLOCKS = 1
  Namers = {}
  Files = {4, 5}
  Names <- MCNamesTwo
  NENT = 1
  NR_OPEN = 2
  NR_FILE = 2
SPECIFICATION Spec
VIEW LiveView
INVARIANT MountRefExact
