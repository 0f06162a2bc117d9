# TLA+ models of the Linux 0.11 storage core and memory manager

The specification and its runs describe two cores of the kernel under `src/`.
The storage core has five parts:

- **the buffer cache** (`fs/buffer.c`);
- **the block request layer** (`kernel/blk_drv/ll_rw_blk.c`);
- **the hard-disk driver** (`kernel/blk_drv/hd.c`: `do_hd_request`, `hd_out`,
  `read_intr`, `write_intr`, `recal_intr`, `bad_rw_intr`), below the request
  list;
- **the inode cache** (`fs/inode.c`: `iget`, `iput`, `read_inode`, `write_inode`);
- **the block-address translator** `_bmap` (`fs/inode.c`) with `new_block`;
- **the superblock registry** (`fs/super.c`: `get_super`, `read_super`,
  `put_super`, `sys_mount`, `sys_umount`), composed with the mount crossing
  of `iget`, with `iput`, `write_inode`, `sync_inodes` and `sys_chdir`;
- **files of the root directory** (`fs/namei.c`: `find_entry`, `add_entry`,
  `open_namei`, `sys_unlink`; `fs/open.c`: `sys_open`, `sys_close`), in the
  same module, with the deleting end of `iput`.

The buffer cache is also shown to implement an abstract block device
(module `BlockDevice`, spec 4.1) through a refinement mapping, and the disk
driver to implement the request service the request layer relies on (module
`DiskRequests`).

The memory core is the page allocator and copy-on-write of `mm/memory.c`,
driven by `fork` (`kernel/fork.c`), page faults and exit.

The kernel runs on one CPU and is not preemptive. A process in a system call
keeps the CPU until it sleeps (`sleep_on`) or returns to user mode. The disk
interrupt can run at any moment. So every race in this code is one of two
kinds:

- an interleaving of processes at their sleep points;
- an interrupt landing between two steps.

## Inventory of the source

| Part | Source | Interacts with | Status |
|---|---|---|---|
| Buffer cache: `getblk`, `get_hash_table`, `find_buffer`, free-list scan, `bread`, `brelse`, `sys_sync`, `sync_dev` | `fs/buffer.c` | request layer (`ll_rw_block`), every file-system caller | modelled (`BufferCache`) |
| Buffer cache: `breada`, `bread_page`, `invalidate_buffers`, `check_disk_change` | `fs/buffer.c` | same | not modelled: `breada` has no caller under `src/`; `bread_page` serves only executable demand loading; the other two serve floppy media change |
| Request layer: `make_request`, `add_request` (elevator), `ll_rw_block`, `lock_buffer` | `kernel/blk_drv/ll_rw_blk.c` | buffer cache, disk driver | modelled, except READA/WRITEA |
| Disk driver: `do_hd_request`, `hd_out`, `reset_hd`, `read_intr`, `write_intr`, `recal_intr`, `bad_rw_intr` (with `end_request` of `blk.h`) | `kernel/blk_drv/hd.c` | request layer, drive | modelled (`HardDisk`, sector by sector; in `BufferCache` as one `Interrupt` per request) |
| `sys_setup`, `hd_init`, `controller_ready`, `drive_busy`, `reset_controller`'s port sequence | `kernel/blk_drv/hd.c` | hardware | not modelled: boot-time set-up and busy-wait port I/O |
| Inode cache: `iget`, `iput`, `get_empty_inode`, `read_inode`, `write_inode`, `sync_inodes` | `fs/inode.c` | buffer cache, superblocks | modelled (`InodeCache`), without mount points and pipes |
| Block-address translator `_bmap`, `bmap`, `create_block` (with `new_block` of `bitmap.c`) | `fs/inode.c` | inode cache, buffer cache | modelled (`Bmap`) |
| Superblocks: `get_super`, `read_super`, `put_super`, `sys_mount`, `sys_umount`, `mount_root` | `fs/super.c` | inode cache (mount points), buffer cache (bitmaps) | modelled (`Super`), without `check_disk_change`, `s_isup` and the node-type tests |
| Root directory: `match`, `find_entry`, `add_entry`, `open_namei`, `sys_unlink`, `get_dir` of "/" | `fs/namei.c` | inode and buffer caches, inode bitmap | modelled in `Super` for one-component paths |
| Multi-component lookup, `namei`, `sys_mknod`, `sys_mkdir`, `sys_rmdir`, `sys_link` | `fs/namei.c` | same | not modelled yet |
| `sys_chdir`, `sys_open`, `sys_close` (fd and `file_table`) | `fs/open.c` | inode cache, namei | modelled in `Super` |
| `sys_read`/`sys_write`, `sys_chroot`, `sys_chmod` and the other attribute calls | `fs/open.c`, `fs/read_write.c` | inode cache | not modelled: dispatch to code outside `src/`, or attribute writes with no sleep |
| Page frames, `mem_map`, copy-on-write, anonymous demand paging | `mm/memory.c` | process creation, exit | modelled (`Memory`), except `share_page` and executable demand loading |
| `find_empty_process`, `copy_process`, `copy_mem` | `kernel/fork.c` | memory manager | modelled for pages and pids (`Memory`) |
| Boot | `init/main.c` | everything, once | not modelled: one-shot initialisation |

## Module `BufferCache`

### Buffer and disk state

The fields of `struct buffer_head` are the variables `b_blocknr`, `b_count`,
`b_dirt`, `b_lock`, `b_uptodate` and `b_data`, each a function over the buffer
pool `1..NR_BUFFERS`.

- **Device.** There is one device, so `b_blocknr = NoBlk` (0) stands for
  `b_dev == 0`, a buffer never used.
- **Hash chains.** They are abstracted to `FindBuffer`, which finds the buffer
  holding a block.
- **Free list.** `free_list` is a sequence. `remove_from_queues` followed by
  `insert_into_queues` moves a buffer to its end (`Requeue`).
- **Data.** Data is a version number. Each client write stores a fresh
  version, and the ghost `latest[k]` records the last version written to
  block `k`.
- **Disk.** `disk[k]` is the version on disk.
- **Requests.** The request table is `request` (a free entry has
  `bh = NoBuf`, which stands for `dev == -1`). The list that starts at
  `current_request` is `queue`.

### Process state

Each process has a program counter `pc` at one of the points where the code
can sleep or call. It also has the locals of the frame it is in:

- `blk` and `bh` of `bread`/`getblk`;
- `si`, `pass` and `caller` of the `sys_sync`/`sync_dev` loop;
- `rwbuf`, `rwcmd` and `rwret` of `ll_rw_block`.

`sleeping[p]` is the wait queue `p` sleeps on. `cur` is the process on the CPU.

### How actions follow the code

Each action is the code a process runs from one sleep point or call to the
next, so an action never spans a sleep. The early returns and `goto repeat`
of `getblk` are separate actions, with guards taken from the code's tests:

- `GetHashTable`, `GetHashTableFound`;
- `GetblkScan`, `GetblkSleep`, `GetblkRepeat`, `GetblkSyncDev`;
- `GetblkRecheck`, `GetblkClaim`.

`sleep_on` wakes up to the same `pc`, so the code's `while` loop tests its
condition again. `wake_up` wakes every sleeper on the queue.

`Interrupt` ends the request at the head of `queue`, and may do so whenever
one is queued. Reads may fail. Writes may fail only when `WriteErrors` is
set. The action does everything `end_request` does:

- sets `b_uptodate`;
- copies the data;
- unlocks the buffer and wakes `b_wait` and `wait_for_request`;
- frees the request and advances the list.

### Not actions, on purpose

Two branches of the code are not actions, because they cannot fire. A
property shows each one dead:

- the identity-mismatch retry of `get_hash_table` (`HolderKeepsBlock`);
- the `brelse` panic (`RefCountExact`).

The "nothing to do" unlock in `make_request` is not an action either. Every
caller tested `b_dirt` or `b_uptodate` just before, without sleeping since.

### The generic holder

`WriteBuffer` is a holder of a buffer changing its data and marking it dirty.
This is what `_bmap`, `write_inode` and the directory code do. The holder may
first have slept, as `_bmap` does in `new_block`.

## Module `InodeCache`

The fields of the in-memory inode table are functions over `1..NR_INODE`:
`i_num` (0 is an unused slot), `i_count`, `i_dirt`, `i_lock`, `i_update` and
the contents as a version. `dstore[n]` is the disk copy of inode `n`; the
inode-table block that `read_inode` and `write_inode` reach with `bread` is
abstracted to it, and the `bread` is a point where the caller sleeps holding
the inode lock. Processes run without preemption between sleep points, as in
`BufferCache`.

- `iget` is `IgetFound`, `IgetRecheck` (the wait on a locked inode and the
  re-test of `i_dev`/`i_num` after it), `IgetTake` and `IgetNew`, with
  `get_empty_inode` as `GetEmptyScan` and `GetEmptyTake`. `GetEmptyTake`
  takes the candidate at once. The code's two other branches, writing back
  a dirty candidate and scanning again when it was referenced meanwhile,
  are not actions, because `UnreferencedClean` shows an unreferenced inode
  is always clean and unlocked. For the same reason `write_inode`'s
  unlock-and-return branch is not an action.
- `iput` is `IputStart`, `IputDec` (more than one reference), `IputWrite`
  (last reference to a dirty inode) and `IputLast`.
- `write_inode` is `WriteInodeLock` and `WriteInodeDone`; `sync_inodes` is
  `SyncInodes`, `SyncNext`, `SyncWrite`, `SyncDone`.
- `ModifyInode` is a holder changing the inode and marking it dirty.

Properties of the `inode_cache` run: `InodeRefCountExact` (`i_count` is the
number of holders), `UniqueInodes`, `HolderHasInode` (a held slot keeps its
inode across every sleep), `NoLostInodeUpdate` (the latest version is on disk
or in a dirty cached inode), `CachedInodeCurrent`, `UnreferencedClean` and `NoLostWakeup`.

## Module `Bmap`

`i_zone` is the zone array of one inode (`NR_DIRECT` direct entries, then the
indirect and double-indirect entries); `bdata[z]` is the content of zone `z`
read as a block of `ADDR_PER_BLOCK` entries; `zmap` is the zone bitmap. Each
process has a `pc` in `_bmap`, the block index `blk` and a `create` flag
(`Creators` are the processes that call `create_block`). `bread` and
`new_block` (its `getblk`) are sleep points. `new_block` is modelled as in
`bitmap.c`: find a clear bit, set it, test against `s_nzones`, `getblk`, clear
the block. A zone whose block was never cleared holds `Garbage`.

- `DirectLookup`/`DirectCreate`, `StartIndirect`, `IndCheck`, `IndRead`,
  `StartDouble`, `DindCheck`, `DindRead1`, `DindRead2` and `BreadFail` follow
  `_bmap`'s three branches.
- `NewBlockFull`, `NewBlockTake` and `NewBlockDone` are `new_block`;
  `AfterNewBlock` and the `Assign*` actions store its result.

Properties of the `bmap` run: `BmapMatchesReference` (every index `_bmap`
returns is the zone a reference flattening of the tree, `FlattenSeq`, puts at
that index), `NoGarbageMapped`, `NoLeak` (the bitmap marks
exactly the referenced zones and those a caller holds from `new_block`) and
the action property `NoZoneOverwrite` (a zone entry is never replaced once
non-zero).

## Module `Memory`

Physical memory is `NFRAMES` pages; the ones below `LOW_MEM` are task 0's
kernel pages and are never counted. `mem_map[f]` is the count of a page
above `LOW_MEM`. A task slot has a task page `tpage`, a page directory range
`dir[t]` (one page-table page per directory entry) and the page-table
entries `pte[t][<<d, v>>]`, each a record of present page, writable bit.
`data[f]` is the content of a page as a version; the ghost `view[t][a]` is
the last version task `t` wrote or inherited at address `a`. All operations
are atomic: `memory.c` and `fork.c` never sleep.

- `Fork` is `find_empty_process`, `copy_process` and `copy_mem` with
  `copy_page_tables`: the child shares every present page write-protected,
  and the parent's entries above `LOW_MEM` are write-protected too.
  `ForkNoSlot`, `ForkNoTaskPage` and `ForkNoTable` are its failures; the last
  one runs out of pages after copying some directory entries and undoes them
  with `free_page_tables`.
- `Write` is a user write; to a write-protected page it is `do_wp_page`:
  `UnWpSoleUser`/`UnWpReuse` (count 1: make the entry writable) or
  `UnWpCopy` (copy to a fresh page), `UnWpOom` when none is free.
- `NoPage` is `do_no_page` on an anonymous address (`get_empty_page`,
  `put_page`, which may take a page-table page); `NoPageOom` its failure.
- `Exit` frees the task's tables (`free_page_tables`) and its slot.

Properties of the `memory` run: `MemMapExact` (each count is exactly the
number of entries mapping the page, plus its use as a task or table page),
`PrivateView` (every task reads at each address what it last wrote there or
inherited at fork: copy-on-write never exposes another task's write) and
`UniquePids` (live tasks have distinct pids across the wrap of `last_pid`).

## Module `Super`

The superblock table is `NR_SUPER` slots with `s_dev`, `s_lock`,
`s_imount` and, as counts, the bitmap buffers held (`s_imap`, `s_zmap`).
Inodes are `<<dev, ino>>` pairs: the root device's root and directories
`Dirs`, and the root inode of each device in `Devs`; each has `i_count`,
`i_lock`, `i_dirt` and `i_mount`. `Init` is the state `mount_root` leaves:
slot 1 holds `ROOT_DEV` with its bitmaps, and the root inode has
`i_count = 4` (`mi->i_count += 3`).

Procedures are a call stack per process (`Call`, `Ret`, `Goto`), and one
CPU is the variable `cur`: a process keeps it until it sleeps (`Sleep`), and
`MaySleep` is a `bread` or `brelse` that may wait for the disk. Each wait
loop (`lock_super`, `wait_on_super`, `wait_on_inode`) is a guard, and a
process that finds the lock held gives up the CPU (`SleepOn`).

- `get_super` is `GetSuperNone`, `GetSuperFound` and `GetSuperWake` (the
  re-test of `s_dev` after `wait_on_super`).
- `read_super` is `ReadSuperStart` (the `get_super` hit), `ReadSuperGot`
  (claim the first free slot: `s_dev = dev`, then `lock_super`),
  `ReadSuperLock`, `ReadSuperBlock` (`bread(dev,1)` or its failure),
  `ReadSuperImap`/`ReadSuperZmap` (the bitmap loops, each read may fail) and
  `ReadSuperCheck` (the block-count test, releasing the bitmaps on failure).
- `iget` of a cached directory is `IgetFind` and, at a mount point,
  `IgetCross`; `iput` is `IputStart`, writing a dirty last reference
  through `WriteInodeLock`/`WriteInodeDone`.
- `sync_inodes` is `SyncStart`, `SyncNext`, `SyncSleep`, `SyncDone`. Here
  only the mount point (which `sys_mount` dirties) and files are ever
  dirtied, so it visits just the root device's directories and the files.
  The code's `namei` also dirties the inode it returns (`namei.c:358`); the
  model leaves that out (see "Not modelled").
- `sys_chdir` is `Chdir`, `ChdirGot`, `ChdirSet`; `sys_mount` is
  `MountStart`, `MountDir`, `MountSuper`; `sys_umount` is `UmountStart`,
  `UmountSuper`, `UmountPut` and `put_super` (`PutSuperLock`,
  `PutSuperRelease`, `PutSuperFree`).

Three constants give processes roles: only `Mounters` call `sys_mount`,
only `Umounters` call `sys_umount`, only `Namers` open, close and unlink
files. The passing runs have at most one of each, because with two
umounters, two mounters or two namers the races of finding 2 and of the
divergences without a run break the properties. `VIEW LiveView` forgets the locals of an idle process
(dead values), which keeps the state space to under a million states.

Three branches of the code are shown dead rather than modelled: the
`!i_dirt` return of `write_inode` (both callers tested it without sleeping
since), the `dir_i->i_mount` EPERM test of `sys_mount` (`namei` would have
crossed, and the `i_count != 1` test stops a second mount on a held
directory), and the not-found and still-mounted returns of `put_super` with
one umount at a time.

Properties of the `super` run:

- `UniqueSuper`: no device is in two slots;
- `BitmapsPinned`: a slot not being set up holds all its bitmaps if in use
  and none if free;
- `MountRefExact`: `i_count` of every inode is exactly its base count, plus
  one per superblock mounted on it, plus the references processes hold
  (`pwd`, a lookup result, `dir_i`, an `iput` in progress);
- `MountFlagHasSuper`: an inode with `i_mount` set has a superblock in use
  mounted on it;
- `CrossingReachesMounted`: when `iget` reads `s_dev` after releasing the
  mount point, the slot is still the one mounted there.

### Files of the root directory

Every path is `"/name"`: `get_dir` takes a reference to the root directory
(`TakeDir`, without sleeping) and `find_entry` scans it. The directory is
one block of `NENT` entries `de_ino`/`de_name`, names are model values
(`Names`), and regular files are the inodes `<<ROOT_DEV, f>>` for `f` in
`Files`, with `i_nlinks` and an inode bitmap bit `imap[f]`.
`new_inode`, `free_inode` and `truncate` are in `fs/bitmap.c` and
`fs/truncate.c`, outside `src/`; they are modelled from the spec (a new
inode takes the first free bit, with `i_count = i_nlinks = i_dirt = 1`;
deletion truncates, which may sleep, then clears the bit and the inode).

- `sys_open` with `open_namei` (flag `O_CREAT`) is `OpenStart` (first free
  fd and `file_table` entry, then `dir_namei`), `FindEntry`, and then either
  `OpenFound` and `OpenGot` (brelse, `iput(dir)`, `iget` of the entry's
  inode), or `OpenMiss` (`get_empty_inode` may sleep), `OpenNoSpace` or
  `OpenNew` (`new_inode`), and `OpenAdd` (`add_entry` takes the first free
  entry and `de->inode` is set before anything can sleep) or, with the
  directory full, `OpenFail` after `iput` of the new inode.
- `sys_close` is `Close`: free the fd and the file, `iput` the inode.
- `sys_unlink` is `UnlinkStart`, `FindEntry`, `UnlinkFind` (`iget` of the
  number in the entry), `UnlinkGot` (the "nonexistent file" fix-up, clear
  the entry, brelse), `UnlinkRel` (`i_nlinks--` on an unsigned char,
  `i_dirt = 1`, `iput`) and `UnlinkDir`.
- `iput` of the last reference to an inode without links goes to `IputFree`
  (after `truncate`'s possible sleep): the bit is cleared and the inode
  zeroed.

`MountRefExact` now also counts the references of open files, of a path
lookup's root directory and of a new or unlinked file. `LinkCountExact`
says a file's `i_nlinks` is the number of entries naming it, plus one for an
`open_namei` between `new_inode` and setting the entry, plus one for a
`sys_unlink` between clearing the entry and the decrement; and that no entry
names an inode whose bit is free.

## Module `BlockDevice` and the refinement

`BlockDevice` is what spec 4.1 promises callers of the cache: blocks with
contents (`mem`), processes that hold a block (`held`) and see its content
(`seen`), and three operations, `Read`, `Write` and `Release`. Write-back,
eviction, sync and I/O completion do not show at this level.

`BufferCache` instantiates it as `Device` with a refinement mapping:

- the content of block `k` is that of its up-to-date buffer, if it has one,
  and the disk's otherwise;
- a process holds a block from the end of `bread` to its `brelse`;
- it sees the data of the buffer it holds;
- `nw` is the write counter.

The `cache` run checks `DeviceRefined == Device!Spec` as a property. Every
step of the cache is then either a step of the device or leaves the mapped
state unchanged. Reading a block whose write failed is excluded by
`WriteErrors = FALSE`; with write errors, `mem` would go back to the disk's
old version, which is finding "a failed write" below.

## Modules `HardDisk` and `DiskRequests`

`HardDisk` is `hd.c` below the request list of `ll_rw_blk.c`. A block is two
sectors, and the drive interrupts once per sector.

State, as in the code:

- `queue` is the device's request list, `CURRENT` first;
- `rq[r]` holds `cmd`, `blk`, `sector`, `nr_sectors` (`nr`) and `errors`;
- `buf[r]` is the request's buffer, and `Slot(r)` is the half that
  `CURRENT->buffer` points at;
- `disk` holds the sectors;
- `do_hd` is the interrupt routine `hd_out` installed, and `pending` an
  interrupt the drive owes;
- `reset` and `recalibrate` are the driver's flags;
- `dpc = "request"` stands for a pending run of `do_hd_request`'s `repeat`
  loop.

Actions:

- `MakeRequest` is `add_request` with its elevator (`ElevatorPos`, the
  recursive form of the `IN_ORDER` scan). Linked into an empty list, the
  request starts `do_hd_request`.
- `HdRequestIdle`, `HdRequestBeyond` and `HdRequestIssue` are the passes of
  `do_hd_request`:
  - the list is empty;
  - the range test fails and the request ends with `end_request(0)`;
  - otherwise the pass resets (`ResetHd`), recalibrates, or sends a read or
    a write. The write includes the DRQ poll, whose timeout goes to
    `bad_rw_intr`.
- `HdInterrupt` runs `do_hd`: `ReadIntr`, `WriteIntr` or `RecalIntr`. The
  drive picks the outcome (`win_result`). An error goes to `BadRwIntr`,
  which counts it, ends the request at `MAX_ERRORS`, and asks for a reset
  past `MAX_ERRORS/2`.
- Both the interrupt and `add_request` run with interrupts off, so each is
  one step.

Fault model: every interrupt may report an error. A write that fails may
or may not have reached its sector. The data is abstracted to sector
numbers: a write of block `k` writes `Sector(k, i)` into sector `i`, so a
sector written to the wrong place shows. Two ghost variables support the
checks:

- `before` keeps the current write's block as it was, for the mapping;
- `streak` counts the errors in a row on a request's current sector, for
  `FailsOnlyAfterRetries`.

`DiskRequests` is what a block driver promises `ll_rw_blk`:

- requests are served from the head of the list, and each ends once;
- a request that ends with `uptodate = 1` moved its whole block;
- one that fails moved each sector or left it as it was.

`HardDisk` instantiates it. The refinement mapping hides the current
request's partial transfer: the mapped buffer of a read in progress is still
`Garbage`, and the mapped disk under a write in progress is `before`. Every
step of the driver but `end_request` is then a stuttering step.

## Runs

The first three runs use `MCBufferCache`; the others use `MCHardDisk`,
`MCInodeCache`, `MCBmap`, `MCMemory` and `MCSuper`. Processes are model values.

| Run | cfg | Expect | What it shows |
|---|---|---|---|
| `cache` | `MCBufferCache.cfg` | pass | Two processes over 2 buffers, 3 blocks, 2 requests and 2 client writes. The run checks the properties listed below. |
| `pool` | `MCBufferCachePool.cfg` | pass | Three readers and 2 buffers. The pool runs dry, `getblk` sleeps on `buffer_wait`, and every such sleeper is woken (`NoLostWakeup`). |
| `elevator` | `MCBufferCacheLive.cfg` | pass | Three readers, 3 buffers and 3 requests. Under weak fairness of `Interrupt`, every queued request is eventually ended (`RequestServed`). |
| `disk` | `MCHardDisk.cfg` | pass | Two requests over blocks 0 and 1 of a 4-sector partition, a drive that may fail any interrupt, `MAX_ERRORS = 7`. `TypeOK` holds, the driver refines `DiskRequests` (`DiskRefined`), and every request is ended (`RequestEnds`). |
| `disk_retry` | `MCHardDiskRetry.cfg` | violation | `FailsOnlyAfterRetries` fails: a request is failed after one error (finding 3). |
| `inode_cache` | `MCInodeCache.cfg` | pass | Two processes, three slots and three inodes: `iget`, `iput` and `sync_inodes` race with eviction and `read_inode`; the `InodeCache` properties hold. |
| `bmap` | `MCBmap.cfg` | pass | One creator and one reader over 1 direct entry, 2 entries per block and 4 zones; the `Bmap` properties hold. |
| `bmap_race` | `MCBmapRace.cfg` | violation | `NoZoneOverwrite` fails with two creators on one inode. |
| `memory` | `MCMemory.cfg` | pass | Three task slots, two directory entries of two pages, five frames: the `Memory` properties hold. |
| `super` | `MCSuper.cfg` | pass | Two processes (one mounts, one unmounts, both chdir and sync) over two slots, two devices and two directories: the `Super` properties hold. |
| `files` | `MCSuperFiles.cfg` | pass | One namer with two fds, two names, two inode numbers and a one-entry directory, while a second process calls `chdir` and `sync_inodes`: `MountRefExact` and `LinkCountExact` hold. |
| `unlink_race` | `MCSuperUnlinkRace.cfg` | violation | `LinkCountExact` fails with two namers. |

Properties checked by the `cache` run:

- `TypeOK`;
- `RefCountExact`: `b_count` is exactly the number of holders;
- `HolderKeepsBlock`: a referenced buffer keeps its block;
- `UniqueBlocks`: no block is in two buffers;
- `CacheCoherent`: an up-to-date buffer holds the latest data of its block;
- `NoLostWrite`: the latest data is on disk, in a dirty buffer, or in a queued
  write;
- `NoLostWakeup`: a sleeper's wait condition still holds;
- `DeviceRefined`: the cache implements `BlockDevice`.

Every property of a passing run has a mutant in `PROJECT.json`: a one-line
variant of the code that TLC shows breaks it. Examples:

- dropping the `find_buffer` re-check;
- not clearing `b_uptodate` on a claim;
- taking the reference after the wait;
- an elevator that always links behind the current request.

## Findings

1. **Two `create_block` calls on one directory lose a zone** (`bmap_race`).
   `_bmap` tests a zone entry, calls `new_block` (which may sleep in
   `getblk`) and assigns its result without testing again (`inode.c:92`).
   `add_entry` (`namei.c:202`) calls `create_block` on a directory it has
   not locked, so the second of two callers overwrites the first one's zone.
2. **Two `sys_unlink` calls of one name leak the file** (`unlink_race`).
   `sys_unlink` passes `de->inode` to `iget`, which can sleep, and later
   clears the entry and decrements `i_nlinks`, with a `brelse` (which can
   sleep) in between (`namei.c:726-753`). It never checks that the entry
   still names the inode. Two unlinks of one name both find the entry and
   both decrement. `i_nlinks` is an unsigned char, so a file with one link
   goes to 0 and then 255. The last `iput` sees links and writes the inode
   back: it is never freed, and no entry names it. The same stale entry
   pointer can also erase the entry of a file created meanwhile in the
   freed entry.
3. **`do_hd_request`'s range test fails retries of the last block**
   (`disk_retry`). The test `block + 2 > nr_sects` (`hd.c:344`) uses
   `CURRENT->sector`, which on a retry is already the block's second
   sector. A read or write of the last block of a partition that gets one
   error on its second sector is ended with `end_request(0)` at once. The
   comment at `hd.c:33` says `MAX_ERRORS` errors are allowed per sector.
   TLC's trace reads block 1 of a 4-sector partition: sector 2 is read, and
   sector 3 fails once. The retry computes 3 + 2 > 4, and the request fails.

### Divergences without a run

Twelve runs is the project's budget, so five divergences are kept here
instead. The first three have reproducer cfgs on disk: run
`tlc -config <cfg> <MC module>` and TLC reports the named property violated.

- **`write_intr` never clears the error count** (`hd.c:315`;
  `MCHardDiskWrite.cfg` with `MCHardDisk`, `FailsOnlyAfterRetries`).
  `read_intr` sets `CURRENT->errors = 0` after every sector it reads;
  `write_intr` does not, so a write's errors add up over its sectors. With
  `NR_SECTS = 8` the range test of finding 3 cannot fire, and TLC's trace
  ends a write with `end_request(0)` after three errors on its first
  sector and four on its second, though `hd.c:33` allows `MAX_ERRORS`
  (7) per sector.

- **`read_super` hands out a slot before reading it** (`MCSuperSlotRace.cfg`,
  `MountFlagHasSuper`). It sets `s_dev` on a free slot before `lock_super` (`super.c:119`), which
  sleeps while a `put_super` still holds that free slot. Another
  `sys_mount` of the same device then finds the slot in `get_super` and
  mounts on it. If the read fails, `read_super` frees the slot: the
  directory keeps `i_mount = 1` with no superblock (`iget` prints "Mounted
  inode hasn't got sb", and a crossing reads device 0).
- **Two `sys_umount` calls release the mount point twice**
  (`MCSuperUmountRace.cfg`, `MountRefExact`). `sys_umount` tests
  `s_imount`, then `iput`s it (which sleeps writing the dirty directory) before setting it to NULL
  (`super.c:216`). A second umount passes the same test and `iput`s it
  again, dropping a reference held by someone else or panicking in `iput`.
- **A failed write loses data silently.** `add_request` clears `b_dirt`
  when the write is queued (`ll_rw_blk.c:71`). When the write fails,
  `end_request(0)` only clears `b_uptodate`. The data is then gone, and
  nobody is told. Set `WriteErrors = TRUE` in `MCBufferCache.cfg` and TLC
  reports `NoLostWrite` violated within seconds.
- **`_bmap` writes into a locked buffer.** `_bmap` writes an indirect block
  (`inode.c:120`) after `new_block` may have slept. Meanwhile `sys_sync` can
  have locked that buffer for a write in progress. The buffer stays dirty,
  so the block is written again later; the disk sees a torn block only
  until then.

### Races seen but not checked

- With two namers, an `open` or `unlink` that read an inode number before
  the file was deleted can `iget` it while `iput` sleeps in `truncate`.
  `free_inode` then panics on `i_count > 1`. TLC finds this as a
  `MountRefExact` violation under `MCSuperUnlinkRace.cfg`'s constants.
- Two `open(O_CREAT)` calls of one name both miss in `find_entry` and both
  add an entry. The modelled directory has one entry, so the second
  `add_entry` fails instead.
- `new_inode` can pick the number of a freed inode that a stale `iget` has
  brought back into the table, giving one inode two slots. Inodes are
  named by number in `Super`, so `OpenNew` waits instead; see `PROJECT.json`.

## Bounds

- **`cache` run.** Two buffers and three blocks force eviction and rehashing,
  including eviction of dirty buffers through `sync_dev`. Two requests give a
  write limit of one request (`NR_REQUEST*2/3`), so a second writer sleeps on
  `wait_for_request`. Two writes give a buffer that is re-dirtied while its
  write is queued.
- **`pool` run.** A third process is needed to find every buffer referenced.
- **`elevator` run.** Three requests in flight are the fewest with which a new
  request can be linked ahead of a queued one. Read failures make processes
  re-read, so requests keep arriving.

- **`inode_cache` run.** Three slots for three inodes with two holders make
  the table fill, so `get_empty_inode` evicts a cached inode whose last
  `iput` wrote it back; two processes can then race on one inode.
- **`bmap` run.** One direct entry and two entries per block give block
  indices in all three branches (0 direct, 1-2 indirect, 3-6 double
  indirect). Four zones make the bitmap fill part way through a double
  indirect creation, so `new_block` fails after some levels were allocated.
- **`memory` run.** Two directory entries per task make `copy_page_tables`
  fail after copying one of them, and `put_page` need a second table. Five
  frames let three tasks share pages and also run out. `PID_MAX = 3` makes
  `last_pid` wrap while pids are live.

- **`super` runs.** Two slots for the root and two more devices make
  `read_super` find the table full. Two directories let one be a `pwd`
  while the other is mounted on; one bitmap block each is enough for a
  read to fail after the superblock read. Two processes are the fewest
  for every race above, and roles keep the passing run to one of each
  call.
- **`files` run.** Two fds, two names, two inode numbers and one directory
  entry are the fewest with which both failures of `open(O_CREAT)` happen
  with one namer: `new_inode` finds the bitmap full (one file named, the
  other unlinked but still open) and `add_entry` finds the directory full.
  The second process's `sync_inodes` locks file inodes, so `iget` and
  `iput` wait on them. The root directory is never dirtied or deleted.

- **`disk` run.** Two requests are the fewest for which a request is linked
  behind the current one while it retries. With blocks 0 and 1 of a
  4-sector partition, block 1 is the partition's last, where the range
  test bites. Both of its sectors are inside, so `HdRequestBeyond` runs only
  on a retry. `MAX_ERRORS = 7` is the code's: the first reset comes at the
  fourth error, and `end_request(0)` at the seventh. A third request took
  TLC past 8 million states within a minute; the elevator's insertion past
  the first element is checked in the `elevator` run.

Symmetry over processes is used in the safety runs only.

## Fairness

`FairSpec` assumes weak fairness of `Interrupt` only: the disk eventually ends
the transfer it was given. The processes get no fairness, because the
scheduler may run others forever. Reads are not claimed to terminate either,
since spec §5 leaves `getblk` starvation open.

`HardDisk`'s `FairSpec` assumes weak fairness of `HdInterrupt`: the drive
answers every command it was sent. It also assumes weak fairness of
`HdRequest`: a scheduled `do_hd_request` runs, since it runs at once on the
same interrupt path. Nothing else is assumed. Requests arrive when they
may, and the drive may fail forever; `RequestEnds` holds even then.

## Not modelled, and why

- **Hash-chain and free-list pointer manipulation.** It is abstracted by
  `FindBuffer` and the free-list sequence. The pointer code has no sleep
  inside it.
- **Sector-by-sector transfer in `BufferCache`.** There a request ends once,
  in one step. The sector-by-sector driver is `HardDisk`, and the two are not
  composed: `HardDisk`'s buffers hold sector contents, `BufferCache`'s hold
  block versions.
- **`sys_setup`, `hd_init`, `controller_ready`, `drive_busy`.** These are
  boot-time reads of the drive parameters and partition tables, and
  busy-wait loops over status ports that print or panic. The model
  assumes the drive becomes ready, so `hd_out`'s "HD controller not ready"
  panic and `reset_controller`'s "HD-controller still busy" message never
  happen.
- **A lost interrupt.** Nothing in this `hd.c` times the drive out. If the drive never interrupts, the
  request stays current forever. `RequestEnds` assumes that it does.
- **The CHS conversion of `do_hd_request`.** The block-to-sector
  arithmetic is kept; the divisions into head, cylinder and sector are taken
  as the identity on sector numbers.
- **Devices.** There is one device.
- **`sync_inodes` in `BufferCache`.** Dirty inodes live in `InodeCache`; the
  two modules are not composed, the inode-table block is `dstore`.
- **`share_page`/`try_to_share` and executable demand loading.** They
  need the executable's inode and `bread_page`.
- **`write_verify`, `calc_mem`.** The first is `do_wp_page` for kernel
  writes; the second only prints.
- **TSS/LDT set-up and the file-table increments of `copy_process`.** They
  are registers and counts of modules not composed with `Memory`.
- **Multi-component path lookup** (`get_dir`'s walk, `namei`, `..` over a
  mount point) and `sys_mknod`, `sys_mkdir`, `sys_rmdir`, `sys_link`. In
  `Super`, `namei` of a directory is one `iget` of it, the files are all in
  the root directory, and `namei` of the device node is left out.
- **`namei`'s `i_dirt = 1` on the inode it returns** (`namei.c:357-358`,
  for `i_atime`). With it, every `chdir` and `mount` target is dirty and
  every last `iput` of one sleeps in `write_inode`; the `super` and `files`
  runs then exceed 6 million states and five minutes. Without it, those
  last `iput`s never sleep. While one holds the last reference, a
  `sys_umount` of its device returns EBUSY, so no property depends on it.
- **`read_write.c`.** It dispatches to `file_read`/`file_write` and the
  device drivers, which are outside `src/`.
- **The directory's own growth.** `add_entry` extends `i_size` and calls
  `create_block`; here the directory already has its `NENT` entries, and a
  full directory cannot grow (its `create_block` race is `Bmap`'s).
- **`breada`.** It has no caller under `src/`, so its `b_count--` without
  a `wake_up` (`buffer.c:356`) is not reachable.
- **`check_disk_change`, `invalidate_buffers`, `s_isup`.** Floppy media
  change; `s_isup` is NULL for every mounted file system but the root.

## Plan

1. `sys_link` and a directory of two entries, for the duplicate-name
   create race and a stale-unlink property over several links.
2. `share_page` and demand loading in `Memory`.
3. Compose `HardDisk` under `BufferCache`'s request list, with buffers of
   block versions split into sectors, so that a failed write's torn block
   meets `NoLostWrite`.
