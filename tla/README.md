# TLA+ models of cs124-my-pintos

This directory holds TLA+ models of the parts of the Pintos kernel found under `src/`:
- the buffer cache and the inode layer of the file system (`src/file-system/filesys`);
- the frame table, supplemental page table and swap (`src/virtual-memory/vm`);
- the system-call glue of the two project variants (`src/*/userprog/syscall.c`);
- the fixed-point library of the scheduler (`src/priority-scheduler/lib/kernel`).

The modules are checked with TLC. `PROJECT.json` lists each component, the runs with their expected outcome, the mutants that show each property can fail, the map from every definition to the source lines it models, the findings and the hazards.

## The system

| Part | Source | State | Operations | Concurrency |
|---|---|---|---|---|
| Buffer cache | `cache.c` | 64 entries: `sector`, `dirty`, `accessed`, `data`, a `block_lock` each; a global `buffer_lock` | `cache_read`, `cache_write`, `cache_zero`; `find_cache_entry`, `next_cache_entry` (clock); the write-behind thread's `cache_save` | every kernel thread doing file I/O, plus write-behind |
| Inode layer | `inode.c` | on-disk `inode_disk` (length, 188 direct and 64 indirect u16 slots); in-memory `inode` (open_cnt, removed, deny_write_cnt, lock, copy of the inode_disk); `open_inodes` list | `inode_create`, `inode_open`/`reopen`/`close`/`remove`, `inode_read_at`/`write_at` with growth (`extend_disk`, `append_sector`), deny/allow write | each operation runs under the inode lock; `open_inodes` has no lock |
| Free map | not in `src/` | set of free sectors | `free_map_allocate`, `free_map_release` | called under the inode lock |
| Frame table | `frame.c` | list of frames (kpage, pd, upage), a hand `next_frame`, the static `fail_on_next` | `frame_alloc` (first pass, then clock eviction), `frame_free` | page faults of all processes |
| Supplemental page table | `page.c` | per process, a list of pages (upage, frame, active, file, off, writable, swap slot) | `page_fetch` (faults and stack growth), `page_set_*`, `page_write_data`, `page_unmap` | one per process |
| Swap | `swap.c` | occupied and free slot lists, `next_sector` | `get_slot`, `swap_out`, `swap_in` | called from eviction by any process |
| System calls | `syscall.c` (two variants) | per process, a list of `file_store` (fd, file, mapped) | `syscall_handler`, `grab_arg`, `is_valid_uaddr`; `create_fd`, `fd_to_file_store`, `sys_open`/`close`/`read`/`write`/`exec`, `sys_mmap`/`munmap` | one per process |
| Fixed point | `fixed-point.c` | none | 17 pure functions on 32-bit signed ints | none |

How the parts interact:
- The inode layer reads and writes sectors only through the buffer cache. `allocate_short` zeroes new sectors with `cache_zero`, and indirect entries are read and written with `cache_read` and `cache_write`.
- Eviction in the frame table calls `swap_out` and then `page_set_swap`.
- `page_fetch` calls `frame_alloc`, `page_set_frame` and `page_write_data`, which reads from a file or calls `swap_in`.
- `sys_mmap` registers file pages with `page_set_file`.
- `sys_munmap` calls `page_unmap`, which writes dirty pages back through the file layer.

## Modules

### SectorStore (abstract)

What the cache promises (spec section 5): per-sector linearizable storage.

Each thread issues one request at a time (read, write or zero). The request takes effect atomically at one step before it returns. The store holds one value per sector, and `result[t]` holds what t's last read returned.

### BufferCache and MCBufferCache

This models `cache.c` in full.

**State.** Each cache entry has `sector`, `dirty`, `accessed`, `data` and `holder`. `holder` is who holds the entry's `block_lock`. The device is `disk`. Each client thread has a program counter `pc`, with these values:
- `find_scan`: the scan under `buffer_lock`.
- `find_lock`: waiting for the found entry's lock.
- `evict_scan`: the clock scan of `next_cache_entry`.
- `evict_lock`: waiting for the victim's lock.
- `fill`: claiming and reading the victim.
- `op`: the copy in or out under the entry lock.

The variable `wb` is the write-behind thread's position in `cache_save`.

**Atomic steps.** Each step is a stretch of code between two lock operations, which is where other threads can interleave:
- the scan under `buffer_lock`;
- the re-check after `lock_acquire(block_lock)`;
- the victim's write-back;
- the fill;
- the body of each operation.

**Abstractions.**
- Sector contents are model values; writes store whole values. Byte ranges within a sector are serialized by the entry lock, so they add nothing.
- `timer_sleep` is the step `WriteBehindWake`.
- `cache_save` takes, writes and releases each entry's lock in one step (`CacheSave`). It only changes `dirty` and the disk, which no unlocked scan reads.

**Refinement.** `LogicalStore` is the value a read would see: the cached copy of a resident sector, otherwise the disk. The refinement maps `store <- LogicalStore` and `pending <- PendingRequest`. `LinearizableSectors` checks the instance of `SectorStore` as a PROPERTY. It holds with one entry, but one entry cannot cache a sector twice. With two entries it fails (CacheStaleRead.cfg): two concurrent misses on one sector fill both entries (finding 1), a write goes to one of them, and a later read finds the other, stale one. So the cache is not linearizable, and no pass run claims it is.

**Fairness.** Weak fairness of each thread's serving steps and of the write-behind thread. Pintos threads are preemptively scheduled, and a thread holding no lock that wants to run eventually runs. Requests are not fair: callers may stop.

### InodeFile and MCInodeFile

This models one file of `inode.c` together with the free map and the device sectors.

**State.**

| Variable | What it holds |
|---|---|
| `freeMap` | the free sectors |
| `disk` | the bytes of every sector as the cache holds them |
| `inodeSector` | the inode's sector |
| `onDisk` | the inode_disk stored there |
| `mem` | the in-memory inode, or NONE |
| `linked` | whether the file is reachable by name |

Ghost variables, used only by properties:
- `content`: what each byte should read;
- `dataSecs` and `indSecs`: the sectors allocated as data and as indirect sectors.

**Atomicity.** Every operation holds the inode lock, and the buffer cache is taken as coherent storage (BufferCache checks when that holds), so each call is one step.

**Translation.** The loops are recursive operators. `AppendUntil` and `ExtendDisk` are the loop of `extend_disk`. `WriteChunks` and `ReadChunks` are the chunk loops of `inode_write_at` and `inode_read_at`.

Three details are modelled as the code does them:
- C's truncating division: `CDiv` and `CMod`.
- The little-endian u16 encoding of indirect entries, written and read at the byte offset the code uses: `PutU16` and `GetU16`.
- The rollback of `inode_create`: `CreateRollback`.

**Scale.** Sizes are scaled down. A sector is 4 bytes, and an indirect sector holds 2 entries. The direct/indirect layout, the u16 width and every boundary in the code are kept.

**Spec-modelled parts.** `free_map_allocate` (first fit) and the inode-sector allocation and release in `filesys_create` are modelled from the spec, because that code is not under `src/`.

**Fairness.** None is assumed. All properties here are safety properties, and the model bounds the number of calls (`MaxCalls`). Deadlock checking is off because the caller may simply stop.

### FixedPoint and MCFixedPoint

This models all 17 functions of `fixed-point.c` as pure operators.

**Translation.** Each operator computes what the compiled code computes:
- `int` is W bits wide and `int64_t` is 2W bits.
- A result that does not fit wraps in two's complement (`WrapTo`, `Int32`, `Int64`).
- `/` truncates toward zero (`CDiv`).
- `f(q)` is `F(q)`.

**Inputs.** The inputs are the state: `x` and `y` range over a set of fixed-point values, and the properties quantify over small ints `n`. `Next` leaves the state unchanged, so every combination is an initial state.

**Properties.** They compare each function with exact arithmetic, by a division-free statement of truncation (`TruncOf`), wherever the exact result fits an int.

**Scaling.** TLC's integers are 32-bit, so W is scaled down. The 8-bit run covers every pair of values. The 14-bit configuration `FixedPointBoundary.cfg` (q = 6) is kept as an additional check of the range ends. It passes, and all four mutants are caught under it too.

### FdTable and MCFdTable

This models the per-process fd table of `syscall.c` (virtual-memory variant).

**State.**
- `files` is the list of `file_store` records, front first, as `list_push_front` leaves it.
- A `struct file` is a handle from `Handles`; `opened[h]` is the name it is open on.
- `pages` maps each mmap'd user page to its handle.
- `used` holds the result of the last fd lookup by `read`/`write`/`seek`/`tell`.

**Actions.** One action per system call (or per outcome of one):
- `SysOpen`, `SysClose`, `SysUse`;
- `SysMmap`, `SysMmapFails`, `SysMmapKilled`;
- `SysMunmap`, `SysMunmapNone`.

`FdToIndex` is the loop of `fd_to_file_store`, including where it stops when nothing matches.

**Atomicity.** Only the owning thread touches the table, so each call is one step.

**Coverage of the other variant.** The user-programs variant has the same `create_fd`/`fd_to_file_store`/`remove_fd`/`sys_close` code, and so the same findings.

### VirtualMemory and MCVirtualMemory

This models `frame.c`, `page.c` and `swap.c` together, with processes that:
- read and write mapped pages (`UserRead`, `UserWrite`: the MMU sets the accessed and dirty bits);
- fault;
- mmap and munmap a one-page file (`Mmap`, `Munmap`);
- exit (`Exit`).

**State.**

| Variable | What it holds |
|---|---|
| `frame` | each frame's owner `(pd, upage)` |
| `nextFrame`, `failOnNext` | the first-pass hand |
| `fdata` | each frame's contents |
| `pagedir`, `accessed`, `dirty` | each process's page directory and its A/D bits |
| `spt` | the sup-pages |
| `freeSlots`, `nextSlot`, `sdata` | swap |
| `fileData` | the backing files |

**The fault path.** A page fault is split at the points where another process can run:
- `FaultBegin` (`page_fetch`, plus `get_next_frame`'s read of `fail_on_next`, made without the lock);
- `Take` (the first pass, under the lock);
- `Clock` (`frame_clock`, under the lock);
- `EvictSlot` (`evict_frame` calls `swap_out`, whose `get_slot` tests `list_empty` and `next_sector` before taking `swap_table_lock`);
- `EvictLocked` (the rest of `get_slot` under the lock, which pops a free slot or carves one at `next_sector`, then `swap_out`'s `block_write` and `page_set_swap`);
- `Install` (the rest of `frame_alloc`, `page_set_frame` and `page_write_data`).

The page-table helpers keep the names of `page.c`: `FindUpage`, `PageInTable`, `FindFile`, `PageSetFrame`, `PageWriteData` and `PageSetSwap`. `SlotPath` is `get_slot`'s unlocked test. Popping a freed slot is in the model but unreachable in this build: slots are freed only by `swap_in`, and no evicted page ever faults back in (finding 3).

**Panics.** A NULL dereference or a failed assertion sets `panic`, and nothing runs afterwards.

**Modelled from the spec.** `Exit` (process teardown: `frame_free`, then destroying the page directory and sup-pages) is modelled from the spec, because `process.c` is not under `src/`.

**Data.** Page contents are model values:
- `Zero`, an all-zero page;
- `Junk`, leftovers;
- `v1` and `v2`, user writes.

**Abstractions.**
- Every page is writable, because `load_segment` is not under `src/`.
- A fault on a page not in the table is a stack-growth fault. A fault the `stack_growth` test rejects ends the process, which is `Exit`.

**Fairness.** None is assumed: all properties are safety properties and the number of user steps is bounded. Deadlock checking is off, because a bounded or panicked system stops.

### InodeTable and MCInodeTable

Models the `open_inodes` list of `inode.c` as several threads share it. Nothing locks the list: `inode_open` scans and pushes, and the last `inode_close` removes, each without a lock. So the list is modelled at pointer level, with one step per statement of `list_push_front` and `list_remove`, and one step per iteration of the scan.

| Code | Model |
|---|---|
| `open_inodes`, its head and tail sentinels | `next`, `prev`: the `elem` links of `Head`, `Tail` and every heap block |
| a `struct inode` in heap block `i` | `ino[i]`: `sector`, `open_cnt` (`cnt`), `removed`, and `alive` (malloc'd and not yet freed) |
| its `lock` | `lk[i]`: the holder, or `NONE` |
| each thread's position, the inode in its local variable, and the sector it wants | `pc`, `e`, `want`; `before` is `list_push_front`'s read of `head.next` |
| the references each caller holds | `held[t][i]` |
| `free_map_release` of a removed inode | `released[s]` |
| undefined behaviour (a freed block touched) | `uaf`; nothing runs after it |

Actions:
- `inode_open`:
  - `OpenScan` reads `list_begin`;
  - `ScanCmp` compares the sector, or meets the tail;
  - `ScanNext` follows `next`;
  - a match goes on to `OpenReopen`;
  - a miss goes on to `OpenAlloc` (malloc, or return NULL when no block is free), then to the three link writes of `list_insert(head.next, elem)` (`PushIns`, `PushLink`, `PushBack`), and then to `OpenInit` (`sector`, `open_cnt = 1`, `removed`, `lock_init`).
- Between `OpenAlloc` and `OpenInit` the pushed block keeps the fields its last user left, because malloc does not clear memory. So a concurrent scan can match its stale sector.
- `InodeReopen` and `InodeRemove` are the locked bodies, one step each.
- `InodeClose` takes the lock and decrements. At zero it goes on to `list_remove` (`CloseUnlink`, `CloseRelink`), and then to `CloseFree` (release if removed, then `free`).
- `list_insert`, `list_remove` and `lock_acquire` are in `list.c` and `synch.c`, which are not under `src/`. Their steps are modelled from Pintos's definitions.

Properties. The code violates every one of them (see the additional configurations):
- `ListedIffLive`: whenever no push or remove is in progress, walking the list from the head gives exactly the live inodes. Two concurrent pushes both read `head.next` as the tail. The second `head.next = elem` overwrites the first, so one inode is left off the list while it is open (InodeListLost.cfg).
- `ScanEnds`: from the head, and from each scanning thread's cursor, following `next` reaches the tail (or a freed block) within `|Ids| + 1` hops. It fails when a block whose push is in progress is closed and freed by another thread that matched its stale sector, then malloc'd and pushed again. Its `next` then points to itself, and the scan in `inode_open` loops for ever (InodeScanCycle.cfg).
- `RefsCounted`: `open_cnt` of a live inode equals the references held to it (InodeOpenUninit.cfg).
- `OpenUnique` (spec section 8, property 3), `NoUseAfterFree` and `OpenGivesSector`: the other consequences of the unlocked scan.

The pass run checks only `TypeOK`; its job is to show that every step of the model can be taken. `MaxOps = 6` bounds the calls. With 7 the run takes four minutes, and it reaches no step that 6 does not.

Not modelled here:
- Pintos's debug `free` fills a freed block with `0xcc`, and malloc's free-list links overlap the block's first bytes. The model keeps a freed block's fields, which is what an NDEBUG build gives for `sector`.
- `lock_release` and `free` are one step.

### UserSyscalls and MCUserSyscalls

Models the system-call handler of `src/user-programs/userprog/syscall.c`, for one single-threaded process.

A call is the ordered list of accesses the kernel makes to user memory:
- a *check* is `is_valid_uaddr`; a failed check ends in `sys_exit(-1)`;
- a *use* is a load or store through a user pointer. A use of an address that is not mapped user memory is a `breach`. Below PHYS_BASE that is a kernel page fault, which Pintos's `page_fault` turns into a panic; above PHYS_BASE, the kernel touches its own memory for the user.

There is one action per case of `syscall_handler`, each made of:
- `grab_arg`: each byte of each stack word checked, then loaded;
- the handler's own checks;
- the loads and stores of `process_execute`, `filesys_*`, `file_read`, `file_write` and `putbuf`.

What is abstracted:
- The process chooses the stack pointer, the arguments, the page directory and the memory contents.
- `fd_to_file`'s result for a user fd is an input; FdTable checks the fd table itself.
- Sizes are scaled: 4-byte pages, 2-byte words, a 2-byte `MAX_PUTBUF_LEN`, two user pages and one kernel page.

Properties:
- `NoUncheckedAccess` (spec section 7: an unreadable user address ends the process with -1).
- `ConsoleEchoesBuffer`: the console prints exactly what `sys_write` was given.

### VMSyscalls and MCVMSyscalls

Models the system-call handler of `src/virtual-memory/userprog/syscall.c`, in the same style as UserSyscalls: a call is the ordered list of its checks, loads and stores.

The difference is `is_valid_uaddr`. For an address its page directory does not map, it calls `page_fetch` (`PageFetch`):
- a page with no sup-page grows the stack, but only when the `esp` passed is not NULL and the address is in `stack_growth`'s window (`StackGrowth`);
- a sup-page is refused for a write when it is read-only, and is otherwise brought in with `page_set_frame(page, kpage, true)`. For a read-only page, `ASSERT (writable == writable)` then fails at `page.c:92` and the kernel panics (`proc = "panic"`);
- `grab_arg` passes a NULL `esp`, so an argument never grows the stack.

**State.** `page[k]` is `"absent"` (no sup-page), `"table"` (a sup-page whose data is in a file or a swap slot) or `"present"`, and `writable[k]` is the sup-page's writable bit. Validation changes this state, and the change stays even when a later check of the same call kills the process. `proc` records how the process ended; `"bad_store"` is a kernel store into an unmapped, read-only or kernel address, and `"bad_load"` a kernel load above PHYS_BASE.

**Abstractions.**
- Byte values are left out. A string is its length, chosen per call, and `file_read`'s stores are the addresses it stores to.
- Which frame `page_fetch` takes, and the eviction that may cause, are VirtualMemory's. The fd table is FdTable's, and `fd_to_file`'s result is an input here.
- Sizes are scaled: 4-byte pages, 1-byte words, two user pages and one kernel page. Init is every page table the process can have, with writable pages only on sup-pages.

Properties:
- `NoUncheckedStore`: the kernel stores into user memory only through bytes it has validated for writing.
- `NoAssertPanic`: validating a user address never panics the kernel. It is violated (VMReadOnlyPanic.cfg). Any call whose buffer, name or argument is on a non-resident read-only page panics at the first check. Such a page exists only if `load_segment` (not under `src/`) loads lazily, because eviction in this build never unmaps a page (finding 3).

**Fairness.** None: the property is a safety property. Deadlock checking is off, because the process stops when it exits or after `MaxCalls` calls. Three calls are enough because Init already covers every page table, so a longer sequence only starts again from a state Init has.

## Runs

PROJECT.json lists 12 runs: one per question asked of the system. All finish in under two minutes. Some violation runs were moved to the additional configurations below, to keep one run per question.

| Run | Cfg | Expect | Checks | Bounds and why |
|---|---|---|---|---|
| cache_two | BufferCacheTwo.cfg | pass | TypeOK, NoDirtyDataDropped, RequestsComplete | 2 clients, 1 entry, 2 sectors, 2 requests each. The entry is always contended, so the stale-entry restart, the eviction retry, dirty write-back and write-behind all interleave with requests. 289k states. |
| cache_dup | BufferCacheDup.cfg | violation | UniqueResidency | 2 clients, 2 entries, 1 request each: two concurrent misses on one sector. |
| inode_direct | InodeDirect.cfg | pass | TypeOK, FreeDisjointFromFile, LengthNeverShrinks, FailedCreateReleasesAll | 3 direct slots and 3 free sectors. Creates of 0/5/9 bytes, writes reaching past the end of the file and past a full disk, 2 openers, 6 calls. |
| inode_growth_lost | InodeGrowthLost.cfg | violation | FileReadsBack | create, open, write 2 bytes, close, open |
| fxp_all | FixedPointAll.cfg | pass | QuotientsTruncate, ReformatTruncates, RoundIsNearest | every pair of 8-bit values (q = 3, second format 5), 6 ints including 0, ±1 and 7. 65,536 states. |
| fd_table | FdTable.cfg | pass | TypeOK, FdsUnique, NoSharedHandles, NoDanglingFile | 3 files (0, 1 and 2 pages), 3 struct files, 3 user pages, fds 0..5, 5 calls: enough to open, mmap, close and munmap in every order and to run out of struct files. Symmetry over handles. 10k states. |
| vm_one_proc | VMOneProc.cfg | pass | TypeOK | 1 process, 3 pages, 2 frames, 2 slots, 1 file, 9 steps. The first pass wraps, the clock evicts stack and mmap pages, munmap writes back, exit frees frames, and the swap device fills. 412k states. |
| vm_alias | VMAlias.cfg | violation | MappedDataIntact | same bounds, one process |
| inode_table | InodeTable.cfg | pass | TypeOK | 2 threads, 2 sectors, 2 heap blocks, 6 calls. Both threads open one sector at once, pushes and removes interleave statement by statement, a block is freed and reused (with its stale fields), and malloc fails when both blocks are live. 4.57M states, about 70 s. |
| user_read_unchecked | UserReadUnchecked.cfg | violation | NoUncheckedAccess | `read` only; stack pointers 0, 3 and 6, pointers 1, 3, 5 and 7, sizes up to 3: buffers that cross a page boundary or PHYS_BASE |
| vm_kernel_panic | VMKernelPanic.cfg | violation | NoKernelPanic | 2 processes, 2 pages each, 1 frame, 1 slot, no files, 8 steps: two processes fault for the one frame |
| vm_syscalls | VMSyscalls.cfg | pass | TypeOK, NoUncheckedStore | every call kind, 3 calls, from every page table of 2 user pages. Stack pointers NULL, 3 (arguments straddling the page boundary) and 4 (whose PUSH and PUSHA addresses lie in the page below). Pointers 1, 3 and 6, sizes up to 3: buffers that cross into the other page or past PHYS_BASE. 275 states, 10 s. |

What the passing runs show:
- **cache_two.** Under contention with write-behind and eviction interleaving, a dirty entry is never reused or cleaned without its data reaching the disk. The restarts in `find_cache_entry` and `next_cache_entry` do not starve a request.
- **inode_direct.** Growth, partial growth at a full disk, the rollback of a failed create and the release on removal keep the free map disjoint from the file's sectors, and no write shortens a file.
- **fxp_all.** With the `int64_t` casts and the signed rounding as written, every function is exact, or truncates toward zero, wherever the exact result fits an int.
- **fd_table.** fds stay unique, the reopen in `sys_mmap` keeps mappings and fds on separate struct files, and nothing refers to a closed file.
- **inode_table** and **vm_one_proc** check the type invariant only. They show that every step of InodeTable and of VirtualMemory can be taken. The code violates every further property of those modules (see the additional configurations).
- **vm_syscalls.** In the virtual-memory build, `sys_read` checks every byte of its buffer for writing, and `page_fetch` refuses a write to a read-only sup-page. So `file_read` never stores through an unvalidated byte, whatever the page table, stack pointer and buffer. This is the check the user-programs build gets wrong (finding 5). Name strings are still checked at their first byte only, as in that build: the model reaches `"bad_load"` there, but no run states it.

Every property of a passing run has a mutant in `PROJECT.json`: a plausible bug in the mapped code, under which TLC finds that property violated.

**Additional configurations.** These reproduce further findings with properties of the same modules. Run them with `tlc -config X.cfg MCModule`:

| Cfg | Module | Property | Result |
|---|---|---|---|
| InodeIndirectSlot.cfg | MCInodeFile | IndirectSlotsAllocated | violated: `indirect[0]` is never allocated (`inode.c:116`, `(-1)/256 == 0`) |
| InodeCreateLeak.cfg | MCInodeFile | FailedCreateReleasesAll | violated: a failed create leaks indirect sectors and releases wrong ones (`inode.c:184`) |
| FdCloseLeak.cfg | MCFdTable | NoLeakedFiles | violated: `sys_close` never calls `file_close` (`syscall.c:356`) |
| VMStackJunk.cfg | MCVirtualMemory | StackPagesZeroed | violated: stack-growth pages are not zeroed (`page.c:194`) |
| VMUnmapStale.cfg | MCVirtualMemory | NoKernelPanic | violated: after munmap, the frame stays owned by the removed page; evicting it makes `page_set_swap` dereference NULL (`page.c:117`, `frame.c:68`) |
| VMSwapFull.cfg | MCVirtualMemory | NoKernelPanic | violated without mmap: slots are never freed, and on a full device `swap_out` dereferences the NULL slot (`swap.c:80`) |
| FixedPointBoundary.cfg | MCFixedPoint | all three | passes at 14 bits |
| InodeIndirectEntries.cfg | MCInodeFile | ResolvesToAllocated | violated: indirect u16 entries are addressed at byte `ind_ofs`, not `2*ind_ofs`. Neighbouring entries overlap, and `byte_to_sector` returns unallocated sectors (`inode.c:129`, `:71`) |
| FdLookup.cfg | MCFdTable | LookupExact | violated: `fd_to_file_store` returns the last list element when no fd matches, so operations on an unopened fd act on another file (`syscall.c:215`, both variants) |
| VMWrongVictim.cfg | MCVirtualMemory | EvictSavesVictim | violated: `page_set_swap` looks the victim's upage up in the evicting thread's table (`frame.c:68`) |
| VMFirstPassRace.cfg | MCVirtualMemory | FirstPassOnce | violated: `fail_on_next` is read without the lock, and two faults take the first frame again (`frame.c:75`) |
| InodeOpenFreed.cfg | MCInodeTable | NoUseAfterFree | violated: the scan compares the sector of a block that the last close has just freed (`inode.c:206`, `:211`) |
| InodeOpenReused.cfg | MCInodeTable | OpenGivesSector | violated: a scan matches the stale sector of a block that another thread has just pushed for a different sector, and `inode_open` returns that inode (`inode.c:211`, `:223`) |
| UserNameUnchecked.cfg | MCUserSyscalls | NoUncheckedAccess | violated: `create`, `remove` and `open` check only the first byte of the name (`syscall.c:265`) |
| InodeOpenDup.cfg | MCInodeTable | OpenUnique | violated: two threads opening one sector both miss in `open_inodes`, and each pushes its own `struct inode` (`inode.c:206`) |
| UserPutbufRepeat.cfg | MCUserSyscalls | ConsoleEchoesBuffer | violated: a console write longer than `MAX_PUTBUF_LEN` repeats its first chunk (`syscall.c:319`, user-programs) |
| InodeOpenUninit.cfg | MCInodeTable | RefsCounted | violated: `inode_open` pushes the block before setting `sector` and `open_cnt`; a concurrent scan matches the stale sector and reopens it, and `open_cnt = 1` loses that increment, so a close frees an inode still held (`inode.c:223`) |
| InodeListLost.cfg | MCInodeTable | ListedIffLive | violated: two concurrent `list_push_front`s on the unlocked list lose one inode (`inode.c:223`) |
| InodeScanCycle.cfg | MCInodeTable | ScanEnds | violated: a block freed and pushed again during its first push links to itself, and the scan never ends (`inode.c:223`, `:267`) |
| CacheStaleRead.cfg | MCBufferCache | LinearizableSectors | violated with 2 entries: a sector cached twice (finding 1) serves a read from the stale copy (`cache.c:83`) |
| BufferCacheTwoEntries.cfg | MCBufferCache | TypeOK, NoDirtyDataDropped | passes with 2 entries (1.5M states, 22 s) |
| VMReadOnlyPanic.cfg | MCVMSyscalls | NoAssertPanic | violated: `page_fetch` of a read-only page for a read panics in `page_set_frame` (`page.c:205`, `:92`) |
| UserSyscallsChecked.cfg | MCUserSyscalls | TypeOK, NoUncheckedAccess | passes (30k states, about 3 min) for every call except `read`, `create`, `remove` and `open`. `grab_arg`, `sys_exec` and `sys_write` check every byte they touch, including stack words that straddle a page or PHYS_BASE |

## Findings

Each finding below is a violation run, with its trace summarised.

1. **`cache.c:83`.** Two concurrent misses on one sector make two entries cache it.
2. **`inode.c:264`.** `inode_close` never writes the grown inode_disk back. After the last close the growth is lost.
3. **`frame.c:68` (vm_alias).** Eviction never clears the victim's page-directory entry. The victim keeps using a frame that now holds another page. This means:
   - no evicted page ever faults back in, so `swap_in` is unreachable;
   - every eviction uses up a swap slot for good.
4. **`frame.c:53` and `swap.c:37` (vm_kernel_panic).** Two processes faulting concurrently crash the kernel in the VM code.
   - `frame_clock` reads the accessed bit through `frame_s->pd` for every frame it passes. A frame that `get_next_frame` has handed to another fault has `pd` NULL until that fault's `frame_alloc` records the owner, after the lock is released. This is the trace TLC reports.
   - `get_slot` tests `next_sector` against the device size before taking `swap_table_lock`. Two evictions that both pass the test with one slot left both carve, and the second slot starts at the end of the device, so `block_write` panics.
5. **`syscall.c:295`, user-programs (user_read_unchecked).** `sys_read` checks only the first byte of its buffer, and then `file_read` stores `size` bytes. A buffer that runs into an unmapped page faults in the kernel. One that runs past PHYS_BASE overwrites kernel memory.

The violated additional configurations above reproduce further findings. Among them are the lost push on the unlocked `open_inodes` list and the scan cycle (`inode.c:223`), the kernel panic when a system call validates a non-resident read-only page (`page.c:205`), the two-thread duplicate in `inode_open` (`inode.c:206`: two threads opening one sector each push their own `struct inode`, so their open counts, deny-write counts and removed flags are kept apart, against spec section 8, property 3) and the repeated `putbuf` chunk (`syscall.c:319`, user-programs).

## Not modelled (yet)

- **System-call return values in `eax`.** UserSyscalls does not model them. That leaves out `sys_read` on STD_IN returning `input_getc`'s key as the byte count, and the unset exit status of an unknown call number.
- **Swap at sector granularity.** A slot is one unit here; `swap_out`'s loop of `block_write` calls and the partial last slot of a device whose size is not a multiple of the slot size are not modelled.
- **Pinning of validated pages.** In the virtual-memory build, `is_valid_uaddr` brings the pages of a buffer in, but nothing pins them; another process's fault can evict one before `file_read` or `file_write` touches it. VMSyscalls runs one process. As the code stands eviction leaves the victim's mapping in place (finding 3, `MappedDataIntact`), so the kernel's access then hits the wrong frame rather than faulting; the fault handler itself is in `exception.c`, not under `src/`.
- **The mmap tail.** The part of an mmap'd file's last page past its end is not zeroed (`page_write_data` reads only `file_size_in_page` bytes and the `memset` in `page_set_file` is commented out). VirtualMemory's files are whole pages, so this is not checked.
- **Read-only pages in VirtualMemory.** They come from `load_segment`, which is not under `src/`. VirtualMemory makes every page writable; VMSyscalls, whose Init is any page table, has read-only sup-pages and checks `page_fetch`'s refusal to write them.
- **The fault handler in kernel mode** (`exception.c`, not under `src/`). `file_write_at` in `page_unmap` can touch a non-present page whose dirty bit survived an earlier mapping. The model takes the handler to load it from the file.
- **Out of scope.** Directory and process code not under `src/`.

## Plan

Done:
- SectorStore and BufferCache.
- InodeFile.
- FixedPoint.
- FdTable.
- VirtualMemory.
- InodeTable.
- UserSyscalls.
- The interleaving inside `get_slot` (VirtualMemory).
- The push/init window inside `inode_open` (InodeTable, InodeOpenUninit.cfg), and `open_inodes` at pointer level (InodeListLost.cfg, InodeScanCycle.cfg).
- VMSyscalls.

Next:
1. VMSyscalls composed with VirtualMemory, so that validation's `page_fetch` can evict and a second process can evict a validated page.
2. Swap at sector granularity.
3. VirtualMemory, two-process pass runs. Today every two-process behaviour with eviction breaks. A pass run would need the race-free subset or an abstract page store to refine.
4. The indirect-sector leak on removal (`inode.c:273`), as a no-leak invariant in an InodeFile configuration with indirect slots.
