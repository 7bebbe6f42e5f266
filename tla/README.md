# OS/161 kernel: TLA+ models, model checking and proofs

A verification development for the system in `src`: the OS/161 kernel with a hashed page table, a
frame table and copy-on-write address spaces, its drivers and file systems, its libraries, and the
two user programs that test it most thoroughly. It holds one TLA+ module per component, the
TLC configurations that check them, and proofs checked by TLAPS. `PROJECT.json` is the
machine-readable side of this file: which definition models which lines (`map`), what each run
checks, which change to a definition each property catches (`mutants`), and the places where the
code is hard to test (`hazards`). A helper that only names a part of one function is found through that
function's row in the map.

To check a run: `tlc -config MCPid.cfg Pid`. To check the proofs: `tlapm VirtualMemoryProofs.tla`.

Contents: 1 the system · 2 the modules and the code · 3 the runs · 4 fairness · 5 proofs ·
6 where code and documentation disagree · 7 what is left out · 8 next steps

## 1. The system and its parts

### 1.1 Inventory

| part | source (`src/kern/…` unless it says otherwise) | state | operations that change it |
|---|---|---|---|
| frame allocator | `vm/frametable.c`, `arch/mips/vm/ram.c` | frame table (`used`, `ref`, `next_free`), `firstfreeframe`, bump pointer | `alloc_kpages`, `free_kpages`, `frame_ref_mod`, `vm_bootstrap`, `frametable_bootstrap`, `ram_stealmem`, `ram_getfirstfree` |
| page table, faults, TLB | `vm/vm.c`, `arch/mips/locore/trap.c` | hashed page table with chains, a TLB per processor | `vm_fault`, `copy_page_table`, `readonwrite`, `kill_curthread` |
| address spaces | `vm/addrspace.c` | list of regions | `as_create`, `as_copy`, `as_destroy`, `as_define_region/stack`, `as_prepare_load`, `as_complete_load`, `as_activate` |
| program loading | `syscall/runprogram.c`, `loadelf.c` | the old address space during `execv` | `loadexec`, `load_elf`, `argbuf_copyout`, `runprogram`, `sys_execv` |
| kernel heap | `vm/kmalloc.c` | pagerefs, their roots, free lists in pages | `kmalloc`, `kfree` |
| threads, scheduler | `thread/thread.c`, `threadlist.c`, `clock.c` | run queues, zombies, wait channels, pending interrupts | `thread_fork`, `thread_yield`, `thread_exit`, `wchan_*`, `thread_consider_migration`, `cpu_idle`, `interprocessor_interrupt` |
| synchronisation | `thread/synch.c` | counts, holders, channels | `P`, `V`, `lock_*`, `cv_*` |
| deadlock detector | `thread/hangman.c` | who holds and who waits | `hangman_wait`, `hangman_acquire`, `hangman_release` |
| processes and pids | `proc/pid.c`, `proc/proc.c`, `syscall/proc_syscalls.c`, `main/menu.c` | process table, exit statuses, `nextpid` | `pid_alloc`, `pid_unalloc`, `pid_setexitstatus`, `pid_wait`, `proc_fork`, `proc_exit`, `common_prog` |
| open files | `syscall/filetable.c`, `openfile.c`, `file_syscalls.c` | file tables, counts, positions | `open`, `close`, `dup2`, `read`, `write`, `lseek`, copy at fork, end at exit |
| semaphore file system | `fs/semfs/*.c`, `vfs/vnode.c` | semaphores, names, vnodes | open, create, remove, read (P), write (V), truncate, reclaim |
| spinlocks, interrupt levels, panic | `thread/spinlock.c`, `spl.c`, `lib/kprintf.c`, `main/main.c` | lock word, nesting counts, interprocessor interrupts, how far panic got | `spinlock_acquire/release`, `splraise/lower`, `ipi_*`, `panic`, `shutdown` |
| VFS | `vfs/*.c` | known devices, mounts, current directories, counts of vnodes | `vfs_mount`, `vfs_unmount`, `vfs_lookup`, `vfs_setcurdir`, `vfs_rename`, … |
| simple file system | `fs/sfs/*.c`, `userland/sbin/{mksfs,sfsck}` | free map, inodes, directory, blocks in memory and on disk | create, remove, link, rename, read, write, truncate, sync, reclaim, mount; repair |
| emulator file system | `dev/lamebus/emu.c` | handles, the card's registers, the table of vnodes | open, create, read, write, getsize, truncate, reclaim |
| disk | `dev/lamebus/lhd.c`, `vfs/device.c` | the card, its buffer, result and two semaphores | `lhd_io`, `lhd_irq` |
| console, serial port | `dev/lamebus/lser.c`, `dev/generic/console.c`, `lib/kprintf.c` | input ring, ready flag, who may send | `con_io`, `putch`, `lser_writepolled`, the interrupt |
| bus | `dev/lamebus/lamebus.c`, `dev/*/autoconf.c` | slots in use, handlers, lines | configuration, `lamebus_interrupt` |
| exec | `syscall/runprogram.c` | throttle semaphore, argument buffers | `argbuf_*`, `sys_execv`, `runprogram` |
| user memory access | `lib/uio.c`, `vm/copyinout.c` | the uio | `uiomove`, `uiomovezeros`, `copyin`, `copyout`, string copies |
| lists, arrays, bitmaps | `thread/threadlist.c`, `lib/array.c`, `bitmap.c` | links, sizes, words | their operations and their tests |
| system calls | `arch/mips/syscall`, `syscall/*.c` | what a program sees: descriptors, files, processes | every call of the table |
| C library | `src/common/libc`, `common/gcc-millicode`, `userland/lib/libc` | heap of `malloc`; a format being printed | `malloc`, `free`, `printf`, `snprintf`, `memmove`, `strtok_r`, `qsort`, `atoi`, 64-bit arithmetic |
| frack | `src/userland/testbin/frack` | workload, log of versions, a volume | do, crash, check |
| badcall | `src/userland/testbin/badcall` | descriptors, children, what it printed | its tests |
| tests of synchronisation | `test/synchtest.c`, `semunit.c`, `tt3.c` | their semaphores, locks, channels and counters | their threads |
| clock, random, trace, menu | `dev/…`, `main/menu.c` | none of their own | register reads and writes, commands |

### 1.2 How they interact

- `kmalloc` takes and returns pages of the frame allocator; so does the page table, which also
  counts references to frames with `frame_ref_mod`. Before `vm_bootstrap` has published its
  tables both are served by the bump allocator.
- A fault ends in `vm_fault`, which looks at the regions of the address space and at the page
  table and writes one TLB of one processor. The scheduler can move a thread to another
  processor in between; `as_activate` at every switch empties the TLB.
- fork copies a process in four modules: its address space (VirtualMemory), its file table
  (Files), its place in the process table (Pid) and its thread (Threads).
- A path goes through the VFS to a file system and that to a device; the counts of vnodes tie the three
  together, and `vfs_biglock` serialises most of it. Below, one card serves all threads.
- Everything rests on spinlocks, which are a test-and-set word and the interrupt level together; a panic
  must get its message out whatever is locked at that moment.
- Locks and condition variables sleep on wait channels, which belong to the scheduler. The
  process table, the open files, semfs and the VFS are built from locks and condition variables.

### 1.3 What makes it hard

- Two or more processors and preemption nearly everywhere; only spinlocks stop both.
- Locks are given up in the middle: `kmalloc` around page allocation, `free_kpages` between test
  and lock, migration between counting and taking threads, `vnode_decref` between "this is
  the last" and reclaiming.
- Sleep and wakeup: a wakeup that precedes the sleep, a waker that is overtaken, a thread that is
  queued on another processor before its own stack has been left, an idle processor.
- Memory can run out at every allocation, in the middle of fork, exec and create.
- Cached copies: the TLB of the page table, the vnode of the inode, the inode of the disk. The machine
  may stop between any two writes, and so may the program that repairs the volume.
- pids, frames, vnodes and thread structures are reused.

`PROJECT.json` lists these places one by one, with the property that would catch each going
wrong, or why none does yet.
## 2. The modules and the code

A step is what the code does under one hold of a spinlock (or of the lock that serialises the
component); where the code gives the lock up, the model has another step, and any other thread
may run in between. Names are those of the source. Data that no property tells apart, such as
the bytes of a page, the text of a path or the layout of a structure, is left out. Memory running
out, and calls of other components that fail, are choices of the model.

### Memory

**FrameTable**: `vm/frametable.c` over `ram.c`. The table is three functions `used`, `ref` and
`next_free` with the head `firstfreeframe`, as in the code, so a list can be corrupted here the
way it can there. `free_kpages` is two steps (test, then lock). Boot follows the order
of `vm_bootstrap`, with the off-by-some loop bound of `frametable_bootstrap` as it is
(`LastLinked`), and its panic when the tables leave no frame over (`BuildRunsOff`). `owed` and `heap` are what callers rightfully hold: callers follow the protocol of
`vm.c` and `kmalloc.c`, they do not free what they do not have.

**VirtualMemory**: `vm/vm.c`, `vm/addrspace.c`, and the callers that make it interesting:
`sys_fork`, `loadexec`, `runprogram`, exit, context switch. Frames are allocated as FrameTable
promises (any free frame; counted references). `find_page` compares address space and hash
index and not the page number, as the code does; `hpt_hash` is a constant. A fault is two steps:
choosing the entry (`vm_fault`: `create_page`, `use_page` or `readonwrite`) and writing the TLB
(`tlb_random`), and the thread may move to another processor in between. fork and load can fail after
any part of their work. `unflushed` is a history variable: processors on which a fork has made
entries read-only since the last flush.

**Kmalloc**: `vm/kmalloc.c` with real free lists (offsets), the pagerefs, and the pages that
pagerefs come from; every release of `kmalloc_spinlock` is a step boundary.

**Uio**: `lib/uio.c` and `vm/copyinout.c`. A transfer over several buffers, cut into calls of `uiomove` of any
size, with user addresses that fault; `copycheck` with its wrap-around tests.

### Processes and threads

**Threads**: `thread/thread.c`. Run queues, wait channels and the victims of a migration are
sequences of threads. An idle processor is still on the stack of the last thread it ran, so
`curthread` and `c_isidle` are separate. Waking takes a thread off the channel under one lock and
queues it under another (`waking`); migration (`mig`) is one step per run queue it locks. An
interprocessor interrupt is a line (`irq`), cleared after the handler, as in
`lamebus_machdep.c`.

**ThreadList**: `thread/threadlist.c` with its nodes, links and bookends, under free calls of the operations and under
`threadlisttest.c`, whose functions are programs over the same model.

**Pid**, with **ProcTree** as its abstract specification: `proc/pid.c` and its users. The table is
hashed by pid modulo its size; `pid_alloc` searches from `nextpid`. Waiting has no loop around
`cv_wait`, as in the code. Two assertions of the code that can fail are values of `panicked`.
ProcTree knows pids, parents and statuses only: fork, a fork undone, exit (which disowns the children), wait.

**Exec**: `syscall/runprogram.c`. The argument buffer in its small and large form with the throttle, every
allocation with its failure, `open_stdfds`, and the layout of `argv` that `argbuf_copyout` writes. What
loading does to memory is in VirtualMemory.

**Cpus**: spinlocks are a word per lock and an interrupt level per processor (`spinlock_acquire` raises the level,
then spins with test and test-and-set); `splraise`/`spllower` count. Interrupts come at any point where they are on. A processor may
panic at any point; the steps of `panic()`, the interprocessor interrupts that stop the others, and the
print that needs two spinlocks are one action each.

### Synchronisation

**Synch**, with **Monitor** as its abstract specification: `thread/synch.c` and `hangman.c`.
`cv_wait` holds the spinlock of the condition variable from before it releases the lock until it
sleeps, so that spinlock is a variable. Monitor has one atomic step "release the lock and wait".

**SynchTests** composes Synch with its tests: `semtest`, `locktest`, `cvtest`, `cvtest2`, `tt3` and the
unit tests of `semunit.c` are sequences of instructions for the threads of Synch, loops unrolled to the
constants. An assertion of the kernel that a unit test is meant to provoke ends it.

### Files

**Files**: `syscall/filetable.c`, `openfile.c`, `file_syscalls.c`. `todo` is what is left of a call
that takes several steps (drop the file dup2 replaced; share the table entries one by one; destroy
after the last reference). A read or write holds the offset lock while it blocks.

**Vfs**: `vfslist.c`, `vfslookup.c`, `vfscwd.c`, `vfspath.c`, `vnode.c`. A list operation and a lookup are a step, as
`vfs_biglock` makes them; an operation on paths is a `script` of steps, between which the process has vnodes
`hand`. Every lookup and every call of a file system may fail.

**Semfs**: `fs/semfs` with `vnode_decref`. Three kinds of locks; where code reads a flag without the
lock that protects it (`semfs_remove`), the reading is a step of its own. `panicked` is set where an
assertion of the kernel fails.

**Sfs**, **Sfsck**, **SfsVolume**: `fs/sfs`, `sbin/sfsck`, and a volume through its life. SFS runs under
`vfs_biglock`, so an operation is a function from the state it finds (disk, free map, vnodes) to the one it
leaves, through every block read and written in the code's order; a read may fail (`fail`), and the machine may stop after any
write (`io`). `sfsck` is a function of the same kind, stoppable likewise. SfsVolume composes them: mount,
operations, sync, unmount or stop, `sfsck`, mount again.

**Emu**: `dev/lamebus/emu.c`. The card with its registers and handles is external (as the driver uses it); the
driver's calls are steps, offsets that its 32-bit register cannot hold included (`BeyondEnd`), with `e_lock`, the recursive `vfs_biglock`, retries of close, and failures of card and memory.

### Devices

**Console**: writers that sleep for their turn, printers, code that polls, readers, and the interrupt
handler share one serial port; the port's registers are as `lser.c` uses them.
**Disk**: `lhd_io` under `dev_read`/`dev_write` or a file system, one card for all threads; sector and length are computed in words of `WORD`.
**Lamebus**: the probing and attaching of devices in `autoconf.c`'s order, with interrupts that may come
in between, and `lamebus_interrupt` with its masks and its dud counter. One `lamebus_interrupt` runs at a time: the bus interrupts the boot processor
only, a handler runs with interrupts off, and none of them yields.
**Arrays**: `lib/array.c` and `bitmap.c`, with failing allocation, under free calls and under their tests.

### User level

**Syscalls** gives each system call of the table its outcomes: which error, in the order in which the kernel
checks, and what changes. It is the kernel as one program sees it, and abstracts the modules above. **Badcall**
runs the tests of `testbin/badcall` over it; tests that fork are several processes, interleaved.

**FrackWorkloads** and **Frack**: the workloads of `testbin/frack` as sequences of calls, the replay that
builds versions, and the check that looks for the version a crashed volume matches. The volume is external and may
legally lose what was not synced, or be damaged in one place.

**Millicode**, **Printf**, **Strings**, **Malloc**: algorithms of the libraries, each against its mathematical meaning:
`__qdivrem` by halves of a word against integer division, the state machine of `__vprintf` against reading the
number back, word-wise copies, comparisons and `qsort` against their definitions, `malloc`'s headers against a tiling of the
heap, with `malloctest` as a client.

The MC modules give constants values that a configuration cannot (the other runs use the component's own module). Four of them (`MCFileSystems`, `MCDevices`, `MCKernel`,
`MCUserland`) put several components that do not meet into one run: the variable `which` chooses the one that
moves, the variables of the others stay at `Off`, and each property speaks of its own component
(`which = "disk" => …`).

## 3. The runs

"Bounds" says why a larger instance is not expected to show more; numbers are distinct states.

| run | checks | instance | states | bounds |
|---|---|---|---|---|
| `frametable` | `FreeListSound`, `RefsAccounted` | 7 frames, 3 taken at boot, 2 callers, requests of 1–2 pages, ≤ 2 references | 854 586 | two callers meet in the window of `free_kpages`; four free frames give lists of every shape up to order; 2 pages is the first size the allocator refuses. Proved for every size |
| `vm` | `RefCountsExact`, `AddressSpacesSound`, `TLBSound` | 2 processors, 2 processes, 3 address spaces, 3 frames, text and stack page, TLBs of 2 | 392 253 | 3 address spaces is the most two processes have at once (exec holds two); 3 frames run out at every allocation; a TLB of 2 has eviction. Proved for every size (`TLBSound` for hash functions without collisions) |
| `vm_fork_tlb` | `SharedIsReadOnly` is violated | 1 processor, 3 pages | | |
| `vm_alias` | `PagesNotAliased` is violated | text and data hash alike | | |
| `threads` | `ThreadsKept`, `StacksExclusive`, `IdleEnds` | 2 processors, 3 threads, 1 channel | 392 868 | one thread more than processors: migration, queueing on a busy and on an idle processor, exorcism. Both invariants are proved for every size |
| `pid` | `PidTableSound`, `Refines`, `WaitEnds` | kernel and 3 processes, 4 slots, 4 pids, 2 statuses | 38 256 | the table fills, pids wrap and are reused, a grandparent waits for a parent that waits. `PidTableSound` and `Refines` are proved for every size |
| `synch` | `NoLostWakeup`, `DeadlocksExact`, `ImplementsMonitor` | 4 threads, a semaphore, 3 locks, a condition variable | 170 472 | a cycle of three with a bystander; barging needs a sleeper, a releaser and a third. All but `DeadlocksExact` is proved for every size |
| `sfs` | `VolumeSound`, `SyncIsDurable`, `FilesIsolated` | 9 blocks, 2 names, files of 1 direct and 2 indirect blocks, any volume with up to two files at the start, 2 operations | 84 336 | a block must leave one file and enter another around a sync and a stop: two operations; the volume fills; a file has an indirect block |
| `filesystems` | `OpenFilesExact`, `SemaphoresKept`, `VnodesSound`, `NamesMean` | *files*: 2 processes × 2 descriptors, 2 open files on a disk file and a console; *semfs*: 3 threads, 2 names, 2 semaphores, counts to 3; *vfs*: 5 devices added (one name twice), labels that collide, 3 operations, 2 mounts | 444 125 | sharing by fork and by dup2 at once; remove, last close and lookup of one semaphore at once; a rename meets an unmount and a shutdown |
| `devices` | `ConsoleExact`, `SpinlocksSound`, `DevicesAttached`, `ToldTheTruth`, `HandlesSound`, `RequestsEnd`, `InterruptsServed` | *console*: casts of up to 3 with a ring of 3; *cpus*: 2 processors, 3 locks, 3 operations, a panic; *bus*: 4 slots, 3 sets of cards; *disk*: 2 threads, 3 sectors; *emu*: 2 threads, 2 files, 1 handle, offsets beyond the card's | 375 459 | the ring wraps and overflows; a polled write falls into every state of the port; a handle is closed and given to another file |
| `kernel` | `SynchTestsPass`, `ExecExact`, `KernelHeapExact`, `UioExact`, `ContainersExact`, `TestsAndExecsEnd` | *tests*: 3 threads, 1–2 loops; *exec*: 2 `execv`, 1 `runprogram`, lists that just fit, fill the buffer exactly, and just do not; *heap*: 2 threads, one size on 4 pages and two sizes on 3; *uio*: 16 addresses; *lists*: 4 threads on 2 lists; *arrays*: sizes to 9, words of 4 bits | 301 331 | both threads fetch a page of pagerefs at once; the throttle is waited for; buffers meet the edge of user space and wrap |
| `userland` | `FrackSound`, `BadcallsPass`, `ArithmeticExact`, `PrintfExact`, `StringsExact`, `HeapTiled` | *frack*: all workloads with loops of 2–3; *badcall*: 2 picks of any test, both volumes, 1 failure of memory; 8-bit long longs of two 4-bit ints (all 65 536 pairs); 5- and 10-bit numbers in fields up to 11 wide; 6 chars of memory with 3 values (the terminator, a separator, another); a heap of 16 units | 504 742 | digits of base 4 need the quotient's digit to be put right by 1 and by 2; a second test runs in what the first left |

What they show:

- **frametable**: the chain through `next_free` visits exactly the free frames, once each, whatever
  allocations, frees and reference changes interleave. The unlocked test in `free_kpages` does no
  harm as long as callers hold the references they drop.
- **vm**: counts are exact; no page table lets two processes write one frame; a TLB of a running
  process never maps a page otherwise than its page table, although the TLB is written after an
  arbitrary delay and on whatever processor; no duplicate entries (which would be a machine check).
  What it does *not* show is that TLB *permissions* agree: they do not after fork
  (`vm_fork_tlb`), and `TLBWritesPrivate`, a part of `TLBSound`, says that this is the only way.
- **threads**: no thread is lost or in two places; no two processors are on one stack, an idle one
  included; the interrupt that ends idling is not lost although the queue is unlocked first and the
  line is cleared after the handler; migration never pops an empty list though its counts are stale.
- **pid**: the process table implements the process tree. A status is kept until it is collected or
  nobody can collect it; a reused pid is never mistaken for its earlier owner's child; waiters are woken
  by the exit they wait for although the code does not look again.
- **synch**: no wakeup is lost although others may take the lock or the count first; the detector
  leaves no cycle of locks unreported, and when it panics the lock that was asked for is held by a thread that
  waits, directly or through others, for the one that asked; waiting on a condition variable is atomic with
  releasing the lock, also for signals sent without the lock.
- **sfs**: on a volume that was never stopped no block has two owners or none; after a stop and `sfsck` none has two. Link
  counts are the names, and no assertion of SFS fails, reads failing or not. A file that was synced and not touched
  since is on the disk, whole, at every moment the machine may stop, and at every moment `sfsck` may. An operation on
  one file changes the bytes of no other, and a file never shows bytes of a block's earlier owner.
- **filesystems**: counts of open files and vnodes are exact through fork, dup2, exit, failing opens and every error exit of
  the operations on paths; a shared position moves by exactly what was read or written; no volume is unmounted under a
  user; although a lookup can find a vnode whose last user is closing it, a semaphore is in the table
  exactly as long as a name or a vnode refers to it; device names, raw names and labels lead where `struct knowndev` says.
- **devices**: interrupts stay off under any nesting of spinlocks and levels, so no handler spins on its own processor's lock,
  and a panic's message is never stuck behind a spinlock of a stopped processor; console output and input are exact, polling or
  not; each disk transfer's result and data reach the thread it is for; emulator handles are closed once; every request ends and every
  interrupt line is seen to.
- **kernel**: the kernel's own tests pass and end in *every* schedule; a program gets exactly its arguments,
  and a failing exec leaves nothing behind; kmalloc's allocations do not overlap and no page is lost whatever
  happens while its lock is released; a uio always says how much was moved; lists, arrays and bitmaps are what they stand for.
- **userland**: frack accepts a volume only if some prefix of the workload explains it, and complains of none
  that is in order, unless two versions cannot be told apart by its method (`Mistakable`); badcall's tests pass, end and clean up, in the
  places where this kernel can pass them (section 6); the library functions are exact at every small width.

`CHECK_DEADLOCK FALSE` is set where the system may really stop: after a panic or a failed assertion (`vm`, `pid`, `synch`,
`kernel`, `filesystems`, `devices`), when every reader sleeps (`filesystems`, `synch`), when a program has ended (`userland`) and when
the bounded number of operations is used up (`frametable`, `sfs`). `threads` is checked for deadlock.

## 4. Fairness

*Threads*: weak fairness of `Handlers(c)` (a processor finishes the handler it is in and takes a pending
interrupt: both run with interrupts off or immediately) and strong fairness of `cpu_idle(c)`:
`cpu_idle` enables interrupts for one instruction and returns, so it makes progress however many
interrupts come in between. Nothing is assumed of the clock, of threads, or of the scheduler: `IdleEnds` holds
although no tick need come.

*Pid*: weak fairness for a thread that is in the middle of a kernel call (`thread_fork`, `proc_exit`,
`pid_wait_returns`, the menu's wait): round-robin scheduling runs every ready thread, and what it
needs stays available. Strong fairness of `Exits(p)`: user programs that run again and again exit in
the end. This one is an assumption about programs, not about the kernel, and `WaitEnds` reads: if
programs exit, no wait is for ever.

*Devices* (`RequestsEnd`, `InterruptsServed`): the hardware does in time what it was told (a character is sent, a sector
is moved, an answer comes), an interrupt that is pending is taken, and a thread that can go on does: weak fairness of each.
Strong fairness only in Emu, of a thread's next step: two threads contend for `e_lock` and `vfs_biglock`, which wake their sleepers in order, and
the lock is free again and again. `InterruptsServed` needs no fairness between devices: `lamebus_interrupt` goes
through a snapshot of the lines.

*SynchTests and Exec* (`TestsAndExecsEnd`): every thread that can run does (weak). Two steps of `tt3` have strong fairness:
`random()` picks every channel again and again, and the menu's thread gets to run while `wakersem` is free, since the waker yields
between two uses of it (semaphores are not first come, first served, so the test's end really depends on that yield). Exec needs weak fairness only: the
throttle is given back by each holder.
## 5. Proofs

The proof modules are checked by TLAPS to the last leaf, with no assumption other than the named ones on
constants.

**FrameTableProofs, `TypeCorrect`.** For any number of frames and callers, any kernel that fits into memory
(`FrameAssumption`) and any sizes of its tables, the state of the allocator stays well
typed: no index leaves the table. `TypeOK` alone is not inductive: that the free list starts inside memory
needs that the bump pointer does not pass the end (`RamOK`); where it has reached the end, bootstrap does not get to a list.

**FrameTableProofs, `ReferencesCounted`.** `Spec => []RefsAccounted`. Needs what was handed out before the table
was published (`EarlyOK`: exactly the frames below the bump pointer, once each, and nobody in `free_kpages`), since
bootstrap sets the counts from that; and that finitely many callers are in the window of `free_kpages`
(`PendingFinite`), which is proved rather than assumed.

**FrameTableProofs, `FreeListCorrect`.** `Spec => []FreeListSound`: the chain ends and visits every linked free frame exactly
once. The witness is a sequence: `ListBuilt` gives the one bootstrap builds, `ListPop` and `ListPush` what
`alloc_kpages` and `free_kpages` make of it. That the frame `free_kpages` pushes is not on the list already, which would make it
cyclic, is where `RefsAccounted` is needed: the caller's reference is still counted, so the frame is in use.
`ListInv` also carries that frames bootstrap never linked are never used.

**VirtualMemoryProofs, `MemorySafe` and `AddressSpacesSafe`.** For any finite sets of processes, address spaces, pages and frames,
any processors, any hash function and any program (`VMAssumption`):

    Spec => [](TypeOK /\ AddressSpacesOwned /\ RefCountsExact /\ WritableIsPrivate /\ PagesDistinct)
    Spec => []AddressSpacesSound

The inductive invariant is `TypeOK /\ CountInv /\ Owned /\ DeadEmpty`, where `CountInv` is
`PagesDistinct /\ RefCountsExact /\ WritableIsPrivate`. Why each part is needed:

- *Counts need distinct pages.* `as_destroy` and `copy_page_table` change the count of every frame of an
  address space once per entry. In the model they do it once per frame, which is the same only if no
  two pages of one address space share a frame (`PagesDistinct`). This holds although pages may be *aliased* in
  the TLB: a page that hashes like another is given the other's frame without an entry of its own.
- *Writable-is-private needs exact counts*: `readonwrite` decides by `ref = 1` that it may write in place.
- *Exact counts need ownership*: `as_copy` copies into an address space that must be empty (`DeadEmpty`), and
  `as_destroy` is for one nobody else holds (`Owned`: two processes never hold the same one; exec holds two
  different ones).

The argument is by action. `MappersIn` collects the entries that refer to a frame;
`OneSpaceMore` (an address space gains or loses all its entries: each frame's count moves by at most one) and
`OneEntrySet` (one entry changes) are the two cardinality lemmas everything rests on; `CountDestroy`,
`CountCopy`, `CountNewFrame` and `CountLastReference` apply them to what the code does, and `CountNext` puts them
together. TLC checked the invariant first, in run `vm`.

**TLBProofs, `TLBPrivate` and `TLBSafe`.** From the same assumptions, `TLBPrivate` is

    Spec => [](NoDuplicateTLBEntry /\ TLBWritesPrivate)

for any hash function: no TLB holds a page twice, and a processor whose process has not forked since the
last flush writes only to frames that nothing else refers to. `TLBSafe` adds that every page is translated as the page
table says (`Spec => []TLBSound`). It has the hypothesis `NoCollisions`, since with collisions it is false (`vm_alias`), and is
stated with it rather than with an assumption on the constant so that `TLBPrivate` does not have it. The inductive invariant `TLBInv` is about
three places at once: what is in a TLB, what `vm_fault` has looked up and not yet written (`filling`), and which processor runs whom.
That a stale `filling` does no harm, although the thread may move to another processor and others may
fork, exec and exit before it is written, is because only the process itself changes its page table (`OnlyAt`, `OtherSpaces`) and it is in `vm_fault`.
Writable entries are private by `MemorySafe`, which is why this module extends VirtualMemoryProofs.

**SynchProofs, `WakeupsKept`.** `Spec => []NoLostWakeup` for any finite set of threads and any objects
(`SynchAssumption`: threads finite, the kinds of objects disjoint, a semaphore starts at or below the bound `MaxCount` of counts; `MaxCount` itself is any
number). `NoLostWakeup` counts: a semaphore with sleepers has at least as many threads on their way to it as its count; a free lock with sleepers has
one. Inductive is `SynchInv == TypeOK /\ Placed /\ Queued /\ NoLostWakeup`: `Queued` says a thread sleeps exactly if it is on
the channel of what it waits for, once, so that waking takes off one sleeper; `Placed` says what a thread in the middle of a call is doing it to, and that the
spinlock of a condition variable is held exactly by the thread between `lock_release` and `wchan_sleep` in `cv_wait`. The case that matters is
barging: whoever takes the count, the one on its way or another, lowers it by one and at most one thread fewer is on its way; and one that finds 0 and sleeps again leaves
nothing to be matched.

**SynchProofs, `MonitorImplemented`.** `Spec => ImplementsMonitor`: under the mapping of Synch (the waiters of a
condition variable are the threads on its channel and the one about to be) every step of Synch is a step of Monitor or leaves its variables alone. It needs
`SynchInv`: `NoneBetween` says that no signal is possible while a thread is between releasing the lock and sleeping, because of `Placed`.

**ThreadsProofs and ThreadSwitchProofs: `ThreadsSafe` and `StacksSafe`.** `Spec => []ThreadsKept` and `Spec => []StacksExclusive` for at least one processor, any set of threads
that has one to boot each processor with, and any wait channels (`ThreadsAssumption`). The proof looks at whatever can hold threads (a processor that runs, its queue, its wakeups under way,
the victims of its migration, its zombies, a wait channel, a fork in progress) as one function `Content` from containers to sets of threads. The inductive invariant is

    ThreadsInv == TypeOK /\ Tiles(Content, Lives) /\ Once /\ Home /\ Migrating /\ Rouses

`Tiles` says the containers hold each thread that exists once and no other; every action then moves one thread or a few between two containers, adds one or drops the zombies, and
the lemmas `MovedTiles`, `AddedTiles` and `DroppedTiles` serve all of them. `Once` says no list has a thread twice. `Home` is what keeps stacks apart: the thread whose stack a processor is on belongs to that processor
(`t_cpu`) also when the processor idles, and so do all in its queue, its victims and its zombies; a thread is therefore dispatched or freed only by the processor that may be on its stack.
The one step that changes the processor of a thread is `send_victims`, and `OfferSound` shows that the thread the processor is on, if it meets it, stays among the victims: this is the case the comment in `thread_consider_migration` leaves as an exercise.
`Migrating` says that the stale count of a processor's own queue is never more than the queue, since others only add to it. `Rouses` adds to `NoLostWakeup` that an idle processor in the middle of waking threads will look at its queue.
All ways out of a thread (`thread_yield`, `wchan_sleep`, `thread_exit`, the idle loop) end in `thread_switch`; `SwitchKeeps` is proved once and used by each. ThreadsProofs has the invariant and the steps of interrupts, migration and fork; ThreadSwitchProofs has wakeups, the switch and the theorems.

**PidProofs and PidTreeProofs: `PidTableSafe`, `SearchAlwaysEnds` and `TreeImplemented`.** For any set of processes, any table size of at least
two slots, at least as many pids as slots, and any statuses (`PidAssumption`):

    Spec => []PidTableSound
    Spec => [](nprocs # PROCS_MAX => \E k \in 0 .. 2 * PROCS_MAX + 4 : FreeAfter(k))
    Spec => Refines

The second is what the comment in `pid_alloc` claims for its loop ("the above test guarantees that this loop terminates"), with the bound of the assertion in the loop. It
takes arithmetic: pids in a row have slots in a row (`InARow`), but where `nextpid` wraps to `PID_MIN` a slot may be left out, so that up to twice the table
is looked at (`AllSlotsSeen`); and it takes the count, since `nprocs` below the size means a free slot only if `nprocs` counts the entries. The inductive invariant `PidInv` adds four facts to
`PidTableSound`: an entry is in the slot of its pid and the parent it names exists (`EntriesPlaced`: exit disowns children, so a reused pid is nobody's parent);
a process in `fork` has a child of its own without a thread (`ForksOwnChild`); that child has no children (`NewChildless`), so `pid_unalloc` need not look for any;
and the kernel's process keeps its pid (`KernelStays`). For the refinement the lemmas `TreeFork`, `TreeUnfork`, `TreeWait`, `TreeExit` say what each step of ProcTree
is to a table, and `RefineAlloc`, `RefineUnfork`, `RefineReap`, `RefineExit` that the code's steps are those. The proof is in two modules only to keep each short: the arithmetic, the invariant, most steps and exit; then the rest and the theorems.

TLC checked every inductive invariant on the instance of its run before it was proved.

**Only model-checked**: everything else in section 3, in particular all that is said of files, devices, the
heap and the libraries, and `DeadlocksExact`. Three kinds of facts are beyond this prover
and stay with TLC: liveness under fairness (`IdleEnds`, `WaitEnds`, `RequestsEnd`, `InterruptsServed`, `TestsAndExecsEnd`) and `ENABLED`; what a recursive definition
computes for every input (the detector's walk along holders and waiters, the libraries, `sfsck`, frack's replay), which needs induction over data; and anything in a module that uses
`RECURSIVE`. The two searches along chains in Synch are recursive functions for this reason.

## 6. Where code and documentation disagree

With a run that shows it:

1. `vm_fork_tlb`: after fork the parent's entries are read-only in the page table and writable in
   the TLB of its processor until the next flush (`addrspace.c:145`); the comment says that fork "sets both pages to
   read only" (`vm.c:189`).
2. `vm_alias`: `find_page` does not compare page numbers (`vm.c:61`); two pages of a process that hash alike
   become one frame. The table has as many buckets as a quarter of its pointers (`vm.c:385`), so this
   is not rare.

With a formula in the modules that states what the documentation says; it is no invariant of the code, and adding it to a
configuration gives the trace:

3. `AllFreeLinked` (FrameTable): `frametable_bootstrap` compares a frame *index* with the *number* of free frames less
   one (`frametable.c:52-53`), so the last frames of memory, as many as the kernel and its tables take, are never linked;
   the comment says "link all free frames" (`frametable.c:24`). No frame is handed out twice because of it: memory is lost.
4. `NoStrandedReader` (Semfs): `semfs_wakeup` assumes that sleepers exist only beside a count of 0
   ("We only need to wake up if there are sleepers, which should only be the case if the old count is 0", `semfs_vnops.c:136`). Two readers
   sleep; a write signals the first; before it has the lock a second write finds a positive count and signals nobody; one reader sleeps on beside a count of 1.
5. `SyncIsDurable` with `Losing = TRUE` (SfsVolume): `sfs_rwblock` hands the same uio to the device again after EIO, and for a write `lhd_io` has by then taken
   the data out of it (`lhd.c:222`), so the retry does nothing and reports success. The comment says "Read or write a block, retrying I/O errors" (`sfs_io.c:56`).
   A file is created and synced, the write of an inode fails, sync returns 0, and the file is not on the disk.
6. `NothingPastEOF` (SfsVolume): `sfs_itrunc` tests `blocklen < baseblock+j` and keeps the indirect block whose index *is* the new length;
   "Discard any blocks that are past the new EOF" (`sfs_bmap.c:265`).
7. `PanicPrints` (Cpus, with `Panics <- 2`): `panic` "prints the printf arguments it's passed and then halts the system"; when two processors panic at once one may halt it
   before the other has printed.
8. `NoLostIPI` (Cpus): the line of an interprocessor interrupt is cleared after the pending bits are taken, so a processor can have bits
   pending and no line. The idle loop is not hurt (`IdleEnds`), since the queue is looked at again.
9. `RangesNotEmpty` (Frack): `checkfilerange` asserts `start < end`, but a file that ends exactly where the range starts is let through
   (the test should be `tlen <= start`).

Seen while modelling; the models have them as the code does.

*Memory and processes*
- `vm.c:264`: `VM_FAULT_READONLY` is always refused ("assumed to just be an illegal write attempt", `src/README.md:154`),
  but a page read first after a fork enters the TLB read-only, and its first legal write then is one (`Refused`,
  `ReadOnlyHit`).
- `addrspace.c:358`: the loop that takes the loading permissions off the regions is inside the loop over the
  page table, so after the first index no region is marked any more, and loaded text stays writable (`Restore`,
  `RestoredRegions`).
- `frametable.c:52`: if the kernel and its tables take all of memory, `freeframes` is -1 unsigned and the loop that builds the free list
  runs off the table (`BuildRunsOff`); with one frame less, boot panics for want of memory.
- `runprogram.c:191`: "If we run out, we return E2BIG" (`design/exec.txt:345`), and EFAULT is for an invalid pointer (`execv.html:163`). When the
  arguments so far fill the buffer exactly, `copyinstr` is given no room, `copycheck` takes the empty region for one that wraps, and a valid list gets EFAULT: in the small
  buffer there is then no second try with the large one (`CopyArg`).
- `runprogram.c:529`: after the point of no return exec still needs a frame for the arguments; without one it
  panics, though the comment says that only "*we* messed up" could cause it.
- `kern/limits.h:70`: `ARG_MAX` is 4096, which is `PAGE_SIZE`: the large argument buffer is no larger than the small one, so the second try never
  succeeds and the throttle throttles nothing. The manual (`execv.html:105`) says 64K and `bigexec.c:260` asserts it. Exec is checked for both cases (`ArgMaxes`).
- `proc.c:154-176`: at exit `as_deactivate` does nothing, so the TLB is emptied only at the next switch to a user
  process (`proc_exit` leaves `tlb` alone; `TLBMatchesPageTable` is therefore about processors that run one).
- `menu.c:129`: when `thread_fork` fails the menu calls `proc_destroy` on a process that has a pid, which
  `proc.c:185` asserts it has not (`proc_destroy_fails`). `cmd_deadlock`'s failure path releases a lock it does not hold.
- `proc.c:364`: the result of `proc_addthread` is ignored; without memory the exiting thread has no process
  and an assertion of `thread_exit` fails (`proc_exit_nomem`).
- `kmalloc.c:286`: the bit of a pageref stays set when there is no page for pagerefs; in time the assertion
  at line 318 fails (`panicked` in Kmalloc).
- `waitpid` with a bad status pointer collects the child before it gives EFAULT; zero-length `copyin`/`copyout` to a bad address give EFAULT.

*Files*
- `semfs_vnops.c:498`, `:427`: removing races with reclaiming, and a failed allocation in `semfs_creat` returns success
  (`panicked` in Semfs).
- `sfs_inode.c:98`: when a block cannot be read, reclaiming stops in the middle and leaves a vnode nobody can reclaim.
- The manual of `ftruncate` says that a file made longer reads as zeros; a file cut and made longer again may show old bytes of its last block.
- `emu.c:1183`: `emufs_loadvnode` without memory keeps `vfs_biglock` for good, and the caller closes a handle that may by then be another's (`nomem` in Emu).
  A close that fails in `emufs_reclaim` leaves a vnode with a reference nobody has (`lost`). `emufs_addtovfs` leaks its table on error; `emufs_truncate_isdir` returns ENOTDIR.
- `vfs_setbootfs` refuses any name with a colon, a last one included (`vfslookup.c:81`); `vfs.h:123` gives "lhd0:" as an example; `vfs_clearbootfs` leaves the current directories it led to;
  `vfs_mount` does not compare the label with names in use, so a label can hide a device (excepted in `NamesMean`).
- `open` that finds no descriptor or no memory leaves the file it has created; `dup2` of a closed descriptor onto itself succeeds.

*Devices*
- `lhd.c` "XXX this check can overflow": `dev_tryseek` keeps it from that. The size in a device's `stat` is computed in 32 bits.
- A key typed between the configuration of the serial port and of the console reaches handlers that are not set yet.

*Libraries and programs*
- `%-05d` pads with zeros on the right; `%c` of NUL prints nothing; `NUMBER_BUF_SIZE` has "one character extra for slop", but a 64-bit octal number fits exactly.
- This kernel has no `sbrk`, so a program that calls `malloc` ends with "initial sbrk failed". `malloc`'s rounding wraps near `SIZE_MAX`; `malloctest`'s test 2 would loop at size 0.
- badcall on SFS: the tests of removing and renaming `.` and `..`, of linking a directory and of `getdirentry`'s buffer report FAILURE. On emufs `remove` is ENOSYS and the test file
  stays. A child abandoned by a failed second fork may take the next test's semaphore count. `sbrk`, `ioctl`, `pipe`, `symlink`, `readlink`, `stat` and `lstat` are unknown calls.
- frack: a volume just after the sync of `copyandrename` looks like the final one; truncations are known by size only; a created file that is empty
  leaks a descriptor in `checkonefilecontents`; the comment "6; /* and 7 */" of `wl_truncwrite` promises a code that is not used; `check_sync` does nothing.
- `semu18` and `semu19` do not destroy their semaphore; the "too fast" exit of `cvtest` keeps its lock; `threadlisttest_f` has no cleanup.

## 7. What is not modelled, and why

- *The walk of a hash chain without the page table lock* (`vm.c:58`): one step in VirtualMemory, though another
  processor may unlink entries of the chain meanwhile. Entries would have to be records with links, and freed memory would have to have contents.
- *The ELF format, the trap frame, register-level details of the timer, the random and the trace device*: data, or no state of the kernel's own.
- *The menu's parser and commands*: they call what the modules model.
- *dumbvm*: not in the configuration that has this VM. *Debugging modes of `kmalloc` and `malloc`*: off in the source.
- *Kernel tests `kmalloctest`, `fstest`, `threadtest`, `waittest`*: loads without an outcome of their own. *`dumpsfs`, and the disk access of `mksfs` and `sfsck`*: print, or system calls of the host.
- *The remaining user programs (the shell, the commands, `psort`, `sbrktest`, `parallelvm`, …)*: sequential programs over the calls of Syscalls; several
  need `sbrk`. `random.c` is arithmetic without a property.
- Components that share no state are checked in one run but not composed with each other: the seams (a vnode's count between VFS and file system, a page between
  heap and frame table) are modelled on both sides, by what each side may do.

## 8. Next steps

The page table as linked chains, refining the sets of VirtualMemory, with the unlocked walk as steps; fork as a composition of Pid, VirtualMemory and Files in
the order of `proc_fork` and its undo paths. Proofs: `RefsExact` of Files, `VnodeRefsExact` and `KeptWhileUsed` of Semfs.
