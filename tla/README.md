# TLA+ models of the OS/161 kernel and of the laboratories in this repository

The repository holds the work of a course on system programming. Its core is the
OS/161 kernel of `src/Cabodi/os161/src/kern` (version 1.99, with a physical memory
allocator, `arch/mips/vm/vm.c` and `vm/addrspace.c`, written for the course); around
it are the C laboratories (`src/Cabodi/lab1`) and the C++ laboratories
(`src/Malnati/lab1` to `lab4`). This directory models the kernel first, where processors,
interrupts, locks, memory and the disk meet; then the devices, the programs and libraries
with a state worth checking, and the laboratories.

Paths below are relative to `src/Cabodi/os161/src/kern` unless they start with `src/`.

## Inventory

| Part | State | Operations | What is hard, and what makes it correct |
|---|---|---|---|
| thread scheduler, `thread/thread.c` | per cpu: current thread, run queue, zombies, idle flag; per thread: state, cpu | fork, exit, yield, switch, idle loop, make_runnable, migration at clock ticks | A thread is on one list and on one cpu; nothing refers to a freed thread; an idle cpu with work is interrupted; migration, which counts under one lock and acts under another, finds the threads it counted; a runnable thread runs |
| thread lists, `thread/threadlist.c` | linked lists through the one node in a thread | add and remove at both ends | a thread linked twice corrupts two lists |
| wait channels and semaphores, `thread/thread.c`, `thread/synch.c` | sleepers, count, two spinlocks | wchan_lock, sleep, wakeone, wakeall, P, V | no wakeup is lost between the two locks |
| clock, `thread/clock.c` | tick counters, lbolt | hardclock, timerclock, clocksleep | runs in interrupt context, also on an idle cpu |
| interrupt priority and spinlocks, `thread/spl.c`, `thread/spinlock.c` | nesting counts, holder | splraise, spllower, splx, acquire, release | interrupts come back on |
| locks and condition variables, `thread/synch.c` | none | empty stubs | what relies on them has no exclusion |
| interprocessor interrupts, `thread/thread.c`, `arch/sys161/dev/lamebus_machdep.c` | pending bits, shootdown table, the controller's line | ipi_send, broadcast, tlbshootdown, the handler, clear | interrupts that arrive during the handler; the table's limit |
| physical pages (ASST3), `arch/mips/vm/vm.c` | list of free and of used blocks, count, node containers | alloc_ppages, free_ppages | the lists tile the memory after any sequence; no lock |
| address spaces and faults, `vm/addrspace.c`, `vm.c`, `syscall/runprogram.c`, `loadelf.c` | three regions per process, TLB per cpu | create, define, prepare, activate, destroy, vm_fault | a load can fail half way; stale TLB entries after a switch or a migration |
| kernel heap, `vm/kmalloc.c` | page references, lists per size, free list per page | kmalloc, kfree | the lock is released around the page allocator, which has none of its own; pages and references run out |
| dumbvm (ASST0 to 2), `arch/mips/vm/dumbvm.c`, `ram.c` | two regions and a stack per process, memory that is never freed | as `addrspace.c`, and as_copy | regions told apart by a base that is not 0, sums of 32 bits, a TLB that is never reused |
| traps, system calls, copyin/copyout, `arch/mips/locore`, `vm/copyinout.c` | stack of trap frames, interrupt level, fault recovery point | mips_trap, syscall, exception entry and exit, copies | nested traps and switches inside them must leave what is recorded about interrupts in step with the processor |
| VFS, `vfs/` | known devices, vnode reference and open counts, cwd, bootfs | mount, unmount, lookup, open, close, reclaim | a vnode is kept exactly as long as someone holds it, also when its file has lost its names or a step of releasing it fails; `vfs_biglock` is an empty lock |
| SFS, `fs/sfs/` | inodes in memory, free block bitmap, superblock, directories | read, write, truncate, create, link, remove, rename, reclaim, sync | one use per block, links equal names, nothing lost, after any sequence of calls some of which fail half way; a full disk; no journal |
| sfsck, `user/sbin/sfsck` | maps of blocks and inodes of one check | two passes over the volume | what a power failure or a failed write leaves is to be made sound, and no file taken away |
| emufs, `dev/lamebus/emu.c` | handles of the host, vnodes | open, create, close, reclaim | a handle is opened before it is known whether it is needed |
| disk driver, `dev/lamebus/lhd.c`, `fs/sfs/sfs_io.c` | one buffer, two semaphores, the result of the last operation | sector by sector, with retries above | callers interleave between sectors; the result is saved by the handler and read by the thread |
| console and serial port, `dev/generic/console.c`, `dev/lamebus/lser.c` | input ring, two semaphores, busy flag | read, write, polled output, handlers | a ring at its limit; a turn to write that passes through an interrupt |
| LAMEbus, `dev/lamebus/lamebus.c`, `*_att.c` | slots in use, handlers, soft contexts | probe, attach, configure, dispatch | an allocation can fail at each step, with interrupts on |
| time of day, `dev/lamebus/ltimer.c`, `thread/clock.c` | two registers of a running clock | gettime, getinterval | the two reads do not belong together |
| kernel library, `lib/`, C library, `common/libc`, 64-bit arithmetic, `common/gcc-millicode` | - | printf, atoi, memmove; multiply, divide, shift | widths, signs, borrows, full buffers |
| boot and menu, `startup/` | line, argument words, thread of a program | kgets, commands | a program's thread reads its arguments after the menu has gone on |
| shell, `user/bin/sh` | table of background jobs | run, wait, exit | jobs end in any order, pids are used again |
| parallel sort, `user/testbin/psort` | files and processes of each phase | generate, bin, sort, merge, validate | shares of different size, some empty, written to one file in any order; bins that overflow |
| user heap, `user/lib/libc/stdlib/malloc.c` | chain of headers | malloc, free, sbrk | one wrong length and everything behind it is lost |
| kernel tests, other user programs | - | - | drivers of the above |
| `src/Cabodi/lab1` heap | blocks, free and used list, handles of the client | alloc by three policies, free, defragment | the client's addresses are moved under it |
| `src/Malnati/lab3` parallel grep | thread pool, result file | search, wait, destroy | waits with nothing under way, destruction while threads run, writes that fail |
| `src/Malnati/lab4` blocking queue | queue, open flag | insert, take, close | closing races with blocked callers |
| `src/Malnati/lab1`, `lab2` containers | trees, maps | - | sequential exercises |

How they interact. Every kernel component runs in threads and interrupt handlers that
the scheduler switches and migrates; semaphores and lbolt are built on wait channels,
wait channels on run queues, run queues on spinlocks and interprocessor interrupts.
VFS calls SFS through vnodes, whose reference counts belong to VFS and whose memory belongs to
SFS; SFS calls the disk driver, which sleeps on semaphores that its interrupt handler
raises, as the console does. `thread_switch` and `thread_exit` call into the address space code, which shares the page
allocator with kmalloc; the trap handler calls vm_fault with interrupts on.

`PROJECT.json` lists every part with its status, and every hazard at its line with the
properties that would catch it.

## Modules

| Module | Models | Runs |
|---|---|---|
| `Threadlist` | the list operations, as functions on all lists | with `Thread` |
| `Thread` | scheduler, wait channels, semaphores, clock | `threads`, `thread_live` |
| `ThreadlistProofs`, `ThreadProofs`, `WakeupProofs` | theorems about `Thread` | - |
| `DeviceProofs` | theorems about `Ipi`, `Lhd`, `Console` | - |
| `PhysMemProofs`, `VmProofs` | lemmas about `PhysMem`, theorems about `AddrSpace` | - |
| `HeapProofs` | theorems about memory given out: `Kmalloc`, `Malloc`, `Dumbvm` | - |
| `ProgramProofs` | theorems about parts of the `programs` run: `Shell`, `Clock`, `FGrep`, `BlockingQueue`, `Trap`, `Emufs`, `Knowndevs`, `Menu`, `Lamebus` | - |
| `Ipi` | interprocessor interrupts in the steps of the handler | `devices`, `ipi_lost` |
| `Disk` | abstract: what callers of a disk driver may rely on | with `Lhd` |
| `Lhd` | the disk driver, its interrupt and its callers; implements `Disk` | `devices`, `lost_write` |
| `Console` | console, serial port, dispatch of device interrupts | `devices` |
| `PhysMem` | the page allocator, as functions on a memory_t | with `AddrSpace`, `Kmalloc` |
| `AddrSpace` | address spaces, page faults, TLBs | `address_spaces` |
| `Dumbvm` | the same for a kernel with dumbvm, with the contents of pages | `programs` |
| `Kmalloc` | the kernel heap | `programs`, `kmalloc_race`, `kmalloc_null` |
| `Trap` | traps, interrupt level, copyin and copyout | `programs` |
| `Sfs` | the file system, as functions on a volume with a set of outcomes | with `Vfs` |
| `Vfs` | mounting, lookup, reference counts, and the calls of the kernel | `vfs`, `sfs_truncate` |
| `Sfsck` | `Vfs` with a power failure at any write, and the checker | `sfsck` |
| `Emufs`, `Knowndevs` | the emulator's file system; the table of devices and their vnodes | `programs` |
| `Lamebus`, `Clock`, `Menu` | configuration of devices; time of day; boot and menu | `programs` |
| `Millicode`, `Libc`, `Malloc` | 64-bit arithmetic; printf and others; the user's heap | `programs` |
| `Shell`, `Psort` | two programs with several processes | `programs` |
| `Heap`, `FGrep`, `BlockingQueue` | the laboratories | `programs` |
| `MC...` | symmetry, values of constants, the restrictions of `thread_live`, `address_spaces` and `vfs`, the view of `vfs`, and several specifications side by side | - |

`MCDevices` and `MCPrograms` put specifications that share no state into one run: a
behaviour is one of them from its first state on, and the variables of the others keep a
fixed value. Nothing is composed in these runs; what interacts is in one module.

Definitions keep the names of the C functions where one definition is one function.
An operator that a comment calls a *faulty variant* is not part of any specification: it
is what the definition after it would be with a plausible bug, and is used to see that the
property notices.

### Thread

The processes are cpus. `pc[c]` says where cpu c is in the kernel: in its current thread
or in `cpu_idle()`, with interrupts on, or in a step of P, V, wchan_wakeall, thread_switch
or thread_consider_migration with interrupts off. A section between acquire and release of
one run queue lock is one step, since all it touches is protected by that lock; locks held
while other locks are taken (a semaphore's, a wait channel's, the run queue lock of a
migration's target) are variables and their sections several steps. `lists` holds every
list, the private ones of wchan_wakeall and thread_consider_migration included: the node
of a thread is one, so the state of all lists together is what can be corrupted.

Correspondence that is not one to one: `thread_switch` is `Dispatch` (the part after the
current thread has been put away), entered from yield, exit, sleep and the idle loop, and
finished in the context of the next thread, where the zombies are freed. `c_hardclocks` is
abstracted: any tick may be the one that considers migration. An idle cpu takes
interrupts, timer included, with `curthread` still the thread that went to sleep: this is
what makes thread_consider_migration meet its own current thread on the run queue.

### Ipi

`Thread` takes an interrupt in one step. `Ipi` keeps of the scheduler the idle loop and
make_runnable, and splits the interrupt: handler under `c_ipi_lock`, then
`lamebus_clear_ipi` under no lock. IPI_PANIC and IPI_OFFLINE halt the cpu with the lock
held; a shootdown makes the VM system panic, also with the lock held. The out-of-range
write of ipi_tlbshootdown (`c_shootdown[-1]`) covers the holder of `c_runqueue_lock` and
`c_ipi_pending`: any bits may be left there, and a release of that lock then fails its
assertion.

### Disk, Lhd, Console

In `Disk` a call has a list of sectors; one step moves the next of them, and the call ends
well only when all have been moved. `Lhd` is the code: lhd_io takes `lh_clear`, fills the
card's buffer from the uio (which moves on), starts the operation, waits for `lh_done`,
reads the result that the handler saved, and gives the card to the next caller, sector by
sector; lhd_irq is a step of its own, and a media error is any operation's outcome. The
mapping gives each caller its data and the number of sectors moved; a sector written is moved
in the step in which the disk carries out the operation, a sector read when it is copied from
the card's buffer, and all other steps are stutters. `ImplementsDisk` is checked as a property. Above it are raw access, which ends at the first error, and sfs_rwblock, which
tries again. The retry is where the promise of `Disk` no longer helps: see the findings.

`Console` has the ring, the two semaphores, `cs_wsem`'s turn to write, the two interrupt
bits of the port with their masks, and lamebus_interrupt with its count of unclaimed
interrupts. A polled character (kprintf with interrupts off) masks the port's interrupt,
waits until it is idle and restores the mask. One thread reads at a time: two would race on
`cs_gotchars_tail`, since the console's locks are empty.

### PhysMem, AddrSpace, Kmalloc

A `memory_t` is a record with the two lists as sequences of blocks, the count, the number
of containers in use and `down`, set by panic. The operators of `PhysMem` are calls of
alloc_ppages and free_ppages that no other call interrupts. Nothing in the code ensures
that: the two functions walk and relink global lists with no lock and interrupts on.
`Kmalloc` therefore has a call in two steps, and two calls can overlap; `AddrSpace` has
a call as one step, and what it shows holds for calls that do not overlap.

In `AddrSpace` a thread acts while it is the current thread of a cpu, and thread_switch may
put any other thread there between any two steps, which covers preemption and migration.
The regions of an address space are filled one allocation at a time; a load can fail after
each. A fault is two steps, the TLB miss and vm_fault with interrupts masked, since the
trap handler can be preempted in between. Virtual page 0 is among the segments' addresses so
that the assertions of vm_fault fail in some behaviours, as they would. `as_copy` has no caller.

In `Kmalloc` what runs under `kmalloc_spinlock` is one step. A call of the page
allocator, made without it, is two: in the first it walks the lists and finds a block
(`pick`), in the second it relinks them. When one thread enters while another is inside,
the history variable `raced` becomes true; from then on a call may return the block its walk
had found, though it has been taken since, and the change of a call may be lost. These are
some of the outcomes of the data race, not all, so `KernelHeapIsWhole` promises nothing once `raced` is true
(the exception is in `Sound`), and `kmalloc_race` shows what the race does. After a race
only the calls under way go on, which is enough for it. `live` is what the kernel holds. A block type is
its size. Once an address in physical page 0 has been handed out the kernel writes over
its exception handlers, what follows is undefined and the model stops.

### Dumbvm, Trap

`Dumbvm` has what `AddrSpace` leaves out: contents. A page holds the mark of who wrote it
last, so that a program that sees another's page, or a stale TLB entry, is told apart. The
executables are a constant; as_define_region, as_prepare_load, load_segment (through the
TLB, as the code does it, and of no more bytes than the segment has in memory), as_copy, vm_fault and the TLB's invalidation at a switch follow
the source, with the addresses wrapping at ADDRESSES. load_elf's first loop defines one
segment a step.

`Trap` is one cpu with a stack of frames for each thread. A frame says what kind of trap it
is, what was on when it came, and which spinlocks, raised levels and copies its handler has
open. Handlers are any sequence of the operations they could be made of; the code between
traps is not. What is checked is the book-keeping: curspl, iplhigh_count, spinlocks held,
t_in_interrupt, cpustacks[] and tm_badfaultfunc against the processor's own bit.

### Sfs, Vfs, Sfsck

A volume is a record: the disk, a function from blocks to what they hold; the free block
map, the vnodes in memory with their inode, dirty flag and the two counts; and `down`,
which names the panic or assertion that stopped the system. A C function that does I/O is
a set of outcomes, one for each way its disk reads can go: `Then` is the early return on
an error, `Finally` the clean-up that happens in any case. This keeps the text in the order
of the code, with each block read and written where the code does so. A block with content
of the wrong kind makes a read undefined, which is a failed assertion of the model
(`AssertionsHold`).

Names are model values and the contents of files are who wrote them: positions are counted
in directory entries, `Units` per block, and a directory entry is one of them, so that the
partial write of a directory entry and of a file are the same code as in the source.

Errors. A read can fail for good, after ten retries. A write never returns an error:
`sfs_rwblock` retries it with a uio that the driver has already used up, and the retry
transfers nothing and succeeds. Here every write reaches the disk; `Lhd` has the lost ones.

Power. With `PowerFails` every operator that writes a block has, besides its normal
outcomes, the one that ends right after the write (`Cut`): memory is lost and the disk is
as it is. sfs_sync writes the dirty inodes in the order of an array that reflects the
history of loads; the model cuts it after any subset. A block is written whole or not at
all. `Sfsck` runs sfsck on such a disk, then uses the volume again. Its two passes are functions on the disk:
pass 1 checks the inodes and what they refer to and finds the blocks in use, pass 2
walks the directory, and the free map is rewritten from what was found. A direct block past
the end of its file, which a write leaves that fails half way, is freed in the map and kept
in the inode; the history variable `kept` has these blocks, and `RepairedIsSound` makes
an exception of them (without it the run finds a violation: see the findings). Link counts are
never corrected: `addmemory` does not count the inodes it records (sfsck.c, pass 1), so
adjust_filelinks has nothing to do, in the model as in the code.

In `Vfs` one call is one step. The code makes it one by `vfs_biglock`, but the lock is
empty in this source, so this is an assumption on the callers. `handles` are the open files
of the callers, on files and on the directory, which can be opened for reading only; `cwd`
stands for a thread's current directory and `bootfs` for the boot file system's vnode, each
of which holds a reference to the root directory or is NULL. vfs_open makes its file before
it refuses O_APPEND, and closes it again when O_TRUNC fails. Reads of files and of the directory
are there for the reads of the disk that may fail in them; getcwd takes and drops a
reference. mkdir, rmdir, symlink and readlink are refused by SFS after the lookup, whose
references must be given back. vfs_setbootfs refuses every name with a colon, also one at
its end, which its comment allows: what it measures begins with the colon and is never empty
(`vfs/vfslookup.c:84`).

`Knowndevs` has the table that `Vfs` takes as one volume: devices, raw devices, volumes and
their names, and the counts of a device's vnode. `Emufs` is the other file system.

Not in the model: paths with several components (SFS has one directory), files on
several volumes at once, names that are too long, the sizes at which a uint32_t overflows.

### Programs, libraries, laboratories

- `Lamebus`: the probe order is that of kern/conf/ASST3, as conf/config turns it into
  autoconf code. Every allocation may fail, and a card may interrupt from the moment its
  handler is attached. `Clock`: the reads of the two registers are separate steps.
- `Menu`: kgets with its corrections, the split into words that stay pointers into the
  line, dispatch, and the thread of a program that reads its words at any later time.
  A program started without memory for the copy of its words is a fatal exception of the
  kernel, since the copy is not checked. `Shell`: the table of jobs against a kernel that
  reuses pids. This kernel has no processes; waitpid is taken from its manual page, so it
  fails for a pid that is no child's, and for no other reason.
- `Psort`: each phase forks its processes, which write their share at their offset in any
  order; any system call may fail. Sorting of a part is its result, merging is not. The
  number of keys is one of a set, which has a number that cannot be shared evenly and one
  smaller than the number of processes; the workspace is small enough for bins to overflow.
- `Malloc`, `Heap`: addresses in units of alignment; the program fills what it is given, and
  the laboratory's client keeps lines through defragmentation and the doubling of its array.
- `Millicode`: Knuth's division and the long multiplication on digits of HALF_BITS bits, as
  the source is written for any width. `Libc`: printf as a machine fed by characters, with
  ints and long longs, which are twice as wide.
- `FGrep`: the walk as any sequence of files, directories, ends and errors, the table of
  thread handles, and the result file: a write may fail, with its line in the file or not,
  and leaves the stream failed; main asks it at the end (`Verdict`). `BlockingQueue`: one step per section under the mutex,
  with spurious wakeups, and the look at `open` before the mutex as a step.

## Runs

| Run | Instance | Shows |
|---|---|---|
| `threads` | 2 cpus, 3 thread structures, one semaphore with count up to 2, lbolt | fork, exit, P, V (also from handlers), clocksleep, preemption and migration in any interleaving: a thread is on one cpu and on one list, no structure in use is freed, migration never takes from an empty list, every idle cpu with work is called, no wakeup is lost, zombies stay dead |
| `thread_live` | 2 cpus, 3 threads that never exit | interrupts come back on every cpu; a runnable thread runs |
| `devices` | `Ipi`: 2 cpus, a table of 1 mapping, 2 requests. `Lhd`: 2 threads, one of them SFS with 1 retry, 2 sectors. `Console`: 1 reader, 1 writer, a ring of 3, 3 characters typed | losing an interrupt never leaves a cpu asleep with work; the request that overflows the table flushes everything; the disk driver implements `Disk`; no character is lost or doubled after it was accepted, no turn to write is lost |
| `lost_write` | `Lhd`: 2 threads of SFS | **violated**: a write that the disk refused is retried with nothing left to write and reported as done |
| `ipi_lost` | 2 cpus, IPI_PANIC | **violated**: an interrupt sent between the handler and the clear is never handled |
| `address_spaces` | 2 programs and a kernel thread, 6 pages, 6 containers, a TLB of 1 entry; either on one cpu, with the kernel heap's requests, segments at page 0 and loads that fail, or on 2 cpus without them | the lists tile the memory, an allocation fails only when there is no run of pages, every page in use has one owner; no stale and no duplicate TLB entry |
| `programs` | sixteen specifications, see below | one invariant for each of them |
| `kmalloc_race` | the kernel heap of `programs` | **violated**: two calls of kmalloc at once are given the same page |
| `kmalloc_null` | 2 threads, 3 pages of 8 bytes | **violated**: kmalloc does not return NULL when out of memory |
| `vfs` | 8 blocks, 1 direct block and 2 pointers per indirect block, 2 entries per block, 2 names, 1 open file, 1 failing read | through every sequence of calls: no block has two uses, no block is lost without an error, link counts are numbers of names, vnodes are held by their users and nobody else, no assertion fails |
| `sfs_truncate` | as `vfs`, no failing read | **violated**: data stays past the end of a file that was cut |
| `sfsck` | as `vfs`, 4 entries per block, one power failure at any write of up to 8 calls, 1 failing read | a repaired volume is sound, and stays so when it is used again, unless a direct block past the end of its file was kept; a file keeps its name and its contents |

What `programs` checks:

| Part | Instance | Property |
|---|---|---|
| `Kmalloc` | 2 threads, 3 pages of 6 bytes, sizes 2 and 4, 2 page references, 4 blocks | `KernelHeapIsWhole`: blocks never overlap, no page is lost, the lists agree, until two calls of the page allocator overlap |
| `Malloc` | a heap of 9 blocks of 8 bytes, sizes 0, 7, 9 | `HeapIsWhole`: headers, neighbours and the program's blocks agree, no check fails |
| `Heap` | a heap of 12 units, 5 lines of 1 or 2, three policies, both clients | `LinesAreKept`: outside a defragmentation every pointer leads to its line |
| `BlockingQueue` | 2 consumers, 2 producers, 2 places, 4 values | `NobodyIsForgotten`: enough are awake for what can be done; values once and in order |
| `FGrep` | 3 files, depth 2, a table of 2 | `GrepIsComplete`: the table has the threads that run; when main asks the stream nobody writes any more, and without a failed write the result is complete |
| `Millicode` | words of 4 bits, every pair of long longs of 8 | `MillicodeIsRight`: each operation is arithmetic modulo 2^8 |
| `Libc` | ints of 5 bits and long longs of 10, buffer of 5, formats of up to 5 characters | `NumbersReadBack`: no overrun; what is printed is read back |
| `Emufs` | 2 names, 3 handles | `HandlesAreKept`: handles and vnodes go together |
| `Knowndevs` | 4 names, 3 entries | `DevicesAreFound`: names lead to their device; a volume in use stays |
| `Trap` | 2 threads, 3 frames | `InterruptStateAgrees`: records and processor agree; no assertion fails |
| `Psort` | 2 processes, 0, 1 or 5 keys below 5, a workspace of 2 | `SucceedsOnlySorted`: success means sorted; failure is a failed call, a key without bin, a bin too large or fewer keys than processes |
| `Shell` | 3 pids, a table of 2 | `JobsAreRemembered`: the table is the jobs not yet waited for |
| `Menu` | lines of 5 characters, 2 words | `MenuDoesAsTold`: what is executed is what the screen shows |
| `Lamebus` | 3 cards, of 3 kinds or of 4 others, 2 boards of cpus | `BusAgrees`: handlers, units and generic devices belong together, whatever fails |
| `Clock` | a second of 6, reads up to 3 apart | `TimeIsRight`: the answer is a time of the call; intervals are normalised |
| `Dumbvm` | 2 processes, six executables, 6 pages of memory, a TLB of 3 | `ProgramsKeepTheirMemory`: a program finds what it wrote |

Bounds. Two cpus are enough for every race between a cpu and another. Three threads let one
cpu have two more than the other, so that migration sends one, sends its own current
thread back, and finds none; the proofs cover any number. One semaphore: the code of P
and V touches one. Six pages hold two programs of three regions with no page to spare, so
that the kernel heap's block makes a load fail at each of its allocations; the containers
run out when programs have come and gone on two cpus. All of `AddrSpace` on two cpus is too
much for one exploration, so a behaviour of `address_spaces` has either the kernel heap,
page 0 and failing loads on one cpu, with a container to spare and only the stack touched, or
the second cpu (`Memory` and `Switching` of `MCAddrSpace`). Of `Kmalloc`, `programs` explores what comes before the first race. Of the executables of `Dumbvm` one has more pages than the TLB has entries, one a
segment at page 0, one a size that wraps. In `devices` the ring is filled and wraps; a
caller of two sectors meets another between them, and a retry. The heap's three pages and two references make both run out, and a page of size 2
has more blocks (three) than a free list needs to show its order. The constants whose name
begins with Max, and HeapLimit, bound what the code leaves unbounded. Widths (HALF_BITS,
WBITS, ADDRBITS, ADDRESSES) are small, so that every operand and every wrap is met; the source takes
them from the types. Of the
eight blocks of the volume three are the superblock, the root inode and the map; a file with
its inode, its direct block, its indirect block and one block behind it, and the directory's
block, fill the rest, so the one write of the instance (from the middle of the first block
over two more and past the largest file) meets every allocation of sfs_bmap and then
ENOSPC; with other files there it meets ENOSPC at each of them. EFBIG and a full indirect
block are out of this instance. One failing read lies at any read of any call, of `vfs` only while there is no boot file
system; the failure
of the undo of a rename, which needs a second, is not reached. One open file at a
time is enough for a file that is removed, renamed or cut while it is open; two opens of one
file are out of this instance.

`vfs` explores states up to `View`, which forgets the contents of blocks that are written
before they are next read: free blocks, which `sfs_balloc` clears, and the disk copies of
the inodes and of the map that are dirty in memory. No property reads them (`Uses` and the
others look at memory first), and two states that agree on the rest have the same calls
with the same results.

`sfsck` has four entries per block, so that a directory block holds `.` and `..` of a
repaired directory with room for both names. The disk keeps its data without caching, so
the order of writes is that of the code.

CHECK_DEADLOCK is off for `devices` (cpus halt by design), where a panic ends the
behaviour (`AddrSpace`, `Vfs`, `Sfsck`), and in `programs`, whose parts end (a sort, a search,
a shutdown, a bounded number of lines). The thread runs check for deadlock.

Fairness, in `thread_live`: weak fairness of the steps a cpu takes with interrupts off,
which go on as long as the processor executes instructions; strong fairness of the
interprocessor interrupt and of the timer, because a line stays raised until it is served
and interrupts are on again and again. Threads are not assumed fair: a thread may compute
for ever. In `ipi_lost` the handler and the kernel's own steps are strongly fair, more
than the code can promise, and the interrupt is lost all the same. `thread_live` leaves out
thread_exit (the set of threads is fixed), starts with one assignment of the boot threads,
and states that *one* thread runs: all are alike.

## Findings

1. `arch/sys161/dev/lamebus_machdep.c:268`: the line is lowered after the handler, outside
   `c_ipi_lock`. An interrupt sent in between is lost, with its bit pending. IPI_UNIDLE
   survives it, because the idle loop looks at the run queue again (`NoSleepWithWork`);
   IPI_PANIC and IPI_OFFLINE do not.
2. `fs/sfs/sfs_vnode.c:1190`: truncate keeps the first block past the new end when it is
   behind the indirect block, and never clears the rest of the last block: old data comes
   back when the file grows.
3. `arch/mips/vm/vm.c:258`: alloc_kpages adds the offset of kseg0 to the 0 that means failure.
4. `fs/sfs/sfs_io.c:74`: a retried write has an empty uio and succeeds without writing. The
   driver keeps its promise (`ImplementsDisk`): the caller asks for nothing.
5. `vm/kmalloc.c:462`: kmalloc calls the page allocator with its spinlock released, and the
   page allocator (`arch/mips/vm/vm.c:124`) takes none: two threads can be given one page.

Others were met while modelling and have no run of their own, because nothing in the
repository says otherwise or because the property that meets them names the exception:

- memory: free_ppages passes a node's address to freeNode, which compares block addresses
  (`vm.c:245`), so that containers of joined blocks leak until the kernel panics; in dumbvm
  a segment at page 0 leaves its region looking undefined and is overwritten by the next, a
  program with fewer than two segments meets vm_fault's assertions, a size near 2^32 wraps
  the sum of ram_stealmem, and with a full TLB runprogram's own store to the user stack is
  a fatal fault of the kernel;
- interrupts: ipi_tlbshootdown does not test for TLBSHOOTDOWN_ALL (`thread.c:1164`), so the
  second request past the table cancels the flush (the bound in `OverflowFlushes`; no code
  calls it yet); IPI_OFFLINE takes the run queue's lock inside the ipi lock, make_runnable
  the other way round (`thread.c:1193`); lamebus_interrupt prints its complaint about duds
  with the bus lock held; a serial interrupt between config_lser and config_con calls through
  an uninitialised pointer (`lser.c:78`, the exception in `BusAgrees`);
- configuration: config_con and config_random set their global before vfs_adddev can fail, and
  a second card then meets their assertion; a config that fails ends the loop, so that later
  units of the kind are not looked for;
- files: sfs_makeobj loses the block of an inode whose vnode can not be loaded (hence
  `NoBlockIsLost` speaks of volumes without read errors); a file without names whose
  indirect block can not be read when it is to be erased keeps its vnode for ever (the
  exception in `VnodesAreHeld`); emufs_loadvnode keeps vfs_biglock when it runs out of memory;
  vfs_mount does not refuse a volume name that a device has, vfs_doadd leaks what it
  made when a name exists;
- sfsck: link counts are never corrected; a second name of a file is reported as a block in
  use; a direct block past the end of its file is reported as "(freed)" and repaired
  (`sfsck.c:654` and 697), and is free in the map, but its pointer stays in the inode, so that the
  next file that gets the block shares it (the exception in `RepairedIsSound`); a directory
  without room for `.` and `..` is not fixed;
- system calls: `err < 0` where the functions return positive codes (`syscall.c:134`), so that
  errors of some calls come back as success; a copyin of length 0 fails;
- programs: psort's bin rounds its pivot so that a key may have no bin, validate never
  updates `prev_largest`, and a process without keys fails validation; printf with `-` and `0` puts
  zeros behind the number; malloc does not check its rounding near the largest size;
- menu: the copy of the arguments is never freed, and its allocation not checked;
  `bootfs lhd0:` is refused, though a comment allows the colon (`vfs/vfslookup.c:83`);
- laboratories: an empty directory makes FGrep wait for no handles, which throws; on an error
  its main closes the result file while searchers may still write (`lab3/Main.cpp:20`; why
  `GrepIsComplete` asks for a complete result only of the end that reports success); client.c's array wastes one place;
  `Elenco::remove(0)` leaves head dangling (`lab1/Elenco.cpp:68`, not modelled).

## Proofs

A run shows a property on a small instance, a theorem for every value of the constants that
the module's assumption allows. Each theorem rests on an inductive invariant, since none of
the properties is inductive alone; TLC has checked every one of these invariants on the
instances of the runs. Each action has a lemma of its own, and lemmas named `...Frame` or
`...Same` say that what an action leaves alone is preserved.

| Theorem | Property |
|---|---|
| `ThreadProofs`: `TypeCorrect`, `ThreadsRunOnOneCpu`, `ListNodesAreConsistent`, `NoUseAfterFree`, `MigrationNeverRunsDry`, `IdleCpusAreCalled` | `TypeOK` (to_send is never negative), `OneCpuPerThread`, `OneListPerThread`, `NoDanglingThread`, `MigrationFindsThreads` (the NULL that is not checked for does not occur), `IdleCpuIsCalled` |
| `WakeupProofs`: `WakeupsAreNotLost`, `DeadThreadsStayDead` | `NoLostWakeup`, `ZombiesStayDead` (an action property) |
| `DeviceProofs`: `IdleCpusAreWoken`, `OverflowLosesNothing` | `NoSleepWithWork`, `OverflowFlushes` |
| `DeviceProofs`: `DriverImplementsDisk` | `ImplementsDisk`, the refinement |
| `DeviceProofs`: `WritersShareThePort`, `OneReaderLosesNothing` | `OutputIsKept`, `InputIsKept` |
| `VmProofs`: `MemoryStaysTiled`, `PagesAreOwned`, `TlbStaysCurrent`, `VmTypes` | `MemoryIsTiled`, `PagesHaveOneOwner`, `TlbIsCurrent`, `TypeOK` of `AddrSpace` |
| `HeapProofs`: `KernelHeapStaysWhole`, `UserHeapStaysWhole`, `ProgramsAreKeptApart` | `KernelHeapIsWhole`, `HeapIsWhole` of `Malloc`, `ProgramsKeepTheirMemory` |
| `ProgramProofs`: `ShellRemembersJobs`, `ClockIsRight`, `GrepMissesNothing`, `QueueForgetsNobody`, `InterruptsStayRecorded`, `HandlesStayKept`, `DevicesStayFound`, `MenuKeepsItsWord`, `BusIsAgreed` | `JobsAreRemembered`, `TimeIsRight`, `GrepIsComplete`, `NobodyIsForgotten`, `InterruptStateAgrees`, `HandlesAreKept`, `DevicesAreFound`, `MenuDoesAsTold`, `BusAgrees` |

The arguments:

- `Thread`, placement. `IInv` is typing together with `Core` (lists linked once, current
  threads distinct and on their own cpu, run queues holding only threads assigned to them,
  freed structures referred to by nothing) and, for each cpu, `Local(c)`: what each value of
  `pc` says of the locals and the lists (a cpu in mig_take still has at least the threads it
  counted, since only it removes threads from its own queue while its interrupts are off).
  `ThreadlistProofs` has the facts about the list operations, by cases on positions, so that
  the other proofs never open a sequence.
- `Thread`, wakeups. `WInv` adds that the zombies are the threads on the zombie lists, who
  holds the locks of a semaphore and of its channel at each step of P, V and wchan_sleep, that
  a sleeper is on its channel, and `Accounted(s)`: while threads sleep on s, each unit of its
  count has a woken thread or a V that is still to wake one. The last is about cardinalities
  of sets of threads, which is why `ThreadAssumption` now says that there are finitely many.
- `Ipi`. A cpu that is in the idle loop is known to be idle or looks at its run queue once
  more; the table of shootdowns is exactly the requests since the last flush. The step in
  which mainbus_interrupt lowers the line over an unhandled interrupt keeps `NoSleepWithWork`
  because the cpu it interrupts goes back through the look at the run queue.
- `Lhd`. `lh_clear` is a lock on the card (`Mutex`, from the count of a semaphore); its holder
  knows how far its operation is from the state of the card, the pending interrupt and
  `lh_done` (`Card`), and how much of its data has been moved (`Own`). The refinement then
  maps every step: a sector moves when the card carries out a write or when read data is
  copied, prefixes of the caller's data grow by one, the rest stutters.
- `Console`. The turn to write is in one place (`OneTurn`), and a busy port has a character on
  its way or an interrupt to come, also while polled printing borrows it (`PortInv`). For
  input, the ring's content is what was accepted and not yet read, modulo the ring's size.
  `OneReaderLosesNothing` has the hypothesis `OneReader`: getch_intr runs under no lock, so
  two readers can load the same character, in the model as in the code.
- `AddrSpace`. Blocks of memory_t are lists; the lemmas say what removing, inserting,
  splitting and joining do to a sorted list and to the set of pages it covers, and that each of
  the three policies selects a block when one is long enough. On top of them `MemInv` (the
  lists tile the memory) and `OwnInv`: every used block is held by one region, stack or kernel
  block, with the size it was asked for; `Shape(t)` says which regions a thread has at each
  stage of a load that may fail. `TlbInv` adds that a program without pages has an empty TLB,
  which is what as_activate and the flush in thread_exit are for.
- `Kmalloc`. `KmInv` rests on `MemInv` of the page allocator. `RefsInv`: the three lists of
  page records are the records in use, once each; `LiveInv`: the blocks in use on a page are
  its blocks that are not on its free list; `OwnInv`: a block of the page allocator is a
  subpage's, a large block's or in the hands of a thread that has released the lock. The
  last disjunct is what makes it inductive: between alloc_kpages and the lock taken again, and
  between the last kfree of a page and free_kpages, a page is nobody's but the thread's. All
  of it is asked while no two calls of the page allocator have overlapped; then what a walk
  has found is what its second step takes, since nobody else has changed the lists.
- `Malloc`. `Chain`: from 0 to the top each header leads to the next and has the size of the
  one below; `FreeBut(h, S)`: free blocks are neighbours only at S, empty between calls and the
  two edges of a freed block while free joins it; `GivenInv`: headers in use are the blocks
  of the program.
- `Dumbvm`. `AreasApart`: the areas that as_prepare_load has got so far, at each stage of a
  load, are apart and below firstpaddr; then `Contents` survives every write, since a frame
  belongs to one area. `TlbOK` needs that the TLB is empty until a load begins, and
  `RegionsSet` counts the segments defined, so that an ordinary executable has what vm_fault's
  assertions ask for.
- `Lamebus`. `CardsOK`, `UnitsOK`, `ParentsOK`, `TheOK`, `EnabledOK` are what is asked of the
  soft contexts, and `ProbesOK` is what makes them inductive: of the probes still to do only
  the first has its soft context, a kind of card is in the list once, and what is at a device
  is in the list only after the device is configured. KASSERT(the_X == NULL) can then fail only
  with the_X set and unit 0 free, which is what a failed vfs_adddev leaves. That the cpus are
  counted alike twice is a fact about finite sets: a number's place in the ascending order is
  one more than the count of smaller ones (`AscendingRanks`).
- `Menu`. A line on the screen is the buffer, and each program's thread has a copy of the
  arguments of its own, whatever is typed before it runs.
- `Trap`. `TrapInv` reads the records off the stack of frames: a thread's level is what its
  top frame says, its count is that plus the frame's spinlocks, it is in an interrupt or
  in a copy when a frame is, and the processor follows the running thread's count except in
  the idle loop. It holds because a frame below another held no spinlock, was not raised
  and was no interrupt unless it idles, a copy is only in the first frame, and threads that do
  not run are all in thread_switch.
- `Shell`: table, processes and jobs as one relation, with the foreground process apart.
  `Clock`: between the two reads of the seconds at most Latency has passed, so seconds and
  nanoseconds are of one moment or the call corrects itself. `FGrep`: the handles are the
  threads that run, each with a file not yet in the result, and while no write has failed
  every file whose thread has ended and that has the text is in it. `BlockingQueue`: the ring from
  `out` to `in` is what was inserted and not taken, and there are as many awake on each side
  as can proceed, counted again with finite sets. `Emufs`: a vnode has its holders'
  references, and one more if it is the root or could not be closed. `Knowndevs`: no two
  entries share a name of their own, so that the first entry to answer to such a name is the
  device or has a volume of that name.

Assumptions on constants are named in the modules, and TLC evaluates them in the runs. Those
that only the proofs need: finitely many threads, consumers and producers; a thread that is
consumer and producer counts as two (`QueueAssumption`); a second is not 0 (`ClockAssumption`);
model values (NONE, BUSY, Blank) differ from, or belong to, what they stand beside; the
root's handle is a handle (`EmuAssumption`); memory is less than half of the addresses, as
kseg0 requires, and the stack is not empty (`DumbvmAssumption`); the bus has a slot, and the bits
of a cpu mask are finitely many (`LamebusAssumption`).

Only model-checked:

- Liveness (`InterruptsComeBack`, `ReadyThreadRuns`): the prover has no fairness. The
  violated properties of the findings are refuted by runs.
- What a fold or a recursion over data computes, which needs induction over the data:
  `MillicodeIsRight`, `NumbersReadBack`, `SucceedsOnlySorted` (`Psort` has a RECURSIVE
  operator), and of `Vfs` and `Sfsck`, whose operators build sets of outcomes by folding over
  blocks, everything.
- `LinesAreKept`: the places after heapDefrag are sums over a list, and its contents are moved
  by a fold.

## Plan

What is worth modelling and can be modelled faithfully is there, and what is worth proving and
within the prover's reach is proved. `LinesAreKept` is next: it needs heapDefrag's loop
as steps, and sums replaced by counts of addresses.

## Not modelled, and why

- Locks and condition variables are empty stubs (`thread/synch.c:183`), so what vfs_biglock and
  the console's locks are for does not hold at all: a model of overlapping calls would show
  data races everywhere, which the source announces. `Vfs`, `Emufs`, `Knowndevs` take calls
  one at a time, `Console` has one reader.
- The same holds inside alloc_ppages and free_ppages, which relink global lists with
  interrupts on and no lock. `Kmalloc` has overlapping calls, with the outcomes that hand out
  a page twice or lose a change; corrupted links, and overlaps with the calls of `AddrSpace`,
  are not modelled.
- Kernel tests and the synchronisation problems drive the modelled parts; the solution of the
  whale mating problem is an empty stub.
- Other user programs and tests of the upstream distribution are sequential callers of system
  calls, most of which this kernel does not have.
- The screen, the network card and the trace card have no driver in the configured kernels, or
  single register accesses. Directories other than the
  root and symbolic links are not implemented by SFS.
- The containers of `src/Malnati/lab1` and `lab2` are sequential exercises.
- Contents of files, messages, wording and the scheduler's statistics are abstracted
  everywhere; time is, outside `Clock`.
