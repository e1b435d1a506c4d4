# A verification of the OSV kernel

OSV is a small x86-64 kernel in C: preemptive threads on several processors,
processes with fork and wait, pipes, virtual memory, a journalled file system.
This directory holds TLA+ models of its parts, the TLC runs that check them on
small instances, and proofs, checked by TLAPS, that hold for every instance.
`PROJECT.json` lists the runs, the source lines behind every definition, the
hazards of the code and the theorems.

## Inventory of the system

| Part | State | Operations | What is hard | Correct means |
|---|---|---|---|---|
| Scheduler (`kernel/sched.c`) | ready queue, thread states, `sched_lock` | `sched_sched`, `sched_ready`, `sched_start_ap` | the lock is taken by one thread and released by another; the caller's lock is released in the middle | a thread is in one list and on one processor; ready threads run |
| Locks (`kernel/synch.c`) | holders, waiter lists | spinlock, sleeplock, condition variable | lost wakeups, preemption with a lock held | exclusion, no lost wakeup |
| Threads (`kernel/thread.c`) | thread structures, stacks | create, start, exit, cleanup | freeing the stack a thread runs on | a stack is freed once, when nobody uses it |
| Timer, interrupt level (`kernel/timer.c`, `arch/x86_64/kernel/trap.c`, `cpu.c`) | `num_disabled`, `intr_enabled` per processor | tick, `intr_set_level`, switch | nesting is counted per processor, locks belong to threads | interrupts are off exactly while a spinlock is held |
| Bounded queue (`kernel/bbq.c`) | array, two counters, two condition variables | insert, remove | one signal per item, overtaking | FIFO, no forgotten sleeper |
| Pipes (`kernel/pipe.c`) | queue, pointers to both files, reference counts | read, write, close | ends closed under a sleeper, unlocked tests | end of file is final; calls return |
| Processes (`kernel/proc.c`) | `struct proc`s, process table | fork, spawn, wait, exit | unlocked exit flags, freed and reused structs | statuses exact and once, nothing freed is used |
| System calls (`kernel/syscall.c`) | descriptor tables | open, close, dup, read, write, pipe, ... | full tables, error paths | a descriptor names an open file |
| Files and inodes (`kernel/fs/fs.c`) | reference counts, inode cache | get, release, lookup, open, link, unlink | release against lookup, lock order | no use after the last release |
| Journal (`kernel/fs/jbd.c`) | transaction, journal blocks | begin, write, end, commit | a crash between writes, a full journal | all or nothing |
| Block cache, IDE (`kernel/bdev.c`, `kernel/drivers/ide.c`) | headers, request queue | get, release, write, request, interrupt | interrupt against queue | one header per block, each request completed once |
| SFS (`kernel/fs/sfs/sfs.c`) | bitmaps, inodes, directories | allocate, free, link, unlink, read, write | error paths, indirect blocks | bitmaps agree with what is reachable |
| Address spaces (`kernel/mm/vm.c`) | ordered regions | map, extend, copy, unmap | boundaries, two locks at once | regions ordered and disjoint |
| Page tables, faults (`vpmap.c`, `kernel/pgfault.c`) | tables, page counts | map, unmap, copy, fault | reference counts | a mapped page is allocated |
| Physical memory (`kernel/mm/pmem.c`) | buddy blocks, page counts | allocate, free, merge | buddies of another order | blocks disjoint, nothing lost |
| Slabs (`kernel/mm/kmalloc.c`) | slabs, free chains, caches | allocate, free | full and empty slabs | an object is handed out once |
| Radix tree, trap table (`kernel/radix_tree.c`, `kernel/trap.c`) | height, nodes | register, look up, unregister | an allocation fails half-way | the handler found is the one registered |
| Console (`kernel/console.c`) | ring buffer, three indices | key, read | wrap, editing, full buffer | lines in order, no sleep on an ended line |
| User allocator (`lib/malloc.c`) | circular free list | malloc, free | merging at both sides | blocks fill the heap, apart |

The scheduler is called by everything that blocks: sleeplocks and condition
variables put threads to sleep through it; the queue under a pipe, the block
requests, the journal and the console use condition variables; `fork`, `spawn`
and `exit` create and end threads.  File system calls go through the inode cache
to SFS, SFS modifies blocks of the block cache in a transaction of the journal,
and the journal writes them through the IDE driver.  A module takes what the
level below promises as one step: `Pipe` uses the critical sections that `Sched`
shows to exclude, `Sfs` the single transaction that `Jbd` shows to be atomic.

## Modules

| Module | Contents |
|---|---|
| `Sched` | scheduler, spinlock, sleeplock, condition variable, threads, timer, interrupt level |
| `SchedInv` | the inductive invariant of `Sched` |
| `FifoQueue`, `BBQ` | what a bounded queue promises; `kernel/bbq.c`, which implements it |
| `Pipe` | one pipe, its two files and the processes sharing them, on top of `BBQ` |
| `Proc` | fork, spawn, wait, exit, the process table, struct reuse |
| `Bdev` | block cache, page cache of the device, request queue, IDE driver |
| `AtomicDisk`, `Jbd` | what a journalled disk promises; the journal on `Bdev`, which implements it |
| `JbdInv` | the inductive invariants of `Jbd` |
| `Files` | descriptors, open files, inode cache, path walks, directory calls of several processes |
| `FileStore`, `Sfs` | what a file system promises; SFS on a disk of `mkfs`, which implements it |
| `Vm` | regions, page tables, page faults, loading, fork and sbrk |
| `Kmem` | boot bitmap, buddy allocator, page counts, slabs |
| `RadixTree` | the tree with the trap table on top |
| `LineBuffer`, `Console` | what line input promises; the ring buffer, which implements it |
| `Malloc` | the user-level allocator |
| `Outcome` | C functions that return an error, as operators on a state; used by `Sfs`, `Vm`, `Kmem`, `RadixTree` |
| `...Proofs` | theorems and proofs, see below |
| `MC...` | the instances for TLC |

An operator that starts with "A wrong ..." or "Mutant" in its comment is a
mutation of the definition that follows it.  It is used by no specification; it
shows that the property paired with it in `PROJECT.json` notices such a bug.

### Sched

Each processor has the fields of `struct x86_64_cpu` that matter (`thread`,
`num_disabled`, `intr_enabled`) and its interrupt flag.  A thread has its label
`pc` in its own code, its place `sp` in `sched_sched`, and the argument of that
call.  `SchedAcquire`, `SchedUnlock`, `SchedPick` and `SchedRelease` are the
parts of `sched_sched` between which other processors can act.
`timer_trap_handler` may hit any thread whose processor has interrupts on.
Idle threads are named by their processor; the code never sets their state
before they are first switched to, hence `"UNSET"`.

Abstractions: the test-and-set and the write of the holder are one step;
`timer_lock` and the tick count are folded into the handler's entry; a nested
timer frame is the same as the frame below it, because what is suspended there
only cleans up and returns; there is one sleeplock.  `condvar_broadcast` and
`spinlock_try_acquire` are left out.

### BBQ and Pipe

The critical section under `q->lock` is one step, up to the wait or the release:
`Sched` shows that the lock excludes and that a wait releases it without losing
a signal.  A woken thread tests again in a later step, so others overtake it.
`bbq_is_empty` in `pipe_read` is read without the lock, in a step of its own
before `bbq_remove`.  `fs_close_file` and the `pipe_close` it leads to are two
steps.  The kernel is built with `-fwrapv` and without optimisation; the
counters are bounded by `MaxInserts`, far below where an `int` wraps.
`pipe_alloc` tests `pipe->buffer` before setting it; the allocator fills new
memory with 0x2b, so the test passes.  A `write` to a pipe without reader returns
`ERR_END` and changes nothing, so it is no action.

### Proc

A process is named by the address of its `struct proc`, and addresses are used
again.  Ghost variables record creators, statuses and reapers by pid.  One entry
of the table is one step of `proc_wait`, since `has_exited` is written without
the lock.  Built without optimisation for x86-64, the two stores of `proc_exit`
stay in program order.  Failed allocations change nothing modelled here.  The
allocator hands out the object freed last first; the model allows any free one.

### Bdev and Jbd

`io[t]` is the frame of thread `t` in `bdev_get_blk` or `bdev_write_blk`: it takes
the page cache's lock, reads the page if it is not there (submit, kick, wait),
makes the block headers, pins and locks one.  `hw` is the command the controller
works on; its interrupt may come at any step.  `pc` says where a thread is in
its transaction or its read, `stage` and `idx` where `commit_journal` is: data
blocks, map, header, the blocks in place, the erased header.  Each block write is
a step of its own, and `Crash` may come between any two: then only `disk` stays.
`kassert` and `panic` add their condition to `panic` and stop the thread.

`jbd_recover` is empty in the source.  What a recovery would restore is
`Recovered(disk)`, defined by the format that `commit_journal` writes: the
journal's data blocks laid over the places that its map names, as many as the
header says.  `Atomic` maps the permanent blocks of `AtomicDisk` to it and the
open transaction to the blocks logged and not yet announced by the header.

The journal's map is one block, and the journal is long enough for the blocks a
transaction can write (`JbdAssumption`), as it is in the code, which panics
otherwise.

### Files

`call[p]` is the frame of process `p` in its system call; `fs_get_inode` and
`fs_release_inode` are subroutines that return to `ret`.  `i_lock` and the
journal are held across steps, so that path walks, creation, removal and linking
of several processes interleave wherever the code lets them.  A directory is a
function from names to inode numbers; its blocks are `Sfs`'s matter.  The cleanup
thread's list is kept, the deletion it does is `Sfs`'s `sfs_delete_inode`.

Two ghosts record where the code itself gives the counts up: `untracked` when a
reference is used by two owners (opening `/` uses the parent's reference for the
file as well; a child of fork shares a current directory other than the root
without a reference of its own), and `lost` when an error path, or `spawn`, drops
a reference without a release.

### Sfs, Vm, Kmem, RadixTree, Console, Malloc

A call on these runs under a lock, or belongs to one thread, and is one step.
Inside it any one of its allocations or block fetches fails (`fail` counts down to
it), so every error path runs.  `Sfs` keeps the blocks of the disk with their
slots, and what the call has pinned and locked; `"limit"` is the assertion that
a write reaching the largest file size hits, `"twice"` the second release of an
indirect block.  `Vm` has page tables of the same four levels with small fan-out,
and stops a behaviour (`lossy`) after the three error paths that leak: what they
leave is lost, and nothing more is claimed about it.  `Kmem` assumes that memory
is large enough for its own page map.

## Runs

| Run | Instance | Shows |
|---|---|---|
| `sched` | 2 processors, 3 threads | the safety of scheduler and locks, and the invariant of the proofs |
| `sched_live` | 2 processors, 2 threads, no try-acquire | waiters are woken, ready threads run |
| `bbq` | 4 threads, 2 slots, 4 insertions | FIFO with progress, no forgotten sleeper |
| `pipe` | 3 processes, 1 slot, 2 bytes | open while held, final end of file, a sole reader returns |
| `pipe_eof` | 2 processes | violated: see below |
| `proc` | 3 structs, 4 pids | exact status, no use after free, right `ERR_CHILD`, `wait` returns |
| `storage` | 2 writers, 1 reader, 3 file system blocks, 2 journal data blocks, 2 blocks in a page, 1 failed allocation | requests in order, cache as disk, assertions, transactions end and are atomic |
| `files` | 2 processes and one to be born, 3 inodes, 2 names, 2 file objects, 3 calls, 1 failed allocation | reference and link counts, assertions, no deadlock but one |
| `sfs` | 3 inodes, 6 data blocks, 3 calls, any fetch of each failing | bitmaps, links and names exact, blocks released, calls atomic |
| `vm` | 2 processes, 32 frames, any allocation failing | every frame owned once, isolation, regions apart |
| `vm_buffer` | the same | violated: see below |
| `structures` | `Kmem`, `RadixTree`, `Console`, `Malloc` side by side | each structure exact in every order of its operations |

Why the bounds are enough for the cases of interest: two processors and three
threads give a holder, a waiter and a third that overtakes; two slots and four
insertions wrap the array twice, and four threads give two sleepers on one side
with an overtaker; three processes give two readers and a writer; three structs
with four pids force an address to be used again while a child is alive.  In
`storage` two writers contend for the journal, the transaction fills it, two
blocks share a page, and the reader's block is being logged.  In `files` three
calls are, for instance, a removal and a link of the same name with a third
process in the walk; the trees have `a` once as a file and once as a directory.
In `sfs` files reach the indirect block, one name is too long to be stored, and
the disk runs full.  In `vm` two steps of sbrk bring the heap to the stack.  In
`structures` the tree grows to three levels, the ring and its indices wrap, and
blocks have buddies past the end of memory.  The runs of everything but `Sched`
stop when their bounds are used up or everybody sleeps, so deadlock is not
checked there; `SomeCallGoesOn` checks it for `Files`.

Fairness: running code proceeds and the timer ticks (`Sched`); a thread that is
awake gets `q->lock`, which is held for a bounded time (`BBQ`, `Pipe`); a thread
that spins for `ptable_lock` gets it if it is free again and again (`Proc`); the
disk answers, and threads in the block cache and the journal proceed and get a
sleeplock that is free again and again (`Jbd`).  Nobody is forced to make a call.

`TxnEnds` has two exceptions, which are in the code: a panic after a failed
allocation, and `SelfBlocked`: a failed block write returns with the block
locked, and the repeated commit waits for it.  `SomeCallGoesOn` has one:
`fs_link` locks its source before the directory, and a walk that uses the source
as a directory holds the directory and waits for the source.

Where code and documents disagree:

- `pipe_eof`: closing an end wakes nobody, so a read that already sleeps never
  returns, although the design document promises end of file.
- `vm_buffer`: a buffer that `validate_ptr` accepted may lie in a page that is not
  mapped yet, and the kernel's own access to it panics.

Other behaviour that surprises, in the models as in the code: an exited thread
followed by a fresh one is never reclaimed; a writer that sleeps when the read
end is closed stays asleep, and a read waits for all its bytes while the write
end is open; parents are compared by address, so a new process at a dead parent's
address can wait for its children; nobody frees a process that exits after its
parent; and the two `untracked` cases of `Files`, after which an inode may be
released once too often.

## Proofs

Proved with TLAPS for every value of the constants that satisfies the named
assumptions.  For each component an invariant that implies the properties and is
inductive is shown to hold initially and to be kept by every action: one lemma
per action, one step per conjunct the action can disturb.

| Module | Proves | Assuming |
|---|---|---|
| `SchedLockProofs`, `SchedProofs` | `Spec => []IInv`, and from it every safety property of `sched` | `ConstantsAssumption`: processors and threads are disjoint sets without `NULL`, of any size |
| `PipeProofs` | `BBQSpec => []BBQInv`, no forgotten sleeper, `BBQ` implements `FifoQueue` (safety); `Spec => []PipeInv`, `OpenWhileHeld`, `EofFinal`, and that a pipe's queue is FIFO | sizes and bounds are naturals, the processes are finitely many |
| `ProcProofs` | `Spec => []ProcInv` and from it the four safety properties of `proc` | the assumptions of `Proc` |
| `BdevProofs`, `JbdProofs` | `Spec => []JbdInv`, `CommandIsFirst`, `CacheCoherent` | `BdevAssumption`, `JbdAssumption` |
| `BlkRefProofs` | `Spec => []RefInv`, `AssertionsHold` | the same |
| `AtomicDiskProofs` | `Jbd` implements `AtomicDisk` | the same |

- `IInv` (`SchedInv`).  None of the properties is inductive alone.  That
  `num_disabled` counts the running thread's spinlocks after a switch needs that
  every thread off the processors is inside `sched_sched` past its release of
  `lk`, or fresh (`PlaceInv`, `ContextInv`), and that only one processor switches
  at a time (`SchedLockInv`).  That no wakeup is lost needs where waiters and woken
  threads are (`WaitingInv`, `HandInv`) and that lists are disjoint (`DisjointInv`).
- `BBQInv`: every sleeper is linked once in the list of its condition variable, and
  there are as many woken threads on the way as items, or free slots, that
  sleepers wait for.  `PipeInv` adds that the files' counts are the numbers of
  holders and what each call has seen.
- `ProcInv`: what the code keeps by address agrees with what happened by pid: a
  struct in the table belongs to one pid, whose status is the one it exited with,
  whoever is taken for its parent.
- `JbdInv`: where each frame, request and commit is determines which locks are held,
  what memory and disk agree on, and how much of the journal is on the disk.  That
  the interrupt completes the right request, for instance, needs that the queue has
  the pending requests once each and that the data of the block at its head cannot
  change, because its lock is held by the thread that waits.
- `RefInv`: as long as no allocation failed, `bh->ref` counts the threads that use a
  header and the journal's pin of each logged block, so a release never finds it
  zero.  This needs that the journal gives up its pins one by one in the
  stage that writes the blocks in place.
- The refinement: `jbd_write_blk` is `Write`, the write of the header is `Commit`,
  `Crash` is `Crash` and everything else stutters.  The write of the blocks in place
  stutters because each is already in the journal, and the erasing of the header
  because all of them are in place by then: both are conjuncts of `JbdInv`.

TLC checks `IInv` in the run `sched`; the other inductive invariants were checked on
the instances of their runs before they were proved.

Only model-checked:

- liveness (`WaiterWoken`, `ReadyRuns`, `DrainReturns`, `WaitReturns`, `TxnEnds`, the
  fairness part of `ImplementsFifo`), which the prover does not do;
- `Sfs`, `Vm`, `Kmem`, `RadixTree`, `Console` and `Malloc`: their operations are
  recursive or pass operators, and what they compute follows by induction over the
  data, which is out of the prover's reach; their calls are single steps, so that
  the interleavings, which are what proofs over all instances are good for here,
  play no part;
- `Files`.

## Not modelled

Boot code, the tables of the multiprocessor and the interrupt controllers (device
registers, no kernel state); the screen, and the keyboard, whose handler reads
its byte from the status port; formatted output; the layout of a new thread's stack;
the decoding of system call arguments, and the calls that change nothing (`fstat`,
`getpid`, `meminfo`, `info`); reverse mappings, shared-memory stores and
`vpmap_cow_copy`, which nothing calls or which are empty; the pointer manipulation
of lists, which are sequences everywhere; the C library and the user programs, which
served as a source of what the kernel promises.
