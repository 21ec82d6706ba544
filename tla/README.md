# TLA+ models of the kernel and its file system

The repository holds a small uniprocessor RISC-V kernel (`src/os`) with threads,
processes, blocking and spinning locks, pipes and a deadlock detector, and the
file system `easy-fs` it reads its programs from. This directory models the
kernel's scheduler, synchronisation, processes and memory and the file system
down to its block cache, checks the models with TLC on small instances, and
proves the most important properties with TLAPS for instances of any size.

## The system

| part | state | operations |
| --- | --- | --- |
| scheduler (`task/{mod,manager,processor,task}.rs`) | current task, ready queue, status and user resources of each task | suspend, block, wake up, exit of a thread or of the process, fetch |
| synchronisation (`sync/*.rs`) | lock flags, counts, wait queues | `lock`, `unlock`, `up`, `down`, `wait`, `signal` |
| timers (`timer.rs`) | heap of (deadline, task), the clock | `add_timer`, `check_timer`, `remove_timer` |
| traps (`trap/mod.rs`) | where each kernel stack resumes | system call, timer interrupt, fault, check of signals on the way out |
| deadlock detection (`syscall/sync.rs`) | available, allocation and need of mutexes and semaphores per process | `sys_mutex_*`, `sys_semaphore_*`, `sys_condvar_*`, `sys_enable_deadlock_detect` |
| threads (`syscall/thread.rs`, `task/id.rs`) | tids, kernel stacks, user resources | `sys_thread_create`, `sys_waittid`, `sys_gettid` |
| processes (`task/process.rs`, `syscall/process.rs`) | parent, children, zombies, signals, pid map, reference counts | `fork`, `exec`, `sys_waitpid`, `sys_kill`, `sys_exit` |
| pipes and files (`fs/*.rs`, `syscall/fs.rs`) | ring buffer, descriptor table, offsets | `read`, `write`, `close`, `dup`, `pipe`, `open` |
| memory (`mm/*.rs`) | free frames, page tables, areas | allocation, mapping, copy for `fork`, recycling |
| block cache (`easy-fs/src/block_cache.rs`) | queue of cached blocks, dirty flags, disk | load, modify, evict, sync |
| file system (`easy-fs/src/{layout,bitmap,efs,vfs}.rs`) | bitmaps, inodes, directory | create, find, read, write, clear |
| drivers, boards, console, boot, image builder | device I/O | not modelled |

How they interact. A system call or interrupt enters through `trap_handler`, runs
without preemption (interrupts are taken in user mode only) up to its return or
to a call of `schedule`, and continues after that call when `run_tasks` takes the
task from the ready queue again. So one step of a model is the code between two
switches, and the interleaving is that of those spans. Blocking calls put the
task into a wait queue or the timers and leave the CPU; `wakeup_task` puts it
back. Exit of the main thread ends the process and must take its other threads
out of the ready queue and the timers.

What is hard to get right: hand-over of a mutex while others contend for it; the
re-lock in `Condvar::wait`; a task in two queues or in none; exit racing with
timers and ready threads; tables of the detector that are updated apart from the
locks they describe; reference counts held by kernel stacks that never run
again; reuse of ids; full and empty ring buffers; eviction and crashes under the
file system. `PROJECT.json` lists each with its line.

## Modules

| module | models | role |
| --- | --- | --- |
| `Scheduler` | `task/{mod,manager,processor}.rs` | variables and entry points of the scheduler, as operators that system calls conjoin |
| `Sync` | `sync/*.rs`, `timer.rs`, timer branch of `trap/mod.rs` | extends `Scheduler`; one action per call, interrupt or resumption |
| `AbstractMutex` | what mutexes promise | refined by `Sync` through `Holder` |
| `DeadlockDetect` | `syscall/sync.rs` | extends `Sync`: the calls with their tables around the locks |
| `MCSync` | | `Sync` for TLC, with the symmetry of the threads other than the main one |
| `Pipe` | `fs/pipe.rs`, the calls on pipes of `syscall/fs.rs` | ring buffer, readers and writers, descriptors of both ends |
| `AbstractFifo` | what a pipe promises | refined by `Pipe` through its history of bytes |
| `MCPipe` | | `Pipe` for TLC: two processes, three threads |
| `MemorySet` | `mm/{frame_allocator,page_table,memory_set}.rs` | frames, page tables and areas, as operators on one record |
| `Processes` | `task/*.rs`, `syscall/{process,thread}.rs`, the way out of `trap/mod.rs` | extends `MemorySet`: life and death of processes and threads with what they own |
| `BlockCache` | `easy-fs/src/block_cache.rs`, the block device | cache, eviction, write-back, crash |
| `AbstractDisk` | what the cache promises | refined by `BlockCache` through `Contents` |
| `Layout` | `easy-fs/src/{layout,bitmap}.rs` | inodes, index blocks and bitmaps, as operators |
| `FileSystem` | `easy-fs/src/{efs,vfs}.rs`, `fs/inode.rs`, the file calls of `syscall/fs.rs` | extends `Layout`: one action per system call, and reboot |
| `AbstractFiles` | what files promise | refined by `FileSystem` through `View` |
| `MCFileSystem` | | `FileSystem` for TLC: flags and buffers |
| `PipeProofs` | | lemmas and theorems about `Pipe` |
| `BlockCacheProofs` | | lemmas and theorems about `BlockCache` |
| `SyncProofs` | | theorems about `Sync`: types, semaphores; lemmas on queues and on moves between them |
| `MutexProofs` | | extends `SyncProofs`: places of tasks, sleepers, mutexes |
| `DetectLemmas` | | `DeadlockDetect` implements `Sync`; sums and rows of the tables |
| `DetectProofs` | | extends `DetectLemmas` and `MutexProofs`: theorems about the tables |
| `ProcessProofs` | | the invariant of `Processes`, its steps, and the theorems about the control blocks |
| `MemoryProofs` | | extends `ProcessProofs`: what each operation of `MemorySet` does to the frames, and the theorems about them |

Correspondence. `current`, `ready_queue`, `task_status`, `res`, `locked`,
`count`, `wait_queue`, `timers` and the tables carry the names of the fields.
`kpc` and `kmutex` stand for the kernel stack: the place in `lock()` or `wait()`
where a switched-out thread goes on, and the mutex it is about. `held` and
`taken` are history: the mutexes `lock()` has returned, and the permits `down()`
has given. They guard nothing but what a program chooses to do.

* `Sync` has the threads of one process and the thread of `initproc`. `initproc`
  only yields and is interrupted; it is there because a process with all its
  threads asleep depends on someone else being interrupted.
* In `Sync` the synchronisation objects exist from the start, semaphores with
  any count of `ResCounts`. `DeadlockDetect` has the calls that create them.
* User programs are arbitrary: any call in any order. With `Disciplined` they
  unlock only mutexes they hold; with `OwnPermits` they return only permits they
  took.
* A fault or a fatal signal ends a trap in `exit_current_and_run_next`. That is
  the exit the thread may choose after its call, so it needs no action.
* A thread of `Sync` is created once. Its tid, which the code gives back at exit
  and reuses, is in `DeadlockDetect` (`tid`, `task_res_allocator`) and in
  `Processes`. The tables of the detector have a row per tid, and
  `sys_thread_create` pushes rows for new tids only: a thread whose tid was used
  before goes on with the rows of the one that exited. `ExitGivesTidBack` is the
  exit with the drop of `TaskUserRes`; the exit of the main thread gives back the
  tids of the others too, but nothing is created from that allocator afterwards.
* `Pipe` has several processes and stands beside `Scheduler`: a thread waiting in
  a pipe is always ready, so all it needs of the scheduler is to be switched in
  again. The loops take one step per byte, but `cpu` keeps every other thread out
  until the call returns or suspends, as the kernel does. Descriptors are counted
  per process and end. `exec` keeps them, so it has no action; `sys_spawn` is a
  stub. Calls that return -1 change nothing and are left out.
* The write end is open while a descriptor or a thread inside `sys_write` refers
  to it. A thread suspended there when its process dies is never switched in
  again, so its reference stays and readers wait on; `ReadersReturn` is about
  references, not about living writers. `Processes` shows what such a reference
  does to the process.
* In `Processes` a process is its pid and a thread the id of its kernel stack,
  because both are given back only when the control block is dropped. Dropping is
  modelled where the last `Arc` goes: a PCB is held by a `children` list, by
  `PID2PCB` and by kernel stacks that keep an `Arc` over a switch (`held`), a TCB
  by `tasks`, `stop_task`, the queues, and its own stack from the time it blocks
  until it is switched in again.
  A wait is only a place (`at`): which object it is about is the business of
  `Sync` and `Pipe`, and a waiter is woken when a thread that could do it runs.
  `mode` tells user mode from the loop of a pipe and from the way out of
  `trap_handler`, where signals are looked at. Faults are `Kill` of the own
  process. `fork` and `exec` panic when `tasks` has more than one entry, and
  `sys_waittid` when its tid is past the end; a program that does not do that is
  a guard there.
* In `MemorySet` page tables have two levels instead of three, an address is a
  page number, and of the contents of a frame only the `kernel_sp` of a trap
  context is kept. An order of frees is kept, since the free list is a stack.
* `BlockCache` takes a step per access, so that a crash or an eviction can fall
  between any two. Handles are nested, as the closures of `read` and `modify`
  are. A write of one block to the device is atomic.
* In `FileSystem` a system call is one step: the kernel does not switch inside
  it. Its disk is the memory that `BlockCache` refines. Every operation that
  writes ends in `block_cache_sync_all`, so `Reboot` between two operations
  loses nothing. A word stands for a byte and for a block number, a name for a
  directory entry's string, and a buffer is the lengths of its slices, because a
  user buffer that crosses pages is written slice by slice.
* `check_timer` pops equal deadlines in any order, as a binary heap may.
* The kernel is built in release mode, so the tables wrap (`UsizeMod`).
* Rows and columns of the tables exist from the start with zeros; the code adds
  them on demand with zeros.

## Runs

| run | expects | shows |
| --- | --- | --- |
| `sync_locks` | pass | three threads, one mutex of each kind and a condvar: `MutualExclusion`, `WaitersHaveOwner`, `NoPanic`, and `ImplementsMutexes` (refinement) |
| `sync_anyprog` | pass | the same with a semaphore, sleeping, and programs that unlock anything: `TypeOK`, `NoTaskLost`, `NoTaskTwice`, `ExitedNeverScheduled`, `SemaphoreCountsWaiters`, `NoEarlyWake` |
| `sync_live` | pass | under fairness: `ReadyRuns`, `SleeperRuns`, `MutexWaiterServed` |
| `detect_tables` | pass | what the tables do record, with a tid used again after an exit: `MutexTablesCountClaims`, `SemaphoreTablesConserve`, `LoneThreadNotStuck`, `DetTypeOK` |
| `detect_mutex_missed` | violation | opposite lock orders on two mutexes are not refused, and each thread waits for the other |
| `detect_mutex_alarm` | violation | after the refusal of a mutex it holds and the unlock, a thread is refused the free mutex |
| `detect_sem_missed` | violation | a permit obtained by waiting is unknown to the tables, so a later circle is not refused |
| `pipe` | pass | `ImplementsFifo` (refinement), `BatchFits`, `EofIsFinal`, `ShortReads`, `TypeOK`, and under fairness `ReadersReturn` |
| `blockcache` | pass | `CacheCoherent`, `NeverRunsOut`, `ImplementsDisk` (refinement, with crashes), `TypeOK` |
| `filesystem` | pass | `BlocksOwnedOnce`, `ClearFreesAll`, `FreeSpaceZero`, `DirectoryOK`, `ImplementsFiles` (refinement), `FsTypeOK` |
| `processes` | pass | `FramesOwnedOnce`, `SpacesMapped`, `SchedulableThreadsLive`, `FamilyTree`, `KernelStacksReclaimed`, `ProcTypeOK`, and under fairness `KilledDies` |
| `processes_waitpid` | violation | a thread that waits on a semaphore when its main thread exits makes the parent's `sys_waitpid` panic |

Bounds. Three threads are the least with an owner, a waiter and a newcomer at
one mutex, or with two waiters in an order; two threads alive suffice for the tables,
whose counterexamples are circles of two. One object of each kind shows every
interaction of kinds, because a thread waits for one object at a time; circles
need two of a kind. `MaxTime` 1 gives expired, due and future deadlines.
`MaxCount`, `MaxNeed` and `MaxAvailable` stop counters after the cases at zero
and one; negative counts are bounded by the threads. `UsizeMod` 16 is beyond
every count that can occur, so a wrapped entry is recognisable. `MaxLive` 2 keeps
the detector runs at two threads alive at a time, as two suffice for every circle
of two objects; `detect_tables` has a third thread, created after an exit, which
is the least that reuses a tid.
`sync_anyprog` does not check for deadlock: a failed assertion of the kernel
stops everything there, which is allowed to programs that unlock what they do
not hold. Where deadlock is checked there is always a step, because `initproc`
can run; whether the threads of the process are stuck is what the detector runs
ask.

For the pipe, a ring of two bytes is the least with a state between empty and
full; writes and reads of three bytes cross it, so each is switched out in the
middle, and `MaxAsked` 4 lets two writers be under way at once and the indices go
round the ring twice. Buffers of length 0 are included. Two descriptors of an end
(`MaxFd`) tell the last close from an earlier one. Deadlock is not checked there:
when both processes have exited, nothing more happens.

For the block cache, three blocks over two entries is the least that evicts, with
a choice of victim, and two handles pin both entries. In the code at most three
handles are nested (inode, second index block, first index block) over sixteen
entries. For the file system, blocks of two words and one direct block let a file
of eleven words fill the indirect region and reach the second index block of the
doubly indirect one; the two device sizes give two and three blocks of data
bitmap. The second file stays small (`SmallSize`), and the two
buffers have one slice and two. Three pids and four kernel stacks with a budget
of three creations or kills reach a grandchild that outlives its parent, reuse of
every kind of id, and a process with a second thread that is killed; a budget of
four passed all invariants once, with ten million states. Forty frames are more
than these can use. `processes` does not check for deadlock: the machine stops
when `initproc` exits, and nothing runs when every thread is blocked.

Fairness. `Dispatch` is weakly fair because `run_tasks` is an endless loop;
`Tick` because time passes; resumptions inside the kernel because a kernel span
runs to its end. The timer interrupt is strongly fair: `set_next_trigger` leaves
one to come, a pending one is taken by the first task to enter user mode, but
the task it meets changes. In `Pipe` a thread in the kernel goes on
(weak), and one suspended in a pipe is switched in again (strong, because others
take the CPU in between); it is in the ready queue, for which `sync_live` checks
`ReadyRuns`. In `Processes` the loop of `run_tasks` and the way out of the
kernel are weakly fair, and the timer interrupt (`Yield`) is strongly fair, as in
`Sync`. `KilledDies` is about a main thread that was preempted or yielded. A
thread that has never run starts in user mode without a look at signals, and one
that waits in a pipe or is blocked looks only when its wait ends, which nothing
guarantees. No system call is fair: nothing obliges a program to
make one. `MutexWaiterServed` therefore assumes that the mutex keeps being
unlocked.

Findings. Three violations are disagreements between the detector and its
description in `src/reports/lab5.md`: `sys_mutex_lock` examines one mutex only
(and, with a second thread that needs nothing, admits even the lock of a mutex
the caller holds; `MutexDeadlockRefused` leaves that out and asks for threads
that wait for one another);
a refused request keeps its need; a `down()` that waited is never entered as
allocated. The fourth is in `sys_waitpid`: "confirm that child will be
deallocated after being removed from children list" fails when a thread of the
child was switched out in `sys_semaphore_down`, `sys_condvar_wait`, `sys_read` or
`sys_write`, which keep an `Arc` of the process on the kernel stack, while the
main thread exited. `sys_mutex_lock` drops it before it waits. For the same
reason a thread that is blocked at that moment, or was woken but has not run
since, keeps its TCB and kernel stack for ever, whatever it waited for: the `Arc`
is on its own stack, and it is not switched in again.
`KernelStacksReclaimed` has that exception and shows that there is no other.

## Proofs

The theorems about `Sync` hold for every finite set of threads, every set of
objects and every bound, under `ThreadAssumption`, `ObjectAssumption` and `BoundAssumption`; those about `Pipe`
for every ring size, all sets of processes and threads and all data, under
`PipeAssumption`; those about `BlockCache` for every set of blocks and values,
every cache size and every nesting up to it, under `CacheAssumption`; those about
`DeadlockDetect` for every number of threads, all sets of objects and every width
of the tables above two counts for each thread, under `TidAssumption`, `TableAssumption` and
`DisciplineAssumption` (programs unlock what they hold); those about `Processes`
for every number of pids, kernel stacks and programs, every width of a page table
and every place of the trampoline, under `ProcessesAssumption`. The bounds of the runs are constants like the others, so
the theorems hold however large they are.

| theorem | states | argument |
| --- | --- | --- |
| `TypeCorrect` | `Spec => []TypeOK` | `TypeOK` is inductive once it says which kind of mutex each kernel frame refers to (`FrameOK`) |
| `SemaphoreAgreement` | `Spec => []SemaphoreCountsWaiters` | inductive with `TypeOK` |
| `TasksKeepTheirPlace` | `NoTaskLost`, `NoTaskTwice`, `ExitedNeverScheduled` | `PlaceInv`: each task is in exactly one place that fits its status, and an exited thread is in a wait queue only if its whole process is dead. Without that conjunct a wake-up could schedule an exited thread. All moves between places have one shape, `Moves(K, Y, B)`, treated once in `MovesKeep` |
| `SleepersSleep` | `Spec => NoEarlyWake` | action property, from `PlaceInv` |
| `MutexesExclude` | `MutualExclusion`, `WaitersHaveOwner`, `NoPanic` | assumes `Disciplined`. `LockInv`: a mutex is locked if and only if exactly one thread owns it, and those in its queue are inside `lock()`. Owning includes having been handed the mutex without having run yet |
| `MutexRefinement` | `Spec => ImplementsMutexes` | assumes `Disciplined`. Each step is an `Acquire`, a `Release` or a stutter |
| `PipeIsFifo`, `BatchesFit` | `ImplementsFifo`, `BatchFits` | `PipeInv`. Its core `RingOK` says that the slots from `head` on hold the bytes sent and not received, that `tail` is that many slots further round, and that `status` tells zero from N, which head = tail alone does not. The bounds of the inner loops hold because only the running thread is inside one (`CpuOK`) |
| `EndOfFileIsFinal` | `EofIsFinal` | a closed write end stays closed: `dup` and `fork` only copy descriptors that exist, and a thread inside `write` counts |
| `ShortReadsAtEof` | `ShortReads` | action property, from `PipeInv` |
| `CacheStaysCoherent` | `Spec => []CacheCoherent` | `CacheInv` adds that a handle for writing is on an entry marked modified (`HandlesOK`), that the entries `block_cache_sync_all` has passed are clean (`SyncOK`), and that cache and device hold recent values only (`RecentOK`). Coherence alone is not inductive: a write through a handle on a clean entry would break it |
| `CacheNeverRunsOut` | `Spec => []NeverRunsOut` | by counting: a full queue of distinct blocks with fewer handles than entries has an entry nobody holds, and the first such is the victim |
| `CacheIsDisk` | `Spec => ImplementsDisk` | loading, evicting and writing back leave the contents alone; a store is a `Put`, the end of `block_cache_sync_all` a `Sync`, a crash picks a recent value for each block |
| `PipeTypes`, `CacheTypes` | `TypeOK` of `Pipe` and of `BlockCache` | conjuncts of `PipeInv` and `CacheInv` |
| `DetectorRefinesSync` | `DetSpec => Spec` | each call with its tables is a step of `Sync` or leaves its variables alone, so all theorems about `Sync` hold behind the tables |
| `DetTypes` | `DetSpec => []DetTypeOK` | every update of an entry is taken modulo `UsizeMod`; tids from `TidsOK`: the next new tid is at most the number of the thread that gets it |
| `MutexTablesCount` | `DetSpec => []MutexTablesCountClaims` | `ClaimsOK` and `TidsOK`, with the invariants of `Sync`. A row counts the claims of all threads that have or had its tid, so what an exited thread left locked stays in the row of the next. The property is not inductive. A new thread brings no claims to the row it gets, because one not yet created holds nothing and is in no call (`UnbornIdle`); that every tid has a row needs that tids are those of created threads (`TidsOK`). A sum of claims, at most two for each thread, fits a `usize` (`RowFits`), so no row wraps. A thread let wait for a mutex it holds would be counted once too few if `lock()` ever returned to it; `SelfWaits` says that it stays in the queue, because only it could unlock. A mutex not yet created has no claims |
| `SemaphoreTablesKeep` | `DetSpec => []SemaphoreTablesConserve` | `PermitsOK`: adds that nothing has happened to a semaphore not yet created. One entry of a row changes at a time, and the sum over the threads by as much (`SumOver` is a recursive function, unfolded by a well-founded argument on the least thread where two sums differ) |
| `LoneThreadRuns` | `DetSpec => []LoneThreadNotStuck` | assumes `InheritDetect`, that 0 is not among `EnableArgs`, and `MaxNeed < UsizeMod - 1`: the detection is on from birth and never switched off, and no row of needs wraps, for which one thread would have to be refused 2^64 - 1 times. `LoneOK`: the only thread is in `lock()` at most after a `Condvar::wait` nobody has woken it from; the threads not yet created hold nothing (`UnbornIdle`), and its own claim is all that is missing from what is available |
| `ProcInvHolds` | `Spec => []ProcInv` | the inductive invariant of `Processes`: what is handed out by the id allocators is what control blocks use (`IdsOK`), each entry of `tasks` is a thread of that process at the place of its tid (`TasksOK`, `ProcsOK`), the queues hold living threads (`SchedOK`), `PID2PCB` the processes that have not exited (`PidsOK`), and parent and children lists mirror one another (`FamilyOK`) |
| `SchedulableThreadsLiveHolds`, `KernelStacksReclaimedHolds`, `FamilyTreeHolds` | the property named | from `ProcInv`. None is inductive alone: that the exit of the main thread leaves nobody to be scheduled needs that every living thread is in its `tasks`, and that re-parenting keeps one parent each needs that no pid is in two lists |
| `MemInvHolds` | `Spec => []MemInv` | the inductive invariant of the memory, on top of `ProcInv`. Every address space is well formed and has no frame twice (`SpaceOK`), every page of an area has its frame (`Complete`), the frames of the address spaces are disjoint and together those the allocator has handed out (`MemOK`), and only the kernel and the processes in the table have an address space (`Spaces`), so that a new pid finds its place empty. Inside an operation some frames are on their way: `MemOK(m, X)` says so for a set X, and `Exchange` treats once the step in which one address space takes frames from X or leaves them there. The loops over pages, areas and threads are recursive functions; each is shown to exist and to keep the invariant at every index by the least index where it would fail |
| `FramesOwnedOnceHolds` | `Spec => []FramesOwnedOnce` | from `MemInv`: an owner is determined by its frame, so there are as many owners as frames handed out. That a page is freed once needs `Complete`, and that `exec` leaks nothing needs that its old address space is dropped while the new one is a separate one (`MoveSpace`). The model's allocator goes on past `MEMORY_END`, where the kernel panics, so the theorem covers every behaviour up to that panic |

Only model-checked. Liveness (`ReadyRuns`, `SleeperRuns`, `MutexWaiterServed`,
`ReadersReturn`, `KilledDies`), which the prover does not reach. Of
`Processes`, `ProcTypeOK`, which includes that the frames of the instance
suffice, and `SpacesMapped`: it holds while user stacks and trap contexts, which
grow towards each other in an address space, do not meet, and that is a matter of
the bounds. `MemInv` therefore says nothing of page table entries. All of
`FileSystem`: its loops over blocks are written with an operator for the body
(`For`), and what such a loop computes needs induction over data with an operator
as a parameter, which is beyond the prover. The tables of the
detector do not say what its description promises, which the three violations
show; the theorems state what they do record.

## Not modelled

Register and stack contents, device drivers, firmware calls, console, logging,
boot code, the image builder and the external heap allocator: their correctness
is not one of states and steps. The identically mapped areas of the kernel,
page permissions and the copying of system call arguments from user space. The
calls that are stubs returning -1.

Left out of modelled parts:

* A full disk. The data bitmap has bits beyond the data area, so `alloc_data`
  then returns a block that does not exist; with no bit left it panics. The guard
  `HasRoom` keeps `FileSystem` below that.
* A crash inside a file system operation. `BlockCache` has it and says what each
  block may then hold; `easy-fs` has no journal, so nothing holds for the files.
* Running out of frames, which every caller turns into a panic.
* Deadlines in machine words, and the detector's tables after `fork` copied used
  ones. The hazards in `PROJECT.json` say why.
