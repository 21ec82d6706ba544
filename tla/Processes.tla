------------------------------ MODULE Processes ------------------------------
(***************************************************************************)
(* The life of processes and threads and of what they own: ids, kernel       *)
(* stacks, user stacks, trap contexts, address spaces.  os/src/task,         *)
(* syscall/process.rs, syscall/thread.rs and trap/mod.rs over mm.            *)
(*                                                                         *)
(* A process is its pid and a thread the id of its kernel stack, both given  *)
(* back only when the control block is dropped.  The Arc counts are those    *)
(* of the code: a PCB is held by children lists, PID2PCB, INITPROC and by    *)
(* the kernel stacks of threads switched out in a system call that keeps an  *)
(* Arc (held); a TCB by tasks, the ready queue, the processor, stop_task and *)
(* by its own kernel stack from block_current_and_run_next, which keeps the  *)
(* Arc it took, until the thread runs again (not just until it is woken).    *)
(*                                                                         *)
(* Kernel code is not interrupted, so a system call is one step, up to a     *)
(* switch.  The wait queues are those of Sync and Pipe; here a waiter is     *)
(* woken when a thread that could do it runs.                              *)
(***************************************************************************)
EXTENDS MemorySet

CONSTANTS
  Elf,         \* sizes of programs, in pages
  InitElf,     \* that of ch8b_initproc
  MaxPid,      \* bound: processes at a time
  MaxThread,   \* bound: kernel stacks at a time
  Budget       \* bound: forks, execs, new threads and kills after boot

ASSUME ProcessesAssumption ==
  /\ {MaxPid, MaxThread, TABLE_SZ, TRAMPOLINE} \subseteq Nat \ {0}
  /\ Elf \cup {InitElf} \subseteq Nat \ {0}

VARIABLES
  mm,                \* see MemorySet
  pid_allocator, kstack_allocator,
  pcb,               \* pid -> ProcessControlBlock
  tcb,               \* kernel stack -> TaskControlBlock
  PID2PCB,           \* the pids in it
  ready_queue, stop_task, current,
  mode,              \* "idle", or what current does: "user", "pipe", "return"
  halted,            \* "no", "off" (initproc exited), "panic"
  budget

vars == <<mm, pid_allocator, kstack_allocator, pcb, tcb, PID2PCB,
          ready_queue, stop_task, current, mode, halted, budget>>

None == -1
Kernel == -1         \* KERNEL_SPACE
Fresh == -2          \* a MemorySet being built by exec
INITPROC == 0
IDLE_PID == 0

USER_STACK_SIZE == 1
KERNEL_STACK_SIZE == 1
TRAP_CONTEXT_BASE == TRAMPOLINE - 1

-----------------------------------------------------------------------------
\* id.rs

NewAllocator == [current |-> 0, recycled |-> <<>>]

NextId(a) == IF a.recycled # <<>> THEN Last(a.recycled) ELSE a.current

alloc(a) == IF a.recycled # <<>> THEN [a EXCEPT !.recycled = Front(@)]
            ELSE [a EXCEPT !.current = @ + 1]

dealloc(a, id) == [a EXCEPT !.recycled = Append(@, id)]

\* The ids handed out and not given back.
InUse(a) == (0..(a.current - 1)) \ Range(a.recycled)

kernel_stack_bottom(id) ==
  TRAMPOLINE - id * (KERNEL_STACK_SIZE + 1) - KERNEL_STACK_SIZE

kstack_alloc(m, id) ==
  insert_framed_area(m, Kernel, kernel_stack_bottom(id),
                     kernel_stack_bottom(id) + KERNEL_STACK_SIZE)

\* The drop of a KernelStack.
kstack_drop(m, id) == remove_area_with_start_vpn(m, Kernel, kernel_stack_bottom(id))

trap_cx_bottom_from_tid(tid) == TRAP_CONTEXT_BASE - tid

ustack_bottom_from_tid(ustack_base, tid) ==
  ustack_base + tid * (1 + USER_STACK_SIZE)

alloc_user_res(m, p, ustack_base, tid) ==
  LET bottom == ustack_bottom_from_tid(ustack_base, tid)
      trap_cx == trap_cx_bottom_from_tid(tid)
  IN  insert_framed_area(insert_framed_area(m, p, bottom, bottom + USER_STACK_SIZE),
                         p, trap_cx, trap_cx + 1)

dealloc_user_res(m, p, ustack_base, tid) ==
  remove_area_with_start_vpn(
    remove_area_with_start_vpn(m, p, ustack_bottom_from_tid(ustack_base, tid)),
    p, trap_cx_bottom_from_tid(tid))

trap_cx_ppn(m, p, tid) == translate(m, p, trap_cx_bottom_from_tid(tid))

\* trap_cx.kernel_sp = kstack.get_top()
SetKernelSp(m, ppn, t) == [m EXCEPT !.mem[ppn] = t + 1]

-----------------------------------------------------------------------------
\* task.rs, process.rs

\* TaskControlBlock::new, its kernel stack set to start at trap_return.
NewTask(p, tid, ustack_base, ppn) ==
  [process |-> p, tid |-> tid, res |-> TRUE, ustack_base |-> ustack_base,
   trap_cx_ppn |-> ppn, at |-> "start"]

NewProcess(parent, t) ==
  [is_zombie |-> FALSE, parent |-> parent, children |-> <<>>, killed |-> FALSE,
   tasks |-> <<t>>, task_res_allocator |-> alloc(NewAllocator), held |-> 0]

Init ==
  LET boot == [fa |-> NewAllocator, mem |-> [f \in 0..(MEMORY_END - 1) |-> 0],
               space |-> [o \in {Kernel, Fresh} \cup 0..(MaxPid - 1) |-> Absent]]
      m1 == map_trampoline(new_bare(boot, Kernel), Kernel)
      m2 == from_elf(m1, INITPROC, InitElf)
      m3 == kstack_alloc(alloc_user_res(m2, INITPROC, user_stack_base(InitElf), 0), 0)
      ppn == trap_cx_ppn(m3, INITPROC, 0)
  IN  /\ mm = SetKernelSp(m3, ppn, 0)
      /\ pid_allocator = alloc(NewAllocator)
      /\ kstack_allocator = alloc(NewAllocator)
      /\ pcb = [p \in {INITPROC} |-> NewProcess(None, 0)]
      /\ tcb = [t \in {0} |-> NewTask(INITPROC, 0, user_stack_base(InitElf), ppn)]
      /\ PID2PCB = {INITPROC}
      /\ ready_queue = <<0>>
      /\ stop_task = None /\ current = None
      /\ mode = "idle" /\ halted = "no"
      /\ budget = Budget

\* The process and the control block of the running thread.
Self == tcb[current]
Pid == Self.process
Process == pcb[Pid]

InSyscall == halted = "no" /\ mode = "user"

\* A new process or thread has an id and a kernel stack within the bounds.
MayCreate ==
  /\ budget > 0 /\ budget' = budget - 1
  /\ NextId(kstack_allocator) < MaxThread

-----------------------------------------------------------------------------
\* The processor: processor.rs, manager.rs, and the switches of task/mod.rs.

\* The waits that keep an Arc of the process on the kernel stack:
\* sys_semaphore_down and sys_condvar_wait ("sem"), sys_read and sys_write
\* of a pipe or of standard input ("pipe").
KeepsArc(at) == at \in {"sem", "pipe"}

\* sys_mutex_lock drops its Arc, sys_sleep has none.
BlockingWaits == {"mutex", "sleep", "sem"}

\* TaskManager::add
add(queue, t) == Append(queue, t)

\* A mutant: after an interrupt there is no check of signals.
MutantResumedUnchecked(at) ==
  IF at \in {"start", "yield"} THEN "user" ELSE IF at = "pipe" THEN "pipe" ELSE "return"

\* A new thread starts at trap_return; the others go on where they were
\* switched out, in the loop of a pipe or towards the end of trap_handler.
Resumed(at) ==
  IF at = "start" THEN "user" ELSE IF at = "pipe" THEN "pipe" ELSE "return"

\* run_tasks
RunTasks ==
  /\ halted = "no" /\ current = None /\ ready_queue # <<>>
  /\ LET t == Head(ready_queue) IN
     /\ current' = t
     /\ ready_queue' = Tail(ready_queue)
     /\ mode' = Resumed(tcb[t].at)
     /\ tcb' = [tcb EXCEPT ![t].at = IF @ = "pipe" THEN @ ELSE "user"]
     /\ pcb' = [pcb EXCEPT ![tcb[t].process].held =
                             IF tcb[t].at = "sem" THEN @ - 1 ELSE @]
  /\ UNCHANGED <<mm, pid_allocator, kstack_allocator, PID2PCB, stop_task, halted, budget>>

\* suspend_current_and_run_next, or the part of block_current_and_run_next
\* that leaves the processor, at the place given.
Switch(at) ==
  /\ tcb' = [tcb EXCEPT ![current].at = at]
  /\ ready_queue' = IF at \in BlockingWaits THEN ready_queue
                    ELSE add(ready_queue, current)
  /\ current' = None /\ mode' = "idle"
  /\ UNCHANGED <<mm, pid_allocator, kstack_allocator, PID2PCB, stop_task, halted, budget>>

\* sys_yield, and the timer interrupt.
Yield ==
  /\ InSyscall
  /\ Switch("yield")
  /\ UNCHANGED pcb

\* A system call that has to wait.
Wait(at) ==
  /\ InSyscall
  /\ Switch(at)
  /\ pcb' = [pcb EXCEPT ![Pid].held = IF KeepsArc(at) THEN @ + 1 ELSE @]

\* The loop of a pipe's read or write: there is still nothing to do, ...
PipeAgain ==
  /\ halted = "no" /\ mode = "pipe"
  /\ Switch("pipe")
  /\ UNCHANGED pcb

\* ... or the call returns.
PipeDone ==
  /\ halted = "no" /\ mode = "pipe"
  /\ mode' = "return"
  /\ tcb' = [tcb EXCEPT ![current].at = "user"]
  /\ pcb' = [pcb EXCEPT ![Pid].held = @ - 1]
  /\ UNCHANGED <<mm, pid_allocator, kstack_allocator, PID2PCB, ready_queue,
                 stop_task, current, halted, budget>>

\* block_current_and_run_next has switched t out, and nobody has woken it.
Blocked(t) == /\ tcb[t].at \in BlockingWaits
              /\ t # current /\ t \notin Range(ready_queue)

\* wakeup_task: by an unlock, up or signal of a thread of the same process,
\* whose lists of these are its own, or by check_timer in any thread.
\* remove_timer has taken the timers of an exited process away.
WakeUp(t) ==
  /\ InSyscall
  /\ Blocked(t)
  /\ IF tcb[t].at = "sleep" THEN tcb[t].res ELSE tcb[t].process = Pid
  /\ ready_queue' = add(ready_queue, t)
  /\ mode' = "return"
  /\ UNCHANGED <<mm, pid_allocator, kstack_allocator, pcb, tcb, PID2PCB,
                 stop_task, current, halted, budget>>

-----------------------------------------------------------------------------
\* System calls.  Each ends at the check of signals in trap_handler.

\* sys_fork, which panics unless tasks has one entry.
Fork ==
  LET child == NextId(pid_allocator)
      t == NextId(kstack_allocator)
      base == tcb[Process.tasks[1]].ustack_base
      m1 == kstack_alloc(from_existed_user(mm, child, Pid), t)
      ppn == trap_cx_ppn(m1, child, 0)
  IN  /\ InSyscall /\ Len(Process.tasks) = 1
      /\ MayCreate /\ child < MaxPid
      /\ mm' = SetKernelSp(m1, ppn, t)
      /\ pid_allocator' = alloc(pid_allocator)
      /\ kstack_allocator' = alloc(kstack_allocator)
      /\ pcb' = With([pcb EXCEPT ![Pid].children = Append(@, child)], child, NewProcess(Pid, t))
      /\ tcb' = With(tcb, t, NewTask(child, 0, base, ppn))
      /\ PID2PCB' = PID2PCB \cup {child}
      /\ ready_queue' = add(ready_queue, t)
      /\ mode' = "return"
      /\ UNCHANGED <<stop_task, current, halted>>

\* sys_exec of a program that is found, which panics unless tasks has one
\* entry.  The old address space goes when the new one takes its place.
Exec(pages) ==
  LET t == Process.tasks[1]
      m1 == from_elf(mm, Fresh, pages)
      m2 == [DropMemorySet(m1, Pid) EXCEPT !.space[Pid] = m1.space[Fresh],
                                           !.space[Fresh] = Absent]
      m3 == alloc_user_res(m2, Pid, user_stack_base(pages), tcb[t].tid)
      ppn == trap_cx_ppn(m3, Pid, tcb[t].tid)
  IN  /\ InSyscall /\ Len(Process.tasks) = 1
      /\ budget > 0 /\ budget' = budget - 1
      /\ mm' = SetKernelSp(m3, ppn, t)
      /\ tcb' = [tcb EXCEPT ![t].ustack_base = user_stack_base(pages),
                            ![t].trap_cx_ppn = ppn]
      /\ mode' = "return"
      /\ UNCHANGED <<pid_allocator, kstack_allocator, pcb, PID2PCB, ready_queue,
                     stop_task, current, halted>>

\* A TCB that is dropped gives its kernel stack back; t may be None.
DropTask(m, t) == IF t = None THEN m ELSE kstack_drop(m, t)

DropTasks(m, ts) ==
  LET Dropped[i \in 0..Len(ts)] ==
        IF i = 0 THEN m ELSE kstack_drop(Dropped[i - 1], ts[i])
  IN  Dropped[Len(ts)]

\* A mutant: the id is not given back.
MutantFreeTaskKeeps(a, t) == a

FreeTask(a, t) == IF t = None THEN a ELSE dealloc(a, t)

\* A mutant: another Arc keeps the TCB.
MutantWithoutTaskKeeps(f, t) == f

WithoutTask(f, t) == [u \in DOMAIN f \ {t} |-> f[u]]

\* sys_thread_create.  The entry of the thread that had the tid before, when
\* it exited and nobody waited for it, is overwritten and its TCB dropped.
ThreadCreate ==
  LET tid == NextId(Process.task_res_allocator)
      t == NextId(kstack_allocator)
      m1 == alloc_user_res(mm, Pid, Self.ustack_base, tid)
      ppn == trap_cx_ppn(m1, Pid, tid)
      m2 == SetKernelSp(kstack_alloc(m1, t), ppn, t)
      len == Max({Len(Process.tasks), tid + 1})
      old == IF tid < Len(Process.tasks) THEN Process.tasks[tid + 1] ELSE None
  IN  /\ InSyscall /\ MayCreate
      /\ mm' = DropTask(m2, old)
      /\ kstack_allocator' = FreeTask(alloc(kstack_allocator), old)
      /\ tcb' = With(WithoutTask(tcb, old), t, NewTask(Pid, tid, Self.ustack_base, ppn))
      /\ pcb' = [pcb EXCEPT
                   ![Pid].task_res_allocator = alloc(@),
                   ![Pid].tasks = [i \in 1..len |->
                      IF i = tid + 1 THEN t
                      ELSE IF i \in DOMAIN @ THEN @[i] ELSE None]]
      /\ ready_queue' = add(ready_queue, t)
      /\ mode' = "return"
      /\ UNCHANGED <<pid_allocator, PID2PCB, stop_task, current, halted>>

\* sys_waittid of an exited thread; the other answers change nothing, and a
\* tid past the end of tasks panics.
Waittid(tid) ==
  /\ InSyscall
  /\ tid # Self.tid /\ tid < Len(Process.tasks)
  /\ LET t == Process.tasks[tid + 1] IN
     /\ t # None /\ tcb[t].at = "done"
     /\ mm' = kstack_drop(mm, t)
     /\ kstack_allocator' = dealloc(kstack_allocator, t)
     /\ tcb' = WithoutTask(tcb, t)
  /\ pcb' = [pcb EXCEPT ![Pid].tasks[tid + 1] = None]
  /\ mode' = "return"
  /\ UNCHANGED <<pid_allocator, PID2PCB, ready_queue, stop_task, current, halted, budget>>

\* Arc::strong_count.
strong_count(p) ==
  Cardinality(UNION {{<<q, i>> : i \in {j \in DOMAIN pcb[q].children :
                                          pcb[q].children[j] = p}} : q \in DOMAIN pcb})
  + (IF p \in PID2PCB THEN 1 ELSE 0) + (IF p = INITPROC THEN 1 ELSE 0) + pcb[p].held

\* The child that find takes: the first zombie with the pid, or with any.
IsFound(i, pid) ==
  LET Fits(c) == pcb[c].is_zombie /\ pid \in {None, c} IN
  /\ Fits(Process.children[i])
  /\ \A j \in 1..(i - 1) : ~Fits(Process.children[j])

\* sys_waitpid of a pid, or of None (-1) for any child, that finds a zombie.
\* The child is dropped unless the assertion fails; a Weak to it dangles.
Waitpid(pid) ==
  /\ InSyscall
  /\ \E i \in DOMAIN Process.children :
     LET child == Process.children[i]
         kept == [pcb EXCEPT ![Pid].children = RemoveAt(@, i)]
     IN  /\ IsFound(i, pid)
         /\ IF strong_count(child) = 1
            THEN /\ mm' = DropMemorySet(mm, child)
                 /\ pid_allocator' = dealloc(pid_allocator, child)
                 /\ pcb' = [p \in DOMAIN pcb \ {child} |-> kept[p]]
                 /\ tcb' = [t \in DOMAIN tcb |->
                              IF tcb[t].process = child
                              THEN [tcb[t] EXCEPT !.process = None] ELSE tcb[t]]
                 /\ mode' = "return" /\ halted' = halted
            ELSE /\ halted' = "panic" /\ pcb' = kept
                 /\ UNCHANGED <<mm, pid_allocator, tcb, mode>>
  /\ UNCHANGED <<kstack_allocator, PID2PCB, ready_queue, stop_task, current, budget>>

\* sys_kill with a signal that check_error acts on, or a fault of the running
\* thread, which raises one in its own process.
Kill(pid) ==
  /\ InSyscall
  /\ pid \in PID2PCB /\ ~pcb[pid].killed
  /\ budget > 0 /\ budget' = budget - 1
  /\ pcb' = [pcb EXCEPT ![pid].killed = TRUE]
  /\ mode' = "return"
  /\ UNCHANGED <<mm, pid_allocator, kstack_allocator, tcb, PID2PCB, ready_queue,
                 stop_task, current, halted>>

-----------------------------------------------------------------------------
\* exit_current_and_run_next

\* A thread other than the main one: res = None, and the TCB stays in tasks.
ExitThread ==
  /\ Self.tid # 0
  /\ mm' = dealloc_user_res(mm, Pid, Self.ustack_base, Self.tid)
  /\ tcb' = [tcb EXCEPT ![current].res = FALSE, ![current].at = "done"]
  /\ pcb' = [pcb EXCEPT ![Pid].task_res_allocator = dealloc(@, Self.tid)]
  /\ current' = None /\ mode' = "idle"
  /\ UNCHANGED <<pid_allocator, kstack_allocator, PID2PCB, ready_queue,
                 stop_task, halted, budget>>

\* The main thread of initproc: the machine stops.
ExitIdle ==
  /\ Self.tid = 0 /\ Pid = IDLE_PID
  /\ halted' = "off"
  /\ current' = None /\ mode' = "idle"
  /\ UNCHANGED <<mm, pid_allocator, kstack_allocator, pcb, tcb, PID2PCB, ready_queue,
                 stop_task, budget>>

\* The elements of s in S, in the order of s.
Filter(s, S) ==
  LET F[i \in 0..Len(s)] ==
        IF i = 0 THEN <<>>
        ELSE IF s[i] \in S THEN Append(F[i - 1], s[i]) ELSE F[i - 1]
  IN  F[Len(s)]

\* The threads of a process, in the order of tasks.
Threads(p) == Filter(pcb[p].tasks, DOMAIN tcb)

\* A mutant: the threads that are ready stay so.
Mutant_remove_inactive_none(p) == ready_queue

\* remove_inactive_task of each of them.
remove_inactive_tasks(p) ==
  Filter(ready_queue, DOMAIN tcb \ Range(Threads(p)))

\* The drop of the TaskUserRes of threads of p, in order.
DropRes(m, p, ts) ==
  LET Dropped[i \in 0..Len(ts)] ==
        IF i = 0 THEN m
        ELSE dealloc_user_res(Dropped[i - 1], p, tcb[ts[i]].ustack_base, tcb[ts[i]].tid)
  IN  Dropped[Len(ts)]

\* dealloc of ids in this order.
DeallocAll(a, ids) == [a EXCEPT !.recycled = @ \o ids]
Tids(ts) == [i \in DOMAIN ts |-> tcb[ts[i]].tid]

\* A mutant: the children keep their parent.
MutantReparentedOld(p) ==
  [pcb EXCEPT ![p].is_zombie = TRUE, ![p].children = <<>>, ![p].tasks = <<>>,
              ![INITPROC].children = @ \o pcb[p].children]

\* The children move to initproc.
Reparented(p) ==
  LET orphans == pcb[p].children IN
  [q \in DOMAIN pcb |->
     CASE q = p -> [pcb[p] EXCEPT !.is_zombie = TRUE, !.children = <<>>, !.tasks = <<>>]
       [] q = INITPROC -> [pcb[q] EXCEPT !.children = @ \o orphans]
       [] q \in Range(orphans) -> [pcb[q] EXCEPT !.parent = INITPROC]
       [] OTHER -> pcb[q]]

\* The main thread of another process: its res, the last stop_task, the res of
\* the other threads, the data pages.  Then tasks.clear() drops the TCBs, but
\* not the main thread's, in stop_task now, nor those switched out by
\* block_current_and_run_next, woken or not: their kernel stacks hold an Arc.
ExitMain ==
  LET p == Pid
      others == Filter(Threads(p), {t \in DOMAIN tcb \ {current} : tcb[t].res})
      m1 == DropTask(DropRes(mm, p, <<current>>), stop_task)
      m2 == recycle_data_pages(DropRes(m1, p, others), p)
      dropped == Filter(Threads(p), {t \in DOMAIN tcb \ {current} : tcb[t].at \notin BlockingWaits})
      gone == Range(dropped) \cup {stop_task}
  IN  /\ Self.tid = 0 /\ p # IDLE_PID
      /\ mm' = DropTasks(m2, dropped)
      /\ kstack_allocator' = DeallocAll(FreeTask(kstack_allocator, stop_task), dropped)
      /\ tcb' = [t \in DOMAIN tcb \ gone |->
                   IF t \in Range(Threads(p))
                   THEN [tcb[t] EXCEPT !.res = FALSE, !.at = IF t = current THEN "done" ELSE @]
                   ELSE tcb[t]]
      /\ PID2PCB' = PID2PCB \ {p}
      /\ pcb' = [Reparented(p) EXCEPT
                   ![p].task_res_allocator = DeallocAll(@, Tids(<<current>> \o others))]
      /\ ready_queue' = remove_inactive_tasks(p)
      /\ stop_task' = current
      /\ current' = None /\ mode' = "idle"
      /\ UNCHANGED <<pid_allocator, halted, budget>>

exit_current_and_run_next == ExitThread \/ ExitIdle \/ ExitMain

\* sys_exit
Exit == InSyscall /\ exit_current_and_run_next

\* check_signals_of_current, at the end of trap_handler.
Signalled == halted = "no" /\ mode = "return" /\ Process.killed /\ exit_current_and_run_next

TrapReturn ==
  /\ halted = "no" /\ mode = "return" /\ ~Process.killed
  /\ mode' = "user"
  /\ UNCHANGED <<mm, pid_allocator, kstack_allocator, pcb, tcb, PID2PCB, ready_queue,
                 stop_task, current, halted, budget>>

Next ==
  \/ RunTasks \/ Yield \/ PipeAgain \/ PipeDone
  \/ \E at \in BlockingWaits \cup {"pipe"} : Wait(at)
  \/ \E t \in DOMAIN tcb : WakeUp(t)
  \/ Fork \/ ThreadCreate
  \/ \E pages \in Elf : Exec(pages)
  \/ \E tid \in 0..(MaxThread - 1) : Waittid(tid)
  \/ \E pid \in {None} \cup 0..(MaxPid - 1) : Waitpid(pid)
  \/ \E pid \in 0..(MaxPid - 1) : Kill(pid)
  \/ Exit \/ Signalled \/ TrapReturn

\* The kernel itself does not stop, and the timer interrupt, pending until
\* user code runs again, takes the processor from every thread in the end.
LeaveKernel == mode \in {"pipe", "return"} /\ mode' \in {"idle", "return", "user"} \ {mode}

Spec == /\ Init /\ [][Next]_vars
        /\ WF_vars(RunTasks) /\ WF_mode(LeaveKernel) /\ SF_vars(Yield)

-----------------------------------------------------------------------------
\* Type invariant of pcb, tcb and the scheduler's variables.  That the frames
\* suffice is the assumption "it won't oom" of page_table.rs.
ProcTypeOK ==
  /\ DOMAIN pcb = InUse(pid_allocator) /\ PID2PCB \subseteq DOMAIN pcb
  /\ DOMAIN tcb = InUse(kstack_allocator)
  /\ mm.fa.current <= MEMORY_END
  /\ {current, stop_task} \subseteq DOMAIN tcb \cup {None}
  /\ Range(ready_queue) \subseteq DOMAIN tcb
  /\ current = None <=> mode = "idle"
  /\ \A p \in DOMAIN pcb : pcb[p].held \in Nat
  /\ \A t \in DOMAIN tcb :
       /\ tcb[t].process \in DOMAIN pcb \cup {None}
       /\ tcb[t].at \in BlockingWaits \cup {"start", "yield", "pipe", "user", "done"}

\* What refers to a frame as its own, with the frame: the page tables and the
\* areas of the address spaces, and the free list.
FrameOwners ==
  (UNION {LET sp == mm.space[o] IN
          {<<"table", o, i, 0, sp.tables[i].ppn>> : i \in DOMAIN sp.tables}
          \cup UNION {{<<"area", o, i, v, sp.areas[i].data_frames[v]>> :
                         v \in DOMAIN sp.areas[i].data_frames} : i \in DOMAIN sp.areas} :
          o \in DOMAIN mm.space})
  \cup {<<"free", 0, i, 0, mm.fa.recycled[i]>> : i \in DOMAIN mm.fa.recycled}

\* Every frame FRAME_ALLOCATOR ever handed out is free or has an owner, and
\* only one: no frame is leaked, freed twice (the panic of dealloc) or shared
\* by two address spaces, whatever forks, execs, exits and waits came before.
FramesOwnedOnce ==
  /\ {w[5] : w \in FrameOwners} = 0..(mm.fa.current - 1)
  /\ Cardinality(FrameOwners) = mm.fa.current

\* The address spaces in use: those of the kernel and of running processes.
LiveSpaces == {Kernel} \cup {p \in DOMAIN pcb : ~pcb[p].is_zombie}

\* In an address space in use the valid entries of the page table are those of
\* the areas and the trampoline: map never meets a valid entry, unmap always
\* does, and no entry leads to a frame that has been given away.  The threads
\* of a process have their user stack there, and a trap context that
\* trap_cx_ppn finds and that leads back to their own kernel stack, after
\* fork copied another one there and after exec replaced the address space.
SpacesMapped ==
  /\ \A o \in LiveSpaces :
       LET sp == mm.space[o]
           pages == {<<TRAMPOLINE, strampoline>>}
                    \cup {<<w[4], w[5]>> : w \in {x \in FrameOwners : x[1] = "area" /\ x[2] = o}}
       IN  /\ {<<v, sp.pte[v]>> : v \in DOMAIN sp.pte} = pages
           /\ Cardinality(DOMAIN sp.pte) = Cardinality(pages)
  /\ \A t \in DOMAIN tcb :
       /\ kernel_stack_bottom(t) \in DOMAIN mm.space[Kernel].pte
       /\ tcb[t].res =>
            LET p == tcb[t].process
                pte == mm.space[p].pte
            IN  /\ ustack_bottom_from_tid(tcb[t].ustack_base, tcb[t].tid) \in DOMAIN pte
                /\ trap_cx_bottom_from_tid(tcb[t].tid) \in DOMAIN pte
                /\ trap_cx_ppn(mm, p, tcb[t].tid) = tcb[t].trap_cx_ppn
                /\ mm.mem[tcb[t].trap_cx_ppn] = t + 1

\* A thread that runs, is ready or can still be woken belongs to a process that
\* has not exited, at the place in tasks of its tid, which no other thread has:
\* when the main thread exits none of the others is left to be scheduled.
SchedulableThreadsLive ==
  /\ IsInjective(ready_queue) /\ current \notin Range(ready_queue)
  /\ \A t \in Range(ready_queue) \cup ({current} \ {None}) \cup {u \in DOMAIN tcb : tcb[u].res} :
       /\ t \in DOMAIN tcb
       /\ tcb[t].res /\ tcb[t].process \in PID2PCB
       /\ LET p == pcb[tcb[t].process] IN
          /\ ~p.is_zombie
          /\ tcb[t].tid \in InUse(p.task_res_allocator)
          /\ p.tasks[tcb[t].tid + 1] = t

\* Every process but initproc is in the children list of one other process,
\* once, and that is its parent and has not exited; it is in PID2PCB exactly
\* until it exits.  So a zombie is held by that list alone and waitpid frees
\* it, but for threads switched out in a call that kept an Arc.
FamilyTree ==
  halted # "panic" => \A p \in DOMAIN pcb :
    /\ p \in PID2PCB <=> ~pcb[p].is_zombie
    /\ p = INITPROC => ~pcb[p].is_zombie
    /\ p # INITPROC =>
         /\ pcb[p].parent \in DOMAIN pcb /\ ~pcb[pcb[p].parent].is_zombie
         /\ {q \in DOMAIN pcb : p \in Range(pcb[q].children)} = {pcb[p].parent}
         /\ strong_count(p) = (IF pcb[p].is_zombie THEN 1 ELSE 2) + pcb[p].held

\* A TCB and its kernel stack outlive the thread only in tasks, until waittid
\* or a thread with its tid comes, as the last stop_task, or because when its
\* process exited it had left the processor in block_current_and_run_next and
\* had not run again, woken or not.
KernelStacksReclaimed ==
  \A t \in DOMAIN tcb :
    \/ \E p \in DOMAIN pcb : t \in Range(pcb[p].tasks)
    \/ t = stop_task
    \/ tcb[t].at \in BlockingWaits /\ ~tcb[t].res

\* A signal reaches a process whose main thread was preempted or yielded: it
\* exits when that thread runs again.  (A thread that waits in a pipe or has
\* never run does not look at signals, see the README.)
KilledDies ==
  \A p \in 0..(MaxPid - 1) :
    (/\ p \in PID2PCB /\ pcb[p].killed
     /\ tcb[pcb[p].tasks[1]].at = "yield") ~> (p \notin PID2PCB \/ halted # "no")

\* The assertion of sys_waitpid, "confirm that child will be deallocated after
\* being removed from children list".
WaitpidDeallocates == halted # "panic"
=============================================================================
