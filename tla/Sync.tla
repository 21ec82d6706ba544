------------------------------- MODULE Sync --------------------------------
(***************************************************************************)
(* Mutexes, semaphores, condition variables and sleeping: os/src/sync/*.rs, *)
(* os/src/timer.rs and the timer branch of os/src/trap/mod.rs, on top of    *)
(* the scheduler.                                                          *)
(*                                                                         *)
(* A thread in user mode (kpc = "user") calls what it likes.  A thread that *)
(* was switched out inside the kernel continues, once it is switched in     *)
(* again, where its kernel stack says:                                     *)
(*   "spin"    in the loop of MutexSpin::lock                              *)
(*   "granted" after block_current_and_run_next in MutexBlocking::lock     *)
(*   "relock"  after block_current_and_run_next in Condvar::wait           *)
(* A fatal signal or fault ends a trap in exit_current_and_run_next; that   *)
(* is the same as the exit the thread may choose after its system call.    *)
(***************************************************************************)
EXTENDS Scheduler

CONSTANTS BlockingMutex, SpinMutex, Semaphore, Condvar,
          NoMutex,
          ResCounts,    \* the arguments of sys_semaphore_create
          Durations,    \* the arguments of sys_sleep
          MaxCount,     \* bound: no sys_semaphore_up at this count
          MaxTime,      \* bound: the clock stops here, no later deadline is set
          Disciplined   \* do user programs unlock only mutexes they hold?

Mutex  == BlockingMutex \cup SpinMutex
Queued == BlockingMutex \cup Semaphore \cup Condvar

ASSUME ObjectAssumption ==
  /\ BlockingMutex \cap SpinMutex = {}
  /\ BlockingMutex \cap (Semaphore \cup Condvar) = {}
  /\ Semaphore \cap Condvar = {}
  /\ NoMutex \notin Mutex

ASSUME BoundAssumption ==
  /\ ResCounts \subseteq Nat
  /\ Durations \subseteq Nat
  /\ MaxCount \in Nat
  /\ MaxTime \in Nat
  /\ Disciplined \in BOOLEAN

VARIABLES locked,      \* MutexSpin::locked, MutexBlockingInner::locked
          count,       \* SemaphoreInner::count
          wait_queue,  \* the wait_queue of a mutex, semaphore or condvar
          timers,      \* TIMERS
          now,         \* get_time_ms()
          kpc,         \* where the kernel stack of a task resumes
          kmutex,      \* the mutex that code refers to
          held,        \* history: the mutexes lock() has returned to the task
          panicked     \* an assertion of the kernel has failed

objVars == <<locked, count, wait_queue>>
timeVars == <<timers, now>>
stackVars == <<kpc, kmutex>>
vars == <<schedVars, objVars, timeVars, stackVars, held, panicked>>

(* The kernel frame of a task refers to a mutex of the kind its code is for. *)
FrameOK ==
  \A t \in Task : /\ kpc[t] = "user" => kmutex[t] = NoMutex
                  /\ kpc[t] = "spin" => kmutex[t] \in SpinMutex
                  /\ kpc[t] = "granted" => kmutex[t] \in BlockingMutex
                  /\ kpc[t] = "relock" => kmutex[t] \in Mutex

TypeOK ==
  /\ SchedTypeOK
  /\ FrameOK
  /\ locked \in [Mutex -> BOOLEAN]
  /\ count \in [Semaphore -> Int]
  /\ wait_queue \in [Queued -> Seq(Task)]
  /\ timers \in SUBSET [task : Task, expire : Nat] /\ IsFiniteSet(timers)
  /\ now \in Nat
  /\ kpc \in [Task -> {"user", "spin", "granted", "relock"}]
  /\ kmutex \in [Task -> Mutex \cup {NoMutex}]
  /\ held \in [Task -> SUBSET Mutex]
  /\ panicked \in BOOLEAN

Init ==
  /\ SchedInit
  /\ locked = [m \in Mutex |-> FALSE]
  /\ count \in [Semaphore -> ResCounts]
  /\ wait_queue = [o \in Queued |-> <<>>]
  /\ timers = {}
  /\ now = 0
  /\ kpc = [t \in Task |-> "user"]
  /\ kmutex = [t \in Task |-> NoMutex]
  /\ held = [t \in Task |-> {}]
  /\ panicked = FALSE

-----------------------------------------------------------------------------
InUser(t) == current = t /\ kpc[t] = "user"

(* VecDeque::pop_front: what comes out (nothing or one task), what remains.  *)
Popped(q) == IF q = <<>> THEN <<>> ELSE <<Head(q)>>
Rest(q)   == IF q = <<>> THEN <<>> ELSE Tail(q)

(* The kernel frame of t becomes pc, for the mutex m.                      *)
Frame(t, pc, m) ==
  /\ kpc' = [kpc EXCEPT ![t] = pc]
  /\ kmutex' = [kmutex EXCEPT ![t] = m]

(* lock() returns to t, which then holds m.                                *)
LockReturns(t, m) ==
  /\ Frame(t, "user", NoMutex)
  /\ held' = [held EXCEPT ![t] = @ \cup {m}]

(* MutexBlocking::lock and MutexSpin::lock called by the running thread t, *)
(* up to its return or its switch.                                         *)
LockFree(t, m) ==
  /\ ~locked[m]
  /\ locked' = [locked EXCEPT ![m] = TRUE]
  /\ LockReturns(t, m)
  /\ UNCHANGED <<schedVars, wait_queue>>

(* Mutants of LockBlocks: the push_back is forgotten, or is a push_front.   *)
MutantLockBlocksUnqueued(t, m) ==
  /\ m \in BlockingMutex
  /\ locked[m]
  /\ Frame(t, "granted", m)
  /\ BlockCurrentAndRunNext(<<>>)
  /\ UNCHANGED <<locked, wait_queue, held>>

MutantLockBlocksLifo(t, m) ==
  /\ m \in BlockingMutex
  /\ locked[m]
  /\ wait_queue' = [wait_queue EXCEPT ![m] = <<t>> \o @]
  /\ Frame(t, "granted", m)
  /\ BlockCurrentAndRunNext(<<>>)
  /\ UNCHANGED <<locked, held>>

LockBlocks(t, m) ==
  /\ m \in BlockingMutex
  /\ locked[m]
  /\ wait_queue' = [wait_queue EXCEPT ![m] = Append(@, t)]
  /\ Frame(t, "granted", m)
  /\ BlockCurrentAndRunNext(<<>>)
  /\ UNCHANGED <<locked, held>>

(* Mutant of LockSpins: a blocking mutex is spun on as well.               *)
MutantLockSpinsAlways(t, m) ==
  /\ locked[m]
  /\ Frame(t, "spin", m)
  /\ SuspendCurrentAndRunNext(<<>>)
  /\ UNCHANGED <<locked, wait_queue, held>>

LockSpins(t, m) ==
  /\ m \in SpinMutex
  /\ locked[m]
  /\ Frame(t, "spin", m)
  /\ SuspendCurrentAndRunNext(<<>>)
  /\ UNCHANGED <<locked, wait_queue, held>>

Lock(t, m) == LockFree(t, m) \/ LockBlocks(t, m) \/ LockSpins(t, m)

(* unlock(): the tasks it wakes and its effect on the mutex.  A blocking    *)
(* mutex with a waiter stays locked: ownership passes to the waiter.       *)
UnlockWakes(m) == IF m \in BlockingMutex THEN Popped(wait_queue[m]) ELSE <<>>

(* The wait queues after unlock() has popped that waiter.                  *)
UnlockQueues(m) ==
  IF m \in BlockingMutex THEN [wait_queue EXCEPT ![m] = Rest(@)] ELSE wait_queue

(* Mutants of UnlockEffect: the mutex is freed although a waiter was woken, *)
(* and the mutex is never freed.                                           *)
MutantUnlockEffectFrees(t, m) ==
  /\ locked' = [locked EXCEPT ![m] = FALSE]
  /\ held' = [held EXCEPT ![t] = @ \ {m}]

MutantUnlockEffectKeeps(t, m) ==
  /\ UNCHANGED locked
  /\ held' = [held EXCEPT ![t] = @ \ {m}]

UnlockEffect(t, m) ==
  /\ locked' = [locked EXCEPT ![m] = UnlockWakes(m) # <<>>]
  /\ held' = [held EXCEPT ![t] = @ \ {m}]

MayUnlock(t, m) == Disciplined => m \in held[t]

(* assert!(mutex_inner.locked) of MutexBlocking::unlock                    *)
UnlockAsserts(m) == m \in BlockingMutex => locked[m]

Panic ==
  /\ panicked' = TRUE
  /\ UNCHANGED <<schedVars, objVars, timeVars, stackVars, held>>

-----------------------------------------------------------------------------
(* One action per system call, timer interrupt or resumption.             *)

SysYield(t) ==
  /\ InUser(t)
  /\ SuspendCurrentAndRunNext(<<>>)
  /\ UNCHANGED <<objVars, timeVars, stackVars, held, panicked>>

MutexLock(t, m) ==
  /\ InUser(t)
  /\ Lock(t, m)
  /\ UNCHANGED <<count, timeVars, panicked>>

(* Mutant of ResumeLock: Condvar::wait returns without mutex.lock().        *)
MutantResumeLockSkipsRelock(t) ==
  /\ current = t
  /\ \/ kpc[t] = "spin" /\ Lock(t, kmutex[t])
     \/ /\ kpc[t] = "relock"
        /\ LockReturns(t, kmutex[t])
        /\ UNCHANGED <<schedVars, locked, wait_queue>>
  /\ UNCHANGED <<count, timeVars, panicked>>

(* t is switched in again inside MutexSpin::lock, or inside Condvar::wait   *)
(* before its mutex.lock().                                                *)
ResumeLock(t) ==
  /\ current = t
  /\ kpc[t] \in {"spin", "relock"}
  /\ Lock(t, kmutex[t])
  /\ UNCHANGED <<count, timeVars, panicked>>

(* t is switched in again in MutexBlocking::lock: lock() returns.          *)
ResumeGranted(t) ==
  /\ current = t
  /\ kpc[t] = "granted"
  /\ LockReturns(t, kmutex[t])
  /\ UNCHANGED <<schedVars, objVars, timeVars, panicked>>

MutexUnlock(t, m) ==
  /\ InUser(t)
  /\ MayUnlock(t, m)
  /\ UnlockAsserts(m)
  /\ UnlockEffect(t, m)
  /\ wait_queue' = UnlockQueues(m)
  /\ WakeupTasks(UnlockWakes(m))
  /\ UNCHANGED <<count, timeVars, stackVars, panicked>>

(* unlock() of a blocking mutex that is not locked, from either caller     *)
UnlockPanics(t, m) ==
  /\ InUser(t)
  /\ MayUnlock(t, m)
  /\ ~UnlockAsserts(m)
  /\ Panic

(* Condvar::wait: mutex.unlock(), enqueue, block; mutex.lock() is left for  *)
(* ResumeLock.                                                             *)
CondvarWait(t, c, m) ==
  /\ InUser(t)
  /\ MayUnlock(t, m)
  /\ UnlockAsserts(m)
  /\ UnlockEffect(t, m)
  /\ wait_queue' = [UnlockQueues(m) EXCEPT ![c] = Append(@, t)]
  /\ Frame(t, "relock", m)
  /\ BlockCurrentAndRunNext(UnlockWakes(m))
  /\ UNCHANGED <<count, timeVars, panicked>>

(* Mutant of CondvarSignal: front() instead of pop_front().                *)
MutantCondvarSignalKeeps(t, c) ==
  /\ InUser(t)
  /\ WakeupTasks(Popped(wait_queue[c]))
  /\ UNCHANGED <<objVars, timeVars, stackVars, held, panicked>>

CondvarSignal(t, c) ==
  /\ InUser(t)
  /\ wait_queue' = [wait_queue EXCEPT ![c] = Rest(@)]
  /\ WakeupTasks(Popped(wait_queue[c]))
  /\ UNCHANGED <<locked, count, timeVars, stackVars, held, panicked>>

(* Mutant of SemaphoreUp: < 0 instead of <= 0.                             *)
MutantSemaphoreUpStrict(t, s) ==
  /\ InUser(t)
  /\ count[s] < MaxCount
  /\ count' = [count EXCEPT ![s] = @ + 1]
  /\ IF count[s] + 1 < 0
       THEN /\ wait_queue' = [wait_queue EXCEPT ![s] = Rest(@)]
            /\ WakeupTasks(Popped(wait_queue[s]))
       ELSE UNCHANGED <<wait_queue, schedVars>>
  /\ UNCHANGED <<locked, timeVars, stackVars, held, panicked>>

SemaphoreUp(t, s) ==
  /\ InUser(t)
  /\ count[s] < MaxCount
  /\ count' = [count EXCEPT ![s] = @ + 1]
  /\ IF count[s] + 1 <= 0
       THEN /\ wait_queue' = [wait_queue EXCEPT ![s] = Rest(@)]
            /\ WakeupTasks(Popped(wait_queue[s]))
       ELSE UNCHANGED <<wait_queue, schedVars>>
  /\ UNCHANGED <<locked, timeVars, stackVars, held, panicked>>

SemaphoreDown(t, s) ==
  /\ InUser(t)
  /\ count' = [count EXCEPT ![s] = @ - 1]
  /\ IF count[s] - 1 < 0
       THEN /\ wait_queue' = [wait_queue EXCEPT ![s] = Append(@, t)]
            /\ BlockCurrentAndRunNext(<<>>)
       ELSE UNCHANGED <<wait_queue, schedVars>>
  /\ UNCHANGED <<locked, timeVars, stackVars, held, panicked>>

(* sys_sleep and add_timer                                                 *)
SysSleep(t, ms) ==
  /\ InUser(t)
  /\ now + ms <= MaxTime
  /\ timers' = timers \cup {[task |-> t, expire |-> now + ms]}
  /\ BlockCurrentAndRunNext(<<>>)
  /\ UNCHANGED <<objVars, now, stackVars, held, panicked>>

(* Mutant of Expired: one tick early.                                      *)
MutantExpiredEarly == {r \in timers : r.expire <= now + 1}

(* The orders in which check_timer may pop the expired timers: by deadline, *)
(* equal deadlines in any order (a BinaryHeap is not stable).              *)
Expired == {r \in timers : r.expire <= now}
PopOrders ==
  {ord \in Orders(Expired) :
     \A i, j \in DOMAIN ord : i < j => ord[i].expire <= ord[j].expire}

(* Mutant of TimerTrap: check_timer is not called.                         *)
MutantTimerTrapUnchecked(t) ==
  /\ InUser(t)
  /\ SuspendCurrentAndRunNext(<<>>)
  /\ UNCHANGED <<objVars, timeVars, stackVars, held, panicked>>

(* The timer branch of trap_handler: set_next_trigger, check_timer, suspend.*)
TimerTrap(t) ==
  /\ InUser(t)
  /\ \E ord \in PopOrders :
       SuspendCurrentAndRunNext([i \in DOMAIN ord |-> ord[i].task])
  /\ timers' = timers \ Expired
  /\ UNCHANGED <<objVars, now, stackVars, held, panicked>>

ThreadCreate(t, u) ==
  /\ InUser(t)
  /\ AddThread(u)
  /\ UNCHANGED <<objVars, timeVars, stackVars, held, panicked>>

(* exit_current_and_run_next.  Mutexes the thread holds stay locked, and a  *)
(* dead process' blocked threads stay in its wait queues.                  *)
SysExit(t) ==
  /\ InUser(t)
  /\ \/ ExitThread /\ UNCHANGED timers
     \/ ExitProcess /\ timers' = {r \in timers : r.task \notin Thread}
  /\ UNCHANGED <<objVars, now, stackVars, held, panicked>>

(* The hardware clock.                                                     *)
Tick ==
  /\ now < MaxTime
  /\ now' = now + 1
  /\ UNCHANGED <<schedVars, objVars, timers, stackVars, held, panicked>>

Dispatch ==
  /\ RunTasks
  /\ UNCHANGED <<objVars, timeVars, stackVars, held, panicked>>

(* What a thread of the process may do; initproc only yields.              *)
ThreadStep(t) ==
  \/ \E m \in Mutex : \/ MutexLock(t, m)
                      \/ MutexUnlock(t, m)
                      \/ UnlockPanics(t, m)
                      \/ \E c \in Condvar : CondvarWait(t, c, m)
  \/ \E c \in Condvar : CondvarSignal(t, c)
  \/ \E s \in Semaphore : SemaphoreUp(t, s) \/ SemaphoreDown(t, s)
  \/ \E ms \in Durations : SysSleep(t, ms)
  \/ \E u \in Thread : ThreadCreate(t, u)
  \/ ResumeLock(t)
  \/ ResumeGranted(t)
  \/ SysExit(t)

Next ==
  /\ ~panicked
  /\ \/ Dispatch
     \/ Tick
     \/ \E t \in Task : SysYield(t) \/ TimerTrap(t)
     \/ \E t \in Thread : ThreadStep(t)

Spec == Init /\ [][Next]_vars

(* The scheduling the hardware and the kernel guarantee: run_tasks goes on, *)
(* time passes, and a thread that is switched in inside the kernel goes on. *)
(* set_next_trigger always leaves a timer interrupt to come; once pending it *)
(* is taken by the first task to enter user mode, hence the strong fairness.*)
(* Nothing obliges a user program to make a call.                          *)
Fairness ==
  /\ WF_vars(~panicked /\ Dispatch)
  /\ WF_vars(~panicked /\ Tick)
  /\ SF_vars(~panicked /\ \E t \in Task : TimerTrap(t))
  /\ \A t \in Thread : /\ WF_vars(~panicked /\ ResumeLock(t))
                       /\ WF_vars(~panicked /\ ResumeGranted(t))

FairSpec == Spec /\ Fairness

-----------------------------------------------------------------------------
(* Safety.                                                                 *)

Distinct(q) == \A i, j \in DOMAIN q : q[i] = q[j] => i = j

(* A Ready, Running or Blocked thread that has not exited is, respectively, *)
(* in the ready queue, on the CPU, or in one wait queue or the timers: no   *)
(* wake-up and no suspension of mod.rs or manager.rs loses a task.          *)
NoTaskLost ==
  \A t \in Task : res[t] = "Some" =>
    CASE task_status[t] = "Ready"   -> t \in Range(ready_queue)
      [] task_status[t] = "Running" -> current = t
      [] task_status[t] = "Blocked" -> \/ \E o \in Queued : t \in Range(wait_queue[o])
                                       \/ \E r \in timers : r.task = t

(* No task is queued twice: not twice in one queue, not in two wait queues, *)
(* not in a wait queue and the timers, and its status agrees with where it  *)
(* is, so wakeup_task never queues a task that is running or ready.         *)
NoTaskTwice ==
  /\ current # NoTask => task_status[current] = "Running"
  /\ Distinct(ready_queue)
  /\ \A t \in Range(ready_queue) : task_status[t] = "Ready"
  /\ \A o \in Queued :
       /\ Distinct(wait_queue[o])
       /\ \A t \in Range(wait_queue[o]) :
            /\ task_status[t] = "Blocked"
            /\ \A p \in Queued \ {o} : t \notin Range(wait_queue[p])
            /\ \A r \in timers : r.task # t
  /\ \A r \in timers :
       /\ task_status[r.task] = "Blocked"
       /\ \A r2 \in timers : r2.task = r.task => r2 = r

(* exit_current_and_run_next leaves no way back: a thread that has exited,  *)
(* itself or with its process, is never current, ready or in the timers     *)
(* again, although its TCB may still sit in a wait queue.                  *)
ExitedNeverScheduled ==
  \A t \in Task : res[t] # "Some" =>
    /\ current # t
    /\ t \notin Range(ready_queue)
    /\ \A r \in timers : r.task # t

(* Two threads are never both between the return of lock() and their        *)
(* unlock() of the same mutex, spinning or blocking, the re-lock of         *)
(* Condvar::wait included.                                                  *)
MutualExclusion ==
  \A t, u \in Task : \A m \in held[t] \cap held[u] : t = u

(* t owns m: it holds it, or unlock() has handed it over and t has yet to   *)
(* run.                                                                    *)
Owns(t, m) ==
  \/ m \in held[t]
  \/ m \in BlockingMutex /\ kpc[t] = "granted" /\ kmutex[t] = m
                         /\ t \notin Range(wait_queue[m])

(* A blocking mutex with waiters has an owner, so some unlock() to come will *)
(* wake them; one with no owner is not locked.  The hand-over of            *)
(* MutexBlocking::unlock never strands a waiter.                            *)
WaitersHaveOwner ==
  \A m \in BlockingMutex :
    /\ wait_queue[m] # <<>> => \E t \in Task : Owns(t, m)
    /\ locked[m] => \E t \in Task : Owns(t, m)

(* The count of a semaphore and its wait queue agree: a negative count is   *)
(* the number of waiters, and nobody waits at a count of zero or more.      *)
SemaphoreCountsWaiters ==
  \A s \in Semaphore :
    Len(wait_queue[s]) = IF count[s] < 0 THEN -count[s] ELSE 0

(* The assertion of MutexBlocking::unlock does not fail for programs that   *)
(* unlock what they hold, whether through sys_mutex_unlock or Condvar::wait. *)
NoPanic == ~panicked

(* What a step may do to the timers.                                       *)
TimersKept ==
  \A r \in timers : r \notin timers' => r.expire <= now \/ res'[r.task] = "None"

(* check_timer wakes a sleeper only at its deadline; before that only the   *)
(* exit of its process takes it from the timers.                           *)
NoEarlyWake == [][TimersKept]_vars

(* The mutexes as the programs see them.                                   *)
Holder == [m \in Mutex |-> {t \in Task : m \in held[t]}]
Abstract == INSTANCE AbstractMutex WITH holder <- Holder

(* Spinning, blocking, hand-over and the re-lock of Condvar::wait implement *)
(* plain mutexes: lock() returns to a thread only while no other holds the  *)
(* mutex, and a mutex leaves its holder by that thread's unlock() alone.    *)
ImplementsMutexes == Abstract!Spec

-----------------------------------------------------------------------------
(* Liveness, under FairSpec.                                               *)

(* Round robin starves nobody: a task in the ready queue gets the CPU.      *)
ReadyRuns ==
  \A t \in Task : t \in Range(ready_queue) ~> (current = t \/ res[t] = "None")

(* A thread in sys_sleep gets the CPU again, initproc being there to be     *)
(* interrupted when every thread of the process is blocked.                *)
SleeperRuns ==
  \A t \in Thread :
    (\E r \in timers : r.task = t) ~> (current = t \/ res[t] = "None")

(* FIFO hand-over: as long as a blocking mutex keeps being unlocked, every  *)
(* thread that waits for it gets it.                                       *)
MutexWaiterServed ==
  \A t \in Thread, m \in BlockingMutex :
    []<><<\E u \in Thread : MutexUnlock(u, m)>>_vars
      => (t \in Range(wait_queue[m]) ~> (m \in held[t] \/ res[t] = "None"))
=============================================================================
