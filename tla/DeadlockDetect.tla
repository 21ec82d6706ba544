--------------------------- MODULE DeadlockDetect ---------------------------
(***************************************************************************)
(* The system calls of os/src/syscall/sync.rs: the synchronisation objects  *)
(* of Sync behind the tables of the deadlock detection (PCB fields          *)
(* <mutex/semaphore>_available, _allocation and _need).                     *)
(*                                                                         *)
(* The tables have a row per tid.  A tid is given back when its thread      *)
(* exits and handed out again, and sys_thread_create makes fresh rows only  *)
(* for a tid that was never used: the next thread with a tid goes on with   *)
(* the rows its predecessor left.  A thread is therefore an identity of its *)
(* own here, and tid says which rows its calls work on.                     *)
(*                                                                         *)
(* The kernel is built in release mode: the usize entries of the tables     *)
(* wrap.  Rows and columns are created on demand by the code and read as 0  *)
(* before; here they exist from the start.                                 *)
(***************************************************************************)
EXTENDS Sync

CONSTANTS UsizeMod,      \* 2^64; small in a model, but beyond every real count
          InheritDetect, \* deadlock_detect at birth (fork copies the parent's)
          EnableArgs,    \* arguments of sys_enable_deadlock_detect
          OwnPermits,    \* do programs give back only permits they took?
          MaxNeed,       \* bound: no call that may leave a larger need behind
          MaxAvailable,  \* bound: no sys_semaphore_up at this table entry
          MaxLive        \* bound: no sys_thread_create with so many threads alive

ASSUME TidAssumption ==
  /\ Thread = 0 .. Cardinality(Thread) - 1
  /\ Main = 0

ASSUME TableAssumption ==
  /\ UsizeMod \in Nat /\ UsizeMod > 2 * Cardinality(Thread)
  /\ \A n \in ResCounts : n < UsizeMod
  /\ InheritDetect \in BOOLEAN
  /\ OwnPermits \in BOOLEAN
  /\ EnableArgs \subseteq Nat
  /\ MaxNeed \in Nat
  /\ MaxAvailable \in Nat
  /\ MaxLive \in Nat

(* Programs unlock what they hold: the assertion of unlock() cannot fail    *)
(* (NoPanic in Sync), so its failure is not an action of this module.      *)
ASSUME DisciplineAssumption == Disciplined

VARIABLES deadlock_detect,
          mutex_list, semaphore_list,    \* the objects created so far
          mutex_available, mutex_allocation, mutex_need,
          semaphore_available, semaphore_allocation, semaphore_need,
          tid,                \* TaskUserRes::tid of each thread
          task_res_allocator, \* the RecycleAllocator of the tids
          taken   \* history: down() calls returned (or granted) minus up() calls

mutexTables == <<mutex_available, mutex_allocation, mutex_need>>
semTables   == <<semaphore_available, semaphore_allocation, semaphore_need>>
lists       == <<mutex_list, semaphore_list>>
tidVars     == <<tid, task_res_allocator>>
detVars     == <<vars, deadlock_detect, lists, mutexTables, semTables, tidVars, taken>>

Usize == 0 .. UsizeMod - 1
Inc(x) == (x + 1) % UsizeMod
(* Mutant of Dec: a signed table entry.                                    *)
MutantDecSigned(x) == x - 1
Dec(x) == (x - 1) % UsizeMod

DetTypeOK ==
  /\ TypeOK
  /\ deadlock_detect \in BOOLEAN
  /\ mutex_list \subseteq Mutex
  /\ semaphore_list \subseteq Semaphore
  /\ mutex_available \in [Mutex -> Usize]
  /\ mutex_allocation \in [Thread -> [Mutex -> Usize]]
  /\ mutex_need \in [Thread -> [Mutex -> Usize]]
  /\ semaphore_available \in [Semaphore -> Usize]
  /\ semaphore_allocation \in [Thread -> [Semaphore -> Usize]]
  /\ semaphore_need \in [Thread -> [Semaphore -> Usize]]
  /\ tid \in [Thread -> Thread]
  /\ task_res_allocator \in [current : 1 .. Cardinality(Thread), recycled : Seq(Thread)]
  /\ taken \in [Thread -> [Semaphore -> Int]]

(* 0 .. process_inner.tasks.len(): the tids ever given out, those given back *)
(* included; and the threads that were ever created.                        *)
Tids    == 0 .. task_res_allocator.current - 1
Created == {t \in Thread : res[t] # "New"}
Live    == {t \in Thread : res[t] = "Some"}

(* A new process: fork hands on the switch of the detection and the parent's *)
(* tables, here those of a parent that has created no object.               *)
DetInit ==
  /\ Init
  /\ deadlock_detect = InheritDetect
  /\ mutex_list = {}
  /\ semaphore_list = {}
  /\ mutex_available = [m \in Mutex |-> 0]
  /\ mutex_allocation = [t \in Thread |-> [m \in Mutex |-> 0]]
  /\ mutex_need = [t \in Thread |-> [m \in Mutex |-> 0]]
  /\ semaphore_available = [s \in Semaphore |-> 0]
  /\ semaphore_allocation = [t \in Thread |-> [s \in Semaphore |-> 0]]
  /\ semaphore_need = [t \in Thread |-> [s \in Semaphore |-> 0]]
  /\ tid = [t \in Thread |-> 0]
  /\ task_res_allocator = [current |-> 1, recycled |-> <<>>]
  /\ taken = [t \in Thread |-> [s \in Semaphore |-> 0]]

(* alloc and dealloc of the RecycleAllocator: the tid given back last is the *)
(* first to be given out again.                                            *)
NextTid(a) ==
  IF a.recycled = <<>> THEN a.current ELSE a.recycled[Len(a.recycled)]

AllocTid(a) ==
  IF a.recycled = <<>> THEN [a EXCEPT !.current = @ + 1]
  ELSE [a EXCEPT !.recycled = SubSeq(@, 1, Len(@) - 1)]

DeallocTid(a, i) == [a EXCEPT !.recycled = Append(@, i)]

-----------------------------------------------------------------------------
(* sys_mutex_create: no slot is ever freed, so a new id each time.         *)
SysMutexCreate(t, m) ==
  /\ InUser(t)
  /\ m \notin mutex_list
  /\ mutex_list' = mutex_list \cup {m}
  /\ mutex_available' = [mutex_available EXCEPT ![m] = 1]
  /\ UNCHANGED <<vars, deadlock_detect, semaphore_list, mutex_allocation,
                 mutex_need, semTables, tidVars, taken>>

(* The check in sys_mutex_lock, after need has been incremented: one pass   *)
(* over the rows for the one mutex m.  It finds a row if and only if the    *)
(* need of some row is within what is available before work grows.         *)
(* Mutant of MutexDeadlock: the need counted as if still to be incremented. *)
MutantMutexDeadlockLate(need, m) ==
  \A i \in Tids : need[i][m] > mutex_available[m] + 1

MutexDeadlock(need, m) ==
  \A i \in Tids : need[i][m] > mutex_available[m]

SysMutexLock(t, m) ==
  /\ m \in mutex_list
  /\ deadlock_detect =>
       ~MutexDeadlock([mutex_need EXCEPT ![tid[t]][m] = Inc(@)], m)
  /\ mutex_available' = [mutex_available EXCEPT ![m] = Dec(@)]
  /\ mutex_allocation' = [mutex_allocation EXCEPT ![tid[t]][m] = Inc(@)]
  /\ MutexLock(t, m)
  /\ UNCHANGED <<deadlock_detect, lists, mutex_need, semTables, tidVars, taken>>

(* return -0xDEAD: the incremented need stays.                             *)
MutexLockRefused(t, m) ==
  /\ InUser(t)
  /\ m \in mutex_list
  /\ mutex_need[tid[t]][m] < MaxNeed
  /\ deadlock_detect
  /\ mutex_need' = [mutex_need EXCEPT ![tid[t]][m] = Inc(@)]
  /\ MutexDeadlock(mutex_need', m)
  /\ UNCHANGED <<vars, deadlock_detect, lists, mutex_available,
                 mutex_allocation, semTables, tidVars, taken>>

SysMutexUnlock(t, m) ==
  /\ m \in mutex_list
  /\ mutex_available' = [mutex_available EXCEPT ![m] = Inc(@)]
  /\ mutex_allocation' = [mutex_allocation EXCEPT ![tid[t]][m] = Dec(@)]
  /\ MutexUnlock(t, m)
  /\ UNCHANGED <<deadlock_detect, lists, mutex_need, semTables, tidVars, taken>>

-----------------------------------------------------------------------------
SysSemaphoreCreate(t, s) ==
  /\ InUser(t)
  /\ s \notin semaphore_list
  /\ semaphore_list' = semaphore_list \cup {s}
  /\ semaphore_available' = [semaphore_available EXCEPT ![s] = count[s]]
  /\ UNCHANGED <<vars, deadlock_detect, mutex_list, mutexTables,
                 semaphore_allocation, semaphore_need, tidVars, taken>>

(* The check in sys_semaphore_down: passes over the rows in tid order, each  *)
(* row whose need is within work gives its allocation to work, until a pass *)
(* finds none.  Every pass but the last finishes a row, so as many passes   *)
(* as there are rows reach the end.                                        *)
Finish(need, st, i) ==
  IF i \notin st.finish /\ \A s \in semaphore_list : need[i][s] <= st.work[s]
    THEN [work |-> [s \in Semaphore |->
                     (st.work[s] + semaphore_allocation[i][s]) % UsizeMod],
          finish |-> st.finish \cup {i}]
    ELSE st

OnePass(need, st) ==
  LET Pass[n \in 0 .. Cardinality(Tids)] ==
        IF n = 0 THEN st ELSE Finish(need, Pass[n - 1], n - 1)
  IN  Pass[Cardinality(Tids)]

SemaphoreDeadlock(need) ==
  LET Passes[n \in 0 .. Cardinality(Tids)] ==
        IF n = 0 THEN [work |-> semaphore_available, finish |-> {}]
        ELSE OnePass(need, Passes[n - 1])
  IN  Passes[Cardinality(Tids)].finish # Tids

(* The thread that down() or up() gives a permit to, besides the history.   *)
Grant(f, S, s) == [t \in Thread |-> IF t \in S THEN [f[t] EXCEPT ![s] = @ + 1] ELSE f[t]]

SysSemaphoreDown(t, s) ==
  LET need == [semaphore_need EXCEPT ![tid[t]][s] = Inc(@)]
  IN /\ s \in semaphore_list
     /\ deadlock_detect => ~SemaphoreDeadlock(need)
     /\ IF semaphore_available[s] >= 1
          THEN /\ semaphore_available' = [semaphore_available EXCEPT ![s] = Dec(@)]
               /\ semaphore_allocation' = [semaphore_allocation EXCEPT ![tid[t]][s] = Inc(@)]
               /\ UNCHANGED semaphore_need
          ELSE /\ semaphore_need[tid[t]][s] < MaxNeed
               /\ semaphore_need' = need
               /\ UNCHANGED <<semaphore_available, semaphore_allocation>>
     /\ SemaphoreDown(t, s)
     /\ taken' = Grant(taken, IF count[s] > 0 THEN {t} ELSE {}, s)
     /\ UNCHANGED <<deadlock_detect, lists, mutexTables, tidVars>>

(* return -0xDEAD: the incremented need stays.                             *)
SemaphoreDownRefused(t, s) ==
  /\ InUser(t)
  /\ s \in semaphore_list
  /\ semaphore_need[tid[t]][s] < MaxNeed
  /\ deadlock_detect
  /\ semaphore_need' = [semaphore_need EXCEPT ![tid[t]][s] = Inc(@)]
  /\ SemaphoreDeadlock(semaphore_need')
  /\ UNCHANGED <<vars, deadlock_detect, lists, mutexTables,
                 semaphore_available, semaphore_allocation, tidVars, taken>>

(* Mutant of SysSemaphoreUp: allocation is not decremented.                *)
MutantSysSemaphoreUpKeeps(t, s) ==
  /\ s \in semaphore_list
  /\ OwnPermits => taken[t][s] > 0
  /\ semaphore_available[s] < MaxAvailable
  /\ semaphore_available' = [semaphore_available EXCEPT ![s] = Inc(@)]
  /\ SemaphoreUp(t, s)
  /\ taken' = Grant([taken EXCEPT ![t][s] = @ - 1],
                    IF count[s] < 0 THEN Range(Popped(wait_queue[s])) ELSE {}, s)
  /\ UNCHANGED <<deadlock_detect, lists, mutexTables, semaphore_allocation,
                 semaphore_need, tidVars>>

SysSemaphoreUp(t, s) ==
  /\ s \in semaphore_list
  /\ OwnPermits => taken[t][s] > 0
  /\ semaphore_available[s] < MaxAvailable
  /\ semaphore_available' = [semaphore_available EXCEPT ![s] = Inc(@)]
  /\ semaphore_allocation' = [semaphore_allocation EXCEPT ![tid[t]][s] = Dec(@)]
  /\ SemaphoreUp(t, s)
  /\ taken' = Grant([taken EXCEPT ![t][s] = @ - 1],
                    IF count[s] < 0 THEN Range(Popped(wait_queue[s])) ELSE {}, s)
  /\ UNCHANGED <<deadlock_detect, lists, mutexTables, semaphore_need, tidVars>>

-----------------------------------------------------------------------------
(* Any argument but 0 and 1 returns -1.                                    *)
SysEnableDeadlockDetect(t, enabled) ==
  /\ InUser(t)
  /\ deadlock_detect' = IF enabled = 1 THEN TRUE
                        ELSE IF enabled = 0 THEN FALSE ELSE deadlock_detect
  /\ UNCHANGED <<vars, lists, mutexTables, semTables, tidVars, taken>>

(* Mutant of SysThreadCreate: the allocation row of the tid is cleared, but  *)
(* what it counted is not given back to mutex_available.                    *)
MutantSysThreadCreateClears(t, u) ==
  /\ Cardinality(Live) < MaxLive
  /\ \A v \in Thread : v < u => v \in Created
  /\ ThreadCreate(t, u)
  /\ tid' = [tid EXCEPT ![u] = NextTid(task_res_allocator)]
  /\ task_res_allocator' = AllocTid(task_res_allocator)
  /\ mutex_allocation' = [mutex_allocation EXCEPT ![tid'[u]] = [m \in Mutex |-> 0]]
  /\ UNCHANGED <<deadlock_detect, lists, mutex_available, mutex_need, semTables, taken>>

(* u is the next thread of the process; its tid may be one that an exited   *)
(* thread had.  The rows of the tid stay as they are.                      *)
SysThreadCreate(t, u) ==
  /\ Cardinality(Live) < MaxLive
  /\ \A v \in Thread : v < u => v \in Created
  /\ ThreadCreate(t, u)
  /\ tid' = [tid EXCEPT ![u] = NextTid(task_res_allocator)]
  /\ task_res_allocator' = AllocTid(task_res_allocator)
  /\ UNCHANGED <<deadlock_detect, lists, mutexTables, semTables, taken>>

(* exit_current_and_run_next drops the TaskUserRes, which gives the tid     *)
(* back.  The exit of the main thread gives back the tids of the others as  *)
(* well; no thread is created from that allocator afterwards.               *)
ExitGivesTidBack(t) ==
  /\ SysExit(t)
  /\ task_res_allocator' = DeallocTid(task_res_allocator, tid[t])
  /\ UNCHANGED <<deadlock_detect, lists, mutexTables, semTables, tid, taken>>

(* Condvar::wait locks and unlocks its mutex behind the tables' back.       *)
SysCondvarWait(t, c, m) ==
  /\ m \in mutex_list
  /\ CondvarWait(t, c, m)
  /\ UNCHANGED <<deadlock_detect, lists, mutexTables, semTables, tidVars, taken>>

(* Steps that do not look at the tables.                                   *)
OtherStep ==
  /\ \/ Dispatch
     \/ Tick
     \/ \E t \in Task : SysYield(t) \/ TimerTrap(t)
     \/ \E t \in Thread : \/ ResumeLock(t) \/ ResumeGranted(t)
                          \/ \E c \in Condvar : CondvarSignal(t, c)
                          \/ \E ms \in Durations : SysSleep(t, ms)
  /\ UNCHANGED <<deadlock_detect, lists, mutexTables, semTables, tidVars, taken>>

DetNext ==
  /\ ~panicked
  /\ \/ OtherStep
     \/ \E t \in Thread, m \in Mutex :
          \/ SysMutexCreate(t, m)
          \/ SysMutexLock(t, m)
          \/ MutexLockRefused(t, m)
          \/ SysMutexUnlock(t, m)
          \/ \E c \in Condvar : SysCondvarWait(t, c, m)
     \/ \E t \in Thread, s \in Semaphore :
          \/ SysSemaphoreCreate(t, s)
          \/ SysSemaphoreDown(t, s)
          \/ SemaphoreDownRefused(t, s)
          \/ SysSemaphoreUp(t, s)
     \/ \E t \in Thread : \/ ExitGivesTidBack(t)
                          \/ \E e \in EnableArgs : SysEnableDeadlockDetect(t, e)
                          \/ \E u \in Thread : SysThreadCreate(t, u)

DetSpec == DetInit /\ [][DetNext]_detVars

-----------------------------------------------------------------------------
(* What the tables should tell.  The definitions look at the locks          *)
(* themselves, not at the tables.                                          *)

(* t waits for m, or is about to (the request x = <<t, m>>).               *)
WaitsForMutex(t, m, x) ==
  \/ x = <<t, m>>
  \/ kpc[t] = "spin" /\ kmutex[t] = m
  \/ m \in BlockingMutex /\ t \in Range(wait_queue[m])

WaitsForThread(t, u, x) == \E m \in Mutex : WaitsForMutex(t, m, x) /\ Owns(u, m)

(* Sets of live threads, of which each waits for a mutex one of them owns.  *)
MutexCircle(x) ==
  \E D \in (SUBSET Live) \ {{}} : \A t \in D : \E u \in D : WaitsForThread(t, u, x)

WaitsForSemaphore(t, s, x) == x = <<t, s>> \/ t \in Range(wait_queue[s])

(* Live threads that all wait for semaphores without a permit left, where   *)
(* no thread but themselves has a permit to give back.                     *)
SemaphoreCircle(x) ==
  \E D \in (SUBSET Live) \ {{}} :
    \A t \in D : \E s \in Semaphore :
      /\ WaitsForSemaphore(t, s, x)
      /\ count[s] <= 0
      /\ \A u \in Thread \ D : taken[u][s] <= 0

NoRequest == <<>>

(* The sum of f over the threads, which are 0 .. n - 1.                     *)
SumOver(f) ==
  LET Sum[n \in 0 .. Cardinality(Thread)] ==
        IF n = 0 THEN 0 ELSE Sum[n - 1] + f[n - 1]
  IN  Sum[Cardinality(Thread)]

(* The claims of t on m: one if it holds m, one if it waits for m (or has to *)
(* lock it again in Condvar::wait); both when it locks what it holds.        *)
Claims(t, m) == (IF m \in held[t] THEN 1 ELSE 0) + (IF kmutex[t] = m THEN 1 ELSE 0)

(* All claims on m of the threads that have or had the tid i; of all threads. *)
RowClaims(i, m) == SumOver([t \in Thread |-> IF tid[t] = i THEN Claims(t, m) ELSE 0])
AllClaims(m) == SumOver([t \in Thread |-> Claims(t, m)])

(* mutex_allocation counts claims, not holders, and it counts by tid: a row   *)
(* is the sum of the claims of every thread that ever had its tid, so what a *)
(* thread still held when it exited is charged to its successors for good.   *)
(* mutex_available is one minus all claims, so it has wrapped whenever a     *)
(* mutex is contended.  sys_mutex_lock and sys_mutex_unlock never drift.     *)
MutexTablesCountClaims ==
  \A m \in mutex_list :
    /\ \A i \in Tids : mutex_allocation[i][m] = RowClaims(i, m)
    /\ mutex_available[m] = (1 - AllClaims(m)) % UsizeMod

(* sys_semaphore_down and sys_semaphore_up never lose or create a permit in  *)
(* the tables: available plus all allocations is the number of permits the   *)
(* semaphore has in all, up to wrapping, even where the rows are wrong.      *)
SemaphoreTablesConserve ==
  \A s \in semaphore_list :
    (semaphore_available[s]
       + SumOver([t \in Thread |-> semaphore_allocation[t][s]])) % UsizeMod
    = (count[s] + Len(wait_queue[s])
       + SumOver([t \in Thread |-> taken[t][s]])) % UsizeMod

(* With the detection on since its birth, a process that never had a second  *)
(* thread never blocks on a mutex: locking one it holds is refused.          *)
LoneThreadNotStuck ==
  Created = {Main} => \A m \in Mutex : ~WaitsForMutex(Main, m, NoRequest)

(* With the detection on since its birth, sys_mutex_lock lets no set of      *)
(* threads wait for one another: each for a mutex another one of them owns.  *)
(* (A thread that locks what it holds is the matter of LoneThreadNotStuck.)  *)
MutexDeadlockRefused ==
  ~ \E D \in (SUBSET Live) \ {{}} :
      \A t \in D : \E u \in D \ {t} : WaitsForThread(t, u, NoRequest)

(* sys_mutex_lock returns -0xDEAD only where granting the request would      *)
(* close a circle of threads waiting for one another, or for itself.        *)
MutexRefusalJustified ==
  [][\A t \in Thread, m \in Mutex :
       current = t /\ mutex_need'[tid[t]][m] > mutex_need[tid[t]][m]
         => MutexCircle(<<t, m>>)]_detVars

(* With the detection on since its birth, sys_semaphore_down lets no set of  *)
(* threads wait for permits only they could give back.                      *)
SemaphoreDeadlockRefused == ~SemaphoreCircle(NoRequest)
=============================================================================
