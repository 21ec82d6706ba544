----------------------------- MODULE MutexProofs ----------------------------
(***************************************************************************)
(* Who waits where and who owns what, for any number of threads and objects *)
(* of Sync.  No step of the scheduler or of a synchronisation object loses  *)
(* a task or queues it twice, none brings an exited thread back, and no     *)
(* sleeper wakes early.  From that, mutual exclusion of both kinds of mutex *)
(* for programs that unlock only what they hold.                           *)
(***************************************************************************)
EXTENDS SyncProofs

(* A step that moves no task.                                              *)
LEMMA PlacesUntouched ==
  ASSUME PlaceInv, UNCHANGED <<schedVars, wait_queue, timers>>
  PROVE  PlaceInv'
  BY DEF PlaceInv, OnePlace, SomePlace, DeadProcess, schedVars

(* sys_yield, or a spin: the running task moves to the ready queue.        *)
LEMMA SuspendKeeps ==
  ASSUME TypeOK, TypeOK', PlaceInv, current \in Task,
         SuspendCurrentAndRunNext(<<>>), UNCHANGED <<wait_queue, timers>>
  PROVE  PlaceInv'
<1>1. SchedMoves({}, {current}, {})
  BY SchedMove, EmptySet, Zenon
<1>2. QueueMoves({}, {})
  BY DEF QueueMoves, PlaceInv, OnePlace
<1> QED BY <1>1, <1>2, MovesKeep DEF Moves

(* The running thread moves to a wait queue.                               *)
LEMMA BlockKeeps ==
  ASSUME TypeOK, TypeOK', PlaceInv, current \in Thread, NEW o \in Queued,
         wait_queue' = [wait_queue EXCEPT ![o] = Append(@, current)], timers' = timers,
         BlockCurrentAndRunNext(<<>>)
  PROVE  PlaceInv'
<1>1. SchedMoves({}, {}, {current})
  BY SchedMove, EmptySet, Zenon
<1>2. QueueMoves({}, {current})
  BY Enqueues, Zenon
<1> QED BY <1>1, <1>2, MovesKeep DEF Moves

(* The first task of a wait queue moves to the ready queue.                *)
LEMMA WakeKeeps ==
  ASSUME TypeOK, TypeOK', PlaceInv, current \in Thread, NEW o \in Queued,
         wait_queue' = [wait_queue EXCEPT ![o] = Rest(@)], timers' = timers,
         WakeupTasks(Popped(wait_queue[o]))
  PROVE  PlaceInv'
<1>1. SchedMoves(Range(Popped(wait_queue[o])), {}, {})
  BY SchedMove, WakeQueue
<1>2. QueueMoves(Range(Popped(wait_queue[o])), {})
  BY Dequeues, Zenon
<1> QED BY <1>1, <1>2, MovesKeep, SMTT(30) DEF Moves

(* lock(): the running thread stays, or moves to the mutex's wait queue, or*)
(* to the ready queue.                                                     *)
LEMMA LockKeeps ==
  ASSUME TypeOK, TypeOK', PlaceInv, NEW t \in Thread, NEW m \in Mutex, current = t,
         Lock(t, m), timers' = timers
  PROVE  PlaceInv'
<1>1. CASE LockFree(t, m)
  BY <1>1, PlacesUntouched DEF LockFree
<1>2. CASE LockBlocks(t, m)
  BY <1>2, BlockKeeps, Zenon DEF LockBlocks, Queued
<1>3. CASE LockSpins(t, m)
  BY <1>3, SuspendKeeps DEF LockSpins, Task
<1> QED BY <1>1, <1>2, <1>3 DEF Lock

(* A wake-up of nobody.                                                    *)
LEMMA WakeNobody ==
  ASSUME TypeOK, WakeupTasks(<<>>) PROVE UNCHANGED schedVars
<1>1. ready_queue' = ready_queue
  BY DEF WakeupTasks, TypeOK, SchedTypeOK
<1>2. task_status' = task_status
  BY EmptySet DEF WakeupTasks, TypeOK, SchedTypeOK, Marked
<1> QED BY <1>1, <1>2 DEF WakeupTasks, schedVars

(* unlock(): the first waiter of a blocking mutex, if any, moves to the    *)
(* ready queue.                                                            *)
LEMMA UnlockKeeps ==
  ASSUME TypeOK, TypeOK', PlaceInv, NEW t \in Thread, NEW m \in Mutex, MutexUnlock(t, m)
  PROVE  PlaceInv'
<1>1. current \in Thread /\ timers' = timers
  BY DEF MutexUnlock, InUser, timeVars
<1>2. CASE m \in BlockingMutex
  <2>1. m \in Queued /\ WakeupTasks(Popped(wait_queue[m]))
        /\ wait_queue' = [wait_queue EXCEPT ![m] = Rest(@)]
    BY <1>2 DEF MutexUnlock, UnlockWakes, UnlockQueues, Queued
  <2> QED BY <1>1, <2>1, WakeKeeps, Zenon
<1>3. CASE m \notin BlockingMutex
  <2>1. WakeupTasks(<<>>) /\ wait_queue' = wait_queue
    BY <1>3 DEF MutexUnlock, UnlockWakes, UnlockQueues
  <2> QED BY <1>1, <2>1, WakeNobody, PlacesUntouched, SMTT(30)
<1> QED BY <1>2, <1>3

(* Condvar::wait: the mutex's first waiter becomes ready, the running      *)
(* thread moves to the condvar's queue.                                    *)
LEMMA CondvarWaitKeeps ==
  ASSUME TypeOK, TypeOK', PlaceInv, NEW t \in Thread, NEW m \in Mutex, NEW c \in Condvar,
         CondvarWait(t, c, m)
  PROVE  PlaceInv'
<1>1. current \in Thread /\ current = t /\ timers' = timers /\ c \in Queued
  BY DEF CondvarWait, InUser, timeVars, Queued
<1>2. CASE m \in BlockingMutex
  <2>1. m \in Queued /\ c # m
    BY <1>2, ObjectAssumption DEF Queued
  <2>2. BlockCurrentAndRunNext(Popped(wait_queue[m]))
    BY <1>2 DEF CondvarWait, UnlockWakes
  <2>3. wait_queue' = [[wait_queue EXCEPT ![m] = Rest(@)] EXCEPT ![c] = Append(@, current)]
    BY <1>1, <1>2, SMTT(30) DEF CondvarWait, UnlockQueues
  <2>4. SchedMoves(Range(Popped(wait_queue[m])), {}, {current})
    BY <1>1, <2>1, <2>2, SchedMove, WakeQueue, Zenon
  <2>5. QueueMoves(Range(Popped(wait_queue[m])), {current})
    BY <1>1, <2>1, <2>3, DequeuesEnqueues, Zenon
  <2> QED BY <2>4, <2>5, MovesKeep DEF Moves
<1>3. CASE m \notin BlockingMutex
  <2>1. BlockCurrentAndRunNext(<<>>)
    BY <1>3 DEF CondvarWait, UnlockWakes
  <2>2. wait_queue' = [wait_queue EXCEPT ![c] = Append(@, current)]
    BY <1>1, <1>3 DEF CondvarWait, UnlockQueues
  <2> QED BY <1>1, <2>1, <2>2, BlockKeeps, Zenon
<1> QED BY <1>2, <1>3

(* sys_sleep: the running thread moves to the timers.                      *)
LEMMA SleepKeeps ==
  ASSUME TypeOK, TypeOK', PlaceInv, NEW t \in Thread, NEW ms \in Durations, SysSleep(t, ms)
  PROVE  PlaceInv'
<1>1. current \in Thread /\ current = t
  BY DEF SysSleep, InUser
<1>2. SchedMoves({}, {}, {current})
  BY <1>1, SchedMove, EmptySet, Zenon DEF SysSleep
<1>3. task_status[current] = "Running"
  BY <1>1, ThreadAssumption, SMTT(30) DEF PlaceInv, OnePlace
<1>4. /\ \A p \in Queued : current \notin Range(wait_queue[p]) /\ Distinct(wait_queue[p])
      /\ \A r \in timers : r.task # current
  BY <1>3 DEF PlaceInv, OnePlace
<1> DEFINE x == [task |-> t, expire |-> now + ms]
<1>5. wait_queue' = wait_queue /\ timers' = timers \cup {x} /\ x.task = current
  BY <1>1 DEF SysSleep, objVars
<1> HIDE DEF x
<1>6. QueueMoves({}, {current})
  BY <1>4, <1>5 DEF QueueMoves
<1> QED BY <1>2, <1>6, MovesKeep DEF Moves

(* The timer interrupt: expired sleepers and the running task move to the  *)
(* ready queue.                                                            *)
LEMMA TimerTrapKeeps ==
  ASSUME TypeOK, TypeOK', PlaceInv, NEW t \in Task, TimerTrap(t)
  PROVE  PlaceInv'
<1>1. PICK ord \in PopOrders :
        SuspendCurrentAndRunNext([i \in DOMAIN ord |-> ord[i].task])
  BY ZenonT(30) DEF TimerTrap
<1> DEFINE ts == [i \in DOMAIN ord |-> ord[i].task]
<1>2. \A x, y \in timers : x.task = y.task => x = y
  BY DEF PlaceInv, OnePlace
<1>3. /\ ts \in Seq(Task) /\ Distinct(ts)
      /\ \A k : k \in Range(ts) <=> \E x \in Expired : x.task = k
  BY <1>2, PopOrdersSet DEF TypeOK
<1>4. SuspendCurrentAndRunNext(ts) /\ current \in Task
  BY <1>1 DEF TimerTrap, InUser
<1> HIDE DEF ts
<1>5. \A k \in Range(ts) : task_status[k] = "Blocked" /\ res[k] = "Some"
  BY <1>3 DEF Expired, PlaceInv, OnePlace
<1>6. SchedMoves(Range(ts), {current}, {})
  BY <1>3, <1>4, <1>5, SchedMove, Zenon
<1>7. \A r \in timers : r \in Expired <=> r.task \in Range(ts)
  BY <1>2, <1>3 DEF Expired
<1>8. wait_queue' = wait_queue /\ timers' = timers \ Expired
  BY DEF TimerTrap, objVars
<1>9. \A o \in Queued : Range(wait_queue[o]) \cap Range(ts) = {}
  BY <1>3 DEF Expired, PlaceInv, OnePlace
<1>10. QueueMoves(Range(ts), {})
  <2>1. \A o \in Queued : Range(wait_queue'[o]) \ {} = Range(wait_queue[o]) \ Range(ts)
    BY <1>8, <1>9
  <2>2. \A r : (r \in timers' /\ r.task \notin {}) <=> (r \in timers /\ r.task \notin Range(ts))
    BY <1>7, <1>8
  <2> QED BY <2>1, <2>2, <1>8 DEF QueueMoves, PlaceInv, OnePlace
<1> QED BY <1>6, <1>10, MovesKeep DEF Moves

(* sys_thread_create: a new thread enters the ready queue.                 *)
LEMMA ThreadCreateKeeps ==
  ASSUME TypeOK, TypeOK', PlaceInv, NEW t \in Thread, NEW u \in Thread, ThreadCreate(t, u)
  PROVE  PlaceInv'
<1> USE DEF PlaceInv
<1>1. /\ current = t /\ t \in Task /\ u \in Task /\ res[u] = "New"
      /\ res \in [Task -> Res] /\ task_status \in [Task -> Status]
  BY DEF ThreadCreate, InUser, AddThread, TypeOK, SchedTypeOK, Task
<1>2. res[t] = "Some" /\ res[Main] # "None" /\ t # u
  BY <1>1, ThreadAssumption DEF OnePlace, DeadProcess
<1>3. /\ u \notin Range(ready_queue) /\ \A r \in timers : r.task # u
      /\ \A o \in Queued : u \notin Range(wait_queue[o])
  BY <1>1 DEF OnePlace
<1>4. Distinct(ready_queue') /\ Range(ready_queue') = Range(ready_queue) \cup {u}
  <2>1. ready_queue' = Append(ready_queue, u)
    BY DEF ThreadCreate, AddThread
  <2>2. ready_queue \in Seq(Task)
    BY SMTT(30) DEF TypeOK, SchedTypeOK
  <2>3. Distinct(ready_queue)
    BY DEF OnePlace
  <2> QED BY <1>1, <1>3, <2>1, <2>2, <2>3, AppendSet, SMTT(30)
<1>5. /\ \A x \in Task : x # u => res'[x] = res[x] /\ task_status'[x] = task_status[x]
      /\ res'[u] = "Some" /\ task_status'[u] = "Ready"
      /\ current' = current /\ wait_queue' = wait_queue /\ timers' = timers
  BY <1>1 DEF ThreadCreate, AddThread, Marked, objVars, timeVars
<1>6. /\ Range(ready_queue) \subseteq Task
      /\ \A o \in Queued : Range(wait_queue[o]) \subseteq Task
      /\ \A r \in timers : r.task \in Task
      /\ Main \in Task /\ Main \in Thread
  <2>1. Range(ready_queue) \subseteq Task
    BY InSet DEF TypeOK, SchedTypeOK
  <2>2. \A o \in Queued : Range(wait_queue[o]) \subseteq Task
    BY InSet DEF TypeOK
  <2>3. \A r \in timers : r.task \in Task
    BY DEF TypeOK
  <2>4. Main \in Task /\ Main \in Thread
    BY ThreadAssumption, SMTT(30) DEF Task
  <2> QED BY <2>1, <2>2, <2>3, <2>4, SMTT(30)
<1>7. OnePlace'
  <2>1. current' # NoTask => task_status'[current'] = "Running" /\ res'[current'] = "Some"
    BY <1>1, <1>2, <1>5, ThreadAssumption, SMTT(30) DEF OnePlace
  <2>2. \A x \in Range(ready_queue') : task_status'[x] = "Ready" /\ res'[x] = "Some"
    BY <1>4, <1>5, <1>6, SMTT(30) DEF OnePlace
  <2>3. \A o \in Queued : \A x \in Range(wait_queue'[o]) :
          /\ x \in Thread /\ task_status'[x] = "Blocked" /\ res'[x] # "New"
          /\ res'[x] = "None" => res'[Main] = "None"
          /\ \A p \in Queued : x \in Range(wait_queue'[p]) => o = p
          /\ \A r \in timers' : r.task # x
    BY <1>2, <1>3, <1>5, <1>6, SMTT(30) DEF OnePlace
  <2>4. \A r \in timers' :
          /\ r.task \in Thread /\ task_status'[r.task] = "Blocked" /\ res'[r.task] = "Some"
          /\ \A r2 \in timers' : r2.task = r.task => r2 = r
    BY <1>3, <1>5, <1>6, SMTT(30) DEF OnePlace
  <2>5. \A o \in Queued : Distinct(wait_queue'[o])
    BY <1>5, SMTT(30) DEF OnePlace
  <2> QED BY <2>1, <2>2, <2>3, <2>4, <2>5, <1>4, ZenonT(30) DEF OnePlace
<1>8. SomePlace'
  BY <1>4, <1>5, SMTT(30) DEF SomePlace
<1>9. DeadProcess'
  BY <1>2, <1>5, <1>6 DEF DeadProcess
<1> QED BY <1>7, <1>8, <1>9, SMTT(30)

(* The running thread gives up its resources and the CPU: nobody else's     *)
(* place changes.                                                          *)
LEMMA ExitThreadKeeps ==
  ASSUME TypeOK, PlaceInv, NEW t \in Thread, SysExit(t), ExitThread, timers' = timers
  PROVE  PlaceInv'
<1> USE DEF PlaceInv
<1>1. /\ current = t /\ t # Main /\ t \in Task
      /\ current' = NoTask /\ res' = [res EXCEPT ![t] = "None"]
      /\ UNCHANGED <<ready_queue, task_status, wait_queue, timers>>
      /\ res \in [Task -> Res]
  BY SMTT(30) DEF SysExit, InUser, ExitThread, objVars, TypeOK, SchedTypeOK, Task
<1>2. task_status[t] = "Running" /\ res[t] = "Some" /\ res[Main] # "None"
  BY <1>1, ThreadAssumption, SMTT(30) DEF OnePlace, DeadProcess
<1>3. /\ Range(ready_queue) \subseteq Task
      /\ \A o \in Queued : Range(wait_queue[o]) \subseteq Task
      /\ \A r \in timers : r.task \in Task
      /\ Main \in Task /\ Main \in Thread
  BY ThreadAssumption, InSet, SMTT(30) DEF TypeOK, SchedTypeOK, Task
<1>4. /\ t \notin Range(ready_queue) /\ \A r \in timers : r.task # t
      /\ \A o \in Queued : t \notin Range(wait_queue[o])
  BY <1>2 DEF OnePlace
<1>5. \A x \in Task : x # t => res'[x] = res[x]
  BY <1>1, SMTT(30)
<1>6. OnePlace'
  <2>1. \A x \in Range(ready_queue') : task_status'[x] = "Ready" /\ res'[x] = "Some"
    BY <1>1, <1>3, <1>4, <1>5, SMTT(30) DEF OnePlace
  <2>2. \A o \in Queued : \A x \in Range(wait_queue'[o]) :
          /\ x \in Thread /\ task_status'[x] = "Blocked" /\ res'[x] # "New"
          /\ res'[x] = "None" => res'[Main] = "None"
          /\ \A p \in Queued : x \in Range(wait_queue'[p]) => o = p
          /\ \A r \in timers' : r.task # x
    BY <1>1, <1>3, <1>4, <1>5, SMTT(30) DEF OnePlace
  <2>3. \A r \in timers' :
          /\ r.task \in Thread /\ task_status'[r.task] = "Blocked" /\ res'[r.task] = "Some"
          /\ \A r2 \in timers' : r2.task = r.task => r2 = r
    BY <1>1, <1>3, <1>4, <1>5, SMTT(30) DEF OnePlace
  <2> QED BY <1>1, <2>1, <2>2, <2>3, ZenonT(30) DEF OnePlace
<1>7. SomePlace'
  BY <1>1, <1>5, SMTT(30) DEF SomePlace
<1>8. DeadProcess'
  BY <1>1, <1>2, <1>3, <1>5, SMTT(30) DEF DeadProcess
<1> QED BY <1>6, <1>7, <1>8, SMTT(30)

(* The main thread takes the whole process down.                           *)
LEMMA ExitProcessKeeps ==
  ASSUME TypeOK, PlaceInv, NEW t \in Thread, SysExit(t), ExitProcess,
         timers' = {r \in timers : r.task \notin Thread}
  PROVE  PlaceInv'
<1> USE DEF PlaceInv
<1>1. /\ current = Main /\ current' = NoTask
      /\ UNCHANGED <<task_status, wait_queue>>
      /\ \A x \in Task : res'[x] = IF x \in Thread /\ res[x] = "Some" THEN "None" ELSE res[x]
  BY DEF SysExit, ExitProcess, objVars
<1>2. Thread \subseteq Task /\ Main \in Thread /\ Main # NoTask /\ res \in [Task -> Res]
  BY ThreadAssumption, SMTT(30) DEF Task, TypeOK, SchedTypeOK
<1>3. task_status[Main] = "Running" /\ res[Main] = "Some"
  BY <1>1, <1>2, SMTT(30) DEF OnePlace
<1>4. timers' = {}
  BY DEF OnePlace
<1>5. PICK ix \in Kept(ready_queue, Thread) :
        ready_queue' = [i \in DOMAIN ix |-> ready_queue[ix[i]]]
  BY DEF ExitProcess
<1>6. /\ Distinct(ready_queue')
      /\ Range(ready_queue') = Range(ready_queue) \ Thread
      /\ Range(ready_queue) \subseteq Task
  BY <1>5, KeptSet, InSet, SMTT(30) DEF OnePlace, TypeOK, SchedTypeOK
<1>7. \A x \in Thread : res'[x] # "Some"
  BY <1>1, <1>2
<1>8. res'[Main] = "None"
  BY <1>1, <1>2, <1>3, SMTT(30)
<1>9. OnePlace'
  <2>1. \A x \in Range(ready_queue') : task_status'[x] = "Ready" /\ res'[x] = "Some"
    BY <1>1, <1>6, SMTT(30) DEF OnePlace
  <2>2. \A o \in Queued : \A x \in Range(wait_queue'[o]) :
          /\ x \in Thread /\ task_status'[x] = "Blocked" /\ res'[x] # "New"
          /\ \A p \in Queued : x \in Range(wait_queue'[p]) => o = p
    BY <1>1, <1>2, SMTT(30) DEF OnePlace
  <2>3. \A o \in Queued : Distinct(wait_queue'[o])
    BY <1>1 DEF OnePlace
  <2> QED BY <1>1, <1>4, <1>6, <1>8, <2>1, <2>2, <2>3, SMTT(30) DEF OnePlace
<1>10. SomePlace'
  <2> SUFFICES ASSUME NEW x \in Task, res'[x] = "Some"
               PROVE  /\ task_status'[x] = "Ready" /\ x \in Range(ready_queue')
    BY DEF SomePlace
  <2>1. x \notin Thread /\ res[x] = "Some"
    BY <1>1, <1>7
  <2>2. task_status[x] \in {"Ready", "Running", "Blocked"}
    BY DEF TypeOK, SchedTypeOK, Status
  <2>3. task_status[x] # "Running"
    BY <2>1, <1>1, <1>2, SMTT(30) DEF SomePlace
  <2>4. task_status[x] # "Blocked"
    BY <2>1, SMTT(30) DEF SomePlace, OnePlace
  <2>5. task_status[x] = "Ready" /\ x \in Range(ready_queue)
    BY <2>1, <2>2, <2>3, <2>4, SMTT(30) DEF SomePlace
  <2> QED BY <2>1, <2>5, <1>1, <1>6, SMTT(30)
<1>11. DeadProcess'
  BY <1>7 DEF DeadProcess
<1> QED BY <1>9, <1>10, <1>11, SMTT(30)

(* run_tasks: the first ready task moves to the CPU.                       *)
LEMMA DispatchKeeps ==
  ASSUME TypeOK, PlaceInv, Dispatch
  PROVE  PlaceInv'
<1> USE DEF PlaceInv
<1> DEFINE h == Head(ready_queue)
<1>1. /\ h \in Task /\ Range(ready_queue) = {h} \cup Range(ready_queue')
      /\ Distinct(ready_queue') /\ h \notin Range(ready_queue')
      /\ Range(ready_queue) \subseteq Task
  BY HeadTailSet, InSet, SMTT(30) DEF Dispatch, RunTasks, OnePlace, TypeOK, SchedTypeOK
<1>2. /\ current = NoTask /\ current' = h
      /\ \A x \in Task : x # h => task_status'[x] = task_status[x]
      /\ task_status'[h] = "Running"
      /\ UNCHANGED <<res, wait_queue, timers>>
  BY <1>1, SMTT(30) DEF Dispatch, RunTasks, objVars, timeVars, TypeOK, SchedTypeOK
<1> HIDE DEF h
<1>3. task_status[h] = "Ready" /\ res[h] = "Some" /\ NoTask \notin Task
  BY <1>1, ThreadAssumption DEF OnePlace, Task
<1>4. /\ \A o \in Queued : Range(wait_queue[o]) \subseteq Task
      /\ \A r \in timers : r.task \in Task
  BY InSet, SMTT(30) DEF TypeOK
<1>5. OnePlace'
  <2>1. \A x \in Range(ready_queue') : task_status'[x] = "Ready" /\ res'[x] = "Some"
    BY <1>1, <1>2, SMTT(30) DEF OnePlace
  <2>2. \A o \in Queued : \A x \in Range(wait_queue'[o]) :
          /\ x \in Thread /\ task_status'[x] = "Blocked" /\ res'[x] # "New"
          /\ res'[x] = "None" => res'[Main] = "None"
          /\ \A p \in Queued : x \in Range(wait_queue'[p]) => o = p
          /\ \A r \in timers' : r.task # x
    BY <1>2, <1>3, <1>4, SMTT(30) DEF OnePlace
  <2>3. \A r \in timers' :
          /\ r.task \in Thread /\ task_status'[r.task] = "Blocked" /\ res'[r.task] = "Some"
          /\ \A r2 \in timers' : r2.task = r.task => r2 = r
    BY <1>2, <1>3, <1>4, SMTT(30) DEF OnePlace
  <2> QED BY <1>1, <1>2, <1>3, <2>1, <2>2, <2>3, SMTT(30) DEF OnePlace
<1>6. SomePlace'
  BY <1>1, <1>2, <1>3, SMTT(30) DEF SomePlace
<1>7. DeadProcess'
  BY <1>2 DEF DeadProcess
<1> QED BY <1>5, <1>6, <1>7, SMTT(30)

(* In the first state both tasks are in the ready queue.                   *)
LEMMA PlaceInit == Init => PlaceInv
<1> SUFFICES ASSUME Init PROVE PlaceInv
  OBVIOUS
<1>1. /\ Main \in Task /\ InitTask \in Task /\ Main # InitTask
      /\ current = NoTask /\ timers = {}
      /\ \A t \in Task : task_status[t] = "Ready"
      /\ \A t \in Task : res[t] = IF t \in {Main, InitTask} THEN "Some" ELSE "New"
      /\ \A o \in Queued : wait_queue[o] = <<>>
  BY ThreadAssumption DEF Init, SchedInit, Task
<1>2. Range(ready_queue) = {InitTask, Main} /\ Distinct(ready_queue)
  BY <1>1 DEF Init, SchedInit, Range, Distinct
<1>3. \A o \in Queued : Range(wait_queue[o]) = {} /\ Distinct(wait_queue[o])
  BY <1>1, EmptySet, SMTT(30)
<1>4. OnePlace
  BY <1>1, <1>2, <1>3, SMTT(30) DEF OnePlace
<1>5. SomePlace /\ DeadProcess
  BY <1>1, <1>2, SMTT(30) DEF SomePlace, DeadProcess
<1> QED BY <1>4, <1>5 DEF PlaceInv

(* Every step keeps each task in one place.                                *)
LEMMA PlaceStep == TypeOK /\ TypeOK' /\ PlaceInv /\ [Next]_vars => PlaceInv'
<1> SUFFICES ASSUME TypeOK, TypeOK', PlaceInv, [Next]_vars PROVE PlaceInv'
  OBVIOUS
<1>1. ASSUME NEW t \in Task, SysYield(t) PROVE PlaceInv'
  BY <1>1, SuspendKeeps DEF SysYield, InUser, objVars, timeVars
<1>2. ASSUME NEW t \in Task, TimerTrap(t) PROVE PlaceInv'
  BY <1>2, TimerTrapKeeps
<1>3. ASSUME NEW t \in Thread, NEW m \in Mutex, MutexLock(t, m) PROVE PlaceInv'
  BY <1>3, LockKeeps DEF MutexLock, InUser, timeVars
<1>4. ASSUME NEW t \in Thread, ResumeLock(t) PROVE PlaceInv'
  <2>1. kmutex[t] \in Mutex
    BY <1>4 DEF ResumeLock, Task, TypeOK, FrameOK, Mutex
  <2> QED BY <1>4, <2>1, LockKeeps, SMTT(30) DEF ResumeLock, timeVars
<1>5. ASSUME NEW t \in Thread, ResumeGranted(t) PROVE PlaceInv'
  BY <1>5, PlacesUntouched DEF ResumeGranted, objVars, timeVars
<1>6. ASSUME NEW t \in Thread, NEW m \in Mutex, UnlockPanics(t, m) PROVE PlaceInv'
  BY <1>6, PlacesUntouched DEF UnlockPanics, Panic, objVars, timeVars
<1>7. ASSUME NEW t \in Thread, NEW c \in Condvar, CondvarSignal(t, c) PROVE PlaceInv'
  BY <1>7, WakeKeeps, ZenonT(30) DEF CondvarSignal, InUser, timeVars, Queued
<1>8. ASSUME NEW t \in Thread, NEW s \in Semaphore, SemaphoreUp(t, s) PROVE PlaceInv'
  <2>1. current \in Thread /\ s \in Queued /\ timers' = timers
    BY <1>8 DEF SemaphoreUp, InUser, timeVars, Queued
  <2>2. CASE count[s] + 1 <= 0
    BY <1>8, <2>1, <2>2, WakeKeeps, SMTT(30) DEF SemaphoreUp
  <2>3. CASE ~(count[s] + 1 <= 0)
    BY <1>8, <2>1, <2>3, PlacesUntouched, SMTT(30) DEF SemaphoreUp
  <2> QED BY <2>2, <2>3
<1>9. ASSUME NEW t \in Thread, NEW s \in Semaphore, SemaphoreDown(t, s) PROVE PlaceInv'
  <2>1. current \in Thread /\ current = t /\ s \in Queued /\ timers' = timers
    BY <1>9 DEF SemaphoreDown, InUser, timeVars, Queued
  <2>2. CASE count[s] - 1 < 0
    BY <1>9, <2>1, <2>2, BlockKeeps, SMTT(30) DEF SemaphoreDown
  <2>3. CASE ~(count[s] - 1 < 0)
    BY <1>9, <2>1, <2>3, PlacesUntouched, SMTT(30) DEF SemaphoreDown
  <2> QED BY <2>2, <2>3
<1>10. ASSUME NEW t \in Thread, SysExit(t) PROVE PlaceInv'
  <2>1. CASE ExitThread /\ UNCHANGED timers
    BY <1>10, <2>1, ExitThreadKeeps, SMTT(30)
  <2>2. CASE ExitProcess /\ timers' = {r \in timers : r.task \notin Thread}
    BY <1>10, <2>2, ExitProcessKeeps, SMTT(30)
  <2> QED BY <1>10, <2>1, <2>2, SMTT(30) DEF SysExit
<1>11. CASE Tick
  BY <1>11, PlacesUntouched DEF Tick, objVars
<1>12. CASE UNCHANGED vars
  BY <1>12, PlacesUntouched DEF vars, objVars, timeVars
<1> QED BY <1>1, <1>2, <1>3, <1>4, <1>5, <1>6, <1>7, <1>8, <1>9, <1>10, <1>11, <1>12, SMTT(30),
           UnlockKeeps, CondvarWaitKeeps, SleepKeeps, ThreadCreateKeeps, DispatchKeeps
        DEF Next, ThreadStep

(* Whatever the programs call, with any number of threads, mutexes,         *)
(* semaphores, condition variables and sleepers: suspend, block, wakeup,    *)
(* check_timer and exit lose no task, queue none twice, and never schedule  *)
(* an exited thread.                                                       *)
THEOREM TasksKeepTheirPlace ==
  Spec => [](NoTaskLost /\ NoTaskTwice /\ ExitedNeverScheduled)
<1>1. Spec => []PlaceInv
  BY PlaceInit, PlaceStep, TypeCorrect, PTL DEF Spec
<1>2. TypeOK /\ PlaceInv => NoTaskLost /\ NoTaskTwice /\ ExitedNeverScheduled
  BY PlaceInvImplies
<1> QED BY <1>1, <1>2, TypeCorrect, PTL

(* check_timer is the only way out of sys_sleep before the process exits:   *)
(* no wake-up of another object and no exit of another thread takes a       *)
(* sleeper from the timers early.                                          *)
THEOREM SleepersSleep == Spec => NoEarlyWake
<1>1. ASSUME TypeOK, PlaceInv, [Next]_vars PROVE [TimersKept]_vars
  <2>1. CASE timers \subseteq timers'
    BY <2>1 DEF TimersKept
  <2>2. ASSUME NEW t \in Task, TimerTrap(t) PROVE TimersKept
    BY <2>2 DEF TimerTrap, Expired, TimersKept
  <2>3. ASSUME NEW t \in Thread, SysExit(t), ~(timers \subseteq timers') PROVE TimersKept
    <3>1. ExitProcess
      BY <2>3, SMTT(30) DEF SysExit
    <3>2. \A r \in timers : r.task \in Task /\ r.task \in Thread /\ res[r.task] = "Some"
      BY <1>1, SMTT(30) DEF TypeOK, PlaceInv, OnePlace
    <3> QED BY <3>1, <3>2 DEF ExitProcess, TimersKept
  <2>4. ASSUME ~(timers \subseteq timers')
        PROVE  (\E t \in Task : TimerTrap(t)) \/ (\E t \in Thread : SysExit(t))
    BY <1>1, <2>4, ZenonT(30) DEF Next, ThreadStep, Dispatch, Tick, SysYield, MutexLock, MutexUnlock,
       UnlockPanics, Panic, CondvarWait, CondvarSignal, SemaphoreUp, SemaphoreDown, SysSleep,
       ThreadCreate, ResumeLock, ResumeGranted, vars, timeVars
  <2> QED BY <2>1, <2>2, <2>3, <2>4, SMTT(30)
<1>2. Spec => []PlaceInv
  BY PlaceInit, PlaceStep, TypeCorrect, PTL DEF Spec
<1>3. TypeOK /\ PlaceInv /\ [Next]_vars => [TimersKept]_vars
  BY <1>1
<1>4. Spec => [][TimersKept]_vars
  BY <1>2, <1>3, TypeCorrect, PTL DEF Spec
<1> QED BY <1>4, PTL DEF NoEarlyWake

(* The inductive invariant: a mutex is locked exactly while one task owns   *)
(* it, and whoever sits in the wait queue of a blocking mutex is inside its *)
(* lock(), so that the task unlock() pops really becomes the owner.         *)
LockInv ==
  /\ \A m \in Mutex, t \in Task : Owns(t, m) => locked[m]
  /\ \A m \in Mutex : locked[m] => \E t \in Task : Owns(t, m)
  /\ \A m \in Mutex, t, u \in Task : Owns(t, m) /\ Owns(u, m) => t = u
  /\ \A m \in BlockingMutex : \A t \in Range(wait_queue[m]) :
       kpc[t] = "granted" /\ kmutex[t] = m
  /\ \A m \in BlockingMutex : wait_queue[m] # <<>> => locked[m]
  /\ ~panicked

(* The invariant gives exclusion, an owner for every waiter, and the       *)
(* assertion of unlock().                                                  *)
LEMMA LockInvImplies ==
  ASSUME TypeOK, LockInv
  PROVE  MutualExclusion /\ WaitersHaveOwner /\ NoPanic
<1>1. MutualExclusion
  BY DEF LockInv, MutualExclusion, Owns, TypeOK
<1>2. WaitersHaveOwner
  BY DEF LockInv, WaitersHaveOwner, Mutex
<1> QED BY <1>1, <1>2 DEF LockInv, NoPanic

(* In the first state no mutex is locked and none has an owner.            *)
LEMMA LockInit == Init => LockInv
<1> SUFFICES ASSUME Init PROVE LockInv
  OBVIOUS
<1>1. \A m \in Mutex, t \in Task : ~Owns(t, m)
  BY DEF Init, Owns
<1>2. \A m \in BlockingMutex : wait_queue[m] = <<>> /\ Range(wait_queue[m]) = {}
  BY EmptySet DEF Init, Queued
<1> QED BY <1>1, <1>2 DEF LockInv, Init

(* A step that leaves the mutexes, their wait queues and their users alone. *)
LEMMA LocksUntouched ==
  ASSUME LockInv, UNCHANGED <<locked, stackVars, held, panicked>>,
         \A m \in BlockingMutex : wait_queue'[m] = wait_queue[m]
  PROVE  LockInv'
<1>1. \A m \in Mutex, t \in Task : Owns(t, m)' <=> Owns(t, m)
  BY DEF Owns, stackVars
<1> QED BY <1>1 DEF LockInv, stackVars

(* The running thread is in no wait queue, so a granted one is an owner.    *)
LEMMA RunningWaitsNowhere ==
  ASSUME PlaceInv, current # NoTask
  PROVE  \A o \in Queued : current \notin Range(wait_queue[o])
  BY DEF PlaceInv, OnePlace

(* lock(), from a system call or resumed.                                  *)
LEMMA LockStep ==
  ASSUME TypeOK, PlaceInv, LockInv, NEW t \in Thread, NEW m \in Mutex, current = t,
         kpc[t] # "granted", Lock(t, m), panicked' = panicked
  PROVE  LockInv'
<1>0. t \in Task /\ t # NoTask
  BY ThreadAssumption DEF Task
<1>w. \A o \in Queued : t \notin Range(wait_queue[o])
  BY <1>0, RunningWaitsNowhere
<1>b. BlockingMutex \subseteq Mutex /\ BlockingMutex \subseteq Queued
  BY DEF Mutex, Queued
<1>1. CASE LockFree(t, m)
  <2>1. /\ ~locked[m] /\ locked' = [locked EXCEPT ![m] = TRUE]
        /\ kpc' = [kpc EXCEPT ![t] = "user"] /\ kmutex' = [kmutex EXCEPT ![t] = NoMutex]
        /\ held' = [held EXCEPT ![t] = @ \cup {m}] /\ wait_queue' = wait_queue
    BY <1>1 DEF LockFree, LockReturns, Frame
  <2>2. \A u \in Task, x \in Mutex : Owns(u, x)' <=> Owns(u, x) \/ (u = t /\ x = m)
    BY <2>1, <1>0 DEF Owns, TypeOK
  <2>3. \A u \in Task : ~Owns(u, m)
    BY <2>1 DEF LockInv
  <2>4. \A x \in Mutex : locked'[x] <=> locked[x] \/ x = m
    BY <2>1 DEF TypeOK
  <2>5. \A x \in BlockingMutex : \A u \in Range(wait_queue'[x]) :
          kpc'[u] = "granted" /\ kmutex'[u] = x
    BY <2>1, <1>w, <1>b DEF LockInv, TypeOK
  <2> QED BY <2>1, <2>2, <2>3, <2>4, <2>5, <1>0, <1>b, SMTT(30) DEF LockInv
<1>2. CASE LockBlocks(t, m)
  <2>1. /\ m \in BlockingMutex /\ locked[m] /\ locked' = locked /\ held' = held
        /\ kpc' = [kpc EXCEPT ![t] = "granted"] /\ kmutex' = [kmutex EXCEPT ![t] = m]
        /\ wait_queue' = [wait_queue EXCEPT ![m] = Append(@, t)]
    BY <1>2 DEF LockBlocks, Frame
  <2>2. /\ Range(wait_queue'[m]) = Range(wait_queue[m]) \cup {t}
        /\ \A x \in BlockingMutex \ {m} : wait_queue'[x] = wait_queue[x]
    <3>1. wait_queue[m] \in Seq(Task)
      BY <2>1, <1>b DEF TypeOK
    <3>2. Range(Append(wait_queue[m], t)) = Range(wait_queue[m]) \cup {t}
      BY <3>1, <1>0, AppendSet
    <3> QED BY <2>1, <3>2, <1>b, Zenon DEF TypeOK
  <2>3. \A u \in Task, x \in Mutex : Owns(u, x)' <=> Owns(u, x)
    <3> SUFFICES ASSUME NEW u \in Task, NEW x \in Mutex PROVE Owns(u, x)' <=> Owns(u, x)
      OBVIOUS
    <3>1. CASE u = t
      BY <2>1, <2>2, <3>1, <1>0, ZenonT(30) DEF Owns, TypeOK
    <3>2. CASE u # t
      <4>1. x \in BlockingMutex => (u \in Range(wait_queue'[x]) <=> u \in Range(wait_queue[x]))
        BY <2>2, <3>2
      <4> QED BY <4>1, <2>1, <3>2 DEF Owns, TypeOK
    <3> QED BY <3>1, <3>2
  <2>4. \A x \in BlockingMutex : \A u \in Range(wait_queue'[x]) :
          kpc'[u] = "granted" /\ kmutex'[u] = x
    BY <2>1, <2>2, <1>0, <1>w, <1>b DEF LockInv, TypeOK
  <2>5. \A x \in BlockingMutex : wait_queue'[x] # <<>> => locked'[x]
    BY <2>1, <2>2 DEF LockInv
  <2> QED BY <2>1, <2>3, <2>4, <2>5 DEF LockInv
<1>3. CASE LockSpins(t, m)
  <2>1. /\ locked' = locked /\ held' = held /\ wait_queue' = wait_queue
        /\ kpc' = [kpc EXCEPT ![t] = "spin"] /\ kmutex' = [kmutex EXCEPT ![t] = m]
    BY <1>3 DEF LockSpins, Frame
  <2>2. \A u \in Task, x \in Mutex : Owns(u, x)' <=> Owns(u, x)
    BY <2>1, <1>0 DEF Owns, TypeOK
  <2>3. \A x \in BlockingMutex : \A u \in Range(wait_queue'[x]) :
          kpc'[u] = "granted" /\ kmutex'[u] = x
    BY SMTT(20), <2>1, <1>w, <1>b DEF LockInv, TypeOK
  <2> QED BY <2>1, <2>2, <2>3 DEF LockInv
<1> QED BY <1>1, <1>2, <1>3 DEF Lock

(* lock() of a blocking mutex returns to the thread it was handed to.       *)
LEMMA GrantedStep ==
  ASSUME TypeOK, PlaceInv, LockInv, NEW t \in Thread, ResumeGranted(t)
  PROVE  LockInv'
<1> DEFINE m == kmutex[t]
<1>0. t \in Task /\ t # NoTask /\ current = t
  BY ThreadAssumption DEF Task, ResumeGranted
<1>1. /\ m \in BlockingMutex /\ m \in Mutex /\ kpc[t] = "granted" /\ kmutex[t] = m
      /\ kpc' = [kpc EXCEPT ![t] = "user"] /\ kmutex' = [kmutex EXCEPT ![t] = NoMutex]
      /\ held' = [held EXCEPT ![t] = @ \cup {m}]
      /\ locked' = locked /\ wait_queue' = wait_queue /\ panicked' = panicked
  BY <1>0 DEF ResumeGranted, LockReturns, Frame, objVars, TypeOK, FrameOK, Mutex
<1> HIDE DEF m
<1>2. \A o \in Queued : t \notin Range(wait_queue[o])
  BY <1>0, RunningWaitsNowhere
<1>3. \A u \in Task, x \in Mutex : Owns(u, x)' <=> Owns(u, x)
  BY <1>0, <1>1, <1>2 DEF Owns, TypeOK, Queued
<1>4. \A x \in BlockingMutex : \A u \in Range(wait_queue'[x]) :
        kpc'[u] = "granted" /\ kmutex'[u] = x
  BY <1>1, <1>2 DEF LockInv, TypeOK, Queued
<1> QED BY <1>1, <1>3, <1>4 DEF LockInv

(* What unlock() does when t, which holds m, calls it in sys_mutex_unlock or *)
(* in Condvar::wait.                                                       *)
Releases(t, m) ==
  /\ InUser(t) /\ m \in held[t] /\ UnlockEffect(t, m) /\ panicked' = panicked
  /\ \A o \in BlockingMutex : wait_queue'[o] = UnlockQueues(m)[o]
  /\ kpc'[t] \in {"user", "relock"}
  /\ \A u \in Task \ {t} : kpc'[u] = kpc[u] /\ kmutex'[u] = kmutex[u]

(* Either nobody waits and the mutex is free, or the first waiter owns it   *)
(* from now on.                                                            *)
LEMMA UnlockStep ==
  ASSUME TypeOK, PlaceInv, LockInv, NEW t \in Thread, NEW m \in Mutex, Releases(t, m)
  PROVE  LockInv'
<1>0. /\ t \in Task /\ t # NoTask /\ current = t /\ kpc[t] = "user"
      /\ BlockingMutex \subseteq Mutex /\ BlockingMutex \subseteq Queued
  BY ThreadAssumption DEF Task, InUser, Mutex, Queued, Releases
<1>k. /\ kpc'[t] \in {"user", "relock"}
      /\ \A u \in Task \ {t} : kpc'[u] = kpc[u] /\ kmutex'[u] = kmutex[u]
  BY DEF Releases
<1>u. \A o \in BlockingMutex : wait_queue'[o] = UnlockQueues(m)[o]
  BY DEF Releases
<1>p. ~panicked'
  BY DEF Releases, LockInv
<1>w. \A o \in Queued : t \notin Range(wait_queue[o])
  BY <1>0, RunningWaitsNowhere
<1>1. Owns(t, m) /\ locked[m] /\ \A u \in Task : Owns(u, m) => u = t
  <2>1. Owns(t, m)
    BY DEF Owns, Releases
  <2> QED BY <2>1, <1>0 DEF LockInv
<1>2. /\ \A u \in Task \ {t} : held'[u] = held[u]
      /\ held'[t] = held[t] \ {m}
      /\ \A x \in Mutex \ {m} : locked'[x] = locked[x]
      /\ locked'[m] = (UnlockWakes(m) # <<>>)
  <2>1. held \in [Task -> SUBSET Mutex] /\ locked \in [Mutex -> BOOLEAN]
    BY DEF TypeOK
  <2>2. UnlockEffect(t, m)
    BY DEF Releases
  <2> QED BY <2>1, <2>2, <1>0 DEF UnlockEffect
<1>3. CASE m \in BlockingMutex /\ wait_queue[m] # <<>>
  <2>1. wait_queue[m] \in Seq(Task) /\ Distinct(wait_queue[m])
    <3>1. wait_queue \in [Queued -> Seq(Task)]
      BY DEF TypeOK
    <3>2. Distinct(wait_queue[m])
      BY <1>0, <1>3 DEF PlaceInv, OnePlace
    <3> QED BY <3>1, <3>2, <1>0, <1>3
  <2>h. PICK h \in Task : h = Head(wait_queue[m])
    BY <2>1, <1>3, HeadTailSet
  <2>2. /\ Range(wait_queue[m]) = {h} \cup Range(Tail(wait_queue[m]))
        /\ h \notin Range(Tail(wait_queue[m]))
    BY <2>1, <2>h, <1>3, HeadTailSet, Zenon
  <2>3. locked'[m]
    BY <1>2, <1>3, Zenon DEF UnlockWakes, Popped
  <2>4. /\ wait_queue'[m] = Tail(wait_queue[m])
        /\ \A x \in BlockingMutex \ {m} : wait_queue'[x] = wait_queue[x]
    <3>1. UnlockQueues(m) = [wait_queue EXCEPT ![m] = Rest(wait_queue[m])]
      BY <1>3 DEF UnlockQueues
    <3>2. Rest(wait_queue[m]) = Tail(wait_queue[m])
      BY <1>3 DEF Rest
    <3>3. wait_queue \in [Queued -> Seq(Task)]
      BY DEF TypeOK
    <3> QED BY <3>1, <3>2, <3>3, <1>0, <1>3, <1>u
  <2>5. h # t /\ h \in Range(wait_queue[m]) /\ kpc[h] = "granted" /\ kmutex[h] = m
    BY <2>2, <1>0, <1>3, <1>w DEF LockInv
  <2>6. Owns(h, m)'
    BY <2>2, <2>4, <2>5, <1>3, <1>k DEF Owns
  <2>7. \A u \in Task : Owns(u, m)' => u = h
    <3> SUFFICES ASSUME NEW u \in Task, Owns(u, m)', u # h PROVE FALSE
      OBVIOUS
    <3>1. u # t
      BY <1>k, <1>2 DEF Owns
    <3>2. Owns(u, m)
      BY <3>1, <1>k, <1>2, <2>2, <2>4 DEF Owns
    <3> QED BY <3>1, <3>2, <1>1
  <2>8. \A u \in Task, x \in Mutex \ {m} : Owns(u, x)' <=> Owns(u, x)
    <3> SUFFICES ASSUME NEW u \in Task, NEW x \in Mutex \ {m} PROVE Owns(u, x)' <=> Owns(u, x)
      OBVIOUS
    <3>1. CASE u = t
      BY SMTT(20), <3>1, <1>0, <1>k, <1>2 DEF Owns
    <3>2. CASE u # t
      BY SMTT(20), <3>2, <1>k, <1>2, <2>4 DEF Owns
    <3> QED BY <3>1, <3>2
  <2>9. \A x \in BlockingMutex : \A u \in Range(wait_queue'[x]) :
          kpc'[u] = "granted" /\ kmutex'[u] = x
    <3> SUFFICES ASSUME NEW x \in BlockingMutex, NEW u \in Range(wait_queue'[x])
                 PROVE  kpc'[u] = "granted" /\ kmutex'[u] = x
      OBVIOUS
    <3>1. u \in Range(wait_queue[x])
      BY <2>2, <2>4
    <3>2. kpc[u] = "granted" /\ kmutex[u] = x
      BY <3>1 DEF LockInv
    <3>3. u \in Task \ {t}
      <4>1. wait_queue[x] \in Seq(Task)
        BY SMTT(20), <1>0 DEF TypeOK
      <4> QED BY <4>1, <3>1, <1>0, <1>w, InSet
    <3> QED BY <3>2, <3>3, <1>k
  <2>10. \A x \in BlockingMutex : wait_queue'[x] # <<>> => locked'[x]
    BY SMTT(20), <2>3, <2>4, <1>0, <1>2 DEF LockInv
  <2>11. \A x \in Mutex, u \in Task : Owns(u, x)' => locked'[x]
    BY SMTT(20), <2>3, <2>8, <1>2 DEF LockInv
  <2>12. \A x \in Mutex : locked'[x] => \E u \in Task : Owns(u, x)'
    BY SMTT(20), <2>2, <2>6, <2>8, <1>2 DEF LockInv
  <2>13. \A x \in Mutex, u, v \in Task : Owns(u, x)' /\ Owns(v, x)' => u = v
    BY <2>7, <2>8 DEF LockInv
  <2> QED BY <2>9, <2>10, <2>11, <2>12, <2>13, <1>p DEF LockInv
<1>4. CASE m \notin BlockingMutex \/ wait_queue[m] = <<>>
  <2>1. ~locked'[m]
    BY <1>2, <1>4, ZenonT(30) DEF UnlockWakes, Popped
  <2>2. \A x \in BlockingMutex : wait_queue'[x] = wait_queue[x]
    <3>1. CASE m \notin BlockingMutex
      BY <3>1, <1>u DEF UnlockQueues
    <3>2. CASE m \in BlockingMutex
      <4>1. UnlockQueues(m) = [wait_queue EXCEPT ![m] = Rest(wait_queue[m])]
        BY <3>2 DEF UnlockQueues
      <4>2. Rest(wait_queue[m]) = wait_queue[m]
        BY <3>2, <1>4 DEF Rest
      <4>3. wait_queue \in [Queued -> Seq(Task)]
        BY DEF TypeOK
      <4> QED BY <4>1, <4>2, <4>3, <1>0, <1>u
    <3> QED BY <3>1, <3>2
  <2>3. \A u \in Task : ~Owns(u, m)'
    <3> SUFFICES ASSUME NEW u \in Task, Owns(u, m)' PROVE FALSE
      OBVIOUS
    <3>1. u # t
      BY <1>k, <1>2 DEF Owns
    <3>2. Owns(u, m)
      BY <3>1, <1>k, <1>2, <2>2 DEF Owns
    <3> QED BY <3>1, <3>2, <1>1
  <2>4. \A u \in Task, x \in Mutex \ {m} : Owns(u, x)' <=> Owns(u, x)
    <3> SUFFICES ASSUME NEW u \in Task, NEW x \in Mutex \ {m} PROVE Owns(u, x)' <=> Owns(u, x)
      OBVIOUS
    <3>1. CASE u = t
      BY SMTT(20), <3>1, <1>0, <1>k, <1>2 DEF Owns
    <3>2. CASE u # t
      BY <3>2, <1>k, <1>2, <2>2 DEF Owns
    <3> QED BY <3>1, <3>2
  <2>5. \A x \in BlockingMutex : \A u \in Range(wait_queue'[x]) :
          kpc'[u] = "granted" /\ kmutex'[u] = x
    <3> SUFFICES ASSUME NEW x \in BlockingMutex, NEW u \in Range(wait_queue[x])
                 PROVE  kpc'[u] = "granted" /\ kmutex'[u] = x
      BY SMTT(20), <2>2
    <3>1. kpc[u] = "granted" /\ kmutex[u] = x
      BY DEF LockInv
    <3>2. u \in Task \ {t}
      <4>1. wait_queue[x] \in Seq(Task)
        BY <1>0 DEF TypeOK
      <4> QED BY <4>1, <1>0, <1>w, InSet
    <3> QED BY <3>1, <3>2, <1>k
  <2>6. \A x \in BlockingMutex : wait_queue'[x] # <<>> => locked'[x]
    BY <2>2, <1>0, <1>2, <1>4 DEF LockInv
  <2> QED BY <2>1, <2>3, <2>4, <2>5, <2>6, <1>2, <1>p DEF LockInv
<1> QED BY <1>3, <1>4

(* Every step of programs that unlock what they hold keeps one owner for   *)
(* each locked mutex.                                                      *)
LEMMA MutexStep ==
  ASSUME Disciplined, TypeOK, PlaceInv, LockInv, [Next]_vars
  PROVE  LockInv'
<1>q. \A m \in BlockingMutex : m \in Queued /\ m \in Mutex /\ m \notin Semaphore /\ m \notin Condvar
  BY ObjectAssumption DEF Queued, Mutex
<1>1. ASSUME NEW t \in Thread, NEW m \in Mutex, MutexLock(t, m) PROVE LockInv'
  <2>1. current = t /\ kpc[t] # "granted" /\ Lock(t, m) /\ panicked' = panicked
    BY <1>1 DEF MutexLock, InUser
  <2> QED BY <2>1, LockStep
<1>2. ASSUME NEW t \in Thread, ResumeLock(t) PROVE LockInv'
  <2>1. /\ current = t /\ kpc[t] # "granted" /\ Lock(t, kmutex[t]) /\ panicked' = panicked
        /\ kmutex[t] \in Mutex
    BY <1>2 DEF ResumeLock, Task, TypeOK, FrameOK, Mutex
  <2> QED BY <2>1, LockStep
<1>3. ASSUME NEW t \in Thread, NEW m \in Mutex, MutexUnlock(t, m) PROVE LockInv'
  <2>1. /\ InUser(t) /\ m \in held[t] /\ UnlockEffect(t, m) /\ panicked' = panicked
        /\ \A o \in BlockingMutex : wait_queue'[o] = UnlockQueues(m)[o]
        /\ kpc' = kpc /\ kmutex' = kmutex /\ kpc[t] = "user"
    BY <1>3, Zenon DEF MutexUnlock, MayUnlock, stackVars, InUser
  <2> QED BY <2>1, UnlockStep DEF Releases
<1>4. ASSUME NEW t \in Thread, NEW m \in Mutex, NEW c \in Condvar, CondvarWait(t, c, m)
      PROVE  LockInv'
  <2>1. InUser(t) /\ m \in held[t] /\ UnlockEffect(t, m) /\ panicked' = panicked
    BY <1>4 DEF CondvarWait, MayUnlock
  <2>2. \A o \in BlockingMutex : wait_queue'[o] = UnlockQueues(m)[o]
    BY <1>4, <1>q, UnlockTypes DEF CondvarWait
  <2>3. /\ kpc'[t] \in {"user", "relock"}
        /\ \A u \in Task \ {t} : kpc'[u] = kpc[u] /\ kmutex'[u] = kmutex[u]
    BY SMTT(20), <1>4 DEF CondvarWait, Frame, TypeOK, Task
  <2>4. Releases(t, m)
    BY SMTT(20), <2>1, <2>2, <2>3 DEF Releases
  <2> QED BY <2>4, UnlockStep, Zenon
<1>5. ASSUME NEW t \in Thread, NEW m \in Mutex, UnlockPanics(t, m) PROVE FALSE
  <2>1. m \in held[t] /\ ~locked[m]
    BY <1>5 DEF UnlockPanics, MayUnlock, UnlockAsserts
  <2>2. Owns(t, m) /\ t \in Task
    BY <2>1 DEF Owns, Task
  <2> QED BY <2>1, <2>2 DEF LockInv
<1>6. ASSUME NEW t \in Thread, NEW c \in Condvar, CondvarSignal(t, c) PROVE LockInv'
  <2>1. \A m \in BlockingMutex : wait_queue'[m] = wait_queue[m]
    BY <1>6, <1>q DEF CondvarSignal, TypeOK
  <2> QED BY <1>6, <2>1, LocksUntouched DEF CondvarSignal
<1>7. ASSUME NEW t \in Thread, NEW s \in Semaphore, SemaphoreUp(t, s) \/ SemaphoreDown(t, s)
      PROVE  LockInv'
  <2>1. \A m \in BlockingMutex : wait_queue'[m] = wait_queue[m]
    BY <1>7, <1>q DEF SemaphoreUp, SemaphoreDown, TypeOK
  <2> QED BY <1>7, <2>1, LocksUntouched DEF SemaphoreUp, SemaphoreDown
<1>8. ASSUME NEW t \in Task, \/ SysYield(t) \/ TimerTrap(t) \/ SysExit(t)
                             \/ \E ms \in Durations : SysSleep(t, ms)
                             \/ \E u \in Thread : ThreadCreate(t, u)
      PROVE  LockInv'
  <2>1. UNCHANGED <<locked, wait_queue, stackVars, held, panicked>>
    BY <1>8 DEF SysYield, TimerTrap, SysExit, SysSleep, ThreadCreate, objVars
  <2> QED BY <2>1, LocksUntouched
<1>9. CASE Dispatch \/ Tick \/ UNCHANGED vars
  <2>1. UNCHANGED <<locked, wait_queue, stackVars, held, panicked>>
    BY <1>9 DEF Dispatch, Tick, vars, objVars
  <2> QED BY <2>1, LocksUntouched
<1> QED BY <1>1, <1>2, <1>3, <1>4, <1>5, <1>6, <1>7, <1>8, <1>9, GrantedStep, SMTT(30)
        DEF Next, ThreadStep, Task

(* Both kinds of mutex exclude, the ownership hand-over of                  *)
(* MutexBlocking::unlock never strands a waiter, and its assertion never    *)
(* fails, as long as programs unlock only what they hold.                  *)
THEOREM MutexesExclude ==
  ASSUME Disciplined
  PROVE  Spec => [](MutualExclusion /\ WaitersHaveOwner /\ NoPanic)
<1>1. Spec => []PlaceInv
  BY PlaceInit, PlaceStep, TypeCorrect, PTL DEF Spec
<1>2. TypeOK /\ PlaceInv /\ LockInv /\ [Next]_vars => LockInv'
  BY MutexStep
<1>3. Spec => []LockInv
  BY <1>1, <1>2, LockInit, TypeCorrect, PTL DEF Spec
<1>4. TypeOK /\ LockInv => MutualExclusion /\ WaitersHaveOwner /\ NoPanic
  BY LockInvImplies
<1> QED BY <1>3, <1>4, TypeCorrect, PTL

-----------------------------------------------------------------------------
(* Refinement.                                                             *)

(* While nobody else owns m, lock() returning m to t is an Acquire, or a    *)
(* stuttering step if t holds it already.                                  *)
LEMMA LockAcquires ==
  ASSUME TypeOK, NEW t \in Task, NEW m \in Mutex,
         held' = [held EXCEPT ![t] = @ \cup {m}],
         \A u \in Task : m \in held[u] => u = t
  PROVE  [Abstract!Next]_Holder
<1>1. CASE m \in held[t]
  <2>1. held' = held
    BY <1>1 DEF TypeOK
  <2> QED BY <2>1 DEF Holder
<1>2. CASE m \notin held[t]
  <2>1. Holder[m] = {}
    BY <1>2 DEF Holder
  <2>2. Holder' = [Holder EXCEPT ![m] = {t}]
    <3>1. \A u \in Task, x \in Mutex : x \in held'[u] <=> x \in held[u] \/ (u = t /\ x = m)
      BY DEF TypeOK
    <3>2. \A x \in Mutex : {u \in Task : x \in held'[u]}
                           = IF x = m THEN {t} ELSE {u \in Task : x \in held[u]}
      BY <3>1, <1>2
    <3> QED BY <3>2, Zenon DEF Holder
  <2> QED BY <2>1, <2>2, Zenon DEF Abstract!Next, Abstract!Acquire
<1> QED BY <1>1, <1>2

(* unlock() by the holder is a Release of the abstract mutex.              *)
LEMMA UnlockReleases ==
  ASSUME TypeOK, LockInv, NEW t \in Task, NEW m \in Mutex, m \in held[t], UnlockEffect(t, m)
  PROVE  [Abstract!Next]_Holder
<1>1. \A u \in Task : m \in held[u] => u = t
  BY DEF LockInv, Owns
<1>2. Holder[m] = {t}
  BY <1>1 DEF Holder
<1>3. Holder' = [Holder EXCEPT ![m] = {}]
  <2>1. \A u \in Task, x \in Mutex : x \in held'[u] <=> x \in held[u] /\ ~(u = t /\ x = m)
    BY DEF UnlockEffect, TypeOK
  <2>2. \A x \in Mutex : {u \in Task : x \in held'[u]}
                         = IF x = m THEN {} ELSE {u \in Task : x \in held[u]}
    BY <2>1, <1>1
  <2> QED BY <2>2, Zenon DEF Holder
<1> QED BY <1>2, <1>3, Zenon DEF Abstract!Next, Abstract!Release

(* Every step is an Acquire, a Release or a stutter of the abstract        *)
(* mutexes.                                                                *)
LEMMA RefinementStep ==
  ASSUME Disciplined, TypeOK, PlaceInv, LockInv, [Next]_vars
  PROVE  [Abstract!Next]_Holder
<1>1. ASSUME NEW t \in Thread, NEW m \in Mutex, Lock(t, m) PROVE [Abstract!Next]_Holder
  <2>1. CASE LockFree(t, m)
    <3>1. \A u \in Task : m \notin held[u]
      BY <2>1 DEF LockFree, LockInv, Owns
    <3>2. held' = [held EXCEPT ![t] = @ \cup {m}] /\ t \in Task
      BY <2>1 DEF LockFree, LockReturns, Task
    <3> QED BY <3>1, <3>2, LockAcquires, Zenon
  <2>2. CASE LockBlocks(t, m) \/ LockSpins(t, m)
    BY <2>2 DEF LockBlocks, LockSpins, Holder
  <2> QED BY <1>1, <2>1, <2>2 DEF Lock
<1>2. ASSUME NEW t \in Thread, ResumeLock(t) PROVE [Abstract!Next]_Holder
  <2>1. kmutex[t] \in Mutex
    BY <1>2 DEF ResumeLock, Task, TypeOK, FrameOK, Mutex
  <2> QED BY <1>1, <1>2, <2>1 DEF ResumeLock
<1>3. ASSUME NEW t \in Thread, ResumeGranted(t) PROVE [Abstract!Next]_Holder
  <2>1. /\ t \in Task /\ current = t /\ current # NoTask /\ kpc[t] = "granted"
        /\ kmutex[t] \in BlockingMutex
    BY <1>3, ThreadAssumption DEF ResumeGranted, Task, TypeOK, FrameOK
  <2>2. Owns(t, kmutex[t]) /\ kmutex[t] \in Mutex
    BY <2>1, RunningWaitsNowhere DEF Owns, Queued, Mutex
  <2>3. \A u \in Task : kmutex[t] \in held[u] => u = t
    BY <2>1, <2>2 DEF LockInv, Owns
  <2>4. held' = [held EXCEPT ![t] = @ \cup {kmutex[t]}]
    BY <1>3 DEF ResumeGranted, LockReturns
  <2> QED BY <2>1, <2>2, <2>3, <2>4, LockAcquires, ZenonT(30)
<1>4. ASSUME NEW t \in Thread, NEW m \in Mutex,
             MutexUnlock(t, m) \/ \E c \in Condvar : CondvarWait(t, c, m)
      PROVE  [Abstract!Next]_Holder
  <2>1. t \in Task /\ m \in held[t] /\ UnlockEffect(t, m)
    BY <1>4 DEF MutexUnlock, CondvarWait, MayUnlock, Task
  <2> QED BY <2>1, UnlockReleases, SMTT(30)
<1>5. ASSUME held' = held PROVE [Abstract!Next]_Holder
  BY <1>5, SMTT(30) DEF Holder
<1>6. ASSUME NEW t \in Task, \/ SysYield(t) \/ TimerTrap(t) \/ SysExit(t)
                             \/ \E ms \in Durations : SysSleep(t, ms)
                             \/ \E u \in Thread : ThreadCreate(t, u)
                             \/ \E c \in Condvar : CondvarSignal(t, c)
                             \/ \E s \in Semaphore : SemaphoreUp(t, s) \/ SemaphoreDown(t, s)
                             \/ \E m \in Mutex : UnlockPanics(t, m)
      PROVE  held' = held
  BY Zenon, <1>6 DEF SysYield, TimerTrap, SysExit, SysSleep, ThreadCreate, CondvarSignal,
              SemaphoreUp, SemaphoreDown, UnlockPanics, Panic
<1>7. CASE Dispatch \/ Tick \/ UNCHANGED vars
  BY <1>5, <1>7 DEF Dispatch, Tick, vars
<1>8. ASSUME NEW t \in Thread, NEW m \in Mutex, MutexLock(t, m) PROVE [Abstract!Next]_Holder
  BY <1>1, <1>8 DEF MutexLock
<1> QED BY <1>2, <1>3, <1>4, <1>5, <1>6, <1>7, <1>8, SMTT(30) DEF Next, ThreadStep, Task

(* MutexSpin, MutexBlocking and Condvar::wait implement the abstract        *)
(* mutexes, for programs that unlock only what they hold.                  *)
THEOREM MutexRefinement ==
  ASSUME Disciplined
  PROVE  Spec => ImplementsMutexes
<1>1. Spec => []PlaceInv
  BY PlaceInit, PlaceStep, TypeCorrect, PTL DEF Spec
<1>2. TypeOK /\ PlaceInv /\ LockInv /\ [Next]_vars => LockInv'
  BY MutexStep
<1>3. Spec => []LockInv
  BY <1>1, <1>2, LockInit, TypeCorrect, PTL DEF Spec
<1>4. Init => Abstract!Init
  BY DEF Init, Holder, Abstract!Init
<1>5. TypeOK /\ PlaceInv /\ LockInv /\ [Next]_vars => [Abstract!Next]_Holder
  BY RefinementStep
<1> QED BY <1>1, <1>3, <1>4, <1>5, TypeCorrect, PTL DEF Spec, ImplementsMutexes, Abstract!Spec
=============================================================================
