---------------------------- MODULE DetectProofs ----------------------------
(***************************************************************************)
(* Proofs about DeadlockDetect, for any number of threads and objects: the  *)
(* tables of mutexes count claims, those of semaphores conserve permits,    *)
(* and a process of one thread is never admitted to a lock it would wait    *)
(* for.                                                                    *)
(***************************************************************************)
EXTENDS DetectLemmas, MutexProofs

(* What is known of the threads and the locks, from the proofs about Sync.   *)
SyncInv == TypeOK /\ PlaceInv /\ LockInv /\ SemaphoreCountsWaiters /\ UnbornIdle

(* Nothing happens to a thread before it is created: it does not run.       *)
LEMMA UnbornStep ==
  ASSUME TypeOK, PlaceInv, UnbornIdle, [Next]_vars
  PROVE  UnbornIdle'
<1>1. ASSUME NEW t \in Task, t \in Thread => res'[t] = "New"
      PROVE  held'[t] = {} /\ kpc'[t] = "user"
  <2>1. t \in Thread => res[t] = "New"
    BY <1>1, CreatedGrow, Zenon
  <2>2. held[t] = {} /\ kpc[t] = "user"
    BY <2>1, Zenon DEF UnbornIdle
  <2>3. current # t \/ t \notin Thread
    BY <2>1, ThreadAssumption DEF PlaceInv, OnePlace
  <2> QED BY <2>2, <2>3, OnlyCurrentMoves, Zenon
<1> QED BY <1>1, Zenon DEF UnbornIdle

(* It holds behind the tables.                                             *)
LEMMA SyncInvHolds == DetSpec => []SyncInv
<1>1. Init => TypeOK /\ PlaceInv /\ LockInv /\ UnbornIdle
  <2>1. Init => UnbornIdle
    BY DEF Init, UnbornIdle
  <2> QED BY <2>1, TypeInit, PlaceInit, LockInit, Zenon
<1>2. TypeOK /\ PlaceInv /\ LockInv /\ UnbornIdle /\ [Next]_vars
        => (TypeOK /\ PlaceInv /\ LockInv /\ UnbornIdle)'
  <2> SUFFICES ASSUME TypeOK, PlaceInv, LockInv, UnbornIdle, [Next]_vars
               PROVE  (TypeOK /\ PlaceInv /\ LockInv /\ UnbornIdle)'
    BY Zenon
  <2>4. UnbornIdle'
    BY UnbornStep, Zenon
  <2>1. TypeOK'
    BY TypeStep, Zenon
  <2>2. PlaceInv'
    BY PlaceStep, <2>1, Zenon
  <2>3. LockInv'
    BY MutexStep, DisciplineAssumption, Zenon
  <2> QED BY <2>1, <2>2, <2>3, <2>4, Zenon
<1> QED BY <1>1, <1>2, DetectorRefinesSync, SemaphoreAgreement, PTL DEF Spec, SyncInv

-----------------------------------------------------------------------------
(* The types of the tables.                                                *)

(* lock(), called or resumed, leaves t with one claim to m more than those  *)
(* it holds m by, whether it returns, blocks or spins.                      *)
LEMMA LockClaims ==
  ASSUME TypeOK, PlaceInv, LockInv, SelfWaits, NEW t \in Thread, NEW m \in Mutex, current = t,
         kmutex[t] \in {NoMutex, m}, Lock(t, m)
  PROVE  /\ SelfWaits'
         /\ \A u \in Thread, x \in Mutex :
              Claims(u, x)' = IF u = t /\ x = m THEN (IF m \in held[t] THEN 1 ELSE 0) + 1
                                                ELSE Claims(u, x)
<1>0. t \in Task /\ t # NoTask /\ Thread \subseteq Task /\ NoMutex \notin Mutex
      /\ BlockingMutex \subseteq Queued /\ BlockingMutex \subseteq Mutex
  BY ThreadAssumption, ObjectAssumption DEF Task, Queued, Mutex
<1>1. CASE LockFree(t, m)
  <2>1. /\ kpc' = [kpc EXCEPT ![t] = "user"] /\ kmutex' = [kmutex EXCEPT ![t] = NoMutex]
        /\ held' = [held EXCEPT ![t] = @ \cup {m}] /\ wait_queue' = wait_queue
    BY <1>1, Zenon DEF LockFree, LockReturns, Frame
  <2>2. m \notin held[t]
    BY <1>0, <1>1 DEF LockFree, LockInv, Owns
  <2>3. /\ kpc'[t] = "user" /\ kmutex'[t] = NoMutex /\ held'[t] = held[t] \cup {m}
        /\ \A u \in Thread \ {t} : kpc'[u] = kpc[u] /\ kmutex'[u] = kmutex[u] /\ held'[u] = held[u]
    BY <1>0, <2>1 DEF TypeOK
  <2>4. SelfWaits'
    BY <2>1, <2>3 DEF SelfWaits
  <2> QED BY <1>0, <2>2, <2>3, <2>4 DEF Claims
<1>2. CASE LockBlocks(t, m)
  <2>1. /\ m \in BlockingMutex /\ held' = held
        /\ kpc' = [kpc EXCEPT ![t] = "granted"] /\ kmutex' = [kmutex EXCEPT ![t] = m]
        /\ wait_queue' = [wait_queue EXCEPT ![m] = Append(@, t)]
    BY <1>2, Zenon DEF LockBlocks, Frame
  <2>2. /\ Range(wait_queue'[m]) = Range(wait_queue[m]) \cup {t}
        /\ \A x \in BlockingMutex \ {m} : wait_queue'[x] = wait_queue[x]
    <3>1. wait_queue[m] \in Seq(Task) /\ wait_queue \in [Queued -> Seq(Task)]
      BY <2>1, <1>0 DEF TypeOK
    <3>2. Range(Append(wait_queue[m], t)) = Range(wait_queue[m]) \cup {t}
      BY <3>1, <1>0, AppendSet
    <3> QED BY <2>1, <3>1, <3>2, <1>0, Zenon
  <2>3. /\ kmutex'[t] = m
        /\ \A u \in Thread \ {t} : kpc'[u] = kpc[u] /\ kmutex'[u] = kmutex[u]
    BY <1>0, <2>1 DEF TypeOK
  <2>4. SelfWaits'
    <3> SUFFICES ASSUME NEW u \in Thread, NEW x \in BlockingMutex,
                        x \in held'[u], kpc'[u] = "granted", kmutex'[u] = x
                 PROVE  u \in Range(wait_queue'[x])
      BY Zenon DEF SelfWaits
    <3>1. CASE u = t
      BY <2>2, <2>3, <3>1, Zenon
    <3>2. CASE u # t
      <4>1. u \in Range(wait_queue[x])
        BY <2>1, <2>3, <3>2, Zenon DEF SelfWaits
      <4> QED BY <2>2, <4>1, Zenon
    <3> QED BY <3>1, <3>2
  <2> QED BY <1>0, <2>1, <2>3, <2>4 DEF Claims
<1>3. CASE LockSpins(t, m)
  <2>1. /\ held' = held /\ wait_queue' = wait_queue
        /\ kpc' = [kpc EXCEPT ![t] = "spin"] /\ kmutex' = [kmutex EXCEPT ![t] = m]
    BY <1>3, Zenon DEF LockSpins, Frame
  <2>2. /\ kmutex'[t] = m /\ kpc'[t] = "spin"
        /\ \A u \in Thread \ {t} : kpc'[u] = kpc[u] /\ kmutex'[u] = kmutex[u]
    BY <1>0, <2>1 DEF TypeOK
  <2>3. SelfWaits'
    BY <2>1, <2>2 DEF SelfWaits
  <2> QED BY <1>0, <2>1, <2>2, <2>3 DEF Claims
<1> QED BY <1>1, <1>2, <1>3, Zenon DEF Lock

(* unlock() takes the claim to hold m from t; the waiter it pops holds no   *)
(* mutex it waits for, since t held that one.                              *)
LEMMA UnlockClaims ==
  ASSUME TypeOK, PlaceInv, LockInv, SelfWaits, NEW t \in Thread, NEW m \in Mutex,
         InUser(t), m \in held[t], UnlockEffect(t, m),
         \A o \in BlockingMutex : wait_queue'[o] = UnlockQueues(m)[o],
         kpc'[t] # "granted",
         \A u \in Thread \ {t} : kpc'[u] = kpc[u] /\ kmutex'[u] = kmutex[u]
  PROVE  /\ SelfWaits'
         /\ held'[t] = held[t] \ {m}
         /\ \A u \in Thread \ {t} : held'[u] = held[u]
<1>0. t \in Task /\ Thread \subseteq Task
      /\ BlockingMutex \subseteq Queued /\ BlockingMutex \subseteq Mutex
  BY DEF Task, Queued, Mutex
<1>1. /\ held'[t] = held[t] \ {m}
      /\ \A u \in Thread \ {t} : held'[u] = held[u]
  BY <1>0 DEF UnlockEffect, TypeOK
<1>2. \A u \in Task : m \in held[u] => u = t
  BY <1>0, Zenon DEF LockInv, Owns
<1>3. SelfWaits'
  <2> SUFFICES ASSUME NEW u \in Thread, NEW x \in BlockingMutex,
                      x \in held'[u], kpc'[u] = "granted", kmutex'[u] = x
               PROVE  u \in Range(wait_queue'[x])
    BY Zenon DEF SelfWaits
  <2>1. u # t /\ x \in held[u] /\ kpc[u] = "granted" /\ kmutex[u] = x
    BY <1>1, Zenon
  <2>2. u \in Range(wait_queue[x])
    BY <2>1, Zenon DEF SelfWaits
  <2>3. x # m
    BY <1>0, <1>2, <2>1, Zenon
  <2>4. wait_queue'[x] = wait_queue[x]
    BY <1>0, <2>3 DEF UnlockQueues, TypeOK
  <2> QED BY <2>2, <2>4, Zenon
<1> QED BY <1>1, <1>3, Zenon

(* sys_mutex_lock: t was in user mode, so inside no lock() before.          *)
LEMMA SysLockClaims ==
  ASSUME SyncInv, TablesType, TablesType', TidsOK, ClaimsOK, NEW t \in Thread, NEW m \in Mutex,
         SysMutexLock(t, m)
  PROVE  ClaimsOK'
<1>1. /\ m \in mutex_list /\ UNCHANGED <<mutex_list, tid>>
      /\ mutex_available' = [mutex_available EXCEPT ![m] = (@ - 1) % UsizeMod]
      /\ mutex_allocation' = [mutex_allocation EXCEPT ![tid[t]][m] = (@ + 1) % UsizeMod]
      /\ InUser(t) /\ Lock(t, m)
  BY Zenon DEF SysMutexLock, MutexLock, lists, tidVars, Inc, Dec
<1>2. current = t /\ kmutex[t] = NoMutex /\ NoMutex # m
  BY <1>1, ObjectAssumption, Zenon DEF InUser, SyncInv, TypeOK, FrameOK, Task
<1>3. /\ SelfWaits'
      /\ \A u \in Thread, x \in Mutex :
           Claims(u, x)' = IF u = t /\ x = m THEN (IF m \in held[t] THEN 1 ELSE 0) + 1
                                             ELSE Claims(u, x)
  BY <1>1, <1>2, LockClaims, Zenon DEF SyncInv, ClaimsOK
<1>4. (IF m \in held[t] THEN 1 ELSE 0) + 1 = Claims(t, m) + 1
  BY <1>2 DEF Claims
<1>5. \A u \in Thread, x \in Mutex :
        Claims(u, x)' = IF u = t /\ x = m THEN Claims(u, x) + 1 ELSE Claims(u, x)
  BY <1>3, <1>4, Zenon
<1> QED BY <1>1, <1>3, <1>5, ClaimsMove, Zenon

(* sys_mutex_unlock.                                                       *)
LEMMA SysUnlockClaims ==
  ASSUME SyncInv, TablesType, TablesType', TidsOK, ClaimsOK, NEW t \in Thread, NEW m \in Mutex,
         SysMutexUnlock(t, m)
  PROVE  ClaimsOK'
<1>1. /\ m \in mutex_list /\ UNCHANGED <<mutex_list, tid>>
      /\ mutex_available' = [mutex_available EXCEPT ![m] = (@ + 1) % UsizeMod]
      /\ mutex_allocation' = [mutex_allocation EXCEPT ![tid[t]][m] = (@ - 1) % UsizeMod]
      /\ InUser(t) /\ m \in held[t] /\ UnlockEffect(t, m) /\ UNCHANGED <<kpc, kmutex>>
      /\ \A o \in BlockingMutex : wait_queue'[o] = UnlockQueues(m)[o]
  BY DisciplineAssumption, Zenon
     DEF SysMutexUnlock, MutexUnlock, MayUnlock, lists, tidVars, stackVars, Inc, Dec
<1>2. kpc'[t] # "granted"
  BY <1>1 DEF InUser
<1>3. SelfWaits' /\ held'[t] = held[t] \ {m} /\ \A u \in Thread \ {t} : held'[u] = held[u]
  BY <1>1, <1>2, UnlockClaims, Zenon DEF SyncInv, ClaimsOK
<1>4. \A u \in Thread, x \in Mutex :
        Claims(u, x)' = IF u = t /\ x = m THEN Claims(u, x) + (-1) ELSE Claims(u, x)
  BY <1>1, <1>3 DEF Claims
<1>5. /\ mutex_available[m] \in Int /\ mutex_allocation[tid[t]][m] \in Int
  <2>1. mutex_available[m] \in Usize /\ mutex_allocation[tid[t]][m] \in Usize
    <3>1. /\ mutex_available \in [Mutex -> Usize]
          /\ mutex_allocation \in [Thread -> [Mutex -> Usize]]
      BY Zenon DEF TablesType
    <3>2. mutex_allocation[tid[t]] \in [Mutex -> Usize]
      BY <3>1, Zenon DEF TidsOK
    <3> QED BY <3>1, <3>2, Zenon
  <2> QED BY <2>1, CountsFit, Zenon
<1>6. /\ mutex_available' = [mutex_available EXCEPT ![m] = (@ - (-1)) % UsizeMod]
      /\ mutex_allocation' = [mutex_allocation EXCEPT ![tid[t]][m] = (@ + (-1)) % UsizeMod]
  <2>1. mutex_available[m] + 1 = mutex_available[m] - (-1)
    BY <1>5
  <2>2. mutex_allocation[tid[t]][m] - 1 = mutex_allocation[tid[t]][m] + (-1)
    BY <1>5
  <2> QED BY <1>1, <2>1, <2>2, Zenon
<1> QED BY <1>1, <1>3, <1>4, <1>6, ClaimsMove, Zenon

(* lock() resumed: the claim of the wait becomes that of the hold, or stays. *)
LEMMA ResumeClaims ==
  ASSUME SyncInv, TablesType, ClaimsOK, NEW t \in Thread, ResumeLock(t),
         UNCHANGED <<mutex_list, mutex_available, mutex_allocation, tid>>
  PROVE  ClaimsOK'
<1> DEFINE m == kmutex[t]
<1>1. current = t /\ m \in Mutex /\ Lock(t, m) /\ kmutex[t] \in {NoMutex, m} /\ kmutex[t] = m
  BY DEF ResumeLock, SyncInv, TypeOK, FrameOK, Task, Mutex
<1> HIDE DEF m
<1>2. /\ SelfWaits'
      /\ \A u \in Thread, x \in Mutex :
           Claims(u, x)' = IF u = t /\ x = m THEN (IF m \in held[t] THEN 1 ELSE 0) + 1
                                             ELSE Claims(u, x)
  BY <1>1, LockClaims, Zenon DEF SyncInv, ClaimsOK
<1>3. (IF m \in held[t] THEN 1 ELSE 0) + 1 = Claims(t, m)
  BY <1>1 DEF Claims
<1>4. \A u \in Thread, x \in Mutex : Claims(u, x)' = Claims(u, x)
  BY <1>2, <1>3, Zenon
<1>5. mutex_list \subseteq Mutex
  BY Zenon DEF TablesType
<1> QED BY <1>2, <1>4, <1>5, ClaimsKept, Zenon

(* lock() of a blocking mutex returns: the thread is in no wait queue any   *)
(* more, so it did not hold the mutex before.                              *)
LEMMA GrantedClaims ==
  ASSUME SyncInv, TablesType, ClaimsOK, NEW t \in Thread, ResumeGranted(t),
         UNCHANGED <<mutex_list, mutex_available, mutex_allocation, tid>>
  PROVE  ClaimsOK'
<1> DEFINE m == kmutex[t]
<1>0. t \in Task /\ t # NoTask /\ Thread \subseteq Task /\ NoMutex \notin Mutex
      /\ BlockingMutex \subseteq Queued /\ BlockingMutex \subseteq Mutex
  BY ThreadAssumption, ObjectAssumption DEF Task, Queued, Mutex
<1>1. /\ current = t /\ m \in BlockingMutex /\ kmutex[t] = m /\ kpc[t] = "granted"
      /\ kpc' = [kpc EXCEPT ![t] = "user"] /\ kmutex' = [kmutex EXCEPT ![t] = NoMutex]
      /\ held' = [held EXCEPT ![t] = @ \cup {m}] /\ wait_queue' = wait_queue
  BY <1>0 DEF ResumeGranted, LockReturns, Frame, SyncInv, TypeOK, FrameOK, objVars
<1> HIDE DEF m
<1>2. m \notin held[t]
  <2>1. t \notin Range(wait_queue[m])
    BY SMTT(20), <1>0, <1>1, RunningWaitsNowhere DEF SyncInv
  <2> QED BY <1>1, <2>1, Zenon DEF ClaimsOK, SelfWaits
<1>3. /\ kpc'[t] = "user" /\ kmutex'[t] = NoMutex /\ held'[t] = held[t] \cup {m}
      /\ \A u \in Thread \ {t} : kpc'[u] = kpc[u] /\ kmutex'[u] = kmutex[u] /\ held'[u] = held[u]
  BY <1>0, <1>1 DEF SyncInv, TypeOK
<1>4. SelfWaits'
  BY <1>1, <1>3 DEF SelfWaits, ClaimsOK
<1>5. \A u \in Thread, x \in Mutex : Claims(u, x)' = Claims(u, x)
  BY SMTT(20), <1>0, <1>1, <1>2, <1>3 DEF Claims
<1>6. mutex_list \subseteq Mutex
  BY Zenon DEF TablesType
<1> QED BY <1>4, <1>5, <1>6, ClaimsKept, Zenon

(* Condvar::wait: the claim of the hold becomes that of the lock() to come.  *)
LEMMA WaitClaims ==
  ASSUME SyncInv, TablesType, ClaimsOK, NEW t \in Thread, NEW m \in Mutex, NEW c \in Condvar,
         CondvarWait(t, c, m), UNCHANGED <<mutex_list, mutex_available, mutex_allocation, tid>>
  PROVE  ClaimsOK'
<1>0. t \in Task /\ Thread \subseteq Task /\ NoMutex \notin Mutex
      /\ \A x \in BlockingMutex : x \in Queued /\ x \notin Condvar
  BY ObjectAssumption DEF Task, Queued
<1>1. InUser(t) /\ m \in held[t] /\ UnlockEffect(t, m)
      /\ kpc' = [kpc EXCEPT ![t] = "relock"] /\ kmutex' = [kmutex EXCEPT ![t] = m]
      /\ wait_queue' = [UnlockQueues(m) EXCEPT ![c] = Append(@, t)]
  BY DisciplineAssumption, Zenon DEF CondvarWait, MayUnlock, Frame
<1>2. \A o \in BlockingMutex : wait_queue'[o] = UnlockQueues(m)[o]
  BY SMTT(20), <1>0, <1>1, UnlockTypes DEF SyncInv
<1>3. /\ kpc'[t] = "relock" /\ kmutex'[t] = m /\ kmutex[t] = NoMutex
      /\ \A u \in Thread \ {t} : kpc'[u] = kpc[u] /\ kmutex'[u] = kmutex[u]
  BY <1>0, <1>1 DEF InUser, SyncInv, TypeOK, FrameOK
<1>4. SelfWaits' /\ held'[t] = held[t] \ {m} /\ \A u \in Thread \ {t} : held'[u] = held[u]
  <2>1. kpc'[t] # "granted"
    BY <1>3
  <2> QED BY <1>1, <1>2, <1>3, <2>1, UnlockClaims, Zenon DEF SyncInv, ClaimsOK
<1>5. \A u \in Thread, x \in Mutex : Claims(u, x)' = Claims(u, x)
  BY SMTT(20), <1>0, <1>1, <1>3, <1>4 DEF Claims
<1>6. mutex_list \subseteq Mutex
  BY Zenon DEF TablesType
<1> QED BY <1>4, <1>5, <1>6, ClaimsKept, Zenon

(* Every call keeps the mutex tables in step with the claims.               *)
LEMMA ClaimsStep ==
  ASSUME SyncInv, TablesType, TablesType', TidsOK, ClaimsOK, [DetNext]_detVars
  PROVE  ClaimsOK'
<1>q. \A m \in BlockingMutex : m \in Queued /\ m \notin Semaphore /\ m \notin Condvar
  BY ObjectAssumption DEF Queued
<1>t. wait_queue \in [Queued -> Seq(Task)]
  BY DEF SyncInv, TypeOK
<1>0. ASSUME UNCHANGED <<mutex_list, mutexTables, tidVars, held, stackVars>>,
             \A m \in BlockingMutex : wait_queue'[m] = wait_queue[m]
      PROVE  ClaimsOK'
  BY <1>0, ClaimsUntouched, Zenon DEF mutexTables, tidVars
<1>1. CASE OtherStep
  <2>0. UNCHANGED <<mutex_list, mutexTables, tidVars>>
    BY <1>1, Zenon DEF OtherStep, lists
  <2>1. ASSUME UNCHANGED <<wait_queue, held, stackVars>> PROVE ClaimsOK'
    BY <1>0, <2>0, <2>1, Zenon
  <2>2. CASE Dispatch \/ Tick
    BY <2>1, <2>2, Zenon DEF Dispatch, Tick, objVars
  <2>3. ASSUME NEW t \in Task, SysYield(t) \/ TimerTrap(t) PROVE ClaimsOK'
    BY <2>1, <2>3, Zenon DEF SysYield, TimerTrap, objVars
  <2>5. ASSUME NEW t \in Thread, NEW ms \in Durations, SysSleep(t, ms) PROVE ClaimsOK'
    BY <2>1, <2>5, Zenon DEF SysSleep, objVars
  <2>6. ASSUME NEW t \in Thread, NEW c \in Condvar, CondvarSignal(t, c) PROVE ClaimsOK'
    <3>1. \A m \in BlockingMutex : wait_queue'[m] = wait_queue[m]
      BY <1>q, <1>t, <2>6 DEF CondvarSignal
    <3> QED BY <1>0, <2>0, <2>6, <3>1, Zenon DEF CondvarSignal
  <2>7. ASSUME NEW t \in Thread, ResumeLock(t) PROVE ClaimsOK'
    BY <2>0, <2>7, ResumeClaims, Zenon DEF mutexTables, tidVars
  <2>8. ASSUME NEW t \in Thread, ResumeGranted(t) PROVE ClaimsOK'
    BY <2>0, <2>8, GrantedClaims, Zenon DEF mutexTables, tidVars
  <2> QED BY <1>1, <2>2, <2>3, <2>5, <2>6, <2>7, <2>8, Zenon DEF OtherStep
<1>2. ASSUME NEW t \in Thread, NEW m \in Mutex, MutexLockRefused(t, m) PROVE ClaimsOK'
  <2>1. UNCHANGED <<mutex_list, mutex_available, mutex_allocation, tid, held, stackVars,
                    wait_queue>>
    BY <1>2, Zenon DEF MutexLockRefused, lists, tidVars, vars, objVars
  <2> QED BY <2>1, ClaimsUntouched, Zenon
<1>3. ASSUME NEW t \in Thread, NEW m \in Mutex, NEW c \in Condvar, SysCondvarWait(t, c, m)
      PROVE  ClaimsOK'
  <2>1. CondvarWait(t, c, m) /\ UNCHANGED <<mutex_list, mutex_available, mutex_allocation, tid>>
    BY <1>3, Zenon DEF SysCondvarWait, lists, mutexTables, tidVars
  <2> QED BY <2>1, WaitClaims, Zenon
<1>4. ASSUME NEW t \in Thread, NEW s \in Semaphore,
             SysSemaphoreCreate(t, s) \/ SemaphoreDownRefused(t, s)
      PROVE  ClaimsOK'
  <2>1. UNCHANGED <<mutex_list, mutexTables, tidVars, held, stackVars, wait_queue>>
    BY <1>4, Zenon DEF SysSemaphoreCreate, SemaphoreDownRefused, lists, vars, objVars
  <2> QED BY <1>0, <2>1, Zenon
<1>5. ASSUME NEW t \in Thread, NEW s \in Semaphore, SysSemaphoreDown(t, s) \/ SysSemaphoreUp(t, s)
      PROVE  ClaimsOK'
  <2>1. UNCHANGED <<mutex_list, mutexTables, tidVars>> /\ (SemaphoreDown(t, s) \/ SemaphoreUp(t, s))
    BY <1>5, Zenon DEF SysSemaphoreDown, SysSemaphoreUp, lists
  <2>2. UNCHANGED <<held, stackVars>>
    BY <2>1, Zenon DEF SemaphoreDown, SemaphoreUp
  <2>3. \A m \in BlockingMutex : wait_queue'[m] = wait_queue[m]
    BY <1>q, <1>t, <2>1 DEF SemaphoreDown, SemaphoreUp
  <2> QED BY <1>0, <2>1, <2>2, <2>3, Zenon
<1>6. ASSUME NEW t \in Thread, NEW e \in EnableArgs, SysEnableDeadlockDetect(t, e)
      PROVE  ClaimsOK'
  <2>1. UNCHANGED <<mutex_list, mutexTables, tidVars, held, stackVars, wait_queue>>
    BY <1>6, Zenon DEF SysEnableDeadlockDetect, lists, vars, objVars
  <2> QED BY <1>0, <2>1, Zenon
<1>9. ASSUME NEW t \in Thread, ExitGivesTidBack(t) PROVE ClaimsOK'
  <2>1. UNCHANGED <<mutex_list, mutex_available, mutex_allocation, tid, held, stackVars,
                    wait_queue>>
    BY <1>9, Zenon DEF ExitGivesTidBack, SysExit, lists, mutexTables, objVars
  <2> QED BY <2>1, ClaimsUntouched, Zenon
<1>10. ASSUME NEW t \in Thread, NEW u \in Thread, SysThreadCreate(t, u) PROVE ClaimsOK'
  <2>1. /\ UNCHANGED <<mutex_list, mutex_available, mutex_allocation, held, stackVars, wait_queue>>
        /\ tid' = [tid EXCEPT ![u] = NextTid(task_res_allocator)] /\ ThreadCreate(t, u)
    BY <1>10, Zenon DEF SysThreadCreate, ThreadCreate, lists, mutexTables, objVars
  <2>2. \A m \in Mutex : Claims(u, m) = 0
    <3>1. u \in Task /\ held[u] = {} /\ kpc[u] = "user"
      BY <2>1 DEF ThreadCreate, AddThread, SyncInv, UnbornIdle, Task
    <3>2. kmutex[u] = NoMutex
      BY <3>1, Zenon DEF SyncInv, TypeOK, FrameOK
    <3> QED BY <3>1, <3>2, ObjectAssumption DEF Claims
  <2>3. \A v \in Thread : tid'[v] = tid[v] \/ \A m \in Mutex : Claims(v, m) = 0
    BY <2>1, <2>2, Zenon DEF TidsOK
  <2> QED BY <2>1, <2>3, ClaimsUntouched, Zenon
<1>7. CASE UNCHANGED detVars
  <2>1. UNCHANGED <<mutex_list, mutexTables, tidVars, held, stackVars, wait_queue>>
    BY <1>7, Zenon DEF detVars, lists, vars, objVars
  <2> QED BY <1>0, <2>1, Zenon
<1>8. ASSUME NEW t \in Thread, NEW m \in Mutex,
             SysMutexCreate(t, m) \/ SysMutexLock(t, m) \/ SysMutexUnlock(t, m)
      PROVE  ClaimsOK'
  BY <1>8, CreateClaims, SysLockClaims, SysUnlockClaims, Zenon
<1> QED BY <1>1, <1>2, <1>3, <1>4, <1>5, <1>6, <1>7, <1>8, <1>9, <1>10, Zenon DEF DetNext

(* up(): the permit t gives back goes to the first waiter, or to count.      *)
LEMMA UpPermits ==
  ASSUME SyncInv, TypeOK', TablesType, TablesType', NEW t \in Thread, NEW s \in Semaphore,
         SemaphoreUp(t, s), NEW mid \in [Thread -> [Semaphore -> Int]], GivenBack(taken, mid, t, s),
         NEW W, Granted(mid, taken', W, s),
         W = IF count[s] < 0 THEN Range(Popped(wait_queue[s])) ELSE {}
  PROVE  /\ Permits(s)' = Permits(s)
         /\ \A x \in Semaphore \ {s} :
              /\ count'[x] = count[x] /\ wait_queue'[x] = wait_queue[x]
              /\ \A u \in Thread : taken'[u][x] = taken[u][x]
<1>0. /\ s \in Queued /\ Semaphore \subseteq Queued /\ TypeOK
      /\ count \in [Semaphore -> Int] /\ wait_queue \in [Queued -> Seq(Task)]
      /\ taken \in [Thread -> [Semaphore -> Int]] /\ taken' \in [Thread -> [Semaphore -> Int]]
  BY DEF Queued, SyncInv, TypeOK, TablesType
<1>1. /\ count' = [count EXCEPT ![s] = @ + 1]
      /\ IF count[s] + 1 <= 0 THEN wait_queue' = [wait_queue EXCEPT ![s] = Rest(@)]
                              ELSE wait_queue' = wait_queue
  BY Zenon DEF SemaphoreUp
<1>m. /\ \A u \in Thread, x \in Semaphore \ {s} : mid[u][x] = taken[u][x]
      /\ \A u \in Thread \ {t} : mid[u][s] = taken[u][s]
      /\ mid[t][s] = taken[t][s] - 1
  BY Zenon DEF GivenBack
<1>3. /\ \A u \in Thread, x \in Semaphore \ {s} : taken'[u][x] = mid[u][x]
      /\ \A u \in Thread : taken'[u][s] = IF u \in W THEN mid[u][s] + 1 ELSE mid[u][s]
  BY Zenon DEF Granted
<1>4. \A x \in Semaphore \ {s} :
        /\ count'[x] = count[x] /\ wait_queue'[x] = wait_queue[x]
        /\ \A u \in Thread : taken'[u][x] = taken[u][x]
  <2>1. \A x \in Semaphore \ {s} : \A u \in Thread : taken'[u][x] = taken[u][x]
    BY <1>m, <1>3, Zenon
  <2>2. \A x \in Semaphore \ {s} : count'[x] = count[x] /\ wait_queue'[x] = wait_queue[x]
    BY <1>0, <1>1
  <2> QED BY <2>1, <2>2, Zenon
<1>5. count[s] \in Int /\ count'[s] = count[s] + 1
  BY <1>0, <1>1
<1>6. Column(taken, s) \in Int /\ Len(wait_queue[s]) \in Nat
  BY <1>0, IntegerTables
<1>7. Column(mid, s) = Column(taken, s) - 1
  <2>1. /\ \A u \in Thread \ {t} : mid[u][s] = taken[u][s]
        /\ mid[t][s] = taken[t][s] - 1 /\ taken[t][s] \in Int
    BY <1>0, <1>m
  <2>2. Column(mid, s) = Column(taken, s) + mid[t][s] - taken[t][s]
    BY <1>0, <1>m, <2>1, ColumnSum, Zenon
  <2> QED BY <1>6, <2>1, <2>2
<1>p. Permits(s) = count[s] + Len(wait_queue[s]) + Column(taken, s)
  BY Zenon DEF Permits
<1>8. CASE count[s] < 0
  <2>1. Len(wait_queue[s]) = -count[s]
    BY <1>8 DEF SyncInv, SemaphoreCountsWaiters
  <2>2. wait_queue[s] # <<>> /\ wait_queue[s] \in Seq(Task)
    BY SMTT(20), <1>0, <1>5, <1>8, <2>1
  <2>h. PICK h : h = Head(wait_queue[s])
    OBVIOUS
  <2>3. W = {h} /\ h \in Thread
    <3>1. Head(wait_queue[s]) \in Task /\ Head(wait_queue[s]) \in Range(wait_queue[s])
      BY <2>2, HeadTailSet
    <3>2. Popped(wait_queue[s]) = <<h>>
      BY <2>2, <2>h, Zenon DEF Popped
    <3>3. Range(<<h>>) = {h}
      BY <2>h, <3>1, OneSet, Zenon
    <3>4. h \in Thread
      BY <1>0, <2>h, <3>1, Zenon DEF SyncInv, PlaceInv, OnePlace
    <3> QED BY <1>8, <3>2, <3>3, <3>4, Zenon
  <2>4. wait_queue'[s] = Tail(wait_queue[s])
    <3>1. count[s] + 1 <= 0
      BY <1>5, <1>8
    <3> QED BY <1>0, <1>1, <2>2, <3>1, Zenon DEF Rest
  <2>5. Len(wait_queue'[s]) = Len(wait_queue[s]) - 1
    BY <2>2, <2>4
  <2>6. Column(taken', s) = Column(mid, s) + 1
    <3>1. /\ \A u \in Thread \ {h} : taken'[u][s] = mid[u][s]
          /\ taken'[h][s] = mid[h][s] + 1 /\ mid[h][s] \in Int
      BY Zenon, <1>3, <1>m, <2>3
    <3>2. Column(taken', s) = Column(mid, s) + taken'[h][s] - mid[h][s]
      BY ZenonT(30), <1>0, <1>m, <2>3, <3>1, ColumnSum
    <3> QED BY SMTT(20), <1>6, <1>7, <3>1, <3>2
  <2>7. Permits(s)' = count'[s] + Len(wait_queue'[s]) + Column(taken', s)
    BY Zenon DEF Permits
  <2>8. Permits(s)' = Permits(s)
    <3> DEFINE a == count[s]
               b == Len(wait_queue[s])
               c == Column(taken, s)
    <3>1. /\ a \in Int /\ b \in Int /\ c \in Int
          /\ Permits(s) = a + b + c /\ Permits(s)' = (a + 1) + (b - 1) + ((c - 1) + 1)
      BY SMTT(20), <1>p, <1>5, <1>6, <1>7, <2>5, <2>6, <2>7
    <3> HIDE DEF a, b, c
    <3> QED BY <3>1
  <2> QED BY <1>4, <2>8, Zenon
<1>9. CASE ~(count[s] < 0)
  <2>1. wait_queue'[s] = wait_queue[s]
    BY <1>1, <1>5, <1>9
  <2>2. Column(taken', s) = Column(mid, s)
    <3>1. \A u \in Thread : taken'[u][s] = mid[u][s]
      BY <1>3, <1>9, Zenon
    <3> QED BY <1>m, <3>1, ColumnFacts, Zenon
  <2>3. Permits(s)' = count'[s] + Len(wait_queue[s]) + Column(taken', s)
    BY <2>1, Zenon DEF Permits
  <2>4. Permits(s)' = Permits(s)
    <3> DEFINE a == count[s]
               b == Len(wait_queue[s])
               c == Column(taken, s)
    <3>1. /\ a \in Int /\ b \in Int /\ c \in Int
          /\ Permits(s) = a + b + c /\ Permits(s)' = (a + 1) + b + (c - 1)
      BY SMTT(20), <1>p, <1>5, <1>6, <1>7, <2>2, <2>3
    <3> HIDE DEF a, b, c
    <3> QED BY <3>1
  <2> QED BY <1>4, <2>4, Zenon
<1> QED BY <1>8, <1>9, Zenon

(* sys_semaphore_down and sys_semaphore_up keep both totals.                *)
LEMMA SysDownPermits ==
  ASSUME SyncInv, TypeOK', TablesType, TablesType', TidsOK, PermitsOK, NEW t \in Thread,
         NEW s \in Semaphore, SysSemaphoreDown(t, s)
  PROVE  PermitsOK'
<1> DEFINE i == tid[t]
<1>0. TypeOK /\ UsizeMod \in Nat /\ i \in Thread
  BY TableAssumption DEF SyncInv, TidsOK
<1>1. /\ s \in semaphore_list /\ semaphore_list' = semaphore_list /\ SemaphoreDown(t, s)
      /\ taken' = Grant(taken, IF count[s] > 0 THEN {t} ELSE {}, s)
      /\ \/ /\ semaphore_available' = [semaphore_available EXCEPT ![s] = Dec(@)]
            /\ semaphore_allocation' = [semaphore_allocation EXCEPT ![i][s] = Inc(@)]
         \/ UNCHANGED <<semaphore_available, semaphore_allocation>>
  BY Zenon DEF SysSemaphoreDown, lists
<1> HIDE DEF i
<1>2. Granted(taken, taken', IF count[s] > 0 THEN {t} ELSE {}, s)
  <2>1. taken \in [Thread -> [Semaphore -> Int]]
    BY Zenon DEF TablesType
  <2> QED BY <1>1, <2>1, GrantedBy, Zenon
<1>3. /\ Permits(s)' = Permits(s)
      /\ \A x \in Semaphore \ {s} :
           /\ count'[x] = count[x] /\ wait_queue'[x] = wait_queue[x]
           /\ \A u \in Thread : taken'[u][x] = taken[u][x]
  BY <1>0, <1>1, <1>2, DownPermits, Zenon
<1>4. /\ Tabled(s)' % UsizeMod = Tabled(s) % UsizeMod
      /\ \A x \in Semaphore \ {s} :
           /\ semaphore_available'[x] = semaphore_available[x]
           /\ \A u \in Thread : semaphore_allocation'[u][x] = semaphore_allocation[u][x]
  <2>1. CASE UNCHANGED <<semaphore_available, semaphore_allocation>>
    BY <2>1, Zenon DEF Tabled
  <2>2. CASE /\ semaphore_available' = [semaphore_available EXCEPT ![s] = Dec(@)]
             /\ semaphore_allocation' = [semaphore_allocation EXCEPT ![i][s] = Inc(@)]
    <3>1. /\ \A x \in Semaphore \ {s} :
               /\ semaphore_available'[x] = semaphore_available[x]
               /\ \A u \in Thread : semaphore_allocation'[u][x] = semaphore_allocation[u][x]
          /\ semaphore_available'[s] = Dec(semaphore_available[s])
          /\ semaphore_allocation'[i][s] = Inc(semaphore_allocation[i][s])
          /\ \A u \in Thread \ {i} : semaphore_allocation'[u][s] = semaphore_allocation[u][s]
      BY <1>0, <2>2 DEF TablesType
    <3>2. /\ semaphore_available'[s] = (semaphore_available[s] - 1) % UsizeMod
          /\ semaphore_allocation'[i][s] = (semaphore_allocation[i][s] + 1) % UsizeMod
      BY <3>1, Zenon DEF Inc, Dec
    <3>3. 1 \in {-1, 1}
      OBVIOUS
    <3>4. Tabled(s)' % UsizeMod = Tabled(s) % UsizeMod
      BY <1>0, <3>1, <3>2, <3>3, TabledMove, Zenon
    <3> QED BY <3>1, <3>4, Zenon
  <2> QED BY <1>1, <2>1, <2>2, Zenon
<1> QED BY <1>0, <1>1, <1>3, <1>4, PermitsMove, Zenon

(* And sys_semaphore_up.                                                   *)
LEMMA SysUpPermits ==
  ASSUME SyncInv, TypeOK', TablesType, TablesType', TidsOK, PermitsOK, NEW t \in Thread,
         NEW s \in Semaphore, SysSemaphoreUp(t, s)
  PROVE  PermitsOK'
<1> DEFINE i == tid[t]
<1>0. TypeOK /\ UsizeMod \in Nat /\ i \in Thread
  BY TableAssumption DEF SyncInv, TidsOK
<1> DEFINE mid == [taken EXCEPT ![t][s] = @ - 1]
           W == IF count[s] < 0 THEN Range(Popped(wait_queue[s])) ELSE {}
<1>1. /\ s \in semaphore_list /\ semaphore_list' = semaphore_list /\ SemaphoreUp(t, s)
      /\ semaphore_available' = [semaphore_available EXCEPT ![s] = Inc(@)]
      /\ semaphore_allocation' = [semaphore_allocation EXCEPT ![i][s] = Dec(@)]
      /\ taken' = Grant(mid, W, s)
  BY Zenon DEF SysSemaphoreUp, lists
<1> HIDE DEF i
<1>2. mid \in [Thread -> [Semaphore -> Int]] /\ GivenBack(taken, mid, t, s)
  <2>1. taken \in [Thread -> [Semaphore -> Int]]
    BY Zenon DEF TablesType
  <2> QED BY <2>1 DEF GivenBack
<1> HIDE DEF mid
<1>3. Granted(mid, taken', W, s)
  BY <1>1, <1>2, GrantedBy, Zenon
<1>4. /\ Permits(s)' = Permits(s)
      /\ \A x \in Semaphore \ {s} :
           /\ count'[x] = count[x] /\ wait_queue'[x] = wait_queue[x]
           /\ \A u \in Thread : taken'[u][x] = taken[u][x]
  BY <1>1, <1>2, <1>3, UpPermits, Zenon
<1>5. /\ \A x \in Semaphore \ {s} :
           /\ semaphore_available'[x] = semaphore_available[x]
           /\ \A u \in Thread : semaphore_allocation'[u][x] = semaphore_allocation[u][x]
      /\ semaphore_available'[s] = Inc(semaphore_available[s])
      /\ semaphore_allocation'[i][s] = Dec(semaphore_allocation[i][s])
      /\ \A u \in Thread \ {i} : semaphore_allocation'[u][s] = semaphore_allocation[u][s]
  BY <1>0, <1>1 DEF TablesType
<1>6. semaphore_available[s] \in Int /\ semaphore_allocation[i][s] \in Int
  BY <1>0, IntegerTables
<1>7. /\ semaphore_available'[s] = (semaphore_available[s] - (-1)) % UsizeMod
      /\ semaphore_allocation'[i][s] = (semaphore_allocation[i][s] + (-1)) % UsizeMod
  <2>1. /\ semaphore_available[s] + 1 = semaphore_available[s] - (-1)
        /\ semaphore_allocation[i][s] - 1 = semaphore_allocation[i][s] + (-1)
    BY <1>6
  <2> QED BY <1>5, <2>1, Zenon DEF Inc, Dec
<1>8. Tabled(s)' % UsizeMod = Tabled(s) % UsizeMod
  BY <1>0, <1>5, <1>7, TabledMove, Zenon
<1> QED BY <1>0, <1>1, <1>4, <1>5, <1>8, PermitsMove, Zenon

(* Every call keeps the permits of the tables and of the semaphores equal.   *)
LEMMA PermitsStep ==
  ASSUME SyncInv, TypeOK', TablesType, TablesType', TidsOK, PermitsOK, [DetNext]_detVars
  PROVE  PermitsOK'
<1>q. \A s \in Semaphore : s \in Queued /\ s \notin BlockingMutex /\ s \notin Condvar
  BY ObjectAssumption DEF Queued
<1>t. wait_queue \in [Queued -> Seq(Task)] /\ semaphore_list \subseteq Semaphore /\ TypeOK
  BY DEF SyncInv, TypeOK, TablesType
<1>u. ASSUME NEW m \in Mutex, NEW s \in Semaphore
      PROVE  UnlockQueues(m)[s] = wait_queue[s] /\ DOMAIN UnlockQueues(m) = Queued
  BY <1>q, <1>t DEF UnlockQueues
<1>0. ASSUME UNCHANGED <<count, semaphore_list, semTables, taken>>,
             \A s \in Semaphore : wait_queue'[s] = wait_queue[s]
      PROVE  PermitsOK'
  BY <1>0, <1>t, PermitsUntouched, Zenon DEF semTables
<1>1. CASE OtherStep
  <2>0. UNCHANGED <<semaphore_list, semTables, taken>>
    BY <1>1, Zenon DEF OtherStep, lists
  <2>1. ASSUME UNCHANGED <<wait_queue, count>> PROVE PermitsOK'
    BY <1>0, <2>0, <2>1, Zenon
  <2>2. CASE Dispatch \/ Tick
    BY <2>1, <2>2, Zenon DEF Dispatch, Tick, objVars
  <2>3. ASSUME NEW t \in Task, SysYield(t) \/ TimerTrap(t) PROVE PermitsOK'
    BY <2>1, <2>3, Zenon DEF SysYield, TimerTrap, objVars
  <2>5. ASSUME NEW t \in Thread, NEW ms \in Durations, SysSleep(t, ms) PROVE PermitsOK'
    BY <2>1, <2>5, Zenon DEF SysSleep, objVars
  <2>6. ASSUME NEW t \in Thread, NEW c \in Condvar, CondvarSignal(t, c) PROVE PermitsOK'
    <3>1. \A s \in Semaphore : wait_queue'[s] = wait_queue[s]
      BY <1>q, <1>t, <2>6 DEF CondvarSignal
    <3> QED BY <1>0, <2>0, <2>6, <3>1, Zenon DEF CondvarSignal
  <2>7. ASSUME NEW t \in Thread, ResumeLock(t) PROVE PermitsOK'
    <3>1. Lock(t, kmutex[t]) /\ count' = count
      BY <2>7, Zenon DEF ResumeLock
    <3>2. \A s \in Semaphore : wait_queue'[s] = wait_queue[s]
      BY <1>q, <1>t, <3>1 DEF Lock, LockFree, LockBlocks, LockSpins
    <3> QED BY <1>0, <2>0, <3>1, <3>2, Zenon
  <2>8. ASSUME NEW t \in Thread, ResumeGranted(t) PROVE PermitsOK'
    BY <2>1, <2>8, Zenon DEF ResumeGranted, objVars
  <2> QED BY <1>1, <2>2, <2>3, <2>5, <2>6, <2>7, <2>8, Zenon DEF OtherStep
<1>2. ASSUME NEW t \in Thread, NEW m \in Mutex, MutexLockRefused(t, m) \/ SysMutexCreate(t, m)
      PROVE  PermitsOK'
  <2>1. UNCHANGED <<semaphore_list, semTables, taken, wait_queue, count>>
    BY <1>2, Zenon DEF MutexLockRefused, SysMutexCreate, lists, vars, objVars
  <2> QED BY <1>0, <2>1, Zenon
<1>3. ASSUME NEW t \in Thread, NEW m \in Mutex, SysMutexLock(t, m) PROVE PermitsOK'
  <2>1. UNCHANGED <<semaphore_list, semTables, taken, count>> /\ Lock(t, m)
    BY <1>3, Zenon DEF SysMutexLock, MutexLock, lists
  <2>2. \A s \in Semaphore : wait_queue'[s] = wait_queue[s]
    BY <1>q, <1>t, <2>1 DEF Lock, LockFree, LockBlocks, LockSpins
  <2> QED BY <1>0, <2>1, <2>2, Zenon
<1>4. ASSUME NEW t \in Thread, NEW m \in Mutex, SysMutexUnlock(t, m) PROVE PermitsOK'
  <2>1. UNCHANGED <<semaphore_list, semTables, taken, count>> /\ wait_queue' = UnlockQueues(m)
    BY <1>4, Zenon DEF SysMutexUnlock, MutexUnlock, lists
  <2> QED BY <1>0, <1>u, <2>1, Zenon
<1>5. ASSUME NEW t \in Thread, NEW m \in Mutex, NEW c \in Condvar, SysCondvarWait(t, c, m)
      PROVE  PermitsOK'
  <2>1. /\ UNCHANGED <<semaphore_list, semTables, taken, count>>
        /\ wait_queue' = [UnlockQueues(m) EXCEPT ![c] = Append(@, t)]
    BY ZenonT(30), <1>5 DEF SysCondvarWait, CondvarWait, lists
  <2>2. \A s \in Semaphore : wait_queue'[s] = wait_queue[s]
    BY <1>q, <1>u, <2>1
  <2> QED BY <1>0, <2>1, <2>2, Zenon
<1>6. ASSUME NEW t \in Thread, NEW s \in Semaphore, SemaphoreDownRefused(t, s) PROVE PermitsOK'
  <2>1. UNCHANGED <<semaphore_list, semaphore_available, semaphore_allocation, taken,
                    wait_queue, count>>
    BY <1>6, Zenon DEF SemaphoreDownRefused, lists, vars, objVars
  <2> QED BY <1>t, <2>1, PermitsUntouched, Zenon
<1>7. ASSUME NEW t \in Thread,
             \/ \E e \in EnableArgs : SysEnableDeadlockDetect(t, e)
             \/ ExitGivesTidBack(t) \/ \E u \in Thread : SysThreadCreate(t, u)
      PROVE  PermitsOK'
  <2>1. UNCHANGED <<semaphore_list, semTables, taken, wait_queue, count>>
    BY <1>7, Zenon DEF SysEnableDeadlockDetect, SysThreadCreate, ThreadCreate,
                       ExitGivesTidBack, SysExit, lists, vars, objVars
  <2> QED BY <1>0, <2>1, Zenon
<1>8. CASE UNCHANGED detVars
  <2>1. UNCHANGED <<semaphore_list, semTables, taken, wait_queue, count>>
    BY <1>8, Zenon DEF detVars, lists, vars, objVars
  <2> QED BY <1>0, <2>1, Zenon
<1>9. ASSUME NEW t \in Thread, NEW s \in Semaphore,
             SysSemaphoreCreate(t, s) \/ SysSemaphoreDown(t, s) \/ SysSemaphoreUp(t, s)
      PROVE  PermitsOK'
  BY <1>t, <1>9, CreatePermits, SysDownPermits, SysUpPermits, Zenon
<1> QED BY <1>1, <1>2, <1>3, <1>4, <1>5, <1>6, <1>7, <1>8, <1>9, Zenon DEF DetNext

-----------------------------------------------------------------------------
(* It holds in every state.                                                *)
LEMMA TablesInvHolds == DetSpec => []TablesInv
<1>1. DetInit => TablesInv
  BY TablesTypeInit, TidsInit, ClaimsInit, PermitsInit, Zenon DEF TablesInv
<1>2. SyncInv /\ SyncInv' /\ TablesInv /\ [DetNext]_detVars => TablesInv'
  <2> SUFFICES ASSUME SyncInv, SyncInv', TablesInv, [DetNext]_detVars PROVE TablesInv'
    BY Zenon
  <2>1. TablesType'
    BY TablesTypeStep, Zenon DEF TablesInv
  <2>2. ClaimsOK'
    BY <2>1, ClaimsStep, Zenon DEF TablesInv
  <2>3. PermitsOK'
    BY <2>1, PermitsStep, Zenon DEF TablesInv, SyncInv
  <2>4. TidsOK'
    BY TidsStep, Zenon DEF TablesInv, SyncInv
  <2> QED BY <2>1, <2>2, <2>3, <2>4, Zenon DEF TablesInv
<1> QED BY <1>1, <1>2, SyncInvHolds, PTL DEF DetSpec

(* Every entry of the tables stays a usize, whatever the calls: the          *)
(* increments and decrements of sync.rs wrap and never leave the type.      *)
THEOREM DetTypes == DetSpec => []DetTypeOK
<1>1. SyncInv /\ TablesInv => DetTypeOK
  BY Zenon DEF SyncInv, TablesInv, TablesType, TidsOK, DetTypeOK
<1> QED BY <1>1, SyncInvHolds, TablesInvHolds, PTL

(* mutex_allocation and mutex_available never drift from the claims of the  *)
(* threads, Condvar::wait included, which goes behind the tables' back: a   *)
(* row counts those of every thread that has or had its tid, so that a new  *)
(* thread starts with what an exited one left locked.                      *)
THEOREM MutexTablesCount == DetSpec => []MutexTablesCountClaims
<1>1. SyncInv /\ TablesInv => MutexTablesCountClaims
  BY ClaimsImply, Zenon DEF SyncInv, TablesInv
<1> QED BY <1>1, SyncInvHolds, TablesInvHolds, PTL

(* sys_semaphore_down and sys_semaphore_up neither lose nor create a permit *)
(* in the tables, refused, blocked and woken calls included.                *)
THEOREM SemaphoreTablesKeep == DetSpec => []SemaphoreTablesConserve
<1>1. TablesInv => SemaphoreTablesConserve
  BY Zenon DEF TablesInv, PermitsOK
<1> QED BY <1>1, TablesInvHolds, PTL

-----------------------------------------------------------------------------
(* A process that never had a second thread.                               *)

(* A lone thread is let lock a mutex only while it is free: its own claim   *)
(* would have left nothing available, and its need is at least one.         *)
LEMMA LoneLock ==
  ASSUME MaxNeed < UsizeMod - 1, SyncInv, TablesInv, LoneOK, Created = {Main}, NEW m \in Mutex,
         SysMutexLock(Main, m)
  PROVE  LockFree(Main, m)
<1>0. /\ Main \in Thread /\ Main \in Task /\ Thread \subseteq Task /\ NoMutex \notin Mutex
      /\ m \in mutex_list /\ kpc[Main] = "user" /\ Lock(Main, m)
      /\ UsizeMod \in Nat /\ UsizeMod > 2 /\ MaxNeed \in Nat
  BY ThreadAssumption, ObjectAssumption, TableAssumption, UsizeFits
     DEF Task, SysMutexLock, MutexLock, InUser
<1>1. \A u \in Task \ {Main} : held[u] = {} /\ kpc[u] = "user"
  <2>1. \A u \in Thread \ {Main} : res[u] = "New"
    BY Zenon DEF Created
  <2> QED BY <2>1, Zenon DEF SyncInv, UnbornIdle
<1>t. tid[Main] = Main /\ Tids = {Main}
  BY TidAssumption, UsizeFits DEF TablesInv, TidsOK, Tids
<1>2. \A u \in Thread \ {Main} : Claims(u, m) = 0
  <2>1. \A u \in Thread \ {Main} : kmutex[u] = NoMutex /\ held[u] = {}
    BY <1>0, <1>1, Zenon DEF SyncInv, TypeOK, FrameOK
  <2> QED BY <1>0, <2>1 DEF Claims
<1>3. mutex_available[m] >= 1
  <2>1. deadlock_detect /\ ~MutexDeadlock([mutex_need EXCEPT ![Main][m] = Inc(@)], m)
    BY <1>t, Zenon DEF LoneOK, SysMutexLock
  <2>2. ~([mutex_need EXCEPT ![Main][m] = Inc(@)][Main][m] > mutex_available[m])
    BY <1>t, <2>1, Zenon DEF MutexDeadlock
  <2>3. mutex_need \in [Thread -> [Mutex -> Usize]] /\ mutex_need[Main][m] \in 0 .. MaxNeed
    <3>1. mutex_need \in [Thread -> [Mutex -> Usize]] /\ mutex_available[m] \in Usize
      BY DEF TablesInv, TablesType
    <3>2. mutex_need[Main][m] <= MaxNeed
      BY <1>0, Zenon DEF LoneOK
    <3> QED BY SMTT(20), <1>0, <3>1, <3>2 DEF Usize
  <2>4. [mutex_need EXCEPT ![Main][m] = Inc(@)][Main][m] = Inc(mutex_need[Main][m])
    BY <1>0, <2>3
  <2>5. Inc(mutex_need[Main][m]) = mutex_need[Main][m] + 1
    BY <1>0, <2>3 DEF Inc
  <2>6. mutex_available[m] \in Int
    BY Zenon, CountsFit DEF TablesInv, TablesType
  <2> QED BY SMTT(20), <2>2, <2>3, <2>4, <2>5, <2>6
<1>4. m \notin held[Main]
  <2> SUFFICES ASSUME m \in held[Main] PROVE FALSE
    OBVIOUS
  <2>1. Claims(Main, m) = 1
    <3>1. kmutex[Main] = NoMutex
      BY <1>0 DEF SyncInv, TypeOK, FrameOK
    <3> QED BY <1>0, <3>1 DEF Claims
  <2> DEFINE f == [u \in Thread |-> 0]
             g == [u \in Thread |-> Claims(u, m)]
  <2>2. f \in [Thread -> Int] /\ (\A u \in Thread : f[u] = 0) /\ f[Main] = 0
    BY <1>0
  <2>3. g \in [Thread -> Int] /\ g[Main] = 1 /\ \A u \in Thread \ {Main} : g[u] = f[u]
    BY <1>0, <1>2, <2>1
  <2>4. mutex_available[m] = (1 - SumOver(g)) % UsizeMod
    BY <1>0, Zenon DEF TablesInv, ClaimsOK, AllClaims
  <2> HIDE DEF f, g
  <2>5. SumOver(f) = 0
    BY <2>2, SumZero, Zenon
  <2>6. SumOver(g) = SumOver(f) + g[Main] - f[Main]
    BY <1>0, <2>2, <2>3, SumChange, Zenon
  <2>7. SumOver(g) = 1
    BY SMTT(20), <2>2, <2>3, <2>5, <2>6
  <2> QED BY <1>0, <1>3, <2>4, <2>7
<1>5. \A u \in Task : ~Owns(u, m)
  BY <1>0, <1>1, <1>4, Zenon DEF Owns
<1>6. ~locked[m]
  BY <1>5, Zenon DEF SyncInv, LockInv
<1> QED BY <1>0, <1>6, Zenon DEF Lock, LockBlocks, LockSpins

(* What the main thread does while it is alone.                            *)
LEMMA LoneMain ==
  ASSUME MaxNeed < UsizeMod - 1, SyncInv, TypeOK', TablesInv, LoneOK, [DetNext]_detVars,
         Created = {Main}
  PROVE  /\ kpc'[Main] \in {"user", "relock"}
         /\ kpc'[Main] = "relock" => \E c \in Condvar : Main \in Range(wait_queue'[c])
<1> DEFINE Goal == /\ kpc'[Main] \in {"user", "relock"}
                   /\ kpc'[Main] = "relock" => \E c \in Condvar : Main \in Range(wait_queue'[c])
<1>0. /\ Main \in Thread /\ Main \in Task /\ Thread \subseteq Task /\ TypeOK
      /\ kpc[Main] \in {"user", "relock"}
      /\ kpc[Main] = "relock" => \E c \in Condvar : Main \in Range(wait_queue[c])
      /\ DOMAIN kpc = Task
  BY ThreadAssumption DEF Task, LoneOK, SyncInv, TypeOK
<1>1. \A t \in Thread : current = t => t = Main /\ kpc[t] = "user"
  <2> SUFFICES ASSUME NEW t \in Thread, current = t PROVE t = Main /\ kpc[t] = "user"
    BY Zenon
  <2>1. t # NoTask /\ res[t] = "Some"
    BY ThreadAssumption DEF SyncInv, PlaceInv, OnePlace
  <2>2. t = Main
    BY <2>1 DEF Created
  <2>3. \A c \in Condvar : Main \notin Range(wait_queue[c])
    BY <2>1, <2>2, RunningWaitsNowhere, Zenon DEF SyncInv, Queued
  <2> QED BY <1>0, <2>2, <2>3, Zenon
<1>2. ASSUME kpc' = kpc, wait_queue' = wait_queue PROVE Goal
  BY <1>0, <1>2, Zenon
<1>3. ASSUME NEW t \in Thread, current = t, kpc' = kpc PROVE Goal
  BY <1>1, <1>3, Zenon
<1> HIDE DEF Goal
<1>4. ASSUME UNCHANGED detVars PROVE Goal
  BY <1>2, <1>4, Zenon DEF detVars, vars, objVars, stackVars
<1>5. ASSUME OtherStep PROVE Goal
  <2>1. ASSUME Dispatch \/ Tick PROVE Goal
    BY <1>2, <2>1, Zenon DEF Dispatch, Tick, objVars, stackVars
  <2>2. ASSUME NEW t \in Task, SysYield(t) \/ TimerTrap(t) PROVE Goal
    BY <1>2, <2>2, Zenon DEF SysYield, TimerTrap, objVars, stackVars
  <2>3. ASSUME NEW t \in Thread, ResumeLock(t) \/ ResumeGranted(t) PROVE FALSE
    BY <1>1, <2>3 DEF ResumeLock, ResumeGranted
  <2>4. ASSUME NEW t \in Thread, \/ \E c \in Condvar : CondvarSignal(t, c)
                                 \/ \E ms \in Durations : SysSleep(t, ms)
        PROVE  Goal
    <3>1. current = t /\ kpc' = kpc
      BY <2>4, Zenon DEF CondvarSignal, SysSleep, InUser, stackVars
    <3> QED BY <1>3, <3>1, Zenon
  <2> QED BY <1>5, <2>1, <2>2, <2>3, <2>4, Zenon DEF OtherStep
<1>6. ASSUME NEW t \in Thread, NEW m \in Mutex, SysMutexLock(t, m) PROVE Goal
  <2>1. t = Main
    BY <1>1, <1>6, Zenon DEF SysMutexLock, MutexLock, InUser
  <2>2. LockFree(Main, m)
    BY ZenonT(30), <1>6, <2>1, LoneLock
  <2>3. kpc'[Main] = "user"
    BY <1>0, <2>2 DEF LockFree, LockReturns, Frame
  <2> QED BY <2>3 DEF Goal
<1>7. ASSUME NEW t \in Thread, NEW m \in Mutex, NEW c \in Condvar, SysCondvarWait(t, c, m)
      PROVE  Goal
  <2>1. /\ t = Main /\ kpc' = [kpc EXCEPT ![t] = "relock"]
        /\ wait_queue' = [UnlockQueues(m) EXCEPT ![c] = Append(@, t)]
    BY <1>1, <1>7, Zenon DEF SysCondvarWait, CondvarWait, InUser, Frame
  <2>2. kpc'[Main] = "relock"
    BY <1>0, <2>1
  <2>3. c \in Queued /\ UnlockQueues(m) \in [Queued -> Seq(Task)]
    BY Zenon, <1>0, UnlockTypes DEF Queued
  <2>4. wait_queue'[c] = Append(UnlockQueues(m)[c], Main) /\ UnlockQueues(m)[c] \in Seq(Task)
    BY <2>1, <2>3
  <2>5. Main \in Range(wait_queue'[c])
    BY <1>0, <2>4, AppendSet
  <2> QED BY <2>2, <2>5 DEF Goal
<1>8. ASSUME NEW t \in Thread, NEW m \in Mutex,
             SysMutexCreate(t, m) \/ MutexLockRefused(t, m) \/ SysMutexUnlock(t, m)
      PROVE  Goal
  <2>1. current = t /\ kpc' = kpc
    BY <1>8, Zenon DEF SysMutexCreate, MutexLockRefused, SysMutexUnlock, MutexUnlock, InUser,
                       vars, stackVars
  <2> QED BY <1>3, <2>1, Zenon
<1>9. ASSUME NEW t \in Thread, NEW s \in Semaphore,
             \/ SysSemaphoreCreate(t, s) \/ SysSemaphoreDown(t, s) \/ SysSemaphoreUp(t, s)
             \/ SemaphoreDownRefused(t, s)
      PROVE  Goal
  <2>1. current = t /\ kpc' = kpc
    BY <1>9, Zenon DEF SysSemaphoreCreate, SysSemaphoreDown, SysSemaphoreUp,
                       SemaphoreDownRefused, SemaphoreUp, SemaphoreDown, InUser, vars, stackVars
  <2> QED BY <1>3, <2>1, Zenon
<1>10. ASSUME NEW t \in Thread, \/ \E e \in EnableArgs : SysEnableDeadlockDetect(t, e)
                                \/ ExitGivesTidBack(t) \/ \E u \in Thread : SysThreadCreate(t, u)
       PROVE  Goal
  <2>1. current = t /\ kpc' = kpc
    BY <1>10, Zenon DEF SysEnableDeadlockDetect, SysThreadCreate, ThreadCreate,
                        ExitGivesTidBack, SysExit, InUser, vars, stackVars
  <2> QED BY <1>3, <2>1, Zenon
<1>11. Goal
  BY <1>4, <1>5, <1>6, <1>7, <1>8, <1>9, <1>10, Zenon DEF DetNext
<1> QED BY SMTT(20), <1>11 DEF Goal

(* Every step keeps the account of the lone thread.                        *)
LEMMA LoneStep ==
  ASSUME 0 \notin EnableArgs, MaxNeed < UsizeMod - 1, SyncInv, TypeOK', TablesInv, LoneOK,
         [DetNext]_detVars
  PROVE  LoneOK'
<1>0. Main \in Thread /\ Thread \subseteq Task /\ TypeOK /\ TablesType /\ TidsOK /\ [Next]_vars
  BY ThreadAssumption, StepIsSync, Zenon DEF Task, SyncInv, TablesInv
<1>1. deadlock_detect' /\ \A i \in Thread, m \in Mutex : mutex_need'[i][m] <= MaxNeed
  BY <1>0, LoneTables, Zenon
<1>2. \A t \in Task : res[t] # "New" => res'[t] # "New"
  BY <1>0, CreatedGrow, Zenon
<1>3. ASSUME Created' = {Main}
      PROVE  /\ kpc'[Main] \in {"user", "relock"}
             /\ kpc'[Main] = "relock" => \E c \in Condvar : Main \in Range(wait_queue'[c])
  <2>1. Main \in Created
    BY <1>0, TidAssumption, UsizeFits DEF TidsOK, Tids
  <2>2. Created \subseteq Created'
    BY <1>0, <1>2, Zenon DEF Created
  <2>3. Created = {Main}
    BY <1>3, <2>1, <2>2
  <2> QED BY ZenonT(30), <2>3, LoneMain
<1> QED BY <1>1, <1>3, Zenon DEF LoneOK

(* With the detection on since the birth of the process, and as long as no  *)
(* row of needs wraps (a thread would have to be refused UsizeMod - 1, that *)
(* is 2^64 - 1 times), a process of one thread is never stuck in            *)
(* sys_mutex_lock: the lock of a mutex it holds is refused.                 *)
THEOREM LoneThreadRuns ==
  ASSUME InheritDetect, 0 \notin EnableArgs, MaxNeed < UsizeMod - 1
  PROVE  DetSpec => []LoneThreadNotStuck
<1>1. DetInit => LoneOK
  BY LoneInit, Zenon
<1>2. SyncInv /\ SyncInv' /\ TablesInv /\ LoneOK /\ [DetNext]_detVars => LoneOK'
  BY LoneStep, Zenon DEF SyncInv
<1>3. SyncInv /\ LoneOK => LoneThreadNotStuck
  <2> SUFFICES ASSUME SyncInv, LoneOK, Created = {Main}, NEW m \in Mutex,
                      WaitsForMutex(Main, m, NoRequest)
               PROVE  FALSE
    BY Zenon DEF LoneThreadNotStuck
  <2>1. kpc[Main] \in {"user", "relock"}
    BY Zenon DEF LoneOK
  <2>2. NoRequest # <<Main, m>>
    BY DEF NoRequest
  <2>3. m \in BlockingMutex /\ Main \in Range(wait_queue[m])
    BY <2>1, <2>2 DEF WaitsForMutex
  <2>4. kpc[Main] = "granted"
    BY <2>3, Zenon DEF SyncInv, LockInv
  <2> QED BY <2>1, <2>4
<1> QED BY <1>1, <1>2, <1>3, SyncInvHolds, TablesInvHolds, PTL DEF DetSpec
=============================================================================
