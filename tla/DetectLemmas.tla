---------------------------- MODULE DetectLemmas ----------------------------
(***************************************************************************)
(* What the proofs about DeadlockDetect rest on and Sync's invariants have  *)
(* no part in: remainders and sums over the threads, what each table keeps  *)
(* of its type, and what one change of an entry does to the sums.           *)
(***************************************************************************)
EXTENDS DeadlockDetect, FiniteSetTheorems, WellFoundedInduction, TLAPS

(* A thread that was let wait for a mutex it holds itself waits for ever:    *)
(* only it could unlock that mutex.  So lock() never returns to a thread a  *)
(* mutex it has.                                                           *)
SelfWaits ==
  \A t \in Thread, m \in BlockingMutex :
    m \in held[t] /\ kpc[t] = "granted" /\ kmutex[t] = m => t \in Range(wait_queue[m])

(* The mutex part of the inductive invariant.                              *)
ClaimsOK ==
  /\ \A i \in Thread, m \in Mutex : mutex_allocation[i][m] = RowClaims(i, m)
  /\ \A t \in Thread, m \in Mutex \ mutex_list : Claims(t, m) = 0
  /\ \A m \in mutex_list : mutex_available[m] = (1 - AllClaims(m)) % UsizeMod
  /\ SelfWaits

(* Tids are those of threads that were created, so there are never more     *)
(* than threads and each has its rows; the main thread has tid 0 for good.  *)
TidsOK ==
  /\ tid \in [Thread -> Thread] /\ tid[Main] = Main
  /\ task_res_allocator \in [current : 1 .. Cardinality(Thread), recycled : Seq(Thread)]
  /\ Tids \subseteq Created

(* A thread not created yet, like initproc, holds nothing and waits nowhere. *)
UnbornIdle ==
  \A t \in Task : (t \in Thread => res[t] = "New") => held[t] = {} /\ kpc[t] = "user"

(* The semaphore part: nothing has happened to a semaphore not yet created, *)
(* so that sys_semaphore_create enters all its permits.                     *)
PermitsOK ==
  /\ SemaphoreTablesConserve
  /\ \A s \in Semaphore \ semaphore_list :
       /\ count[s] \in ResCounts /\ wait_queue[s] = <<>>
       /\ \A t \in Thread : semaphore_allocation[t][s] = 0 /\ taken[t][s] = 0

(* The process while it has one thread: the main thread is in no lock()     *)
(* but, woken by nobody, in Condvar::wait.                                 *)
LoneOK ==
  /\ deadlock_detect
  /\ \A i \in Thread, m \in Mutex : mutex_need[i][m] <= MaxNeed
  /\ Created = {Main} =>
       /\ kpc[Main] \in {"user", "relock"}
       /\ kpc[Main] = "relock" => \E c \in Condvar : Main \in Range(wait_queue[c])

-----------------------------------------------------------------------------
(* Arithmetic of the table entries.                                        *)

(* The remainder of an integer, and that no other number is one.            *)
LEMMA Remainder ==
  ASSUME NEW x \in Int, NEW n \in Nat, n > 0
  PROVE  /\ x % n \in 0 .. n - 1
         /\ \E k \in Int : x % n = x + k * n
<1>1. x % n \in 0 .. n - 1
  OBVIOUS
<1>2. x = n * (x \div n) + (x % n) /\ x \div n \in Int
  OBVIOUS
<1>3. x % n = x + (-(x \div n)) * n /\ -(x \div n) \in Int
  BY <1>2
<1> QED BY <1>1, <1>3

(* Numbers that differ by a multiple of n have the same remainder.          *)
LEMMA SameRemainder ==
  ASSUME NEW x \in Int, NEW y \in Int, NEW k \in Int, NEW n \in Nat, n > 0, y = x + k * n
  PROVE  y % n = x % n
<1>1. PICK i \in Int : x % n = x + i * n
  BY Remainder
<1>2. PICK j \in Int : y % n = y + j * n
  BY Remainder
<1> DEFINE d == k + j - i
<1>3. d \in Int /\ (y % n) - (x % n) = d * n
  <2>1. (y % n) - (x % n) = k * n + j * n - i * n
    BY <1>1, <1>2
  <2>2. (k + j - i) * n = k * n + j * n - i * n
    OBVIOUS
  <2> QED BY <2>1, <2>2
<1>4. x % n \in 0 .. n - 1 /\ y % n \in 0 .. n - 1
  BY Remainder
<1> HIDE DEF d
<1>5. d > 0 => d * n >= n
  BY <1>3
<1>6. d < 0 => d * n <= -n
  BY <1>3
<1>7. d = 0
  BY <1>3, <1>4, <1>5, <1>6
<1>8. d * n = 0
  BY <1>7
<1> QED BY <1>3, <1>4, <1>8

(* Counting on from a remainder.                                           *)
LEMMA RemainderPlus ==
  ASSUME NEW x \in Int, NEW y \in Int, NEW n \in Nat, n > 0
  PROVE  ((x % n) + y) % n = (x + y) % n
<1>1. PICK k \in Int : x % n = x + k * n
  BY Remainder
<1> DEFINE z == (x % n) + y
<1>2. z \in Int /\ z = (x + y) + k * n /\ x + y \in Int
  BY <1>1, Remainder
<1> HIDE DEF z
<1>3. z % n = (x + y) % n
  BY ZenonT(30), <1>2, SameRemainder
<1> QED BY <1>3 DEF z

-----------------------------------------------------------------------------
(* Sums over the threads.                                                  *)

(* A set of numbers that has 0, and n + 1 with each n below N, has N.        *)
LEMMA UpTo ==
  ASSUME NEW N \in Nat, NEW G, 0 \in G, \A n \in Nat : n < N /\ n \in G => n + 1 \in G
  PROVE  \A n \in 0 .. N : n \in G
<1> DEFINE Bad == (0 .. N) \ G
<1>1. SUFFICES ASSUME Bad # {} PROVE FALSE
  BY Zenon
<1>2. PICK n \in Bad : \A j \in Bad : ~(<<j, n>> \in OpToRel(<, Nat))
  <2>1. Bad \subseteq Nat
    OBVIOUS
  <2> HIDE DEF Bad
  <2> QED BY Zenon, <1>1, <2>1, NatLessThanWellFounded, WFMin
<1>3. \A j \in Bad : ~(j < n)
  <2>1. \A j \in Bad : j \in Nat /\ n \in Nat
    OBVIOUS
  <2> HIDE DEF Bad
  <2> QED BY Zenon, <1>2, <2>1 DEF OpToRel
<1>4. n \in 1 .. N
  OBVIOUS
<1>5. n - 1 \in 0 .. N /\ n - 1 < n /\ n - 1 < N /\ n - 1 \in Nat /\ n = (n - 1) + 1
  BY <1>4
<1>6. n - 1 \in G
  BY <1>3, <1>5
<1>7. n \in G
  BY Zenon, <1>5, <1>6
<1> QED BY <1>7

(* The partial sums of SumOver exist.                                       *)
LEMMA PartialSums ==
  ASSUME NEW f, NEW N \in Nat
  PROVE  \E S : S = [n \in 0 .. N |-> IF n = 0 THEN 0 ELSE S[n - 1] + f[n - 1]]
<1> DEFINE Val(S, n) == IF n = 0 THEN 0 ELSE S[n - 1] + f[n - 1]
           G == {k \in Nat : \E S : S = [n \in 0 .. k |-> Val(S, n)]}
<1>1. 0 \in G
  <2> DEFINE S == [n \in 0 .. 0 |-> 0]
  <2>1. S = [n \in 0 .. 0 |-> Val(S, n)]
    OBVIOUS
  <2> HIDE DEF S, Val
  <2> QED BY <2>1
<1>2. ASSUME NEW k \in Nat, k < N, k \in G PROVE k + 1 \in G
  <2>1. PICK S : S = [n \in 0 .. k |-> Val(S, n)]
    BY <1>2
  <2> DEFINE R == [n \in 0 .. (k + 1) |-> IF n = k + 1 THEN Val(S, n) ELSE S[n]]
  <2>2. ASSUME NEW n \in 0 .. (k + 1) PROVE R[n] = Val(R, n)
    <3>1. n # 0 => R[n - 1] = S[n - 1]
      OBVIOUS
    <3>2. Val(R, n) = Val(S, n)
      BY <3>1
    <3>3. n # k + 1 => S[n] = Val(S, n)
      <4>1. n # k + 1 => n \in 0 .. k
        OBVIOUS
      <4> HIDE DEF Val
      <4> QED BY <2>1, <4>1
    <3> QED BY <3>2, <3>3
  <2>3. R = [n \in 0 .. (k + 1) |-> Val(R, n)]
    BY <2>2
  <2> HIDE DEF R, Val
  <2> QED BY <2>3
<1>3. N \in G
  <2> HIDE DEF G
  <2>1. \A n \in 0 .. N : n \in G
    BY Zenon, <1>1, <1>2, UpTo
  <2> QED BY <2>1
<1> QED BY <1>3

(* The partial sums, and what they add up to.                               *)
LEMMA SumSteps ==
  ASSUME NEW f \in [Thread -> Int]
  PROVE  \E S \in [0 .. Cardinality(Thread) -> Int] :
           /\ S[0] = 0 /\ SumOver(f) = S[Cardinality(Thread)]
           /\ \A n \in Thread : S[n + 1] = S[n] + f[n]
<1> DEFINE N == Cardinality(Thread)
           Val(S, n) == IF n = 0 THEN 0 ELSE S[n - 1] + f[n - 1]
           S == CHOOSE S : S = [n \in 0 .. N |-> Val(S, n)]
<1>1. N \in Nat /\ Thread = 0 .. N - 1
  BY ThreadAssumption, TidAssumption, FS_CardinalityType
<1> HIDE DEF N
<1>2. S = [n \in 0 .. N |-> Val(S, n)]
  <2>1. \E R : R = [n \in 0 .. N |-> Val(R, n)]
    BY Zenon, <1>1, PartialSums
  <2> HIDE DEF Val
  <2> QED BY Zenon, <2>1
<1>3. SumOver(f) = S[N]
  BY DEF SumOver, N
<1> HIDE DEF S
<1>4. \A n \in 0 .. N : S[n] = Val(S, n)
  <2> HIDE DEF Val
  <2> QED BY Zenon, <1>2
<1>5. S[0] = 0
  BY <1>1, <1>4
<1>6. \A n \in Thread : S[n + 1] = S[n] + f[n]
  BY <1>1, <1>4
<1>7. \A n \in 0 .. N : S[n] \in Int
  <2> DEFINE G == {n \in 0 .. N : S[n] \in Int}
  <2>1. 0 \in G
    BY <1>1, <1>5
  <2>2. \A n \in Nat : n < N /\ n \in G => n + 1 \in G
    BY <1>1, <1>6
  <2> HIDE DEF G
  <2>3. \A n \in 0 .. N : n \in G
    BY Zenon, <1>1, <2>1, <2>2, UpTo
  <2> QED BY <2>3 DEF G
<1>8. S \in [0 .. N -> Int]
  BY <1>2, <1>7
<1> QED BY Zenon, <1>3, <1>5, <1>6, <1>8 DEF N

(* A change of one entry changes the sum by as much.                        *)
LEMMA SumChange ==
  ASSUME NEW f \in [Thread -> Int], NEW g \in [Thread -> Int], NEW t \in Thread,
         \A u \in Thread \ {t} : g[u] = f[u]
  PROVE  SumOver(f) \in Int /\ SumOver(g) = SumOver(f) + g[t] - f[t]
<1> DEFINE N == Cardinality(Thread)
<1>1. N \in Nat /\ Thread = 0 .. N - 1
  BY ThreadAssumption, TidAssumption, FS_CardinalityType
<1>2. PICK S \in [0 .. N -> Int] : /\ S[0] = 0 /\ SumOver(f) = S[N]
                                  /\ \A n \in Thread : S[n + 1] = S[n] + f[n]
  BY SumSteps
<1>3. PICK R \in [0 .. N -> Int] : /\ R[0] = 0 /\ SumOver(g) = R[N]
                                  /\ \A n \in Thread : R[n + 1] = R[n] + g[n]
  BY SumSteps
<1> HIDE DEF N
<1> DEFINE G == {n \in 0 .. N : R[n] = IF n > t THEN S[n] + g[t] - f[t] ELSE S[n]}
<1>4. 0 \in G
  BY <1>1, <1>2, <1>3
<1>5. ASSUME NEW n \in Nat, n < N, n \in G PROVE n + 1 \in G
  <2>1. n \in Thread /\ n + 1 \in 0 .. N
    BY <1>1, <1>5
  <2>2. S[n + 1] = S[n] + f[n] /\ R[n + 1] = R[n] + g[n]
    BY <1>2, <1>3, <2>1
  <2>3. n # t => g[n] = f[n]
    BY <2>1
  <2>4. S[n] \in Int /\ f[n] \in Int /\ g[n] \in Int /\ f[t] \in Int /\ g[t] \in Int /\ t \in Int
    BY <1>1, <2>1
  <2>5. R[n] = IF n > t THEN S[n] + g[t] - f[t] ELSE S[n]
    BY <1>5
  <2>6. R[n + 1] = IF n + 1 > t THEN S[n + 1] + g[t] - f[t] ELSE S[n + 1]
    BY <2>2, <2>3, <2>4, <2>5
  <2> QED BY <2>1, <2>6
<1>6. N \in G
  <2> HIDE DEF G
  <2>1. \A n \in 0 .. N : n \in G
    BY Zenon, <1>1, <1>4, <1>5, UpTo
  <2> QED BY <1>1, <2>1
<1> QED BY <1>1, <1>2, <1>3, <1>6

(* The sum of zeros.                                                       *)
LEMMA SumZero ==
  ASSUME NEW f \in [Thread -> Int], \A u \in Thread : f[u] = 0
  PROVE  SumOver(f) = 0
<1> DEFINE N == Cardinality(Thread)
<1>1. N \in Nat /\ Thread = 0 .. N - 1
  BY ThreadAssumption, TidAssumption, FS_CardinalityType
<1>2. PICK S \in [0 .. N -> Int] : /\ S[0] = 0 /\ SumOver(f) = S[N]
                                  /\ \A n \in Thread : S[n + 1] = S[n] + f[n]
  BY SumSteps
<1> HIDE DEF N
<1> DEFINE G == {n \in 0 .. N : S[n] = 0}
<1>3. 0 \in G
  BY <1>1, <1>2
<1>4. \A n \in Nat : n < N /\ n \in G => n + 1 \in G
  BY <1>1, <1>2
<1> HIDE DEF G
<1>5. \A n \in 0 .. N : n \in G
  BY Zenon, <1>1, <1>3, <1>4, UpTo
<1> QED BY <1>1, <1>2, <1>5 DEF G

(* The sum of numbers up to 2.                                             *)
LEMMA SumBound ==
  ASSUME NEW f \in [Thread -> 0 .. 2]
  PROVE  SumOver(f) \in 0 .. 2 * Cardinality(Thread)
<1> DEFINE N == Cardinality(Thread)
<1>1. N \in Nat /\ Thread = 0 .. N - 1 /\ f \in [Thread -> Int]
  BY ThreadAssumption, TidAssumption, FS_CardinalityType
<1>2. PICK S \in [0 .. N -> Int] : /\ S[0] = 0 /\ SumOver(f) = S[N]
                                  /\ \A n \in Thread : S[n + 1] = S[n] + f[n]
  BY <1>1, SumSteps
<1> HIDE DEF N
<1> DEFINE G == {n \in 0 .. N : S[n] \in 0 .. 2 * n}
<1>3. 0 \in G
  BY <1>1, <1>2
<1>4. ASSUME NEW n \in Nat, n < N, n \in G PROVE n + 1 \in G
  <2>1. n \in Thread /\ n + 1 \in 0 .. N /\ S[n] \in 0 .. 2 * n
    BY <1>1, <1>4
  <2>2. S[n + 1] = S[n] + f[n] /\ f[n] \in 0 .. 2
    BY <1>2, <2>1, Zenon
  <2>3. S[n + 1] \in 0 .. 2 * (n + 1)
    BY <2>1, <2>2
  <2> QED BY <2>1, <2>3
<1> HIDE DEF G
<1>5. \A n \in 0 .. N : n \in G
  BY Zenon, <1>1, <1>3, <1>4, UpTo
<1>6. S[N] \in 0 .. 2 * N
  BY <1>1, <1>5 DEF G
<1> QED BY <1>2, <1>6 DEF N

-----------------------------------------------------------------------------
(* The calls behind the tables are those of Sync.                           *)

(* Every step, its changes to the tables aside, is a step of Sync or none.  *)
LEMMA StepIsSync == [DetNext]_detVars => [Next]_vars
<1> SUFFICES ASSUME [DetNext]_detVars PROVE [Next]_vars
  OBVIOUS
<1>1. CASE UNCHANGED detVars
  BY <1>1, Zenon DEF detVars
<1>2. CASE DetNext
  <2>0. ~panicked /\ Thread \subseteq Task
    BY <1>2, Zenon DEF DetNext, Task
  <2>1. CASE OtherStep
    BY <2>0, <2>1, Zenon DEF OtherStep, Next, ThreadStep
  <2>2. ASSUME NEW t \in Thread, NEW m \in Mutex, SysMutexLock(t, m) \/ SysMutexUnlock(t, m)
        PROVE  [Next]_vars
    BY <2>0, <2>2, Zenon DEF SysMutexLock, SysMutexUnlock, Next, ThreadStep
  <2>3. ASSUME NEW t \in Thread, NEW m \in Mutex, NEW c \in Condvar, SysCondvarWait(t, c, m)
        PROVE  [Next]_vars
    BY <2>0, <2>3, Zenon DEF SysCondvarWait, Next, ThreadStep
  <2>4. ASSUME NEW t \in Thread, NEW m \in Mutex, SysMutexCreate(t, m) \/ MutexLockRefused(t, m)
        PROVE  UNCHANGED vars
    BY <2>4, Zenon DEF SysMutexCreate, MutexLockRefused
  <2>5. ASSUME NEW t \in Thread, NEW s \in Semaphore, SysSemaphoreDown(t, s) \/ SysSemaphoreUp(t, s)
        PROVE  [Next]_vars
    BY <2>0, <2>5, Zenon DEF SysSemaphoreDown, SysSemaphoreUp, Next, ThreadStep
  <2>6. ASSUME NEW t \in Thread, NEW s \in Semaphore,
               SysSemaphoreCreate(t, s) \/ SemaphoreDownRefused(t, s)
        PROVE  UNCHANGED vars
    BY <2>6, Zenon DEF SysSemaphoreCreate, SemaphoreDownRefused
  <2>7. ASSUME NEW t \in Thread, NEW e \in EnableArgs, SysEnableDeadlockDetect(t, e)
        PROVE  UNCHANGED vars
    BY <2>7, Zenon DEF SysEnableDeadlockDetect
  <2>8. ASSUME NEW t \in Thread, NEW u \in Thread, SysThreadCreate(t, u) PROVE [Next]_vars
    BY <2>0, <2>8, Zenon DEF SysThreadCreate, Next, ThreadStep
  <2>9. ASSUME NEW t \in Thread, ExitGivesTidBack(t) PROVE [Next]_vars
    BY <2>0, <2>9, Zenon DEF ExitGivesTidBack, Next, ThreadStep
  <2> QED BY <1>2, <2>1, <2>2, <2>3, <2>4, <2>5, <2>6, <2>7, <2>8, <2>9, Zenon DEF DetNext
<1> QED BY <1>1, <1>2, Zenon

(* The detection refuses calls but changes none: what threads, locks and    *)
(* queues do behind the tables is what they do in Sync.                     *)
THEOREM DetectorRefinesSync == DetSpec => Spec
<1>1. DetInit => Init
  BY Zenon DEF DetInit
<1> QED BY <1>1, StepIsSync, PTL DEF DetSpec, Spec

(* A usize counts past two claims of each thread.                          *)
LEMMA UsizeFits == UsizeMod \in Nat /\ UsizeMod > 2 /\ Cardinality(Thread) \in Nat
<1>1. Cardinality(Thread) \in Nat /\ Cardinality(Thread) # 0
  BY ThreadAssumption, FS_CardinalityType, FS_EmptySet
<1> QED BY <1>1, TableAssumption

(* An entry stays a usize.                                                 *)
LEMMA Wraps ==
  ASSUME NEW x \in Int
  PROVE  Inc(x) \in Usize /\ Dec(x) \in Usize
<1>1. x + 1 \in Int /\ x - 1 \in Int /\ UsizeMod \in Nat /\ UsizeMod > 0
  BY UsizeFits
<1>2. (x + 1) % UsizeMod \in 0 .. UsizeMod - 1 /\ (x - 1) % UsizeMod \in 0 .. UsizeMod - 1
  BY <1>1, Remainder
<1> QED BY <1>2 DEF Inc, Dec, Usize

(* A table of usizes, or of integers, after a change of one entry.          *)
LEMMA EntryType ==
  ASSUME NEW S, NEW V, NEW f \in [Thread -> [S -> V]], NEW t \in Thread, NEW s \in S, NEW v \in V
  PROVE  /\ [f EXCEPT ![t][s] = v] \in [Thread -> [S -> V]]
         /\ \A u \in Thread, x \in S :
              [f EXCEPT ![t][s] = v][u][x] = IF u = t /\ x = s THEN v ELSE f[u][x]
  OBVIOUS

(* The history after a grant.                                              *)
LEMMA GrantType ==
  ASSUME NEW f \in [Thread -> [Semaphore -> Int]], NEW S, NEW s \in Semaphore
  PROVE  /\ Grant(f, S, s) \in [Thread -> [Semaphore -> Int]]
         /\ \A u \in Thread, x \in Semaphore :
              Grant(f, S, s)[u][x] = IF u \in S /\ x = s THEN f[u][x] + 1 ELSE f[u][x]
<1>1. \A u \in Thread : [f[u] EXCEPT ![s] = @ + 1] \in [Semaphore -> Int]
  OBVIOUS
<1> QED BY <1>1 DEF Grant

(* The tables of the mutexes and semaphores.                               *)
TablesType ==
  /\ deadlock_detect \in BOOLEAN
  /\ mutex_list \subseteq Mutex
  /\ semaphore_list \subseteq Semaphore
  /\ mutex_available \in [Mutex -> Usize]
  /\ mutex_allocation \in [Thread -> [Mutex -> Usize]]
  /\ mutex_need \in [Thread -> [Mutex -> Usize]]
  /\ semaphore_available \in [Semaphore -> Usize]
  /\ semaphore_allocation \in [Thread -> [Semaphore -> Usize]]
  /\ semaphore_need \in [Thread -> [Semaphore -> Usize]]
  /\ taken \in [Thread -> [Semaphore -> Int]]

(* The numbers of permits semaphores are created with fit a usize.          *)
LEMMA CountsFit == ResCounts \subseteq Usize /\ Usize \subseteq Int /\ 0 \in Usize /\ 1 \in Usize
  BY TableAssumption, UsizeFits, BoundAssumption DEF Usize

(* A new process has typed tables.                                         *)
LEMMA TablesTypeInit == DetInit => TablesType
<1>1. InheritDetect \in BOOLEAN /\ 0 \in Usize /\ 0 \in Int
  BY TableAssumption, UsizeFits, CountsFit
<1> QED BY <1>1 DEF DetInit, TablesType

(* Every call leaves them typed.                                           *)
LEMMA TablesTypeStep ==
  ASSUME TablesType, TidsOK, PermitsOK, [DetNext]_detVars
  PROVE  TablesType'
<1> USE DEF TablesType
<1>r. \A t \in Thread : tid[t] \in Thread
  BY Zenon DEF TidsOK
<1>u. Usize \subseteq Int /\ 0 \in Usize /\ 1 \in Usize
  BY CountsFit
<1>w. \A x \in Usize : Inc(x) \in Usize /\ Dec(x) \in Usize
  BY <1>u, Wraps
<1> USE <1>r, <1>w
<1>1. ASSUME NEW t \in Thread, NEW m \in Mutex, SysMutexCreate(t, m) PROVE TablesType'
  BY <1>1, <1>u DEF SysMutexCreate, semTables
<1>2. ASSUME NEW t \in Thread, NEW m \in Mutex, SysMutexLock(t, m) PROVE TablesType'
  BY <1>2 DEF SysMutexLock, semTables, lists
<1>3. ASSUME NEW t \in Thread, NEW m \in Mutex, MutexLockRefused(t, m) PROVE TablesType'
  BY <1>3 DEF MutexLockRefused, semTables, lists
<1>4. ASSUME NEW t \in Thread, NEW m \in Mutex, SysMutexUnlock(t, m) PROVE TablesType'
  BY <1>4 DEF SysMutexUnlock, semTables, lists
<1>5. ASSUME NEW t \in Thread, NEW s \in Semaphore, SysSemaphoreCreate(t, s) PROVE TablesType'
  <2>1. count[s] \in Usize
    BY Zenon, <1>5, CountsFit DEF SysSemaphoreCreate, PermitsOK
  <2> QED BY <1>5, <2>1 DEF SysSemaphoreCreate, mutexTables
<1>6. ASSUME NEW t \in Thread, NEW s \in Semaphore, SysSemaphoreDown(t, s) PROVE TablesType'
  <2>1. /\ taken' = Grant(taken, IF count[s] > 0 THEN {t} ELSE {}, s)
        /\ UNCHANGED <<deadlock_detect, lists, mutexTables>>
    BY <1>6, Zenon DEF SysSemaphoreDown
  <2>2. \/ /\ semaphore_available' = [semaphore_available EXCEPT ![s] = Dec(@)]
           /\ semaphore_allocation' = [semaphore_allocation EXCEPT ![tid[t]][s] = Inc(@)]
           /\ UNCHANGED semaphore_need
        \/ /\ semaphore_need' = [semaphore_need EXCEPT ![tid[t]][s] = Inc(@)]
           /\ UNCHANGED <<semaphore_available, semaphore_allocation>>
    BY <1>6, Zenon DEF SysSemaphoreDown
  <2>3. taken' \in [Thread -> [Semaphore -> Int]]
    BY Zenon, <2>1, GrantType
  <2>4. /\ [semaphore_available EXCEPT ![s] = Dec(@)] \in [Semaphore -> Usize]
        /\ [semaphore_allocation EXCEPT ![tid[t]][s] = Inc(@)] \in [Thread -> [Semaphore -> Usize]]
        /\ [semaphore_need EXCEPT ![tid[t]][s] = Inc(@)] \in [Thread -> [Semaphore -> Usize]]
    OBVIOUS
  <2>5. /\ semaphore_available' \in [Semaphore -> Usize]
        /\ semaphore_allocation' \in [Thread -> [Semaphore -> Usize]]
        /\ semaphore_need' \in [Thread -> [Semaphore -> Usize]]
    BY <2>2, <2>4, Zenon
  <2> QED BY Zenon, <2>1, <2>3, <2>5 DEF mutexTables, lists
<1>7. ASSUME NEW t \in Thread, NEW s \in Semaphore, SemaphoreDownRefused(t, s) PROVE TablesType'
  BY <1>7 DEF SemaphoreDownRefused, mutexTables, lists
<1>8. ASSUME NEW t \in Thread, NEW s \in Semaphore, SysSemaphoreUp(t, s) PROVE TablesType'
  <2>1. [taken EXCEPT ![t][s] = @ - 1] \in [Thread -> [Semaphore -> Int]]
    OBVIOUS
  <2>3. PICK S : taken' = Grant([taken EXCEPT ![t][s] = @ - 1], S, s)
    BY Zenon, <1>8 DEF SysSemaphoreUp
  <2>2. taken' \in [Thread -> [Semaphore -> Int]]
    BY Zenon, <2>1, <2>3, GrantType
  <2> QED BY Zenon, <1>8, <2>2 DEF SysSemaphoreUp, mutexTables, lists
<1>9. ASSUME NEW t \in Thread, NEW e \in EnableArgs, SysEnableDeadlockDetect(t, e)
      PROVE  TablesType'
  BY Zenon, <1>9 DEF SysEnableDeadlockDetect, mutexTables, semTables, lists
<1>10. ASSUME UNCHANGED <<deadlock_detect, lists, mutexTables, semTables, taken>>
       PROVE  TablesType'
  BY <1>10 DEF mutexTables, semTables, lists
<1>11. CASE UNCHANGED detVars
  BY <1>10, <1>11, Zenon DEF detVars
<1>12. CASE OtherStep
  BY <1>10, <1>12, Zenon DEF OtherStep
<1>13. ASSUME NEW t \in Thread, ExitGivesTidBack(t) \/ \E u \in Thread : SysThreadCreate(t, u)
       PROVE  TablesType'
  BY <1>10, <1>13, Zenon DEF SysThreadCreate, ExitGivesTidBack
<1>14. ASSUME NEW t \in Thread, NEW m \in Mutex, NEW c \in Condvar, SysCondvarWait(t, c, m)
       PROVE  TablesType'
  BY <1>10, <1>14, Zenon DEF SysCondvarWait
<1> HIDE DEF TablesType
<1> QED BY <1>1, <1>2, <1>3, <1>4, <1>5, <1>6, <1>7, <1>8, <1>9, <1>11, <1>12, <1>13, <1>14,
           Zenon DEF DetNext

-----------------------------------------------------------------------------
(* Claims to mutexes.                                                      *)

(* A thread has no more than two claims to a mutex.                         *)
LEMMA ClaimsFit ==
  ASSUME NEW t, NEW m
  PROVE  Claims(t, m) \in 0 .. 2 /\ Claims(t, m)' \in 0 .. 2
  BY DEF Claims

(* So the claims under one tid, however many threads had it, fit a usize.   *)
LEMMA RowFits ==
  ASSUME NEW i, NEW m
  PROVE  RowClaims(i, m) \in 0 .. UsizeMod - 1 /\ RowClaims(i, m)' \in 0 .. UsizeMod - 1
<1> DEFINE f == [t \in Thread |-> IF tid[t] = i THEN Claims(t, m) ELSE 0]
           g == [t \in Thread |-> IF tid'[t] = i THEN Claims(t, m)' ELSE 0]
<1>0. 0 \in 0 .. 2
  OBVIOUS
<1>1. f \in [Thread -> 0 .. 2] /\ g \in [Thread -> 0 .. 2]
  BY <1>0, ClaimsFit, Zenon
<1>2. RowClaims(i, m) = SumOver(f) /\ RowClaims(i, m)' = SumOver(g)
  BY Zenon DEF RowClaims
<1> HIDE DEF f, g
<1>3. /\ SumOver(f) \in 0 .. 2 * Cardinality(Thread)
      /\ SumOver(g) \in 0 .. 2 * Cardinality(Thread)
  BY <1>1, SumBound, Zenon
<1>4. /\ RowClaims(i, m) \in 0 .. 2 * Cardinality(Thread)
      /\ RowClaims(i, m)' \in 0 .. 2 * Cardinality(Thread)
  BY <1>2, <1>3, Zenon
<1> QED BY <1>4, TableAssumption, UsizeFits

(* The sums stay the same while claims and tids do; the tid of a thread     *)
(* without claims does not matter.                                         *)
LEMMA SumsKept ==
  ASSUME NEW m \in Mutex,
         \A t \in Thread : /\ Claims(t, m)' = Claims(t, m)
                           /\ tid'[t] = tid[t] \/ Claims(t, m) = 0
  PROVE  AllClaims(m)' = AllClaims(m) /\ \A i : RowClaims(i, m)' = RowClaims(i, m)
<1>1. [t \in Thread |-> Claims(t, m)'] = [t \in Thread |-> Claims(t, m)]
  OBVIOUS
<1>2. AllClaims(m)' = AllClaims(m)
  BY <1>1, Zenon DEF AllClaims
<1>3. ASSUME NEW i PROVE RowClaims(i, m)' = RowClaims(i, m)
  <2>1. [t \in Thread |-> IF tid'[t] = i THEN Claims(t, m)' ELSE 0]
          = [t \in Thread |-> IF tid[t] = i THEN Claims(t, m) ELSE 0]
    OBVIOUS
  <2> QED BY <2>1, Zenon DEF RowClaims
<1> QED BY <1>2, <1>3

(* A step that neither makes nor drops claims, nor touches the tables.      *)
LEMMA ClaimsKept ==
  ASSUME ClaimsOK, UNCHANGED <<mutex_list, mutex_available, mutex_allocation>>,
         mutex_list \subseteq Mutex,
         \A t \in Thread, m \in Mutex : /\ Claims(t, m)' = Claims(t, m)
                                        /\ tid'[t] = tid[t] \/ Claims(t, m) = 0,
         SelfWaits'
  PROVE  ClaimsOK'
<1>0. \A m \in Mutex : AllClaims(m)' = AllClaims(m) /\ \A i : RowClaims(i, m)' = RowClaims(i, m)
  BY SumsKept, Zenon
<1>1. \A i \in Thread, m \in Mutex : mutex_allocation'[i][m] = RowClaims(i, m)'
  BY <1>0, Zenon DEF ClaimsOK
<1>2. \A t \in Thread, m \in Mutex \ mutex_list' : Claims(t, m)' = 0
  BY DEF ClaimsOK
<1>3. \A m \in mutex_list' : mutex_available'[m] = (1 - AllClaims(m)') % UsizeMod
  BY <1>0 DEF ClaimsOK
<1> QED BY <1>1, <1>2, <1>3, Zenon DEF ClaimsOK

(* The sums of claims to m, after a step that changes those of t by d.      *)
LEMMA SumsMove ==
  ASSUME NEW t \in Thread, NEW m, NEW d \in {-1, 1}, tid' = tid,
         Claims(t, m)' = Claims(t, m) + d,
         \A u \in Thread \ {t} : Claims(u, m)' = Claims(u, m)
  PROVE  /\ AllClaims(m) \in Int /\ AllClaims(m)' = AllClaims(m) + d
         /\ \A i : RowClaims(i, m)' = RowClaims(i, m) + (IF tid[t] = i THEN d ELSE 0)
<1>0. \A u \in Thread : Claims(u, m) \in Int /\ Claims(u, m)' \in Int
  BY ClaimsFit
<1>1. AllClaims(m) \in Int /\ AllClaims(m)' = AllClaims(m) + d
  <2> DEFINE f == [u \in Thread |-> Claims(u, m)]
             g == [u \in Thread |-> Claims(u, m)']
  <2>1. /\ f \in [Thread -> Int] /\ g \in [Thread -> Int]
        /\ \A u \in Thread \ {t} : g[u] = f[u]
        /\ f[t] \in Int /\ g[t] = f[t] + d
    BY <1>0
  <2>2. AllClaims(m) = SumOver(f) /\ AllClaims(m)' = SumOver(g)
    BY Zenon DEF AllClaims
  <2> HIDE DEF f, g
  <2>3. SumOver(f) \in Int /\ SumOver(g) = SumOver(f) + g[t] - f[t]
    BY <2>1, SumChange, Zenon
  <2> QED BY <2>1, <2>2, <2>3
<1>2. ASSUME NEW i
      PROVE  RowClaims(i, m)' = RowClaims(i, m) + (IF tid[t] = i THEN d ELSE 0)
  <2> DEFINE f == [u \in Thread |-> IF tid[u] = i THEN Claims(u, m) ELSE 0]
             g == [u \in Thread |-> IF tid[u] = i THEN Claims(u, m)' ELSE 0]
  <2>1. /\ f \in [Thread -> Int] /\ g \in [Thread -> Int]
        /\ \A u \in Thread \ {t} : g[u] = f[u]
        /\ f[t] \in Int /\ g[t] = f[t] + (IF tid[t] = i THEN d ELSE 0)
    BY <1>0
  <2>2. RowClaims(i, m) = SumOver(f) /\ RowClaims(i, m)' = SumOver(g)
    BY Zenon DEF RowClaims
  <2> HIDE DEF f, g
  <2>3. SumOver(f) \in Int /\ SumOver(g) = SumOver(f) + g[t] - f[t]
    BY <2>1, SumChange, Zenon
  <2> QED BY <2>1, <2>2, <2>3
<1> QED BY <1>1, <1>2

(* One more or one less claim of t to m: the row of its tid follows,        *)
(* available goes the other way.                                           *)
LEMMA ClaimsMove ==
  ASSUME TablesType, TablesType', TidsOK, ClaimsOK, NEW t \in Thread, NEW m \in mutex_list,
         NEW d \in {-1, 1}, UNCHANGED <<mutex_list, tid>>,
         mutex_available' = [mutex_available EXCEPT ![m] = (@ - d) % UsizeMod],
         mutex_allocation' = [mutex_allocation EXCEPT ![tid[t]][m] = (@ + d) % UsizeMod],
         \A u \in Thread, x \in Mutex :
           Claims(u, x)' = IF u = t /\ x = m THEN Claims(u, x) + d ELSE Claims(u, x), SelfWaits'
  PROVE  ClaimsOK'
<1>0. m \in Mutex /\ mutex_list \subseteq Mutex /\ Usize \subseteq Int /\ tid[t] \in Thread
  BY CountsFit DEF TablesType, TidsOK
<1>1. \A i \in Thread, x \in Mutex :
        mutex_allocation'[i][x] =
          IF i = tid[t] /\ x = m THEN (mutex_allocation[i][x] + d) % UsizeMod
                                 ELSE mutex_allocation[i][x]
  BY <1>0 DEF TablesType
<1>m. /\ AllClaims(m) \in Int /\ AllClaims(m)' = AllClaims(m) + d
      /\ \A i : RowClaims(i, m)' = RowClaims(i, m) + (IF tid[t] = i THEN d ELSE 0)
  <2>1. Claims(t, m)' = Claims(t, m) + d /\ \A u \in Thread \ {t} : Claims(u, m)' = Claims(u, m)
    BY <1>0, Zenon
  <2>2. tid' = tid
    OBVIOUS
  <2> QED BY <2>1, <2>2, SumsMove, Zenon
<1>x. \A x \in Mutex \ {m} :
        AllClaims(x)' = AllClaims(x) /\ \A i : RowClaims(i, x)' = RowClaims(i, x)
  <2> SUFFICES ASSUME NEW x \in Mutex, x # m
               PROVE  AllClaims(x)' = AllClaims(x) /\ \A i : RowClaims(i, x)' = RowClaims(i, x)
    BY Zenon
  <2>1. \A u \in Thread : Claims(u, x)' = Claims(u, x) /\ tid'[u] = tid[u]
    OBVIOUS
  <2> QED BY <2>1, SumsKept, Zenon
<1>2. (mutex_allocation[tid[t]][m] + d) % UsizeMod = mutex_allocation[tid[t]][m] + d
  <2>1. /\ mutex_allocation[tid[t]][m] = RowClaims(tid[t], m)
        /\ RowClaims(tid[t], m)' = RowClaims(tid[t], m) + d
    BY <1>0, <1>m, Zenon DEF ClaimsOK
  <2>2. RowClaims(tid[t], m)' \in 0 .. UsizeMod - 1
    BY RowFits, Zenon
  <2>3. mutex_allocation[tid[t]][m] + d \in 0 .. UsizeMod - 1
    BY <2>1, <2>2, Zenon
  <2> QED BY <2>3, UsizeFits
<1>3. ASSUME NEW i \in Thread, NEW x \in Mutex
      PROVE  mutex_allocation'[i][x] = RowClaims(i, x)'
  <2>1. mutex_allocation[i][x] = RowClaims(i, x) /\ RowClaims(i, x) \in Int
    BY RowFits, UsizeFits DEF ClaimsOK
  <2>2. CASE x # m
    <3>1. mutex_allocation'[i][x] = mutex_allocation[i][x]
      BY <1>1, <2>2
    <3>2. RowClaims(i, x)' = RowClaims(i, x)
      BY <1>x, <2>2, Zenon
    <3> QED BY <2>1, <3>1, <3>2, Zenon
  <2>3. CASE x = m /\ i # tid[t]
    BY <1>1, <1>m, <2>1, <2>3
  <2>4. CASE x = m /\ i = tid[t]
    <3>1. mutex_allocation'[i][x] = mutex_allocation[i][x] + d
      BY <1>1, <1>2, <2>4, Zenon
    <3>2. RowClaims(i, x)' = RowClaims(i, x) + d
      BY <1>m, <2>4, Zenon
    <3> QED BY <2>1, <3>1, <3>2
  <2> QED BY <2>2, <2>3, <2>4
<1>4. \A u \in Thread, x \in Mutex \ mutex_list' : Claims(u, x)' = 0
  BY <1>0 DEF ClaimsOK
<1>5. ASSUME NEW x \in mutex_list PROVE mutex_available'[x] = (1 - AllClaims(x)') % UsizeMod
  <2>3. mutex_available[x] = (1 - AllClaims(x)) % UsizeMod
    BY Zenon DEF ClaimsOK
  <2>4. mutex_available'[x] = IF x = m THEN (mutex_available[m] - d) % UsizeMod
                                       ELSE mutex_available[x]
    BY <1>0 DEF TablesType
  <2>5. CASE x # m
    <3>1. AllClaims(x)' = AllClaims(x)
      BY <1>0, <1>x, <2>5, Zenon
    <3> QED BY <2>3, <2>4, <2>5, <3>1
  <2>6. CASE x = m
    <3> DEFINE S == AllClaims(m)
               R == AllClaims(m)'
    <3>2. S \in Int /\ R = S + d
      BY <1>m, Zenon
    <3>7. mutex_available'[m] = (((1 - S) % UsizeMod) - d) % UsizeMod
      BY <2>3, <2>4, <2>6
    <3> HIDE DEF S, R
    <3>4. /\ 1 - S \in Int /\ -d \in Int /\ (1 - S) % UsizeMod \in Int
          /\ UsizeMod \in Nat /\ UsizeMod > 0
      BY <3>2, UsizeFits
    <3>3. (((1 - S) % UsizeMod) + (-d)) % UsizeMod = ((1 - S) + (-d)) % UsizeMod
      BY <3>4, RemainderPlus, Zenon
    <3>5. ((1 - S) % UsizeMod) + (-d) = ((1 - S) % UsizeMod) - d
      BY <3>4
    <3>6. (1 - S) + (-d) = 1 - R
      BY <3>2
    <3>8. mutex_available'[m] = (1 - R) % UsizeMod
      BY <3>3, <3>5, <3>6, <3>7
    <3> QED BY <2>6, <3>8 DEF R
  <2> QED BY <2>5, <2>6
<1> QED BY <1>3, <1>4, <1>5 DEF ClaimsOK

(* A step that does not touch mutexes, their users or their tables.         *)
LEMMA ClaimsUntouched ==
  ASSUME TablesType, ClaimsOK,
         UNCHANGED <<mutex_list, mutex_available, mutex_allocation, held, stackVars>>,
         \A t \in Thread : tid'[t] = tid[t] \/ \A m \in Mutex : Claims(t, m) = 0,
         \A m \in BlockingMutex : wait_queue'[m] = wait_queue[m]
  PROVE  ClaimsOK'
<1>1. \A t \in Thread, m \in Mutex : /\ Claims(t, m)' = Claims(t, m)
                                     /\ tid'[t] = tid[t] \/ Claims(t, m) = 0
  <2>1. \A t \in Thread, m \in Mutex : Claims(t, m)' = Claims(t, m)
    BY DEF Claims, stackVars
  <2> QED BY <2>1, Zenon
<1>2. SelfWaits'
  BY DEF ClaimsOK, SelfWaits, stackVars
<1>3. mutex_list \subseteq Mutex
  BY DEF TablesType
<1> QED BY <1>1, <1>2, <1>3, ClaimsKept, Zenon

(* The sums of claims to a mutex nobody has a claim to.                     *)
LEMMA NoClaims ==
  ASSUME NEW m, \A t \in Thread : Claims(t, m) = 0
  PROVE  AllClaims(m) = 0 /\ \A i : RowClaims(i, m) = 0
<1>1. AllClaims(m) = 0
  <2> DEFINE f == [t \in Thread |-> Claims(t, m)]
  <2>1. f \in [Thread -> Int] /\ \A t \in Thread : f[t] = 0
    OBVIOUS
  <2> HIDE DEF f
  <2>2. SumOver(f) = 0
    BY <2>1, SumZero, Zenon
  <2> QED BY <2>2 DEF f, AllClaims
<1>2. ASSUME NEW i PROVE RowClaims(i, m) = 0
  <2> DEFINE f == [t \in Thread |-> IF tid[t] = i THEN Claims(t, m) ELSE 0]
  <2>1. f \in [Thread -> Int] /\ \A t \in Thread : f[t] = 0
    OBVIOUS
  <2> HIDE DEF f
  <2>2. SumOver(f) = 0
    BY <2>1, SumZero, Zenon
  <2> QED BY <2>2 DEF f, RowClaims
<1> QED BY <1>1, <1>2

(* In a new process nobody has a claim.                                    *)
LEMMA ClaimsInit == DetInit => ClaimsOK
<1> SUFFICES ASSUME DetInit PROVE ClaimsOK
  OBVIOUS
<1>1. \A t \in Thread, m \in Mutex : held[t] = {} /\ kmutex[t] # m /\ kpc[t] = "user"
  BY ObjectAssumption DEF DetInit, Init, Task
<1>2. \A t \in Thread, m \in Mutex : Claims(t, m) = 0 /\ mutex_allocation[t][m] = 0
  BY <1>1 DEF Claims, DetInit
<1>3. SelfWaits
  BY <1>1, Zenon DEF SelfWaits, Mutex
<1>4. mutex_list = {}
  BY DEF DetInit
<1>5. \A i, m : m \in Mutex => RowClaims(i, m) = 0
  BY <1>2, NoClaims, Zenon
<1> QED BY <1>2, <1>3, <1>4, <1>5 DEF ClaimsOK

(* sys_mutex_create enters a free mutex that nobody has a claim to.         *)
LEMMA CreateClaims ==
  ASSUME TablesType, TablesType', ClaimsOK, NEW t \in Thread, NEW m \in Mutex, SysMutexCreate(t, m)
  PROVE  ClaimsOK'
<1>0. /\ m \notin mutex_list /\ mutex_list' = mutex_list \cup {m}
      /\ mutex_available' = [mutex_available EXCEPT ![m] = 1]
      /\ UNCHANGED <<mutex_allocation, held, kmutex, kpc, wait_queue, tid>>
  BY DEF SysMutexCreate, vars, stackVars, objVars, tidVars
<1>1. \A u \in Thread, x \in Mutex : Claims(u, x)' = Claims(u, x)
  BY <1>0 DEF Claims
<1>2. SelfWaits'
  BY <1>0 DEF SelfWaits, ClaimsOK
<1>3. \A u \in Thread, x \in Mutex \ mutex_list' : Claims(u, x)' = 0
  BY <1>0, <1>1 DEF ClaimsOK
<1>s. \A x \in Mutex : AllClaims(x)' = AllClaims(x) /\ \A i : RowClaims(i, x)' = RowClaims(i, x)
  <2>1. tid' = tid
    BY <1>0, Zenon
  <2> QED BY <1>1, <2>1, SumsKept, Zenon
<1>4. \A i \in Thread, x \in Mutex : mutex_allocation'[i][x] = RowClaims(i, x)'
  BY <1>0, <1>s, Zenon DEF ClaimsOK
<1>5. ASSUME NEW x \in mutex_list' PROVE mutex_available'[x] = (1 - AllClaims(x)') % UsizeMod
  <2>1. CASE x # m
    <3>1. x \in mutex_list /\ x \in Mutex
      BY <1>0, <1>5, <2>1 DEF TablesType
    <3>2. mutex_available[x] = (1 - AllClaims(x)) % UsizeMod
      BY <3>1, Zenon DEF ClaimsOK
    <3>3. mutex_available'[x] = mutex_available[x]
      BY <1>0, <2>1, <3>1 DEF TablesType
    <3>4. AllClaims(x)' = AllClaims(x)
      BY <1>s, <3>1, Zenon
    <3> QED BY <3>2, <3>3, <3>4
  <2>2. CASE x = m
    <3>1. \A u \in Thread : Claims(u, m) = 0
      BY <1>0 DEF ClaimsOK
    <3>2. AllClaims(m)' = 0
      BY <1>s, <3>1, NoClaims, Zenon
    <3>3. mutex_available'[m] = 1
      BY <1>0 DEF TablesType
    <3> QED BY <2>2, <3>2, <3>3, UsizeFits
  <2> QED BY <2>1, <2>2
<1> QED BY <1>2, <1>3, <1>4, <1>5, Zenon DEF ClaimsOK

(* The invariant says what the tables tell.                                *)
LEMMA ClaimsImply ==
  ASSUME TypeOK, TablesType, TidsOK, ClaimsOK
  PROVE  MutexTablesCountClaims
<1>1. Tids \subseteq Thread /\ mutex_list \subseteq Mutex
  BY DEF TidsOK, Created, TablesType
<1> QED BY <1>1, Zenon DEF MutexTablesCountClaims, ClaimsOK

-----------------------------------------------------------------------------
(* Permits of semaphores.                                                  *)

(* The sum of a column of a table.                                         *)
Column(f, s) == SumOver([t \in Thread |-> f[t][s]])

(* The permits of a semaphore the tables know of, and those there are: free *)
(* ones, less one for each waiter, and those taken.                         *)
Tabled(s) == semaphore_available[s] + Column(semaphore_allocation, s)
Permits(s) == count[s] + Len(wait_queue[s]) + Column(taken, s)

(* The sum of a column after a change of one entry.                        *)
LEMMA ColumnSum ==
  ASSUME NEW f \in [Thread -> [Semaphore -> Int]], NEW g \in [Thread -> [Semaphore -> Int]],
         NEW t \in Thread, NEW s \in Semaphore, \A u \in Thread \ {t} : g[u][s] = f[u][s]
  PROVE  Column(f, s) \in Int /\ Column(g, s) = Column(f, s) + g[t][s] - f[t][s]
<1> DEFINE F == [u \in Thread |-> f[u][s]]
           G == [u \in Thread |-> g[u][s]]
<1>1. F \in [Thread -> Int] /\ G \in [Thread -> Int]
  OBVIOUS
<1>2. \A u \in Thread \ {t} : G[u] = F[u]
  OBVIOUS
<1>3. F[t] = f[t][s] /\ G[t] = g[t][s]
  OBVIOUS
<1> HIDE DEF F, G
<1>4. SumOver(F) \in Int /\ SumOver(G) = SumOver(F) + G[t] - F[t]
  BY <1>1, <1>2, SumChange, Zenon
<1>5. SumOver(F) \in Int /\ SumOver(G) = SumOver(F) + g[t][s] - f[t][s]
  BY <1>3, <1>4
<1> QED BY <1>5 DEF F, G, Column

(* The sum of a column of integers, of one that has not changed and of one  *)
(* of zeros.                                                               *)
LEMMA ColumnFacts ==
  ASSUME NEW f \in [Thread -> [Semaphore -> Int]], NEW s \in Semaphore
  PROVE  /\ Column(f, s) \in Int
         /\ \A g : (\A u \in Thread : g[u][s] = f[u][s]) => Column(g, s) = Column(f, s)
         /\ (\A u \in Thread : f[u][s] = 0) => Column(f, s) = 0
<1>1. Column(f, s) \in Int
  BY ThreadAssumption, ColumnSum
<1>2. ASSUME NEW g, \A u \in Thread : g[u][s] = f[u][s] PROVE Column(g, s) = Column(f, s)
  <2>1. [u \in Thread |-> g[u][s]] = [u \in Thread |-> f[u][s]]
    BY <1>2
  <2> QED BY <2>1, Zenon DEF Column
<1>3. ASSUME \A u \in Thread : f[u][s] = 0 PROVE Column(f, s) = 0
  <2> DEFINE F == [u \in Thread |-> f[u][s]]
  <2>1. F \in [Thread -> Int] /\ \A u \in Thread : F[u] = 0
    BY <1>3
  <2> HIDE DEF F
  <2>2. SumOver(F) = 0
    BY <2>1, SumZero, Zenon
  <2> QED BY <2>2 DEF F, Column
<1> QED BY <1>1, <1>2, <1>3, Zenon

(* The tables, seen as tables of integers, and what they add up to.         *)
LEMMA IntegerTables ==
  ASSUME TypeOK, TablesType
  PROVE  /\ semaphore_allocation \in [Thread -> [Semaphore -> Int]]
         /\ taken \in [Thread -> [Semaphore -> Int]]
         /\ semaphore_available \in [Semaphore -> Int]
         /\ count \in [Semaphore -> Int]
         /\ \A s \in Semaphore : /\ Column(semaphore_allocation, s) \in Int
                                 /\ Column(taken, s) \in Int
                                 /\ Len(wait_queue[s]) \in Nat
                                 /\ Tabled(s) \in Int /\ Permits(s) \in Int
<1>1. Usize \subseteq Int
  BY CountsFit
<1>2. /\ semaphore_allocation \in [Thread -> [Semaphore -> Int]]
      /\ taken \in [Thread -> [Semaphore -> Int]]
      /\ semaphore_available \in [Semaphore -> Int]
  BY ZenonT(30), <1>1 DEF TablesType
<1>3. \A s \in Semaphore : Column(semaphore_allocation, s) \in Int /\ Column(taken, s) \in Int
  BY <1>2, ColumnFacts, Zenon
<1>4. count \in [Semaphore -> Int] /\ \A s \in Semaphore : Len(wait_queue[s]) \in Nat
  BY DEF TypeOK, Queued
<1> QED BY <1>2, <1>3, <1>4 DEF Tabled, Permits

(* The conservation law in these terms.                                    *)
LEMMA Conserves ==
  /\ SemaphoreTablesConserve
       <=> \A s \in semaphore_list : Tabled(s) % UsizeMod = Permits(s) % UsizeMod
  /\ SemaphoreTablesConserve'
       <=> \A s \in semaphore_list' : Tabled(s)' % UsizeMod = Permits(s)' % UsizeMod
  BY Zenon DEF SemaphoreTablesConserve, Tabled, Permits, Column

(* A permit moved in the tables between available and an allocation leaves  *)
(* their total the same, up to wrapping.                                   *)
LEMMA TabledMove ==
  ASSUME TypeOK, TypeOK', TablesType, TablesType', NEW t \in Thread, NEW s \in Semaphore,
         NEW d \in {-1, 1},
         semaphore_available'[s] = (semaphore_available[s] - d) % UsizeMod,
         semaphore_allocation'[t][s] = (semaphore_allocation[t][s] + d) % UsizeMod,
         \A u \in Thread \ {t} : semaphore_allocation'[u][s] = semaphore_allocation[u][s]
  PROVE  Tabled(s)' % UsizeMod = Tabled(s) % UsizeMod
<1> DEFINE a == semaphore_available[s]
           b == semaphore_allocation[t][s]
           c == Column(semaphore_allocation, s)
           z == Column(semaphore_allocation', s)
<1>0. UsizeMod \in Nat /\ UsizeMod > 0
  BY UsizeFits
<1>1. /\ semaphore_allocation \in [Thread -> [Semaphore -> Int]]
      /\ semaphore_allocation' \in [Thread -> [Semaphore -> Int]]
      /\ a \in Int /\ b \in Int /\ c \in Int
  <2>1. semaphore_allocation' \in [Thread -> [Semaphore -> Int]]
    <3>1. semaphore_allocation' \in [Thread -> [Semaphore -> Usize]] /\ Usize \subseteq Int
      BY CountsFit DEF TablesType
    <3> QED BY Zenon, <3>1
  <2> QED BY <2>1, IntegerTables
<1>2. z = c + semaphore_allocation'[t][s] - semaphore_allocation[t][s]
  BY <1>1, ColumnSum, Zenon
<1>3. Tabled(s) = a + c /\ Tabled(s)' = ((a - d) % UsizeMod) + z
  BY DEF Tabled
<1>4. semaphore_allocation'[t][s] = (b + d) % UsizeMod
  OBVIOUS
<1> HIDE DEF a, b, c, z
<1>5. a - d \in Int /\ b + d \in Int
  BY <1>1
<1>6. PICK i \in Int : (a - d) % UsizeMod = a - d + i * UsizeMod
  BY Zenon, <1>0, <1>5, Remainder
<1>7. PICK j \in Int : (b + d) % UsizeMod = b + d + j * UsizeMod
  BY Zenon, <1>0, <1>5, Remainder
<1>8. z = c + ((b + d) % UsizeMod) - b
  BY <1>2, <1>4, Zenon DEF b
<1>9. Tabled(s)' = Tabled(s) + (i + j) * UsizeMod /\ i + j \in Int
  <2>1. Tabled(s)' = (a - d + i * UsizeMod) + (c + (b + d + j * UsizeMod) - b)
    BY <1>3, <1>6, <1>7, <1>8, Zenon
  <2>2. i * UsizeMod \in Int /\ j * UsizeMod \in Int
    BY <1>0
  <2>3. (i + j) * UsizeMod = i * UsizeMod + j * UsizeMod
    BY <1>0
  <2> QED BY <1>1, <1>3, <2>1, <2>2, <2>3
<1>10. Tabled(s) \in Int /\ Tabled(s)' \in Int
  <2>1. Tabled(s) \in Int
    BY IntegerTables, Zenon
  <2> QED BY <1>0, <1>9, <2>1
<1> QED BY ZenonT(30), <1>0, <1>9, <1>10, SameRemainder

(* A step on one semaphore that keeps its totals.                          *)
LEMMA PermitsMove ==
  ASSUME TypeOK, TypeOK', TablesType, TablesType', PermitsOK, NEW s \in semaphore_list,
         semaphore_list' = semaphore_list,
         \A x \in Semaphore \ {s} :
           /\ count'[x] = count[x] /\ wait_queue'[x] = wait_queue[x]
           /\ semaphore_available'[x] = semaphore_available[x]
           /\ \A u \in Thread : /\ semaphore_allocation'[u][x] = semaphore_allocation[u][x]
                                /\ taken'[u][x] = taken[u][x],
         Tabled(s)' % UsizeMod = Tabled(s) % UsizeMod,
         Permits(s)' = Permits(s)
  PROVE  PermitsOK'
<1>0. semaphore_list \subseteq Semaphore
  BY DEF TablesType
<1>1. ASSUME NEW x \in semaphore_list, x # s
      PROVE  Tabled(x)' = Tabled(x) /\ Permits(x)' = Permits(x)
  <2>0. x \in Semaphore \ {s}
    BY <1>0, <1>1
  <2>1. /\ semaphore_allocation \in [Thread -> [Semaphore -> Int]]
        /\ taken \in [Thread -> [Semaphore -> Int]]
    BY IntegerTables, Zenon
  <2>2. /\ Column(semaphore_allocation', x) = Column(semaphore_allocation, x)
        /\ Column(taken', x) = Column(taken, x)
    BY <2>0, <2>1, ColumnFacts, Zenon
  <2> QED BY <2>0, <2>2, Zenon DEF Tabled, Permits
<1>2. \A x \in semaphore_list : Tabled(x) % UsizeMod = Permits(x) % UsizeMod
  BY Conserves, Zenon DEF PermitsOK
<1>3. \A x \in semaphore_list' : Tabled(x)' % UsizeMod = Permits(x)' % UsizeMod
  BY <1>1, <1>2, Zenon
<1>4. SemaphoreTablesConserve'
  BY <1>3, Conserves, Zenon
<1>5. \A x \in Semaphore \ semaphore_list' :
        /\ count'[x] \in ResCounts /\ wait_queue'[x] = <<>>
        /\ \A u \in Thread : semaphore_allocation'[u][x] = 0 /\ taken'[u][x] = 0
  BY DEF PermitsOK
<1> QED BY <1>4, <1>5, Zenon DEF PermitsOK

(* A step that touches neither semaphores nor their tables.                *)
LEMMA PermitsUntouched ==
  ASSUME PermitsOK, semaphore_list \subseteq Semaphore,
         UNCHANGED <<count, semaphore_list, semaphore_available, semaphore_allocation, taken>>,
         \A s \in Semaphore : wait_queue'[s] = wait_queue[s]
  PROVE  PermitsOK'
<1>1. \A s \in Semaphore : Tabled(s)' = Tabled(s) /\ Permits(s)' = Permits(s)
  BY Zenon DEF Tabled, Permits
<1>2. \A s \in semaphore_list : Tabled(s) % UsizeMod = Permits(s) % UsizeMod
  BY Conserves, Zenon DEF PermitsOK
<1>3. \A s \in semaphore_list' : Tabled(s)' % UsizeMod = Permits(s)' % UsizeMod
  BY <1>1, <1>2
<1>4. SemaphoreTablesConserve'
  BY <1>3, Conserves, Zenon
<1> QED BY <1>4 DEF PermitsOK

(* sys_semaphore_create enters all permits of the semaphore as available.    *)
LEMMA CreatePermits ==
  ASSUME TypeOK, TypeOK', TablesType, TablesType', PermitsOK, NEW t \in Thread,
         NEW s \in Semaphore, SysSemaphoreCreate(t, s)
  PROVE  PermitsOK'
<1>1. /\ s \notin semaphore_list /\ semaphore_list' = semaphore_list \cup {s}
      /\ semaphore_available' = [semaphore_available EXCEPT ![s] = count[s]]
      /\ UNCHANGED <<count, wait_queue, semaphore_allocation, taken>>
  BY Zenon DEF SysSemaphoreCreate, vars, objVars
<1>2. /\ \A x \in semaphore_list : semaphore_available'[x] = semaphore_available[x]
      /\ semaphore_available'[s] = count[s] /\ semaphore_list \subseteq Semaphore
  BY <1>1 DEF TablesType
<1>3. \A x \in semaphore_list : Tabled(x)' = Tabled(x) /\ Permits(x)' = Permits(x)
  BY <1>1, <1>2, Zenon DEF Tabled, Permits
<1>4. Tabled(s)' = Permits(s)'
  <2>1. /\ wait_queue[s] = <<>> /\ count[s] \in Int
        /\ \A u \in Thread : semaphore_allocation[u][s] = 0 /\ taken[u][s] = 0
    BY <1>1 DEF PermitsOK, TypeOK
  <2>2. Column(semaphore_allocation, s) = 0 /\ Column(taken, s) = 0
    BY <2>1, IntegerTables, ColumnFacts, Zenon
  <2>3. Len(wait_queue[s]) = 0
    BY <2>1
  <2> QED BY SMTT(20), <1>1, <1>2, <2>1, <2>2, <2>3 DEF Tabled, Permits
<1>5. \A x \in semaphore_list : Tabled(x) % UsizeMod = Permits(x) % UsizeMod
  BY Conserves, Zenon DEF PermitsOK
<1>6. \A x \in semaphore_list' : Tabled(x)' % UsizeMod = Permits(x)' % UsizeMod
  BY <1>1, <1>3, <1>4, <1>5
<1>7. SemaphoreTablesConserve'
  BY <1>6, Conserves, Zenon
<1>8. \A x \in Semaphore \ semaphore_list' :
        /\ count'[x] \in ResCounts /\ wait_queue'[x] = <<>>
        /\ \A u \in Thread : semaphore_allocation'[u][x] = 0 /\ taken'[u][x] = 0
  BY <1>1 DEF PermitsOK
<1> QED BY <1>7, <1>8, Zenon DEF PermitsOK

(* What down() and up() do to the history f, entry by entry: the threads of  *)
(* S have been given a permit of s, t has given one back.                   *)
Granted(f, g, S, s) ==
  \A u \in Thread, x \in Semaphore :
    g[u][x] = IF u \in S /\ x = s THEN f[u][x] + 1 ELSE f[u][x]
GivenBack(f, g, t, s) ==
  \A u \in Thread, x \in Semaphore :
    g[u][x] = IF u = t /\ x = s THEN f[u][x] - 1 ELSE f[u][x]

(* Grant does what it says.                                                *)
LEMMA GrantedBy ==
  ASSUME NEW f \in [Thread -> [Semaphore -> Int]], NEW S, NEW s \in Semaphore
  PROVE  Granted(f, Grant(f, S, s), S, s)
<1>1. \A u \in Thread, x \in Semaphore :
        Grant(f, S, s)[u][x] = IF u \in S /\ x = s THEN f[u][x] + 1 ELSE f[u][x]
  BY GrantType
<1> QED BY <1>1, Zenon DEF Granted

(* down(): a permit goes to t, or t is queued and count owes it one.        *)
LEMMA DownPermits ==
  ASSUME TypeOK, TypeOK', TablesType, TablesType', NEW t \in Thread, NEW s \in Semaphore,
         SemaphoreDown(t, s), Granted(taken, taken', IF count[s] > 0 THEN {t} ELSE {}, s)
  PROVE  /\ Permits(s)' = Permits(s)
         /\ \A x \in Semaphore \ {s} :
              /\ count'[x] = count[x] /\ wait_queue'[x] = wait_queue[x]
              /\ \A u \in Thread : taken'[u][x] = taken[u][x]
<1>0. /\ s \in Queued /\ t \in Task /\ Semaphore \subseteq Queued
      /\ count \in [Semaphore -> Int] /\ wait_queue \in [Queued -> Seq(Task)]
      /\ taken \in [Thread -> [Semaphore -> Int]] /\ taken' \in [Thread -> [Semaphore -> Int]]
  BY DEF Queued, Task, TypeOK, TablesType
<1>1. /\ count' = [count EXCEPT ![s] = @ - 1]
      /\ IF count[s] - 1 < 0 THEN wait_queue' = [wait_queue EXCEPT ![s] = Append(@, t)]
                             ELSE wait_queue' = wait_queue
  BY Zenon DEF SemaphoreDown
<1>2. /\ \A u \in Thread, x \in Semaphore \ {s} : taken'[u][x] = taken[u][x]
      /\ count[s] > 0 => /\ \A u \in Thread \ {t} : taken'[u][s] = taken[u][s]
                         /\ taken'[t][s] = taken[t][s] + 1
      /\ ~(count[s] > 0) => \A u \in Thread : taken'[u][s] = taken[u][s]
  BY Zenon DEF Granted
<1>3. \A x \in Semaphore \ {s} :
        /\ count'[x] = count[x] /\ wait_queue'[x] = wait_queue[x]
        /\ \A u \in Thread : taken'[u][x] = taken[u][x]
  BY <1>0, <1>1, <1>2
<1>4. count[s] \in Int /\ count'[s] = count[s] - 1
  BY <1>0, <1>1
<1>5. Column(taken, s) \in Int /\ Len(wait_queue[s]) \in Nat
  BY <1>0, IntegerTables
<1>p. Permits(s) = count[s] + Len(wait_queue[s]) + Column(taken, s)
  BY Zenon DEF Permits
<1>6. CASE count[s] > 0
  <2>1. wait_queue'[s] = wait_queue[s]
    BY <1>1, <1>4, <1>6
  <2>2. /\ \A u \in Thread \ {t} : taken'[u][s] = taken[u][s]
        /\ taken'[t][s] = taken[t][s] + 1 /\ taken[t][s] \in Int
    BY <1>0, <1>2, <1>6
  <2>3. Column(taken', s) = Column(taken, s) + taken'[t][s] - taken[t][s]
    BY <1>0, <2>2, ColumnSum, Zenon
  <2>4. Column(taken', s) = Column(taken, s) + 1
    BY <1>5, <2>2, <2>3
  <2>5. Permits(s)' = count'[s] + Len(wait_queue[s]) + Column(taken', s)
    BY <2>1, Zenon DEF Permits
  <2>6. Permits(s)' = Permits(s)
    BY SMTT(20), <1>p, <1>4, <1>5, <2>4, <2>5
  <2> QED BY <1>3, <2>6, Zenon
<1>7. CASE ~(count[s] > 0)
  <2>1. wait_queue'[s] = Append(wait_queue[s], t)
    BY SMTT(20), <1>0, <1>1, <1>4, <1>7
  <2>2. Len(wait_queue'[s]) = Len(wait_queue[s]) + 1
    BY <1>0, <2>1
  <2>3. Column(taken', s) = Column(taken, s)
    <3>1. \A u \in Thread : taken'[u][s] = taken[u][s]
      BY <1>2, <1>7, Zenon
    <3> QED BY <1>0, <3>1, ColumnFacts, Zenon
  <2>4. Permits(s)' = count'[s] + Len(wait_queue'[s]) + Column(taken', s)
    BY Zenon DEF Permits
  <2>5. Permits(s)' = Permits(s)
    BY SMTT(20), <1>p, <1>4, <1>5, <2>2, <2>3, <2>4
  <2> QED BY <1>3, <2>5, Zenon
<1> QED BY <1>6, <1>7, Zenon

(* Before any semaphore is created, nothing has happened to one.            *)
LEMMA PermitsInit == DetInit => PermitsOK
<1> SUFFICES ASSUME DetInit PROVE PermitsOK
  OBVIOUS
<1>1. semaphore_list = {}
  BY DEF DetInit
<1>2. SemaphoreTablesConserve
  BY <1>1, Zenon DEF SemaphoreTablesConserve
<1>3. ASSUME NEW s \in Semaphore
      PROVE  /\ count[s] \in ResCounts /\ wait_queue[s] = <<>>
             /\ \A t \in Thread : semaphore_allocation[t][s] = 0 /\ taken[t][s] = 0
  BY DEF DetInit, Init, Queued
<1> QED BY <1>2, <1>3, Zenon DEF PermitsOK

(* The inductive invariant of the tables, and what follows from it.         *)
TablesInv == TablesType /\ TidsOK /\ ClaimsOK /\ PermitsOK

(* A thread once created stays so.                                          *)
LEMMA CreatedGrow ==
  ASSUME TypeOK, [Next]_vars
  PROVE  \A t \in Task : res[t] # "New" => res'[t] # "New"
<1>0. res \in [Task -> Res] /\ current \in Task \cup {NoTask} /\ Thread \subseteq Task
  BY DEF TypeOK, SchedTypeOK, Task
<1>1. ASSUME res' = res PROVE \A t \in Task : res[t] # "New" => res'[t] # "New"
  BY <1>1
<1>2. CASE Dispatch \/ Tick \/ UNCHANGED vars
  <2>1. res' = res
    BY <1>2, Zenon DEF Dispatch, RunTasks, Tick, vars, schedVars
  <2> QED BY <1>1, <2>1, Zenon
<1>3. ASSUME NEW t \in Task, SysYield(t) \/ TimerTrap(t)
      PROVE  \A u \in Task : res[u] # "New" => res'[u] # "New"
  <2>1. res' = res
    BY <1>3, Zenon DEF SysYield, TimerTrap, SuspendCurrentAndRunNext
  <2> QED BY <1>1, <2>1, Zenon
<1>4. ASSUME NEW t \in Thread, NEW m \in Mutex, Lock(t, m)
      PROVE  \A u \in Task : res[u] # "New" => res'[u] # "New"
  <2>1. res' = res
    BY <1>4, Zenon DEF Lock, LockFree, LockBlocks, LockSpins, schedVars,
                       BlockCurrentAndRunNext, SuspendCurrentAndRunNext
  <2> QED BY <1>1, <2>1, Zenon
<1>5. ASSUME NEW t \in Thread, NEW m \in Mutex,
             MutexUnlock(t, m) \/ UnlockPanics(t, m) \/ \E c \in Condvar : CondvarWait(t, c, m)
      PROVE  \A u \in Task : res[u] # "New" => res'[u] # "New"
  <2>1. res' = res
    BY <1>5, Zenon DEF MutexUnlock, UnlockPanics, Panic, CondvarWait, schedVars,
                       BlockCurrentAndRunNext, WakeupTasks
  <2> QED BY <1>1, <2>1, Zenon
<1>6. ASSUME NEW t \in Thread, \/ \E c \in Condvar : CondvarSignal(t, c)
                               \/ \E s \in Semaphore : SemaphoreUp(t, s) \/ SemaphoreDown(t, s)
                               \/ \E ms \in Durations : SysSleep(t, ms)
                               \/ ResumeGranted(t)
      PROVE  \A u \in Task : res[u] # "New" => res'[u] # "New"
  <2>1. res' = res
    BY <1>6, Zenon DEF CondvarSignal, SemaphoreUp, SemaphoreDown, SysSleep, ResumeGranted,
                       schedVars, BlockCurrentAndRunNext, WakeupTasks
  <2> QED BY <1>1, <2>1, Zenon
<1>7. ASSUME NEW t \in Thread, NEW v \in Thread, ThreadCreate(t, v)
      PROVE  \A u \in Task : res[u] # "New" => res'[u] # "New"
  BY <1>0, <1>7 DEF ThreadCreate, AddThread
<1>8. ASSUME NEW t \in Thread, SysExit(t)
      PROVE  \A u \in Task : res[u] # "New" => res'[u] # "New"
  BY <1>0, <1>8 DEF SysExit, InUser, ExitThread, ExitProcess
<1>9. ASSUME NEW t \in Thread, ResumeLock(t)
      PROVE  \A u \in Task : res[u] # "New" => res'[u] # "New"
  <2>1. kmutex[t] \in Mutex
    BY <1>9 DEF ResumeLock, Task, TypeOK, FrameOK, Mutex
  <2> QED BY <1>4, <1>9, <2>1, Zenon DEF ResumeLock
<1> QED BY <1>2, <1>3, <1>4, <1>5, <1>6, <1>7, <1>8, <1>9, Zenon DEF Next, ThreadStep, MutexLock

(* A new process has its main thread, with tid 0.                           *)
LEMMA TidsInit == DetInit => TidsOK
<1> SUFFICES ASSUME DetInit PROVE TidsOK
  OBVIOUS
<1>0. Main \in Thread /\ Main = 0 /\ Main \in Task /\ Cardinality(Thread) \in Nat
  BY ThreadAssumption, TidAssumption, UsizeFits DEF Task
<1>1. 1 \in 1 .. Cardinality(Thread)
  BY <1>0, TidAssumption
<1>2. tid \in [Thread -> Thread] /\ tid[Main] = Main
  BY <1>0 DEF DetInit
<1>3. task_res_allocator \in [current : 1 .. Cardinality(Thread), recycled : Seq(Thread)]
  BY <1>1 DEF DetInit
<1>4. Tids = {0}
  BY DEF DetInit, Tids
<1>5. res[Main] # "New"
  BY <1>0 DEF DetInit, Init, SchedInit
<1>6. Tids \subseteq Created
  BY <1>0, <1>4, <1>5 DEF Created
<1> QED BY <1>2, <1>3, <1>6, Zenon DEF TidsOK

(* A thread gets a tid that was given back or the next one.  The next one   *)
(* is no larger than the thread's number, as each smaller tid was given to  *)
(* a thread created before.                                                *)
LEMMA TidsStep ==
  ASSUME TypeOK, TidsOK, [DetNext]_detVars
  PROVE  TidsOK'
<1> DEFINE A == task_res_allocator
           N == Cardinality(Thread)
<1>0. /\ tid \in [Thread -> Thread] /\ tid[Main] = Main
      /\ A \in [current : 1 .. N, recycled : Seq(Thread)]
      /\ Tids \subseteq Created /\ Tids = 0 .. A.current - 1
      /\ Main = 0 /\ Main \in Thread /\ Thread = 0 .. N - 1 /\ N \in Nat
  BY Zenon, ThreadAssumption, TidAssumption, UsizeFits DEF TidsOK, Tids
<1>1. Created \subseteq Created'
  <2>1. [Next]_vars /\ Thread \subseteq Task
    BY StepIsSync, Zenon DEF Task
  <2> QED BY <2>1, CreatedGrow, Zenon DEF Created
<1>2. ASSUME UNCHANGED tidVars PROVE TidsOK'
  BY <1>0, <1>1, <1>2 DEF TidsOK, tidVars, Tids
<1>3. CASE UNCHANGED detVars \/ OtherStep
  BY <1>2, <1>3, Zenon DEF detVars, OtherStep
<1>4. ASSUME NEW t \in Thread, NEW m \in Mutex,
             \/ SysMutexCreate(t, m) \/ SysMutexLock(t, m) \/ MutexLockRefused(t, m)
             \/ SysMutexUnlock(t, m) \/ \E c \in Condvar : SysCondvarWait(t, c, m)
      PROVE  TidsOK'
  BY <1>2, <1>4, Zenon DEF SysMutexCreate, SysMutexLock, MutexLockRefused, SysMutexUnlock,
                           SysCondvarWait
<1>5. ASSUME NEW t \in Thread, NEW s \in Semaphore,
             \/ SysSemaphoreCreate(t, s) \/ SysSemaphoreDown(t, s)
             \/ SemaphoreDownRefused(t, s) \/ SysSemaphoreUp(t, s)
      PROVE  TidsOK'
  BY <1>2, <1>5, Zenon DEF SysSemaphoreCreate, SysSemaphoreDown, SemaphoreDownRefused,
                           SysSemaphoreUp
<1>6. ASSUME NEW t \in Thread, \E e \in EnableArgs : SysEnableDeadlockDetect(t, e)
      PROVE  TidsOK'
  BY <1>2, <1>6, Zenon DEF SysEnableDeadlockDetect
<1>7. ASSUME NEW t \in Thread, ExitGivesTidBack(t) PROVE TidsOK'
  <2>1. /\ A' = [A EXCEPT !.recycled = Append(@, tid[t])] /\ tid' = tid
    BY <1>7 DEF ExitGivesTidBack, DeallocTid
  <2>3. Append(A.recycled, tid[t]) \in Seq(Thread)
    BY <1>0
  <2> HIDE DEF N
  <2>2. A' \in [current : 1 .. N, recycled : Seq(Thread)] /\ A'.current = A.current
    BY <1>0, <2>1, <2>3
  <2> QED BY <1>0, <1>1, <2>1, <2>2 DEF TidsOK, Tids, N
<1>8. ASSUME NEW t \in Thread, NEW u \in Thread, SysThreadCreate(t, u) PROVE TidsOK'
  <2>1. /\ tid' = [tid EXCEPT ![u] = NextTid(A)] /\ A' = AllocTid(A)
        /\ \A v \in Thread : v < u => v \in Created
    BY <1>8, Zenon DEF SysThreadCreate
  <2>2. res[u] = "New" /\ res'[u] = "Some"
    BY <1>8 DEF SysThreadCreate, ThreadCreate, AddThread, TypeOK, SchedTypeOK, Task
  <2>3. u \notin Tids /\ u \in Created'
    BY <1>0, <2>2 DEF Created
  <2>4. u \in Nat /\ A.current \in Nat /\ A.current <= u /\ u <= N - 1 /\ u # Main
    BY <1>0, <2>3
  <2>5. /\ NextTid(A) \in Thread
        /\ A' \in [current : 1 .. N, recycled : Seq(Thread)]
        /\ A'.current \in A.current .. u + 1
    <3>1. CASE A.recycled = <<>>
      <4>1. NextTid(A) = A.current /\ A' = [A EXCEPT !.current = @ + 1]
        BY <2>1, <3>1 DEF NextTid, AllocTid
      <4> QED BY <1>0, <2>4, <4>1
    <3>2. CASE A.recycled # <<>>
      <4>1. /\ NextTid(A) = A.recycled[Len(A.recycled)]
            /\ A' = [A EXCEPT !.recycled = SubSeq(@, 1, Len(@) - 1)]
        BY <2>1, <3>2 DEF NextTid, AllocTid
      <4>2. A.recycled \in Seq(Thread) /\ Len(A.recycled) \in Nat /\ Len(A.recycled) # 0
        BY <1>0, <3>2
      <4>3. A.recycled[Len(A.recycled)] \in Thread
        BY <4>2
      <4>4. SubSeq(A.recycled, 1, Len(A.recycled) - 1) \in Seq(Thread)
        BY <4>2
      <4> HIDE DEF N
      <4>5. A' \in [current : 1 .. N, recycled : Seq(Thread)] /\ A'.current = A.current
        BY <1>0, <4>1, <4>4
      <4> QED BY <2>4, <4>1, <4>3, <4>5
    <3> QED BY <3>1, <3>2
  <2>6. tid' \in [Thread -> Thread] /\ tid'[Main] = Main
    BY <1>0, <2>1, <2>4, <2>5
  <2>7. ASSUME NEW i \in Tids' PROVE i \in Created'
    <3>1. i \in Nat /\ i <= u
      BY <2>4, <2>5 DEF Tids
    <3>2. i \in Thread
      BY <1>0, <2>4, <3>1
    <3> QED BY <1>0, <1>1, <2>1, <2>3, <2>4, <3>1, <3>2
  <2> QED BY <2>5, <2>6, <2>7, Zenon DEF TidsOK
<1> QED BY <1>3, <1>4, <1>5, <1>6, <1>7, <1>8, Zenon DEF DetNext

(* Only the running thread changes what it holds and where it is.           *)
LEMMA OnlyCurrentMoves ==
  ASSUME TypeOK, [Next]_vars, NEW u \in Task, current # u \/ u \notin Thread
  PROVE  held'[u] = held[u] /\ kpc'[u] = kpc[u]
<1>0. Thread \subseteq Task /\ held \in [Task -> SUBSET Mutex] /\ DOMAIN kpc = Task
  BY DEF Task, TypeOK
<1>1. ASSUME UNCHANGED <<held, kpc>> PROVE held'[u] = held[u] /\ kpc'[u] = kpc[u]
  BY <1>1
<1>2. CASE Dispatch \/ Tick \/ UNCHANGED vars
  BY <1>1, <1>2, Zenon DEF Dispatch, Tick, vars, stackVars
<1>3. ASSUME NEW t \in Task, SysYield(t) \/ TimerTrap(t)
      PROVE  held'[u] = held[u] /\ kpc'[u] = kpc[u]
  BY <1>1, <1>3, Zenon DEF SysYield, TimerTrap, stackVars
<1>4. ASSUME NEW t \in Thread, NEW m \in Mutex, current = t, Lock(t, m)
      PROVE  held'[u] = held[u] /\ kpc'[u] = kpc[u]
  <2>1. u # t
    BY <1>4
  <2> QED BY <1>0, <1>4, <2>1
          DEF Lock, LockFree, LockBlocks, LockSpins, LockReturns, Frame
<1>5. ASSUME NEW t \in Thread, NEW m \in Mutex,
             MutexUnlock(t, m) \/ UnlockPanics(t, m) \/ \E c \in Condvar : CondvarWait(t, c, m)
      PROVE  held'[u] = held[u] /\ kpc'[u] = kpc[u]
  <2>1. u # t
    BY Zenon, <1>5 DEF MutexUnlock, UnlockPanics, CondvarWait, InUser
  <2> QED BY SMTT(20), <1>0, <1>5, <2>1
          DEF MutexUnlock, UnlockPanics, Panic, CondvarWait, UnlockEffect, Frame, stackVars
<1>6. ASSUME NEW t \in Thread, \/ \E c \in Condvar : CondvarSignal(t, c)
                               \/ \E s \in Semaphore : SemaphoreUp(t, s) \/ SemaphoreDown(t, s)
                               \/ \E ms \in Durations : SysSleep(t, ms)
                               \/ \E v \in Thread : ThreadCreate(t, v)
                               \/ SysExit(t)
      PROVE  held'[u] = held[u] /\ kpc'[u] = kpc[u]
  BY <1>1, <1>6, Zenon DEF CondvarSignal, SemaphoreUp, SemaphoreDown, SysSleep, ThreadCreate,
                           SysExit, stackVars
<1>7. ASSUME NEW t \in Thread, ResumeGranted(t)
      PROVE  held'[u] = held[u] /\ kpc'[u] = kpc[u]
  BY <1>0, <1>7 DEF ResumeGranted, LockReturns, Frame
<1>8. ASSUME NEW t \in Thread, ResumeLock(t)
      PROVE  held'[u] = held[u] /\ kpc'[u] = kpc[u]
  <2>1. kmutex[t] \in Mutex
    BY <1>8 DEF ResumeLock, Task, TypeOK, FrameOK, Mutex
  <2> QED BY <1>4, <1>8, <2>1, Zenon DEF ResumeLock
<1> QED BY <1>2, <1>3, <1>4, <1>5, <1>6, <1>7, <1>8, Zenon
        DEF Next, ThreadStep, MutexLock, InUser

(* In a new process.                                                       *)
LEMMA LoneInit ==
  ASSUME InheritDetect
  PROVE  DetInit => LoneOK
<1> SUFFICES ASSUME DetInit PROVE LoneOK
  OBVIOUS
<1>0. Main \in Thread /\ Thread \subseteq Task /\ MaxNeed \in Nat
  BY ThreadAssumption, TableAssumption, UsizeFits DEF Task
<1>1. deadlock_detect
  BY DEF DetInit
<1>2. \A t \in Thread, m \in Mutex : mutex_need[t][m] <= MaxNeed
  BY <1>0 DEF DetInit
<1>3. \A t \in Task : held[t] = {} /\ kpc[t] = "user"
  BY DEF DetInit, Init
<1> QED BY <1>0, <1>1, <1>2, <1>3 DEF LoneOK

(* The detection stays on and no need passes the bound.                    *)
LEMMA LoneTables ==
  ASSUME 0 \notin EnableArgs, MaxNeed < UsizeMod - 1, TablesType, TidsOK, LoneOK, [DetNext]_detVars
  PROVE  deadlock_detect' /\ \A t \in Thread, m \in Mutex : mutex_need'[t][m] <= MaxNeed
<1>0. deadlock_detect /\ \A t \in Thread, m \in Mutex : mutex_need[t][m] <= MaxNeed
  BY Zenon DEF LoneOK
<1>1. ASSUME deadlock_detect' = deadlock_detect, mutex_need' = mutex_need
      PROVE  deadlock_detect' /\ \A t \in Thread, m \in Mutex : mutex_need'[t][m] <= MaxNeed
  BY <1>0, <1>1, Zenon
<1>2. CASE UNCHANGED detVars \/ OtherStep
  BY <1>1, <1>2, Zenon DEF detVars, OtherStep, mutexTables
<1>3. ASSUME NEW t \in Thread, NEW m \in Mutex,
             \/ SysMutexCreate(t, m) \/ SysMutexLock(t, m) \/ SysMutexUnlock(t, m)
             \/ \E c \in Condvar : SysCondvarWait(t, c, m)
      PROVE  deadlock_detect' = deadlock_detect /\ mutex_need' = mutex_need
  BY <1>3, Zenon DEF SysMutexCreate, SysMutexLock, SysMutexUnlock, SysCondvarWait, mutexTables
<1>4. ASSUME NEW t \in Thread, NEW m \in Mutex, MutexLockRefused(t, m)
      PROVE  deadlock_detect' /\ \A u \in Thread, x \in Mutex : mutex_need'[u][x] <= MaxNeed
  <2> DEFINE i == tid[t]
  <2>0. i \in Thread
    BY Zenon DEF TidsOK
  <2>1. /\ deadlock_detect' = deadlock_detect /\ mutex_need[i][m] < MaxNeed
        /\ mutex_need' = [mutex_need EXCEPT ![i][m] = Inc(@)]
    BY <1>4, Zenon DEF MutexLockRefused
  <2> HIDE DEF i
  <2>2. mutex_need \in [Thread -> [Mutex -> Usize]] /\ Usize \subseteq Nat
        /\ UsizeMod \in Nat /\ UsizeMod > 2 /\ MaxNeed \in Nat
    BY TableAssumption, UsizeFits DEF TablesType, Usize
  <2>3. mutex_need[i][m] \in Nat
    BY Zenon, <2>0, <2>2
  <2>4. Inc(mutex_need[i][m]) = mutex_need[i][m] + 1
    BY <2>1, <2>2, <2>3 DEF Inc
  <2>5. Inc(mutex_need[i][m]) <= MaxNeed
    BY <2>1, <2>2, <2>3, <2>4
  <2>6. \A u \in Thread, x \in Mutex :
          mutex_need'[u][x] = IF u = i /\ x = m THEN Inc(mutex_need[i][m]) ELSE mutex_need[u][x]
    BY <2>0, <2>1, <2>2
  <2>7. \A u \in Thread, x \in Mutex : mutex_need'[u][x] <= MaxNeed
    BY <1>0, <2>5, <2>6
  <2> QED BY <1>0, <2>1, <2>7, Zenon
<1>5. ASSUME NEW t \in Thread, NEW s \in Semaphore,
             \/ SysSemaphoreCreate(t, s) \/ SysSemaphoreDown(t, s) \/ SysSemaphoreUp(t, s)
             \/ SemaphoreDownRefused(t, s)
      PROVE  deadlock_detect' = deadlock_detect /\ mutex_need' = mutex_need
  BY <1>5, Zenon DEF SysSemaphoreCreate, SysSemaphoreDown, SysSemaphoreUp, SemaphoreDownRefused,
                     mutexTables
<1>6. ASSUME NEW t \in Thread, NEW e \in EnableArgs, SysEnableDeadlockDetect(t, e)
      PROVE  deadlock_detect' /\ mutex_need' = mutex_need
  <2>1. e # 0
    BY <1>6
  <2> QED BY <1>0, <1>6, <2>1, Zenon DEF SysEnableDeadlockDetect, mutexTables
<1>7. ASSUME NEW t \in Thread, ExitGivesTidBack(t) \/ \E u \in Thread : SysThreadCreate(t, u)
      PROVE  deadlock_detect' = deadlock_detect /\ mutex_need' = mutex_need
  BY <1>7, Zenon DEF ExitGivesTidBack, SysThreadCreate, mutexTables
<1> QED BY <1>0, <1>1, <1>2, <1>3, <1>4, <1>5, <1>6, <1>7, Zenon DEF DetNext

=============================================================================
