----------------------------- MODULE SyncProofs -----------------------------
(***************************************************************************)
(* Proofs about module Sync, for any number of threads and objects: types  *)
(* and semaphores, from facts about queues as sets of tasks (what the      *)
(* operations on a ready queue, a wait queue or the timers do to the tasks *)
(* that are in it, and that none is in it twice); then the invariant that  *)
(* every task is in one place, and what a move between places needs to     *)
(* preserve it.                                                            *)
(***************************************************************************)
EXTENDS Sync, FiniteSetTheorems, SequenceTheorems, TLAPS

-----------------------------------------------------------------------------
(* Queues as sets of tasks.                                                *)

(* The elements of a sequence lie in the set it is over, and its positions *)
(* name exactly them.                                                      *)
LEMMA InSet ==
  ASSUME NEW S, NEW q \in Seq(S)
  PROVE  /\ \A e : e \in Range(q) <=> \E i \in 1 .. Len(q) : q[i] = e
         /\ Range(q) \subseteq S
         /\ Distinct(q) <=> \A i, j \in 1 .. Len(q) : q[i] = q[j] => i = j
<1>1. DOMAIN q = 1 .. Len(q)
  OBVIOUS
<1>2. \A i \in 1 .. Len(q) : q[i] \in S
  OBVIOUS
<1>3. \A e : e \in Range(q) <=> \E i \in 1 .. Len(q) : q[i] = e
  BY <1>1, Zenon DEF Range
<1>4. Distinct(q) <=> \A i, j \in 1 .. Len(q) : q[i] = q[j] => i = j
  BY <1>1, Zenon DEF Distinct
<1> QED BY <1>2, <1>3, <1>4

(* The elements of a concatenation, and when it repeats none: a wake-up    *)
(* appends to the ready queue.                                             *)
LEMMA ConcatSet ==
  ASSUME NEW S, NEW q \in Seq(S), NEW r \in Seq(S)
  PROVE  /\ q \o r \in Seq(S)
         /\ Range(q \o r) = Range(q) \cup Range(r)
         /\ Distinct(q) /\ Distinct(r) /\ Range(q) \cap Range(r) = {} => Distinct(q \o r)
<1>1. q \o r \in Seq(S) /\ Len(q \o r) = Len(q) + Len(r)
  OBVIOUS
<1>2. \A i \in 1 .. Len(q) : (q \o r)[i] = q[i]
  OBVIOUS
<1>3. \A i \in 1 .. Len(r) : (q \o r)[Len(q) + i] = r[i]
  OBVIOUS
<1>a. \A i \in 1 .. Len(q \o r) : (i > Len(q) => (q \o r)[i] = r[i - Len(q)] /\ i - Len(q) \in 1 .. Len(r))
  BY <1>1
<1>b. Len(q) \in Nat /\ Len(r) \in Nat
  OBVIOUS
<1> DEFINE x == q \o r
<1>c. /\ x \in Seq(S) /\ Len(x) = Len(q) + Len(r)
      /\ \A i \in 1 .. Len(q) : x[i] = q[i]
      /\ \A i \in 1 .. Len(r) : x[Len(q) + i] = r[i]
      /\ \A i \in 1 .. Len(x) : (i > Len(q) => x[i] = r[i - Len(q)] /\ i - Len(q) \in 1 .. Len(r))
  BY <1>1, <1>2, <1>3, <1>a
<1> HIDE DEF x
<1>4. ASSUME NEW e PROVE e \in Range(x) <=> e \in Range(q) \/ e \in Range(r)
  <2>1. ASSUME e \in Range(x) PROVE e \in Range(q) \/ e \in Range(r)
    <3>1. PICK i \in 1 .. Len(x) : x[i] = e
      BY <1>c, <2>1, InSet
    <3>2. CASE i \in 1 .. Len(q)
      BY <1>c, <3>1, <3>2, InSet, Zenon
    <3>3. CASE i > Len(q)
      BY <1>c, <3>1, <3>3, InSet
    <3> QED BY <3>2, <3>3, <1>b, <1>c
  <2>2. ASSUME e \in Range(q) PROVE e \in Range(x)
    <3>1. PICK i \in 1 .. Len(q) : q[i] = e
      BY <2>2, InSet
    <3>2. i \in 1 .. Len(x) /\ x[i] = e
      BY <3>1, <1>c, <1>b
    <3> QED BY <3>2, <1>c, InSet, SMTT(30)
  <2>3. ASSUME e \in Range(r) PROVE e \in Range(x)
    <3>1. PICK i \in 1 .. Len(r) : r[i] = e
      BY <2>3, InSet
    <3>2. Len(q) + i \in 1 .. Len(x) /\ x[Len(q) + i] = e
      BY <3>1, <1>c, <1>b
    <3> QED BY <3>2, <1>c, InSet
  <2> QED BY <2>1, <2>2, <2>3
<1>5. ASSUME Distinct(q), Distinct(r), Range(q) \cap Range(r) = {}
      PROVE  Distinct(x)
  <2>1. SUFFICES ASSUME NEW i \in 1 .. Len(x), NEW j \in 1 .. Len(x), x[i] = x[j]
                 PROVE  i = j
    BY <1>c, InSet
  <2>2. \A k \in 1 .. Len(q), l \in 1 .. Len(r) : q[k] # r[l]
    BY <1>5, InSet, Zenon
  <2>3. \A k, l \in 1 .. Len(q) : q[k] = q[l] => k = l
    BY <1>5, InSet
  <2>4. \A k, l \in 1 .. Len(r) : r[k] = r[l] => k = l
    BY <1>5, InSet
  <2>5. CASE i > Len(q) /\ j > Len(q)
    <3>1. PICK k \in 1 .. Len(r) : k = i - Len(q) /\ x[i] = r[k]
      BY <1>c, <2>5
    <3>2. PICK l \in 1 .. Len(r) : l = j - Len(q) /\ x[j] = r[l]
      BY <1>c, <2>5
    <3>3. r[k] = r[l]
      BY <2>1, <3>1, <3>2, Zenon
    <3>4. k = l
      BY <2>4, <3>3, Zenon
    <3> QED BY <3>1, <3>2, <3>4, <1>b
  <2>6. CASE i \in 1 .. Len(q) /\ j \in 1 .. Len(q)
    BY <2>1, <2>3, <2>6, <1>c
  <2>7. CASE i \in 1 .. Len(q) /\ j > Len(q)
    BY <2>1, <2>2, <2>7, <1>c
  <2>8. CASE i > Len(q) /\ j \in 1 .. Len(q)
    BY <2>1, <2>2, <2>8, <1>c
  <2> QED BY <2>5, <2>6, <2>7, <2>8, <1>b, <1>c
<1>6. Range(x) = Range(q) \cup Range(r)
  BY <1>4
<1> QED BY <1>c, <1>5, <1>6 DEF x

(* The elements of a sequence of one.                                      *)
LEMMA OneSet ==
  ASSUME NEW S, NEW e \in S
  PROVE  <<e>> \in Seq(S) /\ Range(<<e>>) = {e} /\ Distinct(<<e>>)
  BY DEF Range, Distinct

(* The empty sequence has no elements.                                     *)
LEMMA EmptySet ==
  ASSUME NEW S
  PROVE <<>> \in Seq(S) /\ Range(<<>>) = {} /\ Distinct(<<>>)
  BY DEF Range, Distinct

(* The elements after a push_back, and when it repeats none.               *)
LEMMA AppendSet ==
  ASSUME NEW S, NEW q \in Seq(S), NEW e \in S
  PROVE  /\ Append(q, e) \in Seq(S)
         /\ Range(Append(q, e)) = Range(q) \cup {e}
         /\ Distinct(q) /\ e \notin Range(q) => Distinct(Append(q, e))
<1>1. Append(q, e) = q \o <<e>>
  BY AppendIsConcat
<1>2. <<e>> \in Seq(S) /\ Range(<<e>>) = {e} /\ Distinct(<<e>>)
  BY OneSet
<1>3. /\ q \o <<e>> \in Seq(S)
      /\ Range(q \o <<e>>) = Range(q) \cup Range(<<e>>)
      /\ Distinct(q) /\ Distinct(<<e>>) /\ Range(q) \cap Range(<<e>>) = {} => Distinct(q \o <<e>>)
  BY <1>2, ConcatSet, Zenon
<1>4. e \notin Range(q) => Range(q) \cap Range(<<e>>) = {}
  BY <1>2
<1> QED BY <1>1, <1>2, <1>3, <1>4

(* pop_front of a queue without repetitions takes its element out for good.*)
LEMMA HeadTailSet ==
  ASSUME NEW S, NEW q \in Seq(S), q # <<>>
  PROVE  /\ Head(q) \in S
         /\ Tail(q) \in Seq(S)
         /\ Range(q) = {Head(q)} \cup Range(Tail(q))
         /\ Distinct(q) => Distinct(Tail(q)) /\ Head(q) \notin Range(Tail(q))
<1>1. /\ Head(q) \in S /\ Head(q) = q[1] /\ Len(q) \in Nat /\ Len(q) >= 1
      /\ Tail(q) \in Seq(S) /\ Len(Tail(q)) = Len(q) - 1
      /\ \A i \in 1 .. Len(q) - 1 : Tail(q)[i] = q[i + 1]
  BY HeadTailProperties
<1> DEFINE h == Head(q)  tl == Tail(q)
<1>2. /\ h \in S /\ h = q[1] /\ tl \in Seq(S) /\ Len(tl) = Len(q) - 1
      /\ \A i \in 1 .. Len(q) - 1 : tl[i] = q[i + 1]
  BY <1>1
<1> HIDE DEF h, tl
<1>3. Range(q) = {h} \cup Range(tl)
  <2>1. ASSUME NEW e \in Range(q) PROVE e \in {h} \cup Range(tl)
    <3>1. PICK i \in 1 .. Len(q) : q[i] = e
      BY InSet
    <3>2. CASE i = 1
      BY <3>1, <3>2, <1>2
    <3>3. CASE i # 1
      <4>1. i - 1 \in 1 .. Len(tl) /\ tl[i - 1] = e
        BY <3>1, <3>3, <1>1, <1>2
      <4> QED BY <4>1, <1>2, InSet
    <3> QED BY <3>2, <3>3
  <2>2. ASSUME NEW e \in Range(tl) PROVE e \in Range(q)
    <3>1. PICK i \in 1 .. Len(tl) : tl[i] = e
      BY <1>2, InSet
    <3>2. i + 1 \in 1 .. Len(q) /\ q[i + 1] = e
      BY <3>1, <1>1, <1>2
    <3> QED BY <3>2, InSet
  <2>3. h \in Range(q)
    <3>1. 1 \in 1 .. Len(q)
      BY <1>1
    <3> QED BY <3>1, <1>2, InSet
  <2> QED BY <2>1, <2>2, <2>3
<1>4. ASSUME Distinct(q) PROVE Distinct(tl) /\ h \notin Range(tl)
  <2>1. \A k, l \in 1 .. Len(q) : q[k] = q[l] => k = l
    BY <1>4, InSet
  <2>2. Distinct(tl)
    <3>1. \A k, l \in 1 .. Len(tl) : tl[k] = tl[l] => k = l
      BY <2>1, <1>1, <1>2
    <3> QED BY <3>1, <1>2, InSet
  <2>3. \A k \in 1 .. Len(tl) : tl[k] # h
    BY <2>1, <1>1, <1>2
  <2> QED BY <2>2, <2>3, <1>2, InSet
<1> QED BY <1>2, <1>3, <1>4 DEF h, tl

(* Popped and Rest split a queue: what pop_front returns is not in what    *)
(* remains.                                                                *)
LEMMA PopSet ==
  ASSUME NEW S, NEW q \in Seq(S)
  PROVE  /\ Popped(q) \in Seq(S) /\ Rest(q) \in Seq(S)
         /\ Distinct(Popped(q))
         /\ Range(q) = Range(Popped(q)) \cup Range(Rest(q))
         /\ Distinct(q) => Distinct(Rest(q)) /\ Range(Popped(q)) \cap Range(Rest(q)) = {}
<1>1. CASE q = <<>>
  BY <1>1, EmptySet DEF Popped, Rest
<1>2. CASE q # <<>>
  <2>1. Popped(q) = <<Head(q)>> /\ Rest(q) = Tail(q)
    BY <1>2 DEF Popped, Rest
  <2> QED BY <1>2, <2>1, OneSet, HeadTailSet
<1> QED BY <1>1, <1>2

(* An enumeration of a finite set has its elements, each once.             *)
LEMMA EnumSet ==
  ASSUME NEW S, IsFiniteSet(S), NEW f \in Orders(S)
  PROVE  /\ f \in Seq(S) /\ DOMAIN f = 1 .. Len(f)
         /\ Range(f) = S
         /\ \A i, j \in 1 .. Len(f) : f[i] = f[j] => i = j
<1> DEFINE n == Cardinality(S)
<1>1. n \in Nat
  BY FS_CardinalityType
<1> HIDE DEF n
<1>2. /\ f \in [1 .. n -> S]
      /\ \A i, j \in 1 .. n : f[i] = f[j] => i = j
      /\ \A e \in S : \E i \in 1 .. n : f[i] = e
  BY DEF Orders, Bijection, Injection, IsInjective, Surjection, n
<1>3. f \in Seq(S) /\ Len(f) = n /\ DOMAIN f = 1 .. n
  BY <1>1, <1>2
<1>7. \A e \in S : \E i \in 1 .. n : f[i] = e
  BY <1>2
<1>8. Range(f) = S
  <2>1. \A e : e \in Range(f) <=> \E i \in 1 .. n : f[i] = e
    BY <1>3, InSet
  <2>2. \A i \in 1 .. n : f[i] \in S
    BY <1>2
  <2>3. \A e : e \in Range(f) <=> e \in S
    BY <2>1, <2>2, <1>7, Zenon
  <2> QED BY <2>3
<1> QED BY <1>2, <1>3, <1>8

(* What TaskManager::remove leaves of the ready queue: the tasks that were *)
(* not removed, each at most once.                                         *)
LEMMA KeptSet ==
  ASSUME NEW S, NEW q \in Seq(S), NEW X, NEW ix \in Kept(q, X)
  PROVE  LET r == [i \in DOMAIN ix |-> q[ix[i]]]
         IN  /\ r \in Seq(S)
             /\ Range(r) = Range(q) \ X
             /\ Distinct(q) => Distinct(r)
<1> DEFINE r == [i \in DOMAIN ix |-> q[ix[i]]]
           P == {k \in DOMAIN q : q[k] \notin X}
<1>1. Len(q) \in Nat /\ DOMAIN q = 1 .. Len(q) /\ \A k \in 1 .. Len(q) : q[k] \in S
  OBVIOUS
<1>2. P \subseteq 1 .. Len(q) /\ \A k \in 1 .. Len(q) : k \in P <=> q[k] \notin X
  BY <1>1
<1>3. IsFiniteSet(P)
  <2>1. IsFiniteSet(1 .. Len(q))
    BY <1>1, FS_Interval
  <2> QED BY <2>1, <1>2, FS_Subset
<1>4. ix \in Orders(P)
  BY DEF Kept
<1> HIDE DEF P
<1>5. /\ ix \in Seq(P) /\ DOMAIN ix = 1 .. Len(ix) /\ Range(ix) = P
      /\ \A i, j \in 1 .. Len(ix) : ix[i] = ix[j] => i = j
  BY <1>3, <1>4, EnumSet
<1>6. Len(ix) \in Nat /\ \A i \in 1 .. Len(ix) : ix[i] \in P
  BY <1>5
<1>7. /\ r \in [1 .. Len(ix) -> S]
      /\ \A i \in 1 .. Len(ix) : r[i] = q[ix[i]]
  BY <1>1, <1>2, <1>5, <1>6, Zenon
<1> HIDE DEF r
<1>8. r \in Seq(S) /\ Len(r) = Len(ix)
  BY <1>6, <1>7
<1>9. Range(r) = Range(q) \ X
  <2>1. ASSUME NEW e \in Range(r) PROVE e \in Range(q) \ X
    <3>1. PICK i \in 1 .. Len(ix) : r[i] = e
      BY <1>8, InSet
    <3>2. ix[i] \in 1 .. Len(q) /\ q[ix[i]] = e /\ e \notin X
      BY <3>1, <1>2, <1>6, <1>7, Zenon
    <3> QED BY <3>2, InSet
  <2>2. ASSUME NEW e \in Range(q) \ X PROVE e \in Range(r)
    <3>1. PICK k \in 1 .. Len(q) : q[k] = e
      BY InSet
    <3>2. k \in Range(ix)
      BY <3>1, <1>2, <1>5
    <3>3. PICK i \in 1 .. Len(ix) : ix[i] = k
      BY <3>2, <1>5, InSet
    <3>4. r[i] = e
      BY <3>1, <3>3, <1>7
    <3> QED BY <3>4, <1>8, InSet
  <2> QED BY <2>1, <2>2
<1>10. ASSUME Distinct(q) PROVE Distinct(r)
  <2>1. \A k, l \in 1 .. Len(q) : q[k] = q[l] => k = l
    BY <1>10, InSet
  <2>2. \A i, j \in 1 .. Len(r) : r[i] = r[j] => i = j
    <3> SUFFICES ASSUME NEW i \in 1 .. Len(ix), NEW j \in 1 .. Len(ix), r[i] = r[j]
                 PROVE  i = j
      BY <1>8
    <3>1. q[ix[i]] = q[ix[j]]
      BY <1>7
    <3>2. ix[i] = ix[j]
      BY <3>1, <2>1, <1>2, <1>6, Zenon
    <3> QED BY <3>2, <1>5
  <2> QED BY <2>2, <1>8, InSet
<1> QED BY <1>8, <1>9, <1>10 DEF r

(* check_timer pops the tasks of the expired timers and no others, each    *)
(* once if no task has two timers.                                         *)
LEMMA PopOrdersSet ==
  ASSUME timers \in SUBSET [task : Task, expire : Nat], IsFiniteSet(timers),
         NEW ord \in PopOrders
  PROVE  LET r == [i \in DOMAIN ord |-> ord[i].task]
         IN  /\ r \in Seq(Task)
             /\ \A t : t \in Range(r) <=> \E x \in Expired : x.task = t
             /\ (\A x, y \in timers : x.task = y.task => x = y) => Distinct(r)
<1> DEFINE r == [i \in DOMAIN ord |-> ord[i].task]
<1>1. Expired \subseteq timers
  BY DEF Expired
<1>2. IsFiniteSet(Expired)
  BY <1>1, FS_Subset
<1>3. ord \in Orders(Expired)
  BY DEF PopOrders
<1>4. /\ ord \in Seq(Expired) /\ DOMAIN ord = 1 .. Len(ord) /\ Range(ord) = Expired
      /\ \A i, j \in 1 .. Len(ord) : ord[i] = ord[j] => i = j
  BY <1>2, <1>3, EnumSet
<1>5. Len(ord) \in Nat /\ \A i \in 1 .. Len(ord) : ord[i] \in Expired
  BY <1>4
<1>a. \A x \in Expired : x.task \in Task
  BY <1>1
<1>6. /\ r \in [1 .. Len(ord) -> Task]
      /\ \A i \in 1 .. Len(ord) : r[i] = ord[i].task
  BY <1>a, <1>4, <1>5
<1> HIDE DEF r
<1>7. r \in Seq(Task) /\ Len(r) = Len(ord)
  BY <1>5, <1>6
<1>8. ASSUME NEW t PROVE t \in Range(r) <=> \E x \in Expired : x.task = t
  <2>1. ASSUME t \in Range(r) PROVE \E x \in Expired : x.task = t
    <3>1. PICK i \in 1 .. Len(ord) : r[i] = t
      BY <2>1, <1>7, InSet
    <3> QED BY <3>1, <1>5, <1>6
  <2>2. ASSUME NEW x \in Expired, x.task = t PROVE t \in Range(r)
    <3>1. PICK i \in 1 .. Len(ord) : ord[i] = x
      BY <1>4, InSet
    <3>2. r[i] = t
      BY <3>1, <2>2, <1>6
    <3> QED BY <3>2, <1>7, InSet
  <2> QED BY <2>1, <2>2
<1>9. ASSUME \A x, y \in timers : x.task = y.task => x = y PROVE Distinct(r)
  <2>1. \A i, j \in 1 .. Len(r) : r[i] = r[j] => i = j
    BY <1>9, <1>1, <1>4, <1>5, <1>6, <1>7
  <2> QED BY <2>1, <1>7, InSet
<1> QED BY <1>7, <1>8, <1>9 DEF r

-----------------------------------------------------------------------------
(* Type correctness.                                                       *)

(* Every entry point of the scheduler keeps the scheduler's types.          *)
LEMMA SchedTypes ==
  ASSUME SchedTypeOK
  PROVE  /\ RunTasks => SchedTypeOK'
         /\ \A ts \in Seq(Task) : WakeupTasks(ts) => SchedTypeOK'
         /\ \A ts \in Seq(Task) : current \in Task /\ SuspendCurrentAndRunNext(ts) => SchedTypeOK'
         /\ \A ts \in Seq(Task) : current \in Task /\ BlockCurrentAndRunNext(ts) => SchedTypeOK'
         /\ \A u \in Task : AddThread(u) => SchedTypeOK'
         /\ ExitThread => SchedTypeOK'
         /\ ExitProcess => SchedTypeOK'
         /\ UNCHANGED schedVars => SchedTypeOK'
<1> USE DEF SchedTypeOK, Status, Res
<1>1. RunTasks => SchedTypeOK'
  BY HeadTailSet DEF RunTasks
<1>2. ASSUME NEW ts \in Seq(Task), WakeupTasks(ts) PROVE SchedTypeOK'
  BY <1>2, ConcatSet DEF WakeupTasks, Marked
<1>3. ASSUME NEW ts \in Seq(Task), current \in Task, SuspendCurrentAndRunNext(ts)
      PROVE  SchedTypeOK'
  <2>1. Append(ts, current) \in Seq(Task)
    BY <1>3
  <2>2. ready_queue' \in Seq(Task)
    BY <1>3, <2>1, ConcatSet DEF SuspendCurrentAndRunNext
  <2> QED BY <1>3, <2>2 DEF SuspendCurrentAndRunNext, Marked
<1>4. ASSUME NEW ts \in Seq(Task), current \in Task, BlockCurrentAndRunNext(ts)
      PROVE  SchedTypeOK'
  <2>2. ready_queue' \in Seq(Task)
    BY <1>4, ConcatSet DEF BlockCurrentAndRunNext
  <2> QED BY <1>4, <2>2 DEF BlockCurrentAndRunNext, Marked
<1>5. ASSUME NEW u \in Task, AddThread(u) PROVE SchedTypeOK'
  BY <1>5 DEF AddThread, Marked
<1>6. ExitThread => SchedTypeOK'
  BY Zenon DEF ExitThread
<1>7. ASSUME ExitProcess PROVE SchedTypeOK'
  <2>1. ready_queue' \in Seq(Task)
    BY <1>7, KeptSet DEF ExitProcess
  <2> QED BY <1>7, <2>1 DEF ExitProcess
<1>8. UNCHANGED schedVars => SchedTypeOK'
  BY DEF schedVars
<1> QED BY <1>1, <1>2, <1>3, <1>4, <1>5, <1>6, <1>7, <1>8

(* The first state is well typed.                                          *)
LEMMA TypeInit == Init => TypeOK
<1> SUFFICES ASSUME Init PROVE TypeOK
  OBVIOUS
<1>1. SchedTypeOK
  <2>1. <<InitTask, Main>> \in Seq(Task)
    BY ThreadAssumption DEF Task
  <2> QED BY <2>1 DEF Init, SchedInit, SchedTypeOK, Status, Res
<1>2. count \in [Semaphore -> Int]
  <2>1. count \in [Semaphore -> ResCounts] /\ ResCounts \subseteq Int
    BY BoundAssumption DEF Init
  <2> QED BY <2>1, Zenon
<1>3. IsFiniteSet(timers)
  BY FS_EmptySet DEF Init
<1>4. FrameOK
  BY DEF Init, FrameOK
<1>5. /\ locked \in [Mutex -> BOOLEAN]
      /\ wait_queue \in [Queued -> Seq(Task)]
      /\ timers \in SUBSET [task : Task, expire : Nat]
      /\ now \in Nat
      /\ kpc \in [Task -> {"user", "spin", "granted", "relock"}]
  BY EmptySet DEF Init
<1>6. /\ kmutex \in [Task -> Mutex \cup {NoMutex}]
      /\ held \in [Task -> SUBSET Mutex]
      /\ panicked \in BOOLEAN
  BY Zenon DEF Init
<1> QED BY <1>1, <1>2, <1>3, <1>4, <1>5, <1>6 DEF TypeOK

(* One step of lock() keeps the types.                                     *)
LEMMA LockTypes ==
  ASSUME TypeOK, NEW t \in Task, NEW m \in Mutex, current = t, Lock(t, m),
         UNCHANGED <<count, timeVars, panicked>>
  PROVE  TypeOK'
<1> USE DEF TypeOK, timeVars, FrameOK
<1>1. CASE LockFree(t, m)
  BY <1>1, SchedTypes DEF LockFree, LockReturns, Frame
<1>2. CASE LockBlocks(t, m)
  <2>1. SchedTypeOK'
    BY <1>2, SchedTypes, EmptySet, Zenon DEF LockBlocks
  <2> QED BY <1>2, <2>1 DEF LockBlocks, Frame, Queued
<1>3. CASE LockSpins(t, m)
  <2>1. SchedTypeOK'
    BY <1>3, SchedTypes, EmptySet, Zenon DEF LockSpins
  <2> QED BY <1>3, <2>1 DEF LockSpins, Frame
<1> QED BY <1>1, <1>2, <1>3 DEF Lock

(* What unlock() wakes and leaves in the wait queues is well typed.         *)
LEMMA UnlockTypes ==
  ASSUME TypeOK, NEW m \in Mutex
  PROVE  /\ UnlockWakes(m) \in Seq(Task)
         /\ UnlockQueues(m) \in [Queued -> Seq(Task)]
<1>1. CASE m \in BlockingMutex
  <2>1. wait_queue[m] \in Seq(Task)
    BY <1>1 DEF TypeOK, Queued
  <2>2. Popped(wait_queue[m]) \in Seq(Task) /\ Rest(wait_queue[m]) \in Seq(Task)
    BY <2>1, PopSet
  <2> QED BY <1>1, <2>2, ZenonT(30) DEF UnlockWakes, UnlockQueues, TypeOK
<1>2. CASE m \notin BlockingMutex
  BY <1>2, EmptySet DEF UnlockWakes, UnlockQueues, TypeOK
<1> QED BY <1>1, <1>2

(* Every system call, resumption, timer interrupt and switch keeps the     *)
(* types.                                                                  *)
LEMMA TypeStep == TypeOK /\ [Next]_vars => TypeOK'
<1> SUFFICES ASSUME TypeOK, [Next]_vars PROVE TypeOK'
  OBVIOUS
<1>1. ASSUME NEW t \in Task, SysYield(t) PROVE TypeOK'
  <2>1. SchedTypeOK'
    BY <1>1, SchedTypes, EmptySet, Zenon DEF SysYield, InUser, TypeOK
  <2> QED BY <1>1, <2>1 DEF SysYield, TypeOK, FrameOK, objVars, timeVars, stackVars
<1>2. ASSUME NEW t \in Task, TimerTrap(t) PROVE TypeOK'
  <2>1. PICK ord \in PopOrders :
          SuspendCurrentAndRunNext([i \in DOMAIN ord |-> ord[i].task])
    BY <1>2, Zenon DEF TimerTrap
  <2>2. [i \in DOMAIN ord |-> ord[i].task] \in Seq(Task)
    BY PopOrdersSet DEF TypeOK
  <2>3. SchedTypeOK'
    BY <1>2, <2>1, <2>2, SchedTypes DEF TimerTrap, InUser, TypeOK
  <2>4. timers' \subseteq timers /\ IsFiniteSet(timers')
    BY <1>2, FS_Subset DEF TimerTrap, TypeOK
  <2> QED BY <1>2, <2>3, <2>4 DEF TimerTrap, TypeOK, FrameOK, objVars, stackVars
<1>3. ASSUME NEW t \in Thread, NEW m \in Mutex, MutexLock(t, m) PROVE TypeOK'
  BY <1>3, LockTypes DEF MutexLock, InUser, Task
<1>4. ASSUME NEW t \in Thread, ResumeLock(t) PROVE TypeOK'
  <2>1. t \in Task /\ kmutex[t] \in Mutex
    BY <1>4 DEF ResumeLock, Task, TypeOK, FrameOK, Mutex
  <2> QED BY <1>4, <2>1, LockTypes DEF ResumeLock
<1>5. ASSUME NEW t \in Thread, ResumeGranted(t) PROVE TypeOK'
  <2>1. t \in Task /\ kmutex[t] \in Mutex
    BY <1>5 DEF ResumeGranted, Task, TypeOK, FrameOK, Mutex
  <2>2. SchedTypeOK'
    BY <1>5, SchedTypes DEF ResumeGranted, TypeOK
  <2> QED BY <1>5, <2>1, <2>2
          DEF ResumeGranted, LockReturns, Frame, TypeOK, FrameOK, objVars, timeVars
<1>6. ASSUME NEW t \in Thread, NEW m \in Mutex, MutexUnlock(t, m) PROVE TypeOK'
  <2>1. SchedTypeOK'
    BY <1>6, UnlockTypes, SchedTypes DEF MutexUnlock, TypeOK
  <2>2. wait_queue' \in [Queued -> Seq(Task)]
    BY <1>6, UnlockTypes DEF MutexUnlock
  <2> QED BY <1>6, <2>1, <2>2, Zenon
          DEF MutexUnlock, UnlockEffect, TypeOK, FrameOK, timeVars, stackVars
<1>7. ASSUME NEW t \in Thread, NEW m \in Mutex, UnlockPanics(t, m) PROVE TypeOK'
  BY <1>7, SchedTypes
     DEF UnlockPanics, Panic, TypeOK, FrameOK, objVars, timeVars, stackVars
<1>8. ASSUME NEW t \in Thread, NEW m \in Mutex, NEW c \in Condvar, CondvarWait(t, c, m)
      PROVE  TypeOK'
  <2>1. t \in Task /\ c \in Queued
    BY DEF Task, Queued
  <2>2. SchedTypeOK'
    BY <1>8, <2>1, UnlockTypes, SchedTypes DEF CondvarWait, InUser, TypeOK
  <2>3. wait_queue' \in [Queued -> Seq(Task)]
    BY <1>8, <2>1, UnlockTypes DEF CondvarWait
  <2> QED BY <1>8, <2>1, <2>2, <2>3
          DEF CondvarWait, UnlockEffect, Frame, TypeOK, FrameOK, timeVars
<1>9. ASSUME NEW t \in Thread, NEW c \in Condvar, CondvarSignal(t, c) PROVE TypeOK'
  <2>1. /\ Popped(wait_queue[c]) \in Seq(Task)
        /\ Rest(wait_queue[c]) \in Seq(Task)
    BY PopSet DEF TypeOK, Queued
  <2>2. SchedTypeOK'
    BY <1>9, <2>1, SchedTypes DEF CondvarSignal, TypeOK
  <2> QED BY <1>9, <2>1, <2>2, Zenon
          DEF CondvarSignal, TypeOK, FrameOK, timeVars, stackVars
<1>10. ASSUME NEW t \in Thread, NEW s \in Semaphore, SemaphoreUp(t, s) PROVE TypeOK'
  <2>1. /\ Popped(wait_queue[s]) \in Seq(Task)
        /\ Rest(wait_queue[s]) \in Seq(Task)
    BY PopSet, Zenon DEF TypeOK, Queued
  <2>2. SchedTypeOK'
    BY <1>10, <2>1, SchedTypes DEF SemaphoreUp, TypeOK
  <2>3. wait_queue' \in [Queued -> Seq(Task)]
    BY <1>10, <2>1, Zenon DEF SemaphoreUp, TypeOK
  <2>4. count' \in [Semaphore -> Int]
    BY <1>10 DEF SemaphoreUp, TypeOK
  <2> QED BY <1>10, <2>2, <2>3, <2>4
          DEF SemaphoreUp, TypeOK, FrameOK, timeVars, stackVars
<1>11. ASSUME NEW t \in Thread, NEW s \in Semaphore, SemaphoreDown(t, s) PROVE TypeOK'
  <2>1. t \in Task /\ s \in Queued /\ Append(wait_queue[s], t) \in Seq(Task)
    BY DEF Task, Queued, TypeOK
  <2>2. SchedTypeOK'
    BY <1>11, <2>1, EmptySet, SchedTypes, Zenon DEF SemaphoreDown, InUser, TypeOK
  <2>3. wait_queue' \in [Queued -> Seq(Task)]
    BY <1>11, <2>1, Zenon DEF SemaphoreDown, TypeOK
  <2>4. count' \in [Semaphore -> Int]
    BY <1>11 DEF SemaphoreDown, TypeOK
  <2> QED BY <1>11, <2>2, <2>3, <2>4
          DEF SemaphoreDown, TypeOK, FrameOK, timeVars, stackVars
<1>12. ASSUME NEW t \in Thread, NEW ms \in Durations, SysSleep(t, ms) PROVE TypeOK'
  <2>1. t \in Task /\ now + ms \in Nat
    BY BoundAssumption DEF Task, TypeOK
  <2>2. SchedTypeOK'
    BY <1>12, <2>1, EmptySet, SchedTypes, Zenon DEF SysSleep, InUser, TypeOK
  <2>3. IsFiniteSet(timers')
    BY <1>12, FS_AddElement, Zenon DEF SysSleep, TypeOK
  <2>4. timers' \in SUBSET [task : Task, expire : Nat]
    BY <1>12, <2>1 DEF SysSleep, TypeOK
  <2> QED BY <1>12, <2>2, <2>3, <2>4 DEF SysSleep, TypeOK, FrameOK, objVars, stackVars
<1>13. ASSUME NEW t \in Thread, NEW u \in Thread, ThreadCreate(t, u) PROVE TypeOK'
  <2>1. SchedTypeOK'
    BY <1>13, SchedTypes DEF ThreadCreate, Task, TypeOK
  <2> QED BY <1>13, <2>1 DEF ThreadCreate, TypeOK, FrameOK, objVars, timeVars, stackVars
<1>14. ASSUME NEW t \in Thread, SysExit(t) PROVE TypeOK'
  <2>1. SchedTypeOK'
    BY <1>14, SchedTypes DEF SysExit, TypeOK
  <2>2. timers' \subseteq timers
    BY <1>14 DEF SysExit
  <2>3. IsFiniteSet(timers')
    BY <2>2, FS_Subset DEF TypeOK
  <2> QED BY <1>14, <2>1, <2>2, <2>3 DEF SysExit, TypeOK, FrameOK, objVars, stackVars
<1>15. CASE Tick
  BY <1>15, SchedTypes DEF Tick, TypeOK, FrameOK, objVars, stackVars
<1>16. CASE Dispatch
  BY <1>16, SchedTypes DEF Dispatch, TypeOK, FrameOK, objVars, timeVars, stackVars
<1>17. CASE UNCHANGED vars
  BY <1>17, SchedTypes DEF vars, TypeOK, FrameOK, objVars, timeVars, stackVars
<1> QED BY <1>1, <1>2, <1>3, <1>4, <1>5, <1>6, <1>7, <1>8, <1>9, <1>10, <1>11,
           <1>12, <1>13, <1>14, <1>15, <1>16, <1>17 DEF Next, ThreadStep

(* Every reachable state is well typed; in particular a thread that resumes *)
(* inside lock() does so on a mutex of the kind whose lock() it is in.      *)
THEOREM TypeCorrect == Spec => []TypeOK
  BY TypeInit, TypeStep, PTL DEF Spec

-----------------------------------------------------------------------------
(* Semaphores.                                                             *)

(* A step that neither counts nor touches the wait queue of a semaphore      *)
(* leaves the agreement of count and wait queue alone.                      *)
LEMMA SemaphoresUntouched ==
  ASSUME SemaphoreCountsWaiters, count' = count,
         \A s \in Semaphore : wait_queue'[s] = wait_queue[s]
  PROVE  SemaphoreCountsWaiters'
  BY DEF SemaphoreCountsWaiters

(* Every step keeps count and wait queue of each semaphore in agreement;   *)
(* only up() and down() touch them.                                        *)
LEMMA SemaphoreStep == TypeOK /\ SemaphoreCountsWaiters /\ [Next]_vars => SemaphoreCountsWaiters'
<1> SUFFICES ASSUME TypeOK, SemaphoreCountsWaiters, [Next]_vars
             PROVE  SemaphoreCountsWaiters'
  OBVIOUS
<1>q. \A s \in Semaphore : s \in Queued /\ s \notin BlockingMutex /\ s \notin Condvar
  BY ObjectAssumption DEF Queued
<1>u. ASSUME NEW m \in Mutex, NEW s \in Semaphore
      PROVE  UnlockQueues(m)[s] = wait_queue[s] /\ DOMAIN UnlockQueues(m) = Queued
  BY <1>q DEF UnlockQueues, TypeOK
<1>1. ASSUME NEW t \in Thread, NEW s \in Semaphore, SemaphoreUp(t, s)
      PROVE  SemaphoreCountsWaiters'
  <2>1. SUFFICES ASSUME NEW x \in Semaphore
                 PROVE  Len(wait_queue'[x]) = IF count'[x] < 0 THEN -count'[x] ELSE 0
    BY DEF SemaphoreCountsWaiters
  <2>2. /\ wait_queue[s] \in Seq(Task) /\ wait_queue \in [Queued -> Seq(Task)] /\ count \in [Semaphore -> Int]
        /\ x \in Queued /\ s \in Queued
    BY <1>q DEF TypeOK
  <2>3. CASE x # s
    <3>1. count'[x] = count[x] /\ wait_queue'[x] = wait_queue[x]
      BY <1>1, <2>2, <2>3 DEF SemaphoreUp
    <3> QED BY <3>1 DEF SemaphoreCountsWaiters
  <2>4. CASE x = s /\ count[s] < 0
    <3>1. Len(wait_queue[s]) = -count[s]
      BY <2>4 DEF SemaphoreCountsWaiters
    <3>2. wait_queue[s] # <<>> /\ Len(Rest(wait_queue[s])) = Len(wait_queue[s]) - 1
      BY <3>1, <2>2, <2>4, HeadTailProperties DEF Rest
    <3>3. count'[s] = count[s] + 1 /\ wait_queue'[s] = Rest(wait_queue[s])
      BY <1>1, <2>2, <2>4 DEF SemaphoreUp
    <3> QED BY <3>1, <3>2, <3>3, <2>2, <2>4
  <2>5. CASE x = s /\ ~(count[s] < 0)
    <3>1. Len(wait_queue[s]) = 0
      BY <2>5 DEF SemaphoreCountsWaiters
    <3>2. count'[s] = count[s] + 1 /\ wait_queue'[s] = wait_queue[s]
      BY <1>1, <2>2, <2>5 DEF SemaphoreUp
    <3> QED BY <3>1, <3>2, <2>2, <2>5
  <2> QED BY <2>3, <2>4, <2>5
<1>2. ASSUME NEW t \in Thread, NEW s \in Semaphore, SemaphoreDown(t, s)
      PROVE  SemaphoreCountsWaiters'
  <2>1. SUFFICES ASSUME NEW x \in Semaphore
                 PROVE  Len(wait_queue'[x]) = IF count'[x] < 0 THEN -count'[x] ELSE 0
    BY DEF SemaphoreCountsWaiters
  <2>2. /\ wait_queue[s] \in Seq(Task) /\ wait_queue \in [Queued -> Seq(Task)] /\ count \in [Semaphore -> Int]
        /\ x \in Queued /\ s \in Queued /\ t \in Task
    BY <1>q DEF TypeOK, Task
  <2>3. CASE x # s
    <3>1. count'[x] = count[x] /\ wait_queue'[x] = wait_queue[x]
      BY <1>2, <2>2, <2>3 DEF SemaphoreDown
    <3> QED BY <3>1 DEF SemaphoreCountsWaiters
  <2>4. CASE x = s /\ count[s] <= 0
    <3>1. Len(wait_queue[s]) = -count[s]
      BY <2>2, <2>4 DEF SemaphoreCountsWaiters
    <3>2. Len(Append(wait_queue[s], t)) = Len(wait_queue[s]) + 1
      BY <2>2
    <3>3. count'[s] = count[s] - 1 /\ wait_queue'[s] = Append(wait_queue[s], t)
      BY <1>2, <2>2, <2>4 DEF SemaphoreDown
    <3> QED BY <3>1, <3>2, <3>3, <2>2, <2>4
  <2>5. CASE x = s /\ ~(count[s] <= 0)
    <3>1. Len(wait_queue[s]) = 0
      BY <2>2, <2>5 DEF SemaphoreCountsWaiters
    <3>2. count'[s] = count[s] - 1 /\ wait_queue'[s] = wait_queue[s]
      BY <1>2, <2>2, <2>5 DEF SemaphoreDown
    <3> QED BY <3>1, <3>2, <2>2, <2>5
  <2> QED BY <2>3, <2>4, <2>5
<1>3. ASSUME NEW t \in Thread, NEW m \in Mutex, Lock(t, m), UNCHANGED count
      PROVE  SemaphoreCountsWaiters'
  <2>1. \A s \in Semaphore : wait_queue'[s] = wait_queue[s]
    BY <1>3, <1>q, SMTT(30) DEF Lock, LockFree, LockBlocks, LockSpins, TypeOK
  <2> QED BY <1>3, <2>1, SemaphoresUntouched
<1>4. ASSUME NEW t \in Thread, NEW m \in Mutex, MutexUnlock(t, m)
      PROVE  SemaphoreCountsWaiters'
  BY <1>4, <1>u, SemaphoresUntouched DEF MutexUnlock
<1>5. ASSUME NEW t \in Thread, NEW m \in Mutex, NEW c \in Condvar, CondvarWait(t, c, m)
      PROVE  SemaphoreCountsWaiters'
  <2>1. \A s \in Semaphore : wait_queue'[s] = wait_queue[s]
    BY <1>5, <1>u, <1>q DEF CondvarWait
  <2> QED BY <1>5, <2>1, SemaphoresUntouched DEF CondvarWait
<1>6. ASSUME NEW t \in Thread, NEW c \in Condvar, CondvarSignal(t, c)
      PROVE  SemaphoreCountsWaiters'
  <2>1. \A s \in Semaphore : wait_queue'[s] = wait_queue[s]
    BY <1>6, <1>q DEF CondvarSignal, TypeOK
  <2> QED BY <1>6, <2>1, SemaphoresUntouched DEF CondvarSignal
<1>7. ASSUME NEW t \in Thread, ResumeLock(t) PROVE SemaphoreCountsWaiters'
  <2>1. kmutex[t] \in Mutex
    BY <1>7 DEF ResumeLock, Task, TypeOK, FrameOK, Mutex
  <2> QED BY <1>3, <1>7, <2>1 DEF ResumeLock
<1>8. ASSUME NEW t \in Task,
             \/ SysYield(t) \/ TimerTrap(t) \/ ResumeGranted(t) \/ SysExit(t)
             \/ \E m \in Mutex : UnlockPanics(t, m)
             \/ \E ms \in Durations : SysSleep(t, ms)
             \/ \E u \in Thread : ThreadCreate(t, u)
      PROVE  SemaphoreCountsWaiters'
  <2>1. UNCHANGED <<count, wait_queue>>
    BY <1>8 DEF SysYield, TimerTrap, ResumeGranted, SysExit, UnlockPanics, Panic,
                SysSleep, ThreadCreate, objVars
  <2> QED BY <2>1, SemaphoresUntouched, SMTT(30)
<1>9. CASE Dispatch \/ Tick \/ UNCHANGED vars
  <2>1. UNCHANGED <<count, wait_queue>>
    BY <1>9 DEF Dispatch, Tick, vars, objVars
  <2> QED BY <2>1, SemaphoresUntouched
<1>10. ASSUME NEW t \in Thread, NEW m \in Mutex, MutexLock(t, m) PROVE SemaphoreCountsWaiters'
  BY <1>3, <1>10 DEF MutexLock
<1> QED BY <1>1, <1>2, <1>4, <1>5, <1>6, <1>7, <1>8, <1>9, <1>10, SMTT(30) DEF Next, ThreadStep, Task

(* Semaphore::up and Semaphore::down keep count and wait queue in step,     *)
(* whatever the programs do and however their calls interleave.             *)
THEOREM SemaphoreAgreement == Spec => []SemaphoreCountsWaiters
<1>1. Init => SemaphoreCountsWaiters
  <2> SUFFICES ASSUME Init, NEW s \in Semaphore
               PROVE  Len(wait_queue[s]) = IF count[s] < 0 THEN -count[s] ELSE 0
    BY DEF SemaphoreCountsWaiters
  <2>1. s \in Queued /\ count[s] \in Nat /\ wait_queue[s] = <<>>
    BY BoundAssumption, Zenon DEF Init, Queued
  <2> QED BY <2>1
<1> QED BY <1>1, TypeCorrect, SemaphoreStep, PTL DEF Spec

(* The inductive invariant.  Beyond the three properties it says which      *)
(* exited threads may still sit in a wait queue: those of a process whose   *)
(* main thread has exited, and then no thread is left to wake them.         *)
OnePlace ==
  /\ current # NoTask => task_status[current] = "Running" /\ res[current] = "Some"
  /\ Distinct(ready_queue)
  /\ \A t \in Range(ready_queue) : task_status[t] = "Ready" /\ res[t] = "Some"
  /\ \A o \in Queued : Distinct(wait_queue[o])
  /\ \A o \in Queued : \A t \in Range(wait_queue[o]) :
       /\ t \in Thread /\ task_status[t] = "Blocked" /\ res[t] # "New"
       /\ res[t] = "None" => res[Main] = "None"
       /\ \A p \in Queued : t \in Range(wait_queue[p]) => o = p
       /\ \A r \in timers : r.task # t
  /\ \A r \in timers :
       /\ r.task \in Thread /\ task_status[r.task] = "Blocked" /\ res[r.task] = "Some"
       /\ \A r2 \in timers : r2.task = r.task => r2 = r

SomePlace ==
  \A t \in Task : res[t] = "Some" =>
    /\ task_status[t] = "Ready" => t \in Range(ready_queue)
    /\ task_status[t] = "Running" => current = t
    /\ task_status[t] = "Blocked" => \/ \E o \in Queued : t \in Range(wait_queue[o])
                                     \/ \E r \in timers : r.task = t

DeadProcess ==
  res[Main] = "None" => \A t \in Thread : res[t] # "Some"

PlaceInv == OnePlace /\ SomePlace /\ DeadProcess

(* The invariant gives the three properties.                               *)
LEMMA PlaceInvImplies ==
  ASSUME TypeOK, PlaceInv
  PROVE  NoTaskLost /\ NoTaskTwice /\ ExitedNeverScheduled
<1> USE DEF PlaceInv
<1>1. NoTaskLost
  <2> SUFFICES ASSUME NEW t \in Task, res[t] = "Some"
               PROVE  CASE task_status[t] = "Ready"   -> t \in Range(ready_queue)
                        [] task_status[t] = "Running" -> current = t
                        [] task_status[t] = "Blocked" ->
                             \/ \E o \in Queued : t \in Range(wait_queue[o])
                             \/ \E r \in timers : r.task = t
    BY Zenon DEF NoTaskLost
  <2>1. task_status[t] \in {"Ready", "Running", "Blocked"}
    BY DEF TypeOK, SchedTypeOK, Status
  <2> QED BY <2>1, Zenon DEF SomePlace
<1>2. NoTaskTwice
  BY DEF OnePlace, NoTaskTwice
<1>3. ExitedNeverScheduled
  BY ThreadAssumption DEF OnePlace, ExitedNeverScheduled, Task
<1> QED BY <1>1, <1>2, <1>3

-----------------------------------------------------------------------------
(* The shape of most steps: the tasks of K, blocked until now, become ready; *)
(* the running task stays, is suspended (Y) or is blocked in one place (B). *)
SchedMoves(K, Y, B) ==
  /\ K \subseteq Task /\ Y \subseteq {current} /\ B \subseteq {current} /\ Y \cap B = {}
  /\ Y \cup B \subseteq Task /\ B \subseteq Thread
  /\ current' = IF Y \cup B = {} THEN current ELSE NoTask
  /\ res' = res
  /\ \A t \in Task : task_status'[t] = IF t \in K \cup Y THEN "Ready"
                                       ELSE IF t \in B THEN "Blocked" ELSE task_status[t]
  /\ Distinct(ready_queue')
  /\ Range(ready_queue') = Range(ready_queue) \cup K \cup Y
  /\ \A k \in K : task_status[k] = "Blocked" /\ res[k] = "Some"

QueueMoves(K, B) ==
  /\ \A o \in Queued : Distinct(wait_queue'[o])
  /\ \A o \in Queued : Range(wait_queue'[o]) \ B = Range(wait_queue[o]) \ K
  /\ \A r : (r \in timers' /\ r.task \notin B) <=> (r \in timers /\ r.task \notin K)
  /\ \A b \in B :
       /\ \/ \E o \in Queued : b \in Range(wait_queue'[o])
          \/ \E r \in timers' : r.task = b
       /\ \A o, p \in Queued : b \in Range(wait_queue'[o]) /\ b \in Range(wait_queue'[p]) => o = p
       /\ \A o \in Queued, r \in timers' : b \in Range(wait_queue'[o]) => r.task # b
       /\ \A r, r2 \in timers' : r.task = b /\ r2.task = b => r2 = r

Moves(K, Y, B) == SchedMoves(K, Y, B) /\ QueueMoves(K, B)

(* Such a step keeps the invariant.                                        *)
LEMMA MovesKeep ==
  ASSUME TypeOK, TypeOK', PlaceInv, NEW K, NEW Y, NEW B, Moves(K, Y, B)
  PROVE  PlaceInv'
<1> USE DEF PlaceInv
<1>t. /\ current \in Task \cup {NoTask} /\ current' \in Task \cup {NoTask} /\ NoTask \notin Task
      /\ Thread \subseteq Task /\ Main \in Thread
      /\ Range(ready_queue) \subseteq Task
      /\ \A o \in Queued : Range(wait_queue[o]) \subseteq Task
      /\ \A o \in Queued : Range(wait_queue'[o]) \subseteq Task
      /\ \A r \in timers : r.task \in Task
      /\ \A r \in timers' : r.task \in Task
      /\ \A t \in Task : task_status[t] \in {"Ready", "Running", "Blocked"}
  BY ThreadAssumption, InSet DEF TypeOK, SchedTypeOK, Task, Status
<1>r. current \in Task => task_status[current] = "Running" /\ res[current] = "Some"
  BY <1>t DEF OnePlace
<1>s. SchedMoves(K, Y, B)
  BY DEF Moves
<1>q. QueueMoves(K, B)
  BY DEF Moves
<1>1. current' # NoTask => task_status'[current'] = "Running" /\ res'[current'] = "Some"
  BY <1>s, <1>t, <1>r DEF SchedMoves
<1>2. \A t \in Range(ready_queue') : task_status'[t] = "Ready" /\ res'[t] = "Some"
  BY <1>s, <1>t, <1>r DEF SchedMoves, OnePlace
<1>3. ASSUME NEW o \in Queued, NEW t \in Range(wait_queue'[o])
      PROVE  /\ t \in Thread /\ task_status'[t] = "Blocked" /\ res'[t] # "New"
             /\ res'[t] = "None" => res'[Main] = "None"
             /\ \A p \in Queued : t \in Range(wait_queue'[p]) => o = p
             /\ \A r \in timers' : r.task # t
  <2>1. CASE t \in B
    <3>1. t \in Thread /\ task_status'[t] = "Blocked" /\ res'[t] = "Some"
      BY <2>1, <1>s, <1>t, <1>r DEF SchedMoves
    <3>2. /\ \A p \in Queued : t \in Range(wait_queue'[p]) => o = p
          /\ \A r \in timers' : r.task # t
      BY <2>1, <1>3, <1>q DEF QueueMoves
    <3> QED BY <3>1, <3>2
  <2>2. CASE t \notin B
    <3>1. t \in Range(wait_queue[o]) /\ t \notin K
      BY <2>2, <1>3, <1>q DEF QueueMoves
    <3>2. /\ t \in Thread /\ task_status[t] = "Blocked" /\ res[t] # "New"
          /\ res[t] = "None" => res[Main] = "None"
          /\ \A p \in Queued : t \in Range(wait_queue[p]) => o = p
          /\ \A r \in timers : r.task # t
      BY <3>1 DEF OnePlace
    <3>3. t \notin Y
      BY <3>2, <1>s, <1>r, <1>t DEF SchedMoves
    <3>4. \A p \in Queued : t \in Range(wait_queue'[p]) => t \in Range(wait_queue[p])
      BY <2>2, <1>q DEF QueueMoves
    <3>5. \A r \in timers' : r.task # t
      BY SMTT(20), <2>2, <3>2, <1>q DEF QueueMoves
    <3>6. task_status'[t] = task_status[t] /\ res' = res
      BY <2>2, <3>1, <3>3, <1>s, <1>t DEF SchedMoves
    <3> QED BY <3>2, <3>4, <3>5, <3>6
  <2> QED BY <2>1, <2>2
<1>4. ASSUME NEW r \in timers'
      PROVE  /\ r.task \in Thread /\ task_status'[r.task] = "Blocked" /\ res'[r.task] = "Some"
             /\ \A r2 \in timers' : r2.task = r.task => r2 = r
  <2>1. CASE r.task \in B
    <3>1. r.task \in Thread /\ task_status'[r.task] = "Blocked" /\ res'[r.task] = "Some"
      BY <2>1, <1>s, <1>t, <1>r DEF SchedMoves
    <3>2. \A r2 \in timers' : r2.task = r.task => r2 = r
      BY <2>1, <1>4, <1>q DEF QueueMoves
    <3> QED BY <3>1, <3>2
  <2>2. CASE r.task \notin B
    <3>1. r \in timers /\ r.task \notin K
      BY <2>2, <1>4, <1>q DEF QueueMoves
    <3>2. /\ r.task \in Thread /\ task_status[r.task] = "Blocked" /\ res[r.task] = "Some"
          /\ \A r2 \in timers : r2.task = r.task => r2 = r
      BY <3>1 DEF OnePlace
    <3>3. r.task \notin Y
      BY <3>2, <1>s, <1>r, <1>t DEF SchedMoves
    <3>4. \A r2 \in timers' : r2.task = r.task => r2 \in timers
      BY <2>2, <1>q DEF QueueMoves
    <3>5. task_status'[r.task] = task_status[r.task] /\ res' = res
      BY SMTT(20), <2>2, <3>2, <3>3, <3>1, <1>s, <1>t DEF SchedMoves
    <3> QED BY <3>2, <3>4, <3>5
  <2> QED BY <2>1, <2>2
<1>5. OnePlace'
  <2>1. Distinct(ready_queue')
    BY <1>s DEF SchedMoves
  <2>2. \A o \in Queued : Distinct(wait_queue'[o])
    BY <1>q DEF QueueMoves
  <2> QED BY Zenon, <1>1, <1>2, <1>3, <1>4, <2>1, <2>2 DEF OnePlace
<1>6. ASSUME NEW t \in Task, res'[t] = "Some"
      PROVE  /\ task_status'[t] = "Ready" => t \in Range(ready_queue')
             /\ task_status'[t] = "Running" => current' = t
             /\ task_status'[t] = "Blocked" => \/ \E o \in Queued : t \in Range(wait_queue'[o])
                                               \/ \E r \in timers' : r.task = t
  <2>0. CASE t \in K \cup Y
    BY <2>0, <1>6, <1>s DEF SchedMoves
  <2>1. CASE t \in B
    <3>1. task_status'[t] = "Blocked"
      BY <2>1, <1>6, <1>s, <1>r, <1>t DEF SchedMoves
    <3>2. \/ \E o \in Queued : t \in Range(wait_queue'[o])
          \/ \E r \in timers' : r.task = t
      BY <2>1, <1>q DEF QueueMoves
    <3> QED BY <3>1, <3>2
  <2>2. CASE t \notin K \cup Y \cup B
    <3>1. task_status'[t] = task_status[t] /\ res[t] = "Some"
      BY <2>2, <1>6, <1>s DEF SchedMoves
    <3>2. task_status[t] = "Ready" => t \in Range(ready_queue')
      BY <3>1, <1>s DEF SomePlace, SchedMoves
    <3>3. task_status[t] = "Running" => current' = t
      <4>1. task_status[t] = "Running" => current = t
        BY <3>1 DEF SomePlace
      <4>2. current = t => current' = t
        BY <2>2, <1>s, <1>t DEF SchedMoves
      <4> QED BY <4>1, <4>2
    <3>4. \A o \in Queued : t \in Range(wait_queue[o]) => t \in Range(wait_queue'[o])
      BY <2>2, <1>q DEF QueueMoves
    <3>5. \A r \in timers : r.task = t => r \in timers'
      BY SMTT(20), <2>2, <1>q DEF QueueMoves
    <3> QED BY <3>1, <3>2, <3>3, <3>4, <3>5, SMTT(30) DEF SomePlace
  <2> QED BY SMTT(20), <2>0, <2>1, <2>2
<1>7. SomePlace'
  BY <1>6 DEF SomePlace
<1>8. DeadProcess'
  BY <1>s DEF DeadProcess, SchedMoves
<1> QED BY <1>5, <1>7, <1>8

(* The scheduler's part of the shape, for its three entry points.           *)
LEMMA SchedMove ==
  ASSUME TypeOK, PlaceInv, NEW ts \in Seq(Task), Distinct(ts),
         \A k \in Range(ts) : task_status[k] = "Blocked" /\ res[k] = "Some"
  PROVE  /\ WakeupTasks(ts) => SchedMoves(Range(ts), {}, {})
         /\ current \in Task /\ SuspendCurrentAndRunNext(ts) => SchedMoves(Range(ts), {current}, {})
         /\ current \in Thread /\ BlockCurrentAndRunNext(ts) => SchedMoves(Range(ts), {}, {current})
<1>1. /\ ready_queue \in Seq(Task) /\ Distinct(ready_queue) /\ Range(ts) \subseteq Task
      /\ Range(ready_queue) \cap Range(ts) = {}
      /\ Thread \subseteq Task /\ task_status \in [Task -> Status]
  BY SMTT(20), InSet DEF PlaceInv, OnePlace, TypeOK, SchedTypeOK, Task
<1>2. current \in Task => current \notin Range(ts) /\ current \notin Range(ready_queue)
  BY ThreadAssumption DEF PlaceInv, OnePlace, Task
<1>3. ready_queue \o ts \in Seq(Task) /\ Distinct(ready_queue \o ts)
      /\ Range(ready_queue \o ts) = Range(ready_queue) \cup Range(ts)
  BY <1>1, ConcatSet
<1>4. WakeupTasks(ts) => SchedMoves(Range(ts), {}, {})
  BY <1>1, <1>3 DEF WakeupTasks, SchedMoves, Marked
<1>5. ASSUME current \in Task, SuspendCurrentAndRunNext(ts)
      PROVE  SchedMoves(Range(ts), {current}, {})
  <2> DEFINE tc == Append(ts, current)
  <2>1. tc \in Seq(Task) /\ Distinct(tc) /\ Range(tc) = Range(ts) \cup {current}
    BY <1>2, <1>5, AppendSet
  <2>2. ready_queue' = ready_queue \o tc
    BY <1>5 DEF SuspendCurrentAndRunNext
  <2> HIDE DEF tc
  <2>3. Distinct(ready_queue') /\ Range(ready_queue') = Range(ready_queue) \cup Range(tc)
    <3>1. Range(ready_queue) \cap Range(tc) = {}
      BY <2>1, <1>1, <1>2, <1>5, SMTT(30)
    <3> QED BY <2>1, <2>2, <3>1, <1>1, ConcatSet, SMTT(30)
  <2> QED BY <2>1, <2>3, <1>1, <1>2, <1>5, SMTT(30) DEF SuspendCurrentAndRunNext, SchedMoves, Marked
<1>6. ASSUME current \in Thread, BlockCurrentAndRunNext(ts)
      PROVE  SchedMoves(Range(ts), {}, {current})
  BY <1>1, <1>2, <1>3, <1>6, SMTT(30) DEF BlockCurrentAndRunNext, SchedMoves, Marked
<1> QED BY <1>4, <1>5, <1>6

(* The task pop_front takes from a wait queue is blocked, has not exited,   *)
(* and is nowhere else, provided a thread of the process is running.        *)
LEMMA WakeQueue ==
  ASSUME TypeOK, PlaceInv, current \in Thread, NEW o \in Queued
  PROVE  LET K == Range(Popped(wait_queue[o])) IN
         /\ Popped(wait_queue[o]) \in Seq(Task) /\ Distinct(Popped(wait_queue[o]))
         /\ Rest(wait_queue[o]) \in Seq(Task) /\ Distinct(Rest(wait_queue[o]))
         /\ Range(Rest(wait_queue[o])) = Range(wait_queue[o]) \ K
         /\ current \notin K
         /\ \A k \in K : task_status[k] = "Blocked" /\ res[k] = "Some"
         /\ \A p \in Queued \ {o} : Range(wait_queue[p]) \cap K = {}
         /\ \A r \in timers : r.task \notin K
<1> DEFINE K == Range(Popped(wait_queue[o]))
<1>1. wait_queue[o] \in Seq(Task) /\ Distinct(wait_queue[o])
  BY DEF TypeOK, PlaceInv, OnePlace
<1>2. /\ Popped(wait_queue[o]) \in Seq(Task) /\ Distinct(Popped(wait_queue[o]))
      /\ Rest(wait_queue[o]) \in Seq(Task) /\ Distinct(Rest(wait_queue[o]))
      /\ Range(wait_queue[o]) = K \cup Range(Rest(wait_queue[o]))
      /\ K \cap Range(Rest(wait_queue[o])) = {}
  BY <1>1, PopSet
<1> HIDE DEF K
<1>3. K \subseteq Range(wait_queue[o])
  BY <1>2
<1>4. task_status[current] = "Running" /\ res[current] = "Some" /\ res[Main] # "None"
  BY ThreadAssumption DEF PlaceInv, OnePlace, DeadProcess
<1>5. ASSUME NEW k \in K
      PROVE  /\ k \in Thread /\ task_status[k] = "Blocked" /\ res[k] = "Some"
             /\ \A p \in Queued : k \in Range(wait_queue[p]) => o = p
             /\ \A r \in timers : r.task # k
  <2>1. /\ k \in Thread /\ task_status[k] = "Blocked" /\ res[k] # "New"
        /\ res[k] = "None" => res[Main] = "None"
        /\ \A p \in Queued : k \in Range(wait_queue[p]) => o = p
        /\ \A r \in timers : r.task # k
    BY <1>3 DEF PlaceInv, OnePlace
  <2>2. res[k] \in {"New", "Some", "None"}
    BY <2>1 DEF TypeOK, SchedTypeOK, Res, Task
  <2> QED BY <2>1, <2>2, <1>4
<1>6. Range(Rest(wait_queue[o])) = Range(wait_queue[o]) \ K
  BY <1>2
<1>7. current \notin K
  BY <1>4, <1>5
<1>8. \A p \in Queued \ {o} : Range(wait_queue[p]) \cap K = {}
  BY <1>5
<1> QED BY <1>2, <1>5, <1>6, <1>7, <1>8, SMTT(30) DEF K

(* push_back of the running thread onto a wait queue, before it blocks.     *)
LEMMA Enqueues ==
  ASSUME TypeOK, PlaceInv, current \in Thread, NEW o \in Queued,
         wait_queue' = [wait_queue EXCEPT ![o] = Append(@, current)], timers' = timers
  PROVE  QueueMoves({}, {current})
<1>1. task_status[current] = "Running"
  BY ThreadAssumption DEF PlaceInv, OnePlace
<1>2. /\ \A p \in Queued : current \notin Range(wait_queue[p]) /\ Distinct(wait_queue[p])
      /\ \A r \in timers : r.task # current
  BY <1>1 DEF PlaceInv, OnePlace
<1>3. wait_queue[o] \in Seq(Task) /\ current \in Task
  BY DEF TypeOK, Task
<1>4. Distinct(wait_queue'[o]) /\ Range(wait_queue'[o]) = Range(wait_queue[o]) \cup {current}
  <2>1. wait_queue'[o] = Append(wait_queue[o], current)
    BY DEF TypeOK
  <2> QED BY <2>1, <1>2, <1>3, AppendSet, SMTT(30)
<1>5. \A p \in Queued \ {o} : wait_queue'[p] = wait_queue[p]
  BY DEF TypeOK
<1>6. \A p \in Queued : Distinct(wait_queue'[p])
  BY <1>2, <1>4, <1>5
<1>7. \A p \in Queued : Range(wait_queue'[p]) \ {current} = Range(wait_queue[p])
  BY <1>2, <1>4, <1>5
<1>8. \A p \in Queued : current \in Range(wait_queue'[p]) <=> p = o
  BY <1>2, <1>4, <1>5
<1> QED BY <1>2, <1>6, <1>7, <1>8, SMTT(30) DEF QueueMoves

(* pop_front of a wait queue.                                              *)
LEMMA Dequeues ==
  ASSUME TypeOK, PlaceInv, current \in Thread, NEW o \in Queued,
         wait_queue' = [wait_queue EXCEPT ![o] = Rest(@)], timers' = timers
  PROVE  QueueMoves(Range(Popped(wait_queue[o])), {})
<1> DEFINE K == Range(Popped(wait_queue[o]))
<1>1. /\ Distinct(Rest(wait_queue[o])) /\ Range(Rest(wait_queue[o])) = Range(wait_queue[o]) \ K
      /\ \A p \in Queued \ {o} : Range(wait_queue[p]) \cap K = {}
      /\ \A r \in timers : r.task \notin K
  BY WakeQueue, Zenon
<1> HIDE DEF K
<1>2. wait_queue'[o] = Rest(wait_queue[o]) /\ \A p \in Queued \ {o} : wait_queue'[p] = wait_queue[p]
  BY DEF TypeOK
<1>3. \A p \in Queued : Distinct(wait_queue'[p])
  BY <1>1, <1>2 DEF PlaceInv, OnePlace
<1>4. \A p \in Queued : Range(wait_queue'[p]) = Range(wait_queue[p]) \ K
  BY <1>1, <1>2
<1>5. QueueMoves(K, {})
  BY <1>1, <1>3, <1>4 DEF QueueMoves
<1> QED BY <1>5 DEF K

(* Condvar::wait: pop_front of the mutex's queue by unlock(), then push_back *)
(* of the running thread onto the condvar's.                               *)
LEMMA DequeuesEnqueues ==
  ASSUME TypeOK, PlaceInv, current \in Thread, NEW o \in Queued, NEW c \in Queued, c # o,
         wait_queue' = [[wait_queue EXCEPT ![o] = Rest(@)] EXCEPT ![c] = Append(@, current)],
         timers' = timers
  PROVE  QueueMoves(Range(Popped(wait_queue[o])), {current})
<1> DEFINE K == Range(Popped(wait_queue[o]))
<1>1. /\ Distinct(Rest(wait_queue[o])) /\ Range(Rest(wait_queue[o])) = Range(wait_queue[o]) \ K
      /\ \A p \in Queued \ {o} : Range(wait_queue[p]) \cap K = {}
      /\ \A r \in timers : r.task \notin K
      /\ current \notin K
  BY WakeQueue, Zenon
<1> HIDE DEF K
<1>2. task_status[current] = "Running"
  BY ThreadAssumption DEF PlaceInv, OnePlace
<1>3. /\ \A p \in Queued : current \notin Range(wait_queue[p]) /\ Distinct(wait_queue[p])
      /\ \A r \in timers : r.task # current
  BY <1>2 DEF PlaceInv, OnePlace
<1>4. /\ wait_queue'[o] = Rest(wait_queue[o])
      /\ wait_queue'[c] = Append(wait_queue[c], current)
      /\ \A p \in Queued \ {o, c} : wait_queue'[p] = wait_queue[p]
  BY DEF TypeOK
<1>5. wait_queue[c] \in Seq(Task) /\ current \in Task
  BY DEF TypeOK, Task
<1>6. Distinct(wait_queue'[c]) /\ Range(wait_queue'[c]) = Range(wait_queue[c]) \cup {current}
  <2>1. Distinct(wait_queue[c]) /\ current \notin Range(wait_queue[c])
    BY <1>3
  <2>2. /\ Distinct(Append(wait_queue[c], current))
        /\ Range(Append(wait_queue[c], current)) = Range(wait_queue[c]) \cup {current}
    BY ONLY <2>1, <1>5, AppendSet
  <2> QED BY <2>2, <1>4, Zenon
<1>7. \A p \in Queued : Distinct(wait_queue'[p])
  BY <1>1, <1>3, <1>4, <1>6, Zenon
<1>8. \A p \in Queued : Range(wait_queue'[p]) \ {current} = Range(wait_queue[p]) \ K
  BY <1>1, <1>3, <1>4, <1>6, Zenon
<1>9. \A p \in Queued : current \in Range(wait_queue'[p]) <=> p = c
  BY <1>1, <1>3, <1>4, <1>6, Zenon
<1>10. QueueMoves(K, {current})
  <2>1. \A r : (r \in timers' /\ r.task \notin {current}) <=> (r \in timers /\ r.task \notin K)
    BY <1>1, <1>3
  <2>2. \E p \in Queued : current \in Range(wait_queue'[p])
    BY <1>9, Zenon
  <2>3. \A p, q \in Queued :
          current \in Range(wait_queue'[p]) /\ current \in Range(wait_queue'[q]) => p = q
    BY <1>9
  <2>4. \A r \in timers' : r.task # current
    BY <1>3
  <2> QED BY <1>7, <1>8, <2>1, <2>2, <2>3, <2>4, Zenon DEF QueueMoves
<1> QED BY <1>10 DEF K

-----------------------------------------------------------------------------
(* The actions.                                                            *)

=============================================================================
