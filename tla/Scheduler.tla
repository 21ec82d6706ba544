----------------------------- MODULE Scheduler -----------------------------
(***************************************************************************)
(* The task scheduler of the kernel: os/src/task/{mod,manager,processor}.rs *)
(* One CPU.  PROCESSOR.current is the running task, TASK_MANAGER.ready_queue *)
(* a FIFO of the Ready ones.  The kernel is not preemptible: interrupts are *)
(* taken in user mode only, so everything a trap does up to its next call   *)
(* of schedule() is one step.                                               *)
(*                                                                         *)
(* The operators below are the scheduler's entry points.  The modules that  *)
(* EXTEND this one conjoin them to the state changes of the system calls.   *)
(* The tasks are the threads of one process, whose main thread (tid 0) is   *)
(* Main, and the thread of initproc, which only yields and is interrupted.  *)
(***************************************************************************)
EXTENDS Integers, FiniteSets, Sequences, Functions

CONSTANTS Thread,     \* the threads the process may ever have
          Main,       \* its main thread
          InitTask,   \* the thread of initproc
          NoTask      \* PROCESSOR.current = None

ASSUME ThreadAssumption ==
  /\ IsFiniteSet(Thread)
  /\ Main \in Thread
  /\ InitTask \notin Thread
  /\ NoTask \notin Thread \cup {InitTask}

Task == Thread \cup {InitTask}

VARIABLES current,      \* Processor::current
          ready_queue,  \* TaskManager::ready_queue
          task_status,  \* TaskControlBlockInner::task_status
          res           \* TaskControlBlockInner::res, "New" before creation

schedVars == <<current, ready_queue, task_status, res>>

Status == {"Ready", "Running", "Blocked"}
Res    == {"New", "Some", "None"}

SchedTypeOK ==
  /\ current \in Task \cup {NoTask}
  /\ ready_queue \in Seq(Task)
  /\ task_status \in [Task -> Status]
  /\ res \in [Task -> Res]

(* Main and initproc have been added, no other thread exists yet.          *)
SchedInit ==
  /\ current = NoTask
  /\ ready_queue = <<InitTask, Main>>
  /\ task_status = [t \in Task |-> "Ready"]
  /\ res = [t \in Task |-> IF t \in {Main, InitTask} THEN "Some" ELSE "New"]

-----------------------------------------------------------------------------
(* Mutant of RunTasks: pop_back instead of pop_front.                      *)
MutantRunTasksLifo ==
  /\ current = NoTask
  /\ ready_queue # <<>>
  /\ current' = ready_queue[Len(ready_queue)]
  /\ ready_queue' = SubSeq(ready_queue, 1, Len(ready_queue) - 1)
  /\ task_status' = [task_status EXCEPT ![ready_queue[Len(ready_queue)]] = "Running"]
  /\ UNCHANGED res

(* fetch_task and the switch of run_tasks.  On an empty queue the idle loop *)
(* spins, with interrupts off: no step.                                    *)
RunTasks ==
  /\ current = NoTask
  /\ ready_queue # <<>>
  /\ current' = Head(ready_queue)
  /\ ready_queue' = Tail(ready_queue)
  /\ task_status' = [task_status EXCEPT ![Head(ready_queue)] = "Running"]
  /\ UNCHANGED res

(* task_status after the tasks of S have been given the status s.          *)
Marked(S, s) == [t \in Task |-> IF t \in S THEN s ELSE task_status[t]]

(* wakeup_task on each task of ts, in order.                               *)
WakeupTasks(ts) ==
  /\ ready_queue' = ready_queue \o ts
  /\ task_status' = Marked(Range(ts), "Ready")
  /\ UNCHANGED <<current, res>>

(* The tasks of ts are woken, then the current task goes to the tail of the *)
(* ready queue.                                                            *)
SuspendCurrentAndRunNext(ts) ==
  /\ ready_queue' = ready_queue \o Append(ts, current)
  /\ task_status' = Marked(Range(ts) \cup {current}, "Ready")
  /\ current' = NoTask
  /\ UNCHANGED res

(* The tasks of ts are woken, then the current task leaves the CPU without  *)
(* being queued: whoever blocks it has put it in a wait queue or the timers.*)
BlockCurrentAndRunNext(ts) ==
  /\ ready_queue' = ready_queue \o ts
  /\ task_status' = [Marked(Range(ts), "Ready") EXCEPT ![current] = "Blocked"]
  /\ current' = NoTask
  /\ UNCHANGED res

(* TaskControlBlock::new and add_task, for a thread created by sys_thread_create *)
AddThread(u) ==
  /\ res[u] = "New"
  /\ res' = [res EXCEPT ![u] = "Some"]
  /\ ready_queue' = Append(ready_queue, u)
  /\ task_status' = Marked({u}, "Ready")
  /\ UNCHANGED current

(* The part of exit_current_and_run_next for a thread with tid # 0: only    *)
(* its user resources go, the status stays as it was.                      *)
ExitThread ==
  /\ current # Main
  /\ current' = NoTask
  /\ res' = [res EXCEPT ![current] = "None"]
  /\ UNCHANGED <<ready_queue, task_status>>

(* The orders the elements of S can be listed in.                          *)
Orders(S) == Bijection(1 .. Cardinality(S), S)

(* Lists of the positions of q whose task is not in S, in increasing order: *)
(* there is exactly one.                                                   *)
Kept(q, S) ==
  {ix \in Orders({k \in DOMAIN q : q[k] \notin S}) :
     \A i, j \in DOMAIN ix : i < j => ix[i] < ix[j]}

(* Mutant of ExitProcess: without remove_inactive_task.                    *)
MutantExitProcessLeavesQueue ==
  /\ current = Main
  /\ current' = NoTask
  /\ res' = [t \in Task |->
               IF t \in Thread /\ res[t] = "Some" THEN "None" ELSE res[t]]
  /\ UNCHANGED <<ready_queue, task_status>>

(* exit_current_and_run_next for the main thread: the process is dead, each *)
(* of its threads loses its resources and its place in the ready queue.    *)
ExitProcess ==
  /\ current = Main
  /\ current' = NoTask
  /\ res' = [t \in Task |->
               IF t \in Thread /\ res[t] = "Some" THEN "None" ELSE res[t]]
  /\ \E ix \in Kept(ready_queue, Thread) :
       ready_queue' = [i \in DOMAIN ix |-> ready_queue[ix[i]]]
  /\ UNCHANGED task_status
=============================================================================
