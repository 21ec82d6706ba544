---------------------------- MODULE AbstractMutex ---------------------------
(***************************************************************************)
(* What a set of mutexes promises to the threads that use them: a mutex is  *)
(* acquired only while nobody holds it, and released only by its holder.    *)
(* How a thread waits, and for how long, is not said.                      *)
(***************************************************************************)
CONSTANTS Task, Mutex

VARIABLE holder   \* the tasks that hold each mutex: none or one

Init == holder = [m \in Mutex |-> {}]

Acquire(t, m) ==
  /\ holder[m] = {}
  /\ holder' = [holder EXCEPT ![m] = {t}]

Release(t, m) ==
  /\ holder[m] = {t}
  /\ holder' = [holder EXCEPT ![m] = {}]

Next == \E t \in Task, m \in Mutex : Acquire(t, m) \/ Release(t, m)

Spec == Init /\ [][Next]_holder
=============================================================================
