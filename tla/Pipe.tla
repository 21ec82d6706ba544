-------------------------------- MODULE Pipe --------------------------------
(***************************************************************************)
(* One pipe: os/src/fs/pipe.rs, with the calls of os/src/syscall/fs.rs that *)
(* read, write, close and duplicate its ends, and what fork and exit do to  *)
(* the descriptor tables.                                                  *)
(*                                                                         *)
(* The kernel is not preemptible.  The loops of Pipe::read and Pipe::write  *)
(* take a step per byte here, but the thread keeps the CPU (cpu) from its   *)
(* system call, or from the moment it is switched in, to its return or its  *)
(* suspend_current_and_run_next.  pc says where it is:                     *)
(*   "read_loop", "write_loop"  at the head of the loop; suspended there    *)
(*   "read_for", "write_for"    in the inner for, batch rounds to go        *)
(*                                                                         *)
(* The threads of a dead process keep their pc for good: they are never     *)
(* switched in again, so what their kernel stacks refer to stays.          *)
(***************************************************************************)
EXTENDS Integers, Sequences, FiniteSets

CONSTANTS N,          \* RING_BUFFER_SIZE
          Byte,
          Process, Creator,    \* the processes; the one that calls sys_pipe
          Thread, NoThread,
          Proc,       \* the process of each thread
          Leader,     \* the main thread of each process
          Data,       \* what programs write: sequences of bytes
          Wants,      \* the lengths of the buffers programs read into
          MaxAsked,   \* bound: bytes all write calls together ask to write
          MaxFd       \* bound: descriptors of one end in one process

ASSUME PipeAssumption ==
  /\ N \in Nat \ {0}
  /\ Creator \in Process
  /\ NoThread \notin Thread
  /\ Proc \in [Thread -> Process]
  /\ Leader \in [Process -> Thread]
  /\ \A p \in Process : Proc[Leader[p]] = p
  /\ Data \subseteq Seq(Byte)
  /\ Wants \subseteq Nat
  /\ MaxAsked \in Nat
  /\ MaxFd \in Nat

VARIABLES arr, head, tail, status,   \* PipeRingBuffer
          life,         \* "unborn", "alive" or "dead", for each process
          read_fd,      \* descriptors of the read end in each fd_table
          write_fd,     \* descriptors of the write end in each fd_table
          cpu,          \* the thread that runs in the kernel, if any
          pc,
          batch,        \* rounds left of the inner for of cpu
          want,         \* bytes the read call of a thread has yet to read
          left,         \* bytes the write call of a thread has yet to write
          sent,         \* history: all bytes ever written to the ring
          received,     \* history: all bytes ever read from it
          eof,          \* history: some read has returned for end of file
          asked         \* bytes the write calls have asked for in all

ring  == <<arr, head, tail, status>>
fds   == <<life, read_fd, write_fd>>
calls == <<cpu, pc, batch, want, left>>
hist  == <<sent, received, eof, asked>>
vars  == <<ring, fds, calls, hist>>

Reading == {"read_loop", "read_for"}
Writing == {"write_loop", "write_for"}

TypeOK ==
  /\ arr \in [0 .. N - 1 -> Byte \cup {0}]
  /\ head \in 0 .. N - 1
  /\ tail \in 0 .. N - 1
  /\ status \in {"Full", "Empty", "Normal"}
  /\ life \in [Process -> {"unborn", "alive", "dead"}]
  /\ read_fd \in [Process -> Nat]
  /\ write_fd \in [Process -> Nat]
  /\ cpu \in Thread \cup {NoThread}
  /\ pc \in [Thread -> {"user"} \cup Reading \cup Writing]
  /\ batch \in Nat
  /\ want \in [Thread -> Nat]
  /\ left \in [Thread -> Seq(Byte)]
  /\ sent \in Seq(Byte)
  /\ received \in Seq(Byte \cup {0})
  /\ eof \in BOOLEAN
  /\ asked \in Nat

(* The creator has called sys_pipe.                                        *)
Init ==
  /\ arr = [i \in 0 .. N - 1 |-> 0]
  /\ head = 0
  /\ tail = 0
  /\ status = "Empty"
  /\ life = [p \in Process |-> IF p = Creator THEN "alive" ELSE "unborn"]
  /\ read_fd = [p \in Process |-> IF p = Creator THEN 1 ELSE 0]
  /\ write_fd = [p \in Process |-> IF p = Creator THEN 1 ELSE 0]
  /\ cpu = NoThread
  /\ pc = [t \in Thread |-> "user"]
  /\ batch = 0
  /\ want = [t \in Thread |-> 0]
  /\ left = [t \in Thread |-> <<>>]
  /\ sent = <<>>
  /\ received = <<>>
  /\ eof = FALSE
  /\ asked = 0

-----------------------------------------------------------------------------
(* PipeRingBuffer                                                          *)

available_read ==
  IF status = "Empty" THEN 0
  ELSE IF tail > head THEN tail - head ELSE tail + N - head

available_write == IF status = "Full" THEN 0 ELSE N - available_read

(* Mutant of write_byte: the tail is not taken round.                      *)
Mutant_write_byte_unwrapped(b) ==
  /\ arr' = [arr EXCEPT ![tail] = b]
  /\ tail' = tail + 1
  /\ status' = IF tail + 1 = head THEN "Full" ELSE "Normal"
  /\ UNCHANGED head

(* Mutant of write_byte: the byte goes to the slot after the tail.         *)
Mutant_write_byte_late(b) ==
  LET tail1 == (tail + 1) % N
  IN /\ arr' = [arr EXCEPT ![tail1] = b]
     /\ tail' = tail1
     /\ status' = IF tail1 = head THEN "Full" ELSE "Normal"
     /\ UNCHANGED head

write_byte(b) ==
  LET tail1 == (tail + 1) % N
  IN /\ arr' = [arr EXCEPT ![tail] = b]
     /\ tail' = tail1
     /\ status' = IF tail1 = head THEN "Full" ELSE "Normal"
     /\ UNCHANGED head

(* The byte read is arr[head].                                             *)
read_byte ==
  LET head1 == (head + 1) % N
  IN /\ head' = head1
     /\ status' = IF head1 = tail THEN "Empty" ELSE "Normal"
     /\ UNCHANGED <<arr, tail>>

(* Mutant of all_write_ends_closed: only descriptors count, as if          *)
(* sys_write did not clone the file.                                       *)
Mutant_all_write_ends_closed_fds == \A p \in Process : write_fd[p] = 0

(* No strong reference to the write end is left: neither in a descriptor    *)
(* table nor on the kernel stack of a thread inside sys_write.             *)
all_write_ends_closed ==
  /\ \A p \in Process : write_fd[p] = 0
  /\ \A t \in Thread : pc[t] \notin Writing

-----------------------------------------------------------------------------
(* Pipe::read and Pipe::write                                              *)

Alive(t) == life[Proc[t]] = "alive"

InUser(t) == cpu = NoThread /\ pc[t] = "user" /\ Alive(t)

(* The call of the running thread t returns, or t is suspended in it.      *)
Return(t) ==
  /\ cpu' = NoThread
  /\ pc' = [pc EXCEPT ![t] = "user"]
  /\ batch' = 0

Suspend(t) ==
  /\ cpu' = NoThread
  /\ UNCHANGED <<pc, batch>>

Goto(t, l, n) ==
  /\ pc' = [pc EXCEPT ![t] = l]
  /\ batch' = n
  /\ UNCHANGED cpu

SysRead(t, n) ==
  /\ InUser(t)
  /\ read_fd[Proc[t]] > 0
  /\ cpu' = t
  /\ pc' = [pc EXCEPT ![t] = "read_loop"]
  /\ want' = [want EXCEPT ![t] = n]
  /\ UNCHANGED <<ring, fds, batch, left, hist>>

(* Mutant of ReadLoop: an empty ring always suspends.                      *)
MutantReadLoopNoEof(t) ==
  /\ cpu = t
  /\ pc[t] = "read_loop"
  /\ \/ available_read = 0 /\ Suspend(t) /\ UNCHANGED eof
     \/ available_read > 0 /\ Goto(t, "read_for", available_read) /\ UNCHANGED eof
  /\ UNCHANGED <<ring, fds, want, left, sent, received, asked>>

(* Mutant of ReadLoop: an empty ring ends the read, writers or not.         *)
MutantReadLoopShort(t) ==
  /\ cpu = t
  /\ pc[t] = "read_loop"
  /\ \/ available_read = 0 /\ Return(t)
     \/ available_read > 0 /\ Goto(t, "read_for", available_read)
  /\ UNCHANGED <<ring, fds, want, left, hist>>

ReadLoop(t) ==
  /\ cpu = t
  /\ pc[t] = "read_loop"
  /\ \/ available_read = 0 /\ all_write_ends_closed /\ Return(t) /\ eof' = TRUE
     \/ available_read = 0 /\ ~all_write_ends_closed /\ Suspend(t) /\ UNCHANGED eof
     \/ available_read > 0 /\ Goto(t, "read_for", available_read) /\ UNCHANGED eof
  /\ UNCHANGED <<ring, fds, want, left, sent, received, asked>>

ReadFor(t) ==
  /\ cpu = t
  /\ pc[t] = "read_for"
  /\ batch > 0
  /\ want[t] > 0
  /\ read_byte
  /\ want' = [want EXCEPT ![t] = @ - 1]
  /\ received' = Append(received, arr[head])
  /\ IF want[t] = 1 THEN Return(t) ELSE Goto(t, "read_for", batch - 1)
  /\ UNCHANGED <<fds, left, sent, eof, asked>>

(* The for is over, or (a buffer of length 0) buf_iter has nothing to give. *)
ReadForEnds(t) ==
  /\ cpu = t
  /\ pc[t] = "read_for"
  /\ \/ batch = 0 /\ Goto(t, "read_loop", 0)
     \/ batch > 0 /\ want[t] = 0 /\ Return(t)
  /\ UNCHANGED <<ring, fds, want, left, hist>>

SysWrite(t, d) ==
  /\ InUser(t)
  /\ write_fd[Proc[t]] > 0
  /\ asked + Len(d) <= MaxAsked
  /\ asked' = asked + Len(d)
  /\ cpu' = t
  /\ pc' = [pc EXCEPT ![t] = "write_loop"]
  /\ left' = [left EXCEPT ![t] = d]
  /\ UNCHANGED <<ring, fds, batch, want, sent, received, eof>>

(* Mutant of WriteLoop: the for runs over the whole ring.                   *)
MutantWriteLoopWhole(t) ==
  /\ cpu = t
  /\ pc[t] = "write_loop"
  /\ \/ available_write = 0 /\ Suspend(t)
     \/ available_write > 0 /\ Goto(t, "write_for", N)
  /\ UNCHANGED <<ring, fds, want, left, hist>>

WriteLoop(t) ==
  /\ cpu = t
  /\ pc[t] = "write_loop"
  /\ \/ available_write = 0 /\ Suspend(t)
     \/ available_write > 0 /\ Goto(t, "write_for", available_write)
  /\ UNCHANGED <<ring, fds, want, left, hist>>

WriteFor(t) ==
  /\ cpu = t
  /\ pc[t] = "write_for"
  /\ batch > 0
  /\ left[t] # <<>>
  /\ write_byte(Head(left[t]))
  /\ left' = [left EXCEPT ![t] = Tail(@)]
  /\ sent' = Append(sent, Head(left[t]))
  /\ IF Len(left[t]) = 1 THEN Return(t) ELSE Goto(t, "write_for", batch - 1)
  /\ UNCHANGED <<fds, want, received, eof, asked>>

WriteForEnds(t) ==
  /\ cpu = t
  /\ pc[t] = "write_for"
  /\ \/ batch = 0 /\ Goto(t, "write_loop", 0)
     \/ batch > 0 /\ left[t] = <<>> /\ Return(t)
  /\ UNCHANGED <<ring, fds, want, left, hist>>

(* run_tasks switches a thread in that was suspended in a pipe.            *)
Resume(t) ==
  /\ cpu = NoThread
  /\ pc[t] # "user"
  /\ Alive(t)
  /\ cpu' = t
  /\ UNCHANGED <<ring, fds, pc, batch, want, left, hist>>

-----------------------------------------------------------------------------
(* The descriptor tables                                                   *)

SysClose(t) ==
  LET p == Proc[t]
  IN /\ InUser(t)
     /\ \/ /\ read_fd[p] > 0
           /\ read_fd' = [read_fd EXCEPT ![p] = @ - 1]
           /\ UNCHANGED write_fd
        \/ /\ write_fd[p] > 0
           /\ write_fd' = [write_fd EXCEPT ![p] = @ - 1]
           /\ UNCHANGED read_fd
     /\ UNCHANGED <<ring, life, calls, hist>>

SysDup(t) ==
  LET p == Proc[t]
  IN /\ InUser(t)
     /\ \/ /\ read_fd[p] \in 1 .. MaxFd - 1
           /\ read_fd' = [read_fd EXCEPT ![p] = @ + 1]
           /\ UNCHANGED write_fd
        \/ /\ write_fd[p] \in 1 .. MaxFd - 1
           /\ write_fd' = [write_fd EXCEPT ![p] = @ + 1]
           /\ UNCHANGED read_fd
     /\ UNCHANGED <<ring, life, calls, hist>>

(* fork copies the descriptors; it asserts that the process has one thread. *)
SysFork(t, q) ==
  LET p == Proc[t]
  IN /\ InUser(t)
     /\ \A u \in Thread : Proc[u] = p => u = t
     /\ life[q] = "unborn"
     /\ life' = [life EXCEPT ![q] = "alive"]
     /\ read_fd' = [read_fd EXCEPT ![q] = read_fd[p]]
     /\ write_fd' = [write_fd EXCEPT ![q] = write_fd[p]]
     /\ UNCHANGED <<ring, calls, hist>>

(* The main thread of p exits: fd_table.clear(), and the other threads of   *)
(* the process leave the ready queue wherever they were.                   *)
Exit(p) ==
  /\ InUser(Leader[p])
  /\ life' = [life EXCEPT ![p] = "dead"]
  /\ read_fd' = [read_fd EXCEPT ![p] = 0]
  /\ write_fd' = [write_fd EXCEPT ![p] = 0]
  /\ UNCHANGED <<ring, calls, hist>>

KernelStep(t) ==
  \/ ReadLoop(t)  \/ ReadFor(t)  \/ ReadForEnds(t)
  \/ WriteLoop(t) \/ WriteFor(t) \/ WriteForEnds(t)

UserStep(t) ==
  \/ \E n \in Wants : SysRead(t, n)
  \/ \E d \in Data : SysWrite(t, d)
  \/ SysClose(t)
  \/ SysDup(t)
  \/ \E q \in Process : SysFork(t, q)

Next ==
  \/ \E t \in Thread : KernelStep(t) \/ Resume(t) \/ UserStep(t)
  \/ \E p \in Process : Exit(p)

Spec == Init /\ [][Next]_vars

(* A thread in the kernel goes on, and the ready queue is a FIFO: a          *)
(* suspended thread of a living process is switched in again (ReadyRuns in  *)
(* Sync).  Strong, because others are switched in between.                 *)
Fairness == \A t \in Thread : WF_vars(KernelStep(t)) /\ SF_vars(Resume(t))

FairSpec == Spec /\ Fairness

-----------------------------------------------------------------------------
(* The inductive invariant behind the safety properties                    *)

InRing  == Len(sent) - Len(received)
Wrap(i) == IF i < N THEN i ELSE i - N

(* The ring holds, from head on, the bytes sent and not yet received.      *)
RingOK ==
  /\ InRing \in 0 .. N
  /\ status = "Empty" <=> InRing = 0
  /\ status = "Full" <=> InRing = N
  /\ tail = Wrap(head + InRing)
  /\ \A i \in 0 .. InRing - 1 :
       arr[Wrap(head + i)] = sent[Len(received) + i + 1]

(* Only the running thread is inside a for; it is inside a call.            *)
CpuOK ==
  /\ \A t \in Thread : pc[t] \in {"read_for", "write_for"} => cpu = t
  /\ cpu # NoThread => pc[cpu] # "user"

EofClosed == eof => all_write_ends_closed

-----------------------------------------------------------------------------
Fifo == INSTANCE AbstractFifo WITH Capacity <- N

(* However readers and writers interleave and wherever they are suspended,  *)
(* the ring buffer of pipe.rs is a FIFO of N bytes: nothing is lost,         *)
(* repeated, reordered or overwritten when head meets tail.                 *)
ImplementsFifo == Fifo!Spec

(* loop_read and loop_write are taken before the for and trusted in it:      *)
(* read_byte and write_byte do not look.  The ring always holds what the     *)
(* rest of the for reads, or has room for what it writes.                   *)
BatchFits ==
  cpu # NoThread =>
    /\ pc[cpu] = "read_for" => batch <= available_read
    /\ pc[cpu] = "write_for" => batch <= available_write

PipeInv == TypeOK /\ RingOK /\ CpuOK /\ EofClosed /\ BatchFits

(* Once a read has returned for end of file, nothing is ever written again: *)
(* a writer suspended inside sys_write keeps the write end open even when    *)
(* its descriptors are closed or its process is dead.                       *)
EofKept == eof => eof' /\ sent' = sent
EofIsFinal == [][EofKept]_vars

(* A read returns fewer bytes than asked only at end of file, with nothing   *)
(* left in the pipe (buffers of length 0 apart).                            *)
ShortReadAtEof ==
  \A t \in Thread :
    pc[t] \in Reading /\ pc'[t] = "user" /\ want'[t] > 0
      => Len(sent) = Len(received) /\ all_write_ends_closed
ShortReads == [][ShortReadAtEof]_vars

(* When the last reference to the write end is gone, every read in progress  *)
(* ends, unless its process does.                                          *)
ReadersReturn ==
  \A t \in Thread :
    all_write_ends_closed /\ pc[t] \in Reading ~> pc[t] = "user" \/ ~Alive(t)
=============================================================================
