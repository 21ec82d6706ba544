----------------------------- MODULE PipeProofs -----------------------------
(***************************************************************************)
(* The safety properties of Pipe, for every ring size, every number of      *)
(* processes and threads, and all the data they write.                     *)
(***************************************************************************)
EXTENDS Pipe, SequenceTheorems, TLAPS

(* (head + 1) % RING_BUFFER_SIZE is a step round the ring.                  *)
LEMMA ModLess ==
  ASSUME NEW n \in Nat \ {0}, NEW y \in 0 .. n - 1 PROVE y % n = y
BY SMTT(30)

(* The last step takes an index of the ring back to 0. *)
LEMMA ModSelf == ASSUME NEW n \in Nat \ {0} PROVE n % n = 0
BY SMTT(30)

LEMMA RingStep ==
  ASSUME NEW x \in 0 .. N - 1
  PROVE  (x + 1) % N = Wrap(x + 1)
<1>1. CASE x + 1 = N
  BY <1>1, ModSelf, PipeAssumption DEF Wrap
<1>2. CASE x + 1 # N
  <2>1. x + 1 \in 0 .. N - 1
    BY <1>2, PipeAssumption
  <2> QED
    BY <2>1, ModLess, PipeAssumption DEF Wrap
<1> QED
  BY <1>1, <1>2

(* The arithmetic of available_read: n bytes from h on, the tail at t.      *)
LEMMA Counting ==
  ASSUME NEW h \in 0 .. N - 1, NEW n \in 0 .. N, NEW t, NEW s,
         t = Wrap(h + n), s = "Empty" <=> n = 0
  PROVE  (IF s = "Empty" THEN 0 ELSE IF t > h THEN t - h ELSE t + N - h) = n
BY PipeAssumption DEF Wrap

(* available_read and available_write count the ring's bytes and its room,  *)
(* before a step and after it.                                             *)
LEMMA Available ==
  ASSUME TypeOK, RingOK
  PROVE  available_read = InRing /\ available_write = N - InRing
<1>1. available_read = InRing
  BY Counting, Zenon DEF TypeOK, RingOK, available_read
<1>2. InRing \in 0 .. N /\ (status = "Full" <=> InRing = N)
  BY DEF RingOK
<1> QED
  BY <1>1, <1>2, PipeAssumption DEF available_write

(* The same counts in the state after a step. *)
LEMMA AvailableNext ==
  ASSUME TypeOK', RingOK'
  PROVE  available_read' = InRing' /\ available_write' = N - InRing'
<1>1. available_read' = InRing'
  BY Counting, Zenon DEF TypeOK, RingOK, available_read, Wrap
<1>2. InRing' \in 0 .. N /\ (status' = "Full" <=> InRing' = N)
  BY DEF RingOK
<1>3. available_write' = IF status' = "Full" THEN 0 ELSE N - available_read'
  BY DEF available_write, available_read
<1> DEFINE n == InRing'
<1>4. available_read' = n /\ n \in 0 .. N /\ (status' = "Full" <=> n = N)
  BY <1>1, <1>2
<1> HIDE DEF n
<1>5. available_write' = N - n
  BY <1>3, <1>4, PipeAssumption
<1> QED
  BY <1>4, <1>5 DEF n

(* A byte written where there is room joins the ring's contents at the end. *)
LEMMA WriteByteKeepsRing ==
  ASSUME TypeOK, RingOK, InRing < N, NEW c \in Byte,
         write_byte(c), sent' = Append(sent, c), UNCHANGED received
  PROVE  /\ RingOK'
         /\ InRing' = InRing + 1
         /\ arr' \in [0 .. N - 1 -> Byte \cup {0}]
         /\ head' \in 0 .. N - 1
         /\ tail' \in 0 .. N - 1
         /\ status' \in {"Full", "Empty", "Normal"}
<1>1. /\ N \in Nat \ {0}
      /\ head \in 0 .. N - 1 /\ tail \in 0 .. N - 1
      /\ Len(sent) \in Nat /\ Len(received) \in Nat
      /\ arr \in [0 .. N - 1 -> Byte \cup {0}]
  BY PipeAssumption, LenProperties DEF TypeOK
<1>2. /\ Len(sent') = Len(sent) + 1
      /\ \A i \in 1 .. Len(sent) : sent'[i] = sent[i]
      /\ sent'[Len(sent) + 1] = c
  BY AppendProperties DEF TypeOK
<1>3. InRing' = InRing + 1
  BY <1>1, <1>2 DEF InRing
<1>4. /\ tail' = Wrap(tail + 1)
      /\ head' = head
      /\ arr' = [arr EXCEPT ![tail] = c]
      /\ status' = IF tail' = head THEN "Full" ELSE "Normal"
  BY <1>1, RingStep DEF write_byte
<1>5. InRing \in 0 .. N - 1 /\ tail = Wrap(head + InRing)
  BY <1>1 DEF RingOK
<1>6. tail' = Wrap(head' + InRing') /\ tail' \in 0 .. N - 1
  <2> HIDE DEF InRing
  <2> QED
    BY <1>1, <1>3, <1>4, <1>5 DEF Wrap
<1>7. tail' = head <=> InRing' = N
  <2> HIDE DEF InRing
  <2> QED
    BY <1>1, <1>3, <1>4, <1>5 DEF Wrap
<1>8. ASSUME NEW i \in 0 .. InRing' - 1
      PROVE  arr'[Wrap(head' + i)] = sent'[Len(received') + i + 1]
  <2>1. CASE i = InRing
    <3>1. Wrap(head' + i) = tail /\ arr'[tail] = c
      BY <1>1, <1>4, <1>5, <2>1
    <3>2. Len(received') + i + 1 = Len(sent) + 1
      BY <1>1, <2>1 DEF InRing
    <3> QED
      BY <3>1, <3>2, <1>2
  <2>2. CASE i # InRing
    <3>1. i \in 0 .. InRing - 1
      BY <1>1, <1>3, <1>5, <2>2
    <3>2. Wrap(head + i) # tail /\ Wrap(head + i) \in 0 .. N - 1
      <4> HIDE DEF InRing
      <4> QED
        BY <1>1, <1>5, <3>1 DEF Wrap
    <3>3. arr'[Wrap(head' + i)] = arr[Wrap(head + i)]
      BY <1>1, <1>4, <3>2
    <3>4. Len(received) + i + 1 \in 1 .. Len(sent)
      BY <1>1, <3>1 DEF InRing
    <3> QED
      BY <3>1, <3>3, <3>4, <1>2 DEF RingOK
  <2> QED
    BY <2>1, <2>2, Zenon
<1>9. InRing' \in 1 .. N
  <2> HIDE DEF InRing
  <2> QED
    BY <1>1, <1>3, <1>5
<1>10. RingOK'
  <2>1. /\ status' = "Empty" <=> InRing' = 0
        /\ status' = "Full" <=> InRing' = N
    BY <1>4, <1>7, <1>9
  <2>2. InRing' \in 0 .. N
    BY <1>9, <1>1
  <2> QED
    BY <2>1, <2>2, <1>6, <1>8, Zenon DEF RingOK, Wrap
<1> QED
  BY <1>1, <1>3, <1>4, <1>6, <1>10

(* The byte read is the oldest one sent and not received, and the rest of   *)
(* the contents stay.                                                      *)
LEMMA ReadByteKeepsRing ==
  ASSUME TypeOK, RingOK, InRing > 0,
         read_byte, received' = Append(received, arr[head]), UNCHANGED sent
  PROVE  /\ RingOK'
         /\ InRing' = InRing - 1
         /\ arr[head] = sent[Len(received) + 1]
         /\ head' \in 0 .. N - 1
         /\ status' \in {"Full", "Empty", "Normal"}
<1>1. /\ N \in Nat \ {0}
      /\ head \in 0 .. N - 1 /\ tail \in 0 .. N - 1
      /\ Len(sent) \in Nat /\ Len(received) \in Nat
      /\ arr \in [0 .. N - 1 -> Byte \cup {0}]
      /\ received \in Seq(Byte \cup {0})
  BY PipeAssumption, LenProperties DEF TypeOK
<1>2. Len(received') = Len(received) + 1
  BY <1>1, AppendProperties
<1>3. InRing' = InRing - 1
  BY <1>1, <1>2 DEF InRing
<1>4. /\ head' = Wrap(head + 1)
      /\ tail' = tail /\ arr' = arr
      /\ status' = IF head' = tail THEN "Empty" ELSE "Normal"
  BY <1>1, RingStep DEF read_byte
<1>5. InRing \in 1 .. N /\ tail = Wrap(head + InRing)
  BY <1>1 DEF RingOK
<1>6. /\ head' \in 0 .. N - 1
      /\ tail' = Wrap(head' + InRing')
      /\ head' = tail <=> InRing' = 0
      /\ InRing' \in 0 .. N - 1
  <2> HIDE DEF InRing
  <2> QED
    BY <1>1, <1>3, <1>4, <1>5 DEF Wrap
<1>7. ASSUME NEW i \in 0 .. InRing' - 1
      PROVE  arr'[Wrap(head' + i)] = sent'[Len(received') + i + 1]
  <2>1. i + 1 \in 0 .. InRing - 1
    BY <1>3, <1>5
  <2>2. Wrap(head' + i) = Wrap(head + (i + 1))
    <3> HIDE DEF InRing
    <3> QED
      BY <1>1, <1>4, <1>5, <2>1 DEF Wrap
  <2>3. arr[Wrap(head + (i + 1))] = sent[Len(received) + (i + 1) + 1]
    BY <2>1 DEF RingOK
  <2>4. Len(received') + i + 1 = Len(received) + (i + 1) + 1
    BY <1>1, <1>2, <2>1
  <2> QED
    BY <1>4, <2>2, <2>3, <2>4
<1>8. arr[head] = sent[Len(received) + 1]
  <2>1. 0 \in 0 .. InRing - 1 /\ Wrap(head + 0) = head
    BY <1>1, <1>5 DEF Wrap
  <2>2. arr[Wrap(head + 0)] = sent[Len(received) + 0 + 1]
    BY <2>1 DEF RingOK
  <2> QED
    BY <1>1, <2>1, <2>2
<1>9. RingOK'
  <2>1. /\ status' = "Empty" <=> InRing' = 0
        /\ status' = "Full" <=> InRing' = N
    BY <1>1, <1>4, <1>6
  <2>2. InRing' \in 0 .. N
    BY <1>6, <1>1
  <2> QED
    BY <2>1, <2>2, <1>6, <1>7, Zenon DEF RingOK, Wrap
<1> QED
  BY <1>3, <1>4, <1>6, <1>8, <1>9

-----------------------------------------------------------------------------
(* The inductive invariant                                                 *)

(* A new pipe, empty and open, satisfies the invariant. *)
LEMMA PipeInit == Init => PipeInv
<1> SUFFICES ASSUME Init PROVE PipeInv
  OBVIOUS
<1>0. N \in Nat \ {0} /\ Len(<<>>) = 0
  BY PipeAssumption
<1>1. TypeOK
  <2>1. /\ arr \in [0 .. N - 1 -> Byte \cup {0}]
        /\ head \in 0 .. N - 1 /\ tail \in 0 .. N - 1
        /\ status \in {"Full", "Empty", "Normal"}
    BY <1>0 DEF Init
  <2>2. /\ life \in [Process -> {"unborn", "alive", "dead"}]
        /\ read_fd \in [Process -> Nat] /\ write_fd \in [Process -> Nat]
    BY DEF Init
  <2>3. /\ cpu \in Thread \cup {NoThread} /\ batch \in Nat
        /\ pc \in [Thread -> {"user"} \cup Reading \cup Writing]
        /\ want \in [Thread -> Nat] /\ left \in [Thread -> Seq(Byte)]
    BY DEF Init
  <2>4. sent \in Seq(Byte) /\ received \in Seq(Byte \cup {0}) /\ asked \in Nat
    BY DEF Init
  <2>5. eof \in BOOLEAN
    BY Zenon DEF Init
  <2> QED
    BY <2>1, <2>2, <2>3, <2>4, <2>5 DEF TypeOK
<1>2. InRing = 0
  BY <1>0 DEF Init, InRing
<1>3. RingOK
  BY <1>0, <1>2 DEF Init, RingOK, Wrap
<1> QED
  BY <1>1, <1>3 DEF Init, PipeInv, CpuOK, EofClosed, BatchFits

(* A step that leaves the ring alone, and the bytes sent and received,      *)
(* keeps RingOK.                                                           *)
LEMMA RingUntouched ==
  ASSUME RingOK, UNCHANGED <<ring, sent, received>>
  PROVE  RingOK' /\ available_read' = available_read
                 /\ available_write' = available_write
BY DEF RingOK, ring, InRing, Wrap, available_read, available_write

(* Entering sys_read takes the CPU and touches nothing the ring needs. *)
LEMMA SysReadKeeps ==
  ASSUME PipeInv, NEW t \in Thread, NEW n \in Wants, SysRead(t, n)
  PROVE  PipeInv'
<1>1. TypeOK'
  BY PipeAssumption, Zenon DEF PipeInv, TypeOK, SysRead, ring, fds, hist, Reading
<1>2. RingOK'
  BY RingUntouched DEF PipeInv, SysRead, ring, hist
<1>3. CpuOK' /\ BatchFits'
  BY PipeAssumption, Zenon DEF PipeInv, TypeOK, SysRead, InUser, CpuOK, BatchFits
<1>4. EofClosed'
  BY DEF PipeInv, TypeOK, EofClosed, SysRead, all_write_ends_closed, fds, hist, Writing
<1> QED
  BY <1>1, <1>2, <1>3, <1>4 DEF PipeInv

(* The head of Pipe::read's loop: end of file is recorded only when the write
   end is gone, and the bound of the for is what the ring holds. *)
LEMMA ReadLoopKeeps ==
  ASSUME PipeInv, NEW t \in Thread, ReadLoop(t)
  PROVE  PipeInv'
<1>0. available_read \in Nat /\ N \in Nat
  BY Available, PipeAssumption DEF PipeInv, RingOK
<1>1. TypeOK'
  BY <1>0, Zenon DEF PipeInv, TypeOK, ReadLoop, Return, Suspend, Goto, ring, fds, Reading
<1>2. RingOK' /\ available_read' = available_read /\ available_write' = available_write
  BY RingUntouched DEF PipeInv, ReadLoop, ring
<1>3. CpuOK' /\ BatchFits'
  <2>1. \A u \in Thread : pc[u] \notin {"read_for", "write_for"}
    BY DEF PipeInv, CpuOK, ReadLoop
  <2> QED
    BY <1>0, <1>2, <2>1, PipeAssumption, SMTT(30)
    DEF PipeInv, TypeOK, ReadLoop, Return, Suspend, Goto, CpuOK, BatchFits
<1>4. EofClosed'
  BY Zenon DEF PipeInv, TypeOK, EofClosed, ReadLoop, Return, Suspend, Goto,
         all_write_ends_closed, fds, Writing
<1> QED
  BY <1>1, <1>2, <1>3, <1>4 DEF PipeInv

(* A round of Pipe::read's for finds a byte, the oldest one. *)
LEMMA ReadForKeeps ==
  ASSUME PipeInv, NEW t \in Thread, ReadFor(t)
  PROVE  /\ PipeInv'
         /\ InRing > 0
         /\ arr[head] = sent[Len(received) + 1]
<1>0. /\ available_read = InRing /\ InRing \in 0 .. N /\ N \in Nat \ {0}
      /\ batch \in Nat /\ batch <= available_read /\ batch > 0
      /\ want \in [Thread -> Nat] /\ want[t] > 0 /\ cpu = t
  BY Available, PipeAssumption, Zenon DEF PipeInv, RingOK, TypeOK, ReadFor, BatchFits
<1>1. InRing > 0
  BY <1>0
<1>2. /\ RingOK' /\ InRing' = InRing - 1 /\ arr[head] = sent[Len(received) + 1]
      /\ head' \in 0 .. N - 1
      /\ status' \in {"Full", "Empty", "Normal"}
  BY <1>1, ReadByteKeepsRing DEF PipeInv, ReadFor
<1>3. received' \in Seq(Byte \cup {0})
  <2>1. arr[head] \in Byte \cup {0} /\ received \in Seq(Byte \cup {0})
    BY Zenon DEF PipeInv, TypeOK
  <2> QED
    BY <2>1, AppendProperties, Zenon DEF ReadFor
<1>4. want' \in [Thread -> Nat] /\ batch' \in Nat
  BY <1>0 DEF ReadFor, Return, Goto
<1>5. TypeOK'
  BY <1>2, <1>3, <1>4, Zenon
  DEF PipeInv, TypeOK, ReadFor, read_byte, Return, Goto, fds, Reading
<1>6. available_read' = InRing'
  BY <1>2, <1>5, AvailableNext
<1>7. CpuOK' /\ BatchFits'
  <2>0. /\ pc \in [Thread -> {"user"} \cup Reading \cup Writing]
        /\ pc[t] = "read_for"
    BY DEF PipeInv, TypeOK, ReadFor
  <2>1. \A u \in Thread : pc[u] \in {"read_for", "write_for"} => u = t
    BY <1>0 DEF PipeInv, CpuOK
  <2>2. CASE Return(t)
    BY <2>0, <2>1, <2>2, PipeAssumption DEF Return, CpuOK, BatchFits
  <2>3. CASE Goto(t, "read_for", batch - 1)
    <3>1. cpu' = t /\ pc' = pc /\ batch' = batch - 1
      BY <1>0, <2>0, <2>3 DEF Goto
    <3>2. CpuOK'
      BY <1>0, <2>0, <2>1, <3>1 DEF CpuOK
    <3>3. BatchFits'
      <4> DEFINE room == available_read'
      <4>1. batch' <= room
        BY <1>0, <1>2, <1>6, <3>1
      <4> HIDE DEF room
      <4>2. cpu' # NoThread => pc'[cpu'] = "read_for"
        BY <2>0, <3>1
      <4> QED
        BY <4>1, <4>2 DEF room, BatchFits
    <3> QED
      BY <3>2, <3>3
  <2> QED
    BY <2>2, <2>3 DEF ReadFor
<1>8. EofClosed'
  BY DEF PipeInv, TypeOK, EofClosed, ReadFor, Return, Goto,
         all_write_ends_closed, fds, Writing
<1> QED
  BY <1>1, <1>2, <1>5, <1>7, <1>8 DEF PipeInv

(* Leaving Pipe::read's for keeps the invariant. *)
LEMMA ReadForEndsKeeps ==
  ASSUME PipeInv, NEW t \in Thread, ReadForEnds(t)
  PROVE  PipeInv'
<1>1. TypeOK'
  <2>1. /\ cpu' \in Thread \cup {NoThread} /\ batch' \in Nat
        /\ pc' \in [Thread -> {"user"} \cup Reading \cup Writing]
    <3>0. /\ cpu \in Thread \cup {NoThread}
          /\ pc \in [Thread -> {"user"} \cup Reading \cup Writing]
      BY DEF PipeInv, TypeOK
    <3>1. CASE Goto(t, "read_loop", 0)
      BY <3>0, <3>1 DEF Goto, Reading
    <3>2. CASE Return(t)
      BY <3>0, <3>2 DEF Return
    <3> QED
      BY <3>1, <3>2 DEF ReadForEnds
  <2> QED
    BY <2>1 DEF PipeInv, TypeOK, ReadForEnds, ring, fds, hist
<1>2. RingOK'
  BY RingUntouched DEF PipeInv, ReadForEnds, ring, hist
<1>3. CpuOK' /\ BatchFits'
  BY PipeAssumption, Zenon
  DEF PipeInv, TypeOK, ReadForEnds, Return, Goto, CpuOK, BatchFits
<1>4. EofClosed'
  BY DEF PipeInv, TypeOK, EofClosed, ReadForEnds, Return, Goto,
         all_write_ends_closed, fds, hist, Writing
<1> QED
  BY <1>1, <1>2, <1>3, <1>4 DEF PipeInv

(* Entering sys_write needs an open descriptor, so it comes before any end of
   file. *)
LEMMA SysWriteKeeps ==
  ASSUME PipeInv, NEW t \in Thread, NEW d \in Data, SysWrite(t, d)
  PROVE  PipeInv'
<1>0. d \in Seq(Byte) /\ Len(d) \in Nat
  BY PipeAssumption, LenProperties
<1>1. TypeOK'
  BY <1>0 DEF PipeInv, TypeOK, SysWrite, ring, fds, Writing
<1>2. RingOK'
  BY RingUntouched DEF PipeInv, SysWrite, ring
<1>3. CpuOK' /\ BatchFits'
  BY PipeAssumption, Zenon DEF PipeInv, TypeOK, SysWrite, InUser, CpuOK, BatchFits
<1>4. ~eof
  <2>1. Proc[t] \in Process /\ write_fd[Proc[t]] > 0
    BY PipeAssumption DEF SysWrite
  <2>2. ~all_write_ends_closed
    BY <2>1 DEF all_write_ends_closed
  <2> QED
    BY <2>2 DEF PipeInv, EofClosed
<1>5. EofClosed'
  BY <1>4 DEF EofClosed, SysWrite
<1> QED
  BY <1>1, <1>2, <1>3, <1>5 DEF PipeInv

(* The head of Pipe::write's loop takes the room of the ring as its bound. *)
LEMMA WriteLoopKeeps ==
  ASSUME PipeInv, NEW t \in Thread, WriteLoop(t)
  PROVE  PipeInv'
<1>0. available_write \in Nat /\ N \in Nat
  BY Available, PipeAssumption DEF PipeInv, RingOK
<1>1. TypeOK'
  BY <1>0, Zenon DEF PipeInv, TypeOK, WriteLoop, Suspend, Goto, ring, fds, hist, Writing
<1>2. RingOK' /\ available_read' = available_read /\ available_write' = available_write
  BY RingUntouched DEF PipeInv, WriteLoop, ring, hist
<1>3. CpuOK' /\ BatchFits'
  <2>1. \A u \in Thread : pc[u] \notin {"read_for", "write_for"}
    BY DEF PipeInv, CpuOK, WriteLoop
  <2> QED
    BY <1>0, <1>2, <2>1, PipeAssumption, SMTT(30)
    DEF PipeInv, TypeOK, WriteLoop, Suspend, Goto, CpuOK, BatchFits
<1>4. EofClosed'
  BY DEF PipeInv, TypeOK, EofClosed, WriteLoop, Suspend, Goto,
         all_write_ends_closed, fds, hist, Writing
<1> QED
  BY <1>1, <1>2, <1>3, <1>4 DEF PipeInv

(* A round of Pipe::write's for finds room, and no read has seen end of file. *)
LEMMA WriteForKeeps ==
  ASSUME PipeInv, NEW t \in Thread, WriteFor(t)
  PROVE  /\ PipeInv'
         /\ InRing < N
         /\ Head(left[t]) \in Byte
         /\ ~eof
<1>0. /\ available_write = N - InRing /\ InRing \in 0 .. N /\ N \in Nat \ {0}
      /\ batch \in Nat /\ batch <= available_write /\ batch > 0
      /\ cpu = t
  BY Available, PipeAssumption, Zenon DEF PipeInv, RingOK, TypeOK, WriteFor, BatchFits
<1>1. InRing < N
  BY <1>0
<1>2. Head(left[t]) \in Byte /\ Tail(left[t]) \in Seq(Byte)
  BY HeadTailProperties DEF PipeInv, TypeOK, WriteFor
<1>3. /\ RingOK' /\ InRing' = InRing + 1
      /\ arr' \in [0 .. N - 1 -> Byte \cup {0}]
      /\ head' \in 0 .. N - 1 /\ tail' \in 0 .. N - 1
      /\ status' \in {"Full", "Empty", "Normal"}
  BY <1>1, <1>2, WriteByteKeepsRing DEF PipeInv, WriteFor
<1>4. sent' \in Seq(Byte)
  BY <1>2, AppendProperties DEF PipeInv, TypeOK, WriteFor
<1>5. left' \in [Thread -> Seq(Byte)] /\ batch' \in Nat
  BY <1>0, <1>2 DEF PipeInv, TypeOK, WriteFor, Return, Goto
<1>6. TypeOK'
  BY <1>3, <1>4, <1>5, Zenon DEF PipeInv, TypeOK, WriteFor, Return, Goto, fds, Writing
<1>7. available_write' = N - InRing'
  BY <1>3, <1>6, AvailableNext
<1>8. CpuOK' /\ BatchFits'
  <2>0. /\ pc \in [Thread -> {"user"} \cup Reading \cup Writing]
        /\ pc[t] = "write_for"
    BY DEF PipeInv, TypeOK, WriteFor
  <2>1. \A u \in Thread : pc[u] \in {"read_for", "write_for"} => u = t
    BY <1>0 DEF PipeInv, CpuOK
  <2>2. CASE Return(t)
    BY <2>0, <2>1, <2>2, PipeAssumption DEF Return, CpuOK, BatchFits
  <2>3. CASE Goto(t, "write_for", batch - 1)
    <3>1. cpu' = t /\ pc' = pc /\ batch' = batch - 1
      BY <1>0, <2>0, <2>3 DEF Goto
    <3>2. CpuOK'
      BY <1>0, <2>0, <2>1, <3>1 DEF CpuOK
    <3>3. BatchFits'
      <4> DEFINE room == available_write'
      <4>1. batch' <= room
        BY <1>0, <1>3, <1>7, <3>1
      <4> HIDE DEF room
      <4>2. cpu' # NoThread => pc'[cpu'] = "write_for"
        BY <2>0, <3>1
      <4> QED
        BY <4>1, <4>2 DEF room, BatchFits
    <3> QED
      BY <3>2, <3>3
  <2> QED
    BY <2>2, <2>3 DEF WriteFor
<1>9. ~eof
  BY DEF PipeInv, EofClosed, WriteFor, all_write_ends_closed, Writing
<1>10. EofClosed'
  BY <1>9 DEF EofClosed, WriteFor
<1> QED
  BY <1>1, <1>2, <1>3, <1>6, <1>8, <1>9, <1>10, SMTT(30) DEF PipeInv

(* Leaving Pipe::write's for keeps the invariant. *)
LEMMA WriteForEndsKeeps ==
  ASSUME PipeInv, NEW t \in Thread, WriteForEnds(t)
  PROVE  PipeInv'
<1>1. TypeOK'
  <2>1. /\ cpu' \in Thread \cup {NoThread} /\ batch' \in Nat
        /\ pc' \in [Thread -> {"user"} \cup Reading \cup Writing]
    <3>0. /\ cpu \in Thread \cup {NoThread}
          /\ pc \in [Thread -> {"user"} \cup Reading \cup Writing]
      BY DEF PipeInv, TypeOK
    <3>1. CASE Goto(t, "write_loop", 0)
      BY <3>0, <3>1, SMTT(30) DEF Goto, Writing
    <3>2. CASE Return(t)
      BY <3>0, <3>2 DEF Return
    <3> QED
      BY <3>1, <3>2 DEF WriteForEnds
  <2> QED
    BY <2>1 DEF PipeInv, TypeOK, WriteForEnds, ring, fds, hist
<1>2. RingOK'
  BY RingUntouched DEF PipeInv, WriteForEnds, ring, hist
<1>3. CpuOK' /\ BatchFits'
  BY PipeAssumption, Zenon
  DEF PipeInv, TypeOK, WriteForEnds, Return, Goto, CpuOK, BatchFits
<1>4. EofClosed'
  BY DEF PipeInv, TypeOK, EofClosed, WriteForEnds, Return, Goto,
         all_write_ends_closed, fds, hist, Writing
<1> QED
  BY <1>1, <1>2, <1>3, <1>4 DEF PipeInv

(* run_tasks switches threads in at the head of a loop only. *)
LEMMA ResumeKeeps ==
  ASSUME PipeInv, NEW t \in Thread, Resume(t)
  PROVE  PipeInv'
<1>1. TypeOK'
  BY DEF PipeInv, TypeOK, Resume, ring, fds, hist
<1>2. RingOK'
  BY RingUntouched DEF PipeInv, Resume, ring, hist
<1>3. CpuOK' /\ BatchFits'
  BY PipeAssumption DEF PipeInv, TypeOK, Resume, CpuOK, BatchFits
<1>4. EofClosed'
  BY DEF PipeInv, EofClosed, Resume, all_write_ends_closed, fds, hist
<1> QED
  BY <1>1, <1>2, <1>3, <1>4 DEF PipeInv

(* close, dup, fork and exit change descriptors only, and open no write end *)
(* that nobody had.                                                        *)
DescriptorStep ==
  \/ \E t \in Thread : SysClose(t) \/ SysDup(t) \/ \E q \in Process : SysFork(t, q)
  \/ \E p \in Process : Exit(p)

(* sys_close, sys_dup, fork and exit keep the invariant. *)
LEMMA DescriptorStepKeeps ==
  ASSUME PipeInv, DescriptorStep
  PROVE  PipeInv' /\ UNCHANGED <<ring, calls, hist>>
<1>1. UNCHANGED <<ring, calls, hist>>
  BY DEF DescriptorStep, SysClose, SysDup, SysFork, Exit
<1>2. /\ life' \in [Process -> {"unborn", "alive", "dead"}]
      /\ read_fd' \in [Process -> Nat]
      /\ write_fd' \in [Process -> Nat]
      /\ (\A p \in Process : write_fd[p] = 0) => \A p \in Process : write_fd'[p] = 0
  <2>1. /\ life \in [Process -> {"unborn", "alive", "dead"}]
        /\ read_fd \in [Process -> Nat]
        /\ write_fd \in [Process -> Nat]
    BY DEF PipeInv, TypeOK
  <2>2. ASSUME NEW t \in Thread, SysClose(t) PROVE <1>2!:
    <3>1. Proc[t] \in Process /\ life' = life
      BY <2>2, PipeAssumption DEF SysClose
    <3>2. CASE /\ read_fd[Proc[t]] > 0
               /\ read_fd' = [read_fd EXCEPT ![Proc[t]] = @ - 1]
               /\ UNCHANGED write_fd
      BY <2>1, <3>1, <3>2
    <3>3. CASE /\ write_fd[Proc[t]] > 0
               /\ write_fd' = [write_fd EXCEPT ![Proc[t]] = @ - 1]
               /\ UNCHANGED read_fd
      BY <2>1, <3>1, <3>3
    <3> QED
      BY <2>1, <2>2, <3>1, <3>2, <3>3, PipeAssumption DEF SysClose
  <2>3. ASSUME NEW t \in Thread, SysDup(t) PROVE <1>2!:
    <3>1. Proc[t] \in Process /\ life' = life
      BY <2>3, PipeAssumption DEF SysDup
    <3>2. CASE /\ read_fd[Proc[t]] > 0
               /\ read_fd' = [read_fd EXCEPT ![Proc[t]] = @ + 1]
               /\ UNCHANGED write_fd
      BY <2>1, <3>1, <3>2
    <3>3. CASE /\ write_fd[Proc[t]] > 0
               /\ write_fd' = [write_fd EXCEPT ![Proc[t]] = @ + 1]
               /\ UNCHANGED read_fd
      BY <2>1, <3>1, <3>3
    <3> QED
      BY <2>1, <2>3, <3>1, <3>2, <3>3, PipeAssumption, SMTT(30) DEF SysDup
  <2>4. ASSUME NEW t \in Thread, NEW q \in Process, SysFork(t, q) PROVE <1>2!:
    BY <2>1, <2>4, PipeAssumption, Zenon DEF SysFork
  <2>5. ASSUME NEW p \in Process, Exit(p) PROVE <1>2!:
    BY <2>1, <2>5, PipeAssumption DEF Exit
  <2> QED
    BY <2>2, <2>3, <2>4, <2>5 DEF DescriptorStep
<1>3. TypeOK'
  BY <1>1, <1>2 DEF PipeInv, TypeOK, ring, calls, hist
<1>4. RingOK' /\ available_read' = available_read /\ available_write' = available_write
  BY <1>1, RingUntouched DEF PipeInv, ring, hist
<1>5. CpuOK' /\ BatchFits'
  BY <1>1, <1>4 DEF PipeInv, CpuOK, BatchFits, calls
<1>6. EofClosed'
  BY <1>1, <1>2 DEF PipeInv, EofClosed, all_write_ends_closed, calls, hist
<1> QED
  BY <1>1, <1>3, <1>4, <1>5, <1>6 DEF PipeInv

(* Every step keeps the invariant. *)
LEMMA PipeStep == PipeInv /\ [Next]_vars => PipeInv'
<1> SUFFICES ASSUME PipeInv, [Next]_vars PROVE PipeInv'
  OBVIOUS
<1>1. CASE UNCHANGED vars
  <2>1. TypeOK'
    BY <1>1 DEF PipeInv, TypeOK, vars, ring, fds, calls, hist
  <2>2. RingOK' /\ available_read' = available_read /\ available_write' = available_write
    BY <1>1, RingUntouched DEF PipeInv, vars, ring, hist
  <2>3. CpuOK' /\ BatchFits' /\ EofClosed'
    BY <1>1, <2>2 DEF PipeInv, CpuOK, BatchFits, EofClosed, all_write_ends_closed,
                      vars, fds, calls, hist
  <2> QED
    BY <2>1, <2>2, <2>3 DEF PipeInv
<1>2. ASSUME NEW t \in Thread, KernelStep(t) PROVE PipeInv'
  BY <1>2, ReadLoopKeeps, ReadForKeeps, ReadForEndsKeeps,
     WriteLoopKeeps, WriteForKeeps, WriteForEndsKeeps DEF KernelStep
<1>3. ASSUME NEW t \in Thread, Resume(t) PROVE PipeInv'
  BY <1>3, ResumeKeeps
<1>4. ASSUME NEW t \in Thread, UserStep(t) PROVE PipeInv'
  BY <1>4, SysReadKeeps, SysWriteKeeps, DescriptorStepKeeps
  DEF UserStep, DescriptorStep
<1>5. ASSUME NEW p \in Process, Exit(p) PROVE PipeInv'
  BY <1>5, DescriptorStepKeeps DEF DescriptorStep
<1> QED
  BY <1>1, <1>2, <1>3, <1>4, <1>5 DEF Next

(* The invariant holds in every reachable state.                           *)
THEOREM PipeInvariant == Spec => []PipeInv
BY PipeInit, PipeStep, PTL DEF Spec

(* The ring, the descriptors and the registers of the loops keep their types *)
(* whatever the readers and writers do.                                    *)
THEOREM PipeTypes == Spec => []TypeOK
<1>1. PipeInv => TypeOK
  BY DEF PipeInv
<1> QED
  BY <1>1, PipeInvariant, PTL

(* The bounds taken before the for loops of Pipe::read and Pipe::write are   *)
(* good for every round of them.                                           *)
THEOREM BatchesFit == Spec => []BatchFits
<1>1. PipeInv => BatchFits
  BY DEF PipeInv
<1> QED
  BY <1>1, PipeInvariant, PTL

-----------------------------------------------------------------------------
(* What the invariant gives                                                *)

(* Every byte taken out of the ring is the next one sent, every byte put in *)
(* finds room: the ring buffer implements a bounded FIFO.                   *)
THEOREM PipeIsFifo == Spec => ImplementsFifo
<1>1. Init => Fifo!Init
  BY DEF Init, Fifo!Init
<1>2. PipeInv /\ [Next]_vars => [Fifo!Next]_<<sent, received>>
  <2> SUFFICES ASSUME PipeInv, [Next]_vars
               PROVE  Fifo!Next \/ UNCHANGED <<sent, received>>
    BY Zenon
  <2>0. Len(sent) \in Nat /\ Len(received) \in Nat
    BY LenProperties DEF PipeInv, TypeOK
  <2>1. ASSUME NEW t \in Thread, ReadFor(t) PROVE Fifo!Get
    <3>1. InRing > 0 /\ arr[head] = sent[Len(received) + 1]
      BY <2>1, ReadForKeeps
    <3> QED
      BY <2>0, <2>1, <3>1 DEF ReadFor, Fifo!Get, InRing
  <2>2. ASSUME NEW t \in Thread, WriteFor(t) PROVE \E c \in Byte : Fifo!Put(c)
    <3>1. InRing < N /\ Head(left[t]) \in Byte
      BY <2>2, WriteForKeeps
    <3>2. Fifo!Put(Head(left[t]))
      BY <2>2, <3>1, SMTT(30) DEF WriteFor, Fifo!Put, InRing
    <3> QED
      BY <3>1, <3>2
  <2>3. ASSUME NEW t \in Thread, KernelStep(t), ~ReadFor(t), ~WriteFor(t)
        PROVE  UNCHANGED <<sent, received>>
    BY <2>3, SMTT(30) DEF KernelStep, ReadLoop, ReadForEnds, WriteLoop, WriteForEnds, hist
  <2>4. ASSUME NEW t \in Thread, Resume(t) \/ UserStep(t)
        PROVE  UNCHANGED <<sent, received>>
    BY <2>4 DEF Resume, UserStep, SysRead, SysWrite, SysClose, SysDup, SysFork, hist
  <2>5. ASSUME NEW p \in Process, Exit(p) PROVE UNCHANGED <<sent, received>>
    BY <2>5 DEF Exit, hist
  <2>6. CASE UNCHANGED vars
    BY <2>6 DEF vars, hist
  <2> QED
    BY <2>1, <2>2, <2>3, <2>4, <2>5, <2>6 DEF Next, Fifo!Next
<1> QED
  BY <1>1, <1>2, PipeInvariant, PTL DEF Spec, ImplementsFifo, Fifo!Spec

(* After a read has returned for end of file no byte is ever written: by    *)
(* then no thread is inside Pipe::write and no descriptor could start one.  *)
THEOREM EndOfFileIsFinal == Spec => EofIsFinal
<1>1. PipeInv /\ [Next]_vars => [EofKept]_vars
  <2> SUFFICES ASSUME PipeInv, Next, eof PROVE eof' /\ sent' = sent
    BY DEF EofKept
  <2>1. ASSUME NEW t \in Thread, WriteFor(t) PROVE FALSE
    BY <2>1, WriteForKeeps, SMTT(30)
  <2>2. ASSUME NEW t \in Thread, KernelStep(t) PROVE eof' /\ sent' = sent
    BY <2>1, <2>2, Zenon
    DEF KernelStep, ReadLoop, ReadFor, ReadForEnds, WriteLoop, WriteForEnds, hist
  <2>3. ASSUME NEW t \in Thread, Resume(t) \/ UserStep(t) PROVE eof' /\ sent' = sent
    BY <2>3, Zenon DEF Resume, UserStep, SysRead, SysWrite, SysClose, SysDup, SysFork, hist
  <2>4. ASSUME NEW p \in Process, Exit(p) PROVE eof' /\ sent' = sent
    BY <2>4 DEF Exit, hist
  <2> QED
    BY <2>2, <2>3, <2>4 DEF Next
<1> QED
  BY <1>1, PipeInvariant, PTL DEF Spec, EofIsFinal

(* A read that returns with less than it asked for found the ring empty and *)
(* the write end gone.                                                     *)
THEOREM ShortReadsAtEof == Spec => ShortReads
<1>1. PipeInv /\ [Next]_vars => [ShortReadAtEof]_vars
  <2> SUFFICES ASSUME PipeInv, Next, NEW t \in Thread,
                      pc[t] \in Reading, pc'[t] = "user", want'[t] > 0
               PROVE  Len(sent) = Len(received) /\ all_write_ends_closed
    BY DEF ShortReadAtEof
  <2>0. /\ pc \in [Thread -> {"user"} \cup Reading \cup Writing]
        /\ want \in [Thread -> Nat]
        /\ pc[t] # "user" /\ pc[t] \notin Writing
    BY DEF PipeInv, TypeOK, Reading, Writing
  <2>1. PICK u \in Thread : KernelStep(u) \/ Resume(u) \/ UserStep(u) \/ pc' = pc
    BY DEF Next, Exit, calls
  <2>2. pc' # pc
    BY <2>0, SMTT(30)
  <2>3. KernelStep(u) /\ u = t
    <3>1. ~Resume(u)
      BY <2>2, SMTT(30) DEF Resume
    <3>2. ~UserStep(u)
      BY <2>0, <2>2, SMTT(30) DEF UserStep, SysRead, SysWrite, SysClose, SysDup, SysFork,
                        InUser, calls
    <3>3. KernelStep(u)
      BY <2>1, <2>2, <3>1, <3>2
    <3>4. \A l : pc' = [pc EXCEPT ![u] = l] => u = t
      BY <2>0
    <3> QED
      BY <2>2, <3>3, <3>4, SMTT(30)
      DEF KernelStep, ReadLoop, ReadFor, ReadForEnds, WriteLoop, WriteFor,
          WriteForEnds, Return, Suspend, Goto
  <2>4. ~ReadFor(t)
    <3> SUFFICES ASSUME ReadFor(t) PROVE FALSE
      OBVIOUS
    <3>1. CASE want[t] = 1
      BY <2>0, <3>1 DEF ReadFor
    <3>2. CASE want[t] # 1
      BY <2>0, <3>2 DEF ReadFor, Goto
    <3> QED
      BY <3>1, <3>2
  <2>5. ~ReadForEnds(t)
    BY <2>0 DEF ReadForEnds, Goto
  <2>6. ReadLoop(t)
    BY <2>0, <2>3, <2>4, <2>5
    DEF KernelStep, WriteLoop, WriteFor, WriteForEnds, Writing
  <2>7. available_read = 0 /\ all_write_ends_closed
    BY <2>0, <2>2, <2>6 DEF ReadLoop, Suspend, Goto
  <2>8. InRing = 0
    BY <2>7, Available DEF PipeInv
  <2>9. Len(sent) \in Nat /\ Len(received) \in Nat
    BY LenProperties DEF PipeInv, TypeOK
  <2> QED
    BY <2>7, <2>8, <2>9 DEF InRing
<1> QED
  BY <1>1, PipeInvariant, PTL DEF Spec, ShortReads
=============================================================================
