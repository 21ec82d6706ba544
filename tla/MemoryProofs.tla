----------------------------- MODULE MemoryProofs ----------------------------
(***************************************************************************)
(* Who owns which page frame, for any number of processes and threads, any  *)
(* programs and any size of page tables: every operation of mm on an         *)
(* address space moves frames between the allocator, the page tables and    *)
(* the areas, and none is lost, shared or freed twice.                      *)
(***************************************************************************)
EXTENDS ProcessProofs

-----------------------------------------------------------------------------
\* The invariant of the memory.

TableEntry == [index : Int, ppn : Nat]
MapArea == [start : Int, end : Int, data_frames : UNION {[S -> Nat] : S \in SUBSET Int}]

TableFrames(tables) == {tables[i].ppn : i \in DOMAIN tables}
AreaFrames(area) == Range(area.data_frames)
AreasFrames(areas) == UNION {AreaFrames(areas[i]) : i \in DOMAIN areas}
SpaceFrames(sp) == TableFrames(sp.tables) \cup AreasFrames(sp.areas)

\* No frame is in an address space twice.
TablesOK(tables) ==
  /\ tables \in Seq(TableEntry)
  /\ \A i, j \in DOMAIN tables : tables[i].ppn = tables[j].ppn => i = j

AreasOK(areas) ==
  /\ areas \in Seq(MapArea)
  /\ \A i \in DOMAIN areas : IsInjective(areas[i].data_frames)
  /\ \A i, j \in DOMAIN areas : i # j => AreaFrames(areas[i]) \cap AreaFrames(areas[j]) = {}

SpaceOK(sp) ==
  /\ sp = [tables |-> sp.tables, pte |-> sp.pte, areas |-> sp.areas]
  /\ TablesOK(sp.tables) /\ AreasOK(sp.areas)
  /\ TableFrames(sp.tables) \cap AreasFrames(sp.areas) = {}

\* Every frame handed out is in X, on its way from one place to another, or in
\* one address space.
MemOK(m, X) ==
  /\ m = [fa |-> m.fa, mem |-> m.mem, space |-> m.space]
  /\ m.space = [o \in DOMAIN m.space |-> m.space[o]]
  /\ AllocOK(m.fa)
  /\ \A o \in DOMAIN m.space : SpaceOK(m.space[o])
  /\ \A o, q \in DOMAIN m.space :
       o # q => SpaceFrames(m.space[o]) \cap SpaceFrames(m.space[q]) = {}
  /\ \A o \in DOMAIN m.space : SpaceFrames(m.space[o]) \cap X = {}
  /\ InUse(m.fa) = X \cup UNION {SpaceFrames(m.space[o]) : o \in DOMAIN m.space}

\* Every page of every area has its frame.
Complete(sp) ==
  \A i \in DOMAIN sp.areas :
    /\ sp.areas[i].start <= sp.areas[i].end
    /\ DOMAIN sp.areas[i].data_frames = Pages(sp.areas[i])

Whole(m) == MemOK(m, {}) /\ \A o \in DOMAIN m.space : Complete(m.space[o])

\* Only the address space o differs.
Only(m, n, o) ==
  /\ DOMAIN n.space = DOMAIN m.space
  /\ \A q \in DOMAIN m.space \ {o} : n.space[q] = m.space[q]

-----------------------------------------------------------------------------
\* Frames between the allocator, X and an address space.

(* The frame allocator is an allocator of ids.                              *)
LEMMA FrameAllocIs ==
  ASSUME NEW m, NEW X, MemOK(m, X)
  PROVE  /\ NextFrame(m) = NextId(m.fa)
         /\ frame_alloc(m) = [fa |-> alloc(m.fa), mem |-> frame_alloc(m).mem, space |-> m.space]
<1>1. m = [fa |-> m.fa, mem |-> m.mem, space |-> m.space]
  BY DEF MemOK
<1>2. NextFrame(m) = NextId(m.fa)
  BY DEF NextFrame, NextId
<1> DEFINE n == frame_alloc(m)
<1>3. n = [m EXCEPT !.fa = alloc(m.fa), !.mem = [@ EXCEPT ![NextFrame(m)] = 0]]
  BY Zenon DEF frame_alloc, alloc
<1>4. n = [fa |-> alloc(m.fa), mem |-> [m.mem EXCEPT ![NextFrame(m)] = 0], space |-> m.space]
  BY Zenon, <1>1, <1>3
<1> QED BY <1>2, <1>4

(* frame_alloc hands out a frame that nobody has.                           *)
LEMMA AllocFrame ==
  ASSUME NEW m, NEW X, MemOK(m, X)
  PROVE  /\ MemOK(frame_alloc(m), X \cup {NextFrame(m)})
         /\ NextFrame(m) \in Nat \ X
         /\ frame_alloc(m).space = m.space
         /\ \A o \in DOMAIN m.space : NextFrame(m) \notin SpaceFrames(m.space[o])
<1> DEFINE n == frame_alloc(m)  f == NextFrame(m)
<1>1. /\ f = NextId(m.fa)
      /\ n = [fa |-> alloc(m.fa), mem |-> n.mem, space |-> m.space]
  BY FrameAllocIs
<1>2. AllocOK(m.fa)
  BY DEF MemOK
<1>3. /\ AllocOK(alloc(m.fa)) /\ f \in Nat \ InUse(m.fa)
      /\ InUse(alloc(m.fa)) = InUse(m.fa) \cup {f}
  BY <1>1, <1>2, AllocIsFresh
<1> HIDE DEF n, f
<1>4. n.fa = alloc(m.fa) /\ n.space = m.space /\ n = [fa |-> n.fa, mem |-> n.mem, space |-> n.space]
  BY <1>1
<1>5. InUse(m.fa) = X \cup UNION {SpaceFrames(m.space[o]) : o \in DOMAIN m.space}
  BY Zenon DEF MemOK
<1>6. \A o \in DOMAIN m.space : f \notin SpaceFrames(m.space[o])
  BY Zenon, <1>3, <1>5
<1>7. f \in Nat \ X
  BY Zenon, <1>3, <1>5
<1>8. InUse(n.fa) = (X \cup {f}) \cup UNION {SpaceFrames(n.space[o]) : o \in DOMAIN n.space}
  BY <1>3, <1>4, <1>5
<1>9. \A o \in DOMAIN n.space : SpaceFrames(n.space[o]) \cap (X \cup {f}) = {}
  BY Zenon, <1>4, <1>6 DEF MemOK
<1>10. MemOK(n, X \cup {f})
  BY Zenon, <1>3, <1>4, <1>8, <1>9 DEF MemOK
<1> QED
  BY Zenon, <1>4, <1>6, <1>7, <1>10 DEF n, f

(* The drop of FrameTrackers gives frames back that nobody else has.        *)
LEMMA FreeFrames ==
  ASSUME NEW m, NEW X, MemOK(m, X), NEW fs \in Seq(Nat), IsInjective(fs), Range(fs) \subseteq X
  PROVE  /\ MemOK(frame_dealloc(m, fs), X \ Range(fs))
         /\ frame_dealloc(m, fs).space = m.space
<1> DEFINE n == frame_dealloc(m, fs)
<1>1. n = [fa |-> DeallocAll(m.fa, fs), mem |-> m.mem, space |-> m.space]
  <2>1. m = [fa |-> m.fa, mem |-> m.mem, space |-> m.space]
    BY DEF MemOK
  <2>2. n = [m EXCEPT !.fa = DeallocAll(m.fa, fs)]
    BY <2>1 DEF frame_dealloc, DeallocAll
  <2> HIDE DEF n
  <2> QED BY <2>1, <2>2
<1>2. AllocOK(m.fa) /\ Range(fs) \subseteq InUse(m.fa)
  BY Zenon DEF MemOK
<1>3. AllocOK(DeallocAll(m.fa, fs)) /\ InUse(DeallocAll(m.fa, fs)) = InUse(m.fa) \ Range(fs)
  BY <1>2, DeallocAllGivesBack
<1> HIDE DEF n
<1>4. /\ n.fa = DeallocAll(m.fa, fs) /\ n.space = m.space
      /\ n = [fa |-> n.fa, mem |-> n.mem, space |-> n.space]
  BY <1>1
<1>5. InUse(m.fa) = X \cup UNION {SpaceFrames(m.space[o]) : o \in DOMAIN m.space}
  BY Zenon DEF MemOK
<1>6. \A o \in DOMAIN m.space : SpaceFrames(m.space[o]) \cap X = {}
  BY Zenon DEF MemOK
<1>7. InUse(n.fa) = (X \ Range(fs)) \cup UNION {SpaceFrames(n.space[o]) : o \in DOMAIN n.space}
  BY <1>3, <1>4, <1>5, <1>6
<1>8. \A o \in DOMAIN n.space : SpaceFrames(n.space[o]) \cap (X \ Range(fs)) = {}
  BY Zenon, <1>4, <1>6
<1>9. MemOK(n, X \ Range(fs))
  BY Zenon, <1>3, <1>4, <1>7, <1>8 DEF MemOK
<1> QED
  BY Zenon, <1>4, <1>9 DEF n

\* The sets of the family F over D are disjoint, also from X.
Apart(D, F, X) ==
  /\ \A p, q \in D : p # q => F[p] \cap F[q] = {}
  /\ \A q \in D : F[q] \cap X = {}

Changed(D, o, F, G, X, Y) ==
  /\ \A q \in D \ {o} : G[q] = F[q]
  /\ G[o] \cap Y = {} /\ G[o] \cup Y = F[o] \cup X

Union(D, F) == UNION {F[q] : q \in D}

(* One member of a family of disjoint sets, and X, exchange elements.       *)
LEMMA ExchangeSets ==
  ASSUME NEW D, NEW o \in D, NEW F, NEW G, NEW X, NEW Y,
         Apart(D, F, X), Changed(D, o, F, G, X, Y)
  PROVE  Apart(D, G, Y) /\ Y \cup Union(D, G) = X \cup Union(D, F)
<1> USE DEF Apart, Changed, Union
<1>1. \A q \in D \ {o} : \A f \in G[q] : f \notin G[o] /\ f \notin Y
  <2> SUFFICES ASSUME NEW q \in D \ {o}, NEW f \in G[q], f \in G[o] \cup Y PROVE FALSE
    BY Zenon
  <2>1. f \in F[q] /\ f \notin F[o] /\ f \notin X
    OBVIOUS
  <2>2. f \in F[o] \cup X
    OBVIOUS
  <2> QED BY <2>1, <2>2
<1>2. ASSUME NEW p \in D, NEW q \in D, p # q PROVE G[p] \cap G[q] = {}
  BY <1>1, <1>2
<1>3. \A q \in D : G[q] \cap Y = {}
  BY <1>1
<1>4. ASSUME NEW f PROVE (f \in Y \/ \E q \in D : f \in G[q]) <=> (f \in X \/ \E q \in D : f \in F[q])
  BY Zenon
<1>5. Y \cup UNION {G[q] : q \in D} = X \cup UNION {F[q] : q \in D}
  BY <1>4
<1> QED BY <1>2, <1>3, <1>5

\* n is m with sp as the address space o; the contents of frames may differ.
Replaces(m, n, o, sp) ==
  n = [fa |-> m.fa, mem |-> n.mem, space |-> [m.space EXCEPT ![o] = sp]]

\* The frames of old and of X are those of sp and of Y.
Trades(old, X, sp, Y) ==
  SpaceFrames(sp) \cap Y = {} /\ SpaceFrames(sp) \cup Y = SpaceFrames(old) \cup X

\* Together: from m to n the frames X are taken in and Y let go by o.
Swap(m, X, n, Y, o, sp) ==
  /\ MemOK(m, X) /\ o \in DOMAIN m.space /\ SpaceOK(sp)
  /\ Trades(m.space[o], X, sp, Y) /\ Replaces(m, n, o, sp)

(* One address space gives frames to X or takes them from there.            *)
LEMMA Exchange ==
  ASSUME NEW m, NEW X, NEW n, NEW Y, NEW o, NEW sp, Swap(m, X, n, Y, o, sp)
  PROVE  MemOK(n, Y) /\ Only(m, n, o) /\ n.space[o] = sp
<1>a. /\ MemOK(m, X) /\ o \in DOMAIN m.space /\ SpaceOK(sp)
      /\ Trades(m.space[o], X, sp, Y) /\ Replaces(m, n, o, sp)
  BY Zenon DEF Swap
<1>1. /\ n.fa = m.fa /\ n.space = [m.space EXCEPT ![o] = sp]
      /\ n = [fa |-> n.fa, mem |-> n.mem, space |-> n.space]
  BY <1>a DEF Replaces
<1>2. m.space = [q \in DOMAIN m.space |-> m.space[q]]
  BY <1>a, Zenon DEF MemOK
<1>3. /\ DOMAIN n.space = DOMAIN m.space /\ n.space[o] = sp
      /\ \A q \in DOMAIN m.space \ {o} : n.space[q] = m.space[q]
      /\ n.space = [q \in DOMAIN n.space |-> n.space[q]]
  BY <1>1, <1>2, <1>a
<1> DEFINE D == DOMAIN m.space
           F == [q \in D |-> SpaceFrames(m.space[q])]
           G == [q \in D |-> SpaceFrames(n.space[q])]
<1>0. \A q \in D : F[q] = SpaceFrames(m.space[q])
  BY Zenon
<1>4. /\ \A p, q \in D : p # q => F[p] \cap F[q] = {}
      /\ \A q \in D : F[q] \cap X = {}
      /\ InUse(m.fa) = X \cup UNION {F[q] : q \in D}
  <2>1. /\ \A p, q \in D : p # q => SpaceFrames(m.space[p]) \cap SpaceFrames(m.space[q]) = {}
        /\ \A q \in D : SpaceFrames(m.space[q]) \cap X = {}
        /\ InUse(m.fa) = X \cup UNION {SpaceFrames(m.space[q]) : q \in D}
    BY <1>a, Zenon DEF MemOK
  <2> HIDE DEF F, D
  <2>2. UNION {F[q] : q \in D} = UNION {SpaceFrames(m.space[q]) : q \in D}
    BY <1>0
  <2>3. ASSUME NEW p \in D, NEW q \in D, p # q PROVE F[p] \cap F[q] = {}
    BY <1>0, <2>1, <2>3, Zenon
  <2>4. \A q \in D : F[q] \cap X = {}
    BY <1>0, <2>1, Zenon
  <2> QED BY <2>1, <2>2, <2>3, <2>4, Zenon
<1>5. G[o] \cap Y = {} /\ G[o] \cup Y = F[o] \cup X /\ \A q \in D \ {o} : G[q] = F[q]
  BY Zenon, <1>3, <1>a DEF Trades
<1>6. o \in D
  BY <1>a
<1>7. \A q \in D : G[q] = SpaceFrames(n.space[q])
  BY Zenon
<1> HIDE DEF F, G, D
<1>8. /\ \A p, q \in D : p # q => G[p] \cap G[q] = {}
      /\ \A q \in D : G[q] \cap Y = {}
      /\ Y \cup UNION {G[q] : q \in D} = X \cup UNION {F[q] : q \in D}
  <2>1. Apart(D, F, X)
    BY <1>4, Zenon DEF Apart
  <2>2. Changed(D, o, F, G, X, Y)
    BY <1>5, Zenon DEF Changed
  <2>3. Apart(D, G, Y) /\ Y \cup Union(D, G) = X \cup Union(D, F)
    BY <2>1, <2>2, <1>6, ExchangeSets
  <2> QED BY <2>3, Zenon DEF Apart, Union
<1>9. \A q \in DOMAIN n.space : SpaceOK(n.space[q])
  BY <1>3, <1>a, Zenon DEF MemOK
<1>10. MemOK(n, Y)
  <2>0. DOMAIN n.space = D
    BY <1>3, Zenon DEF D
  <2>1. InUse(n.fa) = Y \cup UNION {SpaceFrames(n.space[q]) : q \in DOMAIN n.space}
    <3>1. UNION {G[q] : q \in D} = UNION {SpaceFrames(n.space[q]) : q \in D}
      BY <1>7
    <3>2. InUse(n.fa) = Y \cup UNION {G[q] : q \in D}
      BY <1>1, <1>4, <1>8, Zenon
    <3> QED BY <2>0, <3>1, <3>2, Zenon
  <2>2. AllocOK(n.fa)
    BY <1>1, <1>a, Zenon DEF MemOK
  <2>3. \A p, q \in DOMAIN n.space :
          p # q => SpaceFrames(n.space[p]) \cap SpaceFrames(n.space[q]) = {}
    BY <2>0, <1>7, <1>8, Zenon
  <2>4. \A q \in DOMAIN n.space : SpaceFrames(n.space[q]) \cap Y = {}
    BY <2>0, <1>7, <1>8, Zenon
  <2> QED BY <1>1, <1>3, <1>9, <2>1, <2>2, <2>3, <2>4, Zenon DEF MemOK
<1> QED BY <1>3, <1>10, Zenon DEF Only

-----------------------------------------------------------------------------
\* Page tables.

\* An operation on the address space o leaves the others alone.
Kept(m, n, o) == Whole(n) /\ Only(m, n, o)

(* A memory is whole again when the one address space that changed is.      *)
LEMMA WholeOne ==
  ASSUME NEW m, Whole(m), NEW n, MemOK(n, {}), NEW o, Only(m, n, o), Complete(n.space[o])
  PROVE  Kept(m, n, o)
BY Zenon DEF Whole, Kept, Only

(* A MemorySet that is not there has no frames.                             *)
LEMMA AbsentFrames == SpaceOK(Absent) /\ SpaceFrames(Absent) = {} /\ Complete(Absent)
<1>1. Absent.tables = <<>> /\ Absent.areas = <<>>
      /\ Absent = [tables |-> Absent.tables, pte |-> Absent.pte, areas |-> Absent.areas]
  BY DEF Absent
<1>2. TableFrames(<<>>) = {} /\ AreasFrames(<<>>) = {}
  BY DEF TableFrames, AreasFrames
<1>3. <<>> \in Seq(TableEntry) /\ <<>> \in Seq(MapArea)
  OBVIOUS
<1>4. TablesOK(<<>>) /\ AreasOK(<<>>)
  BY <1>3 DEF TablesOK, AreasOK
<1> QED BY <1>1, <1>2, <1>4 DEF SpaceOK, SpaceFrames, Complete

(* The assignment of an address space.                                      *)
LEMMA Assigned ==
  ASSUME NEW m, NEW X, MemOK(m, X), NEW o \in DOMAIN m.space, NEW sp
  PROVE  Replaces(m, [m EXCEPT !.space[o] = sp], o, sp)
<1>1. m = [fa |-> m.fa, mem |-> m.mem, space |-> m.space]
  BY DEF MemOK
<1> QED BY <1>1 DEF Replaces

(* The assignment of the page tables, or of the areas.                     *)
LEMMA SetParts ==
  ASSUME NEW T, NEW P, NEW A, TablesOK(T), AreasOK(A),
         TableFrames(T) \cap AreasFrames(A) = {}
  PROVE  LET n == [tables |-> T, pte |-> P, areas |-> A] IN
         SpaceOK(n) /\ SpaceFrames(n) = TableFrames(T) \cup AreasFrames(A)
<1> DEFINE n == [tables |-> T, pte |-> P, areas |-> A]
<1>1. n.tables = T /\ n.areas = A /\ n = [tables |-> n.tables, pte |-> n.pte, areas |-> n.areas]
  OBVIOUS
<1> HIDE DEF n
<1>2. SpaceOK(n) /\ SpaceFrames(n) = TableFrames(T) \cup AreasFrames(A)
  BY <1>1, Zenon DEF SpaceOK, SpaceFrames
<1> QED BY <1>2, Zenon DEF n

(* One more page table in an address space.                                 *)
LEMMA AddTable ==
  ASSUME NEW sp, SpaceOK(sp), NEW index \in Int, NEW f \in Nat, f \notin SpaceFrames(sp)
  PROVE  LET n == [sp EXCEPT !.tables = Append(@, [index |-> index, ppn |-> f])] IN
         SpaceOK(n) /\ SpaceFrames(n) = SpaceFrames(sp) \cup {f} /\ n.areas = sp.areas
<1> DEFINE e == [index |-> index, ppn |-> f]
           S == sp.tables
           T == Append(S, e)
           n == [sp EXCEPT !.tables = Append(@, [index |-> index, ppn |-> f])]
<1>1. /\ sp = [tables |-> S, pte |-> sp.pte, areas |-> sp.areas]
      /\ TablesOK(S) /\ AreasOK(sp.areas) /\ TableFrames(S) \cap AreasFrames(sp.areas) = {}
  BY DEF SpaceOK
<1>2. n = [tables |-> T, pte |-> sp.pte, areas |-> sp.areas]
  <2>1. n = [sp EXCEPT !.tables = T]
    OBVIOUS
  <2> HIDE DEF n, S, T
  <2> QED BY <1>1, <2>1
<1> HIDE DEF n, S
<1>3. S \in Seq(TableEntry) /\ \A i, j \in DOMAIN S : S[i].ppn = S[j].ppn => i = j
  BY <1>1 DEF TablesOK
<1>4. e \in TableEntry /\ e.ppn = f
  BY DEF TableEntry
<1> HIDE DEF e
<1>5. /\ T \in Seq(TableEntry) /\ DOMAIN T = 1..(Len(S) + 1) /\ Len(S) \in Nat
      /\ T[Len(S) + 1] = e /\ DOMAIN S = 1..Len(S) /\ \A i \in 1..Len(S) : T[i] = S[i]
  BY <1>3, <1>4
<1> HIDE DEF T
<1>6. TableFrames(T) = TableFrames(S) \cup {f}
  BY <1>4, <1>5 DEF TableFrames
<1>7. f \notin TableFrames(S) /\ f \notin AreasFrames(sp.areas)
  BY Zenon DEF SpaceFrames, S
<1>8. \A i \in 1..Len(S) : S[i].ppn # f
  BY <1>5, <1>7, Zenon DEF TableFrames
<1>9. ASSUME NEW i \in DOMAIN T, NEW j \in DOMAIN T, T[i].ppn = T[j].ppn PROVE i = j
  BY <1>3, <1>4, <1>5, <1>8, <1>9
<1>10. TablesOK(T) /\ TableFrames(T) \cap AreasFrames(sp.areas) = {}
  BY <1>1, <1>5, <1>6, <1>7, <1>9, Zenon DEF TablesOK
<1>11. SpaceOK(n) /\ SpaceFrames(n) = TableFrames(T) \cup AreasFrames(sp.areas)
  BY <1>1, <1>2, <1>10, SetParts
<1>12. SpaceFrames(n) = SpaceFrames(sp) \cup {f}
  BY <1>6, <1>11 DEF SpaceFrames, S
<1>13. n.areas = sp.areas
  BY <1>2
<1> QED BY <1>11, <1>12, <1>13, Zenon DEF n

(* PageTable::new.                                                          *)
LEMMA NewBare ==
  ASSUME NEW m, Whole(m), NEW o \in DOMAIN m.space, m.space[o] = Absent
  PROVE  /\ Kept(m, new_bare(m, o), o) /\ new_bare(m, o).space[o].areas = <<>>
<1> DEFINE f == NextFrame(m)  k == frame_alloc(m)
           sp == [Absent EXCEPT !.tables = Append(@, [index |-> RootTable, ppn |-> f])]
           n == new_bare(m, o)
<1>1. /\ MemOK(k, {f}) /\ f \in Nat /\ k.space = m.space
  <2>1. MemOK(m, {})
    BY DEF Whole
  <2>2. MemOK(k, {} \cup {f}) /\ f \in Nat /\ k.space = m.space
    BY <2>1, AllocFrame
  <2>3. {} \cup {f} = {f}
    OBVIOUS
  <2> HIDE DEF k, f
  <2> QED BY <2>2, <2>3
<1>2. RootTable \in Int
  BY DEF RootTable
<1>3. SpaceOK(Absent) /\ f \notin SpaceFrames(Absent) /\ SpaceFrames(Absent) = {}
  BY AbsentFrames
<1> HIDE DEF f, k
<1>4. SpaceOK(sp) /\ SpaceFrames(sp) = {f} /\ sp.areas = Absent.areas
  <2> HIDE DEF sp
  <2>1. SpaceOK(sp) /\ SpaceFrames(sp) = SpaceFrames(Absent) \cup {f} /\ sp.areas = Absent.areas
    BY <1>1, <1>2, <1>3, AddTable DEF sp
  <2> QED BY <1>3, <2>1
<1>5. n = [k EXCEPT !.space[o] = sp]
  <2>1. sp = [Absent EXCEPT !.tables = <<[index |-> RootTable, ppn |-> f]>>]
    BY DEF Absent
  <2>2. n = [k EXCEPT !.space[o] = [Absent EXCEPT !.tables = <<[index |-> RootTable, ppn |-> f]>>]]
    BY Zenon DEF new_bare, k, f
  <2> HIDE DEF sp, n
  <2> QED BY <2>1, <2>2, Zenon
<1> HIDE DEF n, sp
<1>6. Replaces(k, n, o, sp) /\ o \in DOMAIN k.space /\ k.space[o] = Absent
  BY <1>1, <1>5, Assigned
<1>7. Trades(k.space[o], {f}, sp, {})
  BY <1>3, <1>4, <1>6 DEF Trades
<1>8. MemOK(n, {}) /\ Only(k, n, o) /\ n.space[o] = sp
  <2>1. Swap(k, {f}, n, {}, o, sp)
    BY <1>1, <1>4, <1>6, <1>7, Zenon DEF Swap
  <2> QED BY <2>1, Exchange, Zenon
<1>9. Only(m, n, o)
  BY <1>1, <1>8 DEF Only
<1>10. n.space[o].areas = <<>>
  BY <1>4, <1>8 DEF Absent
<1>11. Complete(n.space[o])
  BY <1>10 DEF Complete
<1> QED BY <1>8, <1>9, <1>10, <1>11, WholeOne, Zenon DEF n

\* An operation on page tables: the areas stay.
Tabled(m, X, n, o) == MemOK(n, X) /\ Only(m, n, o) /\ n.space[o].areas = m.space[o].areas

(* PageTable::find_pte_create takes a frame for a table that is missing.     *)
LEMMA FindPte ==
  ASSUME NEW m, NEW X, MemOK(m, X), NEW o \in DOMAIN m.space, NEW vpn \in Int
  PROVE  Tabled(m, X, find_pte_create(m, o, vpn), o)
<1> DEFINE f == NextFrame(m)  k == frame_alloc(m)  index == vpn \div TABLE_SZ
           sp == [m.space[o] EXCEPT !.tables = Append(@, [index |-> index, ppn |-> f])]
           n == find_pte_create(m, o, vpn)
<1>0. index \in Int
  BY ProcessesAssumption
<1> HIDE DEF index
<1>1. CASE \E i \in DOMAIN m.space[o].tables : m.space[o].tables[i].index = index
  <2>1. n = m
    BY <1>1, Zenon DEF find_pte_create, index
  <2> HIDE DEF n
  <2> QED BY <2>1, Zenon DEF Tabled, Only, n
<1>2. CASE ~\E i \in DOMAIN m.space[o].tables : m.space[o].tables[i].index = index
  <2>1. /\ MemOK(k, X \cup {f}) /\ f \in Nat \ X /\ k.space = m.space
        /\ f \notin SpaceFrames(m.space[o])
    BY AllocFrame, Zenon
  <2>2. n = [k EXCEPT !.space[o].tables = Append(@, [index |-> index, ppn |-> f])]
    BY <1>2, Zenon DEF find_pte_create, index
  <2> HIDE DEF n, f, k
  <2>3. SpaceOK(m.space[o])
    BY Zenon DEF MemOK
  <2>4. SpaceOK(sp) /\ SpaceFrames(sp) = SpaceFrames(m.space[o]) \cup {f} /\ sp.areas = m.space[o].areas
    BY Zenon, <1>0, <2>1, <2>3, AddTable
  <2>5. n = [k EXCEPT !.space[o] = sp]
    BY <2>1, <2>2
  <2> HIDE DEF sp
  <2>6. Replaces(k, n, o, sp) /\ o \in DOMAIN k.space /\ k.space[o] = m.space[o]
    BY <2>1, <2>5, Assigned
  <2>7. SpaceFrames(m.space[o]) \cap X = {}
    BY Zenon DEF MemOK
  <2>8. Trades(k.space[o], X \cup {f}, sp, X)
    BY <2>1, <2>4, <2>6, <2>7 DEF Trades
  <2>9. MemOK(n, X) /\ Only(k, n, o) /\ n.space[o] = sp
    <3>1. Swap(k, X \cup {f}, n, X, o, sp)
      BY <2>1, <2>4, <2>6, <2>8, Zenon DEF Swap
    <3> QED BY <3>1, Exchange, Zenon
  <2> QED BY <2>1, <2>4, <2>9 DEF Tabled, Only, n
<1> QED BY <1>1, <1>2

(* PageTable::map and PageTable::unmap change entries.                      *)
LEMMA SetPte ==
  ASSUME NEW m, NEW X, MemOK(m, X), NEW o \in DOMAIN m.space, NEW pte
  PROVE  Tabled(m, X, [m EXCEPT !.space[o].pte = pte], o)
<1> DEFINE old == m.space[o]  sp == [old EXCEPT !.pte = pte]
           n == [m EXCEPT !.space[o].pte = pte]
<1>1. n = [m EXCEPT !.space[o] = sp]
  OBVIOUS
<1>2. SpaceOK(old)
  BY Zenon DEF MemOK
<1>3. old = [tables |-> old.tables, pte |-> old.pte, areas |-> old.areas]
  BY <1>2 DEF SpaceOK
<1> HIDE DEF old, n
<1>4. sp = [tables |-> old.tables, pte |-> pte, areas |-> old.areas]
  BY <1>3
<1> HIDE DEF sp
<1>5. sp.areas = old.areas
  BY <1>4
<1>7. SpaceOK(sp) /\ SpaceFrames(sp) = SpaceFrames(old)
  <2>1. TablesOK(old.tables) /\ AreasOK(old.areas)
        /\ TableFrames(old.tables) \cap AreasFrames(old.areas) = {}
    BY <1>2, Zenon DEF SpaceOK
  <2>2. SpaceOK(sp) /\ SpaceFrames(sp) = TableFrames(old.tables) \cup AreasFrames(old.areas)
    BY <1>4, <2>1, SetParts
  <2> QED BY <2>2, Zenon DEF SpaceFrames
<1>8. SpaceFrames(old) \cap X = {}
  BY Zenon DEF MemOK, old
<1>9. Trades(m.space[o], X, sp, X)
  BY <1>7, <1>8, Zenon DEF Trades, old
<1>10. Replaces(m, n, o, sp)
  BY <1>1, Assigned
<1>11. MemOK(n, X) /\ Only(m, n, o) /\ n.space[o] = sp
  <2>1. Swap(m, X, n, X, o, sp)
    BY <1>7, <1>9, <1>10, Zenon DEF Swap
  <2> QED BY <2>1, Exchange, Zenon
<1>12. Tabled(m, X, n, o)
  BY <1>5, <1>11 DEF Tabled, old
<1> QED BY <1>12, Zenon DEF n

(* PageTable::map.                                                          *)
LEMMA MapKeeps ==
  ASSUME NEW m, NEW X, MemOK(m, X), NEW o \in DOMAIN m.space, NEW vpn \in Int, NEW ppn
  PROVE  Tabled(m, X, map(m, o, vpn, ppn), o)
<1> DEFINE k == find_pte_create(m, o, vpn)
           pte == With(k.space[o].pte, vpn, ppn)
           n == [k EXCEPT !.space[o].pte = pte]
<1>1. Tabled(m, X, k, o)
  BY FindPte
<1>2. map(m, o, vpn, ppn) = n
  BY DEF map
<1> HIDE DEF k, pte
<1>3. MemOK(k, X) /\ o \in DOMAIN k.space
  BY <1>1 DEF Tabled, Only
<1>4. Tabled(k, X, n, o)
  BY <1>3, SetPte
<1> HIDE DEF n
<1>5. Tabled(m, X, n, o)
  BY <1>1, <1>4 DEF Tabled, Only
<1> QED BY <1>2, <1>5, Zenon

(* map_trampoline.                                                          *)
LEMMA TrampolineKeeps ==
  ASSUME NEW m, Whole(m), NEW o \in DOMAIN m.space
  PROVE  /\ Kept(m, map_trampoline(m, o), o)
         /\ map_trampoline(m, o).space[o].areas = m.space[o].areas
<1> DEFINE n == map_trampoline(m, o)
<1>1. Tabled(m, {}, n, o)
  BY MapKeeps, ProcessesAssumption DEF Whole, map_trampoline
<1> HIDE DEF n
<1>2. MemOK(n, {}) /\ Only(m, n, o) /\ n.space[o].areas = m.space[o].areas
  BY <1>1, Zenon DEF Tabled
<1>3. Complete(n.space[o])
  BY <1>2 DEF Whole, Complete
<1> QED BY <1>2, <1>3, WholeOne, Zenon DEF n

-----------------------------------------------------------------------------
\* Areas.

(* A page more in an area.                                                  *)
LEMMA WithFrame ==
  ASSUME NEW F, F \in UNION {[S -> Nat] : S \in SUBSET Int}, IsInjective(F),
         NEW vpn \in Int, vpn \notin DOMAIN F, NEW f \in Nat, f \notin Range(F)
  PROVE  /\ With(F, vpn, f) \in UNION {[S -> Nat] : S \in SUBSET Int}
         /\ IsInjective(With(F, vpn, f)) /\ Range(With(F, vpn, f)) = Range(F) \cup {f}
         /\ DOMAIN With(F, vpn, f) = DOMAIN F \cup {vpn}
<1> DEFINE G == With(F, vpn, f)  D == DOMAIN F
<1>1. F \in [D -> Nat] /\ D \in SUBSET Int
  BY Zenon
<1>2. DOMAIN G = D \cup {vpn} /\ G[vpn] = f /\ \A v \in D : G[v] = F[v]
  BY DEF With
<1>3. G \in [D \cup {vpn} -> Nat]
  BY <1>1 DEF With
<1> HIDE DEF G, D
<1>4. D \cup {vpn} \in SUBSET Int
  BY <1>1
<1>5. G \in UNION {[S -> Nat] : S \in SUBSET Int}
  BY <1>3, <1>4
<1>6. Range(F) = {F[v] : v \in D} /\ Range(G) = {G[v] : v \in D \cup {vpn}}
  BY <1>2 DEF Range, D
<1>7. Range(G) = Range(F) \cup {f}
  BY <1>2, <1>6
<1>8. IsInjective(G)
  BY <1>2, <1>6 DEF IsInjective, D
<1> QED BY <1>2, <1>5, <1>7, <1>8, Zenon DEF G, D

(* One area of a list changes.                                              *)
LEMMA SetArea ==
  ASSUME NEW A, AreasOK(A), NEW i \in DOMAIN A, NEW a \in MapArea, NEW Y,
         IsInjective(a.data_frames), AreaFrames(a) = AreaFrames(A[i]) \cup Y,
         AreasFrames(A) \cap Y = {}
  PROVE  LET B == [A EXCEPT ![i] = a] IN
         AreasOK(B) /\ AreasFrames(B) = AreasFrames(A) \cup Y
<1> DEFINE B == [A EXCEPT ![i] = a]
<1>1. A \in Seq(MapArea)
  BY DEF AreasOK
<1>2. B \in Seq(MapArea) /\ DOMAIN B = DOMAIN A /\ B[i] = a /\ \A j \in DOMAIN A \ {i} : B[j] = A[j]
  BY <1>1
<1> HIDE DEF B
<1>3. \A j \in DOMAIN A : AreaFrames(A[j]) \subseteq AreasFrames(A)
  BY DEF AreasFrames
<1>4. \A j, k \in DOMAIN A : j # k => AreaFrames(A[j]) \cap AreaFrames(A[k]) = {}
  BY DEF AreasOK
<1>5. ASSUME NEW j \in DOMAIN A, NEW k \in DOMAIN A, j # k
      PROVE  AreaFrames(B[j]) \cap AreaFrames(B[k]) = {}
  <2>1. CASE j # i /\ k # i
    BY <1>2, <1>4, <1>5, <2>1
  <2>2. ASSUME NEW l \in DOMAIN A \ {i} PROVE AreaFrames(B[i]) \cap AreaFrames(B[l]) = {}
    <3>1. AreaFrames(A[i]) \cap AreaFrames(A[l]) = {} /\ AreaFrames(A[l]) \cap Y = {}
      BY <1>3, <1>4
    <3> QED BY <1>2, <3>1
  <2> QED BY <1>5, <2>1, <2>2
<1>6. \A j \in DOMAIN B : IsInjective(B[j].data_frames)
  BY <1>2 DEF AreasOK
<1>7. AreasFrames(B) = AreasFrames(A) \cup Y
  <2>1. ASSUME NEW f PROVE f \in AreasFrames(B) <=> f \in AreasFrames(A) \cup Y
    <3>1. f \in AreasFrames(B) <=> \E j \in DOMAIN A : f \in AreaFrames(B[j])
      BY <1>2 DEF AreasFrames
    <3>2. f \in AreasFrames(A) <=> \E j \in DOMAIN A : f \in AreaFrames(A[j])
      BY DEF AreasFrames
    <3> QED BY <1>2, <3>1, <3>2
  <2> QED BY <2>1
<1>8. AreasOK(B)
  BY <1>2, <1>5, <1>6, Zenon DEF AreasOK
<1> QED BY <1>7, <1>8, Zenon DEF B

\* An area, and the one with a frame more.
Fuller(a, vpn, f) == [a EXCEPT !.data_frames = With(@, vpn, f)]

(* MapArea::map_one of an area: the frame is its own.                       *)
LEMMA FullerArea ==
  ASSUME NEW a \in MapArea, IsInjective(a.data_frames), NEW vpn \in Int,
         vpn \notin DOMAIN a.data_frames, NEW f \in Nat, f \notin AreaFrames(a)
  PROVE  LET b == Fuller(a, vpn, f) IN
         /\ b \in MapArea /\ IsInjective(b.data_frames)
         /\ AreaFrames(b) = AreaFrames(a) \cup {f}
         /\ b = [start |-> a.start, end |-> a.end, data_frames |-> b.data_frames]
         /\ DOMAIN b.data_frames = DOMAIN a.data_frames \cup {vpn}
<1> DEFINE F == a.data_frames  G == With(F, vpn, f)  b == Fuller(a, vpn, f)
<1>1. /\ a = [start |-> a.start, end |-> a.end, data_frames |-> F]
      /\ a.start \in Int /\ a.end \in Int /\ F \in UNION {[S -> Nat] : S \in SUBSET Int}
  BY DEF MapArea
<1>2. b = [a EXCEPT !.data_frames = G]
  BY DEF Fuller
<1>3. f \notin Range(F) /\ vpn \notin DOMAIN F /\ IsInjective(F)
  BY DEF AreaFrames
<1> HIDE DEF F, G, b
<1>4. /\ G \in UNION {[S -> Nat] : S \in SUBSET Int}
      /\ IsInjective(G) /\ Range(G) = Range(F) \cup {f} /\ DOMAIN G = DOMAIN F \cup {vpn}
  BY <1>1, <1>3, WithFrame, Zenon DEF G
<1>5. b = [start |-> a.start, end |-> a.end, data_frames |-> G]
  BY <1>1, <1>2
<1>6. b \in MapArea /\ b.data_frames = G
  BY <1>1, <1>4, <1>5 DEF MapArea
<1> QED BY <1>4, <1>5, <1>6, Zenon DEF b, F, AreaFrames

(* MapArea::map_one: the last area of o has a frame more.                   *)
LEMMA MapOne ==
  ASSUME NEW m, MemOK(m, {}), NEW o \in DOMAIN m.space,
         m.space[o].areas # <<>>, NEW vpn \in Int,
         vpn \notin DOMAIN Last(m.space[o].areas).data_frames
  PROVE  LET n == map_one(m, o, vpn)
             areas == m.space[o].areas
         IN  /\ MemOK(n, {}) /\ Only(m, n, o)
             /\ n.space[o].areas =
                  [areas EXCEPT ![Len(areas)] = Fuller(@, vpn, NextFrame(m))]
<1> DEFINE f == NextFrame(m)  k == frame_alloc(m)  c == map(k, o, vpn, f)
           n == map_one(m, o, vpn)
           A == m.space[o].areas  last == Len(A)
           B == [A EXCEPT ![last] = Fuller(@, vpn, f)]
<1>1. /\ MemOK(k, {f}) /\ f \in Nat /\ k.space = m.space
  <2>1. MemOK(k, {} \cup {f}) /\ f \in Nat /\ k.space = m.space
    BY AllocFrame
  <2>2. {} \cup {f} = {f}
    OBVIOUS
  <2> HIDE DEF k, f
  <2> QED BY <2>1, <2>2
<1>2. n = [c EXCEPT !.space[o].areas[last].data_frames = With(@, vpn, f)]
  BY Zenon DEF map_one
<1>3. Tabled(k, {f}, c, o)
  <2> HIDE DEF k, f
  <2> QED BY <1>1, MapKeeps
<1> HIDE DEF k, f, c, n, A
<1>4. MemOK(c, {f}) /\ Only(m, c, o) /\ c.space[o].areas = A /\ o \in DOMAIN c.space
  BY <1>1, <1>3 DEF Tabled, Only, A
<1> DEFINE sp == c.space[o]
           new == [tables |-> sp.tables, pte |-> sp.pte, areas |-> B]
<1>5. SpaceOK(sp) /\ SpaceFrames(sp) \cap {f} = {}
  BY <1>4, Zenon DEF MemOK
<1>6. AreasOK(A) /\ TablesOK(sp.tables) /\ TableFrames(sp.tables) \cap AreasFrames(A) = {}
      /\ sp = [tables |-> sp.tables, pte |-> sp.pte, areas |-> A]
  BY <1>4, <1>5 DEF SpaceOK
<1>7. f \notin TableFrames(sp.tables) /\ f \notin AreasFrames(A)
  BY <1>4, <1>5 DEF SpaceFrames
<1>8. A \in Seq(MapArea) /\ last \in DOMAIN A /\ A[last] = Last(A) /\ A[last] \in MapArea
  BY <1>6 DEF AreasOK, A, Last
<1>9. /\ IsInjective(A[last].data_frames) /\ vpn \notin DOMAIN A[last].data_frames
      /\ f \notin AreaFrames(A[last])
  BY <1>6, <1>7, <1>8, Zenon DEF AreasOK, A, AreasFrames
<1> DEFINE b == Fuller(A[last], vpn, f)
<1>10. b \in MapArea /\ IsInjective(b.data_frames) /\ AreaFrames(b) = AreaFrames(A[last]) \cup {f}
  BY <1>1, <1>8, <1>9, FullerArea
<1>11. B = [A EXCEPT ![last] = b]
  OBVIOUS
<1> HIDE DEF B
<1>12. AreasOK(B) /\ AreasFrames(B) = AreasFrames(A) \cup {f}
  <2> HIDE DEF b, last
  <2>1. AreasFrames(A) \cap {f} = {}
    BY <1>7
  <2> QED BY Zenon, <1>6, <1>8, <1>10, <1>11, <2>1, SetArea
<1>13. SpaceOK(new) /\ SpaceFrames(new) = TableFrames(sp.tables) \cup AreasFrames(B)
  BY <1>6, <1>7, <1>12, SetParts
<1>14. n = [c EXCEPT !.space[o] = new]
  <2> DEFINE d == With(A[last].data_frames, vpn, f)
  <2>1. b = [A[last] EXCEPT !.data_frames = d]
    BY Zenon DEF Fuller
  <2>2. n = [c EXCEPT !.space[o].areas[last].data_frames = d]
    BY <1>2, <1>4
  <2> HIDE DEF d, b
  <2>3. n = [c EXCEPT !.space[o] = [sp EXCEPT !.areas = [A EXCEPT ![last] = b]]]
    BY <1>4, <2>1, <2>2
  <2>4. [sp EXCEPT !.areas = B] = new
    <3> HIDE DEF sp
    <3> QED BY <1>6
  <2> QED BY Zenon, <1>11, <2>3, <2>4
<1> HIDE DEF new
<1>15. Replaces(c, n, o, new)
  BY <1>4, <1>14, Assigned
<1>16. Trades(c.space[o], {f}, new, {})
  BY <1>4, <1>12, <1>13 DEF Trades, SpaceFrames
<1>17. MemOK(n, {}) /\ Only(c, n, o) /\ n.space[o] = new
  <2>1. Swap(c, {f}, n, {}, o, new)
    BY <1>4, <1>13, <1>15, <1>16, Zenon DEF Swap
  <2> QED BY <2>1, Exchange, Zenon
<1>18. Only(m, n, o) /\ n.space[o].areas = B
  BY <1>4, <1>17 DEF Only, new
<1> QED BY <1>17, <1>18, Zenon DEF B, A, n, f

\* The states that the loop of MapArea::map goes through, from z on.
IsMapped(f, z, o, start, N) ==
  f = [i \in 0..N |-> IF i = 0 THEN z ELSE map_one(f[i - 1], o, start + i - 1)]

(* There are such states.                                                   *)
LEMMA MappedExists ==
  ASSUME NEW z, NEW o, NEW start, NEW N \in Nat
  PROVE  \E f : IsMapped(f, z, o, start, N)
<1> DEFINE Val(f, i) == IF i = 0 THEN z ELSE map_one(f[i - 1], o, start + i - 1)
           Bad == {n \in Nat : n <= N /\ ~\E f : f = [i \in 0..n |-> Val(f, i)]}
<1>1. Bad = {}
  <2> SUFFICES ASSUME Bad # {} PROVE FALSE
    OBVIOUS
  <2>1. PICK n \in Bad : \A j \in Bad : ~(<<j, n>> \in OpToRel(<, Nat))
    <3>1. Bad \subseteq Nat
      OBVIOUS
    <3> HIDE DEF Bad
    <3> QED BY Zenon, <3>1, NatLessThanWellFounded, WFMin
  <2>2. n \in Nat /\ n <= N /\ ~\E f : f = [i \in 0..n |-> Val(f, i)]
    OBVIOUS
  <2>3. \A j \in Bad : ~(j < n)
    BY Zenon, <2>1 DEF OpToRel
  <2>4. CASE n = 0
    <3> DEFINE g == [i \in 0..0 |-> z]
    <3>1. g = [i \in 0..0 |-> Val(g, i)]
      <4>1. \A i \in 0..0 : Val(g, i) = z
        OBVIOUS
      <4> QED BY <4>1
    <3> QED BY Zenon, <2>2, <2>4, <3>1
  <2>5. CASE n # 0
    <3>1. n - 1 \in Nat /\ n - 1 <= N /\ n - 1 < n
      BY <2>2, <2>5
    <3>2. n - 1 \notin Bad
      BY Zenon, <2>3, <3>1
    <3>3. PICK f : f = [i \in 0..(n - 1) |-> Val(f, i)]
      <4> HIDE DEF Val
      <4> QED BY SMTT(20), <3>1, <3>2
    <3> DEFINE g == [i \in 0..n |-> IF i = n THEN Val(f, n) ELSE f[i]]
    <3>4. \A i \in 0..n : g[i] = Val(g, i)
      <4> SUFFICES ASSUME NEW i \in 0..n PROVE g[i] = Val(g, i)
        BY Zenon
      <4>1. i # 0 => g[i - 1] = f[i - 1]
        <5> HIDE DEF Val
        <5> QED BY <2>2, <2>5
      <4>2. Val(g, i) = Val(f, i)
        <5> HIDE DEF g
        <5> QED BY <4>1, Zenon
      <4>3. i # n => f[i] = Val(f, i)
        <5>1. i # n => i \in 0..(n - 1)
          BY <2>2
        <5> HIDE DEF Val
        <5> QED BY <3>3, <5>1
      <4> HIDE DEF Val
      <4> QED BY <4>2, <4>3
    <3>5. g = [i \in 0..n |-> Val(g, i)]
      <4>1. g = [i \in 0..n |-> g[i]]
        <5> HIDE DEF Val
        <5> QED OBVIOUS
      <4> HIDE DEF g, Val
      <4> QED BY <3>4, <4>1
    <3> QED BY Zenon, <2>2, <3>5
  <2> QED BY <2>4, <2>5
<1>2. N \notin Bad
  BY <1>1
<1>3. \E f : f = [i \in 0..N |-> Val(f, i)]
  <2> HIDE DEF Val
  <2> QED BY <1>2
<1> QED BY <1>3, Zenon DEF IsMapped

(* An area without frames at the end of the list.                           *)
LEMMA AppendArea ==
  ASSUME NEW A, AreasOK(A), NEW a \in MapArea, DOMAIN a.data_frames = {}
  PROVE  AreasOK(Append(A, a)) /\ AreasFrames(Append(A, a)) = AreasFrames(A)
<1> DEFINE B == Append(A, a)
<1>1. AreaFrames(a) = {} /\ IsInjective(a.data_frames)
  BY DEF AreaFrames, Range, IsInjective
<1>2. A \in Seq(MapArea) /\ Len(A) \in Nat /\ DOMAIN A = 1..Len(A)
  BY DEF AreasOK
<1>3. /\ B \in Seq(MapArea) /\ DOMAIN B = 1..(Len(A) + 1)
      /\ B[Len(A) + 1] = a /\ \A i \in DOMAIN A : B[i] = A[i]
  BY <1>2
<1> HIDE DEF B
<1>4. \A i \in DOMAIN B : i \in DOMAIN A \/ i = Len(A) + 1
  BY <1>2, <1>3
<1>5. \A i \in DOMAIN B : IsInjective(B[i].data_frames)
  BY <1>1, <1>3, <1>4, Zenon DEF AreasOK
<1>6. ASSUME NEW i \in DOMAIN B, NEW j \in DOMAIN B, i # j
      PROVE  AreaFrames(B[i]) \cap AreaFrames(B[j]) = {}
  <2>1. CASE i \in DOMAIN A /\ j \in DOMAIN A
    BY <1>3, <1>6, <2>1, Zenon DEF AreasOK
  <2>2. CASE i = Len(A) + 1 \/ j = Len(A) + 1
    BY <1>1, <1>3, <2>2
  <2> QED BY <1>4, <2>1, <2>2
<1>7. AreasFrames(B) = AreasFrames(A)
  <2>1. ASSUME NEW f PROVE f \in AreasFrames(B) <=> f \in AreasFrames(A)
    <3>1. f \in AreasFrames(B) <=> \E j \in DOMAIN B : f \in AreaFrames(B[j])
      BY DEF AreasFrames
    <3>2. f \in AreasFrames(A) <=> \E j \in DOMAIN A : f \in AreaFrames(A[j])
      BY DEF AreasFrames
    <3>3. \A j \in DOMAIN A : j \in DOMAIN B
      BY <1>2, <1>3
    <3> QED BY <1>1, <1>3, <1>4, <3>1, <3>2, <3>3
  <2> QED BY <2>1
<1> QED BY <1>3, <1>5, <1>6, <1>7, Zenon DEF AreasOK, B

\* The loop of MapArea::map has n pages of the new area at the end.
Mapping(m, k, o, start, end, n) ==
  LET areas == k.space[o].areas
      a == Last(areas)
  IN  /\ MemOK(k, {}) /\ Only(m, k, o)
      /\ areas = Append(m.space[o].areas, a)
      /\ a \in MapArea /\ a.start = start /\ a.end = end
      /\ DOMAIN a.data_frames = start..(start + n - 1)

(* MemorySet::push begins with an area without frames.                      *)
LEMMA MappingStarts ==
  ASSUME NEW m, MemOK(m, {}), NEW o \in DOMAIN m.space, NEW start \in Int, NEW end \in Int
  PROVE  Mapping(m, [m EXCEPT !.space[o].areas =
                       Append(@, [start |-> start, end |-> end, data_frames |-> <<>>])],
                 o, start, end, 0)
<1> DEFINE sp == m.space[o]  A == sp.areas
           a == [start |-> start, end |-> end, data_frames |-> <<>>]
           B == Append(A, a)
           new == [tables |-> sp.tables, pte |-> sp.pte, areas |-> B]
           k == [m EXCEPT !.space[o].areas = Append(@, a)]
<1>1. a \in MapArea /\ a.start = start /\ a.end = end /\ DOMAIN a.data_frames = {}
  <2>1. <<>> \in [{} -> Nat] /\ {} \in SUBSET Int
    OBVIOUS
  <2>2. <<>> \in UNION {[S -> Nat] : S \in SUBSET Int}
    BY Zenon, <2>1
  <2> QED BY <2>2 DEF MapArea
<1>2. SpaceOK(sp) /\ SpaceFrames(sp) \cap {} = {}
  BY Zenon DEF MemOK
<1>3. AreasOK(A) /\ TablesOK(sp.tables) /\ TableFrames(sp.tables) \cap AreasFrames(A) = {}
      /\ sp = [tables |-> sp.tables, pte |-> sp.pte, areas |-> A]
  BY <1>2 DEF SpaceOK
<1>4. k = [m EXCEPT !.space[o].areas = B]
  OBVIOUS
<1> HIDE DEF a
<1>5. AreasOK(B) /\ AreasFrames(B) = AreasFrames(A)
  <2> HIDE DEF A
  <2> QED BY <1>1, <1>3, AppendArea
<1>6. Last(B) = a
  BY <1>3 DEF AreasOK, Last
<1> HIDE DEF B, k
<1>7. k = [m EXCEPT !.space[o] = new]
  <2>1. k = [m EXCEPT !.space[o] = [sp EXCEPT !.areas = B]]
    BY <1>4
  <2>2. [sp EXCEPT !.areas = B] = new
    <3> HIDE DEF sp
    <3> QED BY <1>3
  <2> QED BY <2>1, <2>2
<1>8. SpaceOK(new) /\ SpaceFrames(new) = TableFrames(sp.tables) \cup AreasFrames(B)
  BY <1>3, <1>5, SetParts
<1> HIDE DEF new
<1>9. Trades(m.space[o], {}, new, {})
  BY <1>5, <1>8 DEF Trades, SpaceFrames
<1>10. Replaces(m, k, o, new)
  BY <1>7, Assigned
<1>11. MemOK(k, {}) /\ Only(m, k, o) /\ k.space[o] = new
  <2>1. Swap(m, {}, k, {}, o, new)
    BY <1>8, <1>9, <1>10, Zenon DEF Swap
  <2> QED BY <2>1, Exchange, Zenon
<1>12. k.space[o].areas = B
  BY <1>11 DEF new
<1>13. start..(start + 0 - 1) = {}
  OBVIOUS
<1>14. Mapping(m, k, o, start, end, 0)
  BY <1>1, <1>6, <1>11, <1>12, <1>13, Zenon DEF Mapping, B
<1> QED BY <1>14, Zenon DEF k, a

(* Another last element.                                                    *)
LEMMA ReplaceLast ==
  ASSUME NEW S, NEW A \in Seq(S), NEW a \in S, NEW b \in S
  PROVE  [Append(A, a) EXCEPT ![Len(A) + 1] = b] = Append(A, b)
<1> DEFINE L == Len(A) + 1  B == Append(A, a)  D == Append(A, b)  C == [B EXCEPT ![L] = b]
<1>1. B \in Seq(S) /\ DOMAIN B = 1..L /\ Len(A) \in Nat /\ \A i \in 1..Len(A) : B[i] = A[i]
  OBVIOUS
<1> HIDE DEF B
<1>2. L \in DOMAIN B
  BY <1>1
<1>3. C \in Seq(S) /\ DOMAIN C = DOMAIN B /\ C[L] = b /\ \A i \in DOMAIN B \ {L} : C[i] = B[i]
  <2> HIDE DEF L
  <2> QED BY <1>1, <1>2
<1> HIDE DEF C
<1>4. Len(C) = Len(A) + 1 /\ C[Len(A) + 1] = b /\ \A i \in 1..Len(A) : C[i] = A[i]
  BY <1>1, <1>3
<1>5. C = D
  BY <1>3, <1>4
<1> QED BY <1>5, Zenon DEF C, B

(* One round of the loop.                                                   *)
LEMMA MappingGoesOn ==
  ASSUME NEW m, NEW o \in DOMAIN m.space, m.space[o].areas \in Seq(MapArea), NEW k,
         NEW start \in Int, NEW end, NEW n \in Nat, Mapping(m, k, o, start, end, n)
  PROVE  Mapping(m, map_one(k, o, start + n), o, start, end, n + 1)
<1> DEFINE A == m.space[o].areas  B == k.space[o].areas  a == Last(B)
           vpn == start + n  f == NextFrame(k)
           c == map_one(k, o, vpn)  C == c.space[o].areas
           b == Fuller(a, vpn, f)
<1>1. /\ MemOK(k, {}) /\ Only(m, k, o) /\ B = Append(A, a)
      /\ a \in MapArea /\ a.start = start /\ a.end = end
      /\ DOMAIN a.data_frames = start..(start + n - 1)
  BY Zenon DEF Mapping
<1>2. A \in Seq(MapArea) /\ Len(A) \in Nat /\ DOMAIN A = 1..Len(A)
  OBVIOUS
<1> HIDE DEF A, a
<1>3. B # <<>> /\ Len(B) = Len(A) + 1 /\ B[Len(B)] = a /\ Len(B) \in DOMAIN B
  BY <1>1, <1>2
<1>4. o \in DOMAIN k.space /\ DOMAIN k.space = DOMAIN m.space
  BY <1>1 DEF Only
<1>5. vpn \in Int /\ vpn \notin DOMAIN a.data_frames
  BY <1>1
<1> HIDE DEF vpn, f, c
<1>6. MemOK(c, {}) /\ Only(k, c, o) /\ C = [B EXCEPT ![Len(B)] = b]
  <2>1. vpn \notin DOMAIN Last(B).data_frames
    BY <1>5, Zenon DEF a
  <2>2. MemOK(c, {}) /\ Only(k, c, o) /\ C = [B EXCEPT ![Len(B)] = Fuller(@, vpn, f)]
    BY <1>1, <1>3, <1>4, <1>5, <2>1, MapOne, Zenon DEF c, f
  <2> HIDE DEF B, C
  <2> QED BY <1>3, <2>2
<1>7. Only(m, c, o)
  BY <1>1, <1>6 DEF Only
<1>8. AreasOK(B) /\ f \in Nat /\ f \notin SpaceFrames(k.space[o])
  BY <1>1, <1>4, AllocFrame, Zenon DEF MemOK, SpaceOK, f
<1>9. IsInjective(a.data_frames) /\ f \notin AreaFrames(a)
  <2>1. IsInjective(B[Len(B)].data_frames)
    BY <1>3, <1>8, Zenon DEF AreasOK
  <2>2. f \notin AreasFrames(B)
    BY <1>8, Zenon DEF SpaceFrames
  <2>3. f \notin AreaFrames(B[Len(B)])
    BY <1>3, <2>2, Zenon DEF AreasFrames
  <2> QED BY <1>3, <2>1, <2>3, Zenon
<1>10. /\ b \in MapArea /\ b = [start |-> a.start, end |-> a.end, data_frames |-> b.data_frames]
       /\ DOMAIN b.data_frames = DOMAIN a.data_frames \cup {vpn}
  BY <1>1, <1>5, <1>8, <1>9, FullerArea
<1> HIDE DEF b
<1>11. b.start = start /\ b.end = end /\ DOMAIN b.data_frames = start..(start + (n + 1) - 1)
  <2>1. b.start = a.start /\ b.end = a.end
    BY <1>10
  <2>2. DOMAIN b.data_frames = start..(start + n - 1) \cup {start + n}
    BY <1>1, <1>10 DEF vpn
  <2>3. start..(start + n - 1) \cup {start + n} = start..(start + (n + 1) - 1)
    <3>1. start + (n + 1) - 1 = start + n
      OBVIOUS
    <3>2. start..(start + n - 1) \cup {start + n} = start..(start + n)
      OBVIOUS
    <3> QED BY <3>1, <3>2, Zenon
  <2> QED BY <1>1, <2>1, <2>2, <2>3, Zenon
<1>12. C = Append(A, b) /\ Last(C) = b
  <2> HIDE DEF C, B
  <2>1. C = Append(A, b)
    BY <1>1, <1>2, <1>3, <1>6, <1>10, ReplaceLast
  <2> QED BY <1>2, <1>10, <2>1 DEF Last
<1>13. Mapping(m, c, o, start, end, n + 1)
  BY <1>6, <1>7, <1>10, <1>11, <1>12, Zenon DEF Mapping, A
<1> QED BY <1>13, Zenon DEF c, vpn

(* MemorySet::insert_framed_area.                                           *)
LEMMA InsertFramedArea ==
  ASSUME NEW m, Whole(m), NEW o \in DOMAIN m.space,
         NEW start \in Int, NEW end \in Int, start <= end
  PROVE  Kept(m, insert_framed_area(m, o, start, end), o)
<1> DEFINE N == end - start
           z == [m EXCEPT !.space[o].areas =
                   Append(@, [start |-> start, end |-> end, data_frames |-> <<>>])]
           Val(f, i) == IF i = 0 THEN z ELSE map_one(f[i - 1], o, start + i - 1)
           F == CHOOSE f : IsMapped(f, z, o, start, N)
           Good(i) == Mapping(m, F[i], o, start, end, i)
           Bad == {i \in Nat : i <= N /\ ~Good(i)}
           n == insert_framed_area(m, o, start, end)
<1>0. N \in Nat
  OBVIOUS
<1>1. n = F[N]
  BY DEF insert_framed_area, IsMapped
<1>2. Mapping(m, z, o, start, end, 0)
  BY MappingStarts, Zenon DEF Whole
<1> HIDE DEF z, n
<1>3. F = [i \in 0..N |-> Val(F, i)]
  <2>1. \E f : IsMapped(f, z, o, start, N)
    <3> HIDE DEF N
    <3> QED BY <1>0, MappedExists, Zenon
  <2> HIDE DEF N
  <2>2. IsMapped(F, z, o, start, N)
    BY <2>1, Zenon
  <2> HIDE DEF F
  <2> QED BY <2>2, Zenon DEF IsMapped
<1>4. \A i \in 0..N : F[i] = Val(F, i)
  <2> HIDE DEF F, Val
  <2> QED BY <1>3
<1> HIDE DEF F, N
<1>5. Good(0)
  <2>1. F[0] = z
    BY <1>0, <1>4
  <2> QED BY <1>2, <2>1
<1>6. m.space[o].areas \in Seq(MapArea)
  BY Zenon DEF Whole, MemOK, SpaceOK, AreasOK
<1>7. ASSUME NEW i \in Nat, i < N, Good(i) PROVE Good(i + 1)
  <2>1. F[i + 1] = map_one(F[(i + 1) - 1], o, start + (i + 1) - 1)
    BY <1>0, <1>4, <1>7
  <2>2. (i + 1) - 1 = i /\ start + (i + 1) - 1 = start + i
    BY <1>7
  <2>3. F[i + 1] = map_one(F[i], o, start + i)
    BY <2>1, <2>2
  <2>4. Mapping(m, map_one(F[i], o, start + i), o, start, end, i + 1)
    BY <1>6, <1>7, MappingGoesOn, Zenon
  <2> QED BY <2>3, <2>4, Zenon
<1>8. Bad = {}
  <2> SUFFICES ASSUME Bad # {} PROVE FALSE
    OBVIOUS
  <2>1. PICK i \in Bad : \A j \in Bad : ~(<<j, i>> \in OpToRel(<, Nat))
    <3>1. Bad \subseteq Nat
      OBVIOUS
    <3> HIDE DEF Bad
    <3> QED BY Zenon, <3>1, NatLessThanWellFounded, WFMin
  <2>2. \A j \in Bad : ~(j < i)
    BY Zenon, <2>1 DEF OpToRel
  <2> HIDE DEF Good
  <2>3. i \in Nat /\ i <= N /\ ~Good(i)
    OBVIOUS
  <2>4. i # 0
    BY <1>5, <2>3
  <2>5. i - 1 \in Nat /\ i - 1 < N /\ i - 1 <= N /\ i - 1 < i /\ (i - 1) + 1 = i
    BY <1>0, <2>3, <2>4
  <2>6. i - 1 \notin Bad
    BY <2>2, <2>5, Zenon
  <2>7. Good(i - 1)
    BY <2>5, <2>6, Zenon
  <2>8. Good((i - 1) + 1)
    BY <1>7, <2>5, <2>7, Zenon
  <2> QED BY <2>3, <2>5, <2>8
<1>9. Good(N)
  <2> HIDE DEF Good
  <2> QED BY <1>0, <1>8
<1>10. Mapping(m, n, o, start, end, N)
  BY <1>1, <1>9, Zenon
<1> DEFINE C == n.space[o].areas  a == Last(C)  A == m.space[o].areas
<1>11. MemOK(n, {}) /\ Only(m, n, o) /\ C = Append(A, a)
       /\ a.start = start /\ a.end = end /\ DOMAIN a.data_frames = start..(start + N - 1)
  BY <1>10, Zenon DEF Mapping
<1>12. Complete(n.space[o])
  <2>1. DOMAIN a.data_frames = Pages(a) /\ a.start <= a.end
    <3>1. start + N - 1 = end - 1
      BY DEF N
    <3> QED BY <1>11, <3>1 DEF Pages
  <2>2. \A i \in DOMAIN A : A[i].start <= A[i].end /\ DOMAIN A[i].data_frames = Pages(A[i])
    BY Zenon DEF Whole, Complete
  <2>3. \A i \in DOMAIN C : C[i] = a \/ (i \in DOMAIN A /\ C[i] = A[i])
    <3> HIDE DEF C, a, A
    <3>1. A \in Seq(MapArea)
      BY <1>6 DEF A
    <3> QED BY <1>11, <3>1
  <2> HIDE DEF a, A
  <2> QED BY <2>1, <2>2, <2>3, Zenon DEF Complete
<1>13. Kept(m, n, o)
  BY <1>11, <1>12, WholeOne, Zenon
<1> QED BY <1>13, Zenon DEF n

(* The least of a set of numbers is one of them.                            *)
LEMMA MinIsIn ==
  ASSUME NEW S \in SUBSET Nat, S # {}
  PROVE  Min(S) \in S
<1>1. PICK n \in S : \A j \in S : ~(<<j, n>> \in OpToRel(<, Nat))
  BY Zenon, NatLessThanWellFounded, WFMin
<1>2. \A j \in S : ~(j < n)
  BY Zenon, <1>1 DEF OpToRel
<1>3. \A j \in S : n =< j
  BY <1>2
<1> QED BY <1>3, Zenon DEF Min

(* The elements of a concatenation.                                         *)
LEMMA ConcatIndex ==
  ASSUME NEW T, NEW s \in Seq(T), NEW u \in Seq(T)
  PROVE  /\ s \o u \in Seq(T) /\ Len(s \o u) = Len(s) + Len(u)
         /\ DOMAIN (s \o u) = 1..(Len(s) + Len(u))
         /\ \A k \in 1..Len(s) : (s \o u)[k] = s[k]
         /\ \A k \in 1..Len(u) : (s \o u)[Len(s) + k] = u[k]
<1> DEFINE r == s \o u
<1>1. /\ r \in Seq(T) /\ Len(r) = Len(s) + Len(u) /\ \A k \in 1..Len(s) : r[k] = s[k]
      /\ DOMAIN r = 1..Len(r)
  OBVIOUS
<1>2. \A k \in 1..Len(u) : r[Len(s) + k] = u[k]
  OBVIOUS
<1> QED BY <1>1, <1>2

(* Vec::remove moves the elements behind one place up.                      *)
LEMMA RemoveAtIndex ==
  ASSUME NEW T, NEW s \in Seq(T), NEW i \in 1..Len(s)
  PROVE  LET r == RemoveAt(s, i) IN
         /\ r \in Seq(T) /\ DOMAIN r = 1..(Len(s) - 1)
         /\ \A k \in 1..(Len(s) - 1) : r[k] = s[IF k < i THEN k ELSE k + 1]
<1> DEFINE a == SubSeq(s, 1, i - 1)  b == SubSeq(s, i + 1, Len(s))  r == a \o b
<1>1. /\ a \in Seq(T) /\ Len(a) = i - 1 /\ \A k \in 1..(i - 1) : a[k] = s[k]
  OBVIOUS
<1>2. /\ b \in Seq(T) /\ Len(b) = Len(s) - i /\ \A k \in 1..(Len(s) - i) : b[k] = s[i + k]
  OBVIOUS
<1>3. RemoveAt(s, i) = r
  BY DEF RemoveAt
<1>4. Len(s) \in Nat
  OBVIOUS
<1> HIDE DEF a, b
<1>5. /\ r \in Seq(T) /\ Len(r) = Len(s) - 1 /\ DOMAIN r = 1..(Len(s) - 1)
      /\ \A k \in 1..Len(a) : r[k] = a[k]
      /\ \A k \in 1..Len(b) : r[Len(a) + k] = b[k]
  <2>1. /\ r \in Seq(T) /\ Len(r) = Len(a) + Len(b) /\ DOMAIN r = 1..(Len(a) + Len(b))
        /\ \A k \in 1..Len(a) : r[k] = a[k]
        /\ \A k \in 1..Len(b) : r[Len(a) + k] = b[k]
    <3>1. a \in Seq(T) /\ b \in Seq(T)
      BY <1>1, <1>2, Zenon
    <3> QED BY <3>1, ConcatIndex
  <2>2. Len(a) + Len(b) = Len(s) - 1
    BY <1>1, <1>2, <1>4
  <2> QED BY <2>1, <2>2, Zenon
<1> HIDE DEF r
<1>6. ASSUME NEW k \in 1..(Len(s) - 1) PROVE r[k] = s[IF k < i THEN k ELSE k + 1]
  <2>1. CASE k < i
    BY <1>1, <1>4, <1>5, <2>1
  <2>2. CASE ~(k < i)
    <3> DEFINE l == k - i + 1
    <3>1. l \in 1..Len(b) /\ l \in 1..(Len(s) - i) /\ Len(a) + l = k /\ i + l = k + 1
      BY <1>1, <1>2, <1>4, <2>2
    <3> HIDE DEF l
    <3>2. r[Len(a) + l] = b[l] /\ b[l] = s[i + l]
      BY <1>2, <1>5, <3>1, Zenon
    <3>3. r[k] = s[k + 1]
      BY <3>1, <3>2, Zenon
    <3> QED BY <2>2, <3>3
  <2> QED BY <2>1, <2>2
<1> QED BY <1>3, <1>5, <1>6

(* A list of areas without one of them.                                     *)
LEMMA RemoveArea ==
  ASSUME NEW A, AreasOK(A), NEW i \in DOMAIN A
  PROVE  LET R == RemoveAt(A, i) IN
         /\ AreasOK(R) /\ AreasFrames(R) = AreasFrames(A) \ AreaFrames(A[i])
         /\ \A k \in DOMAIN R : \E j \in DOMAIN A : R[k] = A[j]
<1> DEFINE R == RemoveAt(A, i)  p(k) == IF k < i THEN k ELSE k + 1
<1>1. A \in Seq(MapArea) /\ Len(A) \in Nat /\ DOMAIN A = 1..Len(A)
  BY DEF AreasOK
<1>2. i \in 1..Len(A)
  BY <1>1
<1>3. R \in Seq(MapArea) /\ DOMAIN R = 1..(Len(A) - 1) /\ \A k \in DOMAIN R : R[k] = A[p(k)]
  BY <1>1, <1>2, RemoveAtIndex
<1>4. \A k \in DOMAIN R : p(k) \in DOMAIN A /\ p(k) # i
  BY <1>1, <1>2, <1>3
<1>5. \A k, l \in DOMAIN R : k # l => p(k) # p(l)
  BY <1>1, <1>2, <1>3
<1>6. \A j \in DOMAIN A : j # i => \E k \in DOMAIN R : p(k) = j
  <2> SUFFICES ASSUME NEW j \in DOMAIN A, j # i PROVE \E k \in DOMAIN R : p(k) = j
    OBVIOUS
  <2>1. CASE j < i
    BY <1>1, <1>2, <1>3, <2>1
  <2>2. CASE ~(j < i)
    <3>1. j - 1 \in DOMAIN R /\ p(j - 1) = j
      BY <1>1, <1>2, <1>3, <2>2
    <3> QED BY <3>1
  <2> QED BY <2>1, <2>2
<1> HIDE DEF R, p
<1>7. AreasOK(R)
  BY <1>3, <1>4, <1>5, Zenon DEF AreasOK
<1>8. ASSUME NEW f PROVE f \in AreasFrames(R) <=> f \in AreasFrames(A) \ AreaFrames(A[i])
  <2>1. f \in AreasFrames(R) <=> \E j \in DOMAIN R : f \in AreaFrames(R[j])
    BY DEF AreasFrames
  <2>2. f \in AreasFrames(A) <=> \E j \in DOMAIN A : f \in AreaFrames(A[j])
    BY DEF AreasFrames
  <2>3. \A j \in DOMAIN A : j # i /\ f \in AreaFrames(A[j]) => f \notin AreaFrames(A[i])
    BY Zenon DEF AreasOK
  <2> QED BY <1>3, <1>4, <1>6, <2>1, <2>2, <2>3, Zenon
<1>9. AreasFrames(R) = AreasFrames(A) \ AreaFrames(A[i])
  BY <1>8
<1> QED BY <1>3, <1>4, <1>7, <1>9, Zenon DEF R

(* The frames of an area as a list, without duplicates.                     *)
LEMMA FramesOf ==
  ASSUME NEW a \in MapArea, IsInjective(a.data_frames), a.start <= a.end,
         DOMAIN a.data_frames = Pages(a)
  PROVE  /\ Frames(a) \in Seq(Nat) /\ IsInjective(Frames(a))
         /\ Range(Frames(a)) = AreaFrames(a)
<1> DEFINE F == a.data_frames  N == a.end - a.start  s == Frames(a)
<1>1. a.start \in Int /\ a.end \in Int /\ F \in UNION {[S -> Nat] : S \in SUBSET Int}
  BY DEF MapArea
<1>2. DOMAIN F = a.start..(a.end - 1) /\ \A v \in DOMAIN F : F[v] \in Nat
  BY <1>1 DEF Pages
<1>3. \A v, w \in DOMAIN F : F[v] = F[w] => v = w
  BY DEF IsInjective
<1>4. s = [i \in 1..N |-> F[a.start + i - 1]]
  BY Zenon DEF Frames
<1> HIDE DEF F, s
<1>5. N \in Nat /\ \A i \in 1..N : a.start + i - 1 \in DOMAIN F
  BY <1>1, <1>2
<1>6. DOMAIN s = 1..N /\ \A i \in 1..N : s[i] = F[a.start + i - 1]
  BY <1>4
<1>7. s \in [1..N -> Nat]
  BY <1>2, <1>4, <1>5
<1>8. s \in Seq(Nat)
  <2> HIDE DEF N
  <2> QED BY <1>5, <1>7
<1>9. ASSUME NEW i \in 1..N, NEW j \in 1..N, s[i] = s[j] PROVE i = j
  <2>1. a.start + i - 1 = a.start + j - 1
    BY <1>3, <1>5, <1>6, <1>9
  <2> QED BY <1>1, <1>5, <2>1
<1>10. \A v \in DOMAIN F : \E i \in 1..N : s[i] = F[v]
  <2> SUFFICES ASSUME NEW v \in DOMAIN F PROVE \E i \in 1..N : s[i] = F[v]
    OBVIOUS
  <2>1. v - a.start + 1 \in 1..N /\ a.start + (v - a.start + 1) - 1 = v
    BY <1>1, <1>2
  <2>2. s[v - a.start + 1] = F[v]
    BY <1>6, <2>1
  <2> QED BY <2>1, <2>2
<1>11. Range(s) = {s[i] : i \in 1..N} /\ AreaFrames(a) = {F[v] : v \in DOMAIN F}
  BY <1>6 DEF Range, AreaFrames, F
<1>12. Range(s) = AreaFrames(a)
  BY <1>5, <1>6, <1>10, <1>11
<1>13. IsInjective(s)
  BY <1>6, <1>9 DEF IsInjective
<1> QED BY <1>8, <1>12, <1>13, Zenon DEF s

-----------------------------------------------------------------------------
\* Frames that are given back.

\* n is m with sp as the address space o and the frames fs in the free list.
Returns(m, n, o, sp, fs) ==
  n = [fa |-> DeallocAll(m.fa, fs), mem |-> m.mem, space |-> [m.space EXCEPT ![o] = sp]]

\* fs lists the frames that sp has not any more.
Leaves(old, sp, fs) ==
  /\ SpaceOK(sp) /\ Complete(sp)
  /\ fs \in Seq(Nat) /\ IsInjective(fs) /\ Range(fs) \cap SpaceFrames(sp) = {}
  /\ Range(fs) \cup SpaceFrames(sp) = SpaceFrames(old)

(* The frames an address space drops go to the free list.                   *)
LEMMA GiveBack ==
  ASSUME NEW m, Whole(m), NEW o \in DOMAIN m.space, NEW n, NEW sp, NEW fs,
         Returns(m, n, o, sp, fs), Leaves(m.space[o], sp, fs)
  PROVE  Kept(m, n, o) /\ n.space[o] = sp
<1> DEFINE k == [m EXCEPT !.space[o] = sp]
<1>0. MemOK(m, {})
  BY Zenon DEF Whole
<1>1. m = [fa |-> m.fa, mem |-> m.mem, space |-> m.space]
  BY <1>0 DEF MemOK
<1>2. k = [fa |-> m.fa, mem |-> m.mem, space |-> [m.space EXCEPT ![o] = sp]]
  BY <1>1
<1>3. n = frame_dealloc(k, fs)
  <2>1. frame_dealloc(k, fs) = [k EXCEPT !.fa = DeallocAll(k.fa, fs)]
    <3> HIDE DEF k
    <3> QED BY <1>2 DEF frame_dealloc, DeallocAll
  <2> HIDE DEF k
  <2>2. k.fa = m.fa
    BY <1>2
  <2>3. frame_dealloc(k, fs) = [fa |-> DeallocAll(m.fa, fs), mem |-> m.mem,
                                space |-> [m.space EXCEPT ![o] = sp]]
    BY <1>2, <2>1, <2>2
  <2> QED BY <2>3, Zenon DEF Returns
<1>4. Replaces(m, k, o, sp)
  BY <1>0, Assigned
<1> HIDE DEF k
<1>5. Trades(m.space[o], {}, sp, Range(fs))
  <2>1. SpaceFrames(sp) \cap Range(fs) = {}
    BY DEF Leaves
  <2>2. SpaceFrames(sp) \cup Range(fs) = SpaceFrames(m.space[o]) \cup {}
    BY DEF Leaves
  <2> QED BY <2>1, <2>2, Zenon DEF Trades
<1>6. Swap(m, {}, k, Range(fs), o, sp)
  BY <1>0, <1>4, <1>5, Zenon DEF Swap, Leaves
<1>7. MemOK(k, Range(fs)) /\ Only(m, k, o) /\ k.space[o] = sp
  BY <1>6, Exchange, Zenon
<1>8. fs \in Seq(Nat) /\ IsInjective(fs) /\ Range(fs) \subseteq Range(fs)
  BY Zenon DEF Leaves
<1>9. MemOK(n, Range(fs) \ Range(fs)) /\ n.space = k.space
  BY <1>3, <1>7, <1>8, FreeFrames, Zenon
<1>10. Range(fs) \ Range(fs) = {}
  OBVIOUS
<1>11. MemOK(n, {})
  BY <1>9, <1>10, Zenon
<1>12. Only(m, n, o) /\ n.space[o] = sp /\ Complete(n.space[o])
  BY <1>7, <1>9, Zenon DEF Only, Leaves
<1> QED BY <1>11, <1>12, WholeOne, Zenon

(* An address space of a whole memory.                                      *)
LEMMA SpaceParts ==
  ASSUME NEW m, Whole(m), NEW o \in DOMAIN m.space
  PROVE  LET sp == m.space[o] IN
         /\ sp = [tables |-> sp.tables, pte |-> sp.pte, areas |-> sp.areas]
         /\ TablesOK(sp.tables) /\ AreasOK(sp.areas)
         /\ TableFrames(sp.tables) \cap AreasFrames(sp.areas) = {}
         /\ \A i \in DOMAIN sp.areas : /\ sp.areas[i].start <= sp.areas[i].end
                                       /\ DOMAIN sp.areas[i].data_frames = Pages(sp.areas[i])
BY Zenon DEF Whole, MemOK, SpaceOK, Complete

(* MemorySet::remove_area_with_start_vpn.                                   *)
LEMMA RemoveKeeps ==
  ASSUME NEW m, Whole(m), NEW o \in DOMAIN m.space, NEW start
  PROVE  Kept(m, remove_area_with_start_vpn(m, o, start), o)
<1> DEFINE sp == m.space[o]  A == sp.areas
           found == {i \in DOMAIN A : A[i].start = start}
           i == Min(found)  a == A[i]  fs == Frames(a)  R == RemoveAt(A, i)
           P == [v \in DOMAIN sp.pte \ Pages(a) |-> sp.pte[v]]
           new == [tables |-> sp.tables, pte |-> P, areas |-> R]
           n == remove_area_with_start_vpn(m, o, start)
<1>1. CASE found = {}
  <2>1. n = m
    BY <1>1, Zenon DEF remove_area_with_start_vpn
  <2>2. Kept(m, m, o)
    BY Zenon DEF Kept, Only
  <2> QED BY <2>1, <2>2, Zenon
<1>2. CASE found # {}
  <2>1. /\ sp = [tables |-> sp.tables, pte |-> sp.pte, areas |-> A]
        /\ TablesOK(sp.tables) /\ AreasOK(A)
        /\ TableFrames(sp.tables) \cap AreasFrames(A) = {}
        /\ \A j \in DOMAIN A : A[j].start <= A[j].end /\ DOMAIN A[j].data_frames = Pages(A[j])
    BY SpaceParts, Zenon
  <2>2. n = [unmap(frame_dealloc(m, fs), o, Pages(a)) EXCEPT !.space[o].areas = RemoveAt(@, i)]
    BY <1>2, Zenon DEF remove_area_with_start_vpn, unmap_area
  <2>3. m = [fa |-> m.fa, mem |-> m.mem, space |-> m.space]
    BY Zenon DEF Whole, MemOK
  <2>4. found \in SUBSET Nat
    <3>1. A \in Seq(MapArea)
      BY <2>1, Zenon DEF AreasOK
    <3> HIDE DEF A
    <3> QED BY <3>1
  <2>5. i \in DOMAIN A
    <3>1. i \in found
      BY <1>2, <2>4, MinIsIn, Zenon
    <3> QED BY <3>1, Zenon
  <2> HIDE DEF i, n, fs
  <2>6. Returns(m, n, o, new, fs)
    <3> DEFINE d == frame_dealloc(m, fs)  u == unmap(d, o, Pages(a))
    <3>1. d = [fa |-> DeallocAll(m.fa, fs), mem |-> m.mem, space |-> m.space]
      <4>1. d = [m EXCEPT !.fa = DeallocAll(m.fa, fs)]
        BY <2>3 DEF frame_dealloc, DeallocAll
      <4> HIDE DEF d
      <4> QED BY <2>3, <4>1
    <3> DEFINE F == DeallocAll(m.fa, fs)
               s1 == [tables |-> sp.tables, pte |-> P, areas |-> A]
    <3> HIDE DEF d, F
    <3>2. u = [fa |-> F, mem |-> m.mem, space |-> [m.space EXCEPT ![o] = s1]]
      <4>1. u = [d EXCEPT !.space[o].pte = [v \in DOMAIN @ \ Pages(a) |-> @[v]]]
        BY Zenon DEF unmap
      <4>2. d.space = m.space /\ d.space[o].pte = sp.pte
        BY <3>1
      <4>3. u = [d EXCEPT !.space[o].pte = P]
        BY <4>1, <4>2
      <4> HIDE DEF u, P
      <4>4. u = [d EXCEPT !.space[o] = [d.space[o] EXCEPT !.pte = P]]
        BY <4>3
      <4>5. [d.space[o] EXCEPT !.pte = P] = s1
        <5>1. d.space[o] = sp
          BY <4>2
        <5> HIDE DEF sp, A
        <5> QED BY <2>1, <5>1
      <4>6. u = [d EXCEPT !.space[o] = s1]
        BY <4>4, <4>5
      <4> HIDE DEF s1
      <4> QED BY <3>1, <4>6 DEF F
    <3> HIDE DEF u, P
    <3>3. n = [u EXCEPT !.space[o].areas = R]
      <4>1. n = [u EXCEPT !.space[o].areas = RemoveAt(@, i)]
        BY <2>2, Zenon DEF u, d
      <4>2. u.space[o].areas = A
        <5> HIDE DEF sp, A
        <5> QED BY <3>2
      <4> QED BY <4>1, <4>2
    <3>4. n = [u EXCEPT !.space[o] = new]
      <4> HIDE DEF R
      <4>1. n = [u EXCEPT !.space[o] = [u.space[o] EXCEPT !.areas = R]]
        BY <3>3
      <4>2. u.space[o] = s1
        <5> HIDE DEF s1
        <5> QED BY <3>2
      <4>3. [s1 EXCEPT !.areas = R] = new
        <5> HIDE DEF sp, A
        <5> QED OBVIOUS
      <4> HIDE DEF s1, new
      <4> QED BY <4>1, <4>2, <4>3
    <3> HIDE DEF new, s1
    <3>5. n = [fa |-> F, mem |-> m.mem, space |-> [[m.space EXCEPT ![o] = s1] EXCEPT ![o] = new]]
      BY <3>2, <3>4
    <3>6. [[m.space EXCEPT ![o] = s1] EXCEPT ![o] = new] = [m.space EXCEPT ![o] = new]
      OBVIOUS
    <3> QED BY <3>5, <3>6, Zenon DEF Returns, F
  <2>7. /\ AreasOK(R) /\ AreasFrames(R) = AreasFrames(A) \ AreaFrames(a)
        /\ \A k \in DOMAIN R : \E j \in DOMAIN A : R[k] = A[j]
    BY <2>1, <2>5, RemoveArea
  <2>8. a \in MapArea /\ IsInjective(a.data_frames) /\ a.start <= a.end
        /\ DOMAIN a.data_frames = Pages(a) /\ AreaFrames(a) \subseteq AreasFrames(A)
    BY <2>1, <2>5 DEF AreasOK, AreasFrames
  <2>9. fs \in Seq(Nat) /\ IsInjective(fs) /\ Range(fs) = AreaFrames(a)
    <3> HIDE DEF a
    <3> QED BY <2>8, FramesOf, Zenon DEF fs
  <2> HIDE DEF R, P
  <2>10. SpaceOK(new) /\ SpaceFrames(new) = TableFrames(sp.tables) \cup AreasFrames(R)
    <3>1. TableFrames(sp.tables) \cap AreasFrames(R) = {}
      BY <2>1, <2>7
    <3> QED BY <2>1, <2>7, <3>1, SetParts
  <2>11. Complete(new)
    <3>1. new.areas = R
      OBVIOUS
    <3> HIDE DEF new
    <3> QED BY <2>1, <2>7, <3>1, Zenon DEF Complete
  <2> HIDE DEF new
  <2>12. Leaves(sp, new, fs)
    <3> HIDE DEF a
    <3>1. Range(fs) \cap SpaceFrames(new) = {}
      BY <2>1, <2>7, <2>8, <2>9, <2>10
    <3>2. Range(fs) \cup SpaceFrames(new) = SpaceFrames(sp)
      BY <2>7, <2>8, <2>9, <2>10 DEF SpaceFrames
    <3> QED BY <2>9, <2>10, <2>11, <3>1, <3>2, Zenon DEF Leaves
  <2>13. Kept(m, n, o)
    BY <2>6, <2>12, GiveBack, Zenon
  <2> QED BY <2>13, Zenon DEF n
<1> QED BY <1>1, <1>2

\* The frames of the areas of A, list after list.
IsFreed(f, z, A) ==
  f = [i \in 0..Len(A) |-> IF i = 0 THEN z ELSE f[i - 1] \o Frames(A[i])]

(* There are such lists.                                                    *)
LEMMA FreedExists ==
  ASSUME NEW z, NEW T, NEW A \in Seq(T)
  PROVE  \E f : IsFreed(f, z, A)
<1> DEFINE Val(f, i) == IF i = 0 THEN z ELSE f[i - 1] \o Frames(A[i])
           Bad == {n \in Nat : n <= Len(A) /\ ~\E f : f = [i \in 0..n |-> Val(f, i)]}
<1>1. Bad = {}
  <2> SUFFICES ASSUME Bad # {} PROVE FALSE
    BY Zenon
  <2>1. PICK n \in Bad : \A j \in Bad : ~(<<j, n>> \in OpToRel(<, Nat))
    <3>1. Bad \subseteq Nat
      BY Zenon
    <3> HIDE DEF Bad
    <3> QED BY Zenon, <3>1, NatLessThanWellFounded, WFMin
  <2>2. n \in Nat /\ n <= Len(A) /\ ~\E f : f = [i \in 0..n |-> Val(f, i)]
    BY Zenon
  <2>3. \A j \in Bad : ~(j < n)
    BY Zenon, <2>1 DEF OpToRel
  <2>4. CASE n = 0
    <3> DEFINE g == [i \in 0..0 |-> z]
    <3>1. g = [i \in 0..0 |-> Val(g, i)]
      <4>1. \A i \in 0..0 : Val(g, i) = z
        OBVIOUS
      <4> QED BY <4>1
    <3> QED BY Zenon, <2>2, <2>4, <3>1
  <2>5. CASE n # 0
    <3>1. n - 1 \in Nat /\ n - 1 <= Len(A) /\ n - 1 < n
      BY <2>2, <2>5
    <3>2. n - 1 \notin Bad
      BY Zenon, <2>3, <3>1
    <3>3. PICK f : f = [i \in 0..(n - 1) |-> Val(f, i)]
      <4> HIDE DEF Val
      <4> QED BY SMTT(20), <3>1, <3>2
    <3> DEFINE g == [i \in 0..n |-> IF i = n THEN Val(f, n) ELSE f[i]]
    <3>4. \A i \in 0..n : g[i] = Val(g, i)
      <4> SUFFICES ASSUME NEW i \in 0..n PROVE g[i] = Val(g, i)
        BY Zenon
      <4>1. i # 0 => g[i - 1] = f[i - 1]
        <5> HIDE DEF Val
        <5> QED BY <2>2, <2>5
      <4>2. Val(g, i) = Val(f, i)
        <5> HIDE DEF g
        <5> QED BY <4>1, Zenon
      <4>3. i # n => f[i] = Val(f, i)
        <5>1. i # n => i \in 0..(n - 1)
          BY <2>2
        <5> HIDE DEF Val
        <5> QED BY <3>3, <5>1
      <4> HIDE DEF Val
      <4> QED BY <4>2, <4>3
    <3>5. g = [i \in 0..n |-> Val(g, i)]
      <4>1. g = [i \in 0..n |-> g[i]]
        <5> HIDE DEF Val
        <5> QED OBVIOUS
      <4> HIDE DEF g, Val
      <4> QED BY <3>4, <4>1
    <3> QED BY Zenon, <2>2, <3>5
  <2> QED BY <2>4, <2>5
<1>2. Len(A) \notin Bad
  BY Zenon, <1>1
<1>3. \E f : f = [i \in 0..Len(A) |-> Val(f, i)]
  <2> HIDE DEF Val
  <2> QED BY <1>2
<1> QED BY <1>3, Zenon DEF IsFreed


FreedList(A) == (CHOOSE f : IsFreed(f, <<>>, A))[Len(A)]

(* The Vec of areas, cleared, gives every frame of theirs back once.         *)
LEMMA FreedOf ==
  ASSUME NEW A, AreasOK(A),
         \A i \in DOMAIN A : A[i].start <= A[i].end /\ DOMAIN A[i].data_frames = Pages(A[i])
  PROVE  /\ FreedList(A) \in Seq(Nat) /\ IsInjective(FreedList(A))
         /\ Range(FreedList(A)) = AreasFrames(A)
<1> DEFINE N == Len(A)
           Val(f, i) == IF i = 0 THEN <<>> ELSE f[i - 1] \o Frames(A[i])
           F == CHOOSE f : IsFreed(f, <<>>, A)
           Some(i) == UNION {AreaFrames(A[j]) : j \in 1..i}
           Good(i) == F[i] \in Seq(Nat) /\ IsInjective(F[i]) /\ Range(F[i]) = Some(i)
           Bad == {i \in Nat : i <= N /\ ~Good(i)}
<1>0. A \in Seq(MapArea) /\ N \in Nat /\ DOMAIN A = 1..N
  BY DEF AreasOK
<1>3. F = [i \in 0..N |-> Val(F, i)]
  <2>1. \E f : IsFreed(f, <<>>, A)
    BY <1>0, FreedExists, Zenon
  <2>2. IsFreed(F, <<>>, A)
    BY <2>1, Zenon
  <2> HIDE DEF F
  <2> QED BY <2>2, Zenon DEF IsFreed
<1>4. \A i \in 0..N : F[i] = Val(F, i)
  <2> HIDE DEF F, Val
  <2> QED BY <1>3
<1> HIDE DEF F
<1>5. Good(0)
  <2>1. F[0] = <<>>
    BY <1>0, <1>4
  <2>2. <<>> \in Seq(Nat) /\ IsInjective(<<>>) /\ Range(<<>>) = {}
    BY DEF IsInjective, Range
  <2>3. Some(0) = {}
    OBVIOUS
  <2> HIDE DEF Some
  <2> QED BY <2>1, <2>2, <2>3, Zenon
<1>7. ASSUME NEW i \in Nat, i < N, Good(i) PROVE Good(i + 1)
  <2> DEFINE a == A[i + 1]  u == Frames(a)
  <2>1. F[i + 1] = F[i] \o u
    <3>0. i + 1 \in 0..N /\ i + 1 # 0
      BY <1>0, <1>7
    <3>1. F[i + 1] = F[(i + 1) - 1] \o u
      BY <1>4, <3>0, Zenon
    <3>2. (i + 1) - 1 = i
      BY <1>7
    <3> QED BY <3>1, <3>2, Zenon
  <2>2. i + 1 \in DOMAIN A
    BY <1>0, <1>7
  <2>3. /\ a \in MapArea /\ IsInjective(a.data_frames) /\ a.start <= a.end
        /\ DOMAIN a.data_frames = Pages(a)
    BY <1>0, <2>2 DEF AreasOK
  <2>4. u \in Seq(Nat) /\ IsInjective(u) /\ Range(u) = AreaFrames(a)
    <3> HIDE DEF a
    <3> QED BY <2>3, FramesOf, Zenon
  <2>5. Some(i) \cap AreaFrames(a) = {}
    <3>1. \A j \in 1..i : j \in DOMAIN A /\ j # i + 1
      BY <1>0, <1>7
    <3>2. \A j \in 1..i : AreaFrames(A[j]) \cap AreaFrames(A[i + 1]) = {}
      BY <2>2, <3>1, Zenon DEF AreasOK
    <3> QED BY <3>2
  <2>6. Some(i + 1) = Some(i) \cup AreaFrames(a)
    <3>1. \A j \in 1..(i + 1) : j \in 1..i \/ j = i + 1
      OBVIOUS
    <3>2. i + 1 \in 1..(i + 1) /\ \A j \in 1..i : j \in 1..(i + 1)
      OBVIOUS
    <3>3. ASSUME NEW f PROVE f \in Some(i + 1) <=> f \in Some(i) \cup AreaFrames(a)
      <4>1. f \in Some(i + 1) <=> \E j \in 1..(i + 1) : f \in AreaFrames(A[j])
        OBVIOUS
      <4>2. f \in Some(i) <=> \E j \in 1..i : f \in AreaFrames(A[j])
        OBVIOUS
      <4> HIDE DEF Some
      <4> QED BY <3>1, <3>2, <4>1, <4>2, Zenon
    <3> HIDE DEF Some
    <3> QED BY <3>3
  <2> HIDE DEF u, Some, a
  <2>7. /\ F[i] \o u \in Seq(Nat) /\ Range(F[i] \o u) = Range(F[i]) \cup Range(u)
        /\ IsInjective(F[i] \o u)
    <3>1. F[i] \in Seq(Nat) /\ IsInjective(F[i]) /\ Range(F[i]) \cap Range(u) = {}
      BY <1>7, <2>4, <2>5, Zenon
    <3> QED BY <2>4, <3>1, ConcatRange, Zenon
  <2> QED BY <1>7, <2>1, <2>4, <2>6, <2>7, Zenon
<1>8. Bad = {}
  <2> SUFFICES ASSUME Bad # {} PROVE FALSE
    BY Zenon
  <2> HIDE DEF Good
  <2>1. PICK i \in Bad : \A j \in Bad : ~(<<j, i>> \in OpToRel(<, Nat))
    <3>1. Bad \subseteq Nat
      OBVIOUS
    <3> HIDE DEF Bad
    <3> QED BY Zenon, <3>1, NatLessThanWellFounded, WFMin
  <2>2. \A j \in Bad : ~(j < i)
    BY Zenon, <2>1 DEF OpToRel
  <2>3. i \in Nat /\ i <= N /\ ~Good(i)
    OBVIOUS
  <2>4. i # 0
    BY <1>5, <2>3
  <2>5. i - 1 \in Nat /\ i - 1 < N /\ i - 1 <= N /\ i - 1 < i /\ (i - 1) + 1 = i
    BY <1>0, <2>3, <2>4
  <2>6. i - 1 \notin Bad
    BY <2>2, <2>5, Zenon
  <2>7. Good(i - 1)
    BY <2>5, <2>6, Zenon
  <2>8. Good((i - 1) + 1)
    BY <1>7, <2>5, <2>7, Zenon
  <2> QED BY <2>3, <2>5, <2>8
<1>9. Good(N)
  <2> HIDE DEF Good
  <2> QED BY <1>0, <1>8
<1>10. FreedList(A) = F[N] /\ Some(N) = AreasFrames(A)
  BY <1>0, Zenon DEF FreedList, F, AreasFrames
<1> QED BY <1>9, <1>10, Zenon

(* The freeing of frames changes nothing else.                              *)
LEMMA FreeIs ==
  ASSUME NEW m, m = [fa |-> m.fa, mem |-> m.mem, space |-> m.space], NEW fs
  PROVE  frame_dealloc(m, fs) = [fa |-> DeallocAll(m.fa, fs), mem |-> m.mem, space |-> m.space]
<1> DEFINE d == frame_dealloc(m, fs)
<1>1. d = [m EXCEPT !.fa = DeallocAll(m.fa, fs)]
  BY DEF frame_dealloc, DeallocAll
<1> HIDE DEF d
<1>2. d = [fa |-> DeallocAll(m.fa, fs), mem |-> m.mem, space |-> m.space]
  BY <1>1
<1> QED BY <1>2, Zenon DEF d

(* MemorySet::recycle_data_pages.                                           *)
LEMMA RecycleKeeps ==
  ASSUME NEW m, Whole(m), NEW o \in DOMAIN m.space
  PROVE  Kept(m, recycle_data_pages(m, o), o)
<1> DEFINE sp == m.space[o]  A == sp.areas  fs == FreedList(A)
           new == [tables |-> sp.tables, pte |-> sp.pte, areas |-> <<>>]
           n == recycle_data_pages(m, o)
           d == frame_dealloc(m, fs)
<1>1. /\ sp = [tables |-> sp.tables, pte |-> sp.pte, areas |-> A]
      /\ TablesOK(sp.tables) /\ AreasOK(A)
      /\ TableFrames(sp.tables) \cap AreasFrames(A) = {}
      /\ \A j \in DOMAIN A : A[j].start <= A[j].end /\ DOMAIN A[j].data_frames = Pages(A[j])
  BY SpaceParts, Zenon
<1>2. n = [d EXCEPT !.space[o].areas = <<>>]
  BY DEF recycle_data_pages, FreedList, IsFreed
<1>3. m = [fa |-> m.fa, mem |-> m.mem, space |-> m.space]
  BY Zenon DEF Whole, MemOK
<1>4. d = [fa |-> DeallocAll(m.fa, fs), mem |-> m.mem, space |-> m.space]
  BY <1>3, FreeIs, Zenon
<1>5. fs \in Seq(Nat) /\ IsInjective(fs) /\ Range(fs) = AreasFrames(A)
  <2> HIDE DEF A
  <2> QED BY <1>1, FreedOf, Zenon
<1> HIDE DEF n, d, fs
<1>6. Returns(m, n, o, new, fs)
  <2>1. n = [d EXCEPT !.space[o] = [d.space[o] EXCEPT !.areas = <<>>]]
    BY <1>2
  <2>2. d.space[o] = sp
    BY <1>4
  <2>3. [sp EXCEPT !.areas = <<>>] = new
    <3> HIDE DEF sp
    <3> QED BY <1>1
  <2>4. n = [d EXCEPT !.space[o] = new]
    BY <2>1, <2>2, <2>3
  <2> HIDE DEF new
  <2>5. n = [fa |-> DeallocAll(m.fa, fs), mem |-> m.mem, space |-> [m.space EXCEPT ![o] = new]]
    BY <1>4, <2>4
  <2> QED BY <2>5, Zenon DEF Returns
<1>7. AreasOK(<<>>) /\ AreasFrames(<<>>) = {}
  BY DEF AreasOK, AreasFrames
<1>8. SpaceOK(new) /\ SpaceFrames(new) = TableFrames(sp.tables)
  <2>1. TableFrames(sp.tables) \cap AreasFrames(<<>>) = {}
    BY <1>7
  <2>2. SpaceOK(new) /\ SpaceFrames(new) = TableFrames(sp.tables) \cup AreasFrames(<<>>)
    BY <1>1, <1>7, <2>1, SetParts
  <2> QED BY Zenon, <1>7, <2>2
<1>9. Complete(new)
  BY DEF Complete
<1> HIDE DEF new
<1>10. Leaves(sp, new, fs)
  <2>1. Range(fs) \cap SpaceFrames(new) = {}
    BY <1>1, <1>5, <1>8
  <2>2. Range(fs) \cup SpaceFrames(new) = SpaceFrames(sp)
    BY <1>5, <1>8 DEF SpaceFrames
  <2> QED BY <1>5, <1>8, <1>9, <2>1, <2>2, Zenon DEF Leaves
<1> QED BY <1>6, <1>10, GiveBack, Zenon DEF n

(* The drop of a MemorySet.                                                 *)
LEMMA DropSpaceKeeps ==
  ASSUME NEW m, Whole(m), NEW o \in DOMAIN m.space
  PROVE  Kept(m, DropMemorySet(m, o), o) /\ DropMemorySet(m, o).space[o] = Absent
<1> DEFINE sp == m.space[o]  A == sp.areas  T == sp.tables
           ts == [i \in DOMAIN T |-> T[i].ppn]  fs == FreedList(A)
           mid == [tables |-> <<>>, pte |-> sp.pte, areas |-> A]
           F == DeallocAll(m.fa, ts)
           k == [fa |-> F, mem |-> m.mem, space |-> [m.space EXCEPT ![o] = mid]]
           d == frame_dealloc(m, ts)  e == recycle_data_pages(d, o)
           n == DropMemorySet(m, o)
<1>1. /\ sp = [tables |-> T, pte |-> sp.pte, areas |-> A]
      /\ TablesOK(T) /\ AreasOK(A) /\ TableFrames(T) \cap AreasFrames(A) = {}
      /\ \A j \in DOMAIN A : A[j].start <= A[j].end /\ DOMAIN A[j].data_frames = Pages(A[j])
  BY SpaceParts, Zenon
<1>2. m = [fa |-> m.fa, mem |-> m.mem, space |-> m.space]
      /\ m.space = [q \in DOMAIN m.space |-> m.space[q]]
  BY Zenon DEF Whole, MemOK
<1>3. ts \in Seq(Nat) /\ IsInjective(ts) /\ Range(ts) = TableFrames(T)
  <2> HIDE DEF T
  <2>1. T \in Seq(TableEntry) /\ \A i, j \in DOMAIN T : T[i].ppn = T[j].ppn => i = j
    BY <1>1 DEF TablesOK
  <2>a. Len(T) \in Nat /\ DOMAIN T = 1..Len(T) /\ \A i \in DOMAIN T : T[i] \in TableEntry
    BY <2>1
  <2>b. \A e1 \in TableEntry : e1.ppn \in Nat
    BY DEF TableEntry
  <2>2. Len(T) \in Nat /\ DOMAIN T = 1..Len(T) /\ \A i \in DOMAIN T : T[i].ppn \in Nat
    BY <2>a, <2>b, Zenon
  <2>3. ts \in [1..Len(T) -> Nat]
    BY <2>2
  <2>4. ts \in Seq(Nat)
    <3> HIDE DEF ts
    <3> QED BY <2>2, <2>3
  <2>5. IsInjective(ts)
    BY <2>1 DEF IsInjective
  <2>6. Range(ts) = TableFrames(T)
    BY DEF Range, TableFrames
  <2> QED BY <2>4, <2>5, <2>6
<1>4. d = [fa |-> F, mem |-> m.mem, space |-> m.space]
  BY <1>2, FreeIs, Zenon
<1>5. fs \in Seq(Nat) /\ IsInjective(fs) /\ Range(fs) = AreasFrames(A)
  <2> HIDE DEF A
  <2> QED BY <1>1, FreedOf, Zenon
<1>6. n = [e EXCEPT !.space[o] = Absent]
  BY Zenon DEF DropMemorySet
<1>7. e = [frame_dealloc(d, FreedList(d.space[o].areas)) EXCEPT !.space[o].areas = <<>>]
  BY DEF recycle_data_pages, FreedList, IsFreed
<1> HIDE DEF n, e, d, F, fs, ts
<1>8. d.space[o].areas = A /\ d.fa = F /\ d.mem = m.mem /\ d.space = m.space
      /\ d = [fa |-> d.fa, mem |-> d.mem, space |-> d.space]
  BY <1>4
<1>9. e = [frame_dealloc(d, fs) EXCEPT !.space[o].areas = <<>>]
  BY <1>7, <1>8, Zenon DEF fs
<1>10. n = [fa |-> DeallocAll(F, fs), mem |-> m.mem, space |-> [m.space EXCEPT ![o] = Absent]]
  <2> DEFINE c == frame_dealloc(d, fs)  G == DeallocAll(F, fs)
  <2>1. c = [fa |-> G, mem |-> m.mem, space |-> m.space]
    BY <1>8, FreeIs, Zenon
  <2> HIDE DEF c, G
  <2>2. e = [c EXCEPT !.space[o].areas = <<>>]
    BY <1>9, Zenon DEF c
  <2> DEFINE x == [m.space[o] EXCEPT !.areas = <<>>]
  <2>3. e = [fa |-> G, mem |-> m.mem, space |-> [m.space EXCEPT ![o] = x]]
    BY <2>1, <2>2
  <2> HIDE DEF x
  <2>4. n = [fa |-> G, mem |-> m.mem, space |-> [[m.space EXCEPT ![o] = x] EXCEPT ![o] = Absent]]
    BY <1>6, <2>3
  <2>5. [[m.space EXCEPT ![o] = x] EXCEPT ![o] = Absent] = [m.space EXCEPT ![o] = Absent]
    OBVIOUS
  <2> QED BY <2>4, <2>5, Zenon DEF G
<1>11. TablesOK(<<>>) /\ TableFrames(<<>>) = {}
  BY DEF TablesOK, TableFrames
<1>12. SpaceOK(mid) /\ SpaceFrames(mid) = AreasFrames(A)
  <2>1. TableFrames(<<>>) \cap AreasFrames(A) = {}
    BY <1>11
  <2>2. SpaceOK(mid) /\ SpaceFrames(mid) = TableFrames(<<>>) \cup AreasFrames(A)
    BY <1>1, <1>11, <2>1, SetParts
  <2> QED BY Zenon, <1>11, <2>2
<1>13. Complete(mid)
  <2>1. mid.areas = A
    OBVIOUS
  <2> HIDE DEF mid, A
  <2> QED BY <1>1, <2>1, Zenon DEF Complete
<1> HIDE DEF mid
<1>14. Leaves(sp, mid, ts)
  <2>1. Range(ts) \cap SpaceFrames(mid) = {}
    BY <1>1, <1>3, <1>12
  <2>2. Range(ts) \cup SpaceFrames(mid) = SpaceFrames(sp)
    BY <1>3, <1>12, Zenon DEF SpaceFrames
  <2> QED BY <1>3, <1>12, <1>13, <2>1, <2>2, Zenon DEF Leaves
<1>15. Kept(m, k, o) /\ k.space[o] = mid
  <2>1. Returns(m, k, o, mid, ts)
    BY Zenon DEF Returns, F
  <2> HIDE DEF k
  <2> QED BY <1>14, <2>1, GiveBack, Zenon
<1>16. Leaves(mid, Absent, fs)
  <2>1. Range(fs) \cap SpaceFrames(Absent) = {} /\ Range(fs) \cup SpaceFrames(Absent) = SpaceFrames(mid)
    BY <1>5, <1>12, AbsentFrames
  <2> QED BY <1>5, <2>1, AbsentFrames, Zenon DEF Leaves
<1>17. Returns(k, n, o, Absent, fs)
  <2>1. k.fa = F /\ k.mem = m.mem /\ k.space = [m.space EXCEPT ![o] = mid]
    OBVIOUS
  <2>2. [[m.space EXCEPT ![o] = mid] EXCEPT ![o] = Absent] = [m.space EXCEPT ![o] = Absent]
    OBVIOUS
  <2> HIDE DEF k
  <2> QED BY <1>10, <2>1, <2>2, Zenon DEF Returns
<1> HIDE DEF k
<1>18. Whole(k) /\ o \in DOMAIN k.space /\ DOMAIN k.space = DOMAIN m.space
       /\ \A q \in DOMAIN m.space \ {o} : k.space[q] = m.space[q]
  BY <1>15, Zenon DEF Kept, Only
<1>19. Kept(k, n, o) /\ n.space[o] = Absent
  <2>1. Leaves(k.space[o], Absent, fs)
    BY <1>15, <1>16, Zenon
  <2>2. Whole(k) /\ o \in DOMAIN k.space
    BY <1>18, Zenon
  <2> QED BY <1>17, <2>1, <2>2, GiveBack
<1>20. Kept(m, n, o)
  BY <1>18, <1>19, Zenon DEF Kept, Only
<1> QED BY <1>19, <1>20, Zenon DEF n

-----------------------------------------------------------------------------
\* The operations of tasks and processes on their address spaces.

(* Two operations on one address space.                                     *)
LEMMA KeptTwice ==
  ASSUME NEW m, NEW k, NEW n, NEW o, Kept(m, k, o), Kept(k, n, o)
  PROVE  Kept(m, n, o)
BY Zenon DEF Kept, Only

\* Only what the frames hold differs.
Contents(m, n) == n = [fa |-> m.fa, mem |-> n.mem, space |-> m.space]

(* What a frame holds does not matter.                                      *)
LEMMA ContentsKept ==
  ASSUME NEW m, Whole(m), NEW n, Contents(m, n)
  PROVE  Whole(n) /\ n.space = m.space
<1>1. /\ n.fa = m.fa /\ n.space = m.space
      /\ n = [fa |-> n.fa, mem |-> n.mem, space |-> n.space]
  BY DEF Contents
<1> DEFINE s == m.space
<1>2. MemOK(m, {}) /\ \A o \in DOMAIN s : Complete(s[o])
  BY Zenon DEF Whole
<1>3. /\ s = [o \in DOMAIN s |-> s[o]] /\ AllocOK(m.fa)
      /\ \A o \in DOMAIN s : SpaceOK(s[o])
      /\ \A o, q \in DOMAIN s : o # q => SpaceFrames(s[o]) \cap SpaceFrames(s[q]) = {}
      /\ \A o \in DOMAIN s : SpaceFrames(s[o]) \cap {} = {}
      /\ InUse(m.fa) = {} \cup UNION {SpaceFrames(s[o]) : o \in DOMAIN s}
  BY <1>2, Zenon DEF MemOK
<1>4. n.space = s
  BY <1>1
<1> HIDE DEF s
<1>5. MemOK(n, {})
  BY <1>1, <1>3, <1>4 DEF MemOK
<1> QED BY <1>1, <1>2, <1>4, <1>5, Zenon DEF Whole

(* trap_cx.kernel_sp is set.                                                *)
LEMMA SetKernelSpKeeps ==
  ASSUME NEW m, Whole(m), NEW ppn, NEW t
  PROVE  Whole(SetKernelSp(m, ppn, t)) /\ SetKernelSp(m, ppn, t).space = m.space
<1> DEFINE x == [m.mem EXCEPT ![ppn] = t + 1]  n == SetKernelSp(m, ppn, t)
<1>1. m = [fa |-> m.fa, mem |-> m.mem, space |-> m.space]
  BY Zenon DEF Whole, MemOK
<1>2. n = [fa |-> m.fa, mem |-> x, space |-> m.space]
  <2>1. n = [m EXCEPT !.mem = x]
    BY DEF SetKernelSp
  <2> HIDE DEF n, x
  <2> QED BY <1>1, <2>1
<1> HIDE DEF n, x
<1>3. Contents(m, n)
  BY <1>2 DEF Contents
<1> QED BY <1>3, ContentsKept, Zenon DEF n

(* from_elf: an address space where there was none.                         *)
LEMMA FromElfKeeps ==
  ASSUME NEW m, Whole(m), NEW o \in DOMAIN m.space, m.space[o] = Absent, NEW pages \in Nat
  PROVE  Kept(m, from_elf(m, o, pages), o)
<1> DEFINE a == new_bare(m, o)  b == map_trampoline(a, o)  n == from_elf(m, o, pages)
<1>1. Kept(m, a, o)
  BY NewBare, Zenon
<1> HIDE DEF a
<1>2. Whole(a) /\ o \in DOMAIN a.space
  BY <1>1, Zenon DEF Kept, Only
<1>3. Kept(a, b, o)
  BY <1>2, TrampolineKeeps, Zenon
<1>4. n = insert_framed_area(b, o, 1, 1 + pages)
  BY Zenon DEF from_elf, a
<1> HIDE DEF b, n
<1>5. Whole(b) /\ o \in DOMAIN b.space
  BY <1>2, <1>3, Zenon DEF Kept, Only
<1>6. 1 \in Int /\ 1 + pages \in Int /\ 1 <= 1 + pages
  OBVIOUS
<1>7. Kept(b, n, o)
  BY <1>4, <1>5, <1>6, InsertFramedArea, Zenon
<1> QED BY <1>1, <1>3, <1>7, KeptTwice, Zenon DEF n

(* TaskUserRes::alloc_user_res.                                             *)
LEMMA AllocResKeeps ==
  ASSUME NEW m, Whole(m), NEW p \in DOMAIN m.space, NEW base \in Int, NEW tid \in Nat
  PROVE  Kept(m, alloc_user_res(m, p, base, tid), p)
<1> DEFINE bottom == ustack_bottom_from_tid(base, tid)
           trap_cx == trap_cx_bottom_from_tid(tid)
           k == insert_framed_area(m, p, bottom, bottom + USER_STACK_SIZE)
           n == insert_framed_area(k, p, trap_cx, trap_cx + 1)
<1>1. /\ bottom \in Int /\ bottom + USER_STACK_SIZE \in Int /\ bottom <= bottom + USER_STACK_SIZE
      /\ trap_cx \in Int /\ trap_cx + 1 \in Int /\ trap_cx <= trap_cx + 1
  BY ProcessesAssumption
     DEF ustack_bottom_from_tid, trap_cx_bottom_from_tid, USER_STACK_SIZE, TRAP_CONTEXT_BASE
<1>2. alloc_user_res(m, p, base, tid) = n
  BY Zenon DEF alloc_user_res
<1> HIDE DEF bottom, trap_cx
<1>3. Kept(m, k, p)
  BY <1>1, InsertFramedArea, Zenon
<1> HIDE DEF k
<1>4. Whole(k) /\ p \in DOMAIN k.space
  BY <1>3, Zenon DEF Kept, Only
<1>5. Kept(k, n, p)
  BY <1>1, <1>4, InsertFramedArea, Zenon
<1> HIDE DEF n
<1> QED BY <1>2, <1>3, <1>5, KeptTwice, Zenon

(* TaskUserRes::dealloc_user_res.                                           *)
LEMMA DeallocResKeeps ==
  ASSUME NEW m, Whole(m), NEW p \in DOMAIN m.space, NEW base, NEW tid
  PROVE  Kept(m, dealloc_user_res(m, p, base, tid), p)
<1> DEFINE k == remove_area_with_start_vpn(m, p, ustack_bottom_from_tid(base, tid))
           n == remove_area_with_start_vpn(k, p, trap_cx_bottom_from_tid(tid))
<1>1. dealloc_user_res(m, p, base, tid) = n
  BY Zenon DEF dealloc_user_res
<1>2. Kept(m, k, p)
  BY RemoveKeeps, Zenon
<1> HIDE DEF k
<1>3. Whole(k) /\ p \in DOMAIN k.space
  BY <1>2, Zenon DEF Kept, Only
<1>4. Kept(k, n, p)
  BY <1>3, RemoveKeeps, Zenon
<1> HIDE DEF n
<1> QED BY <1>1, <1>2, <1>4, KeptTwice, Zenon

(* kstack_alloc and the drop of a KernelStack.                              *)
LEMMA KernelStackKeeps ==
  ASSUME NEW m, Whole(m), Kernel \in DOMAIN m.space, NEW id
  PROVE  /\ id \in Nat => Kept(m, kstack_alloc(m, id), Kernel)
         /\ Kept(m, kstack_drop(m, id), Kernel)
<1>1. ASSUME id \in Nat PROVE Kept(m, kstack_alloc(m, id), Kernel)
  <2> DEFINE bottom == kernel_stack_bottom(id)
  <2>1. /\ bottom \in Int /\ bottom + KERNEL_STACK_SIZE \in Int
        /\ bottom <= bottom + KERNEL_STACK_SIZE
    BY <1>1, ProcessesAssumption DEF kernel_stack_bottom, KERNEL_STACK_SIZE
  <2> HIDE DEF bottom
  <2>2. Kept(m, insert_framed_area(m, Kernel, bottom, bottom + KERNEL_STACK_SIZE), Kernel)
    BY <2>1, InsertFramedArea, Zenon
  <2> QED BY <2>2, Zenon DEF kstack_alloc, bottom
<1>2. Kept(m, kstack_drop(m, id), Kernel)
  BY RemoveKeeps, Zenon DEF kstack_drop
<1> QED BY <1>1, <1>2

(* A new area like one of another address space.                            *)
LEMMA CopyAreaKeeps ==
  ASSUME NEW m, Whole(m), NEW o \in DOMAIN m.space, NEW user, NEW area \in MapArea,
         area.start <= area.end
  PROVE  Kept(m, CopyArea(m, o, user, area), o)
<1> DEFINE k == insert_framed_area(m, o, area.start, area.end)  n == CopyArea(m, o, user, area)
<1>1. area.start \in Int /\ area.end \in Int
  BY DEF MapArea
<1>2. Kept(m, k, o)
  BY <1>1, InsertFramedArea, Zenon
<1>3. \E x : n = [k EXCEPT !.mem = x]
  BY Zenon DEF CopyArea
<1> HIDE DEF k, n
<1>4. PICK x : n = [k EXCEPT !.mem = x]
  BY <1>3
<1>5. k = [fa |-> k.fa, mem |-> k.mem, space |-> k.space]
  BY <1>2, Zenon DEF Kept, Whole, MemOK
<1>6. n = [fa |-> k.fa, mem |-> x, space |-> k.space]
  BY <1>4, <1>5
<1>7. Whole(n) /\ n.space = k.space
  <2>1. Whole(k)
    BY <1>2, Zenon DEF Kept
  <2>2. Contents(k, n)
    BY <1>6 DEF Contents
  <2> QED BY <2>1, <2>2, ContentsKept, Zenon
<1> QED BY <1>2, <1>7, Zenon DEF Kept, Only, n

\* The states that the loop of from_existed_user goes through, from z on.
IsPushed(f, z, o, user, A) ==
  f = [i \in 0..Len(A) |-> IF i = 0 THEN z ELSE CopyArea(f[i - 1], o, user, A[i])]

(* There are such states.                                                   *)
LEMMA PushedExists ==
  ASSUME NEW z, NEW o, NEW user, NEW T, NEW A \in Seq(T)
  PROVE  \E f : IsPushed(f, z, o, user, A)
<1> DEFINE Val(f, i) == IF i = 0 THEN z ELSE CopyArea(f[i - 1], o, user, A[i])
           Bad == {n \in Nat : n <= Len(A) /\ ~\E f : f = [i \in 0..n |-> Val(f, i)]}
<1>1. Bad = {}
  <2> SUFFICES ASSUME Bad # {} PROVE FALSE
    OBVIOUS
  <2>1. PICK n \in Bad : \A j \in Bad : ~(<<j, n>> \in OpToRel(<, Nat))
    <3>1. Bad \subseteq Nat
      OBVIOUS
    <3> HIDE DEF Bad
    <3> QED BY Zenon, <3>1, NatLessThanWellFounded, WFMin
  <2>2. n \in Nat /\ n <= Len(A) /\ ~\E f : f = [i \in 0..n |-> Val(f, i)]
    OBVIOUS
  <2>3. \A j \in Bad : ~(j < n)
    BY Zenon, <2>1 DEF OpToRel
  <2>4. CASE n = 0
    <3> DEFINE g == [i \in 0..0 |-> z]
    <3>1. g = [i \in 0..0 |-> Val(g, i)]
      <4>1. \A i \in 0..0 : Val(g, i) = z
        OBVIOUS
      <4> QED BY <4>1
    <3> QED BY Zenon, <2>2, <2>4, <3>1
  <2>5. CASE n # 0
    <3>1. n - 1 \in Nat /\ n - 1 <= Len(A) /\ n - 1 < n
      BY <2>2, <2>5
    <3>2. n - 1 \notin Bad
      BY Zenon, <2>3, <3>1
    <3>3. PICK f : f = [i \in 0..(n - 1) |-> Val(f, i)]
      <4> HIDE DEF Val
      <4> QED BY SMTT(20), <3>1, <3>2
    <3> DEFINE g == [i \in 0..n |-> IF i = n THEN Val(f, n) ELSE f[i]]
    <3>4. \A i \in 0..n : g[i] = Val(g, i)
      <4> SUFFICES ASSUME NEW i \in 0..n PROVE g[i] = Val(g, i)
        BY Zenon
      <4>1. i # 0 => g[i - 1] = f[i - 1]
        <5> HIDE DEF Val
        <5> QED BY <2>2, <2>5
      <4>2. Val(g, i) = Val(f, i)
        <5> HIDE DEF g
        <5> QED BY <4>1, Zenon
      <4>3. i # n => f[i] = Val(f, i)
        <5>1. i # n => i \in 0..(n - 1)
          BY <2>2
        <5> HIDE DEF Val
        <5> QED BY <3>3, <5>1
      <4> HIDE DEF Val
      <4> QED BY <4>2, <4>3
    <3>5. g = [i \in 0..n |-> Val(g, i)]
      <4>1. g = [i \in 0..n |-> g[i]]
        <5> HIDE DEF Val
        <5> QED OBVIOUS
      <4> HIDE DEF g, Val
      <4> QED BY <3>4, <4>1
    <3> QED BY Zenon, <2>2, <3>5
  <2> QED BY <2>4, <2>5
<1>2. Len(A) \notin Bad
  BY <1>1
<1>3. \E f : f = [i \in 0..Len(A) |-> Val(f, i)]
  <2> HIDE DEF Val
  <2> QED BY <1>2
<1> QED BY <1>3, Zenon DEF IsPushed

(* MemorySet::from_existed_user.                                            *)
LEMMA FromExistedKeeps ==
  ASSUME NEW m, Whole(m), NEW o \in DOMAIN m.space, m.space[o] = Absent,
         NEW user \in DOMAIN m.space
  PROVE  Kept(m, from_existed_user(m, o, user), o)
<1> DEFINE A == m.space[user].areas
<1>a. AreasOK(A) /\ \A i \in DOMAIN A : A[i].start <= A[i].end
  BY SpaceParts, Zenon
<1>b. A \in Seq(MapArea)
  BY <1>a, Zenon DEF AreasOK
<1> DEFINE b == new_bare(m, o)  z == map_trampoline(b, o)
           N == Len(A)
           Val(f, i) == IF i = 0 THEN z ELSE CopyArea(f[i - 1], o, user, A[i])
           F == CHOOSE f : IsPushed(f, z, o, user, A)
           Good(i) == Kept(m, F[i], o)
           Bad == {i \in Nat : i <= N /\ ~Good(i)}
           n == from_existed_user(m, o, user)
<1>0. N \in Nat /\ DOMAIN A = 1..N
  BY <1>b
<1>1. n = F[N]
  BY DEF from_existed_user, IsPushed
<1>3. F = [i \in 0..N |-> Val(F, i)]
  <2>1. \E f : IsPushed(f, z, o, user, A)
    BY <1>b, PushedExists, Zenon
  <2>2. IsPushed(F, z, o, user, A)
    BY <2>1, Zenon
  <2> HIDE DEF F
  <2> QED BY <2>2, Zenon DEF IsPushed
<1>4. \A i \in 0..N : F[i] = Val(F, i)
  <2> HIDE DEF F, Val
  <2> QED BY <1>3
<1> HIDE DEF F, n, N
<1>5a. Kept(m, z, o)
  <2>1. Kept(m, b, o)
    BY NewBare, Zenon
  <2> HIDE DEF b
  <2>2. Whole(b) /\ o \in DOMAIN b.space
    BY <2>1, Zenon DEF Kept, Only
  <2>3. Kept(b, z, o)
    BY <2>2, TrampolineKeeps, Zenon
  <2> HIDE DEF z
  <2> QED BY <2>1, <2>3, KeptTwice, Zenon
<1> HIDE DEF z, A
<1>5. Good(0)
  <2>1. F[0] = z
    BY <1>0, <1>4
  <2> QED BY <1>5a, <2>1, Zenon
<1>7. ASSUME NEW i \in Nat, i < N, Good(i) PROVE Good(i + 1)
  <2>0. i + 1 \in 0..N /\ i + 1 # 0 /\ (i + 1) - 1 = i /\ i + 1 \in 1..N
    BY <1>0, <1>7
  <2>1. F[i + 1] = CopyArea(F[(i + 1) - 1], o, user, A[i + 1])
    BY <1>4, <2>0, Zenon
  <2>2. F[i + 1] = CopyArea(F[i], o, user, A[i + 1])
    BY <2>0, <2>1, Zenon
  <2>3. A[i + 1] \in MapArea /\ A[i + 1].start <= A[i + 1].end
    BY <1>0, <1>a, <1>b, <2>0
  <2>4. Whole(F[i]) /\ o \in DOMAIN F[i].space
    BY <1>7, Zenon DEF Kept, Only
  <2>5. Kept(F[i], F[i + 1], o)
    BY <2>2, <2>3, <2>4, CopyAreaKeeps, Zenon
  <2> QED BY <1>7, <2>5, KeptTwice, Zenon
<1>8. Bad = {}
  <2> SUFFICES ASSUME Bad # {} PROVE FALSE
    OBVIOUS
  <2> HIDE DEF Good
  <2>1. PICK i \in Bad : \A j \in Bad : ~(<<j, i>> \in OpToRel(<, Nat))
    <3>1. Bad \subseteq Nat
      OBVIOUS
    <3> HIDE DEF Bad
    <3> QED BY Zenon, <3>1, NatLessThanWellFounded, WFMin
  <2>2. \A j \in Bad : ~(j < i)
    BY Zenon, <2>1 DEF OpToRel
  <2>3. i \in Nat /\ i <= N /\ ~Good(i)
    OBVIOUS
  <2>4. i # 0
    BY <1>5, <2>3
  <2>5. i - 1 \in Nat /\ i - 1 < N /\ i - 1 <= N /\ i - 1 < i /\ (i - 1) + 1 = i
    BY <1>0, <2>3, <2>4
  <2>6. i - 1 \notin Bad
    BY <2>2, <2>5, Zenon
  <2>7. Good(i - 1)
    BY <2>5, <2>6, Zenon
  <2>8. Good((i - 1) + 1)
    BY <1>7, <2>5, <2>7, Zenon
  <2> QED BY <2>3, <2>5, <2>8
<1>9. Good(N)
  <2> HIDE DEF Good
  <2> QED BY <1>0, <1>8
<1> QED BY <1>1, <1>9, Zenon DEF n

\* The drops of the kernel stacks ts, one after the other.
IsDropped(f, z, ts) ==
  f = [i \in 0..Len(ts) |-> IF i = 0 THEN z ELSE kstack_drop(f[i - 1], ts[i])]

(* There are such states.                                                   *)
LEMMA DroppedExists ==
  ASSUME NEW z, NEW T, NEW ts \in Seq(T)
  PROVE  \E f : IsDropped(f, z, ts)
<1> DEFINE Val(f, i) == IF i = 0 THEN z ELSE kstack_drop(f[i - 1], ts[i])
           Bad == {n \in Nat : n <= Len(ts) /\ ~\E f : f = [i \in 0..n |-> Val(f, i)]}
<1>1. Bad = {}
  <2> SUFFICES ASSUME Bad # {} PROVE FALSE
    OBVIOUS
  <2>1. PICK n \in Bad : \A j \in Bad : ~(<<j, n>> \in OpToRel(<, Nat))
    <3>1. Bad \subseteq Nat
      OBVIOUS
    <3> HIDE DEF Bad
    <3> QED BY Zenon, <3>1, NatLessThanWellFounded, WFMin
  <2>2. n \in Nat /\ n <= Len(ts) /\ ~\E f : f = [i \in 0..n |-> Val(f, i)]
    OBVIOUS
  <2>3. \A j \in Bad : ~(j < n)
    BY Zenon, <2>1 DEF OpToRel
  <2>4. CASE n = 0
    <3> DEFINE g == [i \in 0..0 |-> z]
    <3>1. g = [i \in 0..0 |-> Val(g, i)]
      <4>1. \A i \in 0..0 : Val(g, i) = z
        OBVIOUS
      <4> QED BY <4>1
    <3> QED BY Zenon, <2>2, <2>4, <3>1
  <2>5. CASE n # 0
    <3>1. n - 1 \in Nat /\ n - 1 <= Len(ts) /\ n - 1 < n
      BY <2>2, <2>5
    <3>2. n - 1 \notin Bad
      BY Zenon, <2>3, <3>1
    <3>3. PICK f : f = [i \in 0..(n - 1) |-> Val(f, i)]
      <4> HIDE DEF Val
      <4> QED BY SMTT(20), <3>1, <3>2
    <3> DEFINE g == [i \in 0..n |-> IF i = n THEN Val(f, n) ELSE f[i]]
    <3>4. \A i \in 0..n : g[i] = Val(g, i)
      <4> SUFFICES ASSUME NEW i \in 0..n PROVE g[i] = Val(g, i)
        BY Zenon
      <4>1. i # 0 => g[i - 1] = f[i - 1]
        <5> HIDE DEF Val
        <5> QED BY <2>2, <2>5
      <4>2. Val(g, i) = Val(f, i)
        <5> HIDE DEF g
        <5> QED BY <4>1, Zenon
      <4>3. i # n => f[i] = Val(f, i)
        <5>1. i # n => i \in 0..(n - 1)
          BY <2>2
        <5> HIDE DEF Val
        <5> QED BY <3>3, <5>1
      <4> HIDE DEF Val
      <4> QED BY <4>2, <4>3
    <3>5. g = [i \in 0..n |-> Val(g, i)]
      <4>1. g = [i \in 0..n |-> g[i]]
        <5> HIDE DEF Val
        <5> QED OBVIOUS
      <4> HIDE DEF g, Val
      <4> QED BY <3>4, <4>1
    <3> QED BY Zenon, <2>2, <3>5
  <2> QED BY <2>4, <2>5
<1>2. Len(ts) \notin Bad
  BY <1>1
<1>3. \E f : f = [i \in 0..Len(ts) |-> Val(f, i)]
  <2> HIDE DEF Val
  <2> QED BY <1>2
<1> QED BY <1>3, Zenon DEF IsDropped

(* The drop of TCBs.                                                        *)
LEMMA DropTasksKeeps ==
  ASSUME NEW m, Whole(m), Kernel \in DOMAIN m.space, NEW T, NEW ts \in Seq(T)
  PROVE  Kept(m, DropTasks(m, ts), Kernel)
<1> DEFINE N == Len(ts)
           Val(f, i) == IF i = 0 THEN m ELSE kstack_drop(f[i - 1], ts[i])
           F == CHOOSE f : IsDropped(f, m, ts)
           Good(i) == Kept(m, F[i], Kernel)
           Bad == {i \in Nat : i <= N /\ ~Good(i)}
           n == DropTasks(m, ts)
<1>0. N \in Nat /\ DOMAIN ts = 1..N
  OBVIOUS
<1>1. n = F[N]
  BY DEF DropTasks, IsDropped
<1>3. F = [i \in 0..N |-> Val(F, i)]
  <2>1. \E f : IsDropped(f, m, ts)
    BY DroppedExists, Zenon
  <2>2. IsDropped(F, m, ts)
    BY <2>1, Zenon
  <2> HIDE DEF F
  <2> QED BY <2>2, Zenon DEF IsDropped
<1>4. \A i \in 0..N : F[i] = Val(F, i)
  <2> HIDE DEF F, Val
  <2> QED BY <1>3
<1> HIDE DEF F, n, N
<1>5a. Kept(m, m, Kernel)
  BY Zenon DEF Kept, Only
<1>5. Good(0)
  <2>1. F[0] = m
    BY <1>0, <1>4
  <2> QED BY <1>5a, <2>1, Zenon
<1>7. ASSUME NEW i \in Nat, i < N, Good(i) PROVE Good(i + 1)
  <2>0. i + 1 \in 0..N /\ i + 1 # 0 /\ (i + 1) - 1 = i /\ i + 1 \in 1..N
    BY <1>0, <1>7
  <2>1. F[i + 1] = kstack_drop(F[(i + 1) - 1], ts[i + 1])
    BY <1>4, <2>0, Zenon
  <2>2. F[i + 1] = kstack_drop(F[i], ts[i + 1])
    BY <2>0, <2>1, Zenon
  <2>4. Whole(F[i]) /\ Kernel \in DOMAIN F[i].space
    BY <1>7, Zenon DEF Kept, Only
  <2>5. Kept(F[i], F[i + 1], Kernel)
    BY <2>2, <2>4, KernelStackKeeps, Zenon
  <2> QED BY <1>7, <2>5, KeptTwice, Zenon
<1>8. Bad = {}
  <2> SUFFICES ASSUME Bad # {} PROVE FALSE
    OBVIOUS
  <2> HIDE DEF Good
  <2>1. PICK i \in Bad : \A j \in Bad : ~(<<j, i>> \in OpToRel(<, Nat))
    <3>1. Bad \subseteq Nat
      OBVIOUS
    <3> HIDE DEF Bad
    <3> QED BY Zenon, <3>1, NatLessThanWellFounded, WFMin
  <2>2. \A j \in Bad : ~(j < i)
    BY Zenon, <2>1 DEF OpToRel
  <2>3. i \in Nat /\ i <= N /\ ~Good(i)
    OBVIOUS
  <2>4. i # 0
    BY <1>5, <2>3
  <2>5. i - 1 \in Nat /\ i - 1 < N /\ i - 1 <= N /\ i - 1 < i /\ (i - 1) + 1 = i
    BY <1>0, <2>3, <2>4
  <2>6. i - 1 \notin Bad
    BY <2>2, <2>5, Zenon
  <2>7. Good(i - 1)
    BY <2>5, <2>6, Zenon
  <2>8. Good((i - 1) + 1)
    BY <1>7, <2>5, <2>7, Zenon
  <2> QED BY <2>3, <2>5, <2>8
<1>9. Good(N)
  <2> HIDE DEF Good
  <2> QED BY <1>0, <1>8
<1> QED BY <1>1, <1>9, Zenon DEF n

\* The drops of the TaskUserRes of the threads ts, one after the other.
IsResDropped(f, z, p, ts) ==
  f = [i \in 0..Len(ts) |-> IF i = 0 THEN z ELSE dealloc_user_res(f[i - 1], p, tcb[ts[i]].ustack_base, tcb[ts[i]].tid)]

(* There are such states.                                                   *)
LEMMA ResExists ==
  ASSUME NEW z, NEW p, NEW T, NEW ts \in Seq(T)
  PROVE  \E f : IsResDropped(f, z, p, ts)
<1> DEFINE Val(f, i) == IF i = 0 THEN z ELSE dealloc_user_res(f[i - 1], p, tcb[ts[i]].ustack_base, tcb[ts[i]].tid)
           Bad == {n \in Nat : n <= Len(ts) /\ ~\E f : f = [i \in 0..n |-> Val(f, i)]}
<1>1. Bad = {}
  <2> SUFFICES ASSUME Bad # {} PROVE FALSE
    OBVIOUS
  <2>1. PICK n \in Bad : \A j \in Bad : ~(<<j, n>> \in OpToRel(<, Nat))
    <3>1. Bad \subseteq Nat
      OBVIOUS
    <3> HIDE DEF Bad
    <3> QED BY Zenon, <3>1, NatLessThanWellFounded, WFMin
  <2>2. n \in Nat /\ n <= Len(ts) /\ ~\E f : f = [i \in 0..n |-> Val(f, i)]
    OBVIOUS
  <2>3. \A j \in Bad : ~(j < n)
    BY Zenon, <2>1 DEF OpToRel
  <2>4. CASE n = 0
    <3> DEFINE g == [i \in 0..0 |-> z]
    <3>1. g = [i \in 0..0 |-> Val(g, i)]
      <4>1. \A i \in 0..0 : Val(g, i) = z
        OBVIOUS
      <4> QED BY <4>1
    <3> QED BY Zenon, <2>2, <2>4, <3>1
  <2>5. CASE n # 0
    <3>1. n - 1 \in Nat /\ n - 1 <= Len(ts) /\ n - 1 < n
      BY <2>2, <2>5
    <3>2. n - 1 \notin Bad
      BY Zenon, <2>3, <3>1
    <3>3. PICK f : f = [i \in 0..(n - 1) |-> Val(f, i)]
      <4> HIDE DEF Val
      <4> QED BY SMTT(20), <3>1, <3>2
    <3> DEFINE g == [i \in 0..n |-> IF i = n THEN Val(f, n) ELSE f[i]]
    <3>4. \A i \in 0..n : g[i] = Val(g, i)
      <4> SUFFICES ASSUME NEW i \in 0..n PROVE g[i] = Val(g, i)
        BY Zenon
      <4>1. i # 0 => g[i - 1] = f[i - 1]
        <5> HIDE DEF Val
        <5> QED BY <2>2, <2>5
      <4>2. Val(g, i) = Val(f, i)
        <5> HIDE DEF g
        <5> QED BY <4>1, Zenon
      <4>3. i # n => f[i] = Val(f, i)
        <5>1. i # n => i \in 0..(n - 1)
          BY <2>2
        <5> HIDE DEF Val
        <5> QED BY <3>3, <5>1
      <4> HIDE DEF Val
      <4> QED BY <4>2, <4>3
    <3>5. g = [i \in 0..n |-> Val(g, i)]
      <4>1. g = [i \in 0..n |-> g[i]]
        <5> HIDE DEF Val
        <5> QED OBVIOUS
      <4> HIDE DEF g, Val
      <4> QED BY <3>4, <4>1
    <3> QED BY Zenon, <2>2, <3>5
  <2> QED BY <2>4, <2>5
<1>2. Len(ts) \notin Bad
  BY <1>1
<1>3. \E f : f = [i \in 0..Len(ts) |-> Val(f, i)]
  <2> HIDE DEF Val
  <2> QED BY <1>2
<1> QED BY <1>3, Zenon DEF IsResDropped

(* The drop of the TaskUserRes of threads of p.                             *)
LEMMA DropResKeeps ==
  ASSUME NEW m, Whole(m), NEW p \in DOMAIN m.space, NEW T, NEW ts \in Seq(T)
  PROVE  Kept(m, DropRes(m, p, ts), p)
<1> DEFINE N == Len(ts)
           Val(f, i) == IF i = 0 THEN m ELSE dealloc_user_res(f[i - 1], p, tcb[ts[i]].ustack_base, tcb[ts[i]].tid)
           F == CHOOSE f : IsResDropped(f, m, p, ts)
           Good(i) == Kept(m, F[i], p)
           Bad == {i \in Nat : i <= N /\ ~Good(i)}
           n == DropRes(m, p, ts)
<1>0. N \in Nat /\ DOMAIN ts = 1..N
  OBVIOUS
<1>1. n = F[N]
  BY DEF DropRes, IsResDropped
<1>3. F = [i \in 0..N |-> Val(F, i)]
  <2>1. \E f : IsResDropped(f, m, p, ts)
    BY ResExists, Zenon
  <2>2. IsResDropped(F, m, p, ts)
    BY <2>1, Zenon
  <2> HIDE DEF F
  <2> QED BY <2>2, Zenon DEF IsResDropped
<1>4. \A i \in 0..N : F[i] = Val(F, i)
  <2> HIDE DEF F, Val
  <2> QED BY <1>3
<1> HIDE DEF F, n, N
<1>5a. Kept(m, m, p)
  BY Zenon DEF Kept, Only
<1>5. Good(0)
  <2>1. F[0] = m
    BY <1>0, <1>4
  <2> QED BY <1>5a, <2>1, Zenon
<1>7. ASSUME NEW i \in Nat, i < N, Good(i) PROVE Good(i + 1)
  <2>0. i + 1 \in 0..N /\ i + 1 # 0 /\ (i + 1) - 1 = i /\ i + 1 \in 1..N
    BY <1>0, <1>7
  <2>1. F[i + 1] = dealloc_user_res(F[(i + 1) - 1], p, tcb[ts[i + 1]].ustack_base, tcb[ts[i + 1]].tid)
    BY <1>4, <2>0, Zenon
  <2>2. F[i + 1] = dealloc_user_res(F[i], p, tcb[ts[i + 1]].ustack_base, tcb[ts[i + 1]].tid)
    BY <2>0, <2>1, Zenon
  <2>4. Whole(F[i]) /\ p \in DOMAIN F[i].space
    BY <1>7, Zenon DEF Kept, Only
  <2>5. Kept(F[i], F[i + 1], p)
    BY <2>2, <2>4, DeallocResKeeps, Zenon
  <2> QED BY <1>7, <2>5, KeptTwice, Zenon
<1>8. Bad = {}
  <2> SUFFICES ASSUME Bad # {} PROVE FALSE
    OBVIOUS
  <2> HIDE DEF Good
  <2>1. PICK i \in Bad : \A j \in Bad : ~(<<j, i>> \in OpToRel(<, Nat))
    <3>1. Bad \subseteq Nat
      OBVIOUS
    <3> HIDE DEF Bad
    <3> QED BY Zenon, <3>1, NatLessThanWellFounded, WFMin
  <2>2. \A j \in Bad : ~(j < i)
    BY Zenon, <2>1 DEF OpToRel
  <2>3. i \in Nat /\ i <= N /\ ~Good(i)
    OBVIOUS
  <2>4. i # 0
    BY <1>5, <2>3
  <2>5. i - 1 \in Nat /\ i - 1 < N /\ i - 1 <= N /\ i - 1 < i /\ (i - 1) + 1 = i
    BY <1>0, <2>3, <2>4
  <2>6. i - 1 \notin Bad
    BY <2>2, <2>5, Zenon
  <2>7. Good(i - 1)
    BY <2>5, <2>6, Zenon
  <2>8. Good((i - 1) + 1)
    BY <1>7, <2>5, <2>7, Zenon
  <2> QED BY <2>3, <2>5, <2>8
<1>9. Good(N)
  <2> HIDE DEF Good
  <2> QED BY <1>0, <1>8
<1> QED BY <1>1, <1>9, Zenon DEF n

-----------------------------------------------------------------------------
\* The address spaces of the kernel, of the processes, and of exec.

\* In m the processes P have address spaces, and only they and the kernel.
Spaces(m, P) ==
  /\ Whole(m) /\ DOMAIN m.space = {Kernel, Fresh} \cup 0..(MaxPid - 1)
  /\ m.space[Fresh] = Absent
  /\ P \subseteq 0..(MaxPid - 1)
  /\ \A p \in (0..(MaxPid - 1)) \ P : m.space[p] = Absent

\* The user stacks of the threads of f have a place.
Bases(f) == \A t \in DOMAIN f : f[t].ustack_base \in Int

\* The inductive invariant of the memory, on top of ProcInv.
MemInv == Spaces(mm, DOMAIN pcb) /\ Bases(tcb)

(* No process, the kernel and the MemorySet of exec have different names.   *)
LEMMA SpaceNames ==
  /\ Kernel # Fresh /\ Kernel \notin 0..(MaxPid - 1) /\ Fresh \notin 0..(MaxPid - 1)
BY ProcessesAssumption DEF Kernel, Fresh

(* An operation on the address space of the kernel or of a process.         *)
LEMMA SpacesKept ==
  ASSUME NEW m, NEW P, Spaces(m, P), NEW n, NEW o \in P \cup {Kernel}, Kept(m, n, o)
  PROVE  Spaces(n, P)
<1>1. /\ DOMAIN n.space = DOMAIN m.space /\ Whole(n)
      /\ \A q \in DOMAIN m.space \ {o} : n.space[q] = m.space[q]
  BY Zenon DEF Kept, Only
<1>2. /\ DOMAIN m.space = {Kernel, Fresh} \cup 0..(MaxPid - 1)
      /\ m.space[Fresh] = Absent /\ P \subseteq 0..(MaxPid - 1)
      /\ \A p \in (0..(MaxPid - 1)) \ P : m.space[p] = Absent
  BY Zenon DEF Spaces
<1>3. Fresh # o /\ Kernel \notin 0..(MaxPid - 1)
  BY <1>2, SpaceNames, Zenon
<1>4. n.space[Fresh] = Absent
  BY <1>1, <1>2, <1>3, Zenon
<1>5. ASSUME NEW p \in (0..(MaxPid - 1)) \ P PROVE n.space[p] = Absent
  <2>1. p # o /\ p \in DOMAIN m.space /\ m.space[p] = Absent
    BY <1>2, <1>3, <1>5, Zenon
  <2>2. n.space[p] = m.space[p]
    BY <1>1, <2>1, Zenon
  <2> QED BY <2>1, <2>2, Zenon
<1> QED BY <1>1, <1>2, <1>4, <1>5, Zenon DEF Spaces

(* A process gets its address space.                                        *)
LEMMA SpacesMore ==
  ASSUME NEW m, NEW P, Spaces(m, P), NEW n, NEW o \in 0..(MaxPid - 1), Kept(m, n, o)
  PROVE  Spaces(n, P \cup {o})
<1>1. Spaces(m, P \cup {o})
  BY Zenon DEF Spaces
<1>2. o \in (P \cup {o}) \cup {Kernel}
  OBVIOUS
<1> QED BY <1>1, <1>2, SpacesKept, Zenon

(* A process loses its address space.                                       *)
LEMMA SpacesLess ==
  ASSUME NEW m, NEW P, Spaces(m, P), NEW n, NEW o \in P, Kept(m, n, o), n.space[o] = Absent
  PROVE  Spaces(n, P \ {o})
<1>1. Spaces(n, P)
  BY SpacesKept, Zenon
<1> QED BY <1>1, Zenon DEF Spaces

(* The kernel writes into a frame.                                          *)
LEMMA SpacesSame ==
  ASSUME NEW m, NEW P, Spaces(m, P), NEW ppn, NEW t
  PROVE  Spaces(SetKernelSp(m, ppn, t), P)
<1>1. Whole(m)
  BY Zenon DEF Spaces
<1>2. Whole(SetKernelSp(m, ppn, t)) /\ SetKernelSp(m, ppn, t).space = m.space
  BY <1>1, SetKernelSpKeeps, Zenon
<1> QED BY <1>2, Zenon DEF Spaces

(* What Spaces says of the kernel's address space and of those of P.        *)
LEMMA SpacesThere ==
  ASSUME NEW m, NEW P, Spaces(m, P)
  PROVE  /\ Whole(m) /\ Kernel \in DOMAIN m.space /\ P \subseteq DOMAIN m.space
         /\ Fresh \in DOMAIN m.space /\ m.space[Fresh] = Absent
         /\ 0..(MaxPid - 1) \subseteq DOMAIN m.space
BY Zenon DEF Spaces

\* The MemorySet of b becomes that of a.
Moved(m, a, b) == [m EXCEPT !.space[a] = m.space[b], !.space[b] = Absent]

(* A MemorySet takes the place of one that is gone.                         *)
LEMMA MoveSpace ==
  ASSUME NEW m, Whole(m), NEW a \in DOMAIN m.space, NEW b \in DOMAIN m.space, a # b,
         m.space[a] = Absent
  PROVE  /\ Whole(Moved(m, a, b)) /\ DOMAIN Moved(m, a, b).space = DOMAIN m.space
         /\ Moved(m, a, b).space[b] = Absent
         /\ \A q \in DOMAIN m.space \ {a, b} : Moved(m, a, b).space[q] = m.space[q]
<1> DEFINE n == [m EXCEPT !.space[a] = m.space[b], !.space[b] = Absent]
           sp == m.space[b]
           Y == SpaceFrames(sp)
           k == [m EXCEPT !.space[b] = Absent]
<1>1. MemOK(m, {}) /\ SpaceOK(sp) /\ Complete(sp)
  BY Zenon DEF Whole, MemOK
<1>2. SpaceOK(Absent) /\ SpaceFrames(Absent) = {} /\ Complete(Absent)
  BY AbsentFrames
<1>3. Replaces(m, k, b, Absent)
  BY <1>1, Assigned, Zenon
<1>4. n = [k EXCEPT !.space[a] = sp]
  <2>1. m = [fa |-> m.fa, mem |-> m.mem, space |-> m.space]
        /\ m.space = [q \in DOMAIN m.space |-> m.space[q]]
    BY <1>1, Zenon DEF MemOK
  <2> DEFINE s == m.space
             s1 == [[s EXCEPT ![a] = sp] EXCEPT ![b] = Absent]
             s2 == [[s EXCEPT ![b] = Absent] EXCEPT ![a] = sp]
  <2>2. s1 = s2
    <3> HIDE DEF sp
    <3>1. DOMAIN s1 = DOMAIN s2 /\ \A q \in DOMAIN s : s1[q] = s2[q]
      OBVIOUS
    <3> QED OBVIOUS
  <2> DEFINE k1 == [m EXCEPT !.space[a] = sp]
             l == [k EXCEPT !.space[a] = sp]
  <2>3. /\ k1 = [fa |-> m.fa, mem |-> m.mem, space |-> [s EXCEPT ![a] = sp]]
        /\ k = [fa |-> m.fa, mem |-> m.mem, space |-> [s EXCEPT ![b] = Absent]]
    <3> HIDE DEF sp
    <3> QED BY <2>1
  <2>4. n = [k1 EXCEPT !.space[b] = Absent]
    BY Zenon
  <2> HIDE DEF k1, k, n, sp
  <2>5. n = [fa |-> m.fa, mem |-> m.mem, space |-> s1]
    <3>1. k1.fa = m.fa /\ k1.mem = m.mem /\ k1.space = [s EXCEPT ![a] = sp]
          /\ k1 = [fa |-> k1.fa, mem |-> k1.mem, space |-> k1.space]
      BY <2>3
    <3>2. n = [fa |-> k1.fa, mem |-> k1.mem, space |-> [k1.space EXCEPT ![b] = Absent]]
      BY <2>4, <3>1
    <3> QED BY <3>1, <3>2, Zenon
  <2>6. l = [fa |-> m.fa, mem |-> m.mem, space |-> s2]
    <3>1. k.fa = m.fa /\ k.mem = m.mem /\ k.space = [s EXCEPT ![b] = Absent]
          /\ k = [fa |-> k.fa, mem |-> k.mem, space |-> k.space]
      BY <2>3
    <3>2. l = [fa |-> k.fa, mem |-> k.mem, space |-> [k.space EXCEPT ![a] = sp]]
      BY <3>1
    <3> QED BY <3>1, <3>2, Zenon
  <2> QED BY <2>2, <2>5, <2>6, Zenon
<1> HIDE DEF n, k, sp, Y
<1>5. Trades(m.space[b], {}, Absent, Y)
  BY <1>2 DEF Trades, sp, Y
<1>6. MemOK(k, Y) /\ Only(m, k, b) /\ k.space[b] = Absent
  <2>1. Swap(m, {}, k, Y, b, Absent)
    BY <1>1, <1>2, <1>3, <1>5, Zenon DEF Swap
  <2> QED BY <2>1, Exchange
<1>7. k.space[a] = Absent /\ a \in DOMAIN k.space
  BY <1>6, Zenon DEF Only
<1>8. Trades(k.space[a], Y, sp, {})
  BY <1>2, <1>7 DEF Trades, Y
<1>9. Replaces(k, n, a, sp)
  BY <1>4, <1>6, <1>7, Assigned, Zenon
<1>10. MemOK(n, {}) /\ Only(k, n, a) /\ n.space[a] = sp
  <2>1. Swap(k, Y, n, {}, a, sp)
    BY <1>1, <1>6, <1>7, <1>8, <1>9, Zenon DEF Swap
  <2> QED BY <2>1, Exchange, Zenon
<1>11. /\ DOMAIN n.space = DOMAIN m.space /\ n.space[b] = Absent
       /\ \A q \in DOMAIN m.space \ {a, b} : n.space[q] = m.space[q]
  BY <1>6, <1>10, Zenon DEF Only
<1>12. \A q \in DOMAIN n.space : Complete(n.space[q])
  BY <1>1, <1>2, <1>10, <1>11, Zenon DEF Whole
<1>13. Whole(n)
  BY <1>10, <1>12, Zenon DEF Whole
<1>14. n = Moved(m, a, b)
  BY Zenon DEF n, Moved
<1> QED BY <1>11, <1>13, <1>14, Zenon

-----------------------------------------------------------------------------
\* The boot.

(* Before boot no frame is handed out.                                      *)
LEMMA BootWhole ==
  ASSUME NEW mem, NEW D
  PROVE  Whole([fa |-> NewAllocator, mem |-> mem, space |-> [o \in D |-> Absent]])
<1> DEFINE m == [fa |-> NewAllocator, mem |-> mem, space |-> [o \in D |-> Absent]]
<1>1. /\ m = [fa |-> m.fa, mem |-> m.mem, space |-> m.space]
      /\ m.fa = NewAllocator /\ DOMAIN m.space = D
      /\ \A o \in D : m.space[o] = Absent
      /\ m.space = [o \in DOMAIN m.space |-> m.space[o]]
  BY Zenon
<1> HIDE DEF m
<1>2. SpaceOK(Absent) /\ SpaceFrames(Absent) = {} /\ Complete(Absent)
  BY AbsentFrames
<1>3. AllocOK(NewAllocator) /\ InUse(NewAllocator) = {}
  BY FirstId
<1>4. UNION {SpaceFrames(m.space[o]) : o \in DOMAIN m.space} = {}
  <2>1. \A o \in DOMAIN m.space : SpaceFrames(m.space[o]) = {}
    BY <1>1, <1>2, Zenon
  <2> QED BY <2>1
<1>5. InUse(m.fa) = {} \cup UNION {SpaceFrames(m.space[o]) : o \in DOMAIN m.space}
  BY <1>1, <1>3, <1>4
<1>6. MemOK(m, {})
  BY <1>1, <1>2, <1>3, <1>5, Zenon DEF MemOK
<1> QED BY <1>1, <1>2, <1>6, Zenon DEF Whole, m

(* MemInv holds after boot.                                                 *)
LEMMA InitMemInv == Init => MemInv
<1> SUFFICES ASSUME Init PROVE MemInv
  OBVIOUS
<1> DEFINE I == 0..(MaxPid - 1)
           mem == [f \in 0..(MEMORY_END - 1) |-> 0]
           boot == [fa |-> NewAllocator, mem |-> mem,
                    space |-> [o \in {Kernel, Fresh} \cup I |-> Absent]]
           b1 == new_bare(boot, Kernel)
           m1 == map_trampoline(b1, Kernel)
           m2 == from_elf(m1, INITPROC, InitElf)
           base == user_stack_base(InitElf)
           r == alloc_user_res(m2, INITPROC, base, 0)
           m3 == kstack_alloc(r, 0)
           ppn == trap_cx_ppn(m3, INITPROC, 0)
<1>1. mm = SetKernelSp(m3, ppn, 0)
  BY Zenon DEF Init
<1>2. pcb = [p \in {INITPROC} |-> NewProcess(None, 0)] /\ tcb = [t \in {0} |-> NewTask(INITPROC, 0, base, ppn)]
  BY Zenon DEF Init
<1>3. INITPROC \in I /\ InitElf \in Nat /\ base \in Int /\ 0 \in Nat
  BY ProcessesAssumption DEF INITPROC, user_stack_base
<1>4. Bases(tcb)
  <2> HIDE DEF base, ppn
  <2>1. DOMAIN tcb = {0} /\ tcb[0] = NewTask(INITPROC, 0, base, ppn)
    BY <1>2
  <2>2. tcb[0].ustack_base = base
    BY <2>1 DEF NewTask
  <2> QED BY <1>3, <2>1, <2>2, Zenon DEF Bases
<1>5. DOMAIN pcb = {INITPROC}
  BY <1>2
<1>6. Whole(boot)
  BY BootWhole, Zenon
<1>7. /\ DOMAIN boot.space = {Kernel, Fresh} \cup I
      /\ \A o \in {Kernel, Fresh} \cup I : boot.space[o] = Absent
  BY Zenon
<1> HIDE DEF mem, boot, b1, m1, m2, base, r, m3, ppn
<1>8. Spaces(boot, {})
  BY <1>6, <1>7, Zenon DEF Spaces
<1>9. Spaces(b1, {})
  <2>1. Kernel \in DOMAIN boot.space /\ boot.space[Kernel] = Absent
    BY <1>7, Zenon
  <2>2. Kept(boot, b1, Kernel)
    BY <1>6, <2>1, NewBare, Zenon DEF b1
  <2> QED BY <1>8, <2>2, SpacesKept
<1>10. Spaces(m1, {})
  <2>1. Whole(b1) /\ Kernel \in DOMAIN b1.space
    BY <1>9, SpacesThere, Zenon
  <2>2. Kept(b1, m1, Kernel)
    BY <2>1, TrampolineKeeps, Zenon DEF m1
  <2> QED BY <1>9, <2>2, SpacesKept
<1>11. Spaces(m2, {INITPROC})
  <2>1. Whole(m1) /\ INITPROC \in DOMAIN m1.space /\ m1.space[INITPROC] = Absent
    BY <1>3, <1>10, Zenon DEF Spaces
  <2>2. Kept(m1, m2, INITPROC)
    BY <1>3, <2>1, FromElfKeeps, Zenon DEF m2
  <2>3. {} \cup {INITPROC} = {INITPROC}
    OBVIOUS
  <2>4. Spaces(m2, {} \cup {INITPROC})
    BY <1>3, <1>10, <2>2, SpacesMore
  <2> QED BY <2>3, <2>4, Zenon
<1>12. Spaces(r, {INITPROC})
  <2>1. Whole(m2) /\ INITPROC \in DOMAIN m2.space
    BY <1>11, SpacesThere
  <2>2. Kept(m2, r, INITPROC)
    BY <1>3, <2>1, AllocResKeeps, Zenon DEF r
  <2> QED BY <1>11, <2>2, SpacesKept
<1>13. Spaces(m3, {INITPROC})
  <2>1. Whole(r) /\ Kernel \in DOMAIN r.space
    BY <1>12, SpacesThere, Zenon
  <2>2. Kept(r, m3, Kernel)
    BY <1>3, <2>1, KernelStackKeeps, Zenon DEF m3
  <2> QED BY <1>12, <2>2, SpacesKept
<1>14. Spaces(mm, {INITPROC})
  BY <1>1, <1>13, SpacesSame, Zenon
<1> QED BY <1>4, <1>5, <1>14, Zenon DEF MemInv

-----------------------------------------------------------------------------
\* The steps.

(* Steps that leave the memory alone: at differs.                           *)
LEMMA QuietMemory ==
  ASSUME ProcInv, MemInv, mm' = mm, DOMAIN pcb' = DOMAIN pcb,
         tcb' = tcb \/ \E t, at : tcb' = [tcb EXCEPT ![t].at = at]
  PROVE  MemInv'
<1>1. Spaces(mm, DOMAIN pcb)'
  BY Zenon DEF MemInv
<1>2. Bases(tcb)'
  <2>1. CASE tcb' = tcb
    BY <2>1, Zenon DEF MemInv, Bases
  <2>2. ASSUME NEW t, NEW at, tcb' = [tcb EXCEPT ![t].at = at] PROVE Bases(tcb)'
    <3> SUFFICES ASSUME NEW u \in DOMAIN tcb PROVE tcb'[u].ustack_base \in Int
      BY <2>2 DEF Bases
    <3>1. DOMAIN tcb[u] = TaskFields /\ tcb[u].ustack_base \in Int
      BY Zenon DEF ProcInv, TasksOK, TaskOK, MemInv, Bases
    <3>2. CASE u = t
      <4>1. tcb'[u] = [tcb[u] EXCEPT !.at = at]
        BY <2>2, <3>2
      <4> QED BY <3>1, <4>1 DEF TaskFields
    <3>3. CASE u # t
      BY <2>2, <3>1, <3>3
    <3> QED BY <3>2, <3>3
  <2> QED BY <2>1, <2>2
<1> QED BY <1>1, <1>2, Zenon DEF MemInv

(* The processor, the waits, kill and the return to user mode.              *)
LEMMA QuietActions ==
  ASSUME ProcInv, MemInv,
         \/ RunTasks \/ Yield \/ PipeAgain \/ PipeDone
         \/ \E at \in BlockingWaits \cup {"pipe"} : Wait(at)
         \/ \E t \in DOMAIN tcb : WakeUp(t)
         \/ \E pid \in 0..(MaxPid - 1) : Kill(pid)
         \/ ExitIdle \/ TrapReturn \/ UNCHANGED vars
  PROVE  MemInv'
<1>1. CASE RunTasks
  <2> DEFINE t == Head(ready_queue)
             at == IF tcb[t].at = "pipe" THEN tcb[t].at ELSE "user"
  <2>1. mm' = mm /\ DOMAIN pcb' = DOMAIN pcb /\ tcb' = [tcb EXCEPT ![t].at = at]
    BY <1>1 DEF RunTasks
  <2> HIDE DEF t, at
  <2> QED BY <2>1, QuietMemory, Zenon
<1>2. ASSUME NEW at, Switch(at), DOMAIN pcb' = DOMAIN pcb PROVE MemInv'
  <2>1. mm' = mm /\ tcb' = [tcb EXCEPT ![current].at = at]
    BY <1>2, Zenon DEF Switch
  <2> QED BY <1>2, <2>1, QuietMemory, Zenon
<1>3. CASE Yield \/ PipeAgain \/ \E at \in BlockingWaits \cup {"pipe"} : Wait(at)
  <2>1. (\E at : Switch(at)) /\ DOMAIN pcb' = DOMAIN pcb
    BY <1>3 DEF Yield, PipeAgain, Wait
  <2> QED BY <1>2, <2>1, Zenon
<1>4. CASE PipeDone
  <2>1. mm' = mm /\ DOMAIN pcb' = DOMAIN pcb /\ tcb' = [tcb EXCEPT ![current].at = "user"]
    BY <1>4 DEF PipeDone
  <2> QED BY <2>1, QuietMemory, Zenon
<1>5. CASE \/ \E t \in DOMAIN tcb : WakeUp(t)
           \/ \E pid \in 0..(MaxPid - 1) : Kill(pid)
           \/ ExitIdle \/ TrapReturn \/ UNCHANGED vars
  <2>1. mm' = mm /\ DOMAIN pcb' = DOMAIN pcb /\ tcb' = tcb
    BY <1>5 DEF WakeUp, Kill, ExitIdle, TrapReturn, vars
  <2> QED BY <2>1, QuietMemory, Zenon
<1> QED BY <1>1, <1>3, <1>4, <1>5, Zenon

(* A new thread has a place for its user stack.                             *)
LEMMA BasesMore ==
  ASSUME NEW f, Bases(f), NEW t, NEW p, NEW tid, NEW base \in Int, NEW ppn
  PROVE  Bases(With(f, t, NewTask(p, tid, base, ppn)))
<1> DEFINE task == NewTask(p, tid, base, ppn)
           g == With(f, t, task)
<1>1. task.ustack_base = base
  BY DEF NewTask
<1> HIDE DEF task
<1>2. \A u \in DOMAIN g : (u = t /\ g[u] = task) \/ (u \in DOMAIN f /\ g[u] = f[u])
  BY DEF With
<1> HIDE DEF g
<1>3. Bases(g)
  BY <1>1, <1>2, Zenon DEF Bases
<1> QED BY <1>3, Zenon DEF g, task

(* sys_fork.                                                                *)
LEMMA ForkMemory ==
  ASSUME ProcInv, MemInv, Fork PROVE MemInv'
<1> DEFINE child == NextId(pid_allocator)
           t == NextId(kstack_allocator)
           base == tcb[Process.tasks[1]].ustack_base
           e == from_existed_user(mm, child, Pid)
           m1 == kstack_alloc(e, t)
           ppn == trap_cx_ppn(m1, child, 0)
           P == DOMAIN pcb
<1>1. /\ mm' = SetKernelSp(m1, ppn, t) /\ Len(Process.tasks) = 1
      /\ tcb' = With(tcb, t, NewTask(child, 0, base, ppn))
      /\ child < MaxPid /\ mode # "idle"
  BY Zenon DEF Fork, InSyscall
<1>2. DOMAIN pcb' = P \cup {child}
  BY DEF Fork, With
<1>3. /\ AllocOK(pid_allocator) /\ AllocOK(kstack_allocator) /\ P = InUse(pid_allocator)
  BY Zenon DEF ProcInv, IdsOK
<1>4. child \in 0..(MaxPid - 1) /\ child \notin P /\ t \in Nat
  <2>1. child \in Nat /\ child \notin P /\ t \in Nat
    BY <1>3, AllocIsFresh
  <2>2. MaxPid \in Nat
    BY ProcessesAssumption
  <2> QED BY <1>1, <2>1, <2>2
<1>5. Pid \in P /\ base \in Int
  <2>1. /\ current \in DOMAIN tcb /\ IsLive(Pid) /\ Process = pcb[Pid]
        /\ Self.tid + 1 \in DOMAIN Process.tasks /\ Process.tasks[Self.tid + 1] = current
    BY <1>1, CurrentLive
  <2>2. Process.tasks \in Seq(Int) /\ Pid \in P
    BY <2>1 DEF ProcInv, ProcsOK, ProcOK, IsLive
  <2>3. DOMAIN Process.tasks = {1}
    BY SMTT(20), <1>1, <2>2
  <2>4. Process.tasks[1] \in DOMAIN tcb
    BY <2>1, <2>3
  <2> QED BY <2>2, <2>4, Zenon DEF MemInv, Bases
<1>6. Spaces(mm, P) /\ Bases(tcb)
  BY Zenon DEF MemInv
<1> HIDE DEF child, t, base, e, m1, ppn, P
<1>7. Spaces(e, P \cup {child})
  <2>1. Whole(mm) /\ child \in DOMAIN mm.space /\ mm.space[child] = Absent /\ Pid \in DOMAIN mm.space
    BY <1>4, <1>5, <1>6, Zenon DEF Spaces
  <2>2. Kept(mm, e, child)
    BY <2>1, FromExistedKeeps, Zenon DEF e
  <2> QED BY <1>4, <1>6, <2>2, SpacesMore, Zenon
<1>8. Spaces(m1, P \cup {child})
  <2>1. Whole(e) /\ Kernel \in DOMAIN e.space
    BY <1>7, SpacesThere, Zenon
  <2>2. Kept(e, m1, Kernel)
    BY <1>4, <2>1, KernelStackKeeps, Zenon DEF m1
  <2> QED BY <1>7, <2>2, SpacesKept
<1>9. Spaces(mm', P \cup {child})
  BY <1>1, <1>8, SpacesSame, Zenon
<1>10. Bases(tcb')
  BY <1>1, <1>5, <1>6, BasesMore, Zenon
<1> QED BY <1>2, <1>9, <1>10, Zenon DEF MemInv

(* sys_exec: the new address space takes the place of the old one.          *)
LEMMA ExecMemory ==
  ASSUME ProcInv, MemInv, NEW pages \in Elf, Exec(pages) PROVE MemInv'
<1> DEFINE t == Process.tasks[1]
           p == Pid
           P == DOMAIN pcb
           m1 == from_elf(mm, Fresh, pages)
           d == DropMemorySet(m1, p)
           m2 == [d EXCEPT !.space[p] = m1.space[Fresh], !.space[Fresh] = Absent]
           base == user_stack_base(pages)
           m3 == alloc_user_res(m2, p, base, tcb[t].tid)
           ppn == trap_cx_ppn(m3, p, tcb[t].tid)
<1>1. /\ mm' = SetKernelSp(m3, ppn, t) /\ Len(Process.tasks) = 1 /\ mode # "idle"
      /\ tcb' = [tcb EXCEPT ![t].ustack_base = base, ![t].trap_cx_ppn = ppn]
      /\ pcb' = pcb
  BY Zenon DEF Exec, InSyscall
<1>2. pages \in Nat /\ base \in Int
  BY ProcessesAssumption DEF user_stack_base
<1>3. p \in P /\ t \in DOMAIN tcb
  <2>1. /\ current \in DOMAIN tcb /\ IsLive(Pid) /\ Process = pcb[Pid]
        /\ Self.tid + 1 \in DOMAIN Process.tasks /\ Process.tasks[Self.tid + 1] = current
    BY <1>1, CurrentLive
  <2>2. Process.tasks \in Seq(Int) /\ Pid \in P
    BY <2>1 DEF ProcInv, ProcsOK, ProcOK, IsLive
  <2>3. DOMAIN Process.tasks = {1}
    BY SMTT(20), <1>1, <2>2
  <2> QED BY <2>1, <2>2, <2>3
<1>4. tcb[t].tid \in Nat
  BY <1>3, Zenon DEF ProcInv, TasksOK, TaskOK
<1>5. Spaces(mm, P) /\ Bases(tcb) /\ DOMAIN tcb[t] = TaskFields
  BY <1>3, Zenon DEF MemInv, ProcInv, TasksOK, TaskOK
<1> HIDE DEF t, p, P, m1, d, m2, base, m3, ppn
<1>6. /\ Whole(mm) /\ Fresh \in DOMAIN mm.space /\ mm.space[Fresh] = Absent
      /\ p \in DOMAIN mm.space /\ p # Fresh
  BY <1>3, <1>5, SpaceNames, Zenon DEF Spaces
<1>7. Kept(mm, m1, Fresh)
  BY <1>2, <1>6, FromElfKeeps, Zenon DEF m1
<1>8. Whole(m1) /\ p \in DOMAIN m1.space /\ Fresh \in DOMAIN m1.space
  BY <1>6, <1>7, Zenon DEF Kept, Only
<1>9. Kept(m1, d, p) /\ d.space[p] = Absent
  BY <1>8, DropSpaceKeeps, Zenon DEF d
<1>10. /\ Whole(d) /\ p \in DOMAIN d.space /\ Fresh \in DOMAIN d.space
       /\ DOMAIN d.space = DOMAIN mm.space
       /\ d.space[Fresh] = m1.space[Fresh]
       /\ \A q \in DOMAIN mm.space \ {p, Fresh} : d.space[q] = mm.space[q]
  BY <1>6, <1>7, <1>8, <1>9, Zenon DEF Kept, Only
<1>11. m2 = Moved(d, p, Fresh)
  BY <1>10, Zenon DEF m2, Moved
<1>12. /\ Whole(m2) /\ DOMAIN m2.space = DOMAIN mm.space /\ m2.space[Fresh] = Absent
       /\ \A q \in DOMAIN mm.space \ {p, Fresh} : m2.space[q] = mm.space[q]
  <2>1. /\ Whole(m2) /\ DOMAIN m2.space = DOMAIN d.space /\ m2.space[Fresh] = Absent
        /\ \A q \in DOMAIN d.space \ {p, Fresh} : m2.space[q] = d.space[q]
    BY <1>6, <1>9, <1>10, <1>11, MoveSpace, Zenon
  <2> QED BY <1>10, <2>1, Zenon
<1>13. Spaces(m2, P)
  <2> SUFFICES ASSUME NEW q \in (0..(MaxPid - 1)) \ P PROVE m2.space[q] = Absent
    BY <1>5, <1>12, Zenon DEF Spaces
  <2>1. q \in DOMAIN mm.space /\ mm.space[q] = Absent /\ q # p /\ q # Fresh
    BY <1>3, <1>5, SpaceNames, Zenon DEF Spaces
  <2> QED BY <1>12, <2>1, Zenon
<1>14. Spaces(m3, P)
  <2>1. Whole(m2) /\ p \in DOMAIN m2.space
    BY <1>6, <1>12, Zenon
  <2>2. Kept(m2, m3, p)
    BY <1>2, <1>4, <2>1, AllocResKeeps, Zenon DEF m3
  <2>3. p \in P \cup {Kernel}
    BY <1>3
  <2> QED BY <1>13, <2>2, <2>3, SpacesKept, Zenon
<1>15. Spaces(mm', P)
  BY <1>1, <1>14, SpacesSame, Zenon
<1>16. Bases(tcb')
  <2> SUFFICES ASSUME NEW u \in DOMAIN tcb PROVE tcb'[u].ustack_base \in Int
    BY <1>1 DEF Bases
  <2>1. CASE u = t
    <3>1. tcb'[u] = [tcb[t] EXCEPT !.ustack_base = base, !.trap_cx_ppn = ppn]
      BY <1>1, <1>3, <2>1
    <3> QED BY <1>2, <1>5, <3>1 DEF TaskFields
  <2>2. CASE u # t
    <3>1. tcb'[u] = tcb[u]
      BY <1>1, <2>2
    <3> QED BY <1>5, <3>1, Zenon DEF Bases
  <2> QED BY <2>1, <2>2
<1> QED BY <1>1, <1>15, <1>16, Zenon DEF MemInv, P

(* A TCB that is dropped gives its kernel stack back.                       *)
LEMMA DropTaskSpaces ==
  ASSUME NEW m, NEW P, Spaces(m, P), NEW t PROVE Spaces(DropTask(m, t), P)
<1>1. CASE t = None
  BY <1>1, Zenon DEF DropTask
<1>2. CASE t # None
  <2>1. Whole(m) /\ Kernel \in DOMAIN m.space
    BY SpacesThere, Zenon
  <2>2. Kept(m, DropTask(m, t), Kernel)
    BY <1>2, <2>1, KernelStackKeeps, Zenon DEF DropTask
  <2>3. Kernel \in P \cup {Kernel}
    OBVIOUS
  <2> QED BY <2>2, <2>3, SpacesKept, Zenon
<1> QED BY <1>1, <1>2

(* sys_thread_create.                                                       *)
LEMMA ThreadCreateMemory ==
  ASSUME ProcInv, MemInv, ThreadCreate PROVE MemInv'
<1> DEFINE p == Pid
           P == DOMAIN pcb
           base == Self.ustack_base
           tid == NextId(Process.task_res_allocator)
           t == NextId(kstack_allocator)
           m1 == alloc_user_res(mm, p, base, tid)
           ppn == trap_cx_ppn(m1, p, tid)
           k == kstack_alloc(m1, t)
           m2 == SetKernelSp(k, ppn, t)
           old == IF tid < Len(Process.tasks) THEN Process.tasks[tid + 1] ELSE None
           f == WithoutTask(tcb, old)
<1>1. /\ mm' = DropTask(m2, old) /\ mode # "idle"
      /\ tcb' = With(f, t, NewTask(p, tid, base, ppn))
  BY Zenon DEF ThreadCreate, InSyscall
<1>2. DOMAIN pcb' = P
  BY DEF ThreadCreate
<1>3. /\ p \in P /\ AllocOK(Process.task_res_allocator) /\ AllocOK(kstack_allocator)
      /\ current \in DOMAIN tcb /\ Self = tcb[current]
  BY Zenon, <1>1, CurrentLive DEF ProcInv, ProcsOK, ProcOK, IsLive, IdsOK
<1>4. tid \in Nat /\ t \in Nat
  BY <1>3, AllocIsFresh
<1>5. Spaces(mm, P) /\ Bases(tcb) /\ base \in Int
  BY <1>3, Zenon DEF MemInv, Bases
<1>6. Bases(f)
  BY <1>5 DEF WithoutTask, Bases
<1> HIDE DEF p, P, base, tid, t, m1, ppn, k, m2, old, f
<1>7. Spaces(m1, P)
  <2>1. Whole(mm) /\ p \in DOMAIN mm.space
    BY <1>3, <1>5, SpacesThere
  <2>2. Kept(mm, m1, p)
    BY <1>4, <1>5, <2>1, AllocResKeeps, Zenon DEF m1
  <2>3. p \in P \cup {Kernel}
    BY <1>3
  <2> QED BY <1>5, <2>2, <2>3, SpacesKept, Zenon
<1>8. Spaces(k, P)
  <2>1. Whole(m1) /\ Kernel \in DOMAIN m1.space
    BY <1>7, SpacesThere, Zenon
  <2>2. Kept(m1, k, Kernel)
    BY <1>4, <2>1, KernelStackKeeps, Zenon DEF k
  <2>3. Kernel \in P \cup {Kernel}
    OBVIOUS
  <2> QED BY <1>7, <2>2, <2>3, SpacesKept, Zenon
<1>9. Spaces(mm', P)
  BY <1>1, <1>8, SpacesSame, DropTaskSpaces, Zenon DEF m2
<1>10. Bases(tcb')
  BY <1>1, <1>5, <1>6, BasesMore, Zenon
<1> QED BY <1>2, <1>9, <1>10, Zenon DEF MemInv

(* sys_waittid.                                                             *)
LEMMA WaittidMemory ==
  ASSUME ProcInv, MemInv, NEW tid, Waittid(tid) PROVE MemInv'
<1> DEFINE P == DOMAIN pcb
           t == Process.tasks[tid + 1]
<1>1. mm' = DropTask(mm, t) /\ tcb' = WithoutTask(tcb, t)
  BY Zenon DEF Waittid, DropTask
<1>2. DOMAIN pcb' = P
  BY DEF Waittid
<1>3. Spaces(mm, P) /\ Bases(tcb)
  BY Zenon DEF MemInv
<1> HIDE DEF P, t
<1>4. Spaces(mm', P)
  BY <1>1, <1>3, DropTaskSpaces, Zenon
<1>5. Bases(tcb')
  BY <1>1, <1>3 DEF WithoutTask, Bases
<1> QED BY <1>2, <1>4, <1>5, Zenon DEF MemInv

(* sys_waitpid.                                                             *)
LEMMA WaitpidMemory ==
  ASSUME ProcInv, MemInv, NEW pid, Waitpid(pid) PROVE MemInv'
<1> DEFINE P == DOMAIN pcb
           kids == pcb[Pid].children
<1>1. Pid \in P /\ Process = pcb[Pid] /\ FamilyOK
  <2>1. mode # "idle" /\ halted # "panic"
    BY DEF Waitpid, InSyscall
  <2> QED BY <2>1, CurrentLive DEF ProcInv, IsLive
<1>2. PICK i \in DOMAIN kids :
        \/ /\ mm' = DropMemorySet(mm, kids[i])
           /\ pcb' = [q \in P \ {kids[i]} |-> [pcb EXCEPT ![Pid].children = RemoveAt(kids, i)][q]]
           /\ tcb' = [u \in DOMAIN tcb |->
                        IF tcb[u].process = kids[i]
                        THEN [tcb[u] EXCEPT !.process = None] ELSE tcb[u]]
        \/ /\ pcb' = [pcb EXCEPT ![Pid].children = RemoveAt(kids, i)]
           /\ mm' = mm /\ tcb' = tcb
  BY Zenon DEF Waitpid, Process
<1> DEFINE c == kids[i]
<1>3. c \in P
  <2>1. c \in Range(kids)
    BY <1>2, Zenon DEF Range
  <2> QED BY <1>1, <2>1, Zenon DEF FamilyOK
<1>4. Spaces(mm, P) /\ Bases(tcb)
  BY Zenon DEF MemInv
<1>5. CASE pcb' = [pcb EXCEPT ![Pid].children = RemoveAt(kids, i)] /\ mm' = mm /\ tcb' = tcb
  <2>1. DOMAIN pcb' = P
    BY <1>5
  <2> QED BY <1>5, <2>1, QuietMemory, Zenon
<1>6. CASE /\ mm' = DropMemorySet(mm, c)
           /\ pcb' = [q \in P \ {c} |-> [pcb EXCEPT ![Pid].children = RemoveAt(kids, i)][q]]
           /\ tcb' = [u \in DOMAIN tcb |->
                        IF tcb[u].process = c THEN [tcb[u] EXCEPT !.process = None] ELSE tcb[u]]
  <2> HIDE DEF c, P
  <2>1. DOMAIN pcb' = P \ {c}
    BY <1>6, Zenon
  <2>2. Whole(mm) /\ c \in DOMAIN mm.space
    BY <1>3, <1>4, SpacesThere
  <2>3. Kept(mm, mm', c) /\ mm'.space[c] = Absent
    BY <1>6, <2>2, DropSpaceKeeps, Zenon
  <2>4. Spaces(mm', P \ {c})
    BY <1>3, <1>4, <2>3, SpacesLess, Zenon
  <2>5. Bases(tcb')
    <3> SUFFICES ASSUME NEW u \in DOMAIN tcb PROVE tcb'[u].ustack_base \in Int
      BY <1>6, Zenon DEF Bases
    <3>1. DOMAIN tcb[u] = TaskFields /\ tcb[u].ustack_base \in Int
      BY <1>4, Zenon DEF ProcInv, TasksOK, TaskOK, Bases
    <3>2. tcb'[u] = tcb[u] \/ tcb'[u] = [tcb[u] EXCEPT !.process = None]
      BY <1>6, Zenon
    <3> QED BY <3>1, <3>2 DEF TaskFields
  <2> QED BY <2>1, <2>4, <2>5, Zenon DEF MemInv
<1> QED BY <1>2, <1>5, <1>6, Zenon

(* A thread other than the main one exits.                                  *)
LEMMA ExitThreadMemory ==
  ASSUME ProcInv, MemInv, ExitThread, mode # "idle" PROVE MemInv'
<1> DEFINE P == DOMAIN pcb
           p == Pid
           c == current
<1>1. /\ mm' = dealloc_user_res(mm, p, Self.ustack_base, Self.tid)
      /\ tcb' = [tcb EXCEPT ![c].res = FALSE, ![c].at = "done"]
  BY Zenon DEF ExitThread
<1>2. DOMAIN pcb' = P
  BY DEF ExitThread
<1>3. p \in P
  BY CurrentLive DEF IsLive
<1>4. Spaces(mm, P) /\ Bases(tcb)
  BY Zenon DEF MemInv
<1> HIDE DEF P, p, c
<1>5. Spaces(mm', P)
  <2>1. Whole(mm) /\ p \in DOMAIN mm.space
    BY <1>3, <1>4, SpacesThere
  <2>2. Kept(mm, mm', p)
    BY <1>1, <2>1, DeallocResKeeps, Zenon
  <2>3. p \in P \cup {Kernel}
    BY <1>3
  <2> QED BY <1>4, <2>2, <2>3, SpacesKept, Zenon
<1>6. Bases(tcb')
  <2> SUFFICES ASSUME NEW u \in DOMAIN tcb PROVE tcb'[u].ustack_base \in Int
    BY <1>1 DEF Bases
  <2>1. DOMAIN tcb[u] = TaskFields /\ tcb[u].ustack_base \in Int
    BY <1>4, Zenon DEF ProcInv, TasksOK, TaskOK, Bases
  <2>2. tcb'[u] = tcb[u] \/ tcb'[u] = [tcb[u] EXCEPT !.res = FALSE, !.at = "done"]
    BY Zenon, <1>1
  <2> QED BY Zenon, <2>1, <2>2 DEF TaskFields
<1> QED BY <1>2, <1>5, <1>6, Zenon DEF MemInv

(* The drop of the TaskUserRes of threads.                                  *)
LEMMA DropResSpaces ==
  ASSUME NEW m, NEW P, Spaces(m, P), NEW p \in P, NEW T, NEW ts \in Seq(T)
  PROVE  Spaces(DropRes(m, p, ts), P)
<1>1. Whole(m) /\ p \in DOMAIN m.space
  BY SpacesThere
<1>2. Kept(m, DropRes(m, p, ts), p)
  BY <1>1, DropResKeeps, Zenon
<1>3. p \in P \cup {Kernel}
  OBVIOUS
<1> QED BY <1>2, <1>3, SpacesKept, Zenon

(* The main thread exits: every thread's user stack and trap context, the   *)
(* data pages, and the kernel stacks of the TCBs that are dropped.          *)
LEMMA ExitMainMemory ==
  ASSUME ProcInv, MemInv, ExitMain, mode # "idle" PROVE MemInv'
<1> DEFINE P == DOMAIN pcb
           p == Pid
           c == current
           th == Threads(p)
           O == {t \in DOMAIN tcb \ {c} : tcb[t].res}
           D == {t \in DOMAIN tcb \ {c} : tcb[t].at \notin BlockingWaits}
           others == Filter(th, O)
           dropped == Filter(th, D)
           r == DropRes(mm, p, <<c>>)
           m1 == DropTask(r, stop_task)
           s == DropRes(m1, p, others)
           m2 == recycle_data_pages(s, p)
           gone == Range(dropped) \cup {stop_task}
<1>1. /\ mm' = DropTasks(m2, dropped)
      /\ tcb' = [t \in DOMAIN tcb \ gone |->
                   IF t \in Range(th)
                   THEN [tcb[t] EXCEPT !.res = FALSE, !.at = IF t = c THEN "done" ELSE @]
                   ELSE tcb[t]]
  BY Zenon DEF ExitMain
<1>2. DOMAIN pcb' = P
  BY Zenon DEF ExitMain, Reparented
<1>3. p \in P /\ c \in Nat
  BY CurrentLive DEF IsLive, ProcInv, IdsOK, InUse
<1>4. Spaces(mm, P) /\ Bases(tcb)
  BY Zenon DEF MemInv
<1>5. th \in Seq(Nat)
  BY <1>3, ThreadsOfProcess
<1> HIDE DEF P, p, c, th, O, D, r, m1, s, m2, gone
<1>6. others \in Seq(Nat) /\ dropped \in Seq(Nat) /\ <<c>> \in Seq(Nat)
  BY <1>3, <1>5, FilterProperties
<1> HIDE DEF others, dropped
<1>7. Spaces(r, P)
  BY <1>3, <1>4, <1>6, DropResSpaces, Zenon DEF r
<1>8. Spaces(m1, P)
  BY <1>7, DropTaskSpaces, Zenon DEF m1
<1>9. Spaces(s, P)
  BY <1>3, <1>6, <1>8, DropResSpaces, Zenon DEF s
<1>10. Spaces(m2, P)
  <2>1. Whole(s) /\ p \in DOMAIN s.space
    BY <1>3, <1>9, SpacesThere
  <2>2. Kept(s, m2, p)
    BY <2>1, RecycleKeeps, Zenon DEF m2
  <2>3. p \in P \cup {Kernel}
    BY <1>3
  <2> QED BY <1>9, <2>2, <2>3, SpacesKept, Zenon
<1>11. Spaces(mm', P)
  <2>1. Whole(m2) /\ Kernel \in DOMAIN m2.space
    BY <1>10, SpacesThere, Zenon
  <2>2. Kept(m2, mm', Kernel)
    BY <1>1, <1>6, <2>1, DropTasksKeeps, Zenon
  <2>3. Kernel \in P \cup {Kernel}
    OBVIOUS
  <2> QED BY <1>10, <2>2, <2>3, SpacesKept, Zenon
<1>12. Bases(tcb')
  <2> SUFFICES ASSUME NEW u \in DOMAIN tcb' PROVE tcb'[u].ustack_base \in Int
    BY Zenon DEF Bases
  <2>1. u \in DOMAIN tcb
    BY <1>1, Zenon
  <2>2. DOMAIN tcb[u] = TaskFields /\ tcb[u].ustack_base \in Int
    BY <1>4, <2>1, Zenon DEF ProcInv, TasksOK, TaskOK, Bases
  <2>3. PICK at : tcb'[u] = tcb[u] \/ tcb'[u] = [tcb[u] EXCEPT !.res = FALSE, !.at = at]
    BY <1>1, Zenon
  <2> QED BY Zenon, <2>2, <2>3 DEF TaskFields
<1> QED BY <1>2, <1>11, <1>12, Zenon DEF MemInv

(* Every step keeps MemInv.                                                 *)
LEMMA NextMemInv ==
  ASSUME ProcInv, MemInv, [Next]_vars PROVE MemInv'
<1>1. CASE \/ RunTasks \/ Yield \/ PipeAgain \/ PipeDone
           \/ \E at \in BlockingWaits \cup {"pipe"} : Wait(at)
           \/ \E t \in DOMAIN tcb : WakeUp(t)
           \/ \E pid \in 0..(MaxPid - 1) : Kill(pid)
           \/ TrapReturn \/ UNCHANGED vars
  BY <1>1, QuietActions
<1>2. CASE Fork
  BY <1>2, ForkMemory
<1>3. CASE ThreadCreate
  BY <1>3, ThreadCreateMemory
<1>4. CASE \E pages \in Elf : Exec(pages)
  BY <1>4, ExecMemory
<1>5. CASE \E tid \in 0..(MaxThread - 1) : Waittid(tid)
  BY <1>5, WaittidMemory
<1>6. CASE \E pid \in {None} \cup 0..(MaxPid - 1) : Waitpid(pid)
  BY <1>6, WaitpidMemory
<1>7. CASE Exit \/ Signalled
  <2>1. mode # "idle" /\ (ExitThread \/ ExitIdle \/ ExitMain)
    BY <1>7 DEF Exit, Signalled, InSyscall, exit_current_and_run_next
  <2> QED BY <2>1, ExitThreadMemory, ExitMainMemory, QuietActions
<1> QED
  BY SMTT(20), <1>1, <1>2, <1>3, <1>4, <1>5, <1>6, <1>7 DEF Next

(* MemInv is an invariant of the kernel, whatever the bounds.               *)
THEOREM MemInvHolds == Spec => []MemInv
<1>1. ProcInv /\ MemInv /\ [Next]_vars => MemInv'
  BY NextMemInv
<1> QED
  BY ProcInvHolds, InitMemInv, <1>1, PTL DEF Spec

-----------------------------------------------------------------------------
\* The owners of frames.

TableOwner(w) ==
  \E o \in DOMAIN mm.space : \E i \in DOMAIN mm.space[o].tables :
    w = <<"table", o, i, 0, mm.space[o].tables[i].ppn>>

AreaOwner(w) ==
  \E o \in DOMAIN mm.space : \E i \in DOMAIN mm.space[o].areas :
    \E v \in DOMAIN mm.space[o].areas[i].data_frames :
      w = <<"area", o, i, v, mm.space[o].areas[i].data_frames[v]>>

FreeOwner(w) ==
  \E i \in DOMAIN mm.fa.recycled : w = <<"free", 0, i, 0, mm.fa.recycled[i]>>

(* A frame has an owner in a page table, in an area, or in the free list.   *)
LEMMA OwnerKinds ==
  ASSUME NEW w
  PROVE  w \in FrameOwners <=> TableOwner(w) \/ AreaOwner(w) \/ FreeOwner(w)
<1> DEFINE T(o) == {<<"table", o, i, 0, mm.space[o].tables[i].ppn>> : i \in DOMAIN mm.space[o].tables}
           V(o, i) == {<<"area", o, i, v, mm.space[o].areas[i].data_frames[v]>> :
                         v \in DOMAIN mm.space[o].areas[i].data_frames}
           A(o) == UNION {V(o, i) : i \in DOMAIN mm.space[o].areas}
           U == UNION {T(o) \cup A(o) : o \in DOMAIN mm.space}
           F == {<<"free", 0, i, 0, mm.fa.recycled[i]>> : i \in DOMAIN mm.fa.recycled}
<1>1. FrameOwners = U \cup F
  BY Zenon DEF FrameOwners
<1>2. TableOwner(w) <=> \E o \in DOMAIN mm.space : w \in T(o)
  BY Zenon DEF TableOwner
<1>3. \A o \in DOMAIN mm.space : \A i \in DOMAIN mm.space[o].areas :
        w \in V(o, i) <=> \E v \in DOMAIN mm.space[o].areas[i].data_frames :
                            w = <<"area", o, i, v, mm.space[o].areas[i].data_frames[v]>>
  BY Zenon
<1>4. FreeOwner(w) <=> w \in F
  BY Zenon DEF FreeOwner
<1> HIDE DEF T, V, F
<1>5. AreaOwner(w) <=> \E o \in DOMAIN mm.space : \E i \in DOMAIN mm.space[o].areas : w \in V(o, i)
  BY <1>3, Zenon DEF AreaOwner
<1>6. AreaOwner(w) <=> \E o \in DOMAIN mm.space : w \in A(o)
  BY <1>5, Zenon
<1> HIDE DEF A
<1>7. w \in U <=> \E o \in DOMAIN mm.space : w \in T(o) \/ w \in A(o)
  BY Zenon
<1> HIDE DEF U
<1>8. w \in FrameOwners <=> w \in U \/ w \in F
  BY <1>1
<1> QED BY <1>2, <1>4, <1>6, <1>7, <1>8, Zenon

(* Where a frame is that an address space has.                              *)
LEMMA FrameIn ==
  ASSUME NEW o \in DOMAIN mm.space
  PROVE  /\ \A i \in DOMAIN mm.space[o].tables :
              mm.space[o].tables[i].ppn \in TableFrames(mm.space[o].tables)
         /\ \A i \in DOMAIN mm.space[o].areas :
              \A v \in DOMAIN mm.space[o].areas[i].data_frames :
                /\ mm.space[o].areas[i].data_frames[v] \in AreaFrames(mm.space[o].areas[i])
                /\ mm.space[o].areas[i].data_frames[v] \in AreasFrames(mm.space[o].areas)
<1> DEFINE T == mm.space[o].tables
           A == mm.space[o].areas
<1> HIDE DEF T, A
<1>1. \A i \in DOMAIN T : T[i].ppn \in TableFrames(T)
  BY DEF TableFrames
<1>2. \A i \in DOMAIN A : \A v \in DOMAIN A[i].data_frames : A[i].data_frames[v] \in AreaFrames(A[i])
  BY DEF AreaFrames, Range
<1>3. \A i \in DOMAIN A : AreaFrames(A[i]) \subseteq AreasFrames(A)
  BY DEF AreasFrames
<1> QED BY <1>1, <1>2, <1>3, Zenon DEF T, A

(* A frame of an address space has an owner there.                          *)
LEMMA OwnerIn ==
  ASSUME NEW o \in DOMAIN mm.space, NEW f \in SpaceFrames(mm.space[o])
  PROVE  \E w \in FrameOwners : w[5] = f
<1>1. CASE f \in TableFrames(mm.space[o].tables)
  <2>1. PICK i \in DOMAIN mm.space[o].tables : f = mm.space[o].tables[i].ppn
    BY <1>1, Zenon DEF TableFrames
  <2> DEFINE w == <<"table", o, i, 0, mm.space[o].tables[i].ppn>>
  <2>2. w[5] = f
    BY <2>1
  <2>3. TableOwner(w)
    BY <2>1, Zenon DEF TableOwner
  <2> HIDE DEF w
  <2> QED BY <2>2, <2>3, OwnerKinds, Zenon
<1>2. CASE f \in AreasFrames(mm.space[o].areas)
  <2>1. PICK i \in DOMAIN mm.space[o].areas : f \in AreaFrames(mm.space[o].areas[i])
    BY <1>2, Zenon DEF AreasFrames
  <2>2. PICK v \in DOMAIN mm.space[o].areas[i].data_frames :
               f = mm.space[o].areas[i].data_frames[v]
    BY <2>1, Zenon DEF AreaFrames, Range
  <2> DEFINE w == <<"area", o, i, v, mm.space[o].areas[i].data_frames[v]>>
  <2>3. w[5] = f
    BY <2>2
  <2>4. AreaOwner(w)
    BY <2>1, <2>2, Zenon DEF AreaOwner
  <2> HIDE DEF w
  <2> QED BY <2>3, <2>4, OwnerKinds, Zenon
<1> QED BY <1>1, <1>2, Zenon DEF SpaceFrames

(* The frames in use and the free ones are those handed out so far.         *)
LEMMA OwnedFrames ==
  ASSUME Whole(mm)
  PROVE  {w[5] : w \in FrameOwners} = 0..(mm.fa.current - 1)
<1> DEFINE I == 0..(mm.fa.current - 1)
           free == mm.fa.recycled
<1>1. /\ Range(free) \subseteq I /\ InUse(mm.fa) = I \ Range(free)
  BY Zenon DEF Whole, MemOK, AllocOK, InUse
<1>2. InUse(mm.fa) = UNION {SpaceFrames(mm.space[o]) : o \in DOMAIN mm.space}
  <2>1. InUse(mm.fa) = {} \cup UNION {SpaceFrames(mm.space[o]) : o \in DOMAIN mm.space}
    BY Zenon DEF Whole, MemOK
  <2> QED BY <2>1
<1> HIDE DEF I
<1>3. ASSUME NEW w \in FrameOwners PROVE w[5] \in I
  <2>1. CASE TableOwner(w)
    <3>1. PICK o \in DOMAIN mm.space : \E i \in DOMAIN mm.space[o].tables :
                 w = <<"table", o, i, 0, mm.space[o].tables[i].ppn>>
      BY <2>1, Zenon DEF TableOwner
    <3>2. PICK i \in DOMAIN mm.space[o].tables :
                 w = <<"table", o, i, 0, mm.space[o].tables[i].ppn>>
      BY <3>1, Zenon
    <3>3. w[5] = mm.space[o].tables[i].ppn
      BY <3>2
    <3>4. w[5] \in SpaceFrames(mm.space[o])
      BY <3>3, FrameIn, Zenon DEF SpaceFrames
    <3> QED BY <1>1, <1>2, <3>4, Zenon
  <2>2. CASE AreaOwner(w)
    <3>1. PICK o \in DOMAIN mm.space : \E i \in DOMAIN mm.space[o].areas :
                 \E v \in DOMAIN mm.space[o].areas[i].data_frames :
                   w = <<"area", o, i, v, mm.space[o].areas[i].data_frames[v]>>
      BY <2>2, Zenon DEF AreaOwner
    <3>2. PICK i \in DOMAIN mm.space[o].areas :
                 \E v \in DOMAIN mm.space[o].areas[i].data_frames :
                   w = <<"area", o, i, v, mm.space[o].areas[i].data_frames[v]>>
      BY <3>1, Zenon
    <3>3. PICK v \in DOMAIN mm.space[o].areas[i].data_frames :
                 w = <<"area", o, i, v, mm.space[o].areas[i].data_frames[v]>>
      BY <3>2, Zenon
    <3>4. w[5] = mm.space[o].areas[i].data_frames[v]
      BY <3>3
    <3>5. w[5] \in SpaceFrames(mm.space[o])
      BY <3>4, FrameIn, Zenon DEF SpaceFrames
    <3> QED BY <1>1, <1>2, <3>5, Zenon
  <2>3. CASE FreeOwner(w)
    <3>1. PICK i \in DOMAIN free : w = <<"free", 0, i, 0, free[i]>>
      BY <2>3, Zenon DEF FreeOwner
    <3>2. w[5] = free[i]
      BY <3>1
    <3> QED BY <1>1, <3>2, Zenon DEF Range
  <2> QED BY <2>1, <2>2, <2>3, OwnerKinds, Zenon
<1>4. ASSUME NEW f \in I PROVE \E w \in FrameOwners : w[5] = f
  <2>1. CASE f \in Range(free)
    <3>1. PICK i \in DOMAIN free : f = free[i]
      BY <2>1, Zenon DEF Range
    <3> DEFINE w == <<"free", 0, i, 0, free[i]>>
    <3>2. w[5] = f
      BY <3>1
    <3>3. FreeOwner(w)
      BY <3>1, Zenon DEF FreeOwner
    <3> HIDE DEF w
    <3> QED BY <3>2, <3>3, OwnerKinds, Zenon
  <2>2. CASE f \notin Range(free)
    <3>1. PICK o \in DOMAIN mm.space : f \in SpaceFrames(mm.space[o])
      BY <1>1, <1>2, <1>4, <2>2, Zenon
    <3> QED BY <3>1, OwnerIn, Zenon
  <2> QED BY <2>1, <2>2
<1>5. {w[5] : w \in FrameOwners} = I
  <2> HIDE DEF free
  <2> QED BY <1>3, <1>4, Zenon
<1> QED BY <1>5, Zenon DEF I

\* The address space w names has w's frame, in its page table or in an area.
InTable(w) ==
  /\ w[2] \in DOMAIN mm.space
  /\ w[3] \in DOMAIN mm.space[w[2]].tables /\ w[5] = mm.space[w[2]].tables[w[3]].ppn
  /\ w = <<"table", w[2], w[3], 0, w[5]>>
  /\ w[5] \in TableFrames(mm.space[w[2]].tables)

InArea(w) ==
  /\ w[2] \in DOMAIN mm.space
  /\ w[3] \in DOMAIN mm.space[w[2]].areas
  /\ w[4] \in DOMAIN mm.space[w[2]].areas[w[3]].data_frames
  /\ w[5] = mm.space[w[2]].areas[w[3]].data_frames[w[4]]
  /\ w = <<"area", w[2], w[3], w[4], w[5]>>
  /\ w[5] \in AreaFrames(mm.space[w[2]].areas[w[3]])
  /\ w[5] \in AreasFrames(mm.space[w[2]].areas)

InFree(w) ==
  /\ w[3] \in DOMAIN mm.fa.recycled /\ w[5] = mm.fa.recycled[w[3]]
  /\ w = <<"free", 0, w[3], 0, w[5]>>

(* An owner is where it says.                                               *)
LEMMA OwnerIs ==
  ASSUME NEW w \in FrameOwners PROVE InTable(w) \/ InArea(w) \/ InFree(w)
<1>1. ASSUME TableOwner(w) PROVE InTable(w)
  <2>1. PICK o \in DOMAIN mm.space : \E i \in DOMAIN mm.space[o].tables :
               w = <<"table", o, i, 0, mm.space[o].tables[i].ppn>>
    BY <1>1, Zenon DEF TableOwner
  <2>2. PICK i \in DOMAIN mm.space[o].tables :
               w = <<"table", o, i, 0, mm.space[o].tables[i].ppn>>
    BY <2>1, Zenon
  <2> DEFINE f == mm.space[o].tables[i].ppn
  <2>3. f \in TableFrames(mm.space[o].tables)
    BY FrameIn, Zenon
  <2>4. w = <<"table", o, i, 0, f>>
    BY <2>2, Zenon
  <2> HIDE DEF f
  <2>5. w[2] = o /\ w[3] = i /\ w[5] = f
    BY <2>4
  <2> QED BY <2>3, <2>4, <2>5, Zenon DEF InTable, f
<1>2. ASSUME AreaOwner(w) PROVE InArea(w)
  <2>1. PICK o \in DOMAIN mm.space : \E i \in DOMAIN mm.space[o].areas :
               \E v \in DOMAIN mm.space[o].areas[i].data_frames :
                 w = <<"area", o, i, v, mm.space[o].areas[i].data_frames[v]>>
    BY <1>2, Zenon DEF AreaOwner
  <2>2. PICK i \in DOMAIN mm.space[o].areas :
               \E v \in DOMAIN mm.space[o].areas[i].data_frames :
                 w = <<"area", o, i, v, mm.space[o].areas[i].data_frames[v]>>
    BY <2>1, Zenon
  <2>3. PICK v \in DOMAIN mm.space[o].areas[i].data_frames :
               w = <<"area", o, i, v, mm.space[o].areas[i].data_frames[v]>>
    BY <2>2, Zenon
  <2> DEFINE f == mm.space[o].areas[i].data_frames[v]
  <2>4. f \in AreaFrames(mm.space[o].areas[i]) /\ f \in AreasFrames(mm.space[o].areas)
    BY FrameIn, Zenon
  <2>5. w = <<"area", o, i, v, f>>
    BY <2>3, Zenon
  <2> HIDE DEF f
  <2>6. w[2] = o /\ w[3] = i /\ w[4] = v /\ w[5] = f
    BY <2>5
  <2> QED BY <2>4, <2>5, <2>6, Zenon DEF InArea, f
<1>3. ASSUME FreeOwner(w) PROVE InFree(w)
  <2>1. PICK i \in DOMAIN mm.fa.recycled : w = <<"free", 0, i, 0, mm.fa.recycled[i]>>
    BY <1>3, Zenon DEF FreeOwner
  <2> DEFINE f == mm.fa.recycled[i]
  <2>2. w = <<"free", 0, i, 0, f>>
    BY <2>1, Zenon
  <2> HIDE DEF f
  <2>3. w[3] = i /\ w[5] = f
    BY <2>2
  <2> QED BY <2>2, <2>3, Zenon DEF InFree, f
<1> QED BY <1>1, <1>2, <1>3, OwnerKinds, Zenon

(* No frame has two owners.                                                 *)
LEMMA OwnersDiffer ==
  ASSUME Whole(mm), NEW w \in FrameOwners, NEW x \in FrameOwners, w[5] = x[5]
  PROVE  w = x
<1> DEFINE InSpace(u) == InTable(u) \/ InArea(u)
<1>1. (InSpace(w) \/ InFree(w)) /\ (InSpace(x) \/ InFree(x))
  BY OwnerIs, Zenon
<1>2. \A u : InSpace(u) => u[2] \in DOMAIN mm.space /\ u[5] \in SpaceFrames(mm.space[u[2]])
  BY Zenon DEF InTable, InArea, SpaceFrames
<1>3. \A u : InFree(u) => u[5] \in Range(mm.fa.recycled)
  BY Zenon DEF InFree, Range
<1>4. \A o \in DOMAIN mm.space : \A f \in SpaceFrames(mm.space[o]) : f \notin Range(mm.fa.recycled)
  <2>1. InUse(mm.fa) = {} \cup UNION {SpaceFrames(mm.space[o]) : o \in DOMAIN mm.space}
    BY Zenon DEF Whole, MemOK
  <2>2. \A f \in InUse(mm.fa) : f \notin Range(mm.fa.recycled)
    BY Zenon DEF InUse
  <2> QED BY <2>1, <2>2, Zenon
<1>5. \A o, q \in DOMAIN mm.space :
        o # q => SpaceFrames(mm.space[o]) \cap SpaceFrames(mm.space[q]) = {}
  BY Zenon DEF Whole, MemOK
<1>6. \A o \in DOMAIN mm.space : SpaceOK(mm.space[o])
  BY Zenon DEF Whole, MemOK
<1> HIDE DEF InSpace
<1>7. CASE InFree(w) /\ InFree(x)
  <2>1. IsInjective(mm.fa.recycled)
    BY Zenon DEF Whole, MemOK, AllocOK
  <2>2. w[3] = x[3]
    BY <1>7, <2>1, Zenon DEF InFree, IsInjective
  <2> QED BY <1>7, <2>2, Zenon DEF InFree
<1>8. CASE InSpace(w) /\ InSpace(x)
  <2>1. w[2] = x[2]
    BY <1>2, <1>5, <1>8, Zenon
  <2>2. SpaceOK(mm.space[w[2]])
    BY <1>2, <1>6, <1>8, Zenon
  <2> DEFINE sp == mm.space[w[2]]
  <2>3. /\ \A i, j \in DOMAIN sp.tables : sp.tables[i].ppn = sp.tables[j].ppn => i = j
        /\ \A i \in DOMAIN sp.areas : IsInjective(sp.areas[i].data_frames)
        /\ \A i, j \in DOMAIN sp.areas :
             i # j => AreaFrames(sp.areas[i]) \cap AreaFrames(sp.areas[j]) = {}
        /\ TableFrames(sp.tables) \cap AreasFrames(sp.areas) = {}
    BY <2>2, Zenon DEF SpaceOK, TablesOK, AreasOK
  <2>4. CASE InTable(w) /\ InTable(x)
    <3>1. w[3] = x[3]
      BY <2>1, <2>3, <2>4, Zenon DEF InTable
    <3> QED BY <2>1, <2>4, <3>1, Zenon DEF InTable
  <2>5. CASE InArea(w) /\ InArea(x)
    <3>1. w[3] = x[3]
      BY <2>1, <2>3, <2>5, Zenon DEF InArea
    <3>2. w[4] = x[4]
      <4> DEFINE g == sp.areas[w[3]].data_frames
      <4>1. IsInjective(g)
        BY <2>3, <2>5, Zenon DEF InArea
      <4>2. w[4] \in DOMAIN g /\ w[5] = g[w[4]]
        BY <2>5, Zenon DEF InArea
      <4>3. x[4] \in DOMAIN g /\ x[5] = g[x[4]]
        BY <2>1, <2>5, <3>1, Zenon DEF InArea
      <4> HIDE DEF g
      <4> QED BY <4>1, <4>2, <4>3, Zenon DEF IsInjective
    <3> QED BY <2>1, <2>5, <3>1, <3>2, Zenon DEF InArea
  <2>6. CASE (InTable(w) /\ InArea(x)) \/ (InArea(w) /\ InTable(x))
    BY <2>1, <2>3, <2>6, Zenon DEF InTable, InArea
  <2> QED BY <1>8, <2>4, <2>5, <2>6, Zenon DEF InSpace
<1>9. CASE (InSpace(w) /\ InFree(x)) \/ (InFree(w) /\ InSpace(x))
  BY <1>2, <1>3, <1>4, <1>9, Zenon
<1> QED BY <1>1, <1>7, <1>8, <1>9, Zenon

(* Every frame handed out so far has one owner: no frame is leaked, freed    *)
(* twice or shared, whatever forks, execs, exits and waits came before.      *)
THEOREM FramesOwnedOnceHolds == Spec => []FramesOwnedOnce
<1>1. ASSUME MemInv PROVE FramesOwnedOnce
  <2> DEFINE O == FrameOwners
             I == 0..(mm.fa.current - 1)
             f == [w \in O |-> w[5]]
  <2>1. Whole(mm)
    BY <1>1, Zenon DEF MemInv, Spaces
  <2>2. {w[5] : w \in O} = I
    BY <2>1, OwnedFrames, Zenon
  <2>3. \A w, x \in O : w[5] = x[5] => w = x
    BY <2>1, OwnersDiffer, Zenon
  <2>4. mm.fa.current \in Nat
    BY <2>1, Zenon DEF Whole, MemOK, AllocOK
  <2>5. IsFiniteSet(I) /\ Cardinality(I) = mm.fa.current
    <3> DEFINE c == mm.fa.current
    <3>1. c \in Nat /\ 0 \in Int /\ c - 1 \in Int /\ (0 > c - 1 => c = 0) /\ (c - 1) - 0 + 1 = c
      BY <2>4
    <3> HIDE DEF c
    <3>2. IsFiniteSet(0..(c - 1)) /\ Cardinality(0..(c - 1)) = IF 0 > c - 1 THEN 0 ELSE (c - 1) - 0 + 1
      BY <3>1, FS_Interval, Zenon
    <3>3. Cardinality(0..(c - 1)) = c
      BY <3>1, <3>2, Zenon
    <3> QED BY <3>2, <3>3, Zenon DEF c
  <2> HIDE DEF O, I
  <2>6. f \in Injection(O, I) /\ f \in Surjection(O, I)
    <3>1. f \in [O -> I] /\ \A w \in O : f[w] = w[5]
      BY <2>2
    <3>2. \A i \in I : \E w \in O : f[w] = i
      BY <2>2, <3>1
    <3> HIDE DEF f
    <3>3. DOMAIN f = O
      BY <3>1
    <3>4. IsInjective(f)
      BY <2>3, <3>1, <3>3, Zenon DEF IsInjective
    <3> QED BY <3>1, <3>2, <3>4 DEF Injection, Surjection
  <2> HIDE DEF f
  <2>7. Cardinality(O) = Cardinality(I)
    BY <2>5, <2>6, FS_Injection
  <2> QED BY <2>2, <2>5, <2>7, Zenon DEF FramesOwnedOnce, O, I
<1> QED
  BY MemInvHolds, <1>1, PTL
=============================================================================
