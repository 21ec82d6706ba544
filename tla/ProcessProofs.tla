---------------------------- MODULE ProcessProofs ----------------------------
(***************************************************************************)
(* Proofs about Processes, for any number of processes and threads: the      *)
(* scheduler holds only threads of living processes, the family tree is a    *)
(* tree, and a dead thread keeps its kernel stack only where it must.  First *)
(* the inductive invariant, with the facts about sequences and allocators it *)
(* rests on; then the steps that create nothing, those that add and remove   *)
(* control blocks, and the theorems.                                        *)
(***************************************************************************)
EXTENDS Processes, FiniteSetTheorems, WellFoundedInduction, TLAPS

-----------------------------------------------------------------------------
(* Sequences.                                                              *)

(* The prefixes of a filtered sequence, as a function of their length,       *)
(* exist: a least length without one would extend the one before.           *)
LEMMA FilterPrefixes ==
  ASSUME NEW T, NEW s \in Seq(T), NEW S
  PROVE  \E f : f = [i \in 0..Len(s) |->
                       IF i = 0 THEN <<>>
                       ELSE IF s[i] \in S THEN Append(f[i - 1], s[i]) ELSE f[i - 1]]
<1> DEFINE Val(f, i) == IF i = 0 THEN <<>>
                        ELSE IF s[i] \in S THEN Append(f[i - 1], s[i]) ELSE f[i - 1]
           Bad == {n \in Nat : n <= Len(s) /\ ~\E f : f = [i \in 0..n |-> Val(f, i)]}
<1>1. Len(s) \in Nat
  OBVIOUS
<1>2. Bad = {}
  <2> SUFFICES ASSUME Bad # {} PROVE FALSE
    OBVIOUS
  <2>1. PICK n \in Bad : \A j \in Bad : ~(<<j, n>> \in OpToRel(<, Nat))
    <3>1. Bad \subseteq Nat
      OBVIOUS
    <3> HIDE DEF Bad
    <3> QED BY Zenon, <3>1, NatLessThanWellFounded, WFMin
  <2>2. n \in Nat /\ n <= Len(s) /\ ~\E f : f = [i \in 0..n |-> Val(f, i)]
    OBVIOUS
  <2>3. \A j \in Bad : ~(j < n)
    BY Zenon, <2>1 DEF OpToRel
  <2>4. CASE n = 0
    <3> DEFINE g == [i \in 0..0 |-> <<>>]
    <3>1. g = [i \in 0..0 |-> Val(g, i)]
      OBVIOUS
    <3> QED BY Zenon, <2>2, <2>4, <3>1
  <2>5. CASE n # 0
    <3>1. n - 1 \in Nat /\ n - 1 <= Len(s) /\ n - 1 < n
      BY <1>1, <2>2, <2>5
    <3>2. n - 1 \notin Bad
      BY Zenon, <2>3, <3>1
    <3>3. PICK f : f = [i \in 0..(n - 1) |-> Val(f, i)]
      BY SMTT(20), <3>1, <3>2
    <3> DEFINE g == [i \in 0..n |-> IF i = n THEN Val(f, n) ELSE f[i]]
    <3>4. \A i \in 0..n : g[i] = Val(g, i)
      <4> SUFFICES ASSUME NEW i \in 0..n PROVE g[i] = Val(g, i)
        BY Zenon
      <4>1. i # 0 => g[i - 1] = f[i - 1]
        BY <2>2, <2>5
      <4>2. Val(g, i) = Val(f, i)
        BY <4>1
      <4>3. i # n => f[i] = Val(f, i)
        <5>1. i # n => i \in 0..(n - 1)
          BY <2>2
        <5> HIDE DEF Val
        <5> QED BY <3>3, <5>1
      <4> QED BY <4>2, <4>3
    <3>5. g = [i \in 0..n |-> Val(g, i)]
      BY <3>4
    <3> QED BY Zenon, <2>2, <3>5
  <2> QED BY <2>4, <2>5
<1>3. Len(s) \notin Bad
  BY <1>2
<1> QED BY <1>1, <1>3

(* What Filter returns.                                                     *)
LEMMA FilterProperties ==
  ASSUME NEW T, NEW s \in Seq(T), NEW S
  PROVE  /\ Filter(s, S) \in Seq(T)
         /\ Range(Filter(s, S)) = Range(s) \cap S
         /\ (\A i, j \in 1..Len(s) : s[i] \in S /\ s[i] = s[j] => i = j) => IsInjective(Filter(s, S))
<1> DEFINE Step(f, i) == IF i = 0 THEN <<>>
                         ELSE IF s[i] \in S THEN Append(f[i - 1], s[i]) ELSE f[i - 1]
           F == CHOOSE f : f = [i \in 0..Len(s) |-> Step(f, i)]
           Good(n) == /\ F[n] \in Seq(T)
                      /\ \A x \in T : (\E k \in 1..Len(F[n]) : F[n][k] = x)
                                       <=> x \in S /\ \E k \in 1..n : s[k] = x
                      /\ (\A i, j \in 1..Len(s) : s[i] \in S /\ s[i] = s[j] => i = j) =>
                           \A i, j \in 1..Len(F[n]) : F[n][i] = F[n][j] => i = j
           Bad == {n \in Nat : n <= Len(s) /\ ~Good(n)}
<1>1. Filter(s, S) = F[Len(s)]
  BY DEF Filter
<1>2. F = [i \in 0..Len(s) |-> Step(F, i)]
  <2>1. \E f : f = [i \in 0..Len(s) |-> Step(f, i)]
    BY SMTT(20), FilterPrefixes
  <2> HIDE DEF Step
  <2> QED BY <2>1, Zenon
<1>3. Len(s) \in Nat
  OBVIOUS
<1>4. \A i \in 0..Len(s) : F[i] = Step(F, i)
  <2> HIDE DEF F, Step
  <2> QED BY <1>2
<1> HIDE DEF F
<1>5. Good(0)
  <2>1. F[0] = <<>>
    BY <1>3, <1>4
  <2> QED BY <2>1
<1>6. ASSUME NEW n \in Nat, n < Len(s), Good(n) PROVE Good(n + 1)
  <2>1. F[n + 1] = IF s[n + 1] \in S THEN Append(F[n], s[n + 1]) ELSE F[n]
    BY <1>4, <1>6
  <2>2. s[n + 1] \in T
    BY <1>6
  <2>3. \A x : (\E k \in 1..(n + 1) : s[k] = x) <=> (\E k \in 1..n : s[k] = x) \/ s[n + 1] = x
    BY <1>6
  <2>4. CASE s[n + 1] \notin S
    BY <1>6, <2>1, <2>2, <2>3, <2>4
  <2>5. CASE s[n + 1] \in S
    <3> DEFINE q == F[n]
               r == Append(q, s[n + 1])
    <3>1. q \in Seq(T) /\ Len(q) \in Nat /\ r \in Seq(T) /\ Len(r) = Len(q) + 1 /\ r[Len(q) + 1] = s[n + 1]
          /\ \A k \in 1..Len(q) : r[k] = q[k]
      BY <1>6, <2>2
    <3>2. F[n + 1] = r
      BY <2>1, <2>5
    <3>0. /\ \A x \in T : (\E k \in 1..Len(q) : q[k] = x) <=> x \in S /\ \E k \in 1..n : s[k] = x
          /\ (\A i, j \in 1..Len(s) : s[i] \in S /\ s[i] = s[j] => i = j) =>
               \A i, j \in 1..Len(q) : q[i] = q[j] => i = j
      BY <1>6
    <3> HIDE DEF r, q
    <3>3. ASSUME NEW x \in T
          PROVE  (\E k \in 1..Len(r) : r[k] = x) <=> x \in S /\ \E k \in 1..(n + 1) : s[k] = x
      <4>1. (\E k \in 1..Len(r) : r[k] = x) <=> (\E k \in 1..Len(q) : q[k] = x) \/ s[n + 1] = x
        BY SMTT(20), <3>1
      <4> QED BY <2>3, <2>5, <3>0, <4>1
    <3>4. ASSUME \A i, j \in 1..Len(s) : s[i] \in S /\ s[i] = s[j] => i = j,
                 NEW i \in 1..Len(r), NEW j \in 1..Len(r), r[i] = r[j]
          PROVE  i = j
      <4>1. ASSUME NEW k \in 1..Len(q), q[k] = s[n + 1] PROVE FALSE
        <5>1. PICK l \in 1..n : s[l] = s[n + 1]
          BY <2>2, <3>0, <4>1
        <5> QED BY <1>6, <2>5, <3>4, <5>1
      <4>2. \A k, l \in 1..Len(q) : q[k] = q[l] => k = l
        BY <3>0, <3>4
      <4>3. ASSUME NEW k \in 1..Len(r), k # Len(q) + 1
            PROVE  k \in 1..Len(q) /\ r[k] = q[k]
        <5>1. k \in 1..Len(q)
          BY <3>1, <4>3
        <5> QED BY <3>1, <5>1
      <4> QED BY <3>1, <3>4, <4>1, <4>2, <4>3
    <3> QED BY <3>1, <3>2, <3>3, <3>4
  <2> QED BY <2>4, <2>5
<1>7. Bad = {}
  <2> SUFFICES ASSUME Bad # {} PROVE FALSE
    OBVIOUS
  <2>1. PICK n \in Bad : \A j \in Bad : ~(<<j, n>> \in OpToRel(<, Nat))
    <3>1. Bad \subseteq Nat
      OBVIOUS
    <3> HIDE DEF Bad
    <3> QED BY Zenon, <3>1, NatLessThanWellFounded, WFMin
  <2>2. \A j \in Bad : ~(j < n)
    BY Zenon, <2>1 DEF OpToRel
  <2> HIDE DEF Good
  <2>3. n \in Nat /\ n <= Len(s) /\ ~Good(n)
    OBVIOUS
  <2>4. n # 0
    BY <1>5, <2>3
  <2>5. n - 1 \in Nat /\ n - 1 < Len(s) /\ n - 1 <= Len(s) /\ n - 1 < n /\ (n - 1) + 1 = n
    BY <1>3, <2>3, <2>4
  <2>6. Good(n - 1)
    BY <2>2, <2>5
  <2> QED BY <1>6, <2>3, <2>5, <2>6
<1>8. Good(Len(s))
  <2> HIDE DEF Good
  <2> QED BY <1>3, <1>7
<1>9. Range(F[Len(s)]) = Range(s) \cap S
  BY <1>8 DEF Range
<1> QED
  BY <1>1, <1>8, <1>9 DEF IsInjective

(* What a queue or list holds after a push.                                 *)
LEMMA AppendRange ==
  ASSUME NEW T, NEW s \in Seq(T), NEW x \in T
  PROVE  /\ Append(s, x) \in Seq(T)
         /\ Range(Append(s, x)) = Range(s) \cup {x}
         /\ IsInjective(s) /\ x \notin Range(s) => IsInjective(Append(s, x))
<1> DEFINE r == Append(s, x)
<1>1. r \in Seq(T) /\ Len(s) \in Nat /\ Len(r) = Len(s) + 1 /\ r[Len(s) + 1] = x
      /\ (\A k \in 1..Len(s) : r[k] = s[k]) /\ DOMAIN r = 1..Len(r) /\ DOMAIN s = 1..Len(s)
  OBVIOUS
<1> HIDE DEF r
<1>2. \A k \in 1..Len(r) : k = Len(s) + 1 \/ k \in 1..Len(s)
  BY <1>1
<1>3. Range(r) = Range(s) \cup {x}
  BY <1>1, <1>2 DEF Range
<1>4. IsInjective(s) /\ x \notin Range(s) => IsInjective(r)
  BY <1>1, <1>2 DEF IsInjective, Range
<1> QED
  BY <1>1, <1>3, <1>4 DEF r

(* What a list holds after another one is put behind it.                    *)
LEMMA ConcatRange ==
  ASSUME NEW T, NEW s \in Seq(T), NEW u \in Seq(T)
  PROVE  /\ s \o u \in Seq(T)
         /\ Range(s \o u) = Range(s) \cup Range(u)
         /\ IsInjective(s) /\ IsInjective(u) /\ Range(s) \cap Range(u) = {} => IsInjective(s \o u)
<1> DEFINE r == s \o u
<1>1. r \in Seq(T) /\ Len(s) \in Nat /\ Len(u) \in Nat /\ Len(r) = Len(s) + Len(u)
      /\ (\A k \in 1..Len(s) : r[k] = s[k]) /\ DOMAIN r = 1..Len(r)
      /\ DOMAIN s = 1..Len(s) /\ DOMAIN u = 1..Len(u)
  OBVIOUS
<1>2. \A k \in 1..Len(u) : r[Len(s) + k] = u[k] /\ Len(s) + k \in 1..Len(r)
  OBVIOUS
<1> HIDE DEF r
<1>3. ASSUME NEW k \in 1..Len(r)
      PROVE  \/ k \in 1..Len(s) /\ r[k] = s[k]
             \/ k - Len(s) \in 1..Len(u) /\ r[k] = u[k - Len(s)] /\ k \notin 1..Len(s)
  <2>1. CASE k \in 1..Len(s)
    BY <1>1, <2>1
  <2>2. CASE k \notin 1..Len(s)
    <3>1. k - Len(s) \in 1..Len(u) /\ k = Len(s) + (k - Len(s))
      BY <1>1, <2>2
    <3> QED BY <1>2, <2>2, <3>1
  <2> QED BY <2>1, <2>2
<1>4. Range(r) = Range(s) \cup Range(u)
  <2>1. Range(r) \subseteq Range(s) \cup Range(u)
    BY Zenon, <1>1, <1>3 DEF Range
  <2>2. Range(s) \subseteq Range(r)
    BY <1>1 DEF Range
  <2>3. Range(u) \subseteq Range(r)
    BY Zenon, <1>1, <1>2 DEF Range
  <2> QED BY <2>1, <2>2, <2>3
<1>5. ASSUME IsInjective(s), IsInjective(u), Range(s) \cap Range(u) = {} PROVE IsInjective(r)
  <2> SUFFICES ASSUME NEW i \in 1..Len(r), NEW j \in 1..Len(r), r[i] = r[j] PROVE i = j
    BY <1>1 DEF IsInjective
  <2>1. CASE i \in 1..Len(s) /\ j \in 1..Len(s)
    BY <1>1, <1>5, <2>1 DEF IsInjective
  <2>2. CASE i \notin 1..Len(s) /\ j \notin 1..Len(s)
    <3>1. i - Len(s) \in 1..Len(u) /\ j - Len(s) \in 1..Len(u) /\ u[i - Len(s)] = u[j - Len(s)]
      BY <1>3, <2>2
    <3>2. i - Len(s) = j - Len(s)
      BY SMTT(20), <1>1, <1>5, <3>1 DEF IsInjective
    <3> QED BY <1>1, <3>2
  <2>3. CASE i \in 1..Len(s) /\ j \notin 1..Len(s)
    BY Zenon, <1>1, <1>3, <1>5, <2>3 DEF Range
  <2>4. CASE i \notin 1..Len(s) /\ j \in 1..Len(s)
    BY Zenon, <1>1, <1>3, <1>5, <2>4 DEF Range
  <2> QED BY <2>1, <2>2, <2>3, <2>4
<1> QED
  BY <1>1, <1>4, <1>5 DEF r

(* What a list without duplicates holds after one element is taken out.      *)
LEMMA RemoveAtRange ==
  ASSUME NEW T, NEW s \in Seq(T), NEW i \in 1..Len(s)
  PROVE  /\ RemoveAt(s, i) \in Seq(T)
         /\ Range(RemoveAt(s, i)) \subseteq Range(s)
         /\ IsInjective(s) => /\ Range(RemoveAt(s, i)) = Range(s) \ {s[i]}
                              /\ IsInjective(RemoveAt(s, i))
<1> DEFINE a == SubSeq(s, 1, i - 1)
           b == SubSeq(s, i + 1, Len(s))
<1>1. /\ a \in Seq(T) /\ Len(a) = i - 1 /\ DOMAIN a = 1..(i - 1)
      /\ \A k \in 1..(i - 1) : a[k] = s[k]
  OBVIOUS
<1>2. /\ b \in Seq(T) /\ Len(b) = Len(s) - i /\ DOMAIN b = 1..(Len(s) - i)
      /\ \A k \in 1..(Len(s) - i) : b[k] = s[i + k]
  OBVIOUS
<1>3. RemoveAt(s, i) = a \o b
  BY DEF RemoveAt
<1>4. DOMAIN s = 1..Len(s) /\ Len(s) \in Nat
  OBVIOUS
<1> HIDE DEF a, b
<1>5. Range(a) = {s[k] : k \in 1..(i - 1)}
  BY <1>1 DEF Range
<1>6. Range(b) = {s[k] : k \in (i + 1)..Len(s)}
  <2>1. ASSUME NEW k \in (i + 1)..Len(s)
        PROVE  k - i \in 1..(Len(s) - i) /\ b[k - i] = s[k]
    <3>1. k - i \in 1..(Len(s) - i) /\ i + (k - i) = k
      BY <1>4
    <3>2. b[k - i] = s[i + (k - i)]
      BY <1>2, <3>1
    <3> QED BY <3>1, <3>2
  <2>2. \A k \in 1..(Len(s) - i) : i + k \in (i + 1)..Len(s)
    BY <1>4
  <2>3. Range(b) = {b[k] : k \in 1..(Len(s) - i)}
    BY <1>2 DEF Range
  <2>4. {b[k] : k \in 1..(Len(s) - i)} \subseteq {s[k] : k \in (i + 1)..Len(s)}
    BY <1>2, <2>2
  <2>5. {s[k] : k \in (i + 1)..Len(s)} \subseteq {b[k] : k \in 1..(Len(s) - i)}
    BY <2>1
  <2> QED BY Zenon, <2>3, <2>4, <2>5
<1>7. Range(s) = {s[k] : k \in 1..Len(s)}
  BY <1>4 DEF Range
<1>8. ASSUME IsInjective(s)
      PROVE  /\ Range(a) \cup Range(b) = Range(s) \ {s[i]} /\ Range(a) \cap Range(b) = {}
             /\ IsInjective(a) /\ IsInjective(b)
  <2>1. \A k, l \in 1..Len(s) : s[k] = s[l] => k = l
    BY <1>4, <1>8 DEF IsInjective
  <2>2. Range(a) \cup Range(b) = Range(s) \ {s[i]} /\ Range(a) \cap Range(b) = {}
    BY <1>4, <1>5, <1>6, <1>7, <2>1
  <2>3. IsInjective(a)
    BY <1>1, <1>4, <2>1 DEF IsInjective
  <2>4. IsInjective(b)
    BY SMTT(20), <1>2, <1>4, <2>1 DEF IsInjective
  <2> QED BY <2>2, <2>3, <2>4
<1>9. Range(a) \cup Range(b) \subseteq Range(s)
  BY <1>4, <1>5, <1>6, <1>7
<1> QED
  BY <1>1, <1>2, <1>3, <1>8, <1>9, ConcatRange

(* What a queue holds after its head is taken.                              *)
LEMMA TailRange ==
  ASSUME NEW T, NEW s \in Seq(T), s # <<>>
  PROVE  /\ Head(s) \in Range(s) /\ Tail(s) \in Seq(T) /\ Range(Tail(s)) \subseteq Range(s)
         /\ IsInjective(s) => Head(s) \notin Range(Tail(s)) /\ IsInjective(Tail(s))
<1>1. /\ DOMAIN s = 1..Len(s) /\ Len(s) \in Nat \ {0} /\ Head(s) = s[1]
      /\ Tail(s) \in Seq(T) /\ DOMAIN Tail(s) = 1..(Len(s) - 1)
      /\ \A k \in 1..(Len(s) - 1) : Tail(s)[k] = s[k + 1]
  OBVIOUS
<1>2. \A k \in 1..(Len(s) - 1) : k + 1 \in 1..Len(s)
  BY <1>1
<1> QED
  BY <1>1, <1>2 DEF Range, IsInjective

-----------------------------------------------------------------------------
\* The allocators of ids.

\* What holds of a RecycleAllocator: the ids given back were handed out before,
\* and each is on the list once.
AllocOK(a) ==
  /\ a = [current |-> a.current, recycled |-> a.recycled]
  /\ a.current \in Nat /\ a.recycled \in Seq(Nat)
  /\ IsInjective(a.recycled) /\ Range(a.recycled) \subseteq 0..(a.current - 1)

(* alloc of RecycleAllocator hands out an id that nobody has.               *)
LEMMA AllocIsFresh ==
  ASSUME NEW a, AllocOK(a)
  PROVE  /\ AllocOK(alloc(a)) /\ NextId(a) \in Nat \ InUse(a)
         /\ InUse(alloc(a)) = InUse(a) \cup {NextId(a)}
<1> DEFINE n == a.current  r == a.recycled
<1>0. a = [current |-> n, recycled |-> r] /\ n \in Nat /\ r \in Seq(Nat)
      /\ IsInjective(r) /\ Range(r) \subseteq 0..(n - 1)
  BY DEF AllocOK
<1>1. CASE r # <<>>
  <2>1. Len(r) \in Nat \ {0} /\ DOMAIN r = 1..Len(r)
    BY <1>0, <1>1
  <2>2. Front(r) = RemoveAt(r, Len(r))
    <3>1. SubSeq(r, Len(r) + 1, Len(r)) = <<>>
      BY <1>0, <2>1
    <3>2. SubSeq(r, 1, Len(r) - 1) \in Seq(Nat)
      BY <1>0, <2>1
    <3>3. SubSeq(r, 1, Len(r) - 1) \o <<>> = SubSeq(r, 1, Len(r) - 1)
      BY <3>2
    <3> QED BY Zenon, <3>1, <3>3 DEF Front, RemoveAt
  <2>3. NextId(a) = r[Len(r)] /\ r[Len(r)] \in Range(r)
    BY <1>1, <2>1 DEF NextId, Last, Range
  <2>4. alloc(a) = [current |-> n, recycled |-> Front(r)]
    BY <1>0, <1>1 DEF alloc
  <2>5. /\ Front(r) \in Seq(Nat) /\ IsInjective(Front(r))
        /\ Range(Front(r)) = Range(r) \ {NextId(a)}
    BY <1>0, <2>1, <2>2, <2>3, RemoveAtRange
  <2> QED
    BY <1>0, <2>3, <2>4, <2>5 DEF AllocOK, InUse
<1>2. CASE r = <<>>
  <2>1. NextId(a) = n /\ alloc(a) = [current |-> n + 1, recycled |-> r]
    BY <1>0, <1>2 DEF NextId, alloc
  <2>2. Range(r) = {}
    BY <1>2 DEF Range
  <2> QED
    BY <1>0, <2>1, <2>2 DEF AllocOK, InUse
<1> QED
  BY <1>1, <1>2

(* The drops that give ids back, in whatever order.                         *)
LEMMA DeallocAllGivesBack ==
  ASSUME NEW a, AllocOK(a), NEW ids \in Seq(Nat), Range(ids) \subseteq InUse(a), IsInjective(ids)
  PROVE  AllocOK(DeallocAll(a, ids)) /\ InUse(DeallocAll(a, ids)) = InUse(a) \ Range(ids)
<1> DEFINE n == a.current  r == a.recycled
<1>0. a = [current |-> n, recycled |-> r] /\ n \in Nat /\ r \in Seq(Nat)
      /\ IsInjective(r) /\ Range(r) \subseteq 0..(n - 1)
  BY DEF AllocOK
<1>a. a.current = n /\ a.recycled = r
  OBVIOUS
<1> HIDE DEF n, r
<1> DEFINE b == DeallocAll(a, ids)
<1>1. b = [current |-> n, recycled |-> r \o ids] /\ b.current = n /\ b.recycled = r \o ids
  <2> DEFINE c == r \o ids
  <2>1. b = [a EXCEPT !.recycled = c]
    BY <1>a DEF DeallocAll
  <2> HIDE DEF b, c
  <2>2. b = [current |-> n, recycled |-> c] /\ b.current = n /\ b.recycled = c
    BY <1>0, <2>1
  <2> QED BY <2>2 DEF c
<1>2. Range(r) \cap Range(ids) = {} /\ Range(ids) \subseteq 0..(n - 1)
  BY <1>a DEF InUse
<1>3. r \o ids \in Seq(Nat) /\ Range(r \o ids) = Range(r) \cup Range(ids) /\ IsInjective(r \o ids)
  BY <1>0, <1>2, ConcatRange
<1> HIDE DEF b
<1>4. AllocOK(b)
  BY <1>0, <1>1, <1>2, <1>3 DEF AllocOK
<1>5. InUse(b) = InUse(a) \ (Range(b.recycled) \ Range(r))
  <2>1. Range(r) \subseteq Range(b.recycled)
    BY <1>1, <1>3
  <2>2. InUse(b) = (0..(n - 1)) \ Range(b.recycled) /\ InUse(a) = (0..(n - 1)) \ Range(r)
    BY <1>1, <1>a DEF InUse
  <2> QED BY <2>1, <2>2
<1> QED
  BY Zenon, <1>1, <1>2, <1>3, <1>4, <1>5 DEF b

(* dealloc of one id.                                                       *)
LEMMA DeallocGivesBack ==
  ASSUME NEW a, AllocOK(a), NEW id \in InUse(a)
  PROVE  AllocOK(dealloc(a, id)) /\ InUse(dealloc(a, id)) = InUse(a) \ {id}
<1> DEFINE n == a.current  r == a.recycled
<1>0. a = [current |-> n, recycled |-> r] /\ n \in Nat /\ r \in Seq(Nat)
      /\ IsInjective(r) /\ Range(r) \subseteq 0..(n - 1)
  BY DEF AllocOK
<1>a. a.current = n /\ a.recycled = r
  OBVIOUS
<1> HIDE DEF n, r
<1> DEFINE b == dealloc(a, id)
<1>1. b = [current |-> n, recycled |-> Append(r, id)] /\ b.current = n /\ b.recycled = Append(r, id)
  BY SMTT(20), <1>0, <1>a DEF dealloc
<1>2. id \notin Range(r) /\ id \in 0..(n - 1) /\ id \in Nat
  BY <1>0, <1>a DEF InUse
<1>3. /\ Append(r, id) \in Seq(Nat) /\ Range(Append(r, id)) = Range(r) \cup {id}
      /\ IsInjective(Append(r, id))
  BY <1>0, <1>2, AppendRange
<1> HIDE DEF b
<1>4. AllocOK(b)
  BY <1>0, <1>1, <1>2, <1>3 DEF AllocOK
<1>5. InUse(b) = InUse(a) \ (Range(b.recycled) \ Range(r))
  <2>1. Range(r) \subseteq Range(b.recycled)
    BY <1>1, <1>3
  <2>2. InUse(b) = (0..(n - 1)) \ Range(b.recycled) /\ InUse(a) = (0..(n - 1)) \ Range(r)
    BY <1>1, <1>a DEF InUse
  <2> QED BY <2>1, <2>2
<1> QED
  BY Zenon, <1>1, <1>2, <1>3, <1>4, <1>5 DEF b

(* The drop of a TCB, if there is one.                                      *)
LEMMA FreeTaskGivesBack ==
  ASSUME NEW a, AllocOK(a), NEW t \in InUse(a) \cup {None}
  PROVE  AllocOK(FreeTask(a, t)) /\ InUse(FreeTask(a, t)) = InUse(a) \ {t}
<1>1. None \notin InUse(a)
  BY DEF None, InUse
<1> QED
  BY <1>1, DeallocGivesBack DEF FreeTask

(* RecycleAllocator::new, and what a new process hands out first.            *)
LEMMA FirstId ==
  /\ AllocOK(NewAllocator) /\ InUse(NewAllocator) = {} /\ NextId(NewAllocator) = 0
  /\ AllocOK(alloc(NewAllocator)) /\ InUse(alloc(NewAllocator)) = {0}
<1>1. NewAllocator.current = 0 /\ NewAllocator.recycled = <<>>
  BY DEF NewAllocator
<1>2. AllocOK(NewAllocator)
  BY DEF NewAllocator, AllocOK, IsInjective, Range
<1>3. InUse(NewAllocator) = {}
  BY <1>1 DEF InUse
<1>4. NextId(NewAllocator) = 0
  BY <1>1 DEF NextId
<1> QED
  BY <1>2, <1>3, <1>4, AllocIsFresh

-----------------------------------------------------------------------------
\* The inductive invariant.

TaskFields == {"process", "tid", "res", "ustack_base", "trap_cx_ppn", "at"}
ProcFields == {"is_zombie", "parent", "children", "killed", "tasks",
               "task_res_allocator", "held"}

\* The process exists and has not exited.
IsLive(p) == p \in DOMAIN pcb /\ ~pcb[p].is_zombie

IdsOK ==
  /\ AllocOK(pid_allocator) /\ DOMAIN pcb = InUse(pid_allocator)
  /\ AllocOK(kstack_allocator) /\ DOMAIN tcb = InUse(kstack_allocator)

\* A thread with its TaskUserRes is where its tid says in a live process; one
\* without has exited itself, or with its process.
TaskOK(t) ==
  /\ DOMAIN tcb[t] = TaskFields
  /\ tcb[t].process \in DOMAIN pcb \cup {None}
  /\ tcb[t].tid \in Nat /\ tcb[t].res \in BOOLEAN
  /\ tcb[t].res => /\ IsLive(tcb[t].process) /\ tcb[t].at # "done"
                   /\ tcb[t].tid \in InUse(pcb[tcb[t].process].task_res_allocator)
                   /\ tcb[t].tid + 1 \in DOMAIN pcb[tcb[t].process].tasks
                   /\ pcb[tcb[t].process].tasks[tcb[t].tid + 1] = t
  /\ ~tcb[t].res => tcb[t].at = "done" \/ ~IsLive(tcb[t].process)

TasksOK == \A t \in DOMAIN tcb : TaskOK(t)

\* A zombie has given up its threads and its children.
ProcOK(p) ==
  /\ DOMAIN pcb[p] = ProcFields
  /\ pcb[p].is_zombie \in BOOLEAN /\ pcb[p].held \in Int
  /\ pcb[p].tasks \in Seq(Int) /\ pcb[p].children \in Seq(Nat)
  /\ pcb[p].is_zombie => pcb[p].tasks = <<>> /\ pcb[p].children = <<>>
  /\ ~pcb[p].is_zombie => AllocOK(pcb[p].task_res_allocator)

\* What tasks refers to exists and belongs there.
TasksOf(p) ==
  \A i \in DOMAIN pcb[p].tasks :
    pcb[p].tasks[i] # None => /\ pcb[p].tasks[i] \in DOMAIN tcb
                              /\ tcb[pcb[p].tasks[i]].process = p
                              /\ tcb[pcb[p].tasks[i]].tid = i - 1

ProcsOK == \A p \in DOMAIN pcb : ProcOK(p) /\ TasksOf(p)

StopOK ==
  stop_task # None => stop_task \in DOMAIN tcb /\ ~IsLive(tcb[stop_task].process)

PidsOK == PID2PCB = {p \in DOMAIN pcb : ~pcb[p].is_zombie}

\* What is ready or runs still has its TaskUserRes.
SchedOK ==
  /\ ready_queue \in Seq(Nat) /\ IsInjective(ready_queue)
  /\ Range(ready_queue) \subseteq DOMAIN tcb
  /\ \A t \in Range(ready_queue) : tcb[t].res
  /\ current \notin Range(ready_queue)
  /\ current # None => current \in DOMAIN tcb /\ tcb[current].res
  /\ mode # "idle" => current # None

\* The children lists and the parents agree.
FamilyOK ==
  /\ IsLive(INITPROC)
  /\ \A p \in DOMAIN pcb :
       /\ IsInjective(pcb[p].children)
       /\ \A c \in Range(pcb[p].children) :
            c \in DOMAIN pcb \ {INITPROC} /\ pcb[c].parent = p
  /\ \A p \in DOMAIN pcb \ {INITPROC} :
       pcb[p].parent \in DOMAIN pcb \ {p} /\ p \in Range(pcb[pcb[p].parent].children)

ProcInv ==
  /\ IdsOK /\ TasksOK /\ ProcsOK /\ StopOK /\ KernelStacksReclaimed /\ PidsOK /\ SchedOK
  /\ halted # "panic" => FamilyOK

-----------------------------------------------------------------------------
\* Steps that create and drop nothing.

\* Only at, held, killed and what exec replaces differ, and at only for threads
\* that have not exited.
SameTasks ==
  /\ DOMAIN tcb' = DOMAIN tcb
  /\ \A t \in DOMAIN tcb :
       /\ DOMAIN tcb'[t] = TaskFields
       /\ tcb'[t].process = tcb[t].process /\ tcb'[t].tid = tcb[t].tid
       /\ tcb'[t].res = tcb[t].res
       /\ tcb'[t].at = tcb[t].at \/ (tcb[t].res /\ tcb'[t].at # "done")

SameProcs ==
  /\ DOMAIN pcb' = DOMAIN pcb
  /\ \A p \in DOMAIN pcb :
       /\ DOMAIN pcb'[p] = ProcFields /\ pcb'[p].held \in Int
       /\ pcb'[p].is_zombie = pcb[p].is_zombie /\ pcb'[p].parent = pcb[p].parent
       /\ pcb'[p].children = pcb[p].children /\ pcb'[p].tasks = pcb[p].tasks
       /\ pcb'[p].task_res_allocator = pcb[p].task_res_allocator

(* Such a step keeps everything but the order of scheduling.                *)
LEMMA QuietStep ==
  ASSUME ProcInv, halted # "panic", SameTasks, SameProcs, SchedOK',
         UNCHANGED <<pid_allocator, kstack_allocator, PID2PCB, stop_task>>
  PROVE  ProcInv'
<1>1. IdsOK'
  BY DEF ProcInv, IdsOK, SameTasks, SameProcs
<1>2. TasksOK'
  BY DEF ProcInv, TasksOK, TaskOK, SameTasks, SameProcs, IsLive
<1>3. ProcsOK'
  <2> SUFFICES ASSUME NEW p \in DOMAIN pcb PROVE ProcOK(p)' /\ TasksOf(p)'
    BY DEF ProcsOK, SameProcs
  <2>1. ProcOK(p) /\ TasksOf(p)
    BY DEF ProcInv, ProcsOK
  <2>2. ProcOK(p)'
    BY <2>1 DEF ProcOK, SameProcs
  <2>3. TasksOf(p)'
    BY <2>1 DEF TasksOf, SameTasks, SameProcs
  <2> QED BY <2>2, <2>3
<1>4. StopOK' /\ PidsOK'
  BY DEF ProcInv, StopOK, PidsOK, SameTasks, SameProcs, IsLive
<1>5. KernelStacksReclaimed'
  <2> SUFFICES ASSUME NEW t \in DOMAIN tcb
               PROVE  (\/ \E p \in DOMAIN pcb : t \in Range(pcb[p].tasks)
                       \/ t = stop_task
                       \/ tcb[t].at \in BlockingWaits /\ ~tcb[t].res)'
    BY DEF KernelStacksReclaimed, SameTasks
  <2>1. CASE tcb[t].res
    <3>1. tcb[t].process \in DOMAIN pcb /\ t \in Range(pcb[tcb[t].process].tasks)
      BY <2>1 DEF ProcInv, TasksOK, TaskOK, IsLive, Range
    <3> QED BY <3>1 DEF SameProcs
  <2>2. CASE ~tcb[t].res
    <3>1. tcb'[t].at = tcb[t].at /\ tcb'[t].res = tcb[t].res
      BY <2>2 DEF SameTasks
    <3>2. \/ \E p \in DOMAIN pcb : t \in Range(pcb[p].tasks)
          \/ t = stop_task
          \/ tcb[t].at \in BlockingWaits /\ ~tcb[t].res
      BY DEF ProcInv, KernelStacksReclaimed
    <3> QED BY <3>1, <3>2 DEF SameProcs, BlockingWaits
  <2> QED BY <2>1, <2>2
<1>6. FamilyOK'
  BY DEF ProcInv, FamilyOK, SameProcs, IsLive
<1> QED
  BY SMTT(20), <1>1, <1>2, <1>3, <1>4, <1>5, <1>6 DEF ProcInv

(* A thread that has not exited comes to another place.                     *)
LEMMA MoveTask ==
  ASSUME ProcInv, NEW t \in DOMAIN tcb, tcb[t].res, NEW at, at # "done",
         tcb' = [tcb EXCEPT ![t].at = at]
  PROVE  SameTasks
<1> SUFFICES ASSUME NEW u \in DOMAIN tcb
             PROVE  /\ DOMAIN tcb'[u] = TaskFields
                    /\ tcb'[u].process = tcb[u].process /\ tcb'[u].tid = tcb[u].tid
                    /\ tcb'[u].res = tcb[u].res
                    /\ tcb'[u].at = tcb[u].at \/ (tcb[u].res /\ tcb'[u].at # "done")
  BY DEF SameTasks
<1>1. DOMAIN tcb[t] = TaskFields
  BY DEF ProcInv, TasksOK, TaskOK
<1>2. CASE u = t
  <2>1. tcb'[u] = [tcb[t] EXCEPT !.at = at]
    BY <1>2
  <2> QED BY <1>1, <1>2, <2>1 DEF TaskFields
<1>3. CASE u # t
  <2>1. tcb'[u] = tcb[u]
    BY <1>3
  <2> QED BY <2>1 DEF ProcInv, TasksOK, TaskOK
<1> QED BY <1>2, <1>3

(* An Arc of a process is put on a kernel stack, or taken from it.           *)
LEMMA MoveArc ==
  ASSUME ProcInv, NEW p \in DOMAIN pcb, NEW h \in Int, pcb' = [pcb EXCEPT ![p].held = h]
  PROVE  SameProcs
<1>1. DOMAIN pcb[p] = ProcFields
  BY DEF ProcInv, ProcsOK, ProcOK
<1>2. pcb'[p] = [pcb[p] EXCEPT !.held = h]
  OBVIOUS
<1>3. \A q \in DOMAIN pcb \ {p} : pcb'[q] = pcb[q]
  OBVIOUS
<1> QED
  BY <1>1, <1>2, <1>3 DEF ProcInv, ProcsOK, ProcOK, SameProcs, ProcFields

(* What a running thread can rely on: it is one of a live process.           *)
LEMMA CurrentLive ==
  ASSUME ProcInv, mode # "idle"
  PROVE  /\ current \in DOMAIN tcb /\ Self.res /\ current \notin Range(ready_queue)
         /\ IsLive(Pid) /\ Process = pcb[Pid] /\ Self = tcb[current] /\ Pid = tcb[current].process
         /\ Self.tid + 1 \in DOMAIN Process.tasks /\ Process.tasks[Self.tid + 1] = current
BY DEF ProcInv, SchedOK, TasksOK, TaskOK, Self, Pid, Process

(* run_tasks.                                                               *)
LEMMA RunTasksKeeps ==
  ASSUME ProcInv, RunTasks PROVE ProcInv'
<1> DEFINE t == Head(ready_queue)
           p == tcb[t].process
           at == IF tcb[t].at = "pipe" THEN tcb[t].at ELSE "user"
           h == IF tcb[t].at = "sem" THEN pcb[p].held - 1 ELSE pcb[p].held
<1>1. /\ t \in DOMAIN tcb /\ tcb[t].res /\ t \notin Range(Tail(ready_queue)) /\ t # None
      /\ Tail(ready_queue) \in Seq(Nat) /\ IsInjective(Tail(ready_queue))
      /\ Range(Tail(ready_queue)) \subseteq Range(ready_queue)
  <2>1. t \in Range(ready_queue) /\ t \notin Range(Tail(ready_queue))
        /\ Tail(ready_queue) \in Seq(Nat) /\ IsInjective(Tail(ready_queue))
        /\ Range(Tail(ready_queue)) \subseteq Range(ready_queue)
    BY TailRange DEF ProcInv, SchedOK, RunTasks
  <2>2. t \in DOMAIN tcb /\ tcb[t].res
    BY <2>1 DEF ProcInv, SchedOK
  <2>3. None \notin DOMAIN tcb
    BY DEF ProcInv, IdsOK, InUse, None
  <2> QED BY <2>1, <2>2, <2>3
<1>2. /\ current' = t /\ ready_queue' = Tail(ready_queue) /\ halted # "panic"
      /\ tcb' = [tcb EXCEPT ![t].at = at]
      /\ pcb' = [pcb EXCEPT ![p].held = h] /\ halted' = halted
      /\ UNCHANGED <<pid_allocator, kstack_allocator, PID2PCB, stop_task>>
  BY DEF RunTasks
<1>3. p \in DOMAIN pcb /\ pcb[p].held \in Int
  BY <1>1 DEF ProcInv, TasksOK, TaskOK, IsLive, ProcsOK, ProcOK
<1>4. at # "done" /\ h \in Int
  BY <1>3
<1> HIDE DEF t, p, at, h
<1>5. SameTasks
  BY Zenon, <1>1, <1>2, <1>4, MoveTask
<1>6. SameProcs
  BY Zenon, <1>2, <1>3, <1>4, MoveArc
<1>7. SchedOK'
  BY Zenon, <1>1, <1>2, <1>5 DEF ProcInv, SchedOK, SameTasks
<1> QED
  BY <1>2, <1>5, <1>6, <1>7, QuietStep

(* Nothing changes in the control blocks.                                   *)
LEMMA SameBlocks ==
  ASSUME ProcInv PROVE (tcb' = tcb => SameTasks) /\ (pcb' = pcb => SameProcs)
<1>1. ASSUME tcb' = tcb PROVE SameTasks
  BY <1>1 DEF ProcInv, TasksOK, TaskOK, SameTasks
<1>2. ASSUME pcb' = pcb PROVE SameProcs
  BY <1>2 DEF ProcInv, ProcsOK, ProcOK, SameProcs
<1> QED BY <1>1, <1>2

(* The running thread leaves the processor, to the ready queue or to wait.   *)
LEMMA SwitchKeeps ==
  ASSUME ProcInv, mode # "idle", NEW at, at # "done", Switch(at)
  PROVE  /\ SameTasks /\ SchedOK'
         /\ UNCHANGED <<pid_allocator, kstack_allocator, PID2PCB, stop_task, halted>>
<1>0. /\ current \in DOMAIN tcb /\ tcb[current].res /\ current \notin Range(ready_queue)
      /\ DOMAIN tcb \subseteq Nat
  BY CurrentLive DEF ProcInv, IdsOK, InUse, Self
<1>1. /\ tcb' = [tcb EXCEPT ![current].at = at]
      /\ ready_queue' = ready_queue \/ ready_queue' = Append(ready_queue, current)
      /\ current' = None /\ mode' = "idle"
  BY DEF Switch, add
<1>2. SameTasks
  BY Zenon, <1>0, <1>1, MoveTask
<1>3. /\ ready_queue' \in Seq(Nat) /\ IsInjective(ready_queue')
      /\ Range(ready_queue') \subseteq Range(ready_queue) \cup {current}
  <2>1. ready_queue \in Seq(Nat) /\ IsInjective(ready_queue)
    BY DEF ProcInv, SchedOK
  <2>2. current \in Nat
    BY <1>0
  <2>3. CASE ready_queue' = ready_queue
    BY <2>1, <2>3
  <2>4. CASE ready_queue' = Append(ready_queue, current)
    BY <1>0, <2>1, <2>2, <2>4, AppendRange
  <2> QED BY <1>1, <2>3, <2>4
<1>4. None \notin DOMAIN tcb
  BY DEF ProcInv, IdsOK, InUse, None
<1>5. SchedOK'
  <2>1. Range(ready_queue') \subseteq DOMAIN tcb /\ \A t \in Range(ready_queue') : tcb[t].res
    BY <1>0, <1>3 DEF ProcInv, SchedOK
  <2> QED BY SMTT(20), <1>1, <1>2, <1>3, <1>4, <2>1 DEF SchedOK, SameTasks
<1> QED BY <1>2, <1>5 DEF Switch

(* sys_yield, the timer interrupt, and a pipe that is still not ready.       *)
LEMMA YieldKeeps ==
  ASSUME ProcInv, Yield \/ PipeAgain PROVE ProcInv'
<1>1. PICK at \in {"yield", "pipe"} : Switch(at)
  BY DEF Yield, PipeAgain
<1>2. mode # "idle" /\ halted # "panic" /\ pcb' = pcb
  BY DEF Yield, PipeAgain, InSyscall
<1>3. at # "done"
  OBVIOUS
<1> QED
  BY <1>1, <1>2, <1>3, SwitchKeeps, SameBlocks, QuietStep

(* A system call that has to wait.                                          *)
LEMMA WaitKeeps ==
  ASSUME ProcInv, NEW at \in BlockingWaits \cup {"pipe"}, Wait(at) PROVE ProcInv'
<1> DEFINE h == IF KeepsArc(at) THEN pcb[Pid].held + 1 ELSE pcb[Pid].held
<1>1. mode # "idle" /\ halted # "panic" /\ at # "done" /\ Switch(at)
  BY DEF Wait, InSyscall, BlockingWaits
<1>2. Pid \in DOMAIN pcb /\ pcb[Pid].held \in Int
  BY <1>1, CurrentLive DEF ProcInv, ProcsOK, ProcOK, IsLive
<1>3. h \in Int /\ pcb' = [pcb EXCEPT ![Pid].held = h]
  BY <1>2 DEF Wait
<1> HIDE DEF h
<1>4. SameProcs
  BY Zenon, <1>2, <1>3, MoveArc
<1> QED
  BY SMTT(20), <1>1, <1>4, SwitchKeeps, QuietStep

(* The call on a pipe returns.                                              *)
LEMMA PipeDoneKeeps ==
  ASSUME ProcInv, PipeDone PROVE ProcInv'
<1> DEFINE h == pcb[Pid].held - 1
<1>1. /\ mode # "idle" /\ halted # "panic" /\ mode' = "return"
      /\ UNCHANGED <<ready_queue, current>>
      /\ UNCHANGED <<pid_allocator, kstack_allocator, PID2PCB, stop_task>>
  BY DEF PipeDone
<1>2. /\ Pid \in DOMAIN pcb /\ pcb[Pid].held \in Int
      /\ current \in DOMAIN tcb /\ tcb[current].res
  BY <1>1, CurrentLive DEF ProcInv, ProcsOK, ProcOK, IsLive, Self
<1>3. /\ h \in Int /\ pcb' = [pcb EXCEPT ![Pid].held = h]
      /\ tcb' = [tcb EXCEPT ![current].at = "user"]
  BY <1>2 DEF PipeDone
<1> HIDE DEF h
<1>4. SameProcs /\ SameTasks
  BY Zenon, <1>2, <1>3, MoveArc, MoveTask
<1>5. current # None
  BY <1>2 DEF ProcInv, IdsOK, InUse, None
<1>6. SchedOK'
  BY <1>1, <1>4, <1>5 DEF ProcInv, SchedOK, SameTasks
<1> QED
  BY <1>1, <1>4, <1>6, QuietStep

(* wakeup_task: what is woken is still a thread of a live process.           *)
LEMMA WakeUpKeeps ==
  ASSUME ProcInv, NEW t \in DOMAIN tcb, WakeUp(t) PROVE ProcInv'
<1>1. /\ mode # "idle" /\ halted # "panic" /\ Blocked(t)
      /\ ready_queue' = Append(ready_queue, t)
      /\ UNCHANGED <<pid_allocator, kstack_allocator, PID2PCB, stop_task, tcb, pcb, current>>
      /\ tcb[t].res \/ tcb[t].process = Pid
  BY DEF WakeUp, InSyscall, add
<1>2. IsLive(Pid) /\ current \in DOMAIN tcb
  BY <1>1, CurrentLive
<1>3. tcb[t].res /\ t \notin Range(ready_queue) /\ t # current
  <2>1. tcb[t].at # "done" /\ t \notin Range(ready_queue) /\ t # current
    BY <1>1 DEF Blocked, BlockingWaits
  <2> QED BY <1>1, <1>2, <2>1 DEF ProcInv, TasksOK, TaskOK
<1>4. t \in Nat /\ current # None
  BY <1>2 DEF ProcInv, IdsOK, InUse, None
<1>5. /\ ready_queue' \in Seq(Nat) /\ IsInjective(ready_queue')
      /\ Range(ready_queue') = Range(ready_queue) \cup {t}
  BY <1>1, <1>3, <1>4, AppendRange DEF ProcInv, SchedOK
<1>6. SchedOK'
  BY <1>1, <1>3, <1>4, <1>5 DEF ProcInv, SchedOK
<1> QED
  BY <1>1, <1>6, SameBlocks, QuietStep

(* sys_exec: the thread is the only one of its process.                     *)
LEMMA ExecKeeps ==
  ASSUME ProcInv, NEW pages \in Elf, Exec(pages) PROVE ProcInv'
<1>1. /\ mode # "idle" /\ halted # "panic" /\ mode' = "return"
      /\ UNCHANGED <<pid_allocator, kstack_allocator, PID2PCB, stop_task, pcb>>
      /\ UNCHANGED <<ready_queue, current>>
      /\ Len(Process.tasks) = 1
  BY DEF Exec, InSyscall
<1>2. current \in DOMAIN tcb /\ Process.tasks[1] = current
  <2>1. /\ current \in DOMAIN tcb /\ IsLive(Pid) /\ Process = pcb[Pid]
        /\ Self.tid + 1 \in DOMAIN Process.tasks /\ Process.tasks[Self.tid + 1] = current
    BY <1>1, CurrentLive
  <2>2. Process.tasks \in Seq(Int)
    BY <2>1 DEF ProcInv, ProcsOK, ProcOK, IsLive
  <2>3. DOMAIN Process.tasks = {1}
    BY SMTT(20), <1>1, <2>2
  <2> QED BY <2>1, <2>3
<1>3. PICK base, ppn : tcb' = [tcb EXCEPT ![current].ustack_base = base, ![current].trap_cx_ppn = ppn]
  BY Zenon, <1>2 DEF Exec
<1>4. SameTasks
  <2>1. DOMAIN tcb[current] = TaskFields
    BY <1>2 DEF ProcInv, TasksOK, TaskOK
  <2>2. tcb'[current] = [tcb[current] EXCEPT !.ustack_base = base, !.trap_cx_ppn = ppn]
    BY <1>2, <1>3
  <2>3. \A u \in DOMAIN tcb \ {current} : tcb'[u] = tcb[u]
    BY <1>3
  <2> QED
    BY SMTT(20), <1>2, <1>3, <2>1, <2>2, <2>3
    DEF ProcInv, TasksOK, TaskOK, SameTasks, TaskFields
<1>5. current # None
  BY <1>2 DEF ProcInv, IdsOK, InUse, None
<1>6. SchedOK'
  BY <1>1, <1>4, <1>5 DEF ProcInv, SchedOK, SameTasks
<1> QED
  BY SMTT(20), <1>1, <1>4, <1>6, SameBlocks, QuietStep

(* sys_kill.                                                                *)
LEMMA KillKeeps ==
  ASSUME ProcInv, NEW pid \in 0..(MaxPid - 1), Kill(pid) PROVE ProcInv'
<1>1. /\ mode # "idle" /\ halted # "panic" /\ mode' = "return" /\ pid \in PID2PCB
      /\ pcb' = [pcb EXCEPT ![pid].killed = TRUE]
      /\ UNCHANGED <<pid_allocator, kstack_allocator, PID2PCB, stop_task, tcb>>
      /\ UNCHANGED <<ready_queue, current>>
  BY DEF Kill, InSyscall
<1>2. pid \in DOMAIN pcb /\ DOMAIN pcb[pid] = ProcFields
  BY <1>1 DEF ProcInv, PidsOK, ProcsOK, ProcOK
<1>3. SameProcs
  <2>1. pcb'[pid] = [pcb[pid] EXCEPT !.killed = TRUE]
    BY <1>1, <1>2
  <2>2. \A q \in DOMAIN pcb \ {pid} : pcb'[q] = pcb[q]
    BY <1>1
  <2> QED
    BY <1>1, <1>2, <2>1, <2>2 DEF ProcInv, ProcsOK, ProcOK, SameProcs, ProcFields
<1>4. current # None
  BY <1>1, CurrentLive DEF ProcInv, IdsOK, InUse, None
<1>5. SchedOK'
  BY <1>1, <1>4 DEF ProcInv, SchedOK
<1> QED
  BY <1>1, <1>3, <1>5, SameBlocks, QuietStep

(* The return to user mode, the exit of initproc, and a stuttering step.     *)
LEMMA OthersKeep ==
  ASSUME ProcInv, TrapReturn \/ (ExitIdle /\ mode # "idle" /\ halted = "no") \/ UNCHANGED vars
  PROVE  ProcInv'
<1>1. CASE UNCHANGED vars
  <2>1. IdsOK' /\ TasksOK'
    BY <1>1 DEF vars, ProcInv, IdsOK, TasksOK, TaskOK, IsLive
  <2>2. ProcsOK'
    BY <1>1 DEF vars, ProcInv, ProcsOK, ProcOK, TasksOf
  <2>3. StopOK' /\ KernelStacksReclaimed'
    BY <1>1 DEF vars, ProcInv, StopOK, KernelStacksReclaimed, IsLive
  <2>4. PidsOK' /\ SchedOK' /\ (halted' # "panic" => FamilyOK')
    BY <1>1 DEF vars, ProcInv, PidsOK, SchedOK, FamilyOK, IsLive
  <2> QED BY SMTT(20), <2>1, <2>2, <2>3, <2>4 DEF ProcInv
<1>2. CASE TrapReturn \/ (ExitIdle /\ mode # "idle" /\ halted = "no")
  <2>1. /\ halted # "panic"
        /\ UNCHANGED <<pid_allocator, kstack_allocator, PID2PCB, stop_task, tcb, pcb>>
        /\ UNCHANGED ready_queue
        /\ \/ current' = current /\ mode # "idle"
           \/ current' = None /\ mode' = "idle"
    BY <1>2 DEF TrapReturn, ExitIdle
  <2>2. None \notin Range(ready_queue)
    BY DEF ProcInv, IdsOK, SchedOK, InUse, None
  <2>3. SchedOK'
    BY <2>1, <2>2 DEF ProcInv, SchedOK
  <2> QED BY <2>1, <2>3, SameBlocks, QuietStep
<1> QED BY SMTT(20), <1>1, <1>2

-----------------------------------------------------------------------------
\* The exits of threads, and the waits for them.

(* A thread other than the main one exits: only its own tid is given back.   *)
LEMMA ExitThreadKeeps ==
  ASSUME ProcInv, ExitThread, mode # "idle", halted = "no" PROVE ProcInv'
<1> DEFINE c == current
           p == Pid
           id == Self.tid
           a == pcb[p].task_res_allocator
<1>1. /\ c \in DOMAIN tcb /\ tcb[c].res /\ p \in DOMAIN pcb /\ ~pcb[p].is_zombie
      /\ tcb[c].process = p /\ tcb[c].tid = id /\ id \in InUse(a) /\ AllocOK(a)
      /\ id + 1 \in DOMAIN pcb[p].tasks /\ pcb[p].tasks[id + 1] = c
      /\ DOMAIN tcb[c] = TaskFields /\ DOMAIN pcb[p] = ProcFields
      /\ c \notin Range(ready_queue)
  BY CurrentLive DEF ProcInv, TasksOK, TaskOK, ProcsOK, ProcOK, IsLive, Self, Process
<1>2. /\ tcb' = [tcb EXCEPT ![c].res = FALSE, ![c].at = "done"]
      /\ pcb' = [pcb EXCEPT ![p].task_res_allocator = dealloc(a, id)]
      /\ UNCHANGED <<pid_allocator, kstack_allocator, PID2PCB, stop_task>>
      /\ ready_queue' = ready_queue /\ current' = None /\ mode' = "idle"
  BY DEF ExitThread
<1>3. AllocOK(dealloc(a, id)) /\ InUse(dealloc(a, id)) = InUse(a) \ {id}
  BY <1>1, DeallocGivesBack
<1> HIDE DEF c, p, id, a
<1>4. /\ DOMAIN tcb' = DOMAIN tcb /\ DOMAIN tcb'[c] = TaskFields
      /\ tcb'[c].process = p /\ tcb'[c].tid = id /\ tcb'[c].res = FALSE /\ tcb'[c].at = "done"
      /\ \A u \in DOMAIN tcb : u # c => tcb'[u] = tcb[u]
  <2>1. tcb'[c] = [tcb[c] EXCEPT !.res = FALSE, !.at = "done"]
    BY <1>1, <1>2
  <2> QED BY Zenon, <1>1, <1>2, <2>1 DEF TaskFields
<1>5. /\ DOMAIN pcb' = DOMAIN pcb
      /\ \A q \in DOMAIN pcb :
           /\ DOMAIN pcb'[q] = DOMAIN pcb[q] /\ pcb'[q].held = pcb[q].held
           /\ pcb'[q].is_zombie = pcb[q].is_zombie /\ pcb'[q].parent = pcb[q].parent
           /\ pcb'[q].children = pcb[q].children /\ pcb'[q].tasks = pcb[q].tasks
           /\ q # p => pcb'[q].task_res_allocator = pcb[q].task_res_allocator
      /\ pcb'[p].task_res_allocator = dealloc(a, id)
  <2>1. pcb'[p] = [pcb[p] EXCEPT !.task_res_allocator = dealloc(a, id)]
    BY <1>1, <1>2
  <2>2. \A q \in DOMAIN pcb : q # p => pcb'[q] = pcb[q]
    BY <1>2
  <2> HIDE DEF dealloc
  <2> QED BY <1>1, <1>2, <2>1, <2>2 DEF ProcFields
<1>6. IdsOK' /\ PidsOK'
  BY <1>2, <1>4, <1>5 DEF ProcInv, IdsOK, PidsOK
<1>7. TasksOK'
  <2> SUFFICES ASSUME NEW u \in DOMAIN tcb PROVE TaskOK(u)'
    BY SMTT(20), <1>4 DEF TasksOK
  <2>1. CASE u = c
    BY ZenonT(30), <1>1, <1>4, <1>5, <2>1 DEF ProcInv, TasksOK, TaskOK
  <2>2. CASE u # c
    <3>1. TaskOK(u) /\ tcb'[u] = tcb[u]
      BY <1>4, <2>2 DEF ProcInv, TasksOK
    <3>2. tcb[u].res /\ tcb[u].process = p => tcb[u].tid # id
      BY SMTT(20), <1>1, <2>2, <3>1 DEF TaskOK
    <3>3. ASSUME tcb[u].res
          PROVE  tcb[u].tid \in InUse(pcb'[tcb[u].process].task_res_allocator)
      <4>1. tcb[u].process \in DOMAIN pcb /\ tcb[u].tid \in InUse(pcb[tcb[u].process].task_res_allocator)
        BY <3>1, <3>3 DEF TaskOK, IsLive
      <4> QED BY SMTT(20), <1>3, <1>5, <3>2, <3>3, <4>1 DEF a
    <3> QED BY <1>5, <3>1, <3>3 DEF TaskOK, IsLive
  <2> QED BY <2>1, <2>2
<1>8. ProcsOK'
  <2> SUFFICES ASSUME NEW q \in DOMAIN pcb PROVE ProcOK(q)' /\ TasksOf(q)'
    BY <1>5 DEF ProcsOK
  <2>1. ProcOK(q) /\ TasksOf(q)
    BY DEF ProcInv, ProcsOK
  <2>2. ProcOK(q)'
    BY ZenonT(30), <1>3, <1>5, <2>1 DEF ProcOK
  <2>3. TasksOf(q)'
    BY <1>1, <1>4, <1>5, <2>1 DEF TasksOf
  <2> QED BY <2>2, <2>3
<1>9. StopOK'
  BY SMTT(20), <1>1, <1>2, <1>4, <1>5 DEF ProcInv, StopOK, IsLive
<1>10. KernelStacksReclaimed'
  <2>1. c \in Range(pcb[p].tasks)
    BY <1>1 DEF Range
  <2> QED
    BY SMTT(20), <1>1, <1>2, <1>4, <1>5, <2>1
    DEF ProcInv, KernelStacksReclaimed, BlockingWaits
<1>11. SchedOK'
  <2>1. None \notin Range(ready_queue)
    BY DEF ProcInv, IdsOK, SchedOK, InUse, None
  <2> QED BY <1>1, <1>2, <1>4, <2>1 DEF ProcInv, SchedOK
<1>12. FamilyOK'
  BY <1>5 DEF ProcInv, FamilyOK, IsLive
<1> QED
  BY SMTT(20), <1>6, <1>7, <1>8, <1>9, <1>10, <1>11, <1>12 DEF ProcInv

(* sys_waittid: the place in tasks is emptied and the kernel stack comes back. *)
LEMMA WaittidKeeps ==
  ASSUME ProcInv, NEW tid \in Nat, Waittid(tid) PROVE ProcInv'
<1> DEFINE p == Pid
           tasks == pcb[p].tasks
           t == tasks[tid + 1]
<1>1. /\ current \in DOMAIN tcb /\ p \in DOMAIN pcb /\ ~pcb[p].is_zombie
      /\ ProcOK(p) /\ TasksOf(p) /\ Process = pcb[p]
      /\ halted # "panic" /\ mode # "idle"
  <2>1. mode # "idle" /\ halted # "panic"
    BY DEF Waittid, InSyscall
  <2> QED BY <2>1, CurrentLive DEF ProcInv, ProcsOK, IsLive
<1>2. /\ tid < Len(tasks) /\ t # None /\ tcb[t].at = "done"
      /\ kstack_allocator' = dealloc(kstack_allocator, t) /\ tcb' = WithoutTask(tcb, t)
      /\ pcb' = [pcb EXCEPT ![p].tasks[tid + 1] = None]
      /\ mode' = "return"
      /\ UNCHANGED <<pid_allocator, PID2PCB, stop_task>> /\ UNCHANGED <<ready_queue, current>>
  BY <1>1 DEF Waittid
<1>3. tasks \in Seq(Int) /\ tid + 1 \in DOMAIN tasks
  BY <1>1, <1>2 DEF ProcOK
<1>4. t \in DOMAIN tcb /\ tcb[t].process = p /\ tcb[t].tid = tid /\ ~tcb[t].res
  BY <1>1, <1>2, <1>3 DEF ProcInv, TasksOK, TaskOK, TasksOf
<1> HIDE DEF p, t
<1>5. DOMAIN tcb' = DOMAIN tcb \ {t} /\ \A u \in DOMAIN tcb' : tcb'[u] = tcb[u]
  BY <1>2 DEF WithoutTask
<1>6. /\ DOMAIN pcb' = DOMAIN pcb
      /\ \A q \in DOMAIN pcb :
           /\ DOMAIN pcb'[q] = DOMAIN pcb[q] /\ pcb'[q].held = pcb[q].held
           /\ pcb'[q].is_zombie = pcb[q].is_zombie /\ pcb'[q].parent = pcb[q].parent
           /\ pcb'[q].children = pcb[q].children
           /\ pcb'[q].task_res_allocator = pcb[q].task_res_allocator
           /\ q # p => pcb'[q].tasks = pcb[q].tasks
      /\ pcb'[p].tasks = [tasks EXCEPT ![tid + 1] = None]
  <2> DEFINE new == [tasks EXCEPT ![tid + 1] = None]
  <2>1. pcb'[p] = [pcb[p] EXCEPT !.tasks = new]
    BY <1>1, <1>2
  <2>2. \A q \in DOMAIN pcb : q # p => pcb'[q] = pcb[q]
    BY <1>2
  <2>3. DOMAIN pcb' = DOMAIN pcb /\ DOMAIN pcb[p] = ProcFields
    BY <1>1, <1>2 DEF ProcOK
  <2> HIDE DEF new
  <2>4. pcb'[p].tasks = new
    BY <2>1, <2>3 DEF ProcFields
  <2>5. ASSUME NEW q \in DOMAIN pcb
        PROVE  /\ DOMAIN pcb'[q] = DOMAIN pcb[q] /\ pcb'[q].held = pcb[q].held
               /\ pcb'[q].is_zombie = pcb[q].is_zombie /\ pcb'[q].parent = pcb[q].parent
               /\ pcb'[q].children = pcb[q].children
               /\ pcb'[q].task_res_allocator = pcb[q].task_res_allocator
               /\ q # p => pcb'[q].tasks = pcb[q].tasks
    BY SMTT(20), <2>1, <2>2, <2>3 DEF ProcFields
  <2> QED BY <2>3, <2>4, <2>5 DEF new
<1>7. /\ pcb'[p].tasks \in Seq(Int) /\ DOMAIN pcb'[p].tasks = DOMAIN tasks
      /\ pcb'[p].tasks[tid + 1] = None
      /\ \A i \in DOMAIN tasks : i # tid + 1 => pcb'[p].tasks[i] = tasks[i]
  <2>1. None \in Int
    BY DEF None
  <2> QED BY <1>3, <1>6, <2>1
<1>8. IdsOK' /\ PidsOK'
  <2>1. t \in InUse(kstack_allocator) /\ AllocOK(kstack_allocator)
    BY <1>4 DEF ProcInv, IdsOK
  <2>2. /\ AllocOK(kstack_allocator')
        /\ InUse(kstack_allocator') = InUse(kstack_allocator) \ {t}
    BY SMTT(20), <1>2, <2>1, DeallocGivesBack
  <2> QED BY SMTT(20), <1>2, <1>5, <1>6, <2>2 DEF ProcInv, IdsOK, PidsOK
<1>9. TasksOK'
  <2> SUFFICES ASSUME NEW u \in DOMAIN tcb, u # t PROVE TaskOK(u)'
    BY <1>5 DEF TasksOK
  <2>1. TaskOK(u) /\ tcb'[u] = tcb[u]
    BY <1>5 DEF ProcInv, TasksOK
  <2>2. ASSUME tcb[u].res
        PROVE  /\ tcb[u].tid + 1 \in DOMAIN pcb'[tcb[u].process].tasks
               /\ pcb'[tcb[u].process].tasks[tcb[u].tid + 1] = u
    <3>1. /\ tcb[u].process \in DOMAIN pcb /\ tcb[u].tid + 1 \in DOMAIN pcb[tcb[u].process].tasks
          /\ pcb[tcb[u].process].tasks[tcb[u].tid + 1] = u
      BY <2>1, <2>2 DEF TaskOK, IsLive
    <3>2. CASE tcb[u].process = p
      BY <1>7, <3>1, <3>2 DEF t
    <3>3. CASE tcb[u].process # p
      BY <1>6, <3>1, <3>3
    <3> QED BY <3>2, <3>3
  <2> QED BY <1>6, <2>1, <2>2 DEF TaskOK, IsLive
<1>10. ProcsOK'
  <2> SUFFICES ASSUME NEW q \in DOMAIN pcb PROVE ProcOK(q)' /\ TasksOf(q)'
    BY <1>6 DEF ProcsOK
  <2>1. ProcOK(q) /\ TasksOf(q)
    BY DEF ProcInv, ProcsOK
  <2>2. ProcOK(q)'
    BY Zenon, <1>1, <1>6, <1>7, <2>1 DEF ProcOK
  <2>3. CASE q = p
    <3>1. ASSUME NEW i \in DOMAIN tasks, i # tid + 1, tasks[i] # None
          PROVE  tasks[i] \in DOMAIN tcb' /\ tcb'[tasks[i]].process = p /\ tcb'[tasks[i]].tid = i - 1
      <4>1. tasks[i] \in DOMAIN tcb /\ tcb[tasks[i]].process = p /\ tcb[tasks[i]].tid = i - 1
        BY <1>1, <3>1 DEF TasksOf
      <4>2. tasks[i] # t
        BY SMTT(20), <1>3, <1>4, <3>1, <4>1
      <4> QED BY SMTT(20), <1>5, <4>1, <4>2
    <3> HIDE DEF tasks
    <3> QED BY SMTT(20), <1>7, <2>2, <2>3, <3>1 DEF TasksOf
  <2>4. CASE q # p
    <3>1. pcb'[q].tasks = pcb[q].tasks
      BY <1>6, <2>4
    <3>2. \A u \in DOMAIN tcb : tcb[u].process = q => u \in DOMAIN tcb' /\ tcb'[u] = tcb[u]
      BY <1>4, <1>5, <2>4
    <3> QED BY SMTT(20), <2>1, <2>2, <3>1, <3>2 DEF TasksOf
  <2> QED BY SMTT(20), <2>2, <2>3, <2>4
<1>11. StopOK'
  BY SMTT(20), <1>1, <1>2, <1>4, <1>5, <1>6 DEF ProcInv, StopOK, IsLive
<1>12. KernelStacksReclaimed'
  <2>1. ASSUME NEW u \in DOMAIN tcb, u # t, NEW q \in DOMAIN pcb, u \in Range(pcb[q].tasks)
        PROVE  u \in Range(pcb'[q].tasks)
    <3>1. CASE q = p
      <4>1. PICK i \in DOMAIN tasks : tasks[i] = u
        BY <2>1, <3>1 DEF Range
      <4>2. i # tid + 1
        BY <2>1, <4>1 DEF t
      <4> QED BY SMTT(20), <1>7, <3>1, <4>1, <4>2 DEF Range
    <3>2. CASE q # p
      BY SMTT(20), <1>6, <2>1, <3>2
    <3> QED BY <3>1, <3>2
  <2>2. ASSUME NEW u \in DOMAIN tcb'
        PROVE  \/ \E q \in DOMAIN pcb' : u \in Range(pcb'[q].tasks)
               \/ u = stop_task'
               \/ tcb'[u].at \in BlockingWaits /\ ~tcb'[u].res
    <3>1. u \in DOMAIN tcb /\ u # t /\ tcb'[u] = tcb[u]
      BY <1>5
    <3>2. \/ \E q \in DOMAIN pcb : u \in Range(pcb[q].tasks)
          \/ u = stop_task
          \/ tcb[u].at \in BlockingWaits /\ ~tcb[u].res
      BY <3>1 DEF ProcInv, KernelStacksReclaimed
    <3>3. DOMAIN pcb' = DOMAIN pcb /\ stop_task' = stop_task
      BY <1>2, <1>6
    <3> QED BY SMTT(20), <2>1, <3>1, <3>2, <3>3
  <2> QED BY <2>2 DEF KernelStacksReclaimed, BlockingWaits
<1>13. SchedOK'
  <2>1. current # None
    BY <1>1 DEF ProcInv, IdsOK, InUse, None
  <2>2. t \notin Range(ready_queue) /\ t # current
    BY SMTT(20), <1>4, <2>1 DEF ProcInv, SchedOK
  <2> QED BY SMTT(20), <1>2, <1>5, <2>1, <2>2 DEF ProcInv, SchedOK
<1>14. FamilyOK'
  BY <1>1, <1>6 DEF ProcInv, FamilyOK, IsLive
<1> QED
  BY SMTT(20), <1>8, <1>9, <1>10, <1>11, <1>12, <1>13, <1>14 DEF ProcInv

-----------------------------------------------------------------------------
\* New threads and processes.

(* The larger of two numbers.                                               *)
LEMMA MaxOfTwo ==
  ASSUME NEW m \in Nat, NEW n \in Nat
  PROVE  Max({m, n}) \in Nat /\ Max({m, n}) >= m /\ Max({m, n}) >= n
<1>1. \E x \in {m, n} : \A y \in {m, n} : x >= y
  OBVIOUS
<1>2. Max({m, n}) \in {m, n} /\ \A y \in {m, n} : Max({m, n}) >= y
  BY <1>1 DEF Max
<1> QED BY <1>2

(* sys_thread_create: the tid is free, so what its place in tasks still holds *)
(* is a thread that exited, which can be dropped.                           *)
LEMMA ThreadCreateKeeps ==
  ASSUME ProcInv, ThreadCreate PROVE ProcInv'
<1> DEFINE p == Pid
           a == pcb[p].task_res_allocator
           tasks == pcb[p].tasks
           tid == NextId(a)
           t == NextId(kstack_allocator)
           len == Max({Len(tasks), tid + 1})
           old == IF tid < Len(tasks) THEN tasks[tid + 1] ELSE None
           new == [i \in 1..len |-> IF i = tid + 1 THEN t
                                    ELSE IF i \in DOMAIN tasks THEN tasks[i] ELSE None]
<1>1. /\ current \in DOMAIN tcb /\ p \in DOMAIN pcb /\ ~pcb[p].is_zombie
      /\ ProcOK(p) /\ TasksOf(p) /\ Process = pcb[p]
      /\ halted # "panic" /\ mode # "idle" /\ current \notin Range(ready_queue)
      /\ DOMAIN tcb \subseteq Nat /\ AllocOK(kstack_allocator)
      /\ DOMAIN tcb = InUse(kstack_allocator)
  <2>1. mode # "idle" /\ halted # "panic"
    BY DEF ThreadCreate, InSyscall
  <2> QED BY <2>1, CurrentLive DEF ProcInv, ProcsOK, IsLive, IdsOK, InUse
<1>2. /\ kstack_allocator' = FreeTask(alloc(kstack_allocator), old)
      /\ \E base, ppn : tcb' = With(WithoutTask(tcb, old), t, NewTask(p, tid, base, ppn))
      /\ pcb' = [pcb EXCEPT ![p].task_res_allocator = alloc(a), ![p].tasks = new]
      /\ ready_queue' = Append(ready_queue, t) /\ mode' = "return"
      /\ UNCHANGED <<pid_allocator, PID2PCB, stop_task, current>>
  <2>1. kstack_allocator' = FreeTask(alloc(kstack_allocator), old)
    BY DEF ThreadCreate, Process
  <2>2. \E base, ppn : tcb' = With(WithoutTask(tcb, old), t, NewTask(p, tid, base, ppn))
    BY Zenon DEF ThreadCreate, Process
  <2>3. pcb' = [pcb EXCEPT ![p].task_res_allocator = alloc(a), ![p].tasks = new]
    BY DEF ThreadCreate, Process
  <2>4. /\ ready_queue' = Append(ready_queue, t) /\ mode' = "return"
        /\ UNCHANGED <<pid_allocator, PID2PCB, stop_task, current>>
    BY DEF ThreadCreate, add
  <2> QED BY <2>1, <2>2, <2>3, <2>4
<1>3. /\ AllocOK(alloc(a)) /\ InUse(alloc(a)) = InUse(a) \cup {tid}
      /\ tid \in Nat /\ tid \notin InUse(a)
  BY <1>1, AllocIsFresh DEF ProcOK
<1>4. /\ AllocOK(alloc(kstack_allocator)) /\ t \in Nat /\ t \notin DOMAIN tcb
      /\ InUse(alloc(kstack_allocator)) = DOMAIN tcb \cup {t}
  BY <1>1, AllocIsFresh
<1>5. tasks \in Seq(Int) /\ Len(tasks) \in Nat /\ DOMAIN tasks = 1..Len(tasks)
  BY <1>1 DEF ProcOK
<1>6. len \in Nat /\ len >= Len(tasks) /\ len >= tid + 1
  <2>1. Len(tasks) \in Nat /\ tid + 1 \in Nat
    BY <1>3, <1>5
  <2>2. \A m, n \in Nat : Max({m, n}) \in Nat /\ Max({m, n}) >= m /\ Max({m, n}) >= n
    BY MaxOfTwo
  <2> QED BY Zenon, <2>1, <2>2
<1>7. old # None => old \in DOMAIN tcb /\ tcb[old].process = p /\ tcb[old].tid = tid /\ ~tcb[old].res
  <2> SUFFICES ASSUME old # None
               PROVE  old \in DOMAIN tcb /\ tcb[old].process = p /\ tcb[old].tid = tid /\ ~tcb[old].res
    OBVIOUS
  <2>1. tid + 1 \in DOMAIN tasks /\ old = tasks[tid + 1]
    BY <1>3, <1>5
  <2>2. old \in DOMAIN tcb /\ tcb[old].process = p /\ tcb[old].tid = tid
    BY <1>1, <1>3, <2>1 DEF TasksOf
  <2> QED BY SMTT(20), <1>3, <2>2 DEF ProcInv, TasksOK, TaskOK
<1>8. /\ \A i \in DOMAIN tasks : i \in 1..len
      /\ DOMAIN new = 1..len /\ tid + 1 \in 1..len /\ new[tid + 1] = t
      /\ \A i \in 1..len : i # tid + 1 /\ i \in DOMAIN tasks => new[i] = tasks[i]
      /\ \A i \in 1..len : i # tid + 1 /\ i \notin DOMAIN tasks => new[i] = None
  <2> HIDE DEF len, tid, tasks, t
  <2>1. tid + 1 \in 1..len /\ \A i \in DOMAIN tasks : i \in 1..len
    BY <1>3, <1>5, <1>6
  <2> QED BY <2>1
<1>9. new \in Seq(Int)
  <2>1. \A i \in 1..len : new[i] \in Int
    <3>1. \A i \in DOMAIN tasks : tasks[i] \in Int
      BY <1>5
    <3> QED BY <1>4, <1>8, <3>1 DEF None
  <2> HIDE DEF len
  <2> QED BY <1>6, <2>1
<1> HIDE DEF p, a, tasks, tid, t, len, old, new
<1>10. PICK base, ppn : tcb' = With(WithoutTask(tcb, old), t, NewTask(p, tid, base, ppn))
  BY <1>2
<1>11. /\ DOMAIN tcb' = (DOMAIN tcb \ {old}) \cup {t} /\ DOMAIN tcb'[t] = TaskFields
       /\ tcb'[t].process = p /\ tcb'[t].tid = tid /\ tcb'[t].res = TRUE /\ tcb'[t].at = "start"
       /\ \A u \in DOMAIN tcb \ {old} : tcb'[u] = tcb[u]
  <2> DEFINE f == WithoutTask(tcb, old)
  <2>1. DOMAIN f = DOMAIN tcb \ {old} /\ \A u \in DOMAIN tcb \ {old} : f[u] = tcb[u]
    BY DEF WithoutTask
  <2> HIDE DEF f
  <2>2. /\ DOMAIN tcb' = DOMAIN f \cup {t} /\ tcb'[t] = NewTask(p, tid, base, ppn)
        /\ \A u \in DOMAIN f : u # t => tcb'[u] = f[u]
    BY <1>10 DEF With, f
  <2> QED BY <1>4, <2>1, <2>2 DEF NewTask, TaskFields
<1>12. /\ DOMAIN pcb' = DOMAIN pcb
       /\ \A q \in DOMAIN pcb :
            /\ DOMAIN pcb'[q] = DOMAIN pcb[q] /\ pcb'[q].held = pcb[q].held
            /\ pcb'[q].is_zombie = pcb[q].is_zombie /\ pcb'[q].parent = pcb[q].parent
            /\ pcb'[q].children = pcb[q].children
            /\ q # p => /\ pcb'[q].tasks = pcb[q].tasks
                        /\ pcb'[q].task_res_allocator = pcb[q].task_res_allocator
       /\ pcb'[p].tasks = new /\ pcb'[p].task_res_allocator = alloc(a)
  <2> DEFINE a2 == alloc(a)
  <2>1. pcb' = [pcb EXCEPT ![p].task_res_allocator = a2, ![p].tasks = new]
    BY <1>2
  <2>2. DOMAIN pcb[p] = ProcFields
    BY <1>1 DEF ProcOK
  <2> HIDE DEF a2
  <2>3. pcb'[p] = [pcb[p] EXCEPT !.task_res_allocator = a2, !.tasks = new]
    BY <1>1, <2>1
  <2>4. DOMAIN pcb' = DOMAIN pcb /\ \A q \in DOMAIN pcb : q # p => pcb'[q] = pcb[q]
    BY <2>1
  <2>5. /\ DOMAIN pcb'[p] = DOMAIN pcb[p] /\ pcb'[p].held = pcb[p].held
        /\ pcb'[p].is_zombie = pcb[p].is_zombie /\ pcb'[p].parent = pcb[p].parent
        /\ pcb'[p].children = pcb[p].children
        /\ pcb'[p].tasks = new /\ pcb'[p].task_res_allocator = a2
    BY <2>2, <2>3 DEF ProcFields
  <2> QED BY <2>4, <2>5 DEF a2
<1>13. IdsOK' /\ PidsOK'
  <2>1. old \in InUse(alloc(kstack_allocator)) \cup {None} /\ t # old
    BY <1>4, <1>7 DEF None
  <2>2. /\ AllocOK(kstack_allocator')
        /\ InUse(kstack_allocator') = (DOMAIN tcb \cup {t}) \ {old}
    BY <1>2, <1>4, <2>1, FreeTaskGivesBack
  <2> QED BY SMTT(20), <1>2, <1>11, <1>12, <2>1, <2>2 DEF ProcInv, IdsOK, PidsOK
<1>14. TasksOK'
  <2>1. ASSUME NEW u \in DOMAIN tcb', u = t PROVE TaskOK(u)'
    <3>1. /\ p \in DOMAIN pcb' /\ ~pcb'[p].is_zombie /\ tid \in InUse(pcb'[p].task_res_allocator)
          /\ tid + 1 \in DOMAIN pcb'[p].tasks /\ pcb'[p].tasks[tid + 1] = u
      BY SMTT(20), <1>1, <1>3, <1>8, <1>12, <2>1
    <3> QED BY Zenon, <1>3, <1>11, <2>1, <3>1 DEF TaskOK, IsLive
  <2>2. ASSUME NEW u \in DOMAIN tcb, u # old PROVE TaskOK(u)'
    <3>1. TaskOK(u) /\ tcb'[u] = tcb[u]
      BY <1>11, <2>2 DEF ProcInv, TasksOK
    <3>2. ASSUME tcb[u].res
          PROVE  /\ tcb[u].tid \in InUse(pcb'[tcb[u].process].task_res_allocator)
                 /\ tcb[u].tid + 1 \in DOMAIN pcb'[tcb[u].process].tasks
                 /\ pcb'[tcb[u].process].tasks[tcb[u].tid + 1] = u
      <4>1. /\ tcb[u].process \in DOMAIN pcb /\ tcb[u].tid + 1 \in DOMAIN pcb[tcb[u].process].tasks
            /\ tcb[u].tid \in InUse(pcb[tcb[u].process].task_res_allocator) /\ tcb[u].tid \in Nat
            /\ pcb[tcb[u].process].tasks[tcb[u].tid + 1] = u
        BY <3>1, <3>2 DEF TaskOK, IsLive
      <4>2. CASE tcb[u].process = p
        <5>1. tcb[u].tid \in InUse(a) /\ tcb[u].tid + 1 \in DOMAIN tasks /\ tasks[tcb[u].tid + 1] = u
          BY <4>1, <4>2 DEF a, tasks
        <5>2. tcb[u].tid # tid /\ tcb[u].tid + 1 # tid + 1
          BY <1>3, <4>1, <5>1
        <5> QED BY Zenon, <1>3, <1>8, <1>12, <4>2, <5>1, <5>2
      <4>3. CASE tcb[u].process # p
        BY <1>12, <4>1, <4>3
      <4> QED BY <4>2, <4>3
    <3> QED BY <1>12, <3>1, <3>2 DEF TaskOK, IsLive
  <2> QED BY <1>11, <2>1, <2>2 DEF TasksOK
<1>15. ProcsOK'
  <2> SUFFICES ASSUME NEW q \in DOMAIN pcb PROVE ProcOK(q)' /\ TasksOf(q)'
    BY <1>12 DEF ProcsOK
  <2>1. ProcOK(q) /\ TasksOf(q)
    BY DEF ProcInv, ProcsOK
  <2>2. ProcOK(q)'
    BY Zenon, <1>1, <1>3, <1>9, <1>12, <2>1 DEF ProcOK
  <2>3. CASE q = p
    <3> SUFFICES ASSUME NEW i \in 1..len, new[i] # None
                 PROVE  /\ new[i] \in DOMAIN tcb' /\ tcb'[new[i]].process = p
                        /\ tcb'[new[i]].tid = i - 1
      BY Zenon, <1>8, <1>12, <2>2, <2>3 DEF TasksOf
    <3>1. CASE i = tid + 1
      <4>1. tid = i - 1
        BY <1>3, <3>1
      <4> QED BY <1>8, <1>11, <3>1, <4>1
    <3>2. CASE i # tid + 1
      <4>1. i \in DOMAIN tasks /\ new[i] = tasks[i]
        BY <1>8, <3>2
      <4>2. tasks[i] \in DOMAIN tcb /\ tcb[tasks[i]].process = p /\ tcb[tasks[i]].tid = i - 1
        BY <1>1, <4>1 DEF TasksOf, tasks
      <4>3. tasks[i] # old
        <5>1. i - 1 # tid
          BY <1>3, <3>2
        <5>2. None \notin DOMAIN tcb
          BY <1>1 DEF None
        <5> QED BY <1>7, <4>2, <5>1, <5>2
      <4> QED BY <1>11, <4>1, <4>2, <4>3
    <3> QED BY <3>1, <3>2
  <2>4. CASE q # p
    <3>1. pcb'[q].tasks = pcb[q].tasks
      BY <1>12, <2>4
    <3>2. \A u \in DOMAIN tcb : tcb[u].process = q => u \in DOMAIN tcb' /\ tcb'[u] = tcb[u]
      <4>1. None \notin DOMAIN tcb
        BY <1>1 DEF None
      <4> QED BY <1>7, <1>11, <2>4, <4>1
    <3> QED BY <2>1, <2>2, <3>1, <3>2 DEF TasksOf
  <2> QED BY <2>2, <2>3, <2>4
<1>16. StopOK'
  <2> SUFFICES ASSUME stop_task # None
               PROVE  /\ stop_task \in DOMAIN tcb'
                      /\ ~(/\ tcb'[stop_task].process \in DOMAIN pcb'
                           /\ ~pcb'[tcb'[stop_task].process].is_zombie)
    BY <1>2 DEF StopOK, IsLive
  <2>1. stop_task \in DOMAIN tcb /\ ~IsLive(tcb[stop_task].process)
    BY DEF ProcInv, StopOK
  <2>2. stop_task # old
    BY <1>1, <1>7, <2>1 DEF IsLive
  <2>3. stop_task \in DOMAIN tcb' /\ tcb'[stop_task] = tcb[stop_task]
    BY <1>11, <2>1, <2>2
  <2> QED BY <1>12, <2>1, <2>3 DEF IsLive
<1>17. KernelStacksReclaimed'
  <2>1. ASSUME NEW u \in DOMAIN tcb, u # old, NEW q \in DOMAIN pcb, u \in Range(pcb[q].tasks)
        PROVE  u \in Range(pcb'[q].tasks)
    <3>1. CASE q = p
      <4>1. PICK i \in DOMAIN tasks : tasks[i] = u
        BY <2>1, <3>1 DEF Range, tasks
      <4>2. i # tid + 1
        BY <1>3, <1>5, <2>1, <4>1 DEF old
      <4> QED BY Zenon, <1>8, <1>12, <3>1, <4>1, <4>2 DEF Range
    <3>2. CASE q # p
      BY <1>12, <2>1, <3>2
    <3> QED BY <3>1, <3>2
  <2>2. ASSUME NEW u \in DOMAIN tcb'
        PROVE  \/ \E q \in DOMAIN pcb' : u \in Range(pcb'[q].tasks)
               \/ u = stop_task'
               \/ tcb'[u].at \in BlockingWaits /\ ~tcb'[u].res
    <3>1. CASE u = t
      <4>1. t \in Range(pcb'[p].tasks)
        BY <1>8, <1>12 DEF Range
      <4> QED BY <1>1, <1>12, <3>1, <4>1
    <3>2. CASE u # t
      <4>1. u \in DOMAIN tcb /\ u # old /\ tcb'[u] = tcb[u]
        BY <1>11, <3>2
      <4>2. \/ \E q \in DOMAIN pcb : u \in Range(pcb[q].tasks)
            \/ u = stop_task
            \/ tcb[u].at \in BlockingWaits /\ ~tcb[u].res
        BY <4>1 DEF ProcInv, KernelStacksReclaimed
      <4>3. DOMAIN pcb' = DOMAIN pcb /\ stop_task' = stop_task
        BY <1>2, <1>12
      <4> QED BY <2>1, <4>1, <4>2, <4>3
    <3> QED BY <3>1, <3>2
  <2> QED BY <2>2 DEF KernelStacksReclaimed, BlockingWaits
<1>18. SchedOK'
  <2>1. current # None /\ t \notin Range(ready_queue) /\ t # current
    BY <1>1, <1>4 DEF ProcInv, SchedOK, None
  <2>2. old \notin Range(ready_queue) /\ old # current
    <3>1. None \notin DOMAIN tcb
      BY <1>1 DEF None
    <3> QED BY <1>1, <1>7, <2>1, <3>1 DEF ProcInv, SchedOK
  <2>3. /\ ready_queue' \in Seq(Nat) /\ IsInjective(ready_queue')
        /\ Range(ready_queue') = Range(ready_queue) \cup {t}
    BY <1>2, <1>4, <2>1, AppendRange DEF ProcInv, SchedOK
  <2> QED BY SMTT(20), <1>1, <1>2, <1>11, <2>1, <2>2, <2>3 DEF ProcInv, SchedOK
<1>19. FamilyOK'
  BY SMTT(20), <1>1, <1>12 DEF ProcInv, FamilyOK, IsLive
<1> QED
  BY <1>13, <1>14, <1>15, <1>16, <1>17, <1>18, <1>19 DEF ProcInv

(* sys_fork: the pid and the kernel stack are new, so nothing refers to them. *)
LEMMA ForkKeeps ==
  ASSUME ProcInv, Fork PROVE ProcInv'
<1> DEFINE p == Pid
           child == NextId(pid_allocator)
           t == NextId(kstack_allocator)
           kids == pcb[p].children
<1>1. /\ current \in DOMAIN tcb /\ p \in DOMAIN pcb /\ ~pcb[p].is_zombie
      /\ ProcOK(p) /\ current \notin Range(ready_queue)
      /\ DOMAIN tcb \subseteq Nat /\ DOMAIN pcb \subseteq Nat /\ FamilyOK
  <2>1. mode # "idle" /\ halted # "panic"
    BY DEF Fork, InSyscall
  <2> QED BY <2>1, CurrentLive DEF ProcInv, ProcsOK, IsLive, IdsOK, InUse
<1>2. /\ pid_allocator' = alloc(pid_allocator) /\ kstack_allocator' = alloc(kstack_allocator)
      /\ \E base, ppn : tcb' = With(tcb, t, NewTask(child, 0, base, ppn))
      /\ pcb' = With([pcb EXCEPT ![p].children = Append(kids, child)], child, NewProcess(p, t))
      /\ PID2PCB' = PID2PCB \cup {child}
      /\ ready_queue' = Append(ready_queue, t) /\ mode' = "return"
      /\ UNCHANGED <<stop_task, current>>
  <2>1. \E base, ppn : tcb' = With(tcb, t, NewTask(child, 0, base, ppn))
    BY Zenon DEF Fork
  <2>2. pcb' = With([pcb EXCEPT ![p].children = Append(kids, child)], child, NewProcess(p, t))
    BY DEF Fork
  <2>3. /\ pid_allocator' = alloc(pid_allocator) /\ kstack_allocator' = alloc(kstack_allocator)
        /\ PID2PCB' = PID2PCB \cup {child}
        /\ ready_queue' = Append(ready_queue, t) /\ mode' = "return"
        /\ UNCHANGED <<stop_task, current>>
    BY DEF Fork, add
  <2> QED BY <2>1, <2>2, <2>3
<1>3. /\ AllocOK(pid_allocator') /\ InUse(pid_allocator') = DOMAIN pcb \cup {child}
      /\ child \in Nat /\ child \notin DOMAIN pcb
  BY <1>2, AllocIsFresh DEF ProcInv, IdsOK
<1>4. /\ AllocOK(kstack_allocator') /\ InUse(kstack_allocator') = DOMAIN tcb \cup {t}
      /\ t \in Nat /\ t \notin DOMAIN tcb
  BY <1>2, AllocIsFresh DEF ProcInv, IdsOK
<1>5. /\ Append(kids, child) \in Seq(Nat)
      /\ Range(Append(kids, child)) = Range(kids) \cup {child}
      /\ IsInjective(Append(kids, child))
  <2>1. kids \in Seq(Nat)
    BY <1>1 DEF ProcOK
  <2>2. IsInjective(kids) /\ child \notin Range(kids)
    BY <1>1, <1>3 DEF FamilyOK
  <2> QED BY <1>3, <2>1, <2>2, AppendRange
<1> DEFINE kids2 == Append(kids, child)
<1> HIDE DEF p, child, t, kids, kids2
<1>6. PICK base, ppn : tcb' = With(tcb, t, NewTask(child, 0, base, ppn))
  BY <1>2
<1>7. /\ DOMAIN tcb' = DOMAIN tcb \cup {t} /\ DOMAIN tcb'[t] = TaskFields
      /\ tcb'[t].process = child /\ tcb'[t].tid = 0 /\ tcb'[t].res = TRUE /\ tcb'[t].at = "start"
      /\ \A u \in DOMAIN tcb : tcb'[u] = tcb[u]
  <2>1. /\ DOMAIN tcb' = DOMAIN tcb \cup {t} /\ tcb'[t] = NewTask(child, 0, base, ppn)
        /\ \A u \in DOMAIN tcb : u # t => tcb'[u] = tcb[u]
    BY <1>6 DEF With
  <2> QED BY <1>4, <2>1 DEF NewTask, TaskFields
<1>8. /\ DOMAIN pcb' = DOMAIN pcb \cup {child} /\ pcb'[child] = NewProcess(p, t)
      /\ \A q \in DOMAIN pcb : q # p => pcb'[q] = pcb[q]
      /\ pcb'[p] = [pcb[p] EXCEPT !.children = kids2]
  <2> DEFINE f == [pcb EXCEPT ![p].children = kids2]
  <2>1. DOMAIN f = DOMAIN pcb /\ f[p] = [pcb[p] EXCEPT !.children = kids2]
        /\ \A q \in DOMAIN pcb : q # p => f[q] = pcb[q]
    BY <1>1
  <2>2. pcb' = With(f, child, NewProcess(p, t))
    BY <1>2 DEF kids2
  <2> HIDE DEF f
  <2>3. /\ DOMAIN pcb' = DOMAIN f \cup {child} /\ pcb'[child] = NewProcess(p, t)
        /\ \A q \in DOMAIN f : q # child => pcb'[q] = f[q]
    BY <2>2 DEF With
  <2> QED BY <1>1, <1>3, <2>1, <2>3
<1>9. /\ \A q \in DOMAIN pcb :
           /\ DOMAIN pcb'[q] = DOMAIN pcb[q] /\ pcb'[q].held = pcb[q].held
           /\ pcb'[q].is_zombie = pcb[q].is_zombie /\ pcb'[q].parent = pcb[q].parent
           /\ pcb'[q].tasks = pcb[q].tasks
           /\ pcb'[q].task_res_allocator = pcb[q].task_res_allocator
           /\ q # p => pcb'[q].children = pcb[q].children
      /\ pcb'[p].children = kids2
  <2>1. DOMAIN pcb[p] = ProcFields
    BY <1>1 DEF ProcOK
  <2> QED BY <1>1, <1>8, <2>1 DEF ProcFields
<1>10. /\ DOMAIN pcb'[child] = ProcFields /\ pcb'[child].held = 0
       /\ pcb'[child].is_zombie = FALSE /\ pcb'[child].parent = p
       /\ pcb'[child].children = <<>> /\ pcb'[child].tasks = <<t>>
       /\ pcb'[child].task_res_allocator = alloc(NewAllocator)
  BY <1>8 DEF NewProcess, ProcFields
<1>11. IdsOK' /\ PidsOK'
  BY ZenonT(30), <1>2, <1>3, <1>4, <1>7, <1>8, <1>9, <1>10 DEF ProcInv, IdsOK, PidsOK
<1>12. TasksOK'
  <2> SUFFICES ASSUME NEW u \in DOMAIN tcb' PROVE TaskOK(u)'
    BY DEF TasksOK
  <2>1. CASE u = t
    <3>1. /\ child \in DOMAIN pcb' /\ ~pcb'[child].is_zombie
          /\ 0 \in InUse(pcb'[child].task_res_allocator)
          /\ 0 + 1 \in DOMAIN pcb'[child].tasks /\ pcb'[child].tasks[0 + 1] = u
      BY <1>8, <1>10, <2>1, FirstId
    <3>2. /\ DOMAIN tcb'[u] = TaskFields /\ tcb'[u].process = child /\ tcb'[u].tid = 0
          /\ tcb'[u].res = TRUE /\ tcb'[u].at = "start" /\ 0 \in Nat
      BY <1>7, <2>1
    <3> QED BY Zenon, <3>1, <3>2 DEF TaskOK, IsLive
  <2>2. CASE u # t
    <3>1. u \in DOMAIN tcb /\ tcb'[u] = tcb[u]
      BY <1>7, <2>2
    <3>2. TaskOK(u)
      BY <3>1 DEF ProcInv, TasksOK
    <3>3. tcb[u].process # child
      BY <1>3, <3>2 DEF TaskOK, None
    <3> QED BY SMTT(20), <1>8, <1>9, <3>1, <3>2, <3>3 DEF TaskOK, IsLive
  <2> QED BY <2>1, <2>2
<1>13. ProcsOK'
  <2> SUFFICES ASSUME NEW q \in DOMAIN pcb' PROVE ProcOK(q)' /\ TasksOf(q)'
    BY DEF ProcsOK
  <2>1. CASE q = child
    <3>1. <<t>> \in Seq(Int) /\ <<>> \in Seq(Nat) /\ DOMAIN <<t>> = {1} /\ <<t>>[1] = t
      BY <1>4
    <3>2. ProcOK(q)'
      <4>1. AllocOK(pcb'[q].task_res_allocator)
        BY <1>10, <2>1, FirstId
      <4>2. 0 \in Int
        OBVIOUS
      <4> QED BY Zenon, <1>10, <2>1, <3>1, <4>1, <4>2 DEF ProcOK
    <3>3. TasksOf(q)'
      BY SMTT(20), <1>7, <1>10, <2>1, <3>1 DEF TasksOf
    <3> QED BY <3>2, <3>3
  <2>2. CASE q # child
    <3>1. q \in DOMAIN pcb
      BY <1>8, <2>2
    <3>2. ProcOK(q) /\ TasksOf(q)
      BY <3>1 DEF ProcInv, ProcsOK
    <3>3. ProcOK(q)'
      BY ZenonT(30), <1>1, <1>5, <1>9, <3>1, <3>2 DEF ProcOK, kids2
    <3>4. TasksOf(q)'
      BY <1>7, <1>9, <3>1, <3>2 DEF TasksOf
    <3> QED BY <3>3, <3>4
  <2> QED BY <2>1, <2>2
<1>14. StopOK'
  <2> SUFFICES ASSUME stop_task # None
               PROVE  /\ stop_task \in DOMAIN tcb'
                      /\ ~(/\ tcb'[stop_task].process \in DOMAIN pcb'
                           /\ ~pcb'[tcb'[stop_task].process].is_zombie)
    BY <1>2 DEF StopOK, IsLive
  <2>1. stop_task \in DOMAIN tcb /\ ~IsLive(tcb[stop_task].process) /\ TaskOK(stop_task)
    BY DEF ProcInv, StopOK, TasksOK
  <2>2. tcb[stop_task].process # child
    BY <1>3, <2>1 DEF TaskOK, None
  <2> QED BY SMTT(20), <1>7, <1>8, <1>9, <2>1, <2>2 DEF IsLive
<1>15. KernelStacksReclaimed'
  <2> SUFFICES ASSUME NEW u \in DOMAIN tcb'
               PROVE  \/ \E q \in DOMAIN pcb' : u \in Range(pcb'[q].tasks)
                      \/ u = stop_task'
                      \/ tcb'[u].at \in BlockingWaits /\ ~tcb'[u].res
    BY DEF KernelStacksReclaimed, BlockingWaits
  <2>1. CASE u = t
    <3>1. t \in Range(<<t>>)
      BY DEF Range
    <3> QED BY <1>8, <1>10, <2>1, <3>1
  <2>2. CASE u # t
    <3>1. u \in DOMAIN tcb /\ tcb'[u] = tcb[u]
      BY <1>7, <2>2
    <3> QED BY Zenon, <1>2, <1>8, <1>9, <3>1 DEF ProcInv, KernelStacksReclaimed
  <2> QED BY <2>1, <2>2
<1>16. SchedOK'
  <2>1. current # None /\ t \notin Range(ready_queue) /\ t # current
    BY <1>1, <1>4 DEF ProcInv, SchedOK, None
  <2>2. /\ ready_queue' \in Seq(Nat) /\ IsInjective(ready_queue')
        /\ Range(ready_queue') = Range(ready_queue) \cup {t}
    BY <1>2, <1>4, <2>1, AppendRange DEF ProcInv, SchedOK
  <2> QED BY SMTT(20), <1>1, <1>2, <1>7, <2>1, <2>2 DEF ProcInv, SchedOK
<1>17. FamilyOK'
  <2>1. INITPROC \in DOMAIN pcb /\ ~pcb[INITPROC].is_zombie
    BY <1>1 DEF FamilyOK, IsLive
  <2>2. ASSUME NEW q \in DOMAIN pcb'
        PROVE  /\ IsInjective(pcb'[q].children)
               /\ \A c \in Range(pcb'[q].children) :
                    c \in DOMAIN pcb' \ {INITPROC} /\ pcb'[c].parent = q
    <3>1. CASE q = child
      BY <1>10, <3>1 DEF IsInjective, Range
    <3>2. CASE q = p
      <4>1. IsInjective(kids2) /\ Range(kids2) = Range(kids) \cup {child}
        BY <1>5 DEF kids2
      <4>2. \A c \in Range(kids) : c \in DOMAIN pcb \ {INITPROC} /\ pcb[c].parent = p
        BY <1>1 DEF FamilyOK, kids
      <4>3. pcb'[q].children = kids2 /\ child # INITPROC
        BY <1>3, <1>9, <2>1, <3>2
      <4>4. \A c \in Range(kids) : c \in DOMAIN pcb' \ {INITPROC} /\ pcb'[c].parent = p
        BY <1>8, <1>9, <4>2
      <4>5. child \in DOMAIN pcb' \ {INITPROC} /\ pcb'[child].parent = p
        BY <1>8, <1>10, <4>3
      <4> QED BY SMTT(20), <3>2, <4>1, <4>3, <4>4, <4>5
    <3>3. CASE q # child /\ q # p
      BY SMTT(20), <1>1, <1>8, <1>9, <3>3 DEF FamilyOK
    <3> QED BY <3>1, <3>2, <3>3
  <2>3. ASSUME NEW q \in DOMAIN pcb' \ {INITPROC}
        PROVE  pcb'[q].parent \in DOMAIN pcb' \ {q} /\ q \in Range(pcb'[pcb'[q].parent].children)
    <3>1. Range(kids2) = Range(kids) \cup {child}
      BY <1>5 DEF kids2
    <3>2. CASE q = child
      BY Zenon, <1>1, <1>3, <1>8, <1>9, <1>10, <3>1, <3>2
    <3>3. CASE q # child
      <4>1. q \in DOMAIN pcb /\ pcb'[q].parent = pcb[q].parent
        BY <1>8, <1>9, <3>3
      <4>2. pcb[q].parent \in DOMAIN pcb \ {q} /\ q \in Range(pcb[pcb[q].parent].children)
        BY <1>1, <4>1 DEF FamilyOK
      <4> QED BY ZenonT(30), <1>8, <1>9, <3>1, <4>1, <4>2 DEF kids
    <3> QED BY <3>2, <3>3
  <2> QED BY SMTT(20), <1>8, <1>9, <2>1, <2>2, <2>3 DEF FamilyOK, IsLive
<1> QED
  BY <1>11, <1>12, <1>13, <1>14, <1>15, <1>16, <1>17 DEF ProcInv

-----------------------------------------------------------------------------
\* The exits of processes, and the waits for them.

(* sys_waitpid: a zombie has no children and no threads that could run, so    *)
(* only the threads it left behind still refer to it.                       *)
LEMMA WaitpidKeeps ==
  ASSUME ProcInv, NEW pid, Waitpid(pid) PROVE ProcInv'
<1> DEFINE p == Pid
           kids == pcb[p].children
<1>1. /\ current \in DOMAIN tcb /\ p \in DOMAIN pcb /\ ~pcb[p].is_zombie
      /\ ProcOK(p) /\ Process = pcb[p] /\ current # None
      /\ DOMAIN tcb \subseteq Nat /\ DOMAIN pcb \subseteq Nat /\ FamilyOK
  <2>1. mode # "idle" /\ halted # "panic"
    BY DEF Waitpid, InSyscall
  <2> QED BY <2>1, CurrentLive DEF ProcInv, ProcsOK, IsLive, IdsOK, InUse, None
<1>2. PICK i \in DOMAIN kids :
        /\ IsFound(i, pid)
        /\ IF strong_count(kids[i]) = 1
           THEN /\ pid_allocator' = dealloc(pid_allocator, kids[i])
                /\ pcb' = [q \in DOMAIN pcb \ {kids[i]} |->
                            [pcb EXCEPT ![p].children = RemoveAt(kids, i)][q]]
                /\ tcb' = [u \in DOMAIN tcb |->
                             IF tcb[u].process = kids[i]
                             THEN [tcb[u] EXCEPT !.process = None] ELSE tcb[u]]
                /\ mode' = "return"
           ELSE /\ halted' = "panic" /\ pcb' = [pcb EXCEPT ![p].children = RemoveAt(kids, i)]
                /\ UNCHANGED <<pid_allocator, tcb, mode>>
  BY Zenon DEF Waitpid, Process
<1>3. UNCHANGED <<kstack_allocator, PID2PCB, stop_task>> /\ UNCHANGED <<ready_queue, current>>
  BY DEF Waitpid
<1> DEFINE child == kids[i]
           kids2 == RemoveAt(kids, i)
           kept == [pcb EXCEPT ![p].children = kids2]
<1>4. /\ kids \in Seq(Nat) /\ i \in 1..Len(kids) /\ IsInjective(kids) /\ child \in Range(kids)
      /\ child \in DOMAIN pcb /\ child # INITPROC /\ pcb[child].is_zombie /\ child # p
  <2>1. kids \in Seq(Nat) /\ i \in 1..Len(kids) /\ IsInjective(kids)
    BY <1>1, <1>2 DEF ProcOK, FamilyOK
  <2>2. child \in Range(kids)
    BY <1>2 DEF Range
  <2>3. pcb[child].is_zombie
    BY <1>1, <1>2 DEF IsFound
  <2> QED BY <1>1, <2>1, <2>2, <2>3 DEF FamilyOK
<1>5. /\ kids2 \in Seq(Nat) /\ Range(kids2) = Range(kids) \ {child} /\ IsInjective(kids2)
  BY <1>4, RemoveAtRange
<1>6. \/ /\ pid_allocator' = dealloc(pid_allocator, child)
         /\ pcb' = [q \in DOMAIN pcb \ {child} |-> kept[q]]
         /\ tcb' = [u \in DOMAIN tcb |->
                      IF tcb[u].process = child
                      THEN [tcb[u] EXCEPT !.process = None] ELSE tcb[u]]
         /\ mode' = "return"
      \/ /\ halted' = "panic" /\ pcb' = kept
         /\ UNCHANGED <<pid_allocator, tcb, mode>>
  BY <1>2
<1>7. DOMAIN pcb[p] = ProcFields
  BY <1>1 DEF ProcOK
<1> HIDE DEF p, kids, child, kids2
<1>8. /\ DOMAIN kept = DOMAIN pcb
      /\ \A q \in DOMAIN pcb :
           /\ DOMAIN kept[q] = DOMAIN pcb[q] /\ kept[q].held = pcb[q].held
           /\ kept[q].is_zombie = pcb[q].is_zombie /\ kept[q].parent = pcb[q].parent
           /\ kept[q].tasks = pcb[q].tasks
           /\ kept[q].task_res_allocator = pcb[q].task_res_allocator
           /\ q # p => kept[q].children = pcb[q].children
      /\ kept[p].children = kids2
  <2>1. /\ kept[p] = [pcb[p] EXCEPT !.children = kids2] /\ DOMAIN kept = DOMAIN pcb
        /\ \A q \in DOMAIN pcb : q # p => kept[q] = pcb[q]
    BY <1>1
  <2> HIDE DEF kept
  <2> QED BY <1>1, <1>7, <2>1 DEF ProcFields
<1> HIDE DEF kept
<1>9. CASE halted' = "panic" /\ pcb' = kept /\ UNCHANGED <<pid_allocator, tcb, mode>>
  <2>1. IdsOK' /\ PidsOK'
    BY SMTT(20), <1>3, <1>8, <1>9 DEF ProcInv, IdsOK, PidsOK
  <2>2. TasksOK'
    BY <1>8, <1>9 DEF ProcInv, TasksOK, TaskOK, IsLive
  <2>3. ProcsOK'
    <3> SUFFICES ASSUME NEW q \in DOMAIN pcb PROVE ProcOK(q)' /\ TasksOf(q)'
      BY <1>8, <1>9 DEF ProcsOK
    <3>1. ProcOK(q) /\ TasksOf(q)
      BY DEF ProcInv, ProcsOK
    <3> QED BY ZenonT(30), <1>1, <1>5, <1>8, <1>9, <3>1 DEF ProcOK, TasksOf
  <2>4. StopOK'
    BY <1>3, <1>8, <1>9 DEF ProcInv, StopOK, IsLive
  <2>5. KernelStacksReclaimed'
    BY <1>3, <1>8, <1>9 DEF ProcInv, KernelStacksReclaimed, BlockingWaits
  <2>6. SchedOK'
    BY <1>3, <1>9 DEF ProcInv, SchedOK
  <2> QED BY SMTT(20), <1>9, <2>1, <2>2, <2>3, <2>4, <2>5, <2>6 DEF ProcInv
<1>10. CASE /\ pid_allocator' = dealloc(pid_allocator, child)
            /\ pcb' = [q \in DOMAIN pcb \ {child} |-> kept[q]]
            /\ tcb' = [u \in DOMAIN tcb |->
                         IF tcb[u].process = child
                         THEN [tcb[u] EXCEPT !.process = None] ELSE tcb[u]]
            /\ mode' = "return"
  <2>1. DOMAIN pcb' = DOMAIN pcb \ {child} /\ \A q \in DOMAIN pcb' : pcb'[q] = kept[q]
    BY <1>10
  <2>2. /\ DOMAIN tcb' = DOMAIN tcb
        /\ \A u \in DOMAIN tcb :
             /\ DOMAIN tcb'[u] = TaskFields /\ tcb'[u].tid = tcb[u].tid
             /\ tcb'[u].res = tcb[u].res /\ tcb'[u].at = tcb[u].at
             /\ tcb'[u].process = IF tcb[u].process = child THEN None ELSE tcb[u].process
    <3> SUFFICES ASSUME NEW u \in DOMAIN tcb
                 PROVE  /\ DOMAIN tcb'[u] = TaskFields /\ tcb'[u].tid = tcb[u].tid
                        /\ tcb'[u].res = tcb[u].res /\ tcb'[u].at = tcb[u].at
                        /\ tcb'[u].process = IF tcb[u].process = child THEN None ELSE tcb[u].process
      BY <1>10
    <3>1. DOMAIN tcb[u] = TaskFields
      BY DEF ProcInv, TasksOK, TaskOK
    <3>2. tcb'[u] = IF tcb[u].process = child THEN [tcb[u] EXCEPT !.process = None] ELSE tcb[u]
      BY <1>10
    <3> QED BY <3>1, <3>2 DEF TaskFields
  <2>3. None \notin DOMAIN pcb
    BY <1>1 DEF None
  <2>4. IdsOK' /\ PidsOK'
    <3>1. /\ AllocOK(pid_allocator')
          /\ InUse(pid_allocator') = InUse(pid_allocator) \ {child}
      BY <1>4, <1>10, DeallocGivesBack DEF ProcInv, IdsOK
    <3> QED BY SMTT(20), <1>3, <1>4, <1>8, <2>1, <2>2, <3>1 DEF ProcInv, IdsOK, PidsOK
  <2>5. TasksOK'
    <3> SUFFICES ASSUME NEW u \in DOMAIN tcb PROVE TaskOK(u)'
      BY <2>2 DEF TasksOK
    <3>1. TaskOK(u)
      BY DEF ProcInv, TasksOK
    <3>2. CASE tcb[u].process = child
      <4>1. ~tcb[u].res /\ tcb'[u].process = None
        BY SMTT(20), <1>4, <2>2, <3>1, <3>2 DEF TaskOK, IsLive
      <4> QED BY SMTT(20), <2>1, <2>2, <2>3, <3>1, <4>1 DEF TaskOK, IsLive
    <3>3. CASE tcb[u].process # child
      BY SMTT(20), <1>8, <2>1, <2>2, <2>3, <3>1, <3>3 DEF TaskOK, IsLive
    <3> QED BY <3>2, <3>3
  <2>6. ProcsOK'
    <3> SUFFICES ASSUME NEW q \in DOMAIN pcb, q # child PROVE ProcOK(q)' /\ TasksOf(q)'
      BY <2>1 DEF ProcsOK
    <3>1. ProcOK(q) /\ TasksOf(q)
      BY DEF ProcInv, ProcsOK
    <3>2. ProcOK(q)'
      BY ZenonT(30), <1>1, <1>5, <1>8, <2>1, <3>1 DEF ProcOK
    <3>3. TasksOf(q)'
      BY <1>8, <2>1, <2>2, <3>1 DEF TasksOf
    <3> QED BY <3>2, <3>3
  <2>7. StopOK'
    BY SMTT(20), <1>3, <1>8, <2>1, <2>2, <2>3 DEF ProcInv, StopOK, IsLive
  <2>8. KernelStacksReclaimed'
    <3> SUFFICES ASSUME NEW u \in DOMAIN tcb
                 PROVE  \/ \E q \in DOMAIN pcb' : u \in Range(pcb'[q].tasks)
                        \/ u = stop_task'
                        \/ tcb'[u].at \in BlockingWaits /\ ~tcb'[u].res
      BY <2>2 DEF KernelStacksReclaimed, BlockingWaits
    <3>1. Range(pcb[child].tasks) = {}
      <4>1. pcb[child].tasks = <<>>
        BY <1>4 DEF ProcInv, ProcsOK, ProcOK
      <4> QED BY <4>1 DEF Range
    <3>2. \/ \E q \in DOMAIN pcb : u \in Range(pcb[q].tasks)
          \/ u = stop_task
          \/ tcb[u].at \in BlockingWaits /\ ~tcb[u].res
      BY DEF ProcInv, KernelStacksReclaimed
    <3> QED BY SMTT(20), <1>3, <1>8, <2>1, <2>2, <3>1, <3>2
  <2>9. SchedOK'
    BY <1>1, <1>3, <2>2 DEF ProcInv, SchedOK
  <2>10. FamilyOK'
    <3>1. INITPROC \in DOMAIN pcb' /\ ~pcb'[INITPROC].is_zombie
      BY SMTT(20), <1>1, <1>4, <1>8, <2>1 DEF FamilyOK, IsLive
    <3>2. ASSUME NEW q \in DOMAIN pcb'
          PROVE  /\ IsInjective(pcb'[q].children)
                 /\ \A c \in Range(pcb'[q].children) :
                      c \in DOMAIN pcb' \ {INITPROC} /\ pcb'[c].parent = q
      <4>1. /\ IsInjective(pcb[q].children)
            /\ \A c \in Range(pcb[q].children) : c \in DOMAIN pcb \ {INITPROC} /\ pcb[c].parent = q
        BY <1>1, <2>1 DEF FamilyOK
      <4>2. pcb[child].parent = p
        BY <1>1, <1>4 DEF FamilyOK, kids
      <4>3. CASE q = p
        BY SMTT(20), <1>5, <1>8, <2>1, <4>1, <4>3 DEF kids
      <4>4. CASE q # p
        BY SMTT(20), <1>8, <2>1, <4>1, <4>2, <4>4
      <4> QED BY <4>3, <4>4
    <3>3. ASSUME NEW q \in DOMAIN pcb' \ {INITPROC}
          PROVE  pcb'[q].parent \in DOMAIN pcb' \ {q} /\ q \in Range(pcb'[pcb'[q].parent].children)
      <4>1. /\ q \in DOMAIN pcb /\ q # child /\ pcb'[q].parent = pcb[q].parent
            /\ pcb[q].parent \in DOMAIN pcb \ {q} /\ q \in Range(pcb[pcb[q].parent].children)
        BY <1>1, <1>8, <2>1 DEF FamilyOK
      <4>2. pcb[q].parent # child
        <5>1. pcb[child].children = <<>>
          BY <1>4 DEF ProcInv, ProcsOK, ProcOK
        <5> QED BY <4>1, <5>1 DEF Range
      <4> QED BY SMTT(20), <1>5, <1>8, <2>1, <4>1, <4>2 DEF kids
    <3> QED BY SMTT(20), <3>1, <3>2, <3>3 DEF FamilyOK, IsLive
  <2> QED BY SMTT(20), <2>4, <2>5, <2>6, <2>7, <2>8, <2>9, <2>10 DEF ProcInv
<1> QED
  BY <1>6, <1>9, <1>10

(* The threads of a live process, of which none is in the list twice.         *)
LEMMA ThreadsOfProcess ==
  ASSUME ProcInv, NEW p \in DOMAIN pcb
  PROVE  /\ Threads(p) \in Seq(Nat) /\ IsInjective(Threads(p))
         /\ Range(Threads(p)) = Range(pcb[p].tasks) \cap DOMAIN tcb
         /\ \A t \in Range(Threads(p)) : tcb[t].process = p
<1> DEFINE s == pcb[p].tasks
           S == DOMAIN tcb
           th == Threads(p)
<1>1. s \in Seq(Int) /\ TasksOf(p) /\ S \subseteq Nat
  BY DEF ProcInv, ProcsOK, ProcOK, IdsOK, InUse
<1>2. \A i \in 1..Len(s) : s[i] \in S => tcb[s[i]].process = p /\ tcb[s[i]].tid = i - 1
  <2>1. None \notin S
    BY <1>1 DEF None
  <2>2. DOMAIN s = 1..Len(s)
    BY <1>1
  <2> QED BY <1>1, <2>1, <2>2 DEF TasksOf
<1>3. \A i, j \in 1..Len(s) : s[i] \in S /\ s[i] = s[j] => i = j
  <2> SUFFICES ASSUME NEW i \in 1..Len(s), NEW j \in 1..Len(s), s[i] \in S, s[i] = s[j]
               PROVE  i = j
    OBVIOUS
  <2>1. i - 1 = j - 1
    BY <1>2
  <2> QED BY <1>1, <2>1
<1> HIDE DEF s, S
<1>4. th = Filter(s, S)
  BY DEF Threads, s, S
<1> HIDE DEF th
<1>5. th \in Seq(Int) /\ Range(th) = Range(s) \cap S /\ IsInjective(th)
  BY <1>1, <1>3, <1>4, FilterProperties
<1>6. \A i \in 1..Len(th) : th[i] \in Nat
  <2>1. \A i \in 1..Len(th) : th[i] \in Range(th)
    BY <1>5 DEF Range
  <2> QED BY <1>1, <1>5, <2>1
<1>7. th \in Seq(Nat)
  BY <1>5, <1>6
<1>8. \A t \in Range(th) : tcb[t].process = p
  <2> SUFFICES ASSUME NEW t \in Range(th) PROVE tcb[t].process = p
    OBVIOUS
  <2>1. PICK i \in DOMAIN s : s[i] = t
    BY Zenon, <1>5 DEF Range
  <2> QED BY <1>1, <1>2, <1>5, <2>1
<1> QED
  BY <1>5, <1>7, <1>8 DEF th, s, S

(* Reparented: a zombie without children, whose children initproc has now.    *)
LEMMA ReparentedBlocks ==
  ASSUME ProcInv, FamilyOK, NEW p \in DOMAIN pcb, p # INITPROC
  PROVE  LET R == Reparented(p)
             orphans == pcb[p].children
         IN  /\ DOMAIN R = DOMAIN pcb
             /\ \A q \in DOMAIN pcb :
                  /\ DOMAIN R[q] = ProcFields /\ R[q].held = pcb[q].held
                  /\ R[q].is_zombie = IF q = p THEN TRUE ELSE pcb[q].is_zombie
                  /\ R[q].tasks = IF q = p THEN <<>> ELSE pcb[q].tasks
                  /\ R[q].parent = IF q \in Range(orphans) THEN INITPROC ELSE pcb[q].parent
                  /\ R[q].children = IF q = p THEN <<>>
                                     ELSE IF q = INITPROC THEN pcb[q].children \o orphans
                                     ELSE pcb[q].children
                  /\ R[q].task_res_allocator = pcb[q].task_res_allocator
<1> DEFINE R == Reparented(p)
           orphans == pcb[p].children
           kids == pcb[INITPROC].children \o orphans
<1>1. p \notin Range(orphans) /\ INITPROC \notin Range(orphans)
  BY DEF FamilyOK
<1>2. /\ DOMAIN R = DOMAIN pcb
      /\ \A q \in DOMAIN pcb :
           /\ q = p => R[q] = [pcb[p] EXCEPT !.is_zombie = TRUE, !.children = <<>>, !.tasks = <<>>]
           /\ q = INITPROC => R[q] = [pcb[q] EXCEPT !.children = kids]
           /\ q \in Range(orphans) => R[q] = [pcb[q] EXCEPT !.parent = INITPROC]
           /\ q # p /\ q # INITPROC /\ q \notin Range(orphans) => R[q] = pcb[q]
  BY Zenon, <1>1 DEF Reparented
<1> HIDE DEF R, orphans, kids
<1> SUFFICES ASSUME NEW q \in DOMAIN pcb
             PROVE  /\ DOMAIN R[q] = ProcFields /\ R[q].held = pcb[q].held
                    /\ R[q].is_zombie = IF q = p THEN TRUE ELSE pcb[q].is_zombie
                    /\ R[q].tasks = IF q = p THEN <<>> ELSE pcb[q].tasks
                    /\ R[q].parent = IF q \in Range(orphans) THEN INITPROC ELSE pcb[q].parent
                    /\ R[q].children = IF q = p THEN <<>>
                                       ELSE IF q = INITPROC THEN kids
                                       ELSE pcb[q].children
                    /\ R[q].task_res_allocator = pcb[q].task_res_allocator
  BY Zenon, <1>2 DEF R, orphans, kids
<1>3. DOMAIN pcb[q] = ProcFields
  BY DEF ProcInv, ProcsOK, ProcOK
<1>4. CASE q = p
  <2>1. R[q] = [pcb[q] EXCEPT !.is_zombie = TRUE, !.children = <<>>, !.tasks = <<>>]
    BY <1>2, <1>4
  <2> QED BY <1>1, <1>3, <1>4, <2>1 DEF ProcFields
<1>5. CASE q = INITPROC
  <2>1. R[q] = [pcb[q] EXCEPT !.children = kids]
    BY <1>2, <1>5
  <2> QED BY Zenon, <1>1, <1>3, <1>5, <2>1 DEF ProcFields
<1>6. CASE q \in Range(orphans)
  <2>1. R[q] = [pcb[q] EXCEPT !.parent = INITPROC]
    BY <1>2, <1>6
  <2> QED BY Zenon, <1>1, <1>3, <1>6, <2>1 DEF ProcFields
<1>7. CASE q # p /\ q # INITPROC /\ q \notin Range(orphans)
  BY <1>2, <1>3, <1>7
<1> QED
  BY Zenon, <1>4, <1>5, <1>6, <1>7

(* The main thread exits, and with it the process: its threads are gone from  *)
(* the ready queue, and those that nothing refers to any more are dropped.    *)
LEMMA ExitMainKeeps ==
  ASSUME ProcInv, ExitMain, mode # "idle", halted = "no" PROVE ProcInv'
<1> DEFINE p == Pid
           c == current
           T == Range(Threads(p))
           D == {t \in DOMAIN tcb \ {c} : tcb[t].at \notin BlockingWaits}
           dropped == Filter(Threads(p), D)
           gone == Range(dropped) \cup {stop_task}
           orphans == pcb[p].children
           init == INITPROC
<1>1. /\ c \in DOMAIN tcb /\ tcb[c].res /\ c # None /\ p \in DOMAIN pcb /\ ~pcb[p].is_zombie
      /\ tcb[c].process = p /\ DOMAIN tcb \subseteq Nat /\ DOMAIN pcb \subseteq Nat
      /\ 1 \in DOMAIN pcb[p].tasks /\ pcb[p].tasks[1] = c /\ p # init
      /\ FamilyOK /\ AllocOK(kstack_allocator) /\ DOMAIN tcb = InUse(kstack_allocator)
  <2>1. Self.tid = 0 /\ p # init
    BY Zenon DEF ExitMain, INITPROC, IDLE_PID
  <2> QED BY SMTT(20), <2>1, CurrentLive
          DEF ProcInv, IsLive, IdsOK, InUse, None, Self, Process, Pid
<1>2. /\ kstack_allocator' = DeallocAll(FreeTask(kstack_allocator, stop_task), dropped)
      /\ tcb' = [t \in DOMAIN tcb \ gone |->
                   IF t \in T
                   THEN [tcb[t] EXCEPT !.res = FALSE, !.at = IF t = c THEN "done" ELSE @]
                   ELSE tcb[t]]
      /\ PID2PCB' = PID2PCB \ {p}
      /\ ready_queue' = Filter(ready_queue, DOMAIN tcb \ T)
      /\ stop_task' = c /\ current' = None /\ mode' = "idle" /\ UNCHANGED pid_allocator
  BY Zenon DEF ExitMain, remove_inactive_tasks
<1>3. \E ids : pcb' = [Reparented(p) EXCEPT ![p].task_res_allocator = ids]
  BY Zenon DEF ExitMain
<1>4. /\ Threads(p) \in Seq(Nat) /\ IsInjective(Threads(p))
      /\ T = Range(pcb[p].tasks) \cap DOMAIN tcb /\ \A t \in T : tcb[t].process = p
  BY <1>1, ThreadsOfProcess
<1>5. dropped \in Seq(Nat) /\ IsInjective(dropped) /\ Range(dropped) = T \cap D
  <2> DEFINE th == Threads(p)
  <2>1. \A i, j \in 1..Len(th) : th[i] \in D /\ th[i] = th[j] => i = j
    <3>1. DOMAIN th = 1..Len(th)
      BY <1>4
    <3> QED BY <1>4, <3>1 DEF IsInjective
  <2> HIDE DEF th, D
  <2> QED BY <1>4, <2>1, FilterProperties DEF th
<1>6. c \in T
  BY <1>1, <1>4 DEF Range
<1>7. stop_task # None => stop_task \in DOMAIN tcb /\ ~IsLive(tcb[stop_task].process)
  BY DEF ProcInv, StopOK
<1>8. stop_task \notin T
  <2>1. None \notin T
    BY <1>1, <1>4 DEF None
  <2> QED BY SMTT(20), <1>1, <1>4, <1>7, <2>1 DEF IsLive
<1>9. \A t \in DOMAIN tcb : t \in D <=> t # c /\ tcb[t].at \notin BlockingWaits
  OBVIOUS
<1>10. PICK ids : pcb' = [Reparented(p) EXCEPT ![p].task_res_allocator = ids]
  BY Zenon, <1>3
<1> HIDE DEF p, c, T, D, dropped, gone, orphans, init
<1>11. /\ DOMAIN tcb' = DOMAIN tcb \ gone /\ c \in DOMAIN tcb'
       /\ \A t \in DOMAIN tcb' :
            /\ t \notin T => tcb'[t] = tcb[t]
            /\ t \in T => /\ DOMAIN tcb'[t] = TaskFields /\ tcb'[t].process = p
                          /\ tcb'[t].tid = tcb[t].tid /\ tcb'[t].res = FALSE
                          /\ t # c => tcb'[t].at = tcb[t].at
  <2>1. DOMAIN tcb' = DOMAIN tcb \ gone
    BY Zenon, <1>2
  <2>2. c \notin gone
    BY <1>1, <1>5, <1>6, <1>8, <1>9 DEF gone
  <2>3. ASSUME NEW t \in DOMAIN tcb'
        PROVE  /\ t \notin T => tcb'[t] = tcb[t]
               /\ t \in T => /\ DOMAIN tcb'[t] = TaskFields /\ tcb'[t].process = p
                             /\ tcb'[t].tid = tcb[t].tid /\ tcb'[t].res = FALSE
                             /\ t # c => tcb'[t].at = tcb[t].at
    <3>1. DOMAIN tcb[t] = TaskFields /\ t \in DOMAIN tcb \ gone
      BY SMTT(20), <2>1 DEF ProcInv, TasksOK, TaskOK
    <3>2. PICK a : tcb'[t] = IF t \in T THEN [tcb[t] EXCEPT !.res = FALSE, !.at = IF t = c THEN a ELSE @]
                             ELSE tcb[t]
      BY Zenon, <1>2, <3>1
    <3> QED BY <1>4, <3>1, <3>2 DEF TaskFields
  <2> QED BY ZenonT(30), <1>1, <2>1, <2>2, <2>3
<1>12. /\ DOMAIN pcb' = DOMAIN pcb
       /\ \A q \in DOMAIN pcb :
            /\ DOMAIN pcb'[q] = ProcFields /\ pcb'[q].held = pcb[q].held
            /\ pcb'[q].is_zombie = IF q = p THEN TRUE ELSE pcb[q].is_zombie
            /\ pcb'[q].tasks = IF q = p THEN <<>> ELSE pcb[q].tasks
            /\ pcb'[q].parent = IF q \in Range(orphans) THEN init ELSE pcb[q].parent
            /\ pcb'[q].children = IF q = p THEN <<>>
                                  ELSE IF q = init THEN pcb[q].children \o orphans
                                  ELSE pcb[q].children
            /\ q # p => pcb'[q].task_res_allocator = pcb[q].task_res_allocator
  <2> DEFINE R == Reparented(p)
  <2>1. /\ DOMAIN R = DOMAIN pcb
        /\ \A q \in DOMAIN pcb :
             /\ DOMAIN R[q] = ProcFields /\ R[q].held = pcb[q].held
             /\ R[q].is_zombie = IF q = p THEN TRUE ELSE pcb[q].is_zombie
             /\ R[q].tasks = IF q = p THEN <<>> ELSE pcb[q].tasks
             /\ R[q].parent = IF q \in Range(orphans) THEN init ELSE pcb[q].parent
             /\ R[q].children = IF q = p THEN <<>>
                                ELSE IF q = init THEN pcb[q].children \o orphans
                                ELSE pcb[q].children
             /\ R[q].task_res_allocator = pcb[q].task_res_allocator
    BY Zenon, <1>1, ReparentedBlocks DEF orphans, init
  <2>2. pcb' = [R EXCEPT ![p].task_res_allocator = ids]
    BY <1>10
  <2> HIDE DEF R
  <2>3. DOMAIN pcb' = DOMAIN R /\ pcb'[p] = [R[p] EXCEPT !.task_res_allocator = ids]
    BY <1>1, <2>1, <2>2
  <2>4. \A q \in DOMAIN pcb : q # p => pcb'[q] = R[q]
    BY <2>1, <2>2
  <2>5. DOMAIN R[p] = ProcFields
    BY Zenon, <1>1, <2>1
  <2>6. /\ DOMAIN pcb'[p] = ProcFields /\ pcb'[p].held = R[p].held
        /\ pcb'[p].is_zombie = R[p].is_zombie /\ pcb'[p].tasks = R[p].tasks
        /\ pcb'[p].parent = R[p].parent /\ pcb'[p].children = R[p].children
    BY <2>3, <2>5 DEF ProcFields
  <2> SUFFICES ASSUME NEW q \in DOMAIN pcb
               PROVE  /\ DOMAIN pcb'[q] = ProcFields /\ pcb'[q].held = pcb[q].held
                      /\ pcb'[q].is_zombie = IF q = p THEN TRUE ELSE pcb[q].is_zombie
                      /\ pcb'[q].tasks = IF q = p THEN <<>> ELSE pcb[q].tasks
                      /\ pcb'[q].parent = IF q \in Range(orphans) THEN init ELSE pcb[q].parent
                      /\ pcb'[q].children = IF q = p THEN <<>>
                                            ELSE IF q = init THEN pcb[q].children \o orphans
                                            ELSE pcb[q].children
                      /\ q # p => pcb'[q].task_res_allocator = pcb[q].task_res_allocator
    BY Zenon, <2>1, <2>3
  <2>7. CASE q = p
    BY Zenon, <2>1, <2>6, <2>7
  <2>8. CASE q # p
    BY Zenon, <2>1, <2>4, <2>8
  <2> QED BY Zenon, <2>7, <2>8
<1>13. \A q \in DOMAIN pcb : IsLive(q)' => IsLive(q) /\ q # p
  BY Zenon, <1>12 DEF IsLive
<1>14. IdsOK' /\ PidsOK'
  <2>1. stop_task \in InUse(kstack_allocator) \cup {None}
    BY <1>1, <1>7
  <2> DEFINE k == FreeTask(kstack_allocator, stop_task)
  <2>2. AllocOK(k) /\ InUse(k) = DOMAIN tcb \ {stop_task}
    BY <1>1, <2>1, FreeTaskGivesBack
  <2> HIDE DEF k
  <2>3. Range(dropped) \subseteq InUse(k)
    BY <1>4, <1>5, <1>8, <2>2
  <2>4. AllocOK(DeallocAll(k, dropped)) /\ InUse(DeallocAll(k, dropped)) = InUse(k) \ Range(dropped)
    BY SMTT(20), <1>5, <2>2, <2>3, DeallocAllGivesBack
  <2>5. AllocOK(kstack_allocator') /\ InUse(kstack_allocator') = DOMAIN tcb'
    BY Zenon, <1>2, <1>11, <2>2, <2>4 DEF k, gone
  <2> QED BY Zenon, <1>1, <1>2, <1>12, <2>5 DEF ProcInv, IdsOK, PidsOK
<1>15. TasksOK'
  <2> SUFFICES ASSUME NEW u \in DOMAIN tcb' PROVE TaskOK(u)'
    BY DEF TasksOK
  <2>1. u \in DOMAIN tcb /\ TaskOK(u)
    BY SMTT(20), <1>11 DEF ProcInv, TasksOK
  <2>2. CASE u \in T
    BY ZenonT(30), <1>1, <1>11, <1>12, <2>1, <2>2 DEF TaskOK, IsLive
  <2>3. CASE u \notin T
    <3>1. tcb'[u] = tcb[u]
      BY <1>11, <2>3
    <3>2. tcb[u].res => tcb[u].process # p
      BY <1>4, <2>1, <2>3 DEF TaskOK, Range
    <3>3. None \notin DOMAIN pcb
      BY <1>1 DEF None
    <3>4. CASE tcb[u].res
      <4> DEFINE q == tcb[u].process
      <4>1. q \in DOMAIN pcb /\ q # p /\ ~pcb[q].is_zombie
        BY <2>1, <3>2, <3>4 DEF TaskOK, IsLive
      <4>2. /\ pcb'[q].task_res_allocator = pcb[q].task_res_allocator
            /\ pcb'[q].tasks = pcb[q].tasks /\ ~pcb'[q].is_zombie /\ q \in DOMAIN pcb'
        BY ZenonT(30), <1>12, <4>1
      <4> QED BY SMTT(20), <2>1, <3>1, <3>4, <4>1, <4>2 DEF TaskOK, IsLive
    <3>5. CASE ~tcb[u].res
      <4>1. tcb[u].at = "done" \/ ~(tcb[u].process \in DOMAIN pcb' /\ ~pcb'[tcb[u].process].is_zombie)
        BY Zenon, <1>12, <2>1, <3>5 DEF TaskOK, IsLive
      <4>2. DOMAIN pcb' = DOMAIN pcb
        BY <1>12
      <4> QED BY SMTT(20), <2>1, <3>1, <3>5, <4>1, <4>2 DEF TaskOK, IsLive
    <3> QED BY <2>1, <3>4, <3>5 DEF TaskOK
  <2> QED BY <2>2, <2>3
<1>16. ProcsOK'
  <2> SUFFICES ASSUME NEW q \in DOMAIN pcb PROVE ProcOK(q)' /\ TasksOf(q)'
    BY <1>12 DEF ProcsOK
  <2>1. ProcOK(q) /\ TasksOf(q) /\ ProcOK(p)
    BY SMTT(20), <1>1 DEF ProcInv, ProcsOK
  <2>2. CASE q = p
    <3>1. <<>> \in Seq(Int) /\ <<>> \in Seq(Nat) /\ DOMAIN <<>> = {}
      OBVIOUS
    <3> QED BY Zenon, <1>12, <2>1, <2>2, <3>1 DEF ProcOK, TasksOf
  <2>3. CASE q # p
    <3>1. pcb'[q].children \in Seq(Nat) /\ (pcb[q].is_zombie => pcb'[q].children = <<>>)
      <4>1. CASE q = init
        <5>1. ~pcb[q].is_zombie
          BY SMTT(20), <1>1, <4>1 DEF FamilyOK, IsLive, init
        <5>2. pcb[q].children \in Seq(Nat) /\ orphans \in Seq(Nat)
          BY <2>1 DEF ProcOK, orphans
        <5>3. pcb[q].children \o orphans \in Seq(Nat)
          BY <5>2, ConcatRange
        <5> QED BY Zenon, <1>12, <2>3, <4>1, <5>1, <5>3
      <4>2. CASE q # init
        BY Zenon, <1>12, <2>1, <2>3, <4>2 DEF ProcOK
      <4> QED BY <4>1, <4>2
    <3>2. ProcOK(q)'
      BY ZenonT(30), <1>12, <2>1, <2>3, <3>1 DEF ProcOK
    <3>3. TasksOf(q)'
      <4> SUFFICES ASSUME NEW i \in DOMAIN pcb[q].tasks, pcb[q].tasks[i] # None
                   PROVE  /\ pcb[q].tasks[i] \in DOMAIN tcb'
                          /\ tcb'[pcb[q].tasks[i]].process = q /\ tcb'[pcb[q].tasks[i]].tid = i - 1
        BY Zenon, <1>12, <2>3 DEF TasksOf
      <4> DEFINE u == pcb[q].tasks[i]
      <4>1. u \in DOMAIN tcb /\ tcb[u].process = q /\ tcb[u].tid = i - 1
        BY <2>1 DEF TasksOf
      <4>2. u \notin T
        BY SMTT(20), <1>4, <2>3, <4>1
      <4>3. ~pcb[q].is_zombie
        BY <2>1 DEF ProcOK
      <4>4. u # stop_task
        BY SMTT(20), <1>7, <4>1, <4>3 DEF IsLive
      <4>5. u \in DOMAIN tcb'
        BY SMTT(20), <1>5, <1>11, <4>1, <4>2, <4>4 DEF gone
      <4> QED BY <1>11, <4>1, <4>2, <4>5
    <3> QED BY <3>2, <3>3
  <2> QED BY <2>2, <2>3
<1>17. StopOK'
  <2>1. tcb'[c].process = p /\ pcb'[p].is_zombie
    BY Zenon, <1>1, <1>6, <1>11, <1>12
  <2> QED BY Zenon, <1>2, <1>11, <2>1 DEF StopOK, IsLive
<1>18. KernelStacksReclaimed'
  <2> SUFFICES ASSUME NEW u \in DOMAIN tcb'
               PROVE  \/ \E q \in DOMAIN pcb' : u \in Range(pcb'[q].tasks)
                      \/ u = stop_task'
                      \/ tcb'[u].at \in BlockingWaits /\ ~tcb'[u].res
    BY DEF KernelStacksReclaimed, BlockingWaits
  <2>1. u \in DOMAIN tcb /\ u \notin gone
    BY SMTT(20), <1>11
  <2>2. CASE u = c
    BY Zenon, <1>2, <2>2
  <2>3. CASE u \in T /\ u # c
    <3>1. tcb[u].at \in BlockingWaits
      BY SMTT(20), <1>5, <1>9, <2>1, <2>3 DEF gone
    <3> QED BY <1>11, <2>3, <3>1
  <2>4. CASE u \notin T
    <3>1. tcb'[u] = tcb[u] /\ u # stop_task
      BY <1>11, <2>1, <2>4 DEF gone
    <3>2. \/ \E q \in DOMAIN pcb : u \in Range(pcb[q].tasks)
          \/ tcb[u].at \in BlockingWaits /\ ~tcb[u].res
      BY <2>1, <3>1 DEF ProcInv, KernelStacksReclaimed
    <3>3. u \notin Range(pcb[p].tasks)
      BY SMTT(20), <1>4, <2>1, <2>4
    <3> QED BY ZenonT(30), <1>12, <3>1, <3>2, <3>3
  <2> QED BY <2>2, <2>3, <2>4
<1>19. SchedOK'
  <2> DEFINE L == DOMAIN tcb \ T
  <2>1. ready_queue \in Seq(Nat) /\ IsInjective(ready_queue) /\ DOMAIN ready_queue = 1..Len(ready_queue)
    BY DEF ProcInv, SchedOK
  <2>2. \A i, j \in 1..Len(ready_queue) :
          ready_queue[i] \in L /\ ready_queue[i] = ready_queue[j] => i = j
    BY SMTT(20), <2>1 DEF IsInjective
  <2>3. ready_queue' = Filter(ready_queue, L)
    BY Zenon, <1>2
  <2> HIDE DEF L
  <2>4. /\ ready_queue' \in Seq(Nat) /\ IsInjective(ready_queue')
        /\ Range(ready_queue') = Range(ready_queue) \cap L
    BY SMTT(20), <2>1, <2>2, <2>3, FilterProperties
  <2>5. ASSUME NEW u \in Range(ready_queue')
        PROVE  u \in DOMAIN tcb' /\ tcb'[u].res
    <3>1. u \in DOMAIN tcb /\ u \notin T /\ tcb[u].res
      BY SMTT(20), <2>4, <2>5 DEF ProcInv, SchedOK, L
    <3>2. u # stop_task
      BY SMTT(20), <1>1, <1>7, <3>1 DEF ProcInv, TasksOK, TaskOK, None
    <3>3. u \in DOMAIN tcb'
      BY SMTT(20), <1>5, <1>11, <3>1, <3>2 DEF gone
    <3> QED BY <1>11, <3>1, <3>3
  <2>6. None \notin Range(ready_queue')
    BY SMTT(20), <1>1, <1>11, <2>5 DEF None
  <2> QED BY Zenon, <1>2, <2>4, <2>5, <2>6 DEF SchedOK
<1>20. FamilyOK'
  <2> DEFINE kids == pcb[init].children \o orphans
  <2>1. /\ init \in DOMAIN pcb /\ ~pcb[init].is_zombie
        /\ \A q \in DOMAIN pcb :
             /\ IsInjective(pcb[q].children)
             /\ \A x \in Range(pcb[q].children) : x \in DOMAIN pcb \ {init} /\ pcb[x].parent = q
        /\ \A q \in DOMAIN pcb \ {init} :
             pcb[q].parent \in DOMAIN pcb \ {q} /\ q \in Range(pcb[pcb[q].parent].children)
    BY <1>1 DEF FamilyOK, IsLive, init
  <2>2. \A x \in Range(orphans) : x \in DOMAIN pcb \ {init} /\ pcb[x].parent = p
    BY <1>1, <2>1 DEF orphans
  <2>3. IsInjective(kids) /\ Range(kids) = Range(pcb[init].children) \cup Range(orphans)
    <3>1. pcb[init].children \in Seq(Nat) /\ orphans \in Seq(Nat)
      BY SMTT(20), <1>1, <2>1 DEF ProcInv, ProcsOK, ProcOK, orphans
    <3>2. IsInjective(pcb[init].children) /\ IsInjective(orphans)
      BY SMTT(20), <1>1, <2>1 DEF orphans
    <3>3. Range(pcb[init].children) \cap Range(orphans) = {}
      BY SMTT(20), <1>1, <2>1, <2>2
    <3> QED BY SMTT(20), <3>1, <3>2, <3>3, ConcatRange
  <2> HIDE DEF kids
  <2>4. \A q \in DOMAIN pcb :
          /\ q = p => pcb'[q].children = <<>>
          /\ q = init => pcb'[q].children = kids
          /\ q # p /\ q # init => pcb'[q].children = pcb[q].children
          /\ q \in Range(orphans) => pcb'[q].parent = init
          /\ q \notin Range(orphans) => pcb'[q].parent = pcb[q].parent
    BY ZenonT(30), <1>1, <1>12 DEF kids
  <2>5. ASSUME NEW q \in DOMAIN pcb
        PROVE  /\ IsInjective(pcb'[q].children)
               /\ \A x \in Range(pcb'[q].children) : x \in DOMAIN pcb \ {init} /\ pcb'[x].parent = q
    <3>1. CASE q = p
      BY <2>4, <3>1 DEF IsInjective, Range
    <3>2. CASE q = init
      BY SMTT(20), <1>1, <2>1, <2>2, <2>3, <2>4, <3>2
    <3>3. CASE q # p /\ q # init
      BY SMTT(20), <2>1, <2>2, <2>4, <3>3
    <3> QED BY <3>1, <3>2, <3>3
  <2>6. ASSUME NEW q \in DOMAIN pcb \ {init}
        PROVE  pcb'[q].parent \in DOMAIN pcb \ {q} /\ q \in Range(pcb'[pcb'[q].parent].children)
    <3>1. CASE q \in Range(orphans)
      BY SMTT(20), <2>1, <2>3, <2>4, <3>1
    <3>2. CASE q \notin Range(orphans)
      <4>1. pcb'[q].parent = pcb[q].parent /\ pcb[q].parent # p
        BY SMTT(20), <2>1, <2>4, <3>2 DEF orphans
      <4> QED BY SMTT(20), <2>1, <2>3, <2>4, <4>1
    <3> QED BY SMTT(20), <3>1, <3>2
  <2>7. init \in DOMAIN pcb' /\ ~pcb'[init].is_zombie
    BY Zenon, <1>1, <1>12, <2>1
  <2> QED BY SMTT(20), <1>12, <2>5, <2>6, <2>7 DEF FamilyOK, IsLive, init
<1> QED
  BY SMTT(20), <1>14, <1>15, <1>16, <1>17, <1>18, <1>19, <1>20 DEF ProcInv

-----------------------------------------------------------------------------
\* The theorems.

(* ProcInv holds after boot.                                                *)
LEMMA InitProcInv == Init => ProcInv
<1> SUFFICES ASSUME Init PROVE ProcInv
  OBVIOUS
<1>1. /\ pid_allocator = alloc(NewAllocator) /\ kstack_allocator = alloc(NewAllocator)
      /\ pcb = [p \in {INITPROC} |-> NewProcess(None, 0)] /\ PID2PCB = {INITPROC}
      /\ ready_queue = <<0>> /\ stop_task = None /\ current = None /\ mode = "idle"
  BY DEF Init
<1>2. PICK base, ppn : tcb = [t \in {0} |-> NewTask(INITPROC, 0, base, ppn)]
  BY Zenon DEF Init
<1>3. /\ DOMAIN pcb = {0} /\ DOMAIN pcb[0] = ProcFields /\ pcb[0].is_zombie = FALSE
      /\ pcb[0].children = <<>> /\ pcb[0].tasks = <<0>> /\ pcb[0].held = 0
      /\ pcb[0].task_res_allocator = alloc(NewAllocator)
  <2>1. DOMAIN pcb = {0} /\ pcb[0] = NewProcess(None, 0)
    BY <1>1 DEF INITPROC
  <2> QED BY <2>1 DEF NewProcess, ProcFields
<1>4. /\ DOMAIN tcb = {0} /\ DOMAIN tcb[0] = TaskFields /\ tcb[0].process = 0 /\ tcb[0].tid = 0
      /\ tcb[0].res = TRUE /\ tcb[0].at = "start"
  <2>1. DOMAIN tcb = {0} /\ tcb[0] = NewTask(INITPROC, 0, base, ppn)
    BY <1>2
  <2> QED BY <2>1 DEF NewTask, TaskFields, INITPROC
<1>5. /\ AllocOK(alloc(NewAllocator)) /\ InUse(alloc(NewAllocator)) = {0}
  BY FirstId
<1>6. /\ <<0>> \in Seq(Nat) /\ <<0>> \in Seq(Int) /\ DOMAIN <<0>> = {1} /\ <<0>>[1] = 0
      /\ Range(<<0>>) = {0} /\ IsInjective(<<0>>)
  BY DEF Range, IsInjective
<1>7. <<>> \in Seq(Nat) /\ Range(<<>>) = {} /\ IsInjective(<<>>)
  BY DEF Range, IsInjective
<1>8. IdsOK /\ PidsOK
  BY SMTT(20), <1>1, <1>3, <1>4, <1>5 DEF IdsOK, PidsOK, INITPROC
<1>9. TasksOK
  <2>1. TaskOK(0)
    <3>1. IsLive(0) /\ 0 \in Nat /\ 0 + 1 = 1
      BY <1>3 DEF IsLive
    <3> QED BY ZenonT(30), <1>3, <1>4, <1>5, <1>6, <3>1 DEF TaskOK
  <2> QED BY <1>4, <2>1 DEF TasksOK
<1>10. ProcsOK
  <2>1. ProcOK(0)
    <3>1. pcb[0].tasks \in Seq(Int) /\ pcb[0].children \in Seq(Nat)
      BY <1>3, <1>6, <1>7, Zenon
    <3>2. AllocOK(pcb[0].task_res_allocator) /\ pcb[0].held \in Int
      BY <1>3, <1>5
    <3> QED BY <1>3, <3>1, <3>2, Zenon DEF ProcOK
  <2>2. TasksOf(0)
    BY SMTT(20), <1>3, <1>4, <1>6 DEF TasksOf
  <2> QED BY <1>3, <2>1, <2>2 DEF ProcsOK
<1>11. StopOK /\ KernelStacksReclaimed
  BY SMTT(20), <1>1, <1>3, <1>4, <1>6 DEF StopOK, KernelStacksReclaimed
<1>12. SchedOK
  BY SMTT(20), <1>1, <1>4, <1>6 DEF SchedOK, None
<1>13. FamilyOK
  BY <1>3, <1>7 DEF FamilyOK, IsLive, INITPROC
<1> QED
  BY SMTT(20), <1>8, <1>9, <1>10, <1>11, <1>12, <1>13 DEF ProcInv

(* Every step keeps ProcInv.                                                *)
LEMMA NextProcInv ==
  ASSUME ProcInv, [Next]_vars PROVE ProcInv'
<1>1. CASE RunTasks
  BY <1>1, RunTasksKeeps
<1>2. CASE Yield \/ PipeAgain
  BY <1>2, YieldKeeps
<1>3. CASE PipeDone
  BY <1>3, PipeDoneKeeps
<1>4. CASE \E at \in BlockingWaits \cup {"pipe"} : Wait(at)
  BY <1>4, WaitKeeps
<1>5. CASE \E t \in DOMAIN tcb : WakeUp(t)
  BY SMTT(20), <1>5, WakeUpKeeps
<1>6. CASE Fork
  BY <1>6, ForkKeeps
<1>7. CASE ThreadCreate
  BY <1>7, ThreadCreateKeeps
<1>8. CASE \E pages \in Elf : Exec(pages)
  BY <1>8, ExecKeeps
<1>9. CASE \E tid \in 0..(MaxThread - 1) : Waittid(tid)
  BY <1>9, WaittidKeeps
<1>10. CASE \E pid \in {None} \cup 0..(MaxPid - 1) : Waitpid(pid)
  BY <1>10, WaitpidKeeps
<1>11. CASE \E pid \in 0..(MaxPid - 1) : Kill(pid)
  BY <1>11, KillKeeps
<1>12. CASE Exit \/ Signalled
  <2>1. mode # "idle" /\ halted = "no" /\ (ExitThread \/ ExitIdle \/ ExitMain)
    BY <1>12 DEF Exit, Signalled, InSyscall, exit_current_and_run_next
  <2> QED BY <2>1, ExitThreadKeeps, ExitMainKeeps, OthersKeep
<1>13. CASE TrapReturn \/ UNCHANGED vars
  BY <1>13, OthersKeep
<1> QED
  BY SMTT(20), <1>1, <1>2, <1>3, <1>4, <1>5, <1>6, <1>7, <1>8, <1>9, <1>10,
     <1>11, <1>12, <1>13 DEF Next

(* ProcInv is an invariant of the kernel, whatever the bounds.               *)
THEOREM ProcInvHolds == Spec => []ProcInv
<1>1. ProcInv /\ [Next]_vars => ProcInv'
  BY NextProcInv
<1> QED
  BY InitProcInv, <1>1, PTL DEF Spec

(* What is ready, runs or can be woken up is a thread of a process that has   *)
(* not exited, found there by its tid.                                      *)
THEOREM SchedulableThreadsLiveHolds == Spec => []SchedulableThreadsLive
<1>1. ASSUME ProcInv PROVE SchedulableThreadsLive
  <2>1. \A t \in Range(ready_queue) \cup ({current} \ {None}) \cup {u \in DOMAIN tcb : tcb[u].res} :
          t \in DOMAIN tcb /\ tcb[t].res
    BY <1>1 DEF ProcInv, SchedOK
  <2>2. ASSUME NEW t \in DOMAIN tcb, tcb[t].res
        PROVE  LET p == pcb[tcb[t].process] IN
               /\ tcb[t].process \in PID2PCB /\ ~p.is_zombie
               /\ tcb[t].tid \in InUse(p.task_res_allocator) /\ p.tasks[tcb[t].tid + 1] = t
    BY <1>1, <2>2 DEF ProcInv, TasksOK, TaskOK, IsLive, PidsOK
  <2>3. IsInjective(ready_queue) /\ current \notin Range(ready_queue)
    BY <1>1 DEF ProcInv, SchedOK
  <2> QED BY <2>1, <2>2, <2>3 DEF SchedulableThreadsLive
<1> QED
  BY ProcInvHolds, <1>1, PTL

(* A dead thread keeps its kernel stack only in tasks, as the last stop_task, *)
(* or because it was blocked when its process exited.                       *)
THEOREM KernelStacksReclaimedHolds == Spec => []KernelStacksReclaimed
<1>1. ProcInv => KernelStacksReclaimed
  BY DEF ProcInv
<1> QED
  BY ProcInvHolds, <1>1, PTL

(* A process is in the children list of its parent, once.                    *)
LEMMA HeldByParent ==
  ASSUME FamilyOK, NEW p \in DOMAIN pcb, p # INITPROC
  PROVE  Cardinality(UNION {{<<q, i>> : i \in {j \in DOMAIN pcb[q].children :
                                                 pcb[q].children[j] = p}} : q \in DOMAIN pcb}) = 1
<1> DEFINE Places(q) == {j \in DOMAIN pcb[q].children : pcb[q].children[j] = p}
           H == UNION {{<<q, i>> : i \in Places(q)} : q \in DOMAIN pcb}
           parent == pcb[p].parent
<1>1. parent \in DOMAIN pcb /\ p \in Range(pcb[parent].children) /\ IsInjective(pcb[parent].children)
  BY DEF FamilyOK
<1>2. PICK k \in DOMAIN pcb[parent].children : pcb[parent].children[k] = p
  BY <1>1 DEF Range
<1>3. Places(parent) = {k}
  BY <1>1, <1>2 DEF IsInjective
<1>4. \A q \in DOMAIN pcb : q # parent => Places(q) = {}
  <2> SUFFICES ASSUME NEW q \in DOMAIN pcb, NEW j \in DOMAIN pcb[q].children, pcb[q].children[j] = p
               PROVE  q = parent
    OBVIOUS
  <2>1. p \in Range(pcb[q].children)
    BY DEF Range
  <2> QED BY <2>1 DEF FamilyOK
<1> HIDE DEF Places, parent
<1>5. H = {<<parent, k>>}
  BY <1>1, <1>3, <1>4
<1>6. Cardinality({<<parent, k>>}) = 1
  BY ZenonT(30), FS_Singleton
<1> QED
  BY <1>5, <1>6, Zenon DEF Places

(* Every process but initproc is in one children list, its living parent's,   *)
(* and a zombie is held by nothing else but suspended system calls.          *)
THEOREM FamilyTreeHolds == Spec => []FamilyTree
<1>1. ASSUME ProcInv PROVE FamilyTree
  <2> SUFFICES ASSUME halted # "panic", NEW p \in DOMAIN pcb
               PROVE  /\ p \in PID2PCB <=> ~pcb[p].is_zombie
                      /\ p = INITPROC => ~pcb[p].is_zombie
                      /\ p # INITPROC =>
                           /\ pcb[p].parent \in DOMAIN pcb /\ ~pcb[pcb[p].parent].is_zombie
                           /\ {q \in DOMAIN pcb : p \in Range(pcb[q].children)} = {pcb[p].parent}
                           /\ strong_count(p) = (IF pcb[p].is_zombie THEN 1 ELSE 2) + pcb[p].held
    BY DEF FamilyTree
  <2>1. FamilyOK /\ ProcsOK /\ PidsOK
    BY <1>1 DEF ProcInv
  <2>2. p \in PID2PCB <=> ~pcb[p].is_zombie
    BY <2>1 DEF PidsOK
  <2>3. p = INITPROC => ~pcb[p].is_zombie
    BY <2>1 DEF FamilyOK, IsLive
  <2>4. ASSUME p # INITPROC
        PROVE  /\ pcb[p].parent \in DOMAIN pcb /\ ~pcb[pcb[p].parent].is_zombie
               /\ {q \in DOMAIN pcb : p \in Range(pcb[q].children)} = {pcb[p].parent}
               /\ strong_count(p) = (IF pcb[p].is_zombie THEN 1 ELSE 2) + pcb[p].held
    <3> DEFINE d == pcb[p].parent
    <3>1. d \in DOMAIN pcb /\ p \in Range(pcb[d].children)
      BY <2>1, <2>4 DEF FamilyOK
    <3>2. pcb[d].is_zombie = FALSE
      <4>1. pcb[d].is_zombie \in BOOLEAN /\ (pcb[d].is_zombie => pcb[d].children = <<>>)
        BY <2>1, <3>1 DEF ProcsOK, ProcOK
      <4> QED BY <3>1, <4>1 DEF Range
    <3>3. \A q \in DOMAIN pcb : p \in Range(pcb[q].children) => q = d
      BY <2>1 DEF FamilyOK
    <3>4. strong_count(p) = 1 + (IF p \in PID2PCB THEN 1 ELSE 0) + 0 + pcb[p].held
      BY <2>1, <2>4, HeldByParent DEF strong_count
    <3>5. pcb[p].held \in Int
      BY <2>1 DEF ProcsOK, ProcOK
    <3>6. strong_count(p) = (IF pcb[p].is_zombie THEN 1 ELSE 2) + pcb[p].held
      BY <2>2, <3>4, <3>5
    <3> HIDE DEF d
    <3>7. {q \in DOMAIN pcb : p \in Range(pcb[q].children)} = {d}
      BY <3>1, <3>3
    <3> QED BY SMTT(20), <3>1, <3>2, <3>6, <3>7 DEF d
  <2> QED BY <2>2, <2>3, <2>4
<1> QED
  BY ProcInvHolds, <1>1, PTL
=============================================================================
