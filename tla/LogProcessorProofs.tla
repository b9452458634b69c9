------------------------- MODULE LogProcessorProofs -------------------------
(***************************************************************************)
(* Proofs about LogProcessor, for every value of its constants.            *)
(***************************************************************************)
EXTENDS LogProcessor, SequenceTheorems, FiniteSetTheorems, TLAPS

-----------------------------------------------------------------------------
(* Numbers.                                                                *)

\* A non-empty set of naturals has a least member.  An induction over the
\* naturals below is this lemma, applied to the exceptions.
LEMMA LeastMember ==
  ASSUME NEW T, T \subseteq Nat, T # {}
  PROVE  \E x \in T : \A y \in T : x <= y
<1> DEFINE Less == {ss \in Nat \X Nat : ss[1] < ss[2]}
<1>1. IsWellFoundedOn(Less, Nat)
  BY NatLessThanWellFounded DEF OpToRel
<1> HIDE DEF Less
<1>2. PICK x \in T : \A y \in T : ~(<<y, x>> \in Less)
  BY <1>1, WFMin
<1>3. \A y \in T : ~(y < x)
  BY <1>2 DEF Less
<1> QED
  BY <1>3

\* A set of naturals that holds 0, and n + 1 with n, holds every one.
LEMMA Induction ==
  ASSUME NEW T, 0 \in T, \A n \in Nat : n \in T => n + 1 \in T
  PROVE  \A n \in Nat : n \in T
<1> SUFFICES ASSUME Nat \ T # {} PROVE FALSE
  OBVIOUS
<1>1. PICK x \in Nat \ T : \A y \in Nat \ T : x <= y
  BY LeastMember
<1>2. x - 1 \in Nat /\ x - 1 \notin Nat \ T
  BY <1>1
<1> QED
  BY <1>1, <1>2

\* A finite, non-empty set of naturals has a greatest member.
LEMMA MaxMember ==
  ASSUME NEW S, S \subseteq Nat, S # {}, IsFiniteSet(S)
  PROVE  Max(S) \in S /\ \A y \in S : Max(S) >= y
<1> DEFINE Bounded(U) == \E x \in U : \A y \in U : x >= y
           T == {n \in Nat : \A U \in SUBSET Nat :
                   IsFiniteSet(U) /\ Cardinality(U) = n + 1 => Bounded(U)}
<1>1. 0 \in T
  <2>1. ASSUME NEW U \in SUBSET Nat, IsFiniteSet(U), Cardinality(U) = 0 + 1
        PROVE  Bounded(U)
    <3>0. Cardinality(U) = 1
      BY <2>1
    <3>1. PICK x : U = {x}
      BY <2>1, <3>0, FS_Singleton, Zenon
    <3> QED
      BY <3>1
  <2> QED
    BY <2>1
<1>2. ASSUME NEW n \in Nat, n \in T PROVE n + 1 \in T
  <2>1. ASSUME NEW U \in SUBSET Nat, IsFiniteSet(U), Cardinality(U) = (n + 1) + 1
        PROVE  Bounded(U)
    <3>0. Cardinality(U) # 0
      BY <2>1
    <3>1. PICK u \in U : TRUE
      BY <2>1, <3>0, FS_EmptySet, Zenon
    <3>2. IsFiniteSet(U \ {u}) /\ Cardinality(U \ {u}) = n + 1
      BY <2>1, <3>1, FS_RemoveElement
    <3>3. PICK x \in U \ {u} : \A y \in U \ {u} : x >= y
      BY <1>2, <3>2
    <3>4. CASE x >= u
      BY <3>3, <3>4
    <3>5. CASE ~(x >= u)
      BY <3>1, <3>3, <3>5
    <3> QED
      BY <3>4, <3>5
  <2> QED
    BY <2>1
<1>3. \A n \in Nat : n \in T
  <2> HIDE DEF T
  <2> QED
    BY <1>1, <1>2, Induction
<1>4. Cardinality(S) \in Nat \ {0}
  BY FS_CardinalityType, FS_EmptySet
<1>5. Bounded(S)
  <2>1. Cardinality(S) - 1 \in T /\ Cardinality(S) = (Cardinality(S) - 1) + 1
    BY <1>3, <1>4
  <2> QED
    BY <2>1
<1> QED
  BY <1>5 DEF Max

-----------------------------------------------------------------------------
(* Sequences of sequences.                                                 *)

\* What FlattenSeq computes on the way: the first sequences put together.
Flattens(f, ss, m) ==
  f = [i \in 1..m |-> IF i = 1 THEN ss[i] ELSE f[i - 1] \o ss[i]]

PutTogether(f, ss, i) == f[i] = IF i = 1 THEN ss[i] ELSE f[i - 1] \o ss[i]

LEMMA FlattensAt ==
  ASSUME NEW m \in Nat, NEW ss, NEW f, Flattens(f, ss, m), NEW i \in 1..m
  PROVE  PutTogether(f, ss, i)
<1>1. \A ff : ff = [j \in 1..m |-> IF j = 1 THEN ss[j] ELSE f[j - 1] \o ss[j]]
        => ff[i] = IF i = 1 THEN ss[i] ELSE f[i - 1] \o ss[i]
  OBVIOUS
<1> QED
  BY <1>1 DEF Flattens, PutTogether

LEMMA FlattensIf ==
  ASSUME NEW m \in Nat, NEW ss, NEW R, NEW f \in [1..m -> R],
         \A i \in 1..m : PutTogether(f, ss, i)
  PROVE  Flattens(f, ss, m)
BY DEF Flattens, PutTogether

\* There is such a function,
LEMMA FlattensExists ==
  ASSUME NEW S
  PROVE  \A m \in Nat : \A ss \in [1..m + 1 -> Seq(S)] :
           \E f \in [1..m + 1 -> Seq(S)] : Flattens(f, ss, m + 1)
<1> DEFINE T == {m \in Nat : \A ss \in [1..m + 1 -> Seq(S)] :
                   \E f \in [1..m + 1 -> Seq(S)] : Flattens(f, ss, m + 1)}
<1>1. 0 \in T
  <2>1. ASSUME NEW ss \in [1..0 + 1 -> Seq(S)]
        PROVE  Flattens(ss, ss, 0 + 1)
    <3>1. \A i \in 1..0 + 1 : PutTogether(ss, ss, i)
      BY DEF PutTogether
    <3>2. 0 + 1 \in Nat
      OBVIOUS
    <3> QED
      BY <3>1, <3>2, FlattensIf, Zenon
  <2> QED
    BY <2>1
<1>2. ASSUME NEW m \in Nat, m \in T PROVE m + 1 \in T
  <2>1. ASSUME NEW ss \in [1..(m + 1) + 1 -> Seq(S)]
        PROVE  \E f \in [1..(m + 1) + 1 -> Seq(S)] : Flattens(f, ss, (m + 1) + 1)
    <3> DEFINE front == [i \in 1..m + 1 |-> ss[i]]
    <3>1. front \in [1..m + 1 -> Seq(S)]
      OBVIOUS
    <3>2. PICK f \in [1..m + 1 -> Seq(S)] : Flattens(f, front, m + 1)
      BY <1>2, <3>1
    <3> DEFINE g == [i \in 1..(m + 1) + 1 |->
                       IF i = m + 2 THEN f[m + 1] \o ss[m + 2] ELSE f[i]]
    <3>3. f[m + 1] \o ss[m + 2] \in Seq(S)
      <4>1. f[m + 1] \in Seq(S) /\ ss[m + 2] \in Seq(S)
        OBVIOUS
      <4> QED
        BY <4>1, ConcatProperties
    <3>4. g \in [1..(m + 1) + 1 -> Seq(S)]
      BY <3>3
    <3>5. ASSUME NEW i \in 1..(m + 1) + 1 PROVE PutTogether(g, ss, i)
      <4>1. CASE i = m + 2
        <5>1. i # 1 /\ i \in 1..(m + 1) + 1 /\ i - 1 \in 1..(m + 1) + 1 /\ i - 1 # m + 2 /\ i - 1 = m + 1
          BY <4>1
        <5>2. g[i] = f[m + 1] \o ss[m + 2] /\ g[i - 1] = f[i - 1]
          BY <4>1, <5>1
        <5>3. g[i] = g[i - 1] \o ss[i]
          BY <4>1, <5>1, <5>2
        <5> HIDE DEF g
        <5> QED
          BY <5>1, <5>3 DEF PutTogether
      <4>2. CASE i # m + 2
        <5>1. /\ i \in 1..m + 1 /\ m + 1 \in Nat
              /\ g[i] = f[i] /\ front[i] = ss[i] /\ (i # 1 => g[i - 1] = f[i - 1])
          BY <4>2
        <5> HIDE DEF g, front
        <5>2. PutTogether(f, front, i)
          BY <3>2, <5>1, FlattensAt, Zenon
        <5> QED
          BY <5>1, <5>2 DEF PutTogether
      <4> QED
        BY <4>1, <4>2
    <3>6. Flattens(g, ss, (m + 1) + 1)
      <4>1. (m + 1) + 1 \in Nat
        OBVIOUS
      <4> HIDE DEF g
      <4> QED
        BY <3>4, <3>5, <4>1, FlattensIf, Zenon
    <3> QED
      BY <3>4, <3>6
  <2> QED
    BY <2>1
<1>3. \A m \in Nat : m \in T
  <2> HIDE DEF T
  <2> QED
    BY <1>1, <1>2, Induction
<1> QED
  BY <1>3

\* and what it says of a place does not depend on what follows.
Cut(ss, m) == [i \in 1..m |-> ss[i]]

LEMMA FlattensSame ==
  ASSUME NEW m \in Nat, NEW k \in Nat, m <= k,
         NEW ss, NEW f, Flattens(f, Cut(ss, m), m), NEW g, Flattens(g, ss, k)
  PROVE  \A i \in 1..m : f[i] = g[i]
<1> DEFINE U == {j \in Nat : j + 1 \in 1..m => f[j + 1] = g[j + 1]}
<1>0. ASSUME NEW i \in 1..m
      PROVE  /\ f[i] = IF i = 1 THEN ss[i] ELSE f[i - 1] \o ss[i]
             /\ g[i] = IF i = 1 THEN ss[i] ELSE g[i - 1] \o ss[i]
  <2>1. i \in 1..k /\ Cut(ss, m)[i] = ss[i]
    BY DEF Cut
  <2>2. PutTogether(f, Cut(ss, m), i) /\ PutTogether(g, ss, i)
    BY <2>1, FlattensAt
  <2> QED
    BY <2>1, <2>2 DEF PutTogether
<1>1. 0 \in U
  BY <1>0
<1>2. ASSUME NEW j \in Nat, j \in U PROVE j + 1 \in U
  <2> SUFFICES ASSUME (j + 1) + 1 \in 1..m PROVE f[(j + 1) + 1] = g[(j + 1) + 1]
    OBVIOUS
  <2>1. /\ (j + 1) + 1 # 1 /\ ((j + 1) + 1) - 1 = j + 1
        /\ j + 1 \in 1..m
    OBVIOUS
  <2>2. f[j + 1] = g[j + 1]
    BY <1>2, <2>1
  <2>3. /\ f[(j + 1) + 1] = f[((j + 1) + 1) - 1] \o ss[(j + 1) + 1]
        /\ g[(j + 1) + 1] = g[((j + 1) + 1) - 1] \o ss[(j + 1) + 1]
    BY <1>0, <2>1
  <2> QED
    BY <2>1, <2>2, <2>3
<1>3. \A j \in Nat : j \in U
  <2> HIDE DEF U
  <2> QED
    BY <1>1, <1>2, Induction
<1> SUFFICES ASSUME NEW i \in 1..m PROVE f[i] = g[i]
  OBVIOUS
<1>4. i - 1 \in Nat /\ i = (i - 1) + 1
  OBVIOUS
<1>5. i - 1 \in U
  BY <1>3, <1>4
<1> QED
  BY <1>4, <1>5

LEMMA FlattenSeqIs ==
  ASSUME NEW S, NEW m \in Nat, m # 0, NEW ss, ss \in [1..m -> Seq(S)]
  PROVE  \E f : f \in [1..m -> Seq(S)] /\ Flattens(f, ss, m) /\ FlattenSeq(ss) = f[m]
<1>1. PICK f : f \in [1..m -> Seq(S)] /\ Flattens(f, ss, m)
  <2>1. PICK k \in Nat : m = k + 1
    <3>1. m - 1 \in Nat /\ m = (m - 1) + 1
      OBVIOUS
    <3> QED
      BY <3>1
  <2>2. \A tt \in [1..k + 1 -> Seq(S)] :
          \E f \in [1..k + 1 -> Seq(S)] : Flattens(f, tt, k + 1)
    BY FlattensExists, Zenon
  <2> QED
    BY <2>1, <2>2, Zenon
<1> DEFINE h == CHOOSE h : Flattens(h, ss, m)
<1>2. Flattens(h, ss, m)
  BY <1>1
<1>3. FlattenSeq(ss) = h[m]
  <2>1. Len(ss) = m /\ m # 0
    OBVIOUS
  <2> QED
    BY <2>1 DEF FlattenSeq, Flattens
<1>4. f[m] = h[m]
  <2> HIDE DEF h
  <2>1. m <= m /\ m \in 1..m
    OBVIOUS
  <2>2. Flattens(f, Cut(ss, m), m)
    <3>1. ss = Cut(ss, m)
      BY DEF Cut
    <3> QED
      BY <1>1, <3>1
  <2> QED
    BY <1>2, <2>1, <2>2, FlattensSame
<1> QED
  BY <1>1, <1>3, <1>4

\* FlattenSeq puts the last sequence after those in front of it.
LEMMA FlattenStep ==
  ASSUME NEW S, NEW n \in Nat, NEW ss, ss \in [1..n + 1 -> Seq(S)]
  PROVE  /\ FlattenSeq(ss) = FlattenSeq(Cut(ss, n)) \o ss[n + 1]
         /\ FlattenSeq(ss) \in Seq(S)
<1> DEFINE m == n + 1
           front == Cut(ss, n)
<1>0. m # 0 /\ m \in Nat /\ m \in 1..m /\ n <= m
  OBVIOUS
<1>a. ss \in [1..m -> Seq(S)] /\ front \in [1..n -> Seq(S)]
  BY DEF Cut
<1>b. ss[m] \in Seq(S)
  OBVIOUS
<1>c. (n = 0 <=> m = 1) /\ m - 1 = n
  OBVIOUS
<1> HIDE DEF m, front
<1>1. PICK f : f \in [1..m -> Seq(S)] /\ Flattens(f, ss, m) /\ FlattenSeq(ss) = f[m]
  BY <1>0, <1>a, FlattenSeqIs, Zenon
<1>2. f[m] = IF m = 1 THEN ss[m] ELSE f[m - 1] \o ss[m]
  <2>1. PutTogether(f, ss, m)
    BY <1>0, <1>1, FlattensAt, Zenon
  <2> QED
    BY <2>1 DEF PutTogether
<1>3. FlattenSeq(ss) \in Seq(S)
  BY <1>0, <1>1
<1>4. CASE n = 0
  <2>1. FlattenSeq(front) = <<>>
    <3>1. front = <<>> /\ Len(front) = 0
      BY <1>a, <1>4
    <3> QED
      BY <3>1 DEF FlattenSeq
  <2>2. <<>> \o ss[m] = ss[m]
    BY <1>b, ConcatEmptySeq DEF m
  <2>3. FlattenSeq(ss) = FlattenSeq(front) \o ss[m]
    BY <1>1, <1>2, <1>4, <1>c, <2>1, <2>2
  <2> QED
    BY <1>3, <2>3 DEF m, front
<1>5. CASE n # 0
  <2>1. PICK g : g \in [1..n -> Seq(S)] /\ Flattens(g, front, n) /\ FlattenSeq(front) = g[n]
    BY <1>5, <1>a, FlattenSeqIs, Zenon
  <2>2. Flattens(g, Cut(ss, n), n) /\ Flattens(f, ss, m)
    BY <1>1, <2>1 DEF front
  <2>3. n \in 1..n
    BY <1>5
  <2>4. g[n] = f[n]
    BY <1>0, <2>2, <2>3, FlattensSame
  <2>5. FlattenSeq(ss) = FlattenSeq(front) \o ss[m]
    BY <1>1, <1>2, <1>5, <1>c, <2>1, <2>4
  <2> QED
    BY <1>3, <2>5 DEF m, front
<1> QED
  BY <1>4, <1>5

-----------------------------------------------------------------------------
(* What is in the files.                                                   *)

TypedFiles(fs) == \A i \in DOMAIN fs : fs[i] \in Seq(Messages)

At(fs, i) == IF i \in DOMAIN fs THEN fs[i] ELSE <<>>

\* The contents of the first n of the files fs, one after the other.
UpTo(fs, n) == FlattenSeq([i \in 1..n |-> At(fs, i - 1)])

\* The next file comes after those in front of it.
LEMMA UpToStep ==
  ASSUME NEW fs, TypedFiles(fs), NEW n \in Nat
  PROVE  /\ UpTo(fs, n + 1) = UpTo(fs, n) \o At(fs, n)
         /\ UpTo(fs, n) \in Seq(Messages) /\ At(fs, n) \in Seq(Messages)
         /\ UpTo(fs, 0) = <<>>
<1> DEFINE ss(k) == [i \in 1..k |-> At(fs, i - 1)]
<1>1. ASSUME NEW i PROVE At(fs, i) \in Seq(Messages)
  BY EmptySeq DEF At, TypedFiles
<1>2. ASSUME NEW k \in Nat PROVE ss(k) \in [1..k -> Seq(Messages)]
  BY <1>1
<1>3. UpTo(fs, 0) = <<>>
  <2>1. ss(0) = <<>> /\ Len(ss(0)) = 0
    OBVIOUS
  <2> QED
    BY <2>1 DEF UpTo, FlattenSeq
<1>4. ASSUME NEW k \in Nat
      PROVE  UpTo(fs, k + 1) = UpTo(fs, k) \o At(fs, k) /\ UpTo(fs, k + 1) \in Seq(Messages)
  <2>1. Cut(ss(k + 1), k) = ss(k) /\ ss(k + 1)[k + 1] = At(fs, k)
    BY DEF Cut
  <2>2. ss(k + 1) \in [1..k + 1 -> Seq(Messages)]
    BY <1>2
  <2>3. /\ FlattenSeq(ss(k + 1)) = FlattenSeq(Cut(ss(k + 1), k)) \o ss(k + 1)[k + 1]
        /\ FlattenSeq(ss(k + 1)) \in Seq(Messages)
    <3> HIDE DEF ss
    <3> QED
      BY <2>2, FlattenStep
  <2> QED
    BY <2>1, <2>3 DEF UpTo
<1>5. UpTo(fs, n) \in Seq(Messages)
  <2>1. CASE n = 0
    BY <1>3, <2>1, EmptySeq
  <2>2. CASE n # 0
    <3>1. n - 1 \in Nat /\ n = (n - 1) + 1
      BY <2>2
    <3> QED
      BY <1>4, <3>1
  <2> QED
    BY <2>1, <2>2
<1> QED
  BY <1>1, <1>3, <1>4, <1>5

\* A file changes nothing in front of it.
LEMMA UpToSame ==
  ASSUME NEW fs, NEW gs, NEW n \in Nat, \A i \in 0..n - 1 : At(fs, i) = At(gs, i)
  PROVE  UpTo(fs, n) = UpTo(gs, n)
<1>1. [i \in 1..n |-> At(fs, i - 1)] = [i \in 1..n |-> At(gs, i - 1)]
  OBVIOUS
<1> QED
  BY <1>1 DEF UpTo

\* Indexes without a file add nothing.
LEMMA UpToGap ==
  ASSUME NEW fs, TypedFiles(fs), NEW n \in Nat, NEW m \in Nat, n <= m,
         \A i \in DOMAIN fs : i \in Nat /\ i < n
  PROVE  UpTo(fs, m) = UpTo(fs, n)
<1> DEFINE T == {d \in Nat : UpTo(fs, n + d) = UpTo(fs, n)}
<1>1. 0 \in T
  OBVIOUS
<1>2. ASSUME NEW d \in Nat, d \in T PROVE d + 1 \in T
  <2>1. n + d \in Nat /\ n + d \notin DOMAIN fs /\ n + (d + 1) = (n + d) + 1
    OBVIOUS
  <2>2. UpTo(fs, (n + d) + 1) = UpTo(fs, n + d) \o At(fs, n + d)
    BY <2>1, UpToStep
  <2>3. At(fs, n + d) = <<>> /\ UpTo(fs, n + d) \in Seq(Messages)
    BY <2>1, UpToStep DEF At
  <2>4. UpTo(fs, n + d) \o <<>> = UpTo(fs, n + d)
    BY <2>3, ConcatEmptySeq
  <2>5. UpTo(fs, n + d) = UpTo(fs, n)
    BY <1>2
  <2> QED
    BY <2>1, <2>2, <2>3, <2>4, <2>5
<1>3. \A d \in Nat : d \in T
  <2> HIDE DEF T
  <2> QED
    BY <1>1, <1>2, Induction
<1>4. m - n \in T /\ n + (m - n) = m
  BY <1>3
<1> QED
  BY <1>4

LinesOf(fs) == FlattenSeq([i \in 1..Max(DOMAIN fs \cup {0}) + 1 |-> At(fs, i - 1)])

\* Lines is the contents of the files up to any that is not before the last.
LEMMA LinesUpTo ==
  ASSUME NEW fs, TypedFiles(fs), NEW k \in Nat, DOMAIN fs \subseteq 0..k
  PROVE  LinesOf(fs) = UpTo(fs, k + 1) /\ LinesOf(fs) \in Seq(Messages)
<1> DEFINE last == Max(DOMAIN fs \cup {0})
<1>1. last \in 0..k /\ \A i \in DOMAIN fs : i \in Nat /\ i < last + 1
  <2>1. IsFiniteSet(DOMAIN fs \cup {0})
    <3>1. IsFiniteSet(0..k) /\ DOMAIN fs \cup {0} \subseteq 0..k
      BY FS_Interval
    <3> QED
      BY <3>1, FS_Subset
  <2>2. last \in DOMAIN fs \cup {0} /\ \A y \in DOMAIN fs \cup {0} : last >= y
    BY <2>1, MaxMember
  <2> QED
    BY <2>2
<1>2. LinesOf(fs) = UpTo(fs, last + 1)
  BY DEF LinesOf, UpTo
<1> HIDE DEF last
<1>3. UpTo(fs, k + 1) = UpTo(fs, last + 1)
  BY <1>1, UpToGap
<1>4. UpTo(fs, k + 1) \in Seq(Messages)
  BY UpToStep
<1> QED
  BY <1>2, <1>3, <1>4

-----------------------------------------------------------------------------
(* The names of the files.                                                 *)

\* A part of length one.
LEMMA OneCharacter ==
  ASSUME NEW s \in Seq(Int), NEW k \in 1..Len(s)
  PROVE  SubSeq(s, k, k) = <<s[k]>>
<1>1. k \in Int /\ k - 1 \in Int /\ k - 1 < k /\ k \in k..Len(s)
  BY LenProperties
<1>2. SubSeq(s, k, k) = SubSeq(s, k, k - 1) \o <<s[k]>>
  BY <1>1, SubSeqRecursiveSecond
<1>3. SubSeq(s, k, k - 1) = <<>>
  BY <1>1, SubSeqEmpty
<1>4. <<s[k]>> \in Seq(Int)
  BY ElementOfSeq
<1>5. <<>> \o <<s[k]>> = <<s[k]>>
  BY <1>4, ConcatEmptySeq
<1> QED
  BY <1>2, <1>3, <1>5

\* The index of a file can be read off its name again: the name of the log and
\* the extension are found where FileName has put them.
LEMMA OwnName ==
  ASSUME NEW i \in Nat
  PROVE  ~PassedOver(FileName(i)) /\ IndexText(FileName(i)) = <<i>>
<1> DEFINE L == Len(LogName)
           name == FileName(i)
           text == LogName \o <<Underscore>>
<1>1. /\ LogName \in Seq(Int) /\ L \in Nat
      /\ \A k \in 1..L : LogName[k] # Extension
  <2>1. LogName \in Seq(Int \ (Nat \cup {Extension}))
    BY LogAssumption
  <2>2. L \in Nat /\ LogName \in Seq(Int)
    BY <2>1, LenProperties, SeqMonotonic
  <2>3. \A k \in 1..L : LogName[k] \in Int \ (Nat \cup {Extension})
    BY <2>1, ElementOfSeq
  <2> QED
    BY <2>2, <2>3
<1>2. /\ name \in Seq(Int) /\ Len(name) = L + 3
      /\ \A k \in 1..L : name[k] = LogName[k]
      /\ name[L + 1] = Underscore /\ name[L + 2] = i /\ name[L + 3] = Extension
  <2>1. /\ <<Underscore, i, Extension>> \in Seq(Int)
        /\ Len(<<Underscore, i, Extension>>) = 3
    BY DEF Underscore, Extension
  <2> QED
    BY <1>1, <2>1, ConcatProperties DEF FileName
<1>3. /\ text \in Seq(Int) /\ Len(text) = L + 1
      /\ \A k \in 1..L : text[k] = LogName[k]
      /\ text[L + 1] = Underscore
  <2>1. <<Underscore>> \in Seq(Int) /\ Len(<<Underscore>>) = 1
    BY DEF Underscore
  <2> QED
    BY <1>1, <2>1, ConcatProperties
<1> HIDE DEF L, name, text
<1>4. Find(name, text) = 0
  <2> DEFINE at == {k \in 0..Len(name) - Len(text) : SubSeq(name, k + 1, k + Len(text)) = text}
  <2>1. SubSeq(name, 1, L + 1) = text
    <3>1. /\ SubSeq(name, 1, L + 1) \in Seq(Int) /\ Len(SubSeq(name, 1, L + 1)) = L + 1
          /\ \A k \in 1..L + 1 : SubSeq(name, 1, L + 1)[k] = name[k]
      BY <1>1, <1>2, SubSeqProperties
    <3>2. \A k \in 1..L + 1 : name[k] = text[k]
      BY <1>1, <1>2, <1>3
    <3> QED
      BY <1>3, <3>1, <3>2, SeqEqual
  <2>2. 0 \in at
    BY <1>1, <1>2, <1>3, <2>1
  <2>3. \A k \in at : k \in Nat /\ 0 <= k
    BY <1>1, <1>2, <1>3
  <2>4. Min(at) = 0
    <3> HIDE DEF at
    <3> QED
      BY <2>2, <2>3 DEF Min
  <2> QED
    BY <2>2, <2>4 DEF Find
<1>5. Find(name, <<Extension>>) = L + 2
  <2> DEFINE at == {k \in 0..Len(name) - Len(<<Extension>>) :
                      SubSeq(name, k + 1, k + Len(<<Extension>>)) = <<Extension>>}
  <2>1. Len(<<Extension>>) = 1
    OBVIOUS
  <2>2. ASSUME NEW k \in 0..L + 2
        PROVE  SubSeq(name, k + 1, k + 1) = <<Extension>> <=> k = L + 2
    <3>0. k + 1 \in 1..Len(name)
      BY <1>1, <1>2
    <3>1. SubSeq(name, k + 1, k + 1) = <<name[k + 1]>>
      BY <1>2, <3>0, OneCharacter
    <3>2. name[k + 1] = Extension <=> k = L + 2
      BY <1>1, <1>2 DEF Extension, Underscore
    <3>3. <<name[k + 1]>> = <<Extension>> <=> name[k + 1] = Extension
      OBVIOUS
    <3> QED
      BY <3>1, <3>2, <3>3
  <2>3. at = {L + 2}
    BY <1>1, <1>2, <2>1, <2>2
  <2>4. Min({L + 2}) = L + 2
    BY <1>1 DEF Min
  <2>5. Find(name, <<Extension>>) = IF at = {} THEN -1 ELSE Min(at)
    BY DEF Find
  <2> QED
    BY <2>3, <2>4, <2>5
<1>6. ~PassedOver(name)
  BY <1>1, <1>4, <1>5 DEF PassedOver, text
<1>7. IndexText(name) = <<i>>
  <2>1. Min({L + 2, L + 3}) = L + 2
    BY <1>1 DEF Min
  <2>2. IndexText(name) = SubSeq(name, L + 2, L + 2)
    <3>1. /\ L + 1 + 1 = L + 2 /\ 0 + (L + 1) = L + 1 /\ (L + 2) - (L + 1) = 1 /\ ~(1 < 0)
      BY <1>1
    <3>2. Len(name) = L + 3
      BY <1>2
    <3> QED
      BY <1>4, <1>5, <2>1, <3>1, <3>2 DEF IndexText, text, L
  <2>3. SubSeq(name, L + 2, L + 2) = <<name[L + 2]>>
    <3>1. L + 2 \in 1..Len(name)
      BY <1>1, <1>2
    <3> QED
      BY <1>2, <3>1, OneCharacter
  <2> QED
    BY <1>2, <2>2, <2>3
<1> QED
  BY <1>6, <1>7 DEF name

\* The names of other programs' files that pass for one of the log.
Others == {name \in others : ~PassedOver(name)}
OtherIndexes == {Head(IndexText(name)) : name \in Others}

\* The files of others that pass for one of the log, if all of them have an
\* index, are finitely many and say where the log begins.
LEMMA WhereItBegins ==
  ASSUME others \in Directories, \A name \in Others : ~Throws(name)
  PROVE  /\ Matches \cap others = Others
         /\ OtherIndexes \subseteq Nat /\ IsFiniteSet(OtherIndexes)
         /\ FirstIndex \in OtherIndexes \cup {0}
         /\ \A k \in OtherIndexes : FirstIndex >= k
<1>1. Matches \cap others = Others
  BY DEF Matches, Names, Others
<1>2. OtherIndexes \subseteq Nat
  BY DEF OtherIndexes, Throws
<1>3. IsFiniteSet(OtherIndexes)
  <2> DEFINE f == [name \in Others |-> Head(IndexText(name))]
  <2>1. IsFiniteSet(others)
    BY LogAssumption
  <2>2. IsFiniteSet(Others)
    BY <2>1, FS_Subset DEF Others
  <2>3. f \in Surjection(Others, OtherIndexes)
    BY DEF Surjection, OtherIndexes
  <2> HIDE DEF f
  <2> QED
    BY <2>2, <2>3, FS_Surjection
<1>4. IsFiniteSet(OtherIndexes \cup {0})
  BY <1>3, FS_AddElement
<1>5. FirstIndex = Max(OtherIndexes \cup {0})
  BY <1>1 DEF FirstIndex, OtherIndexes
<1>6. OtherIndexes \cup {0} \subseteq Nat /\ OtherIndexes \cup {0} # {}
  BY <1>2
<1>7. FirstIndex \in OtherIndexes \cup {0} /\ \A k \in OtherIndexes \cup {0} : FirstIndex >= k
  BY <1>4, <1>5, <1>6, MaxMember
<1> QED
  BY <1>1, <1>2, <1>3, <1>7

\* The search of a restart finds the last file, or where to begin.
LEMMA SearchFinds ==
  ASSUME index \in Nat, DOMAIN files \subseteq 0..index, others \in Directories,
         ~\E name \in Matches : Throws(name)
  PROVE  /\ \A name \in Others : ~Throws(name)
         /\ LastFileIndex \in Nat /\ LastFileIndex >= FirstIndex
         /\ \A i \in DOMAIN files : LastFileIndex >= i
         /\ LastFileIndex = FirstIndex \/ LastFileIndex \in DOMAIN files
<1>1. \A name \in Others : ~Throws(name)
  BY DEF Matches, Names, Others
<1> DEFINE found == {Head(IndexText(name)) : name \in Matches}
<1>2. ASSUME NEW i \in DOMAIN files
      PROVE  ~PassedOver(FileName(i)) /\ Head(IndexText(FileName(i))) = i
  <2>1. i \in Nat /\ Head(<<i>>) = i
    OBVIOUS
  <2> QED
    BY <2>1, OwnName
<1>3. found = DOMAIN files \cup OtherIndexes
  <2>1. found \subseteq DOMAIN files \cup OtherIndexes
    BY <1>2 DEF Matches, Names, OtherIndexes, Others
  <2>2. DOMAIN files \subseteq found
    BY <1>2 DEF Matches, Names
  <2>3. OtherIndexes \subseteq found
    BY DEF Matches, Names, OtherIndexes, Others
  <2> QED
    BY <2>1, <2>2, <2>3
<1>4. /\ OtherIndexes \subseteq Nat /\ IsFiniteSet(OtherIndexes)
      /\ FirstIndex \in OtherIndexes \cup {0} /\ \A k \in OtherIndexes : FirstIndex >= k
  BY <1>1, WhereItBegins
<1>5. IsFiniteSet(found \cup {0})
  <2>1. IsFiniteSet(DOMAIN files)
    <3>1. IsFiniteSet(0..index)
      BY FS_Interval
    <3> QED
      BY <3>1, FS_Subset
  <2>2. IsFiniteSet(DOMAIN files \cup OtherIndexes)
    BY <1>4, <2>1, FS_Union
  <2> QED
    BY <1>3, <2>2, FS_AddElement
<1>6. LastFileIndex = Max(found \cup {0})
  BY DEF LastFileIndex
<1> HIDE DEF found
<1>7. found \cup {0} \subseteq Nat /\ found \cup {0} # {}
  <2>1. DOMAIN files \subseteq Nat
    OBVIOUS
  <2>2. OtherIndexes \subseteq Nat
    BY <1>4
  <2>3. found \subseteq Nat
    BY <1>3, <2>1, <2>2, Zenon
  <2> QED
    BY <2>3
<1>8. LastFileIndex \in found \cup {0} /\ \A k \in found \cup {0} : LastFileIndex >= k
  BY <1>5, <1>6, <1>7, MaxMember
<1>9. LastFileIndex >= FirstIndex
  BY <1>3, <1>4, <1>8
<1>10. LastFileIndex = FirstIndex \/ LastFileIndex \in DOMAIN files
  <2>1. CASE LastFileIndex \in DOMAIN files
    BY <2>1
  <2>2. CASE LastFileIndex \in OtherIndexes \cup {0}
    <3>1. FirstIndex >= LastFileIndex /\ FirstIndex \in Nat /\ LastFileIndex \in Nat
      BY <1>4, <2>2
    <3> QED
      BY <1>9, <3>1
  <2> QED
    BY <1>3, <1>8, <2>1, <2>2
<1> QED
  BY <1>1, <1>3, <1>7, <1>8, <1>9, <1>10

-----------------------------------------------------------------------------
(* The text of a message.                                                  *)

Lacks(s, c) == \A k \in 1..Len(s) : s[k] # c

LackBefore(ss, i, c) == \A j \in 1..i - 1 : Lacks(ss[j], c)

LEMMA ConcatLacks ==
  ASSUME NEW S, NEW s \in Seq(S), NEW t \in Seq(S), NEW c, Lacks(s, c), Lacks(t, c)
  PROVE  Lacks(s \o t, c)
<1>1. Len(s) \in Nat /\ Len(t) \in Nat
  BY LenProperties
<1>2. ASSUME NEW k \in 1..Len(s) + Len(t) PROVE (s \o t)[k] # c
  <2>1. (s \o t)[k] = IF k <= Len(s) THEN s[k] ELSE t[k - Len(s)]
    BY ConcatProperties
  <2>2. CASE k <= Len(s)
    BY <1>1, <2>1, <2>2 DEF Lacks
  <2>3. CASE ~(k <= Len(s))
    <3>1. k - Len(s) \in 1..Len(t)
      BY <1>1, <2>3
    <3> QED
      BY <2>1, <2>3, <3>1 DEF Lacks
  <2> QED
    BY <2>2, <2>3
<1>3. Len(s \o t) = Len(s) + Len(t)
  BY ConcatProperties
<1> QED
  BY <1>2, <1>3 DEF Lacks

\* Sequences put together hold what one of them holds.
LEMMA FlattenLacks ==
  ASSUME NEW S, NEW c, NEW n \in Nat, NEW ss, ss \in [1..n -> Seq(S)],
         \A i \in 1..n : Lacks(ss[i], c)
  PROVE  Lacks(FlattenSeq(ss), c) /\ FlattenSeq(ss) \in Seq(S)
<1> DEFINE T == {m \in Nat : \A tt \in [1..m -> Seq(S)] :
                   (\A i \in 1..m : Lacks(tt[i], c)) =>
                     Lacks(FlattenSeq(tt), c) /\ FlattenSeq(tt) \in Seq(S)}
<1>1. 0 \in T
  <2>1. ASSUME NEW tt \in [1..0 -> Seq(S)]
        PROVE  Lacks(FlattenSeq(tt), c) /\ FlattenSeq(tt) \in Seq(S)
    <3>1. tt = <<>> /\ Len(tt) = 0
      OBVIOUS
    <3>2. FlattenSeq(tt) = <<>>
      BY <3>1 DEF FlattenSeq
    <3>3. <<>> \in Seq(S) /\ Len(<<>>) = 0
      BY EmptySeq
    <3> QED
      BY <3>2, <3>3 DEF Lacks
  <2> QED
    BY <2>1
<1>2. ASSUME NEW m \in Nat, m \in T PROVE m + 1 \in T
  <2>1. ASSUME NEW tt, tt \in [1..m + 1 -> Seq(S)], \A i \in 1..m + 1 : Lacks(tt[i], c)
        PROVE  Lacks(FlattenSeq(tt), c) /\ FlattenSeq(tt) \in Seq(S)
    <3>1. /\ Cut(tt, m) \in [1..m -> Seq(S)]
          /\ \A i \in 1..m : Cut(tt, m)[i] = tt[i]
      BY <2>1 DEF Cut
    <3>2. \A i \in 1..m : Lacks(Cut(tt, m)[i], c)
      BY <2>1, <3>1
    <3>3. Lacks(FlattenSeq(Cut(tt, m)), c) /\ FlattenSeq(Cut(tt, m)) \in Seq(S)
      BY <1>2, <3>1, <3>2
    <3>4. Lacks(tt[m + 1], c) /\ tt[m + 1] \in Seq(S)
      BY <2>1
    <3>5. FlattenSeq(tt) = FlattenSeq(Cut(tt, m)) \o tt[m + 1] /\ FlattenSeq(tt) \in Seq(S)
      BY <2>1, FlattenStep
    <3> QED
      BY <3>3, <3>4, <3>5, ConcatLacks
  <2> QED
    BY <2>1
<1>3. \A m \in Nat : m \in T
  <2> HIDE DEF T
  <2> QED
    BY <1>1, <1>2, Induction
<1>4. n \in T
  BY <1>3
<1> QED
  BY <1>4

\* What stands before and after one of the sequences that are put together.
SameBut(ss, tt, i, n) == \A j \in 1..n : j # i => tt[j] = ss[j]

Follows(after, ss, i, n) ==
  \A tt \in [1..n -> Seq(Characters)] :
    SameBut(ss, tt, i, n) =>
      FlattenSeq(tt) = (FlattenSeq(Cut(ss, i - 1)) \o tt[i]) \o after

LEMMA Around ==
  ASSUME NEW n \in Nat, NEW ss, ss \in [1..n -> Seq(Characters)], NEW i \in 1..n
  PROVE  \E after \in Seq(Characters) : Follows(after, ss, i, n)
<1> DEFINE before == FlattenSeq(Cut(ss, i - 1))
           Stands(m, after) == \A tt \in [1..m -> Seq(Characters)] :
             SameBut(ss, tt, i, m) => FlattenSeq(tt) = (before \o tt[i]) \o after
           Fine(m) == \E after \in Seq(Characters) : Stands(m, after)
           T == {d \in Nat : i + d <= n => Fine(i + d)}
<1>0. i - 1 \in Nat /\ i \in Nat
  OBVIOUS
<1>a. before \in Seq(Characters)
  <2>1. Cut(ss, i - 1) \in [1..i - 1 -> Seq(Characters)]
    BY DEF Cut
  <2>2. CASE i = 1
    <3>1. Cut(ss, i - 1) = <<>> /\ Len(Cut(ss, i - 1)) = 0
      BY <2>2 DEF Cut
    <3> QED
      BY <3>1, EmptySeq DEF FlattenSeq
  <2>3. CASE i # 1
    <3>1. i - 2 \in Nat /\ (i - 2) + 1 = i - 1
      BY <2>3
    <3> QED
      BY <2>1, <3>1, FlattenStep
  <2> QED
    BY <2>2, <2>3
<1>1. 0 \in T
  <2>1. ASSUME NEW tt, tt \in [1..i -> Seq(Characters)], SameBut(ss, tt, i, i)
        PROVE  FlattenSeq(tt) = (before \o tt[i]) \o <<>>
    <3>1. Cut(tt, i - 1) = Cut(ss, i - 1)
      BY <2>1 DEF Cut, SameBut
    <3>2. (i - 1) + 1 = i /\ tt[i] \in Seq(Characters)
      BY <2>1
    <3>3. tt \in [1..(i - 1) + 1 -> Seq(Characters)]
      BY <2>1, <3>2
    <3>4. FlattenSeq(tt) = FlattenSeq(Cut(tt, i - 1)) \o tt[(i - 1) + 1]
      BY <1>0, <3>3, FlattenStep
    <3>5. before \o tt[i] \in Seq(Characters)
      BY <1>a, <3>2, ConcatProperties
    <3>6. (before \o tt[i]) \o <<>> = before \o tt[i]
      BY <3>5, ConcatEmptySeq
    <3> QED
      BY <3>1, <3>2, <3>4, <3>6
  <2>2. <<>> \in Seq(Characters)
    BY EmptySeq
  <2>3. i + 0 = i
    OBVIOUS
  <2>4. Stands(i, <<>>)
    <3> HIDE DEF before
    <3> QED
      BY <2>1
  <2>5. Fine(i)
    <3> HIDE DEF Stands
    <3> QED
      BY <2>2, <2>4
  <2> HIDE DEF Fine
  <2> QED
    BY <2>3, <2>5
<1>2. ASSUME NEW d \in Nat, d \in T PROVE d + 1 \in T
  <2> SUFFICES ASSUME i + (d + 1) <= n
               PROVE  Fine(i + (d + 1))
    <3> HIDE DEF Fine
    <3> QED
      OBVIOUS
  <2>1. i + d <= n /\ i + (d + 1) = (i + d) + 1 /\ i + d \in Nat /\ (i + d) + 1 \in 1..n
    OBVIOUS
  <2>2. PICK after \in Seq(Characters) : Stands(i + d, after)
    <3>1. Fine(i + d)
      <4> HIDE DEF Fine
      <4> QED
        BY <1>2, <2>1
    <3> QED
      BY <3>1
  <2>3. ss[(i + d) + 1] \in Seq(Characters)
    BY <2>1
  <2> DEFINE more == after \o ss[(i + d) + 1]
  <2>4. more \in Seq(Characters)
    BY <2>2, <2>3, ConcatProperties
  <2>5. ASSUME NEW tt, tt \in [1..(i + d) + 1 -> Seq(Characters)], SameBut(ss, tt, i, (i + d) + 1)
        PROVE  FlattenSeq(tt) = (before \o tt[i]) \o more
    <3>1. FlattenSeq(tt) = FlattenSeq(Cut(tt, i + d)) \o tt[(i + d) + 1]
      BY <2>1, <2>5, FlattenStep
    <3>2. /\ Cut(tt, i + d) \in [1..i + d -> Seq(Characters)] /\ Cut(tt, i + d)[i] = tt[i]
          /\ SameBut(ss, Cut(tt, i + d), i, i + d)
      BY <2>1, <2>5 DEF Cut, SameBut
    <3>3. FlattenSeq(Cut(tt, i + d)) = (before \o tt[i]) \o after
      <4> HIDE DEF before
      <4>1. \A uu \in [1..i + d -> Seq(Characters)] :
              SameBut(ss, uu, i, i + d) => FlattenSeq(uu) = (before \o uu[i]) \o after
        BY <2>2
      <4> HIDE DEF Stands
      <4>2. FlattenSeq(Cut(tt, i + d)) = (before \o Cut(tt, i + d)[i]) \o after
        BY <3>2, <4>1
      <4> QED
        BY <3>2, <4>2
    <3>4. tt[(i + d) + 1] = ss[(i + d) + 1]
      BY <2>1, <2>5 DEF SameBut
    <3>5. before \o tt[i] \in Seq(Characters)
      <4>1. tt[i] \in Seq(Characters)
        BY <2>1, <2>5
      <4> QED
        BY <1>a, <4>1, ConcatProperties
    <3>6. ((before \o tt[i]) \o after) \o ss[(i + d) + 1] = (before \o tt[i]) \o more
      <4>1. \A s, t, u \in Seq(Characters) : (s \o t) \o u = s \o (t \o u)
        BY ConcatAssociative
      <4> HIDE DEF before
      <4> QED
        BY <2>3, <3>5, <4>1
    <3> QED
      BY <3>1, <3>3, <3>4, <3>6
  <2>6. Stands((i + d) + 1, more)
    <3> HIDE DEF before, more
    <3> QED
      BY <2>5
  <2> HIDE DEF Stands, more
  <2> QED
    BY <2>1, <2>4, <2>6
<1>3. \A d \in Nat : d \in T
  <2> HIDE DEF T
  <2> QED
    BY <1>1, <1>2, Induction
<1>4. Fine(n)
  <2>1. PICK d \in Nat : i + d = n
    <3>1. n - i \in Nat /\ i + (n - i) = n
      OBVIOUS
    <3> QED
      BY <3>1
  <2>2. i + d <= n
    BY <2>1
  <2> HIDE DEF Fine
  <2> QED
    BY <1>3, <2>1, <2>2
<1> QED
  BY <1>4 DEF Follows

\* replace() puts the value in the place of what find() has found first.
LEMMA ReplaceIn ==
  ASSUME NEW a \in Seq(Characters), NEW b \in Seq(Characters), NEW p \in Characters, NEW v \in Seq(Characters), Lacks(a, p)
  PROVE  Replace((a \o <<p>>) \o b, p, v) = (a \o v) \o b
<1> DEFINE line == (a \o <<p>>) \o b
           at   == SelectInSeq(line, LAMBDA char : char = p)
<1>1. Len(a) \in Nat /\ Len(b) \in Nat
  BY LenProperties
<1>2. /\ a \o <<p>> \in Seq(Characters) /\ Len(a \o <<p>>) = Len(a) + 1
      /\ \A k \in 1..Len(a) : (a \o <<p>>)[k] = a[k]
      /\ (a \o <<p>>)[Len(a) + 1] = p
  <2>1. <<p>> \in Seq(Characters) /\ Len(<<p>>) = 1 /\ <<p>>[1] = p
    OBVIOUS
  <2> QED
    BY <1>1, <2>1, ConcatProperties
<1>3. /\ line \in Seq(Characters) /\ Len(line) = Len(a) + 1 + Len(b)
      /\ \A k \in 1..Len(a) : line[k] = a[k]
      /\ line[Len(a) + 1] = p
      /\ \A k \in 1..Len(b) : line[Len(a) + 1 + k] = b[k]
  BY <1>1, <1>2, ConcatProperties
<1> HIDE DEF line
<1>4. at = Len(a) + 1
  <2> DEFINE I == {i \in 1..Len(line) : line[i] = p}
  <2>1. Len(a) + 1 \in I
    BY <1>1, <1>3
  <2>2. ASSUME NEW i \in I PROVE i \in Nat /\ Len(a) + 1 <= i
    <3>1. i \in Nat /\ i >= 1 /\ line[i] = p
      BY <1>1, <1>3
    <3>2. i \notin 1..Len(a)
      BY <1>3, <3>1 DEF Lacks
    <3> QED
      BY <1>1, <3>1, <3>2
  <2>3. Min(I) = Len(a) + 1
    <3> HIDE DEF I
    <3> QED
      BY <1>1, <2>1, <2>2 DEF Min
  <2>4. at = IF I # {} THEN Min(I) ELSE 0
    BY DEF SelectInSeq
  <2> QED
    BY <2>1, <2>3, <2>4
<1>5. Replace(line, p, v) = SubSeq(line, 1, at - 1) \o v \o SubSeq(line, at + 1, Len(line))
  BY DEF Replace
<1> HIDE DEF at
<1>6. SubSeq(line, 1, at - 1) = a
  <2>1. /\ SubSeq(line, 1, Len(a)) \in Seq(Characters) /\ Len(SubSeq(line, 1, Len(a))) = Len(a)
        /\ \A k \in 1..Len(a) : SubSeq(line, 1, Len(a))[k] = a[k]
    <3>1. \A k \in 1..Len(a) : line[k] \in Characters
      BY <1>1, <1>3, ElementOfSeq
    <3>2. /\ SubSeq(line, 1, Len(a)) \in Seq(Characters)
          /\ Len(SubSeq(line, 1, Len(a))) = IF 1 <= Len(a) THEN Len(a) - 1 + 1 ELSE 0
          /\ \A k \in 1..Len(a) - 1 + 1 : SubSeq(line, 1, Len(a))[k] = line[1 + k - 1]
      BY <1>1, <3>1, SubSeqProperties
    <3>3. \A k \in 1..Len(a) : 1 + k - 1 = k /\ k \in 1..Len(a) - 1 + 1
      BY <1>1
    <3> QED
      BY <1>1, <1>3, <3>2, <3>3
  <2>2. SubSeq(line, 1, Len(a)) = a
    BY <2>1, SeqEqual
  <2>3. at - 1 = Len(a)
    BY <1>1, <1>4
  <2> QED
    BY <2>2, <2>3
<1>7. SubSeq(line, at + 1, Len(line)) = b
  <2> DEFINE m == Len(a) + 2
             n == Len(line)
             rest == SubSeq(line, m, n)
  <2>1. m \in Int /\ n \in Int /\ n - m + 1 = Len(b) /\ n = Len(a) + 1 + Len(b)
    BY <1>1, <1>3
  <2>2. \A k \in m..n : line[k] \in Characters
    <3>1. \A k \in m..n : k \in 1..Len(line)
      BY <1>1
    <3> QED
      BY <1>3, <3>1, ElementOfSeq
  <2>3. \A k \in 1..Len(b) : line[m + k - 1] = b[k]
    <3>1. \A k \in 1..Len(b) : m + k - 1 = Len(a) + 1 + k
      BY <1>1
    <3> QED
      BY <1>3, <3>1
  <2> HIDE DEF m, n
  <2>4. /\ rest \in Seq(Characters) /\ Len(rest) = IF m <= n THEN n - m + 1 ELSE 0
        /\ \A k \in 1..n - m + 1 : rest[k] = line[m + k - 1]
    BY <2>1, <2>2, SubSeqProperties
  <2>5. Len(rest) = Len(b)
    <3>1. (m <= n) \/ (n - m + 1 <= 0)
      BY <2>1
    <3> QED
      BY <1>1, <2>1, <2>4, <3>1
  <2>6. \A k \in 1..Len(b) : rest[k] = b[k]
    BY <2>1, <2>3, <2>4
  <2> HIDE DEF rest
  <2>7. rest = b
    BY <2>4, <2>5, <2>6, SeqEqual
  <2>8. at + 1 = m
    BY <1>1, <1>4 DEF m
  <2> QED
    BY <2>7, <2>8 DEF rest, n
<1> QED
  BY <1>5, <1>6, <1>7 DEF line

\* In a text that is put together of parts it changes one part.
OnePart(n, ss, tt, i, p) ==
  /\ n \in Nat /\ i \in 1..n /\ p \in Characters
  /\ ss \in [1..n -> Seq(Characters)] /\ tt \in [1..n -> Seq(Characters)]
  /\ ss[i] = <<p>> /\ SameBut(ss, tt, i, n) /\ LackBefore(ss, i, p)

LEMMA ReplacePart ==
  ASSUME NEW n, NEW ss, NEW tt, NEW i, NEW p, OnePart(n, ss, tt, i, p)
  PROVE  Replace(FlattenSeq(ss), p, tt[i]) = FlattenSeq(tt)
<1> DEFINE before == FlattenSeq(Cut(ss, i - 1))
<1>a. /\ n \in Nat /\ i \in 1..n /\ p \in Characters
      /\ ss \in [1..n -> Seq(Characters)] /\ tt \in [1..n -> Seq(Characters)]
      /\ ss[i] = <<p>> /\ SameBut(ss, tt, i, n) /\ LackBefore(ss, i, p)
  BY DEF OnePart
<1>0. \E after \in Seq(Characters) : Follows(after, ss, i, n)
  BY <1>a, Around, Zenon
<1>1. PICK after \in Seq(Characters) : \A uu \in [1..n -> Seq(Characters)] :
        SameBut(ss, uu, i, n) => FlattenSeq(uu) = (before \o uu[i]) \o after
  BY <1>0 DEF Follows
<1>2. Lacks(before, p) /\ before \in Seq(Characters)
  <2>1. Cut(ss, i - 1) \in [1..i - 1 -> Seq(Characters)] /\ i - 1 \in Nat
    BY <1>a DEF Cut
  <2>2. \A j \in 1..i - 1 : Lacks(Cut(ss, i - 1)[j], p)
    BY <1>a DEF Cut, LackBefore
  <2> QED
    BY <2>1, <2>2, FlattenLacks
<1> HIDE DEF before
<1>3. SameBut(ss, ss, i, n)
  BY DEF SameBut
<1>4. FlattenSeq(ss) = (before \o <<p>>) \o after
  BY <1>1, <1>3, <1>a
<1>5. FlattenSeq(tt) = (before \o tt[i]) \o after
  BY <1>1, <1>a
<1>6. tt[i] \in Seq(Characters)
  BY <1>a
<1>7. ASSUME NEW a \in Seq(Characters), NEW b \in Seq(Characters), NEW v \in Seq(Characters), Lacks(a, p)
      PROVE  Replace((a \o <<p>>) \o b, p, v) = (a \o v) \o b
  BY <1>7, <1>a, ReplaceIn
<1>8. Replace((before \o <<p>>) \o after, p, tt[i]) = (before \o tt[i]) \o after
  BY <1>2, <1>6, <1>7, <1>a
<1> QED
  BY <1>4, <1>5, <1>8

\* A sequence is its elements put together.
LEMMA Singles ==
  ASSUME NEW S, NEW s \in Seq(S)
  PROVE  FlattenSeq([i \in 1..Len(s) |-> <<s[i]>>]) = s
<1> DEFINE Fine(n) == FlattenSeq([i \in 1..n |-> <<s[i]>>]) = SubSeq(s, 1, n)
           T == {n \in Nat : n <= Len(s) => Fine(n)}
<1>0. Len(s) \in Nat /\ \A i \in 1..Len(s) : s[i] \in S
  BY LenProperties, ElementOfSeq
<1>1. 0 \in T
  <2>1. [i \in 1..0 |-> <<s[i]>>] = <<>> /\ Len(<<>>) = 0
    OBVIOUS
  <2>2. FlattenSeq(<<>>) = <<>>
    BY <2>1 DEF FlattenSeq
  <2>3. SubSeq(s, 1, 0) = <<>>
    BY SubSeqEmpty
  <2> QED
    BY <2>1, <2>2, <2>3
<1>2. ASSUME NEW n \in Nat, n \in T PROVE n + 1 \in T
  <2> DEFINE ss == [i \in 1..n + 1 |-> <<s[i]>>]
  <2> SUFFICES ASSUME n + 1 <= Len(s)
               PROVE  Fine(n + 1)
    <3> HIDE DEF Fine
    <3> QED
      OBVIOUS
  <2>1. n <= Len(s) /\ n + 1 \in 1..Len(s)
    BY <1>0
  <2>2. ss \in [1..n + 1 -> Seq(S)]
    BY <1>0, <2>1
  <2>3. Cut(ss, n) = [i \in 1..n |-> <<s[i]>>] /\ ss[n + 1] = <<s[n + 1]>>
    BY DEF Cut
  <2> HIDE DEF ss
  <2>4. FlattenSeq(ss) = FlattenSeq(Cut(ss, n)) \o ss[n + 1]
    BY <2>2, FlattenStep
  <2>5. FlattenSeq([i \in 1..n |-> <<s[i]>>]) = SubSeq(s, 1, n)
    <3>1. Fine(n)
      <4> HIDE DEF Fine
      <4> QED
        BY <1>2, <2>1
    <3> QED
      BY <3>1
  <2>6. SubSeq(s, 1, n + 1) = SubSeq(s, 1, (n + 1) - 1) \o <<s[n + 1]>>
    <3>1. 1 \in 1..Len(s) /\ n + 1 \in 1..Len(s)
      BY <1>0, <2>1
    <3> QED
      BY <3>1, SubSeqRecursiveSecond
  <2>7. (n + 1) - 1 = n
    OBVIOUS
  <2>8. FlattenSeq(ss) = SubSeq(s, 1, n + 1)
    BY <2>3, <2>4, <2>5, <2>6, <2>7
  <2> QED
    BY <2>8 DEF ss
<1>3. \A n \in Nat : n \in T
  <2> HIDE DEF T
  <2> QED
    BY <1>1, <1>2, Induction
<1>4. Fine(Len(s))
  <2> HIDE DEF Fine
  <2> QED
    BY <1>0, <1>3
<1> QED
  BY <1>4, SubSeqFull

\* What a frame of the pipe leaves of a line: all of it, or what is before a
\* NUL or fits.
LEMMA Piped ==
  ASSUME NEW S, NEW line \in Seq(S)
  PROVE  \E n \in 0..Len(line) :
           /\ ThroughPipe(line) = SubSeq(line, 1, n)
           /\ n < BUFFER_SIZE /\ \A i \in 1..n : line[i] # "NUL"
           /\ n < Len(line) => n + 1 = BUFFER_SIZE \/ line[n + 1] = "NUL"
<1> DEFINE Ends == {n \in 0..Len(line) :
                      n = Len(line) \/ n + 1 = BUFFER_SIZE \/ line[n + 1] = "NUL"}
           Cond(n) == /\ n < BUFFER_SIZE /\ "NUL" \notin {line[i] : i \in 1..n}
                      /\ n + 1 \in 1..Len(line) => n + 1 = BUFFER_SIZE \/ line[n + 1] = "NUL"
<1>1. Len(line) \in Nat /\ BUFFER_SIZE \in Nat \ {0}
  BY LenProperties, LogLineAssumption
<1>2. PICK n \in Ends : \A k \in Ends : n <= k
  <2>1. Ends \subseteq Nat /\ Len(line) \in Ends
    BY <1>1
  <2> HIDE DEF Ends
  <2> QED
    BY <2>1, LeastMember
<1>3. n \in 0..Len(line) /\ Cond(n)
  <2>1. n \in 0..Len(line) /\ \A k \in 0..n - 1 : k \notin Ends
    BY <1>1, <1>2
  <2>2. ASSUME NEW k \in 0..n - 1 PROVE k + 1 # BUFFER_SIZE /\ line[k + 1] # "NUL"
    <3>1. k \in 0..Len(line) /\ k \notin Ends
      BY <1>1, <2>1
    <3> QED
      BY <3>1
  <2>3. n < BUFFER_SIZE
    <3>1. SUFFICES ASSUME BUFFER_SIZE <= n PROVE FALSE
      BY <1>1, <2>1
    <3>2. BUFFER_SIZE - 1 \in 0..n - 1 /\ (BUFFER_SIZE - 1) + 1 = BUFFER_SIZE
      BY <1>1, <2>1, <3>1
    <3> QED
      BY <2>2, <3>2
  <2>4. \A i \in 1..n : line[i] # "NUL"
    <3>1. \A i \in 1..n : i - 1 \in 0..n - 1 /\ (i - 1) + 1 = i
      BY <2>1
    <3> QED
      BY <2>2, <3>1
  <2> QED
    BY <1>1, <1>2, <2>1, <2>3, <2>4
<1> DEFINE size == CHOOSE k \in 0..Len(line) : Cond(k)
<1>4. size \in 0..Len(line) /\ Cond(size)
  <2> HIDE DEF Cond
  <2> QED
    BY <1>3
<1>5. ThroughPipe(line) = SubSeq(line, 1, size)
  BY DEF ThroughPipe
<1> HIDE DEF size
<1>6. size < Len(line) => size + 1 \in 1..Len(line)
  BY <1>1, <1>4
<1> QED
  BY <1>4, <1>5, <1>6

\* The placeholders are different characters, and no value but the text holds
\* one of them or breaks the line.
LEMMA PlaceholderFacts ==
  /\ Len(Placeholders) = 5 /\ Placeholders[5] = "%Text%"
  /\ Range(Placeholders) = {Placeholders[m] : m \in 1..5}
  /\ \A m \in 1..5 : Placeholders[m] \in Characters /\ Placeholders[m] # "\n"
  /\ \A m, k \in 1..5 : m # k => Placeholders[m] # Placeholders[k]
<1>1. /\ Placeholders[1] = "%Severity%" /\ Placeholders[2] = "%Time%"
      /\ Placeholders[3] = "%ProcessId%" /\ Placeholders[4] = "%ThreadId%"
      /\ Placeholders[5] = "%Text%" /\ Len(Placeholders) = 5
      /\ DOMAIN Placeholders = 1..5
  BY DEF Placeholders
<1>2. \A m \in 1..5 : m = 1 \/ m = 2 \/ m = 3 \/ m = 4 \/ m = 5
  OBVIOUS
<1>3. \A m \in 1..5 : Placeholders[m] \in Characters
  BY <1>1, <1>2, LogLineAssumption
<1>4. \A m \in 1..5 : Placeholders[m] # "\n"
  BY <1>1, <1>2
<1>5. ASSUME NEW m \in 1..5, NEW k \in 1..5, m # k
      PROVE  Placeholders[m] # Placeholders[k]
  BY <1>1, <1>2, <1>5
<1>6. Range(Placeholders) = {Placeholders[m] : m \in 1..5}
  BY <1>1 DEF Range
<1> QED
  BY <1>1, <1>3, <1>4, <1>5, <1>6

LEMMA FieldFacts ==
  ASSUME NEW text, text \in Seq(Characters)
  PROVE  /\ Fields(text)["%Text%"] = text
         /\ \A m \in 1..5 : Fields(text)[Placeholders[m]] \in Seq(Characters)
         /\ \A m \in 1..4 : /\ \A k \in 1..5 : Lacks(Fields(text)[Placeholders[m]], Placeholders[k])
                            /\ Lacks(Fields(text)[Placeholders[m]], "\n")
<1>1. /\ Placeholders[1] = "%Severity%" /\ Placeholders[2] = "%Time%"
      /\ Placeholders[3] = "%ProcessId%" /\ Placeholders[4] = "%ThreadId%"
      /\ Placeholders[5] = "%Text%"
  BY DEF Placeholders
<1>2. /\ Fields(text)["%Severity%"] = <<"ERROR">> /\ Fields(text)["%Time%"] = <<"now">>
      /\ Fields(text)["%ProcessId%"] = <<"pid">> /\ Fields(text)["%ThreadId%"] = <<"tid">>
      /\ Fields(text)["%Text%"] = text
  BY DEF Fields
<1>3. \A m \in 1..4 : Fields(text)[Placeholders[m]] \in {<<"ERROR">>, <<"now">>, <<"pid">>, <<"tid">>}
  <2>1. \A m \in 1..4 : m = 1 \/ m = 2 \/ m = 3 \/ m = 4
    OBVIOUS
  <2> QED
    BY <1>1, <1>2, <2>1
<1>4. ASSUME NEW v \in {"ERROR", "now", "pid", "tid"}
      PROVE  /\ <<v>> \in Seq(Characters) /\ Lacks(<<v>>, "\n")
             /\ \A k \in 1..5 : Lacks(<<v>>, Placeholders[k])
  <2>1. v \in Characters
    BY LogLineAssumption
  <2>2. Len(<<v>>) = 1 /\ <<v>>[1] = v
    OBVIOUS
  <2>3. v # "\n" /\ \A k \in 1..5 : v # Placeholders[k]
    <3>1. \A k \in 1..5 : k = 1 \/ k = 2 \/ k = 3 \/ k = 4 \/ k = 5
      OBVIOUS
    <3> QED
      BY <1>1, <3>1
  <2> QED
    BY <2>1, <2>2, <2>3 DEF Lacks
<1>5. ASSUME NEW m \in 1..4
      PROVE  /\ Fields(text)[Placeholders[m]] \in Seq(Characters)
             /\ Lacks(Fields(text)[Placeholders[m]], "\n")
             /\ \A k \in 1..5 : Lacks(Fields(text)[Placeholders[m]], Placeholders[k])
  <2>1. PICK v \in {"ERROR", "now", "pid", "tid"} : Fields(text)[Placeholders[m]] = <<v>>
    BY <1>3
  <2> QED
    BY <1>4, <2>1
<1>6. ASSUME NEW m \in 1..5
      PROVE  Fields(text)[Placeholders[m]] \in Seq(Characters)
  <2>1. m \in 1..4 \/ m = 5
    OBVIOUS
  <2> QED
    BY <1>1, <1>2, <1>5, <2>1
<1> QED
  BY <1>2, <1>5, <1>6

\* The parts of a line of which the first k placeholders have their values.
Takes(form, k, i) ==
  /\ \E m \in 1..k : form[i] = Placeholders[m]
  /\ \A j \in 1..i - 1 : form[j] # form[i]

Parts(form, text, k) ==
  [i \in 1..Len(form) |-> IF Takes(form, k, i) THEN Fields(text)[form[i]] ELSE <<form[i]>>]

LEMMA PartsTyped ==
  ASSUME NEW form \in Seq(Characters), NEW text \in Seq(Characters), NEW k \in 0..5
  PROVE  Parts(form, text, k) \in [1..Len(form) -> Seq(Characters)]
<1>1. ASSUME NEW i \in 1..Len(form), Takes(form, k, i)
      PROVE  Fields(text)[form[i]] \in Seq(Characters)
  <2>1. PICK m \in 1..5 : form[i] = Placeholders[m]
    BY <1>1 DEF Takes
  <2> QED
    BY <2>1, FieldFacts
<1>2. ASSUME NEW i \in 1..Len(form)
      PROVE  <<form[i]>> \in Seq(Characters)
  BY ElementOfSeq
<1> QED
  BY <1>1, <1>2 DEF Parts

\* Each replacement finds its placeholder where the format has it: no value
\* that stands in the line already holds it.
LEMMA NextReplacement ==
  ASSUME NEW form \in Seq(Characters), NEW text \in Seq(Characters), NEW k \in 0..4,
         Contains(form, Placeholders[k + 1])
  PROVE  Replace(FlattenSeq(Parts(form, text, k)), Placeholders[k + 1],
                 Fields(text)[Placeholders[k + 1]])
           = FlattenSeq(Parts(form, text, k + 1))
<1> DEFINE p  == Placeholders[k + 1]
           n  == Len(form)
           ss == Parts(form, text, k)
           tt == Parts(form, text, k + 1)
           At1 == {i \in 1..n : form[i] = p}
<1>1. n \in Nat /\ k + 1 \in 1..5 /\ k \in 0..5 /\ k + 1 \in 0..5
  BY LenProperties
<1>2. p \in Characters /\ \A m \in 1..k : Placeholders[m] # p
  BY <1>1, PlaceholderFacts
<1>3. PICK i \in At1 : \A j \in At1 : i <= j
  <2>1. At1 \subseteq Nat /\ At1 # {}
    BY <1>1 DEF Contains
  <2> HIDE DEF At1
  <2> QED
    BY <2>1, LeastMember
<1>4. i \in 1..n /\ form[i] = p /\ \A j \in 1..i - 1 : form[j] # p
  BY <1>1, <1>3
<1>5. ss \in [1..n -> Seq(Characters)] /\ tt \in [1..n -> Seq(Characters)]
  BY <1>1, PartsTyped
<1>6. ss[i] = <<p>>
  <2>1. ~Takes(form, k, i)
    BY <1>2, <1>4 DEF Takes
  <2> QED
    BY <1>4, <2>1 DEF Parts
<1>7. tt[i] = Fields(text)[p]
  <2>1. Takes(form, k + 1, i)
    BY <1>1, <1>4 DEF Takes
  <2> QED
    BY <1>4, <2>1 DEF Parts
<1>8. ASSUME NEW j \in 1..n, j # i
      PROVE  tt[j] = ss[j]
  <2>1. Takes(form, k + 1, j) <=> Takes(form, k, j)
    <3>1. ASSUME form[j] = p, \A l \in 1..j - 1 : form[l] # form[j] PROVE FALSE
      <4>1. i <= j /\ i \in 1..j - 1
        BY <1>1, <1>3, <1>4, <1>8, <3>1
      <4> QED
        BY <1>4, <3>1, <4>1
    <3>2. \A m \in 1..k + 1 : m \in 1..k \/ m = k + 1
      OBVIOUS
    <3>3. \A m \in 1..k : m \in 1..k + 1
      OBVIOUS
    <3> QED
      BY <3>1, <3>2, <3>3 DEF Takes
  <2> QED
    BY <2>1 DEF Parts
<1>9. ASSUME NEW j \in 1..i - 1
      PROVE  Lacks(ss[j], p)
  <2>1. j \in 1..n /\ form[j] # p
    BY <1>1, <1>4
  <2>2. CASE Takes(form, k, j)
    <3>1. PICK m \in 1..4 : form[j] = Placeholders[m]
      BY <2>2 DEF Takes
    <3>2. Lacks(Fields(text)[form[j]], p)
      BY <1>1, <3>1, FieldFacts
    <3> QED
      BY <2>1, <2>2, <3>2 DEF Parts
  <2>3. CASE ~Takes(form, k, j)
    <3>1. ss[j] = <<form[j]>>
      BY <2>1, <2>3 DEF Parts
    <3>2. Len(<<form[j]>>) = 1 /\ <<form[j]>>[1] = form[j]
      OBVIOUS
    <3> QED
      BY <2>1, <3>1, <3>2 DEF Lacks
  <2> QED
    BY <2>2, <2>3
<1>10. SameBut(ss, tt, i, n)
  BY <1>8 DEF SameBut
<1>11. LackBefore(ss, i, p)
  BY <1>9 DEF LackBefore
<1> HIDE DEF ss, tt, p, n
<1>12. /\ n \in Nat /\ i \in 1..n /\ p \in Characters
       /\ ss \in [1..n -> Seq(Characters)] /\ tt \in [1..n -> Seq(Characters)]
  BY <1>1, <1>2, <1>4, <1>5
<1>13. OnePart(n, ss, tt, i, p)
  BY <1>6, <1>10, <1>11, <1>12 DEF OnePart
<1>14. Replace(FlattenSeq(ss), p, tt[i]) = FlattenSeq(tt)
  BY <1>13, ReplacePart
<1> QED
  BY <1>7, <1>14 DEF ss, tt, p

LEMMA NoPartsTaken ==
  ASSUME NEW form \in Seq(Characters), NEW text
  PROVE  FlattenSeq(Parts(form, text, 0)) = form
<1>1. Parts(form, text, 0) = [i \in 1..Len(form) |-> <<form[i]>>]
  <2>1. \A i : ~Takes(form, 0, i)
    BY DEF Takes
  <2> QED
    BY <2>1 DEF Parts
<1> QED
  BY <1>1, Singles

\* One replacement after the other makes of the format what it means.
LEMMA FormatIsMeant ==
  ASSUME format \in Seq(Characters), NEW text \in Seq(Characters), ~FormatThrows(format)
  PROVE  /\ FormatMessage(format, Fields(text)) = Meant(text)
         /\ Meant(text) = FlattenSeq(Parts(format, text, 5)) \o <<"\n">>
<1> DEFINE line(k) == FlattenSeq(Parts(format, text, k))
           put(s, k) == Replace(s, Placeholders[k], Fields(text)[Placeholders[k]])
<1>1. \A k \in 1..5 : Contains(format, Placeholders[k])
  BY PlaceholderFacts DEF FormatThrows
<1>2. ASSUME NEW k \in 0..4 PROVE put(line(k), k + 1) = line(k + 1)
  <2>1. k + 1 \in 1..5
    OBVIOUS
  <2> QED
    BY <1>1, <2>1, NextReplacement
<1>3. line(0) = format
  BY NoPartsTaken
<1>4. FormatMessage(format, Fields(text)) = put(put(put(put(put(format, 1), 2), 3), 4), 5) \o <<"\n">>
  BY DEF FormatMessage
<1>5. Meant(text) = line(5) \o <<"\n">>
  <2>1. ASSUME NEW i \in 1..Len(format)
        PROVE  Takes(format, 5, i) <=>
                 /\ format[i] \in Range(Placeholders)
                 /\ \A j \in 1..i - 1 : format[j] # format[i]
    BY PlaceholderFacts DEF Takes
  <2> QED
    BY <2>1 DEF Meant, Parts
<1> HIDE DEF line, put
<1>6. /\ put(line(0), 1) = line(1) /\ put(line(1), 2) = line(2) /\ put(line(2), 3) = line(3)
      /\ put(line(3), 4) = line(4) /\ put(line(4), 5) = line(5)
  <2>1. /\ 0 + 1 = 1 /\ 1 + 1 = 2 /\ 2 + 1 = 3 /\ 3 + 1 = 4 /\ 4 + 1 = 5
        /\ 0 \in 0..4 /\ 1 \in 0..4 /\ 2 \in 0..4 /\ 3 \in 0..4 /\ 4 \in 0..4
    OBVIOUS
  <2> QED
    BY <1>2, <2>1
<1> QED
  BY <1>3, <1>4, <1>5, <1>6 DEF line

\* A message gets to its file whole and means what it should, or is cut.
LEMMA LineTold ==
  ASSUME format \in Seq(Characters), NEW text \in Seq(Characters), ~FormatThrows(format)
  PROVE  Told(text, ThroughPipe(FormatMessage(format, Fields(text))))
<1> DEFINE parts == Parts(format, text, 5)
           meant == Meant(text)
           frame == ThroughPipe(meant)
<1>1. FormatMessage(format, Fields(text)) = meant /\ meant = FlattenSeq(parts) \o <<"\n">>
  BY FormatIsMeant
<1>2. Len(format) \in Nat /\ parts \in [1..Len(format) -> Seq(Characters)]
  <2>1. 5 \in 0..5
    OBVIOUS
  <2> QED
    BY <2>1, PartsTyped, LenProperties
<1> DEFINE before == FlattenSeq(parts)
<1>3. before \in Seq(Characters)
  <2>1. CASE Len(format) = 0
    <3>1. parts = <<>> /\ Len(parts) = 0
      BY <1>2, <2>1
    <3> QED
      BY <3>1, EmptySeq DEF FlattenSeq
  <2>2. CASE Len(format) # 0
    <3>1. PICK m \in Nat : Len(format) = m + 1
      <4>1. Len(format) - 1 \in Nat /\ Len(format) = (Len(format) - 1) + 1
        BY <1>2, <2>2
      <4> QED
        BY <4>1
    <3> HIDE DEF parts
    <3> QED
      BY <1>2, <3>1, FlattenStep
  <2> QED
    BY <2>1, <2>2
<1> HIDE DEF before, meant
<1>4. /\ meant \in Seq(Characters) /\ Len(before) \in Nat /\ Len(meant) = Len(before) + 1
      /\ \A i \in 1..Len(before) : meant[i] = before[i]
  <2>1. <<"\n">> \in Seq(Characters) /\ Len(<<"\n">>) = 1
    BY LogLineAssumption
  <2> QED
    BY <1>1, <1>3, <2>1, ConcatProperties, LenProperties DEF before
<1>5. PICK n \in 0..Len(meant) :
        /\ frame = SubSeq(meant, 1, n)
        /\ n < BUFFER_SIZE /\ \A i \in 1..n : meant[i] # "NUL"
        /\ n < Len(meant) => n + 1 = BUFFER_SIZE \/ meant[n + 1] = "NUL"
  BY <1>4, Piped
<1> HIDE DEF frame
<1>6. /\ frame \in Seq(Characters) /\ Len(frame) = n
      /\ \A i \in 1..n : frame[i] = meant[i]
  <2>1. \A i \in 1..n : meant[i] \in Characters
    BY <1>4, ElementOfSeq
  <2>2. /\ SubSeq(meant, 1, n) \in Seq(Characters)
        /\ Len(SubSeq(meant, 1, n)) = IF 1 <= n THEN n - 1 + 1 ELSE 0
        /\ \A i \in 1..n - 1 + 1 : SubSeq(meant, 1, n)[i] = meant[1 + i - 1]
    BY <1>4, <2>1, SubSeqProperties
  <2>3. n \in Nat /\ n - 1 + 1 = n /\ \A i \in 1..n : 1 + i - 1 = i
    BY <1>4
  <2> QED
    BY <1>5, <2>2, <2>3
<1>7. CASE Len(meant) < BUFFER_SIZE /\ ~Contains(meant, "NUL")
  <2>1. n = Len(meant)
    <3>1. SUFFICES ASSUME n < Len(meant) PROVE FALSE
      BY <1>4
    <3>2. n + 1 \in 1..Len(meant)
      BY <1>4, <3>1
    <3>3. n + 1 = BUFFER_SIZE \/ meant[n + 1] = "NUL"
      BY <1>5, <3>1
    <3> QED
      BY <1>4, <1>7, <3>2, <3>3, LogLineAssumption DEF Contains
  <2>2. frame = meant
    BY <1>4, <1>5, <2>1, SubSeqFull
  <2> QED
    BY <1>1, <1>7, <2>2 DEF Told, meant, frame
<1>8. CASE ~(Len(meant) < BUFFER_SIZE /\ ~Contains(meant, "NUL"))
  <2>1. n < Len(meant)
    <3>1. SUFFICES ASSUME n = Len(meant) PROVE FALSE
      BY <1>4
    <3> QED
      BY <1>5, <1>8, <3>1 DEF Contains
  <2>2. IsStrictPrefix(frame, meant)
    <3>1. SubSeq(frame, 1, Len(frame)) = frame
      BY <1>6, SubSeqFull
    <3>2. IsPrefix(frame, meant)
      BY <1>5, <1>6, <2>1, <3>1 DEF IsPrefix
    <3>3. frame # meant
      BY <1>6, <2>1
    <3> QED
      BY <3>2, <3>3 DEF IsStrictPrefix
  <2>3. ASSUME ~Contains(format, "\n"), ~Contains(text, "\n")
        PROVE  ~Contains(frame, "\n")
    <3>1. ASSUME NEW i \in 1..Len(format)
          PROVE  Lacks(parts[i], "\n")
      <4>1. CASE Takes(format, 5, i)
        <5>1. PICK m \in 1..5 : format[i] = Placeholders[m]
          BY <4>1 DEF Takes
        <5>2. Lacks(Fields(text)[Placeholders[m]], "\n")
          <6>1. CASE m = 5
            BY <2>3, <6>1, FieldFacts, PlaceholderFacts DEF Contains, Lacks
          <6>2. CASE m # 5
            BY <6>2, FieldFacts
          <6> QED
            BY <6>1, <6>2
        <5> QED
          BY <4>1, <5>1, <5>2 DEF Parts
      <4>2. CASE ~Takes(format, 5, i)
        <5>1. parts[i] = <<format[i]>>
          BY <4>2 DEF Parts
        <5>2. format[i] # "\n"
          BY <2>3 DEF Contains
        <5>3. Len(<<format[i]>>) = 1 /\ <<format[i]>>[1] = format[i]
          OBVIOUS
        <5> QED
          BY <5>1, <5>2, <5>3 DEF Lacks
      <4> QED
        BY <4>1, <4>2
    <3> HIDE DEF parts
    <3>2. Lacks(before, "\n")
      BY <1>2, <3>1, FlattenLacks DEF before
    <3>3. \A i \in 1..n : frame[i] # "\n"
      BY <1>4, <1>6, <2>1, <3>2 DEF Lacks
    <3> QED
      BY <1>6, <3>3 DEF Contains
  <2> QED
    BY <1>1, <1>8, <2>2, <2>3 DEF Told, meant, frame
<1> QED
  BY <1>7, <1>8

-----------------------------------------------------------------------------
(* The inductive invariant.                                                *)

\* All that is on its way to a file follows what is there.
Chain == Lines \o hand \o pipe

\* What is in the pipe and in the reader's hand is of this run, which has made
\* its file_.
RunInv ==
  /\ stage # "up" => hand = <<>> /\ pipe = <<>> /\ blocked = {} /\ ~open /\ ~written
  /\ stage # "down" => run >= 1
  /\ \A l \in blocked : logged[l] >= 1
  /\ \A k \in 1..Len(hand) : hand[k].run = run
  /\ \A k \in 1..Len(pipe) : pipe[k].run = run

\* A run that has not made its file_ has nothing in the files,
Aged ==
  \A i \in DOMAIN files : \A k \in 1..Len(files[i]) :
    /\ files[i][k].run <= run
    /\ stage \in {"begun", "reading"} => files[i][k].run < run

\* and one that has goes on where there is room, or where only former runs
\* have put one too many; until rotate looks, so has the message just written.
FileInv ==
  /\ DOMAIN files \subseteq 0..index
  /\ DOMAIN files # {} \/ stage = "up" => \A name \in Others : ~Throws(name)
  /\ OnlyLastHasRoom /\ OneOver /\ Aged
  /\ stage = "up" =>
       /\ index >= FirstIndex /\ \A j \in FirstIndex..index - 1 : Full(j)
       /\ index \in DOMAIN files /\ ~written =>
            \A k \in RotationSize + 1..Len(files[index]) : files[index][k].run < run

\* The messages of each thread are in order, and none is of a run to come.
InOrder(log) ==
  \A j, k \in 1..Len(log) :
    j < k /\ log[j].by = log[k].by => Journal!Before(log[j], log[k])

ChainInv ==
  /\ NothingLost
  /\ InOrder(Chain)
  /\ \A k \in 1..Len(Chain) :
       /\ Chain[k].run <= run
       /\ stage \in {"begun", "reading"} => Chain[k].run < run

IInv == TypeOK /\ RunInv /\ FileInv /\ ChainInv

-----------------------------------------------------------------------------
(* What the conjuncts depend on.                                           *)

\* What a step has to show.
Good == IInv' /\ [Journal!Next]_Lines

\* The first n messages of thread l in run r are in the log, and no other.
Counts(log, l, r, n) ==
  {log[i].n : i \in {j \in 1..Len(log) : log[j].by = l /\ log[j].run = r}} = 1..n

Ascends(log, l, r) ==
  \A i, j \in {k \in 1..Len(log) : log[k].by = l /\ log[k].run = r} :
    i < j => log[i].n < log[j].n

Written(l) == IF l \in blocked THEN logged[l] - 1 ELSE logged[l]

LEMMA NothingLostIs ==
  /\ NothingLost <=>
       /\ hand # <<>> => stage = "up"
       /\ stage # "down" =>
            \A l \in Loggers : Counts(Chain, l, run, Written(l)) /\ Ascends(Chain, l, run)
  /\ NothingLost' <=>
       /\ hand' # <<>> => stage' = "up"
       /\ stage' # "down" =>
            \A l \in Loggers : Counts(Chain', l, run', Written(l)') /\ Ascends(Chain', l, run')
BY DEF NothingLost, Counts, Ascends, Written, Chain

\* Order makes the numbers of a thread in a run ascend.
LEMMA OrderAscends ==
  ASSUME NEW log, InOrder(log), NEW l, NEW r \in Nat
  PROVE  Ascends(log, l, r)
BY DEF InOrder, Ascends, Journal!Before

\* The parts of the chain.
LEMMA ChainTyped ==
  ASSUME TypeOK, DOMAIN files \subseteq 0..index
  PROVE  /\ TypedFiles(files) /\ Lines = LinesOf(files)
         /\ Lines \in Seq(Messages) /\ Lines \o hand \in Seq(Messages)
         /\ Chain \in Seq(Messages)
<1>1. TypedFiles(files) /\ index \in Nat
  BY DEF TypeOK, TypedFiles
<1>2. Lines = LinesOf(files)
  BY DEF Lines, LinesOf, At
<1>3. Lines \in Seq(Messages)
  BY <1>1, <1>2, LinesUpTo
<1>4. Lines \o hand \in Seq(Messages)
  BY <1>3, ConcatProperties DEF TypeOK
<1>5. Chain \in Seq(Messages)
  BY <1>4, ConcatProperties DEF TypeOK, Chain
<1> QED
  BY <1>1, <1>2, <1>3, <1>4, <1>5

\* Without a file there is no line.
LEMMA NoFiles ==
  ASSUME TypeOK, DOMAIN files = {}
  PROVE  Lines = <<>>
<1>1. TypedFiles(files) /\ 0 \in Nat /\ DOMAIN files \subseteq 0..0
  BY DEF TypedFiles
<1>2. Lines = LinesOf(files)
  BY DEF Lines, LinesOf, At
<1>3. LinesOf(files) = UpTo(files, 0 + 1)
  BY <1>1, LinesUpTo
<1>4. UpTo(files, 0 + 1) = UpTo(files, 0) \o At(files, 0) /\ UpTo(files, 0) = <<>>
  BY <1>1, UpToStep
<1>5. At(files, 0) = <<>> /\ <<>> \o <<>> = <<>>
  <2>1. <<>> \in Seq(Messages)
    BY EmptySeq
  <2> QED
    BY <2>1, ConcatEmptySeq DEF At
<1> QED
  BY <1>2, <1>3, <1>4, <1>5

\* The other programs' files stay, and with them the place to begin.
LEMMA FirstKept ==
  ASSUME others' = others
  PROVE  FirstIndex' = FirstIndex /\ Others' = Others
<1>1. Matches \cap others = Others /\ (Matches \cap others)' = Others'
  BY DEF Matches, Names, Others
<1>2. Others' = Others
  BY DEF Others
<1> QED
  BY <1>1, <1>2 DEF FirstIndex

\* Steps that leave the files alone: within a run, or into the next.
LEMMA FilesKept ==
  ASSUME TypeOK, FileInv, UNCHANGED <<files, others, index>>,
         stage' = "up" => stage = "up" /\ written' = written,
         \/ run' = run /\ (stage' \in {"begun", "reading"} => stage \in {"begun", "reading"})
         \/ run' = run + 1
  PROVE  FileInv' /\ Lines' = Lines
<1>1. Lines' = Lines
  BY DEF Lines
<1>2. FirstIndex' = FirstIndex /\ Others' = Others
  BY FirstKept
<1>3. OnlyLastHasRoom' /\ OneOver' /\ \A j : Full(j)' <=> Full(j)
  BY <1>2 DEF FileInv, OnlyLastHasRoom, OneOver, Full
<1>4. run \in Nat /\ \A i \in DOMAIN files : \A k \in 1..Len(files[i]) : files[i][k].run \in Nat
  <2>1. ASSUME NEW i \in DOMAIN files, NEW k \in 1..Len(files[i])
        PROVE  files[i][k].run \in Nat
    <3>1. files[i][k] \in Messages
      BY ElementOfSeq DEF TypeOK
    <3> QED
      BY <3>1 DEF Messages
  <2> QED
    BY <2>1 DEF TypeOK
<1>5. Aged'
  BY <1>4 DEF FileInv, Aged
<1>6. stage' = "up" => run' = run \/ run' = run + 1
  OBVIOUS
<1>7. stage' = "up" =>
       /\ index' >= FirstIndex' /\ \A j \in FirstIndex'..index' - 1 : Full(j)'
       /\ index' \in DOMAIN files' /\ ~written' =>
            \A k \in RotationSize + 1..Len(files'[index']) : files'[index'][k].run < run'
  <2>1. index \in Nat /\ RotationSize \in Nat
    BY LogAssumption DEF TypeOK
  <2>2. ASSUME stage' = "up"
        PROVE  /\ index >= FirstIndex /\ \A j \in FirstIndex..index - 1 : Full(j)
               /\ index \in DOMAIN files /\ ~written =>
                    \A k \in RotationSize + 1..Len(files[index]) : files[index][k].run < run
    BY <2>2 DEF FileInv
  <2>3. ASSUME stage' = "up", index \in DOMAIN files, ~written,
               NEW k \in RotationSize + 1..Len(files[index])
        PROVE  files[index][k].run < run'
    <3>1. k \in 1..Len(files[index])
      BY <2>1
    <3>2. files[index][k].run < run
      BY <2>2, <2>3
    <3> QED
      BY <1>4, <2>3, <3>1, <3>2
  <2> QED
    BY <1>2, <1>3, <2>2, <2>3
<1>8. DOMAIN files' \subseteq 0..index'
  BY DEF FileInv
<1>9. DOMAIN files' # {} \/ stage' = "up" => \A name \in Others' : ~Throws(name)
  BY <1>2 DEF FileInv
<1> QED
  BY <1>1, <1>3, <1>5, <1>7, <1>8, <1>9 DEF FileInv

\* Steps within a run that leave the chain as it is.
LEMMA ChainKept ==
  ASSUME IInv, Chain' = Chain, run' = run, hand' # <<>> => stage' = "up",
         stage' # "down" => stage # "down",
         stage' \in {"begun", "reading"} => stage \in {"begun", "reading"},
         \A l \in Loggers : Written(l)' = Written(l)
  PROVE  ChainInv'
<1>1. InOrder(Chain') /\ \A k \in 1..Len(Chain') :
        /\ Chain'[k].run <= run'
        /\ stage' \in {"begun", "reading"} => Chain'[k].run < run'
  BY DEF IInv, ChainInv, InOrder
<1>2. stage' # "down" =>
        \A l \in Loggers : Counts(Chain', l, run', Written(l)') /\ Ascends(Chain', l, run')
  BY NothingLostIs DEF IInv, ChainInv
<1>3. NothingLost'
  BY <1>2, NothingLostIs
<1> QED
  BY <1>1, <1>3 DEF ChainInv

\* What the chain holds of the files.
LEMMA ChainFront ==
  ASSUME IInv
  PROVE  /\ Len(Lines) \in Nat /\ Len(Lines) <= Len(Chain)
         /\ \A k \in 1..Len(Lines) : Chain[k] = Lines[k]
         /\ hand = <<>> /\ pipe = <<>> => Chain = Lines
         /\ Lines \o <<>> \o <<>> = Lines
<1>1. Lines \in Seq(Messages) /\ Lines \o hand \in Seq(Messages) /\ Chain \in Seq(Messages)
  BY ChainTyped DEF IInv, FileInv
<1>2. hand \in Seq(Messages) /\ pipe \in Seq(Messages)
  BY DEF IInv, TypeOK
<1>3. Len(Lines) \in Nat /\ Len(hand) \in Nat /\ Len(pipe) \in Nat
  BY <1>1, <1>2, LenProperties
<1>4. /\ Len(Lines \o hand) = Len(Lines) + Len(hand)
      /\ \A k \in 1..Len(Lines) : (Lines \o hand)[k] = Lines[k]
  BY <1>1, <1>2, <1>3, ConcatProperties
<1>5. /\ Len(Chain) = Len(Lines \o hand) + Len(pipe)
      /\ \A k \in 1..Len(Lines \o hand) : Chain[k] = (Lines \o hand)[k]
  BY <1>1, <1>2, <1>3, <1>4, ConcatProperties DEF Chain
<1>6. Lines \o <<>> \o <<>> = Lines
  BY <1>1, ConcatEmptySeq
<1>7. hand = <<>> /\ pipe = <<>> => Chain = Lines
  BY <1>6 DEF Chain
<1>8. \A k \in 1..Len(Lines) : Chain[k] = Lines[k]
  BY <1>3, <1>4, <1>5
<1> QED
  BY <1>3, <1>4, <1>5, <1>6, <1>7, <1>8

-----------------------------------------------------------------------------
(* The steps.                                                              *)

\* The end of a run keeps what is in the files.
LEMMA EndGood ==
  ASSUME IInv, End
  PROVE  Good
<1>1. /\ stage' = "down" /\ blocked' = {} /\ pipe' = <<>> /\ hand' = <<>>
      /\ UNCHANGED <<run, logged, files, others, index, format>> /\ open' = FALSE /\ written' = FALSE
  BY DEF End
<1>2. FileInv' /\ Lines' = Lines
  BY <1>1, FilesKept DEF IInv
<1>3. TypeOK'
  <2>1. <<>> \in Seq(Messages) /\ Len(<<>>) = 0
    BY EmptySeq
  <2>2. PipeFrames \in Nat
    BY LogAssumption
  <2>3. pipe' \in Seq(Messages) /\ Len(pipe') <= PipeFrames
    BY <1>1, <2>1, <2>2
  <2>4. hand' \in Seq(Messages) /\ Len(hand') <= 1
    BY <1>1, <2>1
  <2> QED
    BY <1>1, <2>3, <2>4 DEF IInv, TypeOK
<1>4. RunInv'
  <2>1. Len(<<>>) = 0
    BY EmptySeq
  <2> QED
    BY <1>1, <2>1 DEF RunInv
<1>5. Chain' = Lines
  BY <1>1, <1>2, ChainFront DEF Chain
<1>6. ChainInv'
  <2>1. InOrder(Chain')
    BY <1>5, ChainFront DEF IInv, ChainInv, InOrder
  <2>2. \A k \in 1..Len(Chain') : Chain'[k].run <= run'
    BY <1>1, <1>5, ChainFront DEF IInv, ChainInv
  <2>3. NothingLost'
    BY <1>1, NothingLostIs
  <2> QED
    BY <1>1, <2>1, <2>2, <2>3 DEF ChainInv
<1> QED
  BY <1>2, <1>3, <1>4, <1>6 DEF Good, IInv

\* A run begins with nothing logged, whatever former runs have left.
LEMMA LaunchGood ==
  ASSUME IInv, Launch
  PROVE  Good
<1>1. /\ stage = "down" /\ stage' = "begun" /\ run' = run + 1 /\ run < MaxRuns
      /\ logged' = [l \in Loggers |-> 0]
      /\ UNCHANGED <<blocked, pipe, hand, files, others, index, open, written, format>>
  BY DEF Launch
<1>2. hand = <<>> /\ pipe = <<>> /\ blocked = {} /\ ~open /\ ~written
  BY <1>1 DEF IInv, RunInv
<1>3. FileInv' /\ Lines' = Lines
  BY <1>1, FilesKept DEF IInv
<1>4. run \in Nat /\ run' \in 0..MaxRuns /\ MaxMessages \in Nat
  BY <1>1, LogAssumption DEF IInv, TypeOK
<1>5. TypeOK'
  BY <1>1, <1>4 DEF IInv, TypeOK
<1>6. RunInv'
  <2>1. Len(<<>>) = 0
    BY EmptySeq
  <2> QED
    BY <1>1, <1>2, <1>4, <2>1 DEF RunInv
<1>7. Chain' = Chain
  BY <1>1, <1>3 DEF Chain
<1>8. Chain \in Seq(Messages) /\ \A k \in 1..Len(Chain) : Chain[k].run \in Nat
  <2>1. Chain \in Seq(Messages)
    BY ChainTyped DEF IInv, FileInv
  <2>2. ASSUME NEW k \in 1..Len(Chain) PROVE Chain[k].run \in Nat
    <3>1. Chain[k] \in Messages
      BY <2>1, ElementOfSeq
    <3> QED
      BY <3>1 DEF Messages
  <2> QED
    BY <2>1, <2>2
<1>9. \A k \in 1..Len(Chain) : Chain[k].run < run'
  BY <1>1, <1>4, <1>8 DEF IInv, ChainInv
<1>10. ASSUME NEW l \in Loggers
       PROVE  Counts(Chain', l, run', Written(l)') /\ Ascends(Chain', l, run')
  <2>1. Written(l)' = 0
    BY <1>1, <1>2 DEF Written
  <2>2. {j \in 1..Len(Chain) : Chain[j].by = l /\ Chain[j].run = run'} = {}
    BY <1>4, <1>8, <1>9
  <2> QED
    BY <1>7, <2>1, <2>2 DEF Counts, Ascends
<1>11. NothingLost'
  BY <1>1, <1>2, <1>10, NothingLostIs
<1>12. ChainInv'
  <2>1. InOrder(Chain')
    BY <1>7 DEF IInv, ChainInv
  <2>2. \A k \in 1..Len(Chain') : Chain'[k].run <= run' /\ Chain'[k].run < run'
    BY <1>4, <1>7, <1>8, <1>9
  <2> QED
    BY <1>11, <2>1, <2>2 DEF ChainInv
<1> QED
  BY <1>3, <1>5, <1>6, <1>12 DEF Good, IInv

\* The reader's thread starts, and the others do nothing.
LEMMA StartGood ==
  ASSUME IInv, StartReader \/ UNCHANGED vars
  PROVE  Good
<1>1. /\ stage' = stage \/ (stage = "begun" /\ stage' = "reading")
      /\ UNCHANGED <<run, logged, blocked, pipe, hand, files, others, index, open, written, format>>
  BY DEF StartReader, vars
<1>2. FileInv' /\ Lines' = Lines
  BY <1>1, FilesKept DEF IInv
<1>3. TypeOK' /\ RunInv'
  BY <1>1 DEF IInv, TypeOK, RunInv
<1>4. Chain' = Chain /\ \A l \in Loggers : Written(l)' = Written(l)
  BY <1>1, <1>2 DEF Chain, Written
<1>5. hand' # <<>> => stage' = "up"
  BY <1>1 DEF IInv, RunInv
<1>6. ChainInv'
  BY <1>1, <1>4, <1>5, ChainKept
<1> QED
  BY <1>2, <1>3, <1>6 DEF Good, IInv

\* The search of init, and what is known of the file it has found.
LEMMA MakeFileGood ==
  ASSUME IInv, MakeFile
  PROVE  Good
<1>1. CASE End
  BY <1>1, EndGood
<1>2. CASE ~End
  <2>1. /\ stage = "reading" /\ stage' = "up"
        /\ ~\E name \in Matches : Throws(name)
        /\ index' = LastFileIndex /\ open' = FALSE
        /\ UNCHANGED <<run, logged, blocked, pipe, hand, files, others, written, format>>
        /\ written = FALSE
    BY <1>2 DEF MakeFile, IInv, RunInv, TypeOK
  <2>2. /\ \A name \in Others : ~Throws(name)
        /\ index' \in Nat /\ index' >= FirstIndex
        /\ \A i \in DOMAIN files : index' >= i
        /\ index' = FirstIndex \/ index' \in DOMAIN files
    <3>1. index \in Nat /\ DOMAIN files \subseteq 0..index /\ others \in Directories
      BY DEF IInv, TypeOK, FileInv
    <3> QED
      BY <2>1, <3>1, SearchFinds
  <2>3. FirstIndex' = FirstIndex /\ Others' = Others /\ Lines' = Lines
    BY <2>1, FirstKept DEF Lines
  <2>4. FirstIndex \in Nat
    BY <2>2, WhereItBegins DEF IInv, TypeOK
  <2>5. DOMAIN files' \subseteq 0..index'
    BY <2>1, <2>2 DEF IInv, FileInv
  <2>6. OnlyLastHasRoom' /\ OneOver' /\ Aged' /\ \A j : Full(j)' <=> Full(j)
    BY <2>1, <2>3 DEF IInv, FileInv, OnlyLastHasRoom, OneOver, Aged, Full
  <2>7. \A j \in FirstIndex'..index' - 1 : Full(j)'
    <3>1. CASE index' = FirstIndex
      BY <2>3, <2>4, <3>1
    <3>2. CASE index' \in DOMAIN files
      BY <2>3, <2>6, <3>2 DEF IInv, FileInv, OnlyLastHasRoom
    <3> QED
      BY <2>2, <3>1, <3>2
  <2>8. index' \in DOMAIN files' =>
          \A k \in RotationSize + 1..Len(files'[index']) : files'[index'][k].run < run'
    <3>1. ASSUME NEW i \in DOMAIN files, NEW k \in RotationSize + 1..Len(files[i])
          PROVE  files[i][k].run < run
      <4>1. k \in 1..Len(files[i])
        BY LogAssumption
      <4> QED
        BY <2>1, <4>1 DEF IInv, FileInv, Aged
    <3> QED
      BY <2>1, <3>1
  <2>9. FileInv'
    BY <2>2, <2>3, <2>5, <2>6, <2>7, <2>8 DEF FileInv
  <2>10. TypeOK' /\ RunInv'
    BY <2>1, <2>2 DEF IInv, TypeOK, RunInv
  <2>11. Chain' = Chain /\ \A l \in Loggers : Written(l)' = Written(l)
    BY <2>1, <2>3 DEF Chain, Written
  <2>12. ChainInv'
    BY <2>1, <2>11, ChainKept
  <2> QED
    BY <2>3, <2>9, <2>10, <2>12 DEF Good, IInv
<1> QED
  BY <1>1, <1>2

\* A thread begins to write a message to the pipe.
LEMMA LogGood ==
  ASSUME IInv, NEW l \in Loggers, LogMessage(l)
  PROVE  Good
<1>1. CASE End
  BY <1>1, EndGood
<1>2. CASE ~End
  <2>1. /\ stage = "up" /\ l \notin blocked /\ logged[l] < MaxMessages
        /\ logged' = [logged EXCEPT ![l] = @ + 1]
        /\ blocked' = blocked \cup {l}
        /\ UNCHANGED <<stage, run, pipe, hand, files, others, index, open, written, format>>
    BY <1>2 DEF LogMessage, Accepts
  <2>2. FileInv' /\ Lines' = Lines
    BY <2>1, FilesKept DEF IInv
  <2>3. logged \in [Loggers -> 0..MaxMessages] /\ MaxMessages \in Nat
    BY LogAssumption DEF IInv, TypeOK
  <2>4. logged' \in [Loggers -> 0..MaxMessages] /\ logged'[l] = logged[l] + 1
    BY <2>1, <2>3
  <2>5. TypeOK'
    BY <2>1, <2>4 DEF IInv, TypeOK
  <2>6. RunInv'
    <3>1. \A k \in blocked' : logged'[k] >= 1
      BY <2>1, <2>3, <2>4 DEF IInv, RunInv
    <3> QED
      BY <2>1, <3>1 DEF IInv, RunInv
  <2>7. ASSUME NEW k \in Loggers PROVE Written(k)' = Written(k)
    <3>1. CASE k = l
      BY <2>1, <2>3, <2>4, <3>1 DEF Written
    <3>2. CASE k # l
      BY <2>1, <2>3, <3>2 DEF Written
    <3> QED
      BY <3>1, <3>2
  <2>8. Chain' = Chain
    BY <2>1, <2>2 DEF Chain
  <2>9. ChainInv'
    BY <2>1, <2>7, <2>8, ChainKept
  <2> QED
    BY <2>2, <2>5, <2>6, <2>9 DEF Good, IInv
<1> QED
  BY <1>1, <1>2

\* The reader takes the first message from the pipe.
LEMMA ReadGood ==
  ASSUME IInv, ReadFromPipe
  PROVE  Good
<1>1. /\ hand = <<>> /\ ~written /\ pipe # <<>>
      /\ hand' = <<Head(pipe)>> /\ pipe' = Tail(pipe)
      /\ UNCHANGED <<stage, run, logged, blocked, files, others, index, open, written, format>>
  BY DEF ReadFromPipe
<1>2. stage = "up" /\ stage' = "up"
  BY <1>1 DEF IInv, RunInv
<1>3. FileInv' /\ Lines' = Lines
  BY <1>1, FilesKept DEF IInv
<1>4. pipe \in Seq(Messages)
  BY DEF IInv, TypeOK
<1>5. /\ Head(pipe) \in Messages /\ Tail(pipe) \in Seq(Messages)
      /\ Len(Tail(pipe)) = Len(pipe) - 1 /\ Len(pipe) \in Nat \ {0}
      /\ \A k \in 1..Len(Tail(pipe)) : Tail(pipe)[k] = pipe[k + 1]
      /\ Head(pipe) = pipe[1]
  BY <1>1, <1>4, HeadTailProperties, EmptySeq
<1>6. <<Head(pipe)>> \in Seq(Messages) /\ Len(<<Head(pipe)>>) = 1
  BY <1>5
<1>7. TypeOK'
  <2>1. PipeFrames \in Nat
    BY LogAssumption
  <2>2. Len(pipe') <= PipeFrames
    BY <1>1, <1>5, <2>1 DEF IInv, TypeOK
  <2> QED
    BY <1>1, <1>5, <1>6, <2>2 DEF IInv, TypeOK
<1>8. RunInv'
  <2>1. \A k \in 1..Len(pipe) : pipe[k].run = run
    BY DEF IInv, RunInv
  <2>2. \A k \in 1..Len(hand') : hand'[k].run = run'
    BY <1>1, <1>5, <1>6, <2>1
  <2>3. \A k \in 1..Len(pipe') : pipe'[k].run = run'
    BY <1>1, <1>5, <2>1
  <2> QED
    BY <1>1, <1>2, <2>2, <2>3 DEF IInv, RunInv
<1>9. Chain' = Chain
  <2>1. Lines \in Seq(Messages) /\ Lines \o <<>> = Lines
    BY ChainTyped, ConcatEmptySeq DEF IInv, FileInv
  <2>2. pipe = <<Head(pipe)>> \o Tail(pipe)
    <3>1. /\ <<Head(pipe)>> \o Tail(pipe) \in Seq(Messages)
          /\ Len(<<Head(pipe)>> \o Tail(pipe)) = Len(pipe)
          /\ \A k \in 1..Len(pipe) : (<<Head(pipe)>> \o Tail(pipe))[k] = pipe[k]
      BY <1>5, <1>6, ConcatProperties
    <3> QED
      BY <1>4, <3>1, SeqEqual
  <2>3. (Lines \o <<Head(pipe)>>) \o Tail(pipe) = Lines \o (<<Head(pipe)>> \o Tail(pipe))
    BY <1>5, <1>6, <2>1, ConcatAssociative
  <2> QED
    BY <1>1, <1>3, <2>1, <2>2, <2>3 DEF Chain
<1>10. \A l \in Loggers : Written(l)' = Written(l)
  BY <1>1 DEF Written
<1>11. ChainInv'
  BY <1>1, <1>2, <1>9, <1>10, ChainKept
<1> QED
  BY <1>3, <1>7, <1>8, <1>11 DEF Good, IInv

\* A message that a thread has written to the pipe is the next of its numbers.
LEMMA PipeGood ==
  ASSUME IInv, NEW l \in Loggers, WriteToPipe(l)
  PROVE  Good
<1> DEFINE m == Message(l)
<1>1. /\ l \in blocked /\ Len(pipe) < PipeFrames /\ pipe' = Append(pipe, m)
      /\ blocked' = blocked \ {l}
      /\ UNCHANGED <<stage, run, logged, hand, files, others, index, open, written, format>>
  BY DEF WriteToPipe
<1>2. stage = "up" /\ run >= 1 /\ logged[l] >= 1
  BY <1>1 DEF IInv, RunInv
<1>3. FileInv' /\ Lines' = Lines
  BY <1>1, FilesKept DEF IInv
<1>4. /\ run \in 1..MaxRuns /\ logged \in [Loggers -> 0..MaxMessages] /\ MaxMessages \in Nat
      /\ logged[l] \in 1..MaxMessages
  BY <1>2, LogAssumption DEF IInv, TypeOK
<1>5. m \in Messages /\ m.by = l /\ m.n = logged[l] /\ m.run = run
  BY <1>4 DEF Message, Messages
<1> HIDE DEF m
<1>6. /\ pipe \in Seq(Messages) /\ Len(pipe) \in Nat /\ pipe' \in Seq(Messages)
      /\ Len(pipe') = Len(pipe) + 1
      /\ \A k \in 1..Len(pipe) : pipe'[k] = pipe[k]
      /\ pipe'[Len(pipe) + 1] = m
  <2>1. pipe \in Seq(Messages)
    BY DEF IInv, TypeOK
  <2> QED
    BY <1>1, <1>5, <2>1, AppendProperties, LenProperties
<1>7. TypeOK'
  <2>1. PipeFrames \in Nat
    BY LogAssumption
  <2>2. Len(pipe') <= PipeFrames
    BY <1>1, <1>6, <2>1
  <2> QED
    BY <1>1, <1>6, <2>2 DEF IInv, TypeOK
<1>8. RunInv'
  <2>1. \A k \in 1..Len(pipe') : pipe'[k].run = run'
    BY <1>1, <1>5, <1>6 DEF IInv, RunInv
  <2> QED
    BY <1>1, <1>2, <2>1 DEF IInv, RunInv
<1>9. /\ Chain \in Seq(Messages) /\ Len(Chain) \in Nat
      /\ Chain' \in Seq(Messages) /\ Len(Chain') = Len(Chain) + 1
      /\ \A k \in 1..Len(Chain) : Chain'[k] = Chain[k]
      /\ Chain'[Len(Chain) + 1] = m
  <2>1. Chain \in Seq(Messages) /\ Lines \o hand \in Seq(Messages)
    BY ChainTyped DEF IInv, FileInv
  <2>2. <<m>> \in Seq(Messages) /\ pipe' = pipe \o <<m>>
    BY <1>1, <1>5, <1>6, AppendIsConcat
  <2>3. ((Lines \o hand) \o pipe) \o <<m>> = (Lines \o hand) \o (pipe \o <<m>>)
    BY <1>6, <2>1, <2>2, ConcatAssociative
  <2>4. Chain' = Append(Chain, m)
    <3>1. Append(Chain, m) = Chain \o <<m>>
      BY <1>5, <2>1, AppendIsConcat
    <3> QED
      BY <1>1, <1>3, <2>2, <2>3, <3>1 DEF Chain
  <2> QED
    BY <1>5, <2>1, <2>4, AppendProperties, LenProperties
<1>10. ASSUME NEW k \in 1..Len(Chain)
       PROVE  Chain[k] \in Messages /\ Chain[k].run \in Nat /\ Chain[k].n \in Nat
  <2>1. Chain[k] \in Messages
    BY <1>9, ElementOfSeq
  <2> QED
    BY <2>1 DEF Messages
<1>11. ASSUME NEW t \in Loggers
       PROVE  Counts(Chain, t, run, Written(t))
  BY <1>2, NothingLostIs DEF IInv, ChainInv
<1>12. Written(l) = logged[l] - 1 /\ Written(l)' = logged[l]
  BY <1>1 DEF Written
<1>13. ASSUME NEW k \in 1..Len(Chain), Chain[k].by = l
       PROVE  Journal!Before(Chain[k], m)
  <2>1. Chain[k].run <= run
    BY DEF IInv, ChainInv
  <2>2. CASE Chain[k].run = run
    <3>1. Chain[k].n \in 1..logged[l] - 1
      BY <1>11, <1>12, <1>13, <2>2 DEF Counts
    <3> QED
      BY <1>4, <1>5, <2>2, <3>1 DEF Journal!Before
  <2>3. CASE Chain[k].run # run
    BY <1>4, <1>5, <1>10, <2>1, <2>3 DEF Journal!Before
  <2> QED
    BY <2>2, <2>3
<1>14. InOrder(Chain')
  <2>1. ASSUME NEW j \in 1..Len(Chain'), NEW k \in 1..Len(Chain'),
               j < k, Chain'[j].by = Chain'[k].by
        PROVE  Journal!Before(Chain'[j], Chain'[k])
    <3>1. j \in 1..Len(Chain) /\ Chain'[j] = Chain[j]
      BY <1>9, <2>1
    <3>2. CASE k = Len(Chain) + 1
      BY <1>5, <1>9, <1>13, <2>1, <3>1, <3>2
    <3>3. CASE k # Len(Chain) + 1
      <4>1. k \in 1..Len(Chain) /\ Chain'[k] = Chain[k]
        BY <1>9, <3>3
      <4> QED
        BY <2>1, <3>1, <4>1 DEF IInv, ChainInv, InOrder
    <3> QED
      BY <3>2, <3>3
  <2> QED
    BY <2>1 DEF InOrder
<1>15. ASSUME NEW t \in Loggers
       PROVE  Counts(Chain', t, run, Written(t)')
  <2> DEFINE old == {j \in 1..Len(Chain) : Chain[j].by = t /\ Chain[j].run = run}
             new == {j \in 1..Len(Chain') : Chain'[j].by = t /\ Chain'[j].run = run}
  <2>1. {Chain[i].n : i \in old} = 1..Written(t)
    BY <1>11 DEF Counts
  <2>2. CASE t = l
    <3>1. new = old \cup {Len(Chain) + 1}
      BY <1>5, <1>9, <2>2
    <3>2. old \subseteq 1..Len(Chain)
      OBVIOUS
    <3> HIDE DEF old, new
    <3>3. {Chain'[i].n : i \in new} = {Chain[i].n : i \in old} \cup {logged[l]}
      BY <1>5, <1>9, <3>1, <3>2
    <3>4. (1..logged[l] - 1) \cup {logged[l]} = 1..logged[l]
      BY <1>4
    <3>5. {Chain'[i].n : i \in new} = 1..Written(t)'
      BY <1>12, <2>1, <2>2, <3>3, <3>4
    <3> QED
      BY <3>5 DEF Counts, new
  <2>3. CASE t # l
    <3>1. new = old
      BY <1>5, <1>9, <2>3
    <3>2. old \subseteq 1..Len(Chain)
      OBVIOUS
    <3>3. Written(t)' = Written(t)
      BY <1>1, <2>3 DEF Written
    <3> HIDE DEF old, new
    <3>4. {Chain'[i].n : i \in new} = {Chain[i].n : i \in old}
      BY <1>9, <3>1, <3>2
    <3>5. {Chain'[i].n : i \in new} = 1..Written(t)'
      BY <2>1, <3>3, <3>4
    <3> QED
      BY <3>5 DEF Counts, new
  <2> QED
    BY <2>2, <2>3
<1>16. NothingLost'
  <2>1. \A t \in Loggers : Ascends(Chain', t, run)
    BY <1>4, <1>14, OrderAscends
  <2> QED
    BY <1>1, <1>2, <1>15, <2>1, NothingLostIs
<1>17. ChainInv'
  <2>1. \A k \in 1..Len(Chain') : Chain'[k].run <= run
    <3>1. ASSUME NEW k \in 1..Len(Chain') PROVE Chain'[k].run <= run
      <4>1. CASE k = Len(Chain) + 1
        BY <1>4, <1>5, <1>9, <4>1
      <4>2. CASE k # Len(Chain) + 1
        <5>1. k \in 1..Len(Chain) /\ Chain'[k] = Chain[k]
          BY <1>9, <4>2
        <5> QED
          BY <5>1 DEF IInv, ChainInv
      <4> QED
        BY <4>1, <4>2
    <3> QED
      BY <3>1
  <2> QED
    BY <1>1, <1>2, <1>14, <1>16, <2>1 DEF ChainInv
<1> QED
  BY <1>3, <1>7, <1>8, <1>17 DEF Good, IInv

\* The reader has one message in its hand, or none.
LEMMA InHand ==
  ASSUME NEW h \in Seq(Messages), Len(h) <= 1, h # <<>>
  PROVE  Len(h) = 1 /\ h[1] \in Messages /\ h = <<h[1]>>
<1>1. Len(h) \in Nat \ {0}
  BY EmptySeq
<1>2. Len(h) = 1
  BY <1>1
<1>3. h[1] \in Messages
  BY <1>2, ElementOfSeq
<1>4. /\ <<h[1]>> \in Seq(Messages) /\ Len(<<h[1]>>) = 1
      /\ \A k \in 1..1 : h[k] = <<h[1]>>[k]
  BY <1>3
<1>5. h = <<h[1]>>
  BY <1>2, <1>4, SeqEqual
<1> QED
  BY <1>2, <1>3, <1>5

\* getFile opens the current file, which may be a new and empty one.
LEMMA GetFileGood ==
  ASSUME IInv, GetFile
  PROVE  Good
<1>1. /\ stage = "up" /\ hand # <<>> /\ open' = TRUE
      /\ UNCHANGED <<stage, run, logged, blocked, pipe, hand, others, index, written, format>>
      /\ DOMAIN files' = DOMAIN files \cup {index}
      /\ \A i \in DOMAIN files : files'[i] = files[i]
      /\ index \notin DOMAIN files => files'[index] = <<>>
  BY DEF GetFile, Opened
<1>2. /\ index \in Nat /\ DOMAIN files \subseteq 0..index /\ RotationSize \in Nat
      /\ <<>> \in Seq(Messages) /\ Len(<<>>) = 0
  BY LogAssumption, EmptySeq DEF IInv, TypeOK, FileInv
<1>3. ASSUME NEW i \in DOMAIN files'
      PROVE  \/ i \in DOMAIN files /\ files'[i] = files[i]
             \/ i = index /\ files'[i] = <<>>
  BY <1>1
<1>4. \A i \in DOMAIN files' : files'[i] \in Seq(Messages)
  BY <1>2, <1>3 DEF IInv, TypeOK
<1>5. TypeOK'
  <2>1. DOMAIN files' \subseteq Nat /\ index' \in DOMAIN files' /\ written' = FALSE
    BY <1>1, <1>2 DEF IInv, TypeOK
  <2> QED
    BY <1>1, <1>4, <2>1 DEF IInv, TypeOK
<1>6. RunInv'
  BY <1>1 DEF IInv, RunInv
<1>7. Lines' = Lines
  <2>1. TypedFiles(files) /\ TypedFiles(files') /\ DOMAIN files' \subseteq 0..index
    BY <1>1, <1>2, <1>4 DEF IInv, TypeOK, TypedFiles
  <2>2. Lines = LinesOf(files) /\ Lines' = LinesOf(files')
    BY DEF Lines, LinesOf, At
  <2>3. Lines = UpTo(files, index + 1) /\ Lines' = UpTo(files', index + 1)
    BY <1>2, <2>1, <2>2, LinesUpTo
  <2>4. \A i \in 0..(index + 1) - 1 : At(files', i) = At(files, i)
    BY <1>1 DEF At
  <2>5. index + 1 \in Nat
    BY <1>2
  <2>6. UpTo(files', index + 1) = UpTo(files, index + 1)
    BY <2>4, <2>5, UpToSame
  <2> QED
    BY <2>3, <2>6
<1>8. FirstIndex' = FirstIndex /\ Others' = Others
  BY <1>1, FirstKept
<1>9. /\ FirstIndex \in Nat /\ index >= FirstIndex
      /\ \A j \in FirstIndex..index - 1 : Full(j)
      /\ \A name \in Others : ~Throws(name)
  <2>1. \A name \in Others : ~Throws(name)
    BY <1>1 DEF IInv, FileInv
  <2>2. others \in Directories
    BY DEF IInv, TypeOK
  <2> QED
    BY <1>1, <2>1, <2>2, WhereItBegins DEF IInv, FileInv
<1>10. \A j : Full(j) => Full(j)'
  BY <1>1 DEF Full
<1>11. OnlyLastHasRoom'
  <2>1. ASSUME NEW i \in DOMAIN files'
        PROVE  i >= FirstIndex /\ \A j \in FirstIndex..i - 1 : Full(j)
    <3>1. CASE i \in DOMAIN files
      BY <3>1 DEF IInv, FileInv, OnlyLastHasRoom
    <3>2. CASE i = index
      BY <1>9, <3>2
    <3> QED
      BY <1>1, <3>1, <3>2
  <2> QED
    BY <1>8, <1>10, <2>1 DEF OnlyLastHasRoom
<1>12. OneOver'
  <2>1. ASSUME NEW i \in DOMAIN files',
               NEW j \in RotationSize + 1..Len(files'[i]),
               NEW k \in RotationSize + 1..Len(files'[i]),
               files'[i][j].run = files'[i][k].run
        PROVE  j = k
    <3>1. CASE i \in DOMAIN files /\ files'[i] = files[i]
      BY <2>1, <3>1 DEF IInv, FileInv, OneOver
    <3>2. CASE files'[i] = <<>>
      BY <1>2, <3>2
    <3> QED
      BY <1>3, <3>1, <3>2
  <2> QED
    BY <2>1 DEF OneOver
<1>13. Aged'
  <2>1. ASSUME NEW i \in DOMAIN files', NEW k \in 1..Len(files'[i])
        PROVE  files'[i][k].run <= run
    <3>1. CASE i \in DOMAIN files /\ files'[i] = files[i]
      BY <3>1 DEF IInv, FileInv, Aged
    <3>2. CASE files'[i] = <<>>
      BY <1>2, <3>2
    <3> QED
      BY <1>3, <3>1, <3>2
  <2> QED
    BY <1>1, <2>1 DEF Aged
<1>14. index' \in DOMAIN files' /\ ~written' =>
         \A k \in RotationSize + 1..Len(files'[index']) : files'[index'][k].run < run'
  <2>1. ASSUME NEW k \in RotationSize + 1..Len(files'[index]), ~written
        PROVE  files'[index][k].run < run
    <3>1. CASE index \in DOMAIN files
      BY <1>1, <2>1, <3>1 DEF IInv, FileInv
    <3>2. CASE index \notin DOMAIN files
      BY <1>1, <1>2, <3>2
    <3> QED
      BY <3>1, <3>2
  <2> QED
    BY <1>1, <2>1
<1>15. FileInv'
  <2>1. DOMAIN files' \subseteq 0..index'
    BY <1>1, <1>2
  <2>2. index' >= FirstIndex' /\ \A j \in FirstIndex'..index' - 1 : Full(j)'
    BY <1>1, <1>8, <1>9, <1>10
  <2> QED
    BY <1>1, <1>8, <1>9, <1>11, <1>12, <1>13, <1>14, <2>1, <2>2 DEF FileInv
<1>16. ChainInv'
  <2>1. Chain' = Chain /\ \A l \in Loggers : Written(l)' = Written(l)
    BY <1>1, <1>7 DEF Chain, Written
  <2> QED
    BY <1>1, <2>1, ChainKept
<1> QED
  BY <1>5, <1>6, <1>7, <1>15, <1>16 DEF Good, IInv

\* What a message that is written to the current file does to the files.
LEMMA WriteIs ==
  ASSUME IInv, WriteToFile
  PROVE  /\ stage = "up" /\ hand' = <<>> /\ hand[1] \in Messages /\ hand[1].run = run
         /\ UNCHANGED <<stage, run, logged, blocked, pipe, others, index, open, format>>
         /\ open /\ written' = TRUE /\ index \in DOMAIN files
         /\ DOMAIN files' = DOMAIN files
         /\ \A i \in DOMAIN files : i # index => files'[i] = files[i]
         /\ files'[index] = Append(At(files, index), hand[1])
<1>1. /\ hand # <<>> /\ hand' = <<>>
      /\ UNCHANGED <<stage, run, logged, blocked, pipe, others, index, open, format>>
  BY DEF WriteToFile
<1>2. stage = "up"
  BY <1>1 DEF IInv, RunInv
<1>3. hand \in Seq(Messages) /\ Len(hand) = 1 /\ hand[1] \in Messages /\ hand = <<hand[1]>>
  BY <1>1, InHand DEF IInv, TypeOK
<1>4. hand[1].run = run
  BY <1>3 DEF IInv, RunInv
<1>5. /\ open /\ written' = TRUE /\ index \in DOMAIN files
      /\ files' = [files EXCEPT ![index] = @ \o hand]
  BY <1>2 DEF WriteToFile, IInv, TypeOK
<1>6. files[index] \o hand = Append(At(files, index), hand[1])
  <2>1. At(files, index) = files[index] /\ files[index] \in Seq(Messages)
    BY <1>5 DEF IInv, TypeOK, At
  <2>2. Append(files[index], hand[1]) = files[index] \o <<hand[1]>>
    BY <1>3, <2>1, AppendIsConcat
  <2> QED
    BY <1>3, <2>1, <2>2
<1>7. /\ DOMAIN files' = DOMAIN files
      /\ \A i \in DOMAIN files : i # index => files'[i] = files[i]
      /\ files'[index] = files[index] \o hand
  BY <1>5
<1> QED
  BY <1>1, <1>2, <1>3, <1>4, <1>5, <1>6, <1>7

\* The message comes after all that is in the files.
LEMMA WriteAppends ==
  ASSUME IInv, WriteToFile
  PROVE  Lines' = Append(Lines, hand[1])
<1> DEFINE m == hand[1]
           cur == At(files, index)
<1>1. /\ m \in Messages /\ index \in DOMAIN files
      /\ DOMAIN files' = DOMAIN files
      /\ \A i \in DOMAIN files : i # index => files'[i] = files[i]
      /\ files'[index] = Append(cur, m)
  BY WriteIs
<1>2. index \in Nat /\ DOMAIN files \subseteq 0..index /\ TypedFiles(files)
  BY ChainTyped DEF IInv, TypeOK, FileInv
<1>3. /\ Lines = UpTo(files, index) \o cur
      /\ UpTo(files, index) \in Seq(Messages) /\ cur \in Seq(Messages)
  BY <1>2, ChainTyped, LinesUpTo, UpToStep DEF IInv, FileInv
<1>4. TypedFiles(files')
  <2>1. Append(cur, m) \in Seq(Messages)
    BY <1>1, <1>3, AppendProperties
  <2> HIDE DEF cur, m
  <2> QED
    BY <1>1, <1>2, <2>1 DEF TypedFiles
<1>5. DOMAIN files' \subseteq 0..index
  BY <1>1, <1>2
<1>6. Lines' = LinesOf(files')
  BY DEF Lines, LinesOf, At
<1>7. Lines' = UpTo(files', index) \o At(files', index)
  BY <1>2, <1>4, <1>5, <1>6, LinesUpTo, UpToStep
<1>8. UpTo(files', index) = UpTo(files, index)
  <2>1. \A i \in 0..index - 1 : At(files, i) = At(files', i)
    BY <1>1, <1>2 DEF At
  <2> QED
    BY <1>2, <2>1, UpToSame
<1>9. At(files', index) = cur \o <<m>>
  BY <1>1, <1>3, AppendIsConcat DEF At
<1> HIDE DEF cur, m
<1>10. <<m>> \in Seq(Messages)
  BY <1>1
<1>11. (UpTo(files, index) \o cur) \o <<m>> = UpTo(files, index) \o (cur \o <<m>>)
  BY <1>3, <1>10, ConcatAssociative
<1>12. Lines \in Seq(Messages)
  BY <1>3, ConcatProperties
<1>13. Append(Lines, m) = Lines \o <<m>>
  BY <1>1, <1>12, AppendIsConcat
<1> QED
  BY <1>3, <1>7, <1>8, <1>9, <1>11, <1>13 DEF m

\* The message may be the one too many of this run.
LEMMA WriteFiles ==
  ASSUME IInv, WriteToFile
  PROVE  FileInv'
<1> DEFINE m == hand[1]
           cur == At(files, index)
           w == files'[index]
<1>1. /\ stage = "up" /\ m \in Messages /\ m.run = run
      /\ UNCHANGED <<stage, run, others, index>>
      /\ hand # <<>> /\ written' = TRUE /\ index \in DOMAIN files
      /\ DOMAIN files' = DOMAIN files
      /\ \A i \in DOMAIN files : i # index => files'[i] = files[i]
      /\ w = Append(cur, m)
  BY WriteIs DEF WriteToFile
<1>2. index \in Nat /\ DOMAIN files \subseteq 0..index /\ RotationSize \in Nat /\ run \in Nat
  BY LogAssumption DEF IInv, TypeOK, FileInv
<1>3. /\ cur \in Seq(Messages) /\ Len(cur) \in Nat
      /\ w \in Seq(Messages) /\ Len(w) = Len(cur) + 1 /\ w[Len(cur) + 1] = m
      /\ \A k \in 1..Len(cur) : w[k] = cur[k]
  <2>1. cur \in Seq(Messages)
    BY EmptySeq DEF IInv, TypeOK, At
  <2> QED
    BY <1>1, <2>1, AppendProperties, LenProperties
<1>4. \A k \in 1..Len(cur) : index \in DOMAIN files /\ cur = files[index]
  BY EmptySeq DEF At
<1>5. FirstIndex' = FirstIndex /\ Others' = Others
  BY <1>1, FirstKept
<1>6. /\ FirstIndex \in Nat /\ index >= FirstIndex
      /\ \A j \in FirstIndex..index - 1 : Full(j)
      /\ \A name \in Others : ~Throws(name)
  <2>1. \A name \in Others : ~Throws(name)
    BY <1>1 DEF IInv, FileInv
  <2>2. others \in Directories
    BY DEF IInv, TypeOK
  <2> QED
    BY <1>1, <2>1, <2>2, WhereItBegins DEF IInv, FileInv
<1> HIDE DEF cur, m, w
<1>7. ASSUME NEW j, Full(j) PROVE Full(j)'
  <2>1. CASE j = index
    <3>1. index \in DOMAIN files /\ cur = files[index] /\ Len(cur) > RotationSize
      BY <1>7, <2>1 DEF Full, MustRotate, cur, At
    <3>2. Len(w) > RotationSize
      BY <1>2, <1>3, <3>1
    <3> QED
      BY <1>1, <2>1, <3>2 DEF Full, MustRotate, w
  <2>2. CASE j # index
    BY <1>1, <1>7, <2>2 DEF Full
  <2> QED
    BY <2>1, <2>2
<1>8. DOMAIN files' \subseteq 0..index'
  BY <1>1, <1>2
<1>9. OnlyLastHasRoom'
  <2>1. ASSUME NEW i \in DOMAIN files'
        PROVE  i >= FirstIndex /\ \A j \in FirstIndex..i - 1 : Full(j)
    <3>1. CASE i \in DOMAIN files
      BY <3>1 DEF IInv, FileInv, OnlyLastHasRoom
    <3>2. CASE i = index
      BY <1>6, <3>2
    <3> QED
      BY <1>1, <3>1, <3>2
  <2> QED
    BY <1>5, <1>7, <2>1 DEF OnlyLastHasRoom
<1>10. \A k \in 1..Len(cur) : k > RotationSize => cur[k].run < run
  <2>1. ~written
    BY <1>1 DEF IInv, TypeOK
  <2> QED
    BY <1>1, <1>2, <1>4, <2>1 DEF IInv, FileInv
<1>11. OneOver'
  <2>1. ASSUME NEW i \in DOMAIN files',
               NEW j \in RotationSize + 1..Len(files'[i]),
               NEW k \in RotationSize + 1..Len(files'[i]),
               files'[i][j].run = files'[i][k].run
        PROVE  j = k
    <3>1. CASE i # index
      <4>1. i \in DOMAIN files /\ files'[i] = files[i]
        BY <1>1, <3>1
      <4> QED
        BY <2>1, <4>1 DEF IInv, FileInv, OneOver
    <3>2. CASE i = index
      <4>1. j \in RotationSize + 1..Len(cur) + 1 /\ k \in RotationSize + 1..Len(cur) + 1
        BY <1>3, <3>2 DEF w
      <4>2. w[j].run = w[k].run
        BY <2>1, <3>2 DEF w
      <4>3. \A a \in RotationSize + 1..Len(cur) : w[a].run = cur[a].run /\ cur[a].run < run
        BY <1>2, <1>3, <1>10
      <4>4. w[Len(cur) + 1].run = run
        BY <1>1, <1>3
      <4>5. CASE j = Len(cur) + 1 \/ k = Len(cur) + 1
        BY <1>2, <1>3, <4>1, <4>2, <4>3, <4>4, <4>5
      <4>6. CASE j \in RotationSize + 1..Len(cur) /\ k \in RotationSize + 1..Len(cur)
        <5>1. index \in DOMAIN files /\ cur = files[index] /\ cur[j].run = cur[k].run
          BY <1>2, <1>4, <4>2, <4>3, <4>6
        <5> QED
          BY <4>6, <5>1 DEF IInv, FileInv, OneOver
      <4> QED
        BY <1>2, <1>3, <4>1, <4>5, <4>6
    <3> QED
      BY <3>1, <3>2
  <2> QED
    BY <2>1 DEF OneOver
<1>12. Aged'
  <2>1. ASSUME NEW i \in DOMAIN files', NEW k \in 1..Len(files'[i])
        PROVE  files'[i][k].run <= run
    <3>1. CASE i # index
      <4>1. i \in DOMAIN files /\ files'[i] = files[i]
        BY <1>1, <3>1
      <4> QED
        BY <4>1 DEF IInv, FileInv, Aged
    <3>2. CASE i = index
      <4>1. k \in 1..Len(cur) + 1 /\ files'[i][k] = w[k]
        BY <1>3, <3>2 DEF w
      <4>2. CASE k = Len(cur) + 1
        BY <1>1, <1>2, <1>3, <4>1, <4>2
      <4>3. CASE k \in 1..Len(cur)
        <5>1. index \in DOMAIN files /\ cur = files[index] /\ w[k] = cur[k]
          BY <1>3, <1>4, <4>3
        <5> QED
          BY <4>1, <4>3, <5>1 DEF IInv, FileInv, Aged
      <4> QED
        BY <1>3, <4>1, <4>2, <4>3
    <3> QED
      BY <3>1, <3>2
  <2> QED
    BY <1>1, <2>1 DEF Aged
<1>13. index' >= FirstIndex' /\ \A j \in FirstIndex'..index' - 1 : Full(j)'
  BY <1>1, <1>5, <1>6, <1>7
<1> QED
  BY <1>1, <1>5, <1>6, <1>8, <1>9, <1>11, <1>12, <1>13 DEF FileInv

\* The reader writes the message in its hand to the current file.
LEMMA FileGood ==
  ASSUME IInv, WriteToFile
  PROVE  Good
<1> DEFINE m == hand[1]
<1>1. /\ stage = "up" /\ hand' = <<>> /\ m \in Messages
      /\ UNCHANGED <<stage, run, logged, blocked, pipe, others, index, open, format>>
      /\ open /\ written' = TRUE /\ index \in DOMAIN files
      /\ DOMAIN files' = DOMAIN files
      /\ \A i \in DOMAIN files : i # index => files'[i] = files[i]
      /\ files'[index] = Append(At(files, index), m)
  BY WriteIs
<1>2. Lines' = Append(Lines, m)
  BY WriteAppends
<1>3. hand = <<m>>
  BY InHand DEF IInv, TypeOK, WriteToFile
<1> HIDE DEF m
<1>4. FileInv'
  BY WriteFiles
<1>5. TypeOK'
  <2>1. <<>> \in Seq(Messages) /\ Len(<<>>) = 0
    BY EmptySeq
  <2>2. hand' \in Seq(Messages) /\ Len(hand') <= 1
    BY <1>1, <2>1
  <2>3. index \in Nat /\ DOMAIN files \subseteq Nat
    BY DEF IInv, TypeOK
  <2>4. index' \in Nat /\ DOMAIN files' \subseteq Nat
    BY <1>1, <2>3
  <2>5. files'[index] \in Seq(Messages)
    <3>1. At(files, index) \in Seq(Messages)
      BY <2>1 DEF IInv, TypeOK, At
    <3> QED
      BY <1>1, <3>1, AppendProperties
  <2>6. \A i \in DOMAIN files' : files'[i] \in Seq(Messages)
    BY <1>1, <2>5 DEF IInv, TypeOK
  <2> QED
    BY <1>1, <2>2, <2>4, <2>6 DEF IInv, TypeOK
<1>6. RunInv'
  <2>1. Len(<<>>) = 0
    BY EmptySeq
  <2> QED
    BY <1>1, <2>1 DEF IInv, RunInv
<1>7. Lines \in Seq(Messages) /\ Lines \o hand = Lines' /\ Lines' \in Seq(Messages)
  <2>1. Lines \in Seq(Messages)
    BY ChainTyped DEF IInv, FileInv
  <2> QED
    BY <1>1, <1>2, <1>3, <2>1, AppendIsConcat, AppendProperties
<1>8. Chain' = Chain
  <2>1. Lines' \o <<>> = Lines'
    BY <1>7, ConcatEmptySeq
  <2> QED
    BY <1>1, <1>7, <2>1 DEF Chain
<1>9. \A l \in Loggers : Written(l)' = Written(l)
  BY <1>1 DEF Written
<1>10. ChainInv'
  BY <1>1, <1>8, <1>9, ChainKept
<1>11. Journal!Add(m)
  <2>1. /\ Len(Lines) \in Nat /\ Len(Lines') = Len(Lines) + 1
        /\ \A k \in 1..Len(Lines) : Lines'[k] = Lines[k]
        /\ Lines'[Len(Lines) + 1] = m
    BY <1>1, <1>2, <1>7, AppendProperties, LenProperties
  <2>2. /\ Len(Lines') <= Len(Chain)
        /\ \A k \in 1..Len(Lines') : Chain[k] = Lines'[k]
    <3>1. pipe \in Seq(Messages) /\ Len(pipe) \in Nat
      BY LenProperties DEF IInv, TypeOK
    <3>2. Chain = Lines' \o pipe
      BY <1>7 DEF Chain
    <3>3. /\ Len(Chain) = Len(Lines') + Len(pipe)
          /\ \A k \in 1..Len(Lines') + Len(pipe) :
               Chain[k] = IF k <= Len(Lines') THEN Lines'[k] ELSE pipe[k - Len(Lines')]
      BY <1>7, <3>1, <3>2, ConcatProperties
    <3> QED
      BY <2>1, <3>1, <3>3
  <2>3. ASSUME NEW k \in 1..Len(Lines), Lines[k].by = m.by
        PROVE  Journal!Before(Lines[k], m)
    <3>1. /\ k \in 1..Len(Chain) /\ Len(Lines) + 1 \in 1..Len(Chain) /\ k < Len(Lines) + 1
          /\ Chain[k] = Lines[k] /\ Chain[Len(Lines) + 1] = m
      BY <1>7, <2>1, <2>2
    <3> QED
      BY <2>3, <3>1 DEF IInv, ChainInv, InOrder
  <2> QED
    BY <1>2, <2>3 DEF Journal!Add
<1>12. Journal!Next
  BY <1>1, <1>11 DEF Journal!Next
<1> QED
  BY <1>4, <1>5, <1>6, <1>10, <1>12 DEF Good, IInv

\* The rotation leaves only full files.
LEMMA RotateGood ==
  ASSUME IInv, Rotate
  PROVE  Good
<1>1. /\ written /\ written' = FALSE
      /\ UNCHANGED <<stage, run, logged, blocked, pipe, hand, files, others, format>>
      /\ \/ /\ MustRotate(Len(files[index])) /\ open' = FALSE /\ index' = index + 1
         \/ /\ ~MustRotate(Len(files[index])) /\ open' = open /\ index' = index
  BY DEF Rotate
<1>2. /\ stage = "up" /\ open /\ index \in DOMAIN files /\ hand = <<>> /\ open \in BOOLEAN
      /\ index \in Nat /\ DOMAIN files \subseteq 0..index /\ RotationSize \in Nat
      /\ files[index] \in Seq(Messages)
  BY <1>1, LogAssumption DEF IInv, TypeOK, RunInv, FileInv
<1>3. TypeOK' /\ RunInv'
  <2>1. CASE open' = FALSE /\ index' = index + 1
    <3>1. index' \in Nat
      BY <1>2, <2>1
    <3> QED
      BY <1>1, <1>2, <2>1, <3>1 DEF IInv, TypeOK, RunInv
  <2>2. CASE open' = open /\ index' = index
    BY <1>1, <1>2, <2>2 DEF IInv, TypeOK, RunInv
  <2> QED
    BY <1>1, <2>1, <2>2, Zenon
<1>4. FirstIndex' = FirstIndex /\ Others' = Others /\ Lines' = Lines
  BY <1>1, FirstKept DEF Lines
<1>5. OnlyLastHasRoom' /\ OneOver' /\ Aged' /\ \A j : Full(j)' <=> Full(j)
  BY <1>1, <1>4 DEF IInv, FileInv, OnlyLastHasRoom, OneOver, Aged, Full
<1>6. /\ FirstIndex \in Nat /\ index >= FirstIndex
      /\ \A j \in FirstIndex..index - 1 : Full(j)
      /\ \A name \in Others : ~Throws(name)
  <2>1. \A name \in Others : ~Throws(name)
    BY <1>2 DEF IInv, FileInv
  <2>2. others \in Directories
    BY DEF IInv, TypeOK
  <2> QED
    BY <1>2, <2>1, <2>2, WhereItBegins DEF IInv, FileInv
<1>7. DOMAIN files' \subseteq 0..index'
  <2>1. index' = index + 1 \/ index' = index
    BY <1>1, Zenon
  <2>2. files' = files
    BY <1>1
  <2> QED
    BY <1>2, <2>1, <2>2
<1>8. index' >= FirstIndex' /\ \A j \in FirstIndex'..index' - 1 : Full(j)'
  <2>1. CASE MustRotate(Len(files[index])) /\ index' = index + 1
    <3>1. Full(index)
      BY <1>2, <2>1 DEF Full
    <3>2. \A j \in FirstIndex..index : Full(j)
      BY <1>2, <1>6, <3>1
    <3> QED
      BY <1>2, <1>4, <1>5, <1>6, <2>1, <3>2
  <2>2. CASE index' = index
    BY <1>4, <1>5, <1>6, <2>2
  <2> QED
    BY <1>1, <2>1, <2>2
<1>9. index' \in DOMAIN files' =>
        \A k \in RotationSize + 1..Len(files'[index']) : files'[index'][k].run < run'
  <2>1. CASE index' = index + 1
    BY <1>1, <1>2, <2>1
  <2>2. CASE ~MustRotate(Len(files[index])) /\ index' = index
    <3>1. Len(files[index]) \in Nat /\ Len(files[index]) <= RotationSize
      BY <1>2, <2>2, LenProperties DEF MustRotate
    <3>2. RotationSize + 1..Len(files[index]) = {}
      BY <1>2, <3>1
    <3> QED
      BY <1>1, <2>2, <3>2
  <2> QED
    BY <1>1, <2>1, <2>2
<1>10. FileInv'
  BY <1>4, <1>5, <1>6, <1>7, <1>8, <1>9 DEF FileInv
<1>11. ChainInv'
  <2>1. Chain' = Chain /\ \A l \in Loggers : Written(l)' = Written(l)
    BY <1>1, <1>4 DEF Chain, Written
  <2> QED
    BY <1>1, <1>2, <2>1, ChainKept
<1> QED
  BY <1>3, <1>4, <1>10, <1>11 DEF Good, IInv

-----------------------------------------------------------------------------
(* The theorems.                                                           *)

LEMMA StepGood ==
  ASSUME IInv, [Next]_vars
  PROVE  Good
<1>1. CASE UNCHANGED vars
  BY <1>1, StartGood
<1>2. CASE Next
  <2>1. CASE Launch
    BY <2>1, LaunchGood
  <2>2. CASE StartReader
    BY <2>2, StartGood
  <2>3. CASE MakeFile
    BY <2>3, MakeFileGood
  <2>4. ASSUME NEW l \in Loggers, LogMessage(l)
        PROVE  Good
    BY <2>4, LogGood
  <2>5. ASSUME NEW l \in Loggers, WriteToPipe(l)
        PROVE  Good
    BY <2>5, PipeGood
  <2>6. CASE ReadFromPipe
    BY <2>6, ReadGood
  <2>7. CASE WriteToFile
    BY <2>7, FileGood
  <2>8. CASE End
    BY <2>8, EndGood
  <2>9. CASE GetFile
    BY <2>9, GetFileGood
  <2>10. CASE Rotate
    BY <2>10, RotateGood
  <2> QED
    BY <1>2, <2>1, <2>2, <2>3, <2>4, <2>5, <2>6, <2>7, <2>8, <2>9, <2>10 DEF Next
<1> QED
  BY <1>1, <1>2

LEMMA InitGood ==
  ASSUME Init
  PROVE  IInv /\ Journal!Init
<1>1. /\ stage = "down" /\ run = 0 /\ blocked = {} /\ pipe = <<>> /\ hand = <<>>
      /\ files = <<>> /\ index = 0 /\ open = FALSE /\ written = FALSE
      /\ logged = [l \in Loggers |-> 0]
      /\ format \in Formats /\ others \in Directories
  BY DEF Init
<1>2. DOMAIN files = {} /\ Len(<<>>) = 0 /\ <<>> \in Seq(Messages)
  BY <1>1, EmptySeq
<1>3. TypeOK
  <2>1. PipeFrames \in Nat /\ MaxRuns \in Nat /\ MaxMessages \in Nat
    BY LogAssumption
  <2>2. run \in 0..MaxRuns /\ logged \in [Loggers -> 0..MaxMessages]
    BY <1>1, <2>1
  <2>3. pipe \in Seq(Messages) /\ Len(pipe) <= PipeFrames /\ hand \in Seq(Messages) /\ Len(hand) <= 1
    BY <1>1, <1>2, <2>1
  <2> QED
    BY <1>1, <1>2, <2>2, <2>3 DEF TypeOK
<1>4. RunInv
  BY <1>1, <1>2 DEF RunInv
<1>5. FileInv
  BY <1>1, <1>2 DEF FileInv, OnlyLastHasRoom, OneOver, Aged
<1>6. Lines = <<>>
  BY <1>2, <1>3, NoFiles
<1>7. Chain = <<>>
  <2>1. <<>> \o <<>> = <<>>
    BY <1>2, ConcatEmptySeq
  <2> QED
    BY <1>1, <1>6, <2>1 DEF Chain
<1>8. ChainInv
  BY <1>1, <1>2, <1>7, NothingLostIs DEF ChainInv, InOrder
<1> QED
  BY <1>3, <1>4, <1>5, <1>6, <1>8 DEF IInv, Journal!Init

LEMMA Invariance == Spec => []IInv
<1>1. Init => IInv
  BY InitGood
<1>2. IInv /\ [Next]_vars => IInv'
  BY StepGood DEF Good
<1> QED
  BY <1>1, <1>2, PTL DEF Spec

\* Every variable keeps its type: whatever the threads, the kernel and the
\* restarts do, the pipe holds no more frames than it can, the reader has at
\* most one message in its hand and none between write and rotate, and the file
\* that getFile has opened is the current one until rotate has closed it.
THEOREM TypeCorrect == Spec => []TypeOK
<1>1. IInv => TypeOK
  BY DEF IInv
<1> QED
  BY <1>1, Invariance, PTL

\* operator+=, Pipe::write and readFromPipe lose and repeat nothing and keep
\* each thread's order, for any number of threads and any size of the pipe; and
\* the reader, which LogProcessor::init starts before it makes file_, has no
\* message in its hand until file_ is there.
THEOREM NothingIsLost == Spec => []NothingLost
<1>1. IInv => NothingLost
  BY DEF IInv, ChainInv
<1> QED
  BY <1>1, Invariance, PTL

\* writeToFile and init fill the files one after the other for any rotation
\* size and any number of runs: getLastFileIndex reads the indexes off the
\* names the log has made itself, begins where another program's file says if
\* it must, leaves no gap, and overfills a file by one message in a run.
THEOREM FilesFillInTurn == Spec => []FilesInTurn
<1>1. IInv => FilesInTurn
  <2> SUFFICES ASSUME IInv PROVE FilesInTurn
    OBVIOUS
  <2>1. \A i \in DOMAIN files : ~PassedOver(FileName(i)) /\ IndexText(FileName(i)) = <<i>>
    BY OwnName DEF IInv, TypeOK
  <2> QED
    BY <2>1 DEF IInv, FileInv, FilesInTurn
<1> QED
  BY <1>1, Invariance, PTL

\* The files together are a journal: a step of the program, a crash or a
\* restart adds one message at the end of the last file or changes nothing,
\* and what it adds comes after all that its thread has logged before.
THEOREM ImplementsJournal == Spec => JournalSpec
<1>1. Init => Journal!Init
  BY InitGood
<1>2. IInv /\ [Next]_vars => [Journal!Next]_Lines
  BY StepGood DEF Good
<1>3. Spec => []IInv
  BY Invariance
<1> QED
  BY <1>1, <1>2, <1>3, PTL DEF Spec, JournalSpec, Journal!Spec

\* Nothing is logged with a format that lacks a placeholder.
FormatInv ==
  blocked # {} \/ pipe # <<>> \/ hand # <<>> \/ DOMAIN files # {} => ~FormatThrows(format)

LEMMA FormatInvariance == Spec => []FormatInv
<1>1. Init => FormatInv
  BY DEF Init, FormatInv
<1>2. IInv /\ FormatInv /\ [Next]_vars => FormatInv'
  <2> SUFFICES ASSUME IInv, FormatInv, [Next]_vars PROVE FormatInv'
    OBVIOUS
  <2>1. CASE End
    BY <2>1 DEF End, FormatInv
  <2>2. CASE Launch
    BY <2>2 DEF Launch, FormatInv
  <2>3. CASE StartReader
    BY <2>3 DEF StartReader, FormatInv
  <2>4. CASE MakeFile
    BY <2>1, <2>4 DEF MakeFile, FormatInv
  <2>5. ASSUME NEW l \in Loggers, LogMessage(l)
        PROVE  FormatInv'
    BY <2>1, <2>5 DEF LogMessage, FormatInv
  <2>6. ASSUME NEW l \in Loggers, WriteToPipe(l)
        PROVE  FormatInv'
    BY <2>6 DEF WriteToPipe, FormatInv
  <2>7. CASE ReadFromPipe
    BY <2>7 DEF ReadFromPipe, FormatInv
  <2>8. CASE WriteToFile
    <3>1. hand # <<>> /\ format' = format
      BY <2>8 DEF WriteToFile
    <3> QED
      BY <3>1 DEF FormatInv
  <2>9. CASE GetFile
    <3>1. hand # <<>> /\ format' = format
      BY <2>9 DEF GetFile
    <3> QED
      BY <3>1 DEF FormatInv
  <2>10. CASE Rotate
    BY <2>10 DEF Rotate, FormatInv
  <2>11. CASE UNCHANGED vars
    BY <2>11 DEF vars, FormatInv
  <2> QED
    BY <2>1, <2>2, <2>3, <2>4, <2>5, <2>6, <2>7, <2>8, <2>9, <2>10, <2>11 DEF Next
<1> QED
  BY <1>1, <1>2, Invariance, PTL DEF Spec

\* formatMessage, Pipe::write and Pipe::read bring a message that fits into a
\* frame to its file as what the format means, for every format and every
\* text: a text that looks like a placeholder is safe because it goes in last.
\* Of any other they leave a proper beginning.
THEOREM LinesAreTold == Spec => []LinesTold
<1>1. IInv /\ FormatInv => LinesTold
  <2> SUFFICES ASSUME IInv, FormatInv, NEW i \in 1..Len(Lines)
               PROVE  Told(Texts[Lines[i].by][Lines[i].n], Frame(Lines[i]))
    BY DEF LinesTold
  <2>1. Lines \in Seq(Messages)
    BY ChainTyped DEF IInv, FileInv
  <2>2. Lines[i] \in Messages
    BY <2>1, ElementOfSeq
  <2>3. Texts[Lines[i].by][Lines[i].n] \in Seq(Characters) /\ format \in Seq(Characters)
    <3>1. Lines[i].by \in Loggers /\ Lines[i].n \in 1..MaxMessages
      BY <2>2 DEF Messages
    <3> QED
      BY <3>1, LogAssumption DEF IInv, TypeOK
  <2>4. ~FormatThrows(format)
    <3>1. Lines # <<>>
      <4>1. Len(<<>>) = 0
        BY EmptySeq
      <4> QED
        BY <4>1
    <3>2. DOMAIN files # {}
      BY <3>1, NoFiles DEF IInv
    <3> QED
      BY <3>2 DEF FormatInv
  <2> QED
    BY <2>3, <2>4, LineTold DEF Frame
<1> QED
  BY <1>1, Invariance, FormatInvariance, PTL

=============================================================================
