------------------------------ MODULE LinkProofs ------------------------------
(***************************************************************************)
(* Proofs about Link and about Framing, on which Link relies for the       *)
(* messages that one end reads to be those the other has written; for      *)
(* every value of their constants.                                         *)
(***************************************************************************)
EXTENDS Link, Framing, SequenceTheorems, WellFoundedInduction, TLAPS

-----------------------------------------------------------------------------
(* Induction over the naturals.                                            *)

\* A non-empty set of naturals has a least member.
LEMMA LeastMember ==
  ASSUME NEW T, T \subseteq Nat, T # {}
  PROVE  \E x \in T : \A y \in T : x <= y
<1> DEFINE Less == {ss \in Nat \X Nat : ss[1] < ss[2]}
<1>1. IsWellFoundedOn(Less, Nat)
  BY NatLessThanWellFounded DEF OpToRel
<1> HIDE DEF Less
<1>2. PICK x \in T : \A y \in T : ~(<<y, x>> \in Less)
  BY <1>1, WFMin
<1>3. \A y \in T : ~(y < x)
  BY <1>2 DEF Less
<1> QED
  BY <1>3

\* A set of naturals that holds 0, and n + 1 with n, holds every one.
LEMMA Induction ==
  ASSUME NEW T, 0 \in T, \A n \in Nat : n \in T => n + 1 \in T
  PROVE  \A n \in Nat : n \in T
<1> SUFFICES ASSUME Nat \ T # {} PROVE FALSE
  OBVIOUS
<1>1. PICK x \in Nat \ T : \A y \in Nat \ T : x <= y
  BY LeastMember
<1>2. x - 1 \in Nat /\ x - 1 \notin Nat \ T
  BY <1>1
<1> QED
  BY <1>1, <1>2

\* A set of naturals that holds n if it holds all below n, holds every one.
LEMMA StrongInduction ==
  ASSUME NEW T, \A n \in Nat : (\A k \in 0..n - 1 : k \in T) => n \in T
  PROVE  \A n \in Nat : n \in T
<1> SUFFICES ASSUME Nat \ T # {} PROVE FALSE
  OBVIOUS
<1>1. PICK x \in Nat \ T : \A y \in Nat \ T : x <= y
  BY LeastMember
<1>2. \A k \in 0..x - 1 : k \in T
  BY <1>1
<1> QED
  BY <1>1, <1>2

-----------------------------------------------------------------------------
(* Numerals.                                                               *)

\* What FramingAssumption says of the numbers.
LEMMA BaseIs == Base \in Nat /\ Base > 1 /\ HEADER_SIZE \in Nat /\ HEADER_SIZE > 0
BY FramingAssumption

\* The last digit of a number, and what it is without it.
LEMMA Division ==
  ASSUME NEW n \in Nat
  PROVE  /\ n \div Base \in Nat /\ n % Base \in Digits
         /\ n = Base * (n \div Base) + (n % Base)
         /\ n >= Base => n \div Base < n
BY BaseIs DEF Digits

\* A header with one more place has more numbers.
LEMMA Multiple ==
  ASSUME NEW n \in Nat \ {0}
  PROVE  Base * n \in Nat \ {0}
<1>1. Base * n \in Int /\ Base * n > 0
  BY BaseIs
<1> QED
  BY <1>1

\* A function by recursion: the n-th step makes its value at n of the one
\* before.
Recurs(f, m, a, step) == f[0] = a /\ \A i \in 1..m : f[i] = step[i][f[i - 1]]

\* There is such a function, for every step and every number of steps.
LEMMA Recursion ==
  ASSUME NEW E, NEW a \in E, NEW step \in [Nat -> [E -> E]]
  PROVE  \A m \in Nat : \E f \in [0..m -> E] : Recurs(f, m, a, step)
<1> DEFINE Solves(f, m) == Recurs(f, m, a, step)
           T == {m \in Nat : \E f \in [0..m -> E] : Solves(f, m)}
<1>1. 0 \in T
  <2> DEFINE f == [i \in 0..0 |-> a]
  <2>1. f \in [0..0 -> E] /\ Solves(f, 0)
    BY DEF Recurs
  <2> QED
    BY <2>1
<1>2. ASSUME NEW m \in Nat, m \in T PROVE m + 1 \in T
  <2>1. PICK f \in [0..m -> E] : Solves(f, m)
    BY <1>2
  <2> DEFINE g == [i \in 0..m + 1 |-> IF i = m + 1 THEN step[m + 1][f[m]] ELSE f[i]]
  <2>2. f[m] \in E /\ m + 1 \in Nat /\ step[m + 1] \in [E -> E]
    OBVIOUS
  <2>3. step[m + 1][f[m]] \in E
    BY <2>2
  <2>4. g \in [0..m + 1 -> E]
    BY <2>3
  <2>5. g[m + 1] = step[m + 1][f[m]] /\ \A i \in 0..m : g[i] = f[i]
    OBVIOUS
  <2>6. Solves(g, m + 1)
    <3>1. g[0] = a
      BY <2>1, <2>5 DEF Recurs
    <3>2. ASSUME NEW i \in 1..m + 1 PROVE g[i] = step[i][g[i - 1]]
      <4> HIDE DEF g
      <4>1. CASE i = m + 1
        BY <2>5, <4>1
      <4>2. CASE i # m + 1
        BY <2>1, <2>5, <4>2 DEF Recurs
      <4> QED
        BY <4>1, <4>2
    <3> QED
      BY <3>1, <3>2 DEF Recurs
  <2> HIDE DEF g
  <2> QED
    BY <2>4, <2>6
<1>3. \A m \in Nat : m \in T
  <2> HIDE DEF T
  <2> QED
    BY <1>1, <1>2, Induction
<1> QED
  BY <1>3

\* What MAX_BODY_SIZE computes on the way: how many headers there are of each
\* length.
Headers(f) ==
  /\ f \in [0..HEADER_SIZE -> Nat \ {0}] /\ f[0] = 1
  /\ \A k \in 1..HEADER_SIZE : f[k] = Base * f[k - 1]

\* So the longest body is the greatest number of HEADER_SIZE digits.
LEMMA MaxIs ==
  \E f : Headers(f) /\ MAX_BODY_SIZE = f[HEADER_SIZE] - 1
<1> DEFINE Is(f) == f = [k \in 0..HEADER_SIZE |-> IF k = 0 THEN 1 ELSE Base * f[k - 1]]
           step == [k \in Nat |-> [v \in Nat \ {0} |-> Base * v]]
           h == CHOOSE f : Is(f)
<1>1. \E f : Is(f)
  <2>1. step \in [Nat -> [Nat \ {0} -> Nat \ {0}]]
    BY Multiple
  <2>2. PICK f \in [0..HEADER_SIZE -> Nat \ {0}] :
          f[0] = 1 /\ \A k \in 1..HEADER_SIZE : f[k] = step[k][f[k - 1]]
    <3> DEFINE Positive == Nat \ {0}
    <3>1. 1 \in Positive /\ step \in [Nat -> [Positive -> Positive]]
      BY <2>1
    <3> HIDE DEF step, Positive
    <3>2. \A m \in Nat : \E f \in [0..m -> Positive] : Recurs(f, m, 1, step)
      BY <3>1, Recursion
    <3> QED
      BY <3>2, BaseIs DEF Positive, Recurs
  <2>3. ASSUME NEW k \in 1..HEADER_SIZE PROVE f[k] = Base * f[k - 1]
    <3>1. k \in Nat /\ k - 1 \in 0..HEADER_SIZE
      BY BaseIs
    <3>2. f[k - 1] \in Nat \ {0}
      BY <2>2, <3>1
    <3>3. step[k] = [v \in Nat \ {0} |-> Base * v]
      BY <3>1
    <3> QED
      BY <2>2, <3>2, <3>3
  <2>4. Is(f)
    BY <2>2, <2>3, BaseIs
  <2> QED
    BY <2>4
<1>2. Is(h)
  BY <1>1
<1>3. MAX_BODY_SIZE = h[HEADER_SIZE] - 1
  BY DEF MAX_BODY_SIZE
<1> HIDE DEF h
<1>4. /\ h[0] = 1 /\ \A k \in 1..HEADER_SIZE : h[k] = Base * h[k - 1]
      /\ h = [k \in 0..HEADER_SIZE |-> h[k]]
  BY <1>2, BaseIs
<1> DEFINE T == {k \in Nat : k <= HEADER_SIZE => h[k] \in Nat \ {0}}
<1>5. 0 \in T
  BY <1>4
<1>6. ASSUME NEW k \in Nat, k \in T PROVE k + 1 \in T
  <2> SUFFICES ASSUME k + 1 <= HEADER_SIZE PROVE h[k + 1] \in Nat \ {0}
    OBVIOUS
  <2>1. k + 1 \in 1..HEADER_SIZE /\ (k + 1) - 1 = k /\ h[k] \in Nat \ {0}
    BY <1>6, BaseIs
  <2>2. h[k + 1] = Base * h[k]
    BY <1>4, <2>1
  <2> QED
    BY <2>1, <2>2, Multiple
<1>7. \A k \in Nat : k \in T
  <2> HIDE DEF T
  <2> QED
    BY <1>5, <1>6, Induction
<1>8. Headers(h)
  <2>1. ASSUME NEW k \in 0..HEADER_SIZE PROVE h[k] \in Nat \ {0}
    BY <1>7, BaseIs
  <2> QED
    BY <1>4, <2>1 DEF Headers
<1> QED
  BY <1>3, <1>8

\* The greatest number a header holds is one.
LEMMA MaxNat == MAX_BODY_SIZE \in Nat
<1>1. PICK f : Headers(f) /\ MAX_BODY_SIZE = f[HEADER_SIZE] - 1
  BY MaxIs
<1>2. HEADER_SIZE \in 0..HEADER_SIZE
  BY BaseIs
<1>3. f[HEADER_SIZE] \in Nat \ {0}
  BY <1>1, <1>2 DEF Headers
<1> QED
  BY <1>1, <1>3

\* What Value computes on the way.
Values(f, s) ==
  /\ f \in [0..Len(s) -> Nat] /\ f[0] = 0
  /\ \A i \in 1..Len(s) : f[i] = Base * f[i - 1] + s[i]

\* Value is what its recursion ends with.
LEMMA ValueIs ==
  ASSUME NEW s \in Seq(Digits)
  PROVE  \E f : Values(f, s) /\ Value(s) = f[Len(s)]
<1> DEFINE Is(f) == f = [i \in 0..Len(s) |-> IF i = 0 THEN 0 ELSE Base * f[i - 1] + s[i]]
           digit == [i \in Nat |-> IF i \in 1..Len(s) THEN s[i] ELSE 0]
           step == [i \in Nat |-> [v \in Nat |-> Base * v + digit[i]]]
           h == CHOOSE f : Is(f)
<1>0. Len(s) \in Nat /\ \A i \in 1..Len(s) : s[i] \in Nat
  <2>1. \A i \in 1..Len(s) : s[i] \in Digits
    BY ElementOfSeq
  <2> QED
    BY <2>1, BaseIs DEF Digits
<1>a. ASSUME NEW v \in Nat, NEW d \in Nat PROVE Base * v + d \in Nat
  <2>1. Base * v \in Nat
    BY BaseIs
  <2> QED
    BY <2>1
<1>1. \E f : Is(f)
  <2>1. digit \in [Nat -> Nat]
    BY <1>0
  <2>2. step \in [Nat -> [Nat -> Nat]]
    <3> HIDE DEF digit
    <3> QED
      BY <1>a, <2>1
  <2>3. PICK f \in [0..Len(s) -> Nat] : Recurs(f, Len(s), 0, step)
    <3> HIDE DEF step
    <3>1. \A m \in Nat : \E f \in [0..m -> Nat] : Recurs(f, m, 0, step)
      BY <2>2, Recursion
    <3> QED
      BY <1>0, <3>1
  <2>4. ASSUME NEW i \in 1..Len(s) PROVE f[i] = Base * f[i - 1] + s[i]
    <3>1. i \in Nat /\ i - 1 \in 0..Len(s)
      BY <1>0
    <3>2. f[i - 1] \in Nat
      BY <2>3, <3>1
    <3>3. step[i][f[i - 1]] = Base * f[i - 1] + digit[i]
      BY <3>1, <3>2
    <3>4. digit[i] = s[i]
      BY <3>1
    <3> QED
      BY <2>3, <3>3, <3>4 DEF Recurs
  <2>5. f[0] = 0
    BY <2>3 DEF Recurs
  <2>6. Is(f)
    BY <1>0, <2>3, <2>4, <2>5
  <2> QED
    BY <2>6
<1>2. Is(h)
  BY <1>1
<1>3. Value(s) = h[Len(s)]
  BY DEF Value
<1> HIDE DEF h
<1>4. /\ h[0] = 0 /\ \A i \in 1..Len(s) : h[i] = Base * h[i - 1] + s[i]
      /\ h = [i \in 0..Len(s) |-> h[i]]
  BY <1>0, <1>2
<1> DEFINE T == {i \in Nat : i <= Len(s) => h[i] \in Nat}
<1>5. 0 \in T
  BY <1>4
<1>6. ASSUME NEW i \in Nat, i \in T PROVE i + 1 \in T
  <2> SUFFICES ASSUME i + 1 <= Len(s) PROVE h[i + 1] \in Nat
    OBVIOUS
  <2>1. i + 1 \in 1..Len(s) /\ (i + 1) - 1 = i /\ h[i] \in Nat
    BY <1>0, <1>6
  <2>2. h[i + 1] = Base * h[i] + s[i + 1] /\ s[i + 1] \in Nat
    BY <1>0, <1>4, <2>1
  <2> QED
    BY <1>a, <2>1, <2>2
<1>7. \A i \in Nat : i \in T
  <2> HIDE DEF T
  <2> QED
    BY <1>5, <1>6, Induction
<1>8. Values(h, s)
  <2>1. ASSUME NEW i \in 0..Len(s) PROVE h[i] \in Nat
    BY <1>0, <1>7
  <2> QED
    BY <1>4, <2>1 DEF Values
<1> QED
  BY <1>3, <1>8

\* Digits are a number.
LEMMA ValueNat ==
  ASSUME NEW s \in Seq(Digits)
  PROVE  Value(s) \in Nat
<1>1. PICK f : Values(f, s) /\ Value(s) = f[Len(s)]
  BY ValueIs
<1>2. Len(s) \in 0..Len(s)
  OBVIOUS
<1> QED
  BY <1>1, <1>2 DEF Values

\* One digit more.
LEMMA ValueAppend ==
  ASSUME NEW s \in Seq(Digits), NEW d \in Digits
  PROVE  Value(Append(s, d)) = Base * Value(s) + d
<1> DEFINE t == Append(s, d)
<1>1. /\ t \in Seq(Digits) /\ Len(t) = Len(s) + 1 /\ Len(s) \in Nat
      /\ t[Len(s) + 1] = d /\ \A i \in 1..Len(s) : t[i] = s[i]
  BY AppendProperties
<1> HIDE DEF t
<1>2. PICK f : Values(f, s) /\ Value(s) = f[Len(s)]
  BY ValueIs
<1>3. PICK g : Values(g, t) /\ Value(t) = g[Len(t)]
  BY <1>1, ValueIs
<1> DEFINE T == {i \in Nat : i <= Len(s) => f[i] = g[i]}
<1>4. 0 \in T
  BY <1>2, <1>3 DEF Values
<1>5. ASSUME NEW i \in Nat, i \in T PROVE i + 1 \in T
  <2> SUFFICES ASSUME i + 1 <= Len(s) PROVE f[i + 1] = g[i + 1]
    OBVIOUS
  <2>1. i + 1 \in 1..Len(s) /\ i + 1 \in 1..Len(t) /\ (i + 1) - 1 = i
    BY <1>1
  <2>2. f[i] = g[i] /\ s[i + 1] = t[i + 1]
    BY <1>1, <1>5, <2>1
  <2>3. f[i + 1] = Base * f[i] + s[i + 1] /\ g[i + 1] = Base * g[i] + t[i + 1]
    BY <1>2, <1>3, <2>1 DEF Values
  <2> QED
    BY <2>2, <2>3
<1>6. \A i \in Nat : i \in T
  <2> HIDE DEF T
  <2> QED
    BY <1>4, <1>5, Induction
<1>7. f[Len(s)] = g[Len(s)]
  BY <1>1, <1>6
<1>8. g[Len(t)] = Base * g[Len(s)] + d
  <2>1. Len(t) \in 1..Len(t) /\ Len(t) - 1 = Len(s) /\ t[Len(t)] = d
    BY <1>1
  <2> QED
    BY <1>3, <2>1 DEF Values
<1> QED
  BY <1>2, <1>3, <1>7, <1>8 DEF t

\* A single digit is its value.
LEMMA ValueOne ==
  ASSUME NEW d \in Digits
  PROVE  Value(<<d>>) = d
<1>1. <<>> \in Seq(Digits) /\ Len(<<>>) = 0 /\ Append(<<>>, d) = <<d>>
  OBVIOUS
<1>2. PICK f : Values(f, <<>>) /\ Value(<<>>) = f[Len(<<>>)]
  BY <1>1, ValueIs
<1>3. Value(<<>>) = 0
  BY <1>1, <1>2 DEF Values
<1>4. Value(Append(<<>>, d)) = Base * Value(<<>>) + d
  BY <1>1, ValueAppend
<1>5. Base * 0 = 0 /\ d \in Nat
  BY BaseIs DEF Digits
<1> QED
  BY <1>1, <1>3, <1>4, <1>5

\* What Numeral computes on the way.
Numerals(f, n) ==
  /\ f \in [0..n -> Seq(Digits)]
  /\ \A k \in 0..n :
       f[k] = IF k < Base THEN <<k>> ELSE Append(f[k \div Base], k % Base)

\* The recursion of Numeral, which divides, ends for every number.
LEMMA NumeralsExist == \A n \in Nat : \E f : Numerals(f, n)
<1> DEFINE T == {n \in Nat : \E f : Numerals(f, n)}
<1>1. 0 \in T
  <2> DEFINE f == [k \in 0..0 |-> <<k>>]
  <2>1. 0 \in Digits /\ 0 < Base
    BY BaseIs DEF Digits
  <2>2. Numerals(f, 0)
    BY <2>1 DEF Numerals
  <2> QED
    BY <2>2
<1>2. ASSUME NEW n \in Nat, n \in T PROVE n + 1 \in T
  <2>1. PICK f : Numerals(f, n)
    BY <1>2
  <2> DEFINE m == n + 1
             last == IF m < Base THEN <<m>> ELSE Append(f[m \div Base], m % Base)
             g == [k \in 0..m |-> IF k = m THEN last ELSE f[k]]
  <2>2. m \in Nat /\ m \notin 0..n /\ \A k \in 0..m : k # m => k \in 0..n
    OBVIOUS
  <2> HIDE DEF m
  <2>3. last \in Seq(Digits)
    <3>1. CASE m < Base
      BY <2>2, <3>1, BaseIs DEF Digits
    <3>2. CASE ~(m < Base)
      <4>1. m \div Base \in Nat /\ m \div Base < m /\ m % Base \in Digits
        BY <2>2, <3>2, BaseIs, Division
      <4>2. m \div Base \in 0..n
        BY <4>1 DEF m
      <4>3. f[m \div Base] \in Seq(Digits)
        BY <2>1, <4>2 DEF Numerals
      <4> QED
        BY <3>2, <4>1, <4>3, AppendProperties
    <3> QED
      BY <3>1, <3>2
  <2>4. /\ g \in [0..m -> Seq(Digits)] /\ g[m] = last
        /\ \A k \in 0..n : g[k] = f[k]
    <3> HIDE DEF last
    <3>1. \A k \in 0..n : k \in 0..m /\ k # m
      BY <2>2 DEF m
    <3>2. m \in 0..m
      BY <2>2
    <3>3. ASSUME NEW k \in 0..m PROVE g[k] \in Seq(Digits)
      BY <2>1, <2>2, <2>3 DEF Numerals
    <3> QED
      BY <3>1, <3>2, <3>3
  <2>5. ASSUME NEW k \in 0..m
        PROVE  g[k] = IF k < Base THEN <<k>> ELSE Append(g[k \div Base], k % Base)
    <3>1. CASE k < Base
      <4>1. CASE k = m
        BY <2>4, <3>1, <4>1
      <4>2. CASE k # m
        BY <2>1, <2>2, <2>4, <3>1, <4>2 DEF Numerals
      <4> QED
        BY <4>1, <4>2
    <3>2. CASE ~(k < Base)
      <4>1. k \div Base \in Nat /\ k \div Base < k
        BY <2>2, <3>2, BaseIs, Division
      <4>2. k \div Base \in 0..n
        BY <2>2, <4>1 DEF m
      <4>3. g[k \div Base] = f[k \div Base]
        BY <2>4, <4>2
      <4> HIDE DEF g
      <4>4. CASE k = m
        BY <2>4, <3>2, <4>3, <4>4
      <4>5. CASE k # m
        BY <2>1, <2>2, <2>4, <3>2, <4>3, <4>5 DEF Numerals
      <4> QED
        BY <4>4, <4>5
    <3> QED
      BY <3>1, <3>2
  <2> HIDE DEF g
  <2>6. Numerals(g, m)
    BY <2>4, <2>5 DEF Numerals
  <2> QED
    BY <2>6 DEF m
<1>3. \A n \in Nat : n \in T
  <2> HIDE DEF T
  <2> QED
    BY <1>1, <1>2, Induction
<1> QED
  BY <1>3

\* The numeral of n: its digits mean n, and it is no longer than needed.
LEMMA NumeralIs ==
  ASSUME NEW n \in Nat
  PROVE  /\ Numeral(n) \in Seq(Digits) /\ Numeral(n) # <<>>
         /\ Value(Numeral(n)) = n
         /\ n <= MAX_BODY_SIZE => Len(Numeral(n)) <= HEADER_SIZE
<1> DEFINE Is(f) == f = [k \in 0..n |->
              IF k < Base THEN <<k>> ELSE Append(f[k \div Base], k % Base)]
           f == CHOOSE f : Is(f)
<1>1. \E g : Is(g)
  <2>1. PICK g : Numerals(g, n)
    BY NumeralsExist
  <2> QED
    BY <2>1, Zenon DEF Numerals
<1>2. Is(f)
  BY <1>1, Zenon
<1>3. Numeral(n) = f[n]
  BY DEF Numeral
<1> HIDE DEF f
<1>4. \A k \in 0..n : f[k] = IF k < Base THEN <<k>> ELSE Append(f[k \div Base], k % Base)
  BY <1>2
<1>5. PICK h : Headers(h) /\ MAX_BODY_SIZE = h[HEADER_SIZE] - 1
  BY MaxIs
<1>6. /\ \A j \in 0..HEADER_SIZE : h[j] \in Nat
      /\ \A j \in 1..HEADER_SIZE : h[j] = Base * h[j - 1]
      /\ h[0] = 1
  BY <1>5 DEF Headers
<1> DEFINE Good(k) == /\ f[k] \in Seq(Digits) /\ f[k] # <<>> /\ Value(f[k]) = k
                      /\ \A j \in 1..HEADER_SIZE : k < h[j] => Len(f[k]) <= j
           T == {k \in Nat : k <= n => Good(k)}
<1>7. ASSUME NEW k \in Nat, \A i \in 0..k - 1 : i \in T PROVE k \in T
  <2> SUFFICES ASSUME k <= n PROVE Good(k)
    OBVIOUS
  <2>0. f[k] = IF k < Base THEN <<k>> ELSE Append(f[k \div Base], k % Base)
    <3>1. k \in 0..n
      OBVIOUS
    <3> QED
      BY <1>4, <3>1
  <2>1. CASE k < Base
    <3>1. f[k] = <<k>> /\ k \in Digits
      BY <2>0, <2>1, BaseIs DEF Digits
    <3>2. Value(f[k]) = k
      BY <3>1, ValueOne
    <3> QED
      BY <3>1, <3>2
  <2>2. CASE ~(k < Base)
    <3> DEFINE q == k \div Base
               r == k % Base
    <3>1. q \in Nat /\ q < k /\ r \in Digits /\ k = Base * q + r
      BY <2>2, BaseIs, Division
    <3>2. f[k] = Append(f[q], r)
      BY <2>0, <2>2
    <3> HIDE DEF q, r
    <3>3. Good(q)
      BY <1>7, <3>1
    <3>4. Value(f[k]) = k
      BY <3>1, <3>2, <3>3, ValueAppend
    <3>5. f[k] \in Seq(Digits) /\ f[k] # <<>> /\ Len(f[k]) = Len(f[q]) + 1
      BY <3>1, <3>2, <3>3, AppendProperties
    <3>6. ASSUME NEW j \in 1..HEADER_SIZE, k < h[j] PROVE Len(f[k]) <= j
      <4>1. r \in Nat /\ r < Base /\ j - 1 \in 0..HEADER_SIZE
        BY <3>1, BaseIs DEF Digits
      <4>2. Base * q < Base * h[j - 1] /\ h[j - 1] \in Nat
        BY <1>6, <3>1, <3>6, <4>1, BaseIs
      <4>3. q < h[j - 1]
        BY <3>1, <4>2, BaseIs
      <4>4. j # 1
        <5>1. ASSUME j = 1 PROVE FALSE
          <6>1. q < 1
            BY <1>6, <4>3, <5>1
          <6>2. q = 0
            BY <3>1, <6>1
          <6>3. Base * 0 = 0
            BY BaseIs
          <6> QED
            BY <2>2, <3>1, <4>1, <6>2, <6>3, BaseIs
        <5> QED
          BY <5>1
      <4>5. j - 1 \in 1..HEADER_SIZE
        BY <4>4, BaseIs
      <4>6. Len(f[q]) <= j - 1
        BY <3>3, <4>3, <4>5
      <4> QED
        BY <3>3, <3>5, <4>6, LenProperties
    <3> QED
      BY <3>4, <3>5, <3>6
  <2> QED
    BY <2>1, <2>2
<1>8. n \in T
  <2> HIDE DEF T
  <2>1. \A k \in Nat : k \in T
    BY <1>7, StrongInduction
  <2> QED
    BY <2>1
<1>9. n <= MAX_BODY_SIZE => n < h[HEADER_SIZE] /\ HEADER_SIZE \in 1..HEADER_SIZE
  <2>1. HEADER_SIZE \in 0..HEADER_SIZE /\ HEADER_SIZE \in 1..HEADER_SIZE
    BY BaseIs
  <2>2. h[HEADER_SIZE] \in Nat
    BY <1>6, <2>1
  <2> QED
    BY <1>5, <2>1, <2>2
<1> QED
  BY <1>3, <1>8, <1>9

-----------------------------------------------------------------------------
(* Characters.                                                             *)

\* Digits, blanks, signs, letters and the Nul are different characters.
LEMMA CharsAre ==
  /\ Chars \subseteq Int /\ Digits \subseteq Chars /\ Digits \subseteq Nat
  /\ {Nul, Space, Minus, Plus} \subseteq Chars /\ Letters \subseteq Chars
  /\ Nul \notin Digits /\ Space \notin Digits /\ Minus \notin Digits /\ Plus \notin Digits
  /\ Space # Nul /\ Nul \notin Letters
BY FramingAssumption DEF Chars, Digits, Nul, Space, Minus, Plus

\* What Span is to satisfy.
Spans(n, s, set) ==
  (\A i \in 1..n : s[i] \in set) /\ (n < Len(s) => s[n + 1] \notin set)

\* Span finds where the first run of characters of a set ends, and nothing else
\* does.
LEMMA SpanIs ==
  ASSUME NEW set, NEW E, NEW s \in Seq(E)
  PROVE  /\ Span(s, set) \in 0..Len(s) /\ Spans(Span(s, set), s, set)
         /\ \A n \in 0..Len(s) : Spans(n, s, set) => Span(s, set) = n
<1>0. Len(s) \in Nat
  OBVIOUS
<1>1. \E n \in 0..Len(s) : Spans(n, s, set)
  <2> DEFINE Out == {n \in Nat : n >= Len(s) \/ s[n + 1] \notin set}
  <2>1. Len(s) \in Out
    BY <1>0
  <2>2. PICK n \in Out : \A k \in Out : n <= k
    BY <2>1, LeastMember
  <2>3. n \in 0..Len(s)
    BY <1>0, <2>1, <2>2
  <2>4. ASSUME NEW i \in 1..n PROVE s[i] \in set
    <3>1. i - 1 \in Nat /\ ~(n <= i - 1) /\ (i - 1) + 1 = i
      BY <2>3
    <3>2. i - 1 \notin Out
      BY <2>2, <3>1
    <3> QED
      BY <3>1, <3>2
  <2>5. n < Len(s) => s[n + 1] \notin set
    BY <1>0, <2>2, <2>3
  <2> QED
    BY <2>3, <2>4, <2>5 DEF Spans
<1>2. Span(s, set) = CHOOSE n \in 0..Len(s) : Spans(n, s, set)
  BY DEF Span, Spans
<1>3. Span(s, set) \in 0..Len(s) /\ Spans(Span(s, set), s, set)
  BY <1>1, <1>2
<1>4. ASSUME NEW n \in 0..Len(s), NEW m \in 0..Len(s),
             Spans(n, s, set), Spans(m, s, set), n < m
      PROVE  FALSE
  <2>1. n + 1 \in 1..m /\ n < Len(s)
    BY <1>0, <1>4
  <2> QED
    BY <1>4, <2>1 DEF Spans
<1>5. ASSUME NEW n \in 0..Len(s), Spans(n, s, set) PROVE Span(s, set) = n
  <2>1. ~(n < Span(s, set)) /\ ~(Span(s, set) < n)
    BY <1>3, <1>4, <1>5
  <2> QED
    BY <1>0, <1>3, <2>1
<1> QED
  BY <1>3, <1>5

-----------------------------------------------------------------------------
(* Sequences, cut and joined; strings.                                     *)

\* A beginning and the rest of a sequence.
LEMMA Parts ==
  ASSUME NEW E, NEW s \in Seq(E), NEW n \in 0..Len(s)
  PROVE  /\ SubSeq(s, 1, n) \in Seq(E) /\ Len(SubSeq(s, 1, n)) = n
         /\ \A i \in 1..n : SubSeq(s, 1, n)[i] = s[i]
         /\ From(s, n) \in Seq(E) /\ Len(From(s, n)) = Len(s) - n
         /\ \A i \in 1..Len(s) - n : From(s, n)[i] = s[n + i]
<1>1. Len(s) \in Nat
  OBVIOUS
<1>2. /\ SubSeq(s, 1, n) \in Seq(E) /\ Len(SubSeq(s, 1, n)) = n
      /\ \A i \in 1..n : SubSeq(s, 1, n)[i] = s[i]
  BY <1>1, SubSeqProperties
<1>3. /\ SubSeq(s, n + 1, Len(s)) \in Seq(E) /\ Len(SubSeq(s, n + 1, Len(s))) = Len(s) - n
      /\ \A i \in 1..Len(s) - n : SubSeq(s, n + 1, Len(s))[i] = s[n + i]
  <2>1. n + 1 \in 1..Len(s) + 1 /\ Len(s) \in n..Len(s)
    BY <1>1
  <2>2. /\ SubSeq(s, n + 1, Len(s)) \in Seq(E)
        /\ Len(SubSeq(s, n + 1, Len(s))) = IF n + 1 <= Len(s) THEN Len(s) - (n + 1) + 1 ELSE 0
        /\ \A i \in 1..Len(s) - (n + 1) + 1 : SubSeq(s, n + 1, Len(s))[i] = s[n + 1 + i - 1]
    BY <1>1, <2>1, SubSeqProperties
  <2>3. Len(s) - (n + 1) + 1 = Len(s) - n
    BY <1>1
  <2>4. Len(SubSeq(s, n + 1, Len(s))) = Len(s) - n
    <3>1. CASE n + 1 <= Len(s)
      BY <2>2, <2>3, <3>1
    <3>2. CASE ~(n + 1 <= Len(s))
      <4>1. Len(s) - n = 0
        BY <1>1, <3>2
      <4> QED
        BY <2>2, <3>2, <4>1
    <3> QED
      BY <3>1, <3>2
  <2>5. ASSUME NEW i \in 1..Len(s) - n PROVE SubSeq(s, n + 1, Len(s))[i] = s[n + i]
    <3>1. n + 1 + i - 1 = n + i
      OBVIOUS
    <3> QED
      BY <2>2, <2>3, <3>1
  <2> QED
    BY <2>2, <2>4, <2>5
<1> QED
  BY <1>2, <1>3 DEF From

\* A sequence, cut where it was put together.
LEMMA Rejoined ==
  ASSUME NEW E, NEW a \in Seq(E), NEW b \in Seq(E)
  PROVE  /\ a \o b \in Seq(E) /\ Len(a \o b) = Len(a) + Len(b)
         /\ SubSeq(a \o b, 1, Len(a)) = a /\ From(a \o b, Len(a)) = b
<1> DEFINE s == a \o b
<1>1. /\ s \in Seq(E) /\ Len(s) = Len(a) + Len(b) /\ Len(a) \in Nat /\ Len(b) \in Nat
      /\ \A i \in 1..Len(a) : s[i] = a[i]
      /\ \A i \in 1..Len(b) : s[Len(a) + i] = b[i]
  BY ConcatProperties
<1> HIDE DEF s
<1>2. Len(a) \in 0..Len(s)
  BY <1>1
<1>3. SubSeq(s, 1, Len(a)) = a
  BY <1>1, <1>2, Parts, SeqEqual
<1>4. From(s, Len(a)) = b
  <2>1. From(s, Len(a)) \in Seq(E) /\ Len(From(s, Len(a))) = Len(b)
        /\ \A i \in 1..Len(b) : From(s, Len(a))[i] = s[Len(a) + i]
    <3>1. Len(s) - Len(a) = Len(b)
      BY <1>1
    <3>2. From(s, Len(a)) \in Seq(E) /\ Len(From(s, Len(a))) = Len(s) - Len(a)
          /\ \A i \in 1..Len(s) - Len(a) : From(s, Len(a))[i] = s[Len(a) + i]
      BY <1>1, <1>2, Parts
    <3> QED
      BY <3>1, <3>2
  <2> QED
    BY <1>1, <2>1, SeqEqual
<1> QED
  BY <1>1, <1>3, <1>4 DEF s

\* The whole of a sequence.
LEMMA WholeIs ==
  ASSUME NEW E, NEW s \in Seq(E)
  PROVE  SubSeq(s, 1, Len(s)) = s /\ From(s, 0) = s
<1>1. Len(s) \in 0..Len(s) /\ 0 \in 0..Len(s) /\ Len(s) - 0 = Len(s) /\ \A i \in 1..Len(s) : 0 + i = i
  OBVIOUS
<1> QED
  BY <1>1, Parts, SeqEqual

\* The C string in a buffer is what is before its first Nul.
LEMMA CStringIs ==
  ASSUME NEW s \in Seq(Chars)
  PROVE  /\ CString(s) \in Seq(Chars) /\ Len(CString(s)) \in 0..Len(s)
         /\ \A i \in 1..Len(CString(s)) : s[i] # Nul
         /\ Len(CString(s)) < Len(s) => s[Len(CString(s)) + 1] = Nul
         /\ (\A i \in 1..Len(s) : s[i] # Nul) => CString(s) = s
<1> DEFINE n == Span(s, Chars \ {Nul})
<1>1. n \in 0..Len(s) /\ Spans(n, s, Chars \ {Nul})
  BY SpanIs
<1> HIDE DEF n
<1>2. CString(s) \in Seq(Chars) /\ Len(CString(s)) = n
  BY <1>1, Parts DEF CString, n
<1>3. \A i \in 1..n : s[i] # Nul
  BY <1>1 DEF Spans
<1>4. n < Len(s) => s[n + 1] = Nul
  <2>1. n < Len(s) => s[n + 1] \in Chars
    BY <1>1, ElementOfSeq
  <2> QED
    BY <1>1, <2>1 DEF Spans
<1>5. ASSUME \A i \in 1..Len(s) : s[i] # Nul PROVE CString(s) = s
  <2>1. n = Len(s)
    BY <1>1, <1>4, <1>5
  <2> QED
    BY <2>1, WholeIs DEF CString, n
<1> QED
  BY <1>1, <1>2, <1>3, <1>4, <1>5

\* A character that is kept is the text's own, and so are those before it.
LEMMA StrncpyIs ==
  ASSUME NEW s \in Seq(Chars)
  PROVE  /\ Strncpy(s) \in Seq(Chars) /\ Len(Strncpy(s)) = Len(s)
         /\ \A i \in 1..Len(s) : (\A j \in 1..i : s[j] # Nul) => Strncpy(s)[i] = s[i]
         /\ \A i \in 1..Len(s) :
              Strncpy(s)[i] # Nul => Strncpy(s)[i] = s[i] /\ \A j \in 1..i : s[j] # Nul
<1>1. /\ Len(CString(s)) \in 0..Len(s) /\ \A i \in 1..Len(CString(s)) : s[i] # Nul
      /\ Len(CString(s)) < Len(s) => s[Len(CString(s)) + 1] = Nul
  BY CStringIs
<1>2. \A i \in 1..Len(s) : s[i] \in Chars /\ Nul \in Chars
  BY ElementOfSeq, CharsAre
<1>3. Strncpy(s) \in [1..Len(s) -> Chars] /\ Len(s) \in Nat
  BY <1>2 DEF Strncpy
<1>4. Strncpy(s) \in Seq(Chars) /\ Len(Strncpy(s)) = Len(s)
  BY <1>3, LenProperties
<1>5. ASSUME NEW i \in 1..Len(s), \A j \in 1..i : s[j] # Nul PROVE Strncpy(s)[i] = s[i]
  <2>1. i <= Len(CString(s))
    BY <1>1, <1>5
  <2> QED
    BY <2>1 DEF Strncpy
<1>6. ASSUME NEW i \in 1..Len(s), Strncpy(s)[i] # Nul
      PROVE  Strncpy(s)[i] = s[i] /\ \A j \in 1..i : s[j] # Nul
  <2>1. i <= Len(CString(s))
    BY <1>6 DEF Strncpy
  <2>2. \A j \in 1..i : j \in 1..Len(CString(s))
    BY <1>1, <2>1
  <2> QED
    BY <1>1, <2>1, <2>2 DEF Strncpy
<1> QED
  BY <1>4, <1>5, <1>6

-----------------------------------------------------------------------------
(* Headers.                                                                *)

\* atoi gives a number, whatever it is given.
LEMMA AtoiInt ==
  ASSUME NEW s \in Seq(Chars)
  PROVE  Atoi(s) \in Int
<1> DEFINE t      == From(s, Span(s, {Space}))
           signed == t # <<>> /\ Head(t) \in {Minus, Plus}
           u      == IF signed THEN Tail(t) ELSE t
           d      == SubSeq(u, 1, Span(u, Digits))
<1>1. Atoi(s) = IF signed /\ Head(t) = Minus THEN -Value(d) ELSE Value(d)
  BY DEF Atoi
<1>2. Span(s, {Space}) \in 0..Len(s)
  BY SpanIs
<1>3. t \in Seq(Chars)
  BY <1>2, Parts
<1> HIDE DEF t
<1>4. u \in Seq(Chars)
  BY <1>3, HeadTailProperties
<1> HIDE DEF u, signed
<1>5. d \in Seq(Digits)
  <2> DEFINE n == Span(u, Digits)
  <2>1. n \in 0..Len(u) /\ Spans(n, u, Digits)
    BY <1>4, SpanIs
  <2> HIDE DEF n
  <2>2. n \in Int /\ 1 \in Int /\ \A i \in 1..n : u[i] \in Digits
    BY <2>1 DEF Spans
  <2>3. SubSeq(u, 1, n) \in Seq(Digits)
    BY <2>2, SubSeqProperties
  <2> QED
    BY <2>3 DEF n
<1> HIDE DEF d
<1>6. Value(d) \in Nat
  BY <1>5, ValueNat
<1> QED
  BY <1>1, <1>6

\* A header that was encoded has the right length and no Nul, and atoi finds
\* the number again.
LEMMA EncodeHeaderIs ==
  ASSUME NEW n \in 0..MAX_BODY_SIZE
  PROVE  /\ EncodeHeader(n) \in Seq(Chars) /\ Len(EncodeHeader(n)) = HEADER_SIZE
         /\ CString(EncodeHeader(n)) = EncodeHeader(n)
         /\ Atoi(EncodeHeader(n)) = n
<1> DEFINE num == Numeral(n)
           blank == HEADER_SIZE - Len(num)
           pad == [i \in 1..blank |-> Space]
           s == EncodeHeader(n)
<1>1. /\ num \in Seq(Digits) /\ num # <<>> /\ Value(num) = n
      /\ Len(num) <= HEADER_SIZE /\ Len(num) \in Nat \ {0}
  <2>1. n \in Nat /\ n <= MAX_BODY_SIZE
    BY MaxNat
  <2>2. num \in Seq(Digits) /\ num # <<>> /\ Value(num) = n /\ Len(num) <= HEADER_SIZE
    BY <2>1, NumeralIs
  <2> QED
    BY <2>2, EmptySeq
<1> HIDE DEF num
<1>2. blank \in Nat /\ Space \in Chars
  BY <1>1, BaseIs, CharsAre
<1>3. pad \in Seq(Chars) /\ Len(pad) = blank /\ \A i \in 1..blank : pad[i] = Space
  <2> HIDE DEF blank
  <2> QED
    BY <1>2
<1> HIDE DEF pad
<1>4. num \in Seq(Chars) /\ \A i \in 1..Len(num) : num[i] \in Digits
  <2>1. \A i \in 1..Len(num) : num[i] \in Digits
    BY <1>1, ElementOfSeq
  <2>2. \A i \in 1..Len(num) : num[i] \in Chars
    BY <2>1, CharsAre
  <2>3. num \in Seq(Chars)
    BY <1>1, <2>2, SeqDef
  <2> QED
    BY <2>1, <2>3
<1>5. s = pad \o num
  BY DEF EncodeHeader, pad, num
<1> HIDE DEF s
<1>6. /\ s \in Seq(Chars) /\ Len(s) = HEADER_SIZE
      /\ \A i \in 1..blank : s[i] = Space
      /\ \A i \in 1..Len(num) : s[blank + i] = num[i]
      /\ From(s, blank) = num
  <2>1. Len(s) = Len(pad) + Len(num) /\ s \in Seq(Chars) /\ From(s, Len(pad)) = num
    BY <1>3, <1>4, <1>5, Rejoined
  <2>2. \A i \in 1..Len(pad) + Len(num) : s[i] = IF i <= Len(pad) THEN pad[i] ELSE num[i - Len(pad)]
    BY <1>3, <1>4, <1>5, ConcatProperties
  <2>3. Len(pad) + Len(num) = HEADER_SIZE
    BY <1>1, <1>3, BaseIs
  <2>4. \A i \in 1..blank : s[i] = Space
    BY <1>1, <1>2, <1>3, <2>2
  <2>5. ASSUME NEW i \in 1..Len(num) PROVE s[blank + i] = num[i]
    <3> DEFINE k == blank + i
    <3>1. k \in 1..Len(pad) + Len(num) /\ ~(k <= Len(pad)) /\ k - Len(pad) = i
      BY <1>1, <1>2, <1>3
    <3> HIDE DEF k
    <3>2. s[k] = num[k - Len(pad)]
      BY <2>2, <3>1
    <3> QED
      BY <3>1, <3>2 DEF k
  <2> QED
    BY <1>3, <2>1, <2>3, <2>4, <2>5
<1>7. ASSUME NEW i \in 1..Len(s) PROVE s[i] # Nul
  <2>1. CASE i <= blank
    BY <1>2, <1>6, <2>1, CharsAre
  <2>2. CASE ~(i <= blank)
    <3>0. Len(s) = blank + Len(num) /\ blank \in Nat /\ Len(num) \in Nat
      BY <1>1, <1>2, <1>6, BaseIs
    <3> HIDE DEF blank
    <3>1. i - blank \in 1..Len(num) /\ blank + (i - blank) = i
      BY <2>2, <3>0
    <3>2. s[i] \in Digits
      BY <1>4, <1>6, <3>1
    <3> QED
      BY <3>2, CharsAre
  <2> QED
    BY <2>1, <2>2
<1>8. CString(s) = s
  BY <1>6, <1>7, CStringIs
<1>9. Span(s, {Space}) = blank
  <2>1. blank \in 0..Len(s)
    BY <1>1, <1>2, <1>6
  <2>2. s[blank + 1] \in Digits
    BY <1>1, <1>4, <1>6
  <2>3. Spans(blank, s, {Space})
    BY <1>6, <2>2, CharsAre DEF Spans
  <2> HIDE DEF blank
  <2> QED
    BY <1>6, <2>1, <2>3, SpanIs
<1>10. From(s, Span(s, {Space})) = num
  BY <1>6, <1>9
<1>11. Head(num) \in Digits
  BY <1>1
<1>12. SubSeq(num, 1, Span(num, Digits)) = num
  <2>1. Len(num) \in 0..Len(num) /\ Spans(Len(num), num, Digits)
    BY <1>1, <1>4 DEF Spans
  <2>2. Span(num, Digits) = Len(num)
    BY <1>1, <2>1, SpanIs
  <2> QED
    BY <1>1, <2>2, WholeIs
<1>13. Atoi(s) = n
  <2>1. Head(num) \notin {Minus, Plus}
    BY <1>11, CharsAre
  <2> QED
    BY <1>1, <1>10, <1>12, <2>1 DEF Atoi
<1> QED
  BY <1>6, <1>8, <1>13 DEF s

\* What decodeHeader leaves in bodyLength_ is within the limit, and it undoes
\* encodeHeader.
LEMMA DecodeHeaderIs ==
  /\ \A header \in Seq(Chars) : DecodeHeader(header).length \in 0..MAX_BODY_SIZE
  /\ \A n \in 0..MAX_BODY_SIZE :
       DecodeHeader(EncodeHeader(n)).ok /\ DecodeHeader(EncodeHeader(n)).length = n
<1>0. Wrap \in Nat /\ Wrap > MAX_BODY_SIZE /\ MAX_BODY_SIZE \in Nat
  BY MaxNat, FramingAssumption
<1>1. ASSUME NEW header \in Seq(Chars)
      PROVE  DecodeHeader(header).length \in 0..MAX_BODY_SIZE
  <2> DEFINE a == Atoi(CString(header))
  <2>1. a \in Int
    BY CStringIs, AtoiInt
  <2> HIDE DEF a
  <2>2. a % Wrap \in Nat
    BY <1>0, <2>1
  <2>3. DecodeHeader(header).length = IF a % Wrap <= MAX_BODY_SIZE THEN a % Wrap ELSE 0
    BY DEF DecodeHeader, a
  <2> QED
    BY <1>0, <2>2, <2>3
<1>2. ASSUME NEW n \in 0..MAX_BODY_SIZE
      PROVE  DecodeHeader(EncodeHeader(n)).ok /\ DecodeHeader(EncodeHeader(n)).length = n
  <2>1. n % Wrap = n /\ n <= MAX_BODY_SIZE
    BY <1>0
  <2>2. Atoi(CString(EncodeHeader(n))) = n
    BY EncodeHeaderIs
  <2> QED
    BY <2>1, <2>2 DEF DecodeHeader
<1> QED
  BY <1>1, <1>2

-----------------------------------------------------------------------------
(* The stream.                                                             *)

Message == [body : Seq(Chars), heartbeat : BOOLEAN]

\* What is on the way between two ends that use Message: rest[j] is the
\* frames of the texts behind the j-th, and the reader is at the beginning of
\* a frame or of a body, whose length it knows.
Frames(rest, texts) ==
  /\ rest \in [0..Len(texts) -> Seq(Chars)] /\ rest[Len(texts)] = <<>>
  /\ \A j \in 1..Len(texts) : rest[j - 1] = SetData(texts[j]) \o rest[j]

AtFrame(rest) == reading = "header" /\ stream = rest[Len(results)]

AtBody(rest) ==
  LET n == Len(results) + 1
  IN  /\ reading = "body" /\ n <= Len(written)
      /\ length = Len(written[n]) /\ stream = Strncpy(written[n]) \o rest[n]

InPlace ==
  \E rest : Frames(rest, written) /\ (AtFrame(rest) \/ AtBody(rest))

\* The messages read are those that were written.
Matching ==
  /\ Len(results) <= Len(written)
  /\ \A n \in 1..Len(results) :
       /\ results[n].body = Strncpy(written[n])
       /\ results[n].heartbeat \in IsHeartbeat(results[n].body)

FramingTyped ==
  /\ own \in BOOLEAN
  /\ stream \in Seq(Chars) /\ results \in Seq(Message)
  /\ written \in Seq(Seq(Chars))
  /\ BodyFits

FramingInv ==
  /\ FramingTyped
  /\ own => /\ \A n \in 1..Len(written) : Len(written[n]) <= MAX_BODY_SIZE
            /\ InPlace /\ Matching

\* A frame: a header of HEADER_SIZE characters and a body of the length it says.
LEMMA SetDataIs ==
  ASSUME NEW text \in Seq(Chars), Len(text) <= MAX_BODY_SIZE
  PROVE  /\ SetData(text) \in Seq(Chars)
         /\ SubSeq(SetData(text), 1, HEADER_SIZE) = EncodeHeader(Len(text))
         /\ From(SetData(text), HEADER_SIZE) = Strncpy(text)
         /\ Len(SetData(text)) = HEADER_SIZE + Len(text)
<1>1. Len(text) \in 0..MAX_BODY_SIZE
  BY MaxNat
<1>2. EncodeHeader(Len(text)) \in Seq(Chars) /\ Len(EncodeHeader(Len(text))) = HEADER_SIZE
  BY <1>1, EncodeHeaderIs
<1>3. Strncpy(text) \in Seq(Chars) /\ Len(Strncpy(text)) = Len(text)
  BY StrncpyIs
<1> QED
  BY <1>2, <1>3, Rejoined DEF SetData

\* Frames may be joined in any order.
LEMMA Associates ==
  ASSUME NEW E
  PROVE  \A a \in Seq(E), b \in Seq(E), c \in Seq(E) : (a \o b) \o c = a \o (b \o c)
BY ConcatAssociative

\* What IsHeartbeat may give.
LEMMA IsHeartbeatIs ==
  ASSUME NEW text \in Seq(Chars), NEW heartbeat \in IsHeartbeat(Strncpy(text))
  PROVE  /\ heartbeat \in BOOLEAN
         /\ text = PING => heartbeat
         /\ heartbeat => IsPrefix(PING, text) \/ IsPrefix(text, PING)
<1> DEFINE body == Strncpy(text)
<1>1. /\ body \in Seq(Chars) /\ Len(body) = Len(text)
      /\ \A i \in 1..Len(text) : (\A j \in 1..i : text[j] # Nul) => body[i] = text[i]
      /\ \A i \in 1..Len(text) : body[i] # Nul => body[i] = text[i]
  BY StrncpyIs
<1> HIDE DEF body
<1>2. /\ PING \in Seq(Letters) /\ Len(PING) \in Nat /\ Len(text) \in Nat
      /\ \A i \in 1..Len(PING) : PING[i] # Nul
  <2>1. PING \in Seq(Letters)
    BY FramingAssumption
  <2>2. \A i \in 1..Len(PING) : PING[i] \in Letters
    BY <2>1, ElementOfSeq
  <2> QED
    BY <2>1, <2>2, CharsAre
<1>3. PING \in Seq(Chars)
  BY <1>2, CharsAre, SeqMonotonic
<1>4. heartbeat \in IF IsPrefix(PING, body) THEN {TRUE}
                    ELSE IF IsPrefix(body, PING) THEN BOOLEAN ELSE {FALSE}
  BY DEF IsHeartbeat, body
<1>5. ASSUME text = PING PROVE heartbeat
  <2>1. body = PING
    BY <1>1, <1>2, <1>5, <1>3, SeqEqual
  <2>2. IsPrefix(PING, body)
    BY <1>2, <2>1 DEF IsPrefix
  <2> QED
    BY <1>4, <2>2
<1>6. ASSUME IsPrefix(PING, body) PROVE IsPrefix(PING, text)
  <2>1. Len(PING) <= Len(text) /\ SubSeq(PING, 1, Len(PING)) = SubSeq(body, 1, Len(PING))
    BY <1>1, <1>6 DEF IsPrefix
  <2>2. Len(PING) \in 0..Len(text) /\ Len(PING) \in 0..Len(body)
    BY <1>1, <1>2, <2>1
  <2>3. ASSUME NEW i \in 1..Len(PING) PROVE SubSeq(text, 1, Len(PING))[i] = PING[i]
    <3>1. SubSeq(PING, 1, Len(PING))[i] = PING[i]
      BY <1>3, WholeIs
    <3>2. SubSeq(body, 1, Len(PING))[i] = body[i] /\ SubSeq(text, 1, Len(PING))[i] = text[i]
      BY <1>1, <2>2, Parts
    <3>3. body[i] = PING[i]
      BY <2>1, <3>1, <3>2
    <3> QED
      BY <1>1, <1>2, <2>2, <3>2, <3>3
  <2>4. SubSeq(text, 1, Len(PING)) \in Seq(Chars) /\ Len(SubSeq(text, 1, Len(PING))) = Len(PING)
    BY <2>2, Parts
  <2>5. SubSeq(text, 1, Len(PING)) = PING
    BY <1>3, <2>3, <2>4, SeqEqual
  <2> QED
    BY <1>3, <2>1, <2>5, WholeIs DEF IsPrefix
<1>7. ASSUME IsPrefix(body, PING) PROVE IsPrefix(text, PING)
  <2>1. Len(body) <= Len(PING) /\ SubSeq(body, 1, Len(body)) = SubSeq(PING, 1, Len(body))
    BY <1>7 DEF IsPrefix
  <2>2. Len(body) \in 0..Len(PING)
    BY <1>1, <1>2, <2>1
  <2>3. ASSUME NEW i \in 1..Len(body) PROVE body[i] = PING[i]
    <3>1. SubSeq(body, 1, Len(body))[i] = body[i]
      BY <1>1, WholeIs
    <3>2. SubSeq(PING, 1, Len(body))[i] = PING[i]
      BY <1>3, <2>2, Parts
    <3> QED
      BY <2>1, <3>1, <3>2
  <2>4. ASSUME NEW i \in 1..Len(body) PROVE body[i] = text[i]
    BY <1>1, <1>2, <2>2, <2>3
  <2>5. body = text
    BY <1>1, <2>4, SeqEqual
  <2> QED
    BY <1>7, <2>5
<1> QED
  BY <1>4, <1>5, <1>6, <1>7

-----------------------------------------------------------------------------
(* The steps of Framing.                                                   *)

\* What a step has to show.
FramingGood == FramingInv' /\ [Strings!Write \/ Strings!Receive]_<<StringsSent, StringsRead>>

\* A step that writes and reads no message is none of the Channel.
LEMMA SameStrings ==
  ASSUME UNCHANGED own, own => UNCHANGED <<written, results>>
  PROVE  UNCHANGED <<StringsSent, StringsRead>>
BY DEF StringsSent, StringsRead

\* A text that is written comes behind all that is on the way (Message::setData).
LEMMA WriteGood ==
  ASSUME FramingInv, NEW text \in Texts, Write(text)
  PROVE  FramingGood
<1> DEFINE data == SetData(text)
           m == Len(written)
<1>1. text \in Seq(Chars) /\ Len(text) <= MAX_BODY_SIZE
  BY FramingAssumption
<1>2. data \in Seq(Chars)
  BY <1>1, SetDataIs
<1>3. /\ own = TRUE /\ own' = own /\ written' = Append(written, text) /\ stream' = stream \o data
      /\ reading' = reading /\ length' = length /\ results' = results
  BY DEF Write, FramingInv, FramingTyped
<1> HIDE DEF data
<1>4. /\ written \in Seq(Seq(Chars)) /\ stream \in Seq(Chars) /\ results \in Seq(Message)
      /\ Len(results) \in Nat /\ Len(results) <= m /\ m \in Nat
      /\ \A n \in 1..m : Len(written[n]) <= MAX_BODY_SIZE /\ written[n] \in Seq(Chars)
  <2>1. written \in Seq(Seq(Chars)) /\ results \in Seq(Message)
    BY DEF FramingInv, FramingTyped
  <2>2. \A n \in 1..m : written[n] \in Seq(Chars)
    BY <2>1, ElementOfSeq
  <2> QED
    BY <1>3, <2>1, <2>2, LenProperties DEF FramingInv, FramingTyped, Matching
<1>5. /\ written' \in Seq(Seq(Chars)) /\ Len(written') = m + 1 /\ written'[m + 1] = text
      /\ \A n \in 1..m : written'[n] = written[n]
  BY <1>1, <1>3, <1>4, AppendProperties
<1>6. FramingTyped'
  <2>1. stream' \in Seq(Chars)
    BY <1>2, <1>3, <1>4, ConcatProperties
  <2> QED
    BY <1>3, <1>4, <1>5, <2>1 DEF FramingInv, FramingTyped, BodyFits
<1>7. \A n \in 1..Len(written') : Len(written'[n]) <= MAX_BODY_SIZE
  <2>1. ASSUME NEW n \in 1..Len(written') PROVE Len(written'[n]) <= MAX_BODY_SIZE
    <3>1. n = m + 1 \/ n \in 1..m
      BY <1>4, <1>5
    <3> QED
      BY <1>1, <1>4, <1>5, <3>1
  <2> QED
    BY <2>1
<1>8. Matching'
  BY <1>3, <1>4, <1>5 DEF FramingInv, Matching
<1>9. InPlace'
  <2>1. PICK rest : Frames(rest, written) /\ (AtFrame(rest) \/ AtBody(rest))
    BY <1>3 DEF FramingInv, InPlace
  <2>2. /\ rest \in [0..m -> Seq(Chars)] /\ rest[m] = <<>>
        /\ \A j \in 1..m : rest[j - 1] = SetData(written[j]) \o rest[j]
    BY <2>1 DEF Frames
  <2>a. PICK more : more = [j \in 0..m + 1 |-> IF j = m + 1 THEN <<>> ELSE rest[j] \o data]
    OBVIOUS
  <2>3. more[m + 1] = <<>> /\ \A j \in 0..m : more[j] = rest[j] \o data
    BY <1>4, <2>a
  <2>4. more \in [0..m + 1 -> Seq(Chars)]
    <3>1. ASSUME NEW j \in 0..m + 1 PROVE more[j] \in Seq(Chars)
      <4>1. CASE j = m + 1
        <5>1. more[j] = <<>> /\ <<>> \in Seq(Chars)
          BY <2>3, <4>1
        <5> QED
          BY <5>1
      <4>2. CASE j # m + 1
        <5>1. j \in 0..m
          BY <1>4, <4>2
        <5>2. rest[j] \in Seq(Chars)
          BY <2>2, <5>1
        <5> QED
          BY <1>2, <2>3, <5>1, <5>2, ConcatProperties
      <4> QED
        BY <4>1, <4>2
    <3> QED
      BY <2>a, <3>1
  <2>5. ASSUME NEW j \in 1..m + 1 PROVE more[j - 1] = SetData(written'[j]) \o more[j]
    <3>1. CASE j = m + 1
      <4>1. j - 1 = m /\ m \in 0..m
        BY <1>4, <3>1
      <4>2. more[j - 1] = <<>> \o data
        BY <2>2, <2>3, <4>1
      <4>3. <<>> \o data = data /\ data \o <<>> = data
        BY <1>2, ConcatEmptySeq
      <4>4. SetData(written'[j]) = data /\ more[j] = <<>>
        BY <1>5, <2>3, <3>1 DEF data
      <4> QED
        BY <4>2, <4>3, <4>4
    <3>2. CASE j # m + 1
      <4>1. j \in 1..m /\ j - 1 \in 0..m /\ j \in 0..m
        BY <1>4, <3>2
      <4>2. more[j - 1] = (SetData(written[j]) \o rest[j]) \o data
        BY <2>2, <2>3, <4>1
      <4>3. SetData(written[j]) \in Seq(Chars) /\ rest[j] \in Seq(Chars)
        <5>1. written[j] \in Seq(Chars) /\ Len(written[j]) <= MAX_BODY_SIZE
          BY <1>4, <4>1
        <5> QED
          BY <2>2, <4>1, <5>1, SetDataIs
      <4>4. more[j - 1] = SetData(written[j]) \o (rest[j] \o data)
        <5>1. \A a \in Seq(Chars), b \in Seq(Chars) : (a \o b) \o data = a \o (b \o data)
          BY <1>2, ConcatAssociative
        <5> QED
          BY <4>2, <4>3, <5>1, Zenon
      <4>5. written'[j] = written[j] /\ more[j] = rest[j] \o data
        BY <1>5, <2>3, <4>1
      <4> QED
        BY <4>4, <4>5
    <3> QED
      BY <3>1, <3>2
  <2>6. Frames(more, written')
    BY <1>5, <2>3, <2>4, <2>5 DEF Frames
  <2>7. ASSUME AtFrame(rest) PROVE AtFrame(more)'
    <3>1. Len(results) \in 0..m
      BY <1>4
    <3>2. more[Len(results)] = stream'
      BY <1>3, <2>3, <2>7, <3>1 DEF AtFrame
    <3> QED
      BY <1>3, <2>7, <3>2 DEF AtFrame
  <2>8. ASSUME AtBody(rest) PROVE AtBody(more)'
    <3> DEFINE n == Len(results) + 1
    <3>1. /\ reading = "body" /\ n \in 1..m /\ n \in 0..m
          /\ length = Len(written[n]) /\ stream = Strncpy(written[n]) \o rest[n]
      BY <1>4, <2>8 DEF AtBody
    <3> HIDE DEF n
    <3>2. Strncpy(written[n]) \in Seq(Chars) /\ rest[n] \in Seq(Chars)
      BY <1>4, <2>2, <3>1, StrncpyIs
    <3>3. stream' = Strncpy(written[n]) \o (rest[n] \o data)
      <4>1. \A a \in Seq(Chars), b \in Seq(Chars) : (a \o b) \o data = a \o (b \o data)
        BY <1>2, ConcatAssociative
      <4>2. stream' = (Strncpy(written[n]) \o rest[n]) \o data
        BY <1>3, <3>1
      <4> QED
        BY <3>2, <4>1, <4>2, Zenon
    <3>4. more[n] = rest[n] \o data
      BY <2>3, <3>1
    <3>5. written'[n] = written[n] /\ n <= Len(written')
      BY <1>4, <1>5, <3>1
    <3> QED
      BY <1>3, <3>1, <3>5, <3>3, <3>4 DEF AtBody, n
  <2>9. AtFrame(more)' \/ AtBody(more)'
    BY <2>1, <2>7, <2>8
  <2> QED
    BY <2>6, <2>9 DEF InPlace
<1>10. FramingInv'
  BY <1>6, <1>7, <1>8, <1>9 DEF FramingInv
<1>11. Strings!Write
  <2>1. StringsSent = [n \in 1..m |-> Strncpy(written[n])]
    BY <1>3 DEF StringsSent
  <2>2. StringsSent' = [n \in 1..m + 1 |-> Strncpy(written'[n])]
    BY <1>3, <1>5 DEF StringsSent
  <2>3. ASSUME NEW n \in 1..m + 1 PROVE Strncpy(written'[n]) \in Seq(Chars)
    <3>1. written'[n] \in Seq(Chars)
      BY <1>5, ElementOfSeq
    <3> QED
      BY <3>1, StrncpyIs
  <2>4. ASSUME NEW n \in 1..m PROVE Strncpy(written[n]) \in Seq(Chars)
    BY <1>4, StrncpyIs
  <2>5. StringsSent \in Seq(Seq(Chars)) /\ Len(StringsSent) = m
    BY <1>4, <2>1, <2>4
  <2>6. StringsSent' \in Seq(Seq(Chars)) /\ Len(StringsSent') = m + 1
    BY <1>4, <2>2, <2>3
  <2>7. IsStrictPrefix(StringsSent, StringsSent')
    <3>1. m \in 0..Len(StringsSent')
      BY <1>4, <2>6
    <3>2. SubSeq(StringsSent', 1, m) \in Seq(Seq(Chars)) /\ Len(SubSeq(StringsSent', 1, m)) = m
          /\ \A i \in 1..m : SubSeq(StringsSent', 1, m)[i] = StringsSent'[i]
      BY <2>6, <3>1, Parts
    <3>3. \A i \in 1..m : StringsSent'[i] = StringsSent[i]
      <4>1. \A i \in 1..m : StringsSent[i] = Strncpy(written[i]) /\ StringsSent'[i] = Strncpy(written'[i])
        BY <1>4, <2>1, <2>2
      <4> QED
        BY <1>5, <4>1
    <3>4. SubSeq(StringsSent', 1, m) = StringsSent
      BY <2>5, <3>2, <3>3, SeqEqual
    <3>5. SubSeq(StringsSent, 1, m) = StringsSent
      BY <2>5, WholeIs
    <3>6. IsPrefix(StringsSent, StringsSent')
      BY <1>4, <2>5, <2>6, <3>4, <3>5 DEF IsPrefix
    <3>7. StringsSent # StringsSent'
      BY <1>4, <2>5, <2>6
    <3> QED
      BY <3>6, <3>7 DEF IsStrictPrefix
  <2>8. UNCHANGED StringsRead
    BY <1>3 DEF StringsRead
  <2> QED
    BY <2>6, <2>7, <2>8 DEF Strings!Write, Strings!IsStrictPrefix, Strings!IsPrefix,
       IsStrictPrefix, IsPrefix
<1> QED
  BY <1>10, <1>11 DEF FramingGood

\* Another program may write anything: only the types remain.
LEMMA ForeignGood ==
  ASSUME FramingInv, NEW char \in Chars, WriteForeign(char)
  PROVE  FramingGood
<1>1. /\ own = FALSE /\ own' = own /\ written' = Append(written, <<char>>)
      /\ stream' = Append(stream, char)
      /\ reading' = reading /\ length' = length /\ results' = results
  BY DEF WriteForeign, FramingInv, FramingTyped
<1>2. FramingTyped'
  <2>1. stream' \in Seq(Chars)
    BY <1>1, AppendProperties DEF FramingInv, FramingTyped
  <2>2. <<char>> \in Seq(Chars)
    OBVIOUS
  <2>3. written' \in Seq(Seq(Chars))
    BY <1>1, <2>2, AppendProperties DEF FramingInv, FramingTyped
  <2> QED
    BY <1>1, <2>1, <2>3 DEF FramingInv, FramingTyped, BodyFits
<1>3. UNCHANGED <<StringsSent, StringsRead>>
  BY <1>1 DEF StringsSent, StringsRead
<1> QED
  BY <1>1, <1>2, <1>3 DEF FramingGood, FramingInv

\* The header at the beginning of a frame gives the length of its body
\* (handleReadMessageHeader).
LEMMA HeaderGood ==
  ASSUME FramingInv, ReadMessageHeader
  PROVE  FramingGood
<1> DEFINE header == SubSeq(stream, 1, HEADER_SIZE)
           decoded == DecodeHeader(header)
<1>1. /\ reading = "header" /\ Len(stream) >= HEADER_SIZE
      /\ length' = decoded.length /\ reading' = IF decoded.ok THEN "body" ELSE "nothing"
      /\ stream' = From(stream, HEADER_SIZE)
      /\ own' = own /\ written' = written /\ results' = results
  BY DEF ReadMessageHeader
<1>2. stream \in Seq(Chars) /\ HEADER_SIZE \in 0..Len(stream)
  BY <1>1, BaseIs DEF FramingInv, FramingTyped
<1>3. header \in Seq(Chars) /\ stream' \in Seq(Chars)
  BY <1>1, <1>2, Parts
<1> HIDE DEF header, decoded
<1>4. FramingTyped'
  <2>1. length' \in 0..MAX_BODY_SIZE
    BY <1>1, <1>3, DecodeHeaderIs DEF decoded
  <2> QED
    BY <1>1, <1>3, <2>1 DEF FramingInv, FramingTyped, BodyFits
<1>5. UNCHANGED <<StringsSent, StringsRead>>
  BY <1>1, SameStrings
<1>6. ASSUME own PROVE InPlace'
  <2>1. PICK rest : Frames(rest, written) /\ AtFrame(rest)
    BY <1>1, <1>6 DEF FramingInv, InPlace, AtBody
  <2> DEFINE k == Len(results)
             n == k + 1
             text == written[n]
  <2>2. /\ rest \in [0..Len(written) -> Seq(Chars)] /\ rest[Len(written)] = <<>>
        /\ \A j \in 1..Len(written) : rest[j - 1] = SetData(written[j]) \o rest[j]
        /\ stream = rest[k] /\ k <= Len(written)
    BY <1>6, <2>1 DEF Frames, AtFrame, FramingInv, Matching
  <2>3. k \in Nat /\ Len(written) \in Nat
    BY DEF FramingInv, FramingTyped
  <2>4. k # Len(written)
    <3>1. Len(stream) # 0
      BY <1>1, <1>2, BaseIs
    <3> QED
      BY <2>2, <3>1
  <2>5. n \in 1..Len(written) /\ n \in 0..Len(written) /\ n - 1 = k
    BY <2>2, <2>3, <2>4
  <2>6. text \in Seq(Chars) /\ Len(text) <= MAX_BODY_SIZE
    <3>1. written \in Seq(Seq(Chars))
      BY DEF FramingInv, FramingTyped
    <3> QED
      BY <1>6, <2>5, <3>1, ElementOfSeq DEF FramingInv
  <2>7. stream = SetData(text) \o rest[n] /\ rest[n] \in Seq(Chars)
    BY <2>2, <2>5
  <2> HIDE DEF n, text
  <2> DEFINE code == EncodeHeader(Len(text))
             body == Strncpy(text)
  <2>8. Len(text) \in 0..MAX_BODY_SIZE
    BY <2>6, MaxNat
  <2>9. code \in Seq(Chars) /\ Len(code) = HEADER_SIZE /\ body \in Seq(Chars)
    BY <2>6, <2>8, EncodeHeaderIs, StrncpyIs
  <2>10. stream = (code \o body) \o rest[n]
    BY <2>7 DEF SetData
  <2> HIDE DEF code, body
  <2>11. stream = code \o (body \o rest[n])
    <3>1. \A a \in Seq(Chars), b \in Seq(Chars), c \in Seq(Chars) : (a \o b) \o c = a \o (b \o c)
      BY Associates
    <3>2. body \in Seq(Chars) /\ code \in Seq(Chars) /\ rest[n] \in Seq(Chars)
      BY <2>7, <2>9
    <3> QED
      BY <2>10, <3>1, <3>2, Zenon
  <2>12. body \o rest[n] \in Seq(Chars)
    BY <2>7, <2>9, ConcatProperties
  <2>13. header = code /\ stream' = body \o rest[n]
    <3> DEFINE more == body \o rest[n]
    <3> HIDE DEF more
    <3>1. more \in Seq(Chars)
      BY <2>12 DEF more
    <3>2. SubSeq(code \o more, 1, Len(code)) = code /\ From(code \o more, Len(code)) = more
      BY <2>9, <3>1, Rejoined
    <3>3. stream = code \o more
      BY <2>11 DEF more
    <3>4. header = code /\ stream' = more
      BY <1>1, <2>9, <3>2, <3>3 DEF header
    <3> QED
      BY <3>4 DEF more
  <2>14. decoded.ok /\ decoded.length = Len(text)
    BY <2>8, <2>13, DecodeHeaderIs DEF decoded, code
  <2>15. AtBody(rest)'
    BY <1>1, <2>5, <2>13, <2>14 DEF AtBody, n, text, body
  <2>16. Frames(rest, written)'
    BY <1>1, <2>1 DEF Frames
  <2> QED
    BY <2>15, <2>16 DEF InPlace
<1>7. own' => /\ \A n \in 1..Len(written') : Len(written'[n]) <= MAX_BODY_SIZE
              /\ Matching'
  BY <1>1 DEF FramingInv, Matching
<1>8. FramingInv'
  BY <1>1, <1>4, <1>6, <1>7 DEF FramingInv
<1> QED
  BY <1>5, <1>8 DEF FramingGood

\* The body that is read is the next text, and behind it is the beginning of a
\* frame again (handleReadMessageBody).
LEMMA BodyGood ==
  ASSUME FramingInv, ReadMessageBody
  PROVE  FramingGood
<1> DEFINE body == SubSeq(stream, 1, length)
           k == Len(results)
<1>1. PICK heartbeat \in IsHeartbeat(body) :
        /\ reading = "body" /\ Len(stream) >= length
        /\ results' = Append(results, [body |-> body, heartbeat |-> heartbeat])
        /\ reading' = "header" /\ stream' = From(stream, length)
        /\ own' = own /\ written' = written /\ length' = length
  BY DEF ReadMessageBody
<1>2. stream \in Seq(Chars) /\ length \in 0..Len(stream) /\ length \in Nat
  BY <1>1, MaxNat DEF FramingInv, FramingTyped, BodyFits
<1>3. body \in Seq(Chars) /\ stream' \in Seq(Chars)
  BY <1>1, <1>2, Parts
<1> HIDE DEF body
<1>4. heartbeat \in BOOLEAN
  BY <1>1 DEF IsHeartbeat
<1>5. /\ results \in Seq(Message) /\ k \in Nat
      /\ results' \in Seq(Message) /\ Len(results') = k + 1
      /\ results'[k + 1] = [body |-> body, heartbeat |-> heartbeat]
      /\ \A n \in 1..k : results'[n] = results[n]
  <2>1. [body |-> body, heartbeat |-> heartbeat] \in Message
    BY <1>3, <1>4 DEF Message
  <2>2. results \in Seq(Message) /\ k \in Nat
    BY DEF FramingInv, FramingTyped
  <2> QED
    BY <1>1, <2>1, <2>2, AppendProperties
<1>6. FramingTyped'
  BY <1>1, <1>3, <1>5 DEF FramingInv, FramingTyped, BodyFits
<1>7. CASE ~own
  <2>1. UNCHANGED <<StringsSent, StringsRead>>
    BY <1>1, <1>7 DEF StringsSent, StringsRead
  <2> QED
    BY <1>1, <1>6, <1>7, <2>1 DEF FramingGood, FramingInv
<1>8. CASE own
  <2>1. PICK rest : Frames(rest, written) /\ AtBody(rest)
    BY <1>1, <1>8 DEF FramingInv, InPlace, AtFrame
  <2> DEFINE n == k + 1
             text == written[n]
  <2>2. /\ rest \in [0..Len(written) -> Seq(Chars)] /\ n <= Len(written)
        /\ length = Len(text) /\ stream = Strncpy(text) \o rest[n]
    BY <2>1 DEF Frames, AtBody
  <2>3. n \in 1..Len(written) /\ n \in 0..Len(written) /\ n \in Nat /\ n # 0
    BY <1>5, <2>2
  <2>4. text \in Seq(Chars) /\ rest[n] \in Seq(Chars)
    <3>1. written \in Seq(Seq(Chars))
      BY DEF FramingInv, FramingTyped
    <3> QED
      BY <2>2, <2>3, <3>1, ElementOfSeq
  <2>5. Strncpy(text) \in Seq(Chars) /\ Len(Strncpy(text)) = length
    BY <2>2, <2>4, StrncpyIs
  <2>6. body = Strncpy(text) /\ stream' = rest[n]
    <3> HIDE DEF text
    <3> QED
      BY <1>1, <2>2, <2>4, <2>5, Rejoined DEF body
  <2>7. AtFrame(rest)'
    BY <1>1, <1>5, <2>6 DEF AtFrame
  <2>8. Frames(rest, written)'
    BY <1>1, <2>1 DEF Frames
  <2>9. InPlace'
    BY <2>7, <2>8 DEF InPlace
  <2>10. Matching'
    <3>1. ASSUME NEW i \in 1..Len(results')
          PROVE  /\ results'[i].body = Strncpy(written'[i])
                 /\ results'[i].heartbeat \in IsHeartbeat(results'[i].body)
      <4>1. CASE i = n
        BY <1>1, <1>5, <2>6, <4>1
      <4>2. CASE i # n
        <5>1. i \in 1..k
          BY <1>5, <4>2
        <5> QED
          BY <1>1, <1>5, <1>8, <5>1 DEF FramingInv, Matching
      <4> QED
        BY <4>1, <4>2
    <3>2. Len(results') <= Len(written')
      BY <1>1, <1>5, <2>3
    <3> QED
      BY <3>1, <3>2 DEF Matching
  <2>11. FramingInv'
    BY <1>1, <1>6, <1>8, <2>9, <2>10 DEF FramingInv
  <2>12. Strings!Receive
    <3>1. StringsSent = [i \in 1..Len(written) |-> Strncpy(written[i])]
      BY <1>8 DEF StringsSent
    <3>2. StringsRead = [i \in 1..k |-> results[i].body]
      BY <1>8 DEF StringsRead
    <3>3. StringsRead' = [i \in 1..k + 1 |-> results'[i].body]
      BY <1>1, <1>5, <1>8 DEF StringsRead
    <3>4. Len(StringsRead) = k /\ Len(StringsSent) = Len(written) /\ StringsSent[k + 1] = Strncpy(text)
      BY <1>5, <2>3, <3>1, <3>2
    <3>5. StringsRead' = Append(StringsRead, Strncpy(text))
      <4>1. ASSUME NEW i \in 1..k PROVE results[i].body \in Seq(Chars)
        <5>1. results[i] \in Message
          BY <1>5, ElementOfSeq
        <5> QED
          BY <5>1 DEF Message
      <4>2. StringsRead \in Seq(Seq(Chars))
        BY <1>5, <3>2, <4>1
      <4> DEFINE more == Append(StringsRead, Strncpy(text))
      <4>3. /\ more \in Seq(Seq(Chars)) /\ Len(more) = k + 1
            /\ more[k + 1] = Strncpy(text) /\ \A i \in 1..k : more[i] = StringsRead[i]
        <5> HIDE DEF text
        <5> QED
          BY <2>5, <3>4, <4>2, AppendProperties
      <4> HIDE DEF more
      <4>4. ASSUME NEW i \in 1..k + 1
            PROVE  StringsRead'[i] = more[i] /\ StringsRead'[i] \in Seq(Chars)
        <5>1. StringsRead'[i] = results'[i].body
          BY <3>3
        <5>2. CASE i = k + 1
          BY <1>5, <2>5, <2>6, <4>3, <5>1, <5>2
        <5>3. CASE i # k + 1
          <6>1. i \in 1..k
            BY <1>5, <5>3
          <6> QED
            BY <1>5, <3>2, <4>1, <4>3, <5>1, <6>1
        <5> QED
          BY <5>2, <5>3
      <4>5. StringsRead' \in Seq(Seq(Chars)) /\ Len(StringsRead') = k + 1
        BY <1>5, <3>3, <4>4
      <4>6. StringsRead' = more
        <5>1. PICK got : got = StringsRead'
          OBVIOUS
        <5>2. got \in Seq(Seq(Chars)) /\ Len(got) = k + 1 /\ \A i \in 1..k + 1 : got[i] = more[i]
          BY <4>4, <4>5, <5>1
        <5>3. Len(got) = Len(more) /\ \A i \in 1..Len(got) : got[i] = more[i]
          BY <4>3, <5>2
        <5>4. got = more
          BY <4>3, <5>2, <5>3, SeqEqual
        <5> QED
          BY <5>1, <5>4
      <4> QED
        BY <4>6 DEF more
    <3>6. UNCHANGED StringsSent
      BY <1>1 DEF StringsSent
    <3>7. k < Len(written)
      BY <1>5, <2>3
    <3> QED
      BY <3>4, <3>5, <3>6, <3>7 DEF Strings!Receive
  <2> QED
    BY <2>11, <2>12 DEF FramingGood
<1> QED
  BY <1>7, <1>8

\* Every step keeps the invariant and is one of the Channel.
LEMMA FramingStepGood == FramingInv /\ [FramingNext]_framingVars => FramingGood
<1> SUFFICES ASSUME FramingInv, [FramingNext]_framingVars PROVE FramingGood
  OBVIOUS
<1>1. CASE FramingNext
  BY <1>1, WriteGood, ForeignGood, HeaderGood, BodyGood DEF FramingNext
<1>2. CASE UNCHANGED framingVars
  <2>1. /\ own' = own /\ written' = written /\ stream' = stream
        /\ reading' = reading /\ length' = length /\ results' = results
    BY <1>2 DEF framingVars
  <2>2. FramingInv'
    BY <2>1 DEF FramingInv, FramingTyped, BodyFits, Matching, InPlace, Frames, AtFrame, AtBody
  <2>3. UNCHANGED <<StringsSent, StringsRead>>
    BY <2>1, SameStrings
  <2> QED
    BY <2>2, <2>3 DEF FramingGood
<1> QED
  BY <1>1, <1>2

\* At first nothing is on the way.
LEMMA FramingInitGood == FramingInit => FramingInv /\ Strings!Init
<1> SUFFICES ASSUME FramingInit PROVE FramingInv /\ Strings!Init
  OBVIOUS
<1>1. /\ own \in BOOLEAN /\ written = <<>> /\ stream = <<>>
      /\ reading = "header" /\ length = 0 /\ results = <<>>
      /\ Len(written) = 0 /\ Len(results) = 0
  BY DEF FramingInit
<1>2. FramingTyped
  <2>1. /\ <<>> \in Seq(Chars) /\ <<>> \in Seq(Message) /\ <<>> \in Seq(Seq(Chars))
        /\ 0 \in 0..MAX_BODY_SIZE
    BY MaxNat
  <2> QED
    BY <1>1, <2>1 DEF FramingTyped, BodyFits
<1>3. InPlace
  <2>1. PICK rest : rest = [j \in 0..0 |-> <<>>]
    OBVIOUS
  <2>2. rest \in [0..0 -> Seq(Chars)] /\ rest[0] = <<>>
    <3>1. <<>> \in Seq(Chars)
      OBVIOUS
    <3> QED
      BY <2>1, <3>1
  <2>3. Frames(rest, written) /\ AtFrame(rest)
    BY <1>1, <2>2 DEF Frames, AtFrame
  <2> QED
    BY <2>3 DEF InPlace
<1>4. Matching
  BY <1>1 DEF Matching
<1>5. StringsSent = <<>> /\ StringsRead = <<>>
  BY <1>1 DEF StringsSent, StringsRead
<1> QED
  BY <1>1, <1>2, <1>3, <1>4, <1>5 DEF FramingInv, Strings!Init

-----------------------------------------------------------------------------
(* The theorems about Framing.                                             *)

\* The inductive invariant: types, and what is on the way between two ends that
\* use Transport::Message.
LEMMA FramingInvariance == FramingSpec => []FramingInv
<1> QED
  BY FramingInitGood, FramingStepGood, PTL DEF FramingSpec, FramingGood

\* Whatever characters another program writes, the length that decodeHeader
\* leaves for a body is never more than data_ has room for behind the header.
THEOREM BodyAlwaysFits == FramingSpec => []BodyFits
<1>1. FramingInv => BodyFits
  BY DEF FramingInv, FramingTyped
<1> QED
  BY <1>1, FramingInvariance, PTL

\* The reader has lost nothing, and what is left over is nothing.
LEMMA StaysInStep == FramingInv => InStep
<1> SUFFICES ASSUME FramingInv, own PROVE InStep
  BY DEF InStep
<1>1. /\ written \in Seq(Seq(Chars)) /\ results \in Seq(Message)
      /\ Len(results) \in Nat /\ Len(written) \in Nat /\ Len(results) <= Len(written)
  BY DEF FramingInv, FramingTyped, Matching
<1>2. PICK rest : Frames(rest, written) /\ (AtFrame(rest) \/ AtBody(rest))
  BY DEF FramingInv, InPlace
<1>3. reading # "nothing"
  BY <1>2 DEF AtFrame, AtBody
<1>4. ASSUME NEW n \in 1..Len(results)
      PROVE  /\ Len(results[n].body) = Len(written[n])
             /\ \A i \in 1..Len(written[n]) :
                  (\A j \in 1..i : written[n][j] # Nul) => results[n].body[i] = written[n][i]
  <2>1. written[n] \in Seq(Chars)
    BY <1>1, ElementOfSeq
  <2>2. results[n].body = Strncpy(written[n])
    BY DEF FramingInv, Matching
  <2> DEFINE text == written[n]
  <2> HIDE DEF text
  <2>3. /\ Len(Strncpy(text)) = Len(text)
        /\ \A i \in 1..Len(text) : (\A j \in 1..i : text[j] # Nul) => Strncpy(text)[i] = text[i]
    BY <2>1, StrncpyIs DEF text
  <2> QED
    BY <2>2, <2>3 DEF text
<1>5. ASSUME stream = <<>>, reading = "header" PROVE Len(results) = Len(written)
  <2> SUFFICES ASSUME Len(results) # Len(written) PROVE FALSE
    OBVIOUS
  <2> DEFINE k == Len(results)
             text == written[k + 1]
  <2>1. /\ stream = rest[k] /\ \A j \in 1..Len(written) : rest[j - 1] = SetData(written[j]) \o rest[j]
        /\ rest \in [0..Len(written) -> Seq(Chars)]
    BY <1>2, <1>5 DEF AtFrame, AtBody, Frames
  <2>2. k + 1 \in 1..Len(written) /\ (k + 1) - 1 = k /\ k + 1 \in 0..Len(written)
    BY <1>1
  <2>3. stream = SetData(text) \o rest[k + 1] /\ rest[k + 1] \in Seq(Chars)
    BY <2>1, <2>2
  <2>4. text \in Seq(Chars) /\ Len(text) <= MAX_BODY_SIZE
    BY <1>1, <2>2, ElementOfSeq DEF FramingInv
  <2> HIDE DEF text
  <2>5. SetData(text) \in Seq(Chars) /\ Len(SetData(text)) = HEADER_SIZE + Len(text)
    BY <2>4, SetDataIs
  <2>6. PICK more \in Seq(Chars) : stream = SetData(text) \o more
    BY <2>3
  <2>7. Len(stream) = Len(SetData(text)) + Len(more)
    BY <2>5, <2>6, Rejoined
  <2>8. Len(stream) = 0 /\ Len(text) \in Nat /\ Len(more) \in Nat
    BY <1>5, <2>4, <2>6
  <2>9. HEADER_SIZE + Len(text) + Len(more) = 0
    BY <2>5, <2>7, <2>8
  <2> HIDE DEF k
  <2> QED
    BY <2>8, <2>9, BaseIs
<1> QED
  BY <1>3, <1>4, <1>5 DEF InStep

\* strncmp on the body that strncpy made tells of the text what it is to tell.
LEMMA TellsHeartbeats == FramingInv => HeartbeatsTold
<1> SUFFICES ASSUME FramingInv, own, NEW n \in 1..Len(results)
             PROVE  /\ written[n] = PING => results[n].heartbeat
                    /\ results[n].heartbeat =>
                         IsPrefix(PING, written[n]) \/ IsPrefix(written[n], PING)
  BY DEF HeartbeatsTold
<1>1. written \in Seq(Seq(Chars)) /\ n \in 1..Len(written)
  BY DEF FramingInv, FramingTyped, Matching
<1>2. written[n] \in Seq(Chars)
  BY <1>1, ElementOfSeq
<1>3. results[n].heartbeat \in IsHeartbeat(Strncpy(written[n]))
  BY DEF FramingInv, Matching
<1> QED
  BY <1>2, <1>3, IsHeartbeatIs

\* Between two ends that use Transport::Message no header is refused, the reader
\* never loses its place, each message has the length and the characters of its
\* text, and exactly the heartbeats are taken for heartbeats: for any size of
\* header, base, texts that fit, and number of messages.
THEOREM TextsAlwaysArrive == FramingSpec => []TextsArrive
<1>1. FramingInv => TextsArrive
  BY StaysInStep, TellsHeartbeats DEF TextsArrive
<1> QED
  BY <1>1, FramingInvariance, PTL

\* The characters on the way between two such ends are one direction of a
\* Channel of texts, as Link takes them to be.
THEOREM StreamIsChannel == FramingSpec => StringsArrive
<1>1. FramingInit => FramingInv /\ Strings!Init
  BY FramingInitGood
<1>2. FramingInv /\ [FramingNext]_framingVars => FramingInv' /\ [Strings!Write \/ Strings!Receive]_<<StringsSent, StringsRead>>
  BY FramingStepGood DEF FramingGood
<1> QED
  BY <1>1, <1>2, PTL DEF FramingSpec, StringsArrive, Strings!Spec

-----------------------------------------------------------------------------
(* The application's messages in a log.                                    *)

Item == [id : Nat, by : {"app", "heartbeat"}]

\* The first n entries of a log.
Cut(s, n) == SubSeq(s, 1, n)

LEMMA CutProperties ==
  ASSUME NEW s \in Seq(Item), NEW n \in 0..Len(s)
  PROVE  /\ Cut(s, n) \in Seq(Item) /\ Len(Cut(s, n)) = n
         /\ \A i \in 1..n : Cut(s, n)[i] = s[i]
BY SubSeqProperties DEF Cut

\* What AppWrites computes on the way.
Selects(f, s, m) ==
  f = [i \in 0..m |-> IF i = 0 THEN <<>>
                      ELSE IF s[i].by = "app" THEN Append(f[i - 1], s[i])
                      ELSE f[i - 1]]

SelectsOne(f, s, i) ==
  f[i] = IF i = 0 THEN <<>>
         ELSE IF s[i].by = "app" THEN Append(f[i - 1], s[i])
         ELSE f[i - 1]

LEMMA SelectsAt ==
  ASSUME NEW m \in Nat, NEW s, NEW f, Selects(f, s, m), NEW i \in 0..m
  PROVE  SelectsOne(f, s, i)
<1>1. \A ff : ff = [j \in 0..m |-> IF j = 0 THEN <<>>
                                   ELSE IF s[j].by = "app" THEN Append(f[j - 1], s[j])
                                   ELSE f[j - 1]]
        => ff[i] = IF i = 0 THEN <<>>
                   ELSE IF s[i].by = "app" THEN Append(f[i - 1], s[i])
                   ELSE f[i - 1]
  OBVIOUS
<1> QED
  BY <1>1 DEF Selects, SelectsOne

LEMMA SelectsIf ==
  ASSUME NEW m \in Nat, NEW s, NEW R, NEW f \in [0..m -> R],
         \A i \in 0..m : SelectsOne(f, s, i)
  PROVE  Selects(f, s, m)
BY DEF Selects, SelectsOne

\* There is such a function,
LEMMA SelectsExists ==
  ASSUME NEW s \in Seq(Item)
  PROVE  \A m \in Nat : m <= Len(s) =>
           \E f \in [0..m -> Seq(Item)] : Selects(f, s, m)
<1> DEFINE T == {m \in Nat : m <= Len(s) =>
                   \E f \in [0..m -> Seq(Item)] : Selects(f, s, m)}
<1>0. Len(s) \in Nat
  OBVIOUS
<1>1. 0 \in T
  <2> DEFINE f == [i \in 0..0 |-> <<>>]
  <2>1. f \in [0..0 -> Seq(Item)]
    OBVIOUS
  <2>2. \A i \in 0..0 : SelectsOne(f, s, i)
    BY DEF SelectsOne
  <2> HIDE DEF f
  <2>3. Selects(f, s, 0)
    BY <2>1, <2>2, SelectsIf
  <2> QED
    BY <2>1, <2>3
<1>2. ASSUME NEW m \in Nat, m \in T PROVE m + 1 \in T
  <2> SUFFICES ASSUME m + 1 <= Len(s)
               PROVE  \E f \in [0..m + 1 -> Seq(Item)] : Selects(f, s, m + 1)
    OBVIOUS
  <2>1. PICK f \in [0..m -> Seq(Item)] : Selects(f, s, m)
    BY <1>0, <1>2
  <2>2. m + 1 \in 1..Len(s) /\ f[m] \in Seq(Item)
    BY <1>0
  <2>3. s[m + 1] \in Item
    BY <2>2, ElementOfSeq
  <2>4. Append(f[m], s[m + 1]) \in Seq(Item)
    BY <2>2, <2>3, AppendProperties
  <2> DEFINE last == IF s[m + 1].by = "app" THEN Append(f[m], s[m + 1]) ELSE f[m]
             g == [i \in 0..m + 1 |-> IF i = m + 1 THEN last ELSE f[i]]
  <2>5. last \in Seq(Item)
    BY <2>2, <2>4
  <2>6. /\ g \in [0..m + 1 -> Seq(Item)] /\ g[m + 1] = last
        /\ \A i \in 0..m : g[i] = f[i]
    <3> HIDE DEF last
    <3> QED
      BY <2>5
  <2>7. ASSUME NEW i \in 0..m + 1 PROVE SelectsOne(g, s, i)
    <3>1. CASE i = m + 1
      <4>1. i # 0 /\ i - 1 = m /\ m \in 0..m
        BY <3>1
      <4>2. g[i] = last /\ g[i - 1] = f[m]
        BY <2>6, <3>1, <4>1
      <4> HIDE DEF g
      <4> QED
        BY <3>1, <4>1, <4>2 DEF SelectsOne
    <3>2. CASE i # m + 1
      <4>1. i \in 0..m /\ (i # 0 => i - 1 \in 0..m)
        BY <3>2
      <4>2. SelectsOne(f, s, i)
        BY <2>1, <4>1, SelectsAt
      <4>3. g[i] = f[i] /\ (i # 0 => g[i - 1] = f[i - 1])
        BY <2>6, <4>1
      <4> HIDE DEF g
      <4> QED
        BY <4>2, <4>3 DEF SelectsOne
    <3> QED
      BY <3>1, <3>2
  <2> HIDE DEF g
  <2>8. Selects(g, s, m + 1)
    <3>1. m + 1 \in Nat
      OBVIOUS
    <3> QED
      BY <2>6, <2>7, <3>1, SelectsIf, Zenon
  <2> QED
    BY <2>6, <2>8
<1>3. \A m \in Nat : m \in T
  <2> HIDE DEF T
  <2> QED
    BY <1>1, <1>2, Induction
<1> QED
  BY <1>3

\* and what it says of a place depends on the log up to there alone.
Agree(s, t, m) == \A i \in 1..m : s[i] = t[i]

LEMMA SelectsSame ==
  ASSUME NEW m \in Nat, NEW k \in Nat, m <= k,
         NEW s, NEW t, Agree(s, t, m),
         NEW f, Selects(f, s, m), NEW g, Selects(g, t, k)
  PROVE  f[m] = g[m]
<1> DEFINE T == {i \in Nat : i <= m => f[i] = g[i]}
<1>0. ASSUME NEW i \in 0..m PROVE SelectsOne(f, s, i) /\ SelectsOne(g, t, i)
  <2>1. i \in 0..k
    OBVIOUS
  <2> QED
    BY <2>1, SelectsAt
<1>1. 0 \in T
  BY <1>0 DEF SelectsOne
<1>2. ASSUME NEW i \in Nat, i \in T PROVE i + 1 \in T
  <2> SUFFICES ASSUME i + 1 <= m PROVE f[i + 1] = g[i + 1]
    OBVIOUS
  <2>1. i + 1 \in 0..m /\ i + 1 # 0 /\ (i + 1) - 1 = i /\ i + 1 \in 1..m
    OBVIOUS
  <2>2. f[i] = g[i] /\ s[i + 1] = t[i + 1]
    BY <1>2, <2>1 DEF Agree
  <2>3. SelectsOne(f, s, i + 1) /\ SelectsOne(g, t, i + 1)
    BY <1>0, <2>1
  <2> QED
    BY <2>1, <2>2, <2>3 DEF SelectsOne
<1>3. \A i \in Nat : i \in T
  <2> HIDE DEF T
  <2> QED
    BY <1>1, <1>2, Induction
<1> QED
  BY <1>3

LEMMA AppWritesIs ==
  ASSUME NEW s \in Seq(Item)
  PROVE  \E f : /\ f \in [0..Len(s) -> Seq(Item)]
                /\ Selects(f, s, Len(s)) /\ AppWrites(s) = f[Len(s)]
<1>0. Len(s) \in Nat /\ Len(s) <= Len(s)
  OBVIOUS
<1>1. PICK f \in [0..Len(s) -> Seq(Item)] : Selects(f, s, Len(s))
  BY <1>0, SelectsExists
<1> DEFINE h == CHOOSE h : Selects(h, s, Len(s))
<1>2. Selects(h, s, Len(s))
  BY <1>1
<1>3. AppWrites(s) = h[Len(s)]
  BY DEF AppWrites, Selects
<1>4. f[Len(s)] = h[Len(s)]
  <2> HIDE DEF h
  <2>1. Agree(s, s, Len(s))
    BY DEF Agree
  <2> QED
    BY <1>0, <1>1, <1>2, <2>1, SelectsSame
<1> QED
  BY <1>1, <1>3, <1>4

\* The application's messages among none, and among one more.
LEMMA AppWritesNone == AppWrites(<<>>) = <<>>
<1>1. <<>> \in Seq(Item) /\ Len(<<>>) = 0
  OBVIOUS
<1>2. PICK f : /\ f \in [0..Len(<<>>) -> Seq(Item)]
               /\ Selects(f, <<>>, Len(<<>>)) /\ AppWrites(<<>>) = f[Len(<<>>)]
  BY <1>1, AppWritesIs
<1>3. SelectsOne(f, <<>>, 0)
  <2>1. Selects(f, <<>>, 0) /\ 0 \in 0..0
    BY <1>1, <1>2
  <2> QED
    BY <2>1, SelectsAt
<1> QED
  BY <1>1, <1>2, <1>3 DEF SelectsOne

LEMMA AppWritesStep ==
  ASSUME NEW s \in Seq(Item), NEW n \in Nat, n + 1 <= Len(s)
  PROVE  /\ AppWrites(Cut(s, n)) \in Seq(Item)
         /\ s[n + 1] \in Item
         /\ AppWrites(Cut(s, n + 1)) =
              IF s[n + 1].by = "app" THEN Append(AppWrites(Cut(s, n)), s[n + 1])
              ELSE AppWrites(Cut(s, n))
<1> DEFINE c == Cut(s, n)
           d == Cut(s, n + 1)
<1>0. Len(s) \in Nat /\ n \in 0..Len(s) /\ n + 1 \in 0..Len(s) /\ n + 1 \in 1..Len(s)
  OBVIOUS
<1>1. /\ c \in Seq(Item) /\ Len(c) = n /\ \A i \in 1..n : c[i] = s[i]
      /\ d \in Seq(Item) /\ Len(d) = n + 1 /\ \A i \in 1..n + 1 : d[i] = s[i]
  BY <1>0, CutProperties
<1> HIDE DEF c, d
<1>2. PICK f : f \in [0..n -> Seq(Item)] /\ Selects(f, c, n) /\ AppWrites(c) = f[n]
  BY <1>1, AppWritesIs
<1>3. PICK g : /\ g \in [0..n + 1 -> Seq(Item)] /\ Selects(g, d, n + 1)
               /\ AppWrites(d) = g[n + 1]
  BY <1>1, AppWritesIs
<1>4. f[n] = g[n]
  <2>1. Agree(c, d, n)
    BY <1>1 DEF Agree
  <2>2. n + 1 \in Nat /\ n <= n + 1
    OBVIOUS
  <2>3. Selects(f, c, n) /\ Selects(g, d, n + 1)
    BY <1>2, <1>3
  <2> QED
    BY <2>1, <2>2, <2>3, SelectsSame
<1>5. SelectsOne(g, d, n + 1)
  <2>1. n + 1 \in Nat /\ n + 1 \in 0..n + 1
    OBVIOUS
  <2> QED
    BY <1>3, <2>1, SelectsAt
<1>6. d[n + 1] = s[n + 1] /\ n + 1 # 0 /\ (n + 1) - 1 = n
  BY <1>1
<1>7. AppWrites(d) = IF s[n + 1].by = "app" THEN Append(AppWrites(c), s[n + 1]) ELSE AppWrites(c)
  BY <1>2, <1>3, <1>4, <1>5, <1>6 DEF SelectsOne
<1>8. AppWrites(c) \in Seq(Item) /\ s[n + 1] \in Item
  <2>1. n \in 0..n
    OBVIOUS
  <2> QED
    BY <1>0, <1>2, <2>1, ElementOfSeq
<1> QED
  BY <1>7, <1>8 DEF c, d

\* The sequence b goes on where a stops.
Starts(a, b) == Len(a) <= Len(b) /\ \A i \in 1..Len(a) : a[i] = b[i]

\* A whole log, cut at its end, and a longer one, cut at the end of its
\* beginning.
LEMMA CutWhole ==
  ASSUME NEW s \in Seq(Item), NEW t \in Seq(Item), Starts(s, t)
  PROVE  Cut(t, Len(s)) = s
<1>1. Len(s) \in 0..Len(t)
  BY LenProperties DEF Starts
<1>2. /\ Cut(t, Len(s)) \in Seq(Item) /\ Len(Cut(t, Len(s))) = Len(s)
      /\ \A i \in 1..Len(s) : Cut(t, Len(s))[i] = t[i]
  BY <1>1, CutProperties
<1>3. \A i \in 1..Len(s) : Cut(t, Len(s))[i] = s[i]
  BY <1>2 DEF Starts
<1> QED
  BY <1>2, <1>3, SeqEqual

LEMMA StartsAppend ==
  ASSUME NEW Set, NEW a \in Seq(Set), NEW x \in Set
  PROVE  Starts(a, Append(a, x))
BY AppendProperties DEF Starts

LEMMA StartsTransitive ==
  ASSUME NEW Set, NEW a \in Seq(Set), NEW b \in Seq(Set), NEW c \in Seq(Set),
         Starts(a, b), Starts(b, c)
  PROVE  Starts(a, c)
BY LenProperties DEF Starts

\* A longer beginning of a log has the messages of a shorter one, and
\* possibly more.
LEMMA Grows ==
  ASSUME NEW s \in Seq(Item), NEW m \in Nat
  PROVE  \A n \in Nat : m <= n /\ n <= Len(s) =>
           /\ AppWrites(Cut(s, n)) \in Seq(Item)
           /\ Starts(AppWrites(Cut(s, m)), AppWrites(Cut(s, n)))
<1> DEFINE A(n) == AppWrites(Cut(s, n))
           T == {n \in Nat : m <= n /\ n <= Len(s) => A(n) \in Seq(Item) /\ Starts(A(m), A(n))}
<1>0. Len(s) \in Nat
  OBVIOUS
<1>a. ASSUME NEW n \in Nat, n <= Len(s) PROVE A(n) \in Seq(Item)
  <2>1. n \in 0..Len(s)
    BY <1>a
  <2>2. Cut(s, n) \in Seq(Item) /\ Len(Cut(s, n)) = n
    BY <2>1, CutProperties
  <2>3. PICK f : /\ f \in [0..n -> Seq(Item)] /\ A(n) = f[n]
    BY <2>2, AppWritesIs
  <2> QED
    BY <2>3
<1> HIDE DEF A
<1>b. m <= Len(s) => Starts(A(m), A(m))
  <2>1. CASE m <= Len(s)
    BY <1>a, <2>1, LenProperties DEF Starts
  <2> QED
    BY <1>0, <2>1
<1>1. 0 \in T
  BY <1>0, <1>a, <1>b
<1>2. ASSUME NEW n \in Nat, n \in T PROVE n + 1 \in T
  <2> SUFFICES ASSUME m <= n + 1, n + 1 <= Len(s)
               PROVE  A(n + 1) \in Seq(Item) /\ Starts(A(m), A(n + 1))
    OBVIOUS
  <2>1. A(n + 1) \in Seq(Item)
    BY <1>a
  <2>2. CASE m = n + 1
    BY <1>0, <1>b, <2>1, <2>2
  <2>3. CASE m # n + 1
    <3>1. m <= n /\ n <= Len(s) /\ m <= Len(s)
      BY <1>0, <2>3
    <3>2. Starts(A(m), A(n)) /\ A(n) \in Seq(Item) /\ A(m) \in Seq(Item)
      BY <1>2, <1>a, <3>1
    <3>3. A(n + 1) = (IF s[n + 1].by = "app" THEN Append(A(n), s[n + 1]) ELSE A(n))
          /\ s[n + 1] \in Item
      BY AppWritesStep DEF A
    <3>4. CASE s[n + 1].by = "app"
      <4>1. Starts(A(n), A(n + 1))
        BY <3>2, <3>3, <3>4, StartsAppend
      <4> QED
        BY <2>1, <3>2, <4>1, StartsTransitive
    <3>5. CASE s[n + 1].by # "app"
      BY <2>1, <3>2, <3>3, <3>5
    <3> QED
      BY <3>4, <3>5
  <2> QED
    BY <2>2, <2>3
<1>3. \A n \in Nat : n \in T
  <2> HIDE DEF T
  <2> QED
    BY <1>1, <1>2, Induction
<1> QED
  BY <1>3 DEF A

\* A log that goes on keeps the messages it has.
LEMMA WritesGrow ==
  ASSUME NEW s \in Seq(Item), NEW t \in Seq(Item), Starts(s, t)
  PROVE  AppWrites(t) \in Seq(Item) /\ Starts(AppWrites(s), AppWrites(t))
<1>1. Len(s) \in Nat /\ Len(t) \in Nat /\ Len(s) <= Len(t) /\ Len(t) <= Len(t)
  BY LenProperties DEF Starts
<1>2. Cut(t, Len(s)) = s
  BY CutWhole
<1>3. Cut(t, Len(t)) = t
  BY <1>1, CutWhole DEF Starts
<1> QED
  BY <1>1, <1>2, <1>3, Grows

\* The message of the application that comes next after a beginning of the
\* log is the next entry of the log, if that is the application's.
LEMMA NextWrite ==
  ASSUME NEW s \in Seq(Item), NEW n \in Nat, n + 1 <= Len(s), s[n + 1].by = "app"
  PROVE  LET k == Len(AppWrites(Cut(s, n)))
         IN  /\ k \in Nat /\ k < Len(AppWrites(s))
             /\ AppWrites(s)[k + 1] = s[n + 1]
<1> DEFINE before == AppWrites(Cut(s, n))
           after == AppWrites(Cut(s, n + 1))
<1>1. before \in Seq(Item) /\ s[n + 1] \in Item /\ after = Append(before, s[n + 1])
  BY AppWritesStep
<1> HIDE DEF before, after
<1>2. /\ after \in Seq(Item) /\ Len(after) = Len(before) + 1
      /\ after[Len(before) + 1] = s[n + 1] /\ Len(before) \in Nat
  BY <1>1, AppendProperties, LenProperties
<1>3. Starts(after, AppWrites(s)) /\ AppWrites(s) \in Seq(Item)
  <2>1. Len(s) \in Nat /\ Len(s) <= Len(s) /\ n + 1 \in Nat
    BY LenProperties
  <2>2. Cut(s, Len(s)) = s
    BY CutWhole, <2>1 DEF Starts
  <2> QED
    BY <2>1, <2>2, Grows DEF after
<1>4. Len(AppWrites(s)) \in Nat /\ Len(before) + 1 \in 1..Len(after)
  BY <1>2, <1>3, LenProperties
<1>5. Len(before) < Len(AppWrites(s)) /\ AppWrites(s)[Len(before) + 1] = s[n + 1]
  BY <1>2, <1>3, <1>4 DEF Starts
<1> QED
  BY <1>2, <1>5 DEF before

-----------------------------------------------------------------------------
(* One direction: the sender's log and what the kernel has taken of it, tx; *)
(* the receiver's frames, rx, of which it has handled n, and what it has    *)
(* delivered of them.                                                       *)

Arriving == {"data", "ping"}

\* The bytes on the way are those of the log, and the receiver's frames are
\* what they make.
Carried(log, tx, rx) ==
  /\ log \in Seq(Item) /\ tx \in Seq(Item) /\ Starts(tx, log)
  /\ Len(rx) \in Nat /\ Len(rx) <= Len(tx)
  /\ \A i \in 1..Len(rx) : rx[i] = Kind(tx[i])

\* The receiver's application has the messages among the frames handled.
Handed(tx, rx, delivered, n) ==
  /\ n \in Nat /\ n <= Len(rx)
  /\ delivered \in Seq(Nat) /\ \A j \in 1..Len(delivered) : delivered[j] \in 1..Len(rx)
  /\ Received(tx, delivered) = AppWrites(Cut(tx, n))

\* The application receives nothing, or the next message.
Receives(log, tx, delivered, delivered2) ==
  \/ Received(tx, delivered2) = Received(tx, delivered)
  \/ /\ Len(Received(tx, delivered)) < Len(AppWrites(log))
     /\ Received(tx, delivered2) =
          Append(Received(tx, delivered), AppWrites(log)[Len(Received(tx, delivered)) + 1])

LEMMA ReceivedTyped ==
  ASSUME NEW tx \in Seq(Item), NEW delivered \in Seq(Nat),
         \A j \in 1..Len(delivered) : delivered[j] \in 1..Len(tx)
  PROVE  /\ Received(tx, delivered) \in Seq(Item)
         /\ Len(Received(tx, delivered)) = Len(delivered)
         /\ \A j \in 1..Len(delivered) : Received(tx, delivered)[j] = tx[delivered[j]]
<1>1. DOMAIN delivered = 1..Len(delivered) /\ Len(delivered) \in Nat
  OBVIOUS
<1>2. Received(tx, delivered) = [j \in 1..Len(delivered) |-> tx[delivered[j]]]
  BY <1>1 DEF Received
<1>3. \A j \in 1..Len(delivered) : tx[delivered[j]] \in Item
  BY ElementOfSeq
<1>4. Received(tx, delivered) \in [1..Len(delivered) -> Item]
  BY <1>2, <1>3
<1> QED
  BY <1>1, <1>2, <1>4

\* The sender's log grows, or the kernel takes more of it.
LEMMA SenderStep ==
  ASSUME NEW log, NEW tx, NEW rx, Carried(log, tx, rx),
         NEW delivered, NEW n, Handed(tx, rx, delivered, n),
         NEW log2 \in Seq(Item), NEW tx2 \in Seq(Item),
         Starts(log, log2), Starts(tx, tx2), Starts(tx2, log2)
  PROVE  /\ Carried(log2, tx2, rx) /\ Handed(tx2, rx, delivered, n)
         /\ Received(tx2, delivered) = Received(tx, delivered)
         /\ AppWrites(log2) \in Seq(Item) /\ Starts(AppWrites(log), AppWrites(log2))
<1>1. /\ log \in Seq(Item) /\ tx \in Seq(Item) /\ Len(tx) \in Nat /\ Len(tx2) \in Nat
      /\ Len(rx) \in Nat /\ n \in Nat /\ n <= Len(rx) /\ Len(rx) <= Len(tx)
      /\ Len(tx) <= Len(tx2)
  BY LenProperties DEF Carried, Handed, Starts
<1>2. Carried(log2, tx2, rx)
  <2>1. \A i \in 1..Len(rx) : i \in 1..Len(tx) /\ tx2[i] = tx[i]
    BY <1>1 DEF Starts
  <2>2. \A i \in 1..Len(rx) : rx[i] = Kind(tx2[i])
    BY <2>1 DEF Carried
  <2>3. Len(rx) <= Len(tx2)
    BY <1>1
  <2> QED
    BY <1>1, <2>2, <2>3 DEF Carried
<1>3. Received(tx2, delivered) = Received(tx, delivered)
  <2>1. \A j \in 1..Len(delivered) : /\ delivered[j] \in 1..Len(tx) /\ delivered[j] \in 1..Len(tx2)
                                     /\ tx[delivered[j]] = tx2[delivered[j]]
    BY <1>1 DEF Handed, Starts
  <2>2. DOMAIN delivered = 1..Len(delivered)
    BY DEF Handed
  <2> QED
    BY <2>1, <2>2 DEF Received
<1>4. Cut(tx2, n) = Cut(tx, n)
  <2>1. n \in 0..Len(tx) /\ n \in 0..Len(tx2)
    BY <1>1
  <2>2. /\ Cut(tx, n) \in Seq(Item) /\ Len(Cut(tx, n)) = n
        /\ \A i \in 1..n : Cut(tx, n)[i] = tx[i]
    BY <1>1, <2>1, CutProperties
  <2>3. /\ Cut(tx2, n) \in Seq(Item) /\ Len(Cut(tx2, n)) = n
        /\ \A i \in 1..n : Cut(tx2, n)[i] = tx2[i]
    BY <2>1, CutProperties
  <2>4. \A i \in 1..n : tx[i] = tx2[i]
    BY <1>1 DEF Starts
  <2> QED
    BY <2>2, <2>3, <2>4, SeqEqual
<1>5. Handed(tx2, rx, delivered, n)
  BY <1>3, <1>4 DEF Handed
<1> QED
  BY <1>1, <1>2, <1>3, <1>5, WritesGrow

\* A frame arrives.
LEMMA ArriveStep ==
  ASSUME NEW log, NEW tx, NEW rx \in Seq(Arriving), Carried(log, tx, rx),
         NEW delivered, NEW n, Handed(tx, rx, delivered, n),
         Len(rx) < Len(tx)
  PROVE  LET rx2 == Append(rx, Kind(tx[Len(rx) + 1]))
         IN  Carried(log, tx, rx2) /\ Handed(tx, rx2, delivered, n)
<1>1. Kind(tx[Len(rx) + 1]) \in Arriving
  BY DEF Kind, Arriving
<1> DEFINE rx2 == Append(rx, Kind(tx[Len(rx) + 1]))
<1>2. /\ rx2 \in Seq(Arriving) /\ Len(rx2) = Len(rx) + 1 /\ Len(rx) \in Nat /\ Len(rx2) \in Nat
      /\ \A i \in 1..Len(rx) : rx2[i] = rx[i]
      /\ rx2[Len(rx) + 1] = Kind(tx[Len(rx) + 1])
  BY <1>1, AppendProperties, LenProperties
<1>3. Len(tx) \in Nat
  BY LenProperties DEF Carried
<1> HIDE DEF rx2
<1>4. \A i \in 1..Len(rx2) : rx2[i] = Kind(tx[i])
  BY <1>2 DEF Carried
<1>5. Carried(log, tx, rx2)
  BY <1>2, <1>3, <1>4 DEF Carried
<1>6. Handed(tx, rx2, delivered, n)
  <2>1. \A j \in 1..Len(delivered) : delivered[j] \in 1..Len(rx2)
    BY <1>2 DEF Handed
  <2> QED
    BY <1>2, <2>1 DEF Handed
<1> QED
  BY <1>5, <1>6 DEF rx2

\* A heartbeat or an echo is handled.
LEMMA SkipStep ==
  ASSUME NEW log, NEW tx, NEW rx, Carried(log, tx, rx),
         NEW delivered, NEW n, Handed(tx, rx, delivered, n),
         n < Len(rx), rx[n + 1] = "ping"
  PROVE  Handed(tx, rx, delivered, n + 1)
<1>1. n \in Nat /\ n + 1 \in 1..Len(rx) /\ n + 1 <= Len(tx) /\ tx \in Seq(Item)
  BY LenProperties DEF Carried, Handed
<1>2. tx[n + 1].by # "app"
  BY <1>1 DEF Carried, Kind
<1>3. AppWrites(Cut(tx, n + 1)) = AppWrites(Cut(tx, n))
  BY <1>1, <1>2, AppWritesStep
<1> QED
  BY <1>1, <1>3 DEF Handed

\* A message is handed to the application: it is the next one written.
LEMMA DeliverStep ==
  ASSUME NEW log, NEW tx, NEW rx, Carried(log, tx, rx),
         NEW delivered, NEW n, Handed(tx, rx, delivered, n),
         n < Len(rx), rx[n + 1] = "data"
  PROVE  /\ Handed(tx, rx, Append(delivered, n + 1), n + 1)
         /\ Receives(log, tx, delivered, Append(delivered, n + 1))
<1>1. /\ n \in Nat /\ n + 1 \in 1..Len(rx) /\ n + 1 <= Len(tx) /\ n + 1 <= Len(log)
      /\ tx \in Seq(Item) /\ log \in Seq(Item) /\ delivered \in Seq(Nat)
      /\ n + 1 \in 1..Len(tx) /\ Len(delivered) \in Nat
  BY LenProperties DEF Carried, Handed, Starts
<1>2. tx[n + 1] = log[n + 1] /\ tx[n + 1] \in Item
  BY <1>1, ElementOfSeq DEF Carried, Starts
<1>3. tx[n + 1].by = "app"
  BY <1>1, <1>2 DEF Carried, Kind, Item
<1> DEFINE before == Received(tx, delivered)
           more == Append(delivered, n + 1)
           x == tx[n + 1]
<1>4. before \in Seq(Item) /\ Len(before) = Len(delivered) /\ before = AppWrites(Cut(tx, n))
      /\ \A j \in 1..Len(delivered) : before[j] = tx[delivered[j]]
  <2>1. \A j \in 1..Len(delivered) : delivered[j] \in 1..Len(tx)
    BY <1>1 DEF Handed, Carried
  <2> QED
    BY <1>1, <2>1, ReceivedTyped DEF Handed
<1>5. AppWrites(Cut(tx, n + 1)) = Append(before, x)
  BY <1>1, <1>3, <1>4, AppWritesStep
<1>6. /\ more \in Seq(Nat) /\ Len(more) = Len(delivered) + 1
      /\ \A j \in 1..Len(delivered) : more[j] = delivered[j]
      /\ more[Len(delivered) + 1] = n + 1
  BY <1>1, AppendProperties
<1> HIDE DEF more
<1>7. \A j \in 1..Len(more) : more[j] \in 1..Len(rx) /\ more[j] \in 1..Len(tx)
  <2>1. Len(rx) \in Nat /\ Len(rx) <= Len(tx) /\ Len(tx) \in Nat
    BY <1>1, LenProperties DEF Carried
  <2>2. \A j \in 1..Len(delivered) : delivered[j] \in 1..Len(rx)
    BY DEF Handed
  <2>3. ASSUME NEW j \in 1..Len(more) PROVE more[j] \in 1..Len(rx)
    <3>1. j \in 1..Len(delivered) \/ j = Len(delivered) + 1
      BY <1>1, <1>6
    <3>2. CASE j \in 1..Len(delivered)
      BY <1>6, <2>2, <3>2
    <3>3. CASE j = Len(delivered) + 1
      BY <1>1, <1>6, <3>3
    <3> QED
      BY <3>1, <3>2, <3>3
  <2> QED
    BY <2>1, <2>3
<1>8. Received(tx, more) = Append(before, x)
  <2>1. /\ Received(tx, more) \in Seq(Item) /\ Len(Received(tx, more)) = Len(more)
        /\ \A j \in 1..Len(more) : Received(tx, more)[j] = tx[more[j]]
    BY <1>1, <1>6, <1>7, ReceivedTyped
  <2>2. /\ Append(before, x) \in Seq(Item) /\ Len(Append(before, x)) = Len(before) + 1
        /\ \A j \in 1..Len(before) : Append(before, x)[j] = before[j]
        /\ Append(before, x)[Len(before) + 1] = x
    BY <1>2, <1>4, AppendProperties
  <2> HIDE DEF before, x
  <2>3. ASSUME NEW j \in 1..Len(more) PROVE Received(tx, more)[j] = Append(before, x)[j]
    <3>1. CASE j \in 1..Len(delivered)
      <4>1. Received(tx, more)[j] = tx[delivered[j]]
        BY <1>6, <2>1, <3>1
      <4>2. Append(before, x)[j] = before[j] /\ before[j] = tx[delivered[j]]
        BY <1>4, <2>2, <3>1
      <4> QED
        BY <4>1, <4>2
    <3>2. CASE j = Len(delivered) + 1
      <4>1. more[j] = n + 1 /\ j = Len(before) + 1
        BY <1>4, <1>6, <3>2
      <4>2. Received(tx, more)[j] = x
        BY <2>1, <4>1 DEF x
      <4>3. Append(before, x)[j] = x
        BY <2>2, <4>1
      <4> QED
        BY <4>2, <4>3
    <3>3. j \in 1..Len(delivered) \/ j = Len(delivered) + 1
      BY <1>1, <1>6
    <3> QED
      BY <3>1, <3>2, <3>3
  <2> QED
    BY <1>4, <1>6, <2>1, <2>2, <2>3, SeqEqual
<1>9. Handed(tx, rx, more, n + 1)
  <2>1. Received(tx, more) = AppWrites(Cut(tx, n + 1))
    BY <1>5, <1>8
  <2>2. n + 1 \in Nat /\ n + 1 <= Len(rx)
    BY <1>1
  <2> HIDE DEF before, x
  <2> QED
    BY <1>6, <1>7, <2>1, <2>2 DEF Handed
<1>10. Len(before) < Len(AppWrites(log)) /\ AppWrites(log)[Len(before) + 1] = x
  <2>1. Cut(log, n) = Cut(tx, n)
    <3>1. n \in 0..Len(tx) /\ n \in 0..Len(log)
      BY <1>1, LenProperties
    <3>2. /\ Cut(tx, n) \in Seq(Item) /\ Len(Cut(tx, n)) = n
          /\ \A i \in 1..n : Cut(tx, n)[i] = tx[i]
      BY <1>1, <3>1, CutProperties
    <3>3. /\ Cut(log, n) \in Seq(Item) /\ Len(Cut(log, n)) = n
          /\ \A i \in 1..n : Cut(log, n)[i] = log[i]
      BY <1>1, <3>1, CutProperties
    <3>4. \A i \in 1..n : tx[i] = log[i]
      <4>1. Starts(tx, log) /\ Len(tx) \in Nat
        BY <1>1, LenProperties DEF Carried
      <4>2. \A i \in 1..n : i \in 1..Len(tx)
        BY <1>1, <4>1
      <4> QED
        BY <4>1, <4>2 DEF Starts
    <3> QED
      BY <3>2, <3>3, <3>4, SeqEqual
  <2>2. log[n + 1].by = "app"
    BY <1>2, <1>3
  <2> QED
    BY <1>1, <1>2, <1>4, <2>1, <2>2, NextWrite
<1> QED
  BY <1>8, <1>9, <1>10 DEF more, Receives

-----------------------------------------------------------------------------
(* The two ends, with what is proved of them.                              *)

SP == INSTANCE SessionProofs WITH
  InKinds <- {"data", "ping"}, MaxFrames <- ClientWrites + MaxBeats,
  MaxWrites <- SessionWrites,
  readOp <- sReadOp, messageItemQueue <- sQueue, writing <- sWriting,
  timer <- sTimer, closes <- sCloses, accepted <- sAccepted,
  called <- sCalled, delivered <- sDelivered, rx <- sRx, rcvd <- sRcvd,
  tx <- sTx, peer <- sPeer, beats <- sBeats

CP == INSTANCE ClientProofs WITH
  InKinds <- {"data", "ping"}, MaxFrames <- SessionWrites + MaxBeats,
  MaxWrites <- ClientWrites,
  readOp <- cReadOp, messageItemQueue <- cQueue, writing <- cWriting,
  errors <- cErrors, failures <- cFailures, accepted <- cAccepted,
  called <- cCalled, delivered <- cDelivered, rx <- cRx, rcvd <- cRcvd,
  tx <- cTx, conn <- cConn, untried <- cUntried

\* The ends of the link are the ends the proofs are about.
LEMMA SameSession == (S!Init <=> SP!Init) /\ (S!Next <=> SP!Next) /\ S!vars = SP!vars
<1>1. S!Init <=> SP!Init
  BY DEF S!Init, SP!Init
<1>2. S!vars = SP!vars
  BY DEF S!vars, SP!vars
<1>3. S!Next <=> SP!Next
  BY DEF
    S!Cancel, S!ExpiresFromNow, S!AsyncWait, S!ResetHeartbeatTimer,
    S!RearmHeartbeat, S!TimerOnError, S!WriteSide, S!Replies, S!CallbackWrites,
    S!SetWriteSide, S!HandleError, S!Start, S!HeaderArrived, S!BodyArrived,
    S!ReadFails, S!ReadStops, S!ReadMessageHeader, S!RejectMessageHeader,
    S!FailMessageHeader, S!HandleReadMessageHeader, S!ReadMessageBody,
    S!FailMessageBody, S!HandleReadMessageBody, S!Finished, S!AtHandler,
    S!WriteSucceeded, S!WriteFailed, S!HandleWrite, S!HeartbeatHandle, S!AppWrite,
    S!TimerExpires, S!SendCompletes, S!SendFails, S!PeerSend, S!PeerFin,
    S!PeerReset, S!Next, S!DecodeHeader, S!IsHeartbeat, S!AsyncWrite, S!NewItems,
    S!Write, S!PopFront, S!Completed, S!Remove, S!writeVars, S!peerVars, SP!Cancel,
    SP!ExpiresFromNow, SP!AsyncWait, SP!ResetHeartbeatTimer, SP!RearmHeartbeat,
    SP!TimerOnError, SP!WriteSide, SP!Replies, SP!CallbackWrites, SP!SetWriteSide,
    SP!HandleError, SP!Start, SP!HeaderArrived, SP!BodyArrived, SP!ReadFails,
    SP!ReadStops, SP!ReadMessageHeader, SP!RejectMessageHeader,
    SP!FailMessageHeader, SP!HandleReadMessageHeader, SP!ReadMessageBody,
    SP!FailMessageBody, SP!HandleReadMessageBody, SP!Finished, SP!AtHandler,
    SP!WriteSucceeded, SP!WriteFailed, SP!HandleWrite, SP!HeartbeatHandle,
    SP!AppWrite, SP!TimerExpires, SP!SendCompletes, SP!SendFails, SP!PeerSend,
    SP!PeerFin, SP!PeerReset, SP!Next, SP!DecodeHeader, SP!IsHeartbeat,
    SP!AsyncWrite, SP!NewItems, SP!Write, SP!PopFront, SP!Completed, SP!Remove,
    SP!writeVars, SP!peerVars
<1> QED
  BY <1>1, <1>2, <1>3

LEMMA SameClient == (C!Init <=> CP!Init) /\ (C!Next <=> CP!Next) /\ C!vars = CP!vars
<1>1. C!Init <=> CP!Init
  BY DEF C!Init, CP!Init
<1>2. C!vars = CP!vars
  BY DEF C!vars, CP!vars
<1>3. C!Next <=> CP!Next
  BY DEF
    C!WriteSide, C!Replies, C!CallbackWrites, C!SetWriteSide, C!WritesOf, C!Start,
    C!ReadStops, C!ConnectFailed, C!HandleConnect, C!HeaderArrived, C!BodyArrived,
    C!ReadFails, C!HandleReadMessageHeader, C!Echo, C!Deliver,
    C!HandleReadMessageBody, C!AppWrite, C!Finished, C!AtHandler, C!WriteSucceeded,
    C!AfterError, C!WriteFailed, C!HandleWrite, C!Aborted, C!AttemptFails,
    C!NextEndpoint, C!Connected, C!SendCompletes, C!SendFails, C!PeerSend,
    C!PeerFin, C!PeerReset, C!Next, C!DecodeHeader, C!IsHeartbeat, C!AsyncWrite,
    C!NewItems, C!Write, C!PopFront, C!Completed, C!Remove, C!writeVars, C!connVars,
    CP!WriteSide, CP!Replies, CP!CallbackWrites, CP!SetWriteSide, CP!WritesOf,
    CP!Start, CP!ReadStops, CP!ConnectFailed, CP!HandleConnect, CP!HeaderArrived,
    CP!BodyArrived, CP!ReadFails, CP!HandleReadMessageHeader, CP!Echo, CP!Deliver,
    CP!HandleReadMessageBody, CP!AppWrite, CP!Finished, CP!AtHandler,
    CP!WriteSucceeded, CP!AfterError, CP!WriteFailed, CP!HandleWrite, CP!Aborted,
    CP!AttemptFails, CP!NextEndpoint, CP!Connected, CP!SendCompletes, CP!SendFails,
    CP!PeerSend, CP!PeerFin, CP!PeerReset, CP!Next, CP!DecodeHeader, CP!IsHeartbeat,
    CP!AsyncWrite, CP!NewItems, CP!Write, CP!PopFront, CP!Completed, CP!Remove,
    CP!writeVars, CP!connVars
<1> QED
  BY <1>1, <1>2, <1>3

-----------------------------------------------------------------------------
(* The reader of a direction.                                              *)

\* How many frames the reader has handled.
HandledOf(op, rcvd) == IF op = "body" THEN rcvd - 1 ELSE rcvd

\* The application has the messages among the frames handled; when reading
\* has stopped, the last frame may have been read in vain.
Reads(op, rx, rcvd, delivered, tx) ==
  /\ rx \in Seq(Arriving) /\ rcvd \in 0..Len(rx) /\ (op = "body" => rcvd > 0)
  /\ \E n \in 0..Len(rx) : /\ op # "stopped" => n = HandledOf(op, rcvd)
                           /\ Handed(tx, rx, delivered, n)

\* What a step of either end does to its reader.
Stays(op, op2, rcvd, rcvd2, delivered, delivered2) ==
  /\ delivered2 = delivered
  /\ \/ rcvd2 = rcvd /\ op2 = op
     \/ rcvd2 = rcvd /\ op \notin {"body", "stopped"} /\ op2 \notin {"body", "stopped"}
     \/ op \notin {"body", "stopped"} /\ op2 = "body" /\ rcvd2 = rcvd + 1
     \/ op2 = "stopped" /\ rcvd2 \in {rcvd, rcvd + 1}

Handles(op, op2, rx, rcvd, rcvd2, delivered, delivered2) ==
  /\ op = "body" /\ op2 = "header" /\ rcvd2 = rcvd
  /\ \/ rx[rcvd] # "data" /\ delivered2 = delivered
     \/ rx[rcvd] # "ping" /\ delivered2 = Append(delivered, rcvd)

LEMMA ReaderStep ==
  ASSUME NEW log, NEW tx, NEW rx, Carried(log, tx, rx),
         NEW op, NEW op2, NEW rcvd, NEW rcvd2, NEW delivered, NEW delivered2,
         Reads(op, rx, rcvd, delivered, tx), rcvd2 \in 0..Len(rx),
         \/ Stays(op, op2, rcvd, rcvd2, delivered, delivered2)
         \/ Handles(op, op2, rx, rcvd, rcvd2, delivered, delivered2)
  PROVE  /\ Reads(op2, rx, rcvd2, delivered2, tx)
         /\ Receives(log, tx, delivered, delivered2)
<1>1. PICK n \in 0..Len(rx) : /\ op # "stopped" => n = HandledOf(op, rcvd)
                              /\ Handed(tx, rx, delivered, n)
  BY DEF Reads
<1>2. /\ rx \in Seq(Arriving) /\ rcvd \in 0..Len(rx) /\ (op = "body" => rcvd > 0)
      /\ Len(rx) \in Nat
  BY LenProperties DEF Reads
<1>3. CASE Stays(op, op2, rcvd, rcvd2, delivered, delivered2)
  <2>1. delivered2 = delivered
    BY <1>3 DEF Stays
  <2>2. op2 = "body" => rcvd2 > 0
    BY <1>2, <1>3 DEF Stays
  <2>3. op2 # "stopped" => n = HandledOf(op2, rcvd2)
    BY <1>1, <1>2, <1>3 DEF Stays, HandledOf
  <2>4. Reads(op2, rx, rcvd2, delivered2, tx)
    BY <1>1, <1>2, <2>1, <2>2, <2>3 DEF Reads
  <2> QED
    BY <2>1, <2>4 DEF Receives
<1>4. CASE Handles(op, op2, rx, rcvd, rcvd2, delivered, delivered2)
  <2>1. /\ op = "body" /\ op2 = "header" /\ rcvd2 = rcvd /\ rcvd > 0
        /\ n = rcvd - 1 /\ n < Len(rx) /\ n + 1 = rcvd /\ n + 1 \in 0..Len(rx)
    BY <1>1, <1>2, <1>4 DEF Handles, HandledOf
  <2>2. rx[n + 1] \in Arriving
    BY <1>2, <2>1, ElementOfSeq
  <2>3. CASE rx[n + 1] = "ping"
    <3>1. delivered2 = delivered
      BY <1>4, <2>1, <2>3 DEF Handles
    <3>2. Handed(tx, rx, delivered, n + 1)
      BY <1>1, <2>1, <2>3, SkipStep
    <3>3. Reads(op2, rx, rcvd2, delivered2, tx)
      BY <1>2, <2>1, <3>1, <3>2 DEF Reads, HandledOf
    <3> QED
      BY <3>1, <3>3 DEF Receives
  <2>4. CASE rx[n + 1] = "data"
    <3>1. delivered2 = Append(delivered, n + 1)
      BY <1>4, <2>1, <2>4 DEF Handles
    <3>4. Handed(tx, rx, delivered, n) /\ n < Len(rx)
      BY <1>1, <2>1
    <3>2. /\ Handed(tx, rx, delivered2, n + 1)
          /\ Receives(log, tx, delivered, delivered2)
      BY <2>4, <3>1, <3>4, DeliverStep
    <3>3. Reads(op2, rx, rcvd2, delivered2, tx)
      BY <1>2, <2>1, <3>2 DEF Reads, HandledOf
    <3> QED
      BY <3>2, <3>3
  <2> QED
    BY <2>2, <2>3, <2>4 DEF Arriving
<1> QED
  BY <1>3, <1>4

\* A frame arrives at the reader.
LEMMA ReaderArrive ==
  ASSUME NEW log, NEW tx, NEW rx, Carried(log, tx, rx), Len(rx) < Len(tx),
         NEW op, NEW rcvd, NEW delivered, Reads(op, rx, rcvd, delivered, tx),
         NEW rx2, rx2 = Append(rx, Kind(tx[Len(rx) + 1]))
  PROVE  Carried(log, tx, rx2) /\ Reads(op, rx2, rcvd, delivered, tx)
<1>1. PICK n \in 0..Len(rx) : /\ op # "stopped" => n = HandledOf(op, rcvd)
                              /\ Handed(tx, rx, delivered, n)
  BY DEF Reads
<1>2. /\ rx \in Seq(Arriving) /\ rcvd \in 0..Len(rx) /\ (op = "body" => rcvd > 0)
      /\ Len(rx) \in Nat /\ Kind(tx[Len(rx) + 1]) \in Arriving
  BY LenProperties DEF Reads, Kind, Arriving
<1>3. Carried(log, tx, rx2) /\ Handed(tx, rx2, delivered, n)
  BY <1>1, <1>2, ArriveStep
<1>4. rx2 \in Seq(Arriving) /\ Len(rx2) = Len(rx) + 1
  BY <1>2, AppendProperties
<1>5. n \in 0..Len(rx2) /\ rcvd \in 0..Len(rx2)
  BY <1>2, <1>4
<1> QED
  BY <1>1, <1>2, <1>3, <1>4, <1>5 DEF Reads

\* The log at the other end of the direction grows, or more of it is taken.
Advances(log, log2, tx, tx2) ==
  /\ log2 \in Seq(Item) /\ tx2 \in Seq(Item)
  /\ Starts(log, log2) /\ Starts(tx, tx2) /\ Starts(tx2, log2)

LEMMA ReaderWaits ==
  ASSUME NEW log, NEW tx, NEW rx, Carried(log, tx, rx),
         NEW op, NEW rcvd, NEW delivered, Reads(op, rx, rcvd, delivered, tx),
         NEW log2, NEW tx2, Advances(log, log2, tx, tx2)
  PROVE  /\ Carried(log2, tx2, rx) /\ Reads(op, rx, rcvd, delivered, tx2)
         /\ Received(tx2, delivered) = Received(tx, delivered)
         /\ AppWrites(log2) \in Seq(Item) /\ Starts(AppWrites(log), AppWrites(log2))
<1>1. PICK n \in 0..Len(rx) : /\ op # "stopped" => n = HandledOf(op, rcvd)
                              /\ Handed(tx, rx, delivered, n)
  BY DEF Reads
<1>2. /\ Carried(log2, tx2, rx) /\ Handed(tx2, rx, delivered, n)
      /\ Received(tx2, delivered) = Received(tx, delivered)
      /\ AppWrites(log2) \in Seq(Item) /\ Starts(AppWrites(log), AppWrites(log2))
  BY <1>1, SenderStep DEF Advances
<1> QED
  BY <1>1, <1>2 DEF Reads

-----------------------------------------------------------------------------
(* The steps of the two ends.                                              *)

\* What a step of the session that is no arrival does to its reader, and the
\* same of the client.
LEMMA SessionReader ==
  ASSUME SessionStep \/ SessionLoses
  PROVE  /\ S!Next /\ UNCHANGED cVars /\ sRx' = sRx
         /\ \/ Stays(sReadOp, sReadOp', sRcvd, sRcvd', sDelivered, sDelivered')
            \/ Handles(sReadOp, sReadOp', sRx, sRcvd, sRcvd', sDelivered, sDelivered')
<1>1. S!Next /\ UNCHANGED cVars
  BY DEF SessionStep, SessionLoses, SessionStarts, SessionHandles, S!Next
<1>2. CASE S!Start
  BY <1>1, <1>2 DEF S!Start, S!peerVars, Stays
<1>3. CASE S!HandleReadMessageHeader
  BY <1>1, <1>3 DEF S!HandleReadMessageHeader, S!ReadMessageHeader, S!RejectMessageHeader,
    S!FailMessageHeader, S!ReadStops, S!peerVars, Stays
<1>4. CASE S!ReadMessageBody
  <2>1. /\ sReadOp = "body" /\ sReadOp' = "header" /\ sRcvd' = sRcvd /\ sRx' = sRx
    BY <1>4 DEF S!ReadMessageBody, S!peerVars
  <2>2. PICK heartbeat \in S!IsHeartbeat(sRx[sRcvd]) :
          \/ heartbeat /\ sDelivered' = sDelivered
          \/ ~heartbeat /\ sDelivered' = Append(sDelivered, sRcvd)
    BY <1>4 DEF S!ReadMessageBody
  <2>3. /\ heartbeat => sRx[sRcvd] # "data"
        /\ ~heartbeat => sRx[sRcvd] # "ping"
    BY <2>2 DEF S!IsHeartbeat
  <2> QED
    BY <1>1, <2>1, <2>2, <2>3 DEF Handles
<1>5. CASE S!FailMessageBody
  BY <1>1, <1>5 DEF S!FailMessageBody, S!ReadStops, S!peerVars, Stays
<1>6. CASE \/ S!HandleWrite \/ S!HeartbeatHandle \/ S!AppWrite \/ S!TimerExpires
           \/ S!SendCompletes \/ S!SendFails \/ S!PeerFin \/ S!PeerReset
  BY <1>1, <1>6 DEF S!HandleWrite, S!HeartbeatHandle, S!AppWrite, S!TimerExpires,
    S!SendCompletes, S!SendFails, S!PeerFin, S!PeerReset, S!peerVars, Stays
<1> QED
  BY <1>1, <1>2, <1>3, <1>4, <1>5, <1>6
    DEF SessionStep, SessionLoses, SessionStarts, SessionHandles, S!HandleReadMessageBody

LEMMA ClientReader ==
  ASSUME ClientStep \/ ClientLoses
  PROVE  /\ C!Next /\ UNCHANGED sVars /\ cRx' = cRx
         /\ \/ Stays(cReadOp, cReadOp', cRcvd, cRcvd', cDelivered, cDelivered')
            \/ Handles(cReadOp, cReadOp', cRx, cRcvd, cRcvd', cDelivered, cDelivered')
<1>1. C!Next /\ UNCHANGED sVars
  BY DEF ClientStep, ClientLoses, ClientHandles, C!Next
<1>2. CASE C!Start \/ C!HandleConnect
  BY <1>1, <1>2 DEF C!Start, C!HandleConnect, C!ReadStops, Stays
<1>3. CASE C!HandleReadMessageHeader
  BY <1>1, <1>3 DEF C!HandleReadMessageHeader, C!ReadStops, Stays
<1>4. CASE C!HandleReadMessageBody
  <2>1. cReadOp = "body" /\ cRcvd' = cRcvd /\ cRx' = cRx
    BY <1>4 DEF C!HandleReadMessageBody, C!ReadStops
  <2>2. CASE C!ReadStops
    BY <1>1, <2>1, <2>2 DEF C!ReadStops, Stays
  <2>3. CASE ~C!ReadStops
    <3>1. cReadOp' = "header"
      BY <1>4, <2>3 DEF C!HandleReadMessageBody
    <3>2. PICK heartbeat \in C!IsHeartbeat(cRx[cRcvd]) :
            \/ heartbeat /\ cDelivered' = cDelivered
            \/ ~heartbeat /\ cDelivered' = Append(cDelivered, cRcvd)
      BY <1>4, <2>3 DEF C!HandleReadMessageBody, C!Echo, C!Deliver
    <3>3. /\ heartbeat => cRx[cRcvd] # "data"
          /\ ~heartbeat => cRx[cRcvd] # "ping"
      BY <3>2 DEF C!IsHeartbeat
    <3> QED
      BY <1>1, <2>1, <3>1, <3>2, <3>3 DEF Handles
  <2> QED
    BY <2>2, <2>3
<1>5. CASE \/ C!HandleWrite \/ C!AppWrite \/ C!AttemptFails \/ C!NextEndpoint \/ C!Connected
           \/ C!SendCompletes \/ C!SendFails \/ C!PeerFin \/ C!PeerReset
  BY <1>1, <1>5 DEF C!HandleWrite, C!AppWrite, C!AttemptFails, C!NextEndpoint, C!Connected,
    C!SendCompletes, C!SendFails, C!PeerFin, C!PeerReset, Stays
<1> QED
  BY <1>1, <1>2, <1>3, <1>4, <1>5 DEF ClientStep, ClientLoses, ClientHandles

-----------------------------------------------------------------------------
(* Steps of a channel.                                                     *)

\* Every message write() was called with at the two ends.
SLog == sCalled \o sQueue
CLog == cCalled \o cQueue

\* One more write is a write of the channel, one more delivery a receipt.
LEMMA StartsIsPrefix ==
  ASSUME NEW a \in Seq(Item), NEW b \in Seq(Item), Starts(a, b)
  PROVE  Len(a) <= Len(b) /\ SubSeq(a, 1, Len(a)) = SubSeq(b, 1, Len(a))
<1>1. Starts(a, a)
  BY LenProperties DEF Starts
<1>2. Cut(a, Len(a)) = a /\ Cut(b, Len(a)) = a
  BY <1>1, CutWhole
<1> QED
  BY <1>2 DEF Cut, Starts

LEMMA DownWrites ==
  ASSUME AppWrites(SLog) \in Seq(Item), AppWrites(SLog)' \in Seq(Item),
         Starts(AppWrites(SLog), AppWrites(SLog)'),
         Received(sTx, cDelivered)' = Received(sTx, cDelivered)
  PROVE  [Down!Write \/ Down!Receive]_<<AppWrites(SLog), Received(sTx, cDelivered)>>
<1> DEFINE a == AppWrites(SLog)
           b == AppWrites(SLog)'
<1>1. Len(a) <= Len(b) /\ SubSeq(a, 1, Len(a)) = SubSeq(b, 1, Len(a))
  BY StartsIsPrefix
<1>2. b \in Seq(S!Items)
  BY DEF S!Items, Item
<1>3. a # b => Down!Write
  BY <1>1, <1>2 DEF SLog, Down!Write, Down!IsStrictPrefix, Down!IsPrefix
<1> QED
  BY <1>3

LEMMA UpWrites ==
  ASSUME AppWrites(CLog) \in Seq(Item), AppWrites(CLog)' \in Seq(Item),
         Starts(AppWrites(CLog), AppWrites(CLog)'),
         Received(cTx, sDelivered)' = Received(cTx, sDelivered)
  PROVE  [Up!Write \/ Up!Receive]_<<AppWrites(CLog), Received(cTx, sDelivered)>>
<1> DEFINE a == AppWrites(CLog)
           b == AppWrites(CLog)'
<1>1. Len(a) <= Len(b) /\ SubSeq(a, 1, Len(a)) = SubSeq(b, 1, Len(a))
  BY StartsIsPrefix
<1>2. b \in Seq(C!Items)
  BY DEF C!Items, Item
<1>3. a # b => Up!Write
  BY <1>1, <1>2 DEF CLog, Up!Write, Up!IsStrictPrefix, Up!IsPrefix
<1> QED
  BY <1>3

LEMMA DownReceives ==
  ASSUME Receives(SLog, sTx, cDelivered, cDelivered'),
         UNCHANGED <<sCalled, sQueue, sTx>>
  PROVE  [Down!Write \/ Down!Receive]_<<AppWrites(SLog), Received(sTx, cDelivered)>>
<1>1. AppWrites(SLog)' = AppWrites(SLog)
  BY DEF SLog
<1>2. Received(sTx, cDelivered)' = Received(sTx, cDelivered')
  OBVIOUS
<1> QED
  BY <1>1, <1>2 DEF Receives, SLog, Down!Receive

LEMMA UpReceives ==
  ASSUME Receives(CLog, cTx, sDelivered, sDelivered'),
         UNCHANGED <<cCalled, cQueue, cTx>>
  PROVE  [Up!Write \/ Up!Receive]_<<AppWrites(CLog), Received(cTx, sDelivered)>>
<1>1. AppWrites(CLog)' = AppWrites(CLog)
  BY DEF CLog
<1>2. Received(cTx, sDelivered)' = Received(cTx, sDelivered')
  OBVIOUS
<1> QED
  BY <1>1, <1>2 DEF Receives, CLog, Up!Receive

-----------------------------------------------------------------------------
(* The link.                                                               *)

\* Each end keeps its invariant, and each direction carries what was written.
LinkInv ==
  /\ SP!IInv /\ SP!OnWire /\ CP!IInv /\ CP!OnWire
  /\ Carried(SLog, sTx, cRx) /\ Reads(cReadOp, cRx, cRcvd, cDelivered, sTx)
  /\ Carried(CLog, cTx, sRx) /\ Reads(sReadOp, sRx, sRcvd, sDelivered, cTx)

\* What a step has to show.
LinkGood ==
  /\ LinkInv'
  /\ [Down!Write \/ Down!Receive]_<<AppWrites(SLog), Received(sTx, cDelivered)>>
  /\ [Up!Write \/ Up!Receive]_<<AppWrites(CLog), Received(cTx, sDelivered)>>

\* The two ends prove their own.
LEMMA SessionWire ==
  ASSUME LinkInv, S!Next \/ UNCHANGED sVars
  PROVE  /\ SP!IInv' /\ SP!OnWire' /\ sRcvd' \in 0..Len(sRx')
         /\ Advances(SLog, SLog', sTx, sTx')
<1>1. SP!SessionAssumption
  BY LinkAssumption DEF SP!SessionAssumption, SP!Kinds
<1>2. [SP!Next]_(SP!vars)
  BY SameSession DEF SP!vars, sVars
<1>3. SP!IInv'
  <2>1. SP!Good
    BY <1>1, <1>2, SP!StepGood DEF LinkInv
  <2> QED
    BY <2>1 DEF SP!Good
<1>4. SP!OnWire' /\ SP!Grown
  BY <1>1, <1>2, SP!WireGood DEF LinkInv
<1>5. sRcvd' \in 0..Len(sRx')
  BY <1>3 DEF SP!IInv, SP!Typing
<1> QED
  BY <1>3, <1>4, <1>5 
  DEF SP!Grown, SP!OnWire, SP!Log, SP!Items, Item, SLog, Starts, Advances

LEMMA ClientWire ==
  ASSUME LinkInv, C!Next \/ UNCHANGED cVars
  PROVE  /\ CP!IInv' /\ CP!OnWire' /\ cRcvd' \in 0..Len(cRx')
         /\ Advances(CLog, CLog', cTx, cTx')
<1>1. CP!ClientAssumption
  BY LinkAssumption DEF CP!ClientAssumption, CP!Kinds
<1>2. [CP!Next]_(CP!vars)
  BY SameClient DEF CP!vars, cVars
<1>3. CP!IInv'
  <2>1. CP!Good
    BY <1>1, <1>2, CP!StepGood DEF LinkInv
  <2> QED
    BY <2>1 DEF CP!Good
<1>4. CP!OnWire' /\ CP!Grown
  BY <1>1, <1>2, CP!WireGood DEF LinkInv
<1>5. cRcvd' \in 0..Len(cRx')
  BY <1>3 DEF CP!IInv, CP!ReadInv
<1> QED
  BY <1>3, <1>4, <1>5 
  DEF CP!Grown, CP!OnWire, CP!Log, CP!Items, Item, CLog, Starts, Advances

\* What both channels have written, at any time.
LEMMA LogsTyped ==
  ASSUME LinkInv
  PROVE  /\ SLog \in Seq(Item) /\ CLog \in Seq(Item)
         /\ AppWrites(SLog) \in Seq(Item)
         /\ AppWrites(CLog) \in Seq(Item)
<1>1. SLog \in Seq(Item) /\ CLog \in Seq(Item)
  BY DEF LinkInv, Carried
<1> QED
  BY <1>1, WritesGrow, LenProperties DEF Starts

\* A step of the session: its reader receives on the one channel, and it may
\* write on the other.
LEMMA SessionGood ==
  ASSUME LinkInv, SessionStep \/ SessionLoses
  PROVE  LinkGood
<1>1. /\ S!Next /\ UNCHANGED cVars /\ sRx' = sRx
      /\ \/ Stays(sReadOp, sReadOp', sRcvd, sRcvd', sDelivered, sDelivered')
         \/ Handles(sReadOp, sReadOp', sRx, sRcvd, sRcvd', sDelivered, sDelivered')
  BY SessionReader
<1>2. UNCHANGED <<cReadOp, cRx, cRcvd, cDelivered, cCalled, cQueue, cTx>>
  BY <1>1 DEF cVars
<1>3. SP!IInv' /\ SP!OnWire' /\ CP!IInv' /\ CP!OnWire' /\ sRcvd' \in 0..Len(sRx)
  BY <1>1, SessionWire, ClientWire
<1>4. /\ Carried(SLog', sTx', cRx)
      /\ Reads(cReadOp, cRx, cRcvd, cDelivered, sTx')
      /\ Received(sTx', cDelivered) = Received(sTx, cDelivered)
      /\ AppWrites(SLog') \in Seq(Item)
      /\ Starts(AppWrites(SLog), AppWrites(SLog'))
  <2>1. Advances(SLog, SLog', sTx, sTx')
    BY <1>1, SessionWire
  <2>2. Carried(SLog, sTx, cRx) /\ Reads(cReadOp, cRx, cRcvd, cDelivered, sTx)
    BY DEF LinkInv
  <2> QED
    BY <2>1, <2>2, ReaderWaits
<1>5. /\ Reads(sReadOp', sRx, sRcvd', sDelivered', cTx)
      /\ Receives(CLog, cTx, sDelivered, sDelivered')
  <2>1. Carried(CLog, cTx, sRx) /\ Reads(sReadOp, sRx, sRcvd, sDelivered, cTx)
    BY DEF LinkInv
  <2> QED
    BY <1>1, <1>3, <2>1, ReaderStep
<1>6. LinkInv'
  <2>1. Carried(CLog', cTx', sRx')
    BY <1>1, <1>2 DEF LinkInv, CLog
  <2> QED
    BY <1>1, <1>2, <1>3, <1>4, <1>5, <2>1 DEF LinkInv
<1>7. [Down!Write \/ Down!Receive]_<<AppWrites(SLog), Received(sTx, cDelivered)>>
  <2>1. AppWrites(SLog)' = AppWrites(SLog')
    OBVIOUS
  <2>2. Received(sTx, cDelivered)' = Received(sTx, cDelivered)
    BY <1>2, <1>4
  <2> QED
    BY <1>4, <2>1, <2>2, LogsTyped, DownWrites
<1>8. [Up!Write \/ Up!Receive]_<<AppWrites(CLog), Received(cTx, sDelivered)>>
  BY <1>2, <1>5, UpReceives
<1> QED
  BY <1>6, <1>7, <1>8 DEF LinkGood

\* The same of a step of the client.
LEMMA ClientGood ==
  ASSUME LinkInv, ClientStep \/ ClientLoses
  PROVE  LinkGood
<1>1. /\ C!Next /\ UNCHANGED sVars /\ cRx' = cRx
      /\ \/ Stays(cReadOp, cReadOp', cRcvd, cRcvd', cDelivered, cDelivered')
         \/ Handles(cReadOp, cReadOp', cRx, cRcvd, cRcvd', cDelivered, cDelivered')
  BY ClientReader
<1>2. UNCHANGED <<sReadOp, sRx, sRcvd, sDelivered, sCalled, sQueue, sTx>>
  BY <1>1 DEF sVars
<1>3. SP!IInv' /\ SP!OnWire' /\ CP!IInv' /\ CP!OnWire' /\ cRcvd' \in 0..Len(cRx)
  BY <1>1, SessionWire, ClientWire
<1>4. /\ Carried(CLog', cTx', sRx)
      /\ Reads(sReadOp, sRx, sRcvd, sDelivered, cTx')
      /\ Received(cTx', sDelivered) = Received(cTx, sDelivered)
      /\ AppWrites(CLog') \in Seq(Item)
      /\ Starts(AppWrites(CLog), AppWrites(CLog'))
  <2>1. Advances(CLog, CLog', cTx, cTx')
    BY <1>1, ClientWire
  <2>2. Carried(CLog, cTx, sRx) /\ Reads(sReadOp, sRx, sRcvd, sDelivered, cTx)
    BY DEF LinkInv
  <2> QED
    BY <2>1, <2>2, ReaderWaits
<1>5. /\ Reads(cReadOp', cRx, cRcvd', cDelivered', sTx)
      /\ Receives(SLog, sTx, cDelivered, cDelivered')
  <2>1. Carried(SLog, sTx, cRx) /\ Reads(cReadOp, cRx, cRcvd, cDelivered, sTx)
    BY DEF LinkInv
  <2> QED
    BY <1>1, <1>3, <2>1, ReaderStep
<1>6. LinkInv'
  <2>1. Carried(SLog', sTx', cRx')
    BY <1>1, <1>2 DEF LinkInv, SLog
  <2> QED
    BY <1>1, <1>2, <1>3, <1>4, <1>5, <2>1 DEF LinkInv
<1>7. [Up!Write \/ Up!Receive]_<<AppWrites(CLog), Received(cTx, sDelivered)>>
  <2>1. AppWrites(CLog)' = AppWrites(CLog')
    OBVIOUS
  <2>2. Received(cTx, sDelivered)' = Received(cTx, sDelivered)
    BY <1>2, <1>4
  <2> QED
    BY <1>4, <2>1, <2>2, LogsTyped, UpWrites
<1>8. [Down!Write \/ Down!Receive]_<<AppWrites(SLog), Received(sTx, cDelivered)>>
  BY <1>2, <1>5, DownReceives
<1> QED
  BY <1>6, <1>7, <1>8 DEF LinkGood

\* A step in which neither application does anything.
LEMMA QuietStep ==
  ASSUME SP!IInv', SP!OnWire', CP!IInv', CP!OnWire',
         Carried(SLog, sTx, cRx'), Reads(cReadOp, cRx', cRcvd, cDelivered, sTx),
         Carried(CLog, cTx, sRx'), Reads(sReadOp, sRx', sRcvd, sDelivered, cTx),
         SLog' = SLog, CLog' = CLog,
         UNCHANGED <<sReadOp, sRcvd, sDelivered, sTx>>,
         UNCHANGED <<cReadOp, cRcvd, cDelivered, cTx>>
  PROVE  LinkGood
<1>1. LinkInv'
  BY DEF LinkInv
<1>2. /\ AppWrites(SLog)' = AppWrites(SLog) /\ AppWrites(CLog)' = AppWrites(CLog)
      /\ Received(sTx, cDelivered)' = Received(sTx, cDelivered)
      /\ Received(cTx, sDelivered)' = Received(cTx, sDelivered)
  OBVIOUS
<1> QED
  BY <1>1, <1>2 DEF LinkGood

\* A frame arrives: neither application notices.
LEMMA ArriveGood ==
  ASSUME LinkInv, ArriveUp \/ ArriveDown
  PROVE  LinkGood
<1>1. CASE ArriveUp
  <2>1. /\ UNCHANGED cVars /\ Len(sRx) < Len(cTx)
        /\ S!PeerSend(Kind(cTx[Len(sRx) + 1]))
    BY <1>1 DEF ArriveUp
  <2>2. S!Next
    BY <2>1 DEF S!Next, Kind
  <2>3. /\ sRx' = Append(sRx, Kind(cTx[Len(sRx) + 1]))
        /\ UNCHANGED <<sReadOp, sRcvd, sDelivered, sCalled, sQueue, sTx>>
        /\ UNCHANGED <<cReadOp, cRx, cRcvd, cDelivered, cCalled, cQueue, cTx>>
    BY <2>1 DEF S!PeerSend, S!writeVars, cVars
  <2>4. SP!IInv' /\ SP!OnWire' /\ CP!IInv' /\ CP!OnWire'
    BY <2>1, <2>2, SessionWire, ClientWire
  <2>5. Carried(CLog, cTx, sRx') /\ Reads(sReadOp, sRx', sRcvd, sDelivered, cTx)
    BY <2>1, <2>3, ReaderArrive DEF LinkInv
  <2>6. SLog' = SLog /\ CLog' = CLog
    BY <2>3 DEF SLog, CLog
  <2> QED
    BY <2>3, <2>4, <2>5, <2>6, QuietStep DEF LinkInv
<1>2. CASE ArriveDown
  <2>1. /\ UNCHANGED sVars /\ Len(cRx) < Len(sTx)
        /\ C!PeerSend(Kind(sTx[Len(cRx) + 1]))
    BY <1>2 DEF ArriveDown
  <2>2. C!Next
    BY <2>1 DEF C!Next, Kind
  <2>3. /\ cRx' = Append(cRx, Kind(sTx[Len(cRx) + 1]))
        /\ UNCHANGED <<cReadOp, cRcvd, cDelivered, cCalled, cQueue, cTx>>
        /\ UNCHANGED <<sReadOp, sRx, sRcvd, sDelivered, sCalled, sQueue, sTx>>
    BY <2>1 DEF C!PeerSend, C!writeVars, sVars
  <2>4. SP!IInv' /\ SP!OnWire' /\ CP!IInv' /\ CP!OnWire'
    BY <2>1, <2>2, SessionWire, ClientWire
  <2>5. Carried(SLog, sTx, cRx') /\ Reads(cReadOp, cRx', cRcvd, cDelivered, sTx)
    BY <2>1, <2>3, ReaderArrive DEF LinkInv
  <2>6. SLog' = SLog /\ CLog' = CLog
    BY <2>3 DEF SLog, CLog
  <2> QED
    BY <2>3, <2>4, <2>5, <2>6, QuietStep DEF LinkInv
<1> QED
  BY <1>1, <1>2

\* Every step keeps the invariant and is a step of both channels or of none.
LEMMA StepGood ==
  ASSUME LinkInv, [Next]_vars
  PROVE  LinkGood
<1>1. CASE UNCHANGED vars
  <2>1. UNCHANGED sVars /\ UNCHANGED cVars
    BY <1>1 DEF vars
  <2>2. SP!IInv' /\ SP!OnWire' /\ CP!IInv' /\ CP!OnWire'
    BY <2>1, SessionWire, ClientWire
  <2>3. /\ UNCHANGED <<sReadOp, sRx, sRcvd, sDelivered, sCalled, sQueue, sTx>>
        /\ UNCHANGED <<cReadOp, cRx, cRcvd, cDelivered, cCalled, cQueue, cTx>>
    BY <2>1 DEF sVars, cVars
  <2>4. SLog' = SLog /\ CLog' = CLog
    BY <2>3 DEF SLog, CLog
  <2> QED
    BY <2>2, <2>3, <2>4, QuietStep DEF LinkInv
<1> QED
  BY <1>1, SessionGood, ClientGood, ArriveGood DEF Next

\* Nothing is written or received yet.
LEMMA InitGood == Init => LinkInv /\ Down!Init /\ Up!Init
<1> SUFFICES ASSUME Init PROVE LinkInv /\ Down!Init /\ Up!Init
  OBVIOUS
<1>1. SP!SessionAssumption /\ CP!ClientAssumption
  BY LinkAssumption DEF SP!SessionAssumption, SP!Kinds, CP!ClientAssumption, CP!Kinds
<1>2. SP!Init /\ CP!Init
  BY SameSession, SameClient DEF Init
<1>3. SP!IInv /\ CP!IInv
  BY <1>1, <1>2, SP!InitGood, CP!InitGood
<1>4. /\ sQueue = <<>> /\ sCalled = <<>> /\ sTx = <<>> /\ sRx = <<>> /\ sRcvd = 0
      /\ sDelivered = <<>> /\ sReadOp = "unstarted"
      /\ cQueue = <<>> /\ cCalled = <<>> /\ cTx = <<>> /\ cRx = <<>> /\ cRcvd = 0
      /\ cDelivered = <<>> /\ cReadOp = "unstarted"
  BY DEF Init, S!Init, C!Init
<1> DEFINE e == <<>>
<1>5. /\ e \in Seq(Item) /\ e \in Seq(Arriving) /\ e \in Seq(Nat) /\ Len(e) = 0
      /\ e \o e = e
  OBVIOUS
<1>6. SLog = <<>> /\ CLog = <<>>
  BY <1>4, <1>5 DEF SLog, CLog
<1>7. SP!OnWire /\ CP!OnWire
  BY <1>4, <1>5 DEF SP!OnWire, CP!OnWire, SP!Log, CP!Log
<1>8. Starts(e, e) /\ Carried(e, e, e)
  BY <1>5 DEF Starts, Carried
<1>9. Received(e, e) = <<>>
  BY DEF Received
<1>10. Cut(e, 0) = e
  BY <1>5, CutWhole, <1>8
<1>11. Handed(e, e, e, 0)
  BY <1>5, <1>9, <1>10, AppWritesNone DEF Handed
<1>12. Reads("unstarted", e, 0, e, e)
  BY <1>5, <1>11 DEF Reads, HandledOf
<1>13. LinkInv
  BY <1>3, <1>4, <1>6, <1>7, <1>8, <1>12 DEF LinkInv
<1>14. Down!Init /\ Up!Init
  BY <1>4, <1>6, <1>9, AppWritesNone DEF Down!Init, Up!Init, SLog, CLog
<1> QED
  BY <1>13, <1>14

-----------------------------------------------------------------------------
(* What follows for every behaviour.                                       *)

\* Whatever the two ends, the kernel and the network do, both ends keep their
\* own invariants, and each application has received the messages among the
\* frames handled, in the order of the other's calls of write().
LEMMA Invariance == FairSpec => []LinkInv
<1>1. Init => LinkInv
  BY InitGood
<1>2. LinkInv /\ [Next]_vars => LinkInv'
  BY StepGood DEF LinkGood
<1> QED
  BY <1>1, <1>2, PTL DEF FairSpec

\* From the server's application to the client's, a session and a client are
\* a channel: what handleWrite, the heartbeats, the callbacks that write and a
\* connection that is lost do between them never reorders, repeats or leaves
\* out a message.
THEOREM DownIsChannel == FairSpec => DownChannel
<1>1. Init => Down!Init
  BY InitGood
<1>2. LinkInv /\ [Next]_vars =>
        [Down!Write \/ Down!Receive]_<<AppWrites(sCalled \o sQueue), Received(sTx, cDelivered)>>
  BY StepGood DEF LinkGood, SLog
<1> QED
  BY <1>1, <1>2, Invariance, PTL DEF FairSpec, DownChannel, Down!Spec

\* So they are in the other direction, with the echoes among the client's
\* messages and the writes made before the connection was there.
THEOREM UpIsChannel == FairSpec => UpChannel
<1>1. Init => Up!Init
  BY InitGood
<1>2. LinkInv /\ [Next]_vars =>
        [Up!Write \/ Up!Receive]_<<AppWrites(cCalled \o cQueue), Received(cTx, sDelivered)>>
  BY StepGood DEF LinkGood, CLog
<1> QED
  BY <1>1, <1>2, Invariance, PTL DEF FairSpec, UpChannel, Up!Spec

=============================================================================
