--------------------------- MODULE RecursionLemmas ---------------------------
(***************************************************************************)
(* Induction over the naturals in a form that takes no operator: the       *)
(* property is the set of the numbers that have it.  From the least element *)
(* of a set of naturals follow the existence of a recursively defined      *)
(* function and what an induction shows of it; the proofs about the loops  *)
(* of the other modules (a match that is copied byte by byte, sizes that   *)
(* are added up) rest on these lemmas.                                     *)
(***************************************************************************)
EXTENDS Powers, Sums, LzCopy, WellFoundedInduction, TLAPS

\* There is no infinite descent among the naturals.
LEMMA LessIsWellFounded == IsWellFoundedOn({ss \in Nat \X Nat : ss[1] < ss[2]}, Nat)
BY NatLessThanWellFounded DEF OpToRel

\* A set of naturals that is not empty has a least element.
LEMMA LeastElement ==
    ASSUME NEW T \in SUBSET Nat, T # {}
    PROVE  \E x \in T : \A y \in T : x <= y
<1> DEFINE less == {ss \in Nat \X Nat : ss[1] < ss[2]}
<1>1. ASSUME NEW x \in Nat, NEW y \in Nat, y < x PROVE <<y, x>> \in less
  BY <1>1
<1>2. IsWellFoundedOn(less, Nat)
  BY LessIsWellFounded
<1> HIDE DEF less
<1>3. PICK x \in T : \A y \in T : ~ (<<y, x>> \in less)
  BY <1>2, WFMin
<1>4. \A y \in T : ~ (y < x)
  BY <1>1, <1>3
<1> QED BY <1>3, <1>4

\* What holds of 0, and of every number up to m if it holds of the one before,
\* holds up to m.
LEMMA InductionUpTo ==
    ASSUME NEW m \in Nat, NEW P, 0 \in P,
           \A i \in 1..m : i - 1 \in P => i \in P
    PROVE  0..m \subseteq P
<1> SUFFICES ASSUME (0..m) \ P # {} PROVE FALSE
  OBVIOUS
<1> DEFINE T == (0..m) \ P
<1>0. T \in SUBSET Nat /\ T # {}
  OBVIOUS
<1> HIDE DEF T
<1>1. PICK x \in T : \A y \in T : x <= y
  BY <1>0, LeastElement
<1> USE DEF T
<1>2. x \in 1..m
  BY <1>1
<1>3. x - 1 \in 0..m /\ ~ (x <= x - 1)
  BY <1>2
<1>4. x - 1 \in P
  BY <1>1, <1>3
<1> QED BY <1>1, <1>2, <1>4

\* Functions that begin alike, and go on alike as long as they are alike, are.
LEMMA AgreeUpTo ==
    ASSUME NEW m \in Nat, NEW f, NEW g, f[0] = g[0],
           \A i \in 1..m : f[i - 1] = g[i - 1] => f[i] = g[i]
    PROVE  \A i \in 0..m : f[i] = g[i]
<1> DEFINE P == {i \in 0..m : f[i] = g[i]}
<1>1. 0 \in P
  OBVIOUS
<1>2. ASSUME NEW i \in 1..m, i - 1 \in P PROVE i \in P
  BY <1>2
<1>3. P \subseteq 0..m /\ \A i \in P : f[i] = g[i]
  OBVIOUS
<1> HIDE DEF P
<1>4. 0..m \subseteq P
  BY <1>1, <1>2, InductionUpTo
<1> QED BY <1>3, <1>4

\* The functions that start from b and take n steps.
Steps(S, b, step, n) ==
    {f \in [0..n -> S] : f[0] = b /\ \A i \in 1..n : f[i] = step[<<f[i - 1], i>>]}

\* Such a function can take one step more.
LEMMA OneStepMore ==
    ASSUME NEW S, NEW b \in S, NEW n \in Nat, NEW step \in [S \X (1..n) -> S],
           NEW m \in 1..n, Steps(S, b, step, m - 1) # {}
    PROVE  Steps(S, b, step, m) # {}
<1> PICK f \in [0..(m - 1) -> S] :
        f[0] = b /\ \A i \in 1..(m - 1) : f[i] = step[<<f[i - 1], i>>]
  BY DEF Steps
<1> DEFINE g == [i \in 0..m |-> IF i = m THEN step[<<f[m - 1], m>>] ELSE f[i]]
<1>1. m - 1 \in 0..(m - 1) /\ step[<<f[m - 1], m>>] \in S
  OBVIOUS
<1>2. \A i \in 0..m : i # m => i \in 0..(m - 1)
  OBVIOUS
<1>3. g \in [0..m -> S]
  BY <1>1, <1>2
<1>4. /\ g[m] = step[<<f[m - 1], m>>]
      /\ \A i \in 0..(m - 1) : i \in 0..m /\ i # m
      /\ \A i \in 0..(m - 1) : g[i] = f[i]
  OBVIOUS
<1> HIDE DEF g
<1>5. g[0] = b
  BY <1>4
<1>6. ASSUME NEW i \in 1..m PROVE g[i] = step[<<g[i - 1], i>>]
  <2>1. i - 1 \in 0..(m - 1)
    OBVIOUS
  <2>2. g[i - 1] = f[i - 1]
    BY <2>1, <1>4
  <2>3. CASE i = m
    BY <2>2, <2>3, <1>4
  <2>4. CASE i # m
    <3>1. i \in 0..(m - 1) /\ i \in 1..(m - 1)
      BY <2>4
    <3> QED BY <2>2, <3>1, <1>4
  <2> QED BY <2>3, <2>4
<1> QED BY <1>3, <1>5, <1>6 DEF Steps

\* A function that is defined step by step exists.
LEMMA StepByStep ==
    ASSUME NEW S, NEW b \in S, NEW n \in Nat, NEW step \in [S \X (1..n) -> S]
    PROVE  Steps(S, b, step, n) # {}
<1> DEFINE P == {m \in 0..n : Steps(S, b, step, m) # {}}
<1>1. 0 \in P
  <2> DEFINE f == [i \in 0..0 |-> b]
  <2>1. 0 \in 0..n /\ f \in [0..0 -> S] /\ f[0] = b /\ 1..0 = {}
    OBVIOUS
  <2> HIDE DEF f
  <2>2. f \in Steps(S, b, step, 0)
    BY <2>1 DEF Steps
  <2> QED BY <2>1, <2>2
<1>2. ASSUME NEW i \in 1..n, i - 1 \in P PROVE i \in P
  <2>1. Steps(S, b, step, i - 1) # {}
    BY <1>2
  <2>2. Steps(S, b, step, i) # {}
    BY <2>1, OneStepMore
  <2> QED BY <2>2
<1>3. \A m \in P : Steps(S, b, step, m) # {}
  OBVIOUS
<1> HIDE DEF P
<1>4. 0..n \subseteq P
  BY <1>1, <1>2, InductionUpTo
<1>5. n \in P
  BY <1>4
<1> QED BY <1>3, <1>5

-----------------------------------------------------------------------------
(* Powers of two *)

LEMMA PowerIs ==
    ASSUME NEW n \in Nat
    PROVE  \E f \in [0..n -> Nat] :
              /\ f[0] = 1 /\ \A i \in 1..n : f[i] = 2 * f[i - 1]
              /\ Pow2(n) = f[n]
<1> DEFINE Is(f) == f = [i \in 0..n |-> IF i = 0 THEN 1 ELSE 2 * f[i - 1]]
           f == CHOOSE g : Is(g)
           step == [p \in Nat \X (1..n) |-> 2 * p[1]]
<1>1. step \in [Nat \X (1..n) -> Nat] /\ 1 \in Nat
  OBVIOUS
<1>2. \A x \in Nat, i \in 1..n : step[<<x, i>>] = 2 * x
  OBVIOUS
<1> HIDE DEF step
<1>3. PICK g \in [0..n -> Nat] : g[0] = 1 /\ \A i \in 1..n : g[i] = step[<<g[i - 1], i>>]
  <2>1. Steps(Nat, 1, step, n) # {}
    BY <1>1, StepByStep
  <2> QED
    BY <2>1 DEF Steps
<1>4. /\ 0 \in 0..n /\ \A i \in 0..n : i # 0 => i \in 1..n
      /\ \A i \in 1..n : i \in 0..n /\ i # 0 /\ i - 1 \in 0..n
  OBVIOUS
<1>5. \A i \in 1..n : g[i] = 2 * g[i - 1]
  BY <1>2, <1>3, <1>4
<1>6. g = [i \in 0..n |-> IF i = 0 THEN 1 ELSE 2 * g[i - 1]]
  BY <1>3, <1>4, <1>5
<1>7. Is(f)
  BY <1>6, Zenon
<1>8. Pow2(n) = f[n]
  BY Zenon DEF Pow2
<1> HIDE DEF f
<1>9. f[0] = 1 /\ \A i \in 1..n : f[i] = 2 * f[i - 1]
  BY <1>4, <1>7
<1>10. \A i \in 0..n : f[i] = g[i]
  <2>1. f[0] = g[0]
    BY <1>3, <1>9
  <2>2. \A i \in 1..n : f[i - 1] = g[i - 1] => f[i] = g[i]
    BY <1>5, <1>9
  <2> QED
    BY <2>1, <2>2, AgreeUpTo, Zenon
<1>11. Pow2(n) = g[n]
  BY <1>8, <1>10
<1> QED
  BY <1>3, <1>5, <1>11

\* Each is twice the one before.
LEMMA PowerOfMore ==
    ASSUME NEW n \in Nat
    PROVE  Pow2(0) = 1 /\ Pow2(n) \in Nat \ {0} /\ Pow2(n + 1) = 2 * Pow2(n)
<1>1. PICK f \in [0..(n + 1) -> Nat] :
        f[0] = 1 /\ (\A i \in 1..(n + 1) : f[i] = 2 * f[i - 1]) /\ Pow2(n + 1) = f[n + 1]
  <2>1. n + 1 \in Nat
    OBVIOUS
  <2> QED BY <2>1, PowerIs
<1>2. PICK g \in [0..n -> Nat] :
        g[0] = 1 /\ (\A i \in 1..n : g[i] = 2 * g[i - 1]) /\ Pow2(n) = g[n]
  BY PowerIs
<1>3. \A i \in 1..n : i \in 1..(n + 1)
  OBVIOUS
<1>4. \A i \in 0..n : f[i] = g[i]
  <2>1. f[0] = g[0]
    BY <1>1, <1>2
  <2>2. \A i \in 1..n : f[i - 1] = g[i - 1] => f[i] = g[i]
    BY <1>1, <1>2, <1>3
  <2> DEFINE P == {i \in 0..n : f[i] = g[i]}
  <2>3. 0 \in P /\ \A i \in 1..n : i - 1 \in P => i \in P
    BY <2>1, <2>2
  <2>4. \A i \in P : f[i] = g[i]
    OBVIOUS
  <2> HIDE DEF P
  <2> QED
    BY <2>3, <2>4, InductionUpTo
<1>5. Pow2(n + 1) = 2 * Pow2(n)
  <2>1. f[n + 1] = 2 * f[(n + 1) - 1] /\ (n + 1) - 1 = n
    BY <1>1
  <2> QED BY <1>1, <1>2, <1>4, <2>1
<1> DEFINE P == {i \in 0..n : g[i] # 0}
<1>6. n \in P
  <2>1. 0 \in P
    BY <1>2
  <2>2. ASSUME NEW i \in 1..n, i - 1 \in P PROVE i \in P
    <3>1. g[i] = 2 * g[i - 1] /\ g[i - 1] \in Nat \ {0}
      BY <1>2, <2>2
    <3> QED BY <3>1
  <2> HIDE DEF P
  <2>3. 0..n \subseteq P
    BY <2>1, <2>2, InductionUpTo
  <2> QED BY <2>3
<1>7. Pow2(0) = 1
  <2>1. PICK h \in [0..0 -> Nat] : h[0] = 1 /\ Pow2(0) = h[0]
    BY PowerIs
  <2> QED BY <2>1
<1> QED
  BY <1>2, <1>5, <1>6, <1>7

\* Shifts add up.
LEMMA PowerOfSum ==
    ASSUME NEW m \in Nat, NEW n \in Nat
    PROVE  Pow2(m + n) = Pow2(m) * Pow2(n)
<1> DEFINE P == {i \in 0..n : Pow2(m + i) = Pow2(m) * Pow2(i)}
<1>1. 0 \in P
  <2>1. Pow2(0) = 1 /\ Pow2(m) \in Nat /\ m + 0 = m
    BY PowerOfMore
  <2>2. Pow2(m) * 1 = Pow2(m)
    BY <2>1
  <2> QED BY <2>1, <2>2
<1>2. ASSUME NEW i \in 1..n, i - 1 \in P PROVE i \in P
  <2> DEFINE a == Pow2(m)
             b == Pow2(i - 1)
  <2>1. i - 1 \in Nat /\ m + (i - 1) \in Nat /\ (i - 1) + 1 = i /\ (m + (i - 1)) + 1 = m + i
    OBVIOUS
  <2>2. a \in Nat /\ b \in Nat /\ Pow2(m + (i - 1)) = a * b
    BY <1>2, <2>1, PowerOfMore
  <2>3. Pow2((i - 1) + 1) = 2 * b /\ Pow2((m + (i - 1)) + 1) = 2 * (a * b)
    BY <2>1, <2>2, PowerOfMore
  <2> HIDE DEF a, b
  <2>4. a * (2 * b) = 2 * (a * b)
    BY <2>2
  <2>5. Pow2(m + i) = a * Pow2(i)
    BY <2>1, <2>3, <2>4
  <2> QED BY <2>5 DEF a
<1>3. \A i \in P : Pow2(m + i) = Pow2(m) * Pow2(i)
  OBVIOUS
<1> HIDE DEF P
<1>4. 0..n \subseteq P
  BY <1>1, <1>2, InductionUpTo
<1>5. n \in P
  BY <1>4
<1> QED BY <1>3, <1>5

\* A larger shift gives more.
LEMMA PowerGrows ==
    ASSUME NEW m \in Nat, NEW n \in Nat, m < n
    PROVE  2 * Pow2(m) <= Pow2(n)
<1> DEFINE a == Pow2(m + 1)
           b == Pow2(n - (m + 1))
<1>1. n - (m + 1) \in Nat /\ (m + 1) + (n - (m + 1)) = n
  OBVIOUS
<1>2. Pow2(n) = a * b /\ a \in Nat /\ b \in Nat \ {0} /\ a = 2 * Pow2(m)
  BY <1>1, PowerOfMore, PowerOfSum
<1> HIDE DEF a, b
<1>3. a <= a * b
  BY <1>2
<1> QED BY <1>2, <1>3

-----------------------------------------------------------------------------
(* Sums *)

\* The sum of n naturals, term by term.
LEMMA SumExists ==
    ASSUME NEW n \in Nat, NEW b \in Nat, NEW d \in [1..n -> Nat]
    PROVE  \E f \in [0..n -> Nat] : f[0] = b /\ \A i \in 1..n : f[i] = f[i - 1] + d[i]
<1> DEFINE step == [p \in Nat \X (1..n) |-> p[1] + d[p[2]]]
<1>1. step \in [Nat \X (1..n) -> Nat]
  OBVIOUS
<1>2. \A x \in Nat, i \in 1..n : step[<<x, i>>] = x + d[i]
  OBVIOUS
<1> HIDE DEF step
<1>3. PICK f \in [0..n -> Nat] :
          f[0] = b /\ \A i \in 1..n : f[i] = step[<<f[i - 1], i>>]
  <2>1. Steps(Nat, b, step, n) # {}
    BY <1>1, StepByStep
  <2> QED
    BY <2>1 DEF Steps
<1>4. ASSUME NEW i \in 1..n PROVE f[i] = f[i - 1] + d[i]
  <2>1. f[i - 1] \in Nat
    OBVIOUS
  <2> QED
    BY <2>1, <1>2, <1>3
<1> QED
  BY <1>3, <1>4

LEMMA TotalIs ==
    ASSUME NEW s \in Seq(Nat)
    PROVE  \E f \in [0..Len(s) -> Nat] :
              /\ f[0] = 0 /\ \A i \in 1..Len(s) : f[i] = f[i - 1] + s[i]
              /\ Total(s) = f[Len(s)]
<1> DEFINE n == Len(s)
           Is(f) == f = [i \in 0..n |-> IF i = 0 THEN 0 ELSE f[i - 1] + s[i]]
           f == CHOOSE g : Is(g)
<1>1. n \in Nat /\ s \in [1..n -> Nat]
  OBVIOUS
<1> HIDE DEF n
<1>2. PICK g \in [0..n -> Nat] : g[0] = 0 /\ \A i \in 1..n : g[i] = g[i - 1] + s[i]
  <2>1. 0 \in Nat
    OBVIOUS
  <2> QED
    BY <1>1, <2>1, SumExists
<1>3. /\ 0 \in 0..n /\ \A i \in 0..n : i # 0 => i \in 1..n
      /\ \A i \in 1..n : i \in 0..n /\ i # 0
  BY <1>1
<1>4. g = [i \in 0..n |-> IF i = 0 THEN 0 ELSE g[i - 1] + s[i]]
  BY <1>2, <1>3
<1>5. Is(f)
  BY <1>4, Zenon
<1>6. Total(s) = f[n]
  BY Zenon DEF Total, n
<1> HIDE DEF f
<1>7. f[0] = 0 /\ \A i \in 1..n : f[i] = f[i - 1] + s[i]
  BY <1>3, <1>5
<1>8. \A i \in 0..n : f[i] = g[i]
  <2>1. n \in Nat
    BY <1>1
  <2>2. f[0] = g[0]
    BY <1>2, <1>7
  <2>3. \A i \in 1..n : f[i - 1] = g[i - 1] => f[i] = g[i]
    BY <1>2, <1>7
  <2> QED
    BY <2>1, <2>2, <2>3, AgreeUpTo, Zenon
<1>9. f = g
  <2>1. f = [i \in 0..n |-> f[i]]
    BY <1>5
  <2>2. g = [i \in 0..n |-> g[i]]
    OBVIOUS
  <2> QED
    BY <2>1, <2>2, <1>8
<1> QED
  BY <1>6, <1>7, <1>9 DEF n

\* The sum of nothing.
LEMMA TotalOfNone == Total(<<>>) = 0
<1>1. <<>> \in Seq(Nat) /\ Len(<<>>) = 0
  OBVIOUS
<1> QED
  BY <1>1, TotalIs

\* One more term.
LEMMA TotalOfMore ==
    ASSUME NEW s \in Seq(Nat), NEW v \in Nat
    PROVE  Total(s) \in Nat /\ Total(Append(s, v)) = Total(s) + v
<1> DEFINE n == Len(s)
           t == Append(s, v)
<1>1. /\ n \in Nat /\ t \in Seq(Nat) /\ Len(t) = n + 1 /\ t[n + 1] = v
      /\ \A i \in 1..n : t[i] = s[i]
  OBVIOUS
<1>2. PICK f \in [0..n -> Nat] :
          /\ f[0] = 0 /\ \A i \in 1..n : f[i] = f[i - 1] + s[i]
          /\ Total(s) = f[n]
  BY TotalIs
<1> HIDE DEF n, t
<1>3. PICK g \in [0..(n + 1) -> Nat] :
          /\ g[0] = 0 /\ \A i \in 1..(n + 1) : g[i] = g[i - 1] + t[i]
          /\ Total(t) = g[n + 1]
  BY <1>1, TotalIs
<1>4. \A i \in 0..n : f[i] = g[i]
  <2>1. n \in Nat
    BY <1>1
  <2>2. f[0] = g[0]
    BY <1>2, <1>3
  <2>3. \A i \in 1..n : f[i - 1] = g[i - 1] => f[i] = g[i]
    BY <1>1, <1>2, <1>3
  <2> DEFINE P == {i \in 0..n : f[i] = g[i]}
  <2>4. 0 \in P /\ \A i \in 1..n : i - 1 \in P => i \in P
    BY <2>1, <2>2, <2>3
  <2>5. \A i \in P : f[i] = g[i]
    OBVIOUS
  <2> HIDE DEF P
  <2> QED
    BY <2>1, <2>4, <2>5, InductionUpTo
<1>5. Total(t) = g[n] + v /\ f[n] = g[n] /\ f[n] \in Nat
  BY <1>1, <1>3, <1>4
<1> QED
  BY <1>2, <1>5 DEF t

\* A sum of one term.
LEMMA TotalOfOne ==
    ASSUME NEW v \in Nat
    PROVE  Total(<<v>>) = v
<1>1. <<>> \in Seq(Nat) /\ Append(<<>>, v) = <<v>>
  OBVIOUS
<1> QED
  <2>1. Total(Append(<<>>, v)) = Total(<<>>) + v
    BY <1>1, TotalOfMore
  <2> QED
    BY <1>1, <2>1, TotalOfNone

LEMMA TotalOfZeros ==
    ASSUME NEW s \in Seq(Nat), \A i \in 1..Len(s) : s[i] = 0
    PROVE  Total(s) = 0
<1>1. PICK f \in [0..Len(s) -> Nat] :
          /\ f[0] = 0 /\ \A i \in 1..Len(s) : f[i] = f[i - 1] + s[i]
          /\ Total(s) = f[Len(s)]
  BY TotalIs
<1> DEFINE P == {i \in 0..Len(s) : f[i] = 0}
<1>2. 0 \in P
  BY <1>1
<1>3. ASSUME NEW i \in 1..Len(s), i - 1 \in P PROVE i \in P
  <2>1. f[i] = f[i - 1] + s[i] /\ f[i - 1] = 0 /\ s[i] = 0
    BY <1>1, <1>3
  <2> QED
    BY <2>1
<1>4. Len(s) \in Nat /\ Len(s) \in 0..Len(s)
  OBVIOUS
<1>5. Len(s) \in P
  <2> HIDE DEF P
  <2>1. 0..Len(s) \subseteq P
    BY <1>2, <1>3, <1>4, InductionUpTo
  <2> QED
    BY <1>4, <2>1
<1> QED
  BY <1>1, <1>5

-----------------------------------------------------------------------------
(* What the loop of append_lz pushes *)

\* The byte a turn of the loop reads lies in what there is by then.
LEMMA OffsetInside ==
    ASSUME NEW B, NEW q \in Seq(B), NEW s \in Seq(B), NEW dist \in 1..Len(s),
           NEW i \in Nat \ {0}, Len(q) = i - 1
    PROVE  /\ Len(s) - dist + i \in 1..Len(s \o q)
           /\ (s \o q)[Len(s) - dist + i] \in B
<1>1. Len(s \o q) = Len(s) + i - 1 /\ s \o q \in Seq(B)
  OBVIOUS
<1>2. Len(s) \in Nat
  OBVIOUS
<1>3. Len(s) - dist + i \in 1..(Len(s) + i - 1)
  BY <1>2
<1> QED BY <1>1, <1>3

\* A sequence that is longer by one keeps what it had.
LEMMA AppendKeeps ==
    ASSUME NEW B, NEW q \in Seq(B), NEW s \in Seq(B), NEW b \in B
    PROVE  /\ Append(q, b) \in Seq(B) /\ Len(Append(q, b)) = Len(q) + 1
           /\ Append(q, b)[Len(q) + 1] = b
           /\ \A j \in 1..Len(q) : Append(q, b)[j] = q[j]
           /\ \A k \in 1..Len(s \o q) : (s \o Append(q, b))[k] = (s \o q)[k]
OBVIOUS

\* The loop, as it is written in Repeated.
IsLoop(f, s, n, dist) ==
    f = [i \in 0..n |->
            IF i = 0 THEN <<>>
            ELSE LET offset == Len(s) - dist + i - 1
                 IN  Append(f[i - 1], (s \o f[i - 1])[offset + 1])]

\* The loop comes to an end, with a byte for each of its n turns.
LEMMA LoopExists ==
    ASSUME NEW B, NEW s \in Seq(B), NEW n \in Nat, NEW dist \in 1..Len(s)
    PROVE  \E f : IsLoop(f, s, n, dist)
<1> DEFINE turn(q, i) == Append(q, (s \o q)[Len(s) - dist + i])
           step == [p \in Seq(B) \X (1..n) |->
                      IF Len(p[1]) = p[2] - 1 THEN turn(p[1], p[2]) ELSE p[1]]
<1>1. ASSUME NEW q \in Seq(B), NEW i \in 1..n, Len(q) = i - 1
      PROVE  turn(q, i) \in Seq(B) /\ Len(turn(q, i)) = i
  <2>1. (s \o q)[Len(s) - dist + i] \in B
    BY <1>1, OffsetInside
  <2> QED BY <1>1, <2>1
<1> HIDE DEF turn
<1>2. step \in [Seq(B) \X (1..n) -> Seq(B)]
  BY <1>1
<1>3. ASSUME NEW q \in Seq(B), NEW i \in 1..n, Len(q) = i - 1
      PROVE  step[<<q, i>>] = turn(q, i)
  BY <1>3
<1> HIDE DEF step
<1>4. <<>> \in Seq(B) /\ Len(<<>>) = 0
  OBVIOUS
<1>5. PICK f \in [0..n -> Seq(B)] :
          f[0] = <<>> /\ \A i \in 1..n : f[i] = step[<<f[i - 1], i>>]
  <2>1. Steps(Seq(B), <<>>, step, n) # {}
    BY <1>2, <1>4, StepByStep
  <2> QED BY <2>1 DEF Steps
<1> DEFINE P == {i \in 0..n : Len(f[i]) = i}
<1>6. 0..n \subseteq P
  <2>1. 0 \in P
    BY <1>5, <1>4
  <2>2. ASSUME NEW i \in 1..n, i - 1 \in P PROVE i \in P
    <3>1. f[i - 1] \in Seq(B) /\ Len(f[i - 1]) = i - 1
      BY <2>2
    <3>2. Len(f[i]) = i
      BY <3>1, <1>1, <1>3, <1>5
    <3> QED BY <3>2
  <2> HIDE DEF P
  <2> QED BY <2>1, <2>2, InductionUpTo
<1>7. \A i \in 1..n : f[i] = turn(f[i - 1], i)
  <2>1. ASSUME NEW i \in 1..n PROVE f[i] = turn(f[i - 1], i)
    <3>1. i - 1 \in 0..n
      OBVIOUS
    <3>2. f[i - 1] \in Seq(B) /\ Len(f[i - 1]) = i - 1
      BY <1>6, <3>1
    <3> QED BY <1>3, <1>5, <3>2
  <2> QED BY <2>1
<1>8. \A i \in 1..n : f[i] = Append(f[i - 1], (s \o f[i - 1])[(Len(s) - dist + i - 1) + 1])
  <2>1. \A i \in 1..n : (Len(s) - dist + i - 1) + 1 = Len(s) - dist + i
    OBVIOUS
  <2> QED BY <1>7, <2>1 DEF turn
<1>9. \A i \in 0..n : i # 0 => i \in 1..n
  OBVIOUS
<1>10. f = [i \in 0..n |-> IF i = 0 THEN <<>>
                           ELSE Append(f[i - 1], (s \o f[i - 1])[(Len(s) - dist + i - 1) + 1])]
  BY <1>5, <1>8, <1>9
<1> QED BY <1>10 DEF IsLoop

\* What is pushed repeats what is dist bytes before it, the bytes that were
\* pushed just before included.
LEMMA RepeatedRepeats ==
    ASSUME NEW B, NEW s \in Seq(B), NEW n \in Nat, NEW dist \in 1..Len(s)
    PROVE  /\ Repeated(s, n, dist) \in Seq(B) /\ Len(Repeated(s, n, dist)) = n
           /\ \A i \in 1..n : Repeated(s, n, dist)[i] = (s \o Repeated(s, n, dist))[Len(s) - dist + i]
<1> DEFINE f == CHOOSE g : IsLoop(g, s, n, dist)
<1>1. Repeated(s, n, dist) = f[n]
  BY Zenon DEF Repeated, IsLoop
<1>2. IsLoop(f, s, n, dist)
  BY LoopExists, Zenon
<1> HIDE DEF f
<1>3. f[0] = <<>>
  BY <1>2 DEF IsLoop
<1>4. ASSUME NEW i \in 1..n
      PROVE  f[i] = Append(f[i - 1], (s \o f[i - 1])[Len(s) - dist + i])
  <2>1. (Len(s) - dist + i - 1) + 1 = Len(s) - dist + i /\ i \in 0..n /\ i # 0
    OBVIOUS
  <2> QED BY <1>2, <2>1 DEF IsLoop
<1> DEFINE Good(i) == /\ f[i] \in Seq(B) /\ Len(f[i]) = i
                      /\ \A j \in 1..i : f[i][j] = (s \o f[i])[Len(s) - dist + j]
           P == {i \in 0..n : Good(i)}
<1>5. 0 \in P
  <2>1. 0 \in 0..n /\ 1..0 = {} /\ <<>> \in Seq(B) /\ Len(<<>>) = 0
    OBVIOUS
  <2> QED BY <1>3, <2>1
<1>6. ASSUME NEW i \in 1..n, i - 1 \in P PROVE i \in P
  <2> DEFINE q == f[i - 1]
             b == (s \o q)[Len(s) - dist + i]
  <2>1. /\ q \in Seq(B) /\ Len(q) = i - 1
        /\ \A j \in 1..(i - 1) : q[j] = (s \o q)[Len(s) - dist + j]
    BY <1>6
  <2>2. f[i] = Append(q, b)
    BY <1>4
  <2> HIDE DEF q, P
  <2>3. Len(s) - dist + i \in 1..Len(s \o q) /\ b \in B
    BY <2>1, OffsetInside
  <2>4. /\ f[i] \in Seq(B) /\ Len(f[i]) = i /\ f[i][i] = b
        /\ \A j \in 1..(i - 1) : f[i][j] = q[j]
        /\ \A k \in 1..Len(s \o q) : (s \o f[i])[k] = (s \o q)[k]
    BY <2>1, <2>2, <2>3, AppendKeeps
  <2>5. \A j \in 1..i : Len(s) - dist + j \in 1..Len(s \o q)
    BY <2>1, <2>3
  <2>6. \A j \in 1..i : f[i][j] = (s \o f[i])[Len(s) - dist + j]
    <3>1. ASSUME NEW j \in 1..i PROVE f[i][j] = (s \o f[i])[Len(s) - dist + j]
      <4>1. (s \o f[i])[Len(s) - dist + j] = (s \o q)[Len(s) - dist + j]
        BY <2>4, <2>5
      <4>2. CASE j = i
        BY <4>1, <4>2, <2>4
      <4>3. CASE j \in 1..(i - 1)
        BY <4>1, <4>3, <2>1, <2>4
      <4>4. j = i \/ j \in 1..(i - 1)
        OBVIOUS
      <4> QED BY <4>2, <4>3, <4>4
    <3> QED BY <3>1
  <2>7. i \in 0..n /\ Good(i)
    BY <2>4, <2>6
  <2> QED BY <2>7 DEF P
<1>7. \A i \in P : Good(i)
  OBVIOUS
<1> HIDE DEF P
<1>8. 0..n \subseteq P
  BY <1>5, <1>6, InductionUpTo
<1>9. n \in P
  <2>1. n \in 0..n
    OBVIOUS
  <2> QED BY <1>8, <2>1
<1>10. Good(n)
  <2> HIDE DEF Good
  <2> QED BY <1>7, <1>9
<1> QED BY <1>1, <1>10

=============================================================================
