------------------------------ MODULE Recursion ------------------------------
(***************************************************************************)
(* Recursive functions and folds, for any of them: a function that is      *)
(* defined by recursion on arguments of a smaller measure satisfies its    *)
(* equation, and what a step of FoldLeft keeps the fold keeps.  The library*)
(* has such theorems with operators as their parameters; here they are the *)
(* constants of the module, to be given with INSTANCE.                     *)
(***************************************************************************)
EXTENDS Integers, Sequences, Folds, TLAPS
LOCAL INSTANCE WellFoundedInduction

CONSTANTS
  Def(_, _, _),            \* of a parameter, an argument and the function
  Measure(_, _),           \* of the parameter and an argument
  Op(_, _, _, _, _),       \* of three parameters, what was folded so far and an element
  Inv(_, _, _, _, _, _)    \* of them, the base, the number of elements folded and the result

(* Induction over the natural numbers, of a set. *)
LEMMA SetInduction ==
  ASSUME NEW T, 0 \in T, \A n \in Nat : n \in T => n + 1 \in T
  PROVE  Nat \subseteq T
<1> SUFFICES ASSUME Nat \ T # {} PROVE FALSE
  OBVIOUS
<1> DEFINE R == OpToRel(<, Nat)
<1>1. IsWellFoundedOn(R, Nat)
  BY NatLessThanWellFounded
<1>2. PICK x \in Nat \ T : \A y \in Nat \ T : ~(<<y, x>> \in R)
  <2> HIDE DEF R
  <2> QED BY <1>1, WFMin
<1>3. x # 0 /\ x - 1 \in Nat /\ x - 1 \notin T
  BY x = (x - 1) + 1
<1>4. <<x - 1, x>> \in Nat \X Nat /\ x - 1 < x
  BY <1>3
<1>5. <<x - 1, x>> \in R
  BY <1>4 DEF OpToRel
<1> QED
  BY <1>2, <1>3, <1>5

(* Induction over a measure. *)
LEMMA MeasureInduction ==
  ASSUME NEW S, NEW m \in [S -> Nat], NEW T,
         \A x \in S : (\A y \in S : m[y] < m[x] => y \in T) => x \in T
  PROVE  S \subseteq T
<1> DEFINE U == {n \in Nat : \A x \in S : m[x] < n => x \in T}
<1>1. 0 \in U
  OBVIOUS
<1>2. ASSUME NEW n \in Nat, n \in U PROVE n + 1 \in U
  <2> SUFFICES ASSUME NEW x \in S, m[x] < n + 1 PROVE x \in T
    OBVIOUS
  <2>1. \A y \in S : m[y] < m[x] => m[y] < n
    OBVIOUS
  <2> QED BY <1>2, <2>1
<1>3. Nat \subseteq U
  <2> HIDE DEF U
  <2> QED BY <1>1, <1>2, SetInduction
<1>4. ASSUME NEW x \in S PROVE x \in T
  <2>1. m[x] + 1 \in U
    BY <1>3
  <2> QED BY <2>1
<1> QED BY <1>4

----------------------------------------------------------------------------
(* The function that f[x \in S] == Def(e, x, f) defines *)
Rec(e, S) == CHOOSE f : f = [x \in S |-> Def(e, x, f)]

(* The same for arguments of a measure below n *)
Below(e, S, n) == {x \in S : Measure(e, x) < n}
Computes(e, S, n, f) == f = [x \in Below(e, S, n) |-> Def(e, x, f)]

(* The value at x depends on the values at smaller arguments only. *)
WellFounded(e, S) ==
  /\ \A x \in S : Measure(e, x) \in Nat
  /\ \A x \in S : \A f, g :
       (\A y \in S : Measure(e, y) < Measure(e, x) => f[y] = g[y])
         => Def(e, x, f) = Def(e, x, g)

(* What the equation says at one argument *)
LEMMA ComputesAt ==
  ASSUME NEW e, NEW S, NEW n, NEW f, Computes(e, S, n, f),
         NEW x \in S, Measure(e, x) < n
  PROVE  f[x] = Def(e, x, f)
BY Zenon DEF Computes, Below

(* There are such functions for every n, by induction over n, *)
LEMMA ComputesAll ==
  ASSUME NEW e, NEW S, WellFounded(e, S)
  PROVE  \A n \in Nat : \E f : Computes(e, S, n, f)
<1> DEFINE T == {n \in Nat : \E f : Computes(e, S, n, f)}
<1>1. 0 \in T
  <2>1. Below(e, S, 0) = {}
    BY DEF Below, WellFounded
  <2>2. Computes(e, S, 0, [x \in Below(e, S, 0) |-> 0])
    BY <2>1 DEF Computes
  <2> QED BY <2>2
<1>2. ASSUME NEW n \in Nat, n \in T PROVE n + 1 \in T
  <2>1. PICK f : Computes(e, S, n, f)
    BY <1>2
  <2> DEFINE g == [x \in Below(e, S, n + 1) |-> Def(e, x, f)]
  <2>2. ASSUME NEW x \in Below(e, S, n + 1) PROVE g[x] = Def(e, x, g)
    <3>1. x \in S /\ Measure(e, x) \in Nat /\ Measure(e, x) < n + 1
      BY DEF Below, WellFounded
    <3>2. ASSUME NEW y \in S, Measure(e, y) < Measure(e, x) PROVE f[y] = g[y]
      <4>1. Measure(e, y) < n /\ Measure(e, y) < n + 1
        BY <3>1, <3>2 DEF WellFounded
      <4>2. f[y] = Def(e, y, f)
        BY <2>1, <4>1, ComputesAt
      <4>3. y \in Below(e, S, n + 1)
        BY <4>1 DEF Below
      <4> QED BY <4>2, <4>3, Zenon
    <3>3. Def(e, x, f) = Def(e, x, g)
      <4> HIDE DEF g
      <4> QED BY <3>1, <3>2, Zenon DEF WellFounded
    <3>4. g[x] = Def(e, x, f)
      BY Zenon
    <3> QED BY <3>3, <3>4, Zenon
  <2>3. g = [x \in Below(e, S, n + 1) |-> g[x]]
    BY Zenon
  <2>4. Computes(e, S, n + 1, g)
    <3> HIDE DEF g
    <3> QED BY <2>2, <2>3, Zenon DEF Computes
  <2> QED BY <2>4
<1> HIDE DEF T
<1>3. Nat \subseteq T
  BY <1>1, <1>2, SetInduction
<1> QED BY <1>3 DEF T

(* and they agree where both are defined. *)
LEMMA ComputesSame ==
  ASSUME NEW e, NEW S, WellFounded(e, S), NEW k \in Nat, NEW n \in Nat, NEW f, NEW g,
         Computes(e, S, k, f), Computes(e, S, n, g), k <= n
  PROVE  \A x \in S : Measure(e, x) < k => f[x] = g[x]
<1> DEFINE T == {j \in Nat : \A x \in S : Measure(e, x) < j /\ Measure(e, x) < k => f[x] = g[x]}
<1>0. \A x \in S : Measure(e, x) \in Nat
  BY DEF WellFounded
<1>1. 0 \in T
  BY <1>0
<1>2. ASSUME NEW j \in Nat, j \in T PROVE j + 1 \in T
  <2> SUFFICES ASSUME NEW x \in S, Measure(e, x) < j + 1, Measure(e, x) < k PROVE f[x] = g[x]
    OBVIOUS
  <2>1. ASSUME NEW y \in S, Measure(e, y) < Measure(e, x) PROVE f[y] = g[y]
    <3>1. Measure(e, y) < j /\ Measure(e, y) < k
      BY <1>0, <2>1
    <3> QED BY <1>2, <3>1
  <2>2. Def(e, x, f) = Def(e, x, g)
    BY <2>1, Zenon DEF WellFounded
  <2>3. Measure(e, x) < n
    BY <1>0
  <2>4. f[x] = Def(e, x, f)
    BY ComputesAt
  <2>5. g[x] = Def(e, x, g)
    BY <2>3, ComputesAt
  <2> QED BY <2>2, <2>4, <2>5
<1>3. Nat \subseteq T
  <2> HIDE DEF T
  <2> QED BY <1>1, <1>2, SetInduction
<1> QED BY <1>3

(* A recursive function satisfies its equation. *)
LEMMA RecursiveFunction ==
  ASSUME NEW e, NEW S, WellFounded(e, S)
  PROVE  Rec(e, S) = [x \in S |-> Def(e, x, Rec(e, S))]
<1> DEFINE c(n) == CHOOSE f : Computes(e, S, n, f)
           M(x) == Measure(e, x)
           F == [x \in S |-> c(M(x) + 1)[x]]
<1>1. \A n \in Nat : Computes(e, S, n, c(n))
  BY ComputesAll, Zenon
<1>2. \A x \in S : M(x) \in Nat /\ M(x) + 1 \in Nat /\ M(x) < M(x) + 1
  BY DEF WellFounded
<1>3. ASSUME NEW x \in S PROVE F[x] = Def(e, x, F)
  <2>1. c(M(x) + 1)[x] = Def(e, x, c(M(x) + 1))
    <3> HIDE DEF c
    <3> QED BY <1>1, <1>2, ComputesAt
  <2>2. ASSUME NEW y \in S, M(y) < M(x) PROVE c(M(x) + 1)[y] = F[y]
    <3>1. M(y) + 1 <= M(x) + 1 /\ M(x) + 1 \in Nat /\ M(y) + 1 \in Nat
      BY <1>2, <2>2
    <3>2. c(M(y) + 1)[y] = c(M(x) + 1)[y]
      <4> HIDE DEF c, M
      <4>1. Computes(e, S, M(y) + 1, c(M(y) + 1)) /\ Computes(e, S, M(x) + 1, c(M(x) + 1))
        BY <1>1, <3>1
      <4>2. \A z \in S : Measure(e, z) < M(y) + 1 => c(M(y) + 1)[z] = c(M(x) + 1)[z]
        BY <3>1, <4>1, ComputesSame
      <4>3. Measure(e, y) < M(y) + 1
        BY <1>2 DEF M
      <4> QED BY <4>2, <4>3
    <3> QED BY <3>2, Zenon
  <2>3. Def(e, x, c(M(x) + 1)) = Def(e, x, F)
    <3> HIDE DEF c, F
    <3> QED BY <2>2, Zenon DEF WellFounded
  <2>4. F[x] = c(M(x) + 1)[x]
    BY Zenon
  <2> QED BY <2>1, <2>3, <2>4, Zenon
<1>4. F = [x \in S |-> F[x]]
  <2> HIDE DEF c, M
  <2> QED BY Zenon
<1>5. F = [x \in S |-> Def(e, x, F)]
  <2> HIDE DEF F
  <2> QED BY <1>3, <1>4, Zenon
<1> HIDE DEF F
<1> QED BY <1>5, Zenon DEF Rec
----------------------------------------------------------------------------
(* FoldLeft with the operator Op, as SequencesExt defines it.  The instances *)
(* would each bring another copy of that module. *)
Last(s) == CHOOSE x \in s : \A y \in s : x >= y
Fold(c, d, e, base, seq) ==
  MapThenFoldSet(LAMBDA v, acc : Op(c, d, e, acc, v), base, LAMBDA i : seq[i], LAMBDA s : Last(s), DOMAIN seq)

(* The function that this definition iterates *)
Step(c, d, e, base, seq, n, f) ==
  f = [s \in SUBSET (1..n) |-> IF s = {} THEN base ELSE Op(c, d, e, f[s \ {Last(s)}], seq[Last(s)])]

(* The element that is folded last *)
LEMMA LastOfRange ==
  ASSUME NEW n \in Nat, NEW s \in SUBSET (1..(n + 1)), n + 1 \in s
  PROVE  Last(s) = n + 1
<1>1. \A y \in s : y \in Int /\ n + 1 >= y
  OBVIOUS
<1>2. Last(s) \in s /\ \A y \in s : Last(s) >= y
  BY <1>1 DEF Last
<1>3. Last(s) \in Int /\ n + 1 >= Last(s) /\ Last(s) >= n + 1
  BY <1>1, <1>2
<1> HIDE DEF Last
<1> QED BY <1>3

(* It exists, by induction over the number of elements. *)
LEMMA FoldExists ==
  ASSUME NEW c, NEW d, NEW e, NEW base, NEW seq
  PROVE  \A n \in Nat : \E f : Step(c, d, e, base, seq, n, f)
<1> DEFINE T == {n \in Nat : \E f : Step(c, d, e, base, seq, n, f)}
<1>1. 0 \in T
  <2>1. Step(c, d, e, base, seq, 0, [s \in SUBSET (1..0) |-> base])
    <3>1. \A s \in SUBSET (1..0) : s = {}
      OBVIOUS
    <3> QED BY <3>1 DEF Step
  <2> QED BY <2>1
<1>2. ASSUME NEW n \in Nat, n \in T PROVE n + 1 \in T
  <2>1. PICK f : Step(c, d, e, base, seq, n, f)
    BY <1>2
  <2> DEFINE Val(s) == IF s = {} THEN base ELSE Op(c, d, e, f[s \ {Last(s)}], seq[Last(s)])
             g == [s \in SUBSET (1..(n + 1)) |-> Val(s)]
  <2>2. \A s \in SUBSET (1..n) : g[s] = f[s]
    <3>1. \A s \in SUBSET (1..n) : f[s] = Val(s)
      BY <2>1, Zenon DEF Step
    <3>2. \A s \in SUBSET (1..n) : s \in SUBSET (1..(n + 1))
      OBVIOUS
    <3> QED BY <3>1, <3>2, Zenon
  <2>3. ASSUME NEW s \in SUBSET (1..(n + 1)), s # {} PROVE s \ {Last(s)} \in SUBSET (1..n)
    <3>1. \A x \in s : x \in 1..n \/ x = n + 1
      OBVIOUS
    <3>2. n + 1 \in s => Last(s) = n + 1
      BY LastOfRange
    <3> QED BY <3>1, <3>2, Zenon
  <2>4. \A s \in SUBSET (1..(n + 1)) :
          g[s] = IF s = {} THEN base ELSE Op(c, d, e, g[s \ {Last(s)}], seq[Last(s)])
    <3> TAKE s \in SUBSET (1..(n + 1))
    <3>1. g[s] = Val(s)
      BY Zenon
    <3>2. s # {} => g[s \ {Last(s)}] = f[s \ {Last(s)}]
      BY <2>2, <2>3, Zenon
    <3> QED BY <3>1, <3>2, Zenon
  <2>5. Step(c, d, e, base, seq, n + 1, g)
    <3> HIDE DEF Val
    <3>1. g = [s \in SUBSET (1..(n + 1)) |-> g[s]]
      BY Zenon
    <3> QED BY <2>4, <3>1, Zenon DEF Step
  <2> QED BY <2>5
<1> HIDE DEF T
<1>3. Nat \subseteq T
  BY <1>1, <1>2, SetInduction
<1> QED BY <1>3 DEF T

(* A fold takes one step for each element, in their order. *)
LEMMA FoldTrace ==
  ASSUME NEW c, NEW d, NEW e, NEW base, NEW S, NEW seq \in Seq(S)
  PROVE  \E t : /\ t[0] = base /\ Fold(c, d, e, base, seq) = t[Len(seq)]
                /\ \A i \in 1..Len(seq) : t[i] = Op(c, d, e, t[i - 1], seq[i])
<1> DEFINE L == Len(seq)
           iter == CHOOSE f : f = [s \in SUBSET (DOMAIN seq) |->
                     IF s = {} THEN base ELSE Op(c, d, e, f[s \ {Last(s)}], seq[Last(s)])]
           t == [n \in 0..L |-> iter[1..n]]
<1>1. Fold(c, d, e, base, seq) = iter[DOMAIN seq]
  BY DEF Fold, MapThenFoldSet
<1>2. L \in Nat /\ DOMAIN seq = 1..L
  OBVIOUS
<1>3. Step(c, d, e, base, seq, L, iter)
  <2>1. \E f : Step(c, d, e, base, seq, L, f)
    BY <1>2, FoldExists
  <2> QED BY <2>1, <1>2, Zenon DEF Step
<1> HIDE DEF iter
<1>4. t[0] = base
  <2>1. 1..0 = {} /\ 1..0 \in SUBSET (1..L) /\ 0 \in 0..L
    BY <1>2
  <2>2. iter[1..0] = base
    BY <1>3, <2>1, Zenon DEF Step
  <2> QED BY <2>1, <2>2
<1>5. Fold(c, d, e, base, seq) = t[L]
  BY <1>1, <1>2
<1>6. ASSUME NEW i \in 1..L PROVE t[i] = Op(c, d, e, t[i - 1], seq[i])
  <2>1. i \in 0..L /\ i - 1 \in 0..L /\ i - 1 \in Nat /\ (i - 1) + 1 = i
    BY <1>2
  <2>2. 1..i \in SUBSET (1..L) /\ 1..i # {} /\ (1..i) \ {i} = 1..(i - 1)
    <3>1. 1 \in 1..i /\ \A x \in 1..i : x \in 1..L
      BY <1>2, <2>1
    <3>2. (1..i) \ {i} = 1..(i - 1)
      BY <2>1
    <3> QED BY <3>1, <3>2
  <2>3. Last(1..i) = i
    <3>1. i - 1 \in Nat /\ 1..i \in SUBSET (1..((i - 1) + 1)) /\ (i - 1) + 1 \in 1..i
      BY <2>1
    <3>2. Last(1..i) = (i - 1) + 1
      BY <3>1, LastOfRange
    <3> QED BY <2>1, <3>2
  <2>4. iter[1..i] = Op(c, d, e, iter[1..(i - 1)], seq[i])
    BY <1>3, <2>2, <2>3, Zenon DEF Step
  <2>5. t[i] = iter[1..i] /\ t[i - 1] = iter[1..(i - 1)]
    BY <2>1, Zenon
  <2> QED BY <2>4, <2>5, Zenon
<1> HIDE DEF t
<1> QED BY <1>4, <1>5, <1>6

(* What the steps keep the fold keeps. *)
LEMMA FoldInduction ==
  ASSUME NEW c, NEW d, NEW e, NEW base, NEW S, NEW seq \in Seq(S),
         Inv(c, d, e, base, 0, base),
         \A i \in 1..Len(seq) : \A acc : Inv(c, d, e, base, i - 1, acc) => Inv(c, d, e, base, i, Op(c, d, e, acc, seq[i]))
  PROVE  Inv(c, d, e, base, Len(seq), Fold(c, d, e, base, seq))
<1>1. PICK t : /\ t[0] = base /\ Fold(c, d, e, base, seq) = t[Len(seq)]
               /\ \A i \in 1..Len(seq) : t[i] = Op(c, d, e, t[i - 1], seq[i])
  BY FoldTrace
<1> DEFINE T == {n \in Nat : n <= Len(seq) => Inv(c, d, e, base, n, t[n])}
<1>2. 0 \in T
  BY <1>1
<1>3. ASSUME NEW n \in Nat, n \in T PROVE n + 1 \in T
  <2>1. n + 1 <= Len(seq) => n + 1 \in 1..Len(seq) /\ (n + 1) - 1 = n /\ n <= Len(seq)
    OBVIOUS
  <2> QED BY <1>1, <1>3, <2>1
<1> HIDE DEF T
<1>4. Len(seq) \in T
  BY <1>2, <1>3, SetInduction
<1> QED BY <1>1, <1>4 DEF T

(* Folds whose steps are equal are equal. *)
LEMMA FoldCongruence ==
  ASSUME NEW b, NEW c, NEW d, NEW e, NEW base, NEW S, NEW seq \in Seq(S),
         \A i \in 1..Len(seq) : \A acc : Op(c, d, e, acc, seq[i]) = Op(b, d, e, acc, seq[i])
  PROVE  Fold(c, d, e, base, seq) = Fold(b, d, e, base, seq)
<1>1. PICK t : /\ t[0] = base /\ Fold(c, d, e, base, seq) = t[Len(seq)]
               /\ \A i \in 1..Len(seq) : t[i] = Op(c, d, e, t[i - 1], seq[i])
  BY FoldTrace
<1>2. PICK u : /\ u[0] = base /\ Fold(b, d, e, base, seq) = u[Len(seq)]
               /\ \A i \in 1..Len(seq) : u[i] = Op(b, d, e, u[i - 1], seq[i])
  BY FoldTrace
<1> DEFINE T == {n \in Nat : n <= Len(seq) => t[n] = u[n]}
<1>3. 0 \in T
  BY <1>1, <1>2
<1>4. ASSUME NEW n \in Nat, n \in T PROVE n + 1 \in T
  <2>1. n + 1 <= Len(seq) => n + 1 \in 1..Len(seq) /\ (n + 1) - 1 = n /\ n <= Len(seq)
    OBVIOUS
  <2>2. n + 1 <= Len(seq) => t[n + 1] = Op(c, d, e, t[n], seq[n + 1]) /\ u[n + 1] = Op(b, d, e, u[n], seq[n + 1])
    BY <1>1, <1>2, <2>1
  <2> QED BY <1>4, <2>1, <2>2
<1> HIDE DEF T
<1>5. Len(seq) \in T
  BY <1>3, <1>4, SetInduction
<1> QED BY <1>1, <1>2, <1>5 DEF T
=============================================================================
