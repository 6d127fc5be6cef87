------------------------------ MODULE FoldFacts ------------------------------
(***************************************************************************)
(* What FoldLeft of SequencesExt computes, for any operator: the operator  *)
(* is the parameter of this module, which is instantiated for each one     *)
(* that is folded.                                                         *)
(***************************************************************************)
EXTENDS Naturals, Sequences, Folds, WellFoundedInduction, TLAPS

CONSTANT Op(_, _)  \* what is folded

\* Folded(base, s), as SequencesExt defines it.
Greatest(S) == CHOOSE x \in S : \A y \in S : x >= y
Folded(base, s) ==
  MapThenFoldSet(LAMBDA x, y : Op(y, x), base, LAMBDA i : s[i], LAMBDA S : Greatest(S), DOMAIN s)

-----------------------------------------------------------------------------
\* Induction over the natural numbers, for a property given as a set.
LEMMA NatSetInduction ==
  ASSUME NEW S, 0 \in S, \A n \in Nat : n \in S => n + 1 \in S
  PROVE  Nat \subseteq S
<1> DEFINE T == Nat \ S
           R == {ss \in Nat \X Nat : ss[1] < ss[2]}
<1> SUFFICES ASSUME T # {} PROVE FALSE
  OBVIOUS
<1>1. T \subseteq Nat
  OBVIOUS
<1>2. IsWellFoundedOn(R, Nat)
  BY NatLessThanWellFounded, SMT DEF OpToRel
<1> HIDE DEF T, R
<1>3. PICK x \in T : \A y \in T : ~(<<y, x>> \in R)
  BY <1>1, <1>2, WFMin, Zenon
<1>4. \A y \in T : ~(y < x)
  BY <1>1, <1>3 DEF R
<1> USE DEF T
<1>5. x \in Nat /\ x # 0 /\ x - 1 \in Nat /\ (x - 1) + 1 = x
  OBVIOUS
<1> QED BY <1>4, <1>5

-----------------------------------------------------------------------------
\* The function that a fold is defined by, on the sets of the first n indices.
Folds(f, base, s, n) ==
  f = [T \in SUBSET (1..n) |->
         IF T = {} THEN base ELSE Op(f[T \ {Greatest(T)}], s[Greatest(T)])]

LEMMA GreatestOf ==
  ASSUME NEW n \in Nat, NEW T, T \subseteq 1..n, T # {}
  PROVE  /\ Greatest(T) \in T /\ \A y \in T : y <= Greatest(T)
         /\ Greatest(T) \in 1..n
         /\ T \ {Greatest(T)} \subseteq 1..(Greatest(T) - 1)
<1> DEFINE A == {n - x : x \in T}
           R == {ss \in Nat \X Nat : ss[1] < ss[2]}
<1>1. A \subseteq Nat /\ A # {}
  <2>1. \A x \in T : n - x \in Nat
    OBVIOUS
  <2> QED BY <2>1
<1>2. IsWellFoundedOn(R, Nat)
  BY NatLessThanWellFounded, SMT DEF OpToRel
<1>3. PICK a \in A : \A b \in A : ~(<<b, a>> \in R)
  <2> HIDE DEF A, R
  <2> QED BY <1>1, <1>2, WFMin, Zenon
<1>4. \A b \in A : ~(b < a)
  BY <1>1, <1>3
<1>5. PICK x \in T : a = n - x
  OBVIOUS
<1>6. \A y \in T : x >= y
  <2> SUFFICES ASSUME NEW y \in T PROVE x >= y
    OBVIOUS
  <2>1. n - y \in A /\ x \in Int /\ y \in Int
    OBVIOUS
  <2> HIDE DEF A
  <2>2. ~(n - y < n - x)
    BY <2>1, <1>4, <1>5
  <2> QED BY <2>1, <2>2
<1>7. Greatest(T) \in T /\ \A y \in T : Greatest(T) >= y
  BY <1>6 DEF Greatest
<1>8. \A y \in T : y \in Int /\ 1 <= y /\ y <= n
  OBVIOUS
<1> HIDE DEF A, R
<1>9. PICK m : m = Greatest(T)
  OBVIOUS
<1>10. m \in T /\ \A y \in T : y <= m
  BY <1>7, <1>8, <1>9
<1>11. m \in Int /\ 1 <= m /\ m <= n
  BY <1>8, <1>10
<1>12. \A y \in T \ {m} : y \in 1..(m - 1)
  <2> SUFFICES ASSUME NEW y \in T, y # m PROVE y \in 1..(m - 1)
    OBVIOUS
  <2>1. y \in Int /\ 1 <= y /\ y <= m
    BY <1>8, <1>10
  <2> QED BY <1>11, <2>1
<1>13. m \in 1..n
  BY <1>11
<1> QED BY <1>9, <1>10, <1>12, <1>13

LEMMA UpTo ==
  ASSUME NEW n \in Nat
  PROVE  /\ n + 1 \in Nat /\ n + 1 \in 1..(n + 1)
         /\ (1..(n + 1)) \ {n + 1} = 1..n
         /\ 1..(n + 1) # {} /\ 1..(n + 1) \in SUBSET (1..(n + 1))
OBVIOUS

LEMMA GreatestUpTo ==
  ASSUME NEW n \in Nat
  PROVE  Greatest(1..(n + 1)) = n + 1
<1> DEFINE p == n + 1
<1>1. p \in Nat /\ p \in 1..p /\ 1..p \subseteq 1..p /\ 1..p # {}
  BY UpTo
<1> HIDE DEF p
<1>2. Greatest(1..p) \in 1..p /\ p <= Greatest(1..p)
  BY <1>1, GreatestOf, Zenon
<1>3. Greatest(1..p) = p
  BY <1>1, <1>2
<1> QED BY <1>3 DEF p

LEMMA FoldsExist ==
  ASSUME NEW base, NEW s, NEW n \in Nat
  PROVE  \E f : Folds(f, base, s, n)
<1> DEFINE S == {m \in Nat : \E f : Folds(f, base, s, m)}
<1>1. 0 \in S
  <2> DEFINE f == [T \in {{}} |-> base]
  <2>1. SUBSET (1..0) = {{}}
    OBVIOUS
  <2>2. Folds(f, base, s, 0)
    BY <2>1 DEF Folds
  <2> QED BY <2>2
<1>2. ASSUME NEW m \in Nat, m \in S PROVE m + 1 \in S
  <2>1. PICK f : Folds(f, base, s, m)
    BY <1>2
  <2> DEFINE g == [T \in SUBSET (1..(m + 1)) |->
                     IF m + 1 \in T THEN Op(f[T \ {m + 1}], s[m + 1]) ELSE f[T]]
  <2>2. Folds(g, base, s, m + 1)
    <3>1. ASSUME NEW T \in SUBSET (1..(m + 1))
          PROVE  g[T] = IF T = {} THEN base ELSE Op(g[T \ {Greatest(T)}], s[Greatest(T)])
      <4>1. CASE m + 1 \in T
        <5>1. Greatest(T) = m + 1
          <6>1. T \subseteq 1..(m + 1) /\ T # {}
            BY <4>1
          <6>2. Greatest(T) \in 1..(m + 1) /\ m + 1 <= Greatest(T)
            <7>1. m + 1 \in Nat
              OBVIOUS
            <7> QED BY <4>1, <6>1, <7>1, GreatestOf, Zenon
          <6> QED BY <6>2
        <5>2. T # {} /\ T \ {m + 1} \in SUBSET (1..(m + 1)) /\ T \ {m + 1} \in SUBSET (1..m)
          BY <4>1
        <5>3. g[T \ {m + 1}] = f[T \ {m + 1}]
          BY <5>2
        <5> QED BY <4>1, <5>1, <5>2, <5>3
      <4>2. CASE m + 1 \notin T
        <5>1. T \in SUBSET (1..m)
          BY <4>2
        <5>2. f[T] = IF T = {} THEN base ELSE Op(f[T \ {Greatest(T)}], s[Greatest(T)])
          BY <2>1, <5>1 DEF Folds
        <5>3. g[T \ {Greatest(T)}] = f[T \ {Greatest(T)}] /\ g[T] = f[T]
          BY <4>2
        <5> QED BY <5>2, <5>3
      <4> QED BY <4>1, <4>2
    <3> QED BY <3>1 DEF Folds
  <2> QED BY <2>2
<1>3. Nat \subseteq S
  <2> HIDE DEF S
  <2> QED BY <1>1, <1>2, NatSetInduction
<1> QED BY <1>3

\* Two such functions agree where the sequences do.
LEMMA FoldsUnique ==
  ASSUME NEW base, NEW s, NEW t, NEW m \in Nat, NEW n \in Nat, NEW f, NEW g,
         Folds(f, base, s, m), Folds(g, base, t, n), m <= n,
         \A k \in 1..m : s[k] = t[k]
  PROVE  \A T \in SUBSET (1..m) : f[T] = g[T]
<1> DEFINE S == {k \in Nat : k <= m => \A T \in SUBSET (1..k) : f[T] = g[T]}
<1>1. 0 \in S
  BY DEF Folds
<1>2. ASSUME NEW k \in Nat, k \in S PROVE k + 1 \in S
  <2>1. ASSUME k + 1 <= m, NEW T \in SUBSET (1..(k + 1)) PROVE f[T] = g[T]
    <3>0. T \subseteq 1..(k + 1) /\ T \in SUBSET (1..m) /\ T \in SUBSET (1..n)
      BY <2>1
    <3>1. CASE T = {}
      BY <3>0, <3>1 DEF Folds
    <3>2. CASE T # {}
      <4>1. Greatest(T) \in 1..(k + 1) /\ T \ {Greatest(T)} \subseteq 1..(Greatest(T) - 1)
        BY <3>0, <3>2, GreatestOf
      <4>2. T \ {Greatest(T)} \in SUBSET (1..k) /\ Greatest(T) \in 1..m
        BY <2>1, <4>1
      <4>3. f[T \ {Greatest(T)}] = g[T \ {Greatest(T)}] /\ s[Greatest(T)] = t[Greatest(T)]
        BY <1>2, <2>1, <4>2
      <4>4. f[T] = Op(f[T \ {Greatest(T)}], s[Greatest(T)]) /\ g[T] = Op(g[T \ {Greatest(T)}], t[Greatest(T)])
        BY <3>0, <3>2 DEF Folds
      <4> QED BY <4>3, <4>4
    <3> QED BY <3>1, <3>2
  <2> QED BY <2>1
<1>3. Nat \subseteq S
  <2> HIDE DEF S
  <2> QED BY <1>1, <1>2, NatSetInduction
<1> QED BY <1>3

LEMMA FoldedIs ==
  ASSUME NEW base, NEW s, NEW n \in Nat, DOMAIN s = 1..n
  PROVE  \E f : Folds(f, base, s, n) /\ Folded(base, s) = f[1..n]
<1> DEFINE f == CHOOSE f : Folds(f, base, s, n)
<1>1. Folds(f, base, s, n)
  BY FoldsExist, Zenon
<1>2. Folded(base, s) = f[1..n]
  BY DEF Folded, MapThenFoldSet, Folds
<1> QED BY <1>1, <1>2

-----------------------------------------------------------------------------
(* The equations of a fold, and what it preserves.                         *)

LEMMA FoldedEmpty ==
  ASSUME NEW base
  PROVE  Folded(base, <<>>) = base
<1>1. PICK f : Folds(f, base, <<>>, 0) /\ Folded(base, <<>>) = f[1..0]
  BY FoldedIs
<1> QED BY <1>1 DEF Folds

LEMMA FoldedAppend ==
  ASSUME NEW base, NEW S, NEW s \in Seq(S), NEW e
  PROVE  Folded(base, Append(s, e)) = Op(Folded(base, s), e)
<1> DEFINE n == Len(s)
           t == Append(s, e)
<1>1. /\ n \in Nat /\ DOMAIN s = 1..n /\ DOMAIN t = 1..(n + 1)
      /\ \A k \in 1..n : s[k] = t[k]
      /\ t[n + 1] = e
  OBVIOUS
<1> HIDE DEF n, t
<1>2. PICK f : Folds(f, base, s, n) /\ Folded(base, s) = f[1..n]
  BY <1>1, FoldedIs
<1>3. PICK g : Folds(g, base, t, n + 1) /\ Folded(base, t) = g[1..(n + 1)]
  BY <1>1, FoldedIs
<1>4. f[1..n] = g[1..n]
  BY <1>1, <1>2, <1>3, FoldsUnique
<1>5. Greatest(1..(n + 1)) = n + 1
  BY <1>1, GreatestUpTo, Zenon
<1>6. g[1..(n + 1)] = Op(g[1..n], t[n + 1])
  <2>1. (1..(n + 1)) \ {n + 1} = 1..n /\ 1..(n + 1) # {} /\ 1..(n + 1) \in SUBSET (1..(n + 1))
    BY <1>1, UpTo, Zenon
  <2> QED BY <1>3, <1>5, <2>1 DEF Folds
<1> QED BY <1>1, <1>2, <1>3, <1>4, <1>6 DEF t

LEMMA FoldedOne ==
  ASSUME NEW base, NEW e
  PROVE  Folded(base, <<e>>) = Op(base, e)
<1>1. <<>> \in Seq({e}) /\ Append(<<>>, e) = <<e>>
  OBVIOUS
<1>2. Folded(base, Append(<<>>, e)) = Op(Folded(base, <<>>), e)
  BY <1>1, FoldedAppend
<1> QED BY <1>1, <1>2, FoldedEmpty

LEMMA FoldedKeeps ==
  ASSUME NEW Q, NEW base \in Q, NEW S, NEW s \in Seq(S),
         \A x \in Q : \A e \in S : Op(x, e) \in Q
  PROVE  Folded(base, s) \in Q
<1>0. \A v \in Seq(S) : \A e : Folded(base, Append(v, e)) = Op(Folded(base, v), e)
  BY FoldedAppend
<1> DEFINE N == {n \in Nat : \A u \in Seq(S) : Len(u) = n => Folded(base, u) \in Q}
<1>1. 0 \in N
  <2>1. ASSUME NEW u \in Seq(S), Len(u) = 0 PROVE Folded(base, u) \in Q
    <3>1. u = <<>>
      BY <2>1
    <3>2. Folded(base, <<>>) = base
      BY FoldedEmpty
    <3> QED BY <3>1, <3>2
  <2> QED BY <2>1
<1>2. ASSUME NEW n \in Nat, n \in N PROVE n + 1 \in N
  <2>1. ASSUME NEW u \in Seq(S), Len(u) = n + 1 PROVE Folded(base, u) \in Q
    <3>1. PICK v \in Seq(S), e \in S : Len(v) = n /\ u = Append(v, e)
      <4> DEFINE v == SubSeq(u, 1, n)
      <4>1. v \in Seq(S) /\ Len(v) = n /\ u[n + 1] \in S
        BY <2>1
      <4>2. u = Append(v, u[n + 1])
        BY <2>1
      <4> QED BY <4>1, <4>2
    <3>2. Folded(base, v) \in Q
      BY <1>2, <3>1
    <3>3. Folded(base, Append(v, e)) = Op(Folded(base, v), e)
      BY <1>0
    <3> QED BY <3>1, <3>2, <3>3
  <2> QED BY <2>1
<1>3. Nat \subseteq N
  <2> HIDE DEF N
  <2> QED BY <1>1, <1>2, NatSetInduction
<1>4. Len(s) \in Nat
  OBVIOUS
<1> QED BY <1>3, <1>4
=============================================================================
