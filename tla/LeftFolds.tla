----------------------------- MODULE LeftFolds -----------------------------
(***************************************************************************)
(* What a left fold over a sequence returns, whatever the operator op that *)
(* is folded; p stands for all else that op depends on.  The module is     *)
(* instantiated once for each fold of a specification, because a theorem   *)
(* cannot be applied to an operator that it takes as a parameter; it       *)
(* extends next to nothing, because an instance has a copy of everything.  *)
(* That is why induction is a hypothesis: who instantiates the module      *)
(* proves it, from the library, once.                                      *)
(***************************************************************************)
EXTENDS Integers, Sequences

CONSTANT op(_, _, _)

Greatest(T) == CHOOSE x \in T : \A y \in T : x >= y

\* FoldLeft of SequencesExt, written out.
Fold(p, base, s) ==
  LET iter[T \in SUBSET (DOMAIN s)] ==
        IF T = {} THEN base
        ELSE LET x == Greatest(T) IN op(p, iter[T \ {x}], s[x])
  IN  iter[DOMAIN s]

\* Induction on a number, for the numbers in a set.
Induction == \A T : 0 \in T /\ (\A n \in Nat : n \in T => n + 1 \in T) => Nat \subseteq T

\* The function that FoldLeft chooses: the fold of the elements of s at the indices in T.
IsIter(f, p, base, s) ==
  f = [T \in SUBSET (DOMAIN s) |->
         IF T = {} THEN base ELSE op(p, f[T \ {Greatest(T)}], s[Greatest(T)])]

\* The same on the first m elements.
IsIterTo(f, m, p, base, s) ==
  f = [T \in SUBSET (1..m) |-> IF T = {} THEN base ELSE op(p, f[T \ {Greatest(T)}], s[Greatest(T)])]

\* The definition of a fold by such a function.
LEMMA FoldIter ==
  ASSUME NEW p, NEW base, NEW s
  PROVE  Fold(p, base, s) = (CHOOSE f : IsIter(f, p, base, s))[DOMAIN s]
BY DEF Fold, IsIter

\* The greatest of a set of indices.
LEMMA GreatestIs ==
  ASSUME NEW T \in SUBSET Nat, NEW m \in T, \A x \in T : x <= m
  PROVE  Greatest(T) = m
<1>1. \A x \in T : m >= x
  OBVIOUS
<1>2. ASSUME NEW q \in T, \A x \in T : q >= x PROVE q = m
  <2>1. q >= m /\ m >= q /\ q \in Nat /\ m \in Nat
    BY <1>1, <1>2
  <2> QED BY <2>1
<1> QED BY <1>1, <1>2 DEF Greatest

\* Such a function exists for every sequence.
LEMMA IterExists ==
  ASSUME Induction, NEW p, NEW base, NEW s, NEW n \in Nat
  PROVE  \E f : IsIterTo(f, n, p, base, s)
<1> DEFINE ok == {m \in Nat : \E f : IsIterTo(f, m, p, base, s)}
<1>1. 0 \in ok
  <2> DEFINE f == [T \in SUBSET (1..0) |-> base]
  <2>1. 1..0 = {}
    OBVIOUS
  <2>2. IsIterTo(f, 0, p, base, s)
    BY <2>1 DEF IsIterTo
  <2> HIDE DEF f
  <2> QED BY <2>2
<1>2. ASSUME NEW m \in Nat, m \in ok PROVE m + 1 \in ok
  <2>1. PICK h : IsIterTo(h, m, p, base, s)
    BY <1>2
  <2> DEFINE g == [T \in SUBSET (1..(m + 1)) |->
                     IF m + 1 \in T THEN op(p, h[T \ {m + 1}], s[m + 1]) ELSE h[T]]
             G(T) == IF T = {} THEN base ELSE op(p, g[T \ {Greatest(T)}], s[Greatest(T)])
  <2>2. ASSUME NEW T \in SUBSET (1..(m + 1)) PROVE g[T] = G(T)
    <3>1. CASE m + 1 \in T
      <4>1. Greatest(T) = m + 1
        BY <3>1, GreatestIs
      <4>2. T \ {m + 1} \in SUBSET (1..(m + 1)) /\ m + 1 \notin T \ {m + 1}
        OBVIOUS
      <4>3. g[T \ {m + 1}] = h[T \ {m + 1}]
        BY <4>2
      <4> QED BY <3>1, <4>1, <4>3
    <3>2. CASE m + 1 \notin T
      <4>1. T \in SUBSET (1..m)
        BY <3>2
      <4>2. h[T] = IF T = {} THEN base ELSE op(p, h[T \ {Greatest(T)}], s[Greatest(T)])
        BY <2>1, <4>1 DEF IsIterTo
      <4>3. g[T] = h[T]
        BY <3>2
      <4>4. T \ {Greatest(T)} \in SUBSET (1..(m + 1)) /\ m + 1 \notin T \ {Greatest(T)}
        BY <3>2
      <4>5. g[T \ {Greatest(T)}] = h[T \ {Greatest(T)}]
        BY <4>4
      <4> QED BY <4>2, <4>3, <4>5
    <3> QED BY <3>1, <3>2
  <2>3. g = [T \in SUBSET (1..(m + 1)) |-> g[T]]
    OBVIOUS
  <2>4. IsIterTo(g, m + 1, p, base, s)
    <3> HIDE DEF g
    <3> QED BY <2>2, <2>3 DEF IsIterTo
  <2> HIDE DEF g
  <2> QED BY <2>4
<1>3. n \in ok
  <2> HIDE DEF ok
  <2> QED BY <1>1, <1>2 DEF Induction
<1> QED BY <1>3

\* The fold is the value of one such function.
LEMMA FoldHasIter ==
  ASSUME Induction, NEW p, NEW base, NEW S, NEW s \in Seq(S)
  PROVE  \E f : IsIter(f, p, base, s) /\ Fold(p, base, s) = f[1..Len(s)]
<1>1. DOMAIN s = 1..Len(s) /\ Len(s) \in Nat
  OBVIOUS
<1>2. PICK f : IsIterTo(f, Len(s), p, base, s)
  BY <1>1, IterExists
<1>3. IsIter(f, p, base, s)
  BY <1>1, <1>2 DEF IsIter, IsIterTo
<1> QED BY <1>1, <1>3, FoldIter

\* The fold of no element.
THEOREM FoldEmpty ==
  ASSUME Induction, NEW p, NEW base
  PROVE  Fold(p, base, <<>>) = base
<1>1. PICK f : IsIter(f, p, base, <<>>) /\ Fold(p, base, <<>>) = f[1..0]
  <2>1. <<>> \in Seq({}) /\ Len(<<>>) = 0
    OBVIOUS
  <2> QED BY <2>1, FoldHasIter
<1>2. 1..0 = {} /\ DOMAIN <<>> = {}
  OBVIOUS
<1> QED BY <1>1, <1>2 DEF IsIter

\* One more element is one more step.
THEOREM FoldAppend ==
  ASSUME Induction, NEW p, NEW base, NEW S, NEW s \in Seq(S), NEW x \in S
  PROVE  Fold(p, base, Append(s, x)) = op(p, Fold(p, base, s), x)
<1> DEFINE t == Append(s, x)
           n == Len(s)
<1>1. t \in Seq(S) /\ n \in Nat /\ Len(t) = n + 1 /\ t[n + 1] = x
       /\ \A i \in 1..n : t[i] = s[i]
  OBVIOUS
<1>2. PICK f : IsIter(f, p, base, s) /\ Fold(p, base, s) = f[1..n]
  BY FoldHasIter
<1>3. PICK g : IsIter(g, p, base, t) /\ Fold(p, base, t) = g[1..(n + 1)]
  BY <1>1, FoldHasIter
<1> DEFINE same == {i \in Nat : i <= n => f[1..i] = g[1..i]}
<1>d. DOMAIN s = 1..n /\ DOMAIN t = 1..(n + 1)
  BY <1>1
<1> HIDE DEF t, n
<1>4. ASSUME NEW i \in Nat, i <= n PROVE 
        /\ g[1..(i + 1)] = op(p, g[1..i], t[i + 1])
        /\ i < n => f[1..(i + 1)] = op(p, f[1..i], s[i + 1])
  <2>1. i + 1 \in 1..(i + 1) /\ 1..(i + 1) \subseteq Nat
    OBVIOUS
  <2>2. Greatest(1..(i + 1)) = i + 1
    BY <2>1, GreatestIs
  <2>3. 1..(i + 1) \ {i + 1} = 1..i
    OBVIOUS
  <2>4. 1..(i + 1) \in SUBSET (1..(n + 1)) /\ (i < n => 1..(i + 1) \in SUBSET (1..n))
    BY <1>1, <1>4
  <2>5. g[1..(i + 1)] = op(p, g[1..i], t[i + 1])
    BY <1>3, <1>d, <2>1, <2>2, <2>3, <2>4 DEF IsIter
  <2>6. i < n => f[1..(i + 1)] = op(p, f[1..i], s[i + 1])
    BY <1>2, <1>d, <2>1, <2>2, <2>3, <2>4 DEF IsIter
  <2> QED BY <2>5, <2>6
<1>5. 0 \in same
  <2>1. 1..0 = {} /\ {} \in SUBSET (1..n) /\ {} \in SUBSET (1..(n + 1))
    OBVIOUS
  <2> QED BY <1>2, <1>3, <1>d, <2>1 DEF IsIter
<1>6. ASSUME NEW i \in Nat, i \in same PROVE i + 1 \in same
  <2>1. CASE i < n
    <3>1. f[1..i] = g[1..i] /\ t[i + 1] = s[i + 1]
      BY <1>1, <1>6, <2>1
    <3>2. f[1..(i + 1)] = g[1..(i + 1)]
      BY <1>1, <1>4, <2>1, <3>1
    <3> QED BY <3>2
  <2>2. CASE ~(i < n)
    BY <1>1, <2>2
  <2> QED BY <2>1, <2>2
<1>7. n \in same
  <2> HIDE DEF same
  <2> QED BY <1>1, <1>5, <1>6 DEF Induction
<1>8. f[1..n] = g[1..n]
  BY <1>1, <1>7
<1>9. g[1..(n + 1)] = op(p, g[1..n], x)
  BY <1>1, <1>4
<1> QED BY <1>2, <1>3, <1>8, <1>9 DEF t
=============================================================================
