-------------------------- MODULE SchedulingProofs ---------------------------
(***************************************************************************)
(* Lemmas about what the scheduler's operators compute: sums, and the      *)
(* plans of Fill as a fold over the sorted pools.  They go by induction    *)
(* over the finite set of indices.  The library's induction theorems have  *)
(* an operator for the claim; here it is a set, and the induction step is  *)
(* that a smallest counterexample does not exist (WFMin).  The combining   *)
(* operator of a fold is likewise a function, on the set of its values.    *)
(***************************************************************************)
EXTENDS Scheduling, FiniteSetTheorems, TLAPS

\* Induction over the subsets of a finite set: what holds of a set if it
\* holds of all its proper subsets holds of every one.
LEMMA SubsetInduction ==
    ASSUME NEW S, IsFiniteSet(S), NEW P,
           \A T \in SUBSET S : (\A U \in SUBSET T : U # T => U \in P) => T \in P
    PROVE  \A T \in SUBSET S : T \in P
<1> DEFINE Bad == {T \in SUBSET S : T \notin P}
<1>1. SUFFICES ASSUME Bad # {} PROVE FALSE
  OBVIOUS
<1>2. IsWellFoundedOn(StrictSubsetOrdering(S), SUBSET S)
  BY FS_FiniteSubsetsOfFinite, FS_StrictSubsetOrderingWellFounded
<1>3. PICK T \in Bad : \A U \in Bad : <<U, T>> \notin StrictSubsetOrdering(S)
  <2>1. Bad \subseteq SUBSET S
    OBVIOUS
  <2> HIDE DEF Bad
  <2> QED
    BY <1>1, <1>2, <2>1, WFMin
<1>4. ASSUME NEW U \in SUBSET T, U # T PROVE U \in P
  <2>1. U \in SUBSET S /\ T \in SUBSET S
    OBVIOUS
  <2>2. <<U, T>> \in StrictSubsetOrdering(S)
    BY <1>4, <2>1 DEF StrictSubsetOrdering
  <2> QED
    BY <1>3, <2>1, <2>2
<1> QED
  BY <1>4

-----------------------------------------------------------------------------
\* g folds f over the subsets of S: it takes out the index that ch chooses,
\* and combines its value with the fold of the others.
IsFold(g, S, f, op, base, ch) ==
    \A s \in SUBSET S :
        g[s] = IF s = {} THEN base ELSE op[<<f[ch[s]], g[s \ {ch[s]}]>>]

\* Two folds agree on the sets of indices that both are about.
LEMMA FoldsAgree ==
    ASSUME NEW S, IsFiniteSet(S), NEW f, NEW op, NEW base, NEW ch,
           \A s \in SUBSET S : s # {} => ch[s] \in s,
           NEW A \in SUBSET S, NEW g, IsFold(g, A, f, op, base, ch),
           NEW B \in SUBSET S, NEW h, IsFold(h, B, f, op, base, ch)
    PROVE  \A t \in SUBSET (A \cap B) : g[t] = h[t]
<1> DEFINE P == {t \in SUBSET (A \cap B) : g[t] = h[t]}
<1>1. IsFiniteSet(A \cap B)
  BY FS_Subset
<1>2. ASSUME NEW T \in SUBSET (A \cap B), \A U \in SUBSET T : U # T => U \in P
      PROVE  T \in P
  <2>1. CASE T = {}
    BY <2>1 DEF IsFold
  <2>2. CASE T # {}
    <3> DEFINE U == T \ {ch[T]}
    <3>1. ch[T] \in T
      BY <2>2
    <3>2. g[U] = h[U]
      BY <1>2, <3>1
    <3>3. /\ g[T] = op[<<f[ch[T]], g[U]>>]
          /\ h[T] = op[<<f[ch[T]], h[U]>>]
      BY <2>2 DEF IsFold
    <3> QED
      BY <3>2, <3>3
  <2> QED
    BY <2>1, <2>2
<1> DEFINE C == A \cap B
<1>3. /\ IsFiniteSet(C)
      /\ \A T \in SUBSET C : (\A U \in SUBSET T : U # T => U \in P) => T \in P
  BY <1>1, <1>2
<1>4. \A t \in SUBSET C : t \in P
  <2> HIDE DEF P, C
  <2> QED
    BY <1>3, SubsetInduction
<1> QED
  BY <1>4

\* Every finite set of indices has a fold.
LEMMA FoldExists ==
    ASSUME NEW S, IsFiniteSet(S), NEW X, NEW Y, NEW f, \A x \in S : f[x] \in X,
           NEW op \in [X \X Y -> Y], NEW base \in Y, NEW ch,
           \A s \in SUBSET S : s # {} => ch[s] \in s
    PROVE  \E g \in [SUBSET S -> Y] : IsFold(g, S, f, op, base, ch)
<1> DEFINE Good(g, T) == g \in [SUBSET T -> Y] /\ IsFold(g, T, f, op, base, ch)
           P == {T \in SUBSET S : \E g : Good(g, T)}
<1>1. ASSUME NEW T \in SUBSET S, \A U \in SUBSET T : U # T => U \in P
      PROVE  T \in P
  <2>1. CASE T = {}
    <3>1. Good([s \in SUBSET T |-> base], T)
      BY <2>1 DEF IsFold
    <3> QED
      BY <3>1
  <2>2. CASE T # {}
    <3> DEFINE G(U) == CHOOSE g : Good(g, U)
               V == T \ {ch[T]}
               top == op[<<f[ch[T]], G(V)[V]>>]
               h == [s \in SUBSET T |-> IF s = T THEN top ELSE G(s)[s]]
    <3>1. ch[T] \in T /\ V \in SUBSET T /\ V # T
      BY <2>2
    <3>2. ASSUME NEW U \in SUBSET T, U # T PROVE Good(G(U), U)
      BY <1>1, <3>2
    <3>3. ASSUME NEW U \in SUBSET T, U # T, NEW t \in SUBSET U
          PROVE  G(U)[t] = G(t)[t]
      <4>1. t \in SUBSET T /\ t # T /\ U \in SUBSET S /\ t \in SUBSET S
        BY <3>3
      <4>2. IsFold(G(U), U, f, op, base, ch) /\ IsFold(G(t), t, f, op, base, ch)
        BY <3>2, <3>3, <4>1
      <4> HIDE DEF G
      <4> QED
        BY <4>1, <4>2, FoldsAgree
    <3>4. top \in Y
      <4>1. G(V)[V] \in Y
        <5>1. Good(G(V), V)
          BY <3>1, <3>2
        <5> HIDE DEF G, V
        <5> QED
          BY <5>1
      <4>2. f[ch[T]] \in X
        BY <3>1
      <4> HIDE DEF G, V
      <4>3. <<f[ch[T]], G(V)[V]>> \in X \X Y
        BY <4>1, <4>2
      <4> QED
        BY <4>3
    <3>5. h \in [SUBSET T -> Y]
      <4>1. ASSUME NEW s \in SUBSET T, s # T PROVE G(s)[s] \in Y
        BY <3>2, <4>1
      <4> HIDE DEF G, top
      <4> QED
        BY <3>4, <4>1
    <3>6. ASSUME NEW s \in SUBSET T
          PROVE  h[s] = IF s = {} THEN base ELSE op[<<f[ch[s]], h[s \ {ch[s]}]>>]
      <4>1. CASE s = T
        <5> HIDE DEF G
        <5> QED
          BY <2>2, <3>1, <4>1
      <4>2. CASE s # T
        <5>1. IsFold(G(s), s, f, op, base, ch)
          BY <3>2, <4>2
        <5> HIDE DEF G
        <5>2. G(s)[s] = IF s = {} THEN base ELSE op[<<f[ch[s]], G(s)[s \ {ch[s]}]>>]
          BY <5>1 DEF IsFold
        <5>3. s # {} => G(s)[s \ {ch[s]}] = h[s \ {ch[s]}]
          <6> SUFFICES ASSUME s # {} PROVE G(s)[s \ {ch[s]}] = h[s \ {ch[s]}]
            OBVIOUS
          <6> DEFINE r == s \ {ch[s]}
          <6>1. r \in SUBSET s /\ r \in SUBSET T /\ r # T
            BY <4>2
          <6>2. G(s)[r] = G(r)[r]
            BY <3>3, <4>2, <6>1
          <6>3. h[r] = G(r)[r]
            BY <6>1
          <6> QED
            BY <6>2, <6>3
        <5>4. h[s] = G(s)[s]
          BY <4>2
        <5> QED
          BY <5>2, <5>3, <5>4
      <4> QED
        BY <4>1, <4>2
    <3>7. Good(h, T)
      <4> HIDE DEF h
      <4> QED
        BY <3>5, <3>6 DEF IsFold
    <3> QED
      <4> HIDE DEF h
      <4> QED
        BY <3>7
  <2> QED
    BY <2>1, <2>2
<1>2. \A T \in SUBSET S : (\A U \in SUBSET T : U # T => U \in P) => T \in P
  BY <1>1
<1>3. \A T \in SUBSET S : T \in P
  <2> HIDE DEF P
  <2> QED
    BY <1>2, SubsetInduction
<1>4. S \in P
  BY <1>3
<1> QED
  BY <1>4

-----------------------------------------------------------------------------
(* Sums.                                                                   *)

Plus == [p \in Int \X Int |-> p[1] + p[2]]
Picks(S) == [s \in (SUBSET S) \ {{}} |-> CHOOSE x \in s : TRUE]

\* g folds f over the subsets of T, by addition, and ends with f's sum.
SumFold(g, U, f, T) ==
    /\ g \in [SUBSET T -> Int]
    /\ IsFold(g, T, f, Plus, 0, Picks(U))
    /\ SumFunctionOnSet(f, T) = g[T]

\* SumFunctionOnSet is a fold.
LEMMA SumIsFold ==
    ASSUME NEW U, IsFiniteSet(U), NEW f, \A x \in U : f[x] \in Int, NEW T \in SUBSET U
    PROVE  \E g : SumFold(g, U, f, T)
<1> DEFINE Step(s, h) == IF s = {} THEN 0
                         ELSE f[CHOOSE x \in s : TRUE] + h[s \ {CHOOSE x \in s : TRUE}]
           iter == CHOOSE h : h = [s \in SUBSET T |-> Step(s, h)]
<1>1. SumFunctionOnSet(f, T) = iter[T]
  BY DEF SumFunctionOnSet, FoldFunctionOnSet, MapThenFoldSet
<1>2. /\ IsFiniteSet(T) /\ \A x \in T : f[x] \in Int
      /\ \A s \in SUBSET U : s # {} => Picks(U)[s] \in s /\ Picks(U)[s] = CHOOSE x \in s : TRUE
  BY FS_Subset DEF Picks
<1>3. Plus \in [Int \X Int -> Int] /\ \A a, b \in Int : Plus[<<a, b>>] = a + b
  BY DEF Plus
<1>4. PICK g \in [SUBSET T -> Int] : IsFold(g, T, f, Plus, 0, Picks(U))
  <2>1. \A s \in SUBSET T : s # {} => Picks(U)[s] \in s
    BY <1>2
  <2>2. PICK ch, op, Z, z : ch = Picks(U) /\ op = Plus /\ Z = Int /\ z = 0
    OBVIOUS
  <2>3. /\ op \in [Z \X Z -> Z] /\ z \in Z /\ \A x \in T : f[x] \in Z
        /\ \A s \in SUBSET T : s # {} => ch[s] \in s
    BY <1>2, <1>3, <2>1, <2>2
  <2>4. \E g \in [SUBSET T -> Z] : IsFold(g, T, f, op, z, ch)
    BY <1>2, <2>3, FoldExists
  <2> QED
    BY <2>2, <2>4
<1>5. ASSUME NEW s \in SUBSET T
      PROVE  g[s] = Step(s, g)
  <2>1. CASE s = {}
    BY <1>4, <2>1 DEF IsFold
  <2>2. CASE s # {}
    <3> DEFINE x == CHOOSE x \in s : TRUE
    <3>1. x \in s /\ Picks(U)[s] = x
      BY <1>2, <2>2
    <3>2. g[s] = Plus[<<f[x], g[s \ {x}]>>]
      BY <1>4, <2>2, <3>1 DEF IsFold
    <3>3. f[x] \in Int /\ g[s \ {x}] \in Int
      BY <1>2, <3>1
    <3> QED
      BY <1>3, <2>2, <3>2, <3>3
  <2> QED
    BY <2>1, <2>2
<1>6. g = [s \in SUBSET T |-> Step(s, g)]
  BY <1>5
<1>7. iter = [s \in SUBSET T |-> Step(s, iter)]
  BY <1>6
<1>8. \A s \in SUBSET T : iter[s] = Step(s, iter)
  <2> HIDE DEF iter
  <2> QED
    BY <1>7
<1> HIDE DEF iter
<1> DEFINE P == {s \in SUBSET T : iter[s] = g[s]}
<1>9. ASSUME NEW V \in SUBSET T, \A W \in SUBSET V : W # V => W \in P
      PROVE  V \in P
  <2>1. CASE V = {}
    BY <1>5, <1>8, <2>1
  <2>2. CASE V # {}
    <3> DEFINE x == CHOOSE x \in V : TRUE
    <3>1. x \in V
      BY <2>2
    <3>2. iter[V \ {x}] = g[V \ {x}]
      BY <1>9, <3>1
    <3> QED
      BY <1>5, <1>8, <2>2, <3>2
  <2> QED
    BY <2>1, <2>2
<1>10. \A V \in SUBSET T : (\A W \in SUBSET V : W # V => W \in P) => V \in P
  BY <1>9
<1>11. \A s \in SUBSET T : s \in P
  <2> HIDE DEF P
  <2> QED
    BY <1>2, <1>10, SubsetInduction
<1> QED
  BY <1>1, <1>4, <1>11 DEF SumFold

\* g has the sums of f over all sets of indices.
Sums(g, U, f) ==
    /\ g \in [SUBSET U -> Int]
    /\ g[{}] = 0
    /\ \A s \in SUBSET U : s # {} => \E x \in s : g[s] = f[x] + g[s \ {x}]
    /\ \A s \in SUBSET U : SumFunctionOnSet(f, s) = g[s]

\* One fold gives the sums over all sets of indices.
LEMMA SumsAreFold ==
    ASSUME NEW U, IsFiniteSet(U), NEW f, \A x \in U : f[x] \in Int
    PROVE  \E g : Sums(g, U, f)
<1>1. \A s \in SUBSET U : s # {} => Picks(U)[s] \in s
  BY DEF Picks
<1>2. PICK g \in [SUBSET U -> Int] : IsFold(g, U, f, Plus, 0, Picks(U))
  <2>1. U \in SUBSET U
    OBVIOUS
  <2>2. PICK g : SumFold(g, U, f, U)
    BY <2>1, SumIsFold
  <2> QED
    BY <2>2 DEF SumFold
<1>3. g[{}] = 0
  BY <1>2 DEF IsFold
<1>4. ASSUME NEW s \in SUBSET U, s # {}
      PROVE  \E x \in s : g[s] = f[x] + g[s \ {x}]
  <2> DEFINE x == Picks(U)[s]
  <2>1. x \in s
    BY <1>1, <1>4
  <2>2. g[s] = Plus[<<f[x], g[s \ {x}]>>]
    BY <1>2, <1>4 DEF IsFold
  <2>3. f[x] \in Int /\ g[s \ {x}] \in Int
    BY <2>1
  <2>4. g[s] = f[x] + g[s \ {x}]
    BY <2>2, <2>3 DEF Plus
  <2> QED
    BY <2>1, <2>4
<1>5. ASSUME NEW s \in SUBSET U
      PROVE  SumFunctionOnSet(f, s) = g[s]
  <2>0. PICK h : SumFold(h, U, f, s)
    BY SumIsFold
  <2>1. IsFold(h, s, f, Plus, 0, Picks(U)) /\ SumFunctionOnSet(f, s) = h[s]
    BY <2>0 DEF SumFold
  <2>2. PICK ch, op, z, A : ch = Picks(U) /\ op = Plus /\ z = 0 /\ A = U
    OBVIOUS
  <2>3. /\ IsFold(g, A, f, op, z, ch) /\ IsFold(h, s, f, op, z, ch)
        /\ A \in SUBSET U /\ \A t \in SUBSET U : t # {} => ch[t] \in t
    BY <1>1, <1>2, <2>1, <2>2
  <2>4. \A t \in SUBSET (A \cap s) : g[t] = h[t]
    BY <2>3, FoldsAgree
  <2>5. s \in SUBSET (A \cap s)
    BY <2>2
  <2> QED
    BY <2>1, <2>4, <2>5
<1> QED
  BY <1>3, <1>4, <1>5 DEF Sums

\* A sum is the value at any one index and the sum over the others.
LEMMA SumTakesOut ==
    ASSUME NEW U, IsFiniteSet(U), NEW f, \A x \in U : f[x] \in Int
    PROVE  /\ SumFunctionOnSet(f, {}) = 0
           /\ \A s \in SUBSET U : SumFunctionOnSet(f, s) \in Int
           /\ \A s \in SUBSET U : \A x \in s :
                 SumFunctionOnSet(f, s) = f[x] + SumFunctionOnSet(f, s \ {x})
<1>0. PICK g : Sums(g, U, f)
  BY SumsAreFold
<1>1. /\ g \in [SUBSET U -> Int] /\ g[{}] = 0
      /\ \A s \in SUBSET U : s # {} => \E x \in s : g[s] = f[x] + g[s \ {x}]
      /\ \A s \in SUBSET U : SumFunctionOnSet(f, s) = g[s]
  BY <1>0 DEF Sums
<1> DEFINE P == {s \in SUBSET U : \A x \in s : g[s] = f[x] + g[s \ {x}]}
<1>2. ASSUME NEW T \in SUBSET U, \A V \in SUBSET T : V # T => V \in P
      PROVE  T \in P
  <2> SUFFICES ASSUME NEW x \in T PROVE g[T] = f[x] + g[T \ {x}]
    OBVIOUS
  <2>1. PICK y \in T : g[T] = f[y] + g[T \ {y}]
    BY <1>1
  <2>2. CASE y # x
    <3> DEFINE R == (T \ {x}) \ {y}
    <3>1. R = (T \ {y}) \ {x}
      OBVIOUS
    <3>2. T \ {x} \in P /\ T \ {y} \in P /\ y \in T \ {x} /\ x \in T \ {y}
      BY <1>2, <2>2
    <3>3. g[T \ {x}] = f[y] + g[R]
      BY <3>2
    <3>4. g[T \ {y}] = f[x] + g[R]
      BY <3>1, <3>2
    <3>5. f[x] \in Int /\ f[y] \in Int /\ g[R] \in Int
      BY <1>1
    <3> HIDE DEF R
    <3> QED
      BY <2>1, <3>3, <3>4, <3>5
  <2> QED
    BY <2>1, <2>2
<1>3. \A T \in SUBSET U : (\A V \in SUBSET T : V # T => V \in P) => T \in P
  BY <1>2
<1>4. \A T \in SUBSET U : T \in P
  <2> HIDE DEF P
  <2> QED
    BY <1>3, SubsetInduction
<1>5. {} \in SUBSET U /\ \A s \in SUBSET U : \A x \in s : s \ {x} \in SUBSET U
  OBVIOUS
<1> QED
  BY <1>1, <1>4, <1>5

\* Functions that agree on the indices have the same sum, also when an index
\* is renamed: p renames the indices U of f to those of h.
LEMMA SumRenames ==
    ASSUME NEW U, IsFiniteSet(U), NEW f, \A x \in U : f[x] \in Int,
           NEW W, IsFiniteSet(W), NEW h, \A x \in W : h[x] \in Int,
           NEW p \in [U -> W], \A x, y \in U : p[x] = p[y] => x = y,
           \A x \in U : f[x] = h[p[x]]
    PROVE  SumFunctionOnSet(f, U) = SumFunctionOnSet(h, {p[x] : x \in U})
<1> DEFINE Im(s) == {p[x] : x \in s}
           P == {s \in SUBSET U : SumFunctionOnSet(f, s) = SumFunctionOnSet(h, Im(s))}
<1>1. ASSUME NEW T \in SUBSET U, \A V \in SUBSET T : V # T => V \in P
      PROVE  T \in P
  <2>1. CASE T = {}
    <3>1. Im({}) = {}
      OBVIOUS
    <3>2. SumFunctionOnSet(f, {}) = 0 /\ SumFunctionOnSet(h, {}) = 0
      BY SumTakesOut
    <3> QED
      BY <2>1, <3>1, <3>2
  <2>2. CASE T # {}
    <3>1. PICK x \in T : TRUE
      BY <2>2
    <3>2. Im(T \ {x}) = Im(T) \ {p[x]} /\ p[x] \in Im(T) /\ Im(T) \in SUBSET W
      OBVIOUS
    <3>3. SumFunctionOnSet(f, T) = f[x] + SumFunctionOnSet(f, T \ {x})
      BY SumTakesOut
    <3>4. SumFunctionOnSet(h, Im(T)) = h[p[x]] + SumFunctionOnSet(h, Im(T) \ {p[x]})
      <4> HIDE DEF Im
      <4> QED
        BY <3>2, SumTakesOut
    <3>5. T \ {x} \in P
      BY <1>1
    <3> QED
      BY <3>2, <3>3, <3>4, <3>5
  <2> QED
    BY <2>1, <2>2
<1>2. \A T \in SUBSET U : (\A V \in SUBSET T : V # T => V \in P) => T \in P
  BY <1>1
<1>3. \A T \in SUBSET U : T \in P
  <2> HIDE DEF P
  <2> QED
    BY <1>2, SubsetInduction
<1> QED
  BY <1>3

\* A sum of numbers that are not negative is no less than a part of it.
LEMMA SumGrows ==
    ASSUME NEW U, IsFiniteSet(U), NEW f, \A x \in U : f[x] \in Int /\ f[x] >= 0,
           NEW T \in SUBSET U
    PROVE  SumFunctionOnSet(f, T) <= SumFunctionOnSet(f, U)
<1>0. \A x \in U : f[x] \in Int
  OBVIOUS
<1> DEFINE P == {s \in SUBSET U : \A t \in SUBSET s :
                    SumFunctionOnSet(f, t) <= SumFunctionOnSet(f, s)}
<1>1. ASSUME NEW S \in SUBSET U, \A V \in SUBSET S : V # S => V \in P
      PROVE  S \in P
  <2> SUFFICES ASSUME NEW t \in SUBSET S
               PROVE  SumFunctionOnSet(f, t) <= SumFunctionOnSet(f, S)
    OBVIOUS
  <2>1. SumFunctionOnSet(f, S) \in Int /\ SumFunctionOnSet(f, t) \in Int
    BY <1>0, SumTakesOut
  <2>2. CASE t # S
    <3>1. PICK x \in S : x \notin t
      BY <2>2
    <3> DEFINE V == S \ {x}
    <3>2. SumFunctionOnSet(f, S) = f[x] + SumFunctionOnSet(f, V)
      BY <1>0, SumTakesOut
    <3>3. SumFunctionOnSet(f, V) \in Int /\ f[x] \in Int /\ f[x] >= 0
      BY <1>0, SumTakesOut
    <3>4. SumFunctionOnSet(f, t) <= SumFunctionOnSet(f, V)
      BY <1>1, <3>1
    <3> HIDE DEF V
    <3> QED
      BY <2>1, <3>2, <3>3, <3>4
  <2> QED
    BY <2>1, <2>2
<1>2. \A S \in SUBSET U : (\A V \in SUBSET S : V # S => V \in P) => S \in P
  BY <1>1
<1>3. \A S \in SUBSET U : S \in P
  <2> HIDE DEF P
  <2> QED
    BY <1>2, SubsetInduction
<1> QED
  BY <1>3

-----------------------------------------------------------------------------
\* Induction over an interval.
LEMMA IntervalInduction ==
    ASSUME NEW m \in Int, NEW n \in Int, NEW P, m \in P,
           \A k \in m..(n - 1) : k \in P => k + 1 \in P
    PROVE  \A k \in m..n : k \in P
<1> DEFINE S == m..n
           Q == {T \in SUBSET S : \A k \in S : T = m..k => k \in P}
<1>1. IsFiniteSet(S)
  BY FS_Interval
<1>2. ASSUME NEW T \in SUBSET S, \A V \in SUBSET T : V # T => V \in Q
      PROVE  T \in Q
  <2> SUFFICES ASSUME NEW k \in S, T = m..k PROVE k \in P
    OBVIOUS
  <2>1. CASE k # m
    <3>1. k - 1 \in S /\ k - 1 \in m..(n - 1)
      BY <2>1
    <3>2. m..(k - 1) \in SUBSET T /\ m..(k - 1) # T
      <4>1. k \in m..k /\ k \notin m..(k - 1)
        OBVIOUS
      <4> QED
        BY <4>1
    <3>3. k - 1 \in P
      BY <1>2, <3>1, <3>2
    <3>4. (k - 1) + 1 = k
      OBVIOUS
    <3> QED
      BY <3>1, <3>3, <3>4
  <2> QED
    BY <2>1
<1>3. \A T \in SUBSET S : (\A V \in SUBSET T : V # T => V \in Q) => T \in Q
  BY <1>2
<1>4. \A T \in SUBSET S : T \in Q
  <2> HIDE DEF Q, S
  <2> QED
    BY <1>1, <1>3, SubsetInduction
<1>5. \A k \in m..n : m..k \in SUBSET S
  OBVIOUS
<1> QED
  BY <1>4, <1>5

-----------------------------------------------------------------------------
(* Fill as a fold: what remains and the plan, after each pool.             *)

\* The entries of a plan for pools of these names: none is for no node.
PlanEntry(names) == [pool : names, count : Nat \ {0}]

\* What the loop of Fill holds.
Progress(names) == [remaining : Int, entries : Seq(PlanEntry(names))]

\* A finite set of numbers has a largest one.
LEMMA MaxOfIndices ==
    ASSUME NEW n \in Nat
    PROVE  \A t \in SUBSET (1..n) : t # {} => Max(t) \in t /\ \A y \in t : Max(t) >= y
<1> DEFINE S == 1..n
           P == {t \in SUBSET S : t # {} => \E x \in t : \A y \in t : x >= y}
<1>1. IsFiniteSet(S)
  BY FS_Interval
<1>2. ASSUME NEW T \in SUBSET S, \A U \in SUBSET T : U # T => U \in P
      PROVE  T \in P
  <2>1. SUFFICES ASSUME T # {} PROVE \E x \in T : \A y \in T : x >= y
    OBVIOUS
  <2>2. PICK a \in T : TRUE
    BY <2>1
  <2> DEFINE U == T \ {a}
  <2>3. CASE U = {}
    <3>1. \A y \in T : a >= y
      BY <2>3
    <3> QED
      BY <3>1
  <2>4. CASE U # {}
    <3>1. PICK b \in U : \A y \in U : b >= y
      BY <1>2, <2>4
    <3>2. a \in Int /\ b \in Int /\ T \subseteq Int
      OBVIOUS
    <3>3. CASE a >= b
      <4>1. \A y \in T : a >= y
        BY <3>1, <3>2, <3>3
      <4> QED
        BY <4>1
    <3>4. CASE b >= a
      <4>1. \A y \in T : b >= y
        BY <3>1, <3>4
      <4> QED
        BY <4>1
    <3> QED
      BY <3>2, <3>3, <3>4
  <2> QED
    BY <2>3, <2>4
<1>3. \A T \in SUBSET S : (\A U \in SUBSET T : U # T => U \in P) => T \in P
  BY <1>2
<1>4. \A T \in SUBSET S : T \in P
  <2> HIDE DEF P, S
  <2> QED
    BY <1>1, <1>3, SubsetInduction
<1> QED
  BY <1>4 DEF Max

\* An iteration keeps the types: it takes a count off what remains and enters
\* it, unless it is 0 or less.
LEMMA FillStepStays ==
    ASSUME NEW names, NEW a \in Progress(names), NEW v, IsPoolView(v), v.name \in names
    PROVE  FillStep(a, v) \in Progress(names)
<1> DEFINE n == IF a.remaining > Capacity(v) THEN Capacity(v) ELSE a.remaining
           e == [pool |-> v.name, count |-> n]
<1>1. a.remaining \in Int /\ a.entries \in Seq(PlanEntry(names))
  BY DEF Progress
<1>2. n \in Int
  BY <1>1 DEF Capacity, IsPoolView
<1>3. CASE n <= 0
  BY <1>3 DEF FillStep
<1>4. CASE n > 0
  <2>1. e \in PlanEntry(names)
    BY <1>2, <1>4 DEF PlanEntry
  <2>2. FillStep(a, v) = [remaining |-> a.remaining - n, entries |-> Append(a.entries, e)]
    BY <1>2, <1>4 DEF FillStep
  <2>3. a.remaining - n \in Int
    BY <1>1, <1>2
  <2> HIDE DEF e, n
  <2>4. Append(a.entries, e) \in Seq(PlanEntry(names))
    BY <1>1, <2>1
  <2> QED
    BY <2>2, <2>3, <2>4 DEF Progress
<1> QED
  BY <1>2, <1>3, <1>4

NamesOf(s) == {s[i].name : i \in DOMAIN s}

\* g holds the progress of Fill over the sorted pools s: g[k] after k of them.
FillRun(g, n, s) ==
    /\ g \in [0..Len(s) -> Progress(NamesOf(s))]
    /\ g[0] = EmptyPlan(n)
    /\ \A k \in 1..Len(s) : g[k] = FillStep(g[k - 1], s[k])
    /\ FoldLeft(FillStep, EmptyPlan(n), s) = g[Len(s)]

\* The fold of Fill goes over the pools from the first to the last.
LEMMA FillRuns ==
    ASSUME NEW n \in Int, NEW s, NEW len \in Nat, s = [i \in 1..len |-> s[i]],
           \A i \in 1..len : IsPoolView(s[i])
    PROVE  \E g : FillRun(g, n, s)
<1> DEFINE S == 1..len
           Y == Progress(NamesOf(s))
           X == {s[i] : i \in S}
           op == [p \in X \X Y |-> FillStep(p[2], p[1])]
           ch == [t \in (SUBSET S) \ {{}} |-> Max(t)]
           base == EmptyPlan(n)
           Step(t, h) == IF t = {} THEN base ELSE FillStep(h[t \ {Max(t)}], s[Max(t)])
           iter == CHOOSE h : h = [t \in SUBSET S |-> Step(t, h)]
<1>1. DOMAIN s = S /\ Len(s) = len
  OBVIOUS
<1>2. IsFiniteSet(S)
  BY FS_Interval
<1>3. FoldLeft(FillStep, base, s) = iter[S]
  BY <1>1 DEF FoldLeft, MapThenFoldSet
<1>4. /\ \A t \in SUBSET S : t # {} => ch[t] \in t /\ ch[t] = Max(t) /\ Max(t) \in t
  BY MaxOfIndices
<1>5. base \in Y
  BY DEF EmptyPlan, Progress
<1>6. \A x \in X : IsPoolView(x) /\ x.name \in NamesOf(s)
  BY <1>1 DEF NamesOf
<1>7. op \in [X \X Y -> Y] /\ \A x \in X, y \in Y : op[<<x, y>>] = FillStep(y, x)
  <2>1. ASSUME NEW x \in X, NEW y \in Y PROVE FillStep(y, x) \in Y
    BY <1>6, FillStepStays
  <2> HIDE DEF X, Y
  <2>2. \A p \in X \X Y : FillStep(p[2], p[1]) \in Y
    BY <2>1
  <2> QED
    BY <2>2
<1>8. PICK G \in [SUBSET S -> Y] : IsFold(G, S, s, op, base, ch)
  <2>1. \A x \in S : s[x] \in X
    OBVIOUS
  <2>2. \A t \in SUBSET S : t # {} => ch[t] \in t
    BY <1>4
  <2> HIDE DEF S, X, Y, op, ch, base
  <2> QED
    BY <1>2, <1>5, <1>7, <2>1, <2>2, FoldExists
<1>9. ASSUME NEW t \in SUBSET S
      PROVE  G[t] = Step(t, G)
  <2>1. CASE t = {}
    BY <1>8, <2>1 DEF IsFold
  <2>2. CASE t # {}
    <3>1. Max(t) \in t /\ ch[t] = Max(t)
      BY <1>4, <2>2
    <3> DEFINE r == t \ {Max(t)}
    <3>2. s[Max(t)] \in X /\ r \in SUBSET S
      BY <3>1
    <3> HIDE DEF S, X, Y, op, ch, base
    <3>3. G[t] = op[<<s[Max(t)], G[r]>>]
      BY <1>8, <2>2, <3>1 DEF IsFold
    <3>4. G[r] \in Y
      BY <1>8, <3>2
    <3> QED
      BY <1>7, <2>2, <3>2, <3>3, <3>4
  <2> QED
    BY <2>1, <2>2
<1> HIDE DEF S, X, Y, op, ch, base
<1>10. G = [t \in SUBSET S |-> Step(t, G)]
  BY <1>8, <1>9
<1>11. iter = [t \in SUBSET S |-> Step(t, iter)]
  BY <1>10
<1>12. \A t \in SUBSET S : iter[t] = Step(t, iter)
  <2> HIDE DEF iter
  <2> QED
    BY <1>11
<1> HIDE DEF iter
<1> DEFINE P == {t \in SUBSET S : iter[t] = G[t]}
<1>13. ASSUME NEW V \in SUBSET S, \A W \in SUBSET V : W # V => W \in P
       PROVE  V \in P
  <2>1. CASE V = {}
    BY <1>9, <1>12, <2>1
  <2>2. CASE V # {}
    <3>1. Max(V) \in V
      BY <1>4, <2>2
    <3>2. iter[V \ {Max(V)}] = G[V \ {Max(V)}]
      BY <1>13, <3>1
    <3> QED
      BY <1>9, <1>12, <2>2, <3>2
  <2> QED
    BY <2>1, <2>2
<1>14. \A V \in SUBSET S : (\A W \in SUBSET V : W # V => W \in P) => V \in P
  BY <1>13
<1>15. \A t \in SUBSET S : t \in P
  <2> HIDE DEF P
  <2> QED
    BY <1>2, <1>14, SubsetInduction
<1> DEFINE g == [k \in 0..len |-> G[1..k]]
<1>16. \A k \in 0..len : 1..k \in SUBSET S
  BY DEF S
<1>17. g \in [0..Len(s) -> Y]
  BY <1>1, <1>8, <1>16
<1>18. g[0] = base
  <2>1. 1..0 = {} /\ 0 \in 0..len
    OBVIOUS
  <2> QED
    BY <1>9, <1>16, <2>1
<1>19. ASSUME NEW k \in 1..len
       PROVE  g[k] = FillStep(g[k - 1], s[k])
  <2> DEFINE t == 1..k
  <2>1. t \in SUBSET S /\ t # {} /\ k \in t /\ \A y \in t : y <= k
    BY <1>16
  <2>2. Max(t) = k
    <3>1. Max(t) \in t /\ Max(t) >= k
      <4>1. \A u \in SUBSET (1..len) : u # {} => Max(u) \in u /\ \A y \in u : Max(u) >= y
        BY MaxOfIndices
      <4>2. t \in SUBSET (1..len)
        BY <2>1 DEF S
      <4> HIDE DEF t
      <4> QED
        BY <2>1, <4>1, <4>2
    <3> QED
      BY <3>1
  <2>3. t \ {k} = 1..(k - 1)
    OBVIOUS
  <2>4. k \in 0..len /\ k - 1 \in 0..len
    OBVIOUS
  <2>5. g[k] = G[t] /\ g[k - 1] = G[1..(k - 1)]
    BY <2>4
  <2>6. G[t] = FillStep(G[t \ {Max(t)}], s[Max(t)])
    <3> HIDE DEF t
    <3> QED
      BY <1>9, <2>1
  <2> HIDE DEF g, t
  <2> QED
    BY <2>2, <2>3, <2>5, <2>6
<1>20. FoldLeft(FillStep, base, s) = g[len]
  <2>1. S \in SUBSET S /\ len \in 0..len /\ S = 1..len
    BY DEF S
  <2> QED
    BY <1>3, <1>15, <2>1
<1>21. FillRun(g, n, s)
  <2> HIDE DEF g
  <2> QED
    BY <1>1, <1>17, <1>18, <1>19, <1>20 DEF FillRun, Y, base
<1> QED
  <2> HIDE DEF g
  <2> QED
    BY <1>21
=============================================================================
