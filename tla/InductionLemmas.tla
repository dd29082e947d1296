--------------------------- MODULE InductionLemmas ---------------------------
(***************************************************************************)
(* Induction over the natural numbers, definition by recursion, what is    *)
(* reached in a number of moves, and sums over finite sets: stated about   *)
(* sets and functions, so that every prover can instantiate them.          *)
(***************************************************************************)
EXTENDS Integers, Sequences, Functions, FiniteSetTheorems, WellFoundedInduction, TLAPS

\* Every nonempty set of natural numbers has a least element.
LEMMA LeastElement ==
    ASSUME NEW S, S \subseteq Nat, S # {}
    PROVE  \E m \in S : \A n \in S : m <= n
  <1>1. PICK R : R = OpToRel(<, Nat)
    OBVIOUS
  <1>2. IsWellFoundedOn(R, Nat)
    BY <1>1, NatLessThanWellFounded
  <1>3. PICK m \in S : \A n \in S : ~(<<n, m>> \in R)
    BY <1>2, WFMin
  <1>4. \A x, y \in Nat : x < y => <<x, y>> \in R
    BY <1>1 DEF OpToRel
  <1>5. \A n \in S : m \in Nat /\ n \in Nat /\ ~(n < m)
    BY <1>3, <1>4
  <1>6. \A n \in S : m <= n
    BY <1>5
  <1> QED
    BY <1>6

\* A set that contains 0 and with every natural number the next contains them all.
LEMMA SetInduction ==
    ASSUME NEW S, 0 \in S, \A n \in Nat : n \in S => n + 1 \in S
    PROVE  \A n \in Nat : n \in S
  <1> SUFFICES ASSUME Nat \ S # {} PROVE FALSE
    OBVIOUS
  <1>1. PICK m \in Nat \ S : \A n \in Nat \ S : m <= n
    BY LeastElement
  <1>2. m - 1 \in Nat /\ ~(m <= m - 1) /\ (m - 1) + 1 = m
    BY <1>1
  <1> QED
    BY <1>1, <1>2

\* A sequence of steps of their own over the members of T.
Steps(T) == [Nat -> [T -> T]]

\* f starts as given and goes on step by step.
IsRun(f, start, step) ==
    /\ f[0] = start
    /\ \A n \in Nat \ {0} : f[n] = step[n][f[n - 1]]

\* Every sequence of steps has its run.
LEMMA RunExists ==
    ASSUME NEW T, NEW start \in T, NEW step \in Steps(T)
    PROVE  \E f \in [Nat -> T] : IsRun(f, start, step)
  <1>0. \A n \in Nat : \A x \in T : step[n][x] \in T
    BY DEF Steps
  <1> DEFINE Runs(n) == {g \in [0 .. n -> T] :
                            g[0] = start /\ \A i \in 1 .. n : g[i] = step[i][g[i - 1]]}
  <1>1. \A n \in Nat : Runs(n) # {}
    <2> DEFINE S == {n \in Nat : Runs(n) # {}}
    <2>1. 0 \in S
      <3>1. [i \in 0 .. 0 |-> start] \in Runs(0)
        OBVIOUS
      <3> QED
        BY <3>1
    <2>2. ASSUME NEW n \in Nat, n \in S
          PROVE  n + 1 \in S
      <3>1. PICK g \in [0 .. n -> T] : g[0] = start /\ \A i \in 1 .. n : g[i] = step[i][g[i - 1]]
        BY <2>2
      <3> DEFINE h == [i \in 0 .. n + 1 |-> IF i <= n THEN g[i] ELSE step[n + 1][g[n]]]
      <3>2. h \in [0 .. n + 1 -> T]
        BY <1>0, <3>1
      <3>3. h[0] = start
        BY <3>1
      <3>4. ASSUME NEW i \in 1 .. n + 1
            PROVE  h[i] = step[i][h[i - 1]]
        <4>1. CASE i \in 1 .. n
          BY <3>1, <4>1
        <4>2. CASE i = n + 1
          BY <4>2
        <4> QED
          BY <4>1, <4>2
      <3> HIDE DEF h
      <3> QED
        BY <3>2, <3>3, <3>4
    <2> HIDE DEF S
    <2>3. \A n \in Nat : n \in S
      BY <2>1, <2>2, SetInduction
    <2> QED
      BY <2>3 DEF S
  <1>2. ASSUME NEW n \in Nat, NEW g \in Runs(n), NEW h \in Runs(n + 1)
        PROVE  g[n] = h[n]
    <2> DEFINE S == {i \in Nat : i <= n => g[i] = h[i]}
    <2>1. 0 \in S
      OBVIOUS
    <2>2. ASSUME NEW i \in Nat, i \in S
          PROVE  i + 1 \in S
      <3> SUFFICES ASSUME i + 1 <= n PROVE g[i + 1] = h[i + 1]
        OBVIOUS
      <3>1. i + 1 \in 1 .. n /\ i + 1 \in 1 .. n + 1 /\ i <= n /\ (i + 1) - 1 = i
        OBVIOUS
      <3>2. g[i + 1] = step[i + 1][g[i]] /\ h[i + 1] = step[i + 1][h[i]] /\ g[i] = h[i]
        BY <2>2, <3>1
      <3> QED
        BY <3>2
    <2> HIDE DEF S
    <2>3. n \in S
      BY <2>1, <2>2, SetInduction
    <2> QED
      BY <2>3 DEF S
  <1> DEFINE run == [n \in Nat |-> CHOOSE g : g \in Runs(n)]
             f   == [n \in Nat |-> run[n][n]]
  <1>3. \A n \in Nat : run[n] \in Runs(n)
    BY <1>1
  <1> HIDE DEF run
  <1>4. \A n \in Nat : f[n] = run[n][n] /\ f[n] \in T
    BY <1>3
  <1>5. f[0] = start
    BY <1>3
  <1>6. ASSUME NEW n \in Nat \ {0}
        PROVE  f[n] = step[n][f[n - 1]]
    <2>1. n - 1 \in Nat /\ (n - 1) + 1 = n /\ n \in 1 .. n
      OBVIOUS
    <2>2. run[n][n] = step[n][run[n][n - 1]]
      BY <1>3
    <2>3. run[n - 1][n - 1] = run[n][n - 1]
      BY <1>2, <1>3, <2>1
    <2> QED
      BY <1>4, <2>1, <2>2, <2>3
  <1>7. f \in [Nat -> T]
    BY <1>4
  <1> QED
    BY <1>5, <1>6, <1>7 DEF IsRun

\* So a recursive definition is one.
LEMMA RecursionOnNat ==
    ASSUME NEW T, NEW start \in T, NEW step \in [T -> T]
    PROVE  \E f \in [Nat -> T] :
              f = [n \in Nat |-> IF n = 0 THEN start ELSE step[f[n - 1]]]
  <1>1. PICK same \in Steps(T) : same = [n \in Nat |-> step]
    BY DEF Steps
  <1>2. PICK f \in [Nat -> T] : IsRun(f, start, same)
    BY RunExists
  <1>3. f = [n \in Nat |-> IF n = 0 THEN start ELSE step[f[n - 1]]]
    BY <1>1, <1>2 DEF IsRun
  <1> QED
    BY <1>3

-----------------------------------------------------------------------------
(* Costs of reaching the elements of a finite set. *)

\* Move by move: R[n] holds the pairs of an element and a cost at which n moves or
\* fewer may reach it, a move being an element, the next one and the cost between.
IsReach(X, M, R) ==
    /\ R \in [Nat -> SUBSET (X \X Nat)] /\ M \subseteq X \X X \X Nat
    /\ \A n \in Nat : R[n] \subseteq R[n + 1]
    /\ \A n \in Nat : \A x \in X : \A t \in Nat : <<x, t>> \in R[n + 1] \ R[n] =>
            \E p \in X : \E s, c \in Nat : <<p, s>> \in R[n] /\ <<p, x, c>> \in M /\ t = s + c
    /\ \A n \in Nat : \A p, x \in X : \A s, c \in Nat :
            <<p, s>> \in R[n] /\ <<p, x, c>> \in M => <<x, s + c>> \in R[n + 1]

\* What is reached in a number of moves is reached in more, as one may also stay.
LEMMA ReachGrows ==
    ASSUME NEW X, NEW M, NEW R, IsReach(X, M, R), NEW m \in Nat, NEW n \in Nat, m <= n
    PROVE  R[m] \subseteq R[n]
  <1> DEFINE S == {i \in Nat : R[m] \subseteq R[m + i]}
  <1>1. 0 \in S
    OBVIOUS
  <1>2. ASSUME NEW i \in Nat, i \in S
        PROVE  i + 1 \in S
    <2>1. PICK k \in Nat : k = m + i /\ m + (i + 1) = k + 1
      OBVIOUS
    <2>2. R[k] \subseteq R[k + 1]
      BY DEF IsReach
    <2> QED
      BY <1>2, <2>1, <2>2
  <1> HIDE DEF S
  <1>3. n - m \in S
    BY <1>1, <1>2, SetInduction
  <1>4. m + (n - m) = n
    OBVIOUS
  <1> QED
    BY <1>3, <1>4 DEF S

\* Of what can be reached at all nothing costs less than with fewer moves than there
\* are elements: who takes the least, and of those the fewest moves, comes from an
\* element that takes one move less, so that no number of moves is left out.
LEMMA SoonReached ==
    ASSUME NEW X, IsFiniteSet(X), NEW M, NEW R, IsReach(X, M, R),
           NEW n \in Nat, NEW x \in X, NEW t \in Nat, <<x, t>> \in R[n]
    PROVE  \E s \in Nat : s <= t /\ <<x, s>> \in R[Cardinality(X) - 1]
  <1> DEFINE Costs(y) == {s \in Nat : \E k \in Nat : <<y, s>> \in R[k]}
             Known == {y \in X : Costs(y) # {}}
             Least(y) == CHOOSE s \in Costs(y) : \A r \in Costs(y) : s <= r
  <1>1. PICK d : d = [y \in Known |-> Least(y)]
    OBVIOUS
  <1>2. \A y \in Known : d[y] \in Costs(y) /\ \A r \in Costs(y) : d[y] <= r
    <2> SUFFICES ASSUME NEW y \in Known
                 PROVE  Least(y) \in Costs(y) /\ \A r \in Costs(y) : Least(y) <= r
      BY <1>1
    <2>1. \E s \in Costs(y) : \A r \in Costs(y) : s <= r
      <3>1. Costs(y) \subseteq Nat /\ Costs(y) # {}
        OBVIOUS
      <3> HIDE DEF Costs
      <3> QED
        BY <3>1, LeastElement
    <2> QED
      BY <2>1
  <1> DEFINE Moves(y) == {k \in Nat : <<y, d[y]>> \in R[k]}
             Fewest(y) == CHOOSE k \in Moves(y) : \A i \in Moves(y) : k <= i
  <1>3. PICK l : l = [y \in Known |-> Fewest(y)]
    OBVIOUS
  <1>4. \A y \in Known : l[y] \in Moves(y) /\ \A i \in Moves(y) : l[y] <= i
    <2> SUFFICES ASSUME NEW y \in Known
                 PROVE  Fewest(y) \in Moves(y) /\ \A i \in Moves(y) : Fewest(y) <= i
      BY <1>3
    <2>1. \E k \in Moves(y) : \A i \in Moves(y) : k <= i
      <3>1. Moves(y) \subseteq Nat /\ Moves(y) # {}
        BY <1>2
      <3> HIDE DEF Moves
      <3> QED
        BY <3>1, LeastElement
    <2> QED
      BY <2>1
  <1>5. \A y \in Known : /\ y \in X /\ d[y] \in Nat /\ l[y] \in Nat /\ <<y, d[y]>> \in R[l[y]]
                         /\ \A i \in Nat : <<y, d[y]>> \in R[i] => l[y] <= i
                         /\ \A i, s \in Nat : <<y, s>> \in R[i] => d[y] <= s
    BY <1>2, <1>4
  <1>6. \A y \in X : \A i, s \in Nat : <<y, s>> \in R[i] => y \in Known
    OBVIOUS
  <1> HIDE DEF Costs, Known, Least, Moves, Fewest
  <1>7. ASSUME NEW y \in Known, l[y] # 0
        PROVE  \E p \in Known : l[p] = l[y] - 1
    <2>1. PICK k \in Nat : l[y] = k + 1
      <3>1. l[y] \in Nat /\ l[y] # 0
        BY <1>5, <1>7
      <3>2. l[y] - 1 \in Nat /\ l[y] = (l[y] - 1) + 1
        BY <3>1
      <3> QED
        BY <3>2
    <2>2. PICK e \in Nat : e = d[y] /\ y \in X /\ <<y, e>> \in R[k + 1] \ R[k]
      <3>1. y \in X /\ d[y] \in Nat /\ <<y, d[y]>> \in R[k + 1]
        BY <1>5, <2>1
      <3>2. <<y, d[y]>> \notin R[k]
        BY <1>5, <2>1
      <3> QED
        BY <3>1, <3>2
    <2>3. PICK p \in X, s \in Nat, c \in Nat :
            <<p, s>> \in R[k] /\ <<p, y, c>> \in M /\ d[y] = s + c
      <3>1. \E p \in X : \E s, c \in Nat : <<p, s>> \in R[k] /\ <<p, y, c>> \in M /\ e = s + c
        BY <2>2 DEF IsReach
      <3> QED
        BY <2>2, <3>1
    <2>4. p \in Known
      BY <1>6, <2>3
    <2>5. PICK i \in Nat : i = l[p] /\ <<p, d[p]>> \in R[i] /\ d[p] \in Nat /\ d[p] <= s
      BY <1>5, <2>3, <2>4
    <2>6. <<y, d[p] + c>> \in R[i + 1] /\ d[p] + c \in Nat /\ i + 1 \in Nat
      <3>1. PICK r \in Nat : r = d[p]
        BY <2>5
      <3>2. <<y, r + c>> \in R[i + 1]
        BY <2>2, <2>3, <2>5, <3>1 DEF IsReach
      <3> QED
        BY <3>1, <3>2
    <2>7. d[y] <= d[p] + c
      BY <1>5, <2>6
    <2>8. d[p] = s
      BY <1>5, <2>3, <2>5, <2>7
    <2>9. l[p] <= k
      BY <1>5, <2>3, <2>4, <2>8
    <2>10. l[y] <= i + 1
      <3>1. <<y, d[y]>> \in R[i + 1]
        BY <2>3, <2>6, <2>8
      <3> QED
        BY <1>5, <2>6, <3>1
    <2>11. l[p] = l[y] - 1
      BY <2>1, <2>5, <2>9, <2>10
    <2> QED
      BY <2>4, <2>11
  <1> DEFINE Levels == {l[y] : y \in Known}
             S == {k \in Nat : \A y \in Known : l[y] = k => 0 .. k \subseteq Levels}
  <1>8. 0 \in S
    OBVIOUS
  <1>9. ASSUME NEW k \in Nat, k \in S
        PROVE  k + 1 \in S
    <2> SUFFICES ASSUME NEW y \in Known, l[y] = k + 1
                 PROVE  0 .. k + 1 \subseteq Levels
      OBVIOUS
    <2>1. PICK p \in Known : l[p] = k
      BY <1>7
    <2>2. 0 .. k \subseteq Levels /\ k + 1 \in Levels
      BY <1>9, <2>1
    <2>3. 0 .. k + 1 = (0 .. k) \cup {k + 1}
      OBVIOUS
    <2> HIDE DEF Levels
    <2> QED
      BY <2>2, <2>3
  <1> HIDE DEF S
  <1>10. x \in Known
    BY <1>6
  <1>11. PICK m \in Nat : m = l[x]
    BY <1>5, <1>10
  <1>12. 0 .. m \subseteq Levels
    <2>1. m \in S
      BY <1>8, <1>9, SetInduction
    <2> QED
      BY <1>10, <1>11, <2>1 DEF S
  <1>13. IsFiniteSet(Levels) /\ Cardinality(Levels) <= Cardinality(X)
    <2>1. Known \in SUBSET X
      BY DEF Known
    <2>2. IsFiniteSet(Known) /\ Cardinality(Known) <= Cardinality(X)
      BY <2>1, FS_Subset
    <2>3. l \in Surjection(Known, Levels)
      BY <1>3 DEF Surjection
    <2>4. IsFiniteSet(Levels) /\ Cardinality(Levels) <= Cardinality(Known)
      BY <2>2, <2>3, FS_Surjection
    <2>5. Cardinality(Levels) \in Nat /\ Cardinality(Known) \in Nat /\ Cardinality(X) \in Nat
      BY <2>2, <2>4, FS_CardinalityType
    <2> QED
      BY <2>2, <2>4, <2>5
  <1>14. m + 1 <= Cardinality(X) /\ Cardinality(X) \in Nat
    <2>1. 0 .. m \in SUBSET Levels
      BY <1>12
    <2>2. Cardinality(0 .. m) <= Cardinality(Levels)
      BY <1>13, <2>1, FS_Subset
    <2>3. Cardinality(0 .. m) = m + 1
      BY FS_Interval
    <2>4. Cardinality(Levels) \in Nat /\ Cardinality(X) \in Nat
      BY <1>13, FS_CardinalityType
    <2> QED
      BY <1>13, <2>2, <2>3, <2>4
  <1>15. Cardinality(X) - 1 \in Nat /\ m <= Cardinality(X) - 1
    BY <1>14
  <1>16. R[m] \subseteq R[Cardinality(X) - 1]
    BY <1>15, ReachGrows
  <1>17. d[x] \in Nat /\ d[x] <= t /\ <<x, d[x]>> \in R[m]
    BY <1>5, <1>10, <1>11
  <1> QED
    BY <1>16, <1>17

-----------------------------------------------------------------------------
(* Sums over finite sets. *)

\* The element SumFunctionOnSet takes next.
AnElement(s) == CHOOSE x \in s : TRUE

\* One turn of the recursion of SumFunctionOnSet.
SumTurn(f, S, g) ==
    [s \in SUBSET S |-> IF s = {} THEN 0 ELSE f[AnElement(s)] + g[s \ {AnElement(s)}]]

\* It is an element.
LEMMA AnElementIsMember ==
    ASSUME NEW s, s # {}
    PROVE  AnElement(s) \in s
  BY DEF AnElement

\* What SumFunctionOnSet is defined to be.
LEMMA SumUnfolds ==
    ASSUME NEW f, NEW S
    PROVE  SumFunctionOnSet(f, S) = (CHOOSE g : g = SumTurn(f, S, g))[S]
  BY DEF SumFunctionOnSet, FoldFunctionOnSet, MapThenFoldSet, SumTurn, AnElement

\* The recursion has a solution, since a set loses an element in every turn.
LEMMA SumExists ==
    ASSUME NEW S, IsFiniteSet(S), NEW f, \A x \in S : f[x] \in Int
    PROVE  \E g \in [SUBSET S -> Int] : g = SumTurn(f, S, g)
  <1> DEFINE T == [SUBSET S -> Int]
  <1>1. \A h \in T : SumTurn(f, S, h) \in T
    <2> SUFFICES ASSUME NEW h \in T, NEW s \in SUBSET S, s # {}
                 PROVE  f[AnElement(s)] + h[s \ {AnElement(s)}] \in Int
      BY DEF SumTurn
    <2>1. AnElement(s) \in S
      BY AnElementIsMember
    <2>2. h[s \ {AnElement(s)}] \in Int
      OBVIOUS
    <2> QED
      BY <2>1, <2>2
  <1>2. PICK zero \in T : zero = [s \in SUBSET S |-> 0]
    <2>1. [s \in SUBSET S |-> 0] \in T
      OBVIOUS
    <2> QED
      BY <2>1
  <1>3. PICK step \in Steps(T) : step = [k \in Nat |-> [h \in T |-> SumTurn(f, S, h)]]
    BY <1>1 DEF Steps
  <1>4. PICK run \in [Nat -> T] : IsRun(run, zero, step)
    <2> HIDE DEF T
    <2> QED
      BY RunExists
  <1>5. \A s \in SUBSET S : Cardinality(s) \in Nat /\ IsFiniteSet(s)
    BY FS_Subset, FS_CardinalityType
  <1>6. PICK g : g = [s \in SUBSET S |-> run[Cardinality(s)][s]]
    OBVIOUS
  <1>7. g \in T
    BY <1>4, <1>5, <1>6
  <1>8. ASSUME NEW s \in SUBSET S
        PROVE  g[s] = IF s = {} THEN 0 ELSE f[AnElement(s)] + g[s \ {AnElement(s)}]
    <2>1. CASE s = {}
      <3>1. Cardinality(s) = 0
        BY <2>1, FS_EmptySet
      <3>2. run[0][s] = 0
        BY <1>2, <1>4 DEF IsRun
      <3> QED
        BY <1>6, <2>1, <3>1, <3>2
    <2>2. CASE s # {}
      <3>1. PICK x \in s : x = AnElement(s)
        BY <2>2, AnElementIsMember
      <3>2. PICK k \in Nat : k = Cardinality(s) - 1 /\ Cardinality(s \ {x}) = k /\ Cardinality(s) = k + 1
        <4>1. Cardinality(s \ {x}) = Cardinality(s) - 1 /\ Cardinality(s \ {x}) \in Nat
          BY <1>5, <3>1, FS_RemoveElement
        <4> QED
          BY <1>5, <4>1
      <3>3. run[k + 1] = step[k + 1][run[k]] /\ run[k] \in T
        BY <1>4 DEF IsRun
      <3>4. run[k + 1] = SumTurn(f, S, run[k])
        <4> HIDE DEF T
        <4> QED
          BY <1>3, <3>3
      <3>5. run[k + 1][s] = f[x] + run[k][s \ {x}]
        BY <2>2, <3>1, <3>4 DEF SumTurn
      <3> QED
        BY <1>6, <2>2, <3>1, <3>2, <3>5
    <2> QED
      BY <2>1, <2>2
  <1>9. g = SumTurn(f, S, g)
    BY <1>6, <1>8 DEF SumTurn
  <1> QED
    BY <1>7, <1>9

\* Whoever takes the elements one by one, in whatever order, and counts them all,
\* counts the sum.
Counts(f, S, g) ==
    g[{}] = 0 /\ \A s \in SUBSET S : \A x \in s : g[s] = f[x] + g[s \ {x}]

\* A function that counts element by element gives the sum, whichever comes next.
LEMMA SumIs ==
    ASSUME NEW S, IsFiniteSet(S), NEW f, \A x \in S : f[x] \in Int, NEW g, Counts(f, S, g)
    PROVE  SumFunctionOnSet(f, S) = g[S]
  <1>1. PICK h : h = CHOOSE k : k = SumTurn(f, S, k)
    OBVIOUS
  <1>2. h = SumTurn(f, S, h)
    BY <1>1, SumExists
  <1>3. \A s \in SUBSET S : Cardinality(s) \in Nat /\ IsFiniteSet(s)
    BY FS_Subset, FS_CardinalityType
  <1> DEFINE P == {n \in Nat : \A s \in SUBSET S : Cardinality(s) = n => h[s] = g[s]}
  <1>4. 0 \in P
    <2> SUFFICES ASSUME NEW s \in SUBSET S, Cardinality(s) = 0 PROVE h[s] = g[s]
      OBVIOUS
    <2>1. s = {}
      BY <1>3, FS_EmptySet
    <2> QED
      BY <1>2, <2>1 DEF SumTurn, Counts
  <1>5. ASSUME NEW n \in Nat, n \in P
        PROVE  n + 1 \in P
    <2> SUFFICES ASSUME NEW s \in SUBSET S, Cardinality(s) = n + 1 PROVE h[s] = g[s]
      OBVIOUS
    <2>1. s # {}
      BY FS_EmptySet
    <2>2. PICK x \in s : x = AnElement(s)
      BY <2>1, AnElementIsMember
    <2>3. Cardinality(s \ {x}) = n
      <3>1. Cardinality(s \ {x}) = Cardinality(s) - 1
        BY <1>3, <2>2, FS_RemoveElement
      <3> QED
        BY <3>1
    <2>4. h[s] = f[x] + h[s \ {x}]
      BY <1>2, <2>1, <2>2 DEF SumTurn
    <2>5. g[s] = f[x] + g[s \ {x}]
      BY DEF Counts
    <2> QED
      BY <1>5, <2>3, <2>4, <2>5
  <1> HIDE DEF P
  <1>6. Cardinality(S) \in P
    BY <1>3, <1>4, <1>5, SetInduction
  <1> QED
    BY <1>1, <1>6, SumUnfolds DEF P

\* The order does not matter.
LEMMA SumCounts ==
    ASSUME NEW S, IsFiniteSet(S), NEW f, \A x \in S : f[x] \in Int
    PROVE  \E g \in [SUBSET S -> Int] : Counts(f, S, g)
  <1>1. PICK g \in [SUBSET S -> Int] : g = SumTurn(f, S, g)
    BY SumExists
  <1>2. \A s \in SUBSET S : Cardinality(s) \in Nat /\ IsFiniteSet(s) /\ g[s] \in Int
    BY FS_Subset, FS_CardinalityType
  <1>3. g[{}] = 0 /\ \A s \in SUBSET S : s # {} => g[s] = f[AnElement(s)] + g[s \ {AnElement(s)}]
    BY <1>1 DEF SumTurn
  <1> DEFINE P == {n \in Nat : \A s \in SUBSET S : Cardinality(s) = n =>
                                    \A x \in s : g[s] = f[x] + g[s \ {x}]}
  <1>4. 0 \in P
    <2> SUFFICES ASSUME NEW s \in SUBSET S, Cardinality(s) = 0 PROVE s = {}
      OBVIOUS
    <2> QED
      BY <1>2, FS_EmptySet
  <1>5. ASSUME NEW n \in Nat, n \in P
        PROVE  n + 1 \in P
    <2> SUFFICES ASSUME NEW s \in SUBSET S, Cardinality(s) = n + 1, NEW x \in s
                 PROVE  g[s] = f[x] + g[s \ {x}]
      OBVIOUS
    <2>1. PICK y \in s : y = AnElement(s)
      BY AnElementIsMember
    <2>2. g[s] = f[y] + g[s \ {y}]
      BY <1>3, <2>1
    <2>3. CASE x = y
      BY <2>2, <2>3
    <2>4. CASE x # y
      <3>1. PICK sx \in SUBSET S : sx = s \ {x}
        OBVIOUS
      <3>2. PICK sy \in SUBSET S : sy = s \ {y}
        OBVIOUS
      <3>3. PICK sxy \in SUBSET S : sxy = s \ {x, y} /\ sxy = sx \ {y} /\ sxy = sy \ {x}
        BY <3>1, <3>2
      <3>4. Cardinality(sx) = n /\ Cardinality(sy) = n
        <4>1. Cardinality(sx) = Cardinality(s) - 1
          BY <1>2, <3>1, FS_RemoveElement
        <4>2. Cardinality(sy) = Cardinality(s) - 1
          BY <1>2, <3>2, FS_RemoveElement
        <4> QED
          BY <4>1, <4>2
      <3>0. \A r \in SUBSET S : Cardinality(r) = n => \A z \in r : g[r] = f[z] + g[r \ {z}]
        BY <1>5
      <3>5. g[sy] = f[x] + g[sxy]
        <4>1. x \in sy
          BY <2>4, <3>2
        <4> HIDE DEF P
        <4> QED
          BY <3>0, <3>3, <3>4, <4>1
      <3>6. g[sx] = f[y] + g[sxy]
        <4>1. y \in sx
          BY <2>1, <2>4, <3>1
        <4> HIDE DEF P
        <4> QED
          BY <3>0, <3>3, <3>4, <4>1
      <3>7. f[x] \in Int /\ f[y] \in Int /\ g[sxy] \in Int
        BY <1>2
      <3> QED
        BY <2>2, <3>1, <3>2, <3>5, <3>6, <3>7
    <2> QED
      BY <2>3, <2>4
  <1> HIDE DEF P
  <1>6. \A n \in Nat : n \in P
    BY <1>4, <1>5, SetInduction
  <1>7. \A s \in SUBSET S : \A x \in s : g[s] = f[x] + g[s \ {x}]
    BY <1>2, <1>6 DEF P
  <1> QED
    BY <1>3, <1>7 DEF Counts

\* The sum of a sequence, element by element.
LEMMA SumOfNone == SumFunction(<< >>) = 0
  <1>1. PICK f : f = << >> /\ DOMAIN f = {}
    OBVIOUS
  <1>2. PICK g \in [SUBSET {} -> Int] : Counts(f, {}, g)
    BY SumCounts, FS_EmptySet
  <1>3. SumFunctionOnSet(f, {}) = g[{}]
    BY <1>2, SumIs, FS_EmptySet
  <1> QED
    BY <1>1, <1>2, <1>3 DEF SumFunction, Counts

\* One element more adds its value.
LEMMA SumOfMore ==
    ASSUME NEW f \in Seq(Int), NEW x \in Int
    PROVE  SumFunction(f) \in Int /\ SumFunction(Append(f, x)) = SumFunction(f) + x
  <1>1. PICK n \in Nat : n = Len(f) /\ DOMAIN f = 1 .. n
    OBVIOUS
  <1>2. PICK m \in Nat : m = n + 1
    OBVIOUS
  <1>3. PICK more \in Seq(Int) : more = Append(f, x) /\ DOMAIN more = 1 .. m
    <2>1. Append(f, x) \in Seq(Int) /\ Len(Append(f, x)) = m
      BY <1>1, <1>2
    <2>2. DOMAIN Append(f, x) = 1 .. m
      BY <2>1
    <2> QED
      BY <2>1, <2>2
  <1>4. more[m] = x /\ \A i \in 1 .. n : more[i] = f[i] /\ f[i] \in Int
    BY <1>1, <1>2, <1>3
  <1>5. PICK all : all = 1 .. m
    OBVIOUS
  <1>6. PICK old : old = 1 .. n
    OBVIOUS
  <1>7. m \in all /\ old = all \ {m} /\ old \in SUBSET all /\ all \in SUBSET all
    BY <1>2, <1>5, <1>6
  <1>8. IsFiniteSet(all) /\ IsFiniteSet(old)
    BY <1>5, <1>6, FS_Interval
  <1>9. \A i \in all : more[i] \in Int
    BY <1>3, <1>5
  <1>10. PICK g \in [SUBSET all -> Int] : Counts(more, all, g)
    BY <1>8, <1>9, SumCounts
  <1>11. SumFunctionOnSet(more, all) = g[all]
    BY <1>8, <1>9, <1>10, SumIs
  <1>12. g[all] = more[m] + g[old]
    BY <1>7, <1>10 DEF Counts
  <1>13. Counts(f, old, g)
    <2>1. \A s \in SUBSET old : s \in SUBSET all /\ \A i \in s : more[i] = f[i]
      BY <1>4, <1>6, <1>7
    <2> QED
      BY <1>10, <2>1 DEF Counts
  <1>14. \A i \in old : f[i] \in Int
    BY <1>4, <1>6
  <1>15. SumFunctionOnSet(f, old) = g[old]
    BY <1>8, <1>13, <1>14, SumIs
  <1>16. g[old] \in Int
    BY <1>7
  <1> QED
    BY <1>1, <1>3, <1>4, <1>5, <1>6, <1>11, <1>12, <1>15, <1>16 DEF SumFunction

\* The sums of the first elements, and of all.
LEMMA SumByLength ==
    ASSUME NEW n \in Nat, NEW f \in [1 .. n -> Int]
    PROVE  \E s \in [Nat -> Int] :
              /\ s[0] = 0 /\ s[n] = SumFunction(f)
              /\ \A k \in 1 .. n : s[k] = s[k - 1] + f[k]
  <1> DEFINE First(k) == [i \in 1 .. k |-> f[i]]
  <1>1. \A k \in 0 .. n : First(k) \in Seq(Int)
    OBVIOUS
  <1>2. SumFunction(First(0)) = 0
    <2>1. First(0) = << >>
      OBVIOUS
    <2> QED
      BY <2>1, SumOfNone
  <1>3. ASSUME NEW k \in 0 .. n
        PROVE  SumFunction(First(k)) \in Int
    <2>1. PICK g \in Seq(Int) : g = First(k)
      BY <1>1
    <2>2. PICK zero \in Int : zero = 0
      OBVIOUS
    <2> QED
      BY <2>1, <2>2, SumOfMore
  <1>4. ASSUME NEW k \in 1 .. n
        PROVE  SumFunction(First(k)) = SumFunction(First(k - 1)) + f[k]
    <2>1. k - 1 \in 0 .. n /\ f[k] \in Int
      OBVIOUS
    <2>2. PICK g \in Seq(Int), x \in Int : g = First(k - 1) /\ x = f[k]
      BY <1>1, <2>1
    <2>3. Append(g, x) = First(k)
      <3>1. PICK h : h = Append(g, x)
        OBVIOUS
      <3>2. Len(g) = k - 1 /\ \A i \in 1 .. k - 1 : g[i] = f[i]
        <4>1. DOMAIN g = 1 .. k - 1 /\ \A i \in 1 .. k - 1 : g[i] = f[i]
          BY <2>1, <2>2
        <4>2. PICK m \in Nat : m = Len(g) /\ DOMAIN g = 1 .. m
          OBVIOUS
        <4> QED
          BY <4>1, <4>2
      <3>3. h \in Seq(Int) /\ Len(h) = k /\ DOMAIN h = 1 .. k /\ h[k] = f[k] /\ \A i \in 1 .. k - 1 : h[i] = g[i]
        BY <2>2, <3>1, <3>2
      <3>4. \A i \in 1 .. k : h[i] = f[i]
        <4>1. \A i \in 1 .. k : i = k \/ i \in 1 .. k - 1
          OBVIOUS
        <4> QED
          BY <3>2, <3>3, <4>1
      <3>5. h = [i \in 1 .. k |-> h[i]]
        BY <3>3
      <3> QED
        BY <3>1, <3>4, <3>5
    <2> HIDE DEF First
    <2> QED
      BY <2>1, <2>2, <2>3, SumOfMore
  <1>5. First(n) = f
    OBVIOUS
  <1>6. PICK s : s = [k \in Nat |-> IF k <= n THEN SumFunction(First(k)) ELSE 0]
    OBVIOUS
  <1> HIDE DEF First
  <1>7. s \in [Nat -> Int]
    BY <1>3, <1>6
  <1>8. s[0] = 0 /\ s[n] = SumFunction(f)
    BY <1>2, <1>5, <1>6
  <1>9. \A k \in 1 .. n : s[k] = s[k - 1] + f[k]
    BY <1>4, <1>6
  <1> QED
    BY <1>7, <1>8, <1>9
=============================================================================
