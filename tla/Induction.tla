------------------------------ MODULE Induction -------------------------------
(***************************************************************************)
(* Induction and recursion over numbers, finite sets and sequences, stated *)
(* with sets and functions where the library's theorems take operators;    *)
(* what the sums and folds of the community modules are, as far as the     *)
(* models use them.  Everything rests on a non-empty set of naturals       *)
(* having a least element.                                                 *)
(***************************************************************************)
EXTENDS Integers, SequencesExt, SequenceTheorems, FiniteSetTheorems, WellFoundedInduction, TLAPS

LEMMA LeastNatural ==
    ASSUME NEW S \in SUBSET Nat, S # {}
    PROVE  \E i \in S : \A j \in S : i <= j
<1>1. PICK i \in S : \A j \in S : ~ (<< j, i >> \in OpToRel(<, Nat))
  BY NatLessThanWellFounded, WFMin
<1>2. ASSUME NEW j \in S, j < i PROVE FALSE
  <2>1. << j, i >> \in Nat \X Nat /\ << j, i >>[1] < << j, i >>[2]
    BY <1>2
  <2>2. << j, i >> \in OpToRel(<, Nat)
    BY <2>1, Zenon DEF OpToRel
  <2>. QED
    BY <1>1, <2>2, Zenon
<1>3. \A j \in S : ~ (j < i)
  BY <1>2
<1>4. i \in Nat /\ \A j \in S : j \in Nat
  OBVIOUS
<1>. QED
  BY <1>3, <1>4

\* A property of numbers, as the set of those that have it.
LEMMA ByInduction ==
    ASSUME NEW S, 0 \in S, \A n \in Nat : n \in S => n + 1 \in S
    PROVE  \A n \in Nat : n \in S
<1>. SUFFICES ASSUME Nat \ S # {} PROVE FALSE
  OBVIOUS
<1>1. PICK n \in Nat \ S : \A m \in Nat \ S : n <= m
  BY LeastNatural
<1>2. n # 0 /\ n - 1 \in Nat /\ n - 1 \in S
  BY <1>1
<1>. QED
  BY <1>1, <1>2

\* A function defined by recursion exists.
LEMMA Recursion ==
    ASSUME NEW T, NEW base \in T, NEW N \in Nat, NEW step \in [1 .. N -> [T -> T]]
    PROVE  \E f \in [0 .. N -> T] :
               f[0] = base /\ \A n \in 1 .. N : f[n] = step[n][f[n - 1]]
<1>. DEFINE Defined == {k \in Nat : k <= N =>
                           \E f \in [0 .. k -> T] :
                              f[0] = base /\ \A n \in 1 .. k : f[n] = step[n][f[n - 1]]}
<1>1. 0 \in Defined
  <2>. DEFINE f == [n \in 0 .. 0 |-> base]
  <2>1. f \in [0 .. 0 -> T] /\ f[0] = base /\ 1 .. 0 = {}
    OBVIOUS
  <2>. QED
    BY <2>1
<1>2. ASSUME NEW k \in Nat, k \in Defined PROVE k + 1 \in Defined
  <2>. SUFFICES ASSUME k + 1 <= N
                PROVE \E f \in [0 .. k + 1 -> T] :
                        f[0] = base /\ \A n \in 1 .. k + 1 : f[n] = step[n][f[n - 1]]
    OBVIOUS
  <2>1. PICK g \in [0 .. k -> T] :
            g[0] = base /\ \A n \in 1 .. k : g[n] = step[n][g[n - 1]]
    BY <1>2
  <2>. DEFINE f == [n \in 0 .. k + 1 |-> IF n <= k THEN g[n] ELSE step[k + 1][g[k]]]
  <2>2. step[k + 1] \in [T -> T] /\ g[k] \in T
    OBVIOUS
  <2>3. f \in [0 .. k + 1 -> T]
    BY <2>2
  <2>4. f[0] = base
    BY <2>1
  <2>5. \A n \in 1 .. k + 1 : f[n] = step[n][f[n - 1]]
    BY <2>1
  <2>. QED
    BY <2>3, <2>4, <2>5
<1>3. N \in Defined
  <2>. HIDE DEF Defined
  <2>. QED
    BY <1>1, <1>2, ByInduction
<1>. QED
  BY <1>3

-----------------------------------------------------------------------------
(* Folds over a finite set: pick names the element taken off next, step    *)
(* what it does to the value of the rest.                                  *)

Picks(pick, S) == \A s \in SUBSET S : s # {} => pick[s] \in s
FoldsBy(f, S, base, pick, step) ==
    \A s \in SUBSET S :
        f[s] = IF s = {} THEN base ELSE step[pick[s]][f[s \ {pick[s]}]]

LEMMA OneLess ==
    ASSUME NEW S, IsFiniteSet(S), NEW pick, Picks(pick, S)
    PROVE  \A s \in SUBSET S : s # {} =>
              /\ pick[s] \in s /\ s \ {pick[s]} \in SUBSET S
              /\ Cardinality(s) \in Nat \ {0}
              /\ Cardinality(s \ {pick[s]}) = Cardinality(s) - 1
<1>. SUFFICES ASSUME NEW s \in SUBSET S, NEW x \in s
              PROVE  /\ s \ {x} \in SUBSET S
                     /\ Cardinality(s) \in Nat \ {0} /\ Cardinality(s \ {x}) = Cardinality(s) - 1
  BY DEF Picks
<1>1. IsFiniteSet(s) /\ Cardinality(s) \in Nat
  BY FS_Subset, FS_CardinalityType
<1>2. Cardinality(s) # 0
  BY <1>1, FS_EmptySet
<1>. QED
  BY <1>1, <1>2, FS_RemoveElement

\* The fold exists, on every part of the set.
LEMMA FoldExists ==
    ASSUME NEW S, IsFiniteSet(S), NEW T, NEW base \in T,
           NEW pick, Picks(pick, S), NEW step \in [S -> [T -> T]]
    PROVE  \E f \in [SUBSET S -> T] : FoldsBy(f, S, base, pick, step)
<1>. DEFINE Values == [SUBSET S -> T]
            N == Cardinality(S)
            Value(g, s) == IF s = {} THEN base ELSE step[pick[s]][g[s \ {pick[s]}]]
            Round(g) == [s \in SUBSET S |-> Value(g, s)]
            rounds == [n \in 1 .. N |-> [g \in Values |-> Round(g)]]
            start == [s \in SUBSET S |-> base]
<1>0. \A s \in SUBSET S : s # {} =>
        /\ s \ {pick[s]} \in SUBSET S /\ Cardinality(s) \in Nat \ {0}
        /\ Cardinality(s \ {pick[s]}) = Cardinality(s) - 1
  BY OneLess
<1>1. N \in Nat
  BY FS_CardinalityType
<1>2. ASSUME NEW g \in Values PROVE Round(g) \in Values
  <2>1. ASSUME NEW s \in SUBSET S, s # {} PROVE step[pick[s]][g[s \ {pick[s]}]] \in T
    <3>1. pick[s] \in S /\ s \ {pick[s]} \in SUBSET S
      BY <2>1 DEF Picks
    <3>2. g[s \ {pick[s]}] \in T /\ step[pick[s]] \in [T -> T]
      BY <3>1
    <3>. QED
      BY <3>2
  <2>. QED
    BY <2>1
<1>3. \A g : \A s \in SUBSET S : Round(g)[s] = Value(g, s)
  OBVIOUS
<1>4. start \in Values /\ \A s \in SUBSET S : start[s] = base
  OBVIOUS
<1>. HIDE DEF Values, Round, start, N
<1>5. rounds \in [1 .. N -> [Values -> Values]]
  BY <1>2
<1>6. \A n \in 1 .. N : \A g \in Values : rounds[n][g] = Round(g)
  OBVIOUS
<1>. HIDE DEF rounds
<1>7. PICK h \in [0 .. N -> Values] :
          h[0] = start /\ \A n \in 1 .. N : h[n] = rounds[n][h[n - 1]]
  BY <1>1, <1>4, <1>5, Recursion
<1>8. \A n \in Nat : n < N => \A s \in SUBSET S : h[n + 1][s] = Value(h[n], s)
  <2>. SUFFICES ASSUME NEW n \in Nat, n < N, NEW s \in SUBSET S
                PROVE  h[n + 1][s] = Value(h[n], s)
    OBVIOUS
  <2>1. n + 1 \in 1 .. N /\ (n + 1) - 1 = n /\ h[n] \in Values
    BY <1>1
  <2>2. h[n + 1] = Round(h[n])
    BY <1>6, <1>7, <2>1
  <2>. QED
    BY <1>3, <2>2
\* After as many rounds as a part has elements its value stands.
<1>. DEFINE Stands == {n \in Nat : n < N => \A s \in SUBSET S :
                                      Cardinality(s) <= n => h[n][s] = h[n + 1][s]}
<1>9. 0 \in Stands
  <2>. SUFFICES ASSUME 0 < N, NEW s \in SUBSET S, Cardinality(s) <= 0
                PROVE  h[0][s] = h[1][s]
    BY <1>1
  <2>1. s = {}
    BY FS_Subset, FS_EmptySet, FS_CardinalityType
  <2>2. h[0 + 1][s] = Value(h[0], s)
    BY <1>8
  <2>. QED
    BY <1>4, <1>7, <2>1, <2>2
<1>10. ASSUME NEW n \in Nat, n \in Stands PROVE n + 1 \in Stands
  <2>. SUFFICES ASSUME n + 1 < N, NEW s \in SUBSET S, Cardinality(s) <= n + 1
                PROVE  h[n + 1][s] = h[(n + 1) + 1][s]
    OBVIOUS
  <2>0. n < N /\ n + 1 \in Nat
    BY <1>1
  <2>1. h[n + 1][s] = Value(h[n], s) /\ h[(n + 1) + 1][s] = Value(h[n + 1], s)
    BY <1>8, <2>0
  <2>2. CASE s = {}
    BY <2>1, <2>2
  <2>3. CASE s # {}
    <3>2. s \ {pick[s]} \in SUBSET S /\ Cardinality(s \ {pick[s]}) <= n
      BY <1>0, <2>3
    <3>3. h[n][s \ {pick[s]}] = h[n + 1][s \ {pick[s]}]
      BY <1>1, <1>10, <3>2
    <3>. QED
      BY <2>1, <2>3, <3>3
  <2>. QED
    BY <2>2, <2>3
<1>11. \A n \in Nat : n \in Stands
  <2>. HIDE DEF Stands
  <2>. QED
    BY <1>9, <1>10, ByInduction
<1>12. ASSUME NEW s \in SUBSET S PROVE h[N][s] = Value(h[N], s)
  <2>1. CASE N = 0
    <3>1. S = {} /\ s = {}
      BY <2>1, FS_EmptySet DEF N
    <3>. QED
      BY <1>4, <1>7, <2>1, <3>1
  <2>2. CASE N # 0
    <3>1. N - 1 \in Nat /\ N - 1 < N /\ (N - 1) + 1 = N
      BY <1>1, <2>2
    <3>2. h[N][s] = Value(h[N - 1], s)
      BY <1>8, <3>1
    <3>3. CASE s # {}
      <4>2. s \ {pick[s]} \in SUBSET S /\ Cardinality(s \ {pick[s]}) <= N - 1
        <5>1. Cardinality(s) <= N
          BY FS_Subset DEF N
        <5>. QED
          BY <1>0, <1>1, <3>3, <5>1
      <4>3. h[N - 1][s \ {pick[s]}] = h[N][s \ {pick[s]}]
        BY <1>11, <3>1, <4>2
      <4>. QED
        BY <3>2, <3>3, <4>3
    <3>. QED
      BY <3>2, <3>3
  <2>. QED
    BY <2>1, <2>2
<1>13. h[N] \in [SUBSET S -> T]
  <2>1. h[N] \in Values
    BY <1>1
  <2>. QED
    BY <2>1 DEF Values
<1>. QED
  BY <1>12, <1>13 DEF FoldsBy

\* A property of finite sets, as the set of the parts of S that have it.
LEMMA ByParts ==
    ASSUME NEW S, IsFiniteSet(S), NEW P, {} \in P,
           \A T \in SUBSET S : \A x \in S \ T : T \in P => T \cup {x} \in P
    PROVE  S \in P
<1>. DEFINE Sizes == {n \in Nat : \A T \in SUBSET S : Cardinality(T) = n => T \in P}
<1>1. 0 \in Sizes
  BY FS_Subset, FS_EmptySet
<1>2. ASSUME NEW n \in Nat, n \in Sizes PROVE n + 1 \in Sizes
  <2>. SUFFICES ASSUME NEW T \in SUBSET S, Cardinality(T) = n + 1 PROVE T \in P
    OBVIOUS
  <2>1. IsFiniteSet(T) /\ T # {}
    BY FS_Subset, FS_EmptySet
  <2>2. PICK x \in T : TRUE
    BY <2>1
  <2>3. Cardinality(T \ {x}) = n
    <3>1. x \in T /\ Cardinality(T) = n + 1 /\ n \in Nat
      OBVIOUS
    <3>. QED
      BY ONLY <2>1, <3>1, FS_RemoveElement
  <2>4. T \ {x} \in SUBSET S /\ x \in S \ (T \ {x}) /\ (T \ {x}) \cup {x} = T
    OBVIOUS
  <2>5. T \ {x} \in P
    BY <1>2, <2>3, <2>4
  <2>. QED
    BY <2>4, <2>5
<1>3. \A n \in Nat : n \in Sizes
  <2>. HIDE DEF Sizes
  <2>. QED
    BY <1>1, <1>2, ByInduction
<1>. QED
  BY <1>3, FS_CardinalityType

\* The values of a function on a finite set.
LEMMA ImageFinite ==
    ASSUME NEW S, IsFiniteSet(S), NEW f
    PROVE  IsFiniteSet({f[x] : x \in S})
<1>. DEFINE image == {f[x] : x \in S}
            g == [x \in S |-> f[x]]
<1>1. g \in Surjection(S, image)
  BY DEF Surjection
<1>. HIDE DEF g, image
<1>2. IsFiniteSet(image)
  BY ONLY IsFiniteSet(S), <1>1, FS_Surjection
<1>. QED
  BY <1>2 DEF image

-----------------------------------------------------------------------------
(* SumFunctionOnSet of the community modules.                              *)

\* The equation of its definition, for every part of a finite set.
LEMMA SumUnfolds ==
    ASSUME NEW S, IsFiniteSet(S), NEW fun, \A x \in S : fun[x] \in Int
    PROVE  \E f \in [SUBSET S -> Int] :
              /\ f[{}] = 0
              /\ \A s \in SUBSET S : s # {} => \E x \in s : f[s] = fun[x] + f[s \ {x}]
              /\ SumFunctionOnSet(fun, S) = f[S]
<1>. DEFINE pick == [s \in SUBSET S |-> CHOOSE x \in s : TRUE]
            step == [x \in S |-> [v \in Int |-> fun[x] + v]]
            Sum(f) == [s \in SUBSET S |->
                          IF s = {} THEN 0
                          ELSE LET x == CHOOSE x \in s : TRUE IN fun[x] + f[s \ {x}]]
<1>1. Picks(pick, S)
  BY DEF Picks
<1>0. \A s \in SUBSET S : s # {} =>
        /\ pick[s] \in s /\ s \ {pick[s]} \in SUBSET S
        /\ Cardinality(s) \in Nat \ {0} /\ Cardinality(s \ {pick[s]}) = Cardinality(s) - 1
  <2>. HIDE DEF pick
  <2>. QED
    BY ONLY IsFiniteSet(S), <1>1, OneLess
<1>2. step \in [S -> [Int -> Int]]
  OBVIOUS
<1>3. PICK f \in [SUBSET S -> Int] : FoldsBy(f, S, 0, pick, step)
  <2>. HIDE DEF pick, step
  <2>1. 0 \in Int
    OBVIOUS
  <2>. QED
    BY ONLY IsFiniteSet(S), <1>1, <1>2, <2>1, FoldExists
<1>4. ASSUME NEW s \in SUBSET S, s # {}
      PROVE  f[s] = fun[CHOOSE x \in s : TRUE] + f[s \ {CHOOSE x \in s : TRUE}]
  <2>1. pick[s] \in s /\ pick[s] = CHOOSE x \in s : TRUE
    BY <1>1, <1>4 DEF Picks
  <2>2. f[s] = step[pick[s]][f[s \ {pick[s]}]]
    BY <1>3, <1>4 DEF FoldsBy
  <2>3. f[s \ {pick[s]}] \in Int /\ pick[s] \in S
    BY <2>1
  <2>4. step[pick[s]][f[s \ {pick[s]}]] = fun[pick[s]] + f[s \ {pick[s]}]
    BY <2>3
  <2>. QED
    BY <2>1, <2>2, <2>4
<1>5. f[{}] = 0
  BY <1>3 DEF FoldsBy
<1>6. f = Sum(f)
  BY <1>4, <1>5
<1>. DEFINE c == CHOOSE g : g = Sum(g)
<1>7. c = Sum(c)
  BY <1>6
<1>8. SumFunctionOnSet(fun, S) = c[S]
  BY DEF SumFunctionOnSet, FoldFunctionOnSet, MapThenFoldSet
\* The function the operator chooses is this one.
<1>. HIDE DEF c, Sum, pick, step
<1>. DEFINE Same == {n \in Nat : \A s \in SUBSET S : Cardinality(s) = n => c[s] = f[s]}
<1>9. \A s \in SUBSET S : s # {} =>
          c[s] = fun[CHOOSE x \in s : TRUE] + c[s \ {CHOOSE x \in s : TRUE}]
  BY <1>7 DEF Sum
<1>10. c[{}] = 0
  BY <1>7 DEF Sum
<1>11. 0 \in Same
  BY <1>5, <1>10, FS_Subset, FS_EmptySet
<1>12. ASSUME NEW n \in Nat, n \in Same PROVE n + 1 \in Same
  <2>. SUFFICES ASSUME NEW s \in SUBSET S, Cardinality(s) = n + 1 PROVE c[s] = f[s]
    OBVIOUS
  <2>. DEFINE x == CHOOSE y \in s : TRUE
  <2>1. s # {}
    <3>1. Cardinality(s) # 0
      OBVIOUS
    <3>. QED
      BY ONLY <3>1, FS_EmptySet
  <2>2. pick[s] = x
    BY DEF pick
  <2>3. s \ {pick[s]} \in SUBSET S /\ Cardinality(s \ {pick[s]}) = Cardinality(s) - 1
    BY <1>0, <2>1
  <2>4. c[s \ {x}] = f[s \ {x}]
    BY <1>12, <2>2, <2>3
  <2>. QED
    BY <1>4, <1>9, <2>1, <2>4
<1>13. \A n \in Nat : n \in Same
  <2>. HIDE DEF Same
  <2>. QED
    BY <1>11, <1>12, ByInduction
<1>14. c[S] = f[S]
  BY <1>13, FS_CardinalityType
<1>15. \A s \in SUBSET S : s # {} => \E x \in s : f[s] = fun[x] + f[s \ {x}]
  <2>. SUFFICES ASSUME NEW s \in SUBSET S, s # {} PROVE \E x \in s : f[s] = fun[x] + f[s \ {x}]
    OBVIOUS
  <2>. DEFINE x == CHOOSE y \in s : TRUE
  <2>1. x \in s /\ f[s] = fun[x] + f[s \ {x}]
    BY <1>4
  <2>. HIDE DEF x
  <2>. QED
    BY <2>1
<1>. QED
  BY <1>5, <1>8, <1>14, <1>15

\* Whichever element is taken off first.
LEMMA SumByElements ==
    ASSUME NEW S, IsFiniteSet(S), NEW fun, \A x \in S : fun[x] \in Int
    PROVE  \E f \in [SUBSET S -> Int] :
              /\ f[{}] = 0
              /\ \A T \in SUBSET S : \A x \in T : f[T] = fun[x] + f[T \ {x}]
              /\ SumFunctionOnSet(fun, S) = f[S]
<1>1. PICK f \in [SUBSET S -> Int] :
          /\ f[{}] = 0
          /\ \A s \in SUBSET S : s # {} => \E x \in s : f[s] = fun[x] + f[s \ {x}]
          /\ SumFunctionOnSet(fun, S) = f[S]
  BY SumUnfolds
<1>. DEFINE AnyOrder == {n \in Nat : \A T \in SUBSET S : Cardinality(T) = n =>
                                        \A x \in T : f[T] = fun[x] + f[T \ {x}]}
<1>2. 0 \in AnyOrder
  BY FS_Subset, FS_EmptySet
<1>3. ASSUME NEW n \in Nat, n \in AnyOrder PROVE n + 1 \in AnyOrder
  <2>. SUFFICES ASSUME NEW T \in SUBSET S, Cardinality(T) = n + 1, NEW x \in T
                PROVE  f[T] = fun[x] + f[T \ {x}]
    OBVIOUS
  <2>1. PICK y \in T : f[T] = fun[y] + f[T \ {y}]
    BY <1>1
  <2>2. f[T] = fun[y] + f[T \ {y}]
    BY <2>1
  <2>3. ASSUME NEW z \in T PROVE Cardinality(T \ {z}) = n /\ T \ {z} \in SUBSET S
    <3>1. IsFiniteSet(T)
      BY FS_Subset
    <3>2. z \in T /\ Cardinality(T) = n + 1 /\ n \in Nat
      OBVIOUS
    <3>3. Cardinality(T \ {z}) = n
      BY ONLY <3>1, <3>2, FS_RemoveElement
    <3>. QED
      BY <3>3
  <2>4. CASE x = y
    BY <2>2, <2>4
  <2>5. CASE x # y
    <3>1. x \in T \ {y} /\ y \in T \ {x}
      BY <2>1, <2>5
    <3>2. f[T \ {y}] = fun[x] + f[(T \ {y}) \ {x}]
      BY <1>3, <2>1, <2>3, <3>1
    <3>3. f[T \ {x}] = fun[y] + f[(T \ {x}) \ {y}]
      BY <1>3, <2>3, <3>1
    <3>4. (T \ {x}) \ {y} = (T \ {y}) \ {x} /\ (T \ {y}) \ {x} \in SUBSET S
      OBVIOUS
    <3>5. fun[x] \in Int /\ fun[y] \in Int /\ f[(T \ {y}) \ {x}] \in Int
      BY <2>1, <3>4
    <3>6. f[T \ {x}] = fun[y] + f[(T \ {y}) \ {x}]
      BY <3>3, <3>4
    <3>. QED
      BY ONLY <2>2, <3>2, <3>5, <3>6
  <2>. QED
    BY <2>4, <2>5
<1>4. \A n \in Nat : n \in AnyOrder
  <2>. HIDE DEF AnyOrder
  <2>. QED
    BY <1>2, <1>3, ByInduction
<1>5. ASSUME NEW T \in SUBSET S, NEW x \in T PROVE f[T] = fun[x] + f[T \ {x}]
  BY <1>4, FS_Subset, FS_CardinalityType
<1>6. f[{}] = 0
  BY <1>1
<1>. QED
  BY <1>1, <1>5, <1>6

\* What proofs about sums cite.
LEMMA SumLaws ==
    ASSUME NEW S, IsFiniteSet(S), NEW fun, \A x \in S : fun[x] \in Int
    PROVE  /\ SumFunctionOnSet(fun, {}) = 0
           /\ SumFunctionOnSet(fun, S) \in Int
           /\ \A x \in S : /\ SumFunctionOnSet(fun, S \ {x}) \in Int
                          /\ SumFunctionOnSet(fun, S) = fun[x] + SumFunctionOnSet(fun, S \ {x})
<1>1. SumFunctionOnSet(fun, {}) = 0
  BY FS_EmptySet, SumByElements
<1>2. PICK f \in [SUBSET S -> Int] :
          /\ f[{}] = 0
          /\ \A T \in SUBSET S : \A x \in T : f[T] = fun[x] + f[T \ {x}]
          /\ SumFunctionOnSet(fun, S) = f[S]
  BY SumByElements
<1>3. ASSUME NEW x \in S PROVE SumFunctionOnSet(fun, S \ {x}) = f[S \ {x}]
  <2>. DEFINE R == S \ {x}
  <2>1. IsFiniteSet(R) /\ \A z \in R : fun[z] \in Int
    BY FS_Subset
  <2>. HIDE DEF R
  <2>2. PICK g \in [SUBSET R -> Int] :
            /\ g[{}] = 0
            /\ \A T \in SUBSET R : \A z \in T : g[T] = fun[z] + g[T \ {z}]
            /\ SumFunctionOnSet(fun, R) = g[R]
    BY <2>1, SumByElements
  <2>. DEFINE Same == {T \in SUBSET R : g[T] = f[T]}
  <2>3. {} \in Same
    BY <1>2, <2>2
  <2>4. ASSUME NEW T \in SUBSET R, NEW z \in R \ T, T \in Same PROVE T \cup {z} \in Same
    <3>1. T \cup {z} \in SUBSET R /\ T \cup {z} \in SUBSET S /\ z \in T \cup {z}
          /\ (T \cup {z}) \ {z} = T
      BY DEF R
    <3>2. g[T \cup {z}] = fun[z] + g[(T \cup {z}) \ {z}]
      BY <2>2, <3>1
    <3>3. f[T \cup {z}] = fun[z] + f[(T \cup {z}) \ {z}]
      BY <1>2, <3>1
    <3>. QED
      BY <2>4, <3>1, <3>2, <3>3
  <2>5. R \in Same
    <3>. HIDE DEF Same
    <3>. QED
      BY <2>1, <2>3, <2>4, ByParts
  <2>. QED
    BY <2>2, <2>5 DEF R
<1>4. f[S] \in Int /\ \A x \in S : f[S \ {x}] \in Int
  OBVIOUS
<1>. QED
  BY <1>1, <1>2, <1>3, <1>4

\* One element more: the step of an induction over the parts of a set.
LEMMA SumOneMore ==
    ASSUME NEW S, IsFiniteSet(S), NEW fun, \A x \in S : fun[x] \in Int
    PROVE  \A T \in SUBSET S :
              /\ SumFunctionOnSet(fun, T) \in Int
              /\ \A x \in S \ T :
                    SumFunctionOnSet(fun, T \cup {x}) = fun[x] + SumFunctionOnSet(fun, T)
<1>. SUFFICES ASSUME NEW T \in SUBSET S
              PROVE  /\ SumFunctionOnSet(fun, T) \in Int
                     /\ \A x \in S \ T : SumFunctionOnSet(fun, T \cup {x})
                                           = fun[x] + SumFunctionOnSet(fun, T)
  OBVIOUS
<1>1. IsFiniteSet(T) /\ \A x \in T : fun[x] \in Int
  BY FS_Subset
<1>2. SumFunctionOnSet(fun, T) \in Int
  BY <1>1, SumLaws
<1>3. ASSUME NEW x \in S \ T
      PROVE  SumFunctionOnSet(fun, T \cup {x}) = fun[x] + SumFunctionOnSet(fun, T)
  <2>. DEFINE R == T \cup {x}
  <2>1. R \subseteq S /\ x \in R /\ R \ {x} = T
    OBVIOUS
  <2>. HIDE DEF R
  <2>2. IsFiniteSet(R) /\ \A y \in R : fun[y] \in Int
    BY <2>1, FS_Subset
  <2>3. SumFunctionOnSet(fun, R) = fun[x] + SumFunctionOnSet(fun, R \ {x})
    BY ONLY <2>1, <2>2, SumLaws
  <2>. QED
    BY <2>1, <2>3 DEF R
<1>. QED
  BY <1>2, <1>3

LEMMA SumEmpty == \A fun : SumFunctionOnSet(fun, {}) = 0
  BY FS_EmptySet, SumLaws

\* Sums of two functions compare as their values do.
LEMMA SumMonotone ==
    ASSUME NEW S, IsFiniteSet(S), NEW f, NEW g,
           \A x \in S : f[x] \in Int /\ g[x] \in Int /\ f[x] <= g[x]
    PROVE  SumFunctionOnSet(f, S) <= SumFunctionOnSet(g, S)
<1>1. /\ \A T \in SUBSET S : SumFunctionOnSet(f, T) \in Int /\ SumFunctionOnSet(g, T) \in Int
      /\ \A T \in SUBSET S : \A x \in S \ T :
            /\ SumFunctionOnSet(f, T \cup {x}) = f[x] + SumFunctionOnSet(f, T)
            /\ SumFunctionOnSet(g, T \cup {x}) = g[x] + SumFunctionOnSet(g, T)
  BY SumOneMore
<1>. DEFINE Less == {T \in SUBSET S : SumFunctionOnSet(f, T) <= SumFunctionOnSet(g, T)}
<1>2. {} \in Less
  BY SumEmpty
<1>3. ASSUME NEW T \in SUBSET S, NEW x \in S \ T, T \in Less PROVE T \cup {x} \in Less
  <2>1. SumFunctionOnSet(f, T \cup {x}) = f[x] + SumFunctionOnSet(f, T)
    BY <1>1
  <2>2. SumFunctionOnSet(g, T \cup {x}) = g[x] + SumFunctionOnSet(g, T)
    BY <1>1
  <2>3. /\ SumFunctionOnSet(f, T) \in Int /\ SumFunctionOnSet(g, T) \in Int
        /\ SumFunctionOnSet(f, T) <= SumFunctionOnSet(g, T)
        /\ f[x] \in Int /\ g[x] \in Int /\ f[x] <= g[x]
    BY <1>1, <1>3
  <2>4. SumFunctionOnSet(f, T \cup {x}) <= SumFunctionOnSet(g, T \cup {x})
    BY ONLY <2>1, <2>2, <2>3
  <2>. QED
    BY <2>4
<1>4. S \in Less
  <2>. HIDE DEF Less
  <2>. QED
    BY ONLY IsFiniteSet(S), <1>2, <1>3, ByParts
<1>. QED
  BY <1>4

LEMMA SumSame ==
    ASSUME NEW S, IsFiniteSet(S), NEW f, NEW g, \A x \in S : f[x] \in Int /\ f[x] = g[x]
    PROVE  SumFunctionOnSet(f, S) = SumFunctionOnSet(g, S)
<1>1. SumFunctionOnSet(f, S) <= SumFunctionOnSet(g, S)
  BY SumMonotone
<1>2. SumFunctionOnSet(g, S) <= SumFunctionOnSet(f, S)
  BY SumMonotone
<1>3. SumFunctionOnSet(f, S) \in Int /\ SumFunctionOnSet(g, S) \in Int
  BY SumLaws
<1>. QED
  BY <1>1, <1>2, <1>3

LEMMA SumPlus ==
    ASSUME NEW S, IsFiniteSet(S), NEW f, NEW g, NEW h,
           \A x \in S : f[x] \in Int /\ g[x] \in Int /\ h[x] = f[x] + g[x]
    PROVE  SumFunctionOnSet(h, S) = SumFunctionOnSet(f, S) + SumFunctionOnSet(g, S)
<1>1. /\ \A T \in SUBSET S : /\ SumFunctionOnSet(f, T) \in Int /\ SumFunctionOnSet(g, T) \in Int
                            /\ SumFunctionOnSet(h, T) \in Int
      /\ \A T \in SUBSET S : \A x \in S \ T :
            /\ SumFunctionOnSet(f, T \cup {x}) = f[x] + SumFunctionOnSet(f, T)
            /\ SumFunctionOnSet(g, T \cup {x}) = g[x] + SumFunctionOnSet(g, T)
            /\ SumFunctionOnSet(h, T \cup {x}) = h[x] + SumFunctionOnSet(h, T)
  <2>1. \A x \in S : h[x] \in Int
    OBVIOUS
  <2>. QED
    BY <2>1, SumOneMore
<1>. DEFINE Adds == {T \in SUBSET S :
                        SumFunctionOnSet(h, T) = SumFunctionOnSet(f, T) + SumFunctionOnSet(g, T)}
<1>2. {} \in Adds
  BY SumEmpty
<1>3. ASSUME NEW T \in SUBSET S, NEW x \in S \ T, T \in Adds PROVE T \cup {x} \in Adds
  <2>1. SumFunctionOnSet(f, T \cup {x}) = f[x] + SumFunctionOnSet(f, T)
    BY <1>1
  <2>2. SumFunctionOnSet(g, T \cup {x}) = g[x] + SumFunctionOnSet(g, T)
    BY <1>1
  <2>3. SumFunctionOnSet(h, T \cup {x}) = h[x] + SumFunctionOnSet(h, T)
    BY <1>1
  <2>4. /\ SumFunctionOnSet(f, T) \in Int /\ SumFunctionOnSet(g, T) \in Int
        /\ SumFunctionOnSet(h, T) = SumFunctionOnSet(f, T) + SumFunctionOnSet(g, T)
        /\ f[x] \in Int /\ g[x] \in Int /\ h[x] = f[x] + g[x]
    BY <1>1, <1>3
  <2>5. SumFunctionOnSet(h, T \cup {x})
          = SumFunctionOnSet(f, T \cup {x}) + SumFunctionOnSet(g, T \cup {x})
    BY ONLY <2>1, <2>2, <2>3, <2>4
  <2>. QED
    BY <2>5
<1>4. S \in Adds
  <2>. HIDE DEF Adds
  <2>. QED
    BY ONLY IsFiniteSet(S), <1>2, <1>3, ByParts
<1>. QED
  BY <1>4

LEMMA SumZero ==
    ASSUME NEW S, IsFiniteSet(S), NEW f, \A x \in S : f[x] = 0
    PROVE  SumFunctionOnSet(f, S) = 0
<1>1. SumFunctionOnSet(f, S) = SumFunctionOnSet(f, S) + SumFunctionOnSet(f, S)
  BY SumPlus
<1>2. SumFunctionOnSet(f, S) \in Int
  BY SumLaws
<1>. QED
  BY <1>1, <1>2

\* part[r] holds the elements of S whose key is r.
Grouped(S, K, key, part) ==
    /\ \A i \in S : key[i] \in K
    /\ \A r \in K : \A i : i \in part[r] <=> i \in S /\ key[i] = r

\* Summed up key by key.
LEMMA SumByKey ==
    ASSUME NEW S, IsFiniteSet(S), NEW f, \A i \in S : f[i] \in Int,
           NEW K, IsFiniteSet(K), NEW key, NEW part, Grouped(S, K, key, part),
           NEW g, \A r \in K : g[r] = SumFunctionOnSet(f, part[r])
    PROVE  SumFunctionOnSet(g, K) = SumFunctionOnSet(f, S)
<1>. DEFINE Of(T, r) == {i \in T : key[i] = r}
            Bucket(T) == [r \in K |-> SumFunctionOnSet(f, Of(T, r))]
            Split == {T \in SUBSET S : SumFunctionOnSet(Bucket(T), K) = SumFunctionOnSet(f, T)}
<1>0. /\ \A i \in S : key[i] \in K
      /\ \A r \in K : \A i : i \in part[r] <=> i \in S /\ key[i] = r
  BY Zenon DEF Grouped
<1>1. /\ \A T \in SUBSET S : SumFunctionOnSet(f, T) \in Int
      /\ \A T \in SUBSET S : \A x \in S \ T :
            SumFunctionOnSet(f, T \cup {x}) = f[x] + SumFunctionOnSet(f, T)
  BY ONLY IsFiniteSet(S), \A i \in S : f[i] \in Int, SumOneMore
<1>2. {} \in Split
  <2>1. \A r \in K : Of({}, r) = {}
    OBVIOUS
  <2>2. \A r \in K : Bucket({})[r] = 0
    BY <2>1, SumEmpty
  <2>. HIDE DEF Bucket
  <2>3. SumFunctionOnSet(Bucket({}), K) = 0
    BY ONLY IsFiniteSet(K), <2>2, SumZero
  <2>. QED
    BY <2>3, SumEmpty
<1>3. ASSUME NEW T \in SUBSET S, NEW x \in S \ T, T \in Split PROVE T \cup {x} \in Split
  <2>. DEFINE old == Bucket(T)
              new == Bucket(T \cup {x})
              extra == [r \in K |-> IF r = key[x] THEN f[x] ELSE 0]
  <2>1. ASSUME NEW r \in K
        PROVE  old[r] \in Int /\ extra[r] \in Int /\ new[r] = old[r] + extra[r]
    <3>1. Of(T, r) \in SUBSET S
      OBVIOUS
    <3>2. /\ old[r] = SumFunctionOnSet(f, Of(T, r))
          /\ new[r] = SumFunctionOnSet(f, Of(T \cup {x}, r))
          /\ extra[r] = IF r = key[x] THEN f[x] ELSE 0
      OBVIOUS
    <3>3. SumFunctionOnSet(f, Of(T, r)) \in Int /\ f[x] \in Int
      BY <1>1, <3>1
    <3>4. CASE r = key[x]
      <4>1. Of(T \cup {x}, r) = Of(T, r) \cup {x} /\ x \in S \ Of(T, r)
        BY <3>4
      <4>2. SumFunctionOnSet(f, Of(T \cup {x}, r)) = f[x] + SumFunctionOnSet(f, Of(T, r))
        BY <1>1, <3>1, <4>1
      <4>. QED
        BY ONLY <3>2, <3>3, <3>4, <4>2
    <3>5. CASE r # key[x]
      <4>1. Of(T \cup {x}, r) = Of(T, r)
        BY <3>5
      <4>2. SumFunctionOnSet(f, Of(T \cup {x}, r)) = SumFunctionOnSet(f, Of(T, r))
        BY ONLY <4>1, Zenon
      <4>. HIDE DEF old, new, extra, Of
      <4>. QED
        BY ONLY <3>2, <3>3, <3>5, <4>2
    <3>. QED
      BY <3>4, <3>5
  <2>2. key[x] \in K /\ extra[key[x]] = f[x] /\ \A r \in K \ {key[x]} : extra[r] = 0
    BY <1>0
  <2>3. \A r \in K : extra[r] \in Int
    BY <2>1
  <2>4. f[x] \in Int /\ SumFunctionOnSet(f, T) \in Int
        /\ SumFunctionOnSet(f, T \cup {x}) = f[x] + SumFunctionOnSet(f, T)
    BY <1>1
  <2>5. SumFunctionOnSet(old, K) = SumFunctionOnSet(f, T)
    BY <1>3
  <2>. HIDE DEF old, new, extra, Split
  <2>6. SumFunctionOnSet(new, K) = SumFunctionOnSet(old, K) + SumFunctionOnSet(extra, K)
    BY ONLY IsFiniteSet(K), <2>1, SumPlus
  <2>7. SumFunctionOnSet(extra, K) = extra[key[x]] + SumFunctionOnSet(extra, K \ {key[x]})
    BY ONLY IsFiniteSet(K), <2>2, <2>3, SumLaws
  <2>8. IsFiniteSet(K \ {key[x]})
    BY FS_Subset
  <2>9. SumFunctionOnSet(extra, K \ {key[x]}) = 0
    BY ONLY <2>2, <2>8, SumZero
  <2>10. SumFunctionOnSet(new, K) = SumFunctionOnSet(f, T \cup {x})
    BY ONLY <2>2, <2>4, <2>5, <2>6, <2>7, <2>9
  <2>. QED
    BY <2>10 DEF Split, new
<1>4. S \in Split
  <2>. HIDE DEF Split
  <2>. QED
    BY ONLY IsFiniteSet(S), <1>2, <1>3, ByParts
<1>5. SumFunctionOnSet(Bucket(S), K) = SumFunctionOnSet(g, K)
  <2>1. ASSUME NEW r \in K PROVE Bucket(S)[r] \in Int /\ Bucket(S)[r] = g[r]
    <3>1. Of(S, r) \in SUBSET S /\ Of(S, r) = part[r]
      BY <1>0
    <3>2. Bucket(S)[r] = SumFunctionOnSet(f, Of(S, r)) /\ g[r] = SumFunctionOnSet(f, part[r])
      OBVIOUS
    <3>3. SumFunctionOnSet(f, Of(S, r)) \in Int
      BY <1>1, <3>1
    <3>4. SumFunctionOnSet(f, Of(S, r)) = SumFunctionOnSet(f, part[r])
      BY <3>1, Zenon
    <3>. HIDE DEF Bucket, Of
    <3>. QED
      BY ONLY <3>2, <3>3, <3>4
  <2>. HIDE DEF Bucket
  <2>. QED
    BY ONLY IsFiniteSet(K), <2>1, SumSame
<1>. QED
  BY <1>4, <1>5
=============================================================================
