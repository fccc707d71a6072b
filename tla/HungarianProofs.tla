--------------------------- MODULE HungarianProofs ---------------------------
(***************************************************************************)
(* Proofs about the assignment algorithm of module Hungarian, for every    *)
(* matrix of integers, and whichever zero a scan finds: the scans find     *)
(* what the code takes for granted, and the result is the cheapest         *)
(* assignment there is.                                                    *)
(*                                                                         *)
(* The first lemmas are about finite sets and sums over them.  Then come   *)
(* the lines and the stars of the search, the path of step4 with the order *)
(* in which rows were covered, and the potentials of rows and columns: the *)
(* reduced matrix is the costs less a number for each line.                *)
(***************************************************************************)
EXTENDS Hungarian, FiniteSetTheorems, TLAPS

-----------------------------------------------------------------------------
(* Finite sets, and the totals of a weight over them.                      *)

(* Among any subsets of a finite set there is a minimal one: what the      *)
(* inductions over the sets of cells below rest on.                        *)
LEMMA SmallestSubset ==
  ASSUME NEW S, IsFiniteSet(S), NEW Bad \in SUBSET SUBSET S, Bad # {}
  PROVE  \E T \in Bad : \A U \in Bad : U \subseteq T => U = T
<1>1. IsWellFoundedOn(StrictSubsetOrdering(S), SUBSET S)
  BY FS_StrictSubsetOrderingWellFounded, FS_FiniteSubsetsOfFinite
<1>2. PICK T \in Bad : \A U \in Bad : <<U, T>> \notin StrictSubsetOrdering(S)
  BY <1>1, WFMin
<1> QED  BY <1>2 DEF StrictSubsetOrdering

(* Of finitely many things with integer values one has the smallest.       *)
LEMMA SomeSmallest ==
  ASSUME NEW S, IsFiniteSet(S), S # {}, NEW val, \A x \in S : val[x] \in Int
  PROVE  \E x \in S : \A y \in S : val[x] <= val[y]
<1> DEFINE Bad == {T \in SUBSET S :
                     T # {} /\ \A x \in T : \E y \in T : val[y] < val[x]}
<1>0. Bad \in SUBSET SUBSET S
  OBVIOUS
<1>1. ASSUME Bad # {} PROVE FALSE
  <2>1. PICK T \in Bad : \A U \in Bad : U \subseteq T => U = T
    <3> HIDE DEF Bad
    <3> QED  BY <1>0, <1>1, SmallestSubset
  <2>2. PICK x \in T : TRUE
    OBVIOUS
  <2>3. PICK y \in T : val[y] < val[x]
    BY <2>2
  <2>4. T \ {x} \notin Bad /\ T \ {x} \in SUBSET S
    BY <2>1, <2>2
  <2>5. y \in T \ {x}
    BY <2>3
  <2>6. PICK m \in T \ {x} : \A z \in T \ {x} : ~(val[z] < val[m])
    BY <2>4, <2>5
  <2>7. \A z \in T : ~(val[z] < val[m])
    BY <2>2, <2>3, <2>5, <2>6
  <2>8. \E z \in T : val[z] < val[m]
    BY <2>6
  <2> QED  BY <2>7, <2>8
<1>2. S \notin Bad
  BY <1>1
<1>3. PICK x \in S : \A y \in S : ~(val[y] < val[x])
  BY <1>2
<1> QED  BY <1>3

(* A finite nonempty set of integers has a smallest element, so Reduce,    *)
(* step5 and minDim compute one.                                           *)
LEMMA MinIsSmallest ==
  ASSUME NEW S, IsFiniteSet(S), S # {}, \A x \in S : x \in Int
  PROVE  Min(S) \in S /\ \A y \in S : Min(S) <= y
<1> DEFINE val == [x \in S |-> x]
<1>1. \A x \in S : val[x] \in Int
  OBVIOUS
<1>2. \E x \in S : \A y \in S : val[x] <= val[y]
  <2> HIDE DEF val
  <2> QED  BY <1>1, SomeSmallest
<1>3. \E x \in S : \A y \in S : x =< y
  BY <1>2
<1> QED  BY <1>3 DEF Min

(* So do the values of a function on finitely many arguments.              *)
LEMMA MinOfValues ==
  ASSUME NEW S, IsFiniteSet(S), S # {}, NEW f, \A x \in S : f[x] \in Int
  PROVE  LET h == Min({f[x] : x \in S})
         IN  /\ h \in Int
             /\ \E x \in S : h = f[x]
             /\ \A x \in S : h <= f[x]
<1> DEFINE V == {f[x] : x \in S}  g == [x \in S |-> f[x]]
<1>1. g \in Surjection(S, V)
  BY DEF Surjection
<1>2. IsFiniteSet(V)
  BY <1>1, FS_Surjection
<1>3. V # {} /\ \A v \in V : v \in Int
  OBVIOUS
<1>4. Min(V) \in V /\ \A v \in V : Min(V) <= v
  <2> HIDE DEF V
  <2> QED  BY <1>2, <1>3, MinIsSmallest
<1> QED  BY <1>3, <1>4

(* F gives every subset of S the total of w over it, and its elements may  *)
(* be added in any order.                                                  *)
IsTotal(F, S, w) ==
  /\ F \in [SUBSET S -> Int]
  /\ F[{}] = 0
  /\ \A T \in SUBSET S : \A x \in T : F[T] = w[x] + F[T \ {x}]

(* Integer weights of the elements of a finite set have totals.            *)
LEMMA TotalExists ==
  ASSUME NEW S, IsFiniteSet(S), NEW w, \A x \in S : w[x] \in Int
  PROVE  \E F : IsTotal(F, S, w)
<1> DEFINE Bad == {T \in SUBSET S : ~ \E F : IsTotal(F, T, w)}
<1> SUFFICES ASSUME Bad # {} PROVE FALSE
  OBVIOUS
<1>0. Bad \in SUBSET SUBSET S
  OBVIOUS
<1>1. PICK T \in Bad : \A U \in Bad : U \subseteq T => U = T
  <2> HIDE DEF Bad
  <2> QED  BY <1>0, SmallestSubset
<1>2. T # {}
  <2> DEFINE F == [U \in SUBSET {} |-> 0]
  <2>1. IsTotal(F, {}, w)
    BY DEF IsTotal
  <2> QED  BY <2>1
<1>3. PICK x \in T : TRUE
  BY <1>2
<1>4. T \ {x} \notin Bad
  BY <1>1, <1>3
<1>5. PICK F : IsTotal(F, T \ {x}, w)
  BY <1>4
<1> DEFINE G == [U \in SUBSET T |-> IF x \in U THEN w[x] + F[U \ {x}] ELSE F[U]]
<1>6. w[x] \in Int
  BY <1>3
<1>7. G \in [SUBSET T -> Int]
  <2> SUFFICES ASSUME NEW U \in SUBSET T
               PROVE  (IF x \in U THEN w[x] + F[U \ {x}] ELSE F[U]) \in Int
    OBVIOUS
  <2>1. U \ {x} \in SUBSET (T \ {x})
    OBVIOUS
  <2>2. x \notin U => U \in SUBSET (T \ {x})
    OBVIOUS
  <2> QED  BY <1>5, <1>6, <2>1, <2>2 DEF IsTotal
<1>8. G[{}] = 0
  BY <1>5 DEF IsTotal
<1>9. ASSUME NEW U \in SUBSET T, NEW y \in U
      PROVE  G[U] = w[y] + G[U \ {y}]
  <2>1. CASE y = x
    BY <2>1
  <2>2. CASE y # x /\ x \in U
    <3>1. /\ U \ {x} \in SUBSET (T \ {x}) /\ y \in U \ {x}
          /\ (U \ {y}) \ {x} = (U \ {x}) \ {y}
          /\ (U \ {x}) \ {y} \in SUBSET (T \ {x})
      BY <2>2
    <3>2. F[U \ {x}] = w[y] + F[(U \ {x}) \ {y}]
      BY <1>5, <3>1 DEF IsTotal
    <3>3. G[U] = w[x] + F[U \ {x}]
      BY <2>2
    <3>4. G[U \ {y}] = w[x] + F[(U \ {x}) \ {y}]
      BY <2>2, <3>1
    <3>5. w[y] \in Int /\ F[(U \ {x}) \ {y}] \in Int
      BY <1>5, <3>1 DEF IsTotal
    <3> QED  BY <3>2, <3>3, <3>4, <3>5, <1>6
  <2>3. CASE x \notin U
    <3>1. U \in SUBSET (T \ {x}) /\ U \ {y} \in SUBSET T /\ x \notin U \ {y}
      BY <2>3
    <3> QED  BY <1>5, <3>1, <2>3 DEF IsTotal
  <2> QED  BY <2>1, <2>2, <2>3
<1>10. IsTotal(G, T, w)
  BY <1>7, <1>8, <1>9 DEF IsTotal
<1> QED  BY <1>10

(* A total over a part of the set is at least that over the whole when     *)
(* what is left out weighs nothing or less, and the same when it weighs    *)
(* nothing.                                                                *)
LEMMA TotalOfPart ==
  ASSUME NEW S, IsFiniteSet(S), NEW w, \A x \in S : w[x] \in Int,
         NEW F, IsTotal(F, S, w), NEW T \in SUBSET S
  PROVE  /\ (\A x \in S \ T : w[x] <= 0) => F[S] <= F[T]
         /\ (\A x \in S \ T : w[x] = 0) => F[S] = F[T]
<1> DEFINE Good(U) == /\ (\A x \in U \ T : w[x] <= 0) => F[U] <= F[T]
                      /\ (\A x \in U \ T : w[x] = 0) => F[U] = F[T]
           Bad == {U \in SUBSET S : T \subseteq U /\ ~Good(U)}
<1> SUFFICES ASSUME Bad # {} PROVE FALSE
  OBVIOUS
<1>0. Bad \in SUBSET SUBSET S
  OBVIOUS
<1>1. PICK U \in Bad : \A V \in Bad : V \subseteq U => V = U
  <2> HIDE DEF Bad
  <2> QED  BY <1>0, SmallestSubset
<1>2. \A V \in SUBSET S : F[V] \in Int
  BY DEF IsTotal
<1>3. U # T
  BY <1>2
<1>4. PICK x \in U : x \notin T
  BY <1>3
<1>5. Good(U \ {x})
  BY <1>1, <1>4
<1>6. F[U] = w[x] + F[U \ {x}]
  BY <1>4 DEF IsTotal
<1>7. /\ w[x] \in Int /\ F[U] \in Int /\ F[U \ {x}] \in Int /\ F[T] \in Int
      /\ x \in U \ T /\ \A y \in (U \ {x}) \ T : y \in U \ T
  BY <1>2, <1>4
<1>8. ASSUME \A y \in U \ T : w[y] <= 0 PROVE F[U] <= F[T]
  BY <1>5, <1>6, <1>7, <1>8
<1>9. ASSUME \A y \in U \ T : w[y] = 0 PROVE F[U] = F[T]
  BY <1>5, <1>6, <1>7, <1>9
<1> QED  BY <1>8, <1>9

(* CostOf, a fold over the cells in some order, is the total of the costs. *)
LEMMA CostIsTotal ==
  ASSUME NEW M, IsFiniteSet(M), \A x \in M : distMatrixIn[x] \in Int,
         NEW F, IsTotal(F, M, distMatrixIn)
  PROVE  CostOf(M) = F[M]
<1> DEFINE ch(T) == CHOOSE x \in T : TRUE
           fold(f) == [s \in SUBSET M |->
                         IF s = {} THEN 0
                         ELSE distMatrixIn[ch(s)] + f[s \ {ch(s)}]]
           iter == CHOOSE f : f = fold(f)
<1>1. F = fold(F)
  BY DEF IsTotal
<1>2. iter = fold(iter)
  BY <1>1
<1>3. CostOf(M) = iter[M]
  BY DEF CostOf, MapThenSumSet, MapThenFoldSet
<1> HIDE DEF iter
<1> DEFINE Bad == {T \in SUBSET M : iter[T] # F[T]}
<1>4. ASSUME Bad # {} PROVE FALSE
  <2>0. Bad \in SUBSET SUBSET M
    OBVIOUS
  <2>1. PICK T \in Bad : \A U \in Bad : U \subseteq T => U = T
    <3> HIDE DEF Bad
    <3> QED  BY <1>4, <2>0, SmallestSubset
  <2>2. iter[T] = IF T = {} THEN 0
                  ELSE distMatrixIn[ch(T)] + iter[T \ {ch(T)}]
    BY <1>2
  <2>3. T # {}
    BY <2>2 DEF IsTotal
  <2>4. ch(T) \in T
    BY <2>3
  <2>5. T \ {ch(T)} \in SUBSET M /\ T \ {ch(T)} \notin Bad
    BY <2>1, <2>4
  <2>6. F[T] = distMatrixIn[ch(T)] + F[T \ {ch(T)}]
    BY <2>4 DEF IsTotal
  <2> QED  BY <2>2, <2>3, <2>5, <2>6
<1> QED  BY <1>3, <1>4

-----------------------------------------------------------------------------
(* The invariant.                                                          *)

StarRows == {q[1] : q \in starMatrix}
StarCols == {q[2] : q \in starMatrix}
OneToOne(M) == \A p, q \in M : p[1] = q[1] <=> p[2] = q[2]

TypeInv ==
  /\ pc \in {"reduce", "star", "step2a", "step2b", "step3", "step4", "step5",
             "done"}
  /\ rows # {} /\ IsFiniteSet(rows) /\ cols # {} /\ IsFiniteSet(cols)
  /\ distMatrixIn \in [Cells -> Int] /\ distMatrix \in [Cells -> Int]
  /\ starMatrix \in SUBSET Cells
  /\ primeMatrix \in SUBSET Cells
  /\ newStarMatrix \in SUBSET Cells
  /\ coveredRows \in SUBSET rows /\ coveredColumns \in SUBSET cols

(* Stars are a partial assignment; they and the primes are zeros, and no   *)
(* element is negative once the lines are reduced.                         *)
ZeroInv ==
  /\ OneToOne(starMatrix)
  /\ starMatrix \cap primeMatrix = {}
  /\ \A p \in starMatrix \union primeMatrix : distMatrix[p] = 0
  /\ IF pc = "reduce" THEN starMatrix = {}
     ELSE \A p \in Cells : 0 <= distMatrix[p]

(* A covered line holds a star, and a star is under one line.              *)
LineInv ==
  /\ coveredColumns \subseteq StarCols
  /\ coveredRows \subseteq StarRows
  /\ pc # "step2a" =>
       \A q \in starMatrix : q[1] \in coveredRows <=> q[2] \notin coveredColumns
  /\ pc \notin {"step3", "step4", "step5"} =>
       primeMatrix = {} /\ coveredRows = {}
  /\ pc \in {"step3", "step4", "step5"} => Cardinality(StarCols) # minDim
  /\ pc = "done" => Cardinality(StarCols) = minDim

(* A covered row has one prime, in a column that is not covered; only the  *)
(* prime step4 begins at is in a row that is not covered.                  *)
PrimeInv ==
  /\ \A p \in primeMatrix : p[2] \notin coveredColumns
  /\ \A p, q \in primeMatrix : p[1] = q[1] => p = q
  /\ \A r \in coveredRows : \E p \in primeMatrix : p[1] = r
  /\ pc # "step4" => \A p \in primeMatrix : p[1] \in coveredRows

(* rank tells the order in which the rows were covered: from a prime the   *)
(* star of its column leads to a row that was covered before.              *)
Descends(rank) ==
  \A p \in primeMatrix, q \in starMatrix :
    q[2] = p[2] => q[1] \in coveredRows /\ rank[q[1]] < rank[p[1]]

(* The path of step4 has come to the prime p.  The new stars are one to    *)
(* one but for the star that p's column may still have, and what the path  *)
(* has left behind ranks no lower than p's row, so it is not met again.    *)
OnPath(rank, p) ==
  /\ p \in newStarMatrix /\ p[2] = starCol
  /\ newStarMatrix \subseteq starMatrix \union primeMatrix
  /\ \A a, b \in newStarMatrix : a[1] = b[1] => a = b
  /\ \A a, b \in newStarMatrix : a[2] = b[2] => a = b \/ a = p \/ b = p
  /\ \A a \in newStarMatrix : a[2] = p[2] /\ a # p => a \in starMatrix
  /\ \A a \in newStarMatrix \ starMatrix :
       a # p => \E q \in starMatrix : q[2] = a[2] /\ rank[p[1]] <= rank[q[1]]
  /\ \A q \in starMatrix \ newStarMatrix : rank[p[1]] <= rank[q[1]]
  /\ \A q \in starMatrix :
       /\ \E a \in newStarMatrix : a[1] = q[1]
       /\ \E a \in newStarMatrix : a[2] = q[2]

PathInv ==
  \E rank \in [rows -> Nat], n \in Nat :
    /\ \A r \in coveredRows : rank[r] < n
    /\ Descends(rank)
    /\ pc = "step4" => \E p \in primeMatrix : OnPath(rank, p)

(* The reduced matrix is the costs less a number for each row and each     *)
(* column.  On the longer side no number is positive, and a line without a *)
(* star has none: what an assignment may leave out costs it nothing.       *)
Potentials(a, b) ==
  /\ \A p \in Cells : distMatrixIn[p] = distMatrix[p] + a[p[1]] + b[p[2]]
  /\ IF Cardinality(rows) <= Cardinality(cols)
     THEN \A c \in cols : b[c] <= 0 /\ (c \notin StarCols => b[c] = 0)
     ELSE \A r \in rows : a[r] <= 0 /\ (r \notin StarRows => a[r] = 0)

PotentialInv == \E a \in [rows -> Int], b \in [cols -> Int] : Potentials(a, b)

IInv == TypeInv /\ ZeroInv /\ LineInv /\ PrimeInv /\ PathInv /\ PotentialInv

-----------------------------------------------------------------------------
(* Lines and their numbers.                                                *)

(* A cell has a row and a column, and the matrix finitely many cells.      *)
LEMMA CellLines ==
  ASSUME TypeInv
  PROVE  /\ \A p \in Cells : p[1] \in rows /\ p[2] \in cols
                             /\ p = <<p[1], p[2]>>
         /\ IsFiniteSet(Cells) /\ Cells # {}
<1>1. IsFiniteSet(Cells)
  BY FS_Product DEF TypeInv, Cells
<1>2. PICK r \in rows, c \in cols : TRUE
  BY DEF TypeInv
<1>3. <<r, c>> \in Cells
  BY DEF Cells
<1>4. ASSUME NEW p \in Cells
      PROVE  p[1] \in rows /\ p[2] \in cols /\ p = <<p[1], p[2]>>
  BY DEF Cells
<1> QED  BY <1>1, <1>3, <1>4

(* Cells that are one to one are as many as their rows and their columns.  *)
LEMMA OneToOneLines ==
  ASSUME TypeInv, NEW M \in SUBSET Cells, OneToOne(M)
  PROVE  /\ IsFiniteSet(M)
         /\ IsFiniteSet({q[1] : q \in M}) /\ IsFiniteSet({q[2] : q \in M})
         /\ Cardinality({q[1] : q \in M}) = Cardinality(M)
         /\ Cardinality({q[2] : q \in M}) = Cardinality(M)
<1>1. IsFiniteSet(M)
  BY CellLines, FS_Subset
<1>2. ExistsBijection(M, {q[1] : q \in M})
  <2> DEFINE f == [q \in M |-> q[1]]
  <2>1. \A p, q \in M : p[1] = q[1] => p = q
    BY CellLines DEF OneToOne
  <2>2. f \in [M -> {q[1] : q \in M}]
    OBVIOUS
  <2>3. \A p, q \in M : f[p] = f[q] => p = q
    BY <2>1
  <2>4. \A t \in {q[1] : q \in M} : \E p \in M : f[p] = t
    OBVIOUS
  <2> HIDE DEF f
  <2>5. f \in Bijection(M, {q[1] : q \in M})
    BY <2>2, <2>3, <2>4 DEF Bijection, Injection, Surjection, IsInjective
  <2> QED  BY <2>5 DEF ExistsBijection
<1>3. ExistsBijection(M, {q[2] : q \in M})
  <2> DEFINE f == [q \in M |-> q[2]]
  <2>1. \A p, q \in M : p[2] = q[2] => p = q
    BY CellLines DEF OneToOne
  <2>2. f \in [M -> {q[2] : q \in M}]
    OBVIOUS
  <2>3. \A p, q \in M : f[p] = f[q] => p = q
    BY <2>1
  <2>4. \A t \in {q[2] : q \in M} : \E p \in M : f[p] = t
    OBVIOUS
  <2> HIDE DEF f
  <2>5. f \in Bijection(M, {q[2] : q \in M})
    BY <2>2, <2>3, <2>4 DEF Bijection, Injection, Surjection, IsInjective
  <2> QED  BY <2>5 DEF ExistsBijection
<1> QED  BY <1>1, <1>2, <1>3, FS_Bijection

(* minDim is the number of lines of the shorter side.                      *)
LEMMA MinDimIs ==
  ASSUME TypeInv
  PROVE  /\ Cardinality(rows) \in Nat /\ Cardinality(cols) \in Nat
         /\ minDim = IF Cardinality(rows) <= Cardinality(cols)
                     THEN Cardinality(rows) ELSE Cardinality(cols)
<1> DEFINE m == Cardinality(rows)  n == Cardinality(cols)
<1>1. m \in Nat /\ n \in Nat
  BY FS_CardinalityType DEF TypeInv
<1>2. IsFiniteSet({m, n})
  <2> HIDE DEF m, n
  <2>1. IsFiniteSet({m}) /\ IsFiniteSet({n})
    BY FS_Singleton
  <2>2. IsFiniteSet({m} \union {n})
    BY <2>1, FS_Union
  <2>3. {m, n} = {m} \union {n}
    OBVIOUS
  <2> QED  BY <2>2, <2>3, Zenon
<1>3. \A x \in {m, n} : x \in Int
  BY <1>1
<1> HIDE DEF m, n
<1>4. Min({m, n}) \in {m, n} /\ \A y \in {m, n} : Min({m, n}) <= y
  BY <1>2, <1>3, MinIsSmallest
<1>5. Min({m, n}) = IF m <= n THEN m ELSE n
  BY <1>1, <1>4
<1> QED  BY <1>1, <1>5 DEF m, n, minDim

(* The stars have as many rows as columns, and never more than minDim.     *)
LEMMA StarLines ==
  ASSUME TypeInv, OneToOne(starMatrix)
  PROVE  /\ StarRows \subseteq rows /\ StarCols \subseteq cols
         /\ Cardinality(StarCols) \in Nat
         /\ Cardinality(starMatrix) = Cardinality(StarCols)
         /\ Cardinality(StarRows) = Cardinality(StarCols)
         /\ Cardinality(StarCols) # minDim => StarRows # rows /\ StarCols # cols
         /\ Cardinality(StarCols) = minDim =>
              IF Cardinality(rows) <= Cardinality(cols)
              THEN StarRows = rows ELSE StarCols = cols
<1>1. StarRows \subseteq rows /\ StarCols \subseteq cols
  BY CellLines DEF TypeInv, StarRows, StarCols
<1>2. /\ IsFiniteSet(StarRows) /\ IsFiniteSet(StarCols)
      /\ Cardinality(StarRows) = Cardinality(starMatrix)
      /\ Cardinality(StarCols) = Cardinality(starMatrix)
  BY OneToOneLines DEF StarRows, StarCols, TypeInv
<1>3. Cardinality(StarCols) \in Nat
  BY <1>2, FS_CardinalityType
<1>4. /\ Cardinality(StarRows) <= Cardinality(rows)
      /\ Cardinality(rows) = Cardinality(StarRows) => StarRows = rows
  BY <1>1, FS_Subset DEF TypeInv
<1>5. /\ Cardinality(StarCols) <= Cardinality(cols)
      /\ Cardinality(cols) = Cardinality(StarCols) => StarCols = cols
  BY <1>1, FS_Subset DEF TypeInv
<1> QED  BY <1>1, <1>2, <1>3, <1>4, <1>5, MinDimIs

-----------------------------------------------------------------------------
(* Every step preserves the invariant.                                     *)

USE SizeAssumption, CostAssumption

(* Before the lines are reduced there is neither star nor prime nor line.  *)
LEMMA InitIInv == Init => IInv
<1> SUFFICES ASSUME Init PROVE IInv
  OBVIOUS
<1>1. PICK m \in RowCounts, n \in ColumnCounts : rows = 1 .. m /\ cols = 1 .. n
  BY DEF Init
<1>2. /\ m \in Nat \ {0} /\ n \in Nat \ {0}
      /\ IsFiniteSet(rows) /\ IsFiniteSet(cols) /\ 1 \in rows /\ 1 \in cols
  BY <1>1, FS_Interval
<1>3. TypeInv
  BY <1>2 DEF Init, TypeInv
<1>4. ZeroInv
  BY DEF Init, ZeroInv, OneToOne
<1>5. LineInv /\ PrimeInv
  BY DEF Init, LineInv, PrimeInv, StarRows, StarCols
<1>6. PathInv
  <2> DEFINE rank == [r \in rows |-> 0]
  <2>1. rank \in [rows -> Nat]
    OBVIOUS
  <2>2. Descends(rank)
    BY DEF Descends, Init
  <2> QED  BY <2>1, <2>2 DEF PathInv, Init
<1>7. PotentialInv
  <2> DEFINE a == [r \in rows |-> 0]  b == [c \in cols |-> 0]
  <2>1. a \in [rows -> Int] /\ b \in [cols -> Int]
    OBVIOUS
  <2>2. Potentials(a, b)
    <3>1. \A p \in Cells : /\ distMatrixIn[p] \in Int
                           /\ distMatrix[p] = distMatrixIn[p]
                           /\ a[p[1]] = 0 /\ b[p[2]] = 0
      BY <1>3, CellLines DEF Init, TypeInv
    <3>2. (\A r \in rows : a[r] = 0) /\ (\A c \in cols : b[c] = 0)
      OBVIOUS
    <3> HIDE DEF a, b
    <3> QED  BY <3>1, <3>2 DEF Potentials
  <2> QED  BY <2>1, <2>2 DEF PotentialInv
<1> QED  BY <1>3, <1>4, <1>5, <1>6, <1>7 DEF IInv

(* The smallest elements of the lines are the first potentials.            *)
LEMMA ReduceIInv == ASSUME IInv, Reduce PROVE IInv'
<1> USE DEF IInv
<1> DEFINE rowMin(r) == Min({distMatrixIn[r, c] : c \in cols})
           colMin(c) == Min({distMatrixIn[r, c] : r \in rows})
           byRows == Cardinality(rows) <= Cardinality(cols)
<1>1. UNCHANGED <<rows, cols, distMatrixIn, starMatrix, primeMatrix,
                  newStarMatrix, coveredRows, coveredColumns, starCol>>
  BY DEF Reduce, input, lines
<1>2. starMatrix = {} /\ primeMatrix = {} /\ coveredRows = {}
      /\ coveredColumns = {} /\ pc = "reduce" /\ pc' = "star"
  BY DEF Reduce, ZeroInv, LineInv, StarCols
<1>3. ASSUME NEW r \in rows, NEW c \in cols
      PROVE  rowMin(r) \in Int /\ rowMin(r) <= distMatrixIn[r, c]
  <2> DEFINE f == [d \in cols |-> distMatrixIn[r, d]]
  <2>1. \A d \in cols : f[d] \in Int
    <3>1. \A d \in cols : <<r, d>> \in Cells
      BY DEF Cells
    <3> QED  BY <3>1 DEF TypeInv
  <2>2. {f[d] : d \in cols} = {distMatrixIn[r, d] : d \in cols}
    OBVIOUS
  <2>3. /\ Min({f[d] : d \in cols}) \in Int
        /\ Min({f[d] : d \in cols}) <= f[c]
    <3> HIDE DEF f
    <3> QED  BY <2>1, MinOfValues DEF TypeInv
  <2> QED  BY <2>2, <2>3
<1>4. ASSUME NEW r \in rows, NEW c \in cols
      PROVE  colMin(c) \in Int /\ colMin(c) <= distMatrixIn[r, c]
  <2> DEFINE f == [d \in rows |-> distMatrixIn[d, c]]
  <2>1. \A d \in rows : f[d] \in Int
    <3>1. \A d \in rows : <<d, c>> \in Cells
      BY DEF Cells
    <3> QED  BY <3>1 DEF TypeInv
  <2>2. {f[d] : d \in rows} = {distMatrixIn[d, c] : d \in rows}
    OBVIOUS
  <2>3. /\ Min({f[d] : d \in rows}) \in Int
        /\ Min({f[d] : d \in rows}) <= f[r]
    <3> HIDE DEF f
    <3> QED  BY <2>1, MinOfValues DEF TypeInv
  <2> QED  BY <2>2, <2>3
<1>5. /\ distMatrix' \in [Cells -> Int]
      /\ \A p \in Cells :
           /\ distMatrix'[p] =
                distMatrixIn[p] - IF byRows THEN rowMin(p[1]) ELSE colMin(p[2])
           /\ 0 <= distMatrix'[p]
  <2>1. distMatrix' = [p \in Cells |-> distMatrixIn[p] - IF byRows THEN rowMin(p[1])
                                                         ELSE colMin(p[2])]
    BY DEF Reduce, Reduced
  <2> HIDE DEF rowMin, colMin, byRows
  <2>2. \A p \in Cells :
          /\ distMatrixIn[p] \in Int
          /\ rowMin(p[1]) \in Int /\ rowMin(p[1]) <= distMatrixIn[p]
          /\ colMin(p[2]) \in Int /\ colMin(p[2]) <= distMatrixIn[p]
    BY <1>3, <1>4, CellLines DEF TypeInv
  <2> QED  BY <2>1, <2>2
<1> HIDE DEF rowMin, colMin
<1>6. TypeInv'
  BY <1>1, <1>2, <1>5 DEF TypeInv, Cells
<1>7. ZeroInv'
  BY <1>1, <1>2, <1>5 DEF ZeroInv, Cells
<1>8. LineInv' /\ PrimeInv'
  BY <1>1, <1>2 DEF LineInv, PrimeInv, StarRows, StarCols
<1>9. PathInv'
  BY <1>1, <1>2 DEF PathInv, Descends
<1>10. PotentialInv'
  <2> HIDE DEF byRows
  <2>1. \A r \in rows, c \in cols : rowMin(r) \in Int /\ colMin(c) \in Int
    BY <1>3, <1>4
  <2>2. (\A r \in rows : rowMin(r) \in Int) /\ (\A c \in cols : colMin(c) \in Int)
    BY <2>1 DEF TypeInv
  <2>3. PICK a \in [rows -> Int] :
          \A r \in rows : a[r] = IF byRows THEN rowMin(r) ELSE 0
    <3> DEFINE f == [r \in rows |-> IF byRows THEN rowMin(r) ELSE 0]
    <3> QED  BY <2>2, f \in [rows -> Int]
  <2>4. PICK b \in [cols -> Int] :
          \A c \in cols : b[c] = IF byRows THEN 0 ELSE colMin(c)
    <3> DEFINE f == [c \in cols |-> IF byRows THEN 0 ELSE colMin(c)]
    <3> QED  BY <2>2, f \in [cols -> Int]
  <2>5. ASSUME NEW p \in Cells
        PROVE  distMatrixIn[p] = distMatrix'[p] + a[p[1]] + b[p[2]]
    <3>1. p[1] \in rows /\ p[2] \in cols /\ distMatrixIn[p] \in Int
      BY CellLines DEF TypeInv
    <3> QED  BY <1>5, <2>2, <2>3, <2>4, <3>1
  <2>6. IF byRows THEN \A c \in cols : b[c] = 0 ELSE \A r \in rows : a[r] = 0
    BY <2>3, <2>4
  <2>7. Potentials(a, b)'
    BY <1>1, <2>5, <2>6 DEF Potentials, Cells, StarRows, StarCols, byRows
  <2> QED  BY <1>1, <2>7 DEF PotentialInv
<1> QED  BY <1>6, <1>7, <1>8, <1>9, <1>10

(* A zero is starred when its lines have no star, and its column covered.  *)
LEMMA StarZeroIInv == ASSUME IInv, StarZero PROVE IInv'
<1> USE DEF IInv
<1>1. PICK p \in Starrable :
        /\ starMatrix' = starMatrix \union {p}
        /\ coveredColumns' = coveredColumns \union {p[2]}
  BY DEF StarZero
<1>2. UNCHANGED <<pc, rows, cols, distMatrixIn, distMatrix, primeMatrix,
                  newStarMatrix, coveredRows, starCol>> /\ pc = "star"
  BY DEF StarZero, input
<1>3. /\ p \in Cells /\ distMatrix[p] = 0 /\ p[1] \in rows /\ p[2] \in cols
      /\ \A q \in starMatrix : q[1] # p[1] /\ q[2] # p[2]
      /\ primeMatrix = {} /\ coveredRows = {}
  BY <1>2, CellLines DEF Starrable, LineInv
<1>4. TypeInv'
  BY <1>1, <1>2, <1>3 DEF TypeInv, Cells
<1>5. ZeroInv'
  BY <1>1, <1>2, <1>3 DEF ZeroInv, OneToOne, Cells
<1>6. LineInv'
  BY <1>1, <1>2, <1>3 DEF LineInv, StarCols, StarRows
<1>7. PrimeInv'
  BY <1>2, <1>3 DEF PrimeInv
<1>8. PathInv'
  BY <1>2, <1>3 DEF PathInv, Descends
<1>9. PotentialInv'
  BY <1>1, <1>2 DEF PotentialInv, Potentials, Cells, StarRows, StarCols
<1> QED  BY <1>4, <1>5, <1>6, <1>7, <1>8, <1>9

(* Without a zero to star the columns of the stars are covered.            *)
LEMMA StarsDoneIInv == ASSUME IInv, StarsDone PROVE IInv'
<1> USE DEF IInv
<1>1. UNCHANGED <<rows, cols, distMatrixIn, distMatrix, starMatrix, primeMatrix,
                  newStarMatrix, coveredRows, coveredColumns, starCol>>
      /\ pc = "star" /\ pc' = "step2b"
  BY DEF StarsDone, input, lines
<1>2. TypeInv' /\ ZeroInv'
  BY <1>1 DEF TypeInv, ZeroInv, OneToOne, Cells
<1>3. LineInv' /\ PrimeInv'
  BY <1>1 DEF LineInv, PrimeInv, StarRows, StarCols
<1>4. PathInv'
  BY <1>1 DEF PathInv, Descends
<1>5. PotentialInv'
  BY <1>1 DEF PotentialInv, Potentials, Cells, StarRows, StarCols
<1> QED  BY <1>2, <1>3, <1>4, <1>5

(* step2a covers the columns of the stars step4 has left.                  *)
LEMMA Step2aIInv == ASSUME IInv, Step2a PROVE IInv'
<1> USE DEF IInv
<1>1. UNCHANGED <<rows, cols, distMatrixIn, distMatrix, starMatrix, primeMatrix,
                  newStarMatrix, coveredRows, starCol>>
      /\ pc = "step2a" /\ pc' = "step2b"
  BY DEF Step2a, input
<1>2. /\ coveredColumns' = StarCols /\ StarCols \subseteq cols
      /\ primeMatrix = {} /\ coveredRows = {}
  BY <1>1, CellLines DEF Step2a, LineInv, StarCols, TypeInv
<1>3. TypeInv' /\ ZeroInv'
  BY <1>1, <1>2 DEF TypeInv, ZeroInv, OneToOne, Cells
<1>4. LineInv'
  BY <1>1, <1>2 DEF LineInv, StarRows, StarCols
<1>5. PrimeInv' /\ PathInv'
  BY <1>1, <1>2 DEF PrimeInv, PathInv, Descends
<1>6. PotentialInv'
  BY <1>1 DEF PotentialInv, Potentials, Cells, StarRows, StarCols
<1> QED  BY <1>3, <1>4, <1>5, <1>6

(* At step2b the covered columns are those of the stars, so their number   *)
(* is that of the stars.                                                   *)
LEMMA Step2bIInv == ASSUME IInv, Step2b PROVE IInv'
<1> USE DEF IInv
<1>1. UNCHANGED <<rows, cols, distMatrixIn, distMatrix, starMatrix, primeMatrix,
                  newStarMatrix, coveredRows, coveredColumns, starCol>>
      /\ pc = "step2b"
      /\ pc' = IF Cardinality(coveredColumns) = minDim THEN "done" ELSE "step3"
  BY DEF Step2b, input, lines
<1>2. coveredColumns = StarCols /\ primeMatrix = {} /\ coveredRows = {}
  BY <1>1 DEF LineInv, StarCols
<1>3. TypeInv' /\ ZeroInv'
  BY <1>1 DEF TypeInv, ZeroInv, OneToOne, Cells
<1>4. LineInv'
  <2>1. StarCols' = StarCols /\ StarRows' = StarRows /\ minDim' = minDim
    BY <1>1 DEF StarCols, StarRows, minDim
  <2> QED  BY <1>1, <1>2, <2>1 DEF LineInv
<1>5. PrimeInv' /\ PathInv'
  BY <1>1, <1>2 DEF PrimeInv, PathInv, Descends
<1>6. PotentialInv'
  BY <1>1 DEF PotentialInv, Potentials, Cells, StarRows, StarCols
<1> QED  BY <1>3, <1>4, <1>5, <1>6

(* Without an uncovered zero the search waits for step5 to make one.       *)
LEMMA Step3NoZeroIInv == ASSUME IInv, Step3NoZero PROVE IInv'
<1> USE DEF IInv
<1>1. UNCHANGED <<rows, cols, distMatrixIn, distMatrix, starMatrix, primeMatrix,
                  newStarMatrix, coveredRows, coveredColumns, starCol>>
      /\ pc = "step3" /\ pc' = "step5"
  BY DEF Step3NoZero, input, lines
<1>2. TypeInv' /\ ZeroInv'
  BY <1>1 DEF TypeInv, ZeroInv, OneToOne, Cells
<1>3. LineInv' /\ PrimeInv'
  BY <1>1 DEF LineInv, PrimeInv, StarRows, StarCols, minDim
<1>4. PathInv'
  BY <1>1 DEF PathInv, Descends
<1>5. PotentialInv'
  BY <1>1 DEF PotentialInv, Potentials, Cells, StarRows, StarCols
<1> QED  BY <1>2, <1>3, <1>4, <1>5

(* A primed zero whose row has a star: the row is covered in place of the  *)
(* star's column, and comes last in the order.                             *)
LEMMA Step3CoverIInv == ASSUME IInv, Step3Cover PROVE IInv'
<1> USE DEF IInv
<1>0. PICK p \in ZerosLeft : \E q \in StarsInRow(p[1]) :
        /\ primeMatrix' = primeMatrix \union {p}
        /\ coveredRows' = coveredRows \union {p[1]}
        /\ coveredColumns' = coveredColumns \ {q[2]}
  BY DEF Step3Cover
<1>1. PICK q \in StarsInRow(p[1]) :
        /\ primeMatrix' = primeMatrix \union {p}
        /\ coveredRows' = coveredRows \union {p[1]}
        /\ coveredColumns' = coveredColumns \ {q[2]}
  BY <1>0
<1>2. UNCHANGED <<pc, rows, cols, distMatrixIn, distMatrix, starMatrix,
                  newStarMatrix, starCol>> /\ pc = "step3"
  BY DEF Step3Cover, input
<1>3. /\ p \in Cells /\ distMatrix[p] = 0 /\ p[1] \in rows /\ p[2] \in cols
      /\ p[1] \notin coveredRows /\ p[2] \notin coveredColumns
      /\ q \in starMatrix /\ q[1] = p[1] /\ q \in Cells
  <2>1. p \in Uncovered /\ distMatrix[p] = 0 /\ q \in starMatrix /\ q[1] = p[1]
    BY DEF ZerosLeft, StarsInRow
  <2>2. p \in Cells /\ p[1] \notin coveredRows /\ p[2] \notin coveredColumns
    BY <2>1 DEF Uncovered, Cells
  <2> QED  BY <2>1, <2>2, CellLines DEF TypeInv
<1>4. q[2] \in coveredColumns
  BY <1>2, <1>3 DEF LineInv
<1>5. TypeInv'
  BY <1>1, <1>2, <1>3 DEF TypeInv, Cells
<1>6. ZeroInv'
  <2>1. p \notin starMatrix
    BY <1>2, <1>3 DEF LineInv
  <2> QED  BY <1>1, <1>2, <1>3, <2>1 DEF ZeroInv, OneToOne, Cells
<1>7. LineInv'
  <2>1. ASSUME NEW t \in starMatrix
        PROVE  t[1] \in coveredRows' <=> t[2] \notin coveredColumns'
    <3>1. /\ t[1] = q[1] <=> t[2] = q[2]
          /\ t[1] \in coveredRows <=> t[2] \notin coveredColumns
      BY <1>2, <1>3 DEF ZeroInv, OneToOne, LineInv
    <3> QED  BY <1>1, <1>3, <1>4, <3>1
  <2>2. coveredColumns' \subseteq StarCols /\ coveredRows' \subseteq StarRows
    BY <1>1, <1>3 DEF LineInv, StarRows, StarCols
  <2>3. StarCols' = StarCols /\ StarRows' = StarRows /\ minDim' = minDim
    BY <1>2 DEF StarCols, StarRows, minDim
  <2> QED  BY <1>2, <2>1, <2>2, <2>3 DEF LineInv
<1>8. PrimeInv'
  <2>1. \A t \in primeMatrix : t[1] \in coveredRows /\ t[2] \notin coveredColumns
    BY <1>2 DEF PrimeInv
  <2>2. \A t \in primeMatrix' : t[1] \in coveredRows' /\ t[2] \notin coveredColumns'
    BY <1>1, <1>3, <2>1
  <2>3. \A t, u \in primeMatrix' : t[1] = u[1] => t = u
    BY <1>1, <1>3, <2>1 DEF PrimeInv
  <2>4. \A r \in coveredRows' : \E t \in primeMatrix' : t[1] = r
    BY <1>1 DEF PrimeInv
  <2> QED  BY <2>2, <2>3, <2>4 DEF PrimeInv
<1>9. PathInv'
  <2>1. PICK rank \in [rows -> Nat], n \in Nat :
          (\A r \in coveredRows : rank[r] < n) /\ Descends(rank)
    BY DEF PathInv
  <2>2. PICK rk \in [rows -> Nat] :
          rk[p[1]] = n /\ \A r \in coveredRows : rk[r] = rank[r]
    <3> DEFINE f == [rank EXCEPT ![p[1]] = n]
    <3>1. f \in [rows -> Nat] /\ f[p[1]] = n
      BY <1>3
    <3>2. \A r \in coveredRows : r \in rows /\ r # p[1]
      BY <1>3 DEF TypeInv
    <3>3. \A r \in coveredRows : f[r] = rank[r]
      BY <3>2
    <3> QED  BY <3>1, <3>3
  <2>3. \A r \in coveredRows' : rk[r] < n + 1
    BY <1>1, <2>1, <2>2 DEF TypeInv
  <2>4. Descends(rk)'
    <3>1. ASSUME NEW t \in primeMatrix', NEW u \in starMatrix, u[2] = t[2]
          PROVE  u[1] \in coveredRows' /\ rk[u[1]] < rk[t[1]]
      <4>1. CASE t = p
        <5>1. u[1] \in coveredRows
          BY <1>2, <1>3, <3>1, <4>1 DEF LineInv
        <5> QED  BY <1>1, <2>1, <2>2, <4>1, <5>1
      <4>2. CASE t \in primeMatrix
        <5>1. t[1] \in coveredRows
          BY <1>2, <4>2 DEF PrimeInv
        <5>2. u[1] \in coveredRows /\ rank[u[1]] < rank[t[1]]
          BY <2>1, <3>1, <4>2 DEF Descends
        <5> QED  BY <1>1, <2>2, <5>1, <5>2
      <4> QED  BY <1>1, <4>1, <4>2
    <3> QED  BY <1>2, <3>1 DEF Descends
  <2>5. n + 1 \in Nat
    OBVIOUS
  <2> QED  BY <1>2, <2>3, <2>4, <2>5 DEF PathInv
<1>10. PotentialInv'
  BY <1>2 DEF PotentialInv, Potentials, Cells, StarRows, StarCols
<1> QED  BY <1>5, <1>6, <1>7, <1>8, <1>9, <1>10

(* A primed zero whose row has no star: the path begins at it.             *)
LEMMA Step3PathIInv == ASSUME IInv, Step3Path PROVE IInv'
<1> USE DEF IInv
<1>1. PICK p \in ZerosLeft :
        /\ StarsInRow(p[1]) = {}
        /\ primeMatrix' = primeMatrix \union {p}
        /\ newStarMatrix' = starMatrix \union {p}
        /\ starCol' = p[2]
  BY DEF Step3Path
<1>2. UNCHANGED <<rows, cols, distMatrixIn, distMatrix, starMatrix,
                  coveredRows, coveredColumns>> /\ pc = "step3" /\ pc' = "step4"
  BY DEF Step3Path, input, lines
<1>3. /\ p \in Cells /\ distMatrix[p] = 0 /\ p[1] \in rows /\ p[2] \in cols
      /\ p[1] \notin coveredRows /\ p[2] \notin coveredColumns
      /\ \A q \in starMatrix : q[1] # p[1]
  <2>1. p \in Uncovered /\ distMatrix[p] = 0
    BY DEF ZerosLeft
  <2>2. p \in Cells /\ p[1] \notin coveredRows /\ p[2] \notin coveredColumns
    BY <2>1 DEF Uncovered, Cells
  <2> QED  BY <1>1, <2>1, <2>2, CellLines DEF StarsInRow
<1>4. TypeInv'
  BY <1>1, <1>2, <1>3 DEF TypeInv, Cells
<1>5. ZeroInv'
  BY <1>1, <1>2, <1>3 DEF ZeroInv, OneToOne, Cells
<1>6. LineInv'
  <2>1. StarCols' = StarCols /\ StarRows' = StarRows /\ minDim' = minDim
    BY <1>2 DEF StarCols, StarRows, minDim
  <2> QED  BY <1>2, <2>1 DEF LineInv
<1>7. PrimeInv'
  <2>1. \A t \in primeMatrix : t[1] \in coveredRows
    BY <1>2 DEF PrimeInv
  <2>2. \A t \in primeMatrix' : t[2] \notin coveredColumns'
    BY <1>1, <1>2, <1>3 DEF PrimeInv
  <2>3. \A t, u \in primeMatrix' : t[1] = u[1] => t = u
    BY <1>1, <1>3, <2>1 DEF PrimeInv
  <2>4. \A r \in coveredRows' : \E t \in primeMatrix' : t[1] = r
    BY <1>1, <1>2 DEF PrimeInv
  <2> QED  BY <1>2, <2>2, <2>3, <2>4 DEF PrimeInv
<1>8. PathInv'
  <2>1. PICK rank \in [rows -> Nat], n \in Nat :
          (\A r \in coveredRows : rank[r] < n) /\ Descends(rank)
    BY DEF PathInv
  <2>2. PICK rk \in [rows -> Nat] :
          rk[p[1]] = n /\ \A r \in coveredRows : rk[r] = rank[r]
    <3> DEFINE f == [rank EXCEPT ![p[1]] = n]
    <3>1. f \in [rows -> Nat] /\ f[p[1]] = n
      BY <1>3
    <3>2. \A r \in coveredRows : r \in rows /\ r # p[1]
      BY <1>3 DEF TypeInv
    <3>3. \A r \in coveredRows : f[r] = rank[r]
      BY <3>2
    <3> QED  BY <3>1, <3>3
  <2>3. \A r \in coveredRows' : rk[r] < n
    BY <1>2, <2>1, <2>2
  <2>4. Descends(rk)'
    <3>1. ASSUME NEW t \in primeMatrix', NEW u \in starMatrix, u[2] = t[2]
          PROVE  u[1] \in coveredRows /\ rk[u[1]] < rk[t[1]]
      <4>1. CASE t = p
        <5>1. u[1] \in coveredRows
          BY <1>2, <1>3, <3>1, <4>1 DEF LineInv
        <5> QED  BY <2>1, <2>2, <4>1, <5>1
      <4>2. CASE t \in primeMatrix
        <5>1. t[1] \in coveredRows
          BY <1>2, <4>2 DEF PrimeInv
        <5>2. u[1] \in coveredRows /\ rank[u[1]] < rank[t[1]]
          BY <2>1, <3>1, <4>2 DEF Descends
        <5> QED  BY <2>2, <5>1, <5>2
      <4> QED  BY <1>1, <4>1, <4>2
    <3> QED  BY <1>2, <3>1 DEF Descends
  <2>5. OnPath(rk, p)'
    <3>1. \A s, t \in starMatrix : s[1] = t[1] => s = t
      BY CellLines DEF ZeroInv, OneToOne, TypeInv
    <3>2. \A s, t \in starMatrix : s[2] = t[2] => s = t
      BY <3>1 DEF ZeroInv, OneToOne
    <3> QED  BY <1>1, <1>2, <1>3, <3>1, <3>2 DEF OnPath
  <2>6. p \in primeMatrix'
    BY <1>1
  <2> QED  BY <1>2, <2>3, <2>4, <2>5, <2>6 DEF PathInv
<1>9. PotentialInv'
  BY <1>2 DEF PotentialInv, Potentials, Cells, StarRows, StarCols
<1> QED  BY <1>4, <1>5, <1>6, <1>7, <1>8, <1>9

(* The star of the path's column gives way to the prime of its row, which  *)
(* the path has not met before.                                            *)
LEMMA Step4MoveIInv == ASSUME IInv, Step4Move PROVE IInv'
<1> USE DEF IInv
<1>0. PICK q \in starMatrix, p \in primeMatrix :
        /\ q[2] = starCol /\ p[1] = q[1]
        /\ newStarMatrix' = (newStarMatrix \ {q}) \union {p}
        /\ starCol' = p[2]
  BY DEF Step4Move
<1>1. UNCHANGED <<pc, rows, cols, distMatrixIn, distMatrix, starMatrix,
                  primeMatrix, coveredRows, coveredColumns>> /\ pc = "step4"
  BY DEF Step4Move, input, lines
<1>2. TypeInv'
  BY <1>0, <1>1 DEF TypeInv, Cells
<1>3. ZeroInv'
  BY <1>1 DEF ZeroInv, OneToOne, Cells
<1>4. LineInv' /\ PrimeInv'
  BY <1>1 DEF LineInv, PrimeInv, StarCols, StarRows, minDim
<1>5. PathInv'
  <2>1. PICK rank \in [rows -> Nat], n \in Nat :
          /\ \A r \in coveredRows : rank[r] < n
          /\ Descends(rank)
          /\ \E last \in primeMatrix : OnPath(rank, last)
    BY <1>1 DEF PathInv
  <2>2. PICK last \in primeMatrix : OnPath(rank, last)
    BY <2>1
  <2>3. /\ \A s, t \in starMatrix : s[2] = t[2] => s = t
        /\ \A t \in starMatrix \union primeMatrix \union newStarMatrix :
             t[1] \in rows /\ rank[t[1]] \in Nat
        /\ p \notin starMatrix /\ last \notin starMatrix
    BY CellLines DEF ZeroInv, OneToOne, TypeInv
  <2>4. rank[q[1]] < rank[last[1]] /\ rank[p[1]] = rank[q[1]]
    BY <1>0, <2>1, <2>2 DEF Descends, OnPath
  <2>5. q \in newStarMatrix /\ q # last /\ last \in newStarMatrix'
    BY <1>0, <2>2, <2>3, <2>4 DEF OnPath
  <2>6. \A a \in newStarMatrix' : a = p \/ (a \in newStarMatrix /\ a # q)
    BY <1>0
  <2>7. p \in newStarMatrix' /\ p[2] = starCol'
    BY <1>0
  <2>8. newStarMatrix' \subseteq starMatrix \union primeMatrix
    BY <1>0, <2>2 DEF OnPath
  <2>9. \A a, b \in newStarMatrix' : a[1] = b[1] => a = b
    BY <1>0, <2>2, <2>5, <2>6 DEF OnPath
  <2>10. \A a, b \in newStarMatrix' : a[2] = b[2] => a = b \/ a = p \/ b = p
    <3>1. ASSUME NEW a \in newStarMatrix, a # q, a[2] = last[2] PROVE a = last
      BY <1>0, <2>2, <2>3, <3>1 DEF OnPath
    <3> QED  BY <2>2, <2>6, <3>1 DEF OnPath
  <2>11. ASSUME NEW a \in newStarMatrix', a[2] = p[2], a # p
         PROVE  a \in starMatrix
    <3> SUFFICES ASSUME a \notin starMatrix PROVE FALSE
      OBVIOUS
    <3>1. PICK t \in starMatrix : t[2] = a[2] /\ rank[q[1]] <= rank[t[1]]
      BY <1>0, <2>2, <2>3, <2>4, <2>6, <2>11 DEF OnPath
    <3>2. rank[t[1]] < rank[p[1]]
      BY <2>1, <2>11, <3>1 DEF Descends
    <3> QED  BY <2>3, <2>4, <3>1, <3>2
  <2>12. ASSUME NEW a \in newStarMatrix', a \notin starMatrix, a # p
         PROVE  \E t \in starMatrix : t[2] = a[2] /\ rank[p[1]] <= rank[t[1]]
    <3>1. CASE a = last
      BY <1>0, <2>2, <2>3, <2>4, <3>1 DEF OnPath
    <3>2. CASE a # last
      <4>1. PICK t \in starMatrix : t[2] = a[2] /\ rank[last[1]] <= rank[t[1]]
        BY <2>2, <2>6, <2>12, <3>2 DEF OnPath
      <4> QED  BY <2>3, <2>4, <4>1
    <3> QED  BY <3>1, <3>2
  <2>13. ASSUME NEW t \in starMatrix, t \notin newStarMatrix'
         PROVE  rank[p[1]] <= rank[t[1]]
    <3>1. t = q \/ t \notin newStarMatrix
      BY <1>0, <2>13
    <3>2. t \notin newStarMatrix => rank[last[1]] <= rank[t[1]]
      BY <2>2 DEF OnPath
    <3> QED  BY <2>3, <2>4, <3>1, <3>2
  <2>14. ASSUME NEW t \in starMatrix
         PROVE  /\ \E a \in newStarMatrix' : a[1] = t[1]
                /\ \E a \in newStarMatrix' : a[2] = t[2]
    <3>1. PICK a \in newStarMatrix, b \in newStarMatrix :
            a[1] = t[1] /\ b[2] = t[2]
      BY <2>2 DEF OnPath
    <3>2. a # q => a \in newStarMatrix'
      BY <1>0
    <3>3. b # q => b \in newStarMatrix'
      BY <1>0
    <3>4. last[2] = q[2]
      BY <1>0, <2>2 DEF OnPath
    <3> QED  BY <1>0, <2>5, <2>7, <3>1, <3>2, <3>3, <3>4
  <2>15. OnPath(rank, p)'
    BY <1>1, <2>7, <2>8, <2>9, <2>10, <2>11, <2>12, <2>13, <2>14 DEF OnPath
  <2> QED  BY <1>1, <2>1, <2>15 DEF PathInv, Descends
<1>6. PotentialInv'
  BY <1>1 DEF PotentialInv, Potentials, Cells, StarRows, StarCols
<1> QED  BY <1>2, <1>3, <1>4, <1>5, <1>6

(* At its end the path's column has no star: the new stars are one to one, *)
(* on every line the old ones were on.                                     *)
LEMMA Step4EndIInv == ASSUME IInv, Step4End PROVE IInv'
<1> USE DEF IInv
<1>1. /\ UNCHANGED <<rows, cols, distMatrixIn, distMatrix, newStarMatrix,
                     coveredColumns, starCol>>
      /\ pc = "step4" /\ pc' = "step2a" /\ starMatrix' = newStarMatrix
      /\ primeMatrix' = {} /\ coveredRows' = {}
      /\ \A q \in starMatrix : q[2] # starCol
  BY DEF Step4End, PathGoesOn, input
<1>2. PICK rank \in [rows -> Nat], last \in primeMatrix : OnPath(rank, last)
  BY <1>1 DEF PathInv
<1>3. TypeInv'
  BY <1>1 DEF TypeInv, Cells
<1>4. ZeroInv'
  <2>1. \A a, b \in newStarMatrix : a[1] = b[1] => a = b
    BY <1>2 DEF OnPath
  <2>2. \A a \in newStarMatrix : a[2] = last[2] => a = last
    BY <1>1, <1>2 DEF OnPath
  <2>3. \A a, b \in newStarMatrix : a[2] = b[2] => a = b
    BY <1>2, <2>2 DEF OnPath
  <2>4. \A a \in newStarMatrix : distMatrix[a] = 0
    BY <1>2 DEF OnPath, ZeroInv
  <2> QED  BY <1>1, <2>1, <2>3, <2>4 DEF ZeroInv, OneToOne, Cells
<1>5. StarCols \subseteq StarCols' /\ StarRows \subseteq StarRows'
  BY <1>1, <1>2 DEF OnPath, StarCols, StarRows
<1>6. LineInv' /\ PrimeInv'
  BY <1>1, <1>5 DEF LineInv, PrimeInv
<1>7. PathInv'
  <2>1. PICK n \in Nat : TRUE
    OBVIOUS
  <2> QED  BY <1>1, <1>2, <2>1 DEF PathInv, Descends
<1>8. PotentialInv'
  BY <1>1, <1>5 DEF PotentialInv, Potentials, Cells
<1> QED  BY <1>3, <1>4, <1>6, <1>7, <1>8

(* In step5 a row and a column are left without a line: the stars are      *)
(* fewer than the lines of the shorter side.                               *)
LEMMA UncoveredLeft ==
  ASSUME IInv, pc = "step5"
  PROVE  Uncovered # {} /\ Uncovered \subseteq Cells /\ IsFiniteSet(Uncovered)
<1> USE DEF IInv
<1>1. StarRows # rows /\ StarCols # cols /\ StarRows \subseteq rows
      /\ StarCols \subseteq cols
  BY StarLines DEF LineInv, ZeroInv
<1>2. coveredRows \subseteq StarRows /\ coveredColumns \subseteq StarCols
  BY DEF LineInv
<1>3. PICK r \in rows \ coveredRows, c \in cols \ coveredColumns : TRUE
  BY <1>1, <1>2
<1>4. <<r, c>> \in Uncovered
  BY <1>3 DEF Uncovered
<1>5. Uncovered \subseteq Cells
  BY DEF Uncovered, Cells
<1> QED  BY <1>4, <1>5, CellLines, FS_Subset

(* The smallest uncovered element goes from the uncovered columns to the   *)
(* covered rows: no element becomes negative, the stars and the primes     *)
(* stay zeros, and the potentials of the lines take the difference.        *)
LEMMA Step5IInv == ASSUME IInv, Step5 PROVE IInv'
<1> USE DEF IInv
<1> DEFINE h == Min({distMatrix[p] : p \in Uncovered})
<1>1. UNCHANGED <<rows, cols, distMatrixIn, starMatrix, primeMatrix,
                  newStarMatrix, coveredRows, coveredColumns, starCol>>
      /\ pc = "step5" /\ pc' = "step3"
  BY DEF Step5, input, lines
<1>2. /\ h \in Int /\ 0 <= h
      /\ \A p \in Cells : p[1] \notin coveredRows /\ p[2] \notin coveredColumns
                            => h <= distMatrix[p]
  <2>1. /\ Uncovered # {} /\ Uncovered \subseteq Cells /\ IsFiniteSet(Uncovered)
        /\ \A p \in Uncovered : distMatrix[p] \in Int
    BY <1>1, UncoveredLeft DEF TypeInv
  <2>2. /\ h \in Int
        /\ \E p \in Uncovered : h = distMatrix[p]
        /\ \A p \in Uncovered : h <= distMatrix[p]
    BY <2>1, MinOfValues
  <2>3. ASSUME NEW p \in Cells,
               p[1] \notin coveredRows, p[2] \notin coveredColumns
        PROVE  p \in Uncovered
    BY <2>3, CellLines DEF Uncovered
  <2> HIDE DEF h
  <2>4. 0 <= h
    BY <1>1, <2>1, <2>2 DEF ZeroInv
  <2> QED  BY <2>2, <2>3, <2>4
<1>3. distMatrix' = [p \in Cells |-> distMatrix[p]
          + (IF p[1] \in coveredRows THEN h ELSE 0)
          - (IF p[2] \in coveredColumns THEN 0 ELSE h)]
  BY DEF Step5
<1> HIDE DEF h
<1>4. ASSUME NEW p \in Cells
      PROVE  /\ distMatrix[p] \in Int /\ distMatrix'[p] \in Int
             /\ distMatrix'[p] = distMatrix[p]
                  + (IF p[1] \in coveredRows THEN h ELSE 0)
                  - (IF p[2] \in coveredColumns THEN 0 ELSE h)
             /\ 0 <= distMatrix'[p]
  <2>1. distMatrix[p] \in Int /\ 0 <= distMatrix[p]
    BY <1>1 DEF TypeInv, ZeroInv
  <2> QED  BY <1>2, <1>3, <2>1
<1>5. distMatrix' \in [Cells -> Int]
  BY <1>3, <1>4
<1>6. TypeInv'
  BY <1>1, <1>5 DEF TypeInv, Cells
<1>7. ZeroInv'
  <2>1. ASSUME NEW p \in starMatrix \union primeMatrix PROVE distMatrix'[p] = 0
    <3>1. p \in Cells /\ distMatrix[p] = 0
      BY DEF TypeInv, ZeroInv
    <3>2. p[1] \in coveredRows <=> p[2] \notin coveredColumns
      BY <1>1 DEF LineInv, PrimeInv
    <3> QED  BY <1>2, <1>4, <3>1, <3>2
  <2> QED  BY <1>1, <1>4, <2>1 DEF ZeroInv, OneToOne, Cells
<1>8. LineInv' /\ PrimeInv'
  BY <1>1 DEF LineInv, PrimeInv, StarCols, StarRows, minDim
<1>9. PathInv'
  BY <1>1 DEF PathInv, Descends
<1>10. PotentialInv'
  <2>1. PICK a \in [rows -> Int], b \in [cols -> Int] : Potentials(a, b)
    BY DEF PotentialInv
  <2>2. coveredRows \subseteq StarRows /\ coveredColumns \subseteq StarCols
    BY DEF LineInv
  <2>3. CASE Cardinality(rows) <= Cardinality(cols)
    <3>1. PICK x \in [rows -> Int] :
            \A r \in rows : x[r] = a[r] + IF r \in coveredRows THEN 0 ELSE h
      <4> DEFINE f == [r \in rows |-> a[r] + IF r \in coveredRows THEN 0 ELSE h]
      <4> QED  BY <1>2, f \in [rows -> Int]
    <3>2. PICK y \in [cols -> Int] :
            \A c \in cols : y[c] = b[c] - IF c \in coveredColumns THEN h ELSE 0
      <4> DEFINE f == [c \in cols |-> b[c] - IF c \in coveredColumns THEN h ELSE 0]
      <4> QED  BY <1>2, f \in [cols -> Int]
    <3>3. ASSUME NEW p \in Cells
          PROVE  distMatrixIn[p] = distMatrix'[p] + x[p[1]] + y[p[2]]
      <4>1. p[1] \in rows /\ p[2] \in cols
        BY CellLines
      <4>2. distMatrixIn[p] = distMatrix[p] + a[p[1]] + b[p[2]]
        BY <2>1 DEF Potentials
      <4>3. a[p[1]] \in Int /\ b[p[2]] \in Int
        BY <4>1
      <4> QED  BY <1>2, <1>4, <3>1, <3>2, <4>1, <4>2, <4>3
    <3>4. ASSUME NEW c \in cols
          PROVE  y[c] <= 0 /\ (c \notin StarCols => y[c] = 0)
      BY <1>2, <2>1, <2>2, <2>3, <3>2 DEF Potentials
    <3>5. Potentials(x, y)'
      BY <1>1, <2>3, <3>3, <3>4 DEF Potentials, Cells, StarCols
    <3> QED  BY <1>1, <3>5 DEF PotentialInv
  <2>4. CASE ~(Cardinality(rows) <= Cardinality(cols))
    <3>1. PICK x \in [rows -> Int] :
            \A r \in rows : x[r] = a[r] - IF r \in coveredRows THEN h ELSE 0
      <4> DEFINE f == [r \in rows |-> a[r] - IF r \in coveredRows THEN h ELSE 0]
      <4> QED  BY <1>2, f \in [rows -> Int]
    <3>2. PICK y \in [cols -> Int] :
            \A c \in cols : y[c] = b[c] + IF c \in coveredColumns THEN 0 ELSE h
      <4> DEFINE f == [c \in cols |-> b[c] + IF c \in coveredColumns THEN 0 ELSE h]
      <4> QED  BY <1>2, f \in [cols -> Int]
    <3>3. ASSUME NEW p \in Cells
          PROVE  distMatrixIn[p] = distMatrix'[p] + x[p[1]] + y[p[2]]
      <4>1. p[1] \in rows /\ p[2] \in cols
        BY CellLines
      <4>2. distMatrixIn[p] = distMatrix[p] + a[p[1]] + b[p[2]]
        BY <2>1 DEF Potentials
      <4>3. a[p[1]] \in Int /\ b[p[2]] \in Int
        BY <4>1
      <4> QED  BY <1>2, <1>4, <3>1, <3>2, <4>1, <4>2, <4>3
    <3>4. ASSUME NEW r \in rows
          PROVE  x[r] <= 0 /\ (r \notin StarRows => x[r] = 0)
      BY <1>2, <2>1, <2>2, <2>4, <3>1 DEF Potentials
    <3>5. Potentials(x, y)'
      BY <1>1, <2>4, <3>3, <3>4 DEF Potentials, Cells, StarRows
    <3> QED  BY <1>1, <3>5 DEF PotentialInv
  <2> QED  BY <2>3, <2>4
<1> QED  BY <1>6, <1>7, <1>8, <1>9, <1>10

(* Every step preserves the invariant, whichever function runs.            *)
LEMMA NextIInv == ASSUME IInv, [Next]_vars PROVE IInv'
<1>1. CASE Reduce
  BY <1>1, ReduceIInv
<1>2. CASE StarZero
  BY <1>2, StarZeroIInv
<1>3. CASE StarsDone
  BY <1>3, StarsDoneIInv
<1>4. CASE Step2a
  BY <1>4, Step2aIInv
<1>5. CASE Step2b
  BY <1>5, Step2bIInv
<1>6. CASE Step3Cover
  BY <1>6, Step3CoverIInv
<1>7. CASE Step3Path
  BY <1>7, Step3PathIInv
<1>8. CASE Step3NoZero
  BY <1>8, Step3NoZeroIInv
<1>9. CASE Step4Move
  BY <1>9, Step4MoveIInv
<1>10. CASE Step4End
  BY <1>10, Step4EndIInv
<1>11. CASE Step5
  BY <1>11, Step5IInv
<1>12. CASE UNCHANGED vars
  <2>1. UNCHANGED <<pc, rows, cols, distMatrixIn, distMatrix, starMatrix,
                    primeMatrix, newStarMatrix, coveredRows, coveredColumns,
                    starCol>>
    BY <1>12 DEF vars, input, lines
  <2> USE DEF Cells, StarRows, StarCols, minDim
  <2>2. TypeInv' /\ ZeroInv'
    BY <2>1 DEF IInv, TypeInv, ZeroInv, OneToOne
  <2>3. LineInv' /\ PrimeInv'
    BY <2>1 DEF IInv, LineInv, PrimeInv
  <2>4. PathInv'
    BY <2>1 DEF IInv, PathInv, Descends, OnPath
  <2>5. PotentialInv'
    BY <2>1 DEF IInv, PotentialInv, Potentials
  <2> QED  BY <2>2, <2>3, <2>4, <2>5 DEF IInv
<1> QED
  BY <1>1, <1>2, <1>3, <1>4, <1>5, <1>6, <1>7, <1>8, <1>9, <1>10, <1>11, <1>12
     DEF Next

(* The invariant holds in every state of every run.                        *)
LEMMA Invariance == Spec => []IInv
<1>1. IInv /\ [Next]_vars => IInv'
  BY NextIInv
<1> QED  BY InitIInv, <1>1, PTL DEF Spec

-----------------------------------------------------------------------------
(* What follows from the invariant.                                        *)

(* A star met on the path has one prime in its row, so step4 never writes  *)
(* past the matrix, and step5 finds a smallest uncovered element           *)
(* (hungarian.cpp:310-316, 344-352).                                       *)
THEOREM ScansAlwaysSucceed == Spec => []ScansSucceed
<1>1. ASSUME IInv PROVE ScansSucceed
  <2> USE <1>1 DEF IInv
  <2>1. ASSUME pc = "step4", NEW q \in starMatrix, q[2] = starCol
        PROVE  Cardinality({p \in primeMatrix : p[1] = q[1]}) = 1
    <3>1. PICK rank \in [rows -> Nat], last \in primeMatrix :
            Descends(rank) /\ OnPath(rank, last)
      BY <2>1 DEF PathInv
    <3>2. q[1] \in coveredRows
      BY <2>1, <3>1 DEF Descends, OnPath
    <3>3. PICK p \in primeMatrix : p[1] = q[1]
      BY <3>2 DEF PrimeInv
    <3>4. {t \in primeMatrix : t[1] = q[1]} = {p}
      BY <3>3 DEF PrimeInv
    <3> QED  BY <3>4, FS_Singleton
  <2>2. pc = "step5" => Uncovered # {}
    BY UncoveredLeft
  <2> QED  BY <2>1, <2>2 DEF ScansSucceed
<1> QED  BY Invariance, <1>1, PTL

(* The cost of cells that are one to one against the numbers of their      *)
(* lines: at least their total when no cell costs less than the numbers of *)
(* its two lines, and their total when every cell costs just that.         *)
LEMMA CostByLines ==
  ASSUME TypeInv, NEW a \in [rows -> Int], NEW b \in [cols -> Int],
         NEW A, IsTotal(A, rows, a), NEW B, IsTotal(B, cols, b),
         NEW M \in SUBSET Cells, OneToOne(M)
  PROVE  LET lineTotal == A[{q[1] : q \in M}] + B[{q[2] : q \in M}]
         IN  /\ CostOf(M) \in Int /\ lineTotal \in Int
             /\ (\A p \in M : a[p[1]] + b[p[2]] <= distMatrixIn[p])
                  => lineTotal <= CostOf(M)
             /\ (\A p \in M : a[p[1]] + b[p[2]] = distMatrixIn[p])
                  => lineTotal = CostOf(M)
<1> DEFINE R(T) == {q[1] : q \in T}
           C(T) == {q[2] : q \in T}
           w(p) == a[p[1]] + b[p[2]]
<1>1. IsFiniteSet(M) /\ \A p \in M : distMatrixIn[p] \in Int
  BY OneToOneLines DEF TypeInv
<1>2. PICK F : IsTotal(F, M, distMatrixIn)
  BY <1>1, TotalExists
<1>3. CostOf(M) = F[M]
  BY <1>1, <1>2, CostIsTotal
<1>4. \A p \in M : /\ p[1] \in rows /\ p[2] \in cols
                   /\ a[p[1]] \in Int /\ b[p[2]] \in Int
  BY CellLines
<1>5. ASSUME NEW T \in SUBSET M
      PROVE  /\ R(T) \in SUBSET rows /\ C(T) \in SUBSET cols
             /\ F[T] \in Int /\ A[R(T)] \in Int /\ B[C(T)] \in Int
  <2>1. R(T) \in SUBSET rows /\ C(T) \in SUBSET cols
    BY <1>4
  <2> HIDE DEF R, C
  <2> QED  BY <1>2, <2>1 DEF IsTotal
<1>6. ASSUME NEW T \in SUBSET M, NEW x \in T
      PROVE  /\ A[R(T)] = a[x[1]] + A[R(T \ {x})]
             /\ B[C(T)] = b[x[2]] + B[C(T \ {x})]
             /\ F[T] = distMatrixIn[x] + F[T \ {x}]
  <2>1. \A q \in T : (q[1] = x[1] \/ q[2] = x[2]) => q = x
    BY CellLines DEF OneToOne
  <2>2. R(T \ {x}) = R(T) \ {x[1]} /\ x[1] \in R(T)
    BY <2>1
  <2>3. C(T \ {x}) = C(T) \ {x[2]} /\ x[2] \in C(T)
    BY <2>1
  <2>4. R(T) \in SUBSET rows /\ C(T) \in SUBSET cols
    BY <1>5
  <2> HIDE DEF R, C
  <2>5. A[R(T)] = a[x[1]] + A[R(T) \ {x[1]}]
    BY <2>2, <2>4 DEF IsTotal
  <2>6. B[C(T)] = b[x[2]] + B[C(T) \ {x[2]}]
    BY <2>3, <2>4 DEF IsTotal
  <2>7. F[T] = distMatrixIn[x] + F[T \ {x}]
    BY <1>2 DEF IsTotal
  <2> QED  BY <2>2, <2>3, <2>5, <2>6, <2>7
<1> DEFINE Least(T) == (\A p \in M : w(p) <= distMatrixIn[p])
                         => A[R(T)] + B[C(T)] <= F[T]
           Same(T)  == (\A p \in M : w(p) = distMatrixIn[p])
                         => A[R(T)] + B[C(T)] = F[T]
           Bad == {T \in SUBSET M : ~(Least(T) /\ Same(T))}
<1>7. Bad = {}
  <2> SUFFICES ASSUME Bad # {} PROVE FALSE
    OBVIOUS
  <2>0. Bad \in SUBSET SUBSET M
    OBVIOUS
  <2>1. PICK T \in Bad : \A U \in Bad : U \subseteq T => U = T
    <3> HIDE DEF Bad
    <3> QED  BY <1>1, <2>0, SmallestSubset
  <2>2. T # {}
    <3>1. R({}) = {} /\ C({}) = {}
      OBVIOUS
    <3>2. F[{}] = 0 /\ A[{}] = 0 /\ B[{}] = 0
      BY <1>2 DEF IsTotal
    <3> HIDE DEF R, C
    <3>3. A[R({})] = 0 /\ B[C({})] = 0
      BY <3>1, <3>2
    <3>4. Least({}) /\ Same({})
      BY <3>2, <3>3
    <3> QED  BY <3>4
  <2>3. PICK x \in T : TRUE
    BY <2>2
  <2>4. T \ {x} \in SUBSET M /\ T \ {x} \notin Bad
    BY <2>1, <2>3
  <2>5. Least(T \ {x}) /\ Same(T \ {x})
    BY <2>4
  <2>6. /\ A[R(T)] = a[x[1]] + A[R(T \ {x})]
        /\ B[C(T)] = b[x[2]] + B[C(T \ {x})]
        /\ F[T] = distMatrixIn[x] + F[T \ {x}]
    BY <1>6, <2>3
  <2>7. /\ a[x[1]] \in Int /\ b[x[2]] \in Int /\ distMatrixIn[x] \in Int
        /\ A[R(T \ {x})] \in Int /\ B[C(T \ {x})] \in Int /\ F[T \ {x}] \in Int
    BY <1>1, <1>4, <1>5, <2>3, <2>4
  <2> HIDE DEF R, C
  <2>8. Least(T)
    <3> SUFFICES ASSUME \A p \in M : w(p) <= distMatrixIn[p]
                 PROVE  A[R(T)] + B[C(T)] <= F[T]
      OBVIOUS
    <3>1. a[x[1]] + b[x[2]] <= distMatrixIn[x]
      BY <2>3
    <3>2. A[R(T \ {x})] + B[C(T \ {x})] <= F[T \ {x}]
      BY <2>5
    <3> QED  BY <2>6, <2>7, <3>1, <3>2
  <2>9. Same(T)
    <3> SUFFICES ASSUME \A p \in M : w(p) = distMatrixIn[p]
                 PROVE  A[R(T)] + B[C(T)] = F[T]
      OBVIOUS
    <3>1. a[x[1]] + b[x[2]] = distMatrixIn[x]
      BY <2>3
    <3>2. A[R(T \ {x})] + B[C(T \ {x})] = F[T \ {x}]
      BY <2>5
    <3> QED  BY <2>6, <2>7, <3>1, <3>2
  <2> QED  BY <2>8, <2>9
<1>8. Least(M) /\ Same(M)
  <2>1. M \in SUBSET M /\ M \notin Bad
    BY <1>7
  <2> HIDE DEF Least, Same
  <2> QED  BY <2>1
<1>9. F[M] \in Int /\ A[R(M)] + B[C(M)] \in Int
  <2> HIDE DEF R, C
  <2>1. F[M] \in Int /\ A[R(M)] \in Int /\ B[C(M)] \in Int
    BY <1>5
  <2> QED  BY <2>1
<1> QED  BY <1>3, <1>8, <1>9

(* The result of the search is an assignment of the whole shorter side,    *)
(* and no assignment costs less (hungarian.cpp:62-64): every assignment    *)
(* costs at least the numbers of its lines, the stars just that, and a     *)
(* line the stars leave out has the number nought.                         *)
THEOREM AssignmentOptimal == Spec => []Optimal
<1>1. ASSUME IInv, pc = "done"
      PROVE  /\ starMatrix \in Assignments
             /\ \A M \in Assignments : CostOf(starMatrix) <= CostOf(M)
  <2> USE <1>1 DEF IInv
  <2>1. /\ OneToOne(starMatrix) /\ starMatrix \in SUBSET Cells
        /\ \A p \in starMatrix : distMatrix[p] = 0
        /\ \A p \in Cells : distMatrix[p] \in Int /\ 0 <= distMatrix[p]
        /\ Cardinality(StarCols) = minDim
    BY DEF ZeroInv, TypeInv, LineInv
  <2>2. starMatrix \in Assignments
    BY <2>1, StarLines DEF Assignments, OneToOne
  <2>3. PICK a \in [rows -> Int], b \in [cols -> Int] : Potentials(a, b)
    BY DEF PotentialInv
  <2>4. PICK A : IsTotal(A, rows, a)
    BY TotalExists DEF TypeInv
  <2>5. PICK B : IsTotal(B, cols, b)
    BY TotalExists DEF TypeInv
  <2>6. ASSUME NEW p \in Cells
        PROVE  /\ a[p[1]] \in Int /\ b[p[2]] \in Int
               /\ a[p[1]] + b[p[2]] <= distMatrixIn[p]
               /\ distMatrix[p] = 0 => a[p[1]] + b[p[2]] = distMatrixIn[p]
    <3>1. a[p[1]] \in Int /\ b[p[2]] \in Int
      BY CellLines
    <3>2. distMatrixIn[p] = distMatrix[p] + a[p[1]] + b[p[2]]
      BY <2>3 DEF Potentials
    <3> QED  BY <2>1, <3>1, <3>2
  <2>7. CostOf(starMatrix) = A[StarRows] + B[StarCols]
    <3>1. \A p \in starMatrix : a[p[1]] + b[p[2]] = distMatrixIn[p]
      BY <2>1, <2>6
    <3>2. A[{q[1] : q \in starMatrix}] + B[{q[2] : q \in starMatrix}]
            = CostOf(starMatrix)
      BY <2>1, <2>4, <2>5, <3>1, CostByLines
    <3> QED  BY <3>2 DEF StarRows, StarCols
  <2>8. ASSUME NEW M \in Assignments
        PROVE  CostOf(starMatrix) <= CostOf(M)
    <3> DEFINE MR == {q[1] : q \in M}  MC == {q[2] : q \in M}
    <3>1. M \in SUBSET Cells /\ OneToOne(M) /\ Cardinality(M) = minDim
      BY DEF Assignments, OneToOne
    <3>2. A[MR] + B[MC] <= CostOf(M) /\ CostOf(M) \in Int
      <4>1. \A p \in M : a[p[1]] + b[p[2]] <= distMatrixIn[p]
        BY <2>6, <3>1
      <4> QED  BY <2>4, <2>5, <3>1, <4>1, CostByLines
    <3>3. /\ MR \in SUBSET rows /\ MC \in SUBSET cols
          /\ StarRows \in SUBSET rows /\ StarCols \in SUBSET cols
      BY <2>1, <3>1, CellLines, StarLines
    <3>4. Cardinality(MR) = minDim /\ Cardinality(MC) = minDim
      BY <3>1, OneToOneLines
    <3> HIDE DEF MR, MC
    <3>5. /\ A[MR] \in Int /\ A[StarRows] \in Int /\ A[rows] \in Int
          /\ B[MC] \in Int /\ B[StarCols] \in Int /\ B[cols] \in Int
      BY <2>4, <2>5, <3>3 DEF IsTotal
    <3>6. CASE Cardinality(rows) <= Cardinality(cols)
      <4>1. StarRows = rows
        BY <2>1, <3>6, StarLines
      <4>2. MR = rows
        BY <3>3, <3>4, <3>6, MinDimIs, FS_Subset DEF TypeInv
      <4>3. \A c \in cols : b[c] \in Int /\ b[c] <= 0 /\ (c \notin StarCols => b[c] = 0)
        BY <2>3, <3>6 DEF Potentials
      <4>4. B[cols] = B[StarCols]
        BY <2>5, <3>3, <4>3, TotalOfPart DEF TypeInv
      <4>5. B[cols] <= B[MC]
        BY <2>5, <3>3, <4>3, TotalOfPart DEF TypeInv
      <4> QED  BY <2>7, <3>2, <3>5, <4>1, <4>2, <4>4, <4>5
    <3>7. CASE ~(Cardinality(rows) <= Cardinality(cols))
      <4>1. StarCols = cols
        BY <2>1, <3>7, StarLines
      <4>2. MC = cols
        BY <3>3, <3>4, <3>7, MinDimIs, FS_Subset DEF TypeInv
      <4>3. \A r \in rows : a[r] \in Int /\ a[r] <= 0 /\ (r \notin StarRows => a[r] = 0)
        BY <2>3, <3>7 DEF Potentials
      <4>4. A[rows] = A[StarRows]
        BY <2>4, <3>3, <4>3, TotalOfPart DEF TypeInv
      <4>5. A[rows] <= A[MR]
        BY <2>4, <3>3, <4>3, TotalOfPart DEF TypeInv
      <4> QED  BY <2>7, <3>2, <3>5, <4>1, <4>2, <4>4, <4>5
    <3> QED  BY <3>6, <3>7
  <2> QED  BY <2>2, <2>8
<1>2. IInv => Optimal
  BY <1>1 DEF Optimal
<1> QED  BY Invariance, <1>2, PTL
=============================================================================
