------------------------------ MODULE Hungarian ------------------------------
(***************************************************************************)
(* HungarianAlgorithm::assignmentoptimal: the cheapest assignment of rows  *)
(* (tracks) to columns (detections), by covering lines and moving stars    *)
(* over the zeros of the reduced matrix.                                   *)
(*                                                                         *)
(* Costs are integers here: what rounding does to the zeros is left out.   *)
(* The functions call one another in tail position, so the next one to run *)
(* is the program counter.  Where the code scans for a zero, any zero may  *)
(* be found: the result must not depend on the order of the scan.          *)
(***************************************************************************)
EXTENDS Integers, FiniteSets, FiniteSetsExt

CONSTANTS
  RowCounts,     (* values of nOfRows                                       *)
  ColumnCounts,  (* values of nOfColumns                                    *)
  Costs          (* the entries of a matrix                                 *)

ASSUME SizeAssumption ==
  RowCounts \subseteq Nat \ {0} /\ ColumnCounts \subseteq Nat \ {0}
ASSUME CostAssumption == Costs \subseteq Int /\ Costs # {}

VARIABLES
  pc,                (* the function that runs next                         *)
  rows, cols,        (* the lines of the matrix                             *)
  distMatrixIn,      (* the costs                                           *)
  distMatrix,        (* the reduced costs                                   *)
  starMatrix, primeMatrix, newStarMatrix,   (* sets of cells                *)
  coveredRows, coveredColumns,
  starCol            (* step4: the column whose star must move              *)

lines == <<coveredRows, coveredColumns>>
input == <<rows, cols, distMatrixIn>>
vars  == <<pc, input, distMatrix, starMatrix, primeMatrix, newStarMatrix,
           lines, starCol>>

Cells  == rows \X cols
minDim == Min({Cardinality(rows), Cardinality(cols)})
Uncovered == (rows \ coveredRows) \X (cols \ coveredColumns)

Init ==
  /\ pc = "reduce"
  /\ \E m \in RowCounts, n \in ColumnCounts : rows = 1 .. m /\ cols = 1 .. n
  /\ distMatrixIn \in [Cells -> Costs]
  /\ distMatrix = distMatrixIn
  /\ starMatrix = {} /\ primeMatrix = {} /\ newStarMatrix = {}
  /\ coveredRows = {} /\ coveredColumns = {}
  /\ starCol = 1

(* The smallest element of each line of the shorter side is subtracted.    *)
Reduced ==
  [p \in Cells |-> distMatrixIn[p]
     - IF Cardinality(rows) <= Cardinality(cols)
       THEN Min({distMatrixIn[p[1], c] : c \in cols})
       ELSE Min({distMatrixIn[r, p[2]] : r \in rows})]

Reduce ==
  /\ pc = "reduce" /\ pc' = "star"
  /\ distMatrix' = Reduced
  /\ UNCHANGED <<input, starMatrix, primeMatrix, newStarMatrix, lines, starCol>>

(* Steps 1 and 2a: a zero is starred when its row and its column have no   *)
(* star; then every starred column is covered.                             *)
Starrable ==
  {p \in Cells : /\ distMatrix[p] = 0
                 /\ \A q \in starMatrix : q[1] # p[1] /\ q[2] # p[2]}

StarZero ==
  /\ pc = "star"
  /\ \E p \in Starrable :
       /\ starMatrix' = starMatrix \union {p}
       /\ coveredColumns' = coveredColumns \union {p[2]}
  /\ UNCHANGED <<pc, input, distMatrix, primeMatrix, newStarMatrix,
                 coveredRows, starCol>>

StarsDone ==
  /\ pc = "star" /\ Starrable = {}
  /\ pc' = "step2b"
  /\ UNCHANGED <<input, distMatrix, starMatrix, primeMatrix, newStarMatrix,
                 lines, starCol>>

Step2a ==
  /\ pc = "step2a" /\ pc' = "step2b"
  /\ coveredColumns' = coveredColumns \union {p[2] : p \in starMatrix}
  /\ UNCHANGED <<input, distMatrix, starMatrix, primeMatrix, newStarMatrix,
                 coveredRows, starCol>>

(* Enough columns are covered, or the search goes on.                      *)
Step2b ==
  /\ pc = "step2b"
  /\ pc' = IF Cardinality(coveredColumns) = minDim THEN "done" ELSE "step3"
  /\ UNCHANGED <<input, distMatrix, starMatrix, primeMatrix, newStarMatrix,
                 lines, starCol>>

-----------------------------------------------------------------------------
(* An uncovered zero is primed.  With a star in its row the lines change,  *)
(* without one a path of stars and primes begins at it.                    *)
ZerosLeft == {p \in Uncovered : distMatrix[p] = 0}
StarsInRow(r) == {q \in starMatrix : q[1] = r}

Step3Cover ==
  /\ pc = "step3"
  /\ \E p \in ZerosLeft : \E q \in StarsInRow(p[1]) :
       /\ primeMatrix' = primeMatrix \union {p}
       /\ coveredRows' = coveredRows \union {p[1]}
       /\ coveredColumns' = coveredColumns \ {q[2]}
  /\ UNCHANGED <<pc, input, distMatrix, starMatrix, newStarMatrix, starCol>>

Step3Path ==
  /\ pc = "step3"
  /\ \E p \in ZerosLeft :
       /\ StarsInRow(p[1]) = {}
       /\ primeMatrix' = primeMatrix \union {p}
       /\ newStarMatrix' = starMatrix \union {p}
       /\ starCol' = p[2]
  /\ pc' = "step4"
  /\ UNCHANGED <<input, distMatrix, starMatrix, lines>>

Step3NoZero ==
  /\ pc = "step3" /\ ZerosLeft = {}
  /\ pc' = "step5"
  /\ UNCHANGED <<input, distMatrix, starMatrix, primeMatrix, newStarMatrix,
                 lines, starCol>>

(* One turn of step4's loop: the star of the column gives way to the prime *)
(* of its row.                                                             *)
PathGoesOn == \E q \in starMatrix : q[2] = starCol

(* Defect: the star that gives way is not removed. *)
Step4Move_KeepStar ==
  /\ pc = "step4"
  /\ \E q \in starMatrix, p \in primeMatrix :
       /\ q[2] = starCol /\ p[1] = q[1]
       /\ newStarMatrix' = newStarMatrix \union {p}
       /\ starCol' = p[2]
  /\ UNCHANGED <<pc, input, distMatrix, starMatrix, primeMatrix, lines>>

Step4Move ==
  /\ pc = "step4"
  /\ \E q \in starMatrix, p \in primeMatrix :
       /\ q[2] = starCol /\ p[1] = q[1]
       /\ newStarMatrix' = (newStarMatrix \ {q}) \union {p}
       /\ starCol' = p[2]
  /\ UNCHANGED <<pc, input, distMatrix, starMatrix, primeMatrix, lines>>

(* Defect: the new stars are not copied back. *)
Step4End_OldStars ==
  /\ pc = "step4" /\ ~PathGoesOn
  /\ primeMatrix' = {}
  /\ coveredRows' = {}
  /\ pc' = "step2a"
  /\ UNCHANGED <<input, distMatrix, starMatrix, newStarMatrix, coveredColumns,
                 starCol>>

(* Defect: the primes of this search are left for the next. *)
Step4End_KeepPrimes ==
  /\ pc = "step4" /\ ~PathGoesOn
  /\ starMatrix' = newStarMatrix
  /\ coveredRows' = {}
  /\ pc' = "step2a"
  /\ UNCHANGED <<input, distMatrix, primeMatrix, newStarMatrix, coveredColumns, starCol>>

Step4End ==
  /\ pc = "step4" /\ ~PathGoesOn
  /\ starMatrix' = newStarMatrix
  /\ primeMatrix' = {}
  /\ coveredRows' = {}
  /\ pc' = "step2a"
  /\ UNCHANGED <<input, distMatrix, newStarMatrix, coveredColumns, starCol>>

(* The smallest uncovered element is added to the covered rows and         *)
(* subtracted from the uncovered columns.                                  *)
Step5 ==
  /\ pc = "step5" /\ pc' = "step3"
  /\ LET h == Min({distMatrix[p] : p \in Uncovered})
     IN distMatrix' = [p \in Cells |-> distMatrix[p]
          + (IF p[1] \in coveredRows THEN h ELSE 0)
          - (IF p[2] \in coveredColumns THEN 0 ELSE h)]
  /\ UNCHANGED <<input, starMatrix, primeMatrix, newStarMatrix, lines, starCol>>

Next ==
  \/ Reduce \/ StarZero \/ StarsDone
  \/ Step2a \/ Step2b
  \/ Step3Cover \/ Step3Path \/ Step3NoZero
  \/ Step4Move \/ Step4End \/ Step5

Spec == Init /\ [][Next]_vars /\ WF_vars(Next)

-----------------------------------------------------------------------------
(* buildassignmentvector reads the stars as a function from rows; what it  *)
(* costs, and what the cheapest complete assignment costs, computed by     *)
(* trying all of them.                                                     *)
CostOf(M) == MapThenSumSet(LAMBDA p : distMatrixIn[p], M)

Assignments ==
  {M \in SUBSET Cells :
     /\ Cardinality(M) = minDim
     /\ \A p, q \in M : p[1] = q[1] <=> p[2] = q[2]}

(* The result is an assignment of the whole shorter side, and none of them *)
(* costs less (hungarian.cpp:62-64).                                       *)
Optimal ==
  pc = "done" =>
    /\ starMatrix \in Assignments
    /\ \A M \in Assignments : CostOf(starMatrix) <= CostOf(M)

(* The scans of the code find what they look for: a star met on the path   *)
(* has a prime in its row, else step4 writes past the matrix (lines        *)
(* 310-316), and the smallest uncovered element exists (lines 344-352).    *)
ScansSucceed ==
  /\ pc = "step4" =>
       \A q \in starMatrix :
         q[2] = starCol => Cardinality({p \in primeMatrix : p[1] = q[1]}) = 1
  /\ pc = "step5" => Uncovered # {}

(* The functions stop calling one another.                                 *)
Terminates == <>(pc = "done")
=============================================================================
