----------------------------- MODULE MluTaskQueue -----------------------------
(***************************************************************************)
(* edk::MluTaskQueue and the Marks an application places on it.  A Mark    *)
(* owns an index into the queue's marks until it is destroyed or moved     *)
(* from; marks_valid tells the indices that can be handed out.             *)
(*                                                                         *)
(* A queue lives as long as a shared_ptr to it.  A Mark refers to its      *)
(* queue without holding one.  Nothing in a queue is locked, though the    *)
(* application and the operators share it: between finding an index and    *)
(* clearing its flag, PlaceMark can meet another PlaceMark, the release of *)
(* a Mark, or a SetCnrtQueue that replaces both vectors.  What such calls  *)
(* do to the memory of the vectors themselves (one that is reallocated     *)
(* while another thread writes it, flags that share a word) is undefined   *)
(* behaviour beyond the model, which keeps the flags apart.                *)
(***************************************************************************)
EXTENDS Naturals, Sequences, FiniteSets

CONSTANTS
  Queues,        (* identities of MluTaskQueue objects                      *)
  NoQueue,
  Marks,         (* the application's variables of type Mark                *)
  NoMark,        (* a Mark that releases nothing: moved from or destroyed   *)
  Callers,       (* the threads that place Marks                            *)
  InitMarkNum,   (* init_mark_num                                           *)
  MarksMaxNum    (* marks_max_num                                           *)

(* An index of a queue, as a Mark remembers it.                            *)
Label == [queue : Queues, idx : Nat]

ASSUME QueueAssumption ==
  /\ NoQueue \notin Queues
  /\ NoMark \notin Label
  /\ InitMarkNum \in Nat \ {0} /\ MarksMaxNum \in Nat

VARIABLES
  created,       (* history: the queues created so far                      *)
  held,          (* queues the application has a MluTaskQueue_t of          *)
  queue,         (* the MluTaskQueue_t of the operator that uses queues     *)
  marks,         (* priv_->marks of each queue: how many notifiers          *)
  marks_valid,   (* priv_->marks_valid of each queue                        *)
  mark,          (* what each Mark would release                            *)
  placing,       (* the index that each caller found and has not taken yet  *)
  contested      (* history: of the indices that are out, those that two    *)
                 (* callers found at once, and those that were out when     *)
                 (* SetCnrtQueue replaced the vectors                       *)

queueVars == <<created, marks, marks_valid>>
markVars  == <<mark, placing, contested>>

Live == (held \union {queue}) \ {NoQueue}

(* The indices that are out: a Mark's, or found by a caller.               *)
Out == ({mark[m] : m \in Marks} \union {placing[c] : c \in Callers}) \ {NoMark}

InitQueues ==
  /\ created = {} /\ held = {} /\ queue = NoQueue
  /\ marks = [q \in Queues |-> InitMarkNum]
  /\ marks_valid = [q \in Queues |-> [i \in 1 .. InitMarkNum |-> TRUE]]
  /\ mark = [m \in Marks |-> NoMark]
  /\ placing = [c \in Callers |-> NoMark]
  /\ contested = {}

(* Create, with the first notifiers; when it throws there is no queue.     *)
Create(q) ==
  /\ q \in Queues \ created
  /\ created' = created \union {q}
  /\ UNCHANGED <<marks, marks_valid>>

AppCreates(q) ==
  /\ Create(q)
  /\ held' = held \union {q}
  /\ UNCHANGED <<queue, markVars>>

(* The application lets its reference go, when none of its threads is in   *)
(* a call on the queue.                                                    *)
AppDrops(q) ==
  /\ q \in held
  /\ \A c \in Callers : placing[c] # NoMark => placing[c].queue # q
  /\ held' = held \ {q}
  /\ UNCHANGED <<queue, queueVars, markVars>>

-----------------------------------------------------------------------------
(* PlaceMark looks for the first index that is valid, or makes a new one   *)
(* at the end as long as there are no more than MarksMaxNum.               *)
Valid(q) == {i \in DOMAIN marks_valid[q] : marks_valid[q][i]}
IsFirst(i, S) == i \in S /\ \A j \in S : i <= j

Index(q, i) ==
  \/ IsFirst(i, Valid(q))
  \/ Valid(q) = {} /\ marks[q] <= MarksMaxNum /\ i = marks[q] + 1

(* Both vectors after room was made for index i.                           *)
GrownMarks(q, i) ==
  [marks EXCEPT ![q] = IF i > marks[q] THEN i ELSE @]
GrownValid(q, i) ==
  [marks_valid EXCEPT ![q] = IF i > Len(@) THEN Append(@, TRUE) ELSE @]

(* The search leaves the flag as it is: another caller can find the index. *)
FindIndex(c, q) ==
  /\ q \in held /\ placing[c] = NoMark
  /\ \E i \in 1 .. marks[q] + 1 :
       /\ Index(q, i)
       /\ marks' = GrownMarks(q, i)
       /\ marks_valid' = GrownValid(q, i)
       /\ placing' = [placing EXCEPT ![c] = [queue |-> q, idx |-> i]]
  /\ contested' = contested \union ({placing'[c]} \intersect {placing[d] : d \in Callers})
  /\ UNCHANGED <<created, held, queue, mark>>

(* The flag of index l.idx is written.  An index past the end of vectors   *)
(* that were replaced is a write outside: no flag changes.                 *)
WriteFlag(l, valid) ==
  marks_valid' = [marks_valid EXCEPT ![l.queue] =
                    [i \in DOMAIN @ |-> IF i = l.idx THEN valid ELSE @[i]]]

(* Defect: the flag is not cleared. *)
PlaceMark_Unflagged(c, m) ==
  /\ placing[c] # NoMark
  /\ mark' = [mark EXCEPT ![m] = placing[c]]
  /\ placing' = [placing EXCEPT ![c] = NoMark]
  /\ contested' = contested \intersect Out'
  /\ UNCHANGED <<held, queue, queueVars>>

(* The notifier is placed and the flag cleared.  The new Mark initialises  *)
(* a variable or is assigned to one: the assignment overwrites the release *)
(* function of the Mark that was there, which then never gives its index   *)
(* back.                                                                   *)
PlaceMark(c, m) ==
  /\ placing[c] # NoMark
  /\ WriteFlag(placing[c], FALSE)
  /\ mark' = [mark EXCEPT ![m] = placing[c]]
  /\ placing' = [placing EXCEPT ![c] = NoMark]
  /\ contested' = contested \intersect Out'
  /\ UNCHANGED <<created, held, queue, marks>>

(* Defect: the flag is cleared before the notifier is placed. *)
PlaceMarkThrows_Flagged(c) ==
  /\ placing[c] # NoMark
  /\ WriteFlag(placing[c], FALSE)
  /\ placing' = [placing EXCEPT ![c] = NoMark]
  /\ UNCHANGED <<created, held, queue, marks, mark>>
  /\ contested' = contested \intersect Out'

(* The notifier cannot be placed: the exception leaves the vectors grown,  *)
(* and a new index can be handed out.                                      *)
PlaceMarkThrows(c) ==
  /\ placing[c] # NoMark
  /\ placing' = [placing EXCEPT ![c] = NoMark]
  /\ UNCHANGED <<held, queue, queueVars, mark>>
  /\ contested' = contested \intersect Out'

MoveMark(m, n) ==
  /\ m # n /\ mark[m] # NoMark
  /\ mark' = [mark EXCEPT ![n] = mark[m], ![m] = NoMark]
  /\ UNCHANGED <<held, queue, queueVars, placing>>
  /\ contested' = contested \intersect Out'

(* ~Mark writes the flag of its index, through a pointer to the queue that *)
(* nothing keeps alive: a write into a freed queue is undefined behaviour, *)
(* of which the model keeps that no live queue is meant.                   *)
ReleaseMark(m) ==
  /\ mark[m] # NoMark
  /\ mark' = [mark EXCEPT ![m] = NoMark]
  /\ \/ mark[m].queue \in Live /\ WriteFlag(mark[m], TRUE)
     \/ mark[m].queue \notin Live /\ UNCHANGED marks_valid
  /\ UNCHANGED <<created, held, queue, marks, placing>>
  /\ contested' = contested \intersect Out'

(* The handle of a queue is set.  A queue that Create made has one, and    *)
(* all of its private part is replaced, the vectors too, while Marks that  *)
(* are out and callers in PlaceMark keep their indices into the old ones.  *)
(* The new handle may be one on which a kernel failed as well.             *)
SetCnrtQueue(q) ==
  /\ q \in held
  /\ marks' = [marks EXCEPT ![q] = InitMarkNum]
  /\ marks_valid' = [marks_valid EXCEPT ![q] = [i \in 1 .. InitMarkNum |-> TRUE]]
  /\ contested' = contested \union {l \in Out : l.queue = q}
  /\ UNCHANGED <<created, held, queue, mark, placing>>

NextQueues ==
  \/ \E q \in Queues : AppCreates(q) \/ AppDrops(q) \/ SetCnrtQueue(q)
  \/ \E c \in Callers, q \in Queues : FindIndex(c, q)
  \/ \E c \in Callers, m \in Marks : PlaceMark(c, m)
  \/ \E c \in Callers : PlaceMarkThrows(c)
  \/ \E m, n \in Marks : MoveMark(m, n)
  \/ \E m \in Marks : ReleaseMark(m)

-----------------------------------------------------------------------------
(* The state of queues and Marks.                                          *)
QueuesTypeOK ==
  /\ created \in SUBSET Queues /\ held \in SUBSET created
  /\ queue \in created \union {NoQueue}
  /\ marks \in [Queues -> Nat]
  /\ marks_valid \in [Queues -> Seq(BOOLEAN)]
  /\ mark \in [Marks -> Label \union {NoMark}]
  /\ placing \in [Callers -> Label \union {NoMark}]
  /\ contested \in SUBSET Label

(* A Mark is the only one with its index, the index exists in both vectors *)
(* and is flagged as handed out: Count, which refuses an index without the *)
(* flag, never refuses a Mark that was placed (mlu_context.cpp:63-73).     *)
(* The exceptions are the indices that two callers of PlaceMark found      *)
(* before the first cleared the flag (lines 43-60 take no lock), and those *)
(* of Marks under which SetCnrtQueue replaced the vectors                  *)
(* (mlu_task_queue.h:106-111): they taint no other index, and this one for *)
(* no longer than any of those that share it are out.                      *)
MarkOwnsIndex ==
  /\ \A m \in Marks : mark[m] \notin contested \union {NoMark} =>
       /\ mark[m].idx \in 1 .. marks[mark[m].queue]
       /\ mark[m].idx \in DOMAIN marks_valid[mark[m].queue]
       /\ ~marks_valid[mark[m].queue][mark[m].idx]
  /\ \A m, n \in Marks :
       mark[m] \notin contested \union {NoMark} /\ mark[m] = mark[n] => m = n

(* The indices of a queue that are neither free nor any Mark's: nothing    *)
(* gives them back before the queue is gone.                               *)
Lost(q) ==
  {i \in 1 .. marks[q] :
     i \notin Valid(q) /\ \A m \in Marks : mark[m] # [queue |-> q, idx |-> i]}

(* "An exception will be thrown while number of Marks reaches limit"       *)
(* (mlu_context.h:72-73): an index that is not free is that of a Mark, and *)
(* a live queue loses one only where another Mark is assigned to a Mark    *)
(* that has it.  Callers that meet in PlaceMark, notifiers that cannot be  *)
(* placed and vectors that are replaced lose no index.                     *)
OnlyMarksTakeIndices ==
  [][\A q \in Live' : \A i \in Lost(q)' :
       \/ i \in Lost(q)
       \/ \E m \in Marks : /\ mark[m] = [queue |-> q, idx |-> i]
                           /\ mark'[m] \notin {mark[m], NoMark}]_<<queueVars, markVars, held, queue>>
=============================================================================
