-------------------------- MODULE SyncedMemoryProofs --------------------------
(***************************************************************************)
(* A GstSyncedMemory is coherent and owns exactly what it allocated,       *)
(* whatever blocks the heaps and the application have and however often it *)
(* is written.                                                             *)
(***************************************************************************)
EXTENDS SyncedMemory, TLAPS

(* What the two invariants need to be inductive: an unused memory has no   *)
(* blocks, what it owns came from the heap of that side, and the           *)
(* application writes only where the data is current and nowhere else.     *)
Books ==
  /\ ptr \in [Sides -> Blocks \union {NULL}]
  /\ \A s \in Sides : ptr[s] \in Heap(s) \union User(s) \union {NULL}
  /\ own \in [Sides -> BOOLEAN]
  /\ allocated \subseteq HostHeap \union DevHeap
  /\ \A s \in Sides : own[s] => ptr[s] \in Heap(s)
  /\ OwnsExactly

UnusedInv ==
  head = "UNINITIALIZED" => /\ \A s \in Sides : ptr[s] = NULL
                            /\ latest = 0

WriterInv == \A s \in Sides : writer = s => head = s

IInv == TypeOK /\ Books /\ Coherent /\ UnusedInv /\ WriterInv

(* The groups of blocks are disjoint and NULL is no block. *)
LEMMA Disjoint ==
  ASSUME NEW s \in Sides
  PROVE  /\ Other(s) \in Sides /\ Other(s) # s /\ Sides = {s, Other(s)}
         /\ Heap(s) \intersect Heap(Other(s)) = {}
         /\ Heap(s) \subseteq Blocks /\ User(s) \subseteq Blocks
         /\ Heap(s) \subseteq HostHeap \union DevHeap
         /\ (HostHeap \union DevHeap) \intersect User(s) = {}
         /\ NULL \notin Heap(s) \union User(s)
         /\ s # NULL /\ s \notin {"SYNCED", "UNINITIALIZED"}
  BY BlockAssumption DEF Sides, Other, Heap, User, Blocks

(* cn_syncedmem_new. *)
LEMMA InitIInv == Init => IInv
<1> SUFFICES ASSUME Init PROVE IInv
  OBVIOUS
<1>1. \A s \in Sides : ptr[s] = NULL /\ ~own[s] /\ NULL \notin Heap(s) /\ s # NULL /\ s # "UNINITIALIZED"
  BY Disjoint DEF Init
<1>2. TypeOK
  BY <1>1 DEF Init, TypeOK, Heads
<1>3. allocated = {ptr[s] : s \in {x \in Sides : own[x]}}
  BY <1>1 DEF Init
<1>4. Coherent
  BY <1>1 DEF Init, Coherent
<1> QED
  BY <1>1, <1>2, <1>3, <1>4 DEF Init, IInv, Books, TypeOK, OwnsExactly, UnusedInv, WriterInv

(* An allocation keeps the books, for a side that has no block. *)
LEMMA AllocateBooks ==
  ASSUME IInv, NEW s \in Sides, NEW b \in Heap(s), Allocate(s, b), ptr[s] = NULL,
         mem = "live"
  PROVE  /\ Books'
         /\ ptr'[s] = b /\ b # NULL /\ b \in Blocks
         /\ ptr'[Other(s)] = ptr[Other(s)]
<1> DEFINE o == Other(s)
<1>1. /\ o \in Sides /\ o # s /\ Sides = {s, o} /\ b # NULL /\ NULL \notin Heap(s)
      /\ Heap(s) \subseteq Blocks /\ Heap(s) \subseteq HostHeap \union DevHeap
  BY Disjoint
<1>2. /\ ptr' = [ptr EXCEPT ![s] = b] /\ own' = [own EXCEPT ![s] = TRUE]
      /\ allocated' = allocated \union {b}
  BY DEF Allocate
<1>3. /\ ptr \in [Sides -> Blocks \union {NULL}] /\ own \in [Sides -> BOOLEAN]
      /\ \A x \in Sides : ptr[x] \in Heap(x) \union User(x) \union {NULL}
      /\ \A x \in Sides : own[x] => ptr[x] \in Heap(x)
      /\ allocated \subseteq HostHeap \union DevHeap
      /\ allocated = {ptr[x] : x \in {y \in Sides : own[y]}}
  BY DEF IInv, Books, OwnsExactly
<1>4. ptr'[s] = b /\ own'[s] = TRUE /\ ptr'[o] = ptr[o] /\ own'[o] = own[o]
  BY <1>1, <1>2, <1>3
<1>5. own[s] = FALSE
  BY <1>1, <1>3
<1>6. allocated = IF own[o] THEN {ptr[o]} ELSE {}
  BY <1>1, <1>3, <1>5
<1>7. allocated' = {ptr'[x] : x \in {y \in Sides : own'[y]}}
  BY <1>1, <1>2, <1>4, <1>6
<1>8. \A x \in Sides : ptr'[x] \in Heap(x) => own'[x]
  BY <1>1, <1>4 DEF IInv, Books, OwnsExactly
<1>9. /\ ptr' \in [Sides -> Blocks \union {NULL}] /\ own' \in [Sides -> BOOLEAN]
      /\ allocated' \subseteq HostHeap \union DevHeap
  BY <1>1, <1>2, <1>3
<1> QED
  BY <1>1, <1>3, <1>4, <1>7, <1>8, <1>9 DEF OwnsExactly, Books

(* After to_cpu or to_mlu the data is on this side, and is still on the    *)
(* other side if it was there.                                             *)
LEMMA Transfer ==
  ASSUME IInv, NEW s \in Sides, mem = "live",
         Materialize(s) \/ CopyFrom(Other(s), s) \/ Current(s)
  PROVE  /\ Books' /\ content' \in [Blocks -> Nat]
         /\ ptr'[s] # NULL /\ content'[ptr'[s]] = latest
         /\ head \in {Other(s), "SYNCED"} => /\ ptr'[Other(s)] # NULL
                                            /\ content'[ptr'[Other(s)]] = latest
<1> DEFINE o == Other(s)
<1>1. /\ o \in Sides /\ o # s /\ Sides = {s, o}
      /\ s \notin {"SYNCED", "UNINITIALIZED"} /\ o \notin {"SYNCED", "UNINITIALIZED"}
  BY Disjoint
<1>2. /\ content \in [Blocks -> Nat] /\ latest \in Nat
      /\ \A x \in Sides : ptr[x] \in Blocks \union {NULL}
      /\ \A x \in Sides : head \in {x, "SYNCED"} => ptr[x] # NULL /\ content[ptr[x]] = latest
      /\ head = "UNINITIALIZED" => latest = 0 /\ \A x \in Sides : ptr[x] = NULL
  BY DEF IInv, TypeOK, Coherent, UnusedInv
<1>3. CASE Materialize(s)
  <2>1. PICK b \in Heap(s) : Allocate(s, b) /\ content' = [content EXCEPT ![b] = 0]
    BY <1>3 DEF Materialize
  <2>2. head = "UNINITIALIZED" /\ ptr[s] = NULL /\ latest = 0
    BY <1>2, <1>3 DEF Materialize
  <2>3. Books' /\ ptr'[s] = b /\ b # NULL /\ b \in Blocks
    BY <2>1, <2>2, AllocateBooks
  <2> QED
    BY <1>1, <1>2, <2>1, <2>2, <2>3
<1>4. CASE CopyFrom(o, s)
  <2>1. head = o /\ ptr[o] # NULL /\ ptr[o] \in Blocks /\ content[ptr[o]] = latest
    BY <1>1, <1>2, <1>4 DEF CopyFrom
  <2>2. CASE ptr[s] = NULL
    <3>1. PICK b \in Heap(s) : Allocate(s, b) /\ content' = [content EXCEPT ![b] = content[ptr[o]]]
      BY <1>4, <2>2 DEF CopyFrom
    <3>2. Books' /\ ptr'[s] = b /\ b # NULL /\ b \in Blocks /\ ptr'[o] = ptr[o]
      BY <2>2, <3>1, AllocateBooks
    <3> QED
      BY <1>2, <2>1, <3>1, <3>2
  <2>3. CASE ptr[s] # NULL
    <3>1. /\ content' = [content EXCEPT ![ptr[s]] = content[ptr[o]]]
          /\ UNCHANGED <<ptr, own, allocated>>
      BY <1>4, <2>3 DEF CopyFrom
    <3>2. ptr[s] \in Blocks
      BY <1>2, <2>3
    <3>3. Books'
      BY <3>1 DEF IInv, Books, OwnsExactly
    <3> QED
      BY <1>2, <2>1, <2>3, <3>1, <3>2, <3>3
  <2> QED
    BY <2>2, <2>3
<1>5. CASE Current(s)
  <2>1. head \in {s, "SYNCED"} /\ UNCHANGED <<ptr, own, allocated, content>>
    BY <1>5 DEF Current
  <2>2. Books'
    BY <2>1 DEF IInv, Books, OwnsExactly
  <2> QED
    BY <1>1, <1>2, <2>1, <2>2
<1> QED
  BY <1>3, <1>4, <1>5

(* The typing of what a step leaves to its own conjuncts. *)
LEMMA IInvParts ==
  ASSUME IInv
  PROVE  /\ content \in [Blocks -> Nat] /\ latest \in Nat
         /\ mem \in {"live", "failed", "deleted"}
         /\ head \in Heads /\ writer \in Sides \union {NULL}
         /\ ptr \in [Sides -> Blocks \union {NULL}] /\ own \in [Sides -> BOOLEAN]
         /\ \A x \in Sides : ptr[x] \in Heap(x) \union User(x) \union {NULL}
         /\ \A x \in Sides : own[x] => ptr[x] \in Heap(x)
         /\ allocated \subseteq HostHeap \union DevHeap
         /\ allocated = {ptr[x] : x \in {y \in Sides : own[y]}}
  BY DEF IInv, TypeOK, Books, OwnsExactly

(* Both getters: the new head is this side, or both when the data was on   *)
(* the other.                                                              *)
LEMMA GetIInv ==
  ASSUME IInv, NEW s \in Sides, GetData(s) \/ GetMutableData(s)
  PROVE  IInv'
<1> DEFINE o == Other(s)
<1>1. /\ o \in Sides /\ o # s /\ Sides = {s, o} /\ s # NULL
      /\ s \notin {"SYNCED", "UNINITIALIZED"} /\ o \notin {"SYNCED", "UNINITIALIZED"}
  BY Disjoint
<1>2. /\ mem = "live" /\ mem' = mem /\ latest' = latest
      /\ Materialize(s) \/ CopyFrom(o, s) \/ Current(s)
  BY DEF GetData, GetMutableData
<1>3. /\ Books' /\ content' \in [Blocks -> Nat]
      /\ ptr'[s] # NULL /\ content'[ptr'[s]] = latest
      /\ head \in {o, "SYNCED"} => ptr'[o] # NULL /\ content'[ptr'[o]] = latest
  BY <1>2, Transfer
<1>4. head' = s \/ (head' = "SYNCED" /\ head \in {o, "SYNCED"})
  BY <1>1 DEF GetData, GetMutableData, CopyFrom, Current, Materialize
<1>5. (writer' = s /\ head' = s) \/ writer' = NULL \/ (writer' = writer /\ head' = writer)
  BY DEF GetData, GetMutableData
<1>6. TypeOK'
  BY <1>1, <1>2, <1>3, <1>4, <1>5, IInvParts DEF TypeOK, Books, OwnsExactly, Heads
<1>7. Coherent'
  BY <1>1, <1>2, <1>3, <1>4 DEF Coherent
<1>8. UnusedInv' /\ WriterInv'
  BY <1>1, <1>4, <1>5, Disjoint DEF UnusedInv, WriterInv
<1> QED
  BY <1>3, <1>6, <1>7, <1>8 DEF IInv

(* A failed copy spoils only the side that did not have the data. *)
LEMMA CopyThrowsIInv ==
  ASSUME IInv, NEW s \in Sides, CopyThrows(s)
  PROVE  IInv'
<1> DEFINE o == Other(s)
<1>1. /\ o \in Sides /\ o # s /\ Sides = {s, o}
      /\ s \notin {"SYNCED", "UNINITIALIZED"} /\ o \notin {"SYNCED", "UNINITIALIZED"}
  BY Disjoint
<1>2. mem = "live" /\ head = o /\ UNCHANGED <<head, mem, latest, writer>>
  BY DEF CopyThrows
<1>3. ptr[o] # NULL /\ content[ptr[o]] = latest
  BY <1>1, <1>2 DEF IInv, Coherent
<1>4. ptr[o] # ptr[s] \/ ptr[s] = NULL
  BY <1>1, <1>3, IInvParts, BlockAssumption DEF Heap, User, Other, Sides
<1>5. /\ Books' /\ content' \in [Blocks -> Nat]
      /\ ptr'[o] = ptr[o] /\ content'[ptr'[o]] = latest
  <2>1. CASE ptr[s] = NULL
    <3>1. PICK b \in Heap(s) : Allocate(s, b) /\ content' = [content EXCEPT ![b] = 0]
      BY <2>1 DEF CopyThrows
    <3>2. Books' /\ b \in Blocks /\ ptr'[o] = ptr[o]
      BY <1>2, <2>1, <3>1, AllocateBooks
    <3>3. b # ptr[o]
      BY <1>2, <3>1, <1>1, <1>3, IInvParts, BlockAssumption DEF Heap, User, Other, Sides
    <3> QED
      BY <1>3, <3>1, <3>2, <3>3, IInvParts
  <2>2. CASE ptr[s] # NULL
    <3>1. content' = [content EXCEPT ![ptr[s]] = 0] /\ UNCHANGED <<ptr, own, allocated>>
      BY <2>2 DEF CopyThrows
    <3>2. Books'
      BY <1>2, <3>1 DEF IInv, Books, OwnsExactly
    <3> QED
      BY <1>3, <1>4, <2>2, <3>1, <3>2, IInvParts
  <2> QED
    BY <2>1, <2>2
<1>6. TypeOK'
  BY <1>2, <1>5, IInvParts DEF TypeOK, Books
<1>7. Coherent'
  BY <1>1, <1>2, <1>3, <1>5 DEF Coherent
<1>8. UnusedInv' /\ WriterInv'
  BY <1>1, <1>2 DEF IInv, UnusedInv, WriterInv
<1> QED
  BY <1>5, <1>6, <1>7, <1>8 DEF IInv

(* A setter lets go of the block it owned and owns nothing on that side. *)
LEMMA SetDataIInv ==
  ASSUME IInv, NEW s \in Sides, NEW data \in User(s), SetData(s, data)
  PROVE  IInv'
<1> DEFINE o == Other(s)
<1>1. /\ o \in Sides /\ o # s /\ Sides = {s, o} /\ s # NULL
      /\ s \notin {"SYNCED", "UNINITIALIZED"}
      /\ data \in Blocks /\ data # NULL /\ data \notin HostHeap \union DevHeap
      /\ Heap(s) \subseteq HostHeap \union DevHeap /\ Heap(s) \intersect Heap(o) = {}
  BY Disjoint
<1>2. /\ mem = "live" /\ mem' = mem /\ head' = s /\ writer' = s
      /\ allocated' = (IF own[s] THEN allocated \ {ptr[s]} ELSE allocated)
      /\ ptr' = [ptr EXCEPT ![s] = data] /\ own' = [own EXCEPT ![s] = FALSE]
      /\ latest' = latest + 1 /\ content' = [content EXCEPT ![data] = latest']
  BY DEF SetData
<1>3. /\ ptr'[s] = data /\ ptr'[o] = ptr[o] /\ own'[s] = FALSE /\ own'[o] = own[o]
  BY <1>1, <1>2, IInvParts
<1>4. OwnsExactly'
  <2>1. allocated' = {ptr'[x] : x \in {y \in Sides : own'[y]}}
    <3>1. own[s] /\ own[o] => ptr[s] # ptr[o]
      BY <1>1, IInvParts
    <3>2. allocated = (IF own[s] THEN {ptr[s]} ELSE {}) \union (IF own[o] THEN {ptr[o]} ELSE {})
      BY <1>1, IInvParts
    <3>3. allocated' = IF own[o] THEN {ptr[o]} ELSE {}
      <4>1. CASE own[s]
        BY <1>2, <3>1, <3>2, <4>1
      <4>2. CASE ~own[s]
        BY <1>2, <3>2, <4>2
      <4> QED
        BY <4>1, <4>2
    <3> QED
      BY <1>1, <1>3, <3>3
  <2>2. \A x \in Sides : ptr'[x] \in Heap(x) => own'[x]
    BY <1>1, <1>2, <1>3 DEF IInv, Books, OwnsExactly
  <2> QED
    BY <2>1, <2>2 DEF OwnsExactly
<1>5. /\ content' \in [Blocks -> Nat] /\ latest' \in Nat /\ content'[data] = latest'
  BY <1>1, <1>2, IInvParts
<1>6. Books' /\ TypeOK'
  BY <1>1, <1>2, <1>3, <1>4, <1>5, IInvParts DEF Books, TypeOK, Heads
<1>7. Coherent' /\ UnusedInv' /\ WriterInv'
  BY <1>1, <1>2, <1>3, <1>5, Disjoint DEF Coherent, UnusedInv, WriterInv
<1> QED
  BY <1>6, <1>7 DEF IInv

(* The application writes where the data is, and the data is nowhere else. *)
LEMMA WriteIInv ==
  ASSUME IInv, NEW s \in Sides, Write(s)
  PROVE  IInv'
<1>1. /\ mem = "live" /\ head = s /\ latest' = latest + 1
      /\ content' = [content EXCEPT ![ptr[s]] = latest']
      /\ UNCHANGED <<ptr, own, head, mem, allocated, writer>>
  BY DEF Write, IInv, WriterInv
<1>2. /\ ptr[s] \in Blocks /\ ptr[s] # NULL /\ s \notin {"SYNCED", "UNINITIALIZED"}
  BY <1>1, IInvParts, Disjoint DEF IInv, Coherent
<1>3. /\ content' \in [Blocks -> Nat] /\ latest' \in Nat /\ content'[ptr[s]] = latest'
  BY <1>1, <1>2, IInvParts
<1>4. Books' /\ TypeOK'
  BY <1>1, <1>3, IInvParts DEF IInv, Books, OwnsExactly, TypeOK
<1>5. Coherent' /\ UnusedInv' /\ WriterInv'
  BY <1>1, <1>2, <1>3 DEF IInv, Coherent, UnusedInv, WriterInv
<1> QED
  BY <1>4, <1>5 DEF IInv

(* Freed, or left with the device block that could not be freed. *)
LEMMA FreeIInv ==
  ASSUME IInv, Free
  PROVE  IInv'
<1> DEFINE c == "CPU"  m == "MLU"
<1>1. /\ Sides = {c, m} /\ Other(c) = m
      /\ Heap(c) \intersect Heap(m) = {} /\ Other(m) = c
  BY Disjoint DEF Sides, Other
<1>2. /\ mem' # "live" /\ mem' \in {"failed", "deleted"} /\ writer' = NULL
      /\ UNCHANGED <<ptr, head, content, latest>>
  BY DEF Free
<1>3. /\ own' \in [Sides -> BOOLEAN]
      /\ \A x \in Sides : own'[x] => own[x]
      /\ allocated' = {ptr[x] : x \in {y \in Sides : own'[y]}}
  <2>1. CASE /\ own' = [s \in Sides |-> FALSE]
             /\ allocated' = allocated \ {ptr[s] : s \in {x \in Sides : own[x]}}
    BY <2>1, IInvParts
  <2>2. CASE /\ own[m] /\ own' = [own EXCEPT ![c] = FALSE]
             /\ allocated' = IF own[c] THEN allocated \ {ptr[c]} ELSE allocated
    <3>1. /\ own'[c] = FALSE /\ own'[m] = TRUE /\ own[m] = TRUE /\ own' \in [Sides -> BOOLEAN]
      BY <1>1, <2>2, IInvParts
    <3>2. own[c] => ptr[c] # ptr[m]
      BY <1>1, <3>1, IInvParts
    <3>3. allocated' = {ptr[m]}
      BY <1>1, <2>2, <3>1, <3>2, IInvParts
    <3> QED
      BY <1>1, <3>1, <3>3
  <2> QED
    BY <2>1, <2>2 DEF Free
<1>4. allocated' \subseteq HostHeap \union DevHeap
  BY <1>3, IInvParts, Disjoint
<1>5. Books' /\ TypeOK'
  BY <1>2, <1>3, <1>4, IInvParts DEF Books, OwnsExactly, TypeOK
<1>6. Coherent' /\ UnusedInv' /\ WriterInv'
  BY <1>2, Disjoint DEF IInv, Coherent, UnusedInv, WriterInv
<1> QED
  BY <1>5, <1>6 DEF IInv

(* One case per function. *)
LEMMA NextIInv == IInv /\ [Next]_vars => IInv'
<1> SUFFICES ASSUME IInv, [Next]_vars PROVE IInv'
  OBVIOUS
<1>1. CASE UNCHANGED vars
  BY <1>1 DEF vars, IInv, TypeOK, Books, OwnsExactly, Coherent, UnusedInv, WriterInv
<1>2. ASSUME NEW s \in Sides, GetData(s) \/ GetMutableData(s) PROVE IInv'
  BY <1>2, GetIInv
<1>3. ASSUME NEW s \in Sides, CopyThrows(s) PROVE IInv'
  BY <1>3, CopyThrowsIInv
<1>4. ASSUME NEW s \in Sides, Write(s) PROVE IInv'
  BY <1>4, WriteIInv
<1>5. ASSUME NEW s \in Sides, NEW data \in User(s), SetData(s, data) PROVE IInv'
  BY <1>5, SetDataIInv
<1>6. CASE Free
  BY <1>6, FreeIInv
<1> QED
  BY <1>1, <1>2, <1>3, <1>4, <1>5, <1>6 DEF Next

(* The strengthened invariant holds in every reachable state. *)
THEOREM Invariance == Spec => []IInv
  BY InitIInv, NextIInv, PTL DEF Spec

(* The fields of GstSyncedMemory keep their types. *)
THEOREM TypeCorrect == Spec => []TypeOK
  BY Invariance, PTL DEF IInv

(* No getter of GstSyncedMemory returns stale data: the side the head      *)
(* names holds the last version written.                                   *)
THEOREM GettersCurrent == Spec => []Coherent
  BY Invariance, PTL DEF IInv

(* GstSyncedMemory frees each block it allocated once and no other block,  *)
(* and has freed all of them when cn_syncedmem_free returns true.          *)
THEOREM OwnershipKept == Spec => []OwnsExactly
  BY Invariance, PTL DEF IInv, Books
=============================================================================
