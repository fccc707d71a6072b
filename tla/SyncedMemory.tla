----------------------------- MODULE SyncedMemory -----------------------------
(***************************************************************************)
(* One GstSyncedMemory: a block of host memory and a block of device       *)
(* memory that stand for the same data.  The head says on which of them    *)
(* the data is current; a block is owned when the memory allocated it, and *)
(* the application's when it was put in with a setter.                     *)
(*                                                                         *)
(* The functions for the host and for the device mirror each other and are *)
(* written once, for a side.  A GstSyncedMemory is used by one thread at a *)
(* time, so a call is one step.  The data is a version number.             *)
(***************************************************************************)
EXTENDS Naturals

CONSTANTS
  HostHeap,      (* blocks malloc may return                                *)
  DevHeap,       (* blocks AllocMlu may return                              *)
  HostUser,      (* host blocks of the application                          *)
  DevUser,       (* device blocks of the application                        *)
  NULL,
  MaxVersion     (* bound: writes of the application                        *)

ASSUME BlockAssumption ==
  /\ HostHeap \intersect DevHeap = {} /\ HostUser \intersect DevUser = {}
  /\ (HostHeap \union DevHeap) \intersect (HostUser \union DevUser) = {}
  /\ NULL \notin HostHeap \union DevHeap \union HostUser \union DevUser \union {"CPU", "MLU"}

VARIABLES
  ptr,           (* host_ptr and dev_ptr                                    *)
  own,           (* own_host_data and own_dev_data                          *)
  head,
  mem,           (* live; failed, cn_syncedmem_free returned false; deleted *)
  allocated,     (* external: heap blocks allocated and not freed           *)
  content,       (* external: the version each block holds, 0 for none      *)
  latest,        (* history: the version written last                       *)
  writer         (* history: the side the application may write, or NULL    *)

vars == <<ptr, own, head, mem, allocated, content, latest, writer>>

Sides == {"CPU", "MLU"}
Other(s) == IF s = "CPU" THEN "MLU" ELSE "CPU"

Heap(s) == IF s = "CPU" THEN HostHeap ELSE DevHeap
User(s) == IF s = "CPU" THEN HostUser ELSE DevUser
Blocks  == UNION {Heap(s) \union User(s) : s \in Sides}

Heads == {"UNINITIALIZED", "SYNCED"} \union Sides

-----------------------------------------------------------------------------
(* cn_syncedmem_new of a positive size. *)
Init ==
  /\ ptr = [s \in Sides |-> NULL]
  /\ own = [s \in Sides |-> FALSE]
  /\ head = "UNINITIALIZED"
  /\ mem = "live"
  /\ allocated = {}
  /\ content = [b \in Blocks |-> 0]
  /\ latest = 0
  /\ writer = NULL

(* malloc or AllocMlu: a block that is not in use. *)
Allocate(s, b) ==
  /\ b \in Heap(s) \ allocated
  /\ ptr' = [ptr EXCEPT ![s] = b]
  /\ own' = [own EXCEPT ![s] = TRUE]
  /\ allocated' = allocated \union {b}

(* to_cpu and to_mlu, when nothing was written yet, ...                    *)
Materialize(s) ==
  /\ head = "UNINITIALIZED"
  /\ \E b \in Heap(s) : /\ Allocate(s, b)
                        /\ content' = [content EXCEPT ![b] = 0]

(* ... when the data is on the other side only, ...                        *)
CopyFrom(o, s) ==
  /\ head = o
  /\ \/ /\ ptr[s] = NULL
        /\ \E b \in Heap(s) : /\ Allocate(s, b)
                              /\ content' = [content EXCEPT ![b] = content[ptr[o]]]
     \/ /\ ptr[s] # NULL
        /\ content' = [content EXCEPT ![ptr[s]] = content[ptr[o]]]
        /\ UNCHANGED <<ptr, own, allocated>>

(* ... and when it is there. *)
Current(s) ==
  /\ head \in {s, "SYNCED"}
  /\ UNCHANGED <<ptr, own, allocated, content>>

(* cn_syncedmem_get_host_data, cn_syncedmem_get_dev_data. *)
GetData(s) ==
  /\ mem = "live"
  /\ \/ Materialize(s) /\ head' = s
     \/ CopyFrom(Other(s), s) /\ head' = "SYNCED"
     \/ Current(s) /\ UNCHANGED head
  /\ writer' = IF head' = writer THEN writer ELSE NULL
  /\ UNCHANGED <<mem, latest>>

(* Defect: the head stays where to_cpu or to_mlu put it. *)
GetMutableData_Synced(s) ==
  /\ mem = "live"
  /\ \/ Materialize(s) /\ head' = s
     \/ CopyFrom(Other(s), s) /\ head' = "SYNCED"
     \/ Current(s) /\ UNCHANGED head
  /\ writer' = s
  /\ UNCHANGED <<mem, latest>>

(* cn_syncedmem_get_mutable_host_data, cn_syncedmem_get_mutable_dev_data:  *)
(* what the application is about to write is on this side only.            *)
GetMutableData(s) ==
  /\ mem = "live"
  /\ Materialize(s) \/ CopyFrom(Other(s), s) \/ Current(s)
  /\ head' = s
  /\ writer' = s
  /\ UNCHANGED <<mem, latest>>

(* A getter throws.  When AllocMlu finds no device memory nothing changes; *)
(* when the copy fails the block is there and what it holds is lost.       *)
CopyThrows(s) ==
  /\ mem = "live"
  /\ head = Other(s)
  /\ \/ /\ ptr[s] = NULL
        /\ \E b \in Heap(s) : Allocate(s, b) /\ content' = [content EXCEPT ![b] = 0]
     \/ /\ ptr[s] # NULL
        /\ content' = [content EXCEPT ![ptr[s]] = 0]
        /\ UNCHANGED <<ptr, own, allocated>>
  /\ UNCHANGED <<head, mem, latest, writer>>

(* Defect: the block of the application is taken for an own one. *)
SetData_Owned(s, data) ==
  /\ mem = "live"
  /\ latest < MaxVersion
  /\ allocated' = IF own[s] THEN allocated \ {ptr[s]} ELSE allocated
  /\ ptr' = [ptr EXCEPT ![s] = data]
  /\ head' = s
  /\ latest' = latest + 1
  /\ content' = [content EXCEPT ![data] = latest']
  /\ writer' = s
  /\ UNCHANGED <<own, mem>>

(* cn_syncedmem_set_host_data, cn_syncedmem_set_dev_data with a block that *)
(* holds new data.  NULL is refused.  FreeMlu may throw: the memory is     *)
(* left as it was and the setter returns false, a step without effect.     *)
SetData(s, data) ==
  /\ mem = "live"
  /\ latest < MaxVersion
  /\ allocated' = IF own[s] THEN allocated \ {ptr[s]} ELSE allocated
  /\ ptr' = [ptr EXCEPT ![s] = data]
  /\ own' = [own EXCEPT ![s] = FALSE]
  /\ head' = s
  /\ latest' = latest + 1
  /\ content' = [content EXCEPT ![data] = latest']
  /\ writer' = s
  /\ UNCHANGED mem

(* The application writes through a mutable pointer, until it asks for the *)
(* data on the other side.                                                 *)
Write(s) ==
  /\ mem = "live" /\ writer = s
  /\ latest < MaxVersion
  /\ latest' = latest + 1
  /\ content' = [content EXCEPT ![ptr[s]] = latest']
  /\ UNCHANGED <<ptr, own, head, mem, allocated, writer>>

(* cn_syncedmem_free: the host block first, then the device block, whose   *)
(* release may throw; false leaves a memory that can only be freed again.  *)
Free ==
  /\ mem \in {"live", "failed"}
  /\ writer' = NULL
  /\ \/ /\ mem' = "deleted"
        /\ own' = [s \in Sides |-> FALSE]
        /\ allocated' = allocated \ {ptr[s] : s \in {x \in Sides : own[x]}}
     \/ /\ own["MLU"]
        /\ mem' = "failed"
        /\ own' = [own EXCEPT !["CPU"] = FALSE]
        /\ allocated' = IF own["CPU"] THEN allocated \ {ptr["CPU"]} ELSE allocated
  /\ UNCHANGED <<ptr, head, content, latest>>

Next ==
  \/ \E s \in Sides : \/ GetData(s) \/ GetMutableData(s) \/ CopyThrows(s) \/ Write(s)
                      \/ \E data \in User(s) : SetData(s, data)
  \/ Free

Spec == Init /\ [][Next]_vars

-----------------------------------------------------------------------------
(* The fields of GstSyncedMemory have their types. *)
TypeOK ==
  /\ ptr \in [Sides -> Blocks \union {NULL}]
  /\ \A s \in Sides : ptr[s] \in Heap(s) \union User(s) \union {NULL}
  /\ own \in [Sides -> BOOLEAN]
  /\ head \in Heads
  /\ mem \in {"live", "failed", "deleted"}
  /\ allocated \subseteq HostHeap \union DevHeap
  /\ content \in [Blocks -> Nat]
  /\ latest \in Nat
  /\ writer \in Sides \union {NULL}

(* Whatever getters, setters, writes and failed copies came before, the    *)
(* side the head names holds what was written last: no getter returns      *)
(* stale data and no copy overwrites newer data.                           *)
Coherent ==
  mem = "live" => \A s \in Sides :
    head \in {s, "SYNCED"} => ptr[s] # NULL /\ content[ptr[s]] = latest

(* The blocks allocated are those the memory owns: none is lost, freed     *)
(* twice or freed while a pointer to it is in use, none of the application *)
(* is freed, and after a successful free nothing is left, failed attempts  *)
(* before it included.                                                     *)
OwnsExactly ==
  /\ allocated = {ptr[s] : s \in {x \in Sides : own[x]}}
  /\ mem = "live" => \A s \in Sides : ptr[s] \in Heap(s) => own[s]
=============================================================================
