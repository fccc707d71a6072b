----------------------------- MODULE ResizeConvert -----------------------------
(***************************************************************************)
(* edk::MluResizeConvertOp: inputs are collected until one call converts   *)
(* a batch of them on a task queue, the operator's own or one that the     *)
(* application shares with it.  A queue on which a kernel failed is of no  *)
(* use any more; the operator then takes a new one, unless it is shared.   *)
(***************************************************************************)
EXTENDS MluTaskQueue

CONSTANTS
  BatchSize,     (* attr_.batch_size                                        *)
  MaxInputs      (* bound: inputs given to BatchingUp                       *)

ASSUME BatchAssumption == BatchSize \in Nat \ {0} /\ MaxInputs \in Nat

VARIABLES
  initialized,   (* are the buffers and the kernel's parameters there?      *)
  shared_queue,  (* shared_queue_                                           *)
  cache,         (* input_datas_cache_: inputs, numbered as they came       *)
  inputs,        (* history: how many inputs came                           *)
  batch,         (* the pointers last copied for a launch                   *)
  taken,         (* history: the last input taken out of the cache          *)
  spoiled,       (* external: queues on which a kernel failed               *)
  stuck          (* history: the spoiled queue that had no replacement      *)

opVars == <<initialized, shared_queue, cache, inputs, batch, taken, spoiled, stuck>>
deviceVars == <<created, held, queue, marks, marks_valid, markVars, opVars>>

InitOp ==
  /\ InitQueues
  /\ initialized = FALSE /\ shared_queue = FALSE
  /\ cache = <<>> /\ inputs = 0 /\ batch = <<>> /\ taken = 0
  /\ spoiled = {} /\ stuck = NoQueue

(* Init, when every allocation succeeds.  One that fails leaves an         *)
(* operator on which only Destroy may be called, which undoes the rest.    *)
Initialize ==
  /\ ~initialized
  /\ initialized' = TRUE
  /\ UNCHANGED <<held, queue, queueVars, markVars,
                 shared_queue, cache, inputs, batch, taken, spoiled, stuck>>

SetMluQueue(q) ==
  /\ q \in held
  /\ queue' = q /\ shared_queue' = TRUE
  /\ UNCHANGED <<held, queueVars, markVars,
                 initialized, cache, inputs, batch, taken, spoiled, stuck>>

GetMluQueue ==
  /\ queue # NoQueue /\ queue \notin held
  /\ held' = held \union {queue}
  /\ UNCHANGED <<queue, queueVars, markVars, opVars>>

BatchingUp ==
  /\ inputs < MaxInputs
  /\ inputs' = inputs + 1
  /\ cache' = Append(cache, inputs')
  /\ UNCHANGED <<held, queue, queueVars, markVars,
                 initialized, shared_queue, batch, taken, spoiled, stuck>>

(* The queue is made when there is none, before anything else.             *)
PrepareTaskQueue ==
  \/ /\ queue # NoQueue
     /\ UNCHANGED <<queue, shared_queue, queueVars>>
  \/ /\ queue = NoQueue
     /\ \E q \in Queues : Create(q) /\ queue' = q
     /\ shared_queue' = FALSE

SyncNothing ==
  /\ initialized /\ cache = <<>>
  /\ PrepareTaskQueue
  /\ UNCHANGED <<held, markVars, initialized, cache, inputs, batch, taken,
                 spoiled, stuck>>

(* A batch: the inputs at the front, filled up with the first of them.     *)
Padded ==
  [i \in 1 .. BatchSize |-> IF i \in DOMAIN cache THEN cache[i] ELSE cache[1]]

(* Defect: what fills the batch up stays in the cache. *)
TakeBatch_KeepFill ==
  /\ initialized /\ cache # <<>>
  /\ batch' = Padded
  /\ cache' = IF Len(cache) < BatchSize THEN Tail(Padded)
              ELSE SubSeq(cache, BatchSize + 1, Len(cache))
  /\ taken' = cache[IF Len(cache) < BatchSize THEN Len(cache) ELSE BatchSize]
  /\ UNCHANGED <<held, markVars, initialized, inputs>>

TakeBatch ==
  /\ initialized /\ cache # <<>>
  /\ batch' = Padded
  /\ cache' = SubSeq(cache, BatchSize + 1, Len(cache))
  /\ taken' = cache[IF Len(cache) < BatchSize THEN Len(cache) ELSE BatchSize]
  /\ UNCHANGED <<held, markVars, initialized, inputs>>

(* The copies to the device fail, or the kernel is launched.               *)
SyncDone ==
  /\ TakeBatch /\ PrepareTaskQueue
  /\ UNCHANGED <<spoiled, stuck>>

(* The kernel fails, and with it the queue of this launch: the one that    *)
(* was there or the one this call made.                                    *)
LaunchQueue(q) ==
  \/ q = queue /\ q # NoQueue
  \/ queue = NoQueue /\ q \in Queues \ created

(* Defect: the queue that failed is kept when the call itself made it. *)
KernelFails_KeepNew ==
  /\ TakeBatch
  /\ \E q \in Queues :
       /\ LaunchQueue(q)
       /\ spoiled' = spoiled \union {q}
       /\ IF queue = NoQueue
          THEN /\ created' = created \union {q} /\ queue' = q
               /\ UNCHANGED <<marks, marks_valid>>
          ELSE \/ shared_queue /\ UNCHANGED <<queue, queueVars>>
               \/ /\ ~shared_queue
                  /\ \E new \in Queues : Create(new) /\ queue' = new
  /\ shared_queue' = (shared_queue /\ queue # NoQueue)
  /\ UNCHANGED stuck

(* The operator takes a new queue, unless the one that failed is shared.   *)
KernelFails ==
  /\ TakeBatch
  /\ \E q \in Queues :
       /\ LaunchQueue(q)
       /\ spoiled' = spoiled \union {q}
       /\ \/ /\ shared_queue /\ q = queue
             /\ UNCHANGED <<queue, queueVars>>
          \/ /\ ~(shared_queue /\ q = queue)
             /\ \E new \in Queues \ (created \union {q}) :
                  created' = created \union {q, new} /\ queue' = new
             /\ UNCHANGED <<marks, marks_valid>>
  /\ shared_queue' = (shared_queue /\ queue # NoQueue)
  /\ UNCHANGED stuck

(* ... and cannot create one: the exception leaves it with the old one.    *)
KernelFailsForGood ==
  /\ TakeBatch
  /\ \E q \in Queues :
       /\ LaunchQueue(q)
       /\ ~(shared_queue /\ q = queue)
       /\ created' = created \union {q} /\ queue' = q
       /\ spoiled' = spoiled \union {q} /\ stuck' = q
  /\ UNCHANGED <<marks, marks_valid>>
  /\ shared_queue' = (shared_queue /\ queue # NoQueue)

Destroy ==
  /\ initialized
  /\ initialized' = FALSE
  /\ cache' = <<>> /\ batch' = <<>> /\ taken' = inputs
  /\ UNCHANGED <<held, queue, queueVars, markVars,
                 shared_queue, inputs, spoiled, stuck>>

(* The operator is deleted; the next one starts without a queue.           *)
DeleteOp ==
  /\ initialized' = FALSE
  /\ cache' = <<>> /\ batch' = <<>> /\ taken' = inputs
  /\ queue' = NoQueue /\ shared_queue' = FALSE /\ stuck' = NoQueue
  /\ UNCHANGED <<held, queueVars, markVars, inputs, spoiled>>

NextOp ==
  \/ Initialize \/ GetMluQueue \/ BatchingUp \/ Destroy \/ DeleteOp
  \/ SyncNothing \/ SyncDone \/ KernelFails \/ KernelFailsForGood
  \/ \E q \in Queues : SetMluQueue(q)

NextDevice == (NextQueues /\ UNCHANGED opVars) \/ NextOp

SpecDevice == InitOp /\ [][NextDevice]_deviceVars

-----------------------------------------------------------------------------
DeviceTypeOK ==
  /\ QueuesTypeOK
  /\ initialized \in BOOLEAN /\ shared_queue \in BOOLEAN
  /\ stuck \in created \union {NoQueue}
  /\ cache \in Seq(1 .. inputs) /\ inputs \in Nat /\ taken \in 0 .. inputs
  /\ batch \in Seq(1 .. inputs)
  /\ spoiled \in SUBSET created

(* "Queue becomes invalid when an error occurs" (resize_and_colorcvt.cpp:  *)
(* 290): no batch is launched on a queue that failed before, unless the    *)
(* queue is the application's or no other could be created in its place.   *)
SpoiledNotReused == queue \in spoiled => shared_queue \/ queue = stuck

(* Batches take the inputs in the order they came, each input once; only   *)
(* the last batch of what was there is filled up, with its first input,    *)
(* and nothing of the filling is left for the next (lines 224-238).        *)
BatchInOrder ==
  [][batch' # batch /\ batch' # <<>> =>
       \E n \in 1 .. BatchSize :
         /\ \A i \in 1 .. n : batch'[i] = taken + i
         /\ \A i \in n + 1 .. BatchSize : batch'[i] = taken + 1
         /\ n < BatchSize => cache' = <<>>]_deviceVars
=============================================================================
