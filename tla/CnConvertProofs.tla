---------------------------- MODULE CnConvertProofs ----------------------------
(***************************************************************************)
(* Proofs about CnConvert for any memories, picture sizes and numbers of   *)
(* frames and failed releases, and about ResizeConvert, the operator it    *)
(* runs, with the task queues that one shares with others.                 *)
(***************************************************************************)
EXTENDS CnConvert, ResizeConvert, SequenceTheorems, TLAPS

-----------------------------------------------------------------------------
(* The inductive invariant, in parts.                                      *)

(* What setcaps accepted is what the flags and the caps of now say.        *)
CapsInv ==
  negotiated =>
    /\ src_info.fmt \in FilterCaps(sink_info.fmt)
    /\ disable_resize = (sink_info.size = src_info.size)
    /\ disable_convert = (sink_info.fmt = src_info.fmt)
    /\ Supported(sink_info, src_info)

(* What a frame's result needs. *)
NeededBytes == IF disable_convert THEN ResizedBytes ELSE ConvertedBytes

IInv == /\ TypeOK /\ CapsInv
        /\ KeptMemoryFits /\ FramesOwnTheirMemory /\ NothingLost

-----------------------------------------------------------------------------
(* Every conversion writes something, and four channels hold any result.   *)
LEMMA Sizes ==
  ASSUME TypeOK
  PROVE  /\ ResizedBytes \in Nat \ {0} /\ ConvertedBytes \in Nat \ {0}
         /\ NeededBytes \in Nat \ {0}
         /\ src_info.size * 4 \in Nat \ {0}
         /\ src_info.size * 4 >= ConvertedBytes
<1> DEFINE n == src_info.size
<1>1. n \in Nat \ {0}
  BY ConvertAssumption DEF TypeOK, Infos
<1>2. /\ Channels(sink_info.fmt) \in {1, 3, 4}
      /\ Channels(src_info.fmt) \in {1, 3, 4}
  BY DEF TypeOK, Infos, Formats, Channels
<1>3. \A k \in {1, 3, 4} : n * k \in Nat \ {0} /\ n * 4 >= n * k
  BY <1>1
<1> QED BY <1>2, <1>3 DEF ResizedBytes, ConvertedBytes, NeededBytes

(* A conversion in one step: the memory it writes is that of the last      *)
(* failed frame or a new one, and leaves with the frame or is kept.        *)
LEMMA FinishKeeps ==
  ASSUME IInv, NEW m \in Mems, NEW n \in Nat \ {0}, n >= NeededBytes,
         Chain, Finish(m, n), tmp_mem' = tmp_mem
  PROVE  IInv'
<1> USE ConvertAssumption
<1> DEFINE b == Allocated(bytes, mlu_dst_mem, m, n)
<1>1. /\ NeededBytes' = NeededBytes /\ ResizedBytes' = ResizedBytes
      /\ NeededBytes \in Nat \ {0} /\ ResizedBytes \in Nat \ {0}
  BY Sizes DEF IInv, Chain, caps, flags, NeededBytes, ResizedBytes, ConvertedBytes
<1>2. /\ Destination(mlu_dst_mem, m)
      /\ PushFrame(m, b) \/ KeepResult(m, b)
  BY DEF Finish
<1>3. /\ m \notin frames /\ m # tmp_mem
      /\ mlu_dst_mem # NoMem => m = mlu_dst_mem
  BY <1>2 DEF IInv, FramesOwnTheirMemory, Destination, Fresh, Kept, NothingLost, TypeOK
<1>4. /\ b \in [Mems -> Nat] /\ b[m] >= NeededBytes
      /\ \A o \in Mems \ {m} : b[o] = bytes[o]
  BY <1>1, <1>2 DEF IInv, TypeOK, Allocated, Destination, KeptMemoryFits, NeededBytes, Chain
<1> HIDE DEF b
<1>5. /\ UNCHANGED <<sink_info, src_info, output_on_mlu, disable_resize, disable_convert,
                     negotiated, finalized, lost, broken>>
      /\ negotiated
  BY DEF Chain, caps, flags
<1>6. TypeOK' /\ CapsInv'
  BY <1>2, <1>4, <1>5 DEF IInv, TypeOK, CapsInv, PushFrame, KeepResult
<1>7. CASE KeepResult(m, b)
  <2>1. mlu_dst_mem' = m /\ bytes' = b /\ frames' = frames
    BY <1>7 DEF KeepResult
  <2>2. KeptMemoryFits'
    BY <1>1, <1>3, <1>4, <1>5, <2>1 DEF IInv, TypeOK, KeptMemoryFits, NeededBytes
  <2>3. FramesOwnTheirMemory'
    BY <1>3, <1>4, <2>1 DEF IInv, TypeOK, FramesOwnTheirMemory, Kept
  <2>4. NothingLost'
    BY <1>3, <1>4, <1>5, <2>1 DEF IInv, TypeOK, NothingLost, Kept
  <2> QED BY <1>6, <2>2, <2>3, <2>4 DEF IInv
<1>8. CASE PushFrame(m, b)
  <2>1. /\ mlu_dst_mem' = NoMem
        /\ \/ frames' = frames \union {m} /\ bytes' = b
           \/ frames' = frames /\ bytes' = [b EXCEPT ![m] = 0]
    BY <1>8 DEF PushFrame
  <2>2. KeptMemoryFits'
    BY <1>1, <1>3, <1>4, <1>5, <2>1 DEF IInv, TypeOK, KeptMemoryFits, NeededBytes
  <2>3. FramesOwnTheirMemory'
    BY <1>1, <1>3, <1>4, <2>1 DEF IInv, TypeOK, FramesOwnTheirMemory, Kept
  <2>4. NothingLost'
    BY <1>3, <1>4, <1>5, <2>1 DEF IInv, TypeOK, NothingLost, Kept
  <2> QED BY <1>6, <2>2, <2>3, <2>4 DEF IInv
<1> QED BY <1>2, <1>7, <1>8

(* Resize and conversion one after the other: the first result stays with  *)
(* the element, the second is never written over it.                       *)
LEMMA TwoStepsKeep == ASSUME IInv, ChainResizeThenConvert PROVE IInv'
<1> USE ConvertAssumption
<1>1. PICK t \in Mems, m \in Mems :
        LET b == Allocated(bytes, tmp_mem, t, ResizedBytes)
            c == Allocated(b, mlu_dst_mem, m, ConvertedBytes)
        IN  /\ Destination(tmp_mem, t)
            /\ tmp_mem' = t
            /\ \/ /\ KernelMayFail
                  /\ bytes' = b
                  /\ UNCHANGED <<mlu_dst_mem, frames>>
               \/ /\ m # t
                  /\ Destination(mlu_dst_mem, m)
                  /\ PushFrame(m, c) \/ KeepResult(m, c)
  BY DEF ChainResizeThenConvert
<1> DEFINE b == Allocated(bytes, tmp_mem, t, ResizedBytes)
           c == Allocated(b, mlu_dst_mem, m, ConvertedBytes)
<1>2. /\ ConvertedBytes' = ConvertedBytes /\ ResizedBytes' = ResizedBytes
      /\ ConvertedBytes \in Nat \ {0} /\ ResizedBytes \in Nat \ {0}
  BY Sizes DEF IInv, ChainResizeThenConvert, Chain, caps, flags, ResizedBytes,
               ConvertedBytes
<1>3. /\ UNCHANGED <<sink_info, src_info, output_on_mlu, disable_resize, disable_convert,
                     negotiated, finalized, lost, broken>>
      /\ negotiated /\ ~disable_convert
  BY DEF ChainResizeThenConvert, Chain, caps, flags
<1>4. /\ t \notin frames /\ t # mlu_dst_mem /\ tmp_mem' = t
      /\ tmp_mem # NoMem => t = tmp_mem
  BY <1>1 DEF IInv, TypeOK, FramesOwnTheirMemory, Destination, Fresh, Kept
<1>5. /\ b \in [Mems -> Nat] /\ b[t] >= ResizedBytes
      /\ \A o \in Mems \ {t} : b[o] = bytes[o]
  BY <1>1, <1>2, <1>3 DEF IInv, TypeOK, Allocated, Destination, KeptMemoryFits
<1>6. CASE bytes' = b /\ UNCHANGED <<mlu_dst_mem, frames>>
  <2>1. TypeOK' /\ CapsInv'
    BY <1>3, <1>4, <1>5, <1>6 DEF IInv, TypeOK, CapsInv
  <2>2. KeptMemoryFits'
    BY <1>2, <1>3, <1>4, <1>5, <1>6 DEF IInv, TypeOK, KeptMemoryFits
  <2>3. FramesOwnTheirMemory'
    BY <1>3, <1>4, <1>5, <1>6 DEF IInv, TypeOK, FramesOwnTheirMemory, Kept
  <2>4. NothingLost'
    BY <1>3, <1>4, <1>5, <1>6 DEF IInv, TypeOK, NothingLost, Kept
  <2> QED BY <2>1, <2>2, <2>3, <2>4 DEF IInv
<1>7. ASSUME m # t, Destination(mlu_dst_mem, m), PushFrame(m, c) \/ KeepResult(m, c)
      PROVE  IInv'
  <2>1. /\ m \notin frames
        /\ mlu_dst_mem # NoMem => m = mlu_dst_mem
    BY <1>7 DEF IInv, TypeOK, FramesOwnTheirMemory, Destination, Fresh, Kept
  <2>2. /\ c \in [Mems -> Nat] /\ c[t] >= ResizedBytes /\ c[m] >= ConvertedBytes
        /\ \A o \in Mems \ {t, m} : c[o] = bytes[o]
    <3> HIDE DEF b
    <3> QED BY <1>2, <1>3, <1>5, <1>7 DEF IInv, TypeOK, Allocated, Destination,
               KeptMemoryFits
  <2> HIDE DEF c
  <2>3. TypeOK' /\ CapsInv'
    BY <1>3, <1>4, <1>7, <2>2 DEF IInv, TypeOK, CapsInv, PushFrame, KeepResult
  <2>4. \/ mlu_dst_mem' = m /\ bytes' = c /\ frames' = frames
        \/ mlu_dst_mem' = NoMem /\ bytes' = c /\ frames' = frames \union {m}
        \/ /\ mlu_dst_mem' = NoMem /\ bytes' = [c EXCEPT ![m] = 0]
           /\ frames' = frames
    BY <1>7 DEF PushFrame, KeepResult
  <2>5. KeptMemoryFits'
    BY <1>2, <1>3, <1>4, <1>7, <2>1, <2>2, <2>4 DEF IInv, TypeOK, KeptMemoryFits
  <2>6. FramesOwnTheirMemory'
    BY <1>2, <1>4, <1>7, <2>1, <2>2, <2>4 DEF IInv, TypeOK, FramesOwnTheirMemory, Kept
  <2>7. NothingLost'
    BY <1>3, <1>4, <1>7, <2>1, <2>2, <2>4 DEF IInv, TypeOK, NothingLost, Kept
  <2> QED BY <2>3, <2>5, <2>6, <2>7 DEF IInv
<1> QED BY <1>1, <1>6, <1>7

(* New caps that are accepted leave no memory of the old ones; those that  *)
(* are refused leave nothing that a chain could use.                       *)
LEMMA SetcapsKeeps ==
  ASSUME IInv, NEW in \in Infos, NEW out \in Infos, NEW on_mlu \in BOOLEAN,
         Setcaps(in, out, on_mlu)
  PROVE  IInv'
<1> USE ConvertAssumption
<1>1. /\ sink_info' = in /\ src_info' = out /\ output_on_mlu' = on_mlu
      /\ disable_resize' = (in.size = out.size)
      /\ disable_convert' = (in.fmt = out.fmt)
      /\ out.fmt \in FilterCaps(in.fmt)
      /\ finalized' = finalized
  BY DEF Setcaps
<1>2. CASE ~Supported(in, out)
  <2>1. negotiated' = FALSE
        /\ UNCHANGED <<mlu_dst_mem, tmp_mem, bytes, frames, lost, broken>>
    BY <1>2 DEF Setcaps, memory
  <2> QED
    BY <1>1, <2>1 DEF IInv, TypeOK, CapsInv, KeptMemoryFits, FramesOwnTheirMemory,
                      NothingLost, Kept
<1>3. CASE Supported(in, out)
  <2>1. ReleaseBuffers
    BY <1>3 DEF Setcaps
  <2>2. ASSUME \A m \in Kept : FreeReturnsFalse(m), negotiated' = TRUE,
               mlu_dst_mem' = NoMem, tmp_mem' = NoMem, lost' = lost \union Kept,
               UNCHANGED <<bytes, frames, broken>>
        PROVE  IInv'
    BY <1>1, <1>3, <2>2 DEF IInv, TypeOK, CapsInv, KeptMemoryFits,
                            FramesOwnTheirMemory, NothingLost, Kept
  <2>3. ASSUME FreeReturnsTrue(mlu_dst_mem), negotiated' = FALSE,
               UNCHANGED <<mlu_dst_mem, tmp_mem, frames, lost, broken>>
        PROVE  IInv'
    BY <1>1, <2>3 DEF IInv, TypeOK, CapsInv, KeptMemoryFits, FramesOwnTheirMemory,
                      NothingLost, Kept, FreeReturnsTrue, InUse
  <2>4. ASSUME mlu_dst_mem = NoMem \/ FreeReturnsFalse(mlu_dst_mem),
               FreeReturnsTrue(tmp_mem), negotiated' = FALSE, mlu_dst_mem' = NoMem,
               lost' = lost \union ({mlu_dst_mem} \ {NoMem}),
               UNCHANGED <<tmp_mem, frames, broken>>
        PROVE  IInv'
    BY <1>1, <2>4 DEF IInv, TypeOK, CapsInv, KeptMemoryFits, FramesOwnTheirMemory,
                      NothingLost, Kept, FreeReturnsTrue, InUse
  <2>5. ASSUME broken' = TRUE, negotiated' = FALSE,
               UNCHANGED <<mlu_dst_mem, tmp_mem, bytes, frames, lost>>
        PROVE  IInv'
    BY <1>1, <2>5 DEF IInv, TypeOK, CapsInv, KeptMemoryFits, FramesOwnTheirMemory,
                      NothingLost, Kept
  <2> QED BY <2>1, <2>2, <2>3, <2>4, <2>5 DEF ReleaseBuffers
<1> QED BY <1>2, <1>3

(* Init makes the invariant hold and every step keeps it.                  *)
LEMMA Inductive ==
  /\ Init => IInv
  /\ IInv /\ [Next]_vars => IInv'
<1> USE ConvertAssumption
<1>1. ASSUME Init PROVE IInv
  <2>1. TypeOK
    BY <1>1 DEF Init, TypeOK
  <2>2. CapsInv /\ KeptMemoryFits
    BY <1>1 DEF Init, CapsInv, KeptMemoryFits
  <2>3. FramesOwnTheirMemory /\ NothingLost
    BY <1>1 DEF Init, FramesOwnTheirMemory, NothingLost
  <2> QED BY <2>1, <2>2, <2>3 DEF IInv
<1>2. ASSUME IInv, [Next]_vars PROVE IInv'
  <2> USE <1>2
  <2>1. ASSUME NEW in \in Infos, SetcapsRefused(in) PROVE IInv'
    <3>1. /\ sink_info' \in Infos /\ src_info' \in Infos /\ negotiated' = FALSE
          /\ UNCHANGED <<output_on_mlu, disable_resize, disable_convert, finalized>>
          /\ UNCHANGED <<mlu_dst_mem, tmp_mem, bytes, frames, lost, broken>>
      BY <2>1 DEF SetcapsRefused, IInv, TypeOK, flags, memory
    <3> QED
      BY <3>1 DEF IInv, TypeOK, CapsInv, KeptMemoryFits, FramesOwnTheirMemory,
                  NothingLost, Kept
  <2>2. ASSUME NEW in \in Infos, NEW out \in Infos, NEW on_mlu \in BOOLEAN,
               Setcaps(in, out, on_mlu)
        PROVE  IInv'
    BY <2>2, SetcapsKeeps
  <2>3. CASE ChainResize
    BY <2>3, FinishKeeps, Sizes DEF ChainResize, NeededBytes, IInv
  <2>4. CASE ChainConvert
    BY <2>4, FinishKeeps, Sizes DEF ChainConvert, NeededBytes, IInv
  <2>5. CASE ChainResizeConvert
    BY <2>5, FinishKeeps, Sizes DEF ChainResizeConvert, NeededBytes, IInv
  <2>6. CASE ChainResizeThenConvert
    BY <2>6, TwoStepsKeep
  <2>7. ASSUME NEW m \in Mems, gst_mlu_frame_free(m) PROVE IInv'
    <3>1. m \in frames /\ m \notin Kept /\ frames' = frames \ {m}
      BY <2>7 DEF gst_mlu_frame_free, IInv, FramesOwnTheirMemory
    <3>2. UNCHANGED <<sink_info, src_info, output_on_mlu, disable_resize,
                      disable_convert, negotiated, finalized, mlu_dst_mem, tmp_mem, broken>>
      BY <2>7 DEF gst_mlu_frame_free, caps, flags
    <3>3. \/ bytes' = [bytes EXCEPT ![m] = 0] /\ lost' = lost
          \/ bytes' = bytes /\ lost' = lost \union {m}
      BY <2>7 DEF gst_mlu_frame_free, FreeReturnsTrue
    <3> QED
      BY <3>1, <3>2, <3>3 DEF IInv, TypeOK, CapsInv, KeptMemoryFits,
         FramesOwnTheirMemory, NothingLost, Kept, ResizedBytes, ConvertedBytes
  <2>8. CASE Finalize
    <3>1. PICK failed \in SUBSET Kept :
            /\ lost' = lost \union failed
            /\ bytes' = [m \in Mems |-> IF m \in Kept \ failed THEN 0 ELSE bytes[m]]
      BY <2>8 DEF Finalize
    <3>2. /\ mlu_dst_mem' = NoMem /\ tmp_mem' = NoMem /\ negotiated' = FALSE
          /\ finalized' \in BOOLEAN /\ broken' \in BOOLEAN
          /\ UNCHANGED <<sink_info, src_info, output_on_mlu, disable_resize,
                         disable_convert, frames>>
      BY <2>8 DEF Finalize, caps, flags
    <3>3. failed \subseteq Mems /\ Kept \subseteq Mems
      BY <3>1 DEF IInv, TypeOK, Kept
    <3>4. TypeOK'
      BY <3>1, <3>2, <3>3 DEF IInv, TypeOK
    <3>5. CapsInv' /\ KeptMemoryFits'
      BY <3>2 DEF CapsInv, KeptMemoryFits
    <3>6. FramesOwnTheirMemory'
      BY <3>1, <3>2 DEF IInv, TypeOK, FramesOwnTheirMemory, Kept
    <3>7. NothingLost'
      BY <3>1, <3>2, <3>3 DEF IInv, TypeOK, NothingLost
    <3> QED BY <3>4, <3>5, <3>6, <3>7 DEF IInv
  <2>9. CASE UNCHANGED vars
    BY <2>9 DEF vars, caps, flags, memory, IInv, TypeOK, CapsInv, KeptMemoryFits,
                FramesOwnTheirMemory, NothingLost, Kept, ResizedBytes, ConvertedBytes
  <2> QED
    BY <2>1, <2>2, <2>3, <2>4, <2>5, <2>6, <2>7, <2>8, <2>9 DEF Next
<1> QED BY <1>1, <1>2

-----------------------------------------------------------------------------
(* The strengthened invariant of CnConvert holds in every reachable state. *)
THEOREM Invariance == Spec => []IInv
  BY Inductive, PTL DEF Spec

(* The members of GstCnconvertPrivate keep their types.                    *)
THEOREM TypeCorrect == Spec => []TypeOK
<1>1. IInv => TypeOK
  BY DEF IInv
<1> QED BY <1>1, Invariance, PTL

(* A memory that chain keeps is large enough for what it writes next, for  *)
(* all picture sizes and whatever caps and failures came in between.       *)
THEOREM KeptMemoriesFit == Spec => []KeptMemoryFits
<1>1. IInv => KeptMemoryFits
  BY DEF IInv
<1> QED BY <1>1, Invariance, PTL

(* A memory belongs to the element or to one frame downstream, never to    *)
(* both, for any number of frames.                                         *)
THEOREM OneOwner == Spec => []FramesOwnTheirMemory
<1>1. IInv => FramesOwnTheirMemory
  BY DEF IInv
<1> QED BY <1>1, Invariance, PTL

(* No memory is lost but those whose release failed.                       *)
THEOREM MemoryAccounted == Spec => []NothingLost
<1>1. IInv => NothingLost
  BY DEF IInv
<1> QED BY <1>1, Invariance, PTL

(* Every conversion that accepted caps lead to is one that the library     *)
(* functions offer.                                                        *)
THEOREM OnlySupportedConversions == Spec => []KernelSupports
<1>1. IInv => KernelSupports
  BY DEF IInv, TypeOK, Infos, Formats, CapsInv, Supported, FilterCaps, KernelSupports,
         isRGB, isYUV420sp
<1> QED BY <1>1, Invariance, PTL

-----------------------------------------------------------------------------
(* ResizeConvert and the task queues it uses, for any number of queues,    *)
(* Marks and callers, any batch size and any limit on the indices.         *)

(* The two vectors of a queue have the same length: what the constructor   *)
(* of its private part and PlaceMark must keep for the indices to make     *)
(* sense.                                                                  *)
SameLength ==
  /\ marks \in [Queues -> Nat]
  /\ marks_valid \in [Queues -> Seq(BOOLEAN)]
  /\ \A q \in Queues : Len(marks_valid[q]) = marks[q]

References ==
  /\ created \in SUBSET Queues /\ held \in SUBSET created
  /\ queue \in created \union {NoQueue}
  /\ mark \in [Marks -> Label \union {NoMark}]
  /\ placing \in [Callers -> Label \union {NoMark}]
  /\ contested \in SUBSET Label

(* What the vectors say of an index, now and after a step.                 *)
TakenIndex(l) == l.idx \in 1 .. marks[l.queue] /\ ~marks_valid[l.queue][l.idx]
FreeIndex(l) == l.idx \in 1 .. marks[l.queue] /\ marks_valid[l.queue][l.idx]

TakenNext(l) == l.idx \in 1 .. marks'[l.queue] /\ ~marks_valid'[l.queue][l.idx]
FreeNext(l) == l.idx \in 1 .. marks'[l.queue] /\ marks_valid'[l.queue][l.idx]

(* The index that a Mark has is taken and no other Mark's.  One that a     *)
(* caller found is still free, and no other caller's: that no Mark has it  *)
(* follows from the flag.                                                  *)
OwnInv ==
  /\ \A m \in Marks : mark[m] \notin contested \union {NoMark} =>
       /\ TakenIndex(mark[m])
       /\ \A n \in Marks : mark[n] = mark[m] => n = m
  /\ \A c \in Callers : placing[c] \notin contested \union {NoMark} =>
       /\ FreeIndex(placing[c])
       /\ \A d \in Callers : placing[d] = placing[c] => d = c

MarksInv == SameLength /\ References /\ OwnInv

(* The steps of the operator change no vector and no Mark, and the queues  *)
(* they create are new ones.                                               *)
OpKeepsMarks ==
  /\ UNCHANGED <<marks, marks_valid, mark, placing, contested>>
  /\ created' \in SUBSET Queues /\ created \subseteq created'
  /\ held' \in SUBSET created' /\ queue' \in created' \union {NoQueue}

(* A step of the operator changes no vector and no Mark.                   *)
LEMMA OpStep == ASSUME References, NextOp PROVE OpKeepsMarks
<1>1. CASE Initialize
  BY <1>1 DEF Initialize, References, OpKeepsMarks, queueVars, markVars
<1>2. CASE GetMluQueue
  BY <1>2 DEF GetMluQueue, References, OpKeepsMarks, queueVars, markVars
<1>3. CASE BatchingUp
  BY <1>3 DEF BatchingUp, References, OpKeepsMarks, queueVars, markVars
<1>4. CASE Destroy
  BY <1>4 DEF Destroy, References, OpKeepsMarks, queueVars, markVars
<1>5. CASE DeleteOp
  BY <1>5 DEF DeleteOp, References, OpKeepsMarks, queueVars, markVars
<1>6. CASE SyncNothing
  BY <1>6 DEF SyncNothing, PrepareTaskQueue, Create, References, OpKeepsMarks,
     queueVars, markVars
<1>7. CASE SyncDone
  BY <1>7 DEF SyncDone, TakeBatch, PrepareTaskQueue, Create, References,
     OpKeepsMarks, queueVars, markVars
<1>8. CASE KernelFails
  BY <1>8 DEF KernelFails, TakeBatch, LaunchQueue, References, OpKeepsMarks,
     queueVars, markVars
<1>9. CASE KernelFailsForGood
  BY <1>9 DEF KernelFailsForGood, TakeBatch, References, OpKeepsMarks,
     queueVars, markVars
<1>10. CASE \E q \in Queues : SetMluQueue(q)
  BY <1>10 DEF SetMluQueue, References, OpKeepsMarks, queueVars, markVars
<1> QED
  BY <1>1, <1>2, <1>3, <1>4, <1>5, <1>6, <1>7, <1>8, <1>9, <1>10 DEF NextOp

(* A flag that is written changes no other, and no length.                 *)
LEMMA FlagWritten ==
  ASSUME SameLength, NEW l \in Label, NEW v \in BOOLEAN, WriteFlag(l, v)
  PROVE  /\ marks_valid' \in [Queues -> Seq(BOOLEAN)]
         /\ \A p \in Queues : Len(marks_valid'[p]) = marks[p]
         /\ \A p \in Queues : \A j \in 1 .. marks[p] :
              marks_valid'[p][j] = IF l = [queue |-> p, idx |-> j] THEN v
                                   ELSE marks_valid[p][j]
<1> DEFINE old == marks_valid[l.queue]
           new == [i \in DOMAIN old |-> IF i = l.idx THEN v ELSE old[i]]
<1>1. /\ l.queue \in Queues /\ l.idx \in Nat
      /\ old \in Seq(BOOLEAN) /\ Len(old) = marks[l.queue]
      /\ DOMAIN old = 1 .. marks[l.queue] /\ marks[l.queue] \in Nat
  BY DEF SameLength, Label
<1>2. new \in Seq(BOOLEAN) /\ Len(new) = marks[l.queue]
  <2>1. new \in [1 .. marks[l.queue] -> BOOLEAN]
    BY <1>1
  <2> HIDE DEF new
  <2> QED BY <1>1, <2>1
<1>3. /\ marks_valid' = [marks_valid EXCEPT ![l.queue] = new]
      /\ marks_valid \in [Queues -> Seq(BOOLEAN)]
  BY DEF WriteFlag, SameLength
<1>4. \A j \in 1 .. marks[l.queue] : new[j] = IF j = l.idx THEN v ELSE old[j]
  BY <1>1
<1> HIDE DEF new
<1>5. marks_valid' \in [Queues -> Seq(BOOLEAN)]
  BY <1>2, <1>3
<1>6. \A p \in Queues : Len(marks_valid'[p]) = marks[p]
  BY <1>1, <1>2, <1>3 DEF SameLength
<1>7. ASSUME NEW p \in Queues, NEW j \in 1 .. marks[p]
      PROVE  marks_valid'[p][j] = IF l = [queue |-> p, idx |-> j] THEN v
                                  ELSE marks_valid[p][j]
  <2>1. l = [queue |-> p, idx |-> j] <=> p = l.queue /\ j = l.idx
    BY DEF Label
  <2>2. CASE p = l.queue
    <3>1. marks_valid'[p] = new
      BY <1>1, <1>3, <2>2
    <3> QED BY <1>4, <2>1, <2>2, <3>1
  <2>3. CASE p # l.queue
    BY <1>3, <2>1, <2>3
  <2> QED BY <2>2, <2>3
<1> QED BY <1>5, <1>6, <1>7

(* The index that is found exists once the vectors have grown and is free; *)
(* growing changes no flag that was there.                                 *)
LEMMA FoundIsFree ==
  ASSUME SameLength, NEW q \in Queues, NEW i \in 1 .. marks[q] + 1, Index(q, i)
  PROVE  /\ GrownMarks(q, i) \in [Queues -> Nat]
         /\ GrownValid(q, i) \in [Queues -> Seq(BOOLEAN)]
         /\ \A p \in Queues : /\ Len(GrownValid(q, i)[p]) = GrownMarks(q, i)[p]
                              /\ GrownMarks(q, i)[p] >= marks[p]
         /\ \A p \in Queues : \A j \in 1 .. marks[p] :
              GrownValid(q, i)[p][j] = marks_valid[p][j]
         /\ \A p \in Queues : \A j \in 1 .. GrownMarks(q, i)[p] :
              j \in 1 .. marks[p] \/ (p = q /\ j = i)
         /\ i \in 1 .. GrownMarks(q, i)[q] /\ GrownValid(q, i)[q][i]
<1> DEFINE s == marks_valid[q]
           t == Append(s, TRUE)
<1>1. /\ marks[q] \in Nat /\ s \in Seq(BOOLEAN) /\ Len(s) = marks[q] /\ i \in Nat
      /\ DOMAIN s = 1 .. marks[q]
  BY DEF SameLength
<1>2. /\ t \in Seq(BOOLEAN) /\ Len(t) = marks[q] + 1
      /\ \A j \in 1 .. marks[q] : t[j] = s[j]
      /\ t[marks[q] + 1] = TRUE
  <2> HIDE DEF s
  <2>1. ASSUME NEW e \in BOOLEAN
        PROVE  /\ Append(s, e) \in Seq(BOOLEAN)
               /\ Len(Append(s, e)) = Len(s) + 1
               /\ \A j \in 1 .. Len(s) : Append(s, e)[j] = s[j]
               /\ Append(s, e)[Len(s) + 1] = e
    BY <1>1, AppendProperties
  <2> QED BY <1>1, <2>1
<1>3. CASE i \in 1 .. marks[q]
  <2>1. ~(i > marks[q]) /\ ~(i > Len(s)) /\ i # marks[q] + 1
    BY <1>1, <1>3
  <2>2. GrownMarks(q, i) = marks /\ GrownValid(q, i) = marks_valid
    BY <2>1 DEF GrownMarks, GrownValid, SameLength
  <2>3. marks_valid[q][i]
    BY <2>1 DEF Index, IsFirst, Valid
  <2> QED BY <1>3, <2>2, <2>3 DEF SameLength
<1>4. CASE i = marks[q] + 1
  <2>1. i > marks[q] /\ i > Len(s)
    BY <1>1, <1>4
  <2>2. GrownMarks(q, i) = [marks EXCEPT ![q] = i]
    BY <2>1 DEF GrownMarks
  <2>3. GrownValid(q, i) = [marks_valid EXCEPT ![q] = t]
    BY <2>1, Zenon DEF GrownValid
  <2> HIDE DEF s, t
  <2>4. GrownMarks(q, i) \in [Queues -> Nat]
    BY <1>1, <2>2 DEF SameLength
  <2>5. GrownValid(q, i) \in [Queues -> Seq(BOOLEAN)]
    BY <1>2, <2>3 DEF SameLength
  <2>6. GrownMarks(q, i)[q] = marks[q] + 1 /\ GrownValid(q, i)[q] = t
    BY <1>4, <2>2, <2>3 DEF SameLength
  <2>7. \A p \in Queues : p # q =>
          GrownMarks(q, i)[p] = marks[p] /\ GrownValid(q, i)[p] = marks_valid[p]
    BY <2>2, <2>3 DEF SameLength
  <2>8. \A p \in Queues : /\ Len(GrownValid(q, i)[p]) = GrownMarks(q, i)[p]
                          /\ GrownMarks(q, i)[p] >= marks[p]
    BY <1>1, <1>2, <2>6, <2>7 DEF SameLength
  <2>9. \A p \in Queues : \A j \in 1 .. marks[p] :
          GrownValid(q, i)[p][j] = marks_valid[p][j]
    BY <1>2, <2>6, <2>7 DEF s
  <2>10. \A p \in Queues : \A j \in 1 .. GrownMarks(q, i)[p] :
           j \in 1 .. marks[p] \/ (p = q /\ j = i)
    BY <1>1, <1>4, <2>6, <2>7
  <2>11. i \in 1 .. GrownMarks(q, i)[q] /\ GrownValid(q, i)[q][i]
    BY <1>1, <1>2, <1>4, <2>6
  <2> QED BY <2>4, <2>5, <2>8, <2>9, <2>10, <2>11
<1>5. i \in 1 .. marks[q] \/ i = marks[q] + 1
  BY <1>1
<1> QED BY <1>3, <1>4, <1>5

(* A found index is contested from here on if another caller found it too, *)
(* and no Mark has it otherwise.                                           *)
LEMMA FindIndexKeeps ==
  ASSUME MarksInv, NEW c \in Callers, NEW q \in Queues, FindIndex(c, q)
  PROVE  MarksInv' /\ \A p \in Queues : Lost(p)' \subseteq Lost(p)
<1> USE QueueAssumption
<1>1. PICK i \in 1 .. marks[q] + 1 :
        /\ Index(q, i)
        /\ marks' = GrownMarks(q, i)
        /\ marks_valid' = GrownValid(q, i)
        /\ placing' = [placing EXCEPT ![c] = [queue |-> q, idx |-> i]]
  BY DEF FindIndex
<1> DEFINE l == [queue |-> q, idx |-> i]
<1>2. /\ UNCHANGED <<created, held, queue, mark>> /\ q \in created
      /\ contested' = contested \union ({placing'[c]} \intersect {placing[d] : d \in Callers})
  BY DEF FindIndex, MarksInv, References
<1>3. i \in Nat /\ l \in Label /\ l # NoMark
  <2>1. marks[q] \in Nat
    BY DEF MarksInv, SameLength
  <2>2. i \in Nat
    BY <2>1
  <2> QED BY <2>2 DEF Label
<1>4. /\ marks' \in [Queues -> Nat]
      /\ marks_valid' \in [Queues -> Seq(BOOLEAN)]
      /\ \A p \in Queues : Len(marks_valid'[p]) = marks'[p] /\ marks'[p] >= marks[p]
      /\ \A p \in Queues : \A j \in 1 .. marks[p] : marks_valid'[p][j] = marks_valid[p][j]
      /\ \A p \in Queues : \A j \in 1 .. marks'[p] : j \in 1 .. marks[p] \/ (p = q /\ j = i)
      /\ i \in 1 .. marks'[q] /\ marks_valid'[q][i]
  <2>1. SameLength
    BY DEF MarksInv
  <2>2. /\ GrownMarks(q, i) \in [Queues -> Nat]
        /\ GrownValid(q, i) \in [Queues -> Seq(BOOLEAN)]
        /\ \A p \in Queues : /\ Len(GrownValid(q, i)[p]) = GrownMarks(q, i)[p]
                             /\ GrownMarks(q, i)[p] >= marks[p]
        /\ \A p \in Queues : \A j \in 1 .. marks[p] :
             GrownValid(q, i)[p][j] = marks_valid[p][j]
        /\ \A p \in Queues : \A j \in 1 .. GrownMarks(q, i)[p] :
             j \in 1 .. marks[p] \/ (p = q /\ j = i)
        /\ i \in 1 .. GrownMarks(q, i)[q] /\ GrownValid(q, i)[q][i]
    BY <1>1, <2>1, FoundIsFree
  <2> QED BY <1>1, <2>2, Zenon
<1>5. SameLength'
  BY <1>4 DEF SameLength
<1>6. placing'[c] = l /\ \A d \in Callers : d # c => placing'[d] = placing[d]
  BY <1>1 DEF MarksInv, References
<1>7. contested \subseteq contested' /\ contested' \subseteq contested \union {l}
  BY <1>2, <1>6
<1>8. References'
  <2>1. placing' \in [Callers -> Label \union {NoMark}]
    BY <1>1, <1>3 DEF MarksInv, References
  <2>2. contested' \in SUBSET Label
    BY <1>3, <1>7 DEF MarksInv, References
  <2> QED BY <1>2, <2>1, <2>2 DEF MarksInv, References
<1>9. \A k \in Label : /\ TakenIndex(k) => TakenNext(k)
                       /\ FreeIndex(k) => FreeNext(k)
  <2> SUFFICES ASSUME NEW k \in Label, k.idx \in 1 .. marks[k.queue]
               PROVE  /\ k.idx \in 1 .. marks'[k.queue]
                      /\ marks_valid'[k.queue][k.idx] = marks_valid[k.queue][k.idx]
    BY DEF TakenIndex, FreeIndex, TakenNext, FreeNext
  <2>1. k.queue \in Queues /\ k.idx \in Nat
    BY DEF Label
  <2>2. marks[k.queue] \in Nat /\ marks'[k.queue] \in Nat
        /\ marks'[k.queue] >= marks[k.queue]
    BY <1>4, <2>1 DEF MarksInv, SameLength
  <2>3. k.idx \in 1 .. marks'[k.queue]
    BY <2>1, <2>2
  <2> QED BY <1>4, <2>1, <2>3
<1>10. ASSUME NEW m \in Marks, mark'[m] \notin contested' \union {NoMark}
       PROVE  TakenNext(mark'[m]) /\ \A n \in Marks : mark'[n] = mark'[m] => n = m
  <2>1. mark'[m] = mark[m] /\ mark[m] \notin contested \union {NoMark} /\ mark[m] \in Label
    BY <1>2, <1>7, <1>10 DEF MarksInv, References
  <2>2. TakenIndex(mark[m]) /\ \A n \in Marks : mark[n] = mark[m] => n = m
    BY <2>1 DEF MarksInv, OwnInv
  <2>3. TakenNext(mark[m])
    BY <1>9, <2>1, <2>2
  <2> QED BY <1>2, <2>1, <2>2, <2>3
<1>11. ASSUME NEW d \in Callers, placing'[d] \notin contested' \union {NoMark}
       PROVE  FreeNext(placing'[d]) /\ \A e \in Callers : placing'[e] = placing'[d] => e = d
  <2>1. CASE d = c
    <3>1. FreeNext(l)
      BY <1>4 DEF FreeNext
    <3>2. \A e \in Callers : e # c => placing[e] # l
      BY <1>2, <1>6, <1>11, <2>1
    <3> QED BY <1>6, <2>1, <3>1, <3>2
  <2>2. CASE d # c
    <3>1. placing'[d] = placing[d] /\ placing[d] \notin contested \union {NoMark}
          /\ placing[d] \in Label
      BY <1>6, <1>7, <1>11, <2>2 DEF MarksInv, References
    <3>2. FreeIndex(placing[d]) /\ \A e \in Callers : placing[e] = placing[d] => e = d
      BY <3>1 DEF MarksInv, OwnInv
    <3>3. placing[d] # l
      BY <1>2, <1>6, <1>11, <3>1
    <3> QED BY <1>6, <1>9, <3>1, <3>2, <3>3
  <2> QED BY <2>1, <2>2
<1>12. OwnInv'
  BY <1>10, <1>11 DEF OwnInv, TakenIndex, FreeIndex, TakenNext, FreeNext
<1>13. ASSUME NEW p \in Queues, NEW j \in Lost(p)' PROVE j \in Lost(p)
  <2>1. /\ j \in 1 .. marks'[p] /\ j \notin Valid(p)'
        /\ \A m \in Marks : mark'[m] # [queue |-> p, idx |-> j]
    BY DEF Lost
  <2>2. DOMAIN marks_valid'[p] = 1 .. marks'[p] /\ DOMAIN marks_valid[p] = 1 .. marks[p]
    BY <1>5 DEF MarksInv, SameLength
  <2>3. ~marks_valid'[p][j]
    BY <2>1, <2>2 DEF Valid
  <2>4. j \in 1 .. marks[p]
    BY <1>4, <2>1, <2>3
  <2>5. j \notin Valid(p)
    BY <1>4, <2>3, <2>4 DEF Valid
  <2> QED BY <1>2, <2>1, <2>4, <2>5 DEF Lost
<1> QED BY <1>5, <1>8, <1>12, <1>13 DEF MarksInv

(* An index that is out and not contested was not contested before.        *)
LEMMA StillOwned ==
  ASSUME contested' = contested \intersect Out'
  PROVE  /\ \A m \in Marks : mark'[m] \notin contested' \union {NoMark} =>
              mark'[m] \notin contested
         /\ \A c \in Callers : placing'[c] \notin contested' \union {NoMark} =>
              placing'[c] \notin contested
  BY DEF Out

(* The next OwnInv, from what becomes of each Mark and each caller.        *)
LEMMA OwnNext ==
  ASSUME \A m \in Marks : mark'[m] \notin contested' \union {NoMark} =>
           TakenNext(mark'[m]) /\ \A n \in Marks : mark'[n] = mark'[m] => n = m,
         \A c \in Callers : placing'[c] \notin contested' \union {NoMark} =>
           FreeNext(placing'[c]) /\ \A d \in Callers : placing'[d] = placing'[c] => d = c
  PROVE  OwnInv'
  BY DEF OwnInv, TakenIndex, FreeIndex, TakenNext, FreeNext

(* The Mark that is placed takes the index that its caller found.          *)
LEMMA PlaceMarkKeeps ==
  ASSUME MarksInv, NEW c \in Callers, NEW m \in Marks, PlaceMark(c, m)
  PROVE  MarksInv'
<1> USE QueueAssumption
<1> DEFINE l == placing[c]
<1>1. /\ l # NoMark /\ l \in Label /\ WriteFlag(l, FALSE)
      /\ mark' = [mark EXCEPT ![m] = l]
      /\ placing' = [placing EXCEPT ![c] = NoMark]
      /\ contested' = contested \intersect Out'
      /\ UNCHANGED <<created, held, queue, marks>>
  BY DEF PlaceMark, MarksInv, References
<1>2. /\ SameLength'
      /\ \A p \in Queues : \A j \in 1 .. marks[p] :
           marks_valid'[p][j] = IF l = [queue |-> p, idx |-> j] THEN FALSE
                                ELSE marks_valid[p][j]
  <2>1. SameLength /\ FALSE \in BOOLEAN
    BY DEF MarksInv
  <2> HIDE DEF l
  <2>2. /\ marks_valid' \in [Queues -> Seq(BOOLEAN)]
        /\ \A p \in Queues : Len(marks_valid'[p]) = marks[p]
        /\ \A p \in Queues : \A j \in 1 .. marks[p] :
             marks_valid'[p][j] = IF l = [queue |-> p, idx |-> j] THEN FALSE
                                  ELSE marks_valid[p][j]
    BY <1>1, <2>1, FlagWritten
  <2> QED BY <1>1, <2>1, <2>2 DEF SameLength
<1>3. /\ mark'[m] = l /\ \A n \in Marks : n # m => mark'[n] = mark[n]
      /\ placing'[c] = NoMark /\ \A d \in Callers : d # c => placing'[d] = placing[d]
      /\ \A n \in Marks : mark[n] \in Label \union {NoMark}
      /\ \A d \in Callers : placing[d] \in Label \union {NoMark}
  BY <1>1 DEF MarksInv, References
<1>4. References'
  BY <1>1 DEF MarksInv, References
<1>5. \A k \in Label : k.queue \in Queues /\ k = [queue |-> k.queue, idx |-> k.idx]
  BY DEF Label
<1>6. \A k \in Label : /\ TakenIndex(k) => TakenNext(k)
                       /\ k # l /\ FreeIndex(k) => FreeNext(k)
                       /\ k = l /\ FreeIndex(k) => TakenNext(k)
  <2> HIDE DEF l
  <2> SUFFICES ASSUME NEW k \in Label, k.idx \in 1 .. marks[k.queue]
               PROVE  marks_valid'[k.queue][k.idx]
                        = IF l = k THEN FALSE ELSE marks_valid[k.queue][k.idx]
    BY <1>1 DEF TakenIndex, FreeIndex, TakenNext, FreeNext
  <2> QED BY <1>2, <1>5
<1>7. \A k \in Label : ~(TakenIndex(k) /\ FreeIndex(k))
  BY DEF TakenIndex, FreeIndex
<1> HIDE DEF l
<1>8. ASSUME NEW n \in Marks, mark'[n] \notin contested' \union {NoMark}
      PROVE  TakenNext(mark'[n]) /\ \A o \in Marks : mark'[o] = mark'[n] => o = n
  <2>1. mark'[n] \notin contested
    BY <1>1, <1>8, StillOwned
  <2>2. l \notin contested => FreeIndex(l)
    BY <1>1 DEF MarksInv, OwnInv, l
  <2>3. \A o \in Marks : mark[o] \notin contested \union {NoMark} =>
          TakenIndex(mark[o]) /\ \A r \in Marks : mark[r] = mark[o] => r = o
    BY DEF MarksInv, OwnInv
  <2>4. CASE n = m
    <3>1. l \notin contested /\ FreeIndex(l) /\ TakenNext(l)
      BY <1>1, <1>3, <1>6, <2>1, <2>2, <2>4
    <3>2. \A o \in Marks : mark[o] # l
      BY <1>1, <1>7, <2>3, <3>1
    <3> QED BY <1>3, <2>4, <3>1, <3>2
  <2>5. CASE n # m
    <3>1. mark'[n] = mark[n] /\ TakenIndex(mark[n]) /\ mark[n] \in Label
      BY <1>3, <1>8, <2>1, <2>3, <2>5
    <3>2. mark[n] # l
      BY <1>7, <2>1, <2>2, <3>1
    <3> QED BY <1>3, <1>6, <1>8, <2>1, <2>3, <2>5, <3>1, <3>2
  <2> QED BY <2>4, <2>5
<1>9. ASSUME NEW d \in Callers, placing'[d] \notin contested' \union {NoMark}
      PROVE  FreeNext(placing'[d]) /\ \A e \in Callers : placing'[e] = placing'[d] => e = d
  <2>1. placing'[d] \notin contested
    BY <1>1, <1>9, StillOwned
  <2>2. d # c /\ placing'[d] = placing[d] /\ placing[d] \in Label
    BY <1>3, <1>9
  <2>3. FreeIndex(placing[d]) /\ \A e \in Callers : placing[e] = placing[d] => e = d
    BY <1>9, <2>1, <2>2 DEF MarksInv, OwnInv
  <2>4. placing[d] # l
    BY <2>2, <2>3 DEF l
  <2> QED BY <1>3, <1>6, <1>9, <2>2, <2>3, <2>4
<1>10. OwnInv'
  BY <1>8, <1>9, OwnNext
<1> QED BY <1>2, <1>4, <1>10 DEF MarksInv

(* A caller that throws, or a Mark that is moved, changes no flag.         *)
LEMMA FlagsUntouched ==
  ASSUME MarksInv,
         (\E c \in Callers : PlaceMarkThrows(c))
         \/ (\E m \in Marks, n \in Marks : MoveMark(m, n))
  PROVE  MarksInv'
<1> USE QueueAssumption
<1>1. /\ UNCHANGED <<created, held, queue, marks, marks_valid>>
      /\ contested' = contested \intersect Out'
  BY DEF PlaceMarkThrows, MoveMark, queueVars
<1>2. SameLength'
  BY <1>1 DEF MarksInv, SameLength
<1>3. \A k : (TakenIndex(k) => TakenNext(k)) /\ (FreeIndex(k) => FreeNext(k))
  BY <1>1 DEF TakenIndex, FreeIndex, TakenNext, FreeNext
<1>4. CASE \E c \in Callers : PlaceMarkThrows(c)
  <2>1. PICK c \in Callers : placing' = [placing EXCEPT ![c] = NoMark] /\ mark' = mark
    BY <1>4 DEF PlaceMarkThrows
  <2>2. References'
    BY <1>1, <2>1 DEF MarksInv, References
  <2>3. placing \in [Callers -> Label \union {NoMark}]
    BY DEF MarksInv, References
  <2>4. ASSUME NEW n \in Marks, mark'[n] \notin contested' \union {NoMark}
        PROVE  TakenNext(mark'[n]) /\ \A o \in Marks : mark'[o] = mark'[n] => o = n
    <3>1. mark[n] \notin contested \union {NoMark}
      BY <1>1, <2>1, <2>4, StillOwned
    <3> QED BY <1>3, <2>1, <3>1 DEF MarksInv, OwnInv
  <2>5. ASSUME NEW d \in Callers, placing'[d] \notin contested' \union {NoMark}
        PROVE  FreeNext(placing'[d]) /\ \A e \in Callers : placing'[e] = placing'[d] => e = d
    <3>1. d # c /\ placing'[d] = placing[d] /\ placing[d] \notin contested \union {NoMark}
      BY <1>1, <2>1, <2>3, <2>5, StillOwned
    <3>2. FreeIndex(placing[d]) /\ \A e \in Callers : placing[e] = placing[d] => e = d
      BY <3>1 DEF MarksInv, OwnInv
    <3> QED BY <1>3, <2>1, <2>3, <2>5, <3>1, <3>2
  <2> QED BY <1>2, <2>2, <2>4, <2>5, OwnNext DEF MarksInv
<1>5. CASE \E m \in Marks, n \in Marks : MoveMark(m, n)
  <2>1. PICK m \in Marks, n \in Marks :
          /\ m # n /\ mark[m] # NoMark /\ placing' = placing
          /\ mark' = [mark EXCEPT ![n] = mark[m], ![m] = NoMark]
    BY <1>5 DEF MoveMark
  <2>2. References'
    BY <1>1, <2>1 DEF MarksInv, References
  <2>3. mark'[m] = NoMark /\ mark'[n] = mark[m]
        /\ \A o \in Marks : o \notin {m, n} => mark'[o] = mark[o]
    BY <2>1 DEF MarksInv, References
  <2>4. ASSUME NEW o \in Marks, mark'[o] \notin contested' \union {NoMark}
        PROVE  TakenNext(mark'[o]) /\ \A r \in Marks : mark'[r] = mark'[o] => r = o
    <3>1. mark'[o] \notin contested \union {NoMark}
      BY <1>1, <2>4, StillOwned
    <3>2. \A r \in Marks : mark[r] \notin contested \union {NoMark} =>
            TakenIndex(mark[r]) /\ \A t \in Marks : mark[t] = mark[r] => t = r
      BY DEF MarksInv, OwnInv
    <3>3. o # m /\ (o = n => mark'[o] = mark[m]) /\ (o # n => mark'[o] = mark[o])
      BY <2>3, <2>4
    <3>4. TakenNext(mark'[o])
      BY <1>3, <3>1, <3>2, <3>3
    <3>5. ASSUME NEW r \in Marks, mark'[r] = mark'[o] PROVE r = o
      <4>1. r # m /\ (r = n => mark'[r] = mark[m]) /\ (r # n => mark'[r] = mark[r])
        BY <2>3, <2>4, <3>5
      <4> QED BY <3>1, <3>2, <3>3, <3>5, <4>1
    <3> QED BY <3>4, <3>5
  <2>5. ASSUME NEW d \in Callers, placing'[d] \notin contested' \union {NoMark}
        PROVE  FreeNext(placing'[d]) /\ \A e \in Callers : placing'[e] = placing'[d] => e = d
    <3>1. placing[d] \notin contested \union {NoMark}
      BY <1>1, <2>1, <2>5, StillOwned
    <3> QED BY <1>3, <2>1, <3>1 DEF MarksInv, OwnInv
  <2> QED BY <1>2, <2>2, <2>4, <2>5, OwnNext DEF MarksInv
<1> QED BY <1>4, <1>5

(* A released Mark frees its own index and takes no other.                 *)
LEMMA ReleaseMarkKeeps ==
  ASSUME MarksInv, NEW m \in Marks, ReleaseMark(m)
  PROVE  MarksInv'
<1> USE QueueAssumption
<1> DEFINE l == mark[m]
<1>1. /\ l # NoMark /\ l \in Label
      /\ mark' = [mark EXCEPT ![m] = NoMark] /\ placing' = placing
      /\ contested' = contested \intersect Out'
      /\ UNCHANGED <<created, held, queue, marks>>
      /\ WriteFlag(l, TRUE) \/ marks_valid' = marks_valid
  BY DEF ReleaseMark, MarksInv, References
<1>2. /\ SameLength'
      /\ \A p \in Queues : \A j \in 1 .. marks[p] :
           \/ marks_valid'[p][j] = marks_valid[p][j]
           \/ l = [queue |-> p, idx |-> j] /\ marks_valid'[p][j] = TRUE
  <2>1. SameLength /\ TRUE \in BOOLEAN
    BY DEF MarksInv
  <2> HIDE DEF l
  <2>2. CASE WriteFlag(l, TRUE)
    <3>1. /\ marks_valid' \in [Queues -> Seq(BOOLEAN)]
          /\ \A p \in Queues : Len(marks_valid'[p]) = marks[p]
          /\ \A p \in Queues : \A j \in 1 .. marks[p] :
               marks_valid'[p][j] = IF l = [queue |-> p, idx |-> j] THEN TRUE
                                    ELSE marks_valid[p][j]
      BY <1>1, <2>1, <2>2, FlagWritten
    <3> QED BY <1>1, <2>1, <3>1 DEF SameLength
  <2>3. CASE marks_valid' = marks_valid
    BY <1>1, <2>1, <2>3 DEF SameLength
  <2> QED BY <1>1, <2>2, <2>3
<1>3. /\ mark'[m] = NoMark /\ \A n \in Marks : n # m => mark'[n] = mark[n]
      /\ \A n \in Marks : mark[n] \in Label \union {NoMark}
      /\ \A d \in Callers : placing[d] \in Label \union {NoMark}
  BY <1>1 DEF MarksInv, References
<1>4. References'
  BY <1>1 DEF MarksInv, References
<1>5. \A k \in Label : k.queue \in Queues /\ k = [queue |-> k.queue, idx |-> k.idx]
  BY DEF Label
<1>6. \A k \in Label : /\ k # l /\ TakenIndex(k) => TakenNext(k)
                       /\ FreeIndex(k) => FreeNext(k)
  BY <1>1, <1>2, <1>5 DEF TakenIndex, FreeIndex, TakenNext, FreeNext
<1> HIDE DEF l
<1>7. ASSUME NEW n \in Marks, mark'[n] \notin contested' \union {NoMark}
      PROVE  TakenNext(mark'[n]) /\ \A o \in Marks : mark'[o] = mark'[n] => o = n
  <2>1. mark'[n] \notin contested /\ n # m /\ mark'[n] = mark[n] /\ mark[n] \in Label
    BY <1>1, <1>3, <1>7, StillOwned
  <2>2. TakenIndex(mark[n]) /\ \A o \in Marks : mark[o] = mark[n] => o = n
    BY <1>7, <2>1 DEF MarksInv, OwnInv
  <2>3. mark[n] # l
    BY <2>1, <2>2 DEF l
  <2> QED BY <1>3, <1>6, <1>7, <2>1, <2>2, <2>3
<1>8. ASSUME NEW d \in Callers, placing'[d] \notin contested' \union {NoMark}
      PROVE  FreeNext(placing'[d]) /\ \A e \in Callers : placing'[e] = placing'[d] => e = d
  <2>1. placing[d] \notin contested \union {NoMark} /\ placing[d] \in Label
    BY <1>1, <1>3, <1>8, StillOwned
  <2> QED BY <1>1, <1>6, <2>1 DEF MarksInv, OwnInv
<1>9. OwnInv'
  BY <1>7, <1>8, OwnNext
<1> QED BY <1>2, <1>4, <1>9 DEF MarksInv

(* Vectors that are replaced leave no index of theirs uncontested.         *)
LEMMA SetCnrtQueueKeeps ==
  ASSUME MarksInv, NEW q \in Queues, SetCnrtQueue(q)
  PROVE  MarksInv' /\ Lost(q)' = {}
<1> USE QueueAssumption
<1> DEFINE new == [i \in 1 .. InitMarkNum |-> TRUE]
<1>1. /\ marks' = [marks EXCEPT ![q] = InitMarkNum]
      /\ marks_valid' = [marks_valid EXCEPT ![q] = new]
      /\ contested' = contested \union {l \in Out : l.queue = q}
      /\ UNCHANGED <<created, held, queue, mark, placing>>
  BY DEF SetCnrtQueue
<1>2. new \in Seq(BOOLEAN) /\ Len(new) = InitMarkNum /\ InitMarkNum \in Nat
      /\ DOMAIN new = 1 .. InitMarkNum /\ \A i \in 1 .. InitMarkNum : new[i] = TRUE
  OBVIOUS
<1> HIDE DEF new
<1>3. SameLength'
  BY <1>1, <1>2 DEF MarksInv, SameLength
<1>4. References'
  <2>1. Out \subseteq Label
    BY DEF Out, MarksInv, References
  <2> QED BY <1>1, <2>1 DEF MarksInv, References
<1>5. \A k \in Label : k.queue # q => /\ TakenIndex(k) => TakenNext(k)
                                      /\ FreeIndex(k) => FreeNext(k)
  BY <1>1 DEF MarksInv, SameLength, Label, TakenIndex, FreeIndex, TakenNext, FreeNext
<1>6. \A k \in Label : k \in Out /\ k \notin contested' => k.queue # q /\ k \notin contested
  BY <1>1
<1>7. /\ \A m \in Marks : mark[m] # NoMark => mark[m] \in Label \intersect Out
      /\ \A c \in Callers : placing[c] # NoMark => placing[c] \in Label \intersect Out
  BY DEF Out, MarksInv, References
<1>8. ASSUME NEW m \in Marks, mark'[m] \notin contested' \union {NoMark}
      PROVE  TakenNext(mark'[m]) /\ \A n \in Marks : mark'[n] = mark'[m] => n = m
  BY <1>1, <1>5, <1>6, <1>7, <1>8 DEF MarksInv, OwnInv
<1>9. ASSUME NEW c \in Callers, placing'[c] \notin contested' \union {NoMark}
      PROVE  FreeNext(placing'[c]) /\ \A d \in Callers : placing'[d] = placing'[c] => d = c
  BY <1>1, <1>5, <1>6, <1>7, <1>9 DEF MarksInv, OwnInv
<1>10. OwnInv'
  BY <1>8, <1>9, OwnNext
<1>11. Lost(q)' = {}
  <2>1. marks'[q] = InitMarkNum /\ marks_valid'[q] = new
    BY <1>1 DEF MarksInv, SameLength
  <2> QED BY <1>2, <2>1 DEF Lost, Valid
<1> QED BY <1>3, <1>4, <1>10, <1>11 DEF MarksInv

(* MarksInv holds at first and every step keeps it.                        *)
LEMMA MarksInductive ==
  /\ InitOp => MarksInv
  /\ MarksInv /\ [NextDevice]_deviceVars => MarksInv'
<1> USE QueueAssumption
<1>1. ASSUME InitOp PROVE MarksInv
  <2>1. [i \in 1 .. InitMarkNum |-> TRUE] \in Seq(BOOLEAN)
        /\ Len([i \in 1 .. InitMarkNum |-> TRUE]) = InitMarkNum
    OBVIOUS
  <2>2. SameLength
    BY <1>1, <2>1 DEF InitOp, InitQueues, SameLength
  <2>3. References /\ OwnInv
    BY <1>1 DEF InitOp, InitQueues, References, OwnInv
  <2> QED BY <2>2, <2>3 DEF MarksInv
<1>2. ASSUME MarksInv, [NextDevice]_deviceVars PROVE MarksInv'
  <2>0. ASSUME UNCHANGED <<marks, marks_valid, mark, placing, contested>>, References'
        PROVE  MarksInv'
    BY <1>2, <2>0 DEF MarksInv, SameLength, OwnInv, TakenIndex, FreeIndex
  <2>1. ASSUME NextOp \/ UNCHANGED deviceVars PROVE MarksInv'
    <3>1. OpKeepsMarks
      BY <1>2, <2>1, OpStep DEF OpKeepsMarks, MarksInv, References, deviceVars, markVars
    <3> QED BY <1>2, <2>0, <3>1 DEF OpKeepsMarks, MarksInv, References
  <2>2. ASSUME NEW q \in Queues, AppCreates(q) \/ AppDrops(q) PROVE MarksInv'
    <3>1. UNCHANGED <<marks, marks_valid, mark, placing, contested>>
      BY <2>2 DEF AppCreates, AppDrops, Create, queueVars, markVars
    <3>2. References'
      BY <1>2, <2>2, <3>1 DEF AppCreates, AppDrops, Create, queueVars, MarksInv, References
    <3> QED BY <2>0, <3>1, <3>2
  <2>3. ASSUME NEW q \in Queues, SetCnrtQueue(q) PROVE MarksInv'
    BY <1>2, <2>3, SetCnrtQueueKeeps
  <2>4. ASSUME NEW c \in Callers, NEW q \in Queues, FindIndex(c, q) PROVE MarksInv'
    BY <1>2, <2>4, FindIndexKeeps
  <2>5. ASSUME NEW c \in Callers, NEW m \in Marks, PlaceMark(c, m) PROVE MarksInv'
    BY <1>2, <2>5, PlaceMarkKeeps
  <2>6. ASSUME (\E c \in Callers : PlaceMarkThrows(c))
               \/ (\E m \in Marks, n \in Marks : MoveMark(m, n))
        PROVE  MarksInv'
    BY <1>2, <2>6, FlagsUntouched
  <2>7. ASSUME NEW m \in Marks, ReleaseMark(m) PROVE MarksInv'
    BY <1>2, <2>7, ReleaseMarkKeeps
  <2> QED
    BY <1>2, <2>1, <2>2, <2>3, <2>4, <2>5, <2>6, <2>7 DEF NextDevice, NextQueues
<1> QED BY <1>1, <1>2

(* A Mark is the only owner of an index that exists and is flagged, so     *)
(* Count never refuses it, but for the indices that two callers found at   *)
(* once or whose vectors SetCnrtQueue replaced, while they are out: any    *)
(* number of callers, queues and Marks, in any order of their steps.       *)
THEOREM MarksOwnTheirIndices == SpecDevice => []MarkOwnsIndex
<1>1. MarksInv => MarkOwnsIndex
  <2> SUFFICES ASSUME MarksInv, NEW m \in Marks, mark[m] \notin contested \union {NoMark}
               PROVE  /\ mark[m].idx \in 1 .. marks[mark[m].queue]
                      /\ mark[m].idx \in DOMAIN marks_valid[mark[m].queue]
                      /\ ~marks_valid[mark[m].queue][mark[m].idx]
                      /\ \A n \in Marks : mark[m] = mark[n] => m = n
    BY DEF MarkOwnsIndex
  <2>1. mark[m].queue \in Queues
    BY DEF MarksInv, References, Label
  <2>2. DOMAIN marks_valid[mark[m].queue] = 1 .. marks[mark[m].queue]
    BY <2>1 DEF MarksInv, SameLength
  <2> QED BY <2>2 DEF MarksInv, OwnInv, TakenIndex
<1> QED BY MarksInductive, <1>1, PTL DEF SpecDevice

(* PlaceMark, the private part's constructor and SetCnrtQueue keep the two *)
(* vectors of a queue equally long, also when an exception leaves them     *)
(* grown.                                                                  *)
THEOREM VectorsGrowTogether == SpecDevice => []SameLength
<1>1. MarksInv => SameLength
  BY DEF MarksInv
<1> QED BY MarksInductive, <1>1, PTL DEF SpecDevice

-----------------------------------------------------------------------------
(* What a step may lose: no index, but where a Mark is assigned over.      *)
LosesNothing ==
  \A q \in Live' : \A i \in Lost(q)' :
    \/ i \in Lost(q)
    \/ \E m \in Marks : /\ mark[m] = [queue |-> q, idx |-> i]
                        /\ mark'[m] \notin {mark[m], NoMark}

(* A Mark that is placed, moved or released, seen from the index that is   *)
(* lost in the step.                                                       *)
LEMMA MarkStepLoses ==
  ASSUME MarksInv, MarksInv',
         \/ \E c \in Callers, m \in Marks : PlaceMark(c, m)
         \/ \E m \in Marks, n \in Marks : MoveMark(m, n)
         \/ \E m \in Marks : ReleaseMark(m)
  PROVE  LosesNothing
<1> USE QueueAssumption
<1> SUFFICES ASSUME NEW q \in Live', NEW i \in Lost(q)', i \notin Lost(q)
             PROVE  \E m \in Marks : /\ mark[m] = [queue |-> q, idx |-> i]
                                     /\ mark'[m] \notin {mark[m], NoMark}
  BY DEF LosesNothing
<1> DEFINE l == [queue |-> q, idx |-> i]
<1>1. /\ UNCHANGED <<created, held, queue, marks>> /\ Live' = Live
      /\ mark \in [Marks -> Label \union {NoMark}]
  BY DEF PlaceMark, MoveMark, ReleaseMark, queueVars, Live, MarksInv, References
<1>2. q \in Queues
  BY <1>1 DEF Live, MarksInv, References
<1>3. /\ i \in 1 .. marks[q] /\ i \notin Valid(q)'
      /\ \A m \in Marks : mark'[m] # l
  BY <1>1 DEF Lost
<1>4. /\ DOMAIN marks_valid'[q] = 1 .. marks[q] /\ DOMAIN marks_valid[q] = 1 .. marks[q]
      /\ marks[q] \in Nat
  BY <1>1, <1>2 DEF MarksInv, SameLength
<1>5. ~marks_valid'[q][i] /\ i \in Nat
  BY <1>3, <1>4 DEF Valid
<1>6. l \in Label /\ l # NoMark
  BY <1>2, <1>5 DEF Label
<1>7. i \in Valid(q) \/ \E m \in Marks : mark[m] = l
  BY <1>3 DEF Lost
<1>8. i \in Valid(q) => marks_valid[q][i]
  BY DEF Valid
<1> HIDE DEF l
<1>9. CASE \E c \in Callers, m \in Marks : PlaceMark(c, m)
  <2>1. PICK c \in Callers, m \in Marks : PlaceMark(c, m)
    BY <1>9
  <2>2. /\ placing[c] \in Label /\ placing[c] # NoMark
        /\ mark' = [mark EXCEPT ![m] = placing[c]] /\ WriteFlag(placing[c], FALSE)
    BY <2>1 DEF PlaceMark, MarksInv, References
  <2>3. mark'[m] = placing[c] /\ \A n \in Marks : n # m => mark'[n] = mark[n]
    BY <1>1, <2>2
  <2>4. placing[c] # l
    BY <1>3, <2>3
  <2>5. marks_valid'[q][i] = marks_valid[q][i]
    <3>1. SameLength /\ FALSE \in BOOLEAN
      BY DEF MarksInv
    <3>2. \A p \in Queues : \A j \in 1 .. marks[p] :
            marks_valid'[p][j] = IF placing[c] = [queue |-> p, idx |-> j] THEN FALSE
                                 ELSE marks_valid[p][j]
      BY <2>2, <3>1, FlagWritten
    <3> QED BY <1>2, <1>3, <2>4, <3>2 DEF l
  <2>6. PICK n \in Marks : mark[n] = l
    BY <1>5, <1>7, <1>8, <2>5
  <2>7. n = m
    BY <1>3, <2>3, <2>6
  <2> QED BY <2>2, <2>3, <2>4, <2>6, <2>7 DEF l
<1>10. CASE \E m \in Marks, n \in Marks : MoveMark(m, n)
  <2>1. PICK m \in Marks, n \in Marks :
          /\ m # n /\ mark[m] # NoMark /\ marks_valid' = marks_valid
          /\ mark' = [mark EXCEPT ![n] = mark[m], ![m] = NoMark]
    BY <1>10 DEF MoveMark, queueVars
  <2>2. mark'[m] = NoMark /\ mark'[n] = mark[m]
        /\ \A o \in Marks : o \notin {m, n} => mark'[o] = mark[o]
    BY <1>1, <2>1
  <2>3. PICK o \in Marks : mark[o] = l
    BY <1>5, <1>7, <1>8, <2>1
  <2>4. o = n
    BY <1>3, <2>2, <2>3
  <2> QED BY <1>3, <2>1, <2>2, <2>3, <2>4 DEF l
<1>11. CASE \E m \in Marks : ReleaseMark(m)
  <2>1. PICK m \in Marks : ReleaseMark(m)
    BY <1>11
  <2>2. /\ mark[m] \in Label /\ mark' = [mark EXCEPT ![m] = NoMark]
        /\ \/ mark[m].queue \in Live /\ WriteFlag(mark[m], TRUE)
           \/ mark[m].queue \notin Live /\ marks_valid' = marks_valid
    BY <1>1, <2>1 DEF ReleaseMark
  <2>3. marks_valid'[q][i] = TRUE \/ (marks_valid'[q][i] = marks_valid[q][i] /\ mark[m] # l)
    <3>1. CASE mark[m].queue \notin Live /\ marks_valid' = marks_valid
      BY <1>1, <3>1 DEF l
    <3>2. CASE WriteFlag(mark[m], TRUE)
      <4>1. SameLength /\ TRUE \in BOOLEAN
        BY DEF MarksInv
      <4>2. \A p \in Queues : \A j \in 1 .. marks[p] :
              marks_valid'[p][j] = IF mark[m] = [queue |-> p, idx |-> j] THEN TRUE
                                   ELSE marks_valid[p][j]
        BY <2>2, <3>2, <4>1, FlagWritten
      <4> QED BY <1>2, <1>3, <4>2 DEF l
    <3> QED BY <2>2, <3>1, <3>2
  <2>4. mark[m] # l /\ marks_valid'[q][i] = marks_valid[q][i]
    BY <1>5, <2>3
  <2>5. PICK n \in Marks : mark[n] = l
    BY <1>5, <1>7, <1>8, <2>4
  <2>6. mark'[n] = l
    BY <1>1, <2>2, <2>4, <2>5
  <2> QED BY <1>3, <2>6
<1> QED BY <1>9, <1>10, <1>11

(* Every step of the application or of the operator.                       *)
LEMMA StepLoses ==
  ASSUME MarksInv, MarksInv', [NextDevice]_deviceVars
  PROVE  LosesNothing
<1>1. ASSUME UNCHANGED <<marks, marks_valid, mark>> PROVE LosesNothing
  BY <1>1 DEF LosesNothing, Lost, Valid
<1>2. ASSUME NextOp \/ UNCHANGED deviceVars PROVE LosesNothing
  <2>1. OpKeepsMarks
    BY <1>2, OpStep DEF OpKeepsMarks, MarksInv, References, deviceVars, markVars
  <2> QED BY <1>1, <2>1 DEF OpKeepsMarks
<1>3. ASSUME NEW q \in Queues, AppCreates(q) \/ AppDrops(q) PROVE LosesNothing
  BY <1>1, <1>3 DEF AppCreates, AppDrops, Create, queueVars, markVars
<1>4. ASSUME NEW c \in Callers, PlaceMarkThrows(c) PROVE LosesNothing
  BY <1>1, <1>4 DEF PlaceMarkThrows, queueVars
<1>5. Live' \subseteq Queues
  BY DEF MarksInv, References, Live
<1>6. ASSUME NEW c \in Callers, NEW q \in Queues, FindIndex(c, q) PROVE LosesNothing
  <2>1. \A p \in Queues : Lost(p)' \subseteq Lost(p)
    BY <1>6, FindIndexKeeps
  <2> QED BY <1>5, <2>1 DEF LosesNothing
<1>7. ASSUME NEW q \in Queues, SetCnrtQueue(q) PROVE LosesNothing
  <2>1. Lost(q)' = {}
    BY <1>7, SetCnrtQueueKeeps
  <2>2. \A p \in Queues : p # q => marks'[p] = marks[p] /\ marks_valid'[p] = marks_valid[p]
    BY <1>7 DEF SetCnrtQueue, MarksInv, SameLength
  <2>3. mark' = mark
    BY <1>7 DEF SetCnrtQueue
  <2>4. \A p \in Queues : p # q => Lost(p)' \subseteq Lost(p)
    BY <2>2, <2>3 DEF Lost, Valid
  <2> QED BY <1>5, <2>1, <2>4 DEF LosesNothing
<1>8. ASSUME \/ \E c \in Callers, m \in Marks : PlaceMark(c, m)
             \/ \E m \in Marks, n \in Marks : MoveMark(m, n)
             \/ \E m \in Marks : ReleaseMark(m)
      PROVE  LosesNothing
  BY <1>8, MarkStepLoses
<1> HIDE DEF LosesNothing
<1> QED
  BY <1>2, <1>3, <1>4, <1>6, <1>7, <1>8 DEF NextDevice, NextQueues

(* The limit of a queue is reached by Marks alone: an index of a live      *)
(* queue is lost only where a Mark that has it is assigned another,        *)
(* whatever notifiers failed, callers met and vectors were replaced.       *)
THEOREM IndicesAreMarks == SpecDevice => OnlyMarksTakeIndices
<1> DEFINE vv == <<queueVars, markVars, held, queue>>
<1>1. InitOp => MarksInv
  BY MarksInductive
<1>2. MarksInv /\ [NextDevice]_deviceVars => MarksInv'
  BY MarksInductive
<1>3. MarksInv /\ [NextDevice]_deviceVars => [LosesNothing]_vv
  BY <1>2, StepLoses
<1>4. SpecDevice => [][LosesNothing]_vv
  BY <1>1, <1>2, <1>3, PTL DEF SpecDevice
<1> QED BY <1>4 DEF OnlyMarksTakeIndices, LosesNothing

-----------------------------------------------------------------------------
(* What SpoiledNotReused needs: queues that failed were created, and the   *)
(* operator's queue is one that was created, or none.                      *)
SpoiledInv ==
  /\ created \in SUBSET Queues /\ held \in SUBSET created
  /\ queue \in created \union {NoQueue}
  /\ spoiled \in SUBSET created
  /\ shared_queue \in BOOLEAN
  /\ SpoiledNotReused

(* No step of the operator leaves a spoiled queue in use but for the two   *)
(* exceptions.                                                             *)
LEMMA SpoiledOpStep ==
  ASSUME SpoiledInv, NextOp PROVE SpoiledInv'
<1> USE QueueAssumption DEF SpoiledInv, SpoiledNotReused
<1>1. CASE Initialize
  BY <1>1 DEF Initialize, queueVars
<1>2. CASE GetMluQueue
  BY <1>2 DEF GetMluQueue, queueVars, opVars
<1>3. CASE BatchingUp
  BY <1>3 DEF BatchingUp, queueVars
<1>4. CASE Destroy
  BY <1>4 DEF Destroy, queueVars
<1>5. CASE DeleteOp
  BY <1>5 DEF DeleteOp, queueVars
<1>0. ASSUME PrepareTaskQueue, UNCHANGED <<held, spoiled, stuck>> PROVE SpoiledInv'
  <2>1. CASE UNCHANGED <<queue, shared_queue, queueVars>>
    BY <1>0, <2>1 DEF queueVars
  <2>2. CASE queue = NoQueue /\ \E q \in Queues : Create(q) /\ queue' = q
    <3>1. PICK q \in Queues \ created : created' = created \union {q} /\ queue' = q
      BY <2>2 DEF Create
    <3>2. q \notin spoiled' /\ shared_queue' \in BOOLEAN
      BY <1>0, <2>2, <3>1 DEF PrepareTaskQueue
    <3> QED BY <1>0, <3>1, <3>2
  <2> QED BY <1>0, <2>1, <2>2 DEF PrepareTaskQueue
<1>6. CASE SyncNothing
  BY <1>0, <1>6 DEF SyncNothing
<1>7. CASE SyncDone
  BY <1>0, <1>7 DEF SyncDone, TakeBatch
<1>8. CASE KernelFails
  <2>1. PICK q \in Queues :
          /\ LaunchQueue(q)
          /\ spoiled' = spoiled \union {q}
          /\ \/ /\ shared_queue /\ q = queue
                /\ UNCHANGED <<queue, queueVars>>
             \/ /\ ~(shared_queue /\ q = queue)
                /\ \E new \in Queues \ (created \union {q}) :
                     created' = created \union {q, new} /\ queue' = new
    BY <1>8 DEF KernelFails
  <2>2. held' = held /\ stuck' = stuck /\ shared_queue' \in BOOLEAN
        /\ (shared_queue /\ queue # NoQueue => shared_queue')
    BY <1>8 DEF KernelFails, TakeBatch
  <2>3. CASE shared_queue /\ q = queue /\ UNCHANGED <<queue, queueVars>>
    BY <2>1, <2>2, <2>3 DEF queueVars
  <2>4. CASE \E new \in Queues \ (created \union {q}) :
                created' = created \union {q, new} /\ queue' = new
    BY <2>1, <2>2, <2>4
  <2> QED BY <2>1, <2>3, <2>4
<1>9. CASE KernelFailsForGood
  BY <1>9 DEF KernelFailsForGood, TakeBatch, queueVars
<1>10. CASE \E q \in Queues : SetMluQueue(q)
  BY <1>10 DEF SetMluQueue, queueVars
<1> QED
  BY <1>1, <1>2, <1>3, <1>4, <1>5, <1>6, <1>7, <1>8, <1>9, <1>10 DEF NextOp

(* SpoiledInv is kept by every step.                                       *)
LEMMA SpoiledStep == ASSUME SpoiledInv, [NextDevice]_deviceVars PROVE SpoiledInv'
<1>1. CASE NextOp
  BY <1>1, SpoiledOpStep
<1>2. CASE UNCHANGED deviceVars
  BY <1>2 DEF deviceVars, opVars, SpoiledInv, SpoiledNotReused
<1>3. CASE NextQueues /\ UNCHANGED opVars
  <2>1. UNCHANGED <<spoiled, shared_queue, stuck>>
    BY <1>3 DEF opVars
  <2>2. ASSUME NEW q \in Queues, AppCreates(q) PROVE SpoiledInv'
    BY <2>1, <2>2, QueueAssumption
       DEF AppCreates, Create, markVars, SpoiledInv, SpoiledNotReused
  <2>3. ASSUME NEW q \in Queues, AppDrops(q) PROVE SpoiledInv'
    BY <2>1, <2>3 DEF AppDrops, queueVars, SpoiledInv, SpoiledNotReused
  <2>4. ASSUME UNCHANGED <<created, held, queue>> PROVE SpoiledInv'
    BY <2>1, <2>4 DEF SpoiledInv, SpoiledNotReused
  <2> QED BY <1>3, <2>2, <2>3, <2>4
      DEF NextQueues, FindIndex, PlaceMark, PlaceMarkThrows, MoveMark,
          ReleaseMark, SetCnrtQueue, queueVars
<1> QED BY <1>1, <1>2, <1>3 DEF NextDevice

(* A batch goes to a queue that failed before only when the application    *)
(* shares that queue or no other could be created.                         *)
THEOREM SpoiledQueuesNotReused == SpecDevice => []SpoiledNotReused
<1>1. InitOp => SpoiledInv
  BY QueueAssumption DEF InitOp, InitQueues, SpoiledInv, SpoiledNotReused
<1>2. SpoiledInv /\ [NextDevice]_deviceVars => SpoiledInv'
  BY SpoiledStep
<1>3. SpoiledInv => SpoiledNotReused
  BY DEF SpoiledInv
<1> QED BY <1>1, <1>2, <1>3, PTL DEF SpecDevice

-----------------------------------------------------------------------------
(* The cache holds the inputs that no batch took, in the order they came.  *)
CacheInv ==
  /\ inputs \in Nat /\ taken \in Nat
  /\ cache \in Seq(Nat)
  /\ Len(cache) + taken = inputs
  /\ \A i \in 1 .. Len(cache) : cache[i] = taken + i

OneBatch ==
  batch' # batch /\ batch' # <<>> =>
    \E n \in 1 .. BatchSize :
      /\ \A i \in 1 .. n : batch'[i] = taken + i
      /\ \A i \in n + 1 .. BatchSize : batch'[i] = taken + 1
      /\ n < BatchSize => cache' = <<>>

(* Taking a batch advances by the inputs in it, whole or filled up.        *)
LEMMA TakeBatchInOrder ==
  ASSUME CacheInv, TakeBatch PROVE CacheInv' /\ OneBatch
<1> USE BatchAssumption
<1> DEFINE k == IF Len(cache) < BatchSize THEN Len(cache) ELSE BatchSize
<1>1. /\ cache \in Seq(Nat) /\ cache # <<>>
      /\ batch' = Padded
      /\ cache' = SubSeq(cache, BatchSize + 1, Len(cache))
      /\ taken' = cache[k]
      /\ inputs' = inputs
  BY DEF TakeBatch, CacheInv
<1>2. Len(cache) \in Nat /\ Len(cache) > 0
  BY <1>1
<1>3. k \in 1 .. Len(cache) /\ k \in 1 .. BatchSize
  BY <1>2
<1>4. taken' = taken + k /\ taken' \in Nat
  <2>1. taken' = cache[k] /\ k \in 1 .. Len(cache)
    BY <1>1, <1>3
  <2> HIDE DEF k
  <2> QED BY <2>1 DEF CacheInv
<1>5. \A i \in BatchSize + 1 .. Len(cache) : cache[i] \in Nat
  BY <1>1, <1>2
<1>6. /\ cache' \in Seq(Nat)
      /\ Len(cache') = IF BatchSize + 1 <= Len(cache) THEN Len(cache) - BatchSize ELSE 0
      /\ \A i \in 1 .. Len(cache) - BatchSize : cache'[i] = cache[BatchSize + i]
  <2>1. BatchSize + 1 \in Int /\ Len(cache) \in Int
    BY <1>2
  <2> QED BY <1>1, <1>5, <2>1, SubSeqProperties
<1>7. CacheInv'
  <2>1. Len(cache') = Len(cache) - k
    <3>0. /\ BatchSize + 1 <= Len(cache) => Len(cache') = Len(cache) - BatchSize
          /\ ~(BatchSize + 1 <= Len(cache)) => Len(cache') = 0
      BY <1>6, Zenon
    <3>1. CASE Len(cache) < BatchSize
      BY <1>2, <3>0, <3>1
    <3>2. CASE ~(Len(cache) < BatchSize)
      BY <1>2, <3>0, <3>2
    <3> QED BY <3>1, <3>2
  <2>2. ASSUME NEW i \in 1 .. Len(cache') PROVE cache'[i] = taken' + i
    <3>1. k = BatchSize /\ i \in 1 .. Len(cache) - BatchSize
      BY <1>2, <1>6
    <3>2. cache'[i] = cache[BatchSize + i] /\ BatchSize + i \in 1 .. Len(cache)
      BY <1>2, <1>6, <3>1
    <3>3. cache[BatchSize + i] = taken + (BatchSize + i)
      BY <3>2 DEF CacheInv
    <3> QED BY <1>4, <3>1, <3>2, <3>3 DEF CacheInv
  <2> HIDE DEF k
  <2>3. k \in Nat
    BY <1>3
  <2>4. Len(cache') + taken' = inputs'
    <3>1. /\ Len(cache) + taken = inputs /\ inputs' = inputs
          /\ taken \in Nat /\ inputs \in Nat
      BY <1>1 DEF CacheInv
    <3> QED BY <1>2, <1>4, <2>1, <2>3, <3>1
  <2>5. inputs' \in Nat /\ taken' \in Nat /\ cache' \in Seq(Nat)
    BY <1>1, <1>4, <1>6 DEF CacheInv
  <2> QED BY <2>2, <2>4, <2>5 DEF CacheInv
<1>8. OneBatch
  <2>1. \A i \in 1 .. k : batch'[i] = taken + i
    BY <1>1, <1>2, <1>3, SMTT(20) DEF Padded, CacheInv
  <2>2. \A i \in k + 1 .. BatchSize : batch'[i] = taken + 1
    BY <1>1, <1>2, <1>3 DEF Padded, CacheInv
  <2>3. k < BatchSize => cache' = <<>>
    BY <1>2, <1>6
  <2> HIDE DEF k
  <2> QED BY <1>3, <2>1, <2>2, <2>3 DEF OneBatch
<1> QED BY <1>7, <1>8

(* Every step keeps the cache a tail of the inputs and makes batches of    *)
(* its head.                                                               *)
LEMMA CacheStep ==
  ASSUME CacheInv, [NextDevice]_deviceVars PROVE CacheInv' /\ OneBatch
<1>1. ASSUME UNCHANGED <<cache, inputs, batch, taken>> PROVE CacheInv' /\ OneBatch
  BY <1>1 DEF CacheInv, OneBatch
<1>2. ASSUME Destroy \/ DeleteOp PROVE CacheInv' /\ OneBatch
  <2>1. cache' = <<>> /\ batch' = <<>> /\ taken' = inputs /\ inputs' = inputs
    BY <1>2 DEF Destroy, DeleteOp
  <2> QED BY <2>1 DEF CacheInv, OneBatch
<1>3. ASSUME BatchingUp PROVE CacheInv' /\ OneBatch
  <2>1. /\ inputs' = inputs + 1 /\ cache' = Append(cache, inputs')
        /\ taken' = taken /\ batch' = batch
    BY <1>3 DEF BatchingUp
  <2>2. inputs' \in Nat /\ cache \in Seq(Nat)
    BY <2>1 DEF CacheInv
  <2>3. /\ cache' \in Seq(Nat) /\ Len(cache') = Len(cache) + 1
        /\ \A i \in 1 .. Len(cache) : cache'[i] = cache[i]
        /\ cache'[Len(cache) + 1] = inputs'
    BY <2>1, <2>2, AppendProperties
  <2>4. Len(cache) \in Nat
    BY <2>2
  <2> QED BY <2>1, <2>2, <2>3, <2>4 DEF CacheInv, OneBatch
<1>4. ASSUME SyncDone \/ KernelFails \/ KernelFailsForGood PROVE CacheInv' /\ OneBatch
  BY <1>4, TakeBatchInOrder DEF SyncDone, KernelFails, KernelFailsForGood
<1>5. ASSUME Initialize \/ GetMluQueue \/ SyncNothing \/ \E q \in Queues : SetMluQueue(q)
      PROVE  UNCHANGED <<cache, inputs, batch, taken>>
  BY <1>5 DEF Initialize, GetMluQueue, SyncNothing, SetMluQueue, opVars
<1> QED
  BY <1>1, <1>2, <1>3, <1>4, <1>5 DEF NextDevice, NextOp, deviceVars, opVars

(* Batches take the inputs in order and once, for any batch size; what     *)
(* fills the last one up never reaches the next.                           *)
THEOREM BatchesInOrder == SpecDevice => BatchInOrder
<1>1. InitOp => CacheInv
  BY DEF InitOp, CacheInv
<1>2. CacheInv /\ [NextDevice]_deviceVars => CacheInv' /\ [OneBatch]_deviceVars
  BY CacheStep
<1>3. SpecDevice => [][OneBatch]_deviceVars
  BY <1>1, <1>2, PTL DEF SpecDevice
<1> QED BY <1>3 DEF BatchInOrder, OneBatch
-----------------------------------------------------------------------------
(* What is left of DeviceTypeOK once the invariants above are known.             *)
RestInv ==
  /\ initialized \in BOOLEAN
  /\ stuck \in created \union {NoQueue}
  /\ batch \in Seq(1 .. inputs)

(* The cache is typed by what it holds.                                    *)
LEMMA CacheTyped ==
  ASSUME CacheInv
  PROVE  cache \in Seq(1 .. inputs) /\ taken \in 0 .. inputs
<1>1. Len(cache) \in Nat /\ DOMAIN cache = 1 .. Len(cache)
  BY DEF CacheInv
<1>2. \A i \in 1 .. Len(cache) : cache[i] \in 1 .. inputs
  BY <1>1 DEF CacheInv
<1>3. cache \in [1 .. Len(cache) -> 1 .. inputs]
  BY <1>1, <1>2 DEF CacheInv
<1> QED BY <1>1, <1>3 DEF CacheInv

(* A batch holds inputs, those that fill it up included.                   *)
LEMMA PaddedTyped ==
  ASSUME CacheInv, cache # <<>> PROVE Padded \in Seq(1 .. inputs)
<1>1. Len(cache) \in Nat \ {0} /\ DOMAIN cache = 1 .. Len(cache)
  BY DEF CacheInv
<1>2. \A i \in DOMAIN cache : cache[i] \in 1 .. inputs
  BY <1>1 DEF CacheInv
<1>3. Padded \in [1 .. BatchSize -> 1 .. inputs]
  BY <1>1, <1>2 DEF Padded
<1> QED BY <1>3, BatchAssumption, SeqDef

(* Every step keeps the rest of the types.                                 *)
LEMMA RestStep ==
  ASSUME RestInv, CacheInv, References, [NextDevice]_deviceVars PROVE RestInv'
<1> USE QueueAssumption DEF RestInv
<1>1. inputs \in Nat /\ Seq(1 .. inputs) \subseteq Seq(1 .. inputs + 1)
  BY DEF CacheInv
<1>2. ASSUME UNCHANGED <<initialized, stuck, batch, inputs>>, created \subseteq created'
      PROVE  RestInv'
  BY <1>2
<1>3. ASSUME NextQueues, UNCHANGED opVars PROVE RestInv'
  <2>1. created \subseteq created'
    BY <1>3 DEF NextQueues, AppCreates, Create, AppDrops, FindIndex, PlaceMark,
       PlaceMarkThrows, MoveMark, ReleaseMark, SetCnrtQueue, queueVars
  <2>2. UNCHANGED <<initialized, stuck, batch, inputs>>
    BY <1>3 DEF opVars
  <2> QED BY <1>2, <2>1, <2>2
<1>4. CASE Initialize \/ Destroy \/ DeleteOp
  <2>1. <<>> \in Seq(1 .. inputs)
    BY EmptySeq
  <2> QED BY <1>4, <2>1 DEF Initialize, Destroy, DeleteOp, queueVars, markVars
<1>5. CASE BatchingUp
  BY <1>1, <1>5 DEF BatchingUp, queueVars, markVars
<1>6. CASE GetMluQueue \/ SyncNothing \/ \E q \in Queues : SetMluQueue(q)
  BY <1>6 DEF GetMluQueue, SyncNothing, SetMluQueue, PrepareTaskQueue, Create,
     queueVars, markVars, opVars
<1>7. ASSUME TakeBatch PROVE batch' \in Seq(1 .. inputs') /\ initialized' = initialized
  BY <1>7, PaddedTyped DEF TakeBatch, markVars
<1>8. CASE SyncDone
  BY <1>7, <1>8 DEF SyncDone, PrepareTaskQueue, Create, queueVars
<1>9. CASE KernelFails
  BY <1>7, <1>9 DEF KernelFails, queueVars
<1>10. CASE KernelFailsForGood
  BY <1>7, <1>10 DEF KernelFailsForGood
<1>11. CASE UNCHANGED deviceVars
  BY <1>11 DEF deviceVars, queueVars, markVars, opVars
<1> QED
  BY <1>3, <1>4, <1>5, <1>6, <1>8, <1>9, <1>10, <1>11 DEF NextDevice, NextOp

(* Queues, Marks and operator keep their types, for any number of queues,  *)
(* Marks and inputs: what a batch holds are inputs that came.              *)
THEOREM DeviceTypeCorrect == SpecDevice => []DeviceTypeOK
<1>1. InitOp => MarksInv /\ CacheInv /\ SpoiledInv /\ RestInv
  <2>1. InitOp => MarksInv
    BY MarksInductive
  <2>2. InitOp => SpoiledInv
    BY QueueAssumption DEF InitOp, InitQueues, SpoiledInv, SpoiledNotReused
  <2>3. InitOp => CacheInv
    BY DEF InitOp, CacheInv
  <2>4. InitOp => RestInv
    <3>1. <<>> \in Seq(1 .. inputs)
      BY EmptySeq
    <3> QED BY <3>1 DEF InitOp, InitQueues, RestInv
  <2> QED BY <2>1, <2>2, <2>3, <2>4
<1>2. MarksInv /\ CacheInv /\ SpoiledInv /\ RestInv /\ [NextDevice]_deviceVars
        => (MarksInv /\ CacheInv /\ SpoiledInv /\ RestInv)'
  BY MarksInductive, CacheStep, SpoiledStep, RestStep DEF MarksInv
<1>3. MarksInv /\ CacheInv /\ SpoiledInv /\ RestInv => DeviceTypeOK
  BY CacheTyped DEF MarksInv, SameLength, References, CacheInv, SpoiledInv,
     RestInv, DeviceTypeOK, QueuesTypeOK, Label
<1> QED BY <1>1, <1>2, <1>3, PTL DEF SpecDevice
=============================================================================
