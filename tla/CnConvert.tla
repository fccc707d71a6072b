------------------------------- MODULE CnConvert -------------------------------
(***************************************************************************)
(* The cnconvert element: caps negotiation on one side, frames converted   *)
(* on the other, and the device memories that live across calls.           *)
(* mlu_dst_mem receives a frame's result and leaves with the frame; tmp_mem*)
(* carries an RGB picture between the resize and the colour conversion and *)
(* stays.  setcaps and chain run on the one streaming thread, frames are   *)
(* given back by whoever holds them downstream.                            *)
(*                                                                         *)
(* A picture is its format and its number of pixels, a GstSyncedMemory an  *)
(* identity with its number of bytes.  BGR and the other orders of RGB and *)
(* RGBA behave as those two, NV21 as NV12; I420 is passed on only.  Where   *)
(* the input picture comes from (input_on_mlu) makes no difference to the  *)
(* memories kept here, and a picture that is neither resized nor converted *)
(* touches none of them.                                                   *)
(***************************************************************************)
EXTENDS Naturals, FiniteSets

CONSTANTS
  Mems,          (* identities of GstSyncedMemory instances                 *)
  NoMem,         (* nullptr                                                 *)
  Resolutions,   (* picture sizes, in pixels                                *)
  MaxFrames,     (* bound: output frames held downstream                    *)
  KernelMayFail, (* may a CNCV or CNRT call fail?                           *)
  MaxLost        (* bound: failed releases of device memory, give or take 1 *)

ASSUME ConvertAssumption ==
  /\ NoMem \notin Mems
  /\ Resolutions \subseteq Nat \ {0}
  /\ MaxFrames \in Nat /\ MaxLost \in Nat
  /\ KernelMayFail \in BOOLEAN

VARIABLES
  sink_info, src_info, output_on_mlu,
  disable_resize, disable_convert,
  mlu_dst_mem, tmp_mem,
  negotiated,    (* external: did the last caps event return TRUE?          *)
  bytes,         (* size of each memory, 0 when it is not allocated         *)
  frames,        (* memories of the output frames that are downstream       *)
  lost,          (* history: memories whose release failed                  *)
  finalized,     (* was the element finalized?                              *)
  broken         (* a freed memory was freed again or used                  *)

caps == <<sink_info, src_info, output_on_mlu>>
flags == <<disable_resize, disable_convert>>
memory == <<mlu_dst_mem, tmp_mem, bytes, frames, lost, broken>>
vars == <<caps, flags, negotiated, finalized, memory>>

Formats == {"NV12", "RGB", "RGBA"}
Infos   == [fmt : Formats, size : Resolutions]

isRGB(fmt) == fmt \in {"RGB", "RGBA"}
isYUV420sp(fmt) == fmt = "NV12"

(* get_channel_num_plane0. *)
Channels(fmt) == CASE fmt = "RGB" -> 3 [] fmt = "RGBA" -> 4 [] OTHER -> 1

(* The source formats setcaps asks downstream for. *)
FilterCaps(fmt) ==
  IF isYUV420sp(fmt) THEN {"NV12", "RGB", "RGBA"} ELSE {"RGB", "RGBA"}

-----------------------------------------------------------------------------
Init ==
  /\ sink_info \in Infos /\ src_info = sink_info
  /\ output_on_mlu = FALSE
  /\ disable_resize = FALSE /\ disable_convert = FALSE
  /\ mlu_dst_mem = NoMem /\ tmp_mem = NoMem
  /\ negotiated = FALSE /\ finalized = FALSE
  /\ bytes = [m \in Mems |-> 0]
  /\ frames = {} /\ lost = {}
  /\ broken = FALSE

(* Defect: a resize without conversion is let through for any format. *)
Supported_AnyResize(in, out) ==
  in.size = out.size /\ in.fmt # out.fmt => isRGB(in.fmt) /\ isRGB(out.fmt)

(* Without a resize only RGB is converted, without a conversion only RGB   *)
(* is resized.                                                             *)
Supported(in, out) ==
  /\ in.size = out.size /\ in.fmt # out.fmt => isRGB(in.fmt) /\ isRGB(out.fmt)
  /\ in.size # out.size /\ in.fmt = out.fmt => isRGB(in.fmt)

(* cn_syncedmem_free of a memory that is there: it may return false, and   *)
(* the memory is lost.                                                     *)
InUse(m)            == m \in Mems /\ bytes[m] > 0
FreeReturnsTrue(m)  == InUse(m) /\ bytes' = [bytes EXCEPT ![m] = 0]
FreeReturnsFalse(m) == InUse(m) /\ Cardinality(lost) < MaxLost

Kept == {mlu_dst_mem, tmp_mem} \ {NoMem}

(* Defect: setcaps keeps the memories of the previous caps. *)
ReleaseBuffers_Keep ==
  /\ negotiated' = TRUE
  /\ UNCHANGED memory

(* The end of setcaps: mlu_dst_mem, then tmp_mem.  A memory whose release  *)
(* succeeds fails the caps, and its pointer is kept; one whose release     *)
(* fails is forgotten and the caps succeed.                                *)
ReleaseBuffers ==
  \/ /\ \A m \in Kept : FreeReturnsFalse(m)
     /\ negotiated' = TRUE
     /\ mlu_dst_mem' = NoMem /\ tmp_mem' = NoMem
     /\ lost' = lost \union Kept
     /\ UNCHANGED <<bytes, frames, broken>>
  \/ /\ FreeReturnsTrue(mlu_dst_mem)
     /\ negotiated' = FALSE
     /\ UNCHANGED <<mlu_dst_mem, tmp_mem, frames, lost, broken>>
  \/ /\ mlu_dst_mem = NoMem \/ FreeReturnsFalse(mlu_dst_mem)
     /\ FreeReturnsTrue(tmp_mem)
     /\ negotiated' = FALSE
     /\ mlu_dst_mem' = NoMem
     /\ lost' = lost \union ({mlu_dst_mem} \ {NoMem})
     /\ UNCHANGED <<tmp_mem, frames, broken>>
  \/ /\ \E m \in Kept : ~InUse(m)
     /\ broken' = TRUE
     /\ negotiated' = FALSE
     /\ UNCHANGED <<mlu_dst_mem, tmp_mem, bytes, frames, lost>>

(* gst_cnconvert_setcaps.  Downstream is not linked, shares no format, or  *)
(* refuses: the infos are already those of the new caps.                   *)
SetcapsRefused(in) ==
  /\ ~finalized /\ ~broken
  /\ sink_info' = in
  /\ \/ UNCHANGED src_info
     \/ src_info' \in {out \in Infos : out.fmt \in FilterCaps(in.fmt)}
  /\ negotiated' = FALSE
  /\ UNCHANGED <<output_on_mlu, flags, finalized, memory>>

Setcaps(in, out, on_mlu) ==
  /\ ~finalized /\ ~broken
  /\ out.fmt \in FilterCaps(in.fmt)
  /\ sink_info' = in /\ src_info' = out
  /\ output_on_mlu' = on_mlu
  /\ disable_resize' = (in.size = out.size)
  /\ disable_convert' = (in.fmt = out.fmt)
  /\ IF Supported(in, out) THEN ReleaseBuffers
                           ELSE negotiated' = FALSE /\ UNCHANGED memory
  /\ UNCHANGED finalized

-----------------------------------------------------------------------------
(* What the functions of the chain write, in bytes. *)
ResizedBytes   == src_info.size * Channels(sink_info.fmt)
ConvertedBytes == src_info.size * Channels(src_info.fmt)

Fresh(m) == bytes[m] = 0 /\ m \notin Kept

(* Defect: a memory is allocated for every frame. *)
Destination_Always(slot, m) == Fresh(m)

(* The memory that is written: the one that is there, or else a new one.   *)
Destination(slot, m) == IF slot # NoMem THEN m = slot ELSE Fresh(m)

Allocated(b, slot, m, n) == IF slot = m THEN b ELSE [b EXCEPT ![m] = n]

(* Defect: the element keeps the memory it sends away. *)
PushFrame_Keep(m, b) ==
  /\ mlu_dst_mem' = m
  /\ IF output_on_mlu
     THEN frames' = frames \union {m} /\ bytes' = b
     ELSE frames' = frames /\ bytes' = [b EXCEPT ![m] = 0]

(* The result leaves with the frame: downstream, or, when the output is    *)
(* host memory, to be copied out and released.                             *)
PushFrame(m, b) ==
  /\ mlu_dst_mem' = NoMem
  /\ IF output_on_mlu
     THEN frames' = frames \union {m} /\ bytes' = b
     ELSE frames' = frames /\ bytes' = [b EXCEPT ![m] = 0]

(* A failed call leaves the memory for the next frame. *)
KeepResult(m, b) ==
  /\ KernelMayFail
  /\ mlu_dst_mem' = m /\ bytes' = b
  /\ UNCHANGED frames

Chain ==
  /\ negotiated /\ ~finalized /\ ~broken
  /\ Cardinality(frames) < MaxFrames
  /\ UNCHANGED <<caps, flags, negotiated, finalized, lost, broken>>

Finish(m, n) ==
  LET b == Allocated(bytes, mlu_dst_mem, m, n)
  IN  /\ Destination(mlu_dst_mem, m)
      /\ PushFrame(m, b) \/ KeepResult(m, b)

(* resize_rgb alone. *)
ChainResize ==
  /\ Chain
  /\ disable_convert /\ ~disable_resize
  /\ \E m \in Mems : Finish(m, ResizedBytes)
  /\ UNCHANGED tmp_mem

(* cvt_rgb alone. *)
ChainConvert ==
  /\ Chain
  /\ disable_resize /\ ~disable_convert
  /\ \E m \in Mems : Finish(m, ConvertedBytes)
  /\ UNCHANGED tmp_mem

(* resize_convert, whose memory has room for four channels. *)
ChainResizeConvert ==
  /\ Chain
  /\ ~disable_resize /\ ~disable_convert
  /\ isYUV420sp(sink_info.fmt) /\ isRGB(src_info.fmt)
  /\ \E m \in Mems : Finish(m, src_info.size * 4)
  /\ UNCHANGED tmp_mem

(* resize_rgb into tmp_mem and cvt_rgb out of it. *)
ChainResizeThenConvert ==
  /\ Chain
  /\ ~disable_resize /\ ~disable_convert
  /\ isRGB(sink_info.fmt) /\ isRGB(src_info.fmt)
  /\ \E t, m \in Mems :
       LET b == Allocated(bytes, tmp_mem, t, ResizedBytes)
           c == Allocated(b, mlu_dst_mem, m, ConvertedBytes)
       IN  /\ Destination(tmp_mem, t)
           /\ tmp_mem' = t
           /\ \/ /\ KernelMayFail
                 /\ bytes' = b
                 /\ UNCHANGED <<mlu_dst_mem, frames>>
              \/ /\ m # t
                 /\ Destination(mlu_dst_mem, m)
                 /\ PushFrame(m, c) \/ KeepResult(m, c)

(* Whoever holds an output frame drops the last reference to it. *)
gst_mlu_frame_free(m) ==
  /\ m \in frames /\ ~broken
  /\ frames' = frames \ {m}
  /\ \/ FreeReturnsTrue(m) /\ UNCHANGED lost
     \/ FreeReturnsFalse(m) /\ lost' = lost \union {m} /\ UNCHANGED bytes
  /\ UNCHANGED <<caps, flags, negotiated, finalized, mlu_dst_mem, tmp_mem, broken>>

(* gst_cnconvert_finalize. *)
Finalize ==
  /\ ~finalized /\ ~broken
  /\ finalized' = TRUE
  /\ broken' = (\E m \in Kept : ~InUse(m))
  /\ \E failed \in SUBSET Kept :
       /\ \A m \in failed : FreeReturnsFalse(m)
       /\ lost' = lost \union failed
       /\ bytes' = [m \in Mems |-> IF m \in Kept \ failed THEN 0 ELSE bytes[m]]
  /\ mlu_dst_mem' = NoMem /\ tmp_mem' = NoMem
  /\ negotiated' = FALSE
  /\ UNCHANGED <<caps, flags, frames>>

Next ==
  \/ \E in \in Infos :
       \/ SetcapsRefused(in)
       \/ \E out \in Infos, on_mlu \in BOOLEAN : Setcaps(in, out, on_mlu)
  \/ ChainResize \/ ChainConvert \/ ChainResizeConvert \/ ChainResizeThenConvert
  \/ \E m \in Mems : gst_mlu_frame_free(m)
  \/ Finalize

Spec == Init /\ [][Next]_vars

-----------------------------------------------------------------------------
(* The members of GstCnconvertPrivate have their types. *)
TypeOK ==
  /\ sink_info \in Infos /\ src_info \in Infos
  /\ output_on_mlu \in BOOLEAN
  /\ disable_resize \in BOOLEAN /\ disable_convert \in BOOLEAN
  /\ mlu_dst_mem \in Mems \union {NoMem} /\ tmp_mem \in Mems \union {NoMem}
  /\ negotiated \in BOOLEAN /\ finalized \in BOOLEAN /\ broken \in BOOLEAN
  /\ bytes \in [Mems -> Nat]
  /\ frames \subseteq Mems /\ lost \subseteq Mems

(* The memories chain keeps from one frame to the next are allocated and   *)
(* have room for what it writes under the caps of now, whatever caps and   *)
(* failed conversions they have lived through.                             *)
KeptMemoryFits ==
  negotiated =>
    /\ mlu_dst_mem # NoMem =>
         bytes[mlu_dst_mem] >= IF disable_convert THEN ResizedBytes ELSE ConvertedBytes
    /\ tmp_mem # NoMem => bytes[tmp_mem] >= ResizedBytes

(* A memory that went downstream with a frame is allocated until the frame *)
(* is freed, and chain, setcaps and finalize do not hold it any more.      *)
FramesOwnTheirMemory ==
  /\ \A m \in frames : bytes[m] > 0 /\ m \notin Kept
  /\ mlu_dst_mem = tmp_mem => mlu_dst_mem = NoMem

(* Caps that setcaps accepts never lead chain to a conversion its library  *)
(* functions do not offer.                                                 *)
KernelSupports ==
  negotiated =>
    /\ disable_convert /\ ~disable_resize => isRGB(sink_info.fmt)
    /\ ~disable_convert =>
         /\ isRGB(src_info.fmt)
         /\ isRGB(sink_info.fmt) \/ (~disable_resize /\ isYUV420sp(sink_info.fmt))

(* A memory of cnconvert is always one that the element or a frame still   *)
(* points to, unless its release failed: failed conversions, caps changes  *)
(* and finalization lose none.                                             *)
NothingLost ==
  \A m \in Mems : bytes[m] > 0 => m \in Kept \union frames \union lost

(* No memory is freed twice or used after it was freed. *)
FreedOnce == ~broken
=============================================================================
