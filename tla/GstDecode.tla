------------------------------ MODULE GstDecode ------------------------------
(***************************************************************************)
(* The cnvideo_dec element: state changes on the application's thread,     *)
(* caps, buffers and the end of stream on the streaming thread, frames on  *)
(* the codec's callback thread and codec events on the event thread.  New  *)
(* caps destroy the decoder and create the next one in the same element;   *)
(* decoders are numbered in the order of creation.                         *)
(*                                                                         *)
(* A step is what a thread does between two points where another thread    *)
(* can be seen, as in EasyDecode.                                          *)
(***************************************************************************)
EXTENDS Naturals, Sequences

CONSTANTS
  App,           (* the thread that changes the element's state             *)
  Streamer,      (* the streaming thread of the sink pad                    *)
  Loop,          (* the thread of event_task_runner                         *)
  Codec,         (* the codec's callback thread for frames                  *)
  NoThread,      (* the owner of a free mutex                               *)
  OutBufs,       (* output_buffer_num                                       *)
  MaxDecoders,   (* bound: caps events that reach init_decoder              *)
  MaxPackets,    (* bound: packets inside a decoder at a time               *)
  MaxQueue,      (* bound: queued events behind which no corruption is raised*)
  MaxFatal,      (* bound: reset, out-of-memory and abort events raised     *)
  CreateMayFail, (* may the codec refuse to create or set up an instance?   *)
  FeedMayFail    (* may a feed time out?                                    *)

ASSUME ThreadAssumption ==
  /\ \A s, t \in {1, 2, 3, 4} :
       <<App, Streamer, Loop, Codec>>[s] = <<App, Streamer, Loop, Codec>>[t] => s = t
  /\ NoThread \notin {App, Streamer, Loop, Codec}

ASSUME BoundAssumption ==
  /\ OutBufs \in Nat \ {0} /\ MaxDecoders \in Nat \ {0}
  /\ MaxPackets \in Nat /\ MaxQueue \in Nat /\ MaxFatal \in Nat
  /\ CreateMayFail \in BOOLEAN /\ FeedMayFail \in BOOLEAN

VARIABLES
  pc,            (* the next step of each thread                            *)
  element,       (* the element's state, one of ElementStates               *)
  event_mtx,     (* who holds event_mtx, or NoThread                        *)
  eos_mtx,       (* who holds eos_mtx, or NoThread                          *)
  event_queue,   (* event_queue                                             *)
  joinable,      (* event_loop.joinable()                                   *)
  decode,        (* priv->decode: the number of a decoder, or 0             *)
  send_eos,      (* send_eos                                                *)
  got_eos,       (* got_eos                                                 *)
  made,          (* the number of the last decoder asked for                *)
  negotiated,    (* external: caps events since the pads were activated?    *)
  sink_eos,      (* external: has upstream ended the stream?                *)
  pad_eos,       (* external: GST_PAD_IS_EOS(srcpad)                        *)
  codec,         (* external: the state of each codec instance              *)
  pending,       (* external: accepted packets still inside each instance   *)
  held,          (* external: output buffers referenced downstream          *)
  eos_in,        (* external: end-of-stream inputs each instance accepted   *)
  eos_out,       (* external: has each instance raised its end of stream?   *)
  frame,         (* the decoder whose frame handle_frame is at work on, or 0*)
  fatal,         (* external: fatal events raised                           *)
  refused,       (* history: was an end of stream not accepted?             *)
  told           (* history: the decoders whose end handle_eos has seen     *)

locks   == <<event_mtx, eos_mtx>>
flags   == <<joinable, decode, send_eos, got_eos, made>>
pads    == <<negotiated, sink_eos, pad_eos>>
library == <<codec, pending, held, eos_in, eos_out, frame, fatal>>
history == <<refused, told>>
vars == <<pc, element, locks, event_queue, flags, pads, library, history>>

Threads  == {App, Streamer, Loop, Codec}
Decoders == 1..MaxDecoders

(* "stopping": the pads are deactivated and GST_STATE is still PAUSED.     *)
(* PLAYING is not told from PAUSED, as in the code.                        *)
ElementStates == {"NULL", "READY", "PAUSED", "stopping", "finalized", "dead"}
EventKinds == {"EOS", "STREAM_CORRUPT", "FATAL"}
CodecKinds == {"absent", "running", "aborted", "destroyed"}

DestroySteps == {"destroy", "destroy_feed", "relock", "eos_wait", "eos_blocked",
                 "join", "free"}
LoopSteps == {"none", "lock_event", "test", "blocking", "blocked", "eos_lock",
              "eos_push", "abort_check", "abort_lock", "abort_push",
              "set_got_eos", "exited"}
Steps == {"idle", "init", "create", "eos_feed", "push_host", "push_mlu"}
           \union DestroySteps \union LoopSteps

Goto(t, step) == pc' = [pc EXCEPT ![t] = step]

Acquire(m, t) == m = NoThread /\ m' = t
Release(m, t) == m = t /\ m' = NoThread

-----------------------------------------------------------------------------
Init ==
  /\ pc = [t \in Threads |-> IF t = Loop THEN "none" ELSE "idle"]
  /\ element = "NULL"
  /\ event_mtx = NoThread /\ eos_mtx = NoThread
  /\ event_queue = <<>>
  /\ joinable = FALSE /\ decode = 0
  /\ send_eos = FALSE /\ got_eos = FALSE
  /\ made = 0
  /\ negotiated = FALSE /\ sink_eos = FALSE /\ pad_eos = FALSE
  /\ codec = [g \in Decoders |-> "absent"]
  /\ pending = [g \in Decoders |-> 0]
  /\ held = [g \in Decoders |-> 0]
  /\ eos_in = [g \in Decoders |-> 0]
  /\ eos_out = [g \in Decoders |-> FALSE]
  /\ frame = 0 /\ fatal = 0
  /\ refused = FALSE /\ told = {}

-----------------------------------------------------------------------------
(* State changes.  GstElement activates the pads on the way up and, on the *)
(* way down, deactivates them, which waits for the streaming thread to     *)
(* leave the element, and only then commits the new state.                 *)
ToReady ==
  /\ pc[App] = "idle"
  /\ \/ element = "NULL" /\ element' = "READY"
     \/ element = "stopping" /\ element' = "READY"
  /\ UNCHANGED <<pc, locks, event_queue, flags, pads, library, history>>

ToPaused ==
  /\ pc[App] = "idle"
  /\ element = "READY"
  /\ element' = "PAUSED"
  /\ UNCHANGED <<pc, locks, event_queue, flags, pads, library, history>>

DeactivatePads ==
  /\ pc[App] = "idle" /\ pc[Streamer] = "idle"
  /\ element = "PAUSED"
  /\ element' = "stopping"
  /\ negotiated' = FALSE /\ sink_eos' = FALSE /\ pad_eos' = FALSE
  /\ UNCHANGED <<pc, locks, event_queue, flags, library, history>>

(* Defect: READY to NULL leaves the decoder alone. *)
ToNull_Keep ==
  /\ pc[App] = "idle"
  /\ element = "READY"
  /\ element' = "NULL"
  /\ UNCHANGED <<pc, locks, event_queue, flags, pads, library, history>>

(* READY to NULL destroys the decoder if there is one.                     *)
ToNull ==
  /\ pc[App] = "idle"
  /\ element = "READY"
  /\ IF decode # 0
     THEN Goto(App, "destroy") /\ UNCHANGED element
     ELSE element' = "NULL" /\ UNCHANGED pc
  /\ UNCHANGED <<locks, event_queue, flags, pads, library, history>>

(* finalize deletes priv->cpp.  A std::thread that is destroyed while it   *)
(* is joinable ends the process.                                           *)
Finalize ==
  /\ pc[App] = "idle"
  /\ element = "NULL"
  /\ element' = IF joinable THEN "dead" ELSE "finalized"
  /\ UNCHANGED <<pc, locks, event_queue, flags, pads, library, history>>

-----------------------------------------------------------------------------
(* External: what the codec accepts.  A null handle is refused, and so is  *)
(* all input once the end of the stream was accepted.                      *)
CodecTakesEos  == decode # 0 /\ codec[decode] = "running"
CodecTakesData == CodecTakesEos /\ eos_in[decode] = 0

(* The codec accepts an end of stream from the thread that feeds it or     *)
(* refuses it.  Either way the caller only posts an error.                 *)
FeedEos ==
  \/ /\ CodecTakesEos
     /\ eos_in' = [eos_in EXCEPT ![decode] = @ + 1]
     /\ UNCHANGED refused
  \/ /\ FeedMayFail \/ ~CodecTakesEos
     /\ refused' = TRUE
     /\ UNCHANGED eos_in

(* External: upstream sends its caps again after the pads were activated,  *)
(* before buffers and before it ends a stream that has a decoder.          *)
Streaming == element = "PAUSED" /\ ~sink_eos /\ pc[Streamer] = "idle"

(* chain and feed_data: a buffer after the end of the stream is dropped, a *)
(* refused one is an error upstream, and neither changes anything here.    *)
Chain ==
  /\ Streaming /\ negotiated
  /\ ~send_eos
  /\ CodecTakesData
  /\ pending[decode] < MaxPackets
  /\ pending' = [pending EXCEPT ![decode] = @ + 1]
  /\ UNCHANGED <<pc, element, locks, event_queue, flags, pads, codec, held, eos_in,
                 eos_out, frame, fatal, history>>

(* The EOS event: send_eos and the feed under eos_mtx.                     *)
EosEvent ==
  /\ Streaming /\ (negotiated \/ decode = 0)
  /\ Acquire(eos_mtx, Streamer)
  /\ send_eos' = TRUE
  /\ sink_eos' = TRUE
  /\ Goto(Streamer, "eos_feed")
  /\ UNCHANGED <<element, event_mtx, event_queue, joinable, decode, got_eos, made,
                 negotiated, pad_eos, library, history>>

EosEventFeed ==
  /\ pc[Streamer] = "eos_feed"
  /\ FeedEos
  /\ Release(eos_mtx, Streamer)
  /\ Goto(Streamer, "idle")
  /\ UNCHANGED <<element, event_mtx, event_queue, flags, pads, codec, pending, held,
                 eos_out, frame, fatal, told>>

(* set_caps, with caps that both sides accept: the previous decoder is     *)
(* destroyed first, if there is one.                                       *)
SetCaps ==
  /\ Streaming
  /\ made < MaxDecoders
  /\ negotiated' = TRUE
  /\ Goto(Streamer, IF decode # 0 THEN "destroy" ELSE "init")
  /\ UNCHANGED <<element, locks, event_queue, flags, sink_eos, pad_eos, library, history>>

(* The flags are reset and init_decoder starts the event thread: assigning *)
(* to a joinable std::thread ends the process.                             *)
InitDecoder ==
  /\ pc[Streamer] = "init"
  /\ send_eos' = FALSE /\ got_eos' = FALSE
  /\ IF joinable
     THEN element' = "dead" /\ UNCHANGED <<pc, joinable, made>>
     ELSE /\ joinable' = TRUE
          /\ made' = made + 1
          /\ pc' = [pc EXCEPT ![Streamer] = "create", ![Loop] = "lock_event"]
          /\ UNCHANGED element
  /\ UNCHANGED <<locks, event_queue, decode, pads, library, history>>

(* The codec instance is created, or not, or created and then given up     *)
(* because its attributes cannot be set.                                   *)
CreateDecoder ==
  /\ pc[Streamer] = "create"
  /\ Goto(Streamer, "idle")
  /\ \/ decode' = made /\ codec' = [codec EXCEPT ![made] = "running"]
     \/ CreateMayFail /\ UNCHANGED <<decode, codec>>
     \/ /\ CreateMayFail
        /\ codec' = [codec EXCEPT ![made] = "running"]
        /\ UNCHANGED decode
  /\ UNCHANGED <<element, locks, event_queue, joinable, send_eos, got_eos, made,
                 pads, pending, held, eos_in, eos_out, frame, fatal, history>>

-----------------------------------------------------------------------------
(* destroy_decoder, on the application's thread for a state change and on  *)
(* the streaming thread for new caps.  It looks under eos_mtx whether the  *)
(* stream still has to be ended; if so, it drops the lock ...              *)
DestroyMustFeed(t) ==
  /\ pc[t] = "destroy"
  /\ eos_mtx = NoThread
  /\ ~got_eos /\ ~send_eos /\ decode # 0
  /\ Goto(t, "destroy_feed")
  /\ UNCHANGED <<element, locks, event_queue, flags, pads, library, history>>

(* ... and feeds the end of stream.  send_eos is set if it was accepted or *)
(* not.                                                                    *)
DestroyFeed(t) ==
  /\ pc[t] = "destroy_feed"
  /\ FeedEos
  /\ send_eos' = TRUE
  /\ Goto(t, "relock")
  /\ UNCHANGED <<element, locks, event_queue, joinable, decode, got_eos, made, pads,
                 codec, pending, held, eos_out, frame, fatal, told>>

DestroyNeedNotFeed(t) ==
  /\ pc[t] = "destroy"
  /\ Acquire(eos_mtx, t)
  /\ got_eos \/ send_eos \/ decode = 0
  /\ got_eos' = (got_eos \/ decode = 0)
  /\ Goto(t, "eos_wait")
  /\ UNCHANGED <<element, event_mtx, event_queue, joinable, decode, send_eos, made,
                 pads, library, history>>

(* Defect: the wait gives up. *)
DestroyRelock_GiveUp(t) ==
  /\ pc[t] = "relock"
  /\ Acquire(eos_mtx, t)
  /\ got_eos' = TRUE
  /\ Goto(t, "eos_wait")
  /\ UNCHANGED <<element, event_mtx, event_queue, joinable, decode, send_eos, made,
                 pads, library, history>>

DestroyRelock(t) ==
  /\ pc[t] = "relock"
  /\ Acquire(eos_mtx, t)
  /\ Goto(t, "eos_wait")
  /\ UNCHANGED <<element, event_mtx, event_queue, flags, pads, library, history>>

DestroyBlock(t) ==
  /\ pc[t] = "eos_wait"
  /\ ~got_eos
  /\ Release(eos_mtx, t)
  /\ Goto(t, "eos_blocked")
  /\ UNCHANGED <<element, event_mtx, event_queue, flags, pads, library, history>>

(* event_cond.notify_all(), without event_mtx. *)
DestroyNotify(t) ==
  /\ pc[t] = "eos_wait"
  /\ got_eos
  /\ pc' = [pc EXCEPT ![t] = "join",
                      ![Loop] = IF @ = "blocked" THEN "lock_event" ELSE @]
  /\ UNCHANGED <<element, locks, event_queue, flags, pads, library, history>>

(* Defect: the event thread is not joined. *)
DestroyJoin_Skip(t) ==
  /\ pc[t] = "join"
  /\ Goto(t, "free")
  /\ UNCHANGED <<element, locks, event_queue, flags, pads, library, history>>

(* event_loop.join(), with eos_mtx still held. *)
DestroyJoin(t) ==
  /\ pc[t] = "join"
  /\ joinable => pc[Loop] = "exited"
  /\ joinable' = FALSE
  /\ Goto(t, "free")
  /\ UNCHANGED <<element, locks, event_queue, decode, send_eos, got_eos, made, pads,
                 library, history>>

(* Defect: the handle is forgotten, the instance goes on. *)
DestroyFree_Forget(t) ==
  /\ pc[t] = "free"
  /\ decode' = 0
  /\ Release(eos_mtx, t)
  /\ Goto(t, IF t = Streamer THEN "init" ELSE "idle")
  /\ element' = IF t = App THEN "NULL" ELSE element
  /\ UNCHANGED <<event_mtx, event_queue, joinable, send_eos, got_eos, made, pads,
                 library, history>>

(* The instance is stopped and destroyed, unless it was aborted meanwhile; *)
(* set_caps goes on to init_decoder and the state change is complete.      *)
DestroyFree(t) ==
  /\ pc[t] = "free"
  /\ codec' = [g \in Decoders |-> IF g = decode THEN "destroyed" ELSE codec[g]]
  /\ decode' = 0
  /\ Release(eos_mtx, t)
  /\ Goto(t, IF t = Streamer THEN "init" ELSE "idle")
  /\ element' = IF t = App THEN "NULL" ELSE element
  /\ UNCHANGED <<event_mtx, event_queue, joinable, send_eos, got_eos, made, pads,
                 pending, held, eos_in, eos_out, frame, fatal, history>>

-----------------------------------------------------------------------------
(* event_task_runner. *)
LoopLock ==
  /\ pc[Loop] = "lock_event"
  /\ Acquire(event_mtx, Loop)
  /\ Goto(Loop, "test")
  /\ UNCHANGED <<element, eos_mtx, event_queue, flags, pads, library, history>>

LoopExit ==
  /\ pc[Loop] = "test"
  /\ event_queue = <<>> /\ got_eos
  /\ Release(event_mtx, Loop)
  /\ Goto(Loop, "exited")
  /\ UNCHANGED <<element, eos_mtx, event_queue, flags, pads, library, history>>

(* Defect: a corrupt stream falls through to the end of stream. *)
LoopTake_FallThrough ==
  /\ pc[Loop] = "test"
  /\ event_queue # <<>>
  /\ event_queue' = Tail(event_queue)
  /\ Release(event_mtx, Loop)
  /\ Goto(Loop, IF Head(event_queue) = "FATAL" THEN "abort_check" ELSE "eos_lock")
  /\ UNCHANGED <<element, eos_mtx, flags, pads, library, history>>

LoopTake ==
  /\ pc[Loop] = "test"
  /\ event_queue # <<>>
  /\ event_queue' = Tail(event_queue)
  /\ Release(event_mtx, Loop)
  /\ Goto(Loop, IF Head(event_queue) = "EOS" THEN "eos_lock"
                ELSE IF Head(event_queue) = "FATAL" THEN "abort_check"
                ELSE "lock_event")
  /\ UNCHANGED <<element, eos_mtx, flags, pads, library, history>>

LoopMustWait ==
  /\ pc[Loop] = "test"
  /\ event_queue = <<>> /\ ~got_eos
  /\ Goto(Loop, "blocking")
  /\ UNCHANGED <<element, locks, event_queue, flags, pads, library, history>>

LoopBlock ==
  /\ pc[Loop] = "blocking"
  /\ Release(event_mtx, Loop)
  /\ Goto(Loop, "blocked")
  /\ UNCHANGED <<element, eos_mtx, event_queue, flags, pads, library, history>>

(* abort_decoder: an aborted handle becomes null before anybody is told.   *)
AbortDecoder ==
  /\ pc[Loop] = "abort_check"
  /\ IF decode # 0
     THEN /\ codec' = [codec EXCEPT ![decode] = "aborted"]
          /\ pending' = [pending EXCEPT ![decode] = 0]
          /\ decode' = 0
          /\ Goto(Loop, "abort_lock")
     ELSE /\ Goto(Loop, "lock_event")
          /\ UNCHANGED <<codec, pending, decode>>
  /\ UNCHANGED <<element, locks, event_queue, joinable, send_eos, got_eos, made, pads,
                 held, eos_in, eos_out, frame, fatal, history>>

(* eos_cond is notified: whoever waits in destroy_decoder wants the lock.  *)
NotifyEos(step) ==
  pc' = [t \in Threads |-> IF t = Loop THEN step
                           ELSE IF pc[t] = "eos_blocked" THEN "relock" ELSE pc[t]]

(* handle_eos, for an EOS event and in abort_decoder: got_eos under        *)
(* eos_mtx, ...                                                            *)
HandleEos ==
  /\ pc[Loop] \in {"eos_lock", "abort_lock"}
  /\ Acquire(eos_mtx, Loop)
  /\ got_eos' = TRUE
  /\ told' = told \union {made}
  /\ NotifyEos(IF pc[Loop] = "eos_lock" THEN "eos_push" ELSE "abort_push")
  /\ UNCHANGED <<element, event_mtx, event_queue, joinable, decode, send_eos, made,
                 pads, library, refused>>

(* Defect: the test of the element's state is the wrong way round. *)
PushEos_StateSwapped ==
  /\ pc[Loop] \in {"eos_push", "abort_push"}
  /\ pad_eos' = (pad_eos \/ element = "READY")
  /\ Release(eos_mtx, Loop)
  /\ Goto(Loop, IF pc[Loop] = "eos_push" THEN "lock_event" ELSE "set_got_eos")
  /\ UNCHANGED <<element, event_mtx, event_queue, flags, negotiated, sink_eos, library,
                 history>>

(* ... and, still under it, the EOS event downstream, which a pad that is  *)
(* not active does not let through.                                        *)
PushEos ==
  /\ pc[Loop] \in {"eos_push", "abort_push"}
  /\ pad_eos' = (pad_eos \/ element = "PAUSED")
  /\ Release(eos_mtx, Loop)
  /\ Goto(Loop, IF pc[Loop] = "eos_push" THEN "lock_event" ELSE "set_got_eos")
  /\ UNCHANGED <<element, event_mtx, event_queue, flags, negotiated, sink_eos, library,
                 history>>

(* The end of abort_decoder takes eos_mtx a second time.                   *)
AbortGotEos ==
  /\ pc[Loop] = "set_got_eos"
  /\ eos_mtx = NoThread
  /\ got_eos' = TRUE
  /\ NotifyEos("lock_event")
  /\ UNCHANGED <<element, locks, event_queue, joinable, decode, send_eos, made, pads,
                 library, history>>

(* Either condition variable may wake its waiter for no reason. *)
SpuriousWakeup ==
  /\ \/ pc[Loop] = "blocked" /\ Goto(Loop, "lock_event")
     \/ \E t \in {App, Streamer} : pc[t] = "eos_blocked" /\ Goto(t, "relock")
  /\ UNCHANGED <<element, locks, event_queue, flags, pads, library, history>>

-----------------------------------------------------------------------------
(* handle_frame, called by the codec.  An element that is READY or less    *)
(* gives the frame back at once; else the frame is copied to the host and  *)
(* given back, or referenced and wrapped, ...                              *)
CodecFrame(g) ==
  /\ codec[g] = "running" /\ pending[g] > 0
  /\ pc[Codec] = "idle" /\ held[g] < OutBufs
  /\ pending' = [pending EXCEPT ![g] = @ - 1]
  /\ \/ element \notin {"PAUSED", "stopping"} /\ UNCHANGED <<pc, frame, held>>
     \/ /\ element \in {"PAUSED", "stopping"}
        /\ frame' = g
        /\ \/ Goto(Codec, "push_host") /\ UNCHANGED held
           \/ Goto(Codec, "push_mlu") /\ held' = [held EXCEPT ![g] = @ + 1]
  /\ UNCHANGED <<element, locks, event_queue, flags, pads, codec, eos_in, eos_out,
                 fatal, history>>

(* ... and pushed, unless the pad is at its end.  A buffer that does not   *)
(* leave the element is dropped and its frame given back.                  *)
PushFrame ==
  /\ pc[Codec] \in {"push_host", "push_mlu"}
  /\ held' = IF pc[Codec] = "push_host" \/ (element = "PAUSED" /\ ~pad_eos) THEN held
             ELSE [held EXCEPT ![frame] = @ - 1]
  /\ frame' = 0
  /\ Goto(Codec, "idle")
  /\ UNCHANGED <<element, locks, event_queue, flags, pads, codec, pending, eos_in,
                 eos_out, fatal, history>>

(* DecodeFrameDeallocator: downstream drops the last reference to a frame, *)
(* whether the decoder it came from still exists or not.                   *)
ReleaseBuffer(g) ==
  /\ held[g] > (IF pc[Codec] = "push_mlu" /\ frame = g THEN 1 ELSE 0)
  /\ held' = [held EXCEPT ![g] = @ - 1]
  /\ UNCHANGED <<pc, element, locks, event_queue, flags, pads, codec, pending, eos_in,
                 eos_out, frame, fatal, history>>

(* Defect: event_cond is not notified. *)
HandleEvent_Silent(kind) ==
  /\ event_mtx = NoThread
  /\ event_queue' = Append(event_queue, kind)
  /\ UNCHANGED <<pc, element, locks, flags, pads, history>>

(* event_handler and handle_event, called by the codec. *)
HandleEvent(kind) ==
  /\ event_mtx = NoThread
  /\ event_queue' = Append(event_queue, kind)
  /\ pc' = [pc EXCEPT ![Loop] = IF @ = "blocked" THEN "lock_event" ELSE @]
  /\ UNCHANGED <<element, locks, flags, pads, history>>

CodecCorrupt(g) ==
  /\ codec[g] = "running" /\ pending[g] > 0
  /\ Len(event_queue) < MaxQueue
  /\ pending' = [pending EXCEPT ![g] = @ - 1]
  /\ HandleEvent("STREAM_CORRUPT")
  /\ UNCHANGED <<codec, held, eos_in, eos_out, frame, fatal>>

(* The end of stream comes out when every frame before it was handled.     *)
CodecEos(g) ==
  /\ codec[g] = "running" /\ pending[g] = 0 /\ pc[Codec] = "idle"
  /\ eos_in[g] > 0 /\ ~eos_out[g]
  /\ eos_out' = [eos_out EXCEPT ![g] = TRUE]
  /\ HandleEvent("EOS")
  /\ UNCHANGED <<codec, pending, held, eos_in, frame, fatal>>

CodecFatal(g) ==
  /\ codec[g] = "running" /\ fatal < MaxFatal
  /\ fatal' = fatal + 1
  /\ HandleEvent("FATAL")
  /\ UNCHANGED <<codec, pending, held, eos_in, eos_out, frame>>

-----------------------------------------------------------------------------
ChangeState == ToReady \/ ToPaused \/ DeactivatePads \/ ToNull \/ Finalize

Stream == \/ Chain \/ EosEvent \/ EosEventFeed
          \/ SetCaps \/ InitDecoder \/ CreateDecoder

DestroyDecoder(t) ==
  \/ DestroyMustFeed(t) \/ DestroyFeed(t) \/ DestroyNeedNotFeed(t)
  \/ DestroyRelock(t) \/ DestroyBlock(t) \/ DestroyNotify(t)
  \/ DestroyJoin(t) \/ DestroyFree(t)

EventTaskRunner ==
  \/ LoopLock \/ LoopExit \/ LoopTake \/ LoopMustWait \/ LoopBlock
  \/ AbortDecoder \/ HandleEos \/ PushEos \/ AbortGotEos

Codecs == \/ PushFrame
          \/ \E g \in Decoders : \/ CodecFrame(g) \/ ReleaseBuffer(g) \/ CodecCorrupt(g)
                                 \/ CodecEos(g) \/ CodecFatal(g)

Finished == element \in {"finalized", "dead"} /\ UNCHANGED vars

Next ==
  \/ /\ element # "dead"
     /\ \/ ChangeState
        \/ Stream
        \/ \E t \in {App, Streamer} : DestroyDecoder(t)
        \/ EventTaskRunner
        \/ SpuriousWakeup
        \/ Codecs
  \/ Finished

Spec == Init /\ [][Next]_vars

(* Threads that run keep running and a thread gets a mutex that is freed   *)
(* again and again.  The codec works off its input and downstream takes    *)
(* and drops buffers.  Which states, caps and buffers come, and spurious   *)
(* wakeups, are left to the application.                                   *)
Fairness ==
  /\ WF_vars(pc[Streamer] # "idle" /\ element # "dead" /\ Stream)
  /\ \A t \in {App, Streamer} : SF_vars(element # "dead" /\ DestroyDecoder(t))
  /\ SF_vars(element # "dead" /\ EventTaskRunner)
  /\ WF_vars(element # "dead" /\ PushFrame)
  /\ \A g \in Decoders :
       /\ SF_vars(element # "dead" /\ CodecFrame(g))
       /\ WF_vars(element # "dead" /\ ReleaseBuffer(g))
       /\ SF_vars(element # "dead" /\ CodecEos(g))

FairSpec == Spec /\ Fairness

-----------------------------------------------------------------------------
(* Every variable of the element and of the codec has its type.            *)
TypeOK ==
  /\ pc \in [Threads -> Steps]
  /\ pc[App] \in {"idle"} \union DestroySteps
  /\ pc[Loop] \in LoopSteps
  /\ pc[Codec] \in {"idle", "push_host", "push_mlu"}
  /\ element \in ElementStates
  /\ event_mtx \in {NoThread, Loop} /\ eos_mtx \in {NoThread, App, Streamer, Loop}
  /\ event_queue \in Seq(EventKinds)
  /\ joinable \in BOOLEAN /\ send_eos \in BOOLEAN /\ got_eos \in BOOLEAN
  /\ decode \in {0, made} /\ made \in 0..MaxDecoders
  /\ negotiated \in BOOLEAN /\ sink_eos \in BOOLEAN /\ pad_eos \in BOOLEAN
  /\ codec \in [Decoders -> CodecKinds]
  /\ pending \in [Decoders -> 0..MaxPackets] /\ held \in [Decoders -> 0..OutBufs]
  /\ eos_in \in [Decoders -> Nat] /\ eos_out \in [Decoders -> BOOLEAN]
  /\ frame \in 0..MaxDecoders /\ fatal \in 0..MaxFatal
  /\ refused \in BOOLEAN /\ told \subseteq Decoders

(* A decoder is destroyed, and the element's mutexes and queue deleted,    *)
(* only when the event thread has left, and a decoder never under a frame  *)
(* of its own that handle_frame is at work on.                             *)
JoinedBeforeFree ==
  [][  (\E g \in Decoders : codec[g] # codec'[g] /\ codec'[g] = "destroyed")
       \/ element' = "finalized"
     => /\ pc[Loop] \in {"none", "exited"}
        /\ event_mtx = NoThread
        /\ frame = 0 \/ codec[frame] = "aborted"
    ]_<<codec, element>>

(* handle_frame reads priv->decode, the caps and the duration of now: the  *)
(* frame it is called with comes from the decoder of now, and of no other  *)
(* that the codec did not have to abort.                                   *)
FrameOfThisDecoder == frame # 0 => frame = made \/ codec[frame] = "aborted"

(* An element that was finalized has left no codec instance running. *)
NoneLeftBehind ==
  element = "finalized" => \A g \in Decoders : codec[g] # "running"

(* The joinable event thread ends the process only after a decoder was     *)
(* aborted or could not be created: never because of the order of caps,    *)
(* buffers, ends of stream and state changes alone.                        *)
DiesOnlyAfterFailure ==
  element = "dead" =>
    \E g \in 1..made : \/ codec[g] \in {"aborted", "absent"}
                       \/ codec[g] = "running" /\ decode # g

(* Each decoder, seen as a session.                                        *)
Phase(g) == IF codec[g] = "destroyed"    THEN "closed"
            ELSE IF g \in told           THEN "ended"
            ELSE IF codec[g] = "aborted" THEN "aborted"
            ELSE IF codec[g] = "absent"  THEN "new"
            ELSE IF eos_in[g] > 0        THEN "sealed"
            ELSE                              "open"

Session(g) == INSTANCE DecodeSession WITH phase <- Phase(g), inside <- pending[g]

(* Every decoder the element creates, one after the other, keeps the       *)
(* promise of DecodeSession.                                               *)
SessionsKept ==
  /\ \A g \in Decoders : Session(g)!Init
  /\ [][\A g \in Decoders : [Session(g)!Next]_<<Phase(g), pending[g]>>]_vars

(* destroy_decoder waits for an end of stream that the codec did not take, *)
(* or joins the event thread with eos_mtx held while that wants the mutex. *)
NeverReturns(t) ==
  \/ pc[t] \in DestroySteps /\ ~got_eos /\ refused
  \/ pc[t] = "join" /\ pc[Loop] \in {"eos_lock", "abort_lock", "set_got_eos"}

(* destroy_decoder returns, or the process ends, or it hangs in one of the *)
(* two ways of NeverReturns: whatever the codec refuses or raises, there   *)
(* is no third.                                                            *)
DestroyReturns ==
  \A t \in {App, Streamer} :
    [](pc[t] = "destroy" =>
         <>(pc[t] \notin DestroySteps \/ element = "dead") \/ <>[]NeverReturns(t))

(* Upstream's end of stream goes through the codec and the event thread    *)
(* and reaches downstream, unless the stream is stopped meanwhile, the     *)
(* codec failed or it refused the end.                                     *)
EosReachesDownstream ==
  sink_eos ~> pad_eos \/ ~sink_eos \/ fatal > 0 \/ refused \/ element = "dead"
=============================================================================
