------------------------------ MODULE GstEncode ------------------------------
(***************************************************************************)
(* The cnvideo_enc element: state changes on the application's thread,     *)
(* caps, buffers and the end of stream on the streaming thread, encoded    *)
(* packets on the codec's callback thread and codec events on the event    *)
(* thread.  New caps destroy the encoder and create the next one in the    *)
(* same element; encoders are numbered in the order of creation.           *)
(*                                                                         *)
(* The two flags of the end of stream are those of the element: nothing    *)
(* resets them for the next encoder.  fresh tells the encoders that were   *)
(* created while both were clear from the others.                          *)
(***************************************************************************)
EXTENDS Naturals, Sequences, FiniteSets

CONSTANTS
  App,           (* the thread that changes the element's state             *)
  Streamer,      (* the streaming thread of the sink pad                    *)
  Loop,          (* the thread of event_task_runner                         *)
  Codec,         (* the codec's callback thread for packets                 *)
  NoThread,      (* the owner of a free mutex                               *)
  MaxEncoders,   (* bound: caps events that reach init_encoder              *)
  MaxFrames,     (* bound: frames inside an encoder at a time               *)
  MaxQueue,      (* bound: queued events behind which no corruption is raised*)
  MaxFailures    (* bound: kinds of failure that happen in one behaviour    *)

ASSUME ThreadAssumption ==
  /\ \A s, t \in {1, 2, 3, 4} :
       <<App, Streamer, Loop, Codec>>[s] = <<App, Streamer, Loop, Codec>>[t] => s = t
  /\ NoThread \notin {App, Streamer, Loop, Codec}

ASSUME BoundAssumption ==
  /\ MaxEncoders \in Nat \ {0}
  /\ MaxFrames \in Nat /\ MaxQueue \in Nat /\ MaxFailures \in Nat

VARIABLES
  pc,            (* the next step of each thread                            *)
  element,       (* the element's state, one of ElementStates               *)
  event_mtx,     (* who holds event_mtx, or NoThread                        *)
  eos_mtx,       (* who holds eos_mtx, or NoThread                          *)
  event_queue,   (* event_queue                                             *)
  joinable,      (* event_loop.joinable()                                   *)
  encode,        (* priv->encode: the number of an encoder, or 0            *)
  send_eos,      (* send_eos                                                *)
  got_eos,       (* got_eos                                                 *)
  made,          (* the number of the last encoder asked for                *)
  negotiated,    (* external: caps events since the pads were activated?    *)
  sink_eos,      (* external: has upstream ended the stream?                *)
  pad_eos,       (* external: GST_PAD_IS_EOS(srcpad)                        *)
  codec,         (* external: the state of each codec instance              *)
  pending,       (* external: accepted frames still inside each instance    *)
  eos_in,        (* external: end-of-stream inputs each instance accepted   *)
  eos_out,       (* external: has each instance raised its end of stream?   *)
  packet,        (* the encoder whose packet handle_output is at, or 0      *)
  failed,        (* history: which of Failures have happened                *)
  told,          (* history: the encoders whose end handle_eos has seen     *)
  fresh          (* history: the encoders created with both flags clear     *)

locks   == <<event_mtx, eos_mtx>>
flags   == <<joinable, encode, send_eos, got_eos, made>>
pads    == <<negotiated, sink_eos, pad_eos>>
library == <<codec, pending, eos_in, eos_out, packet>>
history == <<failed, told, fresh>>
vars == <<pc, element, locks, event_queue, flags, pads, library, history>>

Threads  == {App, Streamer, Loop, Codec}
Encoders == 1..MaxEncoders

(* Failures: the codec refuses to create an instance or to take an end of  *)
(* stream, a copy between host and device fails, the codec raises a reset, *)
(* an out-of-memory or an abort event.                                     *)
Failures == {"create", "eos", "copy", "fatal"}

(* "stopping": the pads are deactivated and GST_STATE is still PAUSED.     *)
(* PLAYING is not told from PAUSED, as in the code.                        *)
ElementStates == {"NULL", "READY", "PAUSED", "stopping", "finalized", "dead"}
EventKinds == {"EOS", "STREAM_CORRUPT", "FATAL"}
CodecKinds == {"absent", "running", "aborted", "destroyed"}

DestroySteps == {"destroy", "destroy_feed", "destroy_sent", "relock", "eos_wait",
                 "eos_blocked", "join", "free"}
AbortSteps == {"abort_check", "abort_call", "abort_null", "abort_lock", "abort_push",
               "set_got_eos"}
LoopSteps == {"none", "lock_event", "test", "blocking", "blocked", "eos_lock",
              "eos_push", "exited"} \union AbortSteps
Steps == {"idle", "init", "create", "event_feed", "event_sent", "output"}
           \union DestroySteps \union LoopSteps

Goto(t, step) == pc' = [pc EXCEPT ![t] = step]

Acquire(m, t) == m = NoThread /\ m' = t
Release(m, t) == m = t /\ m' = NoThread

Fail(kind) ==
  /\ failed' = failed \union {kind}
  /\ Cardinality(failed') <= MaxFailures

-----------------------------------------------------------------------------
Init ==
  /\ pc = [t \in Threads |-> IF t = Loop THEN "none" ELSE "idle"]
  /\ element = "NULL"
  /\ event_mtx = NoThread /\ eos_mtx = NoThread
  /\ event_queue = <<>>
  /\ joinable = FALSE /\ encode = 0
  /\ send_eos = FALSE /\ got_eos = FALSE
  /\ made = 0
  /\ negotiated = FALSE /\ sink_eos = FALSE /\ pad_eos = FALSE
  /\ codec = [g \in Encoders |-> "absent"]
  /\ pending = [g \in Encoders |-> 0]
  /\ eos_in = [g \in Encoders |-> 0]
  /\ eos_out = [g \in Encoders |-> FALSE]
  /\ packet = 0
  /\ failed = {} /\ told = {} /\ fresh = {}

-----------------------------------------------------------------------------
(* State changes without work of the element's own.                        *)
ChangeState ==
  /\ pc[App] = "idle"
  /\ \/ element = "NULL"  /\ element' = "READY"
     \/ element = "READY" /\ element' = "PAUSED"
     \/ element = "READY" /\ element' = "NULL"
  /\ UNCHANGED <<pc, locks, event_queue, flags, pads, library, history>>

(* PAUSED to READY: GstElement deactivates the pads, which waits for the   *)
(* streaming thread to leave the element; then the encoder is destroyed,   *)
(* whether there is one or not, and then the new state is committed.       *)
PausedToReady ==
  /\ pc[App] = "idle" /\ pc[Streamer] = "idle"
  /\ element = "PAUSED"
  /\ element' = "stopping"
  /\ negotiated' = FALSE /\ sink_eos' = FALSE /\ pad_eos' = FALSE
  /\ Goto(App, "destroy")
  /\ UNCHANGED <<locks, event_queue, flags, library, history>>

(* finalize deletes priv->cpp.  A std::thread that is destroyed while it   *)
(* is joinable ends the process.                                           *)
Finalize ==
  /\ pc[App] = "idle"
  /\ element = "NULL"
  /\ element' = IF joinable THEN "dead" ELSE "finalized"
  /\ UNCHANGED <<pc, locks, event_queue, flags, pads, library, history>>

-----------------------------------------------------------------------------
(* External: what the codec accepts.  A null handle is refused, and so is  *)
(* a frame once the end of the stream was accepted.                        *)
CodecTakesEos   == encode # 0 /\ codec[encode] = "running"
CodecTakesFrame == CodecTakesEos /\ eos_in[encode] = 0

(* External: upstream sends its caps again after the pads were activated   *)
(* and before buffers.                                                     *)
Streaming == element = "PAUSED" /\ ~sink_eos /\ pc[Streamer] = "idle"

(* chain and encode_frame: a frame that is refused is an error upstream    *)
(* and changes nothing here.                                               *)
Chain ==
  /\ Streaming /\ negotiated
  /\ CodecTakesFrame
  /\ pending[encode] < MaxFrames
  /\ pending' = [pending EXCEPT ![encode] = @ + 1]
  /\ UNCHANGED <<pc, element, locks, event_queue, flags, pads, codec, eos_in, eos_out,
                 packet, history>>

(* A frame that cannot be copied to the device raises an exception that no *)
(* caller catches.                                                         *)
ChainThrows ==
  /\ Streaming /\ negotiated
  /\ CodecTakesFrame
  /\ element' = "dead"
  /\ Fail("copy")
  /\ UNCHANGED <<pc, locks, event_queue, flags, pads, library, told, fresh>>

(* The EOS event calls feed_eos, without a lock. *)
EosEvent ==
  /\ Streaming
  /\ sink_eos' = TRUE
  /\ Goto(Streamer, "event_feed")
  /\ UNCHANGED <<element, locks, event_queue, flags, negotiated, pad_eos, library, history>>

(* set_caps, with caps that both sides accept: the previous encoder is     *)
(* destroyed first, if there is one.                                       *)
SetCaps ==
  /\ Streaming
  /\ made < MaxEncoders
  /\ negotiated' = TRUE
  /\ Goto(Streamer, IF encode # 0 THEN "destroy" ELSE "init")
  /\ UNCHANGED <<element, locks, event_queue, flags, sink_eos, pad_eos, library, history>>

(* init_encoder starts the event thread: assigning to a joinable           *)
(* std::thread ends the process.                                           *)
InitEncoder ==
  /\ pc[Streamer] = "init"
  /\ IF joinable
     THEN element' = "dead" /\ UNCHANGED <<pc, joinable, made, fresh>>
     ELSE /\ joinable' = TRUE
          /\ made' = made + 1
          /\ fresh' = IF send_eos \/ got_eos THEN fresh ELSE fresh \union {made + 1}
          /\ pc' = [pc EXCEPT ![Streamer] = "create", ![Loop] = "lock_event"]
          /\ UNCHANGED element
  /\ UNCHANGED <<locks, event_queue, encode, send_eos, got_eos, pads, library, failed, told>>

CreateEncoder ==
  /\ pc[Streamer] = "create"
  /\ Goto(Streamer, "idle")
  /\ \/ /\ encode' = made
        /\ codec' = [codec EXCEPT ![made] = "running"]
        /\ UNCHANGED failed
     \/ Fail("create") /\ UNCHANGED <<encode, codec>>
  /\ UNCHANGED <<element, locks, event_queue, joinable, send_eos, got_eos, made, pads,
                 pending, eos_in, eos_out, packet, told, fresh>>

-----------------------------------------------------------------------------
(* feed_eos, for the EOS event and in destroy_encoder: without an encoder  *)
(* it does nothing and succeeds, a refused end is an error, ...            *)
FeedEos(t) ==
  /\ pc[t] \in {"event_feed", "destroy_feed"}
  /\ \/ /\ CodecTakesEos
        /\ eos_in' = [eos_in EXCEPT ![encode] = @ + 1]
        /\ Goto(t, IF pc[t] = "event_feed" THEN "event_sent" ELSE "destroy_sent")
        /\ UNCHANGED failed
     \/ /\ Goto(t, IF pc[t] = "event_feed" THEN "idle" ELSE "relock")
        /\ \/ ~CodecTakesEos /\ UNCHANGED failed
           \/ encode # 0 /\ Fail("eos")
        /\ UNCHANGED eos_in
  /\ UNCHANGED <<element, locks, event_queue, flags, pads, codec, pending, eos_out,
                 packet, told, fresh>>

(* ... and send_eos is set after the codec has accepted the end.           *)
FeedEosSent(t) ==
  /\ pc[t] \in {"event_sent", "destroy_sent"}
  /\ send_eos' = TRUE
  /\ Goto(t, IF pc[t] = "event_sent" THEN "idle" ELSE "relock")
  /\ UNCHANGED <<element, locks, event_queue, joinable, encode, got_eos, made, pads,
                 library, history>>

(* destroy_encoder, on the application's thread for a state change and on  *)
(* the streaming thread for new caps.  It looks under eos_mtx whether the  *)
(* stream still has to be ended; if so, it drops the lock and feeds.       *)
DestroyMustFeed(t) ==
  /\ pc[t] = "destroy"
  /\ eos_mtx = NoThread
  /\ ~got_eos /\ ~send_eos /\ encode # 0
  /\ Goto(t, "destroy_feed")
  /\ UNCHANGED <<element, locks, event_queue, flags, pads, library, history>>

(* Defect: an encoder whose end of stream is already fed counts as ended. *)
DestroyNeedNotFeed_SentIsGot(t) ==
  /\ pc[t] = "destroy"
  /\ Acquire(eos_mtx, t)
  /\ got_eos \/ send_eos \/ encode = 0
  /\ got_eos' = TRUE
  /\ Goto(t, "eos_wait")
  /\ UNCHANGED <<element, event_mtx, event_queue, joinable, encode, send_eos, made,
                 pads, library, history>>

DestroyNeedNotFeed(t) ==
  /\ pc[t] = "destroy"
  /\ Acquire(eos_mtx, t)
  /\ got_eos \/ send_eos \/ encode = 0
  /\ got_eos' = (got_eos \/ encode = 0)
  /\ Goto(t, "eos_wait")
  /\ UNCHANGED <<element, event_mtx, event_queue, joinable, encode, send_eos, made,
                 pads, library, history>>

DestroyRelock(t) ==
  /\ pc[t] = "relock"
  /\ Acquire(eos_mtx, t)
  /\ Goto(t, "eos_wait")
  /\ UNCHANGED <<element, event_mtx, event_queue, flags, pads, library, history>>

DestroyBlock(t) ==
  /\ pc[t] = "eos_wait"
  /\ ~got_eos
  /\ Release(eos_mtx, t)
  /\ Goto(t, "eos_blocked")
  /\ UNCHANGED <<element, event_mtx, event_queue, flags, pads, library, history>>

(* event_cond.notify_all(), without event_mtx. *)
DestroyNotify(t) ==
  /\ pc[t] = "eos_wait"
  /\ got_eos
  /\ pc' = [pc EXCEPT ![t] = "join",
                      ![Loop] = IF @ = "blocked" THEN "lock_event" ELSE @]
  /\ UNCHANGED <<element, locks, event_queue, flags, pads, library, history>>

(* event_loop.join(), with eos_mtx still held. *)
DestroyJoin(t) ==
  /\ pc[t] = "join"
  /\ joinable => pc[Loop] = "exited"
  /\ joinable' = FALSE
  /\ Goto(t, "free")
  /\ UNCHANGED <<element, locks, event_queue, encode, send_eos, got_eos, made, pads,
                 library, history>>

(* The instance is destroyed, unless it was aborted meanwhile; set_caps    *)
(* goes on to init_encoder and the state change is complete.               *)
DestroyFree(t) ==
  /\ pc[t] = "free"
  /\ codec' = [g \in Encoders |-> IF g = encode THEN "destroyed" ELSE codec[g]]
  /\ encode' = 0
  /\ Release(eos_mtx, t)
  /\ Goto(t, IF t = Streamer THEN "init" ELSE "idle")
  /\ element' = IF t = App THEN "READY" ELSE element
  /\ UNCHANGED <<event_mtx, event_queue, joinable, send_eos, got_eos, made, pads,
                 pending, eos_in, eos_out, packet, history>>

-----------------------------------------------------------------------------
(* event_task_runner. *)
LoopLock ==
  /\ pc[Loop] = "lock_event"
  /\ Acquire(event_mtx, Loop)
  /\ Goto(Loop, "test")
  /\ UNCHANGED <<element, eos_mtx, event_queue, flags, pads, library, history>>

LoopExit ==
  /\ pc[Loop] = "test"
  /\ event_queue = <<>> /\ got_eos
  /\ Release(event_mtx, Loop)
  /\ Goto(Loop, "exited")
  /\ UNCHANGED <<element, eos_mtx, event_queue, flags, pads, library, history>>

LoopTake ==
  /\ pc[Loop] = "test"
  /\ event_queue # <<>>
  /\ event_queue' = Tail(event_queue)
  /\ Release(event_mtx, Loop)
  /\ Goto(Loop, IF Head(event_queue) = "EOS" THEN "eos_lock"
                ELSE IF Head(event_queue) = "FATAL" THEN "abort_check"
                ELSE "lock_event")
  /\ UNCHANGED <<element, eos_mtx, flags, pads, library, history>>

LoopMustWait ==
  /\ pc[Loop] = "test"
  /\ event_queue = <<>> /\ ~got_eos
  /\ Goto(Loop, "blocking")
  /\ UNCHANGED <<element, locks, event_queue, flags, pads, library, history>>

LoopBlock ==
  /\ pc[Loop] = "blocking"
  /\ Release(event_mtx, Loop)
  /\ Goto(Loop, "blocked")
  /\ UNCHANGED <<element, eos_mtx, event_queue, flags, pads, library, history>>

-----------------------------------------------------------------------------
(* abort_encoder, on the event thread for a fatal event and on the codec's *)
(* thread for a packet that cannot be copied: only the handle says whether *)
(* it was aborted before, and no lock is held.                             *)
LeaveAbort(t) ==
  /\ Goto(t, IF t = Loop THEN "lock_event" ELSE "idle")
  /\ packet' = IF t = Codec THEN 0 ELSE packet

AbortCheck(t) ==
  /\ pc[t] = "abort_check"
  /\ \/ encode # 0 /\ Goto(t, "abort_call") /\ UNCHANGED packet
     \/ encode = 0 /\ LeaveAbort(t)
  /\ UNCHANGED <<element, locks, event_queue, flags, pads, codec, pending, eos_in,
                 eos_out, history>>

(* cnvideoEncAbort on the handle of now, which another abort may have made *)
(* null since it was looked at, ...                                        *)
AbortCall(t) ==
  /\ pc[t] = "abort_call"
  /\ codec' = [g \in Encoders |-> IF g = encode THEN "aborted" ELSE codec[g]]
  /\ pending' = [g \in Encoders |-> IF g = encode THEN 0 ELSE pending[g]]
  /\ Goto(t, "abort_null")
  /\ UNCHANGED <<element, locks, event_queue, flags, pads, eos_in, eos_out, packet,
                 history>>

(* ... and a null handle, which may by now be that of the next encoder.    *)
AbortNull(t) ==
  /\ pc[t] = "abort_null"
  /\ encode' = 0
  /\ Goto(t, "abort_lock")
  /\ UNCHANGED <<element, locks, event_queue, joinable, send_eos, got_eos, made, pads,
                 library, history>>

(* eos_cond is notified: whoever waits in destroy_encoder wants the lock.  *)
NotifyEos(t, step) ==
  pc' = [s \in Threads |-> IF s = t THEN step
                           ELSE IF pc[s] = "eos_blocked" THEN "relock" ELSE pc[s]]

(* handle_eos, for an EOS event and in abort_encoder: got_eos under        *)
(* eos_mtx, ...                                                            *)
HandleEos(t) ==
  /\ pc[t] \in {"eos_lock", "abort_lock"}
  /\ Acquire(eos_mtx, t)
  /\ got_eos' = TRUE
  /\ told' = told \union {made}
  /\ NotifyEos(t, IF pc[t] = "eos_lock" THEN "eos_push" ELSE "abort_push")
  /\ UNCHANGED <<element, event_mtx, event_queue, joinable, encode, send_eos, made,
                 pads, library, failed, fresh>>

(* Defect: the test of the element's state is the wrong way round. *)
PushEos_StateSwapped(t) ==
  /\ pc[t] \in {"eos_push", "abort_push"}
  /\ pad_eos' = (pad_eos \/ element = "READY")
  /\ Release(eos_mtx, t)
  /\ Goto(t, IF pc[t] = "eos_push" THEN "lock_event" ELSE "set_got_eos")
  /\ UNCHANGED <<element, event_mtx, event_queue, flags, negotiated, sink_eos, library,
                 history>>

(* ... and, still under it, the EOS event downstream, which a pad that is  *)
(* not active does not let through.                                        *)
PushEos(t) ==
  /\ pc[t] \in {"eos_push", "abort_push"}
  /\ pad_eos' = (pad_eos \/ element = "PAUSED")
  /\ Release(eos_mtx, t)
  /\ Goto(t, IF pc[t] = "eos_push" THEN "lock_event" ELSE "set_got_eos")
  /\ UNCHANGED <<element, event_mtx, event_queue, flags, negotiated, sink_eos, library,
                 history>>

(* The end of abort_encoder takes eos_mtx a second time.                   *)
AbortGotEos(t) ==
  /\ pc[t] = "set_got_eos"
  /\ eos_mtx = NoThread
  /\ got_eos' = TRUE
  /\ NotifyEos(t, IF t = Loop THEN "lock_event" ELSE "idle")
  /\ packet' = IF t = Codec THEN 0 ELSE packet
  /\ UNCHANGED <<element, locks, event_queue, joinable, encode, send_eos, made, pads,
                 codec, pending, eos_in, eos_out, history>>

(* Either condition variable may wake its waiter for no reason. *)
SpuriousWakeup ==
  /\ \/ pc[Loop] = "blocked" /\ Goto(Loop, "lock_event")
     \/ \E t \in {App, Streamer} : pc[t] = "eos_blocked" /\ Goto(t, "relock")
  /\ UNCHANGED <<element, locks, event_queue, flags, pads, library, history>>

-----------------------------------------------------------------------------
(* handle_output, called by the codec: the packet is copied to the host,   *)
(* given back and pushed, whether the pad lets it through or not.  A copy  *)
(* that fails aborts the encoder from inside its own callback.             *)
CodecOutput(g) ==
  /\ codec[g] = "running" /\ pending[g] > 0
  /\ pc[Codec] = "idle"
  /\ pending' = [pending EXCEPT ![g] = @ - 1]
  /\ packet' = g
  /\ Goto(Codec, "output")
  /\ UNCHANGED <<element, locks, event_queue, flags, pads, codec, eos_in, eos_out, history>>

PushPacket ==
  /\ pc[Codec] = "output"
  /\ packet' = 0
  /\ Goto(Codec, "idle")
  /\ UNCHANGED <<element, locks, event_queue, flags, pads, codec, pending, eos_in,
                 eos_out, history>>

CopyOutFails ==
  /\ pc[Codec] = "output"
  /\ Fail("copy")
  /\ Goto(Codec, "abort_check")
  /\ UNCHANGED <<element, locks, event_queue, flags, pads, library, told, fresh>>

(* Defect: event_cond is not notified. *)
HandleEvent_Silent(kind) ==
  /\ event_mtx = NoThread
  /\ event_queue' = Append(event_queue, kind)
  /\ UNCHANGED <<pc, element, locks, flags, pads, told, fresh>>

(* event_handler and handle_event, called by the codec. *)
HandleEvent(kind) ==
  /\ event_mtx = NoThread
  /\ event_queue' = Append(event_queue, kind)
  /\ pc' = [pc EXCEPT ![Loop] = IF @ = "blocked" THEN "lock_event" ELSE @]
  /\ UNCHANGED <<element, locks, flags, pads, told, fresh>>

CodecCorrupt(g) ==
  /\ codec[g] = "running" /\ pending[g] > 0
  /\ Len(event_queue) < MaxQueue
  /\ pending' = [pending EXCEPT ![g] = @ - 1]
  /\ HandleEvent("STREAM_CORRUPT")
  /\ UNCHANGED <<codec, eos_in, eos_out, packet, failed>>

(* The end of stream comes out when every packet before it was handled.    *)
CodecEos(g) ==
  /\ codec[g] = "running" /\ pending[g] = 0 /\ pc[Codec] = "idle"
  /\ eos_in[g] > 0 /\ ~eos_out[g]
  /\ eos_out' = [eos_out EXCEPT ![g] = TRUE]
  /\ HandleEvent("EOS")
  /\ UNCHANGED <<codec, pending, eos_in, packet, failed>>

CodecFatal(g) ==
  /\ codec[g] = "running" /\ "fatal" \notin failed
  /\ Fail("fatal")
  /\ HandleEvent("FATAL")
  /\ UNCHANGED <<codec, pending, eos_in, eos_out, packet>>

-----------------------------------------------------------------------------
StateChanges == ChangeState \/ PausedToReady \/ Finalize

Stream == \/ Chain \/ ChainThrows \/ EosEvent
          \/ SetCaps \/ InitEncoder \/ CreateEncoder

DestroyEncoder(t) ==
  \/ DestroyMustFeed(t) \/ DestroyNeedNotFeed(t) \/ DestroyRelock(t) \/ DestroyBlock(t)
  \/ DestroyNotify(t) \/ DestroyJoin(t) \/ DestroyFree(t)

EventTaskRunner == LoopLock \/ LoopExit \/ LoopTake \/ LoopMustWait \/ LoopBlock

AbortOrEos(t) == \/ AbortCheck(t) \/ AbortCall(t) \/ AbortNull(t)
                 \/ HandleEos(t) \/ PushEos(t) \/ AbortGotEos(t)

Codecs == \/ PushPacket \/ CopyOutFails
          \/ \E g \in Encoders : CodecOutput(g) \/ CodecCorrupt(g) \/ CodecEos(g) \/ CodecFatal(g)

Finished == element \in {"finalized", "dead"} /\ UNCHANGED vars

Next ==
  \/ /\ element # "dead"
     /\ \/ StateChanges
        \/ Stream
        \/ \E t \in {App, Streamer} : DestroyEncoder(t) \/ FeedEos(t) \/ FeedEosSent(t)
        \/ EventTaskRunner
        \/ \E t \in {Loop, Codec} : AbortOrEos(t)
        \/ SpuriousWakeup
        \/ Codecs
  \/ Finished

Spec == Init /\ [][Next]_vars

(* Threads that run keep running and a thread gets a mutex that is freed   *)
(* again and again.  The codec works off its input and downstream takes    *)
(* what it is given.  Which states, caps and buffers come, and spurious    *)
(* wakeups, are left to the application.  One encoder is running and one   *)
(* thread is in destroy_encoder at a time, so that one condition is enough *)
(* for all of them.                                                        *)
Fairness ==
  /\ WF_vars(pc[Streamer] # "idle" /\ element # "dead" /\ Stream)
  /\ WF_vars(element # "dead" /\ \E t \in {App, Streamer} : FeedEos(t) \/ FeedEosSent(t))
  /\ SF_vars(element # "dead" /\ \E t \in {App, Streamer} : DestroyEncoder(t))
  /\ SF_vars(element # "dead" /\ (EventTaskRunner \/ AbortOrEos(Loop)))
  /\ SF_vars(element # "dead" /\ AbortOrEos(Codec))
  /\ WF_vars(element # "dead" /\ (PushPacket \/ CopyOutFails))
  /\ WF_vars(element # "dead" /\ \E g \in Encoders : CodecOutput(g))
  /\ SF_vars(element # "dead" /\ \E g \in Encoders : CodecEos(g))

FairSpec == Spec /\ Fairness

-----------------------------------------------------------------------------
(* Every variable of the element and of the codec has its type, and the    *)
(* handle is null or names the last encoder made.                          *)
TypeOK ==
  /\ pc \in [Threads -> Steps]
  /\ pc[App] \in {"idle"} \union DestroySteps
  /\ pc[Loop] \in LoopSteps
  /\ pc[Codec] \in {"idle", "output"} \union AbortSteps
  /\ element \in ElementStates
  /\ event_mtx \in {NoThread, Loop} /\ eos_mtx \in {NoThread} \union Threads
  /\ event_queue \in Seq(EventKinds)
  /\ joinable \in BOOLEAN /\ send_eos \in BOOLEAN /\ got_eos \in BOOLEAN
  /\ encode \in {0, made} /\ made \in 0..MaxEncoders
  /\ negotiated \in BOOLEAN /\ sink_eos \in BOOLEAN /\ pad_eos \in BOOLEAN
  /\ codec \in [Encoders -> CodecKinds]
  /\ pending \in [Encoders -> 0..MaxFrames]
  /\ eos_in \in [Encoders -> Nat] /\ eos_out \in [Encoders -> BOOLEAN]
  /\ packet \in 0..made
  /\ failed \subseteq Failures /\ told \subseteq 1..made /\ fresh \subseteq 1..made

(* An encoder, seen as a session.                                          *)
Phase(g) == IF codec[g] = "destroyed"    THEN "closed"
            ELSE IF g \in told           THEN "ended"
            ELSE IF codec[g] = "aborted" THEN "aborted"
            ELSE IF codec[g] = "absent"  THEN "new"
            ELSE IF eos_in[g] > 0        THEN "sealed"
            ELSE                              "open"

Session(g) == INSTANCE DecodeSession WITH phase <- Phase(g), inside <- pending[g]

(* An encoder that was created with clear flags keeps the promise of a     *)
(* session: what it accepted is output before handle_eos sees its end, and *)
(* it is destroyed only after that.                                        *)
SessionsKept ==
  [][\A g \in fresh : [Session(g)!Next]_<<Phase(g), pending[g]>>]_vars

(* destroy_encoder waits for an end of stream that the encoder refused, or *)
(* joins the event thread with eos_mtx held while that wants the mutex or  *)
(* missed the only notification.                                           *)
NeverReturns(t) ==
  \/ /\ pc[t] \in DestroySteps /\ ~got_eos
     /\ encode # 0 /\ eos_in[encode] = 0 /\ "eos" \in failed
  \/ pc[t] = "join" /\ pc[Loop] \in {"eos_lock", "abort_lock", "set_got_eos"}
  \/ pc[t] = "join" /\ pc[Loop] = "blocked" /\ encode = 0

(* destroy_encoder returns, or the process ends, or it hangs in one of the *)
(* three ways of NeverReturns: whatever fails and whatever flags the       *)
(* encoder before left, there is no fourth.                                *)
DestroyReturns ==
  \A t \in {App, Streamer} :
    [](pc[t] = "destroy" =>
         <>(pc[t] \notin DestroySteps \/ element = "dead") \/ <>[]NeverReturns(t))

(* Upstream's end of a stream that has an encoder created with clear flags *)
(* goes through it and the event thread and reaches downstream, unless the *)
(* stream is stopped meanwhile or something failed.                        *)
EosReachesDownstream ==
  sink_eos /\ encode \in fresh ~> pad_eos \/ ~sink_eos \/ failed # {}
=============================================================================
