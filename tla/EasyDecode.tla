------------------------------ MODULE EasyDecode ------------------------------
(***************************************************************************)
(* edk::EasyDecode and its DecodeHandler: application threads that feed,   *)
(* pause, abort and finally destroy a decoder, the codec that calls back   *)
(* with frames and events, and the event thread between them, with the two *)
(* mutexes and two condition variables that join them.                     *)
(*                                                                         *)
(* A step is what a thread does between two points where another thread    *)
(* can be seen: a lock, a wait, a codec call or an unlocked read.  pc[t]   *)
(* says which step thread t takes next.                                    *)
(***************************************************************************)
EXTENDS Naturals, Sequences

CONSTANTS
  Users,         (* application threads                                     *)
  Owner,         (* the one that constructs and destroys the EasyDecode     *)
  Loop,          (* the thread of EventTaskRunner                           *)
  Codec,         (* the codec's thread for callbacks                        *)
  NoThread,      (* the owner of a free mutex                               *)
  EosCallers,    (* application threads that may call FeedEos               *)
  Aborters,      (* application threads that may call AbortDecoder          *)
  OutBufs,       (* output_buffer_num                                       *)
  MaxPackets,    (* bound: packets fed                                      *)
  MaxFatal,      (* bound: reset, out-of-memory and abort events raised     *)
  CreateMayFail, (* may the codec refuse to create the instance?            *)
  FeedMayFail    (* may a feed time out three times, or fail?               *)

ASSUME ThreadAssumption ==
  /\ Owner \in Users
  /\ EosCallers \subseteq Users
  /\ Aborters \subseteq Users
  /\ Loop \notin Users \union {Codec} /\ Codec \notin Users
  /\ NoThread \notin Users \union {Loop, Codec}

ASSUME BoundAssumption ==
  /\ OutBufs \in Nat \ {0}
  /\ MaxPackets \in Nat
  /\ MaxFatal \in Nat
  /\ CreateMayFail \in BOOLEAN
  /\ FeedMayFail \in BOOLEAN

VARIABLES
  pc,             (* the next step of each thread                           *)
  event_mtx,      (* who holds event_mtx_, or NoThread                      *)
  eos_mtx,        (* who holds eos_mtx_, or NoThread                        *)
  event_queue,    (* event_queue_                                           *)
  handle,         (* is handle_ non-null?                                   *)
  status,         (* status_                                                *)
  send_eos,       (* send_eos_                                              *)
  got_eos,        (* got_eos_                                               *)
  destroying,     (* has ~DecodeHandler begun?                              *)
  packets_count,  (* packets the codec accepted                             *)
  codec,          (* external: the state of the codec instance              *)
  pending,        (* external: accepted packets not yet output              *)
  held,           (* external: output buffers the application references    *)
  eos_in,         (* external: end-of-stream inputs the codec accepted      *)
  eos_out,        (* external: end-of-stream events the codec raised        *)
  fatal,          (* external: fatal events the codec raised                *)
  eos_callbacks   (* history: calls of attr_.eos_callback                   *)

locks   == <<event_mtx, eos_mtx>>
flags   == <<handle, status, send_eos, got_eos, destroying>>
library == <<codec, pending, held, eos_in, eos_out, fatal>>
vars == <<pc, locks, event_queue, flags, packets_count, library, eos_callbacks>>

Threads == Users \union {Loop, Codec}

(* SW_RESET, HW_RESET, OUT_OF_MEMORY, ABORT_ERROR and unknown events take  *)
(* the same path, AbortDecoder: they are one kind, FATAL.                  *)
EventKinds == {"EOS", "STREAM_CORRUPT", "FATAL"}
StatusKinds == {"RUNNING", "PAUSED", "STOP", "EOS"}
CodecKinds == {"absent", "running", "aborted", "destroyed", "dead"}

AbortSteps == {"abort_codec", "abort_null", "abort_report", "set_got_eos"}
FeedSteps  == {"feed", "eos_check", "eos_fed"}
LoopSteps  == {"unstarted", "lock_event", "test", "blocking", "blocked",
               "recv_eos", "abort_check", "exited", "crashed"} \union AbortSteps
TearSteps  == {"tear_begin", "tear_check", "tear_feed", "tear_relock", "tear_wait",
               "tear_blocked", "tear_notify", "tear_join", "tear_free", "gone"}
FrameSteps == {"recv_frame", "frame_callback"}
(* In ReceiveEvent the codec's thread stands at the event it brings. *)
CodecSteps == {"idle", "undefined", "crashed"} \union FrameSteps \union EventKinds
UserSteps  == {"outside", "ctor", "init", "idle", "crashed"}
                \union AbortSteps \union FeedSteps \union TearSteps

Goto(t, step) == pc' = [pc EXCEPT ![t] = step]

Acquire(m, t) == m = NoThread /\ m' = t
Release(m, t) == m = t /\ m' = NoThread

-----------------------------------------------------------------------------
Init ==
  /\ pc = [t \in Threads |-> IF t = Loop THEN "unstarted" ELSE IF t = Codec THEN "idle"
                             ELSE IF t = Owner THEN "ctor" ELSE "outside"]
  /\ event_mtx = NoThread /\ eos_mtx = NoThread
  /\ event_queue = <<>>
  /\ handle = FALSE /\ status = "RUNNING"
  /\ send_eos = FALSE /\ got_eos = FALSE /\ destroying = FALSE
  /\ packets_count = 0
  /\ codec = "absent"
  /\ pending = 0 /\ held = 0 /\ eos_in = 0 /\ eos_out = 0 /\ fatal = 0
  /\ eos_callbacks = 0

(* DecodeHandler's constructor starts the event thread before anything     *)
(* else, in particular before the codec instance exists.                   *)
StartEventLoop ==
  /\ pc[Owner] = "ctor"
  /\ pc' = [pc EXCEPT ![Owner] = "init", ![Loop] = "lock_event"]
  /\ UNCHANGED <<locks, event_queue, flags, packets_count, library, eos_callbacks>>

(* EasyDecode's constructor: InitVideoDecode or InitJpegDecode creates the *)
(* codec instance and the application can use the decoder, ...             *)
InitDecode ==
  /\ pc[Owner] = "init"
  /\ handle' = TRUE /\ codec' = "running"
  /\ pc' = [t \in Threads |-> IF t = Loop THEN pc[t] ELSE "idle"]
  /\ UNCHANGED <<locks, event_queue, status, send_eos, got_eos, destroying,
                 packets_count, pending, held, eos_in, eos_out, fatal, eos_callbacks>>

(* ... or it throws, with an instance (the attribute call comes after the  *)
(* creation) or without one, and the handler is deleted.                   *)
InitDecodeThrows ==
  /\ pc[Owner] = "init"
  /\ CreateMayFail
  /\ \/ handle' = TRUE /\ codec' = "running"
     \/ UNCHANGED <<handle, codec>>
  /\ Goto(Owner, "tear_begin")
  /\ UNCHANGED <<locks, event_queue, status, send_eos, got_eos, destroying,
                 packets_count, pending, held, eos_in, eos_out, fatal, eos_callbacks>>

-----------------------------------------------------------------------------
(* FeedData's unlocked checks.  The calls they turn away change nothing.   *)
FeedDataCheck(u) ==
  /\ pc[u] = "idle"
  /\ handle /\ ~send_eos /\ status # "PAUSED"
  /\ packets_count < MaxPackets
  /\ Goto(u, "feed")
  /\ UNCHANGED <<locks, event_queue, flags, packets_count, library, eos_callbacks>>

(* External: the codec takes an end of stream while it runs, and packets   *)
(* until it has taken one.  A null handle is refused.                      *)
CodecTakesEos  == handle /\ codec = "running"
CodecTakesData == CodecTakesEos /\ eos_in = 0

(* The feed itself: accepted, perhaps after timeouts, which change nothing,*)
(* or an exception to the caller.                                          *)
FeedVideoData(u) ==
  /\ pc[u] = "feed"
  /\ Goto(u, "idle")
  /\ \/ /\ CodecTakesData
        /\ pending' = pending + 1
        /\ packets_count' = packets_count + 1
     \/ /\ FeedMayFail \/ ~CodecTakesData
        /\ UNCHANGED <<pending, packets_count>>
  /\ UNCHANGED <<locks, event_queue, flags, codec, held, eos_in, eos_out, fatal,
                 eos_callbacks>>

(* Where FeedEos returns to: the application, or the destructor.           *)
FeedEosReturn == IF destroying THEN "tear_relock" ELSE "idle"

FeedEosCall(u) ==
  /\ \/ pc[u] = "idle" /\ u \in EosCallers
     \/ pc[u] = "tear_feed"
  /\ Acquire(eos_mtx, u)
  /\ Goto(u, "eos_check")
  /\ UNCHANGED <<event_mtx, event_queue, flags, packets_count, library, eos_callbacks>>

FeedEosAgain(u) ==
  /\ pc[u] = "eos_check"
  /\ send_eos
  /\ Release(eos_mtx, u)
  /\ Goto(u, FeedEosReturn)
  /\ UNCHANGED <<event_mtx, event_queue, flags, packets_count, library, eos_callbacks>>

(* Defect: send_eos_ is not consulted. *)
FeedEosAccepted_Unchecked(u) ==
  /\ pc[u] = "eos_check"
  /\ CodecTakesEos
  /\ eos_in' = eos_in + 1
  /\ Goto(u, "eos_fed")
  /\ UNCHANGED <<locks, event_queue, flags, packets_count, codec, pending, held,
                 eos_out, fatal, eos_callbacks>>

FeedEosAccepted(u) ==
  /\ pc[u] = "eos_check"
  /\ ~send_eos
  /\ CodecTakesEos
  /\ eos_in' = eos_in + 1
  /\ Goto(u, "eos_fed")
  /\ UNCHANGED <<locks, event_queue, flags, packets_count, codec, pending, held,
                 eos_out, fatal, eos_callbacks>>

FeedEosSent(u) ==
  /\ pc[u] = "eos_fed"
  /\ send_eos' = TRUE
  /\ Release(eos_mtx, u)
  /\ Goto(u, FeedEosReturn)
  /\ UNCHANGED <<event_mtx, event_queue, handle, status, got_eos, destroying,
                 packets_count, library, eos_callbacks>>

(* The codec refuses the end of stream and FeedEos throws.  ~DecodeHandler *)
(* only logs the exception: the event thread is still joinable when the    *)
(* members are destroyed, and std::terminate ends the process.             *)
FeedEosThrows(u) ==
  /\ pc[u] = "eos_check"
  /\ ~send_eos
  /\ FeedMayFail \/ ~CodecTakesEos
  /\ Release(eos_mtx, u)
  /\ IF destroying
     THEN /\ pc' = [t \in Threads |-> "crashed"]
          /\ codec' = "dead"
     ELSE /\ Goto(u, "idle")
          /\ UNCHANGED codec
  /\ UNCHANGED <<event_mtx, event_queue, flags, packets_count, pending, held,
                 eos_in, eos_out, fatal, eos_callbacks>>

Pause(u) ==
  /\ pc[u] = "idle"
  /\ status = "RUNNING"
  /\ status' = "PAUSED"
  /\ UNCHANGED <<pc, locks, event_queue, handle, send_eos, got_eos, destroying,
                 packets_count, library, eos_callbacks>>

(* Defect: a store in place of the compare-and-exchange. *)
Resume_Store(u) ==
  /\ pc[u] = "idle"
  /\ status' = "RUNNING"
  /\ UNCHANGED <<pc, locks, event_queue, handle, send_eos, got_eos, destroying,
                 packets_count, library, eos_callbacks>>

Resume(u) ==
  /\ pc[u] = "idle"
  /\ status = "PAUSED"
  /\ status' = "RUNNING"
  /\ UNCHANGED <<pc, locks, event_queue, handle, send_eos, got_eos, destroying,
                 packets_count, library, eos_callbacks>>

(* The application gives back a frame buffer it was called with.           *)
ReleaseBuffer ==
  /\ handle /\ codec = "running"
  /\ held > 0
  /\ held' = held - 1
  /\ UNCHANGED <<pc, locks, event_queue, flags, packets_count, codec, pending,
                 eos_in, eos_out, fatal, eos_callbacks>>

-----------------------------------------------------------------------------
(* AbortDecoder, run by the event thread for a FATAL event and by          *)
(* application threads: an unlocked test of handle_, ...                   *)
AbortCall(t) ==
  /\ \/ pc[t] = "idle" /\ t \in Aborters /\ handle
     \/ pc[t] = "abort_check"
  /\ Goto(t, IF handle THEN "abort_codec" ELSE "lock_event")
  /\ UNCHANGED <<locks, event_queue, flags, packets_count, library, eos_callbacks>>

(* ... the codec's abort of whatever handle_ is by now, which gives up     *)
(* what is inside but does not wait for a callback under way: the frame in *)
(* it still comes; ...                                                     *)
AbortCodec(t) ==
  /\ pc[t] = "abort_codec"
  /\ IF handle /\ codec = "running"
     THEN /\ codec' = "aborted"
          /\ pending' = IF pc[Codec] = "recv_frame" THEN 1 ELSE 0
     ELSE UNCHANGED <<codec, pending>>
  /\ Goto(t, "abort_null")
  /\ UNCHANGED <<locks, event_queue, flags, packets_count, held, eos_in, eos_out,
                 fatal, eos_callbacks>>

(* ... a null handle_, ...                                                 *)
AbortNull(t) ==
  /\ pc[t] = "abort_null"
  /\ handle' = FALSE
  /\ Goto(t, "abort_report")
  /\ UNCHANGED <<locks, event_queue, status, send_eos, got_eos, destroying,
                 packets_count, library, eos_callbacks>>

(* ... the status and the application's EOS callback, ...                  *)
ReportEos(t) ==
  /\ pc[t] \in {"abort_report", "recv_eos"}
  /\ status' = "EOS"
  /\ eos_callbacks' = eos_callbacks + 1
  /\ Goto(t, "set_got_eos")
  /\ UNCHANGED <<locks, event_queue, handle, send_eos, got_eos, destroying,
                 packets_count, library>>

(* Defect: eos_cond_ is not notified. *)
SetGotEos_Silent(t) ==
  /\ pc[t] = "set_got_eos"
  /\ eos_mtx = NoThread
  /\ got_eos' = TRUE
  /\ Goto(t, IF t = Loop THEN "lock_event" ELSE "idle")
  /\ UNCHANGED <<locks, event_queue, handle, status, send_eos, destroying,
                 packets_count, library, eos_callbacks>>

(* ... and, as at the end of ReceiveEOS, got_eos_ under eos_mtx_ with a    *)
(* notification of eos_cond_, where only the destructor ever waits.        *)
SetGotEos(t) ==
  /\ pc[t] = "set_got_eos"
  /\ eos_mtx = NoThread
  /\ got_eos' = TRUE
  /\ pc' = [pc EXCEPT ![t] = IF t = Loop THEN "lock_event" ELSE "idle",
                      ![Owner] = IF @ = "tear_blocked" THEN "tear_relock"
                                 ELSE IF t = Owner THEN "idle" ELSE @]
  /\ UNCHANGED <<locks, event_queue, handle, status, send_eos, destroying,
                 packets_count, library, eos_callbacks>>

-----------------------------------------------------------------------------
(* EventTaskRunner. *)
LoopLock ==
  /\ pc[Loop] = "lock_event"
  /\ Acquire(event_mtx, Loop)
  /\ Goto(Loop, "test")
  /\ UNCHANGED <<eos_mtx, event_queue, flags, packets_count, library, eos_callbacks>>

(* The loop's and the wait's condition: leave, take an event, or wait.     *)
(* got_eos_ is read here under event_mtx_, while its writers hold eos_mtx_.*)
LoopExit ==
  /\ pc[Loop] = "test"
  /\ event_queue = <<>> /\ got_eos
  /\ Release(event_mtx, Loop)
  /\ Goto(Loop, "exited")
  /\ UNCHANGED <<eos_mtx, event_queue, flags, packets_count, library, eos_callbacks>>

LoopTake ==
  /\ pc[Loop] = "test"
  /\ event_queue # <<>>
  /\ event_queue' = Tail(event_queue)
  /\ Release(event_mtx, Loop)
  /\ Goto(Loop, IF Head(event_queue) = "EOS" THEN "recv_eos"
                ELSE IF Head(event_queue) = "FATAL" THEN "abort_check"
                ELSE "lock_event")
  /\ UNCHANGED <<eos_mtx, flags, packets_count, library, eos_callbacks>>

LoopMustWait ==
  /\ pc[Loop] = "test"
  /\ event_queue = <<>> /\ ~got_eos
  /\ Goto(Loop, "blocking")
  /\ UNCHANGED <<locks, event_queue, flags, packets_count, library, eos_callbacks>>

(* condition_variable::wait releases the mutex and blocks in one step.     *)
LoopBlock ==
  /\ pc[Loop] = "blocking"
  /\ Release(event_mtx, Loop)
  /\ Goto(Loop, "blocked")
  /\ UNCHANGED <<eos_mtx, event_queue, flags, packets_count, library, eos_callbacks>>

(* Defect: event_cond_ is not notified. *)
NotifyLoop_Silent == Goto(Codec, "idle")

NotifyLoop == pc' = [pc EXCEPT ![Codec] = "idle",
                               ![Loop] = IF @ = "blocked" THEN "lock_event" ELSE @]

(* ReceiveEvent, called by the codec. *)
ReceiveEvent(kind) ==
  /\ pc[Codec] = kind /\ pc[Owner] # "gone"
  /\ event_mtx = NoThread
  /\ event_queue' = Append(event_queue, kind)
  /\ NotifyLoop
  /\ UNCHANGED <<locks, flags, packets_count, library, eos_callbacks>>

-----------------------------------------------------------------------------
(* ~DecodeHandler, once no other application call is running.              *)
TearBegin ==
  /\ \/ pc[Owner] = "idle" /\ \A u \in Users : pc[u] = "idle"
     \/ pc[Owner] = "tear_begin"
  /\ status' = "STOP"
  /\ destroying' = TRUE
  /\ pc' = [t \in Threads |-> IF t = Owner THEN "tear_check"
                              ELSE IF t \in Users THEN "outside" ELSE pc[t]]
  /\ UNCHANGED <<locks, event_queue, handle, send_eos, got_eos, packets_count,
                 library, eos_callbacks>>

(* Under eos_mtx_: does the stream still have to be ended?  If so the lock *)
(* is dropped and FeedEos called.                                          *)
TearMustFeed ==
  /\ pc[Owner] = "tear_check"
  /\ eos_mtx = NoThread
  /\ ~got_eos /\ ~send_eos /\ handle
  /\ Goto(Owner, "tear_feed")
  /\ UNCHANGED <<locks, event_queue, flags, packets_count, library, eos_callbacks>>

(* Defect: the destructor gives up on the end of the stream. *)
TearNeedNotFeed_GiveUp ==
  /\ pc[Owner] = "tear_check"
  /\ Acquire(eos_mtx, Owner)
  /\ got_eos' = TRUE
  /\ Goto(Owner, "tear_wait")
  /\ UNCHANGED <<event_mtx, event_queue, handle, status, send_eos, destroying,
                 packets_count, library, eos_callbacks>>

(* If not, the lock is kept; without a codec no event will ever come. *)
TearNeedNotFeed ==
  /\ pc[Owner] = "tear_check"
  /\ Acquire(eos_mtx, Owner)
  /\ got_eos \/ send_eos \/ ~handle
  /\ got_eos' = (got_eos \/ ~handle)
  /\ Goto(Owner, "tear_wait")
  /\ UNCHANGED <<event_mtx, event_queue, handle, status, send_eos, destroying,
                 packets_count, library, eos_callbacks>>

TearRelock ==
  /\ pc[Owner] = "tear_relock"
  /\ Acquire(eos_mtx, Owner)
  /\ Goto(Owner, "tear_wait")
  /\ UNCHANGED <<event_mtx, event_queue, flags, packets_count, library, eos_callbacks>>

TearBlock ==
  /\ pc[Owner] = "tear_wait"
  /\ ~got_eos
  /\ Release(eos_mtx, Owner)
  /\ Goto(Owner, "tear_blocked")
  /\ UNCHANGED <<event_mtx, event_queue, flags, packets_count, library, eos_callbacks>>

TearWaitOver ==
  /\ pc[Owner] = "tear_wait"
  /\ got_eos
  /\ Goto(Owner, "tear_notify")
  /\ UNCHANGED <<locks, event_queue, flags, packets_count, library, eos_callbacks>>

(* event_cond_.notify_all(), without event_mtx_. *)
TearNotify ==
  /\ pc[Owner] = "tear_notify"
  /\ pc' = [pc EXCEPT ![Owner] = "tear_join",
                      ![Loop] = IF @ = "blocked" THEN "lock_event" ELSE @]
  /\ UNCHANGED <<locks, event_queue, flags, packets_count, library, eos_callbacks>>

(* Defect: the event thread is detached. *)
TearJoin_Detach ==
  /\ pc[Owner] = "tear_join"
  /\ Goto(Owner, "tear_free")
  /\ UNCHANGED <<locks, event_queue, flags, packets_count, library, eos_callbacks>>

(* event_loop_.join(), with eos_mtx_ still held. *)
TearJoin ==
  /\ pc[Owner] = "tear_join"
  /\ pc[Loop] = "exited"
  /\ Goto(Owner, "tear_free")
  /\ UNCHANGED <<locks, event_queue, flags, packets_count, library, eos_callbacks>>

(* Stop and destroy the codec instance, unless it was aborted, and free    *)
(* the memory, whatever thread of the codec is in a callback.              *)
TearFree ==
  /\ pc[Owner] = "tear_free"
  /\ codec' = IF handle THEN "destroyed" ELSE codec
  /\ handle' = FALSE
  /\ Release(eos_mtx, Owner)
  /\ Goto(Owner, "gone")
  /\ UNCHANGED <<event_mtx, event_queue, status, send_eos, got_eos, destroying,
                 packets_count, pending, held, eos_in, eos_out, fatal, eos_callbacks>>

(* Either condition variable may wake its waiter for no reason. *)
SpuriousWakeup ==
  /\ \/ pc[Loop] = "blocked" /\ Goto(Loop, "lock_event")
     \/ pc[Owner] = "tear_blocked" /\ Goto(Owner, "tear_relock")
  /\ UNCHANGED <<locks, event_queue, flags, packets_count, library, eos_callbacks>>

-----------------------------------------------------------------------------
(* External: the codec.  It calls back on a thread of its own, one call    *)
(* after the other, and begins a call only while it runs; an abort does    *)
(* not wait for the call to return.                                        *)
CodecBegins(step) ==
  /\ codec = "running" /\ pc[Codec] = "idle"
  /\ Goto(Codec, step)
  /\ UNCHANGED <<locks, event_queue, flags, packets_count, codec, held, eos_in,
                 eos_callbacks>>

(* A frame, for which an output buffer must be free. *)
CodecFrame ==
  /\ CodecBegins("recv_frame")
  /\ pending > 0 /\ held < OutBufs
  /\ UNCHANGED <<pending, eos_out, fatal>>

CodecCorrupt ==
  /\ CodecBegins("STREAM_CORRUPT")
  /\ pending > 0
  /\ pending' = pending - 1
  /\ UNCHANGED <<eos_out, fatal>>

(* An end of stream comes out when everything before it has. *)
CodecEos ==
  /\ CodecBegins("EOS")
  /\ eos_out < eos_in /\ pending = 0
  /\ eos_out' = eos_out + 1
  /\ UNCHANGED <<pending, fatal>>

CodecFatal ==
  /\ CodecBegins("FATAL")
  /\ fatal < MaxFatal
  /\ fatal' = fatal + 1
  /\ UNCHANGED <<pending, eos_out>>

(* ReceiveFrame returns early when the frame is empty, ...                 *)
FrameEmpty ==
  /\ pc[Codec] = "recv_frame" /\ pc[Owner] # "gone"
  /\ pending' = pending - 1
  /\ Goto(Codec, "idle")
  /\ UNCHANGED <<locks, event_queue, flags, packets_count, codec, held, eos_in,
                 eos_out, fatal, eos_callbacks>>

(* ... or references its buffer, unless the instance was aborted, and      *)
(* calls frame_callback, ...                                               *)
FrameCallback ==
  /\ pc[Codec] = "recv_frame" /\ pc[Owner] # "gone"
  /\ pending' = pending - 1
  /\ held' = IF handle /\ codec = "running" THEN held + 1 ELSE held
  /\ Goto(Codec, "frame_callback")
  /\ UNCHANGED <<locks, event_queue, flags, packets_count, codec, eos_in, eos_out,
                 fatal, eos_callbacks>>

(* ... after which it counts the frame. *)
FrameReturn ==
  /\ pc[Codec] = "frame_callback" /\ pc[Owner] # "gone"
  /\ Goto(Codec, "idle")
  /\ UNCHANGED <<locks, event_queue, flags, packets_count, library, eos_callbacks>>

(* A callback that goes on when the handler is gone uses freed memory.     *)
UseAfterFree ==
  /\ pc[Owner] = "gone" /\ pc[Codec] \in FrameSteps \union EventKinds
  /\ Goto(Codec, "undefined")
  /\ UNCHANGED <<locks, event_queue, flags, packets_count, library, eos_callbacks>>

CodecCallsBack ==
  \/ CodecFrame \/ CodecCorrupt \/ CodecEos \/ CodecFatal
  \/ FrameEmpty \/ FrameCallback \/ FrameReturn
  \/ \E kind \in EventKinds : ReceiveEvent(kind)
  \/ UseAfterFree

-----------------------------------------------------------------------------
Feed(u) == \/ FeedDataCheck(u) \/ FeedVideoData(u)
           \/ FeedEosCall(u) \/ FeedEosAgain(u) \/ FeedEosAccepted(u)
           \/ FeedEosSent(u) \/ FeedEosThrows(u)

Abort(t) == \/ AbortCall(t) \/ AbortCodec(t) \/ AbortNull(t)
            \/ ReportEos(t) \/ SetGotEos(t)

EventTaskRunner == LoopLock \/ LoopExit \/ LoopTake \/ LoopMustWait \/ LoopBlock

TearDown == \/ TearBegin \/ TearMustFeed \/ TearNeedNotFeed \/ TearRelock
            \/ TearBlock \/ TearWaitOver \/ TearNotify \/ TearJoin \/ TearFree

(* Nothing is left to do: the decoder is destroyed or the process is dead. *)
Finished == pc[Owner] \in {"gone", "crashed"} /\ UNCHANGED vars

Next ==
  \/ StartEventLoop \/ InitDecode \/ InitDecodeThrows
  \/ \E u \in Users : Feed(u) \/ Pause(u) \/ Resume(u)
  \/ \E t \in Threads : Abort(t)
  \/ ReleaseBuffer
  \/ EventTaskRunner
  \/ TearDown
  \/ SpuriousWakeup
  \/ CodecCallsBack
  \/ Finished

Spec == Init /\ [][Next]_vars

(* Threads that run keep running and a call that began goes on; a thread   *)
(* that wants a mutex which is freed again and again gets it in the end    *)
(* (strong fairness).  The codec works off its input and the application   *)
(* gives buffers back.  What the application calls, and when, is left to   *)
(* it, and so are spurious wakeups and what the codec finds wrong.         *)
UserGoesOn(u) ==
  pc[u] # "idle" /\ (Feed(u) \/ Abort(u) \/ (u = Owner /\ TearDown))

LoopGoesOn == EventTaskRunner \/ Abort(Loop)

CodecGoesOn ==
  \/ CodecFrame \/ CodecEos \/ FrameEmpty \/ FrameCallback \/ FrameReturn
  \/ \E kind \in EventKinds : ReceiveEvent(kind)

Fairness ==
  /\ WF_vars(StartEventLoop \/ InitDecode \/ InitDecodeThrows)
  /\ \A u \in Users : SF_vars(UserGoesOn(u))
  /\ SF_vars(LoopGoesOn)
  /\ SF_vars(CodecGoesOn)
  /\ WF_vars(ReleaseBuffer)

FairSpec == Spec /\ Fairness

-----------------------------------------------------------------------------
(* Every variable has its type: event_queue_, the flags and the counters   *)
(* of DecodeHandler and the step each thread stands at.                    *)
TypeOK ==
  /\ pc \in [Threads -> UserSteps \union LoopSteps \union CodecSteps]
  /\ pc[Loop] \in LoopSteps /\ pc[Codec] \in CodecSteps
  /\ \A u \in Users : pc[u] \in UserSteps
  /\ \A u \in Users \ {Owner} : pc[u] \notin TearSteps
  /\ event_mtx \in {NoThread, Loop}
  /\ eos_mtx \in Users \union {NoThread}
  /\ event_queue \in Seq(EventKinds)
  /\ handle \in BOOLEAN /\ status \in StatusKinds
  /\ send_eos \in BOOLEAN /\ got_eos \in BOOLEAN /\ destroying \in BOOLEAN
  /\ packets_count \in Nat /\ pending \in Nat /\ held \in 0..OutBufs
  /\ codec \in CodecKinds
  /\ eos_in \in Nat /\ eos_out \in Nat /\ fatal \in 0..MaxFatal
  /\ eos_callbacks \in Nat

(* FeedEos tests and sets send_eos_ around a codec call: however calls of  *)
(* several threads and of the destructor overlap, the codec is given one   *)
(* end of stream at most.                                                  *)
EosFedOnce == eos_in <= 1

(* The handler's memory goes away only when the event thread has left      *)
(* EventTaskRunner, with no mutex held and no call of the application      *)
(* inside.  A callback of the codec is inside only if the instance was     *)
(* aborted, which waits for nothing, or if the callback is of a fatal      *)
(* event: no frame and no end of stream of a codec that runs is caught.    *)
JoinedBeforeFree ==
  codec = "destroyed" \/ pc[Owner] = "gone" =>
    /\ pc[Loop] = "exited"
    /\ event_mtx = NoThread /\ eos_mtx = NoThread
    /\ \A u \in Users \ {Owner} : pc[u] = "outside"
    /\ pc[Codec] \in {"idle", "undefined", "FATAL"} \/ codec = "aborted"

(* A codec instance is stopped and destroyed only after it has output      *)
(* every packet it accepted and its end-of-stream event was handled: the   *)
(* eos workaround of the destructor loses no frame.                        *)
DrainedBeforeDestroy ==
  codec = "destroyed" => pending = 0 /\ eos_out = 1 /\ eos_callbacks >= 1

(* ~EasyDecode of a decoder that was constructed returns only after        *)
(* eos_callback was called, by the end of the stream or by an abort.       *)
ToldBeforeGone ==
  pc[Owner] = "gone" /\ codec # "absent" => eos_callbacks >= 1

(* A decoder that ended or is being destroyed never runs or pauses again,  *)
(* whatever Pause and Resume calls the end overtakes.                      *)
StatusEnds ==
  [][(status \in {"EOS", "STOP"}) => (status' \in {"EOS", "STOP"})]_status

(* The handler, seen as a session. *)
phase == IF pc[Owner] = "gone"        THEN "closed"
         ELSE IF codec = "dead"       THEN "dead"
         ELSE IF eos_callbacks > 0    THEN "ended"
         ELSE IF codec = "aborted"    THEN "aborted"
         ELSE IF codec = "absent"     THEN "new"
         ELSE IF eos_in > 0           THEN "sealed"
         ELSE                              "open"

Session == INSTANCE DecodeSession WITH inside <- pending

(* The threads, locks and queues of DecodeHandler implement the promise of *)
(* DecodeSession: output before end, end before close, aborts included.    *)
SessionPromise == Session!Spec

(* The destructor joins the event thread while it holds eos_mtx_.  The     *)
(* thread never comes when it still has to set got_eos_, or when an abort  *)
(* on another thread set it and the only notification came between the     *)
(* thread's test and its wait.                                             *)
NeverJoined ==
  /\ pc[Owner] = "tear_join"
  /\ pc[Loop] = "set_got_eos" \/ (pc[Loop] = "blocked" /\ codec = "aborted")

(* ~EasyDecode of a decoder that New handed out returns, or the process    *)
(* has died in it, or it hangs in one of the two ways of NeverJoined:      *)
(* whatever the codec refuses or raises and whoever aborts, there is no    *)
(* third.                                                                  *)
DestroyReturns ==
  <>(pc[Owner] = "idle") /\ <>destroying =>
    <>(pc[Owner] \in {"gone", "crashed"}) \/ <>[]NeverJoined

(* An end of stream the codec accepted is reported to the application. *)
EosReported == eos_in > 0 ~> eos_callbacks > 0 \/ codec = "dead"
=============================================================================
