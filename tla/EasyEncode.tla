------------------------------ MODULE EasyEncode ------------------------------
(***************************************************************************)
(* edk::EasyEncode and its EncodeHandler: application threads that send    *)
(* frames, abort and finally destroy an encoder, the codec's thread that   *)
(* calls back with packets, and the event thread.                          *)
(*                                                                         *)
(* Sending takes no lock at all, an end of stream may travel with the last *)
(* frame, send_eos_ is set before the feed, and a packet that cannot be    *)
(* copied aborts the encoder from inside the codec's callback.             *)
(***************************************************************************)
EXTENDS Naturals, Sequences, FiniteSets, Functions

CONSTANTS
  Users,         (* application threads                                     *)
  Owner,         (* the one that constructs and destroys the EasyEncode     *)
  Loop,          (* the thread of EventTaskRunner                           *)
  Codec,         (* the codec's thread for callbacks                        *)
  NoThread,      (* the owner of a free mutex                               *)
  EosCallers,    (* application threads that may send an end of stream      *)
  Aborters,      (* application threads that may call AbortEncoder          *)
  InputBufs,     (* input_buffer_num                                        *)
  MaxFrames,     (* bound: frames the codec accepts                         *)
  MaxFailures    (* bound: kinds of failure that happen in one behaviour    *)

ASSUME ThreadAssumption ==
  /\ Owner \in Users
  /\ EosCallers \subseteq Users /\ Aborters \subseteq Users
  /\ Loop \notin Users \union {Codec} /\ Codec \notin Users
  /\ NoThread \notin Users \union {Loop, Codec}

ASSUME BoundAssumption ==
  /\ InputBufs \in Nat \ {0}
  /\ MaxFrames \in Nat /\ MaxFailures \in Nat

VARIABLES
  pc,            (* the next step of each thread                            *)
  event_mtx,     (* who holds event_mtx_, or NoThread                       *)
  eos_mutex,     (* who holds eos_mutex_, or NoThread                       *)
  event_queue,   (* event_queue_                                            *)
  handle,        (* is handle_ non-null?                                    *)
  send_eos,      (* send_eos_                                               *)
  got_eos,       (* got_eos_                                                *)
  destroying,    (* has ~EncodeHandler begun?                               *)
  codec,         (* external: the state of the codec instance               *)
  accepted,      (* external: frames the codec accepted                     *)
  pending,       (* external: accepted frames still inside the codec        *)
  eos_in,        (* external: end-of-stream inputs the codec accepted       *)
  eos_out,       (* external: has the codec raised its end of stream?       *)
  failed,        (* history: which of Failures have happened                *)
  eos_callbacks  (* history: calls of attr_.eos_callback                    *)

locks   == <<event_mtx, eos_mutex>>
flags   == <<handle, send_eos, got_eos, destroying>>
library == <<codec, accepted, pending, eos_in, eos_out>>
vars == <<pc, locks, event_queue, flags, library, failed, eos_callbacks>>

Threads == Users \union {Loop, Codec}

(* What SendDataCPU sends: a frame, a frame that ends the stream, or an    *)
(* end of stream with an empty frame.                                      *)
Inputs == {"frame", "last", "eos"}
Ends(input) == input \in {"last", "eos"}

(* Failures: no input buffer or a copy to the device that throws ("input"),*)
(* an end of stream that is not accepted ("eos"), a frame that is not      *)
(* accepted ("frame"), a packet that cannot be copied to the host ("copy"),*)
(* a reset, out-of-memory or abort event ("fatal").                        *)
Failures == {"input", "eos", "frame", "copy", "fatal"}

EventKinds == {"EOS", "STREAM_CORRUPT", "FATAL"}
CodecKinds == {"absent", "running", "aborted", "destroyed", "dead"}

AbortSteps == {"abort_check", "abort_codec", "abort_null", "abort_report",
               "set_got_eos"}
LoopSteps  == {"unstarted", "lock_event", "test", "blocking", "blocked",
               "recv_eos", "exited", "crashed"} \union AbortSteps
PacketSteps == {"recv_packet", "packet_callback"}
(* In ReceiveEvent the codec's thread stands at the event it brings. *)
CodecSteps == {"idle", "undefined", "crashed"} \union PacketSteps \union EventKinds
                \union AbortSteps
TearSteps  == {"tear_check", "tear_relock", "tear_wait", "tear_blocked", "tear_notify",
               "tear_join", "tear_free", "gone"}
WaitStep == [frame |-> "wait_frame", last |-> "wait_last", eos |-> "wait_eos"]
FeedStep == [frame |-> "feed_frame", last |-> "feed_last", eos |-> "feed_eos"]
UserSteps  == {"outside", "ctor", "idle", "crashed"} \union AbortSteps \union TearSteps
                \union Range(WaitStep) \union Range(FeedStep)

Goto(t, step) == pc' = [pc EXCEPT ![t] = step]

Acquire(m, t) == m = NoThread /\ m' = t
Release(m, t) == m = t /\ m' = NoThread

Fail(kind) ==
  /\ failed' = failed \union {kind}
  /\ Cardinality(failed') <= MaxFailures

(* The process dies: nothing is said about what comes after.               *)
Crash ==
  /\ pc' = [t \in Threads |-> "crashed"]
  /\ codec' = "dead"

-----------------------------------------------------------------------------
Init ==
  /\ pc = [t \in Threads |-> IF t = Loop THEN "unstarted" ELSE IF t = Codec THEN "idle"
                             ELSE IF t = Owner THEN "ctor" ELSE "outside"]
  /\ event_mtx = NoThread /\ eos_mutex = NoThread
  /\ event_queue = <<>>
  /\ handle = FALSE /\ send_eos = FALSE /\ got_eos = FALSE /\ destroying = FALSE
  /\ codec = "absent" /\ accepted = 0 /\ pending = 0 /\ eos_in = 0 /\ eos_out = FALSE
  /\ failed = {} /\ eos_callbacks = 0

(* The constructor creates the codec instance and then starts the event    *)
(* thread.                                                                 *)
New ==
  /\ pc[Owner] = "ctor"
  /\ handle' = TRUE /\ codec' = "running"
  /\ pc' = [t \in Threads |-> IF t = Loop THEN "lock_event" ELSE "idle"]
  /\ UNCHANGED <<locks, event_queue, send_eos, got_eos, destroying, accepted, pending,
                 eos_in, eos_out, failed, eos_callbacks>>

(* Without an instance there is no event thread, the destructor does not   *)
(* run and New returns a null pointer.                                     *)
NewFails ==
  /\ pc[Owner] = "ctor"
  /\ Goto(Owner, "gone")
  /\ UNCHANGED <<locks, event_queue, flags, library, failed, eos_callbacks>>

-----------------------------------------------------------------------------
(* External: the codec takes an end of stream while it runs, and frames    *)
(* until it has taken one.  A null handle is refused.                      *)
CodecTakes(input) == handle /\ codec = "running" /\ (input = "eos" \/ eos_in = 0)

(* External: an input buffer is free, neither being filled nor inside.     *)
CodecHasBuffer ==
  /\ handle /\ codec = "running"
  /\ pending + Cardinality({u \in Users : pc[u] \in Range(FeedStep)}) < InputBufs

(* Where a send returns to: the application, or the destructor.            *)
SendReturn == IF destroying THEN "tear_relock" ELSE "idle"

(* SendDataCPU's unlocked test of send_eos_.  The calls it turns away      *)
(* change nothing.                                                         *)
SendDataCPU(u, input) ==
  /\ pc[u] = "idle"
  /\ Ends(input) => u \in EosCallers
  /\ input # "eos" => accepted < MaxFrames
  /\ ~send_eos
  /\ Goto(u, WaitStep[input])
  /\ UNCHANGED <<locks, event_queue, flags, library, failed, eos_callbacks>>

(* An input buffer is waited for and filled, and an end of stream is noted *)
(* before it is fed.                                                       *)
WaitAvailInputBuf(u, input) ==
  /\ pc[u] = WaitStep[input]
  /\ CodecHasBuffer
  /\ send_eos' = (send_eos \/ Ends(input))
  /\ Goto(u, FeedStep[input])
  /\ UNCHANGED <<locks, event_queue, handle, got_eos, destroying, library, failed,
                 eos_callbacks>>

(* No buffer within ten seconds, a null handle, or a copy that throws: the *)
(* application is told, the destructor goes on as if it had sent.          *)
WaitAvailInputBufFails(u, input) ==
  /\ pc[u] = WaitStep[input]
  /\ \/ ~handle /\ UNCHANGED failed
     \/ Fail(IF destroying THEN "eos" ELSE "input")
  /\ Goto(u, SendReturn)
  /\ UNCHANGED <<locks, event_queue, flags, library, eos_callbacks>>

FeedFrame(u, input) ==
  /\ pc[u] = FeedStep[input]
  /\ CodecTakes(input)
  /\ accepted' = IF input = "eos" THEN accepted ELSE accepted + 1
  /\ pending' = IF input = "eos" THEN pending ELSE pending + 1
  /\ eos_in' = IF Ends(input) THEN eos_in + 1 ELSE eos_in
  /\ Goto(u, SendReturn)
  /\ UNCHANGED <<locks, event_queue, flags, codec, eos_out, failed, eos_callbacks>>

(* A feed that times out returns false. *)
FeedFrameTimeout(u, input) ==
  /\ pc[u] = FeedStep[input]
  /\ handle /\ Fail(IF Ends(input) THEN "eos" ELSE "frame")
  /\ Goto(u, SendReturn)
  /\ UNCHANGED <<locks, event_queue, flags, library, eos_callbacks>>

(* Any other refusal is an exception.  ~EncodeHandler only logs it: the    *)
(* event thread is still joinable when the members are destroyed, and      *)
(* std::terminate ends the process.                                        *)
FeedFrameThrows(u, input) ==
  /\ pc[u] = FeedStep[input]
  /\ \/ ~CodecTakes(input) /\ UNCHANGED failed
     \/ Fail(IF Ends(input) THEN "eos" ELSE "frame")
  /\ \/ destroying /\ Crash
     \/ ~destroying /\ Goto(u, "idle") /\ UNCHANGED codec
  /\ UNCHANGED <<locks, event_queue, flags, accepted, pending, eos_in, eos_out,
                 eos_callbacks>>

-----------------------------------------------------------------------------
(* AbortEncoder, called by the application, by the event thread for a      *)
(* fatal event and out of the packet callback: an unlocked test, which     *)
(* turns later calls of the application away, ...                          *)
AbortReturn(t) == IF t = Loop THEN "lock_event" ELSE "idle"

AbortCall(u) ==
  /\ pc[u] = "idle" /\ u \in Aborters
  /\ handle
  /\ Goto(u, "abort_codec")
  /\ UNCHANGED <<locks, event_queue, flags, library, failed, eos_callbacks>>

AbortCheck(t) ==
  /\ pc[t] = "abort_check"
  /\ Goto(t, IF handle THEN "abort_codec" ELSE AbortReturn(t))
  /\ UNCHANGED <<locks, event_queue, flags, library, failed, eos_callbacks>>

(* ... the codec's abort of whatever handle_ is by now, which gives up     *)
(* what is inside but does not wait for a callback under way: the packet   *)
(* in it still comes, or cannot be copied either; ...                      *)
AbortCodec(t) ==
  /\ pc[t] = "abort_codec"
  /\ IF handle /\ codec = "running"
     THEN /\ codec' = "aborted"
          /\ pending' = IF pc[Codec] = "recv_packet" THEN 1 ELSE 0
     ELSE UNCHANGED <<codec, pending>>
  /\ Goto(t, "abort_null")
  /\ UNCHANGED <<locks, event_queue, flags, accepted, eos_in, eos_out, failed,
                 eos_callbacks>>

(* ... a null handle_, ...                                                 *)
AbortNull(t) ==
  /\ pc[t] = "abort_null"
  /\ handle' = FALSE
  /\ Goto(t, "abort_report")
  /\ UNCHANGED <<locks, event_queue, send_eos, got_eos, destroying, library, failed,
                 eos_callbacks>>

(* Defect: an abort is not reported. *)
ReportEos_OnlyEnd(t) ==
  /\ pc[t] \in {"abort_report", "recv_eos"}
  /\ eos_callbacks' = IF pc[t] = "recv_eos" THEN eos_callbacks + 1 ELSE eos_callbacks
  /\ Goto(t, "set_got_eos")
  /\ UNCHANGED <<locks, event_queue, flags, library, failed>>

(* ... the application's EOS callback, as in ReceiveEOS, ...               *)
ReportEos(t) ==
  /\ pc[t] \in {"abort_report", "recv_eos"}
  /\ eos_callbacks' = eos_callbacks + 1
  /\ Goto(t, "set_got_eos")
  /\ UNCHANGED <<locks, event_queue, flags, library, failed>>

(* Defect: eos_cond_ is not notified. *)
SetGotEos_Silent(t) ==
  /\ pc[t] = "set_got_eos"
  /\ eos_mutex = NoThread
  /\ got_eos' = TRUE
  /\ Goto(t, AbortReturn(t))
  /\ UNCHANGED <<locks, event_queue, handle, send_eos, destroying, library, failed,
                 eos_callbacks>>

(* ... and got_eos_ under eos_mutex_ with a notification of eos_cond_.     *)
SetGotEos(t) ==
  /\ pc[t] = "set_got_eos"
  /\ eos_mutex = NoThread
  /\ got_eos' = TRUE
  /\ pc' = [s \in Threads |-> IF s = t THEN AbortReturn(t)
                              ELSE IF pc[s] = "tear_blocked" THEN "tear_relock" ELSE pc[s]]
  /\ UNCHANGED <<locks, event_queue, handle, send_eos, destroying, library, failed,
                 eos_callbacks>>

-----------------------------------------------------------------------------
(* EventTaskRunner. *)
LoopLock ==
  /\ pc[Loop] = "lock_event"
  /\ Acquire(event_mtx, Loop)
  /\ Goto(Loop, "test")
  /\ UNCHANGED <<eos_mutex, event_queue, flags, library, failed, eos_callbacks>>

LoopExit ==
  /\ pc[Loop] = "test"
  /\ event_queue = <<>> /\ got_eos
  /\ Release(event_mtx, Loop)
  /\ Goto(Loop, "exited")
  /\ UNCHANGED <<eos_mutex, event_queue, flags, library, failed, eos_callbacks>>

LoopTake ==
  /\ pc[Loop] = "test"
  /\ event_queue # <<>>
  /\ event_queue' = Tail(event_queue)
  /\ Release(event_mtx, Loop)
  /\ Goto(Loop, IF Head(event_queue) = "EOS" THEN "recv_eos"
                ELSE IF Head(event_queue) = "FATAL" THEN "abort_check"
                ELSE "lock_event")
  /\ UNCHANGED <<eos_mutex, flags, library, failed, eos_callbacks>>

(* got_eos_ is read under event_mtx_, while its writers hold eos_mutex_. *)
LoopMustWait ==
  /\ pc[Loop] = "test"
  /\ event_queue = <<>> /\ ~got_eos
  /\ Goto(Loop, "blocking")
  /\ UNCHANGED <<locks, event_queue, flags, library, failed, eos_callbacks>>

LoopBlock ==
  /\ pc[Loop] = "blocking"
  /\ Release(event_mtx, Loop)
  /\ Goto(Loop, "blocked")
  /\ UNCHANGED <<eos_mutex, event_queue, flags, library, failed, eos_callbacks>>

-----------------------------------------------------------------------------
(* ~EncodeHandler, once no other application call is running.              *)
TearBegin ==
  /\ \A u \in Users : pc[u] = "idle"
  /\ destroying' = TRUE
  /\ pc' = [t \in Threads |-> IF t = Owner THEN "tear_check"
                              ELSE IF t \in Users THEN "outside" ELSE pc[t]]
  /\ UNCHANGED <<locks, event_queue, handle, send_eos, got_eos, library, failed,
                 eos_callbacks>>

(* Under eos_mutex_: does the stream still have to be ended?  If so the    *)
(* lock is dropped and SendDataCPU called.                                 *)
TearMustSend ==
  /\ pc[Owner] = "tear_check"
  /\ eos_mutex = NoThread
  /\ ~got_eos /\ ~send_eos /\ handle
  /\ Goto(Owner, WaitStep["eos"])
  /\ UNCHANGED <<locks, event_queue, flags, library, failed, eos_callbacks>>

(* Defect: an end of stream that is under way counts as received. *)
TearNeedNotSend_SentIsGot ==
  /\ pc[Owner] = "tear_check"
  /\ Acquire(eos_mutex, Owner)
  /\ got_eos \/ send_eos \/ ~handle
  /\ got_eos' = TRUE
  /\ Goto(Owner, "tear_wait")
  /\ UNCHANGED <<event_mtx, event_queue, handle, send_eos, destroying, library, failed,
                 eos_callbacks>>

TearNeedNotSend ==
  /\ pc[Owner] = "tear_check"
  /\ Acquire(eos_mutex, Owner)
  /\ got_eos \/ send_eos \/ ~handle
  /\ got_eos' = (got_eos \/ ~handle)
  /\ Goto(Owner, "tear_wait")
  /\ UNCHANGED <<event_mtx, event_queue, handle, send_eos, destroying, library, failed,
                 eos_callbacks>>

TearRelock ==
  /\ pc[Owner] = "tear_relock"
  /\ Acquire(eos_mutex, Owner)
  /\ Goto(Owner, "tear_wait")
  /\ UNCHANGED <<event_mtx, event_queue, flags, library, failed, eos_callbacks>>

TearBlock ==
  /\ pc[Owner] = "tear_wait"
  /\ ~got_eos
  /\ Release(eos_mutex, Owner)
  /\ Goto(Owner, "tear_blocked")
  /\ UNCHANGED <<event_mtx, event_queue, flags, library, failed, eos_callbacks>>

(* event_cond_.notify_all(), without event_mtx_. *)
TearNotify ==
  /\ pc[Owner] = "tear_wait"
  /\ got_eos
  /\ pc' = [pc EXCEPT ![Owner] = "tear_join",
                      ![Loop] = IF @ = "blocked" THEN "lock_event" ELSE @]
  /\ UNCHANGED <<locks, event_queue, flags, library, failed, eos_callbacks>>

(* Defect: the event thread is detached. *)
TearJoin_Detach ==
  /\ pc[Owner] = "tear_join"
  /\ Goto(Owner, "tear_free")
  /\ UNCHANGED <<locks, event_queue, flags, library, failed, eos_callbacks>>

(* event_loop_.join(), with eos_mutex_ still held. *)
TearJoin ==
  /\ pc[Owner] = "tear_join"
  /\ pc[Loop] = "exited"
  /\ Goto(Owner, "tear_free")
  /\ UNCHANGED <<locks, event_queue, flags, library, failed, eos_callbacks>>

(* The instance is destroyed, unless it was aborted, and the memory freed, *)
(* whatever thread of the codec is in a callback or aborts out of one.     *)
TearFree ==
  /\ pc[Owner] = "tear_free"
  /\ codec' = IF handle THEN "destroyed" ELSE codec
  /\ handle' = FALSE
  /\ Release(eos_mutex, Owner)
  /\ Goto(Owner, "gone")
  /\ UNCHANGED <<event_mtx, event_queue, send_eos, got_eos, destroying, accepted,
                 pending, eos_in, eos_out, failed, eos_callbacks>>

SpuriousWakeup ==
  /\ \/ pc[Loop] = "blocked" /\ Goto(Loop, "lock_event")
     \/ pc[Owner] = "tear_blocked" /\ Goto(Owner, "tear_relock")
  /\ UNCHANGED <<locks, event_queue, flags, library, failed, eos_callbacks>>

-----------------------------------------------------------------------------
(* External: the codec.  It calls back on a thread of its own, one call    *)
(* after the other, and begins a call only while it runs; an abort does    *)
(* not wait for the call to return.                                        *)
CodecBegins(step) ==
  /\ codec = "running" /\ pc[Codec] = "idle"
  /\ Goto(Codec, step)
  /\ UNCHANGED <<locks, event_queue, flags, codec, accepted, eos_in, eos_callbacks>>

CodecPacket ==
  /\ CodecBegins("recv_packet")
  /\ pending > 0
  /\ UNCHANGED <<pending, eos_out, failed>>

CodecCorrupt ==
  /\ CodecBegins("STREAM_CORRUPT")
  /\ pending > 0
  /\ pending' = pending - 1
  /\ UNCHANGED <<eos_out, failed>>

(* The end of stream comes out when every packet before it was handled.    *)
CodecEos ==
  /\ CodecBegins("EOS")
  /\ pending = 0 /\ eos_in > 0 /\ ~eos_out
  /\ eos_out' = TRUE
  /\ UNCHANGED <<pending, failed>>

CodecFatal ==
  /\ CodecBegins("FATAL")
  /\ "fatal" \notin failed
  /\ Fail("fatal")
  /\ UNCHANGED <<pending, eos_out>>

(* ReceivePacket: the packet is copied to memory the application then owns *)
(* and passed on, ...                                                      *)
ReceivePacket ==
  /\ pc[Codec] = "recv_packet" /\ pc[Owner] # "gone"
  /\ pending' = pending - 1
  /\ Goto(Codec, "packet_callback")
  /\ UNCHANGED <<locks, event_queue, flags, codec, accepted, eos_in, eos_out, failed,
                 eos_callbacks>>

PacketReturn ==
  /\ pc[Codec] = "packet_callback" /\ pc[Owner] # "gone"
  /\ Goto(Codec, "idle")
  /\ UNCHANGED <<locks, event_queue, flags, library, failed, eos_callbacks>>

(* ... or the copy fails and the encoder is aborted: the packet stays      *)
(* among those the abort gives up.                                         *)
ReceivePacketFails ==
  /\ pc[Codec] = "recv_packet" /\ pc[Owner] # "gone"
  /\ Fail("copy")
  /\ Goto(Codec, "abort_check")
  /\ UNCHANGED <<locks, event_queue, flags, library, eos_callbacks>>

(* EventHandler and ReceiveEvent, called by the codec. *)
ReceiveEvent(kind) ==
  /\ pc[Codec] = kind /\ pc[Owner] # "gone"
  /\ event_mtx = NoThread
  /\ event_queue' = Append(event_queue, kind)
  /\ pc' = [pc EXCEPT ![Codec] = "idle",
                      ![Loop] = IF @ = "blocked" THEN "lock_event" ELSE @]
  /\ UNCHANGED <<locks, flags, library, failed, eos_callbacks>>

(* A callback that goes on when the handler is gone uses freed memory.     *)
UseAfterFree ==
  /\ pc[Owner] = "gone" /\ pc[Codec] \in PacketSteps \union EventKinds \union AbortSteps
  /\ Goto(Codec, "undefined")
  /\ UNCHANGED <<locks, event_queue, flags, library, failed, eos_callbacks>>

CodecCallsBack ==
  \/ CodecPacket \/ CodecCorrupt \/ CodecEos \/ CodecFatal
  \/ ReceivePacket \/ PacketReturn \/ ReceivePacketFails
  \/ \E kind \in EventKinds : ReceiveEvent(kind)
  \/ UseAfterFree

-----------------------------------------------------------------------------
Feed(u, input) == \/ WaitAvailInputBuf(u, input) \/ WaitAvailInputBufFails(u, input)
                  \/ FeedFrame(u, input) \/ FeedFrameTimeout(u, input)
                  \/ FeedFrameThrows(u, input)

(* The codec's thread may still be in here when the handler is gone.       *)
AbortOrEos(t) ==
  /\ pc[Owner] # "gone"
  /\ \/ AbortCheck(t) \/ AbortCodec(t) \/ AbortNull(t)
     \/ ReportEos(t) \/ SetGotEos(t)

EventTaskRunner == LoopLock \/ LoopExit \/ LoopTake \/ LoopMustWait \/ LoopBlock

TearDown == \/ TearMustSend \/ TearNeedNotSend \/ TearRelock \/ TearBlock
            \/ TearNotify \/ TearJoin \/ TearFree

Finished == pc[Owner] \in {"gone", "crashed"} /\ UNCHANGED vars

Next ==
  \/ New \/ NewFails
  \/ \E u \in Users, input \in Inputs : SendDataCPU(u, input) \/ Feed(u, input)
  \/ \E u \in Users : AbortCall(u)
  \/ \E t \in Threads : AbortOrEos(t)
  \/ EventTaskRunner
  \/ TearBegin \/ TearDown
  \/ SpuriousWakeup
  \/ CodecCallsBack
  \/ Finished

Spec == Init /\ [][Next]_vars

(* Threads that run keep running and a call that began goes on; a thread   *)
(* that wants a mutex or a buffer which is freed again and again gets it   *)
(* in the end (strong fairness).  The codec works off its input.  What the *)
(* application calls, spurious wakeups and what the codec finds wrong are  *)
(* left to chance.                                                         *)
UserGoesOn(u) ==
  (\E input \in Inputs : Feed(u, input)) \/ AbortOrEos(u) \/ (u = Owner /\ TearDown)

LoopGoesOn == EventTaskRunner \/ AbortOrEos(Loop)

CodecGoesOn ==
  \/ CodecPacket \/ CodecEos
  \/ ReceivePacket \/ PacketReturn \/ ReceivePacketFails \/ AbortOrEos(Codec)
  \/ \E kind \in EventKinds : ReceiveEvent(kind)

Fairness ==
  /\ \A u \in Users : SF_vars(UserGoesOn(u))
  /\ SF_vars(LoopGoesOn)
  /\ SF_vars(CodecGoesOn)

FairSpec == Spec /\ Fairness

-----------------------------------------------------------------------------
(* Every variable of EncodeHandler and of the codec has its type.          *)
TypeOK ==
  /\ pc \in [Threads -> UserSteps \union LoopSteps \union CodecSteps]
  /\ pc[Loop] \in LoopSteps /\ pc[Codec] \in CodecSteps
  /\ \A u \in Users : pc[u] \in UserSteps
  /\ event_mtx \in {NoThread, Loop} /\ eos_mutex \in {NoThread, Owner}
  /\ event_queue \in Seq(EventKinds)
  /\ handle \in BOOLEAN /\ send_eos \in BOOLEAN /\ got_eos \in BOOLEAN
  /\ destroying \in BOOLEAN
  /\ codec \in CodecKinds
  /\ accepted \in Nat /\ pending \in 0..accepted
  /\ eos_in \in Nat /\ eos_out \in BOOLEAN
  /\ failed \subseteq Failures /\ eos_callbacks \in Nat

(* The handler's memory goes away, and the codec instance is destroyed,    *)
(* only when the event thread has left or never began, with no mutex held. *)
(* A callback of the codec is inside, in a packet, an abort or an event,   *)
(* only if the instance was aborted, which waits for nothing, or if the    *)
(* callback is of a fatal event: no packet and no end of stream of a codec *)
(* that runs is caught.                                                    *)
JoinedBeforeFree ==
  codec = "destroyed" \/ pc[Owner] = "gone" =>
    /\ pc[Loop] \in {"unstarted", "exited"}
    /\ event_mtx = NoThread /\ eos_mutex = NoThread
    /\ pc[Codec] \in {"idle", "undefined", "FATAL"} \/ codec = "aborted"

(* The destructor takes a null handle_ for an end of stream: it may free   *)
(* the handler when the codec's thread has nulled handle_ in an abort and  *)
(* has not told the application yet.                                       *)
FreedUnderAbort ==
  /\ pc[Owner] = "gone" /\ pc[Codec] \in {"abort_report", "undefined"}
  /\ eos_callbacks = 0

(* The handler, seen as a session: it dies with the process, or when it is *)
(* freed under such an abort.                                              *)
phase == IF codec = "dead" \/ FreedUnderAbort THEN "dead"
         ELSE IF pc[Owner] = "gone"   THEN "closed"
         ELSE IF eos_callbacks > 0    THEN "ended"
         ELSE IF codec = "aborted"    THEN "aborted"
         ELSE IF codec = "absent"     THEN "new"
         ELSE IF eos_in > 0           THEN "sealed"
         ELSE                              "open"

Session == INSTANCE DecodeSession WITH inside <- pending

(* Whatever the order of sends, callbacks and aborts: packets come out     *)
(* before the end is reported, the end before the encoder is gone.         *)
SessionPromise == Session!Spec

(* The destructor waits for an end of stream that the codec did not take,  *)
(* or joins the event thread while that wants eos_mutex_ or missed the     *)
(* only notification, which an abort on another thread made possible.      *)
NeverReturns ==
  \/ destroying /\ ~got_eos /\ eos_in = 0 /\ "eos" \in failed
  \/ pc[Owner] = "tear_join" /\ pc[Loop] = "set_got_eos"
  \/ pc[Owner] = "tear_join" /\ pc[Loop] = "blocked" /\ codec = "aborted"

(* ~EasyEncode returns, or the process has died in it, or it hangs in one  *)
(* of the three ways of NeverReturns: whatever the codec refuses or raises *)
(* and whoever aborts, there is no fourth.                                 *)
DestroyReturns ==
  <>destroying => <>(pc[Owner] \in {"gone", "crashed"}) \/ <>[]NeverReturns

(* An end of stream the codec accepted, alone or with the last frame, is   *)
(* reported to the application, unless the session died.                   *)
EosReported == eos_in > 0 ~> eos_callbacks > 0 \/ phase = "dead"
=============================================================================
