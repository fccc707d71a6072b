--------------------------- MODULE EasyEncodeProofs ---------------------------
(***************************************************************************)
(* Proofs about EasyEncode for any number of application threads, input    *)
(* buffers, frames and failures.                                           *)
(***************************************************************************)
EXTENDS EasyEncode, TLAPS

(* The steps of a send, by name. *)
WaitSteps  == {"wait_frame", "wait_last", "wait_eos"}
FeedsSteps == {"feed_frame", "feed_last", "feed_eos"}

(* Which steps a send waits and feeds at: those of an empty frame only for *)
(* an end of stream, and the destructor sends nothing else.               *)
LEMMA SendSteps ==
  /\ Range(WaitStep) = WaitSteps /\ Range(FeedStep) = FeedsSteps
  /\ \A input \in Inputs :
       /\ WaitStep[input] \in WaitSteps /\ FeedStep[input] \in FeedsSteps
       /\ WaitStep[input] = "wait_eos" <=> input = "eos"
       /\ FeedStep[input] = "feed_eos" <=> input = "eos"
  /\ WaitStep["eos"] = "wait_eos" /\ FeedStep["eos"] = "feed_eos"
  BY DEF Range, WaitStep, FeedStep, WaitSteps, FeedsSteps, Inputs

-----------------------------------------------------------------------------
(* The inductive invariant, in parts.                                      *)

(* Who holds a mutex, by the step it stands at. *)
HoldsEos == {"tear_wait", "tear_notify", "tear_join", "tear_free"}

LockInv ==
  /\ pc[Owner] \in HoldsEos => eos_mutex = Owner
  /\ eos_mutex = Owner => pc[Owner] \in HoldsEos \union {"crashed"}
  /\ pc[Loop] \in {"test", "blocking"} => event_mtx = Loop
  /\ event_mtx = Loop => pc[Loop] \in {"test", "blocking", "crashed"}

(* Before New and from the destructor's start the other application        *)
(* threads are outside; the event thread exists from New to the join; a    *)
(* dead process runs nothing.                                              *)
PhaseInv ==
  /\ codec = "absent" =>
       /\ pc[Owner] \in {"ctor", "gone"} /\ pc[Codec] = "idle"
       /\ pc[Loop] = "unstarted"
       /\ ~got_eos /\ ~destroying
       /\ event_queue = <<>> /\ eos_in = 0 /\ ~eos_out /\ eos_callbacks = 0
       /\ pending = 0
       /\ \A u \in Users \ {Owner} : pc[u] = "outside"
  /\ pc[Owner] = "ctor" \/ pc[Loop] = "unstarted" => codec = "absent"
  /\ destroying =>
       /\ \A u \in Users \ {Owner} : pc[u] \in {"outside", "crashed"}
       /\ pc[Owner] \in TearSteps \union {"wait_eos", "feed_eos", "crashed"}
  /\ pc[Owner] \in TearSteps => destroying \/ codec = "absent"
  /\ pc[Owner] = "tear_free" => pc[Loop] = "exited"
  /\ pc[Owner] = "gone" =>
       /\ pc[Loop] \in {"unstarted", "exited"}
       /\ codec \in {"absent", "aborted", "destroyed"} /\ ~handle
  /\ codec = "destroyed" => pc[Owner] = "gone"
  /\ pc[Codec] = "undefined" => pc[Owner] = "gone"
  /\ \A t \in Threads : pc[t] = "crashed" <=> codec = "dead"

(* The handle and the instance it refers to; an abort that nulled handle_  *)
(* was reported, or whoever nulled it is about to, or has been caught by   *)
(* the end of the handler.                                                 *)
HandleInv ==
  /\ codec = "running" => handle
  /\ codec \in {"absent", "destroyed"} => ~handle
  /\ codec = "aborted" /\ handle => \E t \in Threads : pc[t] = "abort_null"
  /\ \A t \in Threads : pc[t] = "abort_null" => codec = "aborted"
  /\ \A t \in Threads : pc[t] = "abort_report" => codec = "aborted" /\ ~handle
  /\ codec = "aborted" /\ ~handle =>
       \/ eos_callbacks > 0 \/ pc[Codec] = "undefined"
       \/ \E t \in Threads : pc[t] = "abort_report"

(* The codec raised its end of stream and has left ReceiveEvent.           *)
EosQueued == eos_out /\ pc[Codec] # "EOS"

(* The end of the stream comes out behind every packet, and once.          *)
StreamInv ==
  /\ eos_out => eos_in > 0 /\ pending = 0
  /\ eos_out => pc[Codec] \in {"idle", "EOS", "FATAL", "undefined", "crashed"}
  /\ pc[Codec] = "EOS" => eos_out
  /\ pc[Codec] = "recv_packet" => pending > 0
  /\ \A i \in DOMAIN event_queue : event_queue[i] = "EOS" => EosQueued
  /\ pc[Loop] = "recv_eos" => EosQueued
  /\ \A t \in Threads : pc[t] = "recv_eos" => t = Loop

(* A report, and got_eos_, mean that the end came out or that there is no  *)
(* instance left.                                                          *)
EndInv ==
  /\ \A t \in Threads : pc[t] = "set_got_eos" => eos_callbacks > 0
  /\ eos_callbacks > 0 /\ handle => EosQueued
  /\ got_eos /\ handle => eos_callbacks > 0
  /\ pc[Owner] \in {"tear_join", "tear_free"} => got_eos
  /\ pc[Loop] = "exited" => got_eos
  /\ codec = "destroyed" => EosQueued /\ eos_callbacks > 0

IInv == TypeOK /\ LockInv /\ PhaseInv /\ HandleInv /\ StreamInv /\ EndInv

(* The constructor's first state satisfies every part. *)
LEMMA InitIInv == Init => IInv
<1> SUFFICES ASSUME Init PROVE IInv
  OBVIOUS
<1> USE ThreadAssumption, BoundAssumption, SendSteps DEF Init, Threads
<1>1. TypeOK
  <2>1. /\ pc \in [Threads -> UserSteps \union LoopSteps \union CodecSteps]
        /\ pc[Loop] \in LoopSteps /\ pc[Codec] \in CodecSteps
        /\ \A u \in Users : pc[u] \in UserSteps
    BY DEF UserSteps, LoopSteps, CodecSteps
  <2>2. event_queue \in Seq(EventKinds)
    OBVIOUS
  <2>3. /\ event_mtx \in {NoThread, Loop} /\ eos_mutex \in {NoThread, Owner}
        /\ handle \in BOOLEAN /\ send_eos \in BOOLEAN /\ got_eos \in BOOLEAN
        /\ destroying \in BOOLEAN /\ eos_out \in BOOLEAN
    OBVIOUS
  <2>4. /\ codec \in CodecKinds
        /\ accepted \in Nat /\ pending \in 0..accepted
        /\ eos_in \in Nat
        /\ failed \subseteq Failures /\ eos_callbacks \in Nat
    BY DEF CodecKinds
  <2> QED BY <2>1, <2>2, <2>3, <2>4, Zenon DEF TypeOK
<1>2. LockInv /\ PhaseInv
  BY DEF LockInv, HoldsEos, PhaseInv, TearSteps
<1>3. HandleInv /\ StreamInv /\ EndInv
  BY DEF HandleInv, StreamInv, EndInv
<1> QED BY <1>1, <1>2, <1>3 DEF IInv

(* Every step of the application, of the event thread, of the destructor   *)
(* and of the codec preserves the invariant: one step of the proof for     *)
(* each of them.                                                           *)
LEMMA NextIInv == IInv /\ [Next]_vars => IInv'
<1> SUFFICES ASSUME IInv, [Next]_vars PROVE IInv'
  OBVIOUS
<1> USE ThreadAssumption, BoundAssumption, SendSteps
    DEF IInv, TypeOK, LockInv, HoldsEos, PhaseInv, HandleInv, StreamInv, EndInv,
        Threads, UserSteps, LoopSteps, CodecSteps, AbortSteps, TearSteps,
        WaitSteps, FeedsSteps, PacketSteps, CodecKinds, EventKinds,
        EosQueued
<1>1. CASE New
  BY <1>1 DEF New, locks
<1>2. CASE NewFails
  BY <1>2 DEF NewFails, Goto, locks, flags, library
<1>3. ASSUME NEW u \in Users, NEW input \in Inputs, SendDataCPU(u, input)
      PROVE  IInv'
  BY <1>3 DEF SendDataCPU, Ends, Goto, locks, flags, library
<1>4. ASSUME NEW u \in Users, NEW input \in Inputs, WaitAvailInputBuf(u, input)
      PROVE  IInv'
  BY <1>4 DEF WaitAvailInputBuf, CodecHasBuffer, Ends, Goto, locks, library
<1>5. ASSUME NEW u \in Users, NEW input \in Inputs, WaitAvailInputBufFails(u, input)
      PROVE  IInv'
  <2>1. TypeOK'
    <3>1. /\ pc' \in [Threads -> UserSteps \union LoopSteps \union CodecSteps]
          /\ pc'[Loop] \in LoopSteps /\ pc'[Codec] \in CodecSteps
          /\ \A s \in Users : pc'[s] \in UserSteps
      BY <1>5 DEF WaitAvailInputBufFails, Fail, Failures, SendReturn, Goto,
          locks, flags, library
    <3>2. /\ event_mtx' \in {NoThread, Loop} /\ eos_mutex' \in {NoThread, Owner}
          /\ event_queue' \in Seq(EventKinds)
          /\ handle' \in BOOLEAN /\ send_eos' \in BOOLEAN /\ got_eos' \in BOOLEAN
          /\ destroying' \in BOOLEAN
      BY <1>5 DEF WaitAvailInputBufFails, Fail, Failures, SendReturn, Goto,
          locks, flags, library
    <3>3. /\ codec' \in CodecKinds
          /\ accepted' \in Nat /\ pending' \in 0..accepted'
          /\ eos_in' \in Nat /\ eos_out' \in BOOLEAN
          /\ failed' \subseteq Failures /\ eos_callbacks' \in Nat
      BY <1>5 DEF WaitAvailInputBufFails, Fail, Failures, SendReturn, Goto,
          locks, flags, library
    <3> QED BY <3>1, <3>2, <3>3, Zenon DEF TypeOK
  <2>2. LockInv'
    BY <1>5 DEF WaitAvailInputBufFails, Fail, Failures, SendReturn, Goto,
        locks, flags, library
  <2>3. PhaseInv'
    BY <1>5 DEF WaitAvailInputBufFails, Fail, Failures, SendReturn, Goto,
        locks, flags, library
  <2>4. HandleInv'
    BY <1>5 DEF WaitAvailInputBufFails, Fail, Failures, SendReturn, Goto,
        locks, flags, library
  <2>5. StreamInv'
    BY <1>5 DEF WaitAvailInputBufFails, Fail, Failures, SendReturn, Goto,
        locks, flags, library
  <2>6. EndInv'
    BY <1>5 DEF WaitAvailInputBufFails, Fail, Failures, SendReturn, Goto,
        locks, flags, library
  <2> QED BY <2>1, <2>2, <2>3, <2>4, <2>5, <2>6 DEF IInv
<1>6. ASSUME NEW u \in Users, NEW input \in Inputs, FeedFrame(u, input)
      PROVE  IInv'
  BY <1>6 DEF FeedFrame, CodecTakes, Ends, SendReturn, Goto, locks, flags
<1>7. ASSUME NEW u \in Users, NEW input \in Inputs, FeedFrameTimeout(u, input)
      PROVE  IInv'
  BY <1>7 DEF FeedFrameTimeout, Fail, Failures, SendReturn, Goto, locks,
      flags, library
<1>8. ASSUME NEW u \in Users, NEW input \in Inputs, FeedFrameThrows(u, input)
      PROVE  IInv'
  <2>1. TypeOK'
    <3>1. /\ pc' \in [Threads -> UserSteps \union LoopSteps \union CodecSteps]
          /\ pc'[Loop] \in LoopSteps /\ pc'[Codec] \in CodecSteps
          /\ \A s \in Users : pc'[s] \in UserSteps
      BY <1>8 DEF FeedFrameThrows, CodecTakes, Fail, Failures, Crash, Goto,
          locks, flags
    <3>2. /\ event_mtx' \in {NoThread, Loop} /\ eos_mutex' \in {NoThread, Owner}
          /\ event_queue' \in Seq(EventKinds)
          /\ handle' \in BOOLEAN /\ send_eos' \in BOOLEAN /\ got_eos' \in BOOLEAN
          /\ destroying' \in BOOLEAN
      BY <1>8 DEF FeedFrameThrows, CodecTakes, Fail, Failures, Crash, Goto,
          locks, flags
    <3>3. codec' \in CodecKinds
      BY <1>8 DEF FeedFrameThrows, Crash
    <3>4. UNCHANGED <<accepted, pending, eos_in, eos_out, eos_callbacks>>
      BY <1>8 DEF FeedFrameThrows
    <3>5. /\ accepted' \in Nat /\ pending' \in 0..accepted'
          /\ eos_in' \in Nat /\ eos_out' \in BOOLEAN
          /\ eos_callbacks' \in Nat
      BY <3>4
    <3>6. failed' \subseteq Failures
      <4>1. failed' \in {failed, failed \union {"eos"}, failed \union {"frame"}}
        BY <1>8 DEF FeedFrameThrows, Fail
      <4>2. failed \subseteq Failures
        BY Zenon
      <4> QED BY <4>1, <4>2 DEF Failures
    <3> QED BY <3>1, <3>2, <3>3, <3>5, <3>6, Zenon DEF TypeOK
  <2>2. LockInv'
    BY <1>8 DEF FeedFrameThrows, CodecTakes, Fail, Failures, Crash, Goto,
        locks, flags
  <2>3. PhaseInv'
    BY <1>8 DEF FeedFrameThrows, CodecTakes, Fail, Failures, Crash, Goto,
        locks, flags
  <2>4. HandleInv'
    BY <1>8 DEF FeedFrameThrows, CodecTakes, Fail, Failures, Crash, Goto,
        locks, flags
  <2>5. StreamInv'
    BY <1>8 DEF FeedFrameThrows, CodecTakes, Fail, Failures, Crash, Goto,
        locks, flags
  <2>6. EndInv'
    BY <1>8 DEF FeedFrameThrows, CodecTakes, Fail, Failures, Crash, Goto,
        locks, flags
  <2> QED BY <2>1, <2>2, <2>3, <2>4, <2>5, <2>6 DEF IInv
<1>9. ASSUME NEW u \in Users, AbortCall(u)
      PROVE  IInv'
  BY <1>9 DEF AbortCall, Goto, locks, flags, library
<1>10. ASSUME NEW t \in Threads, AbortCheck(t), pc[Owner] # "gone"
      PROVE  IInv'
  BY <1>10 DEF AbortCheck, AbortReturn, Goto, locks, flags, library
<1>11. ASSUME NEW t \in Threads, AbortCodec(t), pc[Owner] # "gone"
      PROVE  IInv'
  <2>1. TypeOK'
    <3>1. /\ pc' \in [Threads -> UserSteps \union LoopSteps \union CodecSteps]
          /\ pc'[Loop] \in LoopSteps /\ pc'[Codec] \in CodecSteps
          /\ \A s \in Users : pc'[s] \in UserSteps
      BY <1>11 DEF AbortCodec, Goto, locks, flags
    <3>2. /\ event_mtx' \in {NoThread, Loop} /\ eos_mutex' \in {NoThread, Owner}
          /\ event_queue' \in Seq(EventKinds)
          /\ handle' \in BOOLEAN /\ send_eos' \in BOOLEAN /\ got_eos' \in BOOLEAN
          /\ destroying' \in BOOLEAN
      BY <1>11 DEF AbortCodec, Goto, locks, flags
    <3>3. /\ codec' \in CodecKinds
          /\ accepted' \in Nat /\ pending' \in 0..accepted'
          /\ eos_in' \in Nat /\ eos_out' \in BOOLEAN
          /\ failed' \subseteq Failures /\ eos_callbacks' \in Nat
      BY <1>11 DEF AbortCodec, Goto, locks, flags
    <3> QED BY <3>1, <3>2, <3>3, Zenon DEF TypeOK
  <2>2. LockInv'
    BY <1>11 DEF AbortCodec, Goto, locks, flags
  <2>3. PhaseInv'
    BY <1>11 DEF AbortCodec, Goto, locks, flags
  <2>4. HandleInv'
    BY <1>11 DEF AbortCodec, Goto, locks, flags
  <2>5. StreamInv'
    BY <1>11 DEF AbortCodec, Goto, locks, flags
  <2>6. EndInv'
    BY <1>11 DEF AbortCodec, Goto, locks, flags
  <2> QED BY <2>1, <2>2, <2>3, <2>4, <2>5, <2>6 DEF IInv
<1>12. ASSUME NEW t \in Threads, AbortNull(t), pc[Owner] # "gone"
      PROVE  IInv'
  <2>1. TypeOK'
    <3>1. /\ pc' \in [Threads -> UserSteps \union LoopSteps \union CodecSteps]
          /\ pc'[Loop] \in LoopSteps /\ pc'[Codec] \in CodecSteps
          /\ \A s \in Users : pc'[s] \in UserSteps
      BY <1>12 DEF AbortNull, Goto, locks, library
    <3>2. /\ event_mtx' \in {NoThread, Loop} /\ eos_mutex' \in {NoThread, Owner}
          /\ event_queue' \in Seq(EventKinds)
          /\ handle' \in BOOLEAN /\ send_eos' \in BOOLEAN /\ got_eos' \in BOOLEAN
          /\ destroying' \in BOOLEAN
      BY <1>12 DEF AbortNull, Goto, locks, library
    <3>3. /\ codec' \in CodecKinds
          /\ accepted' \in Nat /\ pending' \in 0..accepted'
          /\ eos_in' \in Nat /\ eos_out' \in BOOLEAN
          /\ failed' \subseteq Failures /\ eos_callbacks' \in Nat
      BY <1>12 DEF AbortNull, Goto, locks, library
    <3> QED BY <3>1, <3>2, <3>3, Zenon DEF TypeOK
  <2>2. LockInv'
    BY <1>12 DEF AbortNull, Goto, locks, library
  <2>3. PhaseInv'
    BY <1>12 DEF AbortNull, Goto, locks, library
  <2>4. HandleInv'
    BY <1>12 DEF AbortNull, Goto, locks, library
  <2>5. StreamInv'
    BY <1>12 DEF AbortNull, Goto, locks, library
  <2>6. EndInv'
    BY <1>12 DEF AbortNull, Goto, locks, library
  <2> QED BY <2>1, <2>2, <2>3, <2>4, <2>5, <2>6 DEF IInv
<1>13. ASSUME NEW t \in Threads, ReportEos(t), pc[Owner] # "gone"
      PROVE  IInv'
  BY <1>13 DEF ReportEos, Goto, locks, flags, library
<1>14. ASSUME NEW t \in Threads, SetGotEos(t), pc[Owner] # "gone"
      PROVE  IInv'
  BY <1>14 DEF SetGotEos, AbortReturn, locks, library
<1>15. CASE LoopLock
  BY <1>15 DEF LoopLock, Acquire, Goto, flags, library
<1>16. CASE LoopExit
  BY <1>16 DEF LoopExit, Release, Goto, flags, library
<1>17. CASE LoopTake
  BY <1>17 DEF LoopTake, Release, Goto, flags, library
<1>18. CASE LoopMustWait
  BY <1>18 DEF LoopMustWait, Goto, locks, flags, library
<1>19. CASE LoopBlock
  BY <1>19 DEF LoopBlock, Release, Goto, flags, library
<1>20. CASE TearBegin
  BY <1>20 DEF TearBegin, locks, library
<1>21. CASE TearMustSend
  BY <1>21 DEF TearMustSend, Goto, locks, flags, library
<1>22. CASE TearNeedNotSend
  BY <1>22 DEF TearNeedNotSend, Acquire, Goto, library
<1>23. CASE TearRelock
  BY <1>23 DEF TearRelock, Acquire, Goto, flags, library
<1>24. CASE TearBlock
  BY <1>24 DEF TearBlock, Release, Goto, flags, library
<1>25. CASE TearNotify
  BY <1>25 DEF TearNotify, locks, flags, library
<1>26. CASE TearJoin
  BY <1>26 DEF TearJoin, Goto, locks, flags, library
<1>27. CASE TearFree
  <2>1. TypeOK'
    <3>1. /\ pc' \in [Threads -> UserSteps \union LoopSteps \union CodecSteps]
          /\ pc'[Loop] \in LoopSteps /\ pc'[Codec] \in CodecSteps
          /\ \A s \in Users : pc'[s] \in UserSteps
      BY <1>27 DEF TearFree, Release, Goto
    <3>2. /\ event_mtx' \in {NoThread, Loop} /\ eos_mutex' \in {NoThread, Owner}
          /\ event_queue' \in Seq(EventKinds)
          /\ handle' \in BOOLEAN /\ send_eos' \in BOOLEAN /\ got_eos' \in BOOLEAN
          /\ destroying' \in BOOLEAN
      BY <1>27 DEF TearFree, Release, Goto
    <3>3. /\ codec' \in CodecKinds
          /\ accepted' \in Nat /\ pending' \in 0..accepted'
          /\ eos_in' \in Nat /\ eos_out' \in BOOLEAN
          /\ failed' \subseteq Failures /\ eos_callbacks' \in Nat
      BY <1>27 DEF TearFree, Release, Goto
    <3> QED BY <3>1, <3>2, <3>3, Zenon DEF TypeOK
  <2>2. LockInv'
    BY <1>27 DEF TearFree, Release, Goto
  <2>3. PhaseInv'
    BY <1>27 DEF TearFree, Release, Goto
  <2>4. HandleInv'
    BY <1>27 DEF TearFree, Release, Goto
  <2>5. StreamInv'
    BY <1>27 DEF TearFree, Release, Goto
  <2>6. EndInv'
    BY <1>27 DEF TearFree, Release, Goto
  <2> QED BY <2>1, <2>2, <2>3, <2>4, <2>5, <2>6 DEF IInv
<1>28. CASE SpuriousWakeup
  BY <1>28 DEF SpuriousWakeup, Goto, locks, flags, library
<1>29. CASE CodecPacket
  <2>1. TypeOK'
    BY <1>29 DEF CodecPacket, CodecBegins, Goto, locks, flags
  <2>2. LockInv'
    BY <1>29 DEF CodecPacket, CodecBegins, Goto, locks, flags
  <2>3. PhaseInv'
    BY <1>29 DEF CodecPacket, CodecBegins, Goto, locks, flags
  <2>4. HandleInv'
    BY <1>29 DEF CodecPacket, CodecBegins, Goto, locks, flags
  <2>5. StreamInv'
    BY <1>29 DEF CodecPacket, CodecBegins, Goto, locks, flags
  <2>6. EndInv'
    BY <1>29 DEF CodecPacket, CodecBegins, Goto, locks, flags
  <2> QED BY <2>1, <2>2, <2>3, <2>4, <2>5, <2>6 DEF IInv
<1>30. CASE CodecCorrupt
  BY <1>30 DEF CodecCorrupt, CodecBegins, Goto, locks, flags
<1>31. CASE CodecEos
  <2>1. TypeOK'
    BY <1>31 DEF CodecEos, CodecBegins, Goto, locks, flags
  <2>2. LockInv'
    BY <1>31 DEF CodecEos, CodecBegins, Goto, locks, flags
  <2>3. PhaseInv'
    BY <1>31 DEF CodecEos, CodecBegins, Goto, locks, flags
  <2>4. HandleInv'
    BY <1>31 DEF CodecEos, CodecBegins, Goto, locks, flags
  <2>5. StreamInv'
    BY <1>31 DEF CodecEos, CodecBegins, Goto, locks, flags
  <2>6. EndInv'
    BY <1>31 DEF CodecEos, CodecBegins, Goto, locks, flags
  <2> QED BY <2>1, <2>2, <2>3, <2>4, <2>5, <2>6 DEF IInv
<1>32. CASE CodecFatal
  BY <1>32 DEF CodecFatal, CodecBegins, Fail, Failures, Goto, locks, flags
<1>33. CASE ReceivePacket
  <2>1. TypeOK'
    BY <1>33 DEF ReceivePacket, Goto, locks, flags
  <2>2. LockInv'
    BY <1>33 DEF ReceivePacket, Goto, locks, flags
  <2>3. PhaseInv'
    BY <1>33 DEF ReceivePacket, Goto, locks, flags
  <2>4. HandleInv'
    BY <1>33 DEF ReceivePacket, Goto, locks, flags
  <2>5. StreamInv'
    BY <1>33 DEF ReceivePacket, Goto, locks, flags
  <2>6. EndInv'
    BY <1>33 DEF ReceivePacket, Goto, locks, flags
  <2> QED BY <2>1, <2>2, <2>3, <2>4, <2>5, <2>6 DEF IInv
<1>34. CASE PacketReturn
  BY <1>34 DEF PacketReturn, Goto, locks, flags, library
<1>35. CASE ReceivePacketFails
  <2>1. TypeOK'
    BY <1>35 DEF ReceivePacketFails, Fail, Failures, Goto, locks, flags,
        library
  <2>2. LockInv'
    BY <1>35 DEF ReceivePacketFails, Fail, Failures, Goto, locks, flags,
        library
  <2>3. PhaseInv'
    BY <1>35 DEF ReceivePacketFails, Fail, Failures, Goto, locks, flags,
        library
  <2>4. HandleInv'
    BY <1>35 DEF ReceivePacketFails, Fail, Failures, Goto, locks, flags,
        library
  <2>5. StreamInv'
    BY <1>35 DEF ReceivePacketFails, Fail, Failures, Goto, locks, flags,
        library
  <2>6. EndInv'
    BY <1>35 DEF ReceivePacketFails, Fail, Failures, Goto, locks, flags,
        library
  <2> QED BY <2>1, <2>2, <2>3, <2>4, <2>5, <2>6 DEF IInv
<1>36. ASSUME NEW kind \in EventKinds, ReceiveEvent(kind)
      PROVE  IInv'
  <2>1. TypeOK'
    BY <1>36 DEF ReceiveEvent, locks, flags, library
  <2>2. LockInv'
    BY <1>36 DEF ReceiveEvent, locks, flags, library
  <2>3. PhaseInv'
    BY <1>36 DEF ReceiveEvent, locks, flags, library
  <2>4. HandleInv'
    BY <1>36 DEF ReceiveEvent, locks, flags, library
  <2>5. StreamInv'
    BY <1>36 DEF ReceiveEvent, locks, flags, library
  <2>6. EndInv'
    BY <1>36 DEF ReceiveEvent, locks, flags, library
  <2> QED BY <2>1, <2>2, <2>3, <2>4, <2>5, <2>6 DEF IInv
<1>37. CASE UseAfterFree
  BY <1>37 DEF UseAfterFree, Goto, locks, flags, library
<1>38. CASE Finished
  BY <1>38 DEF Finished, vars, locks, flags, library
<1>39. CASE UNCHANGED vars
  BY <1>39 DEF vars, locks, flags, library
<1> HIDE DEF IInv
<1> QED
  BY <1>1, <1>2, <1>3, <1>4, <1>5, <1>6, <1>7, <1>8, <1>9, <1>10, <1>11,
      <1>12, <1>13, <1>14, <1>15, <1>16, <1>17, <1>18, <1>19, <1>20, <1>21,
      <1>22, <1>23, <1>24, <1>25, <1>26, <1>27, <1>28, <1>29, <1>30, <1>31,
      <1>32, <1>33, <1>34, <1>35, <1>36, <1>37, <1>38, <1>39 DEF Next, Feed,
      AbortOrEos, EventTaskRunner, TearDown, CodecCallsBack

-----------------------------------------------------------------------------
(* The invariant holds of every reachable state.                           *)
THEOREM Invariance == Spec => []IInv
<1>1. IInv /\ [Next]_vars => IInv'
  BY NextIInv
<1> QED  BY <1>1, InitIInv, PTL DEF Spec

(* Every variable of EncodeHandler and of the codec keeps its type.        *)
THEOREM TypeCorrect == Spec => []TypeOK
<1>1. IInv => TypeOK
  BY DEF IInv
<1> QED  BY <1>1, Invariance, PTL

(* ~EncodeHandler destroys the codec instance and frees the memory only    *)
(* when the event thread has ended or never began and both mutexes are     *)
(* free.  A callback of the codec is caught inside, in a packet, an abort  *)
(* or an event, only if the instance was aborted or brings a fatal event:  *)
(* the end of the stream, which the destructor waited for otherwise, came  *)
(* behind every packet.                                                    *)
THEOREM FreedAlone == Spec => []JoinedBeforeFree
<1>1. IInv => JoinedBeforeFree
  <2> SUFFICES ASSUME IInv, codec = "destroyed" \/ pc[Owner] = "gone"
               PROVE  JoinedBeforeFree
    BY DEF JoinedBeforeFree
  <2>1. pc[Owner] = "gone"
    BY DEF IInv, PhaseInv
  <2>2. pc[Loop] \in {"unstarted", "exited"}
    BY <2>1 DEF IInv, PhaseInv
  <2>3. event_mtx = NoThread /\ eos_mutex = NoThread
    BY <2>1, <2>2 DEF IInv, TypeOK, LockInv, HoldsEos
  <2>4. pc[Codec] \in {"idle", "undefined", "FATAL"} \/ codec = "aborted"
    <3>1. CASE codec = "absent"
      BY <3>1 DEF IInv, PhaseInv
    <3>2. CASE codec = "destroyed"
      <4>1. EosQueued /\ pc[Codec] # "crashed"
        BY <3>2 DEF IInv, PhaseInv, EndInv, Threads
      <4> QED BY <4>1 DEF EosQueued, IInv, StreamInv
    <3> QED BY <2>1, <3>1, <3>2 DEF IInv, PhaseInv
  <2> QED BY <2>2, <2>3, <2>4 DEF JoinedBeforeFree
<1> QED  BY <1>1, Invariance, PTL

-----------------------------------------------------------------------------
(* EncodeHandler implements DecodeSession: the first state is a new        *)
(* session, and each step is one of the session's steps or none.  New is   *)
(* Open, a fed frame or end of stream is Accept, AcceptLast or Seal, the   *)
(* codec's packet or corrupt stream is Output, a report is End or          *)
(* ReportAbort, the codec's abort is Abort, and NewFails, the freeing and  *)
(* a crash are Close or Die.                                               *)
LEMMA SessionStep == IInv /\ IInv' /\ [Next]_vars => [Session!Next]_Session!session
<1> SUFFICES ASSUME IInv, IInv', [Next]_vars
             PROVE  Session!Next \/ UNCHANGED <<phase, pending>>
  BY DEF Session!session
<1> USE ThreadAssumption, BoundAssumption, SendSteps
    DEF phase, FreedUnderAbort, EosQueued, IInv, TypeOK, LockInv, HoldsEos, PhaseInv, HandleInv, StreamInv,
        EndInv, Threads, TearSteps, CodecKinds, WaitSteps, FeedsSteps, Inputs,
        Session!Next, Session!Open, Session!Accept, Session!AcceptLast,
        Session!Output, Session!Seal, Session!End, Session!Abort,
        Session!ReportAbort, Session!Close, Session!Die
<1>1. CASE New
  BY <1>1 DEF New, locks
<1>2. CASE NewFails
  BY <1>2 DEF NewFails, Goto, locks, flags, library
<1>3. ASSUME NEW u \in Users, NEW input \in Inputs, SendDataCPU(u, input)
      PROVE  Session!Next \/ UNCHANGED <<phase, pending>>
  BY <1>3 DEF SendDataCPU, Ends, Goto, locks, flags, library
<1>4. ASSUME NEW u \in Users, NEW input \in Inputs, WaitAvailInputBuf(u, input)
      PROVE  Session!Next \/ UNCHANGED <<phase, pending>>
  BY <1>4 DEF WaitAvailInputBuf, CodecHasBuffer, Ends, Goto, locks, library
<1>5. ASSUME NEW u \in Users, NEW input \in Inputs, WaitAvailInputBufFails(u, input)
      PROVE  Session!Next \/ UNCHANGED <<phase, pending>>
  BY <1>5 DEF WaitAvailInputBufFails, Fail, Failures, SendReturn, Goto, locks,
      flags, library
<1>6. ASSUME NEW u \in Users, NEW input \in Inputs, FeedFrame(u, input)
      PROVE  Session!Next \/ UNCHANGED <<phase, pending>>
  BY <1>6 DEF FeedFrame, CodecTakes, Ends, SendReturn, Goto, locks, flags
<1>7. ASSUME NEW u \in Users, NEW input \in Inputs, FeedFrameTimeout(u, input)
      PROVE  Session!Next \/ UNCHANGED <<phase, pending>>
  BY <1>7 DEF FeedFrameTimeout, Fail, Failures, SendReturn, Goto, locks,
      flags, library
<1>8. ASSUME NEW u \in Users, NEW input \in Inputs, FeedFrameThrows(u, input)
      PROVE  Session!Next \/ UNCHANGED <<phase, pending>>
  BY <1>8 DEF FeedFrameThrows, CodecTakes, Fail, Failures, Crash, Goto, locks,
      flags
<1>9. ASSUME NEW u \in Users, AbortCall(u)
      PROVE  Session!Next \/ UNCHANGED <<phase, pending>>
  BY <1>9 DEF AbortCall, Goto, locks, flags, library
<1>10. ASSUME NEW t \in Threads, AbortCheck(t), pc[Owner] # "gone"
      PROVE  Session!Next \/ UNCHANGED <<phase, pending>>
  BY <1>10 DEF AbortCheck, AbortReturn, Goto, locks, flags, library
<1>11. ASSUME NEW t \in Threads, AbortCodec(t), pc[Owner] # "gone"
      PROVE  Session!Next \/ UNCHANGED <<phase, pending>>
  BY <1>11 DEF AbortCodec, Goto, locks, flags
<1>12. ASSUME NEW t \in Threads, AbortNull(t), pc[Owner] # "gone"
      PROVE  Session!Next \/ UNCHANGED <<phase, pending>>
  BY <1>12 DEF AbortNull, Goto, locks, library
<1>13. ASSUME NEW t \in Threads, ReportEos(t), pc[Owner] # "gone"
      PROVE  Session!Next \/ UNCHANGED <<phase, pending>>
  BY <1>13 DEF ReportEos, Goto, locks, flags, library
<1>14. ASSUME NEW t \in Threads, SetGotEos(t), pc[Owner] # "gone"
      PROVE  Session!Next \/ UNCHANGED <<phase, pending>>
  BY <1>14 DEF SetGotEos, AbortReturn, locks, library
<1>15. CASE LoopLock
  BY <1>15 DEF LoopLock, Acquire, Goto, flags, library
<1>16. CASE LoopExit
  BY <1>16 DEF LoopExit, Release, Goto, flags, library
<1>17. CASE LoopTake
  BY <1>17 DEF LoopTake, Release, Goto, flags, library
<1>18. CASE LoopMustWait
  BY <1>18 DEF LoopMustWait, Goto, locks, flags, library
<1>19. CASE LoopBlock
  BY <1>19 DEF LoopBlock, Release, Goto, flags, library
<1>20. CASE TearBegin
  BY <1>20 DEF TearBegin, locks, library
<1>21. CASE TearMustSend
  BY <1>21 DEF TearMustSend, Goto, locks, flags, library
<1>22. CASE TearNeedNotSend
  BY <1>22 DEF TearNeedNotSend, Acquire, Goto, library
<1>23. CASE TearRelock
  BY <1>23 DEF TearRelock, Acquire, Goto, flags, library
<1>24. CASE TearBlock
  BY <1>24 DEF TearBlock, Release, Goto, flags, library
<1>25. CASE TearNotify
  BY <1>25 DEF TearNotify, locks, flags, library
<1>26. CASE TearJoin
  BY <1>26 DEF TearJoin, Goto, locks, flags, library
<1>27. CASE TearFree
  BY <1>27 DEF TearFree, Release, Goto
<1>28. CASE SpuriousWakeup
  BY <1>28 DEF SpuriousWakeup, Goto, locks, flags, library
<1>29. CASE CodecPacket
  BY <1>29 DEF CodecPacket, CodecBegins, Goto, locks, flags
<1>30. CASE CodecCorrupt
  BY <1>30 DEF CodecCorrupt, CodecBegins, Goto, locks, flags
<1>31. CASE CodecEos
  BY <1>31 DEF CodecEos, CodecBegins, Goto, locks, flags
<1>32. CASE CodecFatal
  BY <1>32 DEF CodecFatal, CodecBegins, Fail, Failures, Goto, locks, flags
<1>33. CASE ReceivePacket
  BY <1>33 DEF ReceivePacket, Goto, locks, flags
<1>34. CASE PacketReturn
  BY <1>34 DEF PacketReturn, Goto, locks, flags, library
<1>35. CASE ReceivePacketFails
  BY <1>35 DEF ReceivePacketFails, Fail, Failures, Goto, locks, flags, library
<1>36. ASSUME NEW kind \in EventKinds, ReceiveEvent(kind)
      PROVE  Session!Next \/ UNCHANGED <<phase, pending>>
  BY <1>36 DEF ReceiveEvent, locks, flags, library
<1>37. CASE UseAfterFree
  BY <1>37 DEF UseAfterFree, Goto, locks, flags, library
<1>38. CASE Finished
  BY <1>38 DEF Finished, vars, locks, flags, library
<1>39. CASE UNCHANGED vars
  BY <1>39 DEF vars, locks, flags, library
<1> HIDE DEF phase, FreedUnderAbort, EosQueued, IInv, Session!Next
<1> QED
  BY <1>1, <1>2, <1>3, <1>4, <1>5, <1>6, <1>7, <1>8, <1>9, <1>10, <1>11,
      <1>12, <1>13, <1>14, <1>15, <1>16, <1>17, <1>18, <1>19, <1>20, <1>21,
      <1>22, <1>23, <1>24, <1>25, <1>26, <1>27, <1>28, <1>29, <1>30, <1>31,
      <1>32, <1>33, <1>34, <1>35, <1>36, <1>37, <1>38, <1>39 DEF Next, Feed,
      AbortOrEos, EventTaskRunner, TearDown, CodecCallsBack

(* Every behaviour of the encoder, whatever its threads, is that of one    *)
(* session: packets before the end of the stream, the end before the       *)
(* encoder is gone.                                                        *)
THEOREM SessionRefined == Spec => SessionPromise
<1>1. Init => Session!Init
  BY ThreadAssumption DEF Init, Session!Init, phase, FreedUnderAbort, Threads
<1>2. IInv /\ IInv' /\ [Next]_vars => [Session!Next]_Session!session
  BY SessionStep
<1> QED  BY <1>1, <1>2, Invariance, PTL DEF Spec, SessionPromise, Session!Spec
=============================================================================
