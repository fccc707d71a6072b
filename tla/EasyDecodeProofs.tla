--------------------------- MODULE EasyDecodeProofs ---------------------------
(***************************************************************************)
(* Proofs about EasyDecode for any number of application threads, buffers, *)
(* packets and fatal events, and about VpuTimestamps, which stands for the *)
(* same DecodeHandler's map of timestamps.                                 *)
(***************************************************************************)
EXTENDS EasyDecode, VpuTimestamps, TLAPS

-----------------------------------------------------------------------------
(* The inductive invariant, in parts.                                      *)

(* Who holds a mutex, by the step it stands at.  A dead process may leave  *)
(* a mutex held.                                                           *)
HoldsEos(step) == step \in {"eos_check", "eos_fed", "tear_wait", "tear_notify",
                            "tear_join", "tear_free"}

LockInv ==
  /\ \A u \in Users : HoldsEos(pc[u]) => eos_mtx = u
  /\ \A u \in Users : eos_mtx = u => HoldsEos(pc[u]) \/ pc[u] = "crashed"
  /\ pc[Loop] \in {"test", "blocking"} => event_mtx = Loop
  /\ event_mtx = Loop => pc[Loop] \in {"test", "blocking", "crashed"}

(* The destructor runs alone: before it and from its start, where the      *)
(* other application threads are.                                          *)
PhaseInv ==
  /\ pc[Owner] \in TearSteps \ {"tear_begin"} => destroying
  /\ pc[Owner] \in {"ctor", "init", "tear_begin"} => ~destroying
  /\ destroying \/ pc[Owner] \in {"ctor", "init", "tear_begin"} =>
       \A u \in Users \ {Owner} : pc[u] \in {"outside", "crashed"}
  /\ destroying => pc[Owner] \in TearSteps \union {"eos_check", "eos_fed", "crashed"}
  /\ \A t \in Threads : pc[t] = "crashed" => codec = "dead"
  /\ pc[Owner] \in {"tear_free", "gone"} => pc[Loop] = "exited"
  /\ codec = "dead" => \A t \in Threads : pc[t] = "crashed"
  /\ codec = "destroyed" => pc[Owner] = "gone"
  /\ codec = "absent" =>
       pc[Owner] \in {"ctor", "init"} \union (TearSteps \ {"tear_feed"})
  /\ pc[Owner] \in {"ctor", "init"} => codec = "absent"

(* Before the application can use the decoder the event thread finds       *)
(* nothing to do.                                                          *)
StartInv ==
  /\ pc[Owner] = "ctor" => pc[Loop] = "unstarted"
  /\ pc[Owner] \in {"ctor", "init"} => ~got_eos
  /\ codec = "absent" =>
       /\ pc[Codec] = "idle" /\ pending = 0
       /\ event_queue = <<>> /\ eos_in = 0 /\ eos_out = 0 /\ eos_callbacks = 0
       /\ pc[Loop] \in {"unstarted", "lock_event", "test", "blocking", "blocked",
                        "exited"}

(* The handle and the instance it refers to.                               *)
HandleInv ==
  /\ codec \in {"destroyed", "absent"} => ~handle
  /\ codec = "running" => handle
  /\ \A t \in Threads : pc[t] = "abort_null" => codec = "aborted"
  /\ codec = "aborted" /\ handle => \E t \in Threads : pc[t] = "abort_null"
  /\ \A t \in Threads : pc[t] = "abort_report" => ~handle
  /\ \A u \in Users : pc[u] = "set_got_eos" => ~handle
  /\ codec = "aborted" =>
       eos_callbacks >= 1 \/ \E t \in Threads : pc[t] \in {"abort_null", "abort_report"}

(* The end of the stream has come out of the codec and ReceiveEvent has    *)
(* queued it.                                                              *)
EosQueued == eos_out >= 1 /\ pc[Codec] # "EOS"

(* One end of stream goes in and comes out behind every packet.            *)
StreamInv ==
  /\ send_eos => eos_in = 1
  /\ ~send_eos => \/ eos_in = 0
                  \/ eos_in = 1 /\ \E u \in Users : pc[u] = "eos_fed"
  /\ \A u \in Users : pc[u] = "eos_fed" => ~send_eos /\ eos_in = 1
  /\ eos_out <= eos_in
  /\ eos_out >= 1 => pending = 0
  /\ pc[Codec] = "recv_frame" => pending >= 1
  /\ pc[Codec] = "recv_frame" /\ codec = "running" => held < OutBufs
  /\ pc[Codec] = "EOS" => eos_out >= 1
  /\ eos_out >= 1 => pc[Codec] \in {"idle", "EOS", "FATAL", "undefined", "crashed"}
  /\ \A i \in DOMAIN event_queue : event_queue[i] = "EOS" => EosQueued
  /\ pc[Loop] = "recv_eos" => EosQueued
  /\ pc[Loop] = "set_got_eos" /\ handle => EosQueued
  /\ pc[Loop] = "set_got_eos" => eos_callbacks >= 1

(* A report, and got_eos_, mean that the end came out or that there is no  *)
(* instance left.                                                          *)
EndInv ==
  /\ eos_callbacks >= 1 /\ handle => EosQueued
  /\ got_eos /\ handle => EosQueued /\ eos_callbacks >= 1
  /\ pc[Loop] = "exited" => got_eos
  /\ pc[Owner] \in {"tear_notify", "tear_join", "tear_free", "gone"} => got_eos
  /\ codec = "destroyed" => pending = 0 /\ eos_out = 1 /\ eos_callbacks >= 1
  /\ pc[Owner] = "gone" =>
       pc[Codec] \in {"idle", "undefined", "FATAL"} \/ codec = "aborted"

IInv == TypeOK /\ LockInv /\ PhaseInv /\ StartInv /\ HandleInv /\ StreamInv /\ EndInv

(* The constructor's first state satisfies every part. *)
LEMMA InitIInv == Init => IInv
<1> SUFFICES ASSUME Init PROVE IInv
  OBVIOUS
<1> USE ThreadAssumption, BoundAssumption DEF Init, Threads
<1>1. TypeOK
  <2>1. /\ pc \in [Threads -> UserSteps \union LoopSteps \union CodecSteps]
        /\ pc[Loop] \in LoopSteps /\ pc[Codec] \in CodecSteps
        /\ \A u \in Users : pc[u] \in UserSteps
        /\ \A u \in Users \ {Owner} : pc[u] \notin TearSteps
    BY DEF UserSteps, LoopSteps, CodecSteps, AbortSteps, FeedSteps, TearSteps
  <2>2. event_queue \in Seq(EventKinds)
    OBVIOUS
  <2>3. /\ handle \in BOOLEAN /\ send_eos \in BOOLEAN /\ got_eos \in BOOLEAN
        /\ destroying \in BOOLEAN
    OBVIOUS
  <2>4. /\ packets_count \in Nat /\ pending \in Nat /\ held \in 0..OutBufs
        /\ eos_in \in Nat /\ eos_out \in Nat /\ fatal \in 0..MaxFatal
        /\ eos_callbacks \in Nat
    OBVIOUS
  <2>5. /\ event_mtx \in {NoThread, Loop} /\ eos_mtx \in Users \union {NoThread}
        /\ status \in StatusKinds /\ codec \in CodecKinds
    BY DEF StatusKinds, CodecKinds
  <2>6. QED  BY <2>1, <2>2, <2>3, <2>4, <2>5 DEF TypeOK
<1>2. LockInv /\ PhaseInv /\ StartInv /\ HandleInv /\ StreamInv /\ EndInv
  <2>1. /\ pc[Codec] = "idle" /\ pc[Loop] = "unstarted" /\ pc[Owner] = "ctor"
        /\ \A t \in Threads : pc[t] \in {"unstarted", "idle", "ctor", "outside"}
        /\ \A u \in Users \ {Owner} : pc[u] = "outside"
    OBVIOUS
  <2>2. LockInv /\ PhaseInv
    BY <2>1 DEF LockInv, HoldsEos, PhaseInv, TearSteps
  <2>3. StartInv /\ HandleInv
    BY <2>1 DEF StartInv, HandleInv
  <2>4. DOMAIN event_queue = {} /\ ~(eos_out >= 1) /\ ~(eos_callbacks >= 1)
    OBVIOUS
  <2>5. StreamInv
    <3>1. /\ eos_out = 0 /\ eos_in = 0 /\ ~send_eos
          /\ \A u \in Users : pc[u] # "eos_fed"
      OBVIOUS
    <3> HIDE DEF Init
    <3>2. QED  BY <2>1, <2>4, <3>1 DEF StreamInv
  <2>6. EndInv
    BY <2>1, <2>4 DEF EndInv
  <2>7. QED  BY <2>2, <2>3, <2>5, <2>6
<1>3. QED  BY <1>1, <1>2 DEF IInv

(* Every step of the application, of the event thread, of the destructor   *)
(* and of the codec preserves the invariant: one step of the proof for     *)
(* each of them.                                                           *)
LEMMA NextIInv == IInv /\ [Next]_vars => IInv'
<1> SUFFICES ASSUME IInv, [Next]_vars PROVE IInv'
  OBVIOUS
<1> USE ThreadAssumption, BoundAssumption DEF IInv, TypeOK, LockInv, PhaseInv,
        StartInv, HandleInv, StreamInv, EndInv, HoldsEos, Threads, UserSteps,
        LoopSteps, AbortSteps, FeedSteps, TearSteps, FrameSteps, CodecSteps,
        StatusKinds, CodecKinds, EventKinds, EosQueued
<1>1. CASE StartEventLoop
  BY <1>1 DEF StartEventLoop, flags, locks, library
<1>2. CASE InitDecode
  BY <1>2 DEF InitDecode, locks
<1>3. CASE InitDecodeThrows
  <2>1. TypeOK'
    BY <1>3 DEF InitDecodeThrows, Goto, locks
  <2>2. LockInv'
    BY <1>3 DEF InitDecodeThrows, Goto, locks
  <2>3. PhaseInv'
    BY <1>3 DEF InitDecodeThrows, Goto, locks
  <2>4. StartInv'
    BY <1>3 DEF InitDecodeThrows, Goto, locks
  <2>5. HandleInv'
    BY <1>3 DEF InitDecodeThrows, Goto, locks
  <2>6. StreamInv'
    BY <1>3 DEF InitDecodeThrows, Goto, locks
  <2>7. EndInv'
    BY <1>3 DEF InitDecodeThrows, Goto, locks
  <2>8. QED  BY <2>1, <2>2, <2>3, <2>4, <2>5, <2>6, <2>7 DEF IInv
<1>4. ASSUME NEW u \in Users, FeedDataCheck(u)
      PROVE  IInv'
  BY <1>4 DEF FeedDataCheck, Goto, flags, locks, library
<1>5. ASSUME NEW u \in Users, FeedVideoData(u)
      PROVE  IInv'
  BY <1>5 DEF FeedVideoData, CodecTakesData, CodecTakesEos, Goto, flags,
      locks
<1>6. ASSUME NEW u \in Users, FeedEosCall(u)
      PROVE  IInv'
  BY <1>6 DEF FeedEosCall, Goto, Acquire, flags, library
<1>7. ASSUME NEW u \in Users, FeedEosAgain(u)
      PROVE  IInv'
  BY <1>7 DEF FeedEosAgain, FeedEosReturn, Goto, Release, flags, library
<1>8. ASSUME NEW u \in Users, FeedEosAccepted(u)
      PROVE  IInv'
  BY <1>8 DEF FeedEosAccepted, CodecTakesEos, Goto, flags, locks
<1>9. ASSUME NEW u \in Users, FeedEosSent(u)
      PROVE  IInv'
  BY <1>9 DEF FeedEosSent, FeedEosReturn, Goto, Release, library
<1>10. ASSUME NEW u \in Users, FeedEosThrows(u)
      PROVE  IInv'
  BY <1>10 DEF FeedEosThrows, CodecTakesEos, Goto, Release, flags
<1>11. ASSUME NEW u \in Users, Pause(u)
      PROVE  IInv'
  BY <1>11 DEF Pause, locks, library
<1>12. ASSUME NEW u \in Users, Resume(u)
      PROVE  IInv'
  BY <1>12 DEF Resume, locks, library
<1>13. ASSUME NEW t \in Threads, AbortCall(t)
      PROVE  IInv'
  BY <1>13 DEF AbortCall, Goto, flags, locks, library
<1>14. ASSUME NEW t \in Threads, AbortCodec(t)
      PROVE  IInv'
  <2>1. TypeOK'
    BY <1>14 DEF AbortCodec, Goto, flags, locks
  <2>2. LockInv'
    BY <1>14 DEF AbortCodec, Goto, flags, locks
  <2>3. PhaseInv'
    BY <1>14 DEF AbortCodec, Goto, flags, locks
  <2>4. StartInv'
    BY <1>14 DEF AbortCodec, Goto, flags, locks
  <2>5. HandleInv'
    BY <1>14 DEF AbortCodec, Goto, flags, locks
  <2>6. StreamInv'
    BY <1>14 DEF AbortCodec, Goto, flags, locks
  <2>7. EndInv'
    BY <1>14 DEF AbortCodec, Goto, flags, locks
  <2>8. QED  BY <2>1, <2>2, <2>3, <2>4, <2>5, <2>6, <2>7 DEF IInv
<1>15. ASSUME NEW t \in Threads, AbortNull(t)
      PROVE  IInv'
  <2>1. TypeOK'
    <3>1. pc' = [pc EXCEPT ![t] = "abort_report"]
      BY <1>15 DEF AbortNull, Goto
    <3>2. /\ pc' \in [Threads -> UserSteps \union LoopSteps \union CodecSteps]
          /\ pc'[Loop] \in LoopSteps /\ pc'[Codec] \in CodecSteps
          /\ \A u \in Users : pc'[u] \in UserSteps
          /\ \A u \in Users \ {Owner} : pc'[u] \notin TearSteps
      BY <3>1, <1>15 DEF AbortNull
    <3>3. handle' \in BOOLEAN
      BY <1>15 DEF AbortNull
    <3>4. UNCHANGED <<event_mtx, eos_mtx, event_queue, status, send_eos, got_eos,
                      destroying, packets_count, codec, pending, held, eos_in,
                      eos_out, fatal, eos_callbacks>>
      BY <1>15 DEF AbortNull, locks, library
    <3>5. /\ event_mtx' \in {NoThread, Loop}
          /\ eos_mtx' \in Users \union {NoThread}
          /\ event_queue' \in Seq(EventKinds)
          /\ status' \in StatusKinds
          /\ send_eos' \in BOOLEAN /\ got_eos' \in BOOLEAN
          /\ destroying' \in BOOLEAN
      BY <3>4
    <3>6. /\ packets_count' \in Nat /\ pending' \in Nat
          /\ held' \in 0..OutBufs /\ codec' \in CodecKinds
          /\ eos_in' \in Nat /\ eos_out' \in Nat
          /\ fatal' \in 0..MaxFatal /\ eos_callbacks' \in Nat
      BY <3>4
    <3> QED BY <3>2, <3>3, <3>5, <3>6 DEF TypeOK
  <2>2. LockInv'
    BY <1>15 DEF AbortNull, Goto, locks, library
  <2>3. PhaseInv'
    BY <1>15 DEF AbortNull, Goto, locks, library
  <2>4. StartInv'
    BY <1>15 DEF AbortNull, Goto, locks, library
  <2>5. HandleInv'
    BY <1>15 DEF AbortNull, Goto, locks, library
  <2>6. StreamInv'
    BY <1>15 DEF AbortNull, Goto, locks, library
  <2>7. EndInv'
    BY <1>15 DEF AbortNull, Goto, locks, library
  <2>8. QED  BY <2>1, <2>2, <2>3, <2>4, <2>5, <2>6, <2>7 DEF IInv
<1>16. ASSUME NEW t \in Threads, ReportEos(t)
      PROVE  IInv'
  BY <1>16 DEF ReportEos, Goto, locks, library
<1>17. ASSUME NEW t \in Threads, SetGotEos(t)
      PROVE  IInv'
  BY <1>17 DEF SetGotEos, locks, library
<1>18. CASE ReleaseBuffer
  BY <1>18 DEF ReleaseBuffer, flags, locks
<1>19. CASE LoopLock
  BY <1>19 DEF LoopLock, Goto, Acquire, flags, library
<1>20. CASE LoopExit
  BY <1>20 DEF LoopExit, Goto, Release, flags, library
<1>21. CASE LoopTake
  BY <1>21 DEF LoopTake, Goto, Release, flags, library
<1>22. CASE LoopMustWait
  BY <1>22 DEF LoopMustWait, Goto, flags, locks, library
<1>23. CASE LoopBlock
  BY <1>23 DEF LoopBlock, Goto, Release, flags, library
<1>24. CASE TearBegin
  <2>1. TypeOK'
    BY <1>24 DEF TearBegin, locks, library
  <2>2. LockInv'
    BY <1>24 DEF TearBegin, locks, library
  <2>3. PhaseInv'
    BY <1>24 DEF TearBegin, locks, library
  <2>4. StartInv'
    BY <1>24 DEF TearBegin, locks, library
  <2>5. HandleInv'
    BY <1>24 DEF TearBegin, locks, library
  <2>6. StreamInv'
    BY <1>24 DEF TearBegin, locks, library
  <2>7. EndInv'
    BY <1>24 DEF TearBegin, locks, library
  <2>8. QED  BY <2>1, <2>2, <2>3, <2>4, <2>5, <2>6, <2>7 DEF IInv
<1>25. CASE TearMustFeed
  BY <1>25 DEF TearMustFeed, Goto, flags, locks, library
<1>26. CASE TearNeedNotFeed
  BY <1>26 DEF TearNeedNotFeed, Goto, Acquire, library
<1>27. CASE TearRelock
  BY <1>27 DEF TearRelock, Goto, Acquire, flags, library
<1>28. CASE TearBlock
  BY <1>28 DEF TearBlock, Goto, Release, flags, library
<1>29. CASE TearWaitOver
  BY <1>29 DEF TearWaitOver, Goto, flags, locks, library
<1>30. CASE TearNotify
  BY <1>30 DEF TearNotify, flags, locks, library
<1>31. CASE TearJoin
  BY <1>31 DEF TearJoin, Goto, flags, locks, library
<1>32. CASE TearFree
  <2>1. TypeOK'
    BY <1>32 DEF TearFree, Goto, Release
  <2>2. LockInv'
    BY <1>32 DEF TearFree, Goto, Release
  <2>3. PhaseInv'
    BY <1>32 DEF TearFree, Goto, Release
  <2>4. StartInv'
    BY <1>32 DEF TearFree, Goto, Release
  <2>5. HandleInv'
    BY <1>32 DEF TearFree, Goto, Release
  <2>6. StreamInv'
    BY <1>32 DEF TearFree, Goto, Release
  <2>7. EndInv'
    BY <1>32 DEF TearFree, Goto, Release
  <2>8. QED  BY <2>1, <2>2, <2>3, <2>4, <2>5, <2>6, <2>7 DEF IInv
<1>33. CASE SpuriousWakeup
  BY <1>33 DEF SpuriousWakeup, Goto, flags, locks, library
<1>34. CASE CodecFrame
  BY <1>34 DEF CodecFrame, CodecBegins, Goto, flags, locks
<1>35. CASE CodecCorrupt
  BY <1>35 DEF CodecCorrupt, CodecBegins, Goto, flags, locks
<1>36. CASE CodecEos
  <2>1. TypeOK'
    BY <1>36 DEF CodecEos, CodecBegins, Goto, flags, locks
  <2>2. LockInv'
    BY <1>36 DEF CodecEos, CodecBegins, Goto, flags, locks
  <2>3. PhaseInv'
    BY <1>36 DEF CodecEos, CodecBegins, Goto, flags, locks
  <2>4. StartInv'
    BY <1>36 DEF CodecEos, CodecBegins, Goto, flags, locks
  <2>5. HandleInv'
    BY <1>36 DEF CodecEos, CodecBegins, Goto, flags, locks
  <2>6. StreamInv'
    BY <1>36 DEF CodecEos, CodecBegins, Goto, flags, locks
  <2>7. EndInv'
    BY <1>36 DEF CodecEos, CodecBegins, Goto, flags, locks
  <2>8. QED  BY <2>1, <2>2, <2>3, <2>4, <2>5, <2>6, <2>7 DEF IInv
<1>37. CASE CodecFatal
  BY <1>37 DEF CodecFatal, CodecBegins, Goto, flags, locks
<1>38. CASE FrameEmpty
  <2>1. TypeOK'
    BY <1>38 DEF FrameEmpty, Goto, flags, locks
  <2>2. LockInv'
    BY <1>38 DEF FrameEmpty, Goto, flags, locks
  <2>3. PhaseInv'
    BY <1>38 DEF FrameEmpty, Goto, flags, locks
  <2>4. StartInv'
    BY <1>38 DEF FrameEmpty, Goto, flags, locks
  <2>5. HandleInv'
    BY <1>38 DEF FrameEmpty, Goto, flags, locks
  <2>6. StreamInv'
    BY <1>38 DEF FrameEmpty, Goto, flags, locks
  <2>7. EndInv'
    BY <1>38 DEF FrameEmpty, Goto, flags, locks
  <2>8. QED  BY <2>1, <2>2, <2>3, <2>4, <2>5, <2>6, <2>7 DEF IInv
<1>39. CASE FrameCallback
  <2>1. TypeOK'
    BY <1>39 DEF FrameCallback, Goto, flags, locks
  <2>2. LockInv'
    BY <1>39 DEF FrameCallback, Goto, flags, locks
  <2>3. PhaseInv'
    BY <1>39 DEF FrameCallback, Goto, flags, locks
  <2>4. StartInv'
    BY <1>39 DEF FrameCallback, Goto, flags, locks
  <2>5. HandleInv'
    BY <1>39 DEF FrameCallback, Goto, flags, locks
  <2>6. StreamInv'
    BY <1>39 DEF FrameCallback, Goto, flags, locks
  <2>7. EndInv'
    BY <1>39 DEF FrameCallback, Goto, flags, locks
  <2>8. QED  BY <2>1, <2>2, <2>3, <2>4, <2>5, <2>6, <2>7 DEF IInv
<1>40. CASE FrameReturn
  BY <1>40 DEF FrameReturn, Goto, flags, locks, library
<1>41. ASSUME NEW kind \in EventKinds, ReceiveEvent(kind)
      PROVE  IInv'
  <2>1. TypeOK'
    BY <1>41 DEF ReceiveEvent, NotifyLoop, flags, locks, library
  <2>2. LockInv'
    BY <1>41 DEF ReceiveEvent, NotifyLoop, flags, locks, library
  <2>3. PhaseInv'
    BY <1>41 DEF ReceiveEvent, NotifyLoop, flags, locks, library
  <2>4. StartInv'
    BY <1>41 DEF ReceiveEvent, NotifyLoop, flags, locks, library
  <2>5. HandleInv'
    BY <1>41 DEF ReceiveEvent, NotifyLoop, flags, locks, library
  <2>6. StreamInv'
    BY <1>41 DEF ReceiveEvent, NotifyLoop, flags, locks, library
  <2>7. EndInv'
    BY <1>41 DEF ReceiveEvent, NotifyLoop, flags, locks, library
  <2>8. QED  BY <2>1, <2>2, <2>3, <2>4, <2>5, <2>6, <2>7 DEF IInv
<1>42. CASE UseAfterFree
  BY <1>42 DEF UseAfterFree, Goto, flags, locks, library
<1>43. CASE Finished
  BY <1>43 DEF Finished, vars, flags, locks, library
<1>44. CASE UNCHANGED vars
  BY <1>44 DEF vars, locks, flags, library
<1> HIDE DEF IInv, TypeOK, LockInv, PhaseInv, StartInv, HandleInv, StreamInv,
        EndInv, HoldsEos, Threads, UserSteps, LoopSteps, AbortSteps, FeedSteps,
        TearSteps, FrameSteps, CodecSteps, StatusKinds, CodecKinds, EventKinds,
        EosQueued
<1>45. ASSUME NEW u \in Users, Feed(u)
       PROVE  IInv'
  BY <1>4, <1>5, <1>6, <1>7, <1>8, <1>9, <1>10, <1>45 DEF Feed
<1>46. ASSUME NEW t \in Threads, Abort(t)
       PROVE  IInv'
  BY <1>13, <1>14, <1>15, <1>16, <1>17, <1>46 DEF Abort
<1>47. CASE EventTaskRunner
  BY <1>19, <1>20, <1>21, <1>22, <1>23, <1>47 DEF EventTaskRunner
<1>48. CASE TearDown
  BY <1>24, <1>25, <1>26, <1>27, <1>28, <1>29, <1>30, <1>31, <1>32, <1>48
     DEF TearDown
<1>49. CASE CodecCallsBack
  BY <1>34, <1>35, <1>36, <1>37, <1>38, <1>39, <1>40, <1>41, <1>42, <1>49
     DEF CodecCallsBack
<1>50. QED
  BY <1>1, <1>2, <1>3, <1>11, <1>12, <1>18, <1>33, <1>43, <1>44, <1>45, <1>46,
     <1>47, <1>48, <1>49 DEF Next

(* The strengthened invariant of EasyDecode holds in every reachable state. *)
THEOREM Invariance == Spec => []IInv
<1>1. Init => IInv  BY InitIInv
<1>2. IInv /\ [Next]_vars => IInv'  BY NextIInv
<1>3. QED  BY <1>1, <1>2, PTL DEF Spec

(* The state of a DecodeHandler is always well formed. *)
THEOREM TypeCorrect == Spec => []TypeOK
  BY Invariance, PTL DEF IInv

(* However the calls of FeedEos overlap, the codec gets one end of stream: *)
(* send_eos_ and the codec's input change together under eos_mtx_.         *)
THEOREM OneEndOfStream == Spec => []EosFedOnce
<1>1. IInv => EosFedOnce
  BY DEF IInv, TypeOK, StreamInv, EosFedOnce
<1>2. QED  BY <1>1, Invariance, PTL

(* The destructor frees the handler when the event thread has left and no  *)
(* call of the application is inside; a callback of the codec is caught    *)
(* only if the codec was aborted or brings a fatal event.  The end of the  *)
(* stream, which the destructor waited for otherwise, came behind every    *)
(* frame.                                                                  *)
THEOREM FreedAlone == Spec => []JoinedBeforeFree
<1>1. IInv => JoinedBeforeFree
  <2> SUFFICES ASSUME IInv, codec = "destroyed" \/ pc[Owner] = "gone"
               PROVE  JoinedBeforeFree
    BY DEF JoinedBeforeFree
  <2>1. pc[Owner] = "gone" /\ pc[Loop] = "exited" /\ destroying
    BY DEF IInv, PhaseInv, TearSteps
  <2>2. \A t \in Threads : pc[t] # "crashed"
    BY <2>1, ThreadAssumption DEF IInv, PhaseInv, Threads
  <2>3. \A u \in Users \ {Owner} : pc[u] = "outside"
    BY <2>1, <2>2 DEF IInv, PhaseInv, Threads
  <2>4. event_mtx = NoThread
    BY <2>1 DEF IInv, TypeOK, LockInv
  <2>5. eos_mtx = NoThread
    BY <2>1, <2>2, <2>3, ThreadAssumption DEF IInv, TypeOK, LockInv, HoldsEos, Threads
  <2>6. pc[Codec] \in {"idle", "undefined", "FATAL"} \/ codec = "aborted"
    BY <2>1 DEF IInv, EndInv
  <2>7. QED  BY <2>1, <2>3, <2>4, <2>5, <2>6 DEF JoinedBeforeFree
<1>2. QED  BY <1>1, Invariance, PTL

(* The eos workaround of the destructor drains the codec before it is      *)
(* destroyed.                                                              *)
THEOREM Drained == Spec => []DrainedBeforeDestroy
<1>1. IInv => DrainedBeforeDestroy
  BY DEF IInv, EndInv, DrainedBeforeDestroy
<1>2. QED  BY <1>1, Invariance, PTL

(* Nobody destroys a decoder without having been told of its end.          *)
THEOREM Told == Spec => []ToldBeforeGone
<1>1. IInv => ToldBeforeGone
  <2> SUFFICES ASSUME IInv, pc[Owner] = "gone", codec # "absent"
               PROVE  eos_callbacks >= 1
    BY DEF ToldBeforeGone
  <2>1. pc[Loop] = "exited" /\ got_eos /\ destroying
    BY DEF IInv, PhaseInv, EndInv, TearSteps
  <2>2. \A t \in Threads : pc[t] \notin {"abort_null", "abort_report"}
    BY <2>1 DEF IInv, TypeOK, CodecSteps, FrameSteps, EventKinds, PhaseInv, Threads
  <2>3. codec # "dead"
    BY ThreadAssumption DEF IInv, PhaseInv, Threads
  <2>4. QED
    BY <2>1, <2>2, <2>3 DEF IInv, TypeOK, HandleInv, EndInv, CodecKinds
<1>2. QED  BY <1>1, Invariance, PTL

-----------------------------------------------------------------------------
(* Pause and Resume compare and exchange, so the end they race with stays. *)
THEOREM EndIsFinal == Spec => StatusEnds
<1>1. ASSUME [Next]_vars
      PROVE  [(status \in {"EOS", "STOP"}) => (status' \in {"EOS", "STOP"})]_status
  <2> USE <1>1
  <2>1. CASE \E u \in Users : Feed(u)
    BY <2>1 DEF Feed, FeedDataCheck, Goto, flags, locks, library,
        FeedVideoData, CodecTakesData, CodecTakesEos, FeedEosCall, Acquire,
        FeedEosAgain, FeedEosReturn, Release, FeedEosAccepted, FeedEosSent,
        FeedEosThrows
  <2>2. CASE \E u \in Users : Pause(u) \/ Resume(u)
    BY <2>2 DEF Pause, Resume
  <2>3. CASE \E t \in Threads : Abort(t)
    BY <2>3 DEF Abort, AbortCall, Goto, flags, locks, library, AbortCodec,
        AbortNull, ReportEos, SetGotEos
  <2>4. CASE TearDown
    BY <2>4 DEF TearDown, TearBegin, locks, library, TearMustFeed, Goto,
        flags, TearNeedNotFeed, Acquire, TearRelock, TearBlock, Release,
        TearWaitOver, TearNotify, TearJoin, TearFree
  <2>5. CASE EventTaskRunner
    BY <2>5 DEF EventTaskRunner, LoopLock, Goto, Acquire, flags, library,
        LoopExit, Release, LoopTake, LoopMustWait, locks, LoopBlock
  <2>6. CASE \/ StartEventLoop \/ InitDecode \/ InitDecodeThrows \/ ReleaseBuffer
             \/ SpuriousWakeup \/ CodecCallsBack \/ Finished \/ UNCHANGED vars
    BY <2>6 DEF CodecCallsBack, StartEventLoop, flags, locks, library, InitDecode,
        InitDecodeThrows, Goto, ReleaseBuffer, SpuriousWakeup, Finished, vars,
        CodecBegins, CodecFrame, CodecCorrupt, CodecEos, CodecFatal, FrameEmpty,
        FrameCallback, FrameReturn, ReceiveEvent, NotifyLoop, UseAfterFree
  <2>7. QED  BY <2>1, <2>2, <2>3, <2>4, <2>5, <2>6 DEF Next
<1>2. QED  BY <1>1, PTL DEF Spec, StatusEnds

-----------------------------------------------------------------------------
(* DecodeHandler implements DecodeSession: the first state is a new        *)
(* session, and each step is one of the session's steps or none.  The      *)
(* steps that matter are the creation (Open), the accepted packets and the *)
(* end of stream (Accept, Seal), the codec's output (Output), the report   *)
(* of the end (End, ReportAbort), the abort (Abort) and the two ways out   *)
(* (Close, Die).                                                           *)
LEMMA SessionStep == IInv /\ IInv' /\ [Next]_vars => [Session!Next]_Session!session
<1> SUFFICES ASSUME IInv, IInv', [Next]_vars
             PROVE  Session!Next \/ UNCHANGED <<phase, pending>>
  BY DEF Session!session
<1> USE ThreadAssumption, BoundAssumption DEF phase, IInv, TypeOK, PhaseInv,
        StartInv, HandleInv, StreamInv, EndInv, EosQueued, Threads, TearSteps, CodecKinds
<1>1. CASE StartEventLoop
  BY <1>1 DEF StartEventLoop, flags, locks, library, Session!Next,
      Session!Open, Session!Accept, Session!Output, Session!Seal,
      Session!End, Session!Abort, Session!ReportAbort, Session!Close,
      Session!Die
<1>2. CASE InitDecode
  BY <1>2 DEF InitDecode, locks, Session!Next, Session!Open, Session!Accept,
      Session!Output, Session!Seal, Session!End, Session!Abort,
      Session!ReportAbort, Session!Close, Session!Die
<1>3. CASE InitDecodeThrows
  BY <1>3 DEF InitDecodeThrows, Goto, locks, Session!Next, Session!Open,
      Session!Accept, Session!Output, Session!Seal, Session!End,
      Session!Abort, Session!ReportAbort, Session!Close, Session!Die
<1>4. ASSUME NEW u \in Users, FeedDataCheck(u)
      PROVE  Session!Next \/ UNCHANGED <<phase, pending>>
  BY <1>4 DEF FeedDataCheck, Goto, flags, locks, library, Session!Next,
      Session!Open, Session!Accept, Session!Output, Session!Seal,
      Session!End, Session!Abort, Session!ReportAbort, Session!Close,
      Session!Die
<1>5. ASSUME NEW u \in Users, FeedVideoData(u)
      PROVE  Session!Next \/ UNCHANGED <<phase, pending>>
  BY <1>5 DEF FeedVideoData, CodecTakesData, CodecTakesEos, Goto, flags,
      locks, Session!Next, Session!Open, Session!Accept, Session!Output,
      Session!Seal, Session!End, Session!Abort, Session!ReportAbort,
      Session!Close, Session!Die
<1>6. ASSUME NEW u \in Users, FeedEosCall(u)
      PROVE  Session!Next \/ UNCHANGED <<phase, pending>>
  BY <1>6 DEF FeedEosCall, Goto, Acquire, flags, library, Session!Next,
      Session!Open, Session!Accept, Session!Output, Session!Seal,
      Session!End, Session!Abort, Session!ReportAbort, Session!Close,
      Session!Die
<1>7. ASSUME NEW u \in Users, FeedEosAgain(u)
      PROVE  Session!Next \/ UNCHANGED <<phase, pending>>
  BY <1>7 DEF FeedEosAgain, FeedEosReturn, Goto, Release, flags, library,
      Session!Next, Session!Open, Session!Accept, Session!Output,
      Session!Seal, Session!End, Session!Abort, Session!ReportAbort,
      Session!Close, Session!Die
<1>8. ASSUME NEW u \in Users, FeedEosAccepted(u)
      PROVE  Session!Next \/ UNCHANGED <<phase, pending>>
  BY <1>8 DEF FeedEosAccepted, CodecTakesEos, Goto, flags, locks,
      Session!Next, Session!Open, Session!Accept, Session!Output,
      Session!Seal, Session!End, Session!Abort, Session!ReportAbort,
      Session!Close, Session!Die
<1>9. ASSUME NEW u \in Users, FeedEosSent(u)
      PROVE  Session!Next \/ UNCHANGED <<phase, pending>>
  BY <1>9 DEF FeedEosSent, FeedEosReturn, Goto, Release, library,
      Session!Next, Session!Open, Session!Accept, Session!Output,
      Session!Seal, Session!End, Session!Abort, Session!ReportAbort,
      Session!Close, Session!Die
<1>10. ASSUME NEW u \in Users, FeedEosThrows(u)
      PROVE  Session!Next \/ UNCHANGED <<phase, pending>>
  BY <1>10 DEF FeedEosThrows, CodecTakesEos, Goto, Release, flags,
      Session!Next, Session!Open, Session!Accept, Session!Output,
      Session!Seal, Session!End, Session!Abort, Session!ReportAbort,
      Session!Close, Session!Die
<1>11. ASSUME NEW u \in Users, Pause(u)
      PROVE  Session!Next \/ UNCHANGED <<phase, pending>>
  BY <1>11 DEF Pause, locks, library, Session!Next, Session!Open,
      Session!Accept, Session!Output, Session!Seal, Session!End,
      Session!Abort, Session!ReportAbort, Session!Close, Session!Die
<1>12. ASSUME NEW u \in Users, Resume(u)
      PROVE  Session!Next \/ UNCHANGED <<phase, pending>>
  BY <1>12 DEF Resume, locks, library, Session!Next, Session!Open,
      Session!Accept, Session!Output, Session!Seal, Session!End,
      Session!Abort, Session!ReportAbort, Session!Close, Session!Die
<1>13. ASSUME NEW t \in Threads, AbortCall(t)
      PROVE  Session!Next \/ UNCHANGED <<phase, pending>>
  BY <1>13 DEF AbortCall, Goto, flags, locks, library, Session!Next,
      Session!Open, Session!Accept, Session!Output, Session!Seal,
      Session!End, Session!Abort, Session!ReportAbort, Session!Close,
      Session!Die
<1>14. ASSUME NEW t \in Threads, AbortCodec(t)
      PROVE  Session!Next \/ UNCHANGED <<phase, pending>>
  BY <1>14 DEF AbortCodec, Goto, flags, locks, Session!Next, Session!Open,
      Session!Accept, Session!Output, Session!Seal, Session!End,
      Session!Abort, Session!ReportAbort, Session!Close, Session!Die
<1>15. ASSUME NEW t \in Threads, AbortNull(t)
      PROVE  Session!Next \/ UNCHANGED <<phase, pending>>
  BY <1>15 DEF AbortNull, Goto, locks, library, Session!Next, Session!Open,
      Session!Accept, Session!Output, Session!Seal, Session!End,
      Session!Abort, Session!ReportAbort, Session!Close, Session!Die
<1>16. ASSUME NEW t \in Threads, ReportEos(t)
      PROVE  Session!Next \/ UNCHANGED <<phase, pending>>
  BY <1>16 DEF ReportEos, Goto, locks, library, Session!Next, Session!Open,
      Session!Accept, Session!Output, Session!Seal, Session!End,
      Session!Abort, Session!ReportAbort, Session!Close, Session!Die
<1>17. ASSUME NEW t \in Threads, SetGotEos(t)
      PROVE  Session!Next \/ UNCHANGED <<phase, pending>>
  BY <1>17 DEF SetGotEos, locks, library, Session!Next, Session!Open,
      Session!Accept, Session!Output, Session!Seal, Session!End,
      Session!Abort, Session!ReportAbort, Session!Close, Session!Die
<1>18. CASE ReleaseBuffer
  BY <1>18 DEF ReleaseBuffer, flags, locks, Session!Next, Session!Open,
      Session!Accept, Session!Output, Session!Seal, Session!End,
      Session!Abort, Session!ReportAbort, Session!Close, Session!Die
<1>19. CASE LoopLock
  BY <1>19 DEF LoopLock, Goto, Acquire, flags, library, Session!Next,
      Session!Open, Session!Accept, Session!Output, Session!Seal,
      Session!End, Session!Abort, Session!ReportAbort, Session!Close,
      Session!Die
<1>20. CASE LoopExit
  BY <1>20 DEF LoopExit, Goto, Release, flags, library, Session!Next,
      Session!Open, Session!Accept, Session!Output, Session!Seal,
      Session!End, Session!Abort, Session!ReportAbort, Session!Close,
      Session!Die
<1>21. CASE LoopTake
  BY <1>21 DEF LoopTake, Goto, Release, flags, library, Session!Next,
      Session!Open, Session!Accept, Session!Output, Session!Seal,
      Session!End, Session!Abort, Session!ReportAbort, Session!Close,
      Session!Die
<1>22. CASE LoopMustWait
  BY <1>22 DEF LoopMustWait, Goto, flags, locks, library, Session!Next,
      Session!Open, Session!Accept, Session!Output, Session!Seal,
      Session!End, Session!Abort, Session!ReportAbort, Session!Close,
      Session!Die
<1>23. CASE LoopBlock
  BY <1>23 DEF LoopBlock, Goto, Release, flags, library, Session!Next,
      Session!Open, Session!Accept, Session!Output, Session!Seal,
      Session!End, Session!Abort, Session!ReportAbort, Session!Close,
      Session!Die
<1>24. CASE TearBegin
  BY <1>24 DEF TearBegin, locks, library, Session!Next, Session!Open,
      Session!Accept, Session!Output, Session!Seal, Session!End,
      Session!Abort, Session!ReportAbort, Session!Close, Session!Die
<1>25. CASE TearMustFeed
  BY <1>25 DEF TearMustFeed, Goto, flags, locks, library, Session!Next,
      Session!Open, Session!Accept, Session!Output, Session!Seal,
      Session!End, Session!Abort, Session!ReportAbort, Session!Close,
      Session!Die
<1>26. CASE TearNeedNotFeed
  BY <1>26 DEF TearNeedNotFeed, Goto, Acquire, library, Session!Next,
      Session!Open, Session!Accept, Session!Output, Session!Seal,
      Session!End, Session!Abort, Session!ReportAbort, Session!Close,
      Session!Die
<1>27. CASE TearRelock
  BY <1>27 DEF TearRelock, Goto, Acquire, flags, library, Session!Next,
      Session!Open, Session!Accept, Session!Output, Session!Seal,
      Session!End, Session!Abort, Session!ReportAbort, Session!Close,
      Session!Die
<1>28. CASE TearBlock
  BY <1>28 DEF TearBlock, Goto, Release, flags, library, Session!Next,
      Session!Open, Session!Accept, Session!Output, Session!Seal,
      Session!End, Session!Abort, Session!ReportAbort, Session!Close,
      Session!Die
<1>29. CASE TearWaitOver
  BY <1>29 DEF TearWaitOver, Goto, flags, locks, library, Session!Next,
      Session!Open, Session!Accept, Session!Output, Session!Seal,
      Session!End, Session!Abort, Session!ReportAbort, Session!Close,
      Session!Die
<1>30. CASE TearNotify
  BY <1>30 DEF TearNotify, flags, locks, library, Session!Next, Session!Open,
      Session!Accept, Session!Output, Session!Seal, Session!End,
      Session!Abort, Session!ReportAbort, Session!Close, Session!Die
<1>31. CASE TearJoin
  BY <1>31 DEF TearJoin, Goto, flags, locks, library, Session!Next,
      Session!Open, Session!Accept, Session!Output, Session!Seal,
      Session!End, Session!Abort, Session!ReportAbort, Session!Close,
      Session!Die
<1>32. CASE TearFree
  <2>1. \A t \in Threads : pc[t] \notin {"abort_null", "abort_report"}
    BY <1>32 DEF TearFree, UserSteps, LoopSteps, CodecSteps, FrameSteps, EventKinds
  <2>2. codec = "absent" \/ eos_callbacks >= 1
    BY <1>32, <2>1 DEF TearFree
  <2>3. codec # "dead" /\ pc[Owner] # "gone" /\ phase \in {"new", "ended"}
    BY <1>32, <2>2 DEF TearFree
  <2>4. phase' = "closed" /\ UNCHANGED pending
    BY <1>32 DEF TearFree, Goto
  <2>5. QED  BY <2>3, <2>4 DEF Session!Next, Session!Close
<1>33. CASE SpuriousWakeup
  BY <1>33 DEF SpuriousWakeup, Goto, flags, locks, library, Session!Next,
      Session!Open, Session!Accept, Session!Output, Session!Seal,
      Session!End, Session!Abort, Session!ReportAbort, Session!Close,
      Session!Die
<1>34. CASE CodecFrame
  BY <1>34 DEF CodecFrame, CodecBegins, Goto, flags, locks, Session!Next,
      Session!Open, Session!Accept, Session!Output, Session!Seal,
      Session!End, Session!Abort, Session!ReportAbort, Session!Close,
      Session!Die
<1>35. CASE CodecCorrupt
  BY <1>35 DEF CodecCorrupt, CodecBegins, Goto, flags, locks, Session!Next,
      Session!Open, Session!Accept, Session!Output, Session!Seal,
      Session!End, Session!Abort, Session!ReportAbort, Session!Close,
      Session!Die
<1>36. CASE CodecEos
  BY <1>36 DEF CodecEos, CodecBegins, Goto, flags, locks, Session!Next,
      Session!Open, Session!Accept, Session!Output, Session!Seal,
      Session!End, Session!Abort, Session!ReportAbort, Session!Close,
      Session!Die
<1>37. CASE CodecFatal
  BY <1>37 DEF CodecFatal, CodecBegins, Goto, flags, locks, Session!Next,
      Session!Open, Session!Accept, Session!Output, Session!Seal,
      Session!End, Session!Abort, Session!ReportAbort, Session!Close,
      Session!Die
<1>38. CASE FrameEmpty
  BY <1>38 DEF FrameEmpty, Goto, flags, locks, Session!Next, Session!Open,
      Session!Accept, Session!Output, Session!Seal, Session!End,
      Session!Abort, Session!ReportAbort, Session!Close, Session!Die
<1>39. CASE FrameCallback
  BY <1>39 DEF FrameCallback, Goto, flags, locks, Session!Next, Session!Open,
      Session!Accept, Session!Output, Session!Seal, Session!End,
      Session!Abort, Session!ReportAbort, Session!Close, Session!Die
<1>40. CASE FrameReturn
  BY <1>40 DEF FrameReturn, Goto, flags, locks, library, Session!Next,
      Session!Open, Session!Accept, Session!Output, Session!Seal,
      Session!End, Session!Abort, Session!ReportAbort, Session!Close,
      Session!Die
<1>41. ASSUME NEW kind \in EventKinds, ReceiveEvent(kind)
      PROVE  Session!Next \/ UNCHANGED <<phase, pending>>
  BY <1>41 DEF ReceiveEvent, NotifyLoop, flags, locks, library, Session!Next,
      Session!Open, Session!Accept, Session!Output, Session!Seal,
      Session!End, Session!Abort, Session!ReportAbort, Session!Close,
      Session!Die
<1>42. CASE UseAfterFree
  BY <1>42 DEF UseAfterFree, Goto, flags, locks, library, Session!Next,
      Session!Open, Session!Accept, Session!Output, Session!Seal,
      Session!End, Session!Abort, Session!ReportAbort, Session!Close,
      Session!Die
<1>43. CASE Finished
  BY <1>43 DEF Finished, vars, flags, locks, library, Session!Next,
      Session!Open, Session!Accept, Session!Output, Session!Seal,
      Session!End, Session!Abort, Session!ReportAbort, Session!Close,
      Session!Die
<1>44. CASE UNCHANGED vars
  BY <1>44 DEF vars, locks, flags, library
<1> HIDE DEF phase, IInv, TypeOK, PhaseInv, StartInv, HandleInv, StreamInv,
        EndInv, EosQueued, Threads, TearSteps, CodecKinds
<1>45. ASSUME NEW u \in Users, Feed(u)
       PROVE  Session!Next \/ UNCHANGED <<phase, pending>>
  BY <1>4, <1>5, <1>6, <1>7, <1>8, <1>9, <1>10, <1>45 DEF Feed
<1>46. ASSUME NEW t \in Threads, Abort(t)
       PROVE  Session!Next \/ UNCHANGED <<phase, pending>>
  BY <1>13, <1>14, <1>15, <1>16, <1>17, <1>46 DEF Abort
<1>47. CASE EventTaskRunner
  BY <1>19, <1>20, <1>21, <1>22, <1>23, <1>47 DEF EventTaskRunner
<1>48. CASE TearDown
  BY <1>24, <1>25, <1>26, <1>27, <1>28, <1>29, <1>30, <1>31, <1>32, <1>48
     DEF TearDown
<1>49. CASE CodecCallsBack
  BY <1>34, <1>35, <1>36, <1>37, <1>38, <1>39, <1>40, <1>41, <1>42, <1>49
     DEF CodecCallsBack
<1>50. QED
  BY <1>1, <1>2, <1>3, <1>11, <1>12, <1>18, <1>33, <1>43, <1>44, <1>45, <1>46,
     <1>47, <1>48, <1>49 DEF Next

(* DecodeHandler's threads implement DecodeSession: output before the end  *)
(* is reported, and closing only after it, for any number of threads.      *)
THEOREM SessionRefined == Spec => SessionPromise
<1>1. Init => Session!Init
  BY ThreadAssumption DEF Init, Session!Init, phase, Threads
<1>2. IInv /\ IInv' /\ [Next]_vars => [Session!Next]_Session!session
  BY SessionStep
<1>3. QED  BY <1>1, <1>2, Invariance, PTL DEF Spec, SessionPromise, Session!Spec

-----------------------------------------------------------------------------
(* VpuTimestamps: a frame gets the timestamp of its own packet, for every  *)
(* number of feeding threads and of key values.                            *)


(* No two packets under way share a key, none is in two places, and no     *)
(* packet under way has a key that a swallowed packet left an entry under. *)
KeysInv ==
  /\ \A p, q \in InFlight : p.key = q.key => p = q
  /\ \A u, v \in Feeders : feeding[u] = feeding[v] /\ feeding[u] # None => u = v
  /\ \A u \in Feeders : feeding[u] \notin inside
  /\ \A p \in InFlight : p.key \notin swallowed

TimestampsIInv == TimestampsTypeOK /\ KeysInv /\ EntriesAccounted /\ FrameHasItsPts

(* The next key is a key. *)
LEMMA NextKeyType == \A key \in Keys : NextKey(key) \in Keys
<1> SUFFICES ASSUME NEW key \in Keys PROVE (key + 1) % KeyValues \in 0..(KeyValues - 1)
  BY DEF NextKey, Keys
<1>1. KeyValues \in Nat /\ KeyValues > 0 /\ key + 1 \in Nat
  BY KeyAssumption DEF Keys
<1> QED
  BY <1>1

(* A packet under way is a packet. *)
LEMMA InFlightType ==
  ASSUME TimestampsTypeOK
  PROVE  \A p \in InFlight : p \in Packets /\ p.key \in Keys /\ p.pts \in Timestamps /\ p.pts \in Nat
  BY KeyAssumption DEF TimestampsTypeOK, InFlight, Fed, Packets

(* The map is empty and nothing is under way at first. *)
LEMMA InitTimestampsIInv == InitTimestamps => TimestampsIInv
<1> SUFFICES ASSUME InitTimestamps PROVE TimestampsIInv
  OBVIOUS
<1>1. Fed = {} /\ InFlight = {} /\ DOMAIN vpu_pts_map = {}
  BY DEF InitTimestamps, Fed, InFlight
<1>2. 0 \in Keys
  BY KeyAssumption DEF Keys
<1> QED
  BY <1>1, <1>2, KeyAssumption
     DEF InitTimestamps, TimestampsIInv, TimestampsTypeOK, KeysInv, EntriesAccounted, FrameHasItsPts

(* SetVpuTimestamp takes a key that no packet under way has. *)
LEMMA SetIInv ==
  ASSUME TimestampsIInv, NEW u \in Feeders, NEW pts \in Timestamps, SetVpuTimestamp(u, pts)
  PROVE  TimestampsIInv'
<1> DEFINE new == [key |-> pts_key, pts |-> pts]
<1>1. /\ feeding[u] = None
      /\ feeding' = [feeding EXCEPT ![u] = new]
      /\ vpu_pts_map' = Record(vpu_pts_map, pts_key, pts)
      /\ pts_key' = NextKey(pts_key)
      /\ swallowed' = swallowed \ {pts_key}
      /\ UNCHANGED <<inside, split, frame>>
      /\ \A p \in InFlight : p.key # pts_key
  BY DEF SetVpuTimestamp, KeyIsFree
<1>2. new \in Packets /\ new # None /\ new.key = pts_key /\ new.pts = pts /\ pts_key \in Keys
  BY KeyAssumption DEF TimestampsIInv, TimestampsTypeOK, Packets
<1>map. /\ DOMAIN vpu_pts_map' = DOMAIN vpu_pts_map \union {pts_key}
      /\ vpu_pts_map'[pts_key] = pts
      /\ \A k \in DOMAIN vpu_pts_map : k # pts_key => vpu_pts_map'[k] = vpu_pts_map[k]
  BY <1>1 DEF Record
<1>3. InFlight' = InFlight \union {new} /\ new \notin inside /\ new \notin split /\ new \notin Fed
  BY <1>1, <1>2 DEF TimestampsIInv, TimestampsTypeOK, InFlight, Fed
<1>4. TimestampsTypeOK'
  BY <1>1, <1>2, NextKeyType, <1>map DEF TimestampsIInv, TimestampsTypeOK
<1>5. KeysInv'
  <2>1. \A p, q \in InFlight' : p.key = q.key => p = q
    BY <1>1, <1>2, <1>3 DEF TimestampsIInv, KeysInv
  <2>2. \A p \in InFlight' : p.key \notin swallowed'
    BY <1>1, <1>2, <1>3 DEF TimestampsIInv, KeysInv
  <2>3. \A v \in Feeders : v # u => feeding'[v] = feeding[v] /\ feeding[v] # new
    BY <1>1, <1>2, <1>3 DEF TimestampsIInv, TimestampsTypeOK, Fed
  <2>4. feeding'[u] = new
    BY <1>1 DEF TimestampsIInv, TimestampsTypeOK
  <2>5. \A v, w \in Feeders : feeding'[v] = feeding'[w] /\ feeding'[v] # None => v = w
    BY <2>3, <2>4 DEF TimestampsIInv, KeysInv
  <2>6. \A v \in Feeders : feeding'[v] \notin inside'
    BY <1>1, <1>3, <2>3, <2>4 DEF TimestampsIInv, KeysInv
  <2> QED
    BY <2>1, <2>2, <2>5, <2>6 DEF KeysInv
<1>6. EntriesAccounted'
  <2>1. InFlight' \ split' = (InFlight \ split) \union {new}
    BY <1>1, <1>3
  <2>2. DOMAIN vpu_pts_map' = {p.key : p \in InFlight \ split} \union swallowed \union {pts_key}
    BY <1>map DEF TimestampsIInv, EntriesAccounted
  <2>3. DOMAIN vpu_pts_map' = {p.key : p \in InFlight' \ split'} \union swallowed'
    BY <1>1, <1>2, <2>1, <2>2
  <2>4. \A p \in InFlight \ split : p.key \in DOMAIN vpu_pts_map /\ vpu_pts_map'[p.key] = p.pts
    BY <1>1, <1>map DEF TimestampsIInv, EntriesAccounted
  <2>5. vpu_pts_map'[new.key] = new.pts
    BY <1>2, <1>map
  <2> QED
    BY <2>1, <2>3, <2>4, <2>5 DEF EntriesAccounted
<1> QED
  BY <1>1, <1>4, <1>5, <1>6 DEF TimestampsIInv, FrameHasItsPts

(* FeedAccepted moves the packet into the codec and touches no record. *)
LEMMA AcceptedIInv ==
  ASSUME TimestampsIInv, NEW u \in Feeders, FeedAccepted(u)
  PROVE  TimestampsIInv'
<1> DEFINE p == feeding[u]
<1>1. /\ p # None /\ p \in Fed /\ p \in Packets
      /\ inside' = inside \union {p}
      /\ feeding' = [feeding EXCEPT ![u] = None]
      /\ UNCHANGED <<pts_key, vpu_pts_map, split, swallowed, frame>>
  BY DEF FeedAccepted, Fed, TimestampsIInv, TimestampsTypeOK
<1>2. /\ feeding'[u] = None
      /\ \A v \in Feeders : v # u => feeding'[v] = feeding[v] /\ feeding[v] # p
  BY <1>1 DEF TimestampsIInv, TimestampsTypeOK, KeysInv
<1>3. InFlight' = InFlight
  BY <1>1, <1>2 DEF InFlight, Fed
<1>4. TimestampsTypeOK'
  BY <1>1 DEF TimestampsIInv, TimestampsTypeOK
<1>5. KeysInv'
  <2>1. \A v \in Feeders : feeding'[v] \notin inside'
    BY <1>1, <1>2, KeyAssumption DEF TimestampsIInv, TimestampsTypeOK, KeysInv
  <2>2. \A v, w \in Feeders : feeding'[v] = feeding'[w] /\ feeding'[v] # None => v = w
    BY <1>2 DEF TimestampsIInv, KeysInv
  <2> QED
    BY <1>1, <1>3, <2>1, <2>2 DEF TimestampsIInv, KeysInv
<1>6. EntriesAccounted'
  BY <1>1, <1>3 DEF TimestampsIInv, EntriesAccounted
<1> QED
  BY <1>1, <1>4, <1>5, <1>6 DEF TimestampsIInv, FrameHasItsPts

(* FeedRefused erases the record of the packet it gives up, and only it. *)
LEMMA RefusedIInv ==
  ASSUME TimestampsIInv, NEW u \in Feeders, FeedRefused(u)
  PROVE  TimestampsIInv'
<1> DEFINE p == feeding[u]
<1>1. /\ p # None /\ p \in InFlight /\ p \in Packets /\ p \notin inside /\ p \notin split
      /\ vpu_pts_map' = Erase(vpu_pts_map, p.key)
      /\ feeding' = [feeding EXCEPT ![u] = None]
      /\ UNCHANGED <<pts_key, inside, split, swallowed, frame>>
  BY DEF FeedRefused, InFlight, Fed, TimestampsIInv, TimestampsTypeOK, KeysInv
<1>2. /\ feeding'[u] = None
      /\ \A v \in Feeders : v # u => feeding'[v] = feeding[v] /\ feeding[v] # p
  BY <1>1 DEF TimestampsIInv, TimestampsTypeOK, KeysInv
<1>3. InFlight' = InFlight \ {p}
  BY <1>1, <1>2 DEF InFlight, Fed
<1>map. /\ DOMAIN vpu_pts_map' = DOMAIN vpu_pts_map \ {p.key}
        /\ \A k \in DOMAIN vpu_pts_map' : vpu_pts_map'[k] = vpu_pts_map[k]
  BY <1>1 DEF Erase
<1>4. TimestampsTypeOK'
  BY <1>1, <1>map DEF TimestampsIInv, TimestampsTypeOK
<1>5. KeysInv'
  <2>1. \A v \in Feeders : feeding'[v] \notin inside'
    BY <1>1, <1>2, KeyAssumption DEF TimestampsIInv, TimestampsTypeOK, KeysInv
  <2>2. \A v, w \in Feeders : feeding'[v] = feeding'[w] /\ feeding'[v] # None => v = w
    BY <1>2 DEF TimestampsIInv, KeysInv
  <2> QED
    BY <1>1, <1>3, <2>1, <2>2 DEF TimestampsIInv, KeysInv
<1>6. EntriesAccounted'
  <2>1. \A q \in InFlight' : q \in InFlight /\ q.key # p.key
    BY <1>1, <1>3 DEF TimestampsIInv, KeysInv
  <2>2. p.key \notin swallowed
    BY <1>1 DEF TimestampsIInv, KeysInv
  <2>3. DOMAIN vpu_pts_map = {q.key : q \in InFlight \ split} \union swallowed
    BY DEF TimestampsIInv, EntriesAccounted
  <2>4. {q.key : q \in InFlight \ split} \ {p.key} = {q.key : q \in InFlight' \ split'}
    BY <1>1, <1>3, <2>1
  <2>5. DOMAIN vpu_pts_map' = {q.key : q \in InFlight' \ split'} \union swallowed'
    BY <1>1, <1>map, <2>2, <2>3, <2>4
  <2>6. \A q \in InFlight' \ split' : vpu_pts_map'[q.key] = q.pts
    BY <1>1, <1>map, <2>1, <2>3 DEF TimestampsIInv, EntriesAccounted
  <2> QED
    BY <2>5, <2>6 DEF EntriesAccounted
<1> QED
  BY <1>1, <1>4, <1>5, <1>6 DEF TimestampsIInv, FrameHasItsPts

(* What ReceiveFrame looks up. *)
LEMMA Lookup ==
  ASSUME TimestampsIInv, NEW p \in inside
  PROVE  /\ p \in InFlight /\ p \in Packets /\ p.key \notin swallowed
         /\ \A q \in InFlight : q.key = p.key => q = p
         /\ p.key \in DOMAIN vpu_pts_map <=> p \notin split
         /\ p \notin split => vpu_pts_map[p.key] = p.pts
<1>1. /\ p \in InFlight /\ p \in Packets /\ p.key \notin swallowed
      /\ \A q \in InFlight : q.key = p.key => q = p
  BY DEF InFlight, TimestampsIInv, TimestampsTypeOK, KeysInv
<1> QED
  BY <1>1 DEF TimestampsIInv, EntriesAccounted

(* ReceiveFrame uses up the record of the frame's own packet. *)
LEMMA FrameIInv ==
  ASSUME TimestampsIInv, NEW p \in inside, ReceiveFrame(p)
  PROVE  TimestampsIInv'
<1>1. /\ frame' = [packet |-> p, first |-> p \notin split,
                   found |-> p.key \in DOMAIN vpu_pts_map, pts |-> FramePts(p)]
      /\ vpu_pts_map' = Erase(vpu_pts_map, p.key)
      /\ UNCHANGED <<pts_key, feeding, swallowed>>
      /\ \/ inside' = inside \ {p} /\ split' = split \ {p}
         \/ p \notin split /\ split' = split \union {p} /\ inside' = inside
  BY DEF ReceiveFrame
<1>2. /\ p \in InFlight /\ p \in Packets /\ p.key \notin swallowed /\ p.pts \in Nat
      /\ \A q \in InFlight : q.key = p.key => q = p
      /\ p.key \in DOMAIN vpu_pts_map <=> p \notin split
      /\ p \notin split => vpu_pts_map[p.key] = p.pts
  BY Lookup, InFlightType DEF TimestampsIInv
<1>map. /\ DOMAIN vpu_pts_map' = DOMAIN vpu_pts_map \ {p.key}
        /\ \A k \in DOMAIN vpu_pts_map' : vpu_pts_map'[k] = vpu_pts_map[k]
  BY <1>1 DEF Erase
<1>3. Fed' = Fed /\ p \notin Fed
  BY <1>1 DEF Fed, TimestampsIInv, KeysInv
<1>4. InFlight' \subseteq InFlight /\ InFlight' \ split' = (InFlight \ split) \ {p}
  BY <1>1, <1>3 DEF InFlight, TimestampsIInv, TimestampsTypeOK
<1>5. FrameHasItsPts' /\ frame' \in [packet : Packets, first : BOOLEAN, found : BOOLEAN, pts : Nat]
  <2>1. CASE p \in split
    <3>1. (p.key \in DOMAIN vpu_pts_map) = FALSE /\ (p \notin split) = FALSE /\ FramePts(p) = 0
      BY <1>2, <2>1 DEF FramePts
    <3>2. frame' = [packet |-> p, first |-> FALSE, found |-> FALSE, pts |-> 0]
      BY <1>1, <3>1, Zenon
    <3> QED
      BY <1>2, <3>2 DEF FrameHasItsPts
  <2>2. CASE p \notin split
    <3>1. (p.key \in DOMAIN vpu_pts_map) = TRUE /\ (p \notin split) = TRUE /\ FramePts(p) = p.pts
      BY <1>2, <2>2 DEF FramePts
    <3>2. frame' = [packet |-> p, first |-> TRUE, found |-> TRUE, pts |-> p.pts]
      BY <1>1, <3>1, Zenon
    <3> QED
      BY <1>2, <3>2 DEF FrameHasItsPts
  <2> QED
    BY <2>1, <2>2
<1>6. TimestampsTypeOK'
  BY <1>1, <1>5, <1>map DEF TimestampsIInv, TimestampsTypeOK
<1>7. KeysInv'
  BY <1>1, <1>4 DEF TimestampsIInv, KeysInv
<1>8. EntriesAccounted'
  <2>1. DOMAIN vpu_pts_map = {q.key : q \in InFlight \ split} \union swallowed
    BY DEF TimestampsIInv, EntriesAccounted
  <2>2. {q.key : q \in InFlight \ split} \ {p.key} = {q.key : q \in InFlight' \ split'}
    BY <1>2, <1>4
  <2>3. DOMAIN vpu_pts_map' = {q.key : q \in InFlight' \ split'} \union swallowed'
    BY <1>1, <1>2, <1>map, <2>1, <2>2
  <2>4. \A q \in InFlight' \ split' : vpu_pts_map'[q.key] = q.pts
    BY <1>2, <1>4, <1>map, <2>1 DEF TimestampsIInv, EntriesAccounted
  <2> QED
    BY <2>3, <2>4 DEF EntriesAccounted
<1> QED
  BY <1>5, <1>6, <1>7, <1>8 DEF TimestampsIInv

(* A swallowed packet leaves a record that no packet under way uses. *)
LEMMA SwallowsIInv ==
  ASSUME TimestampsIInv, NEW p \in inside, CodecSwallows(p)
  PROVE  TimestampsIInv'
<1>1. /\ p \notin split /\ inside' = inside \ {p} /\ swallowed' = swallowed \union {p.key}
      /\ UNCHANGED <<pts_key, vpu_pts_map, feeding, split, frame>>
  BY DEF CodecSwallows
<1>2. /\ p \in InFlight /\ p.key \in Keys
      /\ \A q \in InFlight : q.key = p.key => q = p
  BY Lookup, InFlightType DEF TimestampsIInv
<1>3. Fed' = Fed /\ p \notin Fed
  BY <1>1 DEF Fed, TimestampsIInv, KeysInv
<1>4. InFlight' = InFlight \ {p}
  BY <1>1, <1>3 DEF InFlight
<1>5. TimestampsTypeOK'
  BY <1>1, <1>2 DEF TimestampsIInv, TimestampsTypeOK
<1>6. KeysInv'
  BY <1>1, <1>2, <1>4 DEF TimestampsIInv, KeysInv
<1>7. EntriesAccounted'
  <2>1. {q.key : q \in InFlight \ split} = {q.key : q \in InFlight' \ split'} \union {p.key}
    BY <1>1, <1>2, <1>4
  <2> QED
    BY <1>1, <1>4, <2>1 DEF TimestampsIInv, EntriesAccounted
<1> QED
  BY <1>1, <1>5, <1>6, <1>7 DEF TimestampsIInv, FrameHasItsPts

(* Every step preserves the strengthened invariant. *)
LEMMA NextTimestampsIInv == TimestampsIInv /\ [NextTimestamps]_ptsVars => TimestampsIInv'
<1> SUFFICES ASSUME TimestampsIInv, [NextTimestamps]_ptsVars PROVE TimestampsIInv'
  OBVIOUS
<1>1. CASE UNCHANGED ptsVars
  BY <1>1 DEF ptsVars, TimestampsIInv, TimestampsTypeOK, KeysInv, EntriesAccounted, FrameHasItsPts, InFlight, Fed
<1>2. ASSUME NEW u \in Feeders, NEW pts \in Timestamps, SetVpuTimestamp(u, pts) PROVE TimestampsIInv'
  BY <1>2, SetIInv
<1>3. ASSUME NEW u \in Feeders, FeedAccepted(u) PROVE TimestampsIInv'
  BY <1>3, AcceptedIInv
<1>4. ASSUME NEW u \in Feeders, FeedRefused(u) PROVE TimestampsIInv'
  BY <1>4, RefusedIInv
<1>5. ASSUME NEW p \in inside, ReceiveFrame(p) PROVE TimestampsIInv'
  BY <1>5, FrameIInv
<1>6. ASSUME NEW p \in inside, CodecSwallows(p) PROVE TimestampsIInv'
  BY <1>6, SwallowsIInv
<1> QED
  BY <1>1, <1>2, <1>3, <1>4, <1>5, <1>6 DEF NextTimestamps

(* The strengthened invariant holds in every reachable state. *)
THEOREM TimestampsInvariance == SpecTimestamps => []TimestampsIInv
  BY InitTimestampsIInv, NextTimestampsIInv, PTL DEF SpecTimestamps

(* vpu_pts_map_ and pts_key_ keep their types, wrapped keys included. *)
THEOREM TimestampsTypeCorrect == SpecTimestamps => []TimestampsTypeOK
  BY TimestampsInvariance, PTL DEF TimestampsIInv

(* ReceiveFrame finds the entry of a packet for its first frame and for no *)
(* other, and the timestamp it finds is the packet's own.                  *)
THEOREM TimestampKept == SpecTimestamps => []FrameHasItsPts
  BY TimestampsInvariance, PTL DEF TimestampsIInv

(* vpu_pts_map_ holds the entries of packets under way and of those the    *)
(* codec swallowed, and no others.                                         *)
THEOREM MapAccounted == SpecTimestamps => []EntriesAccounted
  BY TimestampsInvariance, PTL DEF TimestampsIInv
=============================================================================
