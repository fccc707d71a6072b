---------------------------- MODULE GstEncodeProofs ----------------------------
(***************************************************************************)
(* Proofs about GstEncode for any number of encoders in a row, of frames   *)
(* inside an encoder, of queued events and of failures.                    *)
(***************************************************************************)
EXTENDS GstEncode, TLAPS

(* The four threads, and no thread, are five identities.                   *)
LEMMA FiveThreads ==
  /\ App # Streamer /\ App # Loop /\ App # Codec
  /\ Streamer # Loop /\ Streamer # Codec /\ Loop # Codec
  /\ NoThread # App /\ NoThread # Streamer /\ NoThread # Loop /\ NoThread # Codec
<1> DEFINE names == <<App, Streamer, Loop, Codec>>
<1>1. /\ names[1] = App /\ names[2] = Streamer
      /\ names[3] = Loop /\ names[4] = Codec
  OBVIOUS
<1>2. \A s, t \in {1, 2, 3, 4} : names[s] = names[t] => s = t
  BY ThreadAssumption
<1>3. NoThread \notin {App, Streamer, Loop, Codec}
  BY ThreadAssumption
<1> HIDE DEF names
<1> QED BY <1>1, <1>2, <1>3

-----------------------------------------------------------------------------
(* The inductive invariant, in parts.  The types first: those of TypeOK.   *)
ThreadTypes ==
  /\ pc \in [Threads -> Steps]
  /\ pc[App] \in {"idle"} \union DestroySteps
  /\ pc[Loop] \in LoopSteps
  /\ pc[Codec] \in {"idle", "output"} \union AbortSteps
  /\ element \in ElementStates
  /\ event_mtx \in {NoThread, Loop} /\ eos_mtx \in {NoThread} \union Threads

FlagTypes ==
  /\ event_queue \in Seq(EventKinds)
  /\ joinable \in BOOLEAN /\ send_eos \in BOOLEAN /\ got_eos \in BOOLEAN
  /\ encode \in {0, made} /\ made \in 0..MaxEncoders
  /\ negotiated \in BOOLEAN /\ sink_eos \in BOOLEAN /\ pad_eos \in BOOLEAN

CodecTypes ==
  /\ codec \in [Encoders -> CodecKinds]
  /\ pending \in [Encoders -> 0..MaxFrames]
  /\ eos_in \in [Encoders -> Nat] /\ eos_out \in [Encoders -> BOOLEAN]

HistoryTypes ==
  /\ packet \in 0..made
  /\ failed \subseteq Failures /\ told \subseteq 1..made /\ fresh \subseteq 1..made

(* destroy_encoder runs on one thread at a time: on the application's      *)
(* while the pads are inactive, on the streaming thread while they are     *)
(* active.  There is no encoder before init_encoder is through.            *)
PhaseInv ==
  /\ pc[Streamer] \in {"idle", "init", "create", "event_feed", "event_sent"} \union DestroySteps
  /\ pc[App] # "idle" => element = "stopping"
  /\ pc[Streamer] # "idle" => element \in {"PAUSED", "dead"}
  /\ pc[Streamer] \in {"init"} \union DestroySteps => made < MaxEncoders
  /\ pc[Streamer] \in {"init", "create"} => encode = 0
  /\ pc[Streamer] = "create" => made # 0 /\ codec[made] = "absent"

(* The handle names an instance that runs or was aborted, and while the    *)
(* first one runs it is that: the handle of a later one may be made null   *)
(* by an abort of the one before.  An instance that was never created      *)
(* holds nothing, one that was aborted no frame, and an end of stream      *)
(* comes out behind every frame.                                           *)
EncoderInv ==
  /\ encode # 0 => codec[encode] \in {"running", "aborted"}
  /\ codec[1] = "running" => encode = 1
  /\ \A g \in Encoders :
       /\ codec[g] = "absent" => pending[g] = 0 /\ eos_in[g] = 0 /\ ~eos_out[g]
       /\ codec[g] = "aborted" => pending[g] = 0
       /\ g > made => codec[g] = "absent"
       /\ eos_out[g] => eos_in[g] > 0 /\ pending[g] = 0

(* The event thread is joined only after the end of the stream and the     *)
(* flag of that is never reset, so that only the first encoder of an       *)
(* element can find both flags clear.                                      *)
FreshInv ==
  /\ fresh \subseteq {1}
  /\ ~joinable /\ made # 0 => got_eos
  /\ made > 1 => got_eos
  /\ \A t \in {App, Streamer} : pc[t] \in {"join", "free"} => got_eos
  /\ 1 \in fresh /\ made = 1 /\ pc[Streamer] = "create" => ~got_eos

(* Before there is a first instance, nobody is told or given anything.     *)
BeforeInv ==
  made <= 1 /\ codec[1] = "absent" =>
    /\ event_queue = <<>> /\ told = {} /\ pc[Codec] = "idle"
    /\ pc[Loop] \in {"none", "lock_event", "test", "blocking", "blocked", "exited"}

(* While there is only the first encoder, what handle_eos is about to say  *)
(* is true of it; got_eos means that handle_eos has said it.               *)
TellInv ==
  /\ made = 1 =>
       /\ \A i \in DOMAIN event_queue : event_queue[i] = "EOS" => eos_out[1]
       /\ pc[Loop] \in {"eos_lock", "eos_push"} => eos_out[1]
       /\ \A t \in {Loop, Codec} :
            /\ pc[t] \in {"abort_null", "abort_lock", "abort_push", "set_got_eos"} =>
                 codec[1] \in {"aborted", "destroyed"}
            /\ pc[t] \in {"abort_push", "set_got_eos"} => 1 \in told
  /\ 1 \in told => codec[1] \in {"aborted", "destroyed"} \/ eos_out[1]
  /\ 1 \in fresh /\ encode = 1 /\ got_eos => 1 \in told

(* Who holds a mutex, by the step it stands at.                            *)
LockInv ==
  /\ \A t \in {App, Streamer} : pc[t] \in {"eos_wait", "join", "free"} <=> eos_mtx = t
  /\ \A t \in {Loop, Codec} : pc[t] \in {"eos_push", "abort_push"} <=> eos_mtx = t
  /\ pc[Loop] \in {"test", "blocking"} <=> event_mtx = Loop

(* An event thread that was joined has left its loop.                      *)
JoinInv ==
  /\ ~joinable => pc[Loop] \in {"none", "exited"}
  /\ \A t \in {App, Streamer} : pc[t] = "free" => ~joinable

(* The inductive invariant.                                                *)
IInv ==
  /\ ThreadTypes /\ FlagTypes /\ CodecTypes /\ HistoryTypes
  /\ PhaseInv /\ EncoderInv /\ FreshInv /\ BeforeInv /\ TellInv
  /\ LockInv /\ JoinInv

(* The element's first state satisfies every part.                         *)
LEMMA InitIInv == Init => IInv
<1> SUFFICES ASSUME Init PROVE IInv
  OBVIOUS
<1> USE FiveThreads, BoundAssumption DEF Init, Threads, Encoders
<1>1. ThreadTypes
  BY DEF ThreadTypes, Steps, DestroySteps, LoopSteps, ElementStates
<1>2. FlagTypes
  <2>1. event_queue \in Seq(EventKinds)
    OBVIOUS
  <2>2. /\ joinable \in BOOLEAN /\ send_eos \in BOOLEAN /\ got_eos \in BOOLEAN
        /\ negotiated \in BOOLEAN /\ sink_eos \in BOOLEAN /\ pad_eos \in BOOLEAN
    OBVIOUS
  <2>3. encode \in {0, made} /\ made \in 0..MaxEncoders
    OBVIOUS
  <2> QED BY <2>1, <2>2, <2>3, Zenon DEF FlagTypes
<1>3. CodecTypes /\ HistoryTypes
  BY DEF CodecTypes, HistoryTypes, CodecKinds
<1>4. PhaseInv /\ EncoderInv
  BY DEF PhaseInv, EncoderInv, DestroySteps
<1>5. FreshInv
  BY DEF FreshInv
<1>6. BeforeInv
  BY DEF BeforeInv
<1>7. TellInv
  BY DEF TellInv
<1>8. LockInv /\ JoinInv
  BY DEF LockInv, JoinInv
<1> QED BY <1>1, <1>2, <1>3, <1>4, <1>5, <1>6, <1>7, <1>8 DEF IInv

(* Every step of the application, of the streaming thread, of the event    *)
(* thread and of the codec preserves the invariant: one step of the proof  *)
(* for each of them, and under it one for each part.                       *)
LEMMA NextIInv == IInv /\ [Next]_vars => IInv'
<1> SUFFICES ASSUME IInv, [Next]_vars PROVE IInv'
  OBVIOUS
<1> USE FiveThreads, BoundAssumption DEF IInv, Threads, Encoders
<1>1. CASE ChangeState
  <2>1. ThreadTypes'
    BY <1>1 DEF ThreadTypes, Steps, DestroySteps, LoopSteps, AbortSteps,
        ElementStates, ChangeState, locks, flags, pads, library, history
  <2>2. FlagTypes'
    BY <1>1 DEF FlagTypes, EventKinds, PhaseInv, ChangeState, locks, flags,
        pads, library, history
  <2>3. CodecTypes'
    BY <1>1 DEF CodecTypes, FlagTypes, CodecKinds, ChangeState, locks, flags,
        pads, library, history
  <2>4. HistoryTypes'
    BY <1>1 DEF HistoryTypes, FlagTypes, Failures, ChangeState, locks, flags,
        pads, library, history
  <2>5. PhaseInv'
    BY <1>1 DEF ThreadTypes, FlagTypes, CodecTypes, HistoryTypes, PhaseInv,
        BeforeInv, DestroySteps, ChangeState, locks, flags, pads, library,
        history
  <2>6. EncoderInv'
    BY <1>1 DEF FlagTypes, CodecTypes, PhaseInv, EncoderInv, CodecKinds,
        ChangeState, locks, flags, pads, library, history
  <2>7. FreshInv'
    BY <1>1 DEF ThreadTypes, FlagTypes, CodecTypes, HistoryTypes, PhaseInv,
        FreshInv, BeforeInv, DestroySteps, ChangeState, locks, flags, pads,
        library, history
  <2>8. BeforeInv'
    BY <1>1 DEF ThreadTypes, FlagTypes, CodecTypes, HistoryTypes, PhaseInv,
        EncoderInv, BeforeInv, DestroySteps, ChangeState, locks, flags, pads,
        library, history
  <2>9. TellInv'
    BY <1>1 DEF ThreadTypes, FlagTypes, CodecTypes, HistoryTypes, PhaseInv,
        EncoderInv, FreshInv, BeforeInv, TellInv, ChangeState, locks, flags,
        pads, library, history
  <2>10. LockInv'
    BY <1>1 DEF ThreadTypes, FlagTypes, PhaseInv, LockInv, DestroySteps,
        LoopSteps, AbortSteps, ChangeState, locks, flags, pads, library,
        history
  <2>11. JoinInv'
    BY <1>1 DEF ThreadTypes, FlagTypes, PhaseInv, JoinInv, DestroySteps,
        LoopSteps, AbortSteps, ChangeState, locks, flags, pads, library,
        history
  <2> QED BY <2>1, <2>2, <2>3, <2>4, <2>5, <2>6, <2>7, <2>8, <2>9, <2>10,
      <2>11, Zenon DEF IInv
<1>2. CASE PausedToReady
  <2>1. ThreadTypes'
    BY <1>2 DEF ThreadTypes, Steps, DestroySteps, LoopSteps, AbortSteps,
        ElementStates, PausedToReady, Goto, locks, flags, library, history
  <2>2. FlagTypes'
    BY <1>2 DEF FlagTypes, EventKinds, PhaseInv, PausedToReady, Goto, locks,
        flags, library, history
  <2>3. CodecTypes'
    BY <1>2 DEF CodecTypes, FlagTypes, CodecKinds, PausedToReady, Goto, locks,
        flags, library, history
  <2>4. HistoryTypes'
    BY <1>2 DEF HistoryTypes, FlagTypes, Failures, PausedToReady, Goto, locks,
        flags, library, history
  <2>5. PhaseInv'
    BY <1>2 DEF ThreadTypes, FlagTypes, CodecTypes, HistoryTypes, PhaseInv,
        BeforeInv, DestroySteps, PausedToReady, Goto, locks, flags, library,
        history
  <2>6. EncoderInv'
    BY <1>2 DEF FlagTypes, CodecTypes, PhaseInv, EncoderInv, CodecKinds,
        PausedToReady, Goto, locks, flags, library, history
  <2>7. FreshInv'
    BY <1>2 DEF ThreadTypes, FlagTypes, CodecTypes, HistoryTypes, PhaseInv,
        FreshInv, BeforeInv, DestroySteps, PausedToReady, Goto, locks, flags,
        library, history
  <2>8. BeforeInv'
    BY <1>2 DEF ThreadTypes, FlagTypes, CodecTypes, HistoryTypes, PhaseInv,
        EncoderInv, BeforeInv, DestroySteps, PausedToReady, Goto, locks, flags,
        library, history
  <2>9. TellInv'
    BY <1>2 DEF ThreadTypes, FlagTypes, CodecTypes, HistoryTypes, PhaseInv,
        EncoderInv, FreshInv, BeforeInv, TellInv, PausedToReady, Goto, locks,
        flags, library, history
  <2>10. LockInv'
    BY <1>2 DEF ThreadTypes, FlagTypes, PhaseInv, LockInv, DestroySteps,
        LoopSteps, AbortSteps, PausedToReady, Goto, locks, flags, library,
        history
  <2>11. JoinInv'
    BY <1>2 DEF ThreadTypes, FlagTypes, PhaseInv, JoinInv, DestroySteps,
        LoopSteps, AbortSteps, PausedToReady, Goto, locks, flags, library,
        history
  <2> QED BY <2>1, <2>2, <2>3, <2>4, <2>5, <2>6, <2>7, <2>8, <2>9, <2>10,
      <2>11, Zenon DEF IInv
<1>3. CASE Finalize
  <2>1. ThreadTypes'
    BY <1>3 DEF ThreadTypes, Steps, DestroySteps, LoopSteps, AbortSteps,
        ElementStates, Finalize, locks, flags, pads, library, history
  <2>2. FlagTypes'
    BY <1>3 DEF FlagTypes, EventKinds, PhaseInv, Finalize, locks, flags, pads,
        library, history
  <2>3. CodecTypes'
    BY <1>3 DEF CodecTypes, FlagTypes, CodecKinds, Finalize, locks, flags,
        pads, library, history
  <2>4. HistoryTypes'
    BY <1>3 DEF HistoryTypes, FlagTypes, Failures, Finalize, locks, flags,
        pads, library, history
  <2>5. PhaseInv'
    BY <1>3 DEF ThreadTypes, FlagTypes, CodecTypes, HistoryTypes, PhaseInv,
        BeforeInv, DestroySteps, Finalize, locks, flags, pads, library, history
  <2>6. EncoderInv'
    BY <1>3 DEF FlagTypes, CodecTypes, PhaseInv, EncoderInv, CodecKinds,
        Finalize, locks, flags, pads, library, history
  <2>7. FreshInv'
    BY <1>3 DEF ThreadTypes, FlagTypes, CodecTypes, HistoryTypes, PhaseInv,
        FreshInv, BeforeInv, DestroySteps, Finalize, locks, flags, pads,
        library, history
  <2>8. BeforeInv'
    BY <1>3 DEF ThreadTypes, FlagTypes, CodecTypes, HistoryTypes, PhaseInv,
        EncoderInv, BeforeInv, DestroySteps, Finalize, locks, flags, pads,
        library, history
  <2>9. TellInv'
    BY <1>3 DEF ThreadTypes, FlagTypes, CodecTypes, HistoryTypes, PhaseInv,
        EncoderInv, FreshInv, BeforeInv, TellInv, Finalize, locks, flags, pads,
        library, history
  <2>10. LockInv'
    BY <1>3 DEF ThreadTypes, FlagTypes, PhaseInv, LockInv, DestroySteps,
        LoopSteps, AbortSteps, Finalize, locks, flags, pads, library, history
  <2>11. JoinInv'
    BY <1>3 DEF ThreadTypes, FlagTypes, PhaseInv, JoinInv, DestroySteps,
        LoopSteps, AbortSteps, Finalize, locks, flags, pads, library, history
  <2> QED BY <2>1, <2>2, <2>3, <2>4, <2>5, <2>6, <2>7, <2>8, <2>9, <2>10,
      <2>11, Zenon DEF IInv
<1>4. CASE Chain
  <2>1. ThreadTypes'
    BY <1>4 DEF ThreadTypes, Steps, DestroySteps, LoopSteps, AbortSteps,
        ElementStates, Chain, Streaming, CodecTakesFrame, CodecTakesEos, locks,
        flags, pads, history
  <2>2. FlagTypes'
    BY <1>4 DEF FlagTypes, EventKinds, PhaseInv, Chain, Streaming,
        CodecTakesFrame, CodecTakesEos, locks, flags, pads, history
  <2>3. CodecTypes'
    BY <1>4 DEF CodecTypes, FlagTypes, CodecKinds, Chain, Streaming,
        CodecTakesFrame, CodecTakesEos, locks, flags, pads, history
  <2>4. HistoryTypes'
    BY <1>4 DEF HistoryTypes, FlagTypes, Failures, Chain, Streaming,
        CodecTakesFrame, CodecTakesEos, locks, flags, pads, history
  <2>5. PhaseInv'
    BY <1>4 DEF ThreadTypes, FlagTypes, CodecTypes, HistoryTypes, PhaseInv,
        BeforeInv, DestroySteps, Chain, Streaming, CodecTakesFrame,
        CodecTakesEos, locks, flags, pads, history
  <2>6. EncoderInv'
    BY <1>4 DEF FlagTypes, CodecTypes, PhaseInv, EncoderInv, CodecKinds, Chain,
        Streaming, CodecTakesFrame, CodecTakesEos, locks, flags, pads, history
  <2>7. FreshInv'
    BY <1>4 DEF ThreadTypes, FlagTypes, CodecTypes, HistoryTypes, PhaseInv,
        FreshInv, BeforeInv, DestroySteps, Chain, Streaming, CodecTakesFrame,
        CodecTakesEos, locks, flags, pads, history
  <2>8. BeforeInv'
    BY <1>4 DEF ThreadTypes, FlagTypes, CodecTypes, HistoryTypes, PhaseInv,
        EncoderInv, BeforeInv, DestroySteps, Chain, Streaming, CodecTakesFrame,
        CodecTakesEos, locks, flags, pads, history
  <2>9. TellInv'
    BY <1>4 DEF ThreadTypes, FlagTypes, CodecTypes, HistoryTypes, PhaseInv,
        EncoderInv, FreshInv, BeforeInv, TellInv, Chain, Streaming,
        CodecTakesFrame, CodecTakesEos, locks, flags, pads, history
  <2>10. LockInv'
    BY <1>4 DEF ThreadTypes, FlagTypes, PhaseInv, LockInv, DestroySteps,
        LoopSteps, AbortSteps, Chain, Streaming, CodecTakesFrame,
        CodecTakesEos, locks, flags, pads, history
  <2>11. JoinInv'
    BY <1>4 DEF ThreadTypes, FlagTypes, PhaseInv, JoinInv, DestroySteps,
        LoopSteps, AbortSteps, Chain, Streaming, CodecTakesFrame,
        CodecTakesEos, locks, flags, pads, history
  <2> QED BY <2>1, <2>2, <2>3, <2>4, <2>5, <2>6, <2>7, <2>8, <2>9, <2>10,
      <2>11, Zenon DEF IInv
<1>5. CASE ChainThrows
  <2>1. ThreadTypes'
    BY <1>5 DEF ThreadTypes, Steps, DestroySteps, LoopSteps, AbortSteps,
        ElementStates, ChainThrows, Streaming, Fail, locks, flags, pads,
        library
  <2>2. FlagTypes'
    BY <1>5 DEF FlagTypes, EventKinds, PhaseInv, ChainThrows, Streaming, Fail,
        locks, flags, pads, library
  <2>3. CodecTypes'
    BY <1>5 DEF CodecTypes, FlagTypes, CodecKinds, ChainThrows, Streaming,
        Fail, locks, flags, pads, library
  <2>4. HistoryTypes'
    BY <1>5 DEF HistoryTypes, FlagTypes, Failures, ChainThrows, Streaming,
        Fail, locks, flags, pads, library
  <2>5. PhaseInv'
    BY <1>5 DEF ThreadTypes, FlagTypes, CodecTypes, HistoryTypes, PhaseInv,
        BeforeInv, DestroySteps, ChainThrows, Streaming, Fail, locks, flags,
        pads, library
  <2>6. EncoderInv'
    BY <1>5 DEF FlagTypes, CodecTypes, PhaseInv, EncoderInv, CodecKinds,
        ChainThrows, Streaming, Fail, locks, flags, pads, library
  <2>7. FreshInv'
    BY <1>5 DEF ThreadTypes, FlagTypes, CodecTypes, HistoryTypes, PhaseInv,
        FreshInv, BeforeInv, DestroySteps, ChainThrows, Streaming, Fail, locks,
        flags, pads, library
  <2>8. BeforeInv'
    BY <1>5 DEF ThreadTypes, FlagTypes, CodecTypes, HistoryTypes, PhaseInv,
        EncoderInv, BeforeInv, DestroySteps, ChainThrows, Streaming, Fail,
        locks, flags, pads, library
  <2>9. TellInv'
    BY <1>5 DEF ThreadTypes, FlagTypes, CodecTypes, HistoryTypes, PhaseInv,
        EncoderInv, FreshInv, BeforeInv, TellInv, ChainThrows, Streaming, Fail,
        locks, flags, pads, library
  <2>10. LockInv'
    BY <1>5 DEF ThreadTypes, FlagTypes, PhaseInv, LockInv, DestroySteps,
        LoopSteps, AbortSteps, ChainThrows, Streaming, Fail, locks, flags,
        pads, library
  <2>11. JoinInv'
    BY <1>5 DEF ThreadTypes, FlagTypes, PhaseInv, JoinInv, DestroySteps,
        LoopSteps, AbortSteps, ChainThrows, Streaming, Fail, locks, flags,
        pads, library
  <2> QED BY <2>1, <2>2, <2>3, <2>4, <2>5, <2>6, <2>7, <2>8, <2>9, <2>10,
      <2>11, Zenon DEF IInv
<1>6. CASE EosEvent
  <2>1. ThreadTypes'
    BY <1>6 DEF ThreadTypes, Steps, DestroySteps, LoopSteps, AbortSteps,
        ElementStates, EosEvent, Streaming, Goto, locks, flags, library,
        history
  <2>2. FlagTypes'
    BY <1>6 DEF FlagTypes, EventKinds, PhaseInv, EosEvent, Streaming, Goto,
        locks, flags, library, history
  <2>3. CodecTypes'
    BY <1>6 DEF CodecTypes, FlagTypes, CodecKinds, EosEvent, Streaming, Goto,
        locks, flags, library, history
  <2>4. HistoryTypes'
    BY <1>6 DEF HistoryTypes, FlagTypes, Failures, EosEvent, Streaming, Goto,
        locks, flags, library, history
  <2>5. PhaseInv'
    BY <1>6 DEF ThreadTypes, FlagTypes, CodecTypes, HistoryTypes, PhaseInv,
        BeforeInv, DestroySteps, EosEvent, Streaming, Goto, locks, flags,
        library, history
  <2>6. EncoderInv'
    BY <1>6 DEF FlagTypes, CodecTypes, PhaseInv, EncoderInv, CodecKinds,
        EosEvent, Streaming, Goto, locks, flags, library, history
  <2>7. FreshInv'
    BY <1>6 DEF ThreadTypes, FlagTypes, CodecTypes, HistoryTypes, PhaseInv,
        FreshInv, BeforeInv, DestroySteps, EosEvent, Streaming, Goto, locks,
        flags, library, history
  <2>8. BeforeInv'
    BY <1>6 DEF ThreadTypes, FlagTypes, CodecTypes, HistoryTypes, PhaseInv,
        EncoderInv, BeforeInv, DestroySteps, EosEvent, Streaming, Goto, locks,
        flags, library, history
  <2>9. TellInv'
    BY <1>6 DEF ThreadTypes, FlagTypes, CodecTypes, HistoryTypes, PhaseInv,
        EncoderInv, FreshInv, BeforeInv, TellInv, EosEvent, Streaming, Goto,
        locks, flags, library, history
  <2>10. LockInv'
    BY <1>6 DEF ThreadTypes, FlagTypes, PhaseInv, LockInv, DestroySteps,
        LoopSteps, AbortSteps, EosEvent, Streaming, Goto, locks, flags,
        library, history
  <2>11. JoinInv'
    BY <1>6 DEF ThreadTypes, FlagTypes, PhaseInv, JoinInv, DestroySteps,
        LoopSteps, AbortSteps, EosEvent, Streaming, Goto, locks, flags,
        library, history
  <2> QED BY <2>1, <2>2, <2>3, <2>4, <2>5, <2>6, <2>7, <2>8, <2>9, <2>10,
      <2>11, Zenon DEF IInv
<1>7. CASE SetCaps
  <2>1. ThreadTypes'
    BY <1>7 DEF ThreadTypes, Steps, DestroySteps, LoopSteps, AbortSteps,
        ElementStates, SetCaps, Streaming, Goto, locks, flags, library, history
  <2>2. FlagTypes'
    BY <1>7 DEF FlagTypes, EventKinds, PhaseInv, SetCaps, Streaming, Goto,
        locks, flags, library, history
  <2>3. CodecTypes'
    BY <1>7 DEF CodecTypes, FlagTypes, CodecKinds, SetCaps, Streaming, Goto,
        locks, flags, library, history
  <2>4. HistoryTypes'
    BY <1>7 DEF HistoryTypes, FlagTypes, Failures, SetCaps, Streaming, Goto,
        locks, flags, library, history
  <2>5. PhaseInv'
    BY <1>7 DEF ThreadTypes, FlagTypes, CodecTypes, HistoryTypes, PhaseInv,
        BeforeInv, DestroySteps, SetCaps, Streaming, Goto, locks, flags,
        library, history
  <2>6. EncoderInv'
    BY <1>7 DEF FlagTypes, CodecTypes, PhaseInv, EncoderInv, CodecKinds,
        SetCaps, Streaming, Goto, locks, flags, library, history
  <2>7. FreshInv'
    BY <1>7 DEF ThreadTypes, FlagTypes, CodecTypes, HistoryTypes, PhaseInv,
        FreshInv, BeforeInv, DestroySteps, SetCaps, Streaming, Goto, locks,
        flags, library, history
  <2>8. BeforeInv'
    BY <1>7 DEF ThreadTypes, FlagTypes, CodecTypes, HistoryTypes, PhaseInv,
        EncoderInv, BeforeInv, DestroySteps, SetCaps, Streaming, Goto, locks,
        flags, library, history
  <2>9. TellInv'
    BY <1>7 DEF ThreadTypes, FlagTypes, CodecTypes, HistoryTypes, PhaseInv,
        EncoderInv, FreshInv, BeforeInv, TellInv, SetCaps, Streaming, Goto,
        locks, flags, library, history
  <2>10. LockInv'
    BY <1>7 DEF ThreadTypes, FlagTypes, PhaseInv, LockInv, DestroySteps,
        LoopSteps, AbortSteps, SetCaps, Streaming, Goto, locks, flags, library,
        history
  <2>11. JoinInv'
    BY <1>7 DEF ThreadTypes, FlagTypes, PhaseInv, JoinInv, DestroySteps,
        LoopSteps, AbortSteps, SetCaps, Streaming, Goto, locks, flags, library,
        history
  <2> QED BY <2>1, <2>2, <2>3, <2>4, <2>5, <2>6, <2>7, <2>8, <2>9, <2>10,
      <2>11, Zenon DEF IInv
<1>8. CASE InitEncoder
  <2>a. /\ joinable \in BOOLEAN /\ made \in 0..MaxEncoders /\ made < MaxEncoders
        /\ encode = 0 /\ pc[Streamer] = "init"
    BY <1>8 DEF FlagTypes, PhaseInv, InitEncoder, locks, pads, library
  <2>b. /\ event_queue' = event_queue /\ encode' = 0 /\ send_eos' = send_eos
        /\ got_eos' = got_eos /\ failed' = failed /\ told' = told
        /\ event_mtx' = event_mtx /\ eos_mtx' = eos_mtx /\ packet' = packet
        /\ negotiated' = negotiated /\ sink_eos' = sink_eos /\ pad_eos' = pad_eos
        /\ codec' = codec /\ pending' = pending /\ eos_in' = eos_in /\ eos_out' = eos_out
    BY <1>8, <2>a DEF InitEncoder, locks, pads, library
  <2>1. ThreadTypes'
    <3>1. CASE joinable
      BY <1>8, <2>a, <2>b, <3>1 DEF ThreadTypes, InitEncoder, ElementStates
    <3>2. CASE ~joinable
      BY <1>8, <2>a, <2>b, <3>2 DEF ThreadTypes, FlagTypes, InitEncoder, Steps,
          LoopSteps
    <3> QED BY <2>a, <3>1, <3>2
  <2>2. FlagTypes'
    <3>1. CASE joinable
      BY <1>8, <2>a, <2>b, <3>1 DEF FlagTypes, InitEncoder
    <3>2. CASE ~joinable
      BY <1>8, <2>a, <2>b, <3>2 DEF FlagTypes, ThreadTypes, InitEncoder
    <3> QED BY <2>a, <3>1, <3>2
  <2>3. CodecTypes'
    <3>1. CASE joinable
      BY <1>8, <2>a, <2>b, <3>1 DEF CodecTypes, InitEncoder
    <3>2. CASE ~joinable
      BY <1>8, <2>a, <2>b, <3>2 DEF CodecTypes, ThreadTypes, FlagTypes,
          InitEncoder
    <3> QED BY <2>a, <3>1, <3>2
  <2>4. HistoryTypes'
    <3>1. CASE joinable
      BY <1>8, <2>a, <2>b, <3>1 DEF HistoryTypes, InitEncoder
    <3>2. CASE ~joinable
      <4>1. made' = made + 1 /\ (fresh' = fresh \/ fresh' = fresh \union {made + 1})
        BY <1>8, <3>2 DEF InitEncoder
      <4>2. made + 1 \in 1..made' /\ \A k \in 0..made : k \in 0..made'
        BY <2>a, <4>1
      <4>3. packet' \in 0..made' /\ told' \subseteq 1..made'
        BY <2>a, <2>b, <4>1, <4>2 DEF HistoryTypes
      <4>4. fresh' \subseteq 1..made'
        <5> SUFFICES ASSUME NEW k \in fresh' PROVE k \in 1..made'
          OBVIOUS
        <5>1. k = made + 1 \/ k \in fresh
          BY <4>1
        <5>2. k \in fresh => k \in 1..made
          BY DEF HistoryTypes
        <5> QED BY <2>a, <4>1, <4>2, <5>1, <5>2
      <4> QED BY <2>b, <4>3, <4>4 DEF HistoryTypes
    <3> QED BY <2>a, <3>1, <3>2
  <2>5. PhaseInv'
    <3>1. CASE joinable
      BY <1>8, <2>a, <2>b, <3>1 DEF PhaseInv, InitEncoder, DestroySteps
    <3>2. CASE ~joinable
      BY <1>8, <2>a, <2>b, <3>2 DEF PhaseInv, ThreadTypes, FlagTypes,
          InitEncoder, CodecTypes, EncoderInv, DestroySteps
    <3> QED BY <2>a, <3>1, <3>2
  <2>6. EncoderInv'
    <3>1. CASE joinable
      BY <1>8, <2>a, <2>b, <3>1 DEF EncoderInv, InitEncoder
    <3>2. CASE ~joinable
      BY <1>8, <2>a, <2>b, <3>2 DEF EncoderInv, ThreadTypes, FlagTypes,
          InitEncoder, CodecTypes
    <3> QED BY <2>a, <3>1, <3>2
  <2>7. FreshInv'
    <3>1. CASE joinable
      <4>1. UNCHANGED <<pc, made, fresh, joinable, got_eos>>
        BY <1>8, <2>b, <3>1 DEF InitEncoder
      <4>2. FreshInv
        OBVIOUS
      <4> QED BY <4>1, <4>2 DEF FreshInv
    <3>2. CASE ~joinable
      <4>1. /\ joinable' = TRUE /\ made' = made + 1
            /\ fresh' = fresh \/ (~got_eos /\ fresh' = fresh \union {made + 1})
        BY <1>8, <3>2 DEF InitEncoder
      <4>2. pc'[App] = pc[App] /\ pc'[Streamer] = "create"
        BY <1>8, <3>2 DEF InitEncoder, ThreadTypes
      <4>3. (~got_eos => made = 0) /\ (made = 0 => 1 \notin fresh)
        BY <2>a, <3>2 DEF FreshInv, HistoryTypes
      <4>4. \A t \in {App, Streamer} : pc'[t] \in {"join", "free"} => got_eos'
        BY <2>b, <4>2 DEF FreshInv
      <4>5. fresh' \subseteq {1}
        <5> SUFFICES ASSUME NEW k \in fresh' PROVE k = 1
          OBVIOUS
        <5>1. CASE k \in fresh
          BY <5>1 DEF FreshInv
        <5>2. CASE k \notin fresh
          BY <2>a, <4>1, <4>3, <5>2
        <5> QED BY <5>1, <5>2
      <4>6. 1 \in fresh' /\ made' = 1 => ~got_eos'
        BY <2>a, <2>b, <4>1, <4>3
      <4>7. made' > 1 => got_eos'
        BY <2>a, <2>b, <4>1, <4>3
      <4> QED BY <4>1, <4>4, <4>5, <4>6, <4>7 DEF FreshInv
    <3> QED BY <2>a, <3>1, <3>2
  <2>8. BeforeInv'
    <3>1. CASE joinable
      BY <1>8, <2>a, <2>b, <3>1 DEF BeforeInv, InitEncoder
    <3>2. CASE ~joinable
      BY <1>8, <2>a, <2>b, <3>2 DEF BeforeInv, ThreadTypes, FlagTypes,
          InitEncoder, CodecTypes, EncoderInv
    <3> QED BY <2>a, <3>1, <3>2
  <2>9. TellInv'
    <3>1. CASE joinable
      BY <1>8, <2>a, <2>b, <3>1 DEF TellInv, InitEncoder
    <3>2. CASE ~joinable
      BY <1>8, <2>a, <2>b, <3>2 DEF TellInv, ThreadTypes, FlagTypes,
          InitEncoder, CodecTypes, HistoryTypes, EncoderInv, BeforeInv,
          FreshInv
    <3> QED BY <2>a, <3>1, <3>2
  <2>10. LockInv'
    <3>1. CASE joinable
      BY <1>8, <2>a, <2>b, <3>1 DEF LockInv, InitEncoder
    <3>2. CASE ~joinable
      BY <1>8, <2>a, <2>b, <3>2 DEF LockInv, ThreadTypes, FlagTypes,
          InitEncoder, JoinInv
    <3> QED BY <2>a, <3>1, <3>2
  <2>11. JoinInv'
    <3>1. CASE joinable
      BY <1>8, <2>a, <2>b, <3>1 DEF JoinInv, InitEncoder
    <3>2. CASE ~joinable
      BY <1>8, <2>a, <2>b, <3>2 DEF JoinInv, ThreadTypes, FlagTypes,
          InitEncoder, PhaseInv
    <3> QED BY <2>a, <3>1, <3>2
  <2> QED BY <2>1, <2>2, <2>3, <2>4, <2>5, <2>6, <2>7, <2>8, <2>9, <2>10,
      <2>11, Zenon DEF IInv
<1>9. CASE CreateEncoder
  <2>a. /\ made \in Encoders /\ codec[made] = "absent" /\ encode = 0
        /\ encode' \in {0, made}
        /\ encode' = 0 => codec' = codec
        /\ encode' # 0 => codec' = [codec EXCEPT ![made] = "running"]
    BY <1>9 DEF FlagTypes, PhaseInv, CreateEncoder, Goto, Fail, locks, pads
  <2>c. encode' # 0 /\ made # 1 => codec'[1] = codec[1]
    BY <2>a DEF CodecTypes
  <2>b. /\ pc'[Loop] = pc[Loop] /\ pc'[Codec] = pc[Codec] /\ pc'[App] = pc[App]
        /\ pc'[Streamer] = "idle" /\ pc[Streamer] = "create"
        /\ UNCHANGED <<made, told, fresh, event_queue, joinable, got_eos, eos_out>>
    BY <1>9 DEF ThreadTypes, CreateEncoder, Goto, Fail, locks, pads
  <2>1. ThreadTypes'
    BY <1>9, <2>a, <2>c, <2>b DEF ThreadTypes, Steps, DestroySteps, LoopSteps,
        AbortSteps, ElementStates, CreateEncoder, Goto, Fail, locks, pads
  <2>2. FlagTypes'
    BY <1>9, <2>a, <2>c, <2>b DEF FlagTypes, EventKinds, PhaseInv,
        CreateEncoder, Goto, Fail, locks, pads
  <2>3. CodecTypes'
    BY <1>9, <2>a, <2>c, <2>b DEF CodecTypes, FlagTypes, CodecKinds,
        CreateEncoder, Goto, Fail, locks, pads
  <2>4. HistoryTypes'
    BY <1>9, <2>a, <2>c, <2>b DEF HistoryTypes, FlagTypes, Failures,
        CreateEncoder, Goto, Fail, locks, pads
  <2>5. PhaseInv'
    BY <1>9, <2>a, <2>c, <2>b DEF ThreadTypes, FlagTypes, CodecTypes,
        HistoryTypes, PhaseInv, BeforeInv, DestroySteps, CreateEncoder, Goto,
        Fail, locks, pads
  <2>6. EncoderInv'
    BY <1>9, <2>a, <2>c, <2>b DEF FlagTypes, CodecTypes, PhaseInv, EncoderInv,
        CodecKinds, CreateEncoder, Goto, Fail, locks, pads
  <2>7. FreshInv'
    BY <1>9, <2>a, <2>c, <2>b DEF ThreadTypes, FlagTypes, CodecTypes,
        HistoryTypes, PhaseInv, FreshInv, BeforeInv, DestroySteps,
        CreateEncoder, Goto, Fail, locks, pads
  <2>8. BeforeInv'
    BY <1>9, <2>a, <2>c, <2>b DEF ThreadTypes, FlagTypes, CodecTypes,
        HistoryTypes, PhaseInv, EncoderInv, BeforeInv, DestroySteps,
        CreateEncoder, Goto, Fail, locks, pads
  <2>9. TellInv'
    <3>1. CASE encode' = 0
      BY <2>a, <2>b, <3>1 DEF TellInv
    <3>2. CASE encode' # 0 /\ made # 1
      BY <2>a, <2>b, <2>c, <3>2 DEF TellInv
    <3>3. CASE encode' # 0 /\ made = 1
      <4>1. /\ event_queue = <<>> /\ told = {} /\ pc[Codec] = "idle" /\ ~(1 \in fresh /\ got_eos)
            /\ pc[Loop] \in {"none", "lock_event", "test", "blocking", "blocked", "exited"}
        BY <2>a, <2>b, <3>3 DEF BeforeInv, FreshInv
      <4> QED BY <2>a, <2>b, <3>3, <4>1 DEF TellInv
    <3> QED BY <3>1, <3>2, <3>3
  <2>10. LockInv'
    BY <1>9, <2>a, <2>c, <2>b DEF ThreadTypes, FlagTypes, PhaseInv, LockInv,
        DestroySteps, LoopSteps, AbortSteps, CreateEncoder, Goto, Fail, locks,
        pads
  <2>11. JoinInv'
    BY <1>9, <2>a, <2>c, <2>b DEF ThreadTypes, FlagTypes, PhaseInv, JoinInv,
        DestroySteps, LoopSteps, AbortSteps, CreateEncoder, Goto, Fail, locks,
        pads
  <2> QED BY <2>1, <2>2, <2>3, <2>4, <2>5, <2>6, <2>7, <2>8, <2>9, <2>10,
      <2>11, Zenon DEF IInv
<1>10. ASSUME NEW t \in {App, Streamer}, FeedEos(t)
      PROVE  IInv'
  <2>a. /\ UNCHANGED <<codec, pending, eos_out, encode, made>>
        /\ \/ eos_in' = eos_in
           \/ encode \in Encoders /\ eos_in' = [eos_in EXCEPT ![encode] = eos_in[encode] + 1]
    BY <1>10 DEF FlagTypes, FeedEos, CodecTakesEos, Goto, Fail, locks, flags,
        pads
  <2>b. \A g \in Encoders : /\ eos_in[g] > 0 => eos_in'[g] > 0
                            /\ g # encode => eos_in'[g] = eos_in[g]
    <3>1. CASE eos_in' = eos_in
      BY <3>1 DEF CodecTypes
    <3>2. CASE encode \in Encoders /\ eos_in' = [eos_in EXCEPT ![encode] = eos_in[encode] + 1]
      BY <3>2 DEF CodecTypes
    <3> QED BY <2>a, <3>1, <3>2
  <2>1. ThreadTypes'
    BY <1>10 DEF ThreadTypes, Steps, DestroySteps, LoopSteps, AbortSteps,
        ElementStates, FeedEos, CodecTakesEos, Goto, Fail, locks, flags, pads
  <2>2. FlagTypes'
    BY <1>10 DEF FlagTypes, EventKinds, PhaseInv, FeedEos, CodecTakesEos, Goto,
        Fail, locks, flags, pads
  <2>3. CodecTypes'
    <3>1. CASE eos_in' = eos_in
      BY <2>a, <3>1 DEF CodecTypes
    <3>2. CASE encode \in Encoders /\ eos_in' = [eos_in EXCEPT ![encode] = eos_in[encode] + 1]
      BY <2>a, <3>2 DEF CodecTypes
    <3> QED BY <2>a, <3>1, <3>2
  <2>4. HistoryTypes'
    BY <1>10 DEF HistoryTypes, FlagTypes, Failures, FeedEos, CodecTakesEos,
        Goto, Fail, locks, flags, pads
  <2>5. PhaseInv'
    BY <1>10 DEF ThreadTypes, FlagTypes, CodecTypes, HistoryTypes, PhaseInv,
        BeforeInv, DestroySteps, FeedEos, CodecTakesEos, Goto, Fail, locks,
        flags, pads
  <2>6. EncoderInv'
    <3>1. EncoderInv /\ \A g \in Encoders : codec[g] = "absent" => g # encode
      BY DEF EncoderInv
    <3> HIDE FiveThreads, BoundAssumption DEF IInv, Encoders
    <3>2. UNCHANGED <<codec, pending, eos_out, encode, made>>
      BY <2>a
    <3> QED BY <2>b, <3>1, <3>2 DEF EncoderInv
  <2>7. FreshInv'
    BY <1>10 DEF ThreadTypes, FlagTypes, CodecTypes, HistoryTypes, PhaseInv,
        FreshInv, BeforeInv, DestroySteps, FeedEos, CodecTakesEos, Goto, Fail,
        locks, flags, pads
  <2>8. BeforeInv'
    BY <1>10 DEF ThreadTypes, FlagTypes, CodecTypes, HistoryTypes, PhaseInv,
        EncoderInv, BeforeInv, DestroySteps, FeedEos, CodecTakesEos, Goto,
        Fail, locks, flags, pads
  <2>9. TellInv'
    BY <1>10 DEF ThreadTypes, FlagTypes, CodecTypes, HistoryTypes, PhaseInv,
        EncoderInv, FreshInv, BeforeInv, TellInv, FeedEos, CodecTakesEos, Goto,
        Fail, locks, flags, pads
  <2>10. LockInv'
    BY <1>10 DEF ThreadTypes, FlagTypes, PhaseInv, LockInv, DestroySteps,
        LoopSteps, AbortSteps, FeedEos, CodecTakesEos, Goto, Fail, locks,
        flags, pads
  <2>11. JoinInv'
    BY <1>10 DEF ThreadTypes, FlagTypes, PhaseInv, JoinInv, DestroySteps,
        LoopSteps, AbortSteps, FeedEos, CodecTakesEos, Goto, Fail, locks,
        flags, pads
  <2> QED BY <2>1, <2>2, <2>3, <2>4, <2>5, <2>6, <2>7, <2>8, <2>9, <2>10,
      <2>11, Zenon DEF IInv
<1>11. ASSUME NEW t \in {App, Streamer}, FeedEosSent(t)
      PROVE  IInv'
  <2>1. ThreadTypes'
    BY <1>11 DEF ThreadTypes, Steps, DestroySteps, LoopSteps, AbortSteps,
        ElementStates, FeedEosSent, Goto, locks, pads, library, history
  <2>2. FlagTypes'
    BY <1>11 DEF FlagTypes, EventKinds, PhaseInv, FeedEosSent, Goto, locks,
        pads, library, history
  <2>3. CodecTypes'
    BY <1>11 DEF CodecTypes, FlagTypes, CodecKinds, FeedEosSent, Goto, locks,
        pads, library, history
  <2>4. HistoryTypes'
    BY <1>11 DEF HistoryTypes, FlagTypes, Failures, FeedEosSent, Goto, locks,
        pads, library, history
  <2>5. PhaseInv'
    BY <1>11 DEF ThreadTypes, FlagTypes, CodecTypes, HistoryTypes, PhaseInv,
        BeforeInv, DestroySteps, FeedEosSent, Goto, locks, pads, library,
        history
  <2>6. EncoderInv'
    BY <1>11 DEF FlagTypes, CodecTypes, PhaseInv, EncoderInv, CodecKinds,
        FeedEosSent, Goto, locks, pads, library, history
  <2>7. FreshInv'
    BY <1>11 DEF ThreadTypes, FlagTypes, CodecTypes, HistoryTypes, PhaseInv,
        FreshInv, BeforeInv, DestroySteps, FeedEosSent, Goto, locks, pads,
        library, history
  <2>8. BeforeInv'
    BY <1>11 DEF ThreadTypes, FlagTypes, CodecTypes, HistoryTypes, PhaseInv,
        EncoderInv, BeforeInv, DestroySteps, FeedEosSent, Goto, locks, pads,
        library, history
  <2>9. TellInv'
    BY <1>11 DEF ThreadTypes, FlagTypes, CodecTypes, HistoryTypes, PhaseInv,
        EncoderInv, FreshInv, BeforeInv, TellInv, FeedEosSent, Goto, locks,
        pads, library, history
  <2>10. LockInv'
    BY <1>11 DEF ThreadTypes, FlagTypes, PhaseInv, LockInv, DestroySteps,
        LoopSteps, AbortSteps, FeedEosSent, Goto, locks, pads, library, history
  <2>11. JoinInv'
    BY <1>11 DEF ThreadTypes, FlagTypes, PhaseInv, JoinInv, DestroySteps,
        LoopSteps, AbortSteps, FeedEosSent, Goto, locks, pads, library, history
  <2> QED BY <2>1, <2>2, <2>3, <2>4, <2>5, <2>6, <2>7, <2>8, <2>9, <2>10,
      <2>11, Zenon DEF IInv
<1>12. ASSUME NEW t \in {App, Streamer}, DestroyMustFeed(t)
      PROVE  IInv'
  <2>1. ThreadTypes'
    BY <1>12 DEF ThreadTypes, Steps, DestroySteps, LoopSteps, AbortSteps,
        ElementStates, DestroyMustFeed, Goto, locks, flags, pads, library,
        history
  <2>2. FlagTypes'
    BY <1>12 DEF FlagTypes, EventKinds, PhaseInv, DestroyMustFeed, Goto, locks,
        flags, pads, library, history
  <2>3. CodecTypes'
    BY <1>12 DEF CodecTypes, FlagTypes, CodecKinds, DestroyMustFeed, Goto,
        locks, flags, pads, library, history
  <2>4. HistoryTypes'
    BY <1>12 DEF HistoryTypes, FlagTypes, Failures, DestroyMustFeed, Goto,
        locks, flags, pads, library, history
  <2>5. PhaseInv'
    BY <1>12 DEF ThreadTypes, FlagTypes, CodecTypes, HistoryTypes, PhaseInv,
        BeforeInv, DestroySteps, DestroyMustFeed, Goto, locks, flags, pads,
        library, history
  <2>6. EncoderInv'
    BY <1>12 DEF FlagTypes, CodecTypes, PhaseInv, EncoderInv, CodecKinds,
        DestroyMustFeed, Goto, locks, flags, pads, library, history
  <2>7. FreshInv'
    BY <1>12 DEF ThreadTypes, FlagTypes, CodecTypes, HistoryTypes, PhaseInv,
        FreshInv, BeforeInv, DestroySteps, DestroyMustFeed, Goto, locks, flags,
        pads, library, history
  <2>8. BeforeInv'
    BY <1>12 DEF ThreadTypes, FlagTypes, CodecTypes, HistoryTypes, PhaseInv,
        EncoderInv, BeforeInv, DestroySteps, DestroyMustFeed, Goto, locks,
        flags, pads, library, history
  <2>9. TellInv'
    BY <1>12 DEF ThreadTypes, FlagTypes, CodecTypes, HistoryTypes, PhaseInv,
        EncoderInv, FreshInv, BeforeInv, TellInv, DestroyMustFeed, Goto, locks,
        flags, pads, library, history
  <2>10. LockInv'
    BY <1>12 DEF ThreadTypes, FlagTypes, PhaseInv, LockInv, DestroySteps,
        LoopSteps, AbortSteps, DestroyMustFeed, Goto, locks, flags, pads,
        library, history
  <2>11. JoinInv'
    BY <1>12 DEF ThreadTypes, FlagTypes, PhaseInv, JoinInv, DestroySteps,
        LoopSteps, AbortSteps, DestroyMustFeed, Goto, locks, flags, pads,
        library, history
  <2> QED BY <2>1, <2>2, <2>3, <2>4, <2>5, <2>6, <2>7, <2>8, <2>9, <2>10,
      <2>11, Zenon DEF IInv
<1>13. ASSUME NEW t \in {App, Streamer}, DestroyNeedNotFeed(t)
      PROVE  IInv'
  <2>1. ThreadTypes'
    BY <1>13 DEF ThreadTypes, Steps, DestroySteps, LoopSteps, AbortSteps,
        ElementStates, DestroyNeedNotFeed, Acquire, Goto, pads, library,
        history
  <2>2. FlagTypes'
    BY <1>13 DEF FlagTypes, EventKinds, PhaseInv, DestroyNeedNotFeed, Acquire,
        Goto, pads, library, history
  <2>3. CodecTypes'
    BY <1>13 DEF CodecTypes, FlagTypes, CodecKinds, DestroyNeedNotFeed,
        Acquire, Goto, pads, library, history
  <2>4. HistoryTypes'
    BY <1>13 DEF HistoryTypes, FlagTypes, Failures, DestroyNeedNotFeed,
        Acquire, Goto, pads, library, history
  <2>5. PhaseInv'
    BY <1>13 DEF ThreadTypes, FlagTypes, CodecTypes, HistoryTypes, PhaseInv,
        BeforeInv, DestroySteps, DestroyNeedNotFeed, Acquire, Goto, pads,
        library, history
  <2>6. EncoderInv'
    BY <1>13 DEF FlagTypes, CodecTypes, PhaseInv, EncoderInv, CodecKinds,
        DestroyNeedNotFeed, Acquire, Goto, pads, library, history
  <2>7. FreshInv'
    BY <1>13 DEF ThreadTypes, FlagTypes, CodecTypes, HistoryTypes, PhaseInv,
        FreshInv, BeforeInv, DestroySteps, DestroyNeedNotFeed, Acquire, Goto,
        pads, library, history
  <2>8. BeforeInv'
    BY <1>13 DEF ThreadTypes, FlagTypes, CodecTypes, HistoryTypes, PhaseInv,
        EncoderInv, BeforeInv, DestroySteps, DestroyNeedNotFeed, Acquire, Goto,
        pads, library, history
  <2>9. TellInv'
    BY <1>13 DEF ThreadTypes, FlagTypes, CodecTypes, HistoryTypes, PhaseInv,
        EncoderInv, FreshInv, BeforeInv, TellInv, DestroyNeedNotFeed, Acquire,
        Goto, pads, library, history
  <2>10. LockInv'
    BY <1>13 DEF ThreadTypes, FlagTypes, PhaseInv, LockInv, DestroySteps,
        LoopSteps, AbortSteps, DestroyNeedNotFeed, Acquire, Goto, pads,
        library, history
  <2>11. JoinInv'
    BY <1>13 DEF ThreadTypes, FlagTypes, PhaseInv, JoinInv, DestroySteps,
        LoopSteps, AbortSteps, DestroyNeedNotFeed, Acquire, Goto, pads,
        library, history
  <2> QED BY <2>1, <2>2, <2>3, <2>4, <2>5, <2>6, <2>7, <2>8, <2>9, <2>10,
      <2>11, Zenon DEF IInv
<1>14. ASSUME NEW t \in {App, Streamer}, DestroyRelock(t)
      PROVE  IInv'
  <2>1. ThreadTypes'
    BY <1>14 DEF ThreadTypes, Steps, DestroySteps, LoopSteps, AbortSteps,
        ElementStates, DestroyRelock, Acquire, Goto, flags, pads, library,
        history
  <2>2. FlagTypes'
    BY <1>14 DEF FlagTypes, EventKinds, PhaseInv, DestroyRelock, Acquire, Goto,
        flags, pads, library, history
  <2>3. CodecTypes'
    BY <1>14 DEF CodecTypes, FlagTypes, CodecKinds, DestroyRelock, Acquire,
        Goto, flags, pads, library, history
  <2>4. HistoryTypes'
    BY <1>14 DEF HistoryTypes, FlagTypes, Failures, DestroyRelock, Acquire,
        Goto, flags, pads, library, history
  <2>5. PhaseInv'
    BY <1>14 DEF ThreadTypes, FlagTypes, CodecTypes, HistoryTypes, PhaseInv,
        BeforeInv, DestroySteps, DestroyRelock, Acquire, Goto, flags, pads,
        library, history
  <2>6. EncoderInv'
    BY <1>14 DEF FlagTypes, CodecTypes, PhaseInv, EncoderInv, CodecKinds,
        DestroyRelock, Acquire, Goto, flags, pads, library, history
  <2>7. FreshInv'
    BY <1>14 DEF ThreadTypes, FlagTypes, CodecTypes, HistoryTypes, PhaseInv,
        FreshInv, BeforeInv, DestroySteps, DestroyRelock, Acquire, Goto, flags,
        pads, library, history
  <2>8. BeforeInv'
    BY <1>14 DEF ThreadTypes, FlagTypes, CodecTypes, HistoryTypes, PhaseInv,
        EncoderInv, BeforeInv, DestroySteps, DestroyRelock, Acquire, Goto,
        flags, pads, library, history
  <2>9. TellInv'
    BY <1>14 DEF ThreadTypes, FlagTypes, CodecTypes, HistoryTypes, PhaseInv,
        EncoderInv, FreshInv, BeforeInv, TellInv, DestroyRelock, Acquire, Goto,
        flags, pads, library, history
  <2>10. LockInv'
    BY <1>14 DEF ThreadTypes, FlagTypes, PhaseInv, LockInv, DestroySteps,
        LoopSteps, AbortSteps, DestroyRelock, Acquire, Goto, flags, pads,
        library, history
  <2>11. JoinInv'
    BY <1>14 DEF ThreadTypes, FlagTypes, PhaseInv, JoinInv, DestroySteps,
        LoopSteps, AbortSteps, DestroyRelock, Acquire, Goto, flags, pads,
        library, history
  <2> QED BY <2>1, <2>2, <2>3, <2>4, <2>5, <2>6, <2>7, <2>8, <2>9, <2>10,
      <2>11, Zenon DEF IInv
<1>15. ASSUME NEW t \in {App, Streamer}, DestroyBlock(t)
      PROVE  IInv'
  <2>1. ThreadTypes'
    BY <1>15 DEF ThreadTypes, Steps, DestroySteps, LoopSteps, AbortSteps,
        ElementStates, DestroyBlock, Release, Goto, flags, pads, library,
        history
  <2>2. FlagTypes'
    BY <1>15 DEF FlagTypes, EventKinds, PhaseInv, DestroyBlock, Release, Goto,
        flags, pads, library, history
  <2>3. CodecTypes'
    BY <1>15 DEF CodecTypes, FlagTypes, CodecKinds, DestroyBlock, Release,
        Goto, flags, pads, library, history
  <2>4. HistoryTypes'
    BY <1>15 DEF HistoryTypes, FlagTypes, Failures, DestroyBlock, Release,
        Goto, flags, pads, library, history
  <2>5. PhaseInv'
    BY <1>15 DEF ThreadTypes, FlagTypes, CodecTypes, HistoryTypes, PhaseInv,
        BeforeInv, DestroySteps, DestroyBlock, Release, Goto, flags, pads,
        library, history
  <2>6. EncoderInv'
    BY <1>15 DEF FlagTypes, CodecTypes, PhaseInv, EncoderInv, CodecKinds,
        DestroyBlock, Release, Goto, flags, pads, library, history
  <2>7. FreshInv'
    BY <1>15 DEF ThreadTypes, FlagTypes, CodecTypes, HistoryTypes, PhaseInv,
        FreshInv, BeforeInv, DestroySteps, DestroyBlock, Release, Goto, flags,
        pads, library, history
  <2>8. BeforeInv'
    BY <1>15 DEF ThreadTypes, FlagTypes, CodecTypes, HistoryTypes, PhaseInv,
        EncoderInv, BeforeInv, DestroySteps, DestroyBlock, Release, Goto,
        flags, pads, library, history
  <2>9. TellInv'
    BY <1>15 DEF ThreadTypes, FlagTypes, CodecTypes, HistoryTypes, PhaseInv,
        EncoderInv, FreshInv, BeforeInv, TellInv, DestroyBlock, Release, Goto,
        flags, pads, library, history
  <2>10. LockInv'
    BY <1>15 DEF ThreadTypes, FlagTypes, PhaseInv, LockInv, DestroySteps,
        LoopSteps, AbortSteps, DestroyBlock, Release, Goto, flags, pads,
        library, history
  <2>11. JoinInv'
    BY <1>15 DEF ThreadTypes, FlagTypes, PhaseInv, JoinInv, DestroySteps,
        LoopSteps, AbortSteps, DestroyBlock, Release, Goto, flags, pads,
        library, history
  <2> QED BY <2>1, <2>2, <2>3, <2>4, <2>5, <2>6, <2>7, <2>8, <2>9, <2>10,
      <2>11, Zenon DEF IInv
<1>16. ASSUME NEW t \in {App, Streamer}, DestroyNotify(t)
      PROVE  IInv'
  <2>1. ThreadTypes'
    BY <1>16 DEF ThreadTypes, Steps, DestroySteps, LoopSteps, AbortSteps,
        ElementStates, DestroyNotify, locks, flags, pads, library, history
  <2>2. FlagTypes'
    BY <1>16 DEF FlagTypes, EventKinds, PhaseInv, DestroyNotify, locks, flags,
        pads, library, history
  <2>3. CodecTypes'
    BY <1>16 DEF CodecTypes, FlagTypes, CodecKinds, DestroyNotify, locks,
        flags, pads, library, history
  <2>4. HistoryTypes'
    BY <1>16 DEF HistoryTypes, FlagTypes, Failures, DestroyNotify, locks,
        flags, pads, library, history
  <2>5. PhaseInv'
    BY <1>16 DEF ThreadTypes, FlagTypes, CodecTypes, HistoryTypes, PhaseInv,
        BeforeInv, DestroySteps, DestroyNotify, locks, flags, pads, library,
        history
  <2>6. EncoderInv'
    BY <1>16 DEF FlagTypes, CodecTypes, PhaseInv, EncoderInv, CodecKinds,
        DestroyNotify, locks, flags, pads, library, history
  <2>7. FreshInv'
    BY <1>16 DEF ThreadTypes, FlagTypes, CodecTypes, HistoryTypes, PhaseInv,
        FreshInv, BeforeInv, DestroySteps, DestroyNotify, locks, flags, pads,
        library, history
  <2>8. BeforeInv'
    BY <1>16 DEF ThreadTypes, FlagTypes, CodecTypes, HistoryTypes, PhaseInv,
        EncoderInv, BeforeInv, DestroySteps, DestroyNotify, locks, flags, pads,
        library, history
  <2>9. TellInv'
    BY <1>16 DEF ThreadTypes, FlagTypes, CodecTypes, HistoryTypes, PhaseInv,
        EncoderInv, FreshInv, BeforeInv, TellInv, DestroyNotify, locks, flags,
        pads, library, history
  <2>10. LockInv'
    BY <1>16 DEF ThreadTypes, FlagTypes, PhaseInv, LockInv, DestroySteps,
        LoopSteps, AbortSteps, DestroyNotify, locks, flags, pads, library,
        history
  <2>11. JoinInv'
    BY <1>16 DEF ThreadTypes, FlagTypes, PhaseInv, JoinInv, DestroySteps,
        LoopSteps, AbortSteps, DestroyNotify, locks, flags, pads, library,
        history
  <2> QED BY <2>1, <2>2, <2>3, <2>4, <2>5, <2>6, <2>7, <2>8, <2>9, <2>10,
      <2>11, Zenon DEF IInv
<1>17. ASSUME NEW t \in {App, Streamer}, DestroyJoin(t)
      PROVE  IInv'
  <2>1. ThreadTypes'
    BY <1>17 DEF ThreadTypes, Steps, DestroySteps, LoopSteps, AbortSteps,
        ElementStates, DestroyJoin, Goto, locks, pads, library, history
  <2>2. FlagTypes'
    BY <1>17 DEF FlagTypes, EventKinds, PhaseInv, DestroyJoin, Goto, locks,
        pads, library, history
  <2>3. CodecTypes'
    BY <1>17 DEF CodecTypes, FlagTypes, CodecKinds, DestroyJoin, Goto, locks,
        pads, library, history
  <2>4. HistoryTypes'
    BY <1>17 DEF HistoryTypes, FlagTypes, Failures, DestroyJoin, Goto, locks,
        pads, library, history
  <2>5. PhaseInv'
    BY <1>17 DEF ThreadTypes, FlagTypes, CodecTypes, HistoryTypes, PhaseInv,
        BeforeInv, DestroySteps, DestroyJoin, Goto, locks, pads, library,
        history
  <2>6. EncoderInv'
    BY <1>17 DEF FlagTypes, CodecTypes, PhaseInv, EncoderInv, CodecKinds,
        DestroyJoin, Goto, locks, pads, library, history
  <2>7. FreshInv'
    BY <1>17 DEF ThreadTypes, FlagTypes, CodecTypes, HistoryTypes, PhaseInv,
        FreshInv, BeforeInv, DestroySteps, DestroyJoin, Goto, locks, pads,
        library, history
  <2>8. BeforeInv'
    BY <1>17 DEF ThreadTypes, FlagTypes, CodecTypes, HistoryTypes, PhaseInv,
        EncoderInv, BeforeInv, DestroySteps, DestroyJoin, Goto, locks, pads,
        library, history
  <2>9. TellInv'
    BY <1>17 DEF ThreadTypes, FlagTypes, CodecTypes, HistoryTypes, PhaseInv,
        EncoderInv, FreshInv, BeforeInv, TellInv, DestroyJoin, Goto, locks,
        pads, library, history
  <2>10. LockInv'
    BY <1>17 DEF ThreadTypes, FlagTypes, PhaseInv, LockInv, DestroySteps,
        LoopSteps, AbortSteps, DestroyJoin, Goto, locks, pads, library, history
  <2>11. JoinInv'
    BY <1>17 DEF ThreadTypes, FlagTypes, PhaseInv, JoinInv, DestroySteps,
        LoopSteps, AbortSteps, DestroyJoin, Goto, locks, pads, library, history
  <2> QED BY <2>1, <2>2, <2>3, <2>4, <2>5, <2>6, <2>7, <2>8, <2>9, <2>10,
      <2>11, Zenon DEF IInv
<1>18. ASSUME NEW t \in {App, Streamer}, DestroyFree(t)
      PROVE  IInv'
  <2>a. /\ \A g \in Encoders : codec'[g] = IF g = encode THEN "destroyed" ELSE codec[g]
        /\ 1 \in Encoders /\ codec[1] \in CodecKinds
    BY <1>18 DEF FlagTypes, CodecTypes, EncoderInv, DestroyFree, Release, Goto,
        pads, history
  <2>b. /\ pc'[Loop] = pc[Loop] /\ pc'[Codec] = pc[Codec]
        /\ UNCHANGED <<made, told, event_queue>>
    BY <1>18 DEF ThreadTypes, DestroyFree, Release, Goto, pads, history
  <2>1. ThreadTypes'
    BY <1>18, <2>a, <2>b DEF ThreadTypes, Steps, DestroySteps, LoopSteps,
        AbortSteps, ElementStates, DestroyFree, Release, Goto, pads, history
  <2>2. FlagTypes'
    BY <1>18, <2>a, <2>b DEF FlagTypes, EventKinds, PhaseInv, DestroyFree,
        Release, Goto, pads, history
  <2>3. CodecTypes'
    BY <1>18, <2>a, <2>b DEF CodecTypes, FlagTypes, CodecKinds, DestroyFree,
        Release, Goto, pads, history
  <2>4. HistoryTypes'
    BY <1>18, <2>a, <2>b DEF HistoryTypes, FlagTypes, Failures, DestroyFree,
        Release, Goto, pads, history
  <2>5. PhaseInv'
    BY <1>18, <2>a, <2>b DEF ThreadTypes, FlagTypes, CodecTypes, HistoryTypes,
        PhaseInv, BeforeInv, DestroySteps, DestroyFree, Release, Goto, pads,
        history
  <2>6. EncoderInv'
    BY <1>18, <2>a, <2>b DEF FlagTypes, CodecTypes, PhaseInv, EncoderInv,
        CodecKinds, DestroyFree, Release, Goto, pads, history
  <2>7. FreshInv'
    BY <1>18, <2>a, <2>b DEF ThreadTypes, FlagTypes, CodecTypes, HistoryTypes,
        PhaseInv, FreshInv, BeforeInv, DestroySteps, DestroyFree, Release,
        Goto, pads, history
  <2>8. BeforeInv'
    BY <2>a, <2>b DEF BeforeInv
  <2>9. TellInv'
    BY <1>18, <2>a, <2>b DEF ThreadTypes, FlagTypes, CodecTypes, HistoryTypes,
        PhaseInv, EncoderInv, FreshInv, BeforeInv, TellInv, DestroyFree,
        Release, Goto, pads, history
  <2>10. LockInv'
    BY <1>18, <2>a, <2>b DEF ThreadTypes, FlagTypes, PhaseInv, LockInv,
        DestroySteps, LoopSteps, AbortSteps, DestroyFree, Release, Goto, pads,
        history
  <2>11. JoinInv'
    BY <1>18, <2>a, <2>b DEF ThreadTypes, FlagTypes, PhaseInv, JoinInv,
        DestroySteps, LoopSteps, AbortSteps, DestroyFree, Release, Goto, pads,
        history
  <2> QED BY <2>1, <2>2, <2>3, <2>4, <2>5, <2>6, <2>7, <2>8, <2>9, <2>10,
      <2>11, Zenon DEF IInv
<1>19. CASE LoopLock
  <2>1. ThreadTypes'
    BY <1>19 DEF ThreadTypes, Steps, DestroySteps, LoopSteps, AbortSteps,
        ElementStates, LoopLock, Acquire, Goto, flags, pads, library, history
  <2>2. FlagTypes'
    BY <1>19 DEF FlagTypes, EventKinds, PhaseInv, LoopLock, Acquire, Goto,
        flags, pads, library, history
  <2>3. CodecTypes'
    BY <1>19 DEF CodecTypes, FlagTypes, CodecKinds, LoopLock, Acquire, Goto,
        flags, pads, library, history
  <2>4. HistoryTypes'
    BY <1>19 DEF HistoryTypes, FlagTypes, Failures, LoopLock, Acquire, Goto,
        flags, pads, library, history
  <2>5. PhaseInv'
    BY <1>19 DEF ThreadTypes, FlagTypes, CodecTypes, HistoryTypes, PhaseInv,
        BeforeInv, DestroySteps, LoopLock, Acquire, Goto, flags, pads, library,
        history
  <2>6. EncoderInv'
    BY <1>19 DEF FlagTypes, CodecTypes, PhaseInv, EncoderInv, CodecKinds,
        LoopLock, Acquire, Goto, flags, pads, library, history
  <2>7. FreshInv'
    BY <1>19 DEF ThreadTypes, FlagTypes, CodecTypes, HistoryTypes, PhaseInv,
        FreshInv, BeforeInv, DestroySteps, LoopLock, Acquire, Goto, flags,
        pads, library, history
  <2>8. BeforeInv'
    BY <1>19 DEF ThreadTypes, FlagTypes, CodecTypes, HistoryTypes, PhaseInv,
        EncoderInv, BeforeInv, DestroySteps, LoopLock, Acquire, Goto, flags,
        pads, library, history
  <2>9. TellInv'
    BY <1>19 DEF ThreadTypes, FlagTypes, CodecTypes, HistoryTypes, PhaseInv,
        EncoderInv, FreshInv, BeforeInv, TellInv, LoopLock, Acquire, Goto,
        flags, pads, library, history
  <2>10. LockInv'
    BY <1>19 DEF ThreadTypes, FlagTypes, PhaseInv, LockInv, DestroySteps,
        LoopSteps, AbortSteps, LoopLock, Acquire, Goto, flags, pads, library,
        history
  <2>11. JoinInv'
    BY <1>19 DEF ThreadTypes, FlagTypes, PhaseInv, JoinInv, DestroySteps,
        LoopSteps, AbortSteps, LoopLock, Acquire, Goto, flags, pads, library,
        history
  <2> QED BY <2>1, <2>2, <2>3, <2>4, <2>5, <2>6, <2>7, <2>8, <2>9, <2>10,
      <2>11, Zenon DEF IInv
<1>20. CASE LoopExit
  <2>1. ThreadTypes'
    BY <1>20 DEF ThreadTypes, Steps, DestroySteps, LoopSteps, AbortSteps,
        ElementStates, LoopExit, Release, Goto, flags, pads, library, history
  <2>2. FlagTypes'
    BY <1>20 DEF FlagTypes, EventKinds, PhaseInv, LoopExit, Release, Goto,
        flags, pads, library, history
  <2>3. CodecTypes'
    BY <1>20 DEF CodecTypes, FlagTypes, CodecKinds, LoopExit, Release, Goto,
        flags, pads, library, history
  <2>4. HistoryTypes'
    BY <1>20 DEF HistoryTypes, FlagTypes, Failures, LoopExit, Release, Goto,
        flags, pads, library, history
  <2>5. PhaseInv'
    BY <1>20 DEF ThreadTypes, FlagTypes, CodecTypes, HistoryTypes, PhaseInv,
        BeforeInv, DestroySteps, LoopExit, Release, Goto, flags, pads, library,
        history
  <2>6. EncoderInv'
    BY <1>20 DEF FlagTypes, CodecTypes, PhaseInv, EncoderInv, CodecKinds,
        LoopExit, Release, Goto, flags, pads, library, history
  <2>7. FreshInv'
    BY <1>20 DEF ThreadTypes, FlagTypes, CodecTypes, HistoryTypes, PhaseInv,
        FreshInv, BeforeInv, DestroySteps, LoopExit, Release, Goto, flags,
        pads, library, history
  <2>8. BeforeInv'
    BY <1>20 DEF ThreadTypes, FlagTypes, CodecTypes, HistoryTypes, PhaseInv,
        EncoderInv, BeforeInv, DestroySteps, LoopExit, Release, Goto, flags,
        pads, library, history
  <2>9. TellInv'
    BY <1>20 DEF ThreadTypes, FlagTypes, CodecTypes, HistoryTypes, PhaseInv,
        EncoderInv, FreshInv, BeforeInv, TellInv, LoopExit, Release, Goto,
        flags, pads, library, history
  <2>10. LockInv'
    BY <1>20 DEF ThreadTypes, FlagTypes, PhaseInv, LockInv, DestroySteps,
        LoopSteps, AbortSteps, LoopExit, Release, Goto, flags, pads, library,
        history
  <2>11. JoinInv'
    BY <1>20 DEF ThreadTypes, FlagTypes, PhaseInv, JoinInv, DestroySteps,
        LoopSteps, AbortSteps, LoopExit, Release, Goto, flags, pads, library,
        history
  <2> QED BY <2>1, <2>2, <2>3, <2>4, <2>5, <2>6, <2>7, <2>8, <2>9, <2>10,
      <2>11, Zenon DEF IInv
<1>21. CASE LoopTake
  <2>1. ThreadTypes'
    BY <1>21 DEF ThreadTypes, Steps, DestroySteps, LoopSteps, AbortSteps,
        ElementStates, LoopTake, Release, Goto, flags, pads, library, history
  <2>2. FlagTypes'
    BY <1>21 DEF FlagTypes, EventKinds, PhaseInv, LoopTake, Release, Goto,
        flags, pads, library, history
  <2>3. CodecTypes'
    BY <1>21 DEF CodecTypes, FlagTypes, CodecKinds, LoopTake, Release, Goto,
        flags, pads, library, history
  <2>4. HistoryTypes'
    BY <1>21 DEF HistoryTypes, FlagTypes, Failures, LoopTake, Release, Goto,
        flags, pads, library, history
  <2>5. PhaseInv'
    BY <1>21 DEF ThreadTypes, FlagTypes, CodecTypes, HistoryTypes, PhaseInv,
        BeforeInv, DestroySteps, LoopTake, Release, Goto, flags, pads, library,
        history
  <2>6. EncoderInv'
    BY <1>21 DEF FlagTypes, CodecTypes, PhaseInv, EncoderInv, CodecKinds,
        LoopTake, Release, Goto, flags, pads, library, history
  <2>7. FreshInv'
    BY <1>21 DEF ThreadTypes, FlagTypes, CodecTypes, HistoryTypes, PhaseInv,
        FreshInv, BeforeInv, DestroySteps, LoopTake, Release, Goto, flags,
        pads, library, history
  <2>8. BeforeInv'
    BY <1>21 DEF ThreadTypes, FlagTypes, CodecTypes, HistoryTypes, PhaseInv,
        EncoderInv, BeforeInv, DestroySteps, LoopTake, Release, Goto, flags,
        pads, library, history
  <2>9. TellInv'
    BY <1>21 DEF ThreadTypes, FlagTypes, CodecTypes, HistoryTypes, PhaseInv,
        EncoderInv, FreshInv, BeforeInv, TellInv, LoopTake, Release, Goto,
        flags, pads, library, history
  <2>10. LockInv'
    BY <1>21 DEF ThreadTypes, FlagTypes, PhaseInv, LockInv, DestroySteps,
        LoopSteps, AbortSteps, LoopTake, Release, Goto, flags, pads, library,
        history
  <2>11. JoinInv'
    BY <1>21 DEF ThreadTypes, FlagTypes, PhaseInv, JoinInv, DestroySteps,
        LoopSteps, AbortSteps, LoopTake, Release, Goto, flags, pads, library,
        history
  <2> QED BY <2>1, <2>2, <2>3, <2>4, <2>5, <2>6, <2>7, <2>8, <2>9, <2>10,
      <2>11, Zenon DEF IInv
<1>22. CASE LoopMustWait
  <2>1. ThreadTypes'
    BY <1>22 DEF ThreadTypes, Steps, DestroySteps, LoopSteps, AbortSteps,
        ElementStates, LoopMustWait, Goto, locks, flags, pads, library, history
  <2>2. FlagTypes'
    BY <1>22 DEF FlagTypes, EventKinds, PhaseInv, LoopMustWait, Goto, locks,
        flags, pads, library, history
  <2>3. CodecTypes'
    BY <1>22 DEF CodecTypes, FlagTypes, CodecKinds, LoopMustWait, Goto, locks,
        flags, pads, library, history
  <2>4. HistoryTypes'
    BY <1>22 DEF HistoryTypes, FlagTypes, Failures, LoopMustWait, Goto, locks,
        flags, pads, library, history
  <2>5. PhaseInv'
    BY <1>22 DEF ThreadTypes, FlagTypes, CodecTypes, HistoryTypes, PhaseInv,
        BeforeInv, DestroySteps, LoopMustWait, Goto, locks, flags, pads,
        library, history
  <2>6. EncoderInv'
    BY <1>22 DEF FlagTypes, CodecTypes, PhaseInv, EncoderInv, CodecKinds,
        LoopMustWait, Goto, locks, flags, pads, library, history
  <2>7. FreshInv'
    BY <1>22 DEF ThreadTypes, FlagTypes, CodecTypes, HistoryTypes, PhaseInv,
        FreshInv, BeforeInv, DestroySteps, LoopMustWait, Goto, locks, flags,
        pads, library, history
  <2>8. BeforeInv'
    BY <1>22 DEF ThreadTypes, FlagTypes, CodecTypes, HistoryTypes, PhaseInv,
        EncoderInv, BeforeInv, DestroySteps, LoopMustWait, Goto, locks, flags,
        pads, library, history
  <2>9. TellInv'
    BY <1>22 DEF ThreadTypes, FlagTypes, CodecTypes, HistoryTypes, PhaseInv,
        EncoderInv, FreshInv, BeforeInv, TellInv, LoopMustWait, Goto, locks,
        flags, pads, library, history
  <2>10. LockInv'
    BY <1>22 DEF ThreadTypes, FlagTypes, PhaseInv, LockInv, DestroySteps,
        LoopSteps, AbortSteps, LoopMustWait, Goto, locks, flags, pads, library,
        history
  <2>11. JoinInv'
    BY <1>22 DEF ThreadTypes, FlagTypes, PhaseInv, JoinInv, DestroySteps,
        LoopSteps, AbortSteps, LoopMustWait, Goto, locks, flags, pads, library,
        history
  <2> QED BY <2>1, <2>2, <2>3, <2>4, <2>5, <2>6, <2>7, <2>8, <2>9, <2>10,
      <2>11, Zenon DEF IInv
<1>23. CASE LoopBlock
  <2>1. ThreadTypes'
    BY <1>23 DEF ThreadTypes, Steps, DestroySteps, LoopSteps, AbortSteps,
        ElementStates, LoopBlock, Release, Goto, flags, pads, library, history
  <2>2. FlagTypes'
    BY <1>23 DEF FlagTypes, EventKinds, PhaseInv, LoopBlock, Release, Goto,
        flags, pads, library, history
  <2>3. CodecTypes'
    BY <1>23 DEF CodecTypes, FlagTypes, CodecKinds, LoopBlock, Release, Goto,
        flags, pads, library, history
  <2>4. HistoryTypes'
    BY <1>23 DEF HistoryTypes, FlagTypes, Failures, LoopBlock, Release, Goto,
        flags, pads, library, history
  <2>5. PhaseInv'
    BY <1>23 DEF ThreadTypes, FlagTypes, CodecTypes, HistoryTypes, PhaseInv,
        BeforeInv, DestroySteps, LoopBlock, Release, Goto, flags, pads,
        library, history
  <2>6. EncoderInv'
    BY <1>23 DEF FlagTypes, CodecTypes, PhaseInv, EncoderInv, CodecKinds,
        LoopBlock, Release, Goto, flags, pads, library, history
  <2>7. FreshInv'
    BY <1>23 DEF ThreadTypes, FlagTypes, CodecTypes, HistoryTypes, PhaseInv,
        FreshInv, BeforeInv, DestroySteps, LoopBlock, Release, Goto, flags,
        pads, library, history
  <2>8. BeforeInv'
    BY <1>23 DEF ThreadTypes, FlagTypes, CodecTypes, HistoryTypes, PhaseInv,
        EncoderInv, BeforeInv, DestroySteps, LoopBlock, Release, Goto, flags,
        pads, library, history
  <2>9. TellInv'
    BY <1>23 DEF ThreadTypes, FlagTypes, CodecTypes, HistoryTypes, PhaseInv,
        EncoderInv, FreshInv, BeforeInv, TellInv, LoopBlock, Release, Goto,
        flags, pads, library, history
  <2>10. LockInv'
    BY <1>23 DEF ThreadTypes, FlagTypes, PhaseInv, LockInv, DestroySteps,
        LoopSteps, AbortSteps, LoopBlock, Release, Goto, flags, pads, library,
        history
  <2>11. JoinInv'
    BY <1>23 DEF ThreadTypes, FlagTypes, PhaseInv, JoinInv, DestroySteps,
        LoopSteps, AbortSteps, LoopBlock, Release, Goto, flags, pads, library,
        history
  <2> QED BY <2>1, <2>2, <2>3, <2>4, <2>5, <2>6, <2>7, <2>8, <2>9, <2>10,
      <2>11, Zenon DEF IInv
<1>24. ASSUME NEW t \in {Loop, Codec}, AbortCheck(t)
      PROVE  IInv'
  <2>1. ThreadTypes'
    BY <1>24 DEF ThreadTypes, Steps, DestroySteps, LoopSteps, AbortSteps,
        ElementStates, AbortCheck, LeaveAbort, Goto, locks, flags, pads,
        history
  <2>2. FlagTypes'
    BY <1>24 DEF FlagTypes, EventKinds, PhaseInv, AbortCheck, LeaveAbort, Goto,
        locks, flags, pads, history
  <2>3. CodecTypes'
    BY <1>24 DEF CodecTypes, FlagTypes, CodecKinds, AbortCheck, LeaveAbort,
        Goto, locks, flags, pads, history
  <2>4. HistoryTypes'
    BY <1>24 DEF HistoryTypes, FlagTypes, Failures, AbortCheck, LeaveAbort,
        Goto, locks, flags, pads, history
  <2>5. PhaseInv'
    BY <1>24 DEF ThreadTypes, FlagTypes, CodecTypes, HistoryTypes, PhaseInv,
        BeforeInv, DestroySteps, AbortCheck, LeaveAbort, Goto, locks, flags,
        pads, history
  <2>6. EncoderInv'
    BY <1>24 DEF FlagTypes, CodecTypes, PhaseInv, EncoderInv, CodecKinds,
        AbortCheck, LeaveAbort, Goto, locks, flags, pads, history
  <2>7. FreshInv'
    BY <1>24 DEF ThreadTypes, FlagTypes, CodecTypes, HistoryTypes, PhaseInv,
        FreshInv, BeforeInv, DestroySteps, AbortCheck, LeaveAbort, Goto, locks,
        flags, pads, history
  <2>8. BeforeInv'
    BY <1>24 DEF ThreadTypes, FlagTypes, CodecTypes, HistoryTypes, PhaseInv,
        EncoderInv, BeforeInv, DestroySteps, AbortCheck, LeaveAbort, Goto,
        locks, flags, pads, history
  <2>9. TellInv'
    BY <1>24 DEF ThreadTypes, FlagTypes, CodecTypes, HistoryTypes, PhaseInv,
        EncoderInv, FreshInv, BeforeInv, TellInv, AbortCheck, LeaveAbort, Goto,
        locks, flags, pads, history
  <2>10. LockInv'
    BY <1>24 DEF ThreadTypes, FlagTypes, PhaseInv, LockInv, DestroySteps,
        LoopSteps, AbortSteps, AbortCheck, LeaveAbort, Goto, locks, flags,
        pads, history
  <2>11. JoinInv'
    BY <1>24 DEF ThreadTypes, FlagTypes, PhaseInv, JoinInv, DestroySteps,
        LoopSteps, AbortSteps, AbortCheck, LeaveAbort, Goto, locks, flags,
        pads, history
  <2> QED BY <2>1, <2>2, <2>3, <2>4, <2>5, <2>6, <2>7, <2>8, <2>9, <2>10,
      <2>11, Zenon DEF IInv
<1>25. ASSUME NEW t \in {Loop, Codec}, AbortCall(t)
      PROVE  IInv'
  <2>a. /\ \A g \in Encoders : codec'[g] = IF g = encode THEN "aborted" ELSE codec[g]
        /\ \A g \in Encoders : pending'[g] = IF g = encode THEN 0 ELSE pending[g]
        /\ encode # 0 => encode = made /\ codec[made] \in {"running", "aborted"}
        /\ 1 \in Encoders /\ codec[1] \in CodecKinds /\ (encode # 0 => made \in Encoders)
        /\ codec[1] = "running" => encode = 1
    BY <1>25 DEF FlagTypes, CodecTypes, EncoderInv, AbortCall, Goto, locks,
        flags, pads, history
  <2>c. /\ pc'[App] = pc[App] /\ pc'[Streamer] = pc[Streamer] /\ pc'[t] = "abort_null"
        /\ \A s \in {Loop, Codec} : s # t => pc'[s] = pc[s]
        /\ pc[t] = "abort_call" 
    BY <1>25 DEF ThreadTypes, AbortCall, Goto, locks, flags, pads, history
  <2>d. UNCHANGED <<made, joinable, got_eos, told, fresh, eos_in, eos_out, event_queue, encode>>
    BY <1>25 DEF AbortCall, Goto, locks, flags, pads, history
  <2>1. ThreadTypes'
    BY <1>25, <2>a, <2>c, <2>d DEF ThreadTypes, Steps, DestroySteps, LoopSteps,
        AbortSteps, ElementStates, AbortCall, Goto, locks, flags, pads, history
  <2>2. FlagTypes'
    BY <1>25, <2>a, <2>c, <2>d DEF FlagTypes, EventKinds, PhaseInv, AbortCall,
        Goto, locks, flags, pads, history
  <2>3. CodecTypes'
    BY <1>25, <2>a, <2>c, <2>d DEF CodecTypes, FlagTypes, CodecKinds,
        AbortCall, Goto, locks, flags, pads, history
  <2>4. HistoryTypes'
    BY <1>25, <2>a, <2>c, <2>d DEF HistoryTypes, FlagTypes, Failures,
        AbortCall, Goto, locks, flags, pads, history
  <2>5. PhaseInv'
    BY <1>25, <2>a, <2>c, <2>d DEF ThreadTypes, FlagTypes, CodecTypes,
        HistoryTypes, PhaseInv, BeforeInv, DestroySteps, AbortCall, Goto,
        locks, flags, pads, history
  <2>6. EncoderInv'
    BY <2>a, <2>c, <2>d DEF EncoderInv
  <2>7. FreshInv'
    BY <1>25, <2>a, <2>c, <2>d DEF ThreadTypes, FlagTypes, CodecTypes,
        HistoryTypes, PhaseInv, FreshInv, BeforeInv, DestroySteps, AbortCall,
        Goto, locks, flags, pads, history
  <2>8. BeforeInv'
    BY <2>a, <2>c, <2>d DEF BeforeInv
  <2>9. TellInv'
    BY <2>a, <2>c, <2>d DEF TellInv, BeforeInv, CodecKinds, ThreadTypes
  <2>10. LockInv'
    BY <1>25, <2>a, <2>c, <2>d DEF ThreadTypes, FlagTypes, PhaseInv, LockInv,
        DestroySteps, LoopSteps, AbortSteps, AbortCall, Goto, locks, flags,
        pads, history
  <2>11. JoinInv'
    BY <1>25, <2>a, <2>c, <2>d DEF ThreadTypes, FlagTypes, PhaseInv, JoinInv,
        DestroySteps, LoopSteps, AbortSteps, AbortCall, Goto, locks, flags,
        pads, history
  <2> QED BY <2>1, <2>2, <2>3, <2>4, <2>5, <2>6, <2>7, <2>8, <2>9, <2>10,
      <2>11, Zenon DEF IInv
<1>26. ASSUME NEW t \in {Loop, Codec}, AbortNull(t)
      PROVE  IInv'
  <2>c. /\ pc'[App] = pc[App] /\ pc'[Streamer] = pc[Streamer] /\ pc'[t] = "abort_lock"
        /\ \A s \in {Loop, Codec} : s # t => pc'[s] = pc[s]
        /\ pc[t] = "abort_null" 
    BY <1>26 DEF ThreadTypes, AbortNull, Goto, locks, pads, library, history
  <2>d. /\ UNCHANGED <<made, joinable, got_eos, told, fresh, codec, pending, eos_in, eos_out, event_queue>>
        /\ encode' = 0 /\ encode \in {0, made} /\ 1 \in Encoders
    BY <1>26 DEF FlagTypes, AbortNull, Goto, locks, pads, library, history
  <2>1. ThreadTypes'
    BY <1>26, <2>c, <2>d DEF ThreadTypes, Steps, DestroySteps, LoopSteps,
        AbortSteps, ElementStates, AbortNull, Goto, locks, pads, library,
        history
  <2>2. FlagTypes'
    BY <1>26, <2>c, <2>d DEF FlagTypes, EventKinds, PhaseInv, AbortNull, Goto,
        locks, pads, library, history
  <2>3. CodecTypes'
    BY <1>26, <2>c, <2>d DEF CodecTypes, FlagTypes, CodecKinds, AbortNull,
        Goto, locks, pads, library, history
  <2>4. HistoryTypes'
    BY <1>26, <2>c, <2>d DEF HistoryTypes, FlagTypes, Failures, AbortNull,
        Goto, locks, pads, library, history
  <2>5. PhaseInv'
    BY <1>26, <2>c, <2>d DEF ThreadTypes, FlagTypes, CodecTypes, HistoryTypes,
        PhaseInv, BeforeInv, DestroySteps, AbortNull, Goto, locks, pads,
        library, history
  <2>6. EncoderInv'
    BY <2>c, <2>d DEF EncoderInv, TellInv, BeforeInv
  <2>7. FreshInv'
    BY <1>26, <2>c, <2>d DEF ThreadTypes, FlagTypes, CodecTypes, HistoryTypes,
        PhaseInv, FreshInv, BeforeInv, DestroySteps, AbortNull, Goto, locks,
        pads, library, history
  <2>8. BeforeInv'
    BY <2>c, <2>d DEF BeforeInv
  <2>9. TellInv'
    BY <2>c, <2>d DEF TellInv
  <2>10. LockInv'
    BY <1>26, <2>c, <2>d DEF ThreadTypes, FlagTypes, PhaseInv, LockInv,
        DestroySteps, LoopSteps, AbortSteps, AbortNull, Goto, locks, pads,
        library, history
  <2>11. JoinInv'
    BY <1>26, <2>c, <2>d DEF ThreadTypes, FlagTypes, PhaseInv, JoinInv,
        DestroySteps, LoopSteps, AbortSteps, AbortNull, Goto, locks, pads,
        library, history
  <2> QED BY <2>1, <2>2, <2>3, <2>4, <2>5, <2>6, <2>7, <2>8, <2>9, <2>10,
      <2>11, Zenon DEF IInv
<1>27. ASSUME NEW t \in {Loop, Codec}, HandleEos(t)
      PROVE  IInv'
  <2>p. /\ t # Codec \/ pc[t] # "eos_lock"
        /\ pc[Loop] # "eos_blocked" /\ pc[Codec] # "eos_blocked"
        /\ pc[t] \in {"eos_lock", "abort_lock", "set_got_eos"}
    BY <1>27 DEF ThreadTypes, LoopSteps, AbortSteps, HandleEos, Acquire,
        NotifyEos, pads, library
  <2>m. /\ made \in Encoders /\ 1 \in Encoders /\ codec[1] \in CodecKinds
        /\ made = 1 => codec[1] # "absent" 
    <3>1. 1 \in Encoders /\ codec[1] \in CodecKinds /\ made \in 0..MaxEncoders
      BY DEF FlagTypes, CodecTypes
    <3>2. made = 0 => codec[1] = "absent"
      BY <3>1 DEF EncoderInv
    <3>3. made <= 1 => codec[1] # "absent"
      BY <2>p, FiveThreads DEF BeforeInv
    <3> QED BY <3>1, <3>2, <3>3
  <2>n. /\ \A s \in {App, Streamer} : pc'[s] = pc[s] \/ (pc'[s] = "relock" /\ pc[s] = "eos_blocked")
        /\ \A s \in {Loop, Codec} : s # t => pc'[s] = pc[s]
        /\ pc'[t] = (IF pc[t] = "eos_lock" THEN "eos_push" ELSE "abort_push")
    BY <1>27, <2>p DEF HandleEos, Acquire, NotifyEos, pads, library
  <2>1. ThreadTypes'
    BY <1>27, <2>p, <2>m, <2>n DEF ThreadTypes, Steps, DestroySteps, LoopSteps,
        AbortSteps, ElementStates, HandleEos, Acquire, NotifyEos, pads, library
  <2>2. FlagTypes'
    BY <1>27, <2>p, <2>m, <2>n DEF FlagTypes, EventKinds, PhaseInv, HandleEos,
        Acquire, NotifyEos, pads, library
  <2>3. CodecTypes'
    BY <1>27, <2>p, <2>m, <2>n DEF CodecTypes, FlagTypes, CodecKinds,
        HandleEos, Acquire, NotifyEos, pads, library
  <2>4. HistoryTypes'
    BY <1>27, <2>m DEF HistoryTypes, HandleEos, Acquire, NotifyEos, pads,
        library
  <2>5. PhaseInv'
    BY <1>27, <2>p, <2>m, <2>n DEF ThreadTypes, FlagTypes, CodecTypes,
        HistoryTypes, PhaseInv, BeforeInv, DestroySteps, HandleEos, Acquire,
        NotifyEos, pads, library
  <2>6. EncoderInv'
    BY <1>27, <2>p, <2>m, <2>n DEF FlagTypes, CodecTypes, PhaseInv, EncoderInv,
        CodecKinds, HandleEos, Acquire, NotifyEos, pads, library
  <2>7. FreshInv'
    BY <1>27, <2>m, <2>n DEF FreshInv, PhaseInv, BeforeInv, HandleEos, Acquire,
        NotifyEos, pads, library
  <2>8. BeforeInv'
    BY <1>27, <2>p, <2>m, <2>n DEF ThreadTypes, FlagTypes, CodecTypes,
        HistoryTypes, PhaseInv, EncoderInv, BeforeInv, DestroySteps, HandleEos,
        Acquire, NotifyEos, pads, library
  <2>9. TellInv'
    BY <1>27, <2>m, <2>n, <2>p DEF TellInv, FlagTypes, HandleEos, Acquire,
        NotifyEos, pads, library
  <2>10. LockInv'
    BY <1>27, <2>p, <2>m, <2>n DEF ThreadTypes, FlagTypes, PhaseInv, LockInv,
        DestroySteps, LoopSteps, AbortSteps, HandleEos, Acquire, NotifyEos,
        pads, library
  <2>11. JoinInv'
    BY <1>27, <2>p, <2>m, <2>n DEF ThreadTypes, FlagTypes, PhaseInv, JoinInv,
        DestroySteps, LoopSteps, AbortSteps, HandleEos, Acquire, NotifyEos,
        pads, library
  <2> QED BY <2>1, <2>2, <2>3, <2>4, <2>5, <2>6, <2>7, <2>8, <2>9, <2>10,
      <2>11, Zenon DEF IInv
<1>28. ASSUME NEW t \in {Loop, Codec}, PushEos(t)
      PROVE  IInv'
  <2>1. ThreadTypes'
    BY <1>28 DEF ThreadTypes, Steps, DestroySteps, LoopSteps, AbortSteps,
        ElementStates, PushEos, Release, Goto, flags, library, history
  <2>2. FlagTypes'
    BY <1>28 DEF FlagTypes, EventKinds, PhaseInv, PushEos, Release, Goto,
        flags, library, history
  <2>3. CodecTypes'
    BY <1>28 DEF CodecTypes, FlagTypes, CodecKinds, PushEos, Release, Goto,
        flags, library, history
  <2>4. HistoryTypes'
    BY <1>28 DEF HistoryTypes, FlagTypes, Failures, PushEos, Release, Goto,
        flags, library, history
  <2>5. PhaseInv'
    BY <1>28 DEF ThreadTypes, FlagTypes, CodecTypes, HistoryTypes, PhaseInv,
        BeforeInv, DestroySteps, PushEos, Release, Goto, flags, library,
        history
  <2>6. EncoderInv'
    BY <1>28 DEF FlagTypes, CodecTypes, PhaseInv, EncoderInv, CodecKinds,
        PushEos, Release, Goto, flags, library, history
  <2>7. FreshInv'
    BY <1>28 DEF ThreadTypes, FlagTypes, CodecTypes, HistoryTypes, PhaseInv,
        FreshInv, BeforeInv, DestroySteps, PushEos, Release, Goto, flags,
        library, history
  <2>8. BeforeInv'
    BY <1>28 DEF ThreadTypes, FlagTypes, CodecTypes, HistoryTypes, PhaseInv,
        EncoderInv, BeforeInv, DestroySteps, PushEos, Release, Goto, flags,
        library, history
  <2>9. TellInv'
    BY <1>28 DEF ThreadTypes, FlagTypes, CodecTypes, HistoryTypes, PhaseInv,
        EncoderInv, FreshInv, BeforeInv, TellInv, PushEos, Release, Goto,
        flags, library, history
  <2>10. LockInv'
    BY <1>28 DEF ThreadTypes, FlagTypes, PhaseInv, LockInv, DestroySteps,
        LoopSteps, AbortSteps, PushEos, Release, Goto, flags, library, history
  <2>11. JoinInv'
    BY <1>28 DEF ThreadTypes, FlagTypes, PhaseInv, JoinInv, DestroySteps,
        LoopSteps, AbortSteps, PushEos, Release, Goto, flags, library, history
  <2> QED BY <2>1, <2>2, <2>3, <2>4, <2>5, <2>6, <2>7, <2>8, <2>9, <2>10,
      <2>11, Zenon DEF IInv
<1>29. ASSUME NEW t \in {Loop, Codec}, AbortGotEos(t)
      PROVE  IInv'
  <2>p. /\ t # Codec \/ pc[t] # "eos_lock"
        /\ pc[Loop] # "eos_blocked" /\ pc[Codec] # "eos_blocked"
        /\ pc[t] \in {"eos_lock", "abort_lock", "set_got_eos"}
    BY <1>29 DEF ThreadTypes, LoopSteps, AbortSteps, AbortGotEos, NotifyEos,
        locks, pads, history
  <2>m. /\ made \in Encoders /\ 1 \in Encoders /\ codec[1] \in CodecKinds
        /\ made = 1 => codec[1] # "absent" 
    <3>1. 1 \in Encoders /\ codec[1] \in CodecKinds /\ made \in 0..MaxEncoders
      BY DEF FlagTypes, CodecTypes
    <3>2. made = 0 => codec[1] = "absent"
      BY <3>1 DEF EncoderInv
    <3>3. made <= 1 => codec[1] # "absent"
      BY <2>p, FiveThreads DEF BeforeInv
    <3> QED BY <3>1, <3>2, <3>3
  <2>n. /\ \A s \in {App, Streamer} : pc'[s] = pc[s] \/ (pc'[s] = "relock" /\ pc[s] = "eos_blocked")
        /\ \A s \in {Loop, Codec} : s # t => pc'[s] = pc[s]
        /\ pc'[t] = (IF t = Loop THEN "lock_event" ELSE "idle")
    BY <1>29, <2>p DEF AbortGotEos, NotifyEos, locks, pads, history
  <2>1. ThreadTypes'
    BY <1>29, <2>p, <2>m, <2>n DEF ThreadTypes, Steps, DestroySteps, LoopSteps,
        AbortSteps, ElementStates, AbortGotEos, NotifyEos, locks, pads, history
  <2>2. FlagTypes'
    BY <1>29, <2>p, <2>m, <2>n DEF FlagTypes, EventKinds, PhaseInv,
        AbortGotEos, NotifyEos, locks, pads, history
  <2>3. CodecTypes'
    BY <1>29, <2>p, <2>m, <2>n DEF CodecTypes, FlagTypes, CodecKinds,
        AbortGotEos, NotifyEos, locks, pads, history
  <2>4. HistoryTypes'
    BY <1>29, <2>p, <2>m, <2>n DEF HistoryTypes, FlagTypes, Failures,
        AbortGotEos, NotifyEos, locks, pads, history
  <2>5. PhaseInv'
    BY <1>29, <2>p, <2>m, <2>n DEF ThreadTypes, FlagTypes, CodecTypes,
        HistoryTypes, PhaseInv, BeforeInv, DestroySteps, AbortGotEos,
        NotifyEos, locks, pads, history
  <2>6. EncoderInv'
    BY <1>29, <2>p, <2>m, <2>n DEF FlagTypes, CodecTypes, PhaseInv, EncoderInv,
        CodecKinds, AbortGotEos, NotifyEos, locks, pads, history
  <2>7. FreshInv'
    BY <1>29, <2>m, <2>n DEF FreshInv, PhaseInv, BeforeInv, AbortGotEos,
        NotifyEos, locks, pads, history
  <2>8. BeforeInv'
    BY <1>29, <2>p, <2>m, <2>n DEF ThreadTypes, FlagTypes, CodecTypes,
        HistoryTypes, PhaseInv, EncoderInv, BeforeInv, DestroySteps,
        AbortGotEos, NotifyEos, locks, pads, history
  <2>9. TellInv'
    BY <1>29, <2>m, <2>n DEF TellInv, FlagTypes, AbortGotEos, NotifyEos, locks,
        pads, history
  <2>10. LockInv'
    BY <1>29, <2>p, <2>m, <2>n DEF ThreadTypes, FlagTypes, PhaseInv, LockInv,
        DestroySteps, LoopSteps, AbortSteps, AbortGotEos, NotifyEos, locks,
        pads, history
  <2>11. JoinInv'
    BY <1>29, <2>p, <2>m, <2>n DEF ThreadTypes, FlagTypes, PhaseInv, JoinInv,
        DestroySteps, LoopSteps, AbortSteps, AbortGotEos, NotifyEos, locks,
        pads, history
  <2> QED BY <2>1, <2>2, <2>3, <2>4, <2>5, <2>6, <2>7, <2>8, <2>9, <2>10,
      <2>11, Zenon DEF IInv
<1>30. CASE SpuriousWakeup
  <2>1. ThreadTypes'
    BY <1>30 DEF ThreadTypes, Steps, DestroySteps, LoopSteps, AbortSteps,
        ElementStates, SpuriousWakeup, Goto, locks, flags, pads, library,
        history
  <2>2. FlagTypes'
    BY <1>30 DEF FlagTypes, EventKinds, PhaseInv, SpuriousWakeup, Goto, locks,
        flags, pads, library, history
  <2>3. CodecTypes'
    BY <1>30 DEF CodecTypes, FlagTypes, CodecKinds, SpuriousWakeup, Goto,
        locks, flags, pads, library, history
  <2>4. HistoryTypes'
    BY <1>30 DEF HistoryTypes, FlagTypes, Failures, SpuriousWakeup, Goto,
        locks, flags, pads, library, history
  <2>5. PhaseInv'
    BY <1>30 DEF ThreadTypes, FlagTypes, CodecTypes, HistoryTypes, PhaseInv,
        BeforeInv, DestroySteps, SpuriousWakeup, Goto, locks, flags, pads,
        library, history
  <2>6. EncoderInv'
    BY <1>30 DEF FlagTypes, CodecTypes, PhaseInv, EncoderInv, CodecKinds,
        SpuriousWakeup, Goto, locks, flags, pads, library, history
  <2>7. FreshInv'
    BY <1>30 DEF ThreadTypes, FlagTypes, CodecTypes, HistoryTypes, PhaseInv,
        FreshInv, BeforeInv, DestroySteps, SpuriousWakeup, Goto, locks, flags,
        pads, library, history
  <2>8. BeforeInv'
    BY <1>30 DEF ThreadTypes, FlagTypes, CodecTypes, HistoryTypes, PhaseInv,
        EncoderInv, BeforeInv, DestroySteps, SpuriousWakeup, Goto, locks,
        flags, pads, library, history
  <2>9. TellInv'
    BY <1>30 DEF ThreadTypes, FlagTypes, CodecTypes, HistoryTypes, PhaseInv,
        EncoderInv, FreshInv, BeforeInv, TellInv, SpuriousWakeup, Goto, locks,
        flags, pads, library, history
  <2>10. LockInv'
    BY <1>30 DEF ThreadTypes, FlagTypes, PhaseInv, LockInv, DestroySteps,
        LoopSteps, AbortSteps, SpuriousWakeup, Goto, locks, flags, pads,
        library, history
  <2>11. JoinInv'
    BY <1>30 DEF ThreadTypes, FlagTypes, PhaseInv, JoinInv, DestroySteps,
        LoopSteps, AbortSteps, SpuriousWakeup, Goto, locks, flags, pads,
        library, history
  <2> QED BY <2>1, <2>2, <2>3, <2>4, <2>5, <2>6, <2>7, <2>8, <2>9, <2>10,
      <2>11, Zenon DEF IInv
<1>31. CASE PushPacket
  <2>1. ThreadTypes'
    BY <1>31 DEF ThreadTypes, Steps, DestroySteps, LoopSteps, AbortSteps,
        ElementStates, PushPacket, Goto, locks, flags, pads, history
  <2>2. FlagTypes'
    BY <1>31 DEF FlagTypes, EventKinds, PhaseInv, PushPacket, Goto, locks,
        flags, pads, history
  <2>3. CodecTypes'
    BY <1>31 DEF CodecTypes, FlagTypes, CodecKinds, PushPacket, Goto, locks,
        flags, pads, history
  <2>4. HistoryTypes'
    BY <1>31 DEF HistoryTypes, FlagTypes, Failures, PushPacket, Goto, locks,
        flags, pads, history
  <2>5. PhaseInv'
    BY <1>31 DEF ThreadTypes, FlagTypes, CodecTypes, HistoryTypes, PhaseInv,
        BeforeInv, DestroySteps, PushPacket, Goto, locks, flags, pads, history
  <2>6. EncoderInv'
    BY <1>31 DEF FlagTypes, CodecTypes, PhaseInv, EncoderInv, CodecKinds,
        PushPacket, Goto, locks, flags, pads, history
  <2>7. FreshInv'
    BY <1>31 DEF ThreadTypes, FlagTypes, CodecTypes, HistoryTypes, PhaseInv,
        FreshInv, BeforeInv, DestroySteps, PushPacket, Goto, locks, flags,
        pads, history
  <2>8. BeforeInv'
    BY <1>31 DEF ThreadTypes, FlagTypes, CodecTypes, HistoryTypes, PhaseInv,
        EncoderInv, BeforeInv, DestroySteps, PushPacket, Goto, locks, flags,
        pads, history
  <2>9. TellInv'
    BY <1>31 DEF ThreadTypes, FlagTypes, CodecTypes, HistoryTypes, PhaseInv,
        EncoderInv, FreshInv, BeforeInv, TellInv, PushPacket, Goto, locks,
        flags, pads, history
  <2>10. LockInv'
    BY <1>31 DEF ThreadTypes, FlagTypes, PhaseInv, LockInv, DestroySteps,
        LoopSteps, AbortSteps, PushPacket, Goto, locks, flags, pads, history
  <2>11. JoinInv'
    BY <1>31 DEF ThreadTypes, FlagTypes, PhaseInv, JoinInv, DestroySteps,
        LoopSteps, AbortSteps, PushPacket, Goto, locks, flags, pads, history
  <2> QED BY <2>1, <2>2, <2>3, <2>4, <2>5, <2>6, <2>7, <2>8, <2>9, <2>10,
      <2>11, Zenon DEF IInv
<1>32. CASE CopyOutFails
  <2>1. ThreadTypes'
    BY <1>32 DEF ThreadTypes, Steps, DestroySteps, LoopSteps, AbortSteps,
        ElementStates, CopyOutFails, Goto, Fail, locks, flags, pads, library
  <2>2. FlagTypes'
    BY <1>32 DEF FlagTypes, EventKinds, PhaseInv, CopyOutFails, Goto, Fail,
        locks, flags, pads, library
  <2>3. CodecTypes'
    BY <1>32 DEF CodecTypes, FlagTypes, CodecKinds, CopyOutFails, Goto, Fail,
        locks, flags, pads, library
  <2>4. HistoryTypes'
    BY <1>32 DEF HistoryTypes, FlagTypes, Failures, CopyOutFails, Goto, Fail,
        locks, flags, pads, library
  <2>5. PhaseInv'
    BY <1>32 DEF ThreadTypes, FlagTypes, CodecTypes, HistoryTypes, PhaseInv,
        BeforeInv, DestroySteps, CopyOutFails, Goto, Fail, locks, flags, pads,
        library
  <2>6. EncoderInv'
    BY <1>32 DEF FlagTypes, CodecTypes, PhaseInv, EncoderInv, CodecKinds,
        CopyOutFails, Goto, Fail, locks, flags, pads, library
  <2>7. FreshInv'
    BY <1>32 DEF ThreadTypes, FlagTypes, CodecTypes, HistoryTypes, PhaseInv,
        FreshInv, BeforeInv, DestroySteps, CopyOutFails, Goto, Fail, locks,
        flags, pads, library
  <2>8. BeforeInv'
    BY <1>32 DEF ThreadTypes, FlagTypes, CodecTypes, HistoryTypes, PhaseInv,
        EncoderInv, BeforeInv, DestroySteps, CopyOutFails, Goto, Fail, locks,
        flags, pads, library
  <2>9. TellInv'
    BY <1>32 DEF ThreadTypes, FlagTypes, CodecTypes, HistoryTypes, PhaseInv,
        EncoderInv, FreshInv, BeforeInv, TellInv, CopyOutFails, Goto, Fail,
        locks, flags, pads, library
  <2>10. LockInv'
    BY <1>32 DEF ThreadTypes, FlagTypes, PhaseInv, LockInv, DestroySteps,
        LoopSteps, AbortSteps, CopyOutFails, Goto, Fail, locks, flags, pads,
        library
  <2>11. JoinInv'
    BY <1>32 DEF ThreadTypes, FlagTypes, PhaseInv, JoinInv, DestroySteps,
        LoopSteps, AbortSteps, CopyOutFails, Goto, Fail, locks, flags, pads,
        library
  <2> QED BY <2>1, <2>2, <2>3, <2>4, <2>5, <2>6, <2>7, <2>8, <2>9, <2>10,
      <2>11, Zenon DEF IInv
<1>33. ASSUME NEW g \in Encoders, CodecOutput(g)
      PROVE  IInv'
  <2>1. ThreadTypes'
    BY <1>33 DEF ThreadTypes, Steps, DestroySteps, LoopSteps, AbortSteps,
        ElementStates, CodecOutput, Goto, locks, flags, pads, history
  <2>2. FlagTypes'
    BY <1>33 DEF FlagTypes, EventKinds, PhaseInv, CodecOutput, Goto, locks,
        flags, pads, history
  <2>3. CodecTypes'
    BY <1>33 DEF CodecTypes, FlagTypes, CodecKinds, CodecOutput, Goto, locks,
        flags, pads, history
  <2>4. HistoryTypes'
    BY <1>33 DEF HistoryTypes, FlagTypes, EncoderInv, CodecOutput, Goto, locks,
        flags, pads, history
  <2>5. PhaseInv'
    BY <1>33 DEF ThreadTypes, FlagTypes, CodecTypes, HistoryTypes, PhaseInv,
        BeforeInv, DestroySteps, CodecOutput, Goto, locks, flags, pads, history
  <2>6. EncoderInv'
    BY <1>33 DEF FlagTypes, CodecTypes, PhaseInv, EncoderInv, CodecKinds,
        CodecOutput, Goto, locks, flags, pads, history
  <2>7. FreshInv'
    BY <1>33 DEF ThreadTypes, FlagTypes, CodecTypes, HistoryTypes, PhaseInv,
        FreshInv, BeforeInv, DestroySteps, CodecOutput, Goto, locks, flags,
        pads, history
  <2>8. BeforeInv'
    BY <1>33 DEF ThreadTypes, FlagTypes, CodecTypes, HistoryTypes, PhaseInv,
        EncoderInv, BeforeInv, DestroySteps, CodecOutput, Goto, locks, flags,
        pads, history
  <2>9. TellInv'
    BY <1>33 DEF ThreadTypes, FlagTypes, CodecTypes, HistoryTypes, PhaseInv,
        EncoderInv, FreshInv, BeforeInv, TellInv, CodecOutput, Goto, locks,
        flags, pads, history
  <2>10. LockInv'
    BY <1>33 DEF ThreadTypes, FlagTypes, PhaseInv, LockInv, DestroySteps,
        LoopSteps, AbortSteps, CodecOutput, Goto, locks, flags, pads, history
  <2>11. JoinInv'
    BY <1>33 DEF ThreadTypes, FlagTypes, PhaseInv, JoinInv, DestroySteps,
        LoopSteps, AbortSteps, CodecOutput, Goto, locks, flags, pads, history
  <2> QED BY <2>1, <2>2, <2>3, <2>4, <2>5, <2>6, <2>7, <2>8, <2>9, <2>10,
      <2>11, Zenon DEF IInv
<1>34. ASSUME NEW g \in Encoders, CodecCorrupt(g)
      PROVE  IInv'
  <2>1. ThreadTypes'
    BY <1>34 DEF ThreadTypes, Steps, DestroySteps, LoopSteps, AbortSteps,
        ElementStates, CodecCorrupt, HandleEvent, locks, flags, pads
  <2>2. FlagTypes'
    BY <1>34 DEF FlagTypes, EventKinds, PhaseInv, CodecCorrupt, HandleEvent,
        locks, flags, pads
  <2>3. CodecTypes'
    BY <1>34 DEF CodecTypes, FlagTypes, CodecKinds, CodecCorrupt, HandleEvent,
        locks, flags, pads
  <2>4. HistoryTypes'
    BY <1>34 DEF HistoryTypes, FlagTypes, Failures, CodecCorrupt, HandleEvent,
        locks, flags, pads
  <2>5. PhaseInv'
    BY <1>34 DEF ThreadTypes, FlagTypes, CodecTypes, HistoryTypes, PhaseInv,
        BeforeInv, DestroySteps, CodecCorrupt, HandleEvent, locks, flags, pads
  <2>6. EncoderInv'
    BY <1>34 DEF FlagTypes, CodecTypes, PhaseInv, EncoderInv, CodecKinds,
        CodecCorrupt, HandleEvent, locks, flags, pads
  <2>7. FreshInv'
    BY <1>34 DEF ThreadTypes, FlagTypes, CodecTypes, HistoryTypes, PhaseInv,
        FreshInv, BeforeInv, DestroySteps, CodecCorrupt, HandleEvent, locks,
        flags, pads
  <2>8. BeforeInv'
    BY <1>34 DEF ThreadTypes, FlagTypes, CodecTypes, HistoryTypes, PhaseInv,
        EncoderInv, BeforeInv, DestroySteps, CodecCorrupt, HandleEvent, locks,
        flags, pads
  <2>9. TellInv'
    BY <1>34 DEF ThreadTypes, FlagTypes, CodecTypes, HistoryTypes, PhaseInv,
        EncoderInv, FreshInv, BeforeInv, TellInv, CodecCorrupt, HandleEvent,
        locks, flags, pads
  <2>10. LockInv'
    BY <1>34 DEF ThreadTypes, FlagTypes, PhaseInv, LockInv, DestroySteps,
        LoopSteps, AbortSteps, CodecCorrupt, HandleEvent, locks, flags, pads
  <2>11. JoinInv'
    BY <1>34 DEF ThreadTypes, FlagTypes, PhaseInv, JoinInv, DestroySteps,
        LoopSteps, AbortSteps, CodecCorrupt, HandleEvent, locks, flags, pads
  <2> QED BY <2>1, <2>2, <2>3, <2>4, <2>5, <2>6, <2>7, <2>8, <2>9, <2>10,
      <2>11, Zenon DEF IInv
<1>35. ASSUME NEW g \in Encoders, CodecEos(g)
      PROVE  IInv'
  <2>1. ThreadTypes'
    BY <1>35 DEF ThreadTypes, Steps, DestroySteps, LoopSteps, AbortSteps,
        ElementStates, CodecEos, HandleEvent, locks, flags, pads
  <2>2. FlagTypes'
    BY <1>35 DEF FlagTypes, EventKinds, PhaseInv, CodecEos, HandleEvent, locks,
        flags, pads
  <2>3. CodecTypes'
    BY <1>35 DEF CodecTypes, FlagTypes, CodecKinds, CodecEos, HandleEvent,
        locks, flags, pads
  <2>4. HistoryTypes'
    BY <1>35 DEF HistoryTypes, FlagTypes, Failures, CodecEos, HandleEvent,
        locks, flags, pads
  <2>5. PhaseInv'
    BY <1>35 DEF ThreadTypes, FlagTypes, CodecTypes, HistoryTypes, PhaseInv,
        BeforeInv, DestroySteps, CodecEos, HandleEvent, locks, flags, pads
  <2>6. EncoderInv'
    BY <1>35 DEF FlagTypes, CodecTypes, PhaseInv, EncoderInv, CodecKinds,
        CodecEos, HandleEvent, locks, flags, pads
  <2>7. FreshInv'
    BY <1>35 DEF ThreadTypes, FlagTypes, CodecTypes, HistoryTypes, PhaseInv,
        FreshInv, BeforeInv, DestroySteps, CodecEos, HandleEvent, locks, flags,
        pads
  <2>8. BeforeInv'
    BY <1>35 DEF ThreadTypes, FlagTypes, CodecTypes, HistoryTypes, PhaseInv,
        EncoderInv, BeforeInv, DestroySteps, CodecEos, HandleEvent, locks,
        flags, pads
  <2>9. TellInv'
    BY <1>35 DEF ThreadTypes, FlagTypes, CodecTypes, HistoryTypes, PhaseInv,
        EncoderInv, FreshInv, BeforeInv, TellInv, CodecEos, HandleEvent, locks,
        flags, pads
  <2>10. LockInv'
    BY <1>35 DEF ThreadTypes, FlagTypes, PhaseInv, LockInv, DestroySteps,
        LoopSteps, AbortSteps, CodecEos, HandleEvent, locks, flags, pads
  <2>11. JoinInv'
    BY <1>35 DEF ThreadTypes, FlagTypes, PhaseInv, JoinInv, DestroySteps,
        LoopSteps, AbortSteps, CodecEos, HandleEvent, locks, flags, pads
  <2> QED BY <2>1, <2>2, <2>3, <2>4, <2>5, <2>6, <2>7, <2>8, <2>9, <2>10,
      <2>11, Zenon DEF IInv
<1>36. ASSUME NEW g \in Encoders, CodecFatal(g)
      PROVE  IInv'
  <2>1. ThreadTypes'
    BY <1>36 DEF ThreadTypes, Steps, DestroySteps, LoopSteps, AbortSteps,
        ElementStates, CodecFatal, HandleEvent, Fail, locks, flags, pads
  <2>2. FlagTypes'
    BY <1>36 DEF FlagTypes, EventKinds, PhaseInv, CodecFatal, HandleEvent,
        Fail, locks, flags, pads
  <2>3. CodecTypes'
    BY <1>36 DEF CodecTypes, FlagTypes, CodecKinds, CodecFatal, HandleEvent,
        Fail, locks, flags, pads
  <2>4. HistoryTypes'
    BY <1>36 DEF HistoryTypes, FlagTypes, Failures, CodecFatal, HandleEvent,
        Fail, locks, flags, pads
  <2>5. PhaseInv'
    BY <1>36 DEF ThreadTypes, FlagTypes, CodecTypes, HistoryTypes, PhaseInv,
        BeforeInv, DestroySteps, CodecFatal, HandleEvent, Fail, locks, flags,
        pads
  <2>6. EncoderInv'
    BY <1>36 DEF FlagTypes, CodecTypes, PhaseInv, EncoderInv, CodecKinds,
        CodecFatal, HandleEvent, Fail, locks, flags, pads
  <2>7. FreshInv'
    BY <1>36 DEF ThreadTypes, FlagTypes, CodecTypes, HistoryTypes, PhaseInv,
        FreshInv, BeforeInv, DestroySteps, CodecFatal, HandleEvent, Fail,
        locks, flags, pads
  <2>8. BeforeInv'
    BY <1>36 DEF ThreadTypes, FlagTypes, CodecTypes, HistoryTypes, PhaseInv,
        EncoderInv, BeforeInv, DestroySteps, CodecFatal, HandleEvent, Fail,
        locks, flags, pads
  <2>9. TellInv'
    BY <1>36 DEF ThreadTypes, FlagTypes, CodecTypes, HistoryTypes, PhaseInv,
        EncoderInv, FreshInv, BeforeInv, TellInv, CodecFatal, HandleEvent,
        Fail, locks, flags, pads
  <2>10. LockInv'
    BY <1>36 DEF ThreadTypes, FlagTypes, PhaseInv, LockInv, DestroySteps,
        LoopSteps, AbortSteps, CodecFatal, HandleEvent, Fail, locks, flags,
        pads
  <2>11. JoinInv'
    BY <1>36 DEF ThreadTypes, FlagTypes, PhaseInv, JoinInv, DestroySteps,
        LoopSteps, AbortSteps, CodecFatal, HandleEvent, Fail, locks, flags,
        pads
  <2> QED BY <2>1, <2>2, <2>3, <2>4, <2>5, <2>6, <2>7, <2>8, <2>9, <2>10,
      <2>11, Zenon DEF IInv
<1>37. CASE UNCHANGED vars
  <2>1. ThreadTypes'
    BY <1>37 DEF ThreadTypes, vars, locks, flags, pads, library, history
  <2>2. FlagTypes'
    BY <1>37 DEF FlagTypes, vars, locks, flags, pads, library, history
  <2>3. CodecTypes'
    BY <1>37 DEF CodecTypes, vars, locks, flags, pads, library, history
  <2>4. HistoryTypes'
    BY <1>37 DEF HistoryTypes, vars, locks, flags, pads, library, history
  <2>5. PhaseInv'
    BY <1>37 DEF PhaseInv, vars, locks, flags, pads, library, history
  <2>6. EncoderInv'
    BY <1>37 DEF EncoderInv, vars, locks, flags, pads, library, history
  <2>7. FreshInv'
    BY <1>37 DEF FreshInv, vars, locks, flags, pads, library, history
  <2>8. BeforeInv'
    BY <1>37 DEF BeforeInv, vars, locks, flags, pads, library, history
  <2>9. TellInv'
    BY <1>37 DEF TellInv, vars, locks, flags, pads, library, history
  <2>10. LockInv'
    BY <1>37 DEF LockInv, vars, locks, flags, pads, library, history
  <2>11. JoinInv'
    BY <1>37 DEF JoinInv, vars, locks, flags, pads, library, history
  <2> QED BY <2>1, <2>2, <2>3, <2>4, <2>5, <2>6, <2>7, <2>8, <2>9, <2>10,
      <2>11, Zenon DEF IInv
<1> HIDE DEF IInv
<1> QED
  BY <1>1, <1>2, <1>3, <1>4, <1>5, <1>6, <1>7, <1>8, <1>9, <1>10, <1>11, <1>12,
      <1>13, <1>14, <1>15, <1>16, <1>17, <1>18, <1>19, <1>20, <1>21, <1>22,
      <1>23, <1>24, <1>25, <1>26, <1>27, <1>28, <1>29, <1>30, <1>31, <1>32,
      <1>33, <1>34, <1>35, <1>36, <1>37 DEF Next, Finished, StateChanges,
      Stream, DestroyEncoder, EventTaskRunner, AbortOrEos, Codecs

(* The parts hold together in every reachable state.                       *)
LEMMA Invariance == Spec => []IInv
<1> QED BY InitIInv, NextIInv, PTL DEF Spec

-----------------------------------------------------------------------------
(* Every variable of the element and of the codec keeps its type, and the  *)
(* handle is null or names the last encoder made, whatever fails.          *)
THEOREM TypeCorrect == Spec => []TypeOK
<1>1. IInv => TypeOK
  BY DEF IInv, ThreadTypes, FlagTypes, CodecTypes, HistoryTypes, TypeOK
<1> QED BY <1>1, Invariance, PTL

-----------------------------------------------------------------------------
(* The flags of the end of stream are never reset: only the first encoder  *)
(* that an element makes can be created while both are clear, and from the *)
(* second on destroy_encoder feeds no end of stream and waits for none.    *)
THEOREM FlagsOutliveTheFirst == Spec => [](fresh \subseteq {1} /\ (made > 1 => got_eos))
<1>1. IInv => fresh \subseteq {1} /\ (made > 1 => got_eos)
  BY DEF IInv, FreshInv
<1> QED BY <1>1, Invariance, PTL

(* When destroy_encoder frees the encoder it has eos_mtx, nobody sends the *)
(* end of the stream downstream and the event thread has ended.            *)
Alone(t) ==
  /\ eos_mtx = t /\ event_mtx # Loop
  /\ pc[Loop] \in {"none", "exited"}
  /\ pc[Codec] \notin {"eos_push", "abort_push"}

(* An encoder is freed only in that way, on whichever thread it is and     *)
(* whatever failed before; abort_encoder, which takes no lock for the      *)
(* handle, is the exception that this leaves to the codec's thread.        *)
THEOREM FreedAlone == Spec => [](\A t \in {App, Streamer} : pc[t] = "free" => Alone(t))
<1>1. IInv => \A t \in {App, Streamer} : pc[t] = "free" => Alone(t)
  BY FiveThreads DEF IInv, LockInv, JoinInv, Alone
<1> QED BY <1>1, Invariance, PTL

-----------------------------------------------------------------------------
(* What a step does for encoder g, seen as a session: one of the session's *)
(* steps, or none.                                                         *)
Kept(g) == Session(g)!Next \/ UNCHANGED <<Phase(g), pending[g]>>

(* Each step keeps the promise of the first encoder's session:             *)
(* CreateEncoder is Open, Chain is Accept, the first end that is fed is    *)
(* Seal, CodecOutput and CodecCorrupt are Output, HandleEos is End or      *)
(* ReportAbort, AbortCall is Abort and DestroyFree is Close.               *)
LEMMA SessionSteps ==
  ASSUME IInv, [Next]_vars, 1 \in fresh
  PROVE  Kept(1)
<1> USE FiveThreads, BoundAssumption DEF IInv
<1> USE DEF Kept, Phase, Session!Next, Session!Open, Session!Accept,
        Session!AcceptLast, Session!Output, Session!Seal, Session!End,
        Session!Abort, Session!ReportAbort, Session!Close, Session!Die
<1> USE DEF locks, flags, pads, library, history
<1>1. CASE ChangeState
  BY <1>1 DEF ChangeState
<1>2. CASE PausedToReady
  BY <1>2 DEF PausedToReady
<1>3. CASE Finalize
  BY <1>3 DEF Finalize
<1>4. CASE Chain
  <2>1. /\ UNCHANGED <<codec, told, eos_in>> /\ encode \in Encoders /\ 1 \in Encoders
        /\ codec[encode] = "running" /\ eos_in[encode] = 0
        /\ pending' = [pending EXCEPT ![encode] = pending[encode] + 1]
    BY <1>4 DEF Chain, FlagTypes, CodecTakesFrame, CodecTakesEos, Encoders
  <2>2. CASE encode = 1
    <3>1. pending[1] \in Nat /\ pending'[1] = pending[1] + 1
      BY <2>1, <2>2 DEF CodecTypes
    <3>2. 1 \notin told
      BY <2>1, <2>2 DEF TellInv, EncoderInv
    <3> QED BY <2>1, <2>2, <3>1, <3>2
  <2>3. CASE encode # 1
    <3>1. pending'[1] = pending[1]
      BY <2>1, <2>3 DEF CodecTypes
    <3> QED BY <2>1, <3>1
  <2> QED BY <2>2, <2>3
<1>5. CASE ChainThrows
  BY <1>5 DEF ChainThrows
<1>6. CASE EosEvent
  BY <1>6 DEF EosEvent
<1>7. CASE SetCaps
  BY <1>7 DEF SetCaps
<1>8. CASE InitEncoder
  <2>1. UNCHANGED <<codec, told, pending, eos_in>>
    BY <1>8 DEF InitEncoder
  <2> QED BY <2>1
<1>9. CASE CreateEncoder
  <2>1. UNCHANGED <<told, pending, eos_in>> /\ 1 \in Encoders
    BY <1>9 DEF CreateEncoder, Encoders
  <2>2. CASE codec'[1] = codec[1]
    BY <2>1, <2>2
  <2>3. CASE codec'[1] # codec[1]
    <3>1. codec[1] = "absent" /\ codec'[1] = "running" /\ made = 1
      BY <1>9, <2>1, <2>3 DEF CreateEncoder, PhaseInv, FlagTypes, CodecTypes
    <3>2. told = {} /\ eos_in[1] = 0
      BY <2>1, <3>1 DEF BeforeInv, EncoderInv
    <3> QED BY <2>1, <3>1, <3>2
  <2> QED BY <2>2, <2>3
<1>10. ASSUME NEW t \in {App, Streamer}, FeedEos(t)
      PROVE  Kept(1)
  <2>1. UNCHANGED <<codec, told, pending>> /\ eos_in[1] \in Nat
    BY <1>10 DEF FeedEos, CodecTypes, Encoders
  <2>2. \/ eos_in' = eos_in
        \/ codec[encode] = "running" /\ eos_in' = [eos_in EXCEPT ![encode] = eos_in[encode] + 1]
    BY <1>10 DEF FeedEos, CodecTakesEos
  <2>3. \/ eos_in'[1] = eos_in[1]
        \/ codec[1] = "running" /\ eos_in'[1] = eos_in[1] + 1
    BY <2>2 DEF CodecTypes, Encoders
  <2> QED BY <2>1, <2>3
<1>11. ASSUME NEW t \in {App, Streamer}, FeedEosSent(t)
      PROVE  Kept(1)
  BY <1>11 DEF FeedEosSent
<1>12. ASSUME NEW t \in {App, Streamer}, DestroyMustFeed(t)
      PROVE  Kept(1)
  BY <1>12 DEF DestroyMustFeed
<1>13. ASSUME NEW t \in {App, Streamer}, DestroyNeedNotFeed(t)
      PROVE  Kept(1)
  BY <1>13 DEF DestroyNeedNotFeed
<1>14. ASSUME NEW t \in {App, Streamer}, DestroyRelock(t)
      PROVE  Kept(1)
  BY <1>14 DEF DestroyRelock
<1>15. ASSUME NEW t \in {App, Streamer}, DestroyBlock(t)
      PROVE  Kept(1)
  BY <1>15 DEF DestroyBlock
<1>16. ASSUME NEW t \in {App, Streamer}, DestroyNotify(t)
      PROVE  Kept(1)
  BY <1>16 DEF DestroyNotify
<1>17. ASSUME NEW t \in {App, Streamer}, DestroyJoin(t)
      PROVE  Kept(1)
  BY <1>17 DEF DestroyJoin
<1>18. ASSUME NEW t \in {App, Streamer}, DestroyFree(t)
      PROVE  Kept(1)
  BY <1>18 DEF DestroyFree, FlagTypes, CodecTypes, FreshInv, EncoderInv,
      TellInv, Encoders
<1>19. CASE LoopLock
  BY <1>19 DEF LoopLock
<1>20. CASE LoopExit
  BY <1>20 DEF LoopExit
<1>21. CASE LoopTake
  BY <1>21 DEF LoopTake
<1>22. CASE LoopMustWait
  BY <1>22 DEF LoopMustWait
<1>23. CASE LoopBlock
  BY <1>23 DEF LoopBlock
<1>24. ASSUME NEW t \in {Loop, Codec}, AbortCheck(t)
      PROVE  Kept(1)
  BY <1>24 DEF AbortCheck
<1>25. ASSUME NEW t \in {Loop, Codec}, AbortCall(t)
      PROVE  Kept(1)
  <2>1. CASE encode = 1
    BY <1>25, <2>1 DEF AbortCall, CodecTypes, EncoderInv, FlagTypes, Encoders
  <2>2. CASE encode # 1
    BY <1>25, <2>2 DEF AbortCall, CodecTypes, Encoders
  <2> QED BY <2>1, <2>2
<1>26. ASSUME NEW t \in {Loop, Codec}, AbortNull(t)
      PROVE  Kept(1)
  BY <1>26 DEF AbortNull
<1>27. ASSUME NEW t \in {Loop, Codec}, HandleEos(t)
      PROVE  Kept(1)
  <2>1. /\ UNCHANGED <<codec, pending, eos_in, eos_out>> /\ told' = told \union {made}
        /\ 1 \in Encoders /\ codec[1] \in CodecKinds
    BY <1>27 DEF HandleEos, CodecTypes, Encoders
  <2>2. CASE made # 1 \/ 1 \in told
    <3>1. 1 \in told' <=> 1 \in told
      BY <2>1, <2>2
    <3> QED BY <2>1, <3>1
  <2>3. CASE made = 1 /\ 1 \notin told
    <3>1. codec[1] \in {"aborted", "destroyed"} \/ eos_out[1]
      BY <1>27, <2>3 DEF HandleEos, TellInv, ThreadTypes, AbortSteps
    <3>2. eos_out[1] => codec[1] # "absent" /\ eos_in[1] > 0 /\ pending[1] = 0
      BY <2>1 DEF EncoderInv
    <3> QED BY <2>1, <2>3, <3>1, <3>2 DEF CodecKinds
  <2> QED BY <2>2, <2>3
<1>28. ASSUME NEW t \in {Loop, Codec}, PushEos(t)
      PROVE  Kept(1)
  BY <1>28 DEF PushEos
<1>29. ASSUME NEW t \in {Loop, Codec}, AbortGotEos(t)
      PROVE  Kept(1)
  BY <1>29 DEF AbortGotEos
<1>30. CASE SpuriousWakeup
  BY <1>30 DEF SpuriousWakeup
<1>31. CASE PushPacket
  BY <1>31 DEF PushPacket
<1>32. CASE CopyOutFails
  BY <1>32 DEF CopyOutFails
<1>33. ASSUME NEW g \in Encoders, CodecOutput(g)
      PROVE  Kept(1)
  BY <1>33 DEF CodecOutput, CodecTypes, EncoderInv, TellInv, HandleEvent,
      Encoders
<1>34. ASSUME NEW g \in Encoders, CodecCorrupt(g)
      PROVE  Kept(1)
  BY <1>34 DEF CodecCorrupt, CodecTypes, HandleEvent, EncoderInv, TellInv,
      Encoders
<1>35. ASSUME NEW g \in Encoders, CodecEos(g)
      PROVE  Kept(1)
  BY <1>35 DEF CodecEos, HandleEvent
<1>36. ASSUME NEW g \in Encoders, CodecFatal(g)
      PROVE  Kept(1)
  BY <1>36 DEF CodecFatal, HandleEvent
<1>37. CASE UNCHANGED vars
  BY <1>37 DEF vars
<1> HIDE DEF Kept
<1> QED
  BY <1>1, <1>2, <1>3, <1>4, <1>5, <1>6, <1>7, <1>8, <1>9, <1>10, <1>11, <1>12,
      <1>13, <1>14, <1>15, <1>16, <1>17, <1>18, <1>19, <1>20, <1>21, <1>22,
      <1>23, <1>24, <1>25, <1>26, <1>27, <1>28, <1>29, <1>30, <1>31, <1>32,
      <1>33, <1>34, <1>35, <1>36, <1>37 DEF Next, Finished, StateChanges,
      Stream, DestroyEncoder, EventTaskRunner, AbortOrEos, Codecs

(* The encoder that an element creates while no end of stream was fed or   *)
(* seen, which only its first one can be, keeps the promise of a session:  *)
(* its frames before the end of its stream, and that seen by handle_eos    *)
(* before it is destroyed.                                                 *)
THEOREM SessionsRefined == Spec => SessionsKept
<1>1. IInv /\ [Next]_vars => \A g \in fresh : [Session(g)!Next]_<<Phase(g), pending[g]>>
  <2> SUFFICES ASSUME IInv, [Next]_vars, NEW g \in fresh
               PROVE  Session(g)!Next \/ UNCHANGED <<Phase(g), pending[g]>>
    OBVIOUS
  <2>1. g = 1
    BY DEF IInv, FreshInv
  <2>2. Kept(1)
    BY <2>1, SessionSteps
  <2> QED BY <2>1, <2>2 DEF Kept
<1> QED BY <1>1, Invariance, PTL DEF Spec, SessionsKept
=============================================================================
