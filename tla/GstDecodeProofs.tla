---------------------------- MODULE GstDecodeProofs ----------------------------
(***************************************************************************)
(* Proofs about GstDecode for any number of decoders in a row, output      *)
(* buffers, packets, queued events and fatal events, whether or not the    *)
(* codec may refuse to be created or fed.                                  *)
(***************************************************************************)
EXTENDS GstDecode, TLAPS, SequenceTheorems

(* The four threads, and no thread, are five identities.                   *)
LEMMA FiveThreads ==
  /\ App # Streamer /\ App # Loop /\ App # Codec
  /\ Streamer # Loop /\ Streamer # Codec /\ Loop # Codec
  /\ NoThread # App /\ NoThread # Streamer /\ NoThread # Loop /\ NoThread # Codec
<1> DEFINE names == <<App, Streamer, Loop, Codec>>
<1>1. /\ names[1] = App /\ names[2] = Streamer
      /\ names[3] = Loop /\ names[4] = Codec
  OBVIOUS
<1>2. \A s, t \in {1, 2, 3, 4} : names[s] = names[t] => s = t
  BY ThreadAssumption
<1>3. NoThread \notin {App, Streamer, Loop, Codec}
  BY ThreadAssumption
<1> HIDE DEF names
<1> QED BY <1>1, <1>2, <1>3

(* A count that is not at its end may go on by one.                        *)
LEMMA CountStep ==
  ASSUME NEW N \in Nat, NEW f \in [Decoders -> 0..N], NEW g \in Decoders
  PROVE  /\ f[g] < N => [f EXCEPT ![g] = @ + 1] \in [Decoders -> 0..N]
         /\ f[g] > 0 => [f EXCEPT ![g] = @ - 1] \in [Decoders -> 0..N]
         /\ [f EXCEPT ![g] = 0] \in [Decoders -> 0..N]
  OBVIOUS

(* What HandleEvent queues stands behind what was queued before.           *)
LEMMA Appended ==
  ASSUME NEW S, NEW q \in Seq(S), NEW e \in S
  PROVE  \A i \in DOMAIN Append(q, e) :
           \/ Append(q, e)[i] = e
           \/ i \in DOMAIN q /\ Append(q, e)[i] = q[i]
<1>1. /\ DOMAIN q = 1..Len(q) /\ DOMAIN Append(q, e) = 1..Len(Append(q, e))
      /\ Len(Append(q, e)) = Len(q) + 1 /\ Len(q) \in Nat
      /\ Append(q, e)[Len(q) + 1] = e
      /\ \A i \in 1..Len(q) : Append(q, e)[i] = q[i]
  BY AppendProperties, LenProperties
<1> QED BY <1>1

-----------------------------------------------------------------------------
(* The inductive invariant, in parts.  The types first.                    *)
ThreadTypes ==
  /\ pc \in [Threads -> Steps]
  /\ pc[App] \in {"idle"} \union DestroySteps
  /\ pc[Loop] \in LoopSteps
  /\ pc[Codec] \in {"idle", "push_host", "push_mlu"}
  /\ element \in ElementStates

FlagTypes ==
  /\ event_mtx \in {NoThread, Loop} /\ eos_mtx \in {NoThread, App, Streamer, Loop}
  /\ event_queue \in Seq(EventKinds)
  /\ joinable \in BOOLEAN /\ send_eos \in BOOLEAN /\ got_eos \in BOOLEAN
  /\ decode \in {0, made} /\ made \in 0..MaxDecoders
  /\ negotiated \in BOOLEAN /\ sink_eos \in BOOLEAN /\ pad_eos \in BOOLEAN
  /\ refused \in BOOLEAN

CodecTypes ==
  /\ codec \in [Decoders -> CodecKinds]
  /\ eos_in \in [Decoders -> Nat] /\ eos_out \in [Decoders -> BOOLEAN]

PacketTypes ==
  pending \in [Decoders -> 0..MaxPackets] /\ held \in [Decoders -> 0..OutBufs]

FrameTypes ==
  frame \in 0..MaxDecoders /\ fatal \in 0..MaxFatal /\ told \subseteq Decoders

(* Who holds a mutex, by the step it stands at.                            *)
HoldsEos == {"eos_wait", "join", "free"}

LockInv ==
  /\ pc[App] \in HoldsEos <=> eos_mtx = App
  /\ pc[Streamer] \in HoldsEos \union {"eos_feed"} <=> eos_mtx = Streamer
  /\ pc[Loop] \in {"eos_push", "abort_push"} <=> eos_mtx = Loop
  /\ pc[Loop] \in {"test", "blocking"} <=> event_mtx = Loop

(* destroy_decoder runs on one thread at a time: on the application's in   *)
(* READY, on the streaming thread while the pads are active.  There is no  *)
(* decoder before init_decoder is through, in NULL and after the end.      *)
PhaseInv ==
  /\ pc[Streamer] \in {"idle", "init", "create", "eos_feed"} \union DestroySteps
  /\ pc[App] # "idle" => element = "READY"
  /\ pc[Streamer] # "idle" => element \in {"PAUSED", "dead"}
  /\ pc[Streamer] \in {"init"} \union DestroySteps => made < MaxDecoders
  /\ pc[Streamer] \in {"init", "create"} => decode = 0
  /\ pc[Streamer] = "create" => joinable /\ ~got_eos /\ codec[made] = "absent"
  /\ element \in {"NULL", "finalized", "dead"} => decode = 0
  /\ element = "finalized" => ~joinable
  /\ element = "dead" => joinable

(* The event thread and the destroyer that joins it.                       *)
ThreadInv ==
  /\ pc[Loop] = "none" <=> made = 0
  /\ ~joinable => pc[Loop] \in {"none", "exited"}
  /\ joinable => made # 0
  /\ pc[Loop] = "exited" => got_eos \/ element = "dead"
  /\ \A t \in {App, Streamer} :
       /\ pc[t] \in DestroySteps =>
            made # 0 /\ (decode # 0 \/ codec[made] = "aborted")
       /\ pc[t] \in DestroySteps \ {"free"} => joinable
       /\ pc[t] = "free" => ~joinable
       /\ pc[t] \in {"join", "free"} => got_eos
  /\ decode # 0 => joinable \/ pc[App] = "free" \/ pc[Streamer] = "free"

(* The decoders before the last one made are gone or were aborted; the     *)
(* last one is the element's unless it could not be created, was aborted   *)
(* or destroyed; an instance that was given up never ends its stream.      *)
DecoderInv ==
  /\ decode # 0 => codec[made] = "running"
  /\ \A g \in Decoders :
       /\ g < made => codec[g] \in {"aborted", "destroyed"}
       /\ g > made => codec[g] = "absent"
       /\ codec[g] = "running" /\ decode # g => eos_in[g] = 0 /\ joinable
       /\ codec[g] = "destroyed" /\ g = made => ~joinable
       /\ codec[g] = "absent" => pending[g] = 0 /\ eos_in[g] = 0
       /\ codec[g] = "absent" /\ g = made => joinable

(* The end of the stream comes out of a decoder behind every frame, and    *)
(* handle_eos has seen the end of decoders that ended or were aborted.     *)
EndInv ==
  \A g \in Decoders :
    /\ eos_out[g] => eos_in[g] > 0 /\ pending[g] = 0 /\ frame # g
    /\ g \in told => \/ codec[g] \in {"aborted", "destroyed"}
                     \/ codec[g] = "running" /\ eos_out[g]
    /\ codec[g] = "aborted" => g \in told \/ (g = made /\ pc[Loop] = "abort_lock")

(* handle_eos means the decoder of now: an EOS event never waits for the   *)
(* event thread of the next one.                                           *)
QueueInv ==
  \A i \in DOMAIN event_queue :
    event_queue[i] = "EOS" =>
      pc[Loop] \notin {"none", "exited"} /\ eos_out[made]

(* What handle_eos and abort_decoder do next is about the decoder of now,  *)
(* and got_eos says of a decoder in use that its end was handled.          *)
TellInv ==
  /\ pc[Loop] \in {"eos_lock", "eos_push"} => eos_out[made]
  /\ pc[Loop] \in {"abort_lock", "abort_push", "set_got_eos"} =>
       codec[made] = "aborted"
  /\ got_eos /\ decode # 0 => made \in told

(* handle_frame is at work on a frame of a decoder that was not destroyed, *)
(* and holds the buffer it is about to push.                               *)
FrameInv ==
  /\ frame # 0 <=> pc[Codec] # "idle"
  /\ frame # 0 => codec[frame] \in {"running", "aborted"}
  /\ pc[Codec] = "push_mlu" => held[frame] >= 1

(* The inductive invariant.                                                *)
IInv ==
  /\ ThreadTypes /\ FlagTypes /\ CodecTypes /\ PacketTypes /\ FrameTypes
  /\ LockInv /\ PhaseInv /\ ThreadInv /\ DecoderInv
  /\ EndInv /\ QueueInv /\ TellInv /\ FrameInv

(* The element's first state satisfies every part.                         *)
LEMMA InitIInv == Init => IInv
<1> SUFFICES ASSUME Init PROVE IInv
  OBVIOUS
<1> USE FiveThreads, BoundAssumption DEF Init, Threads, Decoders
<1>1. ThreadTypes
  BY DEF ThreadTypes, Steps, DestroySteps, LoopSteps, ElementStates
<1>2. FlagTypes
  <2>1. event_mtx \in {NoThread, Loop} /\ eos_mtx \in {NoThread, App, Streamer, Loop}
    OBVIOUS
  <2>2. event_queue \in Seq(EventKinds)
    OBVIOUS
  <2>3. /\ joinable \in BOOLEAN /\ send_eos \in BOOLEAN /\ got_eos \in BOOLEAN
        /\ negotiated \in BOOLEAN /\ sink_eos \in BOOLEAN /\ pad_eos \in BOOLEAN
        /\ refused \in BOOLEAN
    OBVIOUS
  <2>4. decode \in {0, made} /\ made \in 0..MaxDecoders
    OBVIOUS
  <2> QED BY <2>1, <2>2, <2>3, <2>4, Zenon DEF FlagTypes
<1>3. CodecTypes /\ PacketTypes /\ FrameTypes
  BY DEF CodecTypes, PacketTypes, FrameTypes, CodecKinds
<1>4. LockInv /\ PhaseInv
  BY DEF LockInv, HoldsEos, PhaseInv, DestroySteps
<1>5. ThreadInv /\ DecoderInv
  BY DEF ThreadInv, DecoderInv, DestroySteps
<1>6. EndInv /\ QueueInv /\ TellInv /\ FrameInv
  BY DEF EndInv, QueueInv, TellInv, FrameInv
<1> QED BY <1>1, <1>2, <1>3, <1>4, <1>5, <1>6 DEF IInv

(* Every step of the application, of the streaming thread, of the event    *)
(* thread and of the codec preserves the invariant: one step of the proof  *)
(* for each of them, and under it one for each part.                       *)
LEMMA NextIInv == IInv /\ [Next]_vars => IInv'
<1> SUFFICES ASSUME IInv, [Next]_vars PROVE IInv'
  OBVIOUS
<1> USE FiveThreads, BoundAssumption DEF IInv, Threads, Decoders
<1>1. CASE element # "dead" /\ ToReady
  <2>1. ThreadTypes'
    BY <1>1 DEF ThreadTypes, Steps, DestroySteps, LoopSteps, ElementStates,
        ToReady, locks, flags, pads, library, history
  <2>2. FlagTypes'
    BY <1>1 DEF FlagTypes, EventKinds, ToReady, locks, flags, pads, library,
        history
  <2>3. CodecTypes'
    BY <1>1 DEF CodecTypes, FlagTypes, CodecKinds, ToReady, locks, flags, pads,
        library, history
  <2>4. PacketTypes'
    BY <1>1 DEF PacketTypes, CodecTypes, FlagTypes, ToReady, locks, flags,
        pads, library, history
  <2>5. FrameTypes'
    BY <1>1 DEF FrameTypes, FlagTypes, ToReady, locks, flags, pads, library,
        history
  <2>6. LockInv'
    BY <1>1 DEF ThreadTypes, FlagTypes, LockInv, PhaseInv, HoldsEos,
        DestroySteps, ToReady, locks, flags, pads, library, history
  <2>7. PhaseInv'
    BY <1>1 DEF ThreadTypes, FlagTypes, CodecTypes, LockInv, PhaseInv,
        ThreadInv, DecoderInv, HoldsEos, DestroySteps, ToReady, locks, flags,
        pads, library, history
  <2>8. ThreadInv'
    BY <1>1 DEF ThreadTypes, FlagTypes, CodecTypes, LockInv, PhaseInv,
        ThreadInv, DecoderInv, HoldsEos, DestroySteps, LoopSteps, ToReady,
        locks, flags, pads, library, history
  <2>9. DecoderInv'
    BY <1>1 DEF ThreadTypes, FlagTypes, CodecTypes, PacketTypes, PhaseInv,
        ThreadInv, DecoderInv, CodecKinds, DestroySteps, ToReady, locks, flags,
        pads, library, history
  <2>10. EndInv'
    BY <1>1 DEF ThreadTypes, FlagTypes, CodecTypes, PacketTypes, FrameTypes,
        PhaseInv, ThreadInv, DecoderInv, EndInv, TellInv, CodecKinds,
        DestroySteps, ToReady, locks, flags, pads, library, history
  <2>11. QueueInv'
    BY <1>1 DEF ThreadTypes, FlagTypes, CodecTypes, ThreadInv, QueueInv,
        EventKinds, DestroySteps, LoopSteps, ToReady, locks, flags, pads,
        library, history
  <2>12. TellInv'
    BY <1>1 DEF ThreadTypes, FlagTypes, CodecTypes, FrameTypes, LockInv,
        PhaseInv, ThreadInv, DecoderInv, EndInv, QueueInv, TellInv, HoldsEos,
        EventKinds, DestroySteps, ToReady, locks, flags, pads, library, history
  <2>13. FrameInv'
    BY <1>1 DEF ThreadTypes, FlagTypes, CodecTypes, PacketTypes, FrameTypes,
        DecoderInv, FrameInv, ToReady, locks, flags, pads, library, history
  <2> QED BY <2>1, <2>2, <2>3, <2>4, <2>5, <2>6, <2>7, <2>8, <2>9, <2>10,
      <2>11, <2>12, <2>13, Zenon DEF IInv
<1>2. CASE element # "dead" /\ ToPaused
  <2>1. ThreadTypes'
    BY <1>2 DEF ThreadTypes, Steps, DestroySteps, LoopSteps, ElementStates,
        ToPaused, locks, flags, pads, library, history
  <2>2. FlagTypes'
    BY <1>2 DEF FlagTypes, EventKinds, ToPaused, locks, flags, pads, library,
        history
  <2>3. CodecTypes'
    BY <1>2 DEF CodecTypes, FlagTypes, CodecKinds, ToPaused, locks, flags,
        pads, library, history
  <2>4. PacketTypes'
    BY <1>2 DEF PacketTypes, CodecTypes, FlagTypes, ToPaused, locks, flags,
        pads, library, history
  <2>5. FrameTypes'
    BY <1>2 DEF FrameTypes, FlagTypes, ToPaused, locks, flags, pads, library,
        history
  <2>6. LockInv'
    BY <1>2 DEF ThreadTypes, FlagTypes, LockInv, PhaseInv, HoldsEos,
        DestroySteps, ToPaused, locks, flags, pads, library, history
  <2>7. PhaseInv'
    BY <1>2 DEF ThreadTypes, FlagTypes, CodecTypes, LockInv, PhaseInv,
        ThreadInv, DecoderInv, HoldsEos, DestroySteps, ToPaused, locks, flags,
        pads, library, history
  <2>8. ThreadInv'
    BY <1>2 DEF ThreadTypes, FlagTypes, CodecTypes, LockInv, PhaseInv,
        ThreadInv, DecoderInv, HoldsEos, DestroySteps, LoopSteps, ToPaused,
        locks, flags, pads, library, history
  <2>9. DecoderInv'
    BY <1>2 DEF ThreadTypes, FlagTypes, CodecTypes, PacketTypes, PhaseInv,
        ThreadInv, DecoderInv, CodecKinds, DestroySteps, ToPaused, locks,
        flags, pads, library, history
  <2>10. EndInv'
    BY <1>2 DEF ThreadTypes, FlagTypes, CodecTypes, PacketTypes, FrameTypes,
        PhaseInv, ThreadInv, DecoderInv, EndInv, TellInv, CodecKinds,
        DestroySteps, ToPaused, locks, flags, pads, library, history
  <2>11. QueueInv'
    BY <1>2 DEF ThreadTypes, FlagTypes, CodecTypes, ThreadInv, QueueInv,
        EventKinds, DestroySteps, LoopSteps, ToPaused, locks, flags, pads,
        library, history
  <2>12. TellInv'
    BY <1>2 DEF ThreadTypes, FlagTypes, CodecTypes, FrameTypes, LockInv,
        PhaseInv, ThreadInv, DecoderInv, EndInv, QueueInv, TellInv, HoldsEos,
        EventKinds, DestroySteps, ToPaused, locks, flags, pads, library,
        history
  <2>13. FrameInv'
    BY <1>2 DEF ThreadTypes, FlagTypes, CodecTypes, PacketTypes, FrameTypes,
        DecoderInv, FrameInv, ToPaused, locks, flags, pads, library, history
  <2> QED BY <2>1, <2>2, <2>3, <2>4, <2>5, <2>6, <2>7, <2>8, <2>9, <2>10,
      <2>11, <2>12, <2>13, Zenon DEF IInv
<1>3. CASE element # "dead" /\ DeactivatePads
  <2>1. ThreadTypes'
    BY <1>3 DEF ThreadTypes, Steps, DestroySteps, LoopSteps, ElementStates,
        DeactivatePads, locks, flags, library, history
  <2>2. FlagTypes'
    BY <1>3 DEF FlagTypes, EventKinds, DeactivatePads, locks, flags, library,
        history
  <2>3. CodecTypes'
    BY <1>3 DEF CodecTypes, FlagTypes, CodecKinds, DeactivatePads, locks,
        flags, library, history
  <2>4. PacketTypes'
    BY <1>3 DEF PacketTypes, CodecTypes, FlagTypes, DeactivatePads, locks,
        flags, library, history
  <2>5. FrameTypes'
    BY <1>3 DEF FrameTypes, FlagTypes, DeactivatePads, locks, flags, library,
        history
  <2>6. LockInv'
    BY <1>3 DEF ThreadTypes, FlagTypes, LockInv, PhaseInv, HoldsEos,
        DestroySteps, DeactivatePads, locks, flags, library, history
  <2>7. PhaseInv'
    BY <1>3 DEF ThreadTypes, FlagTypes, CodecTypes, LockInv, PhaseInv,
        ThreadInv, DecoderInv, HoldsEos, DestroySteps, DeactivatePads, locks,
        flags, library, history
  <2>8. ThreadInv'
    BY <1>3 DEF ThreadTypes, FlagTypes, CodecTypes, LockInv, PhaseInv,
        ThreadInv, DecoderInv, HoldsEos, DestroySteps, LoopSteps,
        DeactivatePads, locks, flags, library, history
  <2>9. DecoderInv'
    BY <1>3 DEF ThreadTypes, FlagTypes, CodecTypes, PacketTypes, PhaseInv,
        ThreadInv, DecoderInv, CodecKinds, DestroySteps, DeactivatePads, locks,
        flags, library, history
  <2>10. EndInv'
    BY <1>3 DEF ThreadTypes, FlagTypes, CodecTypes, PacketTypes, FrameTypes,
        PhaseInv, ThreadInv, DecoderInv, EndInv, TellInv, CodecKinds,
        DestroySteps, DeactivatePads, locks, flags, library, history
  <2>11. QueueInv'
    BY <1>3 DEF ThreadTypes, FlagTypes, CodecTypes, ThreadInv, QueueInv,
        EventKinds, DestroySteps, LoopSteps, DeactivatePads, locks, flags,
        library, history
  <2>12. TellInv'
    BY <1>3 DEF ThreadTypes, FlagTypes, CodecTypes, FrameTypes, LockInv,
        PhaseInv, ThreadInv, DecoderInv, EndInv, QueueInv, TellInv, HoldsEos,
        EventKinds, DestroySteps, DeactivatePads, locks, flags, library,
        history
  <2>13. FrameInv'
    BY <1>3 DEF ThreadTypes, FlagTypes, CodecTypes, PacketTypes, FrameTypes,
        DecoderInv, FrameInv, DeactivatePads, locks, flags, library, history
  <2> QED BY <2>1, <2>2, <2>3, <2>4, <2>5, <2>6, <2>7, <2>8, <2>9, <2>10,
      <2>11, <2>12, <2>13, Zenon DEF IInv
<1>4. CASE element # "dead" /\ ToNull
  <2>1. ThreadTypes'
    BY <1>4 DEF ThreadTypes, Steps, DestroySteps, LoopSteps, ElementStates,
        ToNull, Goto, locks, flags, pads, library, history
  <2>2. FlagTypes'
    BY <1>4 DEF FlagTypes, EventKinds, ToNull, Goto, locks, flags, pads,
        library, history
  <2>3. CodecTypes'
    BY <1>4 DEF CodecTypes, FlagTypes, CodecKinds, ToNull, Goto, locks, flags,
        pads, library, history
  <2>4. PacketTypes'
    BY <1>4 DEF PacketTypes, CodecTypes, FlagTypes, ToNull, Goto, locks, flags,
        pads, library, history
  <2>5. FrameTypes'
    BY <1>4 DEF FrameTypes, FlagTypes, ToNull, Goto, locks, flags, pads,
        library, history
  <2>6. LockInv'
    BY <1>4 DEF ThreadTypes, FlagTypes, LockInv, PhaseInv, HoldsEos,
        DestroySteps, ToNull, Goto, locks, flags, pads, library, history
  <2>7. PhaseInv'
    BY <1>4 DEF ThreadTypes, FlagTypes, CodecTypes, LockInv, PhaseInv,
        ThreadInv, DecoderInv, HoldsEos, DestroySteps, ToNull, Goto, locks,
        flags, pads, library, history
  <2>8. ThreadInv'
    BY <1>4 DEF ThreadTypes, FlagTypes, CodecTypes, LockInv, PhaseInv,
        ThreadInv, DecoderInv, HoldsEos, DestroySteps, LoopSteps, ToNull, Goto,
        locks, flags, pads, library, history
  <2>9. DecoderInv'
    BY <1>4 DEF ThreadTypes, FlagTypes, CodecTypes, PacketTypes, PhaseInv,
        ThreadInv, DecoderInv, CodecKinds, DestroySteps, ToNull, Goto, locks,
        flags, pads, library, history
  <2>10. EndInv'
    BY <1>4 DEF ThreadTypes, FlagTypes, CodecTypes, PacketTypes, FrameTypes,
        PhaseInv, ThreadInv, DecoderInv, EndInv, TellInv, CodecKinds,
        DestroySteps, ToNull, Goto, locks, flags, pads, library, history
  <2>11. QueueInv'
    BY <1>4 DEF ThreadTypes, FlagTypes, CodecTypes, ThreadInv, QueueInv,
        EventKinds, DestroySteps, LoopSteps, ToNull, Goto, locks, flags, pads,
        library, history
  <2>12. TellInv'
    BY <1>4 DEF ThreadTypes, FlagTypes, CodecTypes, FrameTypes, LockInv,
        PhaseInv, ThreadInv, DecoderInv, EndInv, QueueInv, TellInv, HoldsEos,
        EventKinds, DestroySteps, ToNull, Goto, locks, flags, pads, library,
        history
  <2>13. FrameInv'
    BY <1>4 DEF ThreadTypes, FlagTypes, CodecTypes, PacketTypes, FrameTypes,
        DecoderInv, FrameInv, ToNull, Goto, locks, flags, pads, library,
        history
  <2> QED BY <2>1, <2>2, <2>3, <2>4, <2>5, <2>6, <2>7, <2>8, <2>9, <2>10,
      <2>11, <2>12, <2>13, Zenon DEF IInv
<1>5. CASE element # "dead" /\ Finalize
  <2>1. ThreadTypes'
    BY <1>5 DEF ThreadTypes, Steps, DestroySteps, LoopSteps, ElementStates,
        Finalize, locks, flags, pads, library, history
  <2>2. FlagTypes'
    BY <1>5 DEF FlagTypes, EventKinds, Finalize, locks, flags, pads, library,
        history
  <2>3. CodecTypes'
    BY <1>5 DEF CodecTypes, FlagTypes, CodecKinds, Finalize, locks, flags,
        pads, library, history
  <2>4. PacketTypes'
    BY <1>5 DEF PacketTypes, CodecTypes, FlagTypes, Finalize, locks, flags,
        pads, library, history
  <2>5. FrameTypes'
    BY <1>5 DEF FrameTypes, FlagTypes, Finalize, locks, flags, pads, library,
        history
  <2>6. LockInv'
    BY <1>5 DEF ThreadTypes, FlagTypes, LockInv, PhaseInv, HoldsEos,
        DestroySteps, Finalize, locks, flags, pads, library, history
  <2>7. PhaseInv'
    BY <1>5 DEF ThreadTypes, FlagTypes, CodecTypes, LockInv, PhaseInv,
        ThreadInv, DecoderInv, HoldsEos, DestroySteps, Finalize, locks, flags,
        pads, library, history
  <2>8. ThreadInv'
    BY <1>5 DEF ThreadTypes, FlagTypes, CodecTypes, LockInv, PhaseInv,
        ThreadInv, DecoderInv, HoldsEos, DestroySteps, LoopSteps, Finalize,
        locks, flags, pads, library, history
  <2>9. DecoderInv'
    BY <1>5 DEF ThreadTypes, FlagTypes, CodecTypes, PacketTypes, PhaseInv,
        ThreadInv, DecoderInv, CodecKinds, DestroySteps, Finalize, locks,
        flags, pads, library, history
  <2>10. EndInv'
    BY <1>5 DEF ThreadTypes, FlagTypes, CodecTypes, PacketTypes, FrameTypes,
        PhaseInv, ThreadInv, DecoderInv, EndInv, TellInv, CodecKinds,
        DestroySteps, Finalize, locks, flags, pads, library, history
  <2>11. QueueInv'
    BY <1>5 DEF ThreadTypes, FlagTypes, CodecTypes, ThreadInv, QueueInv,
        EventKinds, DestroySteps, LoopSteps, Finalize, locks, flags, pads,
        library, history
  <2>12. TellInv'
    BY <1>5 DEF ThreadTypes, FlagTypes, CodecTypes, FrameTypes, LockInv,
        PhaseInv, ThreadInv, DecoderInv, EndInv, QueueInv, TellInv, HoldsEos,
        EventKinds, DestroySteps, Finalize, locks, flags, pads, library,
        history
  <2>13. FrameInv'
    BY <1>5 DEF ThreadTypes, FlagTypes, CodecTypes, PacketTypes, FrameTypes,
        DecoderInv, FrameInv, Finalize, locks, flags, pads, library, history
  <2> QED BY <2>1, <2>2, <2>3, <2>4, <2>5, <2>6, <2>7, <2>8, <2>9, <2>10,
      <2>11, <2>12, <2>13, Zenon DEF IInv
<1>6. CASE element # "dead" /\ Chain
  <2>a. /\ decode = made /\ decode \in Decoders /\ eos_in[decode] = 0
        /\ pending[decode] \in 0..MaxPackets /\ pending[decode] < MaxPackets
    BY <1>6 DEF FlagTypes, PacketTypes, Chain, Streaming, CodecTakesData,
        CodecTakesEos, locks, flags, pads, history
  <2>1. ThreadTypes'
    BY <1>6, <2>a DEF ThreadTypes, Steps, DestroySteps, LoopSteps,
        ElementStates, Chain, Streaming, CodecTakesData, CodecTakesEos, locks,
        flags, pads, history
  <2>2. FlagTypes'
    BY <1>6, <2>a DEF FlagTypes, EventKinds, Chain, Streaming, CodecTakesData,
        CodecTakesEos, locks, flags, pads, history
  <2>3. CodecTypes'
    BY <1>6, <2>a DEF CodecTypes, FlagTypes, CodecKinds, Chain, Streaming,
        CodecTakesData, CodecTakesEos, locks, flags, pads, history
  <2>4. PacketTypes'
    BY <1>6, <2>a, CountStep DEF PacketTypes, CodecTypes, FlagTypes, Chain,
        Streaming, CodecTakesData, CodecTakesEos, locks, flags, pads, history
  <2>5. FrameTypes'
    BY <1>6, <2>a DEF FrameTypes, FlagTypes, Chain, Streaming, CodecTakesData,
        CodecTakesEos, locks, flags, pads, history
  <2>6. LockInv'
    BY <1>6, <2>a DEF ThreadTypes, FlagTypes, LockInv, PhaseInv, HoldsEos,
        DestroySteps, Chain, Streaming, CodecTakesData, CodecTakesEos, locks,
        flags, pads, history
  <2>7. PhaseInv'
    BY <1>6, <2>a DEF ThreadTypes, FlagTypes, CodecTypes, LockInv, PhaseInv,
        ThreadInv, DecoderInv, HoldsEos, DestroySteps, Chain, Streaming,
        CodecTakesData, CodecTakesEos, locks, flags, pads, history
  <2>8. ThreadInv'
    BY <1>6, <2>a DEF ThreadTypes, FlagTypes, CodecTypes, LockInv, PhaseInv,
        ThreadInv, DecoderInv, HoldsEos, DestroySteps, LoopSteps, Chain,
        Streaming, CodecTakesData, CodecTakesEos, locks, flags, pads, history
  <2>9. DecoderInv'
    BY <1>6, <2>a DEF ThreadTypes, FlagTypes, CodecTypes, PacketTypes,
        PhaseInv, ThreadInv, DecoderInv, CodecKinds, DestroySteps, EndInv,
        Chain, Streaming, CodecTakesData, CodecTakesEos, locks, flags, pads,
        history
  <2>10. EndInv'
    BY <1>6, <2>a DEF ThreadTypes, FlagTypes, CodecTypes, PacketTypes,
        FrameTypes, PhaseInv, ThreadInv, DecoderInv, EndInv, TellInv,
        CodecKinds, DestroySteps, Chain, Streaming, CodecTakesData,
        CodecTakesEos, locks, flags, pads, history
  <2>11. QueueInv'
    BY <1>6, <2>a DEF ThreadTypes, FlagTypes, CodecTypes, ThreadInv, QueueInv,
        EventKinds, DestroySteps, LoopSteps, Chain, Streaming, CodecTakesData,
        CodecTakesEos, locks, flags, pads, history
  <2>12. TellInv'
    BY <1>6, <2>a DEF ThreadTypes, FlagTypes, CodecTypes, FrameTypes, LockInv,
        PhaseInv, ThreadInv, DecoderInv, EndInv, QueueInv, TellInv, HoldsEos,
        EventKinds, DestroySteps, Chain, Streaming, CodecTakesData,
        CodecTakesEos, locks, flags, pads, history
  <2>13. FrameInv'
    BY <1>6, <2>a DEF ThreadTypes, FlagTypes, CodecTypes, PacketTypes,
        FrameTypes, DecoderInv, FrameInv, Chain, Streaming, CodecTakesData,
        CodecTakesEos, locks, flags, pads, history
  <2> QED BY <2>1, <2>2, <2>3, <2>4, <2>5, <2>6, <2>7, <2>8, <2>9, <2>10,
      <2>11, <2>12, <2>13, Zenon DEF IInv
<1>7. CASE element # "dead" /\ EosEvent
  <2>1. ThreadTypes'
    BY <1>7 DEF ThreadTypes, Steps, DestroySteps, LoopSteps, ElementStates,
        EosEvent, Streaming, Acquire, Goto, library, history
  <2>2. FlagTypes'
    BY <1>7 DEF FlagTypes, EventKinds, EosEvent, Streaming, Acquire, Goto,
        library, history
  <2>3. CodecTypes'
    BY <1>7 DEF CodecTypes, FlagTypes, CodecKinds, EosEvent, Streaming,
        Acquire, Goto, library, history
  <2>4. PacketTypes'
    BY <1>7 DEF PacketTypes, CodecTypes, FlagTypes, EosEvent, Streaming,
        Acquire, Goto, library, history
  <2>5. FrameTypes'
    BY <1>7 DEF FrameTypes, FlagTypes, EosEvent, Streaming, Acquire, Goto,
        library, history
  <2>6. LockInv'
    BY <1>7 DEF ThreadTypes, FlagTypes, LockInv, PhaseInv, HoldsEos,
        DestroySteps, EosEvent, Streaming, Acquire, Goto, library, history
  <2>7. PhaseInv'
    BY <1>7 DEF ThreadTypes, FlagTypes, CodecTypes, LockInv, PhaseInv,
        ThreadInv, DecoderInv, HoldsEos, DestroySteps, EosEvent, Streaming,
        Acquire, Goto, library, history
  <2>8. ThreadInv'
    BY <1>7 DEF ThreadTypes, FlagTypes, CodecTypes, LockInv, PhaseInv,
        ThreadInv, DecoderInv, HoldsEos, DestroySteps, LoopSteps, EosEvent,
        Streaming, Acquire, Goto, library, history
  <2>9. DecoderInv'
    BY <1>7 DEF ThreadTypes, FlagTypes, CodecTypes, PacketTypes, PhaseInv,
        ThreadInv, DecoderInv, CodecKinds, DestroySteps, EosEvent, Streaming,
        Acquire, Goto, library, history
  <2>10. EndInv'
    BY <1>7 DEF ThreadTypes, FlagTypes, CodecTypes, PacketTypes, FrameTypes,
        PhaseInv, ThreadInv, DecoderInv, EndInv, TellInv, CodecKinds,
        DestroySteps, EosEvent, Streaming, Acquire, Goto, library, history
  <2>11. QueueInv'
    BY <1>7 DEF ThreadTypes, FlagTypes, CodecTypes, ThreadInv, QueueInv,
        EventKinds, DestroySteps, LoopSteps, EosEvent, Streaming, Acquire,
        Goto, library, history
  <2>12. TellInv'
    BY <1>7 DEF ThreadTypes, FlagTypes, CodecTypes, FrameTypes, LockInv,
        PhaseInv, ThreadInv, DecoderInv, EndInv, QueueInv, TellInv, HoldsEos,
        EventKinds, DestroySteps, EosEvent, Streaming, Acquire, Goto, library,
        history
  <2>13. FrameInv'
    BY <1>7 DEF ThreadTypes, FlagTypes, CodecTypes, PacketTypes, FrameTypes,
        DecoderInv, FrameInv, EosEvent, Streaming, Acquire, Goto, library,
        history
  <2> QED BY <2>1, <2>2, <2>3, <2>4, <2>5, <2>6, <2>7, <2>8, <2>9, <2>10,
      <2>11, <2>12, <2>13, Zenon DEF IInv
<1>8. CASE element # "dead" /\ EosEventFeed
  <2>a. /\ codec' = codec /\ pending' = pending /\ eos_out' = eos_out
        /\ frame' = frame /\ told' = told /\ made' = made
        /\ decode' = decode /\ event_queue' = event_queue
        /\ got_eos' = got_eos /\ joinable' = joinable
        /\ pc'[Loop] = pc[Loop]
    BY <1>8 DEF ThreadTypes, EosEventFeed, FeedEos, CodecTakesEos, Release,
        Goto, flags, pads
  <2>b. \/ eos_in' = eos_in
        \/ decode \in Decoders /\ eos_in' = [eos_in EXCEPT ![decode] = @ + 1]
    BY <1>8 DEF FlagTypes, EosEventFeed, FeedEos, CodecTakesEos, Release, Goto,
        flags, pads
  <2>c. /\ eos_in' \in [Decoders -> Nat]
        /\ \A g \in Decoders : /\ eos_in[g] > 0 => eos_in'[g] > 0
                               /\ g # decode => eos_in'[g] = eos_in[g]
    <3>1. CASE eos_in' = eos_in
      BY <3>1 DEF CodecTypes
    <3>2. CASE decode \in Decoders /\ eos_in' = [eos_in EXCEPT ![decode] = eos_in[decode] + 1]
      BY <3>2 DEF CodecTypes
    <3> QED BY <2>b, <3>1, <3>2
  <2>1. ThreadTypes'
    BY <1>8, <2>a, <2>b, <2>c DEF ThreadTypes, Steps, DestroySteps, LoopSteps,
        ElementStates, EosEventFeed, FeedEos, CodecTakesEos, Release, Goto,
        flags, pads
  <2>2. FlagTypes'
    BY <1>8, <2>a, <2>b, <2>c DEF FlagTypes, EventKinds, EosEventFeed, FeedEos,
        CodecTakesEos, Release, Goto, flags, pads
  <2>3. CodecTypes'
    BY <1>8, <2>a, <2>b, <2>c DEF CodecTypes, FlagTypes, CodecKinds,
        EosEventFeed, FeedEos, CodecTakesEos, Release, Goto, flags, pads
  <2>4. PacketTypes'
    BY <1>8, <2>a, <2>b, <2>c DEF PacketTypes, CodecTypes, FlagTypes,
        EosEventFeed, FeedEos, CodecTakesEos, Release, Goto, flags, pads
  <2>5. FrameTypes'
    BY <1>8, <2>a, <2>b, <2>c DEF FrameTypes, FlagTypes, EosEventFeed, FeedEos,
        CodecTakesEos, Release, Goto, flags, pads
  <2>6. LockInv'
    BY <1>8, <2>a, <2>b, <2>c DEF ThreadTypes, FlagTypes, LockInv, PhaseInv,
        HoldsEos, DestroySteps, EosEventFeed, FeedEos, CodecTakesEos, Release,
        Goto, flags, pads
  <2>7. PhaseInv'
    BY <1>8, <2>a, <2>b, <2>c DEF ThreadTypes, FlagTypes, CodecTypes, LockInv,
        PhaseInv, ThreadInv, DecoderInv, HoldsEos, DestroySteps, EosEventFeed,
        FeedEos, CodecTakesEos, Release, Goto, flags, pads
  <2>8. ThreadInv'
    BY <1>8, <2>a, <2>b, <2>c DEF ThreadTypes, FlagTypes, CodecTypes, LockInv,
        PhaseInv, ThreadInv, DecoderInv, HoldsEos, DestroySteps, LoopSteps,
        EosEventFeed, FeedEos, CodecTakesEos, Release, Goto, flags, pads
  <2>9. DecoderInv'
    BY <2>a, <2>c DEF DecoderInv, FlagTypes
  <2>10. EndInv'
    <3>1. EndInv
      OBVIOUS
    <3>2. \A g \in Decoders : eos_in[g] > 0 => eos_in'[g] > 0
      BY <2>c
    <3> HIDE FiveThreads, BoundAssumption DEF IInv, Decoders
    <3> QED BY <2>a, <3>1, <3>2 DEF EndInv
  <2>11. QueueInv'
    BY <1>8, <2>a, <2>b, <2>c DEF ThreadTypes, FlagTypes, CodecTypes,
        ThreadInv, QueueInv, EventKinds, DestroySteps, LoopSteps, EosEventFeed,
        FeedEos, CodecTakesEos, Release, Goto, flags, pads
  <2>12. TellInv'
    BY <1>8, <2>a, <2>b, <2>c DEF ThreadTypes, FlagTypes, CodecTypes,
        FrameTypes, LockInv, PhaseInv, ThreadInv, DecoderInv, EndInv, QueueInv,
        TellInv, HoldsEos, EventKinds, DestroySteps, EosEventFeed, FeedEos,
        CodecTakesEos, Release, Goto, flags, pads
  <2>13. FrameInv'
    BY <1>8, <2>a, <2>b, <2>c DEF ThreadTypes, FlagTypes, CodecTypes,
        PacketTypes, FrameTypes, DecoderInv, FrameInv, EosEventFeed, FeedEos,
        CodecTakesEos, Release, Goto, flags, pads
  <2> QED BY <2>1, <2>2, <2>3, <2>4, <2>5, <2>6, <2>7, <2>8, <2>9, <2>10,
      <2>11, <2>12, <2>13, Zenon DEF IInv
<1>9. CASE element # "dead" /\ SetCaps
  <2>1. ThreadTypes'
    BY <1>9 DEF ThreadTypes, Steps, DestroySteps, LoopSteps, ElementStates,
        SetCaps, Streaming, Goto, locks, flags, library, history
  <2>2. FlagTypes'
    BY <1>9 DEF FlagTypes, EventKinds, SetCaps, Streaming, Goto, locks, flags,
        library, history
  <2>3. CodecTypes'
    BY <1>9 DEF CodecTypes, FlagTypes, CodecKinds, SetCaps, Streaming, Goto,
        locks, flags, library, history
  <2>4. PacketTypes'
    BY <1>9 DEF PacketTypes, CodecTypes, FlagTypes, SetCaps, Streaming, Goto,
        locks, flags, library, history
  <2>5. FrameTypes'
    BY <1>9 DEF FrameTypes, FlagTypes, SetCaps, Streaming, Goto, locks, flags,
        library, history
  <2>6. LockInv'
    BY <1>9 DEF ThreadTypes, FlagTypes, LockInv, PhaseInv, HoldsEos,
        DestroySteps, SetCaps, Streaming, Goto, locks, flags, library, history
  <2>7. PhaseInv'
    BY <1>9 DEF ThreadTypes, FlagTypes, CodecTypes, LockInv, PhaseInv,
        ThreadInv, DecoderInv, HoldsEos, DestroySteps, SetCaps, Streaming,
        Goto, locks, flags, library, history
  <2>8. ThreadInv'
    BY <1>9 DEF ThreadTypes, FlagTypes, CodecTypes, LockInv, PhaseInv,
        ThreadInv, DecoderInv, HoldsEos, DestroySteps, LoopSteps, SetCaps,
        Streaming, Goto, locks, flags, library, history
  <2>9. DecoderInv'
    BY <1>9 DEF ThreadTypes, FlagTypes, CodecTypes, PacketTypes, PhaseInv,
        ThreadInv, DecoderInv, CodecKinds, DestroySteps, SetCaps, Streaming,
        Goto, locks, flags, library, history
  <2>10. EndInv'
    BY <1>9 DEF ThreadTypes, FlagTypes, CodecTypes, PacketTypes, FrameTypes,
        PhaseInv, ThreadInv, DecoderInv, EndInv, TellInv, CodecKinds,
        DestroySteps, SetCaps, Streaming, Goto, locks, flags, library, history
  <2>11. QueueInv'
    BY <1>9 DEF ThreadTypes, FlagTypes, CodecTypes, ThreadInv, QueueInv,
        EventKinds, DestroySteps, LoopSteps, SetCaps, Streaming, Goto, locks,
        flags, library, history
  <2>12. TellInv'
    BY <1>9 DEF ThreadTypes, FlagTypes, CodecTypes, FrameTypes, LockInv,
        PhaseInv, ThreadInv, DecoderInv, EndInv, QueueInv, TellInv, HoldsEos,
        EventKinds, DestroySteps, SetCaps, Streaming, Goto, locks, flags,
        library, history
  <2>13. FrameInv'
    BY <1>9 DEF ThreadTypes, FlagTypes, CodecTypes, PacketTypes, FrameTypes,
        DecoderInv, FrameInv, SetCaps, Streaming, Goto, locks, flags, library,
        history
  <2> QED BY <2>1, <2>2, <2>3, <2>4, <2>5, <2>6, <2>7, <2>8, <2>9, <2>10,
      <2>11, <2>12, <2>13, Zenon DEF IInv
<1>10. CASE element # "dead" /\ InitDecoder
  <2>a. /\ decode = 0 /\ made < MaxDecoders /\ made \in 0..MaxDecoders
        /\ pc[Streamer] = "init" /\ element = "PAUSED"
    BY <1>10 DEF FlagTypes, PhaseInv, InitDecoder, locks, pads, library,
        history
  <2>b. ~joinable => /\ made + 1 \in Decoders /\ codec[made + 1] = "absent"
                     /\ \A g \in Decoders :
                          /\ g < made + 1 => codec[g] \in {"aborted", "destroyed"}
                          /\ g > made + 1 => codec[g] = "absent"
    BY <1>10, <2>a DEF FlagTypes, CodecTypes, ThreadInv, DecoderInv, CodecKinds
  <2>c. /\ joinable' = TRUE
        /\ joinable => pc' = pc /\ made' = made /\ element' = "dead"
        /\ ~joinable => /\ made' = made + 1 /\ element' = element
                        /\ pc'[Streamer] = "create" /\ pc'[Loop] = "lock_event"
                        /\ pc'[App] = pc[App] /\ pc'[Codec] = pc[Codec]
    BY <1>10 DEF FlagTypes, ThreadTypes, InitDecoder, locks, pads, library,
        history
  <2>d. /\ event_mtx' = event_mtx /\ eos_mtx' = eos_mtx
        /\ event_queue' = event_queue /\ decode' = 0
        /\ send_eos' = FALSE /\ got_eos' = FALSE
        /\ negotiated' = negotiated /\ sink_eos' = sink_eos
        /\ pad_eos' = pad_eos /\ refused' = refused
    BY <1>10, <2>a DEF InitDecoder, locks, pads, library, history
  <2>1. ThreadTypes'
    <3>1. CASE joinable
      BY <2>c, <3>1 DEF ThreadTypes, ElementStates
    <3>2. CASE ~joinable
      <4>1. pc' = [pc EXCEPT ![Streamer] = "create", ![Loop] = "lock_event"]
        BY <1>10, <3>2 DEF InitDecoder
      <4>2. pc' \in [Threads -> Steps]
        BY <4>1 DEF ThreadTypes, Steps, LoopSteps
      <4> QED BY <2>c, <3>2, <4>2 DEF ThreadTypes, LoopSteps
    <3> QED BY <3>1, <3>2
  <2>2. FlagTypes'
    <3>1. CASE joinable
      BY <2>a, <2>c, <2>d, <3>1 DEF FlagTypes
    <3>2. CASE ~joinable
      <4>1. decode' \in {0, made'} /\ made' \in 0..MaxDecoders
        BY <2>a, <2>c, <2>d, <3>2
      <4>2. /\ event_mtx' \in {NoThread, Loop}
            /\ eos_mtx' \in {NoThread, App, Streamer, Loop}
            /\ event_queue' \in Seq(EventKinds)
        BY <2>d DEF FlagTypes
      <4>3. /\ joinable' \in BOOLEAN /\ send_eos' \in BOOLEAN /\ got_eos' \in BOOLEAN
            /\ negotiated' \in BOOLEAN /\ sink_eos' \in BOOLEAN
            /\ pad_eos' \in BOOLEAN /\ refused' \in BOOLEAN
        BY <2>c, <2>d DEF FlagTypes
      <4> QED BY <4>1, <4>2, <4>3, Zenon DEF FlagTypes
    <3> QED BY <3>1, <3>2
  <2>3. CodecTypes'
    BY <1>10, <2>a, <2>b, <2>c, <2>d DEF CodecTypes, FlagTypes, CodecKinds,
        InitDecoder, locks, pads, library, history
  <2>4. PacketTypes'
    BY <1>10, <2>a, <2>b, <2>c, <2>d DEF PacketTypes, CodecTypes, FlagTypes,
        InitDecoder, locks, pads, library, history
  <2>5. FrameTypes'
    BY <1>10, <2>a, <2>b, <2>c, <2>d DEF FrameTypes, FlagTypes, InitDecoder,
        locks, pads, library, history
  <2>6. LockInv'
    BY <2>a, <2>c, <2>d DEF ThreadTypes, LockInv, ThreadInv, HoldsEos
  <2>7. PhaseInv'
    BY <1>10, <2>a, <2>b, <2>c, <2>d DEF ThreadTypes, FlagTypes, CodecTypes,
        LockInv, PhaseInv, ThreadInv, DecoderInv, HoldsEos, DestroySteps,
        InitDecoder, locks, pads, library, history
  <2>8. ThreadInv'
    BY <1>10, <2>a, <2>b, <2>c, <2>d DEF ThreadTypes, FlagTypes, CodecTypes,
        LockInv, PhaseInv, ThreadInv, DecoderInv, HoldsEos, DestroySteps,
        LoopSteps, InitDecoder, locks, pads, library, history
  <2>9. DecoderInv'
    BY <1>10, <2>a, <2>b, <2>c, <2>d DEF ThreadTypes, FlagTypes, CodecTypes,
        PacketTypes, PhaseInv, ThreadInv, DecoderInv, CodecKinds, DestroySteps,
        InitDecoder, locks, pads, library, history
  <2>10. EndInv'
    BY <1>10, <2>a, <2>b, <2>c, <2>d DEF ThreadTypes, FlagTypes, CodecTypes,
        PacketTypes, FrameTypes, PhaseInv, ThreadInv, DecoderInv, EndInv,
        TellInv, CodecKinds, DestroySteps, InitDecoder, locks, pads, library,
        history
  <2>11. QueueInv'
    BY <1>10, <2>a, <2>b, <2>c, <2>d DEF ThreadTypes, FlagTypes, CodecTypes,
        ThreadInv, QueueInv, EventKinds, DestroySteps, LoopSteps, InitDecoder,
        locks, pads, library, history
  <2>12. TellInv'
    BY <1>10, <2>a, <2>b, <2>c, <2>d DEF ThreadTypes, FlagTypes, CodecTypes,
        FrameTypes, LockInv, PhaseInv, ThreadInv, DecoderInv, EndInv, QueueInv,
        TellInv, HoldsEos, EventKinds, DestroySteps, InitDecoder, locks, pads,
        library, history
  <2>13. FrameInv'
    BY <1>10, <2>a, <2>b, <2>c, <2>d DEF ThreadTypes, FlagTypes, CodecTypes,
        PacketTypes, FrameTypes, DecoderInv, FrameInv, InitDecoder, locks,
        pads, library, history
  <2> QED BY <2>1, <2>2, <2>3, <2>4, <2>5, <2>6, <2>7, <2>8, <2>9, <2>10,
      <2>11, <2>12, <2>13, Zenon DEF IInv
<1>11. CASE element # "dead" /\ CreateDecoder
  <2>a. /\ made \in Decoders /\ decode = 0 /\ joinable /\ ~got_eos
        /\ codec[made] = "absent" /\ pending[made] = 0 /\ eos_in[made] = 0
        /\ ~eos_out[made] /\ made \notin told /\ element = "PAUSED"
        /\ pc[Loop] \notin {"abort_lock", "abort_push", "set_got_eos"}
    BY <1>11 DEF FlagTypes, CodecTypes, PhaseInv, ThreadInv, DecoderInv,
        EndInv, TellInv, CreateDecoder, Goto, locks, pads, history
  <2>b. /\ codec'[made] \in {"absent", "running"}
        /\ \A g \in Decoders : g # made => codec'[g] = codec[g]
        /\ decode' # 0 => decode' = made /\ codec'[made] = "running"
    BY <1>11, <2>a DEF CodecTypes, CreateDecoder, Goto, locks, pads, history
  <2>c. /\ pc'[Loop] = pc[Loop] /\ pc'[App] = pc[App]
        /\ pc'[Codec] = pc[Codec] /\ pc'[Streamer] = "idle"
        /\ event_queue' = event_queue /\ told' = told /\ made' = made
        /\ got_eos' = got_eos /\ joinable' = joinable /\ element' = element
        /\ eos_in' = eos_in /\ eos_out' = eos_out /\ pending' = pending
        /\ frame' = frame /\ held' = held
    BY <1>11 DEF ThreadTypes, CreateDecoder, Goto, locks, pads, history
  <2>1. ThreadTypes'
    BY <1>11, <2>a, <2>b, <2>c DEF ThreadTypes, Steps, DestroySteps, LoopSteps,
        ElementStates, CreateDecoder, Goto, locks, pads, history
  <2>2. FlagTypes'
    BY <1>11, <2>a, <2>b, <2>c DEF FlagTypes, EventKinds, PhaseInv,
        CreateDecoder, Goto, locks, pads, history
  <2>3. CodecTypes'
    BY <1>11, <2>a, <2>b, <2>c DEF CodecTypes, FlagTypes, CodecKinds,
        CreateDecoder, Goto, locks, pads, history
  <2>4. PacketTypes'
    BY <1>11, <2>a, <2>b, <2>c DEF PacketTypes, CodecTypes, FlagTypes,
        CreateDecoder, Goto, locks, pads, history
  <2>5. FrameTypes'
    BY <1>11, <2>a, <2>b, <2>c DEF FrameTypes, FlagTypes, CreateDecoder, Goto,
        locks, pads, history
  <2>6. LockInv'
    BY <1>11, <2>a, <2>b, <2>c DEF ThreadTypes, FlagTypes, LockInv, PhaseInv,
        HoldsEos, DestroySteps, CreateDecoder, Goto, locks, pads, history
  <2>7. PhaseInv'
    BY <1>11, <2>a, <2>b, <2>c DEF ThreadTypes, FlagTypes, CodecTypes, LockInv,
        PhaseInv, ThreadInv, DecoderInv, HoldsEos, DestroySteps, CreateDecoder,
        Goto, locks, pads, history
  <2>8. ThreadInv'
    BY <1>11, <2>a, <2>b, <2>c DEF ThreadTypes, FlagTypes, CodecTypes, LockInv,
        PhaseInv, ThreadInv, DecoderInv, HoldsEos, DestroySteps, LoopSteps,
        CreateDecoder, Goto, locks, pads, history
  <2>9. DecoderInv'
    BY <2>a, <2>b, <2>c DEF DecoderInv, FlagTypes, CodecTypes
  <2>10. EndInv'
    BY <2>a, <2>b, <2>c DEF EndInv, CodecTypes
  <2>11. QueueInv'
    BY <1>11, <2>a, <2>b, <2>c DEF ThreadTypes, FlagTypes, CodecTypes,
        ThreadInv, QueueInv, EventKinds, DestroySteps, LoopSteps,
        CreateDecoder, Goto, locks, pads, history
  <2>12. TellInv'
    BY <1>11, <2>a, <2>b, <2>c DEF ThreadTypes, FlagTypes, CodecTypes,
        FrameTypes, LockInv, PhaseInv, ThreadInv, DecoderInv, EndInv, QueueInv,
        TellInv, HoldsEos, EventKinds, DestroySteps, CreateDecoder, Goto,
        locks, pads, history
  <2>13. FrameInv'
    <3>1. UNCHANGED <<frame, held>>
      BY <1>11 DEF CreateDecoder, history
    <3>2. pc'[Codec] = pc[Codec]
      BY <1>11 DEF CreateDecoder, Goto, ThreadTypes
    <3>3. codec' = codec \/ codec' = [codec EXCEPT ![made] = "running"]
      BY <1>11 DEF CreateDecoder
    <3>4. frame # 0 => codec[frame] \in {"running", "aborted"} /\ frame \in DOMAIN codec
      BY DEF FrameInv, FrameTypes, CodecTypes
    <3>5. frame' # 0 => codec'[frame'] \in {"running", "aborted"}
      BY <3>1, <3>3, <3>4
    <3> QED BY <3>1, <3>2, <3>5 DEF FrameInv
  <2> QED BY <2>1, <2>2, <2>3, <2>4, <2>5, <2>6, <2>7, <2>8, <2>9, <2>10,
      <2>11, <2>12, <2>13, Zenon DEF IInv
<1>12. ASSUME NEW t \in {App, Streamer}, element # "dead", DestroyMustFeed(t)
      PROVE  IInv'
  <2>1. ThreadTypes'
    BY <1>12 DEF ThreadTypes, Steps, DestroySteps, LoopSteps, ElementStates,
        DestroyMustFeed, Goto, locks, flags, pads, library, history
  <2>2. FlagTypes'
    BY <1>12 DEF FlagTypes, EventKinds, DestroyMustFeed, Goto, locks, flags,
        pads, library, history
  <2>3. CodecTypes'
    BY <1>12 DEF CodecTypes, FlagTypes, CodecKinds, DestroyMustFeed, Goto,
        locks, flags, pads, library, history
  <2>4. PacketTypes'
    BY <1>12 DEF PacketTypes, CodecTypes, FlagTypes, DestroyMustFeed, Goto,
        locks, flags, pads, library, history
  <2>5. FrameTypes'
    BY <1>12 DEF FrameTypes, FlagTypes, DestroyMustFeed, Goto, locks, flags,
        pads, library, history
  <2>6. LockInv'
    BY <1>12 DEF ThreadTypes, FlagTypes, LockInv, PhaseInv, HoldsEos,
        DestroySteps, DestroyMustFeed, Goto, locks, flags, pads, library,
        history
  <2>7. PhaseInv'
    BY <1>12 DEF ThreadTypes, FlagTypes, CodecTypes, LockInv, PhaseInv,
        ThreadInv, DecoderInv, HoldsEos, DestroySteps, DestroyMustFeed, Goto,
        locks, flags, pads, library, history
  <2>8. ThreadInv'
    BY <1>12 DEF ThreadTypes, FlagTypes, CodecTypes, LockInv, PhaseInv,
        ThreadInv, DecoderInv, HoldsEos, DestroySteps, LoopSteps,
        DestroyMustFeed, Goto, locks, flags, pads, library, history
  <2>9. DecoderInv'
    BY <1>12 DEF ThreadTypes, FlagTypes, CodecTypes, PacketTypes, PhaseInv,
        ThreadInv, DecoderInv, CodecKinds, DestroySteps, DestroyMustFeed, Goto,
        locks, flags, pads, library, history
  <2>10. EndInv'
    BY <1>12 DEF ThreadTypes, FlagTypes, CodecTypes, PacketTypes, FrameTypes,
        PhaseInv, ThreadInv, DecoderInv, EndInv, TellInv, CodecKinds,
        DestroySteps, DestroyMustFeed, Goto, locks, flags, pads, library,
        history
  <2>11. QueueInv'
    BY <1>12 DEF ThreadTypes, FlagTypes, CodecTypes, ThreadInv, QueueInv,
        EventKinds, DestroySteps, LoopSteps, DestroyMustFeed, Goto, locks,
        flags, pads, library, history
  <2>12. TellInv'
    BY <1>12 DEF ThreadTypes, FlagTypes, CodecTypes, FrameTypes, LockInv,
        PhaseInv, ThreadInv, DecoderInv, EndInv, QueueInv, TellInv, HoldsEos,
        EventKinds, DestroySteps, DestroyMustFeed, Goto, locks, flags, pads,
        library, history
  <2>13. FrameInv'
    BY <1>12 DEF ThreadTypes, FlagTypes, CodecTypes, PacketTypes, FrameTypes,
        DecoderInv, FrameInv, DestroyMustFeed, Goto, locks, flags, pads,
        library, history
  <2> QED BY <2>1, <2>2, <2>3, <2>4, <2>5, <2>6, <2>7, <2>8, <2>9, <2>10,
      <2>11, <2>12, <2>13, Zenon DEF IInv
<1>13. ASSUME NEW t \in {App, Streamer}, element # "dead", DestroyFeed(t)
      PROVE  IInv'
  <2>a. /\ codec' = codec /\ pending' = pending /\ eos_out' = eos_out
        /\ frame' = frame /\ told' = told /\ made' = made
        /\ decode' = decode /\ event_queue' = event_queue
        /\ got_eos' = got_eos /\ joinable' = joinable
        /\ pc'[Loop] = pc[Loop]
    BY <1>13 DEF ThreadTypes, DestroyFeed, FeedEos, CodecTakesEos, Goto, locks,
        pads
  <2>b. \/ eos_in' = eos_in
        \/ decode \in Decoders /\ eos_in' = [eos_in EXCEPT ![decode] = @ + 1]
    BY <1>13 DEF FlagTypes, DestroyFeed, FeedEos, CodecTakesEos, Goto, locks,
        pads
  <2>c. /\ eos_in' \in [Decoders -> Nat]
        /\ \A g \in Decoders : /\ eos_in[g] > 0 => eos_in'[g] > 0
                               /\ g # decode => eos_in'[g] = eos_in[g]
    <3>1. CASE eos_in' = eos_in
      BY <3>1 DEF CodecTypes
    <3>2. CASE decode \in Decoders /\ eos_in' = [eos_in EXCEPT ![decode] = eos_in[decode] + 1]
      BY <3>2 DEF CodecTypes
    <3> QED BY <2>b, <3>1, <3>2
  <2>1. ThreadTypes'
    BY <1>13, <2>a, <2>b, <2>c DEF ThreadTypes, Steps, DestroySteps, LoopSteps,
        ElementStates, DestroyFeed, FeedEos, CodecTakesEos, Goto, locks, pads
  <2>2. FlagTypes'
    BY <1>13, <2>a, <2>b, <2>c DEF FlagTypes, EventKinds, DestroyFeed, FeedEos,
        CodecTakesEos, Goto, locks, pads
  <2>3. CodecTypes'
    BY <1>13, <2>a, <2>b, <2>c DEF CodecTypes, FlagTypes, CodecKinds,
        DestroyFeed, FeedEos, CodecTakesEos, Goto, locks, pads
  <2>4. PacketTypes'
    BY <1>13, <2>a, <2>b, <2>c DEF PacketTypes, CodecTypes, FlagTypes,
        DestroyFeed, FeedEos, CodecTakesEos, Goto, locks, pads
  <2>5. FrameTypes'
    BY <1>13, <2>a, <2>b, <2>c DEF FrameTypes, FlagTypes, DestroyFeed, FeedEos,
        CodecTakesEos, Goto, locks, pads
  <2>6. LockInv'
    BY <1>13, <2>a, <2>b, <2>c DEF ThreadTypes, FlagTypes, LockInv, PhaseInv,
        HoldsEos, DestroySteps, DestroyFeed, FeedEos, CodecTakesEos, Goto,
        locks, pads
  <2>7. PhaseInv'
    BY <1>13, <2>a, <2>b, <2>c DEF ThreadTypes, FlagTypes, CodecTypes, LockInv,
        PhaseInv, ThreadInv, DecoderInv, HoldsEos, DestroySteps, DestroyFeed,
        FeedEos, CodecTakesEos, Goto, locks, pads
  <2>8. ThreadInv'
    BY <1>13, <2>a, <2>b, <2>c DEF ThreadTypes, FlagTypes, CodecTypes, LockInv,
        PhaseInv, ThreadInv, DecoderInv, HoldsEos, DestroySteps, LoopSteps,
        DestroyFeed, FeedEos, CodecTakesEos, Goto, locks, pads
  <2>9. DecoderInv'
    BY <2>a, <2>c DEF DecoderInv, FlagTypes
  <2>10. EndInv'
    <3>1. EndInv
      OBVIOUS
    <3>2. \A g \in Decoders : eos_in[g] > 0 => eos_in'[g] > 0
      BY <2>c
    <3> HIDE FiveThreads, BoundAssumption DEF IInv, Decoders
    <3> QED BY <2>a, <3>1, <3>2 DEF EndInv
  <2>11. QueueInv'
    BY <1>13, <2>a, <2>b, <2>c DEF ThreadTypes, FlagTypes, CodecTypes,
        ThreadInv, QueueInv, EventKinds, DestroySteps, LoopSteps, DestroyFeed,
        FeedEos, CodecTakesEos, Goto, locks, pads
  <2>12. TellInv'
    BY <1>13, <2>a, <2>b, <2>c DEF ThreadTypes, FlagTypes, CodecTypes,
        FrameTypes, LockInv, PhaseInv, ThreadInv, DecoderInv, EndInv, QueueInv,
        TellInv, HoldsEos, EventKinds, DestroySteps, DestroyFeed, FeedEos,
        CodecTakesEos, Goto, locks, pads
  <2>13. FrameInv'
    BY <1>13, <2>a, <2>b, <2>c DEF ThreadTypes, FlagTypes, CodecTypes,
        PacketTypes, FrameTypes, DecoderInv, FrameInv, DestroyFeed, FeedEos,
        CodecTakesEos, Goto, locks, pads
  <2> QED BY <2>1, <2>2, <2>3, <2>4, <2>5, <2>6, <2>7, <2>8, <2>9, <2>10,
      <2>11, <2>12, <2>13, Zenon DEF IInv
<1>14. ASSUME NEW t \in {App, Streamer}, element # "dead", DestroyNeedNotFeed(t)
      PROVE  IInv'
  <2>1. ThreadTypes'
    BY <1>14 DEF ThreadTypes, Steps, DestroySteps, LoopSteps, ElementStates,
        DestroyNeedNotFeed, Acquire, Goto, pads, library, history
  <2>2. FlagTypes'
    BY <1>14 DEF FlagTypes, EventKinds, DestroyNeedNotFeed, Acquire, Goto,
        pads, library, history
  <2>3. CodecTypes'
    BY <1>14 DEF CodecTypes, FlagTypes, CodecKinds, DestroyNeedNotFeed,
        Acquire, Goto, pads, library, history
  <2>4. PacketTypes'
    BY <1>14 DEF PacketTypes, CodecTypes, FlagTypes, DestroyNeedNotFeed,
        Acquire, Goto, pads, library, history
  <2>5. FrameTypes'
    BY <1>14 DEF FrameTypes, FlagTypes, DestroyNeedNotFeed, Acquire, Goto,
        pads, library, history
  <2>6. LockInv'
    BY <1>14 DEF ThreadTypes, FlagTypes, LockInv, PhaseInv, HoldsEos,
        DestroySteps, DestroyNeedNotFeed, Acquire, Goto, pads, library, history
  <2>7. PhaseInv'
    BY <1>14 DEF ThreadTypes, FlagTypes, CodecTypes, LockInv, PhaseInv,
        ThreadInv, DecoderInv, HoldsEos, DestroySteps, DestroyNeedNotFeed,
        Acquire, Goto, pads, library, history
  <2>8. ThreadInv'
    BY <1>14 DEF ThreadTypes, FlagTypes, CodecTypes, LockInv, PhaseInv,
        ThreadInv, DecoderInv, HoldsEos, DestroySteps, LoopSteps,
        DestroyNeedNotFeed, Acquire, Goto, pads, library, history
  <2>9. DecoderInv'
    BY <1>14 DEF ThreadTypes, FlagTypes, CodecTypes, PacketTypes, PhaseInv,
        ThreadInv, DecoderInv, CodecKinds, DestroySteps, DestroyNeedNotFeed,
        Acquire, Goto, pads, library, history
  <2>10. EndInv'
    BY <1>14 DEF ThreadTypes, FlagTypes, CodecTypes, PacketTypes, FrameTypes,
        PhaseInv, ThreadInv, DecoderInv, EndInv, TellInv, CodecKinds,
        DestroySteps, DestroyNeedNotFeed, Acquire, Goto, pads, library, history
  <2>11. QueueInv'
    BY <1>14 DEF ThreadTypes, FlagTypes, CodecTypes, ThreadInv, QueueInv,
        EventKinds, DestroySteps, LoopSteps, DestroyNeedNotFeed, Acquire, Goto,
        pads, library, history
  <2>12. TellInv'
    BY <1>14 DEF ThreadTypes, FlagTypes, CodecTypes, FrameTypes, LockInv,
        PhaseInv, ThreadInv, DecoderInv, EndInv, QueueInv, TellInv, HoldsEos,
        EventKinds, DestroySteps, DestroyNeedNotFeed, Acquire, Goto, pads,
        library, history
  <2>13. FrameInv'
    BY <1>14 DEF ThreadTypes, FlagTypes, CodecTypes, PacketTypes, FrameTypes,
        DecoderInv, FrameInv, DestroyNeedNotFeed, Acquire, Goto, pads, library,
        history
  <2> QED BY <2>1, <2>2, <2>3, <2>4, <2>5, <2>6, <2>7, <2>8, <2>9, <2>10,
      <2>11, <2>12, <2>13, Zenon DEF IInv
<1>15. ASSUME NEW t \in {App, Streamer}, element # "dead", DestroyRelock(t)
      PROVE  IInv'
  <2>1. ThreadTypes'
    BY <1>15 DEF ThreadTypes, Steps, DestroySteps, LoopSteps, ElementStates,
        DestroyRelock, Acquire, Goto, flags, pads, library, history
  <2>2. FlagTypes'
    BY <1>15 DEF FlagTypes, EventKinds, DestroyRelock, Acquire, Goto, flags,
        pads, library, history
  <2>3. CodecTypes'
    BY <1>15 DEF CodecTypes, FlagTypes, CodecKinds, DestroyRelock, Acquire,
        Goto, flags, pads, library, history
  <2>4. PacketTypes'
    BY <1>15 DEF PacketTypes, CodecTypes, FlagTypes, DestroyRelock, Acquire,
        Goto, flags, pads, library, history
  <2>5. FrameTypes'
    BY <1>15 DEF FrameTypes, FlagTypes, DestroyRelock, Acquire, Goto, flags,
        pads, library, history
  <2>6. LockInv'
    BY <1>15 DEF ThreadTypes, FlagTypes, LockInv, PhaseInv, HoldsEos,
        DestroySteps, DestroyRelock, Acquire, Goto, flags, pads, library,
        history
  <2>7. PhaseInv'
    BY <1>15 DEF ThreadTypes, FlagTypes, CodecTypes, LockInv, PhaseInv,
        ThreadInv, DecoderInv, HoldsEos, DestroySteps, DestroyRelock, Acquire,
        Goto, flags, pads, library, history
  <2>8. ThreadInv'
    BY <1>15 DEF ThreadTypes, FlagTypes, CodecTypes, LockInv, PhaseInv,
        ThreadInv, DecoderInv, HoldsEos, DestroySteps, LoopSteps,
        DestroyRelock, Acquire, Goto, flags, pads, library, history
  <2>9. DecoderInv'
    BY <1>15 DEF ThreadTypes, FlagTypes, CodecTypes, PacketTypes, PhaseInv,
        ThreadInv, DecoderInv, CodecKinds, DestroySteps, DestroyRelock,
        Acquire, Goto, flags, pads, library, history
  <2>10. EndInv'
    BY <1>15 DEF ThreadTypes, FlagTypes, CodecTypes, PacketTypes, FrameTypes,
        PhaseInv, ThreadInv, DecoderInv, EndInv, TellInv, CodecKinds,
        DestroySteps, DestroyRelock, Acquire, Goto, flags, pads, library,
        history
  <2>11. QueueInv'
    BY <1>15 DEF ThreadTypes, FlagTypes, CodecTypes, ThreadInv, QueueInv,
        EventKinds, DestroySteps, LoopSteps, DestroyRelock, Acquire, Goto,
        flags, pads, library, history
  <2>12. TellInv'
    BY <1>15 DEF ThreadTypes, FlagTypes, CodecTypes, FrameTypes, LockInv,
        PhaseInv, ThreadInv, DecoderInv, EndInv, QueueInv, TellInv, HoldsEos,
        EventKinds, DestroySteps, DestroyRelock, Acquire, Goto, flags, pads,
        library, history
  <2>13. FrameInv'
    BY <1>15 DEF ThreadTypes, FlagTypes, CodecTypes, PacketTypes, FrameTypes,
        DecoderInv, FrameInv, DestroyRelock, Acquire, Goto, flags, pads,
        library, history
  <2> QED BY <2>1, <2>2, <2>3, <2>4, <2>5, <2>6, <2>7, <2>8, <2>9, <2>10,
      <2>11, <2>12, <2>13, Zenon DEF IInv
<1>16. ASSUME NEW t \in {App, Streamer}, element # "dead", DestroyBlock(t)
      PROVE  IInv'
  <2>1. ThreadTypes'
    BY <1>16 DEF ThreadTypes, Steps, DestroySteps, LoopSteps, ElementStates,
        DestroyBlock, Release, Goto, flags, pads, library, history
  <2>2. FlagTypes'
    BY <1>16 DEF FlagTypes, EventKinds, DestroyBlock, Release, Goto, flags,
        pads, library, history
  <2>3. CodecTypes'
    BY <1>16 DEF CodecTypes, FlagTypes, CodecKinds, DestroyBlock, Release,
        Goto, flags, pads, library, history
  <2>4. PacketTypes'
    BY <1>16 DEF PacketTypes, CodecTypes, FlagTypes, DestroyBlock, Release,
        Goto, flags, pads, library, history
  <2>5. FrameTypes'
    BY <1>16 DEF FrameTypes, FlagTypes, DestroyBlock, Release, Goto, flags,
        pads, library, history
  <2>6. LockInv'
    BY <1>16 DEF ThreadTypes, FlagTypes, LockInv, PhaseInv, HoldsEos,
        DestroySteps, DestroyBlock, Release, Goto, flags, pads, library,
        history
  <2>7. PhaseInv'
    BY <1>16 DEF ThreadTypes, FlagTypes, CodecTypes, LockInv, PhaseInv,
        ThreadInv, DecoderInv, HoldsEos, DestroySteps, DestroyBlock, Release,
        Goto, flags, pads, library, history
  <2>8. ThreadInv'
    BY <1>16 DEF ThreadTypes, FlagTypes, CodecTypes, LockInv, PhaseInv,
        ThreadInv, DecoderInv, HoldsEos, DestroySteps, LoopSteps, DestroyBlock,
        Release, Goto, flags, pads, library, history
  <2>9. DecoderInv'
    BY <1>16 DEF ThreadTypes, FlagTypes, CodecTypes, PacketTypes, PhaseInv,
        ThreadInv, DecoderInv, CodecKinds, DestroySteps, DestroyBlock, Release,
        Goto, flags, pads, library, history
  <2>10. EndInv'
    BY <1>16 DEF ThreadTypes, FlagTypes, CodecTypes, PacketTypes, FrameTypes,
        PhaseInv, ThreadInv, DecoderInv, EndInv, TellInv, CodecKinds,
        DestroySteps, DestroyBlock, Release, Goto, flags, pads, library,
        history
  <2>11. QueueInv'
    BY <1>16 DEF ThreadTypes, FlagTypes, CodecTypes, ThreadInv, QueueInv,
        EventKinds, DestroySteps, LoopSteps, DestroyBlock, Release, Goto,
        flags, pads, library, history
  <2>12. TellInv'
    BY <1>16 DEF ThreadTypes, FlagTypes, CodecTypes, FrameTypes, LockInv,
        PhaseInv, ThreadInv, DecoderInv, EndInv, QueueInv, TellInv, HoldsEos,
        EventKinds, DestroySteps, DestroyBlock, Release, Goto, flags, pads,
        library, history
  <2>13. FrameInv'
    BY <1>16 DEF ThreadTypes, FlagTypes, CodecTypes, PacketTypes, FrameTypes,
        DecoderInv, FrameInv, DestroyBlock, Release, Goto, flags, pads,
        library, history
  <2> QED BY <2>1, <2>2, <2>3, <2>4, <2>5, <2>6, <2>7, <2>8, <2>9, <2>10,
      <2>11, <2>12, <2>13, Zenon DEF IInv
<1>17. ASSUME NEW t \in {App, Streamer}, element # "dead", DestroyNotify(t)
      PROVE  IInv'
  <2>1. ThreadTypes'
    BY <1>17 DEF ThreadTypes, Steps, DestroySteps, LoopSteps, ElementStates,
        DestroyNotify, locks, flags, pads, library, history
  <2>2. FlagTypes'
    BY <1>17 DEF FlagTypes, EventKinds, DestroyNotify, locks, flags, pads,
        library, history
  <2>3. CodecTypes'
    BY <1>17 DEF CodecTypes, FlagTypes, CodecKinds, DestroyNotify, locks,
        flags, pads, library, history
  <2>4. PacketTypes'
    BY <1>17 DEF PacketTypes, CodecTypes, FlagTypes, DestroyNotify, locks,
        flags, pads, library, history
  <2>5. FrameTypes'
    BY <1>17 DEF FrameTypes, FlagTypes, DestroyNotify, locks, flags, pads,
        library, history
  <2>6. LockInv'
    BY <1>17 DEF ThreadTypes, FlagTypes, LockInv, PhaseInv, HoldsEos,
        DestroySteps, DestroyNotify, locks, flags, pads, library, history
  <2>7. PhaseInv'
    BY <1>17 DEF ThreadTypes, FlagTypes, CodecTypes, LockInv, PhaseInv,
        ThreadInv, DecoderInv, HoldsEos, DestroySteps, DestroyNotify, locks,
        flags, pads, library, history
  <2>8. ThreadInv'
    BY <1>17 DEF ThreadTypes, FlagTypes, CodecTypes, LockInv, PhaseInv,
        ThreadInv, DecoderInv, HoldsEos, DestroySteps, LoopSteps,
        DestroyNotify, locks, flags, pads, library, history
  <2>9. DecoderInv'
    BY <1>17 DEF ThreadTypes, FlagTypes, CodecTypes, PacketTypes, PhaseInv,
        ThreadInv, DecoderInv, CodecKinds, DestroySteps, DestroyNotify, locks,
        flags, pads, library, history
  <2>10. EndInv'
    BY <1>17 DEF ThreadTypes, FlagTypes, CodecTypes, PacketTypes, FrameTypes,
        PhaseInv, ThreadInv, DecoderInv, EndInv, TellInv, CodecKinds,
        DestroySteps, DestroyNotify, locks, flags, pads, library, history
  <2>11. QueueInv'
    BY <1>17 DEF ThreadTypes, FlagTypes, CodecTypes, ThreadInv, QueueInv,
        EventKinds, DestroySteps, LoopSteps, DestroyNotify, locks, flags, pads,
        library, history
  <2>12. TellInv'
    BY <1>17 DEF ThreadTypes, FlagTypes, CodecTypes, FrameTypes, LockInv,
        PhaseInv, ThreadInv, DecoderInv, EndInv, QueueInv, TellInv, HoldsEos,
        EventKinds, DestroySteps, DestroyNotify, locks, flags, pads, library,
        history
  <2>13. FrameInv'
    BY <1>17 DEF ThreadTypes, FlagTypes, CodecTypes, PacketTypes, FrameTypes,
        DecoderInv, FrameInv, DestroyNotify, locks, flags, pads, library,
        history
  <2> QED BY <2>1, <2>2, <2>3, <2>4, <2>5, <2>6, <2>7, <2>8, <2>9, <2>10,
      <2>11, <2>12, <2>13, Zenon DEF IInv
<1>18. ASSUME NEW t \in {App, Streamer}, element # "dead", DestroyJoin(t)
      PROVE  IInv'
  <2>1. ThreadTypes'
    BY <1>18 DEF ThreadTypes, Steps, DestroySteps, LoopSteps, ElementStates,
        DestroyJoin, Goto, locks, pads, library, history
  <2>2. FlagTypes'
    BY <1>18 DEF FlagTypes, EventKinds, DestroyJoin, Goto, locks, pads,
        library, history
  <2>3. CodecTypes'
    BY <1>18 DEF CodecTypes, FlagTypes, CodecKinds, DestroyJoin, Goto, locks,
        pads, library, history
  <2>4. PacketTypes'
    BY <1>18 DEF PacketTypes, CodecTypes, FlagTypes, DestroyJoin, Goto, locks,
        pads, library, history
  <2>5. FrameTypes'
    BY <1>18 DEF FrameTypes, FlagTypes, DestroyJoin, Goto, locks, pads,
        library, history
  <2>6. LockInv'
    BY <1>18 DEF ThreadTypes, FlagTypes, LockInv, PhaseInv, HoldsEos,
        DestroySteps, DestroyJoin, Goto, locks, pads, library, history
  <2>7. PhaseInv'
    BY <1>18 DEF ThreadTypes, FlagTypes, CodecTypes, LockInv, PhaseInv,
        ThreadInv, DecoderInv, HoldsEos, DestroySteps, DestroyJoin, Goto,
        locks, pads, library, history
  <2>8. ThreadInv'
    BY <1>18 DEF ThreadTypes, FlagTypes, CodecTypes, LockInv, PhaseInv,
        ThreadInv, DecoderInv, HoldsEos, DestroySteps, LoopSteps, DestroyJoin,
        Goto, locks, pads, library, history
  <2>9. DecoderInv'
    <3>1. UNCHANGED <<codec, decode, made, eos_in, pending>>
      BY <1>18 DEF DestroyJoin, library
    <3>2. made # 0 /\ (decode # 0 \/ codec[made] = "aborted")
      BY <1>18 DEF DestroyJoin, ThreadInv, DestroySteps
    <3>3. made \in Decoders /\ decode \in {0, made}
      BY <3>2 DEF FlagTypes
    <3>4. codec[made] # "absent"
      BY <3>2, <3>3 DEF DecoderInv
    <3>5. \A g \in Decoders : codec[g] = "running" => decode = g
      BY <3>2, <3>3 DEF DecoderInv
    <3>6. joinable' = FALSE
      BY <1>18 DEF DestroyJoin
    <3> QED BY <3>1, <3>4, <3>5, <3>6 DEF DecoderInv
  <2>10. EndInv'
    BY <1>18 DEF ThreadTypes, FlagTypes, CodecTypes, PacketTypes, FrameTypes,
        PhaseInv, ThreadInv, DecoderInv, EndInv, TellInv, CodecKinds,
        DestroySteps, DestroyJoin, Goto, locks, pads, library, history
  <2>11. QueueInv'
    BY <1>18 DEF ThreadTypes, FlagTypes, CodecTypes, ThreadInv, QueueInv,
        EventKinds, DestroySteps, LoopSteps, DestroyJoin, Goto, locks, pads,
        library, history
  <2>12. TellInv'
    BY <1>18 DEF ThreadTypes, FlagTypes, CodecTypes, FrameTypes, LockInv,
        PhaseInv, ThreadInv, DecoderInv, EndInv, QueueInv, TellInv, HoldsEos,
        EventKinds, DestroySteps, DestroyJoin, Goto, locks, pads, library,
        history
  <2>13. FrameInv'
    BY <1>18 DEF ThreadTypes, FlagTypes, CodecTypes, PacketTypes, FrameTypes,
        DecoderInv, FrameInv, DestroyJoin, Goto, locks, pads, library, history
  <2> QED BY <2>1, <2>2, <2>3, <2>4, <2>5, <2>6, <2>7, <2>8, <2>9, <2>10,
      <2>11, <2>12, <2>13, Zenon DEF IInv
<1>19. ASSUME NEW t \in {App, Streamer}, element # "dead", DestroyFree(t)
      PROVE  IInv'
  <2>a. frame = 0 \/ frame # decode
    BY <1>19 DEF DestroyFree, Release, Goto, pads, history, ThreadTypes,
        FlagTypes, CodecTypes, PacketTypes, FrameTypes, LockInv, PhaseInv,
        ThreadInv, DecoderInv, EndInv, QueueInv, TellInv, FrameInv, HoldsEos,
        DestroySteps, LoopSteps, EventKinds, CodecKinds
  <2>1. ThreadTypes'
    BY <1>19, <2>a DEF ThreadTypes, Steps, DestroySteps, LoopSteps,
        ElementStates, DestroyFree, Release, Goto, pads, history
  <2>2. FlagTypes'
    BY <1>19, <2>a DEF FlagTypes, EventKinds, DestroyFree, Release, Goto, pads,
        history
  <2>3. CodecTypes'
    BY <1>19, <2>a DEF CodecTypes, FlagTypes, CodecKinds, DestroyFree, Release,
        Goto, pads, history
  <2>4. PacketTypes'
    BY <1>19, <2>a DEF PacketTypes, CodecTypes, FlagTypes, DestroyFree,
        Release, Goto, pads, history
  <2>5. FrameTypes'
    BY <1>19, <2>a DEF FrameTypes, FlagTypes, DestroyFree, Release, Goto, pads,
        history
  <2>6. LockInv'
    BY <1>19, <2>a DEF ThreadTypes, FlagTypes, LockInv, PhaseInv, HoldsEos,
        DestroySteps, DestroyFree, Release, Goto, pads, history
  <2>7. PhaseInv'
    BY <1>19, <2>a DEF ThreadTypes, FlagTypes, CodecTypes, LockInv, PhaseInv,
        ThreadInv, DecoderInv, HoldsEos, DestroySteps, DestroyFree, Release,
        Goto, pads, history
  <2>8. ThreadInv'
    BY <1>19, <2>a DEF ThreadTypes, FlagTypes, CodecTypes, LockInv, PhaseInv,
        ThreadInv, DecoderInv, HoldsEos, DestroySteps, LoopSteps, DestroyFree,
        Release, Goto, pads, history
  <2>9. DecoderInv'
    BY <1>19, <2>a DEF ThreadTypes, FlagTypes, CodecTypes, PacketTypes,
        PhaseInv, ThreadInv, DecoderInv, CodecKinds, DestroySteps, DestroyFree,
        Release, Goto, pads, history
  <2>10. EndInv'
    BY <1>19, <2>a DEF ThreadTypes, FlagTypes, CodecTypes, PacketTypes,
        FrameTypes, PhaseInv, ThreadInv, DecoderInv, EndInv, TellInv,
        CodecKinds, DestroySteps, DestroyFree, Release, Goto, pads, history
  <2>11. QueueInv'
    BY <1>19, <2>a DEF ThreadTypes, FlagTypes, CodecTypes, ThreadInv, QueueInv,
        EventKinds, DestroySteps, LoopSteps, DestroyFree, Release, Goto, pads,
        history
  <2>12. TellInv'
    BY <1>19, <2>a DEF ThreadTypes, FlagTypes, CodecTypes, FrameTypes, LockInv,
        PhaseInv, ThreadInv, DecoderInv, EndInv, QueueInv, TellInv, HoldsEos,
        EventKinds, DestroySteps, DestroyFree, Release, Goto, pads, history
  <2>13. FrameInv'
    BY <1>19, <2>a DEF ThreadTypes, FlagTypes, CodecTypes, PacketTypes,
        FrameTypes, DecoderInv, FrameInv, DestroyFree, Release, Goto, pads,
        history
  <2> QED BY <2>1, <2>2, <2>3, <2>4, <2>5, <2>6, <2>7, <2>8, <2>9, <2>10,
      <2>11, <2>12, <2>13, Zenon DEF IInv
<1>20. CASE element # "dead" /\ LoopLock
  <2>1. ThreadTypes'
    BY <1>20 DEF ThreadTypes, Steps, DestroySteps, LoopSteps, ElementStates,
        LoopLock, Acquire, Goto, flags, pads, library, history
  <2>2. FlagTypes'
    BY <1>20 DEF FlagTypes, EventKinds, LoopLock, Acquire, Goto, flags, pads,
        library, history
  <2>3. CodecTypes'
    BY <1>20 DEF CodecTypes, FlagTypes, CodecKinds, LoopLock, Acquire, Goto,
        flags, pads, library, history
  <2>4. PacketTypes'
    BY <1>20 DEF PacketTypes, CodecTypes, FlagTypes, LoopLock, Acquire, Goto,
        flags, pads, library, history
  <2>5. FrameTypes'
    BY <1>20 DEF FrameTypes, FlagTypes, LoopLock, Acquire, Goto, flags, pads,
        library, history
  <2>6. LockInv'
    BY <1>20 DEF ThreadTypes, FlagTypes, LockInv, PhaseInv, HoldsEos,
        DestroySteps, LoopLock, Acquire, Goto, flags, pads, library, history
  <2>7. PhaseInv'
    BY <1>20 DEF ThreadTypes, FlagTypes, CodecTypes, LockInv, PhaseInv,
        ThreadInv, DecoderInv, HoldsEos, DestroySteps, LoopLock, Acquire, Goto,
        flags, pads, library, history
  <2>8. ThreadInv'
    BY <1>20 DEF ThreadTypes, FlagTypes, CodecTypes, LockInv, PhaseInv,
        ThreadInv, DecoderInv, HoldsEos, DestroySteps, LoopSteps, LoopLock,
        Acquire, Goto, flags, pads, library, history
  <2>9. DecoderInv'
    BY <1>20 DEF ThreadTypes, FlagTypes, CodecTypes, PacketTypes, PhaseInv,
        ThreadInv, DecoderInv, CodecKinds, DestroySteps, LoopLock, Acquire,
        Goto, flags, pads, library, history
  <2>10. EndInv'
    BY <1>20 DEF ThreadTypes, FlagTypes, CodecTypes, PacketTypes, FrameTypes,
        PhaseInv, ThreadInv, DecoderInv, EndInv, TellInv, CodecKinds,
        DestroySteps, LoopLock, Acquire, Goto, flags, pads, library, history
  <2>11. QueueInv'
    BY <1>20 DEF ThreadTypes, FlagTypes, CodecTypes, ThreadInv, QueueInv,
        EventKinds, DestroySteps, LoopSteps, LoopLock, Acquire, Goto, flags,
        pads, library, history
  <2>12. TellInv'
    BY <1>20 DEF ThreadTypes, FlagTypes, CodecTypes, FrameTypes, LockInv,
        PhaseInv, ThreadInv, DecoderInv, EndInv, QueueInv, TellInv, HoldsEos,
        EventKinds, DestroySteps, LoopLock, Acquire, Goto, flags, pads,
        library, history
  <2>13. FrameInv'
    BY <1>20 DEF ThreadTypes, FlagTypes, CodecTypes, PacketTypes, FrameTypes,
        DecoderInv, FrameInv, LoopLock, Acquire, Goto, flags, pads, library,
        history
  <2> QED BY <2>1, <2>2, <2>3, <2>4, <2>5, <2>6, <2>7, <2>8, <2>9, <2>10,
      <2>11, <2>12, <2>13, Zenon DEF IInv
<1>21. CASE element # "dead" /\ LoopExit
  <2>1. ThreadTypes'
    BY <1>21 DEF ThreadTypes, Steps, DestroySteps, LoopSteps, ElementStates,
        LoopExit, Release, Goto, flags, pads, library, history
  <2>2. FlagTypes'
    BY <1>21 DEF FlagTypes, EventKinds, LoopExit, Release, Goto, flags, pads,
        library, history
  <2>3. CodecTypes'
    BY <1>21 DEF CodecTypes, FlagTypes, CodecKinds, LoopExit, Release, Goto,
        flags, pads, library, history
  <2>4. PacketTypes'
    BY <1>21 DEF PacketTypes, CodecTypes, FlagTypes, LoopExit, Release, Goto,
        flags, pads, library, history
  <2>5. FrameTypes'
    BY <1>21 DEF FrameTypes, FlagTypes, LoopExit, Release, Goto, flags, pads,
        library, history
  <2>6. LockInv'
    BY <1>21 DEF ThreadTypes, FlagTypes, LockInv, PhaseInv, HoldsEos,
        DestroySteps, LoopExit, Release, Goto, flags, pads, library, history
  <2>7. PhaseInv'
    BY <1>21 DEF ThreadTypes, FlagTypes, CodecTypes, LockInv, PhaseInv,
        ThreadInv, DecoderInv, HoldsEos, DestroySteps, LoopExit, Release, Goto,
        flags, pads, library, history
  <2>8. ThreadInv'
    BY <1>21 DEF ThreadTypes, FlagTypes, CodecTypes, LockInv, PhaseInv,
        ThreadInv, DecoderInv, HoldsEos, DestroySteps, LoopSteps, LoopExit,
        Release, Goto, flags, pads, library, history
  <2>9. DecoderInv'
    BY <1>21 DEF ThreadTypes, FlagTypes, CodecTypes, PacketTypes, PhaseInv,
        ThreadInv, DecoderInv, CodecKinds, DestroySteps, LoopExit, Release,
        Goto, flags, pads, library, history
  <2>10. EndInv'
    BY <1>21 DEF ThreadTypes, FlagTypes, CodecTypes, PacketTypes, FrameTypes,
        PhaseInv, ThreadInv, DecoderInv, EndInv, TellInv, CodecKinds,
        DestroySteps, LoopExit, Release, Goto, flags, pads, library, history
  <2>11. QueueInv'
    BY <1>21 DEF ThreadTypes, FlagTypes, CodecTypes, ThreadInv, QueueInv,
        EventKinds, DestroySteps, LoopSteps, LoopExit, Release, Goto, flags,
        pads, library, history
  <2>12. TellInv'
    BY <1>21 DEF ThreadTypes, FlagTypes, CodecTypes, FrameTypes, LockInv,
        PhaseInv, ThreadInv, DecoderInv, EndInv, QueueInv, TellInv, HoldsEos,
        EventKinds, DestroySteps, LoopExit, Release, Goto, flags, pads,
        library, history
  <2>13. FrameInv'
    BY <1>21 DEF ThreadTypes, FlagTypes, CodecTypes, PacketTypes, FrameTypes,
        DecoderInv, FrameInv, LoopExit, Release, Goto, flags, pads, library,
        history
  <2> QED BY <2>1, <2>2, <2>3, <2>4, <2>5, <2>6, <2>7, <2>8, <2>9, <2>10,
      <2>11, <2>12, <2>13, Zenon DEF IInv
<1>22. CASE element # "dead" /\ LoopTake
  <2>1. ThreadTypes'
    BY <1>22 DEF ThreadTypes, Steps, DestroySteps, LoopSteps, ElementStates,
        LoopTake, Release, Goto, flags, pads, library, history
  <2>2. FlagTypes'
    BY <1>22 DEF FlagTypes, EventKinds, LoopTake, Release, Goto, flags, pads,
        library, history
  <2>3. CodecTypes'
    BY <1>22 DEF CodecTypes, FlagTypes, CodecKinds, LoopTake, Release, Goto,
        flags, pads, library, history
  <2>4. PacketTypes'
    BY <1>22 DEF PacketTypes, CodecTypes, FlagTypes, LoopTake, Release, Goto,
        flags, pads, library, history
  <2>5. FrameTypes'
    BY <1>22 DEF FrameTypes, FlagTypes, LoopTake, Release, Goto, flags, pads,
        library, history
  <2>6. LockInv'
    BY <1>22 DEF ThreadTypes, FlagTypes, LockInv, PhaseInv, HoldsEos,
        DestroySteps, LoopTake, Release, Goto, flags, pads, library, history
  <2>7. PhaseInv'
    BY <1>22 DEF ThreadTypes, FlagTypes, CodecTypes, LockInv, PhaseInv,
        ThreadInv, DecoderInv, HoldsEos, DestroySteps, LoopTake, Release, Goto,
        flags, pads, library, history
  <2>8. ThreadInv'
    BY <1>22 DEF ThreadTypes, FlagTypes, CodecTypes, LockInv, PhaseInv,
        ThreadInv, DecoderInv, HoldsEos, DestroySteps, LoopSteps, LoopTake,
        Release, Goto, flags, pads, library, history
  <2>9. DecoderInv'
    BY <1>22 DEF ThreadTypes, FlagTypes, CodecTypes, PacketTypes, PhaseInv,
        ThreadInv, DecoderInv, CodecKinds, DestroySteps, LoopTake, Release,
        Goto, flags, pads, library, history
  <2>10. EndInv'
    BY <1>22 DEF ThreadTypes, FlagTypes, CodecTypes, PacketTypes, FrameTypes,
        PhaseInv, ThreadInv, DecoderInv, EndInv, TellInv, CodecKinds,
        DestroySteps, LoopTake, Release, Goto, flags, pads, library, history
  <2>11. QueueInv'
    BY <1>22 DEF ThreadTypes, FlagTypes, CodecTypes, ThreadInv, QueueInv,
        EventKinds, DestroySteps, LoopSteps, LoopTake, Release, Goto, flags,
        pads, library, history
  <2>12. TellInv'
    BY <1>22 DEF ThreadTypes, FlagTypes, CodecTypes, FrameTypes, LockInv,
        PhaseInv, ThreadInv, DecoderInv, EndInv, QueueInv, TellInv, HoldsEos,
        EventKinds, DestroySteps, LoopTake, Release, Goto, flags, pads,
        library, history
  <2>13. FrameInv'
    BY <1>22 DEF ThreadTypes, FlagTypes, CodecTypes, PacketTypes, FrameTypes,
        DecoderInv, FrameInv, LoopTake, Release, Goto, flags, pads, library,
        history
  <2> QED BY <2>1, <2>2, <2>3, <2>4, <2>5, <2>6, <2>7, <2>8, <2>9, <2>10,
      <2>11, <2>12, <2>13, Zenon DEF IInv
<1>23. CASE element # "dead" /\ LoopMustWait
  <2>1. ThreadTypes'
    BY <1>23 DEF ThreadTypes, Steps, DestroySteps, LoopSteps, ElementStates,
        LoopMustWait, Goto, locks, flags, pads, library, history
  <2>2. FlagTypes'
    BY <1>23 DEF FlagTypes, EventKinds, LoopMustWait, Goto, locks, flags, pads,
        library, history
  <2>3. CodecTypes'
    BY <1>23 DEF CodecTypes, FlagTypes, CodecKinds, LoopMustWait, Goto, locks,
        flags, pads, library, history
  <2>4. PacketTypes'
    BY <1>23 DEF PacketTypes, CodecTypes, FlagTypes, LoopMustWait, Goto, locks,
        flags, pads, library, history
  <2>5. FrameTypes'
    BY <1>23 DEF FrameTypes, FlagTypes, LoopMustWait, Goto, locks, flags, pads,
        library, history
  <2>6. LockInv'
    BY <1>23 DEF ThreadTypes, FlagTypes, LockInv, PhaseInv, HoldsEos,
        DestroySteps, LoopMustWait, Goto, locks, flags, pads, library, history
  <2>7. PhaseInv'
    BY <1>23 DEF ThreadTypes, FlagTypes, CodecTypes, LockInv, PhaseInv,
        ThreadInv, DecoderInv, HoldsEos, DestroySteps, LoopMustWait, Goto,
        locks, flags, pads, library, history
  <2>8. ThreadInv'
    BY <1>23 DEF ThreadTypes, FlagTypes, CodecTypes, LockInv, PhaseInv,
        ThreadInv, DecoderInv, HoldsEos, DestroySteps, LoopSteps, LoopMustWait,
        Goto, locks, flags, pads, library, history
  <2>9. DecoderInv'
    BY <1>23 DEF ThreadTypes, FlagTypes, CodecTypes, PacketTypes, PhaseInv,
        ThreadInv, DecoderInv, CodecKinds, DestroySteps, LoopMustWait, Goto,
        locks, flags, pads, library, history
  <2>10. EndInv'
    BY <1>23 DEF ThreadTypes, FlagTypes, CodecTypes, PacketTypes, FrameTypes,
        PhaseInv, ThreadInv, DecoderInv, EndInv, TellInv, CodecKinds,
        DestroySteps, LoopMustWait, Goto, locks, flags, pads, library, history
  <2>11. QueueInv'
    BY <1>23 DEF ThreadTypes, FlagTypes, CodecTypes, ThreadInv, QueueInv,
        EventKinds, DestroySteps, LoopSteps, LoopMustWait, Goto, locks, flags,
        pads, library, history
  <2>12. TellInv'
    BY <1>23 DEF ThreadTypes, FlagTypes, CodecTypes, FrameTypes, LockInv,
        PhaseInv, ThreadInv, DecoderInv, EndInv, QueueInv, TellInv, HoldsEos,
        EventKinds, DestroySteps, LoopMustWait, Goto, locks, flags, pads,
        library, history
  <2>13. FrameInv'
    BY <1>23 DEF ThreadTypes, FlagTypes, CodecTypes, PacketTypes, FrameTypes,
        DecoderInv, FrameInv, LoopMustWait, Goto, locks, flags, pads, library,
        history
  <2> QED BY <2>1, <2>2, <2>3, <2>4, <2>5, <2>6, <2>7, <2>8, <2>9, <2>10,
      <2>11, <2>12, <2>13, Zenon DEF IInv
<1>24. CASE element # "dead" /\ LoopBlock
  <2>1. ThreadTypes'
    BY <1>24 DEF ThreadTypes, Steps, DestroySteps, LoopSteps, ElementStates,
        LoopBlock, Release, Goto, flags, pads, library, history
  <2>2. FlagTypes'
    BY <1>24 DEF FlagTypes, EventKinds, LoopBlock, Release, Goto, flags, pads,
        library, history
  <2>3. CodecTypes'
    BY <1>24 DEF CodecTypes, FlagTypes, CodecKinds, LoopBlock, Release, Goto,
        flags, pads, library, history
  <2>4. PacketTypes'
    BY <1>24 DEF PacketTypes, CodecTypes, FlagTypes, LoopBlock, Release, Goto,
        flags, pads, library, history
  <2>5. FrameTypes'
    BY <1>24 DEF FrameTypes, FlagTypes, LoopBlock, Release, Goto, flags, pads,
        library, history
  <2>6. LockInv'
    BY <1>24 DEF ThreadTypes, FlagTypes, LockInv, PhaseInv, HoldsEos,
        DestroySteps, LoopBlock, Release, Goto, flags, pads, library, history
  <2>7. PhaseInv'
    BY <1>24 DEF ThreadTypes, FlagTypes, CodecTypes, LockInv, PhaseInv,
        ThreadInv, DecoderInv, HoldsEos, DestroySteps, LoopBlock, Release,
        Goto, flags, pads, library, history
  <2>8. ThreadInv'
    BY <1>24 DEF ThreadTypes, FlagTypes, CodecTypes, LockInv, PhaseInv,
        ThreadInv, DecoderInv, HoldsEos, DestroySteps, LoopSteps, LoopBlock,
        Release, Goto, flags, pads, library, history
  <2>9. DecoderInv'
    BY <1>24 DEF ThreadTypes, FlagTypes, CodecTypes, PacketTypes, PhaseInv,
        ThreadInv, DecoderInv, CodecKinds, DestroySteps, LoopBlock, Release,
        Goto, flags, pads, library, history
  <2>10. EndInv'
    BY <1>24 DEF ThreadTypes, FlagTypes, CodecTypes, PacketTypes, FrameTypes,
        PhaseInv, ThreadInv, DecoderInv, EndInv, TellInv, CodecKinds,
        DestroySteps, LoopBlock, Release, Goto, flags, pads, library, history
  <2>11. QueueInv'
    BY <1>24 DEF ThreadTypes, FlagTypes, CodecTypes, ThreadInv, QueueInv,
        EventKinds, DestroySteps, LoopSteps, LoopBlock, Release, Goto, flags,
        pads, library, history
  <2>12. TellInv'
    BY <1>24 DEF ThreadTypes, FlagTypes, CodecTypes, FrameTypes, LockInv,
        PhaseInv, ThreadInv, DecoderInv, EndInv, QueueInv, TellInv, HoldsEos,
        EventKinds, DestroySteps, LoopBlock, Release, Goto, flags, pads,
        library, history
  <2>13. FrameInv'
    BY <1>24 DEF ThreadTypes, FlagTypes, CodecTypes, PacketTypes, FrameTypes,
        DecoderInv, FrameInv, LoopBlock, Release, Goto, flags, pads, library,
        history
  <2> QED BY <2>1, <2>2, <2>3, <2>4, <2>5, <2>6, <2>7, <2>8, <2>9, <2>10,
      <2>11, <2>12, <2>13, Zenon DEF IInv
<1>25. CASE element # "dead" /\ AbortDecoder
  <2>a. /\ decode # 0 => /\ made \in Decoders /\ decode = made
                        /\ codec[made] = "running"
                        /\ codec' = [codec EXCEPT ![made] = "aborted"]
                        /\ pending' = [pending EXCEPT ![made] = 0]
        /\ decode = 0 => codec' = codec /\ pending' = pending
    BY <1>25 DEF FlagTypes, DecoderInv, AbortDecoder, Goto, locks, pads,
        history
  <2>b. \A g \in Decoders : codec'[g] = IF g = decode THEN "aborted" ELSE codec[g]
    BY <2>a DEF FlagTypes, CodecTypes
  <2>d. \A g \in Decoders : pending'[g] = IF g = decode THEN 0 ELSE pending[g]
    <3>1. CASE decode = 0
      BY <2>a, <3>1
    <3>2. CASE decode # 0
      BY <2>a, <3>2 DEF PacketTypes
    <3> QED BY <3>1, <3>2
  <2>c. /\ pc'[Loop] = IF decode # 0 THEN "abort_lock" ELSE "lock_event"
        /\ pc'[App] = pc[App] /\ pc'[Streamer] = pc[Streamer]
        /\ pc'[Codec] = pc[Codec] /\ pc[Loop] = "abort_check" 
    BY <1>25 DEF ThreadTypes, AbortDecoder, Goto, locks, pads, history
  <2>e. /\ eos_in' = eos_in /\ eos_out' = eos_out /\ frame' = frame
        /\ told' = told /\ made' = made /\ held' = held
        /\ joinable' = joinable /\ decode' = 0
    BY <1>25 DEF AbortDecoder, Goto, locks, pads, history
  <2>1. ThreadTypes'
    BY <1>25, <2>a, <2>b, <2>d, <2>c, <2>e DEF ThreadTypes, Steps,
        DestroySteps, LoopSteps, ElementStates, AbortDecoder, Goto, locks,
        pads, history
  <2>2. FlagTypes'
    BY <1>25, <2>a, <2>b, <2>d, <2>c, <2>e DEF FlagTypes, EventKinds,
        AbortDecoder, Goto, locks, pads, history
  <2>3. CodecTypes'
    <3>1. CASE decode = 0
      BY <2>a, <2>e, <3>1 DEF CodecTypes
    <3>2. CASE decode # 0
      BY <2>a, <2>e, <3>2 DEF CodecTypes, CodecKinds
    <3> QED BY <3>1, <3>2
  <2>4. PacketTypes'
    <3>1. CASE decode = 0
      BY <2>a, <2>e, <3>1 DEF PacketTypes
    <3>2. CASE decode # 0
      <4>1. pending' \in [Decoders -> 0..MaxPackets]
        <5>1. pending \in [Decoders -> 0..MaxPackets] /\ made \in Decoders
          BY <2>a, <3>2 DEF PacketTypes
        <5>2. pending' = [pending EXCEPT ![made] = 0] /\ 0 \in 0..MaxPackets
          BY <2>a, <3>2
        <5> HIDE DEF Decoders, IInv
        <5> QED BY <5>1, <5>2
      <4>2. held' \in [Decoders -> 0..OutBufs]
        BY <2>e DEF PacketTypes
      <4> QED BY <4>1, <4>2 DEF PacketTypes
    <3> QED BY <3>1, <3>2
  <2>5. FrameTypes'
    BY <1>25, <2>a, <2>b, <2>d, <2>c, <2>e DEF FrameTypes, FlagTypes,
        AbortDecoder, Goto, locks, pads, history
  <2>6. LockInv'
    BY <1>25, <2>a, <2>b, <2>d, <2>c, <2>e DEF ThreadTypes, FlagTypes, LockInv,
        PhaseInv, HoldsEos, DestroySteps, AbortDecoder, Goto, locks, pads,
        history
  <2>7. PhaseInv'
    BY <1>25, <2>a, <2>b, <2>d, <2>c, <2>e DEF ThreadTypes, FlagTypes,
        CodecTypes, LockInv, PhaseInv, ThreadInv, DecoderInv, HoldsEos,
        DestroySteps, AbortDecoder, Goto, locks, pads, history
  <2>8. ThreadInv'
    BY <1>25, <2>a, <2>b, <2>d, <2>c, <2>e DEF ThreadTypes, FlagTypes,
        CodecTypes, LockInv, PhaseInv, ThreadInv, DecoderInv, HoldsEos,
        DestroySteps, LoopSteps, AbortDecoder, Goto, locks, pads, history
  <2>9. DecoderInv'
    BY <2>a, <2>b, <2>d, <2>e DEF DecoderInv, FlagTypes, CodecTypes
  <2>10. EndInv'
    BY <2>a, <2>b, <2>d, <2>c, <2>e DEF EndInv, CodecTypes, FlagTypes
  <2>11. QueueInv'
    BY <1>25, <2>a, <2>b, <2>d, <2>c, <2>e DEF ThreadTypes, FlagTypes,
        CodecTypes, ThreadInv, QueueInv, EventKinds, DestroySteps, LoopSteps,
        AbortDecoder, Goto, locks, pads, history
  <2>12. TellInv'
    BY <1>25, <2>a, <2>b, <2>d, <2>c, <2>e DEF ThreadTypes, FlagTypes,
        CodecTypes, FrameTypes, LockInv, PhaseInv, ThreadInv, DecoderInv,
        EndInv, QueueInv, TellInv, HoldsEos, EventKinds, DestroySteps,
        AbortDecoder, Goto, locks, pads, history
  <2>13. FrameInv'
    BY <1>25, <2>a, <2>b, <2>d, <2>c, <2>e DEF ThreadTypes, FlagTypes,
        CodecTypes, PacketTypes, FrameTypes, DecoderInv, FrameInv,
        AbortDecoder, Goto, locks, pads, history
  <2> QED BY <2>1, <2>2, <2>3, <2>4, <2>5, <2>6, <2>7, <2>8, <2>9, <2>10,
      <2>11, <2>12, <2>13, Zenon DEF IInv
<1>26. CASE element # "dead" /\ HandleEos
  <2>a. made \in Decoders /\ decode \in {0, made}
    BY <1>26 DEF FlagTypes, ThreadInv, HandleEos, Acquire, NotifyEos, pads,
        library
  <2>1. ThreadTypes'
    BY <1>26, <2>a DEF ThreadTypes, Steps, DestroySteps, LoopSteps,
        ElementStates, HandleEos, Acquire, NotifyEos, pads, library
  <2>2. FlagTypes'
    BY <1>26, <2>a DEF FlagTypes, EventKinds, HandleEos, Acquire, NotifyEos,
        pads, library
  <2>3. CodecTypes'
    BY <1>26, <2>a DEF CodecTypes, FlagTypes, CodecKinds, HandleEos, Acquire,
        NotifyEos, pads, library
  <2>4. PacketTypes'
    BY <1>26, <2>a DEF PacketTypes, CodecTypes, FlagTypes, HandleEos, Acquire,
        NotifyEos, pads, library
  <2>5. FrameTypes'
    BY <1>26, <2>a DEF FrameTypes, FlagTypes, HandleEos, Acquire, NotifyEos,
        pads, library
  <2>6. LockInv'
    BY <1>26, <2>a DEF ThreadTypes, FlagTypes, LockInv, PhaseInv, HoldsEos,
        DestroySteps, HandleEos, Acquire, NotifyEos, pads, library
  <2>7. PhaseInv'
    BY <1>26, <2>a DEF ThreadTypes, FlagTypes, CodecTypes, LockInv, PhaseInv,
        ThreadInv, DecoderInv, HoldsEos, DestroySteps, EndInv, TellInv,
        HandleEos, Acquire, NotifyEos, pads, library
  <2>8. ThreadInv'
    BY <1>26, <2>a DEF ThreadTypes, FlagTypes, CodecTypes, LockInv, PhaseInv,
        ThreadInv, DecoderInv, HoldsEos, DestroySteps, LoopSteps, HandleEos,
        Acquire, NotifyEos, pads, library
  <2>9. DecoderInv'
    BY <1>26, <2>a DEF ThreadTypes, FlagTypes, CodecTypes, PacketTypes,
        PhaseInv, ThreadInv, DecoderInv, CodecKinds, DestroySteps, HandleEos,
        Acquire, NotifyEos, pads, library
  <2>10. EndInv'
    BY <1>26, <2>a DEF ThreadTypes, FlagTypes, CodecTypes, PacketTypes,
        FrameTypes, PhaseInv, ThreadInv, DecoderInv, EndInv, TellInv,
        CodecKinds, DestroySteps, HandleEos, Acquire, NotifyEos, pads, library
  <2>11. QueueInv'
    BY <1>26, <2>a DEF ThreadTypes, FlagTypes, CodecTypes, ThreadInv, QueueInv,
        EventKinds, DestroySteps, LoopSteps, HandleEos, Acquire, NotifyEos,
        pads, library
  <2>12. TellInv'
    BY <1>26, <2>a DEF ThreadTypes, FlagTypes, CodecTypes, FrameTypes, LockInv,
        PhaseInv, ThreadInv, DecoderInv, EndInv, QueueInv, TellInv, HoldsEos,
        EventKinds, DestroySteps, HandleEos, Acquire, NotifyEos, pads, library
  <2>13. FrameInv'
    BY <1>26, <2>a DEF ThreadTypes, FlagTypes, CodecTypes, PacketTypes,
        FrameTypes, DecoderInv, FrameInv, HandleEos, Acquire, NotifyEos, pads,
        library
  <2> QED BY <2>1, <2>2, <2>3, <2>4, <2>5, <2>6, <2>7, <2>8, <2>9, <2>10,
      <2>11, <2>12, <2>13, Zenon DEF IInv
<1>27. CASE element # "dead" /\ PushEos
  <2>1. ThreadTypes'
    BY <1>27 DEF ThreadTypes, Steps, DestroySteps, LoopSteps, ElementStates,
        PushEos, Release, Goto, flags, library, history
  <2>2. FlagTypes'
    BY <1>27 DEF FlagTypes, EventKinds, PushEos, Release, Goto, flags, library,
        history
  <2>3. CodecTypes'
    BY <1>27 DEF CodecTypes, FlagTypes, CodecKinds, PushEos, Release, Goto,
        flags, library, history
  <2>4. PacketTypes'
    BY <1>27 DEF PacketTypes, CodecTypes, FlagTypes, PushEos, Release, Goto,
        flags, library, history
  <2>5. FrameTypes'
    BY <1>27 DEF FrameTypes, FlagTypes, PushEos, Release, Goto, flags, library,
        history
  <2>6. LockInv'
    BY <1>27 DEF ThreadTypes, FlagTypes, LockInv, PhaseInv, HoldsEos,
        DestroySteps, PushEos, Release, Goto, flags, library, history
  <2>7. PhaseInv'
    BY <1>27 DEF ThreadTypes, FlagTypes, CodecTypes, LockInv, PhaseInv,
        ThreadInv, DecoderInv, HoldsEos, DestroySteps, PushEos, Release, Goto,
        flags, library, history
  <2>8. ThreadInv'
    BY <1>27 DEF ThreadTypes, FlagTypes, CodecTypes, LockInv, PhaseInv,
        ThreadInv, DecoderInv, HoldsEos, DestroySteps, LoopSteps, PushEos,
        Release, Goto, flags, library, history
  <2>9. DecoderInv'
    BY <1>27 DEF ThreadTypes, FlagTypes, CodecTypes, PacketTypes, PhaseInv,
        ThreadInv, DecoderInv, CodecKinds, DestroySteps, PushEos, Release,
        Goto, flags, library, history
  <2>10. EndInv'
    BY <1>27 DEF ThreadTypes, FlagTypes, CodecTypes, PacketTypes, FrameTypes,
        PhaseInv, ThreadInv, DecoderInv, EndInv, TellInv, CodecKinds,
        DestroySteps, PushEos, Release, Goto, flags, library, history
  <2>11. QueueInv'
    BY <1>27 DEF ThreadTypes, FlagTypes, CodecTypes, ThreadInv, QueueInv,
        EventKinds, DestroySteps, LoopSteps, PushEos, Release, Goto, flags,
        library, history
  <2>12. TellInv'
    BY <1>27 DEF ThreadTypes, FlagTypes, CodecTypes, FrameTypes, LockInv,
        PhaseInv, ThreadInv, DecoderInv, EndInv, QueueInv, TellInv, HoldsEos,
        EventKinds, DestroySteps, PushEos, Release, Goto, flags, library,
        history
  <2>13. FrameInv'
    BY <1>27 DEF ThreadTypes, FlagTypes, CodecTypes, PacketTypes, FrameTypes,
        DecoderInv, FrameInv, PushEos, Release, Goto, flags, library, history
  <2> QED BY <2>1, <2>2, <2>3, <2>4, <2>5, <2>6, <2>7, <2>8, <2>9, <2>10,
      <2>11, <2>12, <2>13, Zenon DEF IInv
<1>28. CASE element # "dead" /\ AbortGotEos
  <2>1. ThreadTypes'
    BY <1>28 DEF ThreadTypes, Steps, DestroySteps, LoopSteps, ElementStates,
        AbortGotEos, NotifyEos, locks, pads, library, history
  <2>2. FlagTypes'
    BY <1>28 DEF FlagTypes, EventKinds, AbortGotEos, NotifyEos, locks, pads,
        library, history
  <2>3. CodecTypes'
    BY <1>28 DEF CodecTypes, FlagTypes, CodecKinds, AbortGotEos, NotifyEos,
        locks, pads, library, history
  <2>4. PacketTypes'
    BY <1>28 DEF PacketTypes, CodecTypes, FlagTypes, AbortGotEos, NotifyEos,
        locks, pads, library, history
  <2>5. FrameTypes'
    BY <1>28 DEF FrameTypes, FlagTypes, AbortGotEos, NotifyEos, locks, pads,
        library, history
  <2>6. LockInv'
    BY <1>28 DEF ThreadTypes, FlagTypes, LockInv, PhaseInv, HoldsEos,
        DestroySteps, AbortGotEos, NotifyEos, locks, pads, library, history
  <2>7. PhaseInv'
    BY <1>28 DEF ThreadTypes, FlagTypes, CodecTypes, LockInv, PhaseInv,
        ThreadInv, DecoderInv, HoldsEos, DestroySteps, EndInv, TellInv,
        AbortGotEos, NotifyEos, locks, pads, library, history
  <2>8. ThreadInv'
    BY <1>28 DEF ThreadTypes, FlagTypes, CodecTypes, LockInv, PhaseInv,
        ThreadInv, DecoderInv, HoldsEos, DestroySteps, LoopSteps, AbortGotEos,
        NotifyEos, locks, pads, library, history
  <2>9. DecoderInv'
    BY <1>28 DEF ThreadTypes, FlagTypes, CodecTypes, PacketTypes, PhaseInv,
        ThreadInv, DecoderInv, CodecKinds, DestroySteps, AbortGotEos,
        NotifyEos, locks, pads, library, history
  <2>10. EndInv'
    BY <1>28 DEF ThreadTypes, FlagTypes, CodecTypes, PacketTypes, FrameTypes,
        PhaseInv, ThreadInv, DecoderInv, EndInv, TellInv, CodecKinds,
        DestroySteps, AbortGotEos, NotifyEos, locks, pads, library, history
  <2>11. QueueInv'
    BY <1>28 DEF ThreadTypes, FlagTypes, CodecTypes, ThreadInv, QueueInv,
        EventKinds, DestroySteps, LoopSteps, AbortGotEos, NotifyEos, locks,
        pads, library, history
  <2>12. TellInv'
    BY <1>28 DEF ThreadTypes, FlagTypes, CodecTypes, FrameTypes, LockInv,
        PhaseInv, ThreadInv, DecoderInv, EndInv, QueueInv, TellInv, HoldsEos,
        EventKinds, DestroySteps, AbortGotEos, NotifyEos, locks, pads, library,
        history
  <2>13. FrameInv'
    BY <1>28 DEF ThreadTypes, FlagTypes, CodecTypes, PacketTypes, FrameTypes,
        DecoderInv, FrameInv, AbortGotEos, NotifyEos, locks, pads, library,
        history
  <2> QED BY <2>1, <2>2, <2>3, <2>4, <2>5, <2>6, <2>7, <2>8, <2>9, <2>10,
      <2>11, <2>12, <2>13, Zenon DEF IInv
<1>29. CASE element # "dead" /\ SpuriousWakeup
  <2>1. ThreadTypes'
    BY <1>29 DEF ThreadTypes, Steps, DestroySteps, LoopSteps, ElementStates,
        SpuriousWakeup, Goto, locks, flags, pads, library, history
  <2>2. FlagTypes'
    BY <1>29 DEF FlagTypes, EventKinds, SpuriousWakeup, Goto, locks, flags,
        pads, library, history
  <2>3. CodecTypes'
    BY <1>29 DEF CodecTypes, FlagTypes, CodecKinds, SpuriousWakeup, Goto,
        locks, flags, pads, library, history
  <2>4. PacketTypes'
    BY <1>29 DEF PacketTypes, CodecTypes, FlagTypes, SpuriousWakeup, Goto,
        locks, flags, pads, library, history
  <2>5. FrameTypes'
    BY <1>29 DEF FrameTypes, FlagTypes, SpuriousWakeup, Goto, locks, flags,
        pads, library, history
  <2>6. LockInv'
    BY <1>29 DEF ThreadTypes, FlagTypes, LockInv, PhaseInv, HoldsEos,
        DestroySteps, SpuriousWakeup, Goto, locks, flags, pads, library,
        history
  <2>7. PhaseInv'
    BY <1>29 DEF ThreadTypes, FlagTypes, CodecTypes, LockInv, PhaseInv,
        ThreadInv, DecoderInv, HoldsEos, DestroySteps, SpuriousWakeup, Goto,
        locks, flags, pads, library, history
  <2>8. ThreadInv'
    BY <1>29 DEF ThreadTypes, FlagTypes, CodecTypes, LockInv, PhaseInv,
        ThreadInv, DecoderInv, HoldsEos, DestroySteps, LoopSteps,
        SpuriousWakeup, Goto, locks, flags, pads, library, history
  <2>9. DecoderInv'
    BY <1>29 DEF ThreadTypes, FlagTypes, CodecTypes, PacketTypes, PhaseInv,
        ThreadInv, DecoderInv, CodecKinds, DestroySteps, SpuriousWakeup, Goto,
        locks, flags, pads, library, history
  <2>10. EndInv'
    BY <1>29 DEF ThreadTypes, FlagTypes, CodecTypes, PacketTypes, FrameTypes,
        PhaseInv, ThreadInv, DecoderInv, EndInv, TellInv, CodecKinds,
        DestroySteps, SpuriousWakeup, Goto, locks, flags, pads, library,
        history
  <2>11. QueueInv'
    BY <1>29 DEF ThreadTypes, FlagTypes, CodecTypes, ThreadInv, QueueInv,
        EventKinds, DestroySteps, LoopSteps, SpuriousWakeup, Goto, locks,
        flags, pads, library, history
  <2>12. TellInv'
    BY <1>29 DEF ThreadTypes, FlagTypes, CodecTypes, FrameTypes, LockInv,
        PhaseInv, ThreadInv, DecoderInv, EndInv, QueueInv, TellInv, HoldsEos,
        EventKinds, DestroySteps, SpuriousWakeup, Goto, locks, flags, pads,
        library, history
  <2>13. FrameInv'
    BY <1>29 DEF ThreadTypes, FlagTypes, CodecTypes, PacketTypes, FrameTypes,
        DecoderInv, FrameInv, SpuriousWakeup, Goto, locks, flags, pads,
        library, history
  <2> QED BY <2>1, <2>2, <2>3, <2>4, <2>5, <2>6, <2>7, <2>8, <2>9, <2>10,
      <2>11, <2>12, <2>13, Zenon DEF IInv
<1>30. CASE element # "dead" /\ PushFrame
  <2>a. pc[Codec] = "push_mlu" =>
          frame \in Decoders /\ held[frame] \in 0..OutBufs /\ held[frame] > 0
    BY <1>30 DEF PacketTypes, FrameTypes, FrameInv
  <2>1. ThreadTypes'
    BY <1>30, <2>a DEF ThreadTypes, Steps, DestroySteps, LoopSteps,
        ElementStates, PushFrame, Goto, locks, flags, pads, history
  <2>2. FlagTypes'
    BY <1>30, <2>a DEF FlagTypes, EventKinds, PushFrame, Goto, locks, flags,
        pads, history
  <2>3. CodecTypes'
    BY <1>30, <2>a DEF CodecTypes, FlagTypes, CodecKinds, PushFrame, Goto,
        locks, flags, pads, history
  <2>4. PacketTypes'
    BY <1>30, <2>a, CountStep DEF PacketTypes, CodecTypes, FlagTypes,
        PushFrame, Goto, locks, flags, pads, history
  <2>5. FrameTypes'
    BY <1>30, <2>a DEF FrameTypes, FlagTypes, PushFrame, Goto, locks, flags,
        pads, history
  <2>6. LockInv'
    BY <1>30, <2>a DEF ThreadTypes, FlagTypes, LockInv, PhaseInv, HoldsEos,
        DestroySteps, PushFrame, Goto, locks, flags, pads, history
  <2>7. PhaseInv'
    BY <1>30, <2>a DEF ThreadTypes, FlagTypes, CodecTypes, LockInv, PhaseInv,
        ThreadInv, DecoderInv, HoldsEos, DestroySteps, PushFrame, Goto, locks,
        flags, pads, history
  <2>8. ThreadInv'
    BY <1>30, <2>a DEF ThreadTypes, FlagTypes, CodecTypes, LockInv, PhaseInv,
        ThreadInv, DecoderInv, HoldsEos, DestroySteps, LoopSteps, PushFrame,
        Goto, locks, flags, pads, history
  <2>9. DecoderInv'
    BY <1>30, <2>a DEF ThreadTypes, FlagTypes, CodecTypes, PacketTypes,
        PhaseInv, ThreadInv, DecoderInv, CodecKinds, DestroySteps, PushFrame,
        Goto, locks, flags, pads, history
  <2>10. EndInv'
    BY <1>30, <2>a DEF ThreadTypes, FlagTypes, CodecTypes, PacketTypes,
        FrameTypes, PhaseInv, ThreadInv, DecoderInv, EndInv, TellInv,
        CodecKinds, DestroySteps, PushFrame, Goto, locks, flags, pads, history
  <2>11. QueueInv'
    BY <1>30, <2>a DEF ThreadTypes, FlagTypes, CodecTypes, ThreadInv, QueueInv,
        EventKinds, DestroySteps, LoopSteps, PushFrame, Goto, locks, flags,
        pads, history
  <2>12. TellInv'
    BY <1>30, <2>a DEF ThreadTypes, FlagTypes, CodecTypes, FrameTypes, LockInv,
        PhaseInv, ThreadInv, DecoderInv, EndInv, QueueInv, TellInv, HoldsEos,
        EventKinds, DestroySteps, PushFrame, Goto, locks, flags, pads, history
  <2>13. FrameInv'
    BY <1>30, <2>a DEF ThreadTypes, FlagTypes, CodecTypes, PacketTypes,
        FrameTypes, DecoderInv, FrameInv, PushFrame, Goto, locks, flags, pads,
        history
  <2> QED BY <2>1, <2>2, <2>3, <2>4, <2>5, <2>6, <2>7, <2>8, <2>9, <2>10,
      <2>11, <2>12, <2>13, Zenon DEF IInv
<1>31. ASSUME NEW g \in Decoders, element # "dead", CodecFrame(g)
      PROVE  IInv'
  <2>e. /\ codec[g] = "running" /\ pending[g] > 0
        /\ pending' = [pending EXCEPT ![g] = @ - 1]
        /\ codec' = codec /\ eos_in' = eos_in /\ eos_out' = eos_out
        /\ told' = told /\ made' = made /\ decode' = decode
        /\ fatal' = fatal /\ joinable' = joinable /\ pc[Codec] = "idle"
        /\ frame' \in {frame, g}
    BY <1>31 DEF CodecFrame, Goto, locks, flags, pads, history
  <2>a. /\ pending[g] > 0 /\ pending[g] \in 0..MaxPackets /\ ~eos_out[g]
        /\ \A h \in Decoders :
             pending'[h] = IF h = g THEN pending[g] - 1 ELSE pending[h]
    BY <2>e DEF PacketTypes, EndInv
  <2>b. pc'[App] = pc[App] /\ pc'[Streamer] = pc[Streamer] /\ pc'[Loop] = pc[Loop]
    BY <1>31 DEF ThreadTypes, CodecFrame, Goto, locks, flags, pads, history
  <2>c. held[g] \in 0..OutBufs /\ held[g] < OutBufs
    BY <1>31 DEF PacketTypes, CodecFrame, Goto, locks, flags, pads, history
  <2>d. \/ frame' = frame /\ pc'[Codec] = "idle" /\ held' = held
        \/ frame' = g /\ pc'[Codec] = "push_host" /\ held' = held
        \/ /\ frame' = g /\ pc'[Codec] = "push_mlu"
           /\ held' = [held EXCEPT ![g] = @ + 1]
    BY <1>31 DEF ThreadTypes, CodecFrame, Goto, locks, flags, pads, history
  <2>1. ThreadTypes'
    BY <1>31, <2>e, <2>a, <2>b, <2>c, <2>d DEF ThreadTypes, Steps,
        DestroySteps, LoopSteps, ElementStates, CodecFrame, Goto, locks, flags,
        pads, history
  <2>2. FlagTypes'
    BY <1>31, <2>e, <2>a, <2>b, <2>c, <2>d DEF FlagTypes, EventKinds,
        CodecFrame, Goto, locks, flags, pads, history
  <2>3. CodecTypes'
    BY <1>31, <2>e, <2>a, <2>b, <2>c, <2>d DEF CodecTypes, FlagTypes,
        CodecKinds, CodecFrame, Goto, locks, flags, pads, history
  <2>4. PacketTypes'
    <3>1. pending' \in [Decoders -> 0..MaxPackets]
      BY <2>a, <2>e DEF PacketTypes
    <3>2. CASE held' = held
      BY <3>1, <3>2 DEF PacketTypes
    <3>3. CASE held' = [held EXCEPT ![g] = held[g] + 1]
      <4>1. held \in [Decoders -> 0..OutBufs] /\ held[g] + 1 \in 0..OutBufs
        BY <2>c DEF PacketTypes
      <4> HIDE DEF Decoders, IInv
      <4>2. held' \in [Decoders -> 0..OutBufs]
        BY <3>3, <4>1
      <4> QED BY <3>1, <4>2 DEF PacketTypes
    <3> QED BY <2>d, <3>2, <3>3
  <2>5. FrameTypes'
    BY <1>31, <2>e, <2>a, <2>b, <2>c, <2>d DEF FrameTypes, FlagTypes,
        CodecFrame, Goto, locks, flags, pads, history
  <2>6. LockInv'
    BY <1>31, <2>e, <2>a, <2>b, <2>c, <2>d DEF ThreadTypes, FlagTypes, LockInv,
        PhaseInv, HoldsEos, DestroySteps, CodecFrame, Goto, locks, flags, pads,
        history
  <2>7. PhaseInv'
    BY <1>31, <2>e, <2>a, <2>b, <2>c, <2>d DEF ThreadTypes, FlagTypes,
        CodecTypes, LockInv, PhaseInv, ThreadInv, DecoderInv, HoldsEos,
        DestroySteps, CodecFrame, Goto, locks, flags, pads, history
  <2>8. ThreadInv'
    BY <1>31, <2>e, <2>a, <2>b, <2>c, <2>d DEF ThreadTypes, FlagTypes,
        CodecTypes, LockInv, PhaseInv, ThreadInv, DecoderInv, HoldsEos,
        DestroySteps, LoopSteps, CodecFrame, Goto, locks, flags, pads, history
  <2>9. DecoderInv'
    BY <2>a, <2>e DEF DecoderInv, PacketTypes
  <2>10. EndInv'
    <3>1. EndInv
      OBVIOUS
    <3>2. ~eos_out[g] /\ \A h \in Decoders : h # g => pending'[h] = pending[h]
      BY <2>a
    <3> HIDE FiveThreads, BoundAssumption DEF IInv, Decoders
    <3> QED BY <2>b, <2>e, <3>1, <3>2 DEF EndInv
  <2>11. QueueInv'
    BY <1>31, <2>e, <2>a, <2>b, <2>c, <2>d DEF ThreadTypes, FlagTypes,
        CodecTypes, ThreadInv, QueueInv, EventKinds, DestroySteps, LoopSteps,
        CodecFrame, Goto, locks, flags, pads, history
  <2>12. TellInv'
    BY <1>31, <2>e, <2>a, <2>b, <2>c, <2>d DEF ThreadTypes, FlagTypes,
        CodecTypes, FrameTypes, LockInv, PhaseInv, ThreadInv, DecoderInv,
        EndInv, QueueInv, TellInv, HoldsEos, EventKinds, DestroySteps,
        CodecFrame, Goto, locks, flags, pads, history
  <2>13. FrameInv'
    <3>1. CASE frame' = frame /\ pc'[Codec] = "idle" /\ held' = held
      BY <2>e, <3>1 DEF FrameInv
    <3>2. CASE frame' = g /\ pc'[Codec] = "push_host"
      BY <2>e, <3>2 DEF FrameInv
    <3>3. CASE /\ frame' = g /\ pc'[Codec] = "push_mlu"
               /\ held' = [held EXCEPT ![g] = held[g] + 1]
      <4>1. held'[g] >= 1
        BY <2>c, <3>3 DEF PacketTypes
      <4> QED BY <2>e, <3>3, <4>1 DEF FrameInv
    <3> QED BY <2>d, <3>1, <3>2, <3>3
  <2> QED BY <2>1, <2>2, <2>3, <2>4, <2>5, <2>6, <2>7, <2>8, <2>9, <2>10,
      <2>11, <2>12, <2>13, Zenon DEF IInv
<1>32. ASSUME NEW g \in Decoders, element # "dead", ReleaseBuffer(g)
      PROVE  IInv'
  <2>a. held[g] \in 0..OutBufs /\ held[g] > 0
    BY <1>32 DEF PacketTypes, ReleaseBuffer, locks, flags, pads, history
  <2>1. ThreadTypes'
    BY <1>32, <2>a DEF ThreadTypes, Steps, DestroySteps, LoopSteps,
        ElementStates, ReleaseBuffer, locks, flags, pads, history
  <2>2. FlagTypes'
    BY <1>32, <2>a DEF FlagTypes, EventKinds, ReleaseBuffer, locks, flags,
        pads, history
  <2>3. CodecTypes'
    BY <1>32, <2>a DEF CodecTypes, FlagTypes, CodecKinds, ReleaseBuffer, locks,
        flags, pads, history
  <2>4. PacketTypes'
    BY <1>32, <2>a, CountStep DEF PacketTypes, CodecTypes, FlagTypes,
        ReleaseBuffer, locks, flags, pads, history
  <2>5. FrameTypes'
    BY <1>32, <2>a DEF FrameTypes, FlagTypes, ReleaseBuffer, locks, flags,
        pads, history
  <2>6. LockInv'
    BY <1>32, <2>a DEF ThreadTypes, FlagTypes, LockInv, PhaseInv, HoldsEos,
        DestroySteps, ReleaseBuffer, locks, flags, pads, history
  <2>7. PhaseInv'
    BY <1>32, <2>a DEF ThreadTypes, FlagTypes, CodecTypes, LockInv, PhaseInv,
        ThreadInv, DecoderInv, HoldsEos, DestroySteps, ReleaseBuffer, locks,
        flags, pads, history
  <2>8. ThreadInv'
    BY <1>32, <2>a DEF ThreadTypes, FlagTypes, CodecTypes, LockInv, PhaseInv,
        ThreadInv, DecoderInv, HoldsEos, DestroySteps, LoopSteps,
        ReleaseBuffer, locks, flags, pads, history
  <2>9. DecoderInv'
    BY <1>32, <2>a DEF ThreadTypes, FlagTypes, CodecTypes, PacketTypes,
        PhaseInv, ThreadInv, DecoderInv, CodecKinds, DestroySteps,
        ReleaseBuffer, locks, flags, pads, history
  <2>10. EndInv'
    BY <1>32, <2>a DEF ThreadTypes, FlagTypes, CodecTypes, PacketTypes,
        FrameTypes, PhaseInv, ThreadInv, DecoderInv, EndInv, TellInv,
        CodecKinds, DestroySteps, ReleaseBuffer, locks, flags, pads, history
  <2>11. QueueInv'
    BY <1>32, <2>a DEF ThreadTypes, FlagTypes, CodecTypes, ThreadInv, QueueInv,
        EventKinds, DestroySteps, LoopSteps, ReleaseBuffer, locks, flags, pads,
        history
  <2>12. TellInv'
    BY <1>32, <2>a DEF ThreadTypes, FlagTypes, CodecTypes, FrameTypes, LockInv,
        PhaseInv, ThreadInv, DecoderInv, EndInv, QueueInv, TellInv, HoldsEos,
        EventKinds, DestroySteps, ReleaseBuffer, locks, flags, pads, history
  <2>13. FrameInv'
    BY <1>32, <2>a DEF ThreadTypes, FlagTypes, CodecTypes, PacketTypes,
        FrameTypes, DecoderInv, FrameInv, ReleaseBuffer, locks, flags, pads,
        history
  <2> QED BY <2>1, <2>2, <2>3, <2>4, <2>5, <2>6, <2>7, <2>8, <2>9, <2>10,
      <2>11, <2>12, <2>13, Zenon DEF IInv
<1>33. ASSUME NEW g \in Decoders, element # "dead", CodecCorrupt(g)
      PROVE  IInv'
  <2>a. /\ pending[g] > 0 /\ pending[g] \in 0..MaxPackets /\ ~eos_out[g]
        /\ \A h \in Decoders :
             pending'[h] = IF h = g THEN pending[g] - 1 ELSE pending[h]
    BY <1>33 DEF PacketTypes, EndInv, CodecCorrupt, HandleEvent, locks, flags,
        pads, history
  <2>e. /\ codec' = codec /\ eos_in' = eos_in /\ eos_out' = eos_out
        /\ told' = told /\ made' = made /\ frame' = frame
    BY <1>33 DEF CodecCorrupt, HandleEvent, locks, flags, pads, history
  <2>q. /\ pc'[App] = pc[App] /\ pc'[Streamer] = pc[Streamer]
        /\ pc'[Codec] = pc[Codec]
        /\ pc'[Loop] = IF pc[Loop] = "blocked" THEN "lock_event" ELSE pc[Loop]
    BY <1>33 DEF ThreadTypes, CodecCorrupt, HandleEvent, locks, flags, pads,
        history
  <2>r. \A i \in DOMAIN event_queue' :
          \/ event_queue'[i] = "STREAM_CORRUPT"
          \/ i \in DOMAIN event_queue /\ event_queue'[i] = event_queue[i]
    BY <1>33, Appended DEF FlagTypes, EventKinds, CodecCorrupt, HandleEvent,
        locks, flags, pads, history
  <2>s. codec[g] = "running" /\ made \in Decoders /\ pc[Loop] # "none"
    BY <1>33 DEF ThreadTypes, FlagTypes, DecoderInv, ThreadInv, CodecCorrupt,
        HandleEvent, locks, flags, pads, history
  <2>1. ThreadTypes'
    BY <1>33, <2>a, <2>e, <2>q, <2>r, <2>s DEF ThreadTypes, Steps,
        DestroySteps, LoopSteps, ElementStates, CodecCorrupt, HandleEvent,
        locks, flags, pads, history
  <2>2. FlagTypes'
    BY <1>33, <2>a, <2>e, <2>q, <2>r, <2>s DEF FlagTypes, EventKinds,
        CodecCorrupt, HandleEvent, locks, flags, pads, history
  <2>3. CodecTypes'
    BY <1>33, <2>a, <2>e, <2>q, <2>r, <2>s DEF CodecTypes, FlagTypes,
        CodecKinds, CodecCorrupt, HandleEvent, locks, flags, pads, history
  <2>4. PacketTypes'
    BY <1>33, <2>a, <2>e, <2>q, <2>r, <2>s, CountStep DEF PacketTypes,
        CodecTypes, FlagTypes, CodecCorrupt, HandleEvent, locks, flags, pads,
        history
  <2>5. FrameTypes'
    BY <1>33, <2>a, <2>e, <2>q, <2>r, <2>s DEF FrameTypes, FlagTypes,
        CodecCorrupt, HandleEvent, locks, flags, pads, history
  <2>6. LockInv'
    BY <1>33, <2>a, <2>e, <2>q, <2>r, <2>s DEF ThreadTypes, FlagTypes, LockInv,
        PhaseInv, HoldsEos, DestroySteps, CodecCorrupt, HandleEvent, locks,
        flags, pads, history
  <2>7. PhaseInv'
    BY <1>33, <2>a, <2>e, <2>q, <2>r, <2>s DEF ThreadTypes, FlagTypes,
        CodecTypes, LockInv, PhaseInv, ThreadInv, DecoderInv, HoldsEos,
        DestroySteps, CodecCorrupt, HandleEvent, locks, flags, pads, history
  <2>8. ThreadInv'
    BY <1>33, <2>a, <2>e, <2>q, <2>r, <2>s DEF ThreadTypes, FlagTypes,
        CodecTypes, LockInv, PhaseInv, ThreadInv, DecoderInv, HoldsEos,
        DestroySteps, LoopSteps, CodecCorrupt, HandleEvent, locks, flags, pads,
        history
  <2>9. DecoderInv'
    BY <1>33, <2>a, <2>e, <2>q, <2>r, <2>s DEF ThreadTypes, FlagTypes,
        CodecTypes, PacketTypes, PhaseInv, ThreadInv, DecoderInv, CodecKinds,
        DestroySteps, CodecCorrupt, HandleEvent, locks, flags, pads, history
  <2>10. EndInv'
    BY <2>a, <2>e, <2>q DEF EndInv, PacketTypes
  <2>11. QueueInv'
    BY <1>33, <2>a, <2>e, <2>q, <2>r, <2>s DEF ThreadTypes, FlagTypes,
        CodecTypes, ThreadInv, QueueInv, EventKinds, DestroySteps, LoopSteps,
        CodecCorrupt, HandleEvent, locks, flags, pads, history
  <2>12. TellInv'
    BY <1>33, <2>a, <2>e, <2>q, <2>r, <2>s DEF ThreadTypes, FlagTypes,
        CodecTypes, FrameTypes, LockInv, PhaseInv, ThreadInv, DecoderInv,
        EndInv, QueueInv, TellInv, HoldsEos, EventKinds, DestroySteps,
        CodecCorrupt, HandleEvent, locks, flags, pads, history
  <2>13. FrameInv'
    BY <1>33, <2>a, <2>e, <2>q, <2>r, <2>s DEF ThreadTypes, FlagTypes,
        CodecTypes, PacketTypes, FrameTypes, DecoderInv, FrameInv,
        CodecCorrupt, HandleEvent, locks, flags, pads, history
  <2> QED BY <2>1, <2>2, <2>3, <2>4, <2>5, <2>6, <2>7, <2>8, <2>9, <2>10,
      <2>11, <2>12, <2>13, Zenon DEF IInv
<1>34. ASSUME NEW g \in Decoders, element # "dead", CodecEos(g)
      PROVE  IInv'
  <2>q. /\ pc'[App] = pc[App] /\ pc'[Streamer] = pc[Streamer]
        /\ pc'[Codec] = pc[Codec]
        /\ pc'[Loop] = IF pc[Loop] = "blocked" THEN "lock_event" ELSE pc[Loop]
    BY <1>34 DEF ThreadTypes, CodecEos, HandleEvent, locks, flags, pads,
        history
  <2>r. \A i \in DOMAIN event_queue' :
          \/ event_queue'[i] = "EOS"
          \/ i \in DOMAIN event_queue /\ event_queue'[i] = event_queue[i]
    BY <1>34, Appended DEF FlagTypes, EventKinds, CodecEos, HandleEvent, locks,
        flags, pads, history
  <2>s. codec[g] = "running" /\ made \in Decoders /\ pc[Loop] # "none"
    BY <1>34 DEF ThreadTypes, FlagTypes, DecoderInv, ThreadInv, CodecEos,
        HandleEvent, locks, flags, pads, history
  <2>t. /\ g = made /\ decode = made /\ frame = 0
        /\ pc[Loop] \notin {"none", "exited"}
        /\ eos_in[g] > 0 /\ pending[g] = 0 /\ eos_out' = [eos_out EXCEPT ![g] = TRUE]
    BY <1>34 DEF ThreadTypes, FlagTypes, CodecTypes, PhaseInv, ThreadInv,
        DecoderInv, EndInv, TellInv, FrameInv, DestroySteps, CodecEos,
        HandleEvent, locks, flags, pads, history
  <2>1. ThreadTypes'
    BY <1>34, <2>q, <2>r, <2>s, <2>t DEF ThreadTypes, Steps, DestroySteps,
        LoopSteps, ElementStates, CodecEos, HandleEvent, locks, flags, pads,
        history
  <2>2. FlagTypes'
    BY <1>34, <2>q, <2>r, <2>s, <2>t DEF FlagTypes, EventKinds, CodecEos,
        HandleEvent, locks, flags, pads, history
  <2>3. CodecTypes'
    BY <1>34, <2>q, <2>r, <2>s, <2>t DEF CodecTypes, FlagTypes, CodecKinds,
        CodecEos, HandleEvent, locks, flags, pads, history
  <2>4. PacketTypes'
    BY <1>34, <2>q, <2>r, <2>s, <2>t DEF PacketTypes, CodecTypes, FlagTypes,
        CodecEos, HandleEvent, locks, flags, pads, history
  <2>5. FrameTypes'
    BY <1>34, <2>q, <2>r, <2>s, <2>t DEF FrameTypes, FlagTypes, CodecEos,
        HandleEvent, locks, flags, pads, history
  <2>6. LockInv'
    BY <1>34, <2>q, <2>r, <2>s, <2>t DEF ThreadTypes, FlagTypes, LockInv,
        PhaseInv, HoldsEos, DestroySteps, CodecEos, HandleEvent, locks, flags,
        pads, history
  <2>7. PhaseInv'
    BY <1>34, <2>q, <2>r, <2>s, <2>t DEF ThreadTypes, FlagTypes, CodecTypes,
        LockInv, PhaseInv, ThreadInv, DecoderInv, HoldsEos, DestroySteps,
        CodecEos, HandleEvent, locks, flags, pads, history
  <2>8. ThreadInv'
    BY <1>34, <2>q, <2>r, <2>s, <2>t DEF ThreadTypes, FlagTypes, CodecTypes,
        LockInv, PhaseInv, ThreadInv, DecoderInv, HoldsEos, DestroySteps,
        LoopSteps, CodecEos, HandleEvent, locks, flags, pads, history
  <2>9. DecoderInv'
    BY <1>34, <2>q, <2>r, <2>s, <2>t DEF ThreadTypes, FlagTypes, CodecTypes,
        PacketTypes, PhaseInv, ThreadInv, DecoderInv, CodecKinds, DestroySteps,
        CodecEos, HandleEvent, locks, flags, pads, history
  <2>10. EndInv'
    BY <1>34, <2>q, <2>t DEF EndInv, CodecTypes, FlagTypes, CodecEos,
        HandleEvent, locks, flags, pads, history
  <2>11. QueueInv'
    BY <1>34, <2>q, <2>r, <2>t DEF QueueInv, CodecTypes, CodecEos, HandleEvent,
        locks, flags, pads, history
  <2>12. TellInv'
    BY <1>34, <2>q, <2>r, <2>s, <2>t DEF ThreadTypes, FlagTypes, CodecTypes,
        FrameTypes, LockInv, PhaseInv, ThreadInv, DecoderInv, EndInv, QueueInv,
        TellInv, HoldsEos, EventKinds, DestroySteps, CodecEos, HandleEvent,
        locks, flags, pads, history
  <2>13. FrameInv'
    BY <1>34, <2>q, <2>r, <2>s, <2>t DEF ThreadTypes, FlagTypes, CodecTypes,
        PacketTypes, FrameTypes, DecoderInv, FrameInv, CodecEos, HandleEvent,
        locks, flags, pads, history
  <2> QED BY <2>1, <2>2, <2>3, <2>4, <2>5, <2>6, <2>7, <2>8, <2>9, <2>10,
      <2>11, <2>12, <2>13, Zenon DEF IInv
<1>35. ASSUME NEW g \in Decoders, element # "dead", CodecFatal(g)
      PROVE  IInv'
  <2>q. /\ pc'[App] = pc[App] /\ pc'[Streamer] = pc[Streamer]
        /\ pc'[Codec] = pc[Codec]
        /\ pc'[Loop] = IF pc[Loop] = "blocked" THEN "lock_event" ELSE pc[Loop]
    BY <1>35 DEF ThreadTypes, CodecFatal, HandleEvent, locks, flags, pads,
        history
  <2>r. \A i \in DOMAIN event_queue' :
          \/ event_queue'[i] = "FATAL"
          \/ i \in DOMAIN event_queue /\ event_queue'[i] = event_queue[i]
    BY <1>35, Appended DEF FlagTypes, EventKinds, CodecFatal, HandleEvent,
        locks, flags, pads, history
  <2>s. codec[g] = "running" /\ made \in Decoders /\ pc[Loop] # "none"
    BY <1>35 DEF ThreadTypes, FlagTypes, DecoderInv, ThreadInv, CodecFatal,
        HandleEvent, locks, flags, pads, history
  <2>1. ThreadTypes'
    BY <1>35, <2>q, <2>r, <2>s DEF ThreadTypes, Steps, DestroySteps, LoopSteps,
        ElementStates, CodecFatal, HandleEvent, locks, flags, pads, history
  <2>2. FlagTypes'
    BY <1>35, <2>q, <2>r, <2>s DEF FlagTypes, EventKinds, CodecFatal,
        HandleEvent, locks, flags, pads, history
  <2>3. CodecTypes'
    BY <1>35, <2>q, <2>r, <2>s DEF CodecTypes, FlagTypes, CodecKinds,
        CodecFatal, HandleEvent, locks, flags, pads, history
  <2>4. PacketTypes'
    BY <1>35, <2>q, <2>r, <2>s DEF PacketTypes, CodecTypes, FlagTypes,
        CodecFatal, HandleEvent, locks, flags, pads, history
  <2>5. FrameTypes'
    BY <1>35, <2>q, <2>r, <2>s DEF FrameTypes, FlagTypes, CodecFatal,
        HandleEvent, locks, flags, pads, history
  <2>6. LockInv'
    BY <1>35, <2>q, <2>r, <2>s DEF ThreadTypes, FlagTypes, LockInv, PhaseInv,
        HoldsEos, DestroySteps, CodecFatal, HandleEvent, locks, flags, pads,
        history
  <2>7. PhaseInv'
    BY <1>35, <2>q, <2>r, <2>s DEF ThreadTypes, FlagTypes, CodecTypes, LockInv,
        PhaseInv, ThreadInv, DecoderInv, HoldsEos, DestroySteps, CodecFatal,
        HandleEvent, locks, flags, pads, history
  <2>8. ThreadInv'
    BY <1>35, <2>q, <2>r, <2>s DEF ThreadTypes, FlagTypes, CodecTypes, LockInv,
        PhaseInv, ThreadInv, DecoderInv, HoldsEos, DestroySteps, LoopSteps,
        CodecFatal, HandleEvent, locks, flags, pads, history
  <2>9. DecoderInv'
    BY <1>35, <2>q, <2>r, <2>s DEF ThreadTypes, FlagTypes, CodecTypes,
        PacketTypes, PhaseInv, ThreadInv, DecoderInv, CodecKinds, DestroySteps,
        CodecFatal, HandleEvent, locks, flags, pads, history
  <2>10. EndInv'
    BY <1>35, <2>q, <2>r, <2>s DEF ThreadTypes, FlagTypes, CodecTypes,
        PacketTypes, FrameTypes, PhaseInv, ThreadInv, DecoderInv, EndInv,
        TellInv, CodecKinds, DestroySteps, CodecFatal, HandleEvent, locks,
        flags, pads, history
  <2>11. QueueInv'
    BY <1>35, <2>q, <2>r, <2>s DEF ThreadTypes, FlagTypes, CodecTypes,
        ThreadInv, QueueInv, EventKinds, DestroySteps, LoopSteps, CodecFatal,
        HandleEvent, locks, flags, pads, history
  <2>12. TellInv'
    BY <1>35, <2>q, <2>r, <2>s DEF ThreadTypes, FlagTypes, CodecTypes,
        FrameTypes, LockInv, PhaseInv, ThreadInv, DecoderInv, EndInv, QueueInv,
        TellInv, HoldsEos, EventKinds, DestroySteps, CodecFatal, HandleEvent,
        locks, flags, pads, history
  <2>13. FrameInv'
    BY <1>35, <2>q, <2>r, <2>s DEF ThreadTypes, FlagTypes, CodecTypes,
        PacketTypes, FrameTypes, DecoderInv, FrameInv, CodecFatal, HandleEvent,
        locks, flags, pads, history
  <2> QED BY <2>1, <2>2, <2>3, <2>4, <2>5, <2>6, <2>7, <2>8, <2>9, <2>10,
      <2>11, <2>12, <2>13, Zenon DEF IInv
<1>36. CASE UNCHANGED vars
  <2>1. ThreadTypes'
    BY <1>36 DEF ThreadTypes, vars, locks, flags, pads, library, history
  <2>2. FlagTypes'
    BY <1>36 DEF FlagTypes, vars, locks, flags, pads, library, history
  <2>3. CodecTypes'
    BY <1>36 DEF CodecTypes, vars, locks, flags, pads, library, history
  <2>4. PacketTypes'
    BY <1>36 DEF PacketTypes, vars, locks, flags, pads, library, history
  <2>5. FrameTypes'
    BY <1>36 DEF FrameTypes, vars, locks, flags, pads, library, history
  <2>6. LockInv'
    BY <1>36 DEF LockInv, vars, locks, flags, pads, library, history
  <2>7. PhaseInv'
    BY <1>36 DEF PhaseInv, vars, locks, flags, pads, library, history
  <2>8. ThreadInv'
    BY <1>36 DEF ThreadInv, vars, locks, flags, pads, library, history
  <2>9. DecoderInv'
    BY <1>36 DEF DecoderInv, vars, locks, flags, pads, library, history
  <2>10. EndInv'
    BY <1>36 DEF EndInv, vars, locks, flags, pads, library, history
  <2>11. QueueInv'
    BY <1>36 DEF QueueInv, vars, locks, flags, pads, library, history
  <2>12. TellInv'
    BY <1>36 DEF TellInv, vars, locks, flags, pads, library, history
  <2>13. FrameInv'
    BY <1>36 DEF FrameInv, vars, locks, flags, pads, library, history
  <2> QED BY <2>1, <2>2, <2>3, <2>4, <2>5, <2>6, <2>7, <2>8, <2>9, <2>10,
      <2>11, <2>12, <2>13, Zenon DEF IInv
<1> HIDE DEF IInv
<1> QED
  BY <1>1, <1>2, <1>3, <1>4, <1>5, <1>6, <1>7, <1>8, <1>9, <1>10, <1>11, <1>12,
      <1>13, <1>14, <1>15, <1>16, <1>17, <1>18, <1>19, <1>20, <1>21, <1>22,
      <1>23, <1>24, <1>25, <1>26, <1>27, <1>28, <1>29, <1>30, <1>31, <1>32,
      <1>33, <1>34, <1>35, <1>36 DEF Next, Finished, ChangeState, Stream,
      DestroyDecoder, EventTaskRunner, Codecs

-----------------------------------------------------------------------------
(* Spec => []IInv: the parts of the invariant hold in every state of every *)
(* element, for any number of decoders, buffers, packets and events.       *)
THEOREM Invariance == Spec => []IInv
<1>1. Init => IInv
  BY InitIInv
<1>2. IInv /\ [Next]_vars => IInv'
  BY NextIInv
<1> QED BY <1>1, <1>2, PTL DEF Spec

-----------------------------------------------------------------------------
(* Type correctness of the element, of its threads and of the codec.       *)
THEOREM TypeCorrect == Spec => []TypeOK
<1>1. IInv => TypeOK
  BY Zenon DEF IInv, TypeOK, ThreadTypes, FlagTypes, CodecTypes, PacketTypes,
               FrameTypes
<1> QED BY <1>1, Invariance, PTL

(* handle_frame is never called with a frame of an earlier decoder, unless *)
(* the codec had to abort that one: new caps wait for the last frame.      *)
THEOREM FramesOfThisDecoder == Spec => []FrameOfThisDecoder
<1>1. IInv => FrameOfThisDecoder
  BY BoundAssumption
     DEF IInv, FrameOfThisDecoder, FlagTypes, FrameTypes, CodecTypes, CodecKinds,
         DecoderInv, FrameInv, Decoders
<1> QED BY <1>1, Invariance, PTL

(* finalize leaves no codec instance running: an instance that the element *)
(* does not own any more still has the event thread joinable, and then the *)
(* process ends instead.                                                   *)
THEOREM NothingLeftBehind == Spec => []NoneLeftBehind
<1>1. IInv => NoneLeftBehind
  BY DEF IInv, NoneLeftBehind, PhaseInv, DecoderInv, Decoders
<1> QED BY <1>1, Invariance, PTL

(* A joinable thread is destroyed or assigned to only after a decoder was  *)
(* aborted, was given up or could not be created.                          *)
THEOREM DiesAfterFailure == Spec => []DiesOnlyAfterFailure
<1>1. IInv => DiesOnlyAfterFailure
  <2> SUFFICES ASSUME IInv, element = "dead"
               PROVE  \E g \in 1..made :
                        \/ codec[g] \in {"aborted", "absent"}
                        \/ codec[g] = "running" /\ decode # g
    BY DEF DiesOnlyAfterFailure
  <2>1. joinable /\ decode = 0 /\ made # 0 /\ made \in Decoders
    BY DEF IInv, FlagTypes, PhaseInv, ThreadInv, Decoders
  <2>2. codec[made] # "destroyed" /\ codec[made] \in CodecKinds
    BY <2>1 DEF IInv, DecoderInv, CodecTypes
  <2>3. made \in 1..made
    BY <2>1 DEF Decoders
  <2> QED BY <2>1, <2>2, <2>3 DEF CodecKinds
<1> QED BY <1>1, Invariance, PTL

-----------------------------------------------------------------------------
(* What holds when a decoder is destroyed or the element's memory freed.   *)
Alone == /\ pc[Loop] \in {"none", "exited"}
         /\ event_mtx = NoThread
         /\ frame = 0 \/ codec[frame] = "aborted"

(* Once the event thread is joined, nobody holds event_mtx; and with no    *)
(* running decoder, or one whose end was seen, no frame is at work.        *)
LEMMA AloneWhenJoined ==
  ASSUME IInv, ~joinable, decode # 0 => got_eos
  PROVE  Alone
<1>1. pc[Loop] \in {"none", "exited"}
  BY DEF IInv, ThreadInv
<1>2. event_mtx = NoThread
  BY <1>1 DEF IInv, LockInv, FlagTypes
<1>3. ASSUME frame # 0, codec[frame] # "aborted"
      PROVE  FALSE
  <2>1. frame \in Decoders /\ codec[frame] = "running"
    BY <1>3 DEF IInv, FrameInv, FrameTypes, Decoders
  <2>2. decode = frame
    BY <2>1 DEF IInv, DecoderInv
  <2>3. frame = made /\ made \in told
    BY <1>3, <2>2 DEF IInv, FlagTypes, TellInv
  <2> QED BY <2>1, <2>3 DEF IInv, EndInv
<1> QED BY <1>1, <1>2, <1>3 DEF Alone

(* destroy_decoder joins the event thread before it destroys the decoder,  *)
(* and finalize finds it joined, or the process ends: no other step        *)
(* destroys a decoder or deletes the element's state.                      *)
THEOREM FreedAlone == Spec => JoinedBeforeFree
<1> DEFINE Frees == \/ \E g \in Decoders : codec[g] # codec'[g] /\ codec'[g] = "destroyed"
                    \/ element' = "finalized"
<1>1. IInv /\ [Next]_vars => [Frees => Alone]_<<codec, element>>
  <2> SUFFICES ASSUME IInv, [Next]_vars, Frees, ~UNCHANGED <<codec, element>>
               PROVE  Alone
    OBVIOUS
  <2>1. (\E t \in {App, Streamer} : DestroyFree(t)) \/ Finalize
    <3> SUFFICES ASSUME ~Finalize, \A t \in {App, Streamer} : ~DestroyFree(t)
                 PROVE  ~Frees \/ UNCHANGED <<codec, element>>
      OBVIOUS
    <3> USE DEF Frees, locks, flags, pads, library, history
    <3>1. CASE ToReady
      BY <3>1 DEF ToReady
    <3>2. CASE ToPaused
      BY <3>2 DEF ToPaused
    <3>3. CASE DeactivatePads
      BY <3>3 DEF DeactivatePads
    <3>4. CASE ToNull
      BY <3>4 DEF ToNull
    <3>5. CASE Chain
      BY <3>5 DEF Chain
    <3>6. CASE EosEvent
      BY <3>6 DEF EosEvent
    <3>7. CASE EosEventFeed
      BY <3>7 DEF EosEventFeed
    <3>8. CASE SetCaps
      BY <3>8 DEF SetCaps
    <3>9. CASE InitDecoder
      BY <3>9 DEF InitDecoder, IInv, ThreadTypes, ElementStates
    <3>10. CASE CreateDecoder
      BY <3>10 DEF CreateDecoder, IInv, CodecTypes, FlagTypes, PhaseInv
    <3>11. ASSUME NEW t \in {App, Streamer}, DestroyMustFeed(t)
          PROVE  ~Frees \/ UNCHANGED <<codec, element>>
      BY <3>11 DEF DestroyMustFeed
    <3>12. ASSUME NEW t \in {App, Streamer}, DestroyFeed(t)
          PROVE  ~Frees \/ UNCHANGED <<codec, element>>
      BY <3>12 DEF DestroyFeed
    <3>13. ASSUME NEW t \in {App, Streamer}, DestroyNeedNotFeed(t)
          PROVE  ~Frees \/ UNCHANGED <<codec, element>>
      BY <3>13 DEF DestroyNeedNotFeed
    <3>14. ASSUME NEW t \in {App, Streamer}, DestroyRelock(t)
          PROVE  ~Frees \/ UNCHANGED <<codec, element>>
      BY <3>14 DEF DestroyRelock
    <3>15. ASSUME NEW t \in {App, Streamer}, DestroyBlock(t)
          PROVE  ~Frees \/ UNCHANGED <<codec, element>>
      BY <3>15 DEF DestroyBlock
    <3>16. ASSUME NEW t \in {App, Streamer}, DestroyNotify(t)
          PROVE  ~Frees \/ UNCHANGED <<codec, element>>
      BY <3>16 DEF DestroyNotify
    <3>17. ASSUME NEW t \in {App, Streamer}, DestroyJoin(t)
          PROVE  ~Frees \/ UNCHANGED <<codec, element>>
      BY <3>17 DEF DestroyJoin
    <3>18. CASE LoopLock
      BY <3>18 DEF LoopLock
    <3>19. CASE LoopExit
      BY <3>19 DEF LoopExit
    <3>20. CASE LoopTake
      BY <3>20 DEF LoopTake
    <3>21. CASE LoopMustWait
      BY <3>21 DEF LoopMustWait
    <3>22. CASE LoopBlock
      BY <3>22 DEF LoopBlock
    <3>23. CASE AbortDecoder
      BY <3>23 DEF AbortDecoder, IInv, CodecTypes, FlagTypes, PhaseInv
    <3>24. CASE HandleEos
      BY <3>24 DEF HandleEos
    <3>25. CASE PushEos
      BY <3>25 DEF PushEos
    <3>26. CASE AbortGotEos
      BY <3>26 DEF AbortGotEos
    <3>27. CASE SpuriousWakeup
      BY <3>27 DEF SpuriousWakeup
    <3>28. CASE PushFrame
      BY <3>28 DEF PushFrame
    <3>29. ASSUME NEW g \in Decoders, CodecFrame(g)
          PROVE  ~Frees \/ UNCHANGED <<codec, element>>
      BY <3>29 DEF CodecFrame
    <3>30. ASSUME NEW g \in Decoders, ReleaseBuffer(g)
          PROVE  ~Frees \/ UNCHANGED <<codec, element>>
      BY <3>30 DEF ReleaseBuffer
    <3>31. ASSUME NEW g \in Decoders, CodecCorrupt(g)
          PROVE  ~Frees \/ UNCHANGED <<codec, element>>
      BY <3>31 DEF CodecCorrupt, HandleEvent
    <3>32. ASSUME NEW g \in Decoders, CodecEos(g)
          PROVE  ~Frees \/ UNCHANGED <<codec, element>>
      BY <3>32 DEF CodecEos, HandleEvent
    <3>33. ASSUME NEW g \in Decoders, CodecFatal(g)
          PROVE  ~Frees \/ UNCHANGED <<codec, element>>
      BY <3>33 DEF CodecFatal, HandleEvent
    <3>34. CASE Finished
      BY <3>34 DEF Finished, vars
    <3>35. CASE UNCHANGED vars
      BY <3>35 DEF vars
    <3> HIDE DEF Frees
    <3> QED
      BY <3>1, <3>2, <3>3, <3>4, <3>5, <3>6, <3>7, <3>8, <3>9, <3>10, <3>11,
          <3>12, <3>13, <3>14, <3>15, <3>16, <3>17, <3>18, <3>19, <3>20, <3>21,
          <3>22, <3>23, <3>24, <3>25, <3>26, <3>27, <3>28, <3>29, <3>30, <3>31,
          <3>32, <3>33, <3>34, <3>35 DEF Next, ChangeState, Stream,
          DestroyDecoder, EventTaskRunner, Codecs
  <2>2. ASSUME NEW t \in {App, Streamer}, DestroyFree(t)
        PROVE  Alone
    BY <2>2, AloneWhenJoined DEF IInv, DestroyFree, ThreadInv, DestroySteps
  <2>3. CASE Finalize
    BY <2>3, AloneWhenJoined, FiveThreads
       DEF Finalize, library, IInv, PhaseInv
  <2> QED BY <2>1, <2>2, <2>3
<1>2. [Frees => Alone]_<<codec, element>>
        <=> [Frees => /\ pc[Loop] \in {"none", "exited"}
                      /\ event_mtx = NoThread
                      /\ frame = 0 \/ codec[frame] = "aborted"]_<<codec, element>>
  BY Zenon DEF Alone
<1> QED BY <1>1, <1>2, Invariance, PTL DEF Spec, JoinedBeforeFree

-----------------------------------------------------------------------------
(* What a step does for decoder d, seen as a session: one of the session's *)
(* steps, or none.                                                         *)
Kept(d) == Session(d)!Next \/ UNCHANGED <<Phase(d), pending[d]>>

(* Each step keeps the promise of every session: CreateDecoder is Open,    *)
(* Chain is Accept, a fed end of stream is Seal, CodecFrame and            *)
(* CodecCorrupt are Output, HandleEos is End or ReportAbort, AbortDecoder  *)
(* is Abort and DestroyFree is Close.                                      *)
LEMMA SessionSteps ==
  ASSUME IInv, [Next]_vars, NEW d \in Decoders
  PROVE  Kept(d)
<1> USE FiveThreads, BoundAssumption DEF IInv
<1> USE DEF Kept, Phase, Session!Next, Session!Open, Session!Accept,
        Session!AcceptLast, Session!Output, Session!Seal, Session!End,
        Session!Abort, Session!ReportAbort, Session!Close, Session!Die
<1> USE DEF locks, flags, pads, library, history
<1>1. CASE ToReady
  BY <1>1 DEF ToReady
<1>2. CASE ToPaused
  BY <1>2 DEF ToPaused
<1>3. CASE DeactivatePads
  BY <1>3 DEF DeactivatePads
<1>4. CASE ToNull
  BY <1>4 DEF ToNull
<1>5. CASE Finalize
  BY <1>5 DEF Finalize
<1>6. CASE Chain
  BY <1>6 DEF Chain, FlagTypes, CodecTypes, PacketTypes, EndInv, Decoders,
      CodecTakesEos, CodecTakesData
<1>7. CASE EosEvent
  BY <1>7 DEF EosEvent
<1>8. CASE EosEventFeed
  <2>1. UNCHANGED <<codec, told, pending>>
    BY <1>8 DEF EosEventFeed, FeedEos
  <2>2. \/ eos_in'[d] = eos_in[d]
        \/ /\ codec[d] = "running" /\ eos_in'[d] = eos_in[d] + 1
    BY <1>8 DEF EosEventFeed, FeedEos, CodecTakesEos, CodecTypes
  <2> QED BY <2>1, <2>2 DEF CodecTypes
<1>9. CASE SetCaps
  BY <1>9 DEF SetCaps
<1>10. CASE InitDecoder
  BY <1>10 DEF InitDecoder
<1>11. CASE CreateDecoder
  BY <1>11 DEF CreateDecoder, FlagTypes, CodecTypes, PhaseInv, DecoderInv,
      EndInv, Decoders
<1>12. ASSUME NEW t \in {App, Streamer}, DestroyMustFeed(t)
      PROVE  Kept(d)
  BY <1>12 DEF DestroyMustFeed
<1>13. ASSUME NEW t \in {App, Streamer}, DestroyFeed(t)
      PROVE  Kept(d)
  <2>1. UNCHANGED <<codec, told, pending>>
    BY <1>13 DEF DestroyFeed, FeedEos
  <2>2. \/ eos_in'[d] = eos_in[d]
        \/ /\ codec[d] = "running" /\ eos_in'[d] = eos_in[d] + 1
    BY <1>13 DEF DestroyFeed, FeedEos, CodecTakesEos, CodecTypes
  <2> QED BY <2>1, <2>2 DEF CodecTypes
<1>14. ASSUME NEW t \in {App, Streamer}, DestroyNeedNotFeed(t)
      PROVE  Kept(d)
  BY <1>14 DEF DestroyNeedNotFeed
<1>15. ASSUME NEW t \in {App, Streamer}, DestroyRelock(t)
      PROVE  Kept(d)
  BY <1>15 DEF DestroyRelock
<1>16. ASSUME NEW t \in {App, Streamer}, DestroyBlock(t)
      PROVE  Kept(d)
  BY <1>16 DEF DestroyBlock
<1>17. ASSUME NEW t \in {App, Streamer}, DestroyNotify(t)
      PROVE  Kept(d)
  BY <1>17 DEF DestroyNotify
<1>18. ASSUME NEW t \in {App, Streamer}, DestroyJoin(t)
      PROVE  Kept(d)
  BY <1>18 DEF DestroyJoin
<1>19. ASSUME NEW t \in {App, Streamer}, DestroyFree(t)
      PROVE  Kept(d)
  BY <1>19 DEF DestroyFree, FlagTypes, CodecTypes, ThreadInv, DecoderInv,
      TellInv, DestroySteps, Decoders
<1>20. CASE LoopLock
  BY <1>20 DEF LoopLock
<1>21. CASE LoopExit
  BY <1>21 DEF LoopExit
<1>22. CASE LoopTake
  BY <1>22 DEF LoopTake
<1>23. CASE LoopMustWait
  BY <1>23 DEF LoopMustWait
<1>24. CASE LoopBlock
  BY <1>24 DEF LoopBlock
<1>25. CASE AbortDecoder
  <2>1. CASE decode = d
    BY <1>25, <2>1 DEF AbortDecoder, CodecTypes, PacketTypes, DecoderInv, FlagTypes, Decoders
  <2>2. CASE decode # d
    BY <1>25, <2>2 DEF AbortDecoder, CodecTypes, PacketTypes
  <2> QED BY <2>1, <2>2
<1>26. CASE HandleEos
  BY <1>26 DEF HandleEos, FlagTypes, CodecTypes, ThreadInv, DecoderInv, EndInv,
      TellInv, CodecKinds, Decoders
<1>27. CASE PushEos
  BY <1>27 DEF PushEos
<1>28. CASE AbortGotEos
  BY <1>28 DEF AbortGotEos
<1>29. CASE SpuriousWakeup
  BY <1>29 DEF SpuriousWakeup
<1>30. CASE PushFrame
  BY <1>30 DEF PushFrame
<1>31. ASSUME NEW g \in Decoders, CodecFrame(g)
      PROVE  Kept(d)
  BY <1>31 DEF CodecFrame, CodecTypes, PacketTypes, EndInv
<1>32. ASSUME NEW g \in Decoders, ReleaseBuffer(g)
      PROVE  Kept(d)
  BY <1>32 DEF ReleaseBuffer
<1>33. ASSUME NEW g \in Decoders, CodecCorrupt(g)
      PROVE  Kept(d)
  BY <1>33 DEF CodecCorrupt, CodecTypes, PacketTypes, EndInv, HandleEvent
<1>34. ASSUME NEW g \in Decoders, CodecEos(g)
      PROVE  Kept(d)
  BY <1>34 DEF CodecEos, HandleEvent
<1>35. ASSUME NEW g \in Decoders, CodecFatal(g)
      PROVE  Kept(d)
  BY <1>35 DEF CodecFatal, HandleEvent
<1>36. CASE Finished
  BY <1>36 DEF Finished, vars
<1>37. CASE UNCHANGED vars
  BY <1>37 DEF vars
<1> HIDE DEF Kept
<1> QED
  BY <1>1, <1>2, <1>3, <1>4, <1>5, <1>6, <1>7, <1>8, <1>9, <1>10, <1>11, <1>12,
      <1>13, <1>14, <1>15, <1>16, <1>17, <1>18, <1>19, <1>20, <1>21, <1>22,
      <1>23, <1>24, <1>25, <1>26, <1>27, <1>28, <1>29, <1>30, <1>31, <1>32,
      <1>33, <1>34, <1>35, <1>36, <1>37 DEF Next, ChangeState, Stream,
      DestroyDecoder, EventTaskRunner, Codecs

(* Every decoder that the element makes, one after the other, is new at    *)
(* first and keeps the promise of a session: its frames before the end of  *)
(* its stream, and that seen by handle_eos before it is destroyed.         *)
THEOREM SessionsRefined == Spec => SessionsKept
<1>1. Init => \A g \in Decoders : Session(g)!Init
  BY DEF Init, Session!Init, Phase
<1>2. IInv /\ [Next]_vars => \A g \in Decoders : [Session(g)!Next]_<<Phase(g), pending[g]>>
  BY SessionSteps DEF Kept
<1> QED BY <1>1, <1>2, Invariance, PTL DEF Spec, SessionsKept
=============================================================================
