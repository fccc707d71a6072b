# Cambricon-Gst: a specification of its core

Cambricon-Gst is a set of GStreamer elements that decode, convert and encode
video on Cambricon MLU cards, on top of EasyDK, a C++ library around the vendor's
codec (cncodec), runtime (CNRT) and image operators (CNCV). This directory holds
TLA+ modules of the parts that carry the program's own control, the TLC
configurations that check them and TLAPS proofs of the results that matter most.

## The system

| part | state | operations | what makes it correct |
|---|---|---|---|
| `EasyDecode` / `DecodeHandler` (`easydk/src/easycodec/easy_decode.cpp`) | event queue, `event_mtx_`, `eos_mtx_`, two condition variables, the event thread, `handle_`, `status_`, `send_eos_`, `got_eos_`, `pts_key_`, `vpu_pts_map_` | New, FeedData, FeedEos, Pause, Resume, AbortDecoder, ReleaseBuffer, destruction; the codec's callbacks | output before end, end before destruction, one end of stream, nobody inside freed memory, destruction ends, each frame has its timestamp |
| `GstSyncedMemory` (`gst-libs/common/synced_memory.cpp`) | host and device pointer, who owns them, the head | new, free, get, get mutable, set, for each side | a getter returns what was written last; every block is freed once |
| `cnconvert` (`gst/convert/gstcnconvert.cpp`) | caps of both pads, `disable_resize`, `disable_convert`, `mlu_dst_mem`, `tmp_mem`, `cncv_workspace`, queue and handle | caps event, chain, finalize | kept memories fit the caps of now, a memory has one owner, supported conversions only |
| `GstMluFrame` and its meta (`gst-libs/common`) | planes, device, deallocator, reference count | new, ref, unref, copy of a meta | freed with the last buffer that refers to it |
| `cnvideo_dec` (`gst/decode`) | as `EasyDecode`, plus pads, caps and a set of stream ids | state changes, caps and EOS events, chain, codec callbacks | as `EasyDecode`, across re-creation on new caps; buffers outlive the decoder |
| `cnvideo_enc` (`gst/encode`) | as `cnvideo_dec`, plus one scratch memory for packed RGB | state changes, caps and EOS events, chain, codec callbacks | as `EasyDecode`, for the encoders that start with clear flags |
| `EasyEncode` / `EncodeHandler` (`easydk/src/easycodec/easy_encode.cpp`) | event queue, two mutexes and condition variables, the event thread, `handle_`, `send_eos_`, `got_eos_` | New, SendDataCPU, AbortEncoder, destruction; the codec's callbacks | as `EasyDecode` |
| `MluTaskQueue`, `MluContext` (`easydk/src/device`) | notifiers and their flags, the Marks that own them; the bound device | create, place and measure marks, bind | a mark has its index alone, an index comes back |
| Bang operators (`easydk/src/easybang`) | task queue, batch cache, kernel parameters, device buffers | Init, BatchingUp, SyncOneOutput, Destroy | a batch holds the inputs in their order, a broken queue is not used again |
| EasyTrack (`easydk/src/easytrack`) | tracks with a state, an id, an age and features | SetParams, UpdateFrame | one detection to one track, one track to an id, an outage ends |
| EasyInfer, ModelLoader | a loaded model, its shapes and buffers | init, run, copies | sequential CNRT calls |
| cxxutil, FormatInfo, progressive JPEG, plugin registration | | | not control |

How they interact: an application (or an element) calls the decoder on its own
threads; the codec calls back on a thread of its own, frames at once
(`ReceiveFrame`), events through `event_queue_` to the handler's event thread,
because the codec requires all but frames and sequences to be handled on another
thread than its callback's. A decoded frame is
wrapped in `GstSyncedMemory` planes of a `GstMluFrame`, attached to a buffer as a
meta, and travels to `cnconvert`, which replaces the frame of the meta by one that
owns the converted picture; whoever drops the last reference frees it. The
encoder reads such frames back. What is hard: two mutexes and two condition
variables around one flag (`got_eos_`), a destructor that races with events and
aborts, calls that fail after half of their work, memories that stay from one
frame or one negotiation to the next, a 32-bit key for 64-bit timestamps, exceptions
that leave a tracker in the middle of a frame, and queues that other parts share.
EasyDK's operators, queues and tracker are used by applications directly; the
operators run their batches on an `MluTaskQueue`.
PROJECT.json lists each hazard at its line.

## The modules

| module | models | based on |
|---|---|---|
| `DecodeSession` | what a decoder promises, as a session: open, sealed, ended or aborted, closed | abstract |
| `EasyDecode` | `EasyDecode` and `DecodeHandler`, one step per point where another thread can be seen | implements `DecodeSession` |
| `EasyDecodeProofs` | proofs about `EasyDecode` and `VpuTimestamps` | EXTENDS both |
| `GstDecode` | the element `cnvideo_dec`: state changes, caps, buffers, ends of stream, its event thread and the decoders it creates one after the other | implements `DecodeSession` for each decoder |
| `GstDecodeProofs` | proofs about `GstDecode` | EXTENDS `GstDecode` |
| `GstEncode` | the element `cnvideo_enc`: state changes, caps, buffers, ends of stream, its event thread, aborts from two threads | implements `DecodeSession` for an encoder created with clear flags |
| `GstEncodeProofs` | proofs about `GstEncode` | EXTENDS `GstEncode` |
| `EasyEncode` | `EasyEncode` and `EncodeHandler` | implements `DecodeSession` |
| `EasyEncodeProofs` | proofs about `EasyEncode` | EXTENDS `EasyEncode` |
| `VpuTimestamps` | `SetVpuTimestamp`, `GetVpuTimestamp` and the calls around them | |
| `SyncedMemory` | one `GstSyncedMemory` | |
| `SyncedMemoryProofs` | proofs about `SyncedMemory` | EXTENDS `SyncedMemory` |
| `CnConvert` | caps, chain and the kept memories of `cnconvert` | |
| `CnConvertProofs` | proofs about the card's memories and queues: `CnConvert`, `MluTaskQueue`, `ResizeConvert` | EXTENDS `CnConvert` and `ResizeConvert` |
| `MCCnConvert` | the symmetry of memory identities for TLC | EXTENDS `CnConvert` |
| `MluTaskQueue` | task queues, the Marks placed on them and the threads that place them | |
| `ResizeConvert` | `MluResizeConvertOp` on task queues, its own or the application's | composes with `MluTaskQueue`, which it EXTENDS |
| `FeatureMatchTrack` | the life of tracks, cascade and overlap, in `FeatureMatchTrack` | |
| `MCResizeConvert` | the symmetry of Marks, callers and queues for TLC | EXTENDS `ResizeConvert` |
| `FeatureMatchTrackProofs` | proofs about `FeatureMatchTrack` | EXTENDS `FeatureMatchTrack` |
| `MCFeatureMatchTrack` | the symmetry of the places of tracks for TLC | EXTENDS `FeatureMatchTrack` |
| `Hungarian` | the assignment algorithm of the tracker | |
| `HungarianProofs` | proofs about `Hungarian` | EXTENDS `Hungarian` |

The detailed modules define their types (`TypeOK`, in `VpuTimestamps` `TimestampsTypeOK`, in
`ResizeConvert` `DeviceTypeOK`, of which `QueuesTypeOK` in `MluTaskQueue` is a part). No run lists
them, for they are proved (`TypeCorrect`, `TimestampsTypeCorrect`, `DeviceTypeCorrect`).
`DecodeSession` and `Hungarian` define none; the types of `Hungarian` are a part of the invariant of
its proofs. `VpuTimestamps` and `ResizeConvert` name their initial state, next-state relation and
specification apart (`InitTimestamps`, `NextDevice`, ...), so that one proof module can extend them
together with another specification.

**EasyDecode.** `pc[t]` says which step thread `t` takes next. The variables `event_mtx`, `eos_mtx`,
`event_queue`, `handle`, `status`, `send_eos`, `got_eos` are the members of the same names;
`destroying` says that the destructor has begun. `codec`, `pending`, `held`, `eos_in`, `eos_out` and
`fatal` are the codec: packets inside, output buffers the application references, ends of stream
taken and raised, fatal events raised. `eos_callbacks` is history. The destructor is `TearBegin` to
`TearFree`; the event thread is `LoopLock`, `LoopExit`, `LoopTake`, `LoopMustWait`, `LoopBlock`, and
`AbortCall` to `SetGotEos` for the events it handles, steps it shares with an application thread in
`AbortDecoder`. Testing the predicate of a wait and blocking are two steps, as they are in the code,
for a notification that is not under the mutex can come between them; a condition variable may wake
spuriously. A callback of the codec is steps of its own: it begins while the instance runs
(`CodecFrame`, `CodecCorrupt`, `CodecEos`, `CodecFatal`) and goes on whatever happens meanwhile.
`ReceiveFrame` is `FrameEmpty` (an early return), or `FrameCallback` and `FrameReturn`; an event is
queued by `ReceiveEvent`. An abort does not wait for a callback under way, nor does the destructor
of a decoder that was aborted: a callback that goes on after `TearFree` uses freed memory
(`UseAfterFree`, the thread is `undefined`). `JoinedBeforeFree` says when that can be: after an
abort, or in the callback of a fatal event. A running instance whose end came out is never freed
under a frame or an end of stream. An exception out of `FeedEos` in the destructor leaves the event
thread joinable and ends the process: every thread goes to `crashed`. The application is taken to
respect C++: it destroys the decoder only when none of its other calls is inside.

Of the codec the model assumes what the code relies on: it accepts no packet
behind an end of stream, raises the end of stream when everything before it is
out, calls back only while it is running, and needs a free output buffer for a
frame. Packets and buffers are counted, not named.

**GstDecode.** Four threads: `App` changes the element's state, `Streamer` is the
streaming thread of the sink pad, `Loop` is `event_loop`, `Codec` the codec's
callback thread for frames. `event_mtx`, `eos_mtx`, `event_queue`, `decode`,
`send_eos` and `got_eos` are the members of the same names; `joinable` is
`event_loop.joinable()`. Decoders are numbered as they are created (`made` is the
last), `decode` is the number behind the handle or 0, and `codec`, `pending`,
`held`, `eos_in`, `eos_out` are kept for each number, so that a frame, an event or
a buffer of an old decoder is told from one of the new. `cnvideo_dec_set_caps` is
`SetCaps`, the steps of `destroy_decoder` when there is a decoder (`DestroyMustFeed`
to `DestroyFree`, which the application's thread runs too, from READY to NULL),
`InitDecoder` and `CreateDecoder`. The lock scopes are the code's and differ from
`EasyDecode`'s: the look at `got_eos` and the feed of the destruction are two
steps, the feed and the flag of an EOS event are under `eos_mtx` together, and
`handle_eos` pushes the event downstream with the mutex held. Assigning to or
destroying a joinable `std::thread` ends the process (`element = "dead"`), and
`DiesOnlyAfterFailure` says when that can be. Of GStreamer the model assumes: pads
are deactivated, which waits for the streaming thread, before the state is
READY; upstream sends its caps again after the pads were activated, before
buffers and before it ends a stream that has a decoder (`negotiated`); a pad
that is inactive or at its end lets nothing through. PLAYING is not told from
PAUSED, as in the code. Of the codec, in addition to the above: an abort may return while
a frame callback is inside, and a buffer may be given back to an instance that
is gone (the code does so; whether cncodec allows it is not judged). Not modelled:
failures of `cnrt` calls and of the sequence callback.

What the module shows besides its properties, none of which contradicts a text of the
repository: after new caps the end of the old decoder's stream goes downstream, the source
pad is at its end (`pad_eos`) and the frames of the new decoder are dropped
(`PushFrame`); `set_caps` overwrites the stream's description before the old decoder's last
frames are handled with it; after an abort or a failed creation the event thread
stays joinable and the process ends at the next caps or in `finalize`; a fatal event that
is queued after the event thread left aborts the next decoder; and, as in
`EasyDecode`, `destroy_decoder` never returns when the codec refuses its end of
stream or aborts while `eos_mtx` is held over the join.

**GstEncode.** Threads, mutexes, queue and numbering are as in `GstDecode`. What differs is the
code: `destroy_encoder` runs from PAUSED to READY (`PausedToReady`), with or without an encoder;
`feed_eos` holds no mutex and sets `send_eos` only after the codec took the end (`FeedEos`,
`FeedEosSent`, used by the EOS event and by the destruction); a packet that cannot be copied aborts
the encoder from inside its own callback, so the steps of `abort_encoder` (`AbortCheck` to
`AbortGotEos`) are taken by `Loop` and by `Codec`, with the codec's abort (`AbortCall`) and the null
handle (`AbortNull`) apart, so that two threads can be in the abort of one instance; a frame that
cannot be copied to the device raises an exception that nobody catches (`ChainThrows`). `send_eos`
and `got_eos` are reset nowhere but in `init`. `fresh` (history) names the encoders created while
both were clear: the promises of a session are kept for these. What becomes of the others is an
observation no text of the repository contradicts: flags left from before send the event thread home
at once, so the encoder is destroyed with frames inside, its end of stream stays in the queue
unhandled, and `destroy_encoder` can hold `eos_mtx` over the join of an event thread that wants it
although nothing failed. An abort that is late nulls a handle that is another's by then: an abort of
the first encoder can null the handle of the second, whose instance is left behind running and is
never destroyed.

**EasyEncode.** Threads and members as in `EasyDecode`; `eos_mutex` is `eos_mutex_`.
A send is three steps, the unlocked test of `send_eos_` (`SendDataCPU`), the wait
for an input buffer, which is filled and sets `send_eos_` when the stream ends
(`WaitAvailInputBuf`), and the feed; the input is a frame, a last frame or an
end of stream alone. The destructor drops `eos_mutex_` and takes the same steps for the end of
stream. An abort comes from the application, from the event thread or out of
the packet callback, whose copy may fail (`ReceivePacketFails`), and these overlap. A codec
instance that is refused leaves no handler (`NewFails`). `failed` bounds how many kinds of
failure meet in one behaviour. The codec is as above, and needs a free input buffer for a frame.
A packet callback is the steps `ReceivePacket` and `PacketReturn`, or `ReceivePacketFails` and those
of an abort. The destructor takes a null handle for an end of stream and waits for no callback,
so the handler can be freed while a callback is inside, in a packet, an event or an abort of
its own. It is not judged in the model but left to happen: `TearFree` frees, `UseAfterFree` is what
the callback does next, and `JoinedBeforeFree` says that an abort or a fatal event came before it.
In one such case no one is told: the callback nulled the handle and
the destructor is through before it reports (`FreedUnderAbort`). The session that `SessionPromise`
maps to is dead then. What the module shows besides its properties: `New` returns a null pointer where
`easy_encode.h` speaks of an exception; and
`~EasyEncode` can hang in the three ways that `NeverReturns` names.

**VpuTimestamps.** A step is one critical section of `pts_map_mtx_` and the codec call next to it.
The codec reorders, swallows a packet or makes two frames of it. One assumption is made of it: no
packet is still inside while `KeyValues` (2^32) others follow it (`KeyIsFree`). `swallowed` and
`frame` are history. The first frame of a packet takes the entry out of the map. For a second one
`ReceiveFrame` logs that it uses the timestamp from the vpu-decoder, but nothing assigns it: the
frame goes out with timestamp 0, which is the finding of run `vpu_fallback` (`ElseTheDecodersPts`).

**SyncedMemory.** The functions for host and device mirror each other and are
written once, for a side. `head`, `ptr` and `own` are the fields, `allocated` the
heap, `content` a version number for each block, `latest` the version written
last. A getter, a setter or a free that throws is a step of its own. The
application writes through a mutable pointer until it asks for the data on the
other side; a setter passes a block that holds new data.

**CnConvert.** `mlu_dst_mem`, `tmp_mem`, the caps and the two flags are members.
`bytes[m]` is the size of a memory, 0 when it is not allocated; `frames` are the
memories that went downstream; `broken` is set when a freed memory is used or
freed again. One chain action per mode of conversion, each with the failure of
the library call; `Setcaps` accepts or refuses and ends with `ReleaseBuffers`,
which has the code's inverted test. A refused caps event stops the data flow
until the next (GStreamer's rule, `negotiated`). Pictures are a format and a
number of pixels with packed rows. `cncv_workspace` is freed and reallocated
when it is too small and is left out; so are pixels and copies.

**MluTaskQueue and ResizeConvert.** A queue is an identity that is created once; `held` and `queue`
are the application's and the operator's `shared_ptr`s, and a queue lives while one of them holds
it. `marks[q]` is the number of notifiers, `marks_valid[q]` the flags beside them, `mark[m]` what
the Mark `m` gives back when it dies, `placing[c]` the index that the call of thread `c` has found.
`PlaceMark` takes no lock, so it is two steps: `FindIndex` takes the first valid index or adds one,
to the limit that the code tests (`size() > marks_max_num`, which lets one more in than its name
says); `PlaceMark` places the notifier and clears the flag, `PlaceMarkThrows` is a notifier that
fails after both vectors have grown. Between them another thread can find the same index, a Mark can
be released, or `SetCnrtQueue` can replace the queue's private part, notifiers and flags, under the
Marks and calls that have indices into it. `contested` (history) holds the indices that are out of
which one of these two happened: they may have two Marks, or a flag that says they are free, and
`MarkOwnsIndex` speaks of all others. A Mark that is assigned another one does not release its
index; `OnlyMarksTakeIndices` names that as the one way to lose an index. No code under `src/` calls
`PlaceMark` or `SetCnrtQueue`: both are for applications. A Mark that dies after its queue writes to
freed memory, of which only that no live queue is meant is kept, and one whose index is behind the
end of replaced vectors changes no flag. What two threads do to the vectors themselves, one that is
reallocated while another is written, or two flags in one word of a `vector<bool>`, is undefined
behaviour and is not modelled. The operator's calls are `Initialize`, `SetMluQueue`, `GetMluQueue`,
`BatchingUp`, `Destroy`, `DeleteOp` and `SyncOneOutput`, which has four outcomes: nothing to do
(`SyncNothing`), a batch whose copies fail or whose kernel is launched (`SyncDone`), a kernel that
fails and spoils its queue (`KernelFails`), and no queue to take in its place
(`KernelFailsForGood`). Inputs are numbered as they come.

**FeatureMatchTrack.** `tracks[k]` is a member of `tracks_` with the fields the life of a track
depends on. A frame is the steps `BeginFrame` (every track one frame older), `CascadeRound` once for
each age, `CascadeEnds`, `MatchIou` and `Update`, or `FirstFrame` when no track is known. Costs are
abstracted to which pairs are close enough (`near`): any set of pairs, and any matching that
HungarianMatch may return for it. The length of a feature vector is kept, for `InnerProduct` throws
on vectors of different length (`CascadeThrows`), which leaves `UpdateFrame` with every track one
frame older. `track_id` is an `int` into which the code puts the `uint64_t` counter `next_id_`:
`ToInt` keeps its lower half (2^64 is a multiple of 2^32, so that the counter's own wrap shows in no
id). So an id comes back after 2^32 confirmed tracks, not before, negative ids are given, and one
confirmed track in 2^32 has the -1 of a tentative one. `given` (history) lists the ids in the order
in which they were given. Boxes, scores and the Kalman filter are left out; so is the `track_id`
that the output has before a track is confirmed.

**Hungarian.** One action per function of the algorithm or turn of its loops; stars, primes
and covers are sets of cells and lines. A scan for a zero may find any zero, which is
more than the code's order. Costs are integers: the code's floats and its
comparison with `DBL_EPSILON` are left out.

## What is checked

| run | question | result |
|---|---|---|
| `decode` | EasyDecode with two application threads, both of which feed, end, pause, resume, one of which aborts; creation, feeds and the codec may fail, fair (109,153 states) | one end of stream (`EosFedOnce`), nothing freed under a thread but a callback of an aborted codec or of a fatal event (`JoinedBeforeFree`), final status (`StatusEnds`), implements `DecodeSession` (`SessionPromise`: output before end, end before destruction); the destructor of a decoder that `New` handed out returns but for two named ways (`DestroyReturns`), an accepted end of stream is reported (`EosReported`) |
| `easy_encode` | EasyEncode with two application threads, one of which ends the stream and one of which aborts; two of five kinds of failure in a behaviour, fair (254,543 states) | `JoinedBeforeFree`, implements `DecodeSession`, returns but for three named ways, an accepted end of stream is reported |
| `gst_decode` | the element with two decoders after each other, caps, ends, state changes, failed creations and feeds and a fatal event in any order, fair | a frame is handled for the decoder of now (`FrameOfThisDecoder`), no instance outlives the element (`NoneLeftBehind`), the process ends only after a failure (`DiesOnlyAfterFailure`), event thread gone before anything is freed (`JoinedBeforeFree`), each decoder implements `DecodeSession` (`SessionsKept`); the destruction returns but for two named ways and an end of stream arrives unless the codec failed |
| `gst_encode` | the element with two encoders after each other and two kinds of failure in a behaviour, fair (370,363 states) | an encoder created with clear flags implements `DecodeSession` (`SessionsKept`) and its end of stream arrives; the destruction of any encoder returns but for three named ways |
| `vpu_pts` | two feeders, a key of 4 values that wraps | the first frame of a packet has its timestamp and no other frame finds one (`FrameHasItsPts`); the map holds no other entry than it should (`EntriesAccounted`) |
| `vpu_fallback` | does a frame without an entry have the vpu-decoder's timestamp? | **violated**: the second frame of a packet goes out with timestamp 0 |
| `synced_memory` | all sequences of calls | getters are current, ownership is exact |
| `convert` | caps changes, failures and frames held downstream in any order | kept memories fit and have one owner, only supported conversions, nothing lost |
| `convert_caps` | are memories freed once? | **violated**: a caps change after a failed conversion frees twice |
| `device` | queues shared and owned, two threads placing Marks, Marks moved, assigned over and released, vectors replaced, notifiers, launches and creations that fail (2,045,729 states) | a Mark has its index alone but for contested ones (`MarkOwnsIndex`), an index is lost only where a Mark is assigned over (`OnlyMarksTakeIndices`), a spoiled queue is replaced unless it is shared or no other can be made (`SpoiledNotReused`), batches keep the order (`BatchInOrder`) |
| `track` | any frames, features, matchings and parameters, ids of four values (8,932,512 states) | each detection used once (`EachOnce`), recent tracks first (`RecentFirst`), an id names one track until all its values were given (`IdNamesOneTrack`), confirmation needs a row of matches (`ConfirmedInARow`), an outage ends (`BoundedOutage`) |
| `hungarian` | every matrix of up to three by three costs, any zero found by each scan | the cheapest complete assignment (`Optimal`), no scan past the matrix (`ScansSucceed`), it ends (`Terminates`) |

`DestroyReturns` says of each of the four destructors that it returns, or the process has ended
in it, or it hangs in exactly one of the ways that `NeverReturns` (`NeverJoined` in `EasyDecode`)
lists. Each way is reachable, and without it the property fails: the event
thread wants the mutex of the end of stream, which the destructor holds over the join; the
only notification came between the event thread's test and its wait; an end of
stream was refused and is waited for. No text of the repository promises that destructors
return, so these ways are part of the property and not findings.

`New` is another matter. When the codec refuses the instance, the constructor throws and the handler
is destroyed inside `New`; the notification of `TearNotify` can come between the event thread's test
and its wait (`LoopMustWait`, `LoopBlock`), and `New` hangs in the join. This contradicts
`easy_decode.h:108`, "Create decoder by attr. Throw a Exception while error encountered.", and so
does the process that ends inside `New` when the attribute call failed and the destructor's end of
stream is refused (`FeedEosThrows`). `DestroyReturns` of `EasyDecode` therefore does not count it
among the allowed ways: it speaks of decoders that `New` handed out (`<>(pc[Owner] = "idle")`) and
of no others. To see the hang, check `<>(pc[Owner] \in {"idle", "gone", "crashed"})` under
`FairSpec` with the constants of `EasyDecode.cfg`: TLC refutes it with a behaviour of a refused
instance that ends with the owner at `tear_join` and the event thread at `blocked`.

Bounds. Two application threads are enough for every pair of calls to overlap, and the destructor
and the event thread make four concurrent parties with the codec; two packets and one output buffer
let a frame wait for a buffer with another packet behind it; one fatal event lets an abort meet
every step of the others (a second would find the codec aborted). One aborting thread of the
application is enough, for the event thread aborts too. In `gst_decode` two decoders are one that is
replaced and one that replaces it; one packet inside and one output buffer let a frame of the old
decoder be downstream or under its callback while the new one is made (the number of packets over
time is not bounded), and one fatal event lets the abort meet each step. No corruption is raised
behind a queued event (`MaxQueue`). The safety properties also hold with `MaxDecoders` 3 and all
other bounds 2 (4.6 million states, too long for a regular run). `gst_encode` has the same bounds
and two kinds of failure in a behaviour (`MaxFailures`), so that the abort of a packet that cannot
be copied meets one of a fatal event. `easy_encode` has two input buffers and two frames, so that
one is inside while another is being filled, and two kinds of failure, so that a refused end of
stream meets an abort. Two feeders, two timestamps and four keys let the key wrap while packets are
inside and reach entries of swallowed packets. Two heap blocks a side give a fresh block next to an
owned one, and four writes every order of the two sides. Three memories are the two kept ones and
one downstream, and a second frame downstream when `tmp_mem` is unused; two sizes and three formats
give each of the conversion modes in both directions. In `device` two queues are the one that fails
and the one that replaces it, or the operator's and a shared one; two Marks are enough to be
assigned to one another, two threads to find one index, two indices reach the limit, and two inputs
in batches of two are a full batch, or a batch of one that is filled up (the properties also hold
with three inputs and one caller). In `track` three slots let two tracks compete for a detection
while a new one starts; ages up to 2 give two rounds of the cascade; an int of four values and five
ids (`IdValues`, `MaxIds`) let ids be negative and the first come back. In `hungarian` three by
three is the smallest matrix on which a path of stars and primes can have more than one turn. In the
runs of `CnConvert` and `SyncedMemory` deadlock is not checked because a finalized element or a
deleted memory really has no further step, in `hungarian` because the algorithm ends; in the runs of
`EasyDecode`, `EasyEncode`, `GstDecode` and `GstEncode` because threads really may wait for each
other in the ways that `DestroyReturns` names.

Fairness (`EasyDecode!Fairness`). Started calls go on and threads run; a thread that wants a mutex
that is freed again and again gets it (strong fairness, as the mutexes are held for short times).
The codec works off its input, and the application gives its buffers back, as `easy_decode.h` asks
of it. `GstDecode!Fairness` is the same with GStreamer downstream, which takes and drops buffers, in
the application's place, and so is `GstEncode!Fairness`; `EasyEncode!Fairness` is that of
`EasyDecode` without output buffers, with strong fairness for each thread, since a send also waits
for an input buffer. `Hungarian` is one thread that runs on. What the application calls, and when,
is not assumed; neither are spurious wakeups.

## What is proved

The proofs hold for every value of the constants under the assumptions the
modules name: any number of threads, packets, buffers, keys and blocks.

* `EasyDecodeProofs`: `TypeCorrect`, `OneEndOfStream`, `FreedAlone`, `Drained`, `Told`, `EndIsFinal`
  and `SessionRefined`. None of these invariants is inductive alone; `IInv` adds which steps hold
  which mutex (`LockInv`), that the destructor is alone (`PhaseInv`), that the event thread is idle
  before the codec exists (`StartInv`), what a null handle means (`HandleInv`) and the accounting of
  ends of stream in the codec, the event queue and the event thread (`StreamInv` and the parts after
  it). `Drained`, for example, needs that `got_eos_` with a live handle means that the one end of
  stream came out, which needs that no end of stream is in the queue before it came out of the
  codec. The refinement maps each step to a step of `DecodeSession` or to a stutter.
* `SyncedMemoryProofs`: `TypeCorrect`, `GettersCurrent`, `OwnershipKept`. The strengthening: an
  unused memory has no blocks, an owned block is of the heap of its side, and the application writes
  only where the head is.
* `EasyDecodeProofs`, about `VpuTimestamps`: `TimestampsTypeCorrect`, `TimestampKept`,
  `MapAccounted`. The strengthening: packets under way have different keys, none of them a key that
  a swallowed packet left behind.
* `FeatureMatchTrackProofs`, for any number of tracks, detections and frames: `TypeCorrect`,
  `OutageBounded`, `IdsNameOneTrack`, `EachDetectionOnce`, `RecentTracksFirst`,
  `ConfirmedAfterARow`. All rest on `Shape`, the types of tracks and of a frame. `Outage`
  strengthens `BoundedOutage` by the reason for it: a confirmed track with a feature has been unseen
  for at least as many frames as were lost, while the round that throws compares a track unseen for
  at most `max_age`. `Ids` adds that a track which is deleted within a frame has its id still and
  that the ids given are the counter's values in order, as ints; that two equal ones are at least
  2^32 apart is the lemma `ToIntRepeats`. `Accounted` says for each place in the frame what is
  matched, what is left and what is missed. `Rounds` carries `RecentFirst` through the cascade: a
  track whose round is over and that is close to a detection still left was itself matched.
  `Counted` says that the age of a tentative track counts matches in a row, which holds because a
  tentative track that is not matched in `MatchIou` is missed there and dies.
* `CnConvertProofs`, about the queues and operators: `MarksOwnTheirIndices` and
  `VectorsGrowTogether` from `MarksInv` (vectors of equal length; a Mark or a call that is not
  contested refers to an index in both, the Mark's flagged; no such index is two Marks', nor a
  Mark's and a call's), for any number of threads in `PlaceMark` and with vectors that are replaced;
  `IndicesAreMarks` is a statement about single steps: of each action, which indices of a live queue
  it can lose (`LosesNothing`); `SpoiledQueuesNotReused` from `SpoiledInv` (what is spoiled was
  created, so what is new is not spoiled); `BatchesInOrder` from `CacheInv` (the cache is the tail
  of the inputs that begins behind `taken`); `DeviceTypeCorrect` from all of them.
* `CnConvertProofs`, about `CnConvert`: `TypeCorrect`, `KeptMemoriesFit`, `OneOwner`,
  `MemoryAccounted`, `OnlySupportedConversions`, for any memories, picture sizes and frames
  downstream. The three properties of memories are inductive only together and with `CapsInv`, that
  while caps are accepted the two flags say how they differ: whether `mlu_dst_mem` is large enough
  depends on the flags, which a refused caps event changes while the memories stay.
* `EasyEncodeProofs`: `TypeCorrect`, `FreedAlone`, `SessionRefined`. The parts of `IInv` are those
  of `EasyDecode`, but different where the code is: an abort may be under way on three threads, one
  of which reports it (`HandleInv`); the destructor takes the steps of a send, for an end of stream
  only (`PhaseInv`); and the end comes out with nothing pending and no packet callback inside
  (`StreamInv`), so that `got_eos_` with an instance alive means that everything came out
  (`EndInv`). `FreedAlone` follows here and in `EasyDecodeProofs` from these two: what is freed
  without an abort has had its end handled, and the callback that brought it came after all others
  but a fatal event's.
* `GstDecodeProofs`: `TypeCorrect`, `FramesOfThisDecoder`, `NothingLeftBehind`, `DiesAfterFailure`,
  `FreedAlone` and `SessionsRefined`, for any number of decoders in a row. What has to be carried
  over from one decoder to the next is in `DecoderInv` (every decoder before the last is gone or was
  aborted; one that the element gave up is running still, never ends its stream and keeps the event
  thread joinable) and in `QueueInv` with `TellInv`: an EOS event in the queue or in the event
  thread's hands is that of the decoder of now, since a decoder is destroyed only after `got_eos`,
  which its one EOS event sets. (This is not so for fatal events, which may meet the next decoder.)
  `FramesOfThisDecoder` follows, for an end of stream comes out behind the last frame (`EndInv`).
  `DiesAfterFailure` needs that the event thread stays joinable without a decoder only if the last
  one was aborted, given up or never made (`DecoderInv`). `SessionsRefined` maps each step to at
  most one step of `DecodeSession` for each decoder, with the map that the run uses.
* `GstEncodeProofs`: `TypeCorrect`, `FlagsOutliveTheFirst`, `FreedAlone` and `SessionsRefined`, for
  any number of encoders in a row. The event thread is joined only after `got_eos`, which nothing
  resets, and the next encoder is created only after the join (`FreshInv`): so only the first
  encoder of an element can be created with clear flags, from the second on `destroy_encoder` feeds
  no end of stream and waits for none (`FlagsOutliveTheFirst`), and `SessionsKept` speaks of the
  first. For this one `TellInv` says that an EOS event or an abort under way is its own and that
  `got_eos` means `handle_eos` was there for it: it holds while no second encoder is made, and
  `BeforeInv` starts it, for before the first instance exists no event, packet or abort can be under
  way. An abort that another abort or the destruction has overtaken finds a null handle or the next
  encoder; `TellInv` needs only that the instance it looked at is no longer new. The refinement does
  not rest on the mutexes; `FreedAlone` does (`LockInv`, `JoinInv`), and it says nothing of the
  codec's thread inside `abort_encoder`.
* `HungarianProofs`, for any finite number of rows and columns and any integer costs:
  `ScansAlwaysSucceed` and `AssignmentOptimal`. The parts of `IInv`: the stars are one to one and,
  like the primes, zeros of a matrix without negative elements (`ZeroInv`); a covered line has a
  star, and a star is under exactly one line (`LineInv`); a covered row has one prime, in an open
  column (`PrimeInv`). Then fewer lines are covered than the smaller side has, so that `step5` finds
  an element in the open (`UncoveredLeft`), which is `ScansSucceed`. `step4` follows stars and
  primes, and that its path never meets a line twice is the order in which the rows were covered:
  from a prime the star in its column leads to a row covered before (`Descends`), and what the path
  has left ranks no lower than where it is (`OnPath`); so the new stars are again one to one, and
  one more. `PotentialInv` keeps a certificate of optimality: the reduced matrix is the costs less a
  number for each row and each column, and a line of the longer side has none before it has a star.
  At the end every line of the shorter side has a star, all stars are zeros, and the cost of any
  complete assignment is at least that of the stars (`CostByLines`). Sums over sets are folds, about
  which nothing is proved by induction here; `IsTotal` says of a function on the subsets of a set
  that it adds a weight up, `CostIsTotal` that the cost of the module is one, and the inductions
  over subsets are made with a minimal counterexample (`SmallestSubset`), from the library's theorem
  that strict inclusion in a finite set is well-founded.

TLC checks such an invariant too: that of `GstEncode` on the instance of its run, that of `Hungarian` on
matrices of two and three rows and columns with costs 0 and 1, and bounded ranks and potentials.

Only model-checked, and why: the liveness properties `DestroyReturns`, `EosReported`,
`EosReachesDownstream` and `Terminates`, for the prover has no reasoning about fairness; and
`FreedOnce` and `ElseTheDecodersPts`, which do not hold. Every other property of the runs is stated by a theorem.

## What is left out

Proofs: a well-founded measure for `Terminates` (stars, then covered lines, then the path) could be
stated as an action property; the conclusion from it would be liveness again and stay with TLC.

Not modelled:

* of the modelled components: the sequence callback's buffer numbers and the copy-out of frames in
  the decoders, coding parameters and packet timestamps in the encoders, the set of stream ids of
  `cnvideo_dec`, failures to bind a device; `MluTaskQueue`'s `Sync` and `Count`, which change no
  state of the queue, and `MluTaskQueueProxy::Wrap`, which `EasyInfer` uses to make a queue of a
  handle of its own (`easy_infer.cpp:90`); in `MluResizeConvertOp` the buffers that a failed Init
  leaves for Destroy and an Init that is called twice; `MluResizeOp`, whose cache has the same
  shape; `KcfTrack` and the filters and matrices of the tracker, which are floating-point
  computation.
* buffers shared by two branches of a pipeline (GStreamer's, not this repository's).
* EasyInfer and ModelLoader: sequential wrappers of vendor calls. cxxutil: logging. Tables of
  formats, plugin registration, the progressive JPEG decoder: no control to check.
* pixels, strides and copies: data, not control.

Four fifths of the repository's implementation lines are two tables of numbers
(`kcf/dft_mat_c20_zipped.hpp` and `resize_yuv2rgba_table.h`, 71,354 of 88,186 lines), and much of
the rest is device code, matrices, parameters and logging, so the share of lines that the modules
stand for stays small although they cover the control of every component above. The vendored
libjpeg-turbo, libyuv and gtest, tests and samples are left aside.
