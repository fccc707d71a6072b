----------------------------- MODULE VpuTimestamps -----------------------------
(***************************************************************************)
(* How DecodeHandler carries 64-bit timestamps through a decoder that has  *)
(* room for 32: a packet is fed under a key, the timestamp waits in        *)
(* vpu_pts_map_, and the frame that comes back names the key.  Several     *)
(* threads may feed; the codec calls back on a thread of its own, in an    *)
(* order of its own, and may swallow a packet or make two frames of it.    *)
(*                                                                         *)
(* A step is one critical section of pts_map_mtx_ with the codec call next *)
(* to it.                                                                  *)
(***************************************************************************)
EXTENDS Naturals

CONSTANTS
  Feeders,       (* threads in FeedVideoData                                *)
  Timestamps,    (* the pts values of packets, never 0                      *)
  KeyValues,     (* 2^32: the number of values of pts_key_                  *)
  None           (* no packet, no frame                                     *)

Keys    == 0..(KeyValues - 1)
Packets == [key : Keys, pts : Timestamps]

ASSUME KeyAssumption ==
  /\ KeyValues \in Nat \ {0}
  /\ Timestamps \subseteq Nat \ {0}
  /\ None \notin Packets
  /\ None \notin [packet : Packets, first : BOOLEAN, found : BOOLEAN, pts : Nat]

VARIABLES
  pts_key,       (* pts_key_                                                *)
  vpu_pts_map,   (* vpu_pts_map_                                            *)
  feeding,       (* the packet each feeder is about to feed, with its key   *)
  inside,        (* external: packets inside the codec                      *)
  split,         (* external: those of which one frame came out already     *)
  swallowed,     (* history: keys of packets that became no frame           *)
  frame          (* the last frame: of which packet, whether its first, and  *)
                 (* what GetVpuTimestamp found and CnFrame's pts is         *)

ptsVars == <<pts_key, vpu_pts_map, feeding, inside, split, swallowed, frame>>

Fed      == {feeding[u] : u \in Feeders} \ {None}
InFlight == inside \union Fed

Record(map, key, pts) == [k \in DOMAIN map \union {key} |-> IF k = key THEN pts ELSE map[k]]
Erase(map, key)       == [k \in DOMAIN map \ {key} |-> map[k]]

InitTimestamps ==
  /\ pts_key = 0
  /\ vpu_pts_map = [k \in {} |-> 0]
  /\ feeding = [u \in Feeders |-> None]
  /\ inside = {} /\ split = {} /\ swallowed = {}
  /\ frame = None

(* The codec holds on to no packet while KeyValues others follow it.       *)
KeyIsFree == pts_key \notin {p.key : p \in InFlight}

(* pts_key_++ of a uint32_t. *)
NextKey(key) == (key + 1) % KeyValues

(* Defect: the key is not moved on. *)
SetVpuTimestamp_SameKey(u, pts) ==
  /\ feeding[u] = None
  /\ feeding' = [feeding EXCEPT ![u] = [key |-> pts_key, pts |-> pts]]
  /\ vpu_pts_map' = Record(vpu_pts_map, pts_key, pts)
  /\ swallowed' = swallowed \ {pts_key}
  /\ UNCHANGED <<pts_key, inside, split, frame>>

(* FeedVideoData begins: the timestamp is recorded under the next key, over*)
(* whatever a packet 2^32 packets ago left there.                          *)
SetVpuTimestamp(u, pts) ==
  /\ feeding[u] = None
  /\ KeyIsFree
  /\ feeding' = [feeding EXCEPT ![u] = [key |-> pts_key, pts |-> pts]]
  /\ vpu_pts_map' = Record(vpu_pts_map, pts_key, pts)
  /\ pts_key' = NextKey(pts_key)
  /\ swallowed' = swallowed \ {pts_key}
  /\ UNCHANGED <<inside, split, frame>>

(* The codec accepts the packet. *)
FeedAccepted(u) ==
  /\ feeding[u] # None
  /\ inside' = inside \union {feeding[u]}
  /\ feeding' = [feeding EXCEPT ![u] = None]
  /\ UNCHANGED <<pts_key, vpu_pts_map, split, swallowed, frame>>

(* Defect: the record of a refused packet is kept. *)
FeedRefused_Keep(u) ==
  /\ feeding[u] # None
  /\ feeding' = [feeding EXCEPT ![u] = None]
  /\ UNCHANGED <<pts_key, vpu_pts_map, inside, split, swallowed, frame>>

(* The third timeout, or an error: the record is erased and FeedVideoData  *)
(* throws.                                                                 *)
FeedRefused(u) ==
  /\ feeding[u] # None
  /\ vpu_pts_map' = Erase(vpu_pts_map, feeding[u].key)
  /\ feeding' = [feeding EXCEPT ![u] = None]
  /\ UNCHANGED <<pts_key, inside, split, swallowed, frame>>

(* What GetVpuTimestamp finds, or what CnFrame's pts is initialized with:  *)
(* without an entry only a warning is logged.                              *)
FramePts(p) == IF p.key \in DOMAIN vpu_pts_map THEN vpu_pts_map[p.key] ELSE 0

(* ReceiveFrame: a frame of packet p, after which the codec is done with   *)
(* the packet or makes a second frame of it.                               *)
ReceiveFrame(p) ==
  /\ frame' = [packet |-> p, first |-> p \notin split,
               found |-> p.key \in DOMAIN vpu_pts_map, pts |-> FramePts(p)]
  /\ vpu_pts_map' = Erase(vpu_pts_map, p.key)
  /\ \/ inside' = inside \ {p} /\ split' = split \ {p}
     \/ p \notin split /\ split' = split \union {p} /\ UNCHANGED inside
  /\ UNCHANGED <<pts_key, feeding, swallowed>>

(* External: a corrupt packet, or one that only continues a frame.         *)
CodecSwallows(p) ==
  /\ p \notin split
  /\ inside' = inside \ {p}
  /\ swallowed' = swallowed \union {p.key}
  /\ UNCHANGED <<pts_key, vpu_pts_map, feeding, split, frame>>

NextTimestamps ==
  \/ \E u \in Feeders : \/ \E pts \in Timestamps : SetVpuTimestamp(u, pts)
                        \/ FeedAccepted(u) \/ FeedRefused(u)
  \/ \E p \in inside : ReceiveFrame(p) \/ CodecSwallows(p)

SpecTimestamps == InitTimestamps /\ [][NextTimestamps]_ptsVars

-----------------------------------------------------------------------------
(* The map, its key and the packets under way have their types. *)
TimestampsTypeOK ==
  /\ pts_key \in Keys
  /\ DOMAIN vpu_pts_map \subseteq Keys
  /\ \A k \in DOMAIN vpu_pts_map : vpu_pts_map[k] \in Timestamps
  /\ feeding \in [Feeders -> Packets \union {None}]
  /\ inside \subseteq Packets /\ split \subseteq inside
  /\ swallowed \subseteq Keys
  /\ frame \in [packet : Packets, first : BOOLEAN, found : BOOLEAN, pts : Nat] \union {None}

(* ReceiveFrame finds an entry for the first frame of every packet and for *)
(* no other frame, and the timestamp it finds is that of the packet the    *)
(* frame was decoded from: whatever the codec reordered, split or          *)
(* swallowed before and however often the key wrapped.                     *)
FrameHasItsPts ==
  frame # None => /\ frame.found = frame.first
                  /\ frame.found => frame.pts = frame.packet.pts

(* A frame without an entry has the timestamp that the codec reports for   *)
(* it, which is the key its packet was fed under: ReceiveFrame's warning   *)
(* says "use timestamp from vpu-decoder".                                  *)
ElseTheDecodersPts ==
  frame # None /\ ~frame.found => frame.pts = frame.packet.key

(* The map holds the timestamp of every packet whose first frame is still  *)
(* to come, and beyond those only what swallowed packets left: a refused   *)
(* feed leaves nothing, and a second frame finds nothing.                  *)
EntriesAccounted ==
  /\ DOMAIN vpu_pts_map = {p.key : p \in InFlight \ split} \union swallowed
  /\ \A p \in InFlight \ split : vpu_pts_map[p.key] = p.pts
=============================================================================
