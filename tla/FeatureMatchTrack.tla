-------------------------- MODULE FeatureMatchTrack --------------------------
(***************************************************************************)
(* edk::FeatureMatchTrack: objects followed from frame to frame, first by  *)
(* the distance of their features, in rounds from the most to the least    *)
(* recently seen (MatchCascade), then by the overlap of their boxes        *)
(* (MatchIou).                                                             *)
(*                                                                         *)
(* Boxes, scores, the Kalman filter and the costs are abstracted to what   *)
(* the life of a track depends on: which pairs are close enough, and       *)
(* whether two feature vectors have the same length.  One frame is several *)
(* steps so that an exception thrown between them leaves what it leaves.   *)
(***************************************************************************)
EXTENDS Integers, Sequences, FiniteSets

CONSTANTS
  Slots,         (* identities of the members of tracks_                    *)
  NoTrack,       (* an identity not in use                                  *)
  Detections,    (* indices into the vector of detections                   *)
  FeatureKinds,  (* what detections carry: see Dimension                    *)
  MaxAges,       (* values of max_age_ that the application sets            *)
  NInits,        (* values of n_init_                                       *)
  NNBudgets,     (* values of nn_budget_                                    *)
  IdValues,      (* 2^32: the number of values of an int                    *)
  MaxIds         (* bound: tracks confirmed in one behaviour                *)

ASSUME KindAssumption == FeatureKinds \subseteq {"vector", "zeros", "none"}

ASSUME ParamAssumption ==
  /\ MaxAges \subseteq Nat /\ NInits \subseteq Nat /\ NNBudgets \subseteq Nat
  /\ MaxIds \in Nat /\ IdValues \in Nat \ {0}
  /\ MaxAges # {} /\ NInits # {} /\ NNBudgets # {}

VARIABLES
  pc,            (* where UpdateFrame is, "idle" between frames             *)
  tracks,        (* tracks_                                                 *)
  next_id,       (* next_id_, whose own wrap at 2^64 shows in no id         *)
  max_age, n_init, nn_budget,
  dets,          (* the frame: the detections and the kind of each          *)
  near,          (* pairs within max_cosine_distance_ and the gate          *)
  age,           (* the round of MatchCascade                               *)
  remaining,     (* detections not matched so far                           *)
  matches,       (* res_feature_.matches, then those of res_iou_ too        *)
  unmatched,     (* res_feature_.unmatched_tracks, then res_iou_'s          *)
  given,         (* history: the ids given so far, in their order           *)
  rank,          (* history: which of them each track was given, or 0       *)
  streak,        (* history: completed frames in a row that matched a track *)
  throws         (* history: consecutive frames that ended in an exception  *)

params == <<max_age, n_init, nn_budget>>
frame  == <<dets, near, age, remaining, matches, unmatched>>
history == <<given, rank, streak, throws>>
vars   == <<pc, tracks, next_id, params, frame, history>>

(* Feature vectors are compared by their length: "zeros" has the length of *)
(* "vector", "none" is empty.                                              *)
Dimension(kind) == IF kind = "none" THEN "empty" ELSE "full"

(* A member of tracks_.  The count of matches stops at 1 + n_init, past    *)
(* which the code never reads it.                                          *)
Object(state, id, count, unseen, has, samples) ==
  [state |-> state, track_id |-> id, age |-> count,
   time_since_last_update |-> unseen, has_feature |-> has,
   features |-> samples]

Objects ==
  [state : {"TENTATIVE", "CONFIRMED", "DELETED"},
   track_id : Int, age : Nat, time_since_last_update : Nat,
   has_feature : BOOLEAN, features : Seq({"full", "empty"})]

ASSUME TrackAssumption == IsFiniteSet(Slots) /\ NoTrack \notin Objects

(* The uint64_t next_id_ as an int: its lower half of bits, with a sign.   *)
ToInt(n) ==
  LET low == n % IdValues
  IN IF low < IdValues \div 2 THEN low ELSE low - IdValues

NewTrack(kind) ==
  Object("TENTATIVE", -1, 1, 0, kind = "vector",
         IF kind = "vector" THEN <<Dimension(kind)>> ELSE <<>>)

Alive == {k \in Slots : tracks[k] # NoTrack}

(* confirmed_track_; every other track is in unconfirmed_track_.           *)
Confirmed(ts, on) ==
  {k \in on : ts[k].state = "CONFIRMED" /\ ts[k].has_feature}

Init ==
  /\ pc = "idle"
  /\ tracks = [k \in Slots |-> NoTrack]
  /\ next_id = 0
  /\ max_age \in MaxAges /\ n_init \in NInits /\ nn_budget \in NNBudgets
  /\ dets = <<>> /\ near = {} /\ age = 0
  /\ remaining = {} /\ matches = {} /\ unmatched = {}
  /\ given = <<>> /\ rank = [k \in Slots |-> 0]
  /\ streak = [k \in Slots |-> 0] /\ throws = 0

-----------------------------------------------------------------------------
(* The application changes the parameters between two frames.              *)
SetParams ==
  /\ pc = "idle"
  /\ max_age' \in MaxAges /\ n_init' \in NInits /\ nn_budget' \in NNBudgets
  /\ UNCHANGED <<pc, tracks, next_id, frame, history>>

(* A frame: some of the indices hold a detection, each with a feature of   *)
(* some kind.                                                              *)
Frames == UNION {[D -> FeatureKinds] : D \in SUBSET Detections}

(* Slots for the tracks that the detections in D start.                    *)
Places(free, D) ==
  {at \in [D -> free] : \A c, d \in D : at[c] = at[d] => c = d}

WithNewTracks(ts, f, at, D) ==
  [k \in Slots |-> IF \E d \in D : at[d] = k
                   THEN NewTrack(f[CHOOSE d \in D : at[d] = k])
                   ELSE ts[k]]

FrameOver ==
  /\ pc' = "idle"
  /\ dets' = <<>> /\ near' = {} /\ age' = 0
  /\ remaining' = {} /\ matches' = {} /\ unmatched' = {}

(* Defect: the ids start again when every track was lost. *)
FirstFrame_NewIds ==
  /\ pc = "idle" /\ Alive = {}
  /\ \E f \in Frames : \E at \in Places(Slots, DOMAIN f) :
       tracks' = WithNewTracks(tracks, f, at, DOMAIN f)
  /\ throws' = 0
  /\ next_id' = 0
  /\ FrameOver
  /\ UNCHANGED <<params, given, rank, streak>>

(* No track is known: each detection starts one.                           *)
FirstFrame ==
  /\ pc = "idle" /\ Alive = {}
  /\ \E f \in Frames : \E at \in Places(Slots, DOMAIN f) :
       tracks' = WithNewTracks(tracks, f, at, DOMAIN f)
  /\ throws' = 0
  /\ FrameOver
  /\ UNCHANGED <<next_id, params, given, rank, streak>>

(* Every track is one frame older; the cascade has something to do only    *)
(* with confirmed tracks and detections.                                   *)
BeginFrame ==
  /\ pc = "idle" /\ Alive # {}
  /\ next_id + Cardinality({k \in Alive : tracks[k].state = "TENTATIVE"}) <= MaxIds
  /\ tracks' = [k \in Slots |->
       IF k \in Alive
       THEN [tracks[k] EXCEPT !.time_since_last_update = @ + 1]
       ELSE NoTrack]
  /\ \E f \in Frames :
       /\ Cardinality(DOMAIN f) <= Cardinality(Slots \ Alive)
       /\ dets' = f
       /\ remaining' = DOMAIN f
       /\ near' \in SUBSET ((DOMAIN f) \X Confirmed(tracks, Alive))
       /\ pc' = IF Confirmed(tracks, Alive) = {} \/ DOMAIN f = {}
                THEN "cascaded" ELSE "cascade"
  /\ age' = 0 /\ matches' = {} /\ unmatched' = {}
  /\ UNCHANGED <<next_id, params, history>>

-----------------------------------------------------------------------------
(* Defect: the rounds start with the longest unseen. *)
Group_OldestFirst ==
  {k \in Confirmed(tracks, Alive) :
     tracks[k].time_since_last_update = max_age - age}

(* The tracks of a round, and whether their features can be compared with  *)
(* those of the remaining detections.                                      *)
Group ==
  {k \in Confirmed(tracks, Alive) : tracks[k].time_since_last_update - 1 = age}

Comparable(k, d) ==
  \A i \in DOMAIN tracks[k].features :
    tracks[k].features[i] = Dimension(dets[d])

OneToOne(M) == \A p, q \in M : p[1] = q[1] <=> p[2] = q[2]
MatchedDets(M) == {p[1] : p \in M}
MatchedTracks(M) == {p[2] : p \in M}

(* What HungarianMatch leaves after the distant pairs are dropped.  Those  *)
(* cost max_cosine_distance_ + 1e-5, the same for all, so a cheapest       *)
(* assignment leaves no close pair with both ends free.                    *)
CascadeMatches(D, T) ==
  {M \in SUBSET (near \cap (D \X T)) :
     /\ OneToOne(M)
     /\ \A p \in near \cap (D \X T) :
          p[1] \in MatchedDets(M) \/ p[2] \in MatchedTracks(M)}

(* Defect: a matched detection stays for the next round. *)
CascadeRound_Keep ==
  /\ pc = "cascade" /\ age < max_age /\ remaining # {}
  /\ \A k \in Group, d \in remaining : Comparable(k, d)
  /\ \E M \in CascadeMatches(remaining, Group) :
       /\ matches' = matches \union M
       /\ unmatched' = unmatched \union (Group \ MatchedTracks(M))
  /\ age' = age + 1
  /\ UNCHANGED <<pc, tracks, next_id, params, dets, near, remaining, history>>

CascadeRound ==
  /\ pc = "cascade" /\ age < max_age /\ remaining # {}
  /\ \A k \in Group, d \in remaining : Comparable(k, d)
  /\ \E M \in CascadeMatches(remaining, Group) :
       /\ matches' = matches \union M
       /\ unmatched' = unmatched \union (Group \ MatchedTracks(M))
       /\ remaining' = remaining \ MatchedDets(M)
  /\ age' = age + 1
  /\ UNCHANGED <<pc, tracks, next_id, params, dets, near, history>>

(* Defect: the exception takes the ageing back. *)
CascadeThrows_Undo ==
  /\ pc = "cascade" /\ age < max_age /\ remaining # {}
  /\ \E k \in Group, d \in remaining : ~Comparable(k, d)
  /\ throws' = throws + 1
  /\ tracks' = [k \in Slots |->
       IF k \in Alive
       THEN [tracks[k] EXCEPT !.time_since_last_update = @ - 1]
       ELSE NoTrack]
  /\ FrameOver
  /\ UNCHANGED <<next_id, params, given, rank, streak>>

(* InnerProduct refuses vectors of different length: the exception leaves  *)
(* UpdateFrame with every track one frame older and nothing else done.     *)
CascadeThrows ==
  /\ pc = "cascade" /\ age < max_age /\ remaining # {}
  /\ \E k \in Group, d \in remaining : ~Comparable(k, d)
  /\ throws' = throws + 1
  /\ FrameOver
  /\ UNCHANGED <<tracks, next_id, params, given, rank, streak>>

CascadeEnds ==
  /\ pc = "cascade" /\ (age = max_age \/ remaining = {})
  /\ pc' = "cascaded"
  /\ UNCHANGED <<tracks, next_id, params, frame, history>>

-----------------------------------------------------------------------------
(* Defect: a tentative track survives a miss. *)
MarkMiss_OnlyOld(t) ==
  IF t.time_since_last_update > max_age
  THEN [t EXCEPT !.state = "DELETED"] ELSE t

MarkMiss(t) ==
  IF t.state = "TENTATIVE" \/ t.time_since_last_update > max_age
  THEN [t EXCEPT !.state = "DELETED"] ELSE t

(* Unconfirmed and featureless tracks, and those missed for the first      *)
(* time, are matched by overlap; the costs are not clamped, so any pairing *)
(* may be left once the distant ones are dropped.                          *)
FirstMissed == {k \in unmatched : tracks[k].time_since_last_update = 1}

MatchIou ==
  /\ pc = "cascaded"
  /\ LET candidates == (Alive \ Confirmed(tracks, Alive)) \union FirstMissed
     IN \E M \in SUBSET (remaining \X candidates) :
          /\ OneToOne(M)
          /\ matches' = matches \union M
          /\ remaining' = remaining \ MatchedDets(M)
          /\ unmatched' = candidates \ MatchedTracks(M)
  /\ tracks' = [k \in Slots |-> IF k \in unmatched \ FirstMissed
                                THEN MarkMiss(tracks[k]) ELSE tracks[k]]
  /\ pc' = "update"
  /\ UNCHANGED <<next_id, params, dets, near, age, history>>

(* One sample more, and one less when that is over the budget.             *)
Sampled(t, d) ==
  IF ~t.has_feature THEN t.features
  ELSE LET longer == Append(t.features, Dimension(dets[d]))
       IN IF Len(longer) > nn_budget THEN Tail(longer) ELSE longer

Promoted(t) == t.state = "TENTATIVE" /\ t.age + 1 > n_init

Updated(t, d, id) ==
  [t EXCEPT !.features = Sampled(t, d),
            !.time_since_last_update = 0,
            !.age = IF t.age > n_init THEN @ ELSE @ + 1,
            !.state = IF Promoted(t) THEN "CONFIRMED" ELSE @,
            !.track_id = IF Promoted(t) THEN id ELSE @]

(* Values of next_id_ for the tracks confirmed now, in the order of the    *)
(* matches.                                                                *)
NewIds(P) ==
  {ids \in [P -> next_id .. next_id + Cardinality(P) - 1] :
     \A j, k \in P : ids[j] = ids[k] => j = k}

Dead(t) == t.state = "DELETED" \/ t.time_since_last_update > max_age

(* The matched tracks are updated, the detections left start new ones, the *)
(* tracks left are missed, and the dead are erased.                        *)
Update ==
  /\ pc = "update"
  /\ LET matched == MatchedTracks(matches)
         DetOf(k) == CHOOSE d \in DOMAIN dets : <<d, k>> \in matches
         promoted == {k \in matched : Promoted(tracks[k])}
     IN \E ids \in NewIds(promoted),
           at \in Places(Slots \ Alive, remaining) :
          LET after == [k \in Slots |->
                IF k \in matched
                THEN Updated(tracks[k], DetOf(k),
                             IF k \in promoted THEN ToInt(ids[k]) ELSE -1)
                ELSE IF k \in unmatched THEN MarkMiss(tracks[k])
                ELSE tracks[k]]
          IN /\ tracks' = [k \in Slots |->
                  IF k \in Alive /\ Dead(after[k]) THEN NoTrack
                  ELSE WithNewTracks(after, dets, at, remaining)[k]]
             /\ next_id' = next_id + Cardinality(promoted)
             /\ given' = given \o [i \in 1..Cardinality(promoted) |-> ToInt(next_id + i - 1)]
             /\ rank' = [k \in Slots |->
                  IF k \in promoted THEN Len(given) + 1 + (ids[k] - next_id)
                  ELSE IF tracks'[k] = NoTrack THEN 0 ELSE rank[k]]
             /\ streak' = [k \in Slots |->
                  IF k \in matched /\ tracks[k].state = "TENTATIVE"
                  THEN streak[k] + 1 ELSE 0]
  /\ throws' = 0
  /\ FrameOver
  /\ UNCHANGED params

Next ==
  \/ SetParams \/ FirstFrame \/ BeginFrame
  \/ CascadeRound \/ CascadeThrows \/ CascadeEnds
  \/ MatchIou \/ Update

Spec == Init /\ [][Next]_vars

-----------------------------------------------------------------------------
(* The state of the tracker.                                               *)
TypeOK ==
  /\ pc \in {"idle", "cascade", "cascaded", "update"}
  /\ tracks \in [Slots -> Objects \union {NoTrack}]
  /\ next_id \in Nat
  /\ max_age \in MaxAges /\ n_init \in NInits /\ nn_budget \in NNBudgets
  /\ remaining \in SUBSET Detections
  /\ matches \in SUBSET (Detections \X Slots)
  /\ unmatched \in SUBSET Slots
  /\ given \in Seq(Int) /\ rank \in [Slots -> Nat]
  /\ streak \in [Slots -> Nat]
  /\ age \in Nat /\ throws \in Nat

(* A detection goes to one track and a track to one detection; what was    *)
(* matched is neither left over nor missed, and no dead track is matched:  *)
(* the cascade, the overlap and the start of new tracks together account   *)
(* for each detection once (lines 318-380).                                *)
EachOnce ==
  pc = "update" =>
    /\ OneToOne(matches)
    /\ remaining \union MatchedDets(matches) = DOMAIN dets
    /\ remaining \cap MatchedDets(matches) = {}
    /\ unmatched \cap MatchedTracks(matches) = {}
    /\ \A k \in MatchedTracks(matches) :
         k \in Alive /\ tracks[k].state # "DELETED"

(* "Cascade": a track takes a detection from another one seen longer ago   *)
(* only.  If a track that was seen more recently is close to a detection   *)
(* which another one got, it got one itself (lines 156-207).               *)
RecentFirst ==
  pc = "cascaded" =>
    \A p, q \in near :
      /\ p \in matches /\ p[1] = q[1]
      /\ tracks[q[2]].time_since_last_update
           < tracks[p[2]].time_since_last_update
      => q[2] \in MatchedTracks(matches)

(* An id names one track among any 2^32 that are confirmed one after       *)
(* another, dead ones included: the int in which line 370 puts next_id_    *)
(* brings an id back after 2^32 others and no sooner.  A confirmed track   *)
(* has the one id that was given for it, a tentative one has none.         *)
IdNamesOneTrack ==
  /\ \A i, j \in DOMAIN given : i < j /\ given[i] = given[j] => j - i >= IdValues
  /\ \A k \in Alive : tracks[k].state = "CONFIRMED" =>
       /\ rank[k] \in DOMAIN given /\ tracks[k].track_id = given[rank[k]]
       /\ \A j \in Alive : tracks[j].state = "CONFIRMED" /\ rank[j] = rank[k] => j = k
  /\ \A k \in Alive : tracks[k].state = "TENTATIVE" => tracks[k].track_id = -1

(* "After matched [n_init] times in a row, object is turned from TENTATIVE *)
(* to CONFIRMED" (easy_track.h:154), counting the frames that ended        *)
(* without an exception.                                                   *)
ConfirmedInARow ==
  [][\A k \in Slots :
       /\ tracks[k] # NoTrack /\ tracks'[k] # NoTrack
       /\ tracks[k].state = "TENTATIVE" /\ tracks'[k].state = "CONFIRMED"
       => streak'[k] >= n_init]_vars

(* A frame that ends in an exception still makes every track older, so a   *)
(* track whose features cannot be compared leaves the rounds after         *)
(* max_age_ frames: the outage cannot last longer (lines 156, 313).        *)
BoundedOutage == \E m \in MaxAges : throws <= m

=============================================================================
