------------------------ MODULE FeatureMatchTrackProofs ------------------------
(***************************************************************************)
(* Proofs about FeatureMatchTrack for any number of tracks and detections, *)
(* any parameters and any matching.                                        *)
(***************************************************************************)
EXTENDS FeatureMatchTrack, FiniteSetTheorems, SequenceTheorems, TLAPS

States == {"TENTATIVE", "CONFIRMED", "DELETED"}

(* What the other invariants rest on: the shape of tracks, and that the    *)
(* lists of a frame name tracks that exist.                                *)
Shape ==
  /\ tracks \in [Slots -> Objects \union {NoTrack}]
  /\ pc \in {"idle", "cascade", "cascaded", "update"}
  /\ max_age \in Nat /\ n_init \in Nat /\ nn_budget \in Nat
  /\ max_age \in MaxAges /\ n_init \in NInits /\ nn_budget \in NNBudgets
  /\ age \in Nat /\ next_id \in Nat
  /\ MatchedTracks(matches) \subseteq Alive
  /\ unmatched \subseteq Alive

(* An alive slot has a track of the type, and every other slot has none.   *)
LEMMA AliveTrack ==
  ASSUME Shape, NEW k \in Slots
  PROVE  /\ k \in Alive => tracks[k] \in Objects
         /\ k \notin Alive => tracks[k] = NoTrack
  BY DEF Shape, Alive

(* A track one frame older, missed, or updated is a track again.           *)
LEMMA Older ==
  ASSUME NEW t \in Objects
  PROVE  LET u == [t EXCEPT !.time_since_last_update = @ + 1]
         IN /\ u \in Objects
            /\ u.time_since_last_update = t.time_since_last_update + 1
            /\ u.state = t.state /\ u.track_id = t.track_id
            /\ u.age = t.age
            /\ u.has_feature = t.has_feature
  BY DEF Objects

(* A missed track keeps its id, its age and whether it has a feature.      *)
LEMMA Missed ==
  ASSUME NEW t \in Objects
  PROVE  /\ MarkMiss(t) \in Objects
         /\ MarkMiss(t).state \in {t.state, "DELETED"}
         /\ MarkMiss(t).track_id = t.track_id /\ MarkMiss(t).age = t.age
         /\ MarkMiss(t).time_since_last_update = t.time_since_last_update
         /\ MarkMiss(t).has_feature = t.has_feature
  BY DEF Objects, MarkMiss

(* The features kept after an update are features.                         *)
LEMMA SampledType ==
  ASSUME NEW t \in Objects, NEW d, nn_budget \in Nat
  PROVE  Sampled(t, d) \in Seq({"full", "empty"})
<1> DEFINE S == {"full", "empty"}
           longer == Append(t.features, Dimension(dets[d]))
<1>1. t.features \in Seq(S) /\ Dimension(dets[d]) \in S
  BY DEF Objects, Dimension
<1>2. longer \in Seq(S) /\ longer # <<>>
  BY <1>1, AppendProperties
<1>3. Tail(longer) \in Seq(S)
  BY <1>2, HeadTailProperties
<1> QED BY <1>1, <1>2, <1>3 DEF Sampled

(* An update that confirms the track gives it the id; any other keeps id   *)
(* and state.  It counts one match, as long as that matters.               *)
LEMMA UpdatedType ==
  ASSUME NEW t \in Objects, NEW d, NEW id \in Int,
         nn_budget \in Nat, n_init \in Nat
  PROVE  /\ Updated(t, d, id) \in Objects
         /\ Promoted(t) => /\ Updated(t, d, id).state = "CONFIRMED"
                           /\ Updated(t, d, id).track_id = id
         /\ ~Promoted(t) => /\ Updated(t, d, id).state = t.state
                            /\ Updated(t, d, id).track_id = t.track_id
         /\ Updated(t, d, id).time_since_last_update = 0
         /\ Updated(t, d, id).age \in {t.age, t.age + 1}
         /\ Updated(t, d, id).has_feature = t.has_feature
<1> DEFINE s == Sampled(t, d)
           n == IF t.age > n_init THEN t.age ELSE t.age + 1
           st == IF Promoted(t) THEN "CONFIRMED" ELSE t.state
           i == IF Promoted(t) THEN id ELSE t.track_id
<1>1. s \in Seq({"full", "empty"})
  BY SampledType
<1>2. n \in Nat /\ n \in {t.age, t.age + 1} /\ i \in Int /\ st \in {"TENTATIVE", "CONFIRMED", "DELETED"}
  BY DEF Objects
<1>3. t.has_feature \in BOOLEAN
  BY DEF Objects
<1>4. Updated(t, d, id) =
        [t EXCEPT !.features = s, !.time_since_last_update = 0, !.age = n,
                  !.state = st, !.track_id = i]
  BY DEF Updated, Objects
<1>5. /\ Promoted(t) => st = "CONFIRMED" /\ i = id
      /\ ~Promoted(t) => st = t.state /\ i = t.track_id
  OBVIOUS
<1> HIDE DEF s, n, st, i
<1>6. Updated(t, d, id) =
        [state |-> st, track_id |-> i, age |-> n,
         time_since_last_update |-> 0, has_feature |-> t.has_feature,
         features |-> s]
  BY <1>4 DEF Objects
<1>7. Updated(t, d, id) \in Objects
  BY <1>1, <1>2, <1>3, <1>6 DEF Objects
<1> QED BY <1>2, <1>5, <1>6, <1>7

(* A detection starts a tentative track without an id.                     *)
LEMMA NewTrackType ==
  ASSUME NEW kind
  PROVE  /\ NewTrack(kind) \in Objects
         /\ NewTrack(kind).state = "TENTATIVE" /\ NewTrack(kind).track_id = -1
         /\ NewTrack(kind).time_since_last_update = 0 /\ NewTrack(kind).age = 1
<1> DEFINE s == IF kind = "vector" THEN <<Dimension(kind)>> ELSE <<>>
<1>1. s \in Seq({"full", "empty"})
  BY DEF Dimension
<1> HIDE DEF s
<1>2. NewTrack(kind) =
        [state |-> "TENTATIVE", track_id |-> -1, age |-> 1,
         time_since_last_update |-> 0, has_feature |-> (kind = "vector"),
         features |-> s]
  BY DEF NewTrack, Object, s
<1>3. (kind = "vector") \in BOOLEAN
  OBVIOUS
<1> QED BY <1>1, <1>2, <1>3 DEF Objects

(* The conversion gives an int. *)
LEMMA ToIntType == ASSUME NEW n \in Nat PROVE ToInt(n) \in Int
<1>1. n % IdValues \in 0..(IdValues - 1)
  BY ParamAssumption
<1> QED BY <1>1, ParamAssumption DEF ToInt

(* Two numbers with one int are a multiple of its values apart.            *)
LEMMA ToIntRepeats ==
  ASSUME NEW a \in Nat, NEW b \in Nat, a < b, ToInt(a) = ToInt(b)
  PROVE  b - a >= IdValues
<1> DEFINE la == a % IdValues
           lb == b % IdValues
           qa == a \div IdValues
           qb == b \div IdValues
<1>1. /\ la \in 0..(IdValues - 1) /\ lb \in 0..(IdValues - 1)
      /\ qa \in Int /\ qb \in Int
  BY ParamAssumption
<1>2. la = lb
  <2> DEFINE half == IdValues \div 2
  <2>1. /\ ToInt(a) = (IF la < half THEN la ELSE la - IdValues)
        /\ ToInt(b) = (IF lb < half THEN lb ELSE lb - IdValues)
    BY DEF ToInt
  <2>2. half \in Int /\ IdValues \in Nat
    BY ParamAssumption
  <2>3. (IF la < half THEN la ELSE la - IdValues) = (IF lb < half THEN lb ELSE lb - IdValues)
    BY <2>1
  <2> HIDE DEF la, lb, half
  <2>4. CASE la < half /\ lb < half
    BY <2>3, <2>4
  <2>5. CASE ~(la < half) /\ ~(lb < half)
    BY <1>1, <2>2, <2>3, <2>5
  <2>6. CASE (la < half) # (lb < half)
    BY <1>1, <2>2, <2>3, <2>6
  <2> QED BY <2>4, <2>5, <2>6
<1>3. a = IdValues * qa + la /\ b = IdValues * qb + lb
  BY ParamAssumption
<1> HIDE DEF la, lb, qa, qb
<1>4. b - a = IdValues * (qb - qa)
  BY ParamAssumption, <1>1, <1>2, <1>3
<1>5. qb - qa >= 1
  <2>1. \A d \in Int : d <= 0 => IdValues * d <= 0
    BY ParamAssumption
  <2>2. qb - qa \in Int
    BY <1>1
  <2> QED BY <1>1, <1>4, <2>1, <2>2
<1>6. \A d \in Int : d >= 1 => IdValues * d >= IdValues
  BY ParamAssumption
<1> QED BY <1>1, <1>4, <1>5, <1>6

-----------------------------------------------------------------------------
(* Where a member of tracks_ comes from when a frame is over: it is new,   *)
(* it was confirmed now, or it keeps its state and its id.                 *)
NewOrKept(k, P, ids) ==
  \/ tracks'[k].state = "TENTATIVE" /\ tracks'[k].track_id = -1
  \/ /\ k \in P /\ tracks'[k].state = "CONFIRMED"
     /\ tracks'[k].track_id = ToInt(ids[k])
  \/ /\ k \in Alive \ P
     /\ tracks'[k].state = tracks[k].state
     /\ tracks'[k].track_id = tracks[k].track_id

NowConfirmed == {k \in MatchedTracks(matches) : Promoted(tracks[k])}

(* Numbers for the tracks in P are new numbers.                            *)
LEMMA NewIdsAreNew ==
  ASSUME Shape, NEW P \in SUBSET Slots, NEW ids \in NewIds(P)
  PROVE  /\ Cardinality(P) \in Nat
         /\ \A k \in P : /\ ids[k] \in Nat
                         /\ next_id <= ids[k]
                         /\ ids[k] < next_id + Cardinality(P)
         /\ \A j, k \in P : ids[j] = ids[k] => j = k
<1>1. IsFiniteSet(P)
  BY FS_Subset, TrackAssumption
<1>2. Cardinality(P) \in Nat
  BY <1>1, FS_CardinalityType
<1>3. \A k \in P : ids[k] \in next_id .. next_id + Cardinality(P) - 1
  BY DEF NewIds
<1> QED BY <1>2, <1>3 DEF NewIds, Shape

(* The first frame makes new tracks of unused slots.                       *)
LEMMA FirstFrameTracks ==
  ASSUME Shape, FirstFrame
  PROVE  /\ tracks' \in [Slots -> Objects \union {NoTrack}]
         /\ \A k \in Slots : tracks'[k] # NoTrack =>
              /\ tracks'[k].state = "TENTATIVE" /\ tracks'[k].track_id = -1
              /\ tracks'[k].age = 1
<1>1. PICK f \in Frames : \E at \in Places(Slots, DOMAIN f) :
        tracks' = WithNewTracks(tracks, f, at, DOMAIN f)
  BY DEF FirstFrame
<1>2. PICK at \in Places(Slots, DOMAIN f) :
        tracks' = WithNewTracks(tracks, f, at, DOMAIN f)
  BY <1>1
<1>3. ASSUME NEW k \in Slots
      PROVE  \/ tracks'[k] = NoTrack
             \/ \E kind : tracks'[k] = NewTrack(kind)
  BY <1>2, AliveTrack DEF WithNewTracks, FirstFrame
<1>4. ASSUME NEW k \in Slots
      PROVE  /\ tracks'[k] \in Objects \union {NoTrack}
             /\ tracks'[k] # NoTrack =>
                  /\ tracks'[k].state = "TENTATIVE" /\ tracks'[k].track_id = -1
                  /\ tracks'[k].age = 1
  BY <1>3, NewTrackType
<1> QED BY <1>2, <1>4 DEF WithNewTracks

(* A new frame makes every track one frame older and no other change.      *)
LEMMA BeginFrameTracks ==
  ASSUME Shape, BeginFrame
  PROVE  /\ tracks' \in [Slots -> Objects \union {NoTrack}]
         /\ \A k \in Slots \ Alive : tracks'[k] = NoTrack
         /\ \A k \in Alive :
              /\ tracks'[k] \in Objects
              /\ tracks'[k].time_since_last_update
                   = tracks[k].time_since_last_update + 1
              /\ tracks'[k].state = tracks[k].state
              /\ tracks'[k].track_id = tracks[k].track_id
              /\ tracks'[k].age = tracks[k].age
              /\ tracks'[k].has_feature = tracks[k].has_feature
<1>1. tracks' = [k \in Slots |->
        IF k \in Alive
        THEN [tracks[k] EXCEPT !.time_since_last_update = @ + 1]
        ELSE NoTrack]
  BY DEF BeginFrame
<1>2. ASSUME NEW k \in Alive
      PROVE  /\ tracks'[k] \in Objects
             /\ tracks'[k].time_since_last_update
                  = tracks[k].time_since_last_update + 1
             /\ tracks'[k].state = tracks[k].state
             /\ tracks'[k].track_id = tracks[k].track_id
             /\ tracks'[k].age = tracks[k].age
             /\ tracks'[k].has_feature = tracks[k].has_feature
  <2>1. k \in Slots /\ tracks[k] \in Objects
    BY AliveTrack DEF Alive
  <2>2. tracks'[k] = [tracks[k] EXCEPT !.time_since_last_update = @ + 1]
    BY <1>1, <2>1
  <2> QED BY <2>1, <2>2, Older
<1>3. \A k \in Slots \ Alive : tracks'[k] = NoTrack
  BY <1>1
<1>4. \A k \in Slots : tracks'[k] \in Objects \union {NoTrack}
  BY <1>2, <1>3
<1> QED BY <1>1, <1>2, <1>3, <1>4

(* MatchIou may only delete tracks that the cascade left unmatched.        *)
LEMMA MatchIouTracks ==
  ASSUME Shape, MatchIou
  PROVE  /\ tracks' \in [Slots -> Objects \union {NoTrack}]
         /\ \A k \in Slots \ Alive : tracks'[k] = NoTrack
         /\ \A k \in Alive :
              /\ tracks'[k] \in Objects
              /\ tracks'[k].time_since_last_update
                   = tracks[k].time_since_last_update
              /\ tracks'[k].state \in {tracks[k].state, "DELETED"}
              /\ k \notin unmatched \ FirstMissed
                   => tracks'[k].state = tracks[k].state
              /\ tracks'[k].track_id = tracks[k].track_id
              /\ tracks'[k].age = tracks[k].age
              /\ tracks'[k].has_feature = tracks[k].has_feature
<1>1. tracks' = [k \in Slots |-> IF k \in unmatched \ FirstMissed
                                 THEN MarkMiss(tracks[k]) ELSE tracks[k]]
  BY DEF MatchIou
<1>2. ASSUME NEW k \in Alive
      PROVE  /\ tracks'[k] \in Objects
             /\ tracks'[k].time_since_last_update
                  = tracks[k].time_since_last_update
             /\ tracks'[k].state \in {tracks[k].state, "DELETED"}
             /\ k \notin unmatched \ FirstMissed
                  => tracks'[k].state = tracks[k].state
             /\ tracks'[k].track_id = tracks[k].track_id
             /\ tracks'[k].age = tracks[k].age
             /\ tracks'[k].has_feature = tracks[k].has_feature
  <2>1. k \in Slots /\ tracks[k] \in Objects
    BY AliveTrack DEF Alive
  <2>2. CASE k \in unmatched \ FirstMissed
    BY <1>1, <2>1, <2>2, Missed
  <2>3. CASE k \notin unmatched \ FirstMissed
    BY <1>1, <2>1, <2>3
  <2> QED BY <2>2, <2>3
<1>3. \A k \in Slots \ Alive : tracks'[k] = NoTrack
  BY <1>1, AliveTrack DEF Shape
<1>4. \A k \in Slots : tracks'[k] \in Objects \union {NoTrack}
  BY <1>2, <1>3
<1> QED BY <1>1, <1>2, <1>3, <1>4

(* What the end of a frame does to tracks_, whichever matches it had.      *)
LEMMA UpdateTracks ==
  ASSUME Shape, Update
  PROVE  \E ids \in NewIds(NowConfirmed) :
           /\ next_id' = next_id + Cardinality(NowConfirmed)
           /\ given' = given \o [i \in 1..Cardinality(NowConfirmed) |-> ToInt(next_id + i - 1)]
           /\ rank' = [k \in Slots |->
                IF k \in NowConfirmed THEN Len(given) + 1 + (ids[k] - next_id)
                ELSE IF tracks'[k] = NoTrack THEN 0 ELSE rank[k]]
           /\ tracks' \in [Slots -> Objects \union {NoTrack}]
           /\ \A k \in Slots : tracks'[k] # NoTrack =>
                /\ NewOrKept(k, NowConfirmed, ids)
                /\ tracks'[k].state # "DELETED"
<1> DEFINE P == NowConfirmed
           DetOf(k) == CHOOSE d \in DOMAIN dets : <<d, k>> \in matches
           After(ids) == [k \in Slots |->
             IF k \in MatchedTracks(matches)
             THEN Updated(tracks[k], DetOf(k), IF k \in P THEN ToInt(ids[k]) ELSE -1)
             ELSE IF k \in unmatched THEN MarkMiss(tracks[k])
             ELSE tracks[k]]
<1>1. P \in SUBSET Slots /\ P \subseteq MatchedTracks(matches)
  BY DEF NowConfirmed, Shape, Alive
<1>2. PICK ids \in NewIds(P), at \in Places(Slots \ Alive, remaining) :
        /\ tracks' = [k \in Slots |->
             IF k \in Alive /\ Dead(After(ids)[k]) THEN NoTrack
             ELSE WithNewTracks(After(ids), dets, at, remaining)[k]]
        /\ next_id' = next_id + Cardinality(P)
        /\ given' = given \o [i \in 1..Cardinality(P) |-> ToInt(next_id + i - 1)]
        /\ rank' = [k \in Slots |->
             IF k \in P THEN Len(given) + 1 + (ids[k] - next_id)
             ELSE IF tracks'[k] = NoTrack THEN 0 ELSE rank[k]]
  BY DEF Update, NowConfirmed
<1> DEFINE after == After(ids)
<1>3. ASSUME NEW k \in Slots, k \in Alive
      PROVE  /\ after[k] \in Objects
             /\ IF k \in P THEN /\ after[k].state = "CONFIRMED"
                                /\ after[k].track_id = ToInt(ids[k])
                ELSE /\ after[k].state \in {tracks[k].state, "DELETED"}
                     /\ after[k].track_id = tracks[k].track_id
  <2>1. tracks[k] \in Objects
    BY <1>3, AliveTrack
  <2>2. nn_budget \in Nat /\ n_init \in Nat
    BY DEF Shape
  <2>3. CASE k \in P
    <3>1. after[k] = Updated(tracks[k], DetOf(k), ToInt(ids[k]))
      BY <1>1, <2>3
    <3>2. Promoted(tracks[k])
      BY <2>3 DEF NowConfirmed
    <3>3. ToInt(ids[k]) \in Int
      BY <1>1, <2>3, NewIdsAreNew, ToIntType
    <3> HIDE DEF DetOf, after, P
    <3> QED BY <2>1, <2>2, <2>3, <3>1, <3>2, <3>3, UpdatedType
  <2>4. CASE k \in MatchedTracks(matches) \ P
    <3>1. after[k] = Updated(tracks[k], DetOf(k), -1)
      BY <2>4
    <3>2. ~Promoted(tracks[k])
      BY <2>4 DEF NowConfirmed
    <3> HIDE DEF DetOf, after, P
    <3> QED BY <2>1, <2>2, <2>4, <3>1, <3>2, UpdatedType
  <2>5. CASE k \notin MatchedTracks(matches)
    <3>1. after[k] \in {MarkMiss(tracks[k]), tracks[k]}
      BY <2>5
    <3>2. k \notin P
      BY <1>1, <2>5
    <3> HIDE DEF after, P
    <3> QED BY <2>1, <3>1, <3>2, Missed
  <2> QED BY <2>3, <2>4, <2>5
<1>4. ASSUME NEW k \in Slots, k \notin Alive
      PROVE  after[k] = NoTrack
  BY <1>4, AliveTrack DEF Shape
<1>5. ASSUME NEW k \in Slots
      PROVE  \/ tracks'[k] = NoTrack
             \/ \E kind : tracks'[k] = NewTrack(kind)
             \/ k \in Alive /\ tracks'[k] = after[k] /\ ~Dead(after[k])
  <2> HIDE DEF after, P
  <2>1. \/ tracks'[k] = NoTrack
        \/ tracks'[k] = WithNewTracks(after, dets, at, remaining)[k]
           /\ ~(k \in Alive /\ Dead(after[k]))
    BY <1>2 DEF after
  <2>2. \/ \E kind : WithNewTracks(after, dets, at, remaining)[k] = NewTrack(kind)
        \/ WithNewTracks(after, dets, at, remaining)[k] = after[k]
    BY DEF WithNewTracks
  <2> QED BY <1>4, <2>1, <2>2
<1>6. ASSUME NEW k \in Slots
      PROVE  /\ tracks'[k] \in Objects \union {NoTrack}
             /\ tracks'[k] # NoTrack =>
                  /\ NewOrKept(k, P, ids)
                  /\ tracks'[k].state # "DELETED"
  <2> HIDE DEF after, P
  <2>1. CASE \E kind : tracks'[k] = NewTrack(kind)
    BY <2>1, NewTrackType DEF NewOrKept
  <2>2. CASE k \in Alive /\ tracks'[k] = after[k] /\ ~Dead(after[k])
    BY <1>3, <2>2 DEF NewOrKept, Dead
  <2> QED BY <1>5, <2>1, <2>2
<1>7. tracks' \in [Slots -> Objects \union {NoTrack}]
  <2> HIDE DEF after, P
  <2> QED BY <1>2, <1>6
<1> HIDE DEF P
<1> QED BY <1>2, <1>6, <1>7 DEF P

-----------------------------------------------------------------------------
(* Detections are matched with tracks that exist, whatever the costs.      *)
LEMMA CascadeMatchesAlive ==
  ASSUME NEW D, NEW T, NEW M \in CascadeMatches(D, T)
  PROVE  /\ MatchedTracks(M) \subseteq T
         /\ MatchedDets(M) \subseteq D
         /\ OneToOne(M)
  BY DEF CascadeMatches, MatchedTracks, MatchedDets

(* A new tracker has the shape.                                            *)
LEMMA ShapeInit ==
  Init => Shape
<1> SUFFICES ASSUME Init PROVE Shape
  OBVIOUS
<1>1. tracks \in [Slots -> Objects \union {NoTrack}]
  BY DEF Init
<1>2. MatchedTracks(matches) \subseteq Alive /\ unmatched \subseteq Alive
  BY DEF Init, MatchedTracks
<1> QED BY <1>1, <1>2, ParamAssumption DEF Init, Shape

(* No step spoils the shape of tracks, nor names a track that is not there.*)
LEMMA ShapeKept ==
  Shape /\ [Next]_vars => Shape'
<1> SUFFICES ASSUME Shape, [Next]_vars PROVE Shape'
  OBVIOUS
<1> USE DEF Shape
<1>1. CASE SetParams
  BY <1>1, ParamAssumption DEF SetParams, frame, Alive
<1>2. CASE FirstFrame
  <2>1. MatchedTracks(matches') = {} /\ unmatched' = {}
    BY <1>2 DEF FirstFrame, FrameOver, MatchedTracks
  <2> QED BY <1>2, <2>1, FirstFrameTracks
           DEF FirstFrame, FrameOver, params, MatchedTracks
<1>3. CASE BeginFrame
  <2>1. MatchedTracks(matches') = {} /\ unmatched' = {}
    BY <1>3 DEF BeginFrame, MatchedTracks
  <2>2. pc' \in {"cascade", "cascaded"} /\ age' = 0
    BY <1>3 DEF BeginFrame
  <2>3. tracks' \in [Slots -> Objects \union {NoTrack}]
    BY <1>3, BeginFrameTracks
  <2>4. UNCHANGED <<next_id, params>>
    BY <1>3 DEF BeginFrame
  <2> QED BY <2>1, <2>2, <2>3, <2>4 DEF params, MatchedTracks
<1>4. CASE CascadeRound
  <2>1. PICK M \in CascadeMatches(remaining, Group) :
          /\ matches' = matches \union M
          /\ unmatched' = unmatched \union (Group \ MatchedTracks(M))
    BY <1>4 DEF CascadeRound
  <2>2. Group \subseteq Alive /\ Alive' = Alive
    BY <1>4 DEF Group, Confirmed, CascadeRound, Alive
  <2>3. MatchedTracks(matches') \subseteq Alive
    BY <2>1, <2>2, CascadeMatchesAlive DEF MatchedTracks
  <2>4. unmatched' \subseteq Alive
    BY <2>1, <2>2
  <2>5. age' \in Nat
    BY <1>4 DEF CascadeRound
  <2> QED BY <1>4, <2>2, <2>3, <2>4, <2>5
           DEF CascadeRound, params, MatchedTracks
<1>5. CASE CascadeThrows
  <2>1. MatchedTracks(matches') = {} /\ unmatched' = {}
    BY <1>5 DEF CascadeThrows, FrameOver, MatchedTracks
  <2> QED BY <1>5, <2>1 DEF CascadeThrows, FrameOver, params, MatchedTracks
<1>6. CASE CascadeEnds
  BY <1>6 DEF CascadeEnds, params, frame, Alive, MatchedTracks
<1>7. CASE MatchIou
  <2>1. Alive' = Alive
    BY <1>7, MatchIouTracks, AliveTrack, TrackAssumption DEF Alive
  <2> DEFINE candidates ==
        (Alive \ Confirmed(tracks, Alive)) \union FirstMissed
  <2>2. candidates \subseteq Alive
    BY DEF FirstMissed
  <2>3. PICK M \in SUBSET (remaining \X candidates) :
          /\ matches' = matches \union M
          /\ unmatched' = candidates \ MatchedTracks(M)
    BY <1>7 DEF MatchIou
  <2>4. MatchedTracks(M) \subseteq candidates
    BY DEF MatchedTracks
  <2> HIDE DEF candidates
  <2>5. MatchedTracks(matches') \subseteq Alive /\ unmatched' \subseteq Alive
    BY <2>2, <2>3, <2>4 DEF MatchedTracks
  <2> QED BY <1>7, <2>1, <2>5, MatchIouTracks
           DEF MatchIou, params, MatchedTracks
<1>8. CASE Update
  <2>1. MatchedTracks(matches') = {} /\ unmatched' = {}
    BY <1>8 DEF Update, FrameOver, MatchedTracks
  <2>2. NowConfirmed \in SUBSET Slots
    BY DEF NowConfirmed, Alive
  <2>3. next_id' \in Nat /\ tracks' \in [Slots -> Objects \union {NoTrack}]
    BY <1>8, <2>2, UpdateTracks, NewIdsAreNew
  <2> QED BY <1>8, <2>1, <2>3 DEF Update, FrameOver, params, MatchedTracks
<1>9. CASE UNCHANGED vars
  BY <1>9 DEF vars, params, frame, Alive, MatchedTracks
<1> QED BY <1>1, <1>2, <1>3, <1>4, <1>5, <1>6, <1>7, <1>8, <1>9 DEF Next

-----------------------------------------------------------------------------
(* While no frame ends without an exception, the tracks that the cascade   *)
(* still looks at are at least as old as the run of exceptions.            *)
Outage ==
  /\ throws \in Nat
  /\ \A k \in Slots :
       tracks[k] # NoTrack /\ tracks[k].state = "CONFIRMED"
         /\ tracks[k].has_feature
       => tracks[k].time_since_last_update
            >= IF pc = "idle" THEN throws ELSE throws + 1
  /\ BoundedOutage

(* A new tracker has seen no exception.                                    *)
LEMMA OutageInit ==
  Init => Outage
  BY ParamAssumption DEF Init, Outage, BoundedOutage

(* The round that throws has a track of age + 1 missed frames, and age is  *)
(* below max_age_.                                                         *)
LEMMA OutageKept ==
  Shape /\ Outage /\ [Next]_vars => Outage'
<1> SUFFICES ASSUME Shape, Outage, [Next]_vars PROVE Outage'
  OBVIOUS
<1>0. \A k \in Slots : tracks[k] # NoTrack => tracks[k] \in Objects
  BY DEF Shape
<1>1. CASE SetParams
  BY <1>1 DEF SetParams, history, Outage, BoundedOutage
<1>2. CASE throws' = 0 /\ tracks' \in [Slots -> Objects \union {NoTrack}]
           /\ pc' = "idle"
  BY <1>2, ParamAssumption DEF Outage, BoundedOutage, Objects
<1>3. CASE BeginFrame
  <2>1. throws' = throws /\ pc = "idle"
    BY <1>3 DEF BeginFrame, history
  <2>2. ASSUME NEW k \in Slots, tracks'[k] # NoTrack,
               tracks'[k].state = "CONFIRMED", tracks'[k].has_feature
        PROVE  tracks'[k].time_since_last_update >= throws + 1
    <3>1. k \in Alive
      BY <1>3, <2>2, BeginFrameTracks
    <3>2. /\ tracks[k] # NoTrack /\ tracks[k] \in Objects
          /\ tracks[k].state = "CONFIRMED" /\ tracks[k].has_feature
          /\ tracks'[k].time_since_last_update
               = tracks[k].time_since_last_update + 1
      BY <1>0, <1>3, <2>2, <3>1, BeginFrameTracks DEF Alive
    <3> QED BY <2>1, <3>2 DEF Outage, Objects
  <2>3. pc' # "idle"
    BY <1>3 DEF BeginFrame
  <2> QED BY <2>1, <2>2, <2>3 DEF Outage, BoundedOutage
<1>4. CASE CascadeRound
  BY <1>4 DEF CascadeRound, history, Outage, BoundedOutage
<1>5. CASE CascadeThrows
  <2>1. PICK k \in Group : TRUE
    BY <1>5 DEF CascadeThrows
  <2>2. /\ k \in Slots /\ tracks[k] # NoTrack /\ tracks[k] \in Objects
        /\ tracks[k].state = "CONFIRMED" /\ tracks[k].has_feature
        /\ tracks[k].time_since_last_update - 1 = age
    BY <1>0, <2>1 DEF Group, Confirmed, Alive
  <2>3. /\ throws' = throws + 1 /\ tracks' = tracks
        /\ pc = "cascade" /\ pc' = "idle" /\ age < max_age
    BY <1>5 DEF CascadeThrows, FrameOver
  <2>4. tracks[k].time_since_last_update >= throws + 1
    BY <2>2, <2>3 DEF Outage
  <2>5. throws' <= max_age /\ max_age \in MaxAges
    BY <2>2, <2>3, <2>4 DEF Objects, Outage, Shape
  <2> QED BY <2>3, <2>5 DEF Outage, BoundedOutage
<1>6. CASE CascadeEnds
  BY <1>6 DEF CascadeEnds, history, Outage, BoundedOutage
<1>7. CASE MatchIou
  <2>1. throws' = throws /\ pc = "cascaded" /\ pc' = "update"
    BY <1>7 DEF MatchIou, history
  <2>2. ASSUME NEW k \in Slots, tracks'[k] # NoTrack,
               tracks'[k].state = "CONFIRMED", tracks'[k].has_feature
        PROVE  tracks'[k].time_since_last_update >= throws + 1
    <3>1. k \in Alive
      BY <1>7, <2>2, MatchIouTracks
    <3> QED BY <1>7, <2>1, <2>2, <3>1, MatchIouTracks DEF Outage, Alive
  <2> QED BY <2>1, <2>2 DEF Outage, BoundedOutage
<1>8. CASE FirstFrame
  BY <1>2, <1>8, FirstFrameTracks DEF FirstFrame, FrameOver
<1>9. CASE Update
  BY <1>2, <1>9, UpdateTracks DEF Update, FrameOver
<1>10. CASE UNCHANGED vars
  BY <1>10 DEF vars, history, Outage, BoundedOutage
<1> QED BY <1>1, <1>3, <1>4, <1>5, <1>6, <1>7, <1>8, <1>9, <1>10 DEF Next

(* However the features of detections and tracks differ in length, the     *)
(* frames lost in a row to the exception of InnerProduct are bounded by    *)
(* max_age_.                                                               *)
THEOREM OutageBounded == Spec => []BoundedOutage
<1>1. Init => Shape /\ Outage
  BY ShapeInit, OutageInit
<1>2. Shape /\ Outage /\ [Next]_vars => (Shape /\ Outage)'
  BY ShapeKept, OutageKept
<1>3. Outage => BoundedOutage
  BY DEF Outage
<1> QED BY <1>1, <1>2, <1>3, PTL DEF Spec

-----------------------------------------------------------------------------
(* The ids were given in the order of next_id_, a confirmed track has the  *)
(* one of its rank, and no two confirmed tracks have one rank.             *)
Ids ==
  /\ given \in Seq(Int) /\ Len(given) = next_id
  /\ \A i \in 1..next_id : given[i] = ToInt(i - 1)
  /\ rank \in [Slots -> Nat]
  /\ \A k \in Slots : tracks[k] # NoTrack =>
       /\ tracks[k].state = "TENTATIVE" => tracks[k].track_id = -1
       /\ tracks[k].state = "CONFIRMED" =>
            rank[k] \in 1..next_id /\ tracks[k].track_id = given[rank[k]]
  /\ \A j, k \in Slots :
       /\ tracks[j] # NoTrack /\ tracks[j].state = "CONFIRMED"
       /\ tracks[k] # NoTrack /\ tracks[k].state = "CONFIRMED"
       /\ rank[j] = rank[k]
       => j = k

(* A new tracker has given no id.                                          *)
LEMMA IdsInit ==
  Init => Ids
  BY DEF Init, Ids

(* A step that keeps the ids of the tracks that it leaves, and confirms    *)
(* none, keeps the invariant.                                              *)
LEMMA IdsCarried ==
  ASSUME Ids, next_id' = next_id, given' = given, rank' = rank,
         \A k \in Slots : tracks'[k] # NoTrack =>
           \/ tracks'[k].state = "TENTATIVE" /\ tracks'[k].track_id = -1
           \/ /\ tracks[k] # NoTrack
              /\ tracks'[k].state \in {tracks[k].state, "DELETED"}
              /\ tracks'[k].track_id = tracks[k].track_id
  PROVE  Ids'
<1>1. ASSUME NEW k \in Slots, tracks'[k] # NoTrack, tracks'[k].state = "CONFIRMED"
      PROVE  /\ tracks[k] # NoTrack /\ tracks[k].state = "CONFIRMED"
             /\ tracks'[k].track_id = tracks[k].track_id
  BY <1>1
<1>2. ASSUME NEW k \in Slots, tracks'[k] # NoTrack, tracks'[k].state = "TENTATIVE"
      PROVE  tracks'[k].track_id = -1
  BY <1>2 DEF Ids
<1>3. /\ given \in Seq(Int) /\ Len(given) = next_id
      /\ \A i \in 1..next_id : given[i] = ToInt(i - 1)
      /\ rank \in [Slots -> Nat]
  BY DEF Ids
<1>4. ASSUME NEW k \in Slots, tracks'[k] # NoTrack, tracks'[k].state = "CONFIRMED"
      PROVE  rank'[k] \in 1..next_id' /\ tracks'[k].track_id = given'[rank'[k]]
  BY <1>1, <1>4 DEF Ids
<1>5. ASSUME NEW j \in Slots, NEW k \in Slots,
             tracks'[j] # NoTrack, tracks'[j].state = "CONFIRMED",
             tracks'[k] # NoTrack, tracks'[k].state = "CONFIRMED",
             rank'[j] = rank'[k]
      PROVE  j = k
  BY <1>1, <1>5 DEF Ids
<1> QED BY <1>2, <1>3, <1>4, <1>5 DEF Ids

(* The ids of the tracks confirmed in a frame go behind those given before.*)
LEMMA GivenLonger ==
  ASSUME given \in Seq(Int), next_id \in Nat, Len(given) = next_id,
         \A i \in 1..next_id : given[i] = ToInt(i - 1),
         NEW n \in Nat
  PROVE  LET longer == given \o [i \in 1..n |-> ToInt(next_id + i - 1)]
         IN
         /\ longer \in Seq(Int) /\ Len(longer) = next_id + n
         /\ \A i \in 1..(next_id + n) : longer[i] = ToInt(i - 1)
         /\ \A i \in 1..next_id : longer[i] = given[i]
<1> DEFINE more == [i \in 1..n |-> ToInt(next_id + i - 1)]
           longer == given \o more
<1>1. \A i \in 1..n : ToInt(next_id + i - 1) \in Int
  BY ToIntType
<1>2. more \in Seq(Int) /\ Len(more) = n
  BY <1>1
<1>3. \A i \in 1..n : more[i] = ToInt(next_id + i - 1)
  OBVIOUS
<1>4. longer = given \o more
  OBVIOUS
<1> HIDE DEF more, longer
<1>5. /\ longer \in Seq(Int) /\ Len(longer) = next_id + n
      /\ \A i \in 1..(next_id + n) :
           longer[i] = IF i <= next_id THEN given[i] ELSE more[i - next_id]
  <2>1. /\ given \o more \in Seq(Int)
        /\ Len(given \o more) = Len(given) + Len(more)
        /\ \A i \in 1..(Len(given) + Len(more)) :
             (given \o more)[i] = IF i <= Len(given) THEN given[i]
                                  ELSE more[i - Len(given)]
    BY <1>2, ConcatProperties
  <2> QED BY <1>2, <1>4, <2>1
<1>6. ASSUME NEW i \in 1..(next_id + n), i > next_id
      PROVE  longer[i] = ToInt(i - 1)
  <2>1. i - next_id \in 1..n /\ next_id + (i - next_id) - 1 = i - 1
    BY <1>6
  <2>2. more[i - next_id] = ToInt(next_id + (i - next_id) - 1)
    BY <1>3, <2>1
  <2> QED BY <1>5, <1>6, <2>1, <2>2
<1>7. ASSUME NEW i \in 1..next_id
      PROVE  i \in 1..(next_id + n) /\ longer[i] = given[i]
  BY <1>5
<1>8. ASSUME NEW i \in 1..(next_id + n)
      PROVE  longer[i] = ToInt(i - 1)
  <2>1. CASE i > next_id
    BY <1>6, <2>1
  <2>2. CASE i <= next_id
    BY <1>7, <2>2
  <2> QED BY <2>1, <2>2
<1> QED BY <1>5, <1>7, <1>8 DEF more, longer

(* Every step keeps the ids apart: only a confirmation gives one, the next.*)
LEMMA IdsKept ==
  Shape /\ Ids /\ [Next]_vars => Ids'
<1> SUFFICES ASSUME Shape, Ids, [Next]_vars PROVE Ids'
  OBVIOUS
<1>1. CASE UNCHANGED <<tracks, next_id, given, rank>>
  BY <1>1, IdsCarried
<1>2. CASE SetParams \/ CascadeRound \/ CascadeThrows \/ CascadeEnds
           \/ UNCHANGED vars
  <2>1. UNCHANGED <<tracks, next_id, given, rank>>
    BY <1>2 DEF SetParams, CascadeRound, CascadeThrows, CascadeEnds, history,
                vars
  <2> QED BY <1>1, <2>1
<1>3. CASE FirstFrame
  BY <1>3, FirstFrameTracks, IdsCarried DEF FirstFrame
<1>4. CASE BeginFrame
  <2>1. next_id' = next_id /\ given' = given /\ rank' = rank
    BY <1>4 DEF BeginFrame, history
  <2>2. \A k \in Slots : tracks'[k] # NoTrack =>
          /\ tracks[k] # NoTrack
          /\ tracks'[k].state \in {tracks[k].state, "DELETED"}
          /\ tracks'[k].track_id = tracks[k].track_id
    BY <1>4, BeginFrameTracks DEF Alive
  <2> QED BY <2>1, <2>2, IdsCarried
<1>5. CASE MatchIou
  <2>1. next_id' = next_id /\ given' = given /\ rank' = rank
    BY <1>5 DEF MatchIou, history
  <2>2. \A k \in Slots : tracks'[k] # NoTrack =>
          /\ tracks[k] # NoTrack
          /\ tracks'[k].state \in {tracks[k].state, "DELETED"}
          /\ tracks'[k].track_id = tracks[k].track_id
    BY <1>5, MatchIouTracks DEF Alive
  <2> QED BY <2>1, <2>2, IdsCarried
<1>6. CASE Update
  <2> DEFINE P == NowConfirmed
  <2>1. PICK ids \in NewIds(P) :
          /\ next_id' = next_id + Cardinality(P)
          /\ given' = given \o [i \in 1..Cardinality(P) |-> ToInt(next_id + i - 1)]
          /\ rank' = [k \in Slots |->
               IF k \in P THEN Len(given) + 1 + (ids[k] - next_id)
               ELSE IF tracks'[k] = NoTrack THEN 0 ELSE rank[k]]
          /\ \A k \in Slots : tracks'[k] # NoTrack =>
               NewOrKept(k, P, ids) /\ tracks'[k].state # "DELETED"
    BY <1>6, UpdateTracks
  <2>2. P \in SUBSET Slots
    BY DEF NowConfirmed, Shape, Alive
  <2> HIDE DEF P
  <2>3. /\ Cardinality(P) \in Nat /\ next_id \in Nat
        /\ \A k \in P : /\ ids[k] \in Nat
                        /\ next_id <= ids[k]
                        /\ ids[k] < next_id + Cardinality(P)
        /\ \A j, k \in P : ids[j] = ids[k] => j = k
    BY <2>1, <2>2, NewIdsAreNew DEF Shape
  <2>4. /\ given' \in Seq(Int) /\ Len(given') = next_id'
        /\ \A i \in 1..next_id' : given'[i] = ToInt(i - 1)
        /\ \A i \in 1..next_id : given'[i] = given[i]
    <3>1. /\ given \in Seq(Int) /\ next_id \in Nat /\ Len(given) = next_id
          /\ \A i \in 1..next_id : given[i] = ToInt(i - 1)
      BY <2>3 DEF Ids
    <3> DEFINE longer == given \o [i \in 1..Cardinality(P) |-> ToInt(next_id + i - 1)]
    <3>2. /\ longer \in Seq(Int) /\ Len(longer) = next_id + Cardinality(P)
          /\ \A i \in 1..(next_id + Cardinality(P)) : longer[i] = ToInt(i - 1)
          /\ \A i \in 1..next_id : longer[i] = given[i]
      BY <2>3, <3>1, GivenLonger
    <3>3. given' = longer /\ next_id' = next_id + Cardinality(P)
      BY <2>1
    <3> HIDE DEF longer
    <3> QED BY <3>2, <3>3
  <2>5. \A k \in Slots :
          rank'[k] = IF k \in P THEN ids[k] + 1
                     ELSE IF tracks'[k] = NoTrack THEN 0 ELSE rank[k]
    BY <2>1, <2>3 DEF Ids
  <2>6. rank' \in [Slots -> Nat]
    <3>1. DOMAIN rank' = Slots /\ rank' = [k \in Slots |-> rank'[k]]
      BY <2>1
    <3>2. \A k \in Slots : rank'[k] \in Nat
      BY <2>2, <2>3, <2>5 DEF Ids
    <3> QED BY <3>1, <3>2
  <2>7. ASSUME NEW k \in Slots, tracks'[k] # NoTrack
        PROVE  \/ tracks'[k].state = "TENTATIVE" /\ tracks'[k].track_id = -1
               \/ /\ k \in P /\ tracks'[k].state = "CONFIRMED"
                  /\ tracks'[k].track_id = ToInt(ids[k])
                  /\ rank'[k] = ids[k] + 1
               \/ /\ k \notin P /\ tracks[k] # NoTrack
                  /\ tracks'[k].state = tracks[k].state
                  /\ tracks'[k].track_id = tracks[k].track_id
                  /\ rank'[k] = rank[k]
    BY <2>1, <2>5, <2>7 DEF NewOrKept, Alive
  <2>8. ASSUME NEW k \in Slots, tracks'[k] # NoTrack
        PROVE  /\ tracks'[k].state = "TENTATIVE" => tracks'[k].track_id = -1
               /\ tracks'[k].state = "CONFIRMED" =>
                    rank'[k] \in 1..next_id' /\ tracks'[k].track_id = given'[rank'[k]]
    <3>1. CASE tracks'[k].state = "TENTATIVE" /\ tracks'[k].track_id = -1
      BY <3>1
    <3>2. CASE /\ k \in P /\ tracks'[k].state = "CONFIRMED"
               /\ tracks'[k].track_id = ToInt(ids[k])
               /\ rank'[k] = ids[k] + 1
      <4>0. /\ ids[k] \in Nat /\ ids[k] < next_id + Cardinality(P)
            /\ Cardinality(P) \in Nat /\ next_id \in Nat
        BY <2>3, <3>2
      <4>1. ids[k] + 1 \in 1..next_id' /\ (ids[k] + 1) - 1 = ids[k]
        <5>1. \A n, c, i \in Nat : i < n + c => i + 1 \in 1..(n + c) /\ (i + 1) - 1 = i
          OBVIOUS
        <5>2. next_id' = next_id + Cardinality(P)
          BY <2>1
        <5> QED BY <4>0, <5>1, <5>2
      <4>2. given'[ids[k] + 1] = ToInt((ids[k] + 1) - 1)
        BY <2>4, <4>1
      <4> QED BY <3>2, <4>1, <4>2
    <3>3. CASE /\ k \notin P /\ tracks[k] # NoTrack
               /\ tracks'[k].state = tracks[k].state
               /\ tracks'[k].track_id = tracks[k].track_id
               /\ rank'[k] = rank[k]
      <4>1. next_id \in Nat /\ next_id' >= next_id /\ next_id' \in Nat
        BY <2>1, <2>3
      <4> QED BY <2>4, <3>3, <4>1 DEF Ids
    <3> QED BY <2>7, <2>8, <3>1, <3>2, <3>3
  <2>9. ASSUME NEW j \in Slots, NEW k \in Slots,
               tracks'[j] # NoTrack, tracks'[j].state = "CONFIRMED",
               tracks'[k] # NoTrack, tracks'[k].state = "CONFIRMED",
               rank'[j] = rank'[k]
        PROVE  j = k
    <3> DEFINE New(i) == i \in P /\ rank'[i] = ids[i] + 1
               Old(i) == /\ tracks[i] # NoTrack /\ tracks[i].state = "CONFIRMED"
                         /\ rank'[i] = rank[i]
    <3>1. (New(j) \/ Old(j)) /\ (New(k) \/ Old(k))
      BY <2>7, <2>9
    <3>2. \A i \in Slots : New(i) => rank'[i] \in Nat /\ rank'[i] > next_id
      BY <2>3
    <3>3. \A i \in Slots : Old(i) => rank'[i] \in Nat /\ rank'[i] <= next_id
      BY <2>3 DEF Ids
    <3>4. New(j) /\ New(k) => j = k
      <4>1. \A m, n \in Nat : m + 1 = n + 1 => m = n
        OBVIOUS
      <4> QED BY <2>3, <2>9, <4>1
    <3>5. Old(j) /\ Old(k) => j = k
      BY <2>9 DEF Ids
    <3> HIDE DEF New, Old
    <3> QED BY <2>3, <2>9, <3>1, <3>2, <3>3, <3>4, <3>5
  <2> QED BY <2>4, <2>6, <2>8, <2>9 DEF Ids
<1> QED BY <1>2, <1>3, <1>4, <1>5, <1>6 DEF Next

(* However many tracks are confirmed in one frame and lost again, an id    *)
(* comes back only after all the other values of an int were given, and    *)
(* each confirmed track has an id that was given for it alone.             *)
THEOREM IdsNameOneTrack == Spec => []IdNamesOneTrack
<1>1. Init => Shape /\ Ids
  BY ShapeInit, IdsInit
<1>2. Shape /\ Ids /\ [Next]_vars => (Shape /\ Ids)'
  BY ShapeKept, IdsKept
<1>3. Shape /\ Ids => IdNamesOneTrack
  <2> SUFFICES ASSUME Shape, Ids PROVE IdNamesOneTrack
    OBVIOUS
  <2>1. DOMAIN given = 1..next_id /\ next_id \in Nat
    BY DEF Ids, Shape
  <2>2. ASSUME NEW i \in DOMAIN given, NEW j \in DOMAIN given,
               i < j, given[i] = given[j]
        PROVE  j - i >= IdValues
    <3>1. i - 1 \in Nat /\ j - 1 \in Nat /\ i - 1 < j - 1
      BY <2>1, <2>2
    <3>2. ToInt(i - 1) = ToInt(j - 1)
      BY <2>1, <2>2 DEF Ids
    <3>3. (j - 1) - (i - 1) >= IdValues
      BY <3>1, <3>2, ToIntRepeats
    <3> QED BY <2>1, <3>3, ParamAssumption
  <2> QED BY <2>1, <2>2 DEF Ids, IdNamesOneTrack, Alive
<1> QED BY <1>1, <1>2, <1>3, PTL DEF Spec

-----------------------------------------------------------------------------
(* Which detections and tracks a frame has dealt with, step by step: up to *)
(* the update no known track is dead, in the rounds the tracks dealt with  *)
(* are those seen in a lower round, and a detection is matched or left.    *)
Accounted ==
  /\ pc # "update" =>
       \A k \in Slots : tracks[k] # NoTrack => tracks[k].state # "DELETED"
  /\ pc # "idle" =>
       /\ OneToOne(matches)
       /\ remaining \union MatchedDets(matches) = DOMAIN dets
       /\ remaining \cap MatchedDets(matches) = {}
       /\ unmatched \cap MatchedTracks(matches) = {}
       /\ \A k \in MatchedTracks(matches) : tracks[k].state # "DELETED"
  /\ pc \in {"cascade", "cascaded"} =>
       MatchedTracks(matches) \union unmatched \subseteq Confirmed(tracks, Alive)
  /\ pc = "cascade" =>
       \A k \in MatchedTracks(matches) \union unmatched :
         tracks[k].time_since_last_update - 1 < age

(* Two one-to-one matchings without a common end are one together.         *)
LEMMA OneToOneUnion ==
  ASSUME NEW M, NEW N, OneToOne(M), OneToOne(N),
         MatchedDets(M) \cap MatchedDets(N) = {},
         MatchedTracks(M) \cap MatchedTracks(N) = {}
  PROVE  /\ OneToOne(M \union N)
         /\ MatchedDets(M \union N) = MatchedDets(M) \union MatchedDets(N)
         /\ MatchedTracks(M \union N) = MatchedTracks(M) \union MatchedTracks(N)
  BY DEF OneToOne, MatchedDets, MatchedTracks

(* The empty set of matches uses no track and no detection.                *)
LEMMA NothingMatched ==
  /\ OneToOne({})
  /\ MatchedDets({}) = {}
  /\ MatchedTracks({}) = {}
  BY DEF OneToOne, MatchedDets, MatchedTracks

(* Before the first frame there is nothing to account for.                 *)
LEMMA AccountedInit ==
  Init => Accounted
  BY DEF Init, Accounted

(* A round of the cascade moves the detections it matches out of those     *)
(* that remain.                                                            *)
LEMMA RoundAccounted ==
  ASSUME Shape, Accounted, CascadeRound
  PROVE  Accounted'
<1>1. PICK M \in CascadeMatches(remaining, Group) :
        /\ matches' = matches \union M
        /\ unmatched' = unmatched \union (Group \ MatchedTracks(M))
        /\ remaining' = remaining \ MatchedDets(M)
  BY DEF CascadeRound
<1>2. /\ pc = "cascade" /\ pc' = "cascade" /\ age' = age + 1
      /\ tracks' = tracks /\ dets' = dets
  BY DEF CascadeRound
<1>3. /\ OneToOne(M) /\ MatchedDets(M) \subseteq remaining
      /\ MatchedTracks(M) \subseteq Group
  BY <1>1, CascadeMatchesAlive
<1>4. \A k \in Group :
        /\ k \in Confirmed(tracks, Alive)
        /\ tracks[k].state = "CONFIRMED"
        /\ tracks[k].time_since_last_update - 1 = age
  BY DEF Group, Confirmed
<1>5. Group \cap (MatchedTracks(matches) \union unmatched) = {}
  BY <1>2, <1>4 DEF Accounted, Shape
<1>6. /\ OneToOne(matches')
      /\ MatchedDets(matches') = MatchedDets(matches) \union MatchedDets(M)
      /\ MatchedTracks(matches') = MatchedTracks(matches) \union MatchedTracks(M)
  <2>1. MatchedDets(matches) \cap MatchedDets(M) = {}
    BY <1>2, <1>3 DEF Accounted
  <2>2. MatchedTracks(matches) \cap MatchedTracks(M) = {}
    BY <1>3, <1>5
  <2>3. OneToOne(matches)
    BY <1>2 DEF Accounted
  <2> QED BY <1>1, <1>3, <2>1, <2>2, <2>3, OneToOneUnion
<1>7. /\ remaining' \union MatchedDets(matches') = DOMAIN dets'
      /\ remaining' \cap MatchedDets(matches') = {}
  BY <1>1, <1>2, <1>3, <1>6 DEF Accounted
<1>8. unmatched' \cap MatchedTracks(matches') = {}
  BY <1>1, <1>2, <1>3, <1>5, <1>6 DEF Accounted
<1>9. Confirmed(tracks, Alive)' = Confirmed(tracks, Alive)
  BY <1>2 DEF Confirmed, Alive
<1>10. MatchedTracks(matches') \union unmatched' \subseteq
         MatchedTracks(matches) \union unmatched \union Group
  BY <1>1, <1>3, <1>6
<1>11. MatchedTracks(matches') \union unmatched' \subseteq Confirmed(tracks, Alive)
  BY <1>2, <1>4, <1>10 DEF Accounted
<1>12. \A k \in MatchedTracks(matches') \union unmatched' :
         tracks'[k].time_since_last_update - 1 < age'
  <2> SUFFICES ASSUME NEW k \in MatchedTracks(matches') \union unmatched'
               PROVE  tracks[k].time_since_last_update - 1 < age + 1
    BY <1>2
  <2>1. CASE k \in Group
    BY <1>4, <2>1 DEF Shape
  <2>2. CASE k \in MatchedTracks(matches) \union unmatched
    <3>1. k \in Alive
      BY <2>2 DEF Shape
    <3>2. tracks[k].time_since_last_update \in Nat
      BY <3>1, AliveTrack DEF Alive, Objects
    <3> QED BY <1>2, <2>2, <3>2 DEF Accounted, Shape
  <2> QED BY <1>10, <2>1, <2>2
<1>13. \A k \in MatchedTracks(matches') : tracks'[k].state # "DELETED"
  BY <1>2, <1>3, <1>4, <1>6 DEF Accounted
<1> QED BY <1>2, <1>6, <1>7, <1>8, <1>9, <1>11, <1>12, <1>13
        DEF Accounted, MatchedDets, MatchedTracks

(* MatchIou pairs what the cascade left of detections and tracks.          *)
LEMMA MatchIouAccounted ==
  ASSUME Shape, Accounted, MatchIou
  PROVE  Accounted'
<1> DEFINE candidates ==
      (Alive \ Confirmed(tracks, Alive)) \union FirstMissed
<1>1. PICK M \in SUBSET (remaining \X candidates) :
        /\ OneToOne(M)
        /\ matches' = matches \union M
        /\ remaining' = remaining \ MatchedDets(M)
        /\ unmatched' = candidates \ MatchedTracks(M)
  BY DEF MatchIou
<1>2. pc = "cascaded" /\ pc' = "update" /\ dets' = dets
  BY DEF MatchIou
<1>3. MatchedDets(M) \subseteq remaining /\ MatchedTracks(M) \subseteq candidates
  BY DEF MatchedDets, MatchedTracks
<1>4. /\ candidates \subseteq Alive
      /\ candidates \cap MatchedTracks(matches) = {}
      /\ candidates \cap (unmatched \ FirstMissed) = {}
      /\ MatchedTracks(matches) \cap unmatched = {}
      /\ MatchedTracks(matches) \subseteq Alive
  BY <1>2 DEF Accounted, FirstMissed, Shape
<1>5. OneToOne(matches) /\ remaining \cap MatchedDets(matches) = {}
      /\ remaining \union MatchedDets(matches) = DOMAIN dets
  BY <1>2 DEF Accounted
<1> HIDE DEF candidates
<1>6. /\ OneToOne(matches')
      /\ MatchedDets(matches') = MatchedDets(matches) \union MatchedDets(M)
      /\ MatchedTracks(matches') = MatchedTracks(matches) \union MatchedTracks(M)
  <2>1. MatchedDets(matches) \cap MatchedDets(M) = {}
    BY <1>3, <1>5
  <2>2. MatchedTracks(matches) \cap MatchedTracks(M) = {}
    BY <1>3, <1>4
  <2> QED BY <1>1, <1>5, <2>1, <2>2, OneToOneUnion
<1>7. /\ remaining' \union MatchedDets(matches') = DOMAIN dets'
      /\ remaining' \cap MatchedDets(matches') = {}
      /\ unmatched' \cap MatchedTracks(matches') = {}
  BY <1>1, <1>2, <1>3, <1>4, <1>5, <1>6
<1>8. ASSUME NEW k \in MatchedTracks(matches')
      PROVE  tracks'[k].state # "DELETED"
  <2>1. k \in Alive /\ k \notin unmatched \ FirstMissed
    BY <1>3, <1>4, <1>6
  <2>2. tracks'[k].state = tracks[k].state
    BY <2>1, MatchIouTracks
  <2> QED BY <1>2, <2>1, <2>2 DEF Accounted, Alive
<1> QED BY <1>2, <1>6, <1>7, <1>8 DEF Accounted, MatchedDets, MatchedTracks

(* Every step accounts for each detection and each track once.             *)
LEMMA AccountedKept ==
  Shape /\ Accounted /\ [Next]_vars => Accounted'
<1> SUFFICES ASSUME Shape, Accounted, [Next]_vars PROVE Accounted'
  OBVIOUS
<1>1. CASE SetParams
  BY <1>1 DEF SetParams, Accounted
<1>2. CASE FirstFrame
  <2>1. \A k \in Slots : tracks'[k] # NoTrack => tracks'[k].state # "DELETED"
    BY <1>2, FirstFrameTracks
  <2> QED BY <1>2, <2>1 DEF FirstFrame, FrameOver, Accounted
<1>3. CASE BeginFrame
  <2>1. /\ pc' \in {"cascade", "cascaded"} /\ matches' = {} /\ unmatched' = {}
        /\ remaining' = DOMAIN dets'
    BY <1>3 DEF BeginFrame
  <2>2. \A k \in Slots : tracks'[k] # NoTrack => tracks'[k].state # "DELETED"
    <3>1. pc = "idle"
      BY <1>3 DEF BeginFrame
    <3> QED BY <1>3, <3>1, BeginFrameTracks DEF Accounted, Alive
  <2>3. /\ OneToOne(matches') /\ MatchedDets(matches') = {}
        /\ MatchedTracks(matches') = {}
    BY <2>1, NothingMatched
  <2> QED BY <2>1, <2>2, <2>3 DEF Accounted, MatchedDets, MatchedTracks
<1>4. CASE CascadeRound
  BY <1>4, RoundAccounted
<1>5. CASE CascadeThrows
  BY <1>5 DEF CascadeThrows, FrameOver, Accounted
<1>6. CASE CascadeEnds
  <2>1. pc = "cascade" /\ pc' = "cascaded"
    BY <1>6 DEF CascadeEnds
  <2>2. UNCHANGED <<tracks, dets, remaining, matches, unmatched>>
    BY <1>6 DEF CascadeEnds, frame
  <2> QED BY <2>1, <2>2
          DEF Accounted, MatchedDets, MatchedTracks, Confirmed, Alive
<1>7. CASE MatchIou
  BY <1>7, MatchIouAccounted
<1>8. CASE Update
  <2>1. \A k \in Slots : tracks'[k] # NoTrack => tracks'[k].state # "DELETED"
    BY <1>8, UpdateTracks
  <2> QED BY <1>8, <2>1 DEF Update, FrameOver, Accounted
<1>9. CASE UNCHANGED vars
  <2>1. UNCHANGED <<pc, tracks, dets, remaining, matches, unmatched, age>>
    BY <1>9 DEF vars, frame
  <2> QED BY <2>1 DEF Accounted, MatchedDets, MatchedTracks, Confirmed, Alive
<1> QED BY <1>1, <1>2, <1>3, <1>4, <1>5, <1>6, <1>7, <1>8, <1>9 DEF Next

(* Whatever the costs, the rounds of the cascade, the overlaps and the new *)
(* tracks together deal with each detection and each track once.           *)
THEOREM EachDetectionOnce == Spec => []EachOnce
<1>1. Init => Shape /\ Accounted
  BY ShapeInit, AccountedInit
<1>2. Shape /\ Accounted /\ [Next]_vars => (Shape /\ Accounted)'
  BY ShapeKept, AccountedKept
<1>3. Shape /\ Accounted => EachOnce
  BY DEF Shape, Accounted, EachOnce
<1> QED BY <1>1, <1>2, <1>3, PTL DEF Spec

-----------------------------------------------------------------------------
(* RecentFirst needs the history of the rounds: what a round has passed,   *)
(* close to a detection that is still unmatched, was itself matched, since *)
(* a cheapest assignment leaves no close pair with both ends free.         *)
Rounds ==
  pc \in {"cascade", "cascaded"} =>
    /\ near \subseteq (DOMAIN dets) \X Confirmed(tracks, Alive)
    /\ pc = "cascade" =>
         \A q \in near :
           tracks[q[2]].time_since_last_update - 1 < age =>
             q[1] \notin remaining \/ q[2] \in MatchedTracks(matches)
    /\ \A p, q \in near :
         /\ p \in matches /\ p[1] = q[1]
         /\ tracks[q[2]].time_since_last_update
              < tracks[p[2]].time_since_last_update
         => q[2] \in MatchedTracks(matches)

(* A track that is being followed was seen at least a frame ago.           *)
LEMMA ConfirmedTrack ==
  ASSUME Shape, NEW k \in Confirmed(tracks, Alive)
  PROVE  k \in Slots /\ k \in Alive /\ tracks[k].time_since_last_update \in Nat
BY AliveTrack DEF Confirmed, Alive, Objects

(* No frame, nothing matched.                                              *)
LEMMA RoundsBegin ==
  ASSUME Shape, BeginFrame
  PROVE  Rounds'
<1>1. /\ near' \subseteq (DOMAIN dets') \X Confirmed(tracks, Alive)
      /\ age' = 0 /\ matches' = {}
  BY DEF BeginFrame
<1>2. Alive' = Alive
  BY BeginFrameTracks, AliveTrack, TrackAssumption DEF Alive
<1>3. Confirmed(tracks, Alive)' = Confirmed(tracks, Alive)
  BY <1>2, BeginFrameTracks DEF Confirmed
<1>4. \A q \in near' : ~(tracks'[q[2]].time_since_last_update - 1 < age')
  <2> SUFFICES ASSUME NEW q \in near'
               PROVE  ~(tracks'[q[2]].time_since_last_update - 1 < 0)
    BY <1>1
  <2>1. q[2] \in Confirmed(tracks, Alive)
    BY <1>1
  <2>2. q[2] \in Alive /\ tracks[q[2]].time_since_last_update \in Nat
    BY <2>1, ConfirmedTrack
  <2>3. tracks'[q[2]].time_since_last_update
          = tracks[q[2]].time_since_last_update + 1
    BY <2>2, BeginFrameTracks
  <2> QED BY <2>2, <2>3
<1> QED BY <1>1, <1>3, <1>4 DEF Rounds

(* A round of the cascade: the tracks of this round, and those of the      *)
(* earlier ones.                                                           *)
LEMMA RoundsRound ==
  ASSUME Shape, Rounds, CascadeRound
  PROVE  Rounds'
<1>1. PICK M \in CascadeMatches(remaining, Group) :
        /\ matches' = matches \union M
        /\ remaining' = remaining \ MatchedDets(M)
  BY DEF CascadeRound
<1>2. /\ pc = "cascade" /\ pc' = "cascade" /\ age' = age + 1
      /\ tracks' = tracks /\ dets' = dets /\ near' = near
  BY DEF CascadeRound
<1>3. /\ M \subseteq near
      /\ \A p \in M : p[1] \in remaining /\ p[2] \in Group
      /\ \A p \in near : p[1] \in remaining /\ p[2] \in Group =>
           p[1] \in MatchedDets(M) \/ p[2] \in MatchedTracks(M)
  <2>1. near \subseteq (DOMAIN dets) \X Confirmed(tracks, Alive)
    BY <1>2 DEF Rounds
  <2>2. \A p \in near : p = <<p[1], p[2]>>
    BY <2>1
  <2> QED BY <2>2 DEF CascadeMatches
<1>4. MatchedTracks(matches') = MatchedTracks(matches) \union MatchedTracks(M)
  BY <1>1 DEF MatchedTracks
<1>5. Confirmed(tracks, Alive)' = Confirmed(tracks, Alive)
  BY <1>2 DEF Confirmed, Alive
<1>6. ASSUME NEW q \in near, q[1] \in remaining,
             tracks[q[2]].time_since_last_update - 1 < age
      PROVE  q[2] \in MatchedTracks(matches)
  BY <1>2, <1>6 DEF Rounds
<1>7. \A q \in near : /\ q[2] \in Confirmed(tracks, Alive)
                      /\ tracks[q[2]].time_since_last_update \in Nat
  BY <1>2, ConfirmedTrack DEF Rounds
<1>8. ASSUME NEW q \in near, q[1] \in remaining',
             tracks[q[2]].time_since_last_update - 1 < age + 1
      PROVE  q[2] \in MatchedTracks(matches')
  <2>0. q[1] \in remaining /\ q[1] \notin MatchedDets(M) /\ age \in Nat
    BY <1>1, <1>8 DEF Shape
  <2>1. CASE tracks[q[2]].time_since_last_update - 1 < age
    BY <1>4, <1>6, <2>0, <2>1
  <2>2. CASE tracks[q[2]].time_since_last_update - 1 = age
    <3>1. q[2] \in Group
      BY <1>7, <2>2 DEF Group
    <3> QED BY <1>3, <1>4, <2>0, <3>1
  <2> QED BY <1>7, <1>8, <2>0, <2>1, <2>2
<1>9. ASSUME NEW p \in near, NEW q \in near,
             p \in matches', p[1] = q[1],
             tracks[q[2]].time_since_last_update
               < tracks[p[2]].time_since_last_update
      PROVE  q[2] \in MatchedTracks(matches')
  <2>1. CASE p \in matches
    BY <1>2, <1>4, <1>9, <2>1 DEF Rounds
  <2>2. CASE p \in M
    <3>1. q[1] \in remaining /\ tracks[p[2]].time_since_last_update - 1 = age
      BY <1>3, <1>9, <2>2 DEF Group
    <3>2. tracks[q[2]].time_since_last_update - 1 < age
      BY <1>7, <1>9, <3>1 DEF Shape
    <3> QED BY <1>4, <1>6, <3>1, <3>2
  <2> QED BY <1>1, <1>9, <2>1, <2>2
<1>10. \A q \in near :
         tracks[q[2]].time_since_last_update - 1 < age' =>
           q[1] \notin remaining' \/ q[2] \in MatchedTracks(matches')
  BY <1>2, <1>8
<1>11. MatchedTracks(matches)' = MatchedTracks(matches')
  BY DEF MatchedTracks
<1>12. near \subseteq (DOMAIN dets) \X Confirmed(tracks, Alive)
  BY <1>2 DEF Rounds
<1> QED BY <1>2, <1>5, <1>9, <1>10, <1>11, <1>12 DEF Rounds

(* Every step keeps the history of the rounds.                             *)
LEMMA RoundsKept ==
  Shape /\ Rounds /\ [Next]_vars => Rounds'
<1> SUFFICES ASSUME Shape, Rounds, [Next]_vars PROVE Rounds'
  OBVIOUS
<1>1. CASE SetParams
  BY <1>1 DEF SetParams, Rounds
<1>2. CASE FirstFrame \/ CascadeThrows \/ Update
  BY <1>2 DEF FirstFrame, CascadeThrows, Update, FrameOver, Rounds
<1>3. CASE BeginFrame
  BY <1>3, RoundsBegin
<1>4. CASE CascadeRound
  BY <1>4, RoundsRound
<1>5. CASE CascadeEnds
  <2>1. pc = "cascade" /\ pc' = "cascaded"
    BY <1>5 DEF CascadeEnds
  <2>2. UNCHANGED <<tracks, dets, near, matches>>
    BY <1>5 DEF CascadeEnds, frame
  <2> QED BY <2>1, <2>2 DEF Rounds, MatchedTracks, Confirmed, Alive
<1>6. CASE MatchIou
  BY <1>6 DEF MatchIou, Rounds
<1>7. CASE UNCHANGED vars
  <2>1. UNCHANGED <<pc, tracks, dets, near, matches, remaining, age>>
    BY <1>7 DEF vars, frame
  <2> QED BY <2>1 DEF Rounds, MatchedTracks, Confirmed, Alive
<1> QED BY <1>1, <1>2, <1>3, <1>4, <1>5, <1>6, <1>7 DEF Next

(* The cascade gives a detection to the most recently seen of the tracks   *)
(* that are close to it, unless that track has got another one: for any    *)
(* number of rounds, and whichever cheapest assignment each round takes.   *)
THEOREM RecentTracksFirst == Spec => []RecentFirst
<1>1. Init => Shape /\ Rounds
  BY ShapeInit DEF Init, Rounds
<1>2. Shape /\ Rounds /\ [Next]_vars => (Shape /\ Rounds)'
  BY ShapeKept, RoundsKept
<1>3. Shape /\ Rounds => RecentFirst
  BY DEF Rounds, RecentFirst
<1> QED BY <1>1, <1>2, <1>3, PTL DEF Spec

-----------------------------------------------------------------------------
(* ConfirmedInARow needs to know that the age of a tentative track counts  *)
(* matches without a gap, and that none escapes MatchIou unnoticed: a      *)
(* tentative track that is not matched there is missed, and dies.          *)
Counted ==
  /\ streak \in [Slots -> Nat]
  /\ \A k \in Alive :
       tracks[k].state = "TENTATIVE" => tracks[k].age <= streak[k] + 1
  /\ pc = "update" =>
       \A k \in Alive : tracks[k].state = "TENTATIVE" =>
         k \in MatchedTracks(matches) \union unmatched

(* Where the age of a track comes from when a frame is over.               *)
LEMMA UpdateAges ==
  ASSUME Shape, Update, NEW k \in Slots, tracks'[k] # NoTrack
  PROVE  \/ /\ k \notin Alive
            /\ tracks'[k].state = "TENTATIVE" /\ tracks'[k].age = 1
         \/ /\ k \in Alive /\ k \in MatchedTracks(matches)
            /\ tracks'[k].age \in {tracks[k].age, tracks[k].age + 1}
            /\ tracks'[k].state = IF Promoted(tracks[k]) THEN "CONFIRMED"
                                  ELSE tracks[k].state
         \/ /\ k \in unmatched /\ k \in Alive
            /\ tracks'[k].state = tracks[k].state
            /\ tracks[k].state # "TENTATIVE"
         \/ /\ k \in Alive \ (MatchedTracks(matches) \union unmatched)
            /\ tracks'[k] = tracks[k]
<1> DEFINE P == NowConfirmed
           DetOf(j) == CHOOSE d \in DOMAIN dets : <<d, j>> \in matches
           After(ids) == [j \in Slots |->
             IF j \in MatchedTracks(matches)
             THEN Updated(tracks[j], DetOf(j), IF j \in P THEN ToInt(ids[j]) ELSE -1)
             ELSE IF j \in unmatched THEN MarkMiss(tracks[j])
             ELSE tracks[j]]
<1>0. P \in SUBSET Slots
  BY DEF NowConfirmed, Shape, Alive
<1>1. PICK ids \in NewIds(P), at \in Places(Slots \ Alive, remaining) :
        tracks' = [j \in Slots |->
             IF j \in Alive /\ Dead(After(ids)[j]) THEN NoTrack
             ELSE WithNewTracks(After(ids), dets, at, remaining)[j]]
  BY DEF Update, NowConfirmed
<1> DEFINE after == After(ids)
<1>2. CASE k \notin Alive
  <2>1. after[k] = NoTrack
    BY <1>2, AliveTrack DEF Shape
  <2> HIDE DEF after
  <2>2. tracks'[k] = WithNewTracks(after, dets, at, remaining)[k]
    BY <1>1, <1>2 DEF after
  <2>3. \/ \E kind : tracks'[k] = NewTrack(kind)
        \/ tracks'[k] = after[k]
    BY <2>2 DEF WithNewTracks
  <2> QED BY <1>2, <2>1, <2>3, NewTrackType
<1>3. CASE k \in Alive
  <2>1. tracks[k] \in Objects /\ nn_budget \in Nat /\ n_init \in Nat
    BY AliveTrack, <1>3 DEF Shape
  <2>2. tracks'[k] = after[k] /\ ~Dead(after[k])
    <3> HIDE DEF after
    <3>1. ~\E d \in remaining : at[d] = k
      BY <1>1, <1>3 DEF Places
    <3>2. WithNewTracks(after, dets, at, remaining)[k] = after[k]
      BY <3>1 DEF WithNewTracks
    <3> QED BY <1>1, <1>3, <3>2 DEF after
  <2>3. CASE k \in MatchedTracks(matches)
    <3> DEFINE id == IF k \in P THEN ToInt(ids[k]) ELSE -1
    <3>1. after[k] = Updated(tracks[k], DetOf(k), id)
      BY <2>3
    <3>2. id \in Int
      BY <1>0, NewIdsAreNew, ToIntType
    <3> HIDE DEF DetOf, after, id, P
    <3> QED BY <1>3, <2>1, <2>2, <2>3, <3>1, <3>2, UpdatedType
  <2>4. CASE k \notin MatchedTracks(matches) /\ k \in unmatched
    <3>1. after[k] = MarkMiss(tracks[k])
      BY <2>4
    <3> HIDE DEF after
    <3>2. MarkMiss(tracks[k]).state # "DELETED"
      BY <2>2, <3>1 DEF Dead
    <3>3. tracks[k].state = "TENTATIVE" => MarkMiss(tracks[k]).state = "DELETED"
      BY <2>1 DEF MarkMiss, Objects
    <3> QED BY <1>3, <2>1, <2>2, <2>4, <3>1, <3>2, <3>3, Missed
  <2>5. CASE k \notin MatchedTracks(matches) /\ k \notin unmatched
    <3>1. after[k] = tracks[k]
      BY <2>5
    <3> HIDE DEF after
    <3> QED BY <1>3, <2>2, <2>5, <3>1
  <2> QED BY <2>3, <2>4, <2>5
<1> QED BY <1>2, <1>3

(* The end of a frame counts a match of a tentative track, and confirms it *)
(* after enough of them.                                                   *)
LEMMA UpdateCounted ==
  ASSUME Shape, Counted, Update
  PROVE  /\ Counted'
         /\ \A k \in Slots :
              /\ tracks[k] # NoTrack /\ tracks'[k] # NoTrack
              /\ tracks[k].state = "TENTATIVE" /\ tracks'[k].state = "CONFIRMED"
              => streak'[k] >= n_init
<1>1. /\ pc = "update" /\ pc' = "idle"
      /\ streak' = [k \in Slots |->
           IF k \in MatchedTracks(matches) /\ tracks[k].state = "TENTATIVE"
           THEN streak[k] + 1 ELSE 0]
  BY DEF Update, FrameOver
<1>2. streak' \in [Slots -> Nat]
  BY <1>1 DEF Counted
<1>3. ASSUME NEW k \in Slots, tracks'[k] # NoTrack, tracks'[k].state = "TENTATIVE"
      PROVE  tracks'[k].age <= streak'[k] + 1
  <2>1. CASE k \notin Alive /\ tracks'[k].age = 1
    BY <1>2, <2>1
  <2>2. CASE /\ k \in Alive /\ k \in MatchedTracks(matches)
             /\ tracks'[k].age \in {tracks[k].age, tracks[k].age + 1}
             /\ tracks[k].state = "TENTATIVE"
    <3>1. tracks[k].age <= streak[k] + 1 /\ streak'[k] = streak[k] + 1
      BY <1>1, <2>2 DEF Counted
    <3>2. tracks[k].age \in Nat /\ streak[k] \in Nat
      BY <2>2, AliveTrack DEF Objects, Counted
    <3> QED BY <2>2, <3>1, <3>2
  <2>3. ASSUME k \in Alive \ (MatchedTracks(matches) \union unmatched),
               tracks'[k] = tracks[k]
        PROVE  FALSE
    BY <1>1, <1>3, <2>3 DEF Counted
  <2> QED BY <1>3, <2>1, <2>2, <2>3, UpdateAges
<1>4. ASSUME NEW k \in Slots, tracks[k] # NoTrack, tracks'[k] # NoTrack,
             tracks[k].state = "TENTATIVE", tracks'[k].state = "CONFIRMED"
      PROVE  streak'[k] >= n_init
  <2>1. k \in Alive
    BY <1>4 DEF Alive
  <2>2. k \in MatchedTracks(matches) /\ Promoted(tracks[k])
    BY <1>4, <2>1, UpdateAges
  <2>3. tracks[k].age <= streak[k] + 1 /\ streak'[k] = streak[k] + 1
    BY <1>1, <1>4, <2>1, <2>2 DEF Counted
  <2>4. tracks[k].age + 1 > n_init
    BY <2>2 DEF Promoted
  <2>5. tracks[k].age \in Nat /\ streak[k] \in Nat /\ n_init \in Nat
    BY <2>1, AliveTrack DEF Objects, Counted, Shape
  <2> QED BY <2>3, <2>4, <2>5
<1> QED BY <1>1, <1>2, <1>3, <1>4 DEF Counted, Alive

(* A step that leaves the state and the age of tentative tracks as they    *)
(* were, and starts new ones at one, counts as before.                     *)
LEMMA CountCarried ==
  ASSUME Counted, streak' = streak, pc' # "update",
         \A k \in Slots : tracks'[k] # NoTrack /\ tracks'[k].state = "TENTATIVE" =>
           \/ tracks'[k].age = 1
           \/ /\ tracks[k] # NoTrack /\ tracks[k].state = "TENTATIVE"
              /\ tracks'[k].age = tracks[k].age
  PROVE  Counted'
BY DEF Counted, Alive

(* Every step keeps the counts, and confirms only after n_init matches in  *)
(* a row.                                                                  *)
LEMMA CountedKept ==
  Shape /\ Counted /\ [Next]_vars =>
    /\ Counted'
    /\ \A k \in Slots :
         /\ tracks[k] # NoTrack /\ tracks'[k] # NoTrack
         /\ tracks[k].state = "TENTATIVE" /\ tracks'[k].state = "CONFIRMED"
         => streak'[k] >= n_init
<1> SUFFICES ASSUME Shape, Counted, [Next]_vars
             PROVE  /\ Counted'
                    /\ \A k \in Slots :
                         /\ tracks[k] # NoTrack /\ tracks'[k] # NoTrack
                         /\ tracks[k].state = "TENTATIVE"
                         /\ tracks'[k].state = "CONFIRMED"
                         => streak'[k] >= n_init
  OBVIOUS
<1>1. CASE SetParams \/ CascadeRound \/ CascadeThrows \/ CascadeEnds
  <2>1. tracks' = tracks /\ streak' = streak /\ pc' # "update"
    BY <1>1 DEF SetParams, CascadeRound, CascadeThrows, CascadeEnds, FrameOver,
       history, Shape
  <2> QED BY <2>1, CountCarried
<1>2. CASE FirstFrame
  <2>1. streak' = streak /\ pc' # "update" /\ Alive = {}
    BY <1>2 DEF FirstFrame, FrameOver
  <2>2. \A k \in Slots : tracks'[k] # NoTrack => tracks'[k].age = 1
    BY <1>2, FirstFrameTracks
  <2> QED BY <2>1, <2>2, CountCarried DEF Alive
<1>3. CASE BeginFrame
  <2>1. streak' = streak /\ pc' # "update"
    BY <1>3 DEF BeginFrame, history
  <2>2. \A k \in Slots : tracks'[k] # NoTrack =>
          /\ tracks[k] # NoTrack
          /\ tracks'[k].state = tracks[k].state /\ tracks'[k].age = tracks[k].age
    BY <1>3, BeginFrameTracks DEF Alive
  <2> QED BY <2>1, <2>2, CountCarried
<1>4. CASE MatchIou
  <2>1. pc = "cascaded" /\ streak' = streak
    BY <1>4 DEF MatchIou, history
  <2>2. \A k \in Slots : tracks'[k] # NoTrack =>
          /\ tracks[k] # NoTrack
          /\ tracks'[k].state \in {tracks[k].state, "DELETED"}
          /\ tracks'[k].age = tracks[k].age
    BY <1>4, MatchIouTracks DEF Alive
  <2> DEFINE candidates == (Alive \ Confirmed(tracks, Alive)) \union FirstMissed
  <2>3. PICK M \in SUBSET (remaining \X candidates) :
          /\ matches' = matches \union M
          /\ unmatched' = candidates \ MatchedTracks(M)
    BY <1>4 DEF MatchIou
  <2>4. \A k \in Alive : tracks[k].state = "TENTATIVE" => k \in candidates
    BY DEF Confirmed
  <2> HIDE DEF candidates
  <2>5. candidates \subseteq MatchedTracks(matches') \union unmatched'
    BY <2>3 DEF MatchedTracks
  <2> QED BY <2>1, <2>2, <2>4, <2>5 DEF Counted, Alive, MatchedTracks
<1>5. CASE Update
  BY <1>5, UpdateCounted
<1>6. CASE UNCHANGED vars
  <2>1. UNCHANGED <<pc, tracks, matches, unmatched, streak>>
    BY <1>6 DEF vars, frame, history
  <2> QED BY <2>1 DEF Counted, Alive, MatchedTracks
<1> QED BY <1>1, <1>2, <1>3, <1>4, <1>5, <1>6 DEF Next

(* A track is confirmed only in a frame that completes n_init matches in a *)
(* row, whatever exceptions and changes of n_init came between.            *)
THEOREM ConfirmedAfterARow == Spec => ConfirmedInARow
<1> DEFINE Earned ==
      \A k \in Slots :
        /\ tracks[k] # NoTrack /\ tracks'[k] # NoTrack
        /\ tracks[k].state = "TENTATIVE" /\ tracks'[k].state = "CONFIRMED"
        => streak'[k] >= n_init
<1>1. Init => Shape /\ Counted
  BY ShapeInit DEF Init, Counted, Alive
<1>2. Shape /\ Counted /\ [Next]_vars => (Shape /\ Counted)' /\ [Earned]_vars
  BY ShapeKept, CountedKept
<1>3. Spec => [][Earned]_vars
  <2> HIDE DEF Earned
  <2> QED BY <1>1, <1>2, PTL DEF Spec
<1> QED BY <1>3 DEF ConfirmedInARow
-----------------------------------------------------------------------------
(* The lists of a frame hold detections and slots.                         *)
Lists ==
  /\ remaining \in SUBSET Detections
  /\ near \in SUBSET (Detections \X Slots)
  /\ matches \in SUBSET (Detections \X Slots)

(* The lists begin with the detections of the frame and lose or pair them. *)
LEMMA ListsKept ==
  Shape /\ Lists /\ [Next]_vars => Lists'
<1> SUFFICES ASSUME Shape, Lists, [Next]_vars PROVE Lists'
  OBVIOUS
<1> USE DEF Lists
<1>1. CASE SetParams \/ CascadeEnds
  BY <1>1 DEF SetParams, CascadeEnds, frame
<1>2. ASSUME FrameOver PROVE Lists'
  BY <1>2 DEF FrameOver
<1>3. CASE FirstFrame \/ CascadeThrows \/ Update
  BY <1>2, <1>3 DEF FirstFrame, CascadeThrows, Update
<1>4. CASE BeginFrame
  <2>1. PICK f \in Frames :
          /\ remaining' = DOMAIN f
          /\ near' \in SUBSET ((DOMAIN f) \X Confirmed(tracks, Alive))
    BY <1>4 DEF BeginFrame
  <2>2. DOMAIN f \subseteq Detections
    BY DEF Frames
  <2>3. Confirmed(tracks, Alive) \subseteq Slots
    BY DEF Confirmed, Alive
  <2>4. matches' = {}
    BY <1>4 DEF BeginFrame
  <2> QED BY <2>1, <2>2, <2>3, <2>4
<1>5. CASE CascadeRound
  <2>1. PICK M \in CascadeMatches(remaining, Group) :
          matches' = matches \union M /\ remaining' = remaining \ MatchedDets(M)
    BY <1>5 DEF CascadeRound
  <2>2. M \subseteq near
    BY DEF CascadeMatches
  <2>3. near' = near
    BY <1>5 DEF CascadeRound
  <2> QED BY <2>1, <2>2, <2>3
<1>6. CASE MatchIou
  <2> DEFINE candidates == (Alive \ Confirmed(tracks, Alive)) \union FirstMissed
  <2>1. PICK M \in SUBSET (remaining \X candidates) :
          matches' = matches \union M /\ remaining' = remaining \ MatchedDets(M)
    BY <1>6 DEF MatchIou
  <2>2. candidates \subseteq Slots
    BY DEF Alive, FirstMissed, Shape
  <2>3. near' = near
    BY <1>6 DEF MatchIou
  <2> HIDE DEF candidates
  <2> QED BY <2>1, <2>2, <2>3
<1>7. CASE UNCHANGED vars
  BY <1>7 DEF vars, frame
<1> QED BY <1>1, <1>3, <1>4, <1>5, <1>6, <1>7 DEF Next

(* Tracks, lists, ids and counts keep their types, for any number of       *)
(* tracks, detections and parameters.                                      *)
THEOREM TypeCorrect == Spec => []TypeOK
<1> DEFINE All == Shape /\ Outage /\ Ids /\ Counted /\ Lists
<1>1. Init => All
  <2>1. Init => Counted
    BY DEF Init, Counted, Alive
  <2>2. Init => Lists
    BY DEF Init, Lists
  <2> QED BY <2>1, <2>2, ShapeInit, OutageInit, IdsInit
<1>2. All /\ [Next]_vars => All'
  BY ShapeKept, OutageKept, IdsKept, CountedKept, ListsKept
<1>3. All => TypeOK
  <2> SUFFICES ASSUME All PROVE TypeOK
    OBVIOUS
  <2>1. unmatched \in SUBSET Slots
    BY DEF Shape, Alive
  <2>2. given \in Seq(Int) /\ rank \in [Slots -> Nat]
    BY DEF Ids
  <2> QED BY <2>1, <2>2 DEF Shape, Outage, Counted, Lists, TypeOK
<1> HIDE DEF All
<1> QED BY <1>1, <1>2, <1>3, PTL DEF Spec
=============================================================================
