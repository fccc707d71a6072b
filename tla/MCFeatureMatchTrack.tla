-------------------------- MODULE MCFeatureMatchTrack --------------------------
(* The places of tracks are interchangeable. *)
EXTENDS FeatureMatchTrack, TLC

SlotSymmetry == Permutations(Slots)
=============================================================================
