\* Three identities, two detections a frame, features that may be missing.
SPECIFICATION Spec
CONSTANTS
  Slots = {s1, s2, s3}
  NoTrack = NoTrack
  Detections = {1, 2}
  FeatureKinds = {"vector", "zeros", "none"}
  MaxAges = {1, 2}
  NInits = {1, 2}
  NNBudgets = {1, 2}
  IdValues = 4
  MaxIds = 5
INVARIANTS
  EachOnce
  RecentFirst
  IdNamesOneTrack
  BoundedOutage
PROPERTY ConfirmedInARow
SYMMETRY SlotSymmetry
