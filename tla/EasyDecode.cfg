\* Two application threads: both feed and end, one aborts; one output buffer.
CONSTANTS
  Owner = owner
  Users = {owner, feeder}
  Loop = loop
  Codec = codec
  NoThread = none
  EosCallers = {owner, feeder}
  Aborters = {feeder}
  OutBufs = 1
  MaxPackets = 2
  MaxFatal = 1
  CreateMayFail = TRUE
  FeedMayFail = TRUE
SPECIFICATION FairSpec
INVARIANTS EosFedOnce JoinedBeforeFree
PROPERTIES StatusEnds SessionPromise DestroyReturns EosReported
CHECK_DEADLOCK FALSE
