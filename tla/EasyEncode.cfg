CONSTANTS
  Owner = owner
  Users = {owner, feeder}
  Loop = loop
  Codec = codec
  NoThread = none
  EosCallers = {feeder}
  Aborters = {owner}
  InputBufs = 2
  MaxFrames = 2
  MaxFailures = 2
SPECIFICATION FairSpec
INVARIANTS JoinedBeforeFree
PROPERTIES SessionPromise DestroyReturns EosReported
CHECK_DEADLOCK FALSE
