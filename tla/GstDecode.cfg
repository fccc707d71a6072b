CONSTANTS
  App = app
  Streamer = streamer
  Loop = loop
  Codec = codec
  NoThread = none
  OutBufs = 1
  MaxDecoders = 2
  MaxPackets = 1
  MaxQueue = 1
  MaxFatal = 1
  CreateMayFail = TRUE
  FeedMayFail = TRUE
SPECIFICATION FairSpec
INVARIANTS FrameOfThisDecoder NoneLeftBehind DiesOnlyAfterFailure
PROPERTIES JoinedBeforeFree SessionsKept DestroyReturns EosReachesDownstream
CHECK_DEADLOCK FALSE
