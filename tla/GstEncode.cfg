CONSTANTS
  App = app
  Streamer = streamer
  Loop = loop
  Codec = codec
  NoThread = none
  MaxEncoders = 2
  MaxFrames = 1
  MaxQueue = 1
  MaxFailures = 2
SPECIFICATION FairSpec
PROPERTIES SessionsKept DestroyReturns EosReachesDownstream
CHECK_DEADLOCK FALSE
