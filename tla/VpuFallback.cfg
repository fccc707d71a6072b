CONSTANTS
  Feeders = {u1, u2}
  Timestamps = {7, 9}
  KeyValues = 4
  None = None
SPECIFICATION SpecTimestamps
INVARIANT ElseTheDecodersPts
