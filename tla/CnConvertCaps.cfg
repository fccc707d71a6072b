CONSTANTS
  Mems = {m1, m2, m3}
  NoMem = NoMem
  Resolutions = {1, 2}
  MaxFrames = 2
  KernelMayFail = TRUE
  MaxLost = 1
SPECIFICATION Spec
INVARIANTS FreedOnce
CHECK_DEADLOCK FALSE
SYMMETRY Symmetry
