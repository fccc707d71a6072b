CONSTANTS
  HostHeap = {h1, h2}
  DevHeap = {d1, d2}
  HostUser = {uh1, uh2}
  DevUser = {ud1}
  NULL = NULL
  MaxVersion = 4
SPECIFICATION Spec
INVARIANTS Coherent OwnsExactly
CHECK_DEADLOCK FALSE
