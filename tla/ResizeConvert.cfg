\* Two queues, two Marks, batches of two, at most two indices in a queue.
SPECIFICATION SpecDevice
CONSTANTS
  Queues = {q1, q2}
  NoQueue = NoQueue
  Marks = {m1, m2}
  NoMark = NoMark
  Callers = {c1, c2}
  InitMarkNum = 1
  MarksMaxNum = 1
  BatchSize = 2
  MaxInputs = 2
SYMMETRY DeviceSymmetry
INVARIANTS
  MarkOwnsIndex
  SpoiledNotReused
PROPERTIES
  OnlyMarksTakeIndices
  BatchInOrder
