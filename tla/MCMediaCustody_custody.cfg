SPECIFICATION Spec
CONSTANTS
  Files = {f1}
  Sweepers = {s1, s2}
  Releasers = {r1}
  Purgers = {p1, p2}
SYMMETRY ActorSymmetry
INVARIANTS TypeOK WithheldUnlessOverlapped LossIsExplained
CHECK_DEADLOCK FALSE
