\* Two processes share the directory, one after the other or both at once: then
\* the second start recovers turns that the first is still running.
SPECIFICATION Spec
CONSTANTS
  Processes = {p1, p2}
  Turns = {t1, t2}
  MaxSequence = 4
  MaxStarts = 3
  Nobody = Nobody
SYMMETRY Symmetric
CHECK_DEADLOCK FALSE
INVARIANTS LogIsTheTruth
PROPERTIES RecoveryIsComplete
