\* One caller who asks twice, and a close.
SPECIFICATION Spec
CONSTANTS
  a1 = a1
  n1 = n1
  n2 = n2
  Callers = {a1}
  NoteOf <- Notes
  theirs = n2
  MaxRecords = 1
  MaxAsks = 2
  MaxCloses = 1
  MaxFailures = 0
INVARIANT FlagAgrees
