\* Two clients that compete for one worker, whose scripts call scripts: ProcessDetach,
\* and asqlidle replacing the worker once.
\* The pool may really stop: a script that waits for the unit it holds.
SPECIFICATION FairSpec
CONSTANTS
  Callers = {c1, c2}
  N = 1
  MaxDepth = 2
  MaxKills = 1
  Numbers = 1
  CanDetach = TRUE
  MayBeLate = FALSE
  None = None
CHECK_DEADLOCK FALSE
PROPERTIES
  TaskEnds
  DetachEnds
  IdlerEnds
