\* Two clients and two workers, scripts that call scripts that call scripts; no worker is replaced.
\* The pool may really stop: scripts that wait for one another.
SPECIFICATION Spec
CONSTANTS
  Callers = {c1, c2}
  N = 2
  MaxDepth = 3
  MaxKills = 0
  Numbers = 2
  CanDetach = FALSE
  MayBeLate = FALSE
  None = None
CHECK_DEADLOCK FALSE
INVARIANTS
  TypeOK
  EntryOwned
  EndIsOwn
  UnitsCounted
  StopsExplained
PROPERTIES
  ServesTasks
