\* Two workers, two scripts of nine kinds over four tables, of which two can be open.
\* The system may really stop: every worker is idle when MaxScripts scripts have run,
\* or waits, or the model has ended where the code is undefined.
SPECIFICATION FairSpec
CONSTANTS
  A = A
  B = B
  C = C
  D = D
  None = None
  Files = {A, B, C, D}
  Opable = {A}
  Missing = {D}
  Forbidden = {C}
  Workers = {1, 2}
  HandleNum = 2
  LockNum = 2
  Tries = 1
  MaxScripts = 2
  RecNum <- MCRecNum
  Scripts <- MCScripts
CHECK_DEADLOCK FALSE
INVARIANTS
  InUseStaysOpen
  RecordHeld
  BlocksExplained
  TablesInv
PROPERTIES
  ImplementsTransactions
  ScriptEnds
