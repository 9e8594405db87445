\* Two service threads and the scheduler, two users.  A client may stop at any wait.
SPECIFICATION FairSpec
CONSTANTS
  Services = {c1, c2}
  Scheduler = th3
  Names = {u1, u2}
  Passwords = {x, y}
  CHAR_MAX = 0
  Procs = {p1}
  MaxLen = 2
  MaxWork = 3
  None = None
CHECK_DEADLOCK FALSE
INVARIANTS
  TypeOK
  IdsUnique
  ProcsWhole
PROPERTIES
  LogonKeeps
  
