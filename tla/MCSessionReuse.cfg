\* Two sessions, one after the other in one buffer. They may really stop: see MCSession.cfg.
SPECIFICATION Spec
CONSTANTS
  Sessions = {s1, s2}
  BUFFERS = 1
  Requests = {"data", "unknown"}
  Failures = {"early", "thread", "read"}
  Outsider = Outsider
  None = None
CHECK_DEADLOCK FALSE
SYMMETRY SessionSymmetry
CONSTRAINT BeforeTrespass
INVARIANTS
  NoLostPacket
  ReadsFresh
  BufferOwned
  SessionInv
