\* Three agents over two slots: slots are shared once the ring has wrapped.
\* The queue may really stop: an agent whose wake-up was lost sleeps for ever.
SPECIFICATION Spec
CONSTANTS
  Agents = {a1, a2, a3}
  N = 2
  MAX_SERVICE_THREAD = 1
  NoAgent = NoAgent
SYMMETRY AgentSymmetry
CHECK_DEADLOCK FALSE
INVARIANTS
  NoOverrun
  WakeupsCovered
  AnswerIsOwn
  SpaceNotShared
  ScanSucceeds
  StartOnlyAccepted
  RoundInv
