\* The claim of tqueue.c:251 on two agents and two slots.
SPECIFICATION Spec
CONSTANTS
  Agents = {a1, a2}
  N = 2
  MAX_SERVICE_THREAD = 1
  NoAgent = NoAgent
CHECK_DEADLOCK FALSE
INVARIANT
  SlotNotShared
