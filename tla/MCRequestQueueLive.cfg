\* Two agents that connect again and again; liveness under the fairness of threads.
SPECIFICATION FairSpec
CONSTANTS
  Agents = {a1, a2}
  N = 2
  MAX_SERVICE_THREAD = 1
  NoAgent = NoAgent
CHECK_DEADLOCK FALSE
PROPERTIES
  Connects
  Drains
