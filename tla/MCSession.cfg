\* One session to its end. It may really stop: its threads end, or sleep when it leaks.
SPECIFICATION FairSpec
CONSTANTS
  Sessions = {s1}
  BUFFERS = 1
  Requests = {"data", "single", "multi"}
  Failures = {"abandon", "long", "thread"}
  Outsider = Outsider
  None = None
CHECK_DEADLOCK FALSE
PROPERTIES
  Dialogues
  LoopEndsUnlessSwallowed
  Answered
