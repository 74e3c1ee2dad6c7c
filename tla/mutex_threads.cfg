\* Three threads, some with the try inside and some with it outside; work throws if none is outside.
SPECIFICATION Spec
CONSTANTS
  Threads = {t1, t2, t3}
  None = None
  Shapes = {"inside", "outside"}
  Disciplined = TRUE
  Rounds = 2
  MaxCalls = 4
  MaxHandlers = 4
INVARIANTS
  TypeOK
  ThrowsStayHome
  UnlockedAtScopeEnd
PROPERTIES
  EveryoneFinishes
