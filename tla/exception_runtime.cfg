\* A small array that fills up, and a table with room for every class.
CONSTANTS
  Handlers = {h1, h2}
  NoEnv = NoEnv
  MaxHandlers = 3
  Types = {t1, t2, t3, t4}
  NoType = NoType
  MaxTypes = 3
SPECIFICATION Spec
INVARIANTS TypeOK UsedSlotsFilled TypeTestIsSubclass
PROPERTIES ImplementsStack
