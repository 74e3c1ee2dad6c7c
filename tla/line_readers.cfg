\* Three files for two readers; files change only while they are not being read.
SPECIFICATION Spec
CONSTANTS
  Paths = {p1, p2, p3}
  MaxReaders = 2
  MaxSize = 2
  Grows = FALSE
INVARIANTS
  TypeOK
  LinesFit
PROPERTIES
  ImplementsCursors
