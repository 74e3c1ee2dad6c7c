\* A list that grows from one slot, a map of two buckets; lists of at most 4, values few.
SPECIFICATION Spec
CONSTANTS
  Strings = {Empty, a, b}
  Texts = {a}
  Empty = Empty
  NullString = NullString
  Numbers = {Zero, one}
  Zero = Zero
  InitCapacity = 1
  BucketCount = 2
  MaxLen = 4
INVARIANTS
  TypeOK
  BlocksOwnedOnce
  LookupsAgree
PROPERTIES
  ImplementsContainers
