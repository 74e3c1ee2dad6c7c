\* Programs that keep to what does not depend on the context, and a vector with room for the instances.
SPECIFICATION Spec
CONSTANTS
  Vars = {"x"}
  Written = {"fields", "method", "function"}
  MaxEvents = 3
  MaxScopes = 3
  Room = 6
  Liberties = {}
INVARIANTS
  TypeOK
  JudgesLexically
  CapturesExact
  EveryDeclarationOnce
  ClassesComplete
