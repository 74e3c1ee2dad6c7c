\* Every text without dead code and without a finally that has no catch;
\* in lambdas nothing reaches what belongs to the function around.
CONSTANTS
  Features = {"Decl", "Defer", "Move", "Delete", "Return", "Call", "Throw",
              "Break", "Continue", "Block", "If", "Else", "Single", "While",
              "DoWhile", "For", "ForEach", "Switch", "Try", "Finally", "CatchSome",
              "Lambda", "Scopeless", "CondMove", "JumpPast", "ReturnPast",
              "ThrowPast"}
  MaxStmts = 3
  MaxNesting = 4
  MaxCases = 2
SPECIFICATION GenSpec
INVARIANTS TypeOK AcceptedByVerifier NestedScopes JumpTargets CleanAtEnd
\* The generator stops at the end of the text.
CHECK_DEADLOCK FALSE
