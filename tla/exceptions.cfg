\* try, catch and finally where nothing owed is crossed by an exception.
CONSTANTS
  Features = {"Decl", "Defer", "Return", "Break", "DoWhile", "Call", "Throw",
              "Try", "Finally", "CatchSome"}
  MaxStmts = 4
  MaxNesting = 5
  MaxCases = 2
SPECIFICATION Spec
INVARIANTS HandlersMatchNesting
PROPERTIES KeepsPromise
