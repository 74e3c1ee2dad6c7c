\* A return inside a try.
CONSTANTS
  Features = {"Try", "Return", "ReturnPast"}
  MaxStmts = 3
  MaxNesting = 3
  MaxCases = 2
SPECIFICATION Spec
INVARIANTS HandlersMatchNesting
