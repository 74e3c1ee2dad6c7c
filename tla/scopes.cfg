\* Functions without loops or exceptions: scopes, branches, returns, moves,
\* and lambdas in functions that owe nothing when the lambda returns.
CONSTANTS
  Features = {"Decl", "Defer", "Move", "Return", "Block", "If", "Else", "Lambda"}
  MaxStmts = 5
  MaxNesting = 4
  MaxCases = 2
SPECIFICATION Spec
PROPERTIES KeepsPromise
