\* The loops and switch, bodies with and without braces, jumps out of bodies
\* that owe nothing.
CONSTANTS
  Features = {"Decl", "Defer", "Return", "Break", "Continue", "If", "Single",
              "For", "Switch"}
  MaxStmts = 4
  MaxNesting = 4
  MaxCases = 2
SPECIFICATION Spec
PROPERTIES KeepsPromise
