\* Every program with at most 4 choices that are not plain; with at most 2 it may be given a fault.
SPECIFICATION Spec
CONSTANTS
  MaxErrors = 6
  Features = {"Class", "Pointer", "Generic", "Name", "Less", "More", "Call", "GenericCall", "Times", "Ternary",
              "Convert", "Index", "New", "Lambda", "LambdaOf", "Assign", "Store", "Method", "Decl", "Const", "Owner",
              "Array", "Block", "If", "IfElse", "While", "DoWhile", "For", "ForEach", "Switch", "Try", "Finally",
              "Return", "Defer", "Break", "Throw", "Constructor", "Destructor", "Abstract", "Operator", "MadeHere",
              "GenericFunction", "ClassDecl", "Derived", "Interface", "Extern", "Namespace", "Include", "Attribute"}
  MaxChoices = 4
  MaxFaulty = 2
  Faults = {"}", ";", "<", "big"}
INVARIANTS
  TypeOK
  ParsesWhatWasWritten
PROPERTY
  Terminates
