\* Two headers that may exist beside the source, in the library, or both; two C sources, one C header.
SPECIFICATION Spec
CONSTANTS
  Names = {a, b}
  Main = Main
  Own = Own
  MaxItems = 2
  MaxTotal = 4
  MixedForms = FALSE
  CFiles = 2
  CHeaders = 1
  StaleObject = FALSE
  EmitFails = TRUE
INVARIANTS
  TypeOK
  DeclarationsMerged
  LibrariesLinked
  BuildIsHonest
  LeavesOnlyItsOutput
PROPERTY
  Terminates
