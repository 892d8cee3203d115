CONSTANTS
  Texts <- SomeTexts
  Numbers <- SomeNumbers
  Reprint <- SomeReprint
  EnvNames <- DocumentedNames
  DotenvNames <- DocumentedNames
  FilePaths <- SomePaths
  NoFile = NoFile
  Malformed = Malformed
SPECIFICATION Spec
CHECK_DEADLOCK FALSE
INVARIANT VariablesSetTheirFields
