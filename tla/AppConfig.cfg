CONSTANTS
  Texts <- SomeTexts
  Numbers <- SomeNumbers
  Reprint <- SomeReprint
  EnvNames <- SomeEnvNames
  DotenvNames <- SomeDotenvNames
  FilePaths <- SomePaths
  NoFile = NoFile
  Malformed = Malformed
SPECIFICATION Spec
CHECK_DEADLOCK FALSE
INVARIANTS Precedence FailsForAReason
