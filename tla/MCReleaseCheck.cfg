SPECIFICATION Spec
CONSTANTS
  None = None
  Torn = Torn
  Dash = Dash
  Suites <- MCSuites
  Levels <- MCLevels
  Files <- MCFiles
  Start <- MCStart
  MaxEdits = 2
INVARIANTS
  CleanMeansTrue
  WriteRepairs
