SPECIFICATION Spec
CONSTANTS
  Program <- MCProgram
  MaxSessions <- MCMaxSessions
  MaxFaults <- MCMaxFaults
INVARIANTS
  TypeOK
  StatusTellsTruth
  CleanSessionFillsTables
  LinesMatchRuns
PROPERTIES
  SavedResultKept
\* the user starts no more than MaxSessions sessions
CHECK_DEADLOCK FALSE
