SPECIFICATION Spec
CONSTANTS
  SchemaOf <- MCSchemaOf
  NoBody = NoBody
  NoSchema = NoSchema
  SuccessCodes = {"200"}
  MaxChanges = 3
  MaxSchemaDepth = 12
  MaxDiffCells = 12
  Tasks <- MCTasks
  Detected <- BreakingChanges
  NoDoc = NoDoc
  Latest = Latest
  Files <- MCFiles
  Unreadable = Unreadable
  Languages = {"go", "java"}
  Values <- MCValues
CHECK_DEADLOCK FALSE
INVARIANTS
  DiffReplays
  BreaksAreReported
  BreakingIsReal
  LanguagesAccountedFor
