SPECIFICATION Spec
CONSTANTS
  Within <- MCWithin
  RegexMatches <- MCRegexMatches
  BadRegex <- MCBadRegex
  NumberOf <- MCNumberOf
  Upper <- MCUpper
  NoRule = NoRule
  NoRecording = NoRecording
  NoFault = NoFault
  PercentBase = 4
  MaxLatency = 2
  DefaultHold = 3
  MaxHold = 5
  NoId = NoId
  NullId = NullId
  NoTool = NoTool
  BadArguments <- MCBadArguments
  RenderDecoded <- RenderValue
  p1 = p1
  p2 = p2
  api = api
  tools = tools
  doubled = doubled
  overrated = overrated
  t1 = t1
  t2 = t2
  Thread = {t1, t2}
  Project = {p1, p2}
  ContractOf <- MCContractOf
  Uploads <- MCUploads
  RuleBodies <- MCRuleBodies
  Stored <- MCStored
  Requests <- MCRequests
  Messages <- MCMessages
  Violating <- MCViolating
  ModesAtStart <- MCModes
  MaxEvents = 2
  None = None
  NoProject = NoProject
CHECK_DEADLOCK FALSE
INVARIANTS
  SelectsByRank
  FaultSlicesExact
  SavedBodiesStayJson
  CountersCountUses
  OneAnswerPerRequest
  ClientGetsWhatIsLogged
PROPERTIES
  EveryRequestEnds
