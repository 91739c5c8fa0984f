SPECIFICATION Spec
CONSTANTS
  None = None
  people = people
  pings = pings
  pongs = pongs
  broken = broken
  rest = rest
  h1 = h1
  h2 = h2
  Project = {p1}
  Handler = {h1, h2}
  Contract = {people, pings, pongs, broken, rest}
  Compiles <- MCCompiles
  FormatOf <- MCFormatOf
  Compiled <- MCCompiled
  Asked <- MCAsked
  MaxCachedSchemas = 2
  MaxRequests = 4
  MaxQueryDepth = 3
  MaxMockListSize = 4
INVARIANTS
  CacheConsistent
  KeepsLastUsed
  TopLevelMergedPerSpec
  RefusesWhatItCannotServe
CHECK_DEADLOCK FALSE
