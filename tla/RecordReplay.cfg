SPECIFICATION LiveSpec
CONSTANTS
  t1 = t1
  t2 = t2
  k = k
  byId = byId
  byName = byName
  Thread = {t1, t2}
  Key = {k}
  Template = {byId, byName}
  Contracts <- MCContracts
  MaxRequests = 3
  MaxWrites = 1
  NoThread = NoThread
  NoKey = NoKey
  NoRequest = NoRequest
CHECK_DEADLOCK FALSE
INVARIANTS
  OneRulePerRequest
  AnsweredFromThenOn
PROPERTIES
  EveryRequestAnswered
