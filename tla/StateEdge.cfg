SPECIFICATION LiveSpec
CONSTANTS
  MaxInt = 3
  Project = {p1}
  Collection = {users}
  Thread = {t1, t2}
  t1 = t1
  t2 = t2
  v = v
  uuid1 = uuid1
  Texts = {uuid1}
  Field = {f}
  Value = {v}
  Unset = Unset
  Body <- EdgeBodies
  SeedList <- Seeds
  StringIds = {}
  AddressedKey = {3}
  MaxRequests = 3
  NoThread = NoThread
  NoFile = NoFile
  Torn = Torn
INVARIANTS
  DrawnIdIsFree
PROPERTIES
  EveryRequestAnswered
