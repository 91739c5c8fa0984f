SPECIFICATION Spec
CONSTANTS
  MaxInt = 7
  Project = {p1}
  Collection = {users}
  Thread = {t1, t2}
  t1 = t1
  t2 = t2
  v = v
  uuid1 = uuid1
  Texts = {uuid1}
  Field = {f}
  Value = {v}
  Unset = Unset
  Body <- IdBodies
  SeedList <- Seeds
  StringIds = {}
  AddressedKey = {1, 2}
  MaxRequests = 3
  NoThread = NoThread
  NoFile = NoFile
  Torn = Torn
SYMMETRY ThreadSymmetry
INVARIANTS
  UniqueIds
  AcknowledgedKept
  RemovedStaysRemoved
  IdsNeverReused
  FileReadable
PROPERTIES
  ImplementsPromise
