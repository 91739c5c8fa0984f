SPECIFICATION HandlersOnlySpec
CONSTANTS
  Project = {p1, p2}
  Request = {r1, r2}
  Slots = 1
  MaxReports = 1
INVARIANTS
  ChecksBounded
  WaitSeesReports
  KeepsNewest
PROPERTIES
  SlotsComeBack
