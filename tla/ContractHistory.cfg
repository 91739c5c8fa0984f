SPECIFICATION Spec
CONSTANTS
  Project = {p1}
  t1 = t1
  t2 = t2
  original = original
  extended = extended
  Thread = {t1, t2}
  Doc = {original, extended}
  Breaks <- GoingBackBreaks
  MaxRequests = 4
  NoVersion = NoVersion
SYMMETRY ThreadSymmetry
INVARIANTS
  RollbackRestores
  AlertsSound
  LoneBreakAlerted
  SavedVersionsStand
  DeletedStaysDeleted
PROPERTIES
  HistoryKept
  ImplementsLog
