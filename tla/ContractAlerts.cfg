SPECIFICATION Spec
CONSTANTS
  Project = {p1}
  t1 = t1
  t2 = t2
  original = original
  extended = extended
  Thread = {t1, t2}
  Doc = {original, extended}
  Breaks <- GoingBackBreaks
  MaxRequests = 3
  NoVersion = NoVersion
INVARIANT EveryBreakAlerted
