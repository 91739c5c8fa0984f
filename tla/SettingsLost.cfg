SPECIFICATION Spec
CONSTANTS
  a = a
  b = b
  Patcher = {a, b}
  Server = {}
  Patch <- ProxyPatches
  Url = {"http://up"}
  MaxPatches = 3
  TornFields = {}
  NoOne = NoOne
  Torn = Torn
SYMMETRY PatcherSymmetry
INVARIANTS
  OnlyPresentFieldsModified
