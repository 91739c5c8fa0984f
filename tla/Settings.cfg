SPECIFICATION Spec
CONSTANTS
  a = a
  b = b
  Patcher = {a, b}
  Server = {s}
  Patch <- AllPatches
  Url = {"http://up"}
  MaxPatches = 2
  TornFields = {"validationMode", "upstreamUrl", "proxyMode"}
  NoOne = NoOne
  Torn = Torn
SYMMETRY PatcherSymmetry
INVARIANTS
  StoredSettingsValid
  LonePatchExact
  ServedByAModeInForce
