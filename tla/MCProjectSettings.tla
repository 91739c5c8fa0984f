-------------------------- MODULE MCProjectSettings --------------------------
(***************************************************************************)
(* Small instances of ProjectSettings for TLC: patches that turn the proxy *)
(* on and off as a whole, that change one of its fields, that change the   *)
(* validation mode, and ones that are not valid.                           *)
(***************************************************************************)
EXTENDS ProjectSettings, TLC

CONSTANTS a, b

ProxyPatches == {
  "upstreamUrl" :> "http://up" @@ "proxyMode" :> "record",
  "upstreamUrl" :> "" @@ "proxyMode" :> "off" @@ "driftCheck" :> FALSE,
  "upstreamUrl" :> "http://up",
  "upstreamUrl" :> "",
  "proxyMode" :> "forward",
  "driftCheck" :> TRUE }

ModePatches == {
  "validationMode" :> "enforce",
  "validationMode" :> "off",
  "validationMode" :> "warn" @@ "stateMode" :> "memory" @@ "proxyMode" :> "none" }

AllPatches == ProxyPatches \cup ModePatches

PatcherSymmetry == Permutations(Patcher)
=============================================================================
