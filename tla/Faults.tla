------------------------------- MODULE Faults -------------------------------
(***************************************************************************)
(* Fault injection: domain/fault.go, usecase/fault.go and the "fault"      *)
(* objects of MCP manifests (adapter/mcp/fault.go).                        *)
(*                                                                         *)
(* Settings are [delay, error, fault]: the base latency, the error rate,   *)
(* and None or a record [jitter, statuses, timeout, hold, drop, malformed, *)
(* mode].  Every random number the code draws is a parameter here.         *)
(***************************************************************************)
EXTENDS Integers, Sequences, FiniteSets

CONSTANTS NoFault,       \* a fault that is not set
          PercentBase,   \* PercentBase and percentMax, 100 in the code
          MaxLatency,    \* MaxLatencyMs
          DefaultHold,   \* DefaultTimeoutMs
          MaxHold        \* MaxTimeoutMs

ASSUME BaseAssumption == PercentBase \in Nat \ {0}
ASSUME HoldAssumption == DefaultHold \in Nat \ {0} /\ MaxHold \in Nat

ErrorStatuses == 400..599
RandomStatuses == 500..503
Modes == {"", "garbage", "truncated", "empty"}

ZeroFault == [jitter |-> 0, statuses |-> <<>>, timeout |-> 0, hold |-> 0, drop |-> 0,
              malformed |-> 0, mode |-> ""]
FaultOf(s) == IF s.fault = NoFault THEN ZeroFault ELSE s.fault
-----------------------------------------------------------------------------
(* What a rule may be saved with *)

Rates(s) == <<s.error, FaultOf(s).timeout, FaultOf(s).drop, FaultOf(s).malformed>>

ValidateLatency(s) == s.delay \in 0..MaxLatency /\ FaultOf(s).jitter \in 0..MaxLatency

EachRateInRange(s) == \A i \in 1..4 : Rates(s)[i] \in 0..PercentBase

RatesInRange(s) ==
  /\ \A i \in 1..4 : Rates(s)[i] \in 0..PercentBase
  /\ Rates(s)[1] + Rates(s)[2] + Rates(s)[3] + Rates(s)[4] <= PercentBase

ValidateDetails(s) ==
  /\ FaultOf(s).hold \in 0..MaxHold
  /\ \A i \in DOMAIN FaultOf(s).statuses : FaultOf(s).statuses[i] \in ErrorStatuses
  /\ FaultOf(s).mode \in Modes

ValidateFault(s) == ValidateLatency(s) /\ RatesInRange(s) /\ ValidateDetails(s)
-----------------------------------------------------------------------------
(* What hits a request *)

MalformedFault(mode) == IF mode \in {"truncated", "empty"} THEN mode ELSE "garbage"

\* One roll in 0..PercentBase-1 is cut into slices: drop, timeout, error and a
\* malformed body, in this order; what is left is no fault.
RollFault(s, roll) ==
  LET f == FaultOf(s)
  IN CASE roll < f.drop -> "drop"
       [] roll - f.drop \in 0..(f.timeout - 1) -> "timeout"
       [] roll - f.drop - f.timeout \in 0..(s.error - 1) -> "error"
       [] roll - f.drop - f.timeout - s.error \in 0..(f.malformed - 1) -> MalformedFault(f.mode)
       [] OTHER -> "none"

\* The base latency, and the jitter that is added to it.
Latencies(s) == s.delay..(s.delay + FaultOf(s).jitter)

ErrorStatus(s) ==
  IF FaultOf(s).statuses # <<>>
  THEN {FaultOf(s).statuses[i] : i \in DOMAIN FaultOf(s).statuses} ELSE RandomStatuses

HoldMs(s) == IF FaultOf(s).hold > 0 THEN FaultOf(s).hold ELSE DefaultHold
-----------------------------------------------------------------------------
(* The faults of a request to an MCP server: one roll for each tools/call of *)
(* a batch, collected in a record [delay, fault, hold, status]               *)

NoRun == [delay |-> 0, fault |-> "none", hold |-> 0, status |-> 0]

\* The latency is the largest of the calls'; the first call that is hit decides
\* the fault of the whole request.
FirstHit(run, fault) == run.fault = "none" /\ fault # "none"

McpRoll(run, s, fault, latency, status) ==
  [delay  |-> IF latency > run.delay THEN latency ELSE run.delay,
   fault  |-> IF FirstHit(run, fault) THEN fault ELSE run.fault,
   hold   |-> IF FirstHit(run, fault) /\ fault = "timeout" THEN HoldMs(s) ELSE run.hold,
   status |-> IF FirstHit(run, fault) /\ fault = "error" THEN status ELSE run.status]

\* The manifest's own name of the error rate, else the one REST rules use.
McpErrorRate(f) == IF f.error # 0 THEN f.error ELSE f.fail
=============================================================================
