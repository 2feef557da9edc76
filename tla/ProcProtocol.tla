----------------------------- MODULE ProcProtocol -----------------------------
(***************************************************************************)
(* What the host may rely on from the executor of one VM: a request it was *)
(* sent is announced with an executing message when it starts, possibly    *)
(* several times, and answered exactly once; at most Limit requests are    *)
(* announced and unanswered at any time; a request that wants errors back  *)
(* may be answered without having started.  The executor's side of Runner  *)
(* is made of the same steps.                                              *)
(***************************************************************************)
EXTENDS Naturals, FiniteSets

CONSTANTS Requests, ReturnError, Limit

VARIABLE phase  \* "unsent", "pending", "running" or "answered"

PInit == phase = [r \in Requests |-> "unsent"]

RunningNow == {r \in Requests : phase[r] = "running"}

Accept(r) == phase[r] = "unsent" /\ phase' = [phase EXCEPT ![r] = "pending"]

Start(r) ==
  /\ phase[r] = "pending"
  /\ Cardinality(RunningNow) < Limit
  /\ phase' = [phase EXCEPT ![r] = "running"]

Answer(r) == phase[r] = "running" /\ phase' = [phase EXCEPT ![r] = "answered"]

NeverStarts(r) ==
  /\ phase[r] = "pending"
  /\ r \in ReturnError
  /\ phase' = [phase EXCEPT ![r] = "answered"]

\* A request received and started at once, or a binary run to its end.
AcceptAndStart(r) ==
  /\ phase[r] = "unsent"
  /\ Cardinality(RunningNow) < Limit
  /\ phase' = [phase EXCEPT ![r] = "running"]

RunToEnd(r) == phase[r] = "unsent" /\ phase' = [phase EXCEPT ![r] = "answered"]

PNext ==
  \E r \in Requests :
    \/ Accept(r) \/ Start(r) \/ Answer(r) \/ NeverStarts(r)
    \/ AcceptAndStart(r) \/ RunToEnd(r)

PSpec == PInit /\ [][PNext]_phase
=============================================================================
