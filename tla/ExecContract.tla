----------------------------- MODULE ExecContract -----------------------------
(***************************************************************************)
(* What the producers of requests may rely on, the interface Executor of   *)
(* pkg/fuzzer/queue/queue.go: a submitted request is taken by a consumer   *)
(* and completed exactly once; a request lost with its VM is offered       *)
(* again, and one that was running in a crash is offered again only if it  *)
(* is important, and only once.                                            *)
(***************************************************************************)
CONSTANTS
  Requests,   \* the submitted requests
  Important   \* the ones that survive one crash

Status == {"Success", "ExecFailure", "Hanged", "Crashed"}

VARIABLES
  stage,     \* of each request: "waiting", "taken" or "done"
  outcome,   \* the status its producer sees, "none" before it is done
  strikes    \* the important requests that were running in a crash

cvars == <<stage, outcome, strikes>>

CInit ==
  /\ stage   = [r \in Requests |-> "waiting"]
  /\ outcome = [r \in Requests |-> "none"]
  /\ strikes = {}

Take(r) ==
  /\ stage[r] = "waiting"
  /\ stage' = [stage EXCEPT ![r] = "taken"]
  /\ UNCHANGED <<outcome, strikes>>

Finish(r, status) ==
  /\ stage[r] = "taken"
  /\ status = "Crashed" /\ r \in Important => r \in strikes
  /\ stage'   = [stage EXCEPT ![r] = "done"]
  /\ outcome' = [outcome EXCEPT ![r] = status]
  /\ UNCHANGED strikes

\* A request that cannot be encoded never reaches an executor.
Reject(r) ==
  /\ stage[r] = "waiting"
  /\ stage'   = [stage EXCEPT ![r] = "done"]
  /\ outcome' = [outcome EXCEPT ![r] = "ExecFailure"]
  /\ UNCHANGED strikes

Restart(r) ==
  /\ stage[r] = "taken"
  /\ stage' = [stage EXCEPT ![r] = "waiting"]
  /\ UNCHANGED <<outcome, strikes>>

Strike(r) ==
  /\ stage[r] = "taken"
  /\ r \in Important \ strikes
  /\ stage'   = [stage EXCEPT ![r] = "waiting"]
  /\ strikes' = strikes \cup {r}
  /\ UNCHANGED outcome

CNext ==
  \E r \in Requests :
    \/ Take(r) \/ Reject(r) \/ Restart(r) \/ Strike(r)
    \/ \E status \in Status : Finish(r, status)

CSpec == CInit /\ [][CNext]_cvars
=============================================================================
