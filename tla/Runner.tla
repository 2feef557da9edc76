-------------------------------- MODULE Runner --------------------------------
(***************************************************************************)
(* The host's side of test execution: pkg/rpcserver/runner.go, the         *)
(* instance life cycle of pkg/rpcserver/rpcserver.go, and the retry layer  *)
(* of pkg/fuzzer/queue/retry.go under it.                                  *)
(*                                                                         *)
(* Every VM has an instance goroutine of the manager (inst), a connection  *)
(* goroutine (loop) and an executor at the far end of the connection.  The *)
(* connection goroutine takes requests from the shared source, keeps the   *)
(* ones the VM holds in a map by id and completes them as results arrive;  *)
(* when the VM goes away the instance goroutine completes the rest.  The   *)
(* retry layer intercepts completions and may submit the request again.    *)
(***************************************************************************)
EXTENDS Naturals, Sequences, FiniteSets

CONSTANTS
  Requests,    \* the requests the fuzzer offers
  Important,   \* the ones retried once after a crash
  Unencodable, \* programs SerializeForExecWithKConfuzz refuses
  ReturnError, \* requests with the flag of the same name
  VMs,
  Procs,       \* processes that execute programs in one VM
  Depth,       \* requests sent ahead per process, 2 in the code
  MaxFaults,   \* bound: VM terminations (crashes, restarts, boot failures)
  MaxChannel   \* bound: repeated executing messages in the connection

ASSUME RunnerAssumption ==
  /\ Important \subseteq Requests
  /\ Unencodable \subseteq Requests
  /\ ReturnError \subseteq Requests
  /\ {Procs, Depth} \subseteq Nat \ {0}
  /\ {MaxFaults, MaxChannel} \subseteq Nat

VARIABLES
  \* the retry layer
  base,        \* requests the fuzzer still has to offer
  pq,          \* retryer.pq
  onceCrashed, \* requests with the flag of the same name
  outcome,     \* the status of a completed request, "none" before
  dones,       \* how often Done completed the request
  \* the instance goroutine of each VM
  inst,        \* "off", "run", "stop", "wait" or "drain"
  crashed,     \* does the instance end with a crash report?
  \* the Runner of each VM and its connection goroutine
  loop,        \* "none", "shake", "ready", "on" or "exit"
  conn,        \* "none", "open" or "closed"
  stopped, nextID, requests, executing, hanged,
  \* the executor of each VM and the connection
  pending,     \* ids received and not started
  running,     \* ids being executed
  late,        \* ids reported hanged whose process may still answer
  toHost,      \* messages on their way to the host
  faults,      \* VM terminations so far
  crashes      \* history: crashes in which the request was executing

retryVars == <<base, pq, onceCrashed, outcome, dones>>
instVars  == <<inst, crashed, faults>>
loopVars  == <<loop, conn, stopped, nextID, requests, executing, hanged>>
execVars  == <<pending, running, late, toHost>>
vars      == <<retryVars, instVars, loopVars, execVars, crashes>>

EmptyMap == [i \in {} |-> {}]

Init ==
  /\ base = Requests
  /\ pq = <<>>
  /\ onceCrashed = {}
  /\ outcome = [r \in Requests |-> "none"]
  /\ dones = [r \in Requests |-> 0]
  /\ inst = [v \in VMs |-> "off"]
  /\ crashed = [v \in VMs |-> FALSE]
  /\ loop = [v \in VMs |-> "none"]
  /\ conn = [v \in VMs |-> "none"]
  /\ stopped = [v \in VMs |-> FALSE]
  /\ nextID = [v \in VMs |-> 0]
  /\ requests = [v \in VMs |-> EmptyMap]
  /\ executing = [v \in VMs |-> {}]
  /\ hanged = [v \in VMs |-> {}]
  /\ pending = [v \in VMs |-> {}]
  /\ running = [v \in VMs |-> {}]
  /\ late = [v \in VMs |-> {}]
  /\ toHost = [v \in VMs |-> <<>>]
  /\ faults = 0
  /\ crashes = [r \in Requests |-> 0]

Messages == [type : {"executing", "result"}, id : Nat, status : {"Success", "ExecFailure", "Hanged"}]

Executing(id) == [type |-> "executing", id |-> id, status |-> "Success"]
Result(id, status) == [type |-> "result", id |-> id, status |-> status]

Send(v, msg) == toHost' = [toHost EXCEPT ![v] = Append(@, msg)]

-----------------------------------------------------------------------------
(* Request.Done with the retry layer's callback.                           *)

RetriesForever(r, status) ==
  \/ status = "Restarted"
  \/ status = "Crashed" /\ r \in Important
RetriesCrashedOnly(r, status) ==
  status = "Crashed" /\ r \in Important /\ r \notin onceCrashed
Retries(r, status) ==
  \/ status = "Restarted"
  \/ status = "Crashed" /\ r \in Important /\ r \notin onceCrashed

Done(r, status) ==
  IF Retries(r, status)
    THEN /\ pq' = Append(pq, r)
         /\ onceCrashed' = IF status = "Crashed" THEN onceCrashed \cup {r}
                                                 ELSE onceCrashed
         /\ UNCHANGED <<base, outcome, dones>>
    ELSE /\ outcome' = [outcome EXCEPT ![r] = status]
         /\ dones'   = [dones EXCEPT ![r] = @ + 1]
         /\ UNCHANGED <<base, pq, onceCrashed>>

-----------------------------------------------------------------------------
(* The instance goroutine of the manager and the server's methods.         *)

\* CreateInstance: a new Runner; the VM boots and starts the executor.
CreateInstance(v) ==
  /\ inst[v] = "off"
  /\ inst' = [inst EXCEPT ![v] = "run"]
  /\ crashed' = [crashed EXCEPT ![v] = FALSE]
  /\ loop' = [loop EXCEPT ![v] = "none"]
  /\ conn' = [conn EXCEPT ![v] = "none"]
  /\ stopped' = [stopped EXCEPT ![v] = FALSE]
  /\ nextID' = [nextID EXCEPT ![v] = 0]
  /\ requests' = [requests EXCEPT ![v] = EmptyMap]
  /\ executing' = [executing EXCEPT ![v] = {}]
  /\ hanged' = [hanged EXCEPT ![v] = {}]
  /\ pending' = [pending EXCEPT ![v] = {}]
  /\ running' = [running EXCEPT ![v] = {}]
  /\ late' = [late EXCEPT ![v] = {}]
  /\ toHost' = [toHost EXCEPT ![v] = <<>>]
  /\ UNCHANGED <<retryVars, faults, crashes>>

\* The monitor has seen a crash, a lost connection or the end of the VM's
\* time: StopFuzzing closes the connection if the handshake is over.
VMGone(v) == loop[v] = "exit" \/ conn[v] = "closed"

StopFuzzing(v) ==
  /\ inst[v] = "run"
  /\ \/ VMGone(v) /\ UNCHANGED faults
     \/ ~VMGone(v) /\ faults < MaxFaults /\ faults' = faults + 1
  /\ inst' = [inst EXCEPT ![v] = "stop"]
  /\ stopped' = [stopped EXCEPT ![v] = TRUE]
  /\ conn' = [conn EXCEPT ![v] = IF @ = "open" THEN "closed" ELSE @]
  /\ UNCHANGED <<retryVars, crashed, loop, nextID, requests, executing, hanged,
                 execVars, crashes>>

\* Shutdown: mark the runner stopped, then wait for the connection goroutine
\* if it has entered its loop.
BeginShutdown(v) ==
  /\ inst[v] = "stop"
  /\ \E c \in BOOLEAN : crashed' = [crashed EXCEPT ![v] = c]
  /\ inst' = [inst EXCEPT ![v] = IF loop[v] = "on" THEN "wait" ELSE "drain"]
  /\ stopped' = [stopped EXCEPT ![v] = TRUE]
  /\ UNCHANGED <<retryVars, faults, loop, conn, nextID, requests, executing,
                 hanged, execVars, crashes>>

LoopFinished(v) ==
  /\ inst[v] = "wait"
  /\ loop[v] = "exit"
  /\ inst' = [inst EXCEPT ![v] = "drain"]
  /\ UNCHANGED <<retryVars, crashed, faults, loopVars, execVars, crashes>>

Forget(map, id) == [i \in DOMAIN map \ {id} |-> map[i]]

\* One round of the loop over the requests the VM still held.
DrainOne(v) ==
  /\ inst[v] = "drain"
  /\ \E id \in DOMAIN requests[v] :
       LET r      == requests[v][id]
           wasRun == crashed[v] /\ id \in executing[v]
       IN /\ Done(r, IF wasRun THEN "Crashed" ELSE "Restarted")
          /\ crashes' = IF wasRun THEN [crashes EXCEPT ![r] = @ + 1] ELSE crashes
          /\ requests' = [requests EXCEPT ![v] = Forget(@, id)]
  /\ UNCHANGED <<instVars, loop, conn, stopped, nextID, executing, hanged,
                 execVars>>

EndInstance(v) ==
  /\ inst[v] = "drain"
  /\ DOMAIN requests[v] = {}
  /\ inst' = [inst EXCEPT ![v] = "off"]
  /\ UNCHANGED <<retryVars, crashed, faults, loopVars, execVars, crashes>>

-----------------------------------------------------------------------------
(* The connection goroutine.                                               *)

\* The executor connects; the server still knows the instance.
Connect(v) ==
  /\ loop[v] = "none"
  /\ inst[v] \in {"run", "stop"}
  /\ loop' = [loop EXCEPT ![v] = "shake"]
  /\ UNCHANGED <<retryVars, instVars, conn, stopped, nextID, requests, executing,
                 hanged, execVars, crashes>>

\* Handshake completes, whether or not the runner was stopped meanwhile.
Handshake(v) ==
  /\ loop[v] = "shake"
  /\ loop' = [loop EXCEPT ![v] = "ready"]
  /\ conn' = [conn EXCEPT ![v] = "open"]
  /\ UNCHANGED <<retryVars, instVars, stopped, nextID, requests, executing,
                 hanged, execVars, crashes>>

\* A send or a receive fails, or the machine check does.
HandshakeFails(v) ==
  /\ loop[v] = "shake"
  /\ inst[v] = "run" => faults < MaxFaults
  /\ faults' = IF inst[v] = "run" THEN faults + 1 ELSE faults
  /\ loop' = [loop EXCEPT ![v] = "exit"]
  /\ UNCHANGED <<retryVars, inst, crashed, conn, stopped, nextID, requests,
                 executing, hanged, execVars, crashes>>

EnterLoopUnchecked(v) ==
  /\ loop[v] = "ready"
  /\ loop' = [loop EXCEPT ![v] = "on"]
  /\ UNCHANGED <<retryVars, instVars, conn, stopped, nextID, requests, executing,
                 hanged, execVars, crashes>>

\* The signal updates before ConnectionLoop, which fail on a broken
\* connection, and its start.
EnterLoop(v) ==
  /\ loop[v] = "ready"
  /\ \E next \in {"on", "exit"} :
       /\ next = "on" => ~stopped[v]
       /\ next = "exit" => stopped[v] \/ conn[v] = "closed"
       /\ loop' = [loop EXCEPT ![v] = next]
  /\ UNCHANGED <<retryVars, instVars, conn, stopped, nextID, requests, executing,
                 hanged, execVars, crashes>>

MayTakeOneMore(v) ==
  Cardinality(DOMAIN requests[v]) - Cardinality(executing[v]) <= Depth * Procs
MayTake(v) ==
  Cardinality(DOMAIN requests[v]) - Cardinality(executing[v]) < Depth * Procs

\* retryer.Next: requests to retry go first, unless another connection holds
\* the queue's lock.
NextRequest(r) ==
  \/ pq # <<>> /\ r = Head(pq) /\ pq' = Tail(pq) /\ UNCHANGED base
  \/ r \in base /\ base' = base \ {r} /\ UNCHANGED pq

\* sendRequest: the request is entered in the map before it is sent; a send
\* on a closed connection ends the loop.
SendRequest(v) ==
  /\ loop[v] = "on"
  /\ MayTake(v)
  /\ \E r \in Requests \ Unencodable :
       /\ NextRequest(r)
       /\ LET id == nextID[v] + 1 IN
            /\ requests' = [requests EXCEPT ![v] =
                 [i \in DOMAIN @ \cup {id} |-> IF i = id THEN r ELSE @[i]]]
            /\ pending' = IF conn[v] = "open"
                            THEN [pending EXCEPT ![v] = @ \cup {id}]
                            ELSE pending
  /\ nextID' = [nextID EXCEPT ![v] = @ + 1]
  /\ loop' = [loop EXCEPT ![v] = IF conn[v] = "open" THEN "on" ELSE "exit"]
  /\ UNCHANGED <<onceCrashed, outcome, dones, instVars, conn, stopped, executing,
                 hanged, running, late, toHost, crashes>>

\* sendRequest of a program that does not fit the exec buffer.
RejectRequest(v) ==
  /\ loop[v] = "on"
  /\ MayTake(v)
  /\ nextID' = [nextID EXCEPT ![v] = @ + 1]
  /\ \E r \in Unencodable :
       /\ r \in base
       /\ base' = base \ {r}
       /\ outcome' = [outcome EXCEPT ![r] = "ExecFailure"]
       /\ dones'   = [dones EXCEPT ![r] = @ + 1]
  /\ UNCHANGED <<pq, onceCrashed, instVars, loop, conn, stopped, requests,
                 executing, hanged, execVars, crashes>>

\* Leaving ConnectionLoop: nothing in flight and stopped, or a receive fails.
LeaveLoop(v) ==
  /\ loop[v] = "on"
  /\ IF DOMAIN requests[v] = {} THEN stopped[v] ELSE conn[v] = "closed"
  /\ loop' = [loop EXCEPT ![v] = "exit"]
  /\ UNCHANGED <<retryVars, instVars, conn, stopped, nextID, requests, executing,
                 hanged, execVars, crashes>>

Receives(v, type) ==
  /\ loop[v] = "on"
  /\ conn[v] = "open"
  /\ DOMAIN requests[v] # {}
  /\ toHost[v] # <<>>
  /\ Head(toHost[v]).type = type
  /\ toHost' = [toHost EXCEPT ![v] = Tail(@)]

\* A message about a request the runner does not know ends the loop.
Unknown(v, id) == id \notin DOMAIN requests[v] /\ id \notin hanged[v]

HandleExecuting(v) ==
  /\ Receives(v, "executing")
  /\ LET id == Head(toHost[v]).id IN
       /\ executing' = IF id \in DOMAIN requests[v]
                         THEN [executing EXCEPT ![v] = @ \cup {id}]
                         ELSE executing
       /\ loop' = [loop EXCEPT ![v] = IF Unknown(v, id) THEN "exit" ELSE @]
  /\ UNCHANGED <<retryVars, instVars, conn, stopped, nextID, requests, hanged,
                 pending, running, late, crashes>>

\* A late answer to a hanged request must not look like an unknown id.
NeverRemembered(status) == FALSE
Remembered(status) == status = "Hanged"

HandleResult(v) ==
  /\ Receives(v, "result")
  /\ LET id     == Head(toHost[v]).id
         status == Head(toHost[v]).status
     IN /\ loop' = [loop EXCEPT ![v] = IF Unknown(v, id) THEN "exit" ELSE @]
        /\ IF id \in DOMAIN requests[v]
             THEN /\ requests'  = [requests EXCEPT ![v] = Forget(@, id)]
                  /\ executing' = [executing EXCEPT ![v] = @ \ {id}]
                  /\ hanged'    = IF Remembered(status)
                                    THEN [hanged EXCEPT ![v] = @ \cup {id}]
                                    ELSE hanged
                  /\ Done(requests[v][id], status)
             ELSE /\ hanged' = [hanged EXCEPT ![v] = @ \ {id}]
                  /\ UNCHANGED <<retryVars, requests, executing>>
  /\ UNCHANGED <<instVars, conn, stopped, nextID, pending, running, late, crashes>>

-----------------------------------------------------------------------------
(* The executor, as far as the host can see it: it starts what it was      *)
(* sent, at most Procs at a time, may start it again after a restart of    *)
(* the process, and answers once.  A process reported hanged may still     *)
(* produce an answer later.  Success stands for every completed run.        *)

Online(v) == conn[v] = "open"

\* The VM dies or the network breaks.
ConnLost(v) ==
  /\ Online(v)
  /\ inst[v] = "run"
  /\ faults < MaxFaults
  /\ faults' = faults + 1
  /\ conn' = [conn EXCEPT ![v] = "closed"]
  /\ UNCHANGED <<retryVars, inst, crashed, loop, stopped, nextID, requests,
                 executing, hanged, execVars, crashes>>

ExecStart(v) ==
  /\ Online(v)
  /\ Cardinality(running[v]) < Procs
  /\ \E id \in pending[v] :
       /\ pending' = [pending EXCEPT ![v] = @ \ {id}]
       /\ running' = [running EXCEPT ![v] = @ \cup {id}]
       /\ Send(v, Executing(id))
  /\ UNCHANGED <<retryVars, instVars, loopVars, late, crashes>>

\* The process dies in its handshake and the request wants the error back: a
\* result with no executing message before it.
ExecNeverStarts(v) ==
  /\ Online(v)
  /\ Cardinality(running[v]) < Procs
  /\ \E id \in pending[v] :
       /\ id \in DOMAIN requests[v] /\ requests[v][id] \in ReturnError
       /\ pending' = [pending EXCEPT ![v] = @ \ {id}]
       /\ Send(v, Result(id, "ExecFailure"))
  /\ UNCHANGED <<retryVars, instVars, loopVars, running, late, crashes>>

ExecAgain(v) ==
  /\ Online(v)
  /\ Len(toHost[v]) < MaxChannel
  /\ \E id \in running[v] : Send(v, Executing(id))
  /\ UNCHANGED <<retryVars, instVars, loopVars, pending, running, late, crashes>>

ExecFinish(v) ==
  /\ Online(v)
  /\ \E id \in running[v], status \in {"Success", "Hanged"} :
       /\ running' = [running EXCEPT ![v] = @ \ {id}]
       /\ late' = IF status = "Hanged" THEN [late EXCEPT ![v] = @ \cup {id}]
                                       ELSE late
       /\ Send(v, Result(id, status))
  /\ UNCHANGED <<retryVars, instVars, loopVars, pending, crashes>>

ExecLate(v) ==
  /\ Online(v)
  /\ \E id \in late[v] :
       /\ late' = [late EXCEPT ![v] = @ \ {id}]
       /\ Send(v, Result(id, "Success"))
  /\ UNCHANGED <<retryVars, instVars, loopVars, pending, running, crashes>>

Server(v) ==
  \/ CreateInstance(v) \/ BeginShutdown(v) \/ LoopFinished(v) \/ DrainOne(v)
  \/ EndInstance(v) \/ Connect(v) \/ Handshake(v) \/ EnterLoop(v)
  \/ SendRequest(v) \/ RejectRequest(v) \/ LeaveLoop(v) \/ HandleExecuting(v)
  \/ HandleResult(v)

Executor(v) ==
  \/ ExecStart(v) \/ ExecNeverStarts(v) \/ ExecAgain(v) \/ ExecFinish(v)
  \/ ExecLate(v)

Next ==
  \E v \in VMs :
    Server(v) \/ Executor(v) \/ StopFuzzing(v) \/ HandshakeFails(v) \/ ConnLost(v)

Spec == Init /\ [][Next]_vars

\* Goroutines are scheduled, the executor bounds every program in time, and
\* the monitor notices a VM whose executor is gone.
Fairness ==
  \A v \in VMs :
    /\ WF_vars(Server(v))
    /\ WF_vars(ExecStart(v))
    /\ WF_vars(ExecFinish(v))
    /\ WF_vars(StopFuzzing(v) /\ VMGone(v))

FairSpec == Spec /\ Fairness

-----------------------------------------------------------------------------

Values(f) == {f[x] : x \in DOMAIN f}

\* Every request is in exactly one place: still offered, queued for retry,
\* held by one runner under one id, or completed; and it is completed at
\* most once (a second Done would close a closed channel).
Held(v) == Values(requests[v])

OnePlace ==
  /\ \A i, j \in DOMAIN pq : pq[i] = pq[j] => i = j
  /\ \A v \in VMs : \A i, j \in DOMAIN requests[v] :
       requests[v][i] = requests[v][j] => i = j
  /\ \A v, w \in VMs : v # w => Held(v) \cap Held(w) = {}
  /\ base \cap Values(pq) = {}
  /\ \A v \in VMs : Held(v) \cap (base \cup Values(pq)) = {}
  /\ \A r \in Requests :
       dones[r] = IF \/ r \in base \cup Values(pq)
                     \/ \E v \in VMs : r \in Held(v)
                    THEN 0 ELSE 1

\* The backlog of the executor stays within what the runner allows it: the
\* limit in ConnectionLoop is on requests minus executing, and both sides'
\* views of what is executing differ while messages are in flight.
InFlightBound ==
  \A v \in VMs :
    /\ Cardinality(pending[v]) <= Depth * Procs
    /\ loop[v] = "on" =>
         /\ executing[v] \subseteq DOMAIN requests[v]
         /\ Cardinality(executing[v]) <= Procs

\* An executor that answers once per request, and once more after it
\* reported the request hanged, never makes the runner drop the connection
\* with "can't find executing/executed request".
KnownIDs ==
  \A v \in VMs :
    loop[v] = "on" /\ DOMAIN requests[v] # {} /\ toHost[v] # <<>> =>
      ~Unknown(v, Head(toHost[v]).id)

\* The producer sees Crashed only for a request that was executing in a
\* crash, and for an important one only after the second.
CrashedAfterRetry ==
  \A r \in Requests :
    /\ crashes[r] <= IF r \in Important THEN 2 ELSE 1
    /\ outcome[r] = "Crashed" <=>
         crashes[r] = IF r \in Important THEN 2 ELSE 1

Stage(r) ==
  IF dones[r] > 0 THEN "done"
  ELSE IF \E v \in VMs : r \in Held(v) THEN "taken"
  ELSE "waiting"

Contract ==
  INSTANCE ExecContract WITH stage <- [r \in Requests |-> Stage(r)],
                             strikes <- onceCrashed

\* The runners and the retry layer implement the contract of queue.Executor.
ImplementsContract == Contract!CSpec

\* queue.Executor: "it's expected that the consumer will eventually take it
\* and report the execution result via Done()": with finitely many VM
\* failures every request is completed.
EveryRequestDone == \A r \in Requests : <>(dones[r] = 1)

=============================================================================
