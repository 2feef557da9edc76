--------------------------------- MODULE Pool ---------------------------------
(***************************************************************************)
(* vm/dispatcher/pool.go: a pool of VMs that run a default job, some of    *)
(* which may be reserved for jobs given to Run.                            *)
(*                                                                         *)
(* Every VM has a goroutine that boots it, looks up its job, waits for one *)
(* if the VM is reserved, runs it and starts over.  ReserveForRun,         *)
(* SetDefault and TogglePause, serialised by Pool.mu, change the VMs' jobs *)
(* under these goroutines: they visit the VMs one by one (todo), and free  *)
(* ends with a send to a VM that may be waiting (sendTo).                  *)
(***************************************************************************)
EXTENDS Naturals, Sequences, FiniteSets

CONSTANTS
  NumVMs,
  Jobs,         \* jobs given to Run
  Nil,          \* no job
  MaxOps,       \* bound: calls of the three methods
  MaxBootFails  \* bound: boots that fail by themselves

VMs == 1 .. NumVMs

ASSUME PoolAssumption ==
  /\ NumVMs \in Nat \ {0}
  /\ {MaxOps, MaxBootFails} \subseteq Nat
  /\ Jobs \cap (Nat \cup {Nil}) = {}
  /\ Nil \notin Nat

VARIABLES
  paused,
  defaultJob, \* default jobs are numbered in the order they are set
  count,      \* the argument of the last ReserveForRun
  job,        \* poolInstance.job
  reserved,   \* poolInstance.jobChan is set
  cancelled,  \* the context that poolInstance.stop cancels is cancelled
  pc,         \* the goroutine of each VM
  cur,        \* the job it runs
  todo,       \* what the method in progress still has to do
  sendTo,     \* the VM free is about to send to, on its present channel or not
  waiting,    \* jobs whose Run has not found a VM
  returned,   \* jobs whose Run has returned
  ops, bootFails

vars == <<paused, defaultJob, count, job, reserved, cancelled, pc, cur, todo,
          sendTo, waiting, returned, ops, bootFails>>

NoSend == [vm |-> 0, live |-> FALSE]

Init ==
  /\ paused = FALSE
  /\ defaultJob = 0
  /\ count = 0
  /\ job = [v \in VMs |-> 0]
  /\ reserved = [v \in VMs |-> FALSE]
  /\ cancelled = [v \in VMs |-> FALSE]
  /\ pc = [v \in VMs |-> "pause"]
  /\ cur = [v \in VMs |-> Nil]
  /\ todo = <<>>
  /\ sendTo = NoSend
  /\ waiting = {}
  /\ returned = {}
  /\ ops = 0
  /\ bootFails = 0

MutexFree == todo = <<>> /\ sendTo = NoSend

-----------------------------------------------------------------------------
(* The methods.                                                            *)

\* The VMs of S in pool order: those before v, the i-th, the first n.
Rank(S, v) == Cardinality({w \in S : w < v})
Nth(S, i) == CHOOSE v \in S : Rank(S, v) = i - 1
FirstOf(S, n) == {v \in S : Rank(S, v) < n}

Visits(kind, S) == [i \in 1 .. Cardinality(S) |-> [kind |-> kind, vm |-> Nth(S, i)]]

Unreserved == {v \in VMs : ~reserved[v]}

PickAny(c) == Visits("reserve", FirstOf(VMs, c))
\* What ReserveForRun(c) does to reach c reserved VMs.
Adjust(c) ==
  LET have == Cardinality(VMs \ Unreserved)
  IN IF c >= have THEN Visits("reserve", FirstOf(Unreserved, c - have))
                  ELSE Visits("free", FirstOf(VMs \ Unreserved, have - c))

Begin(visits) ==
  /\ MutexFree
  /\ ops < MaxOps
  /\ ops' = ops + 1
  /\ todo' = visits
  /\ UNCHANGED <<job, reserved, cancelled, pc, cur, sendTo, waiting, returned, bootFails>>

ReserveForRun ==
  \E c \in 0 .. NumVMs :
    /\ Begin(Adjust(c))
    /\ count' = c
    /\ UNCHANGED <<paused, defaultJob>>

SetDefault ==
  /\ Begin(Visits("free", Unreserved))
  /\ defaultJob' = defaultJob + 1
  /\ UNCHANGED <<paused, count>>

TogglePause ==
  \E pause \in BOOLEAN :
    /\ Begin(IF pause THEN Visits("free", Unreserved) ELSE <<>>)
    /\ paused' = pause
    /\ UNCHANGED <<defaultJob, count>>

\* poolInstance.reserve.
StopNothing(v) == UNCHANGED cancelled
StopForReserve(v) == cancelled' = [cancelled EXCEPT ![v] = TRUE]

Reserve ==
  /\ todo # <<>> /\ sendTo = NoSend
  /\ Head(todo).kind = "reserve"
  /\ LET v == Head(todo).vm IN
       /\ StopForReserve(v)
       /\ job' = [job EXCEPT ![v] = Nil]
       /\ reserved' = [reserved EXCEPT ![v] = TRUE]
  /\ todo' = Tail(todo)
  /\ UNCHANGED <<paused, defaultJob, count, pc, cur, sendTo, waiting, returned, ops,
                 bootFails>>

\* poolInstance.free up to its unlock.
NeverRestarts(v) == FALSE
Restarts(v) == job[v] # Nil

DropChan(v) == reserved' = [reserved EXCEPT ![v] = FALSE]

Free ==
  /\ todo # <<>> /\ sendTo = NoSend
  /\ Head(todo).kind = "free"
  /\ LET v == Head(todo).vm IN
       /\ cancelled' = IF Restarts(v) THEN [cancelled EXCEPT ![v] = TRUE]
                                      ELSE cancelled
       /\ job' = [job EXCEPT ![v] = defaultJob]
       /\ DropChan(v)
       /\ sendTo' = [vm |-> v, live |-> TRUE]
  /\ todo' = Tail(todo)
  /\ UNCHANGED <<paused, defaultJob, count, pc, cur, waiting, returned, ops, bootFails>>

\* The send at the end of free: it succeeds if the VM's goroutine waits on
\* the channel that was current under the lock, and is dropped otherwise.
SwitchToJob ==
  /\ sendTo # NoSend
  /\ LET v == sendTo.vm IN
       IF sendTo.live /\ pc[v] = "select"
         THEN /\ pc' = [pc EXCEPT ![v] = "run"]
              /\ cur' = [cur EXCEPT ![v] = job[v]]
         ELSE UNCHANGED <<pc, cur>>
  /\ sendTo' = NoSend
  /\ UNCHANGED <<paused, defaultJob, count, job, reserved, cancelled, todo,
                 waiting, returned, ops, bootFails>>

\* Run, up to the hand-over of the job.
Run ==
  /\ \E j \in Jobs \ (waiting \cup returned \cup {cur[v] : v \in VMs}) :
       waiting' = waiting \cup {j}
  /\ UNCHANGED <<paused, defaultJob, count, job, reserved, cancelled, pc, cur,
                 todo, sendTo, returned, ops, bootFails>>

\* The context of Run is cancelled before a VM took the job.
RunAborted ==
  /\ \E j \in waiting :
       /\ waiting' = waiting \ {j}
       /\ returned' = returned \cup {j}
  /\ UNCHANGED <<paused, defaultJob, count, job, reserved, cancelled, pc, cur,
                 todo, sendTo, ops, bootFails>>

-----------------------------------------------------------------------------
(* runInstance, one goroutine per VM.                                      *)

Goto(v, from, to) == pc[v] = from /\ pc' = [pc EXCEPT ![v] = to]

WaitUnpaused(v) ==
  /\ ~paused /\ MutexFree
  /\ Goto(v, "pause", "reset")
  /\ UNCHANGED <<paused, defaultJob, count, job, reserved, cancelled, cur, todo,
                 sendTo, waiting, returned, ops, bootFails>>

\* A new context and a new channel.
Reset(v) ==
  /\ Goto(v, "reset", "boot")
  /\ cancelled' = [cancelled EXCEPT ![v] = FALSE]
  /\ sendTo' = IF sendTo.vm = v THEN [sendTo EXCEPT !.live = FALSE] ELSE sendTo
  /\ UNCHANGED <<paused, defaultJob, count, job, reserved, cur, todo, waiting,
                 returned, ops, bootFails>>

Boot(v) ==
  /\ Goto(v, "boot", "fetch")
  /\ UNCHANGED <<paused, defaultJob, count, job, reserved, cancelled, cur, todo,
                 sendTo, waiting, returned, ops, bootFails>>

BootFails(v) ==
  /\ Goto(v, "boot", "pause")
  /\ \/ cancelled[v] /\ UNCHANGED bootFails
     \/ bootFails < MaxBootFails /\ bootFails' = bootFails + 1
  /\ UNCHANGED <<paused, defaultJob, count, job, reserved, cancelled, cur, todo,
                 sendTo, waiting, returned, ops>>

\* The lock is released before the goroutine waits.
Fetch(v) ==
  /\ Goto(v, "fetch", IF job[v] = Nil THEN "idle" ELSE "run")
  /\ cur' = [cur EXCEPT ![v] = job[v]]
  /\ UNCHANGED <<paused, defaultJob, count, job, reserved, cancelled, todo,
                 sendTo, waiting, returned, ops, bootFails>>

EnterSelect(v) ==
  /\ Goto(v, "idle", "select")
  /\ UNCHANGED <<paused, defaultJob, count, job, reserved, cancelled, cur, todo,
                 sendTo, waiting, returned, ops, bootFails>>

\* The select of a reserved VM: a job of Run, or the context is cancelled.
TakeJob(v) ==
  /\ Goto(v, "select", "run")
  /\ \E j \in waiting :
       /\ cur' = [cur EXCEPT ![v] = j]
       /\ waiting' = waiting \ {j}
  /\ UNCHANGED <<paused, defaultJob, count, job, reserved, cancelled, todo,
                 sendTo, returned, ops, bootFails>>

Abandon(v) ==
  /\ cancelled[v]
  /\ Goto(v, "select", "pause")
  /\ UNCHANGED <<paused, defaultJob, count, job, reserved, cancelled, cur, todo,
                 sendTo, waiting, returned, ops, bootFails>>

\* A default job ends when its context is cancelled or the VM goes away, a
\* job of Run when it is finished; the VM is closed.
JobEnds(v) ==
  /\ Goto(v, "run", "pause")
  /\ cur' = [cur EXCEPT ![v] = Nil]
  /\ returned' = IF cur[v] \in Jobs THEN returned \cup {cur[v]} ELSE returned
  /\ UNCHANGED <<paused, defaultJob, count, job, reserved, cancelled, todo,
                 sendTo, waiting, ops, bootFails>>

RunInstance(v) ==
  \/ WaitUnpaused(v) \/ Reset(v) \/ Boot(v) \/ BootFails(v) \/ Fetch(v)
  \/ EnterSelect(v) \/ TakeJob(v) \/ Abandon(v) \/ JobEnds(v)

Method == Reserve \/ Free \/ SwitchToJob

Next ==
  \/ ReserveForRun \/ SetDefault \/ TogglePause \/ Method \/ Run \/ RunAborted
  \/ \E v \in VMs : RunInstance(v)

Spec == Init /\ [][Next]_vars

\* Goroutines run; a job ends once it is cancelled, a job of Run in any case.
MustEnd(v) == JobEnds(v) /\ (cancelled[v] \/ cur[v] \in Jobs)

Fairness ==
  /\ WF_vars(Method)
  /\ \A v \in VMs :
       /\ WF_vars(WaitUnpaused(v) \/ Reset(v) \/ Boot(v) \/ Fetch(v)
                  \/ EnterSelect(v))
       /\ WF_vars(TakeJob(v) \/ Abandon(v))
       /\ WF_vars(MustEnd(v))

FairSpec == Spec /\ Fairness

-----------------------------------------------------------------------------

\* A VM that runs a default job it should no longer run, because it was
\* reserved or the default has changed since it fetched the job, has been
\* told to stop: neither the unlocked window between the fetch and the start
\* of the job nor a restart at the same time hides the change from it.
StaleDefaultStopped ==
  \A v \in VMs :
    pc[v] = "run" /\ cur[v] \notin Jobs /\ cur[v] # job[v] => cancelled[v]

\* After ReserveForRun(c) exactly c VMs are reserved, whatever sequence of
\* calls came before, and at all times "either job or jobChan will be set".
ReservedExactly ==
  /\ MutexFree => Cardinality(VMs \ Unreserved) = count
  /\ reserved = [v \in VMs |-> job[v] = Nil]

\* Run "blocks until it has found an instance to execute job and until job
\* has finished": with some VM reserved and the pool not paused, every
\* submitted job is run.
JobsServed ==
  <>[](count > 0 /\ ~paused) => \A j \in Jobs : j \in waiting ~> j \in returned

\* "To unreserve all instances, execute ReserveForRun(0)": from then on every
\* VM runs the default job again and again.
DefaultServed ==
  <>[](count = 0 /\ ~paused) =>
    \A v \in VMs : []<>(pc[v] = "run" /\ cur[v] \notin Jobs)

=============================================================================
