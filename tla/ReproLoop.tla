------------------------------ MODULE ReproLoop ------------------------------
(***************************************************************************)
(* pkg/manager/repro.go: the queue of crashes to reproduce, the loop that  *)
(* takes them from it and the goroutines that reproduce them.              *)
(*                                                                         *)
(* Every critical section of ReproLoop.mu is one action; the channels      *)
(* parallel (free reproduction slots) and pingQueue (capacity 1) are       *)
(* shared without it.                                                      *)
(***************************************************************************)
EXTENDS Integers, Sequences, FiniteSets, SequencesExt

CONSTANTS
  Crashes,   \* the crashes the manager meets
  Titles,
  Title,     \* Crash.FullTitle: unique per crash if the report has no title
  FullRepro, Manual, FromHub,  \* the crashes with these flags
  None,      \* no crash
  ReproVMs   \* VMs that may be reserved for reproductions

ASSUME ReproAssumption ==
  /\ Title \in [Crashes -> Titles]
  /\ FullRepro \cup Manual \cup FromHub \subseteq Crashes
  /\ None \notin Crashes
  /\ ReproVMs \in Nat

VARIABLES
  onlyOnce,   \* set by the configuration, never changed
  queue, reproducing, enqueued, attempts,  \* fields of ReproLoop
  parallel,   \* tokens in the channel
  ping,       \* the token of pingQueue is there
  poolSize,   \* the last ResizeReproPool
  pc,         \* the goroutine of Loop
  crash,      \* its variable of that name
  at,         \* where each crash is
  cancelled   \* ctx is done

vars == <<onlyOnce, queue, reproducing, enqueued, attempts, parallel, ping, poolSize,
          pc, crash, at, cancelled>>

Init ==
  /\ onlyOnce \in BOOLEAN
  /\ queue = <<>>
  /\ reproducing = {}
  /\ enqueued = {}
  /\ attempts = [t \in Titles |-> 0]
  /\ parallel = 0
  /\ ping = FALSE
  /\ poolSize = 0
  /\ pc = "off"
  /\ crash = None
  /\ at = [c \in Crashes |-> "unseen"]
  /\ cancelled = FALSE

calculateReproVMs(repros) ==
  IF ReproVMs = 1 /\ repros = 1 THEN 1 ELSE (repros * 4 + 2) \div 3

\* Mutant: one slot too many.
MaxReprosPlus ==
  Cardinality({n \in 1 .. ReproVMs : calculateReproVMs(n) <= ReproVMs + 1})

\* The number of iterations of the loop that fills parallel.
MaxRepros ==
  Cardinality({n \in 1 .. ReproVMs : calculateReproVMs(n) <= ReproVMs})

\* adjustPoolSizeLocked, once the titles under reproduction and the queue are
\* running and waiting.
AdjustedPool(running, waiting) ==
  LET uniqueTitles == running \cup {Title[waiting[i]] : i \in DOMAIN waiting}
      need == calculateReproVMs(Cardinality(uniqueTitles))
  IN IF need < ReproVMs THEN need ELSE ReproVMs

-----------------------------------------------------------------------------
(* Callers of Enqueue: the manager's crash handler, the diff fuzzer.       *)

Repeated(c) == onlyOnce /\ Title[c] \in enqueued

Enqueue(c) ==
  /\ at[c] = "unseen"
  /\ IF Repeated(c)
       THEN /\ at' = [at EXCEPT ![c] = "refused"]
            /\ UNCHANGED <<queue, enqueued, ping>>
       ELSE /\ at' = [at EXCEPT ![c] = "queued"]
            /\ queue' = Append(queue, c)
            /\ enqueued' = enqueued \cup {Title[c]}
            /\ ping' = TRUE
  /\ UNCHANGED <<reproducing, attempts, parallel, poolSize, pc, crash, cancelled>>

-----------------------------------------------------------------------------
(* Loop.                                                                   *)

\* Mutant: earlier attempts do not count.
newBetterUntired(base, new) ==
  IF (base \in FullRepro) # (new \in FullRepro) THEN new \in FullRepro
  ELSE IF (base \in Manual) # (new \in Manual) THEN new \in Manual
  ELSE base \in FromHub /\ new \notin FromHub

newBetter(base, new) ==
  LET tries(c) == attempts[Title[c]] IN
  IF (base \in FullRepro) # (new \in FullRepro) THEN new \in FullRepro
  ELSE IF tries(base) # tries(new) THEN tries(new) < tries(base)
  ELSE IF (base \in Manual) # (new \in Manual) THEN new \in Manual
  ELSE base \in FromHub /\ new \notin FromHub

\* Mutant: titles under reproduction are considered too.
EligibleAny == DOMAIN queue

\* The indices popCrash considers, and the one its scan ends with: the first
\* of the best ones.
Eligible == {i \in DOMAIN queue : Title[queue[i]] \notin reproducing}

Best ==
  CHOOSE i \in Eligible : \A j \in Eligible :
    /\ ~newBetter(queue[i], queue[j])
    /\ j < i => newBetter(queue[j], queue[i])

\* The loop starts once, when the manager has triaged its corpus.
StartLoop ==
  /\ pc = "off"
  /\ parallel' = MaxRepros
  /\ pc' = "pop"
  /\ UNCHANGED <<queue, reproducing, enqueued, attempts, ping, poolSize, crash, at,
                 cancelled>>

popCrash ==
  /\ pc = "pop"
  /\ IF Eligible = {}
       THEN /\ pc' = "wait"
            /\ UNCHANGED <<queue, crash, at>>
       ELSE /\ crash' = queue[Best]
            /\ queue' = RemoveAt(queue, Best)
            /\ at' = [at EXCEPT ![queue[Best]] = "popped"]
            /\ pc' = "need"
  /\ UNCHANGED <<reproducing, enqueued, attempts, parallel, ping, poolSize, cancelled>>

\* NeedRepro asks the crash store or the dashboard: either answer is possible.
NotNeeded ==
  /\ pc = "need"
  /\ poolSize' = AdjustedPool(reproducing, queue)
  /\ at' = [at EXCEPT ![crash] = "declined"]
  /\ crash' = None
  /\ pc' = "pop"
  /\ UNCHANGED <<queue, reproducing, enqueued, attempts, parallel, ping, cancelled>>

Needed ==
  /\ pc = "need"
  /\ pc' = "slot"
  /\ UNCHANGED <<queue, reproducing, enqueued, attempts, parallel, ping, poolSize, crash,
                 at, cancelled>>

WaitPing ==
  /\ pc = "wait"
  /\ ping
  /\ ping' = FALSE
  /\ pc' = "pop"
  /\ UNCHANGED <<queue, reproducing, enqueued, attempts, parallel, poolSize, crash, at,
                 cancelled>>

TakeSlot ==
  /\ pc = "slot"
  /\ parallel > 0
  /\ parallel' = parallel - 1
  /\ pc' = "start"
  /\ UNCHANGED <<queue, reproducing, enqueued, attempts, ping, poolSize, crash, at,
                 cancelled>>

StartRepro ==
  /\ pc = "start"
  /\ attempts' = [attempts EXCEPT ![Title[crash]] = @ + 1]
  /\ reproducing' = reproducing \cup {Title[crash]}
  /\ poolSize' = AdjustedPool(reproducing', queue)
  /\ at' = [at EXCEPT ![crash] = "running"]
  /\ crash' = None
  /\ pc' = "pop"
  /\ UNCHANGED <<queue, enqueued, parallel, ping, cancelled>>

\* Either select of the loop may see that ctx is done.
LeaveLoop ==
  /\ cancelled
  /\ pc \in {"wait", "slot"}
  /\ pc' = "left"
  /\ UNCHANGED <<queue, reproducing, enqueued, attempts, parallel, ping, poolSize, crash,
                 at, cancelled>>

-----------------------------------------------------------------------------
(* The goroutine of one reproduction.  RunRepro takes as long as it takes. *)

EndRepro(c) ==
  /\ at[c] = "running"
  /\ reproducing' = reproducing \ {Title[c]}
  /\ poolSize' = AdjustedPool(reproducing', queue)
  /\ at' = [at EXCEPT ![c] = "ended"]
  /\ UNCHANGED <<queue, enqueued, attempts, parallel, ping, pc, crash, cancelled>>

ReturnSlot(c) ==
  /\ at[c] = "ended"
  /\ parallel' = parallel + 1
  /\ at' = [at EXCEPT ![c] = "returned"]
  /\ UNCHANGED <<queue, reproducing, enqueued, attempts, ping, poolSize, pc, crash,
                 cancelled>>

\* Mutant: the end of a reproduction does not wake the loop.
PingLoopNot(c) ==
  /\ at[c] = "returned"
  /\ at' = [at EXCEPT ![c] = "handled"]
  /\ UNCHANGED <<queue, reproducing, enqueued, attempts, parallel, ping, poolSize, pc, crash,
                 cancelled>>

PingLoop(c) ==
  /\ at[c] = "returned"
  /\ ping' = TRUE
  /\ at' = [at EXCEPT ![c] = "handled"]
  /\ UNCHANGED <<queue, reproducing, enqueued, attempts, parallel, poolSize, pc, crash,
                 cancelled>>

Cancel ==
  /\ ~cancelled
  /\ cancelled' = TRUE
  /\ UNCHANGED <<queue, reproducing, enqueued, attempts, parallel, ping, poolSize, pc,
                 crash, at>>

Loop ==
  popCrash \/ NotNeeded \/ Needed \/ WaitPing \/ TakeSlot \/ StartRepro \/ LeaveLoop

Goroutine(c) == EndRepro(c) \/ ReturnSlot(c) \/ PingLoop(c)

Next ==
  /\ \/ StartLoop
     \/ Loop
     \/ Cancel
     \/ \E c \in Crashes : Enqueue(c) \/ Goroutine(c)
  /\ UNCHANGED onlyOnce

Spec == Init /\ [][Next]_vars

\* The Go scheduler runs both kinds of goroutine, reproductions end, and the
\* manager gets to the phase that starts the loop.
FairSpec ==
  /\ Spec
  /\ WF_vars(StartLoop /\ UNCHANGED onlyOnce)
  /\ WF_vars(Loop /\ UNCHANGED onlyOnce)
  /\ \A c \in Crashes : WF_vars(Goroutine(c) /\ UNCHANGED onlyOnce)
-----------------------------------------------------------------------------
(* Properties.                                                             *)

Running == {c \in Crashes : at[c] = "running"}

\* popCrash passes over titles under reproduction, and the crash the loop has
\* popped is in no queue: two crashes with one title are never reproduced at
\* the same time, and the flag of a title in reproducing is never taken away by
\* another reproduction's end.
OneReproPerTitle ==
  /\ \A c, d \in Running : Title[c] = Title[d] => c = d
  /\ reproducing = {Title[c] : c \in Running}

\* The slots keep the reproductions within the VMs that may be reserved; the
\* pool is never resized below what those that run were given, and when the loop
\* waits for work and there is none, all VMs are back to fuzzing.
EnoughVMs ==
  /\ calculateReproVMs(Cardinality(Running)) <= poolSize
  /\ poolSize <= ReproVMs
  /\ pc = "wait" /\ queue = <<>> /\ Running = {} => poolSize = 0

\* A crash that no full reproduction overtakes is not tried again before an
\* untried one: attempts go first to the crashes tried less.
UntriedFirst ==
  [][\A c, d \in Crashes :
       /\ at[c] = "queued" /\ at'[c] = "popped"
       /\ at[d] = "queued" /\ Title[d] \notin reproducing
       /\ {c, d} \cap FullRepro = {}
       => attempts[Title[c]] <= attempts[Title[d]]]_vars

\* A queued crash is reproduced or found unneeded, whatever pings are dropped
\* because the channel is full, unless the manager shuts down.
EveryCrashServed ==
  \A c \in Crashes :
    at[c] = "queued" ~> (at[c] \in {"declined", "handled"} \/ cancelled)
=============================================================================
