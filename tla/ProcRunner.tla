------------------------------ MODULE ProcRunner ------------------------------
(***************************************************************************)
(* executor/executor_runner.h: the executor process of a VM.  A single     *)
(* thread runs Runner::Loop over a set of test subprocesses (Proc): it     *)
(* receives requests, hands each to a process that may take it or queues   *)
(* it, reads the processes' replies and restarts the ones that died, are   *)
(* too slow or have the wrong environment.                                 *)
(*                                                                         *)
(* pc is the thread's place in one round of Loop; the subprocesses move    *)
(* between any two of its steps.  A write to the request pipe of a process *)
(* that has just died is taken to succeed: the next look at the process    *)
(* finds it dead and restarts it the same way.                             *)
(***************************************************************************)
EXTENDS Naturals, Sequences, FiniteSets

CONSTANTS
  Requests,
  None,          \* no request
  Binary,        \* requests that run a binary
  ReturnError,   \* requests with the flag of the same name
  ResetState,    \* requests whose env_flags ask for a fresh process
  Env,           \* request -> type, environment flags and sandbox argument
  Avoid,         \* request -> proc ids to avoid
  NumProcs,
  NumIDs,        \* max(num_procs, kNumGoodProcs)
  RestartEvery,  \* kRestartEvery
  MaxAttempts,   \* 20 in the code
  Leak,          \* is_leak_enabled_
  MaxDeaths      \* bound: subprocesses that die or miss their deadline

Procs == 1 .. NumProcs

ASSUME ProcAssumption ==
  /\ None \notin Requests
  /\ NumProcs \in Nat \ {0}
  /\ NumIDs \in Nat /\ NumIDs >= NumProcs
  /\ {RestartEvery, MaxAttempts, MaxDeaths} \subseteq Nat
  /\ Leak \in BOOLEAN

VARIABLES
  pc,        \* <<"recv", 0>>, <<"leak", 0>>, or a turn: <<"ready", p>>, <<"exec", p>>
  unsent,    \* requests the host has not sent yet
  queue,     \* Runner::requests_
  proc,      \* the Procs: state, msg, id, attempts, freshness, env
  child,     \* subprocesses: "wait", "work", "reply", "late" or "dead"
  ids,       \* ProcIDPool::ids_
  triaged,   \* corpus_triaged_
  execs,     \* execs_since_leak_check_
  failed,    \* failmsg ended the executor
  \* what the host has seen, and history
  announced, \* requests with an executing message
  results,   \* results sent per request
  deaths

vars == <<pc, unsent, queue, proc, child, ids, triaged, execs, failed,
          announced, results, deaths>>

Init ==
  /\ pc = <<"recv", 0>>
  /\ unsent = Requests
  /\ queue = <<>>
  /\ proc = [p \in Procs |-> [state |-> "Started", msg |-> None, id |-> p - 1,
                              attempts |-> 0, freshness |-> 0, env |-> None]]
  /\ child = [p \in Procs |-> "wait"]
  /\ ids = [i \in 1 .. NumIDs - NumProcs |-> NumProcs + i - 1]
  /\ triaged = FALSE
  /\ execs = 0
  /\ failed = FALSE
  /\ announced = {}
  /\ results = [r \in Requests |-> 0]
  /\ deaths = 0

-----------------------------------------------------------------------------
(* Runner's view of the processes.                                         *)

\* restarting_ counts the ChangeStates into and out of Handshaking.
Restarting == Cardinality({p \in Procs : proc[p].state = "Handshaking"})

\* ProcIDPool::Mask.
UsedIDs == {proc[p].id : p \in Procs}

IsScheduledForLeakCheck == Leak /\ triaged /\ execs >= 2 * NumProcs

AreProcsIdle == \A p \in Procs : proc[p].state = "Idle"

\* Proc::Execute(msg) returns true.  A mask that covers every id in use is
\* ignored.
AcceptsUnlessAvoided(p, r) ==
  /\ proc[p].state \in {"Started", "Idle"}
  /\ proc[p].id \notin Avoid[r]
AcceptsAny(p, r) == proc[p].state \in {"Started", "Idle"}
Accepts(p, r) ==
  /\ proc[p].state \in {"Started", "Idle"}
  /\ UsedIDs \subseteq Avoid[r] \/ proc[p].id \notin Avoid[r]

WantsFreshProcess(P, r) ==
  \/ triaged /\ Restarting = 0 /\ P.freshness >= RestartEvery
  \/ r \in ResetState
  \/ P.env # Env[r]

-----------------------------------------------------------------------------
(* Operations on one Proc.                                                 *)

Handshake(P) == [P EXCEPT !.state = "Handshaking", !.env = Env[P.msg]]

\* A new subprocess; with a request at hand it shakes hands at once.
Start(P) ==
  LET Q == [P EXCEPT !.state = "Started", !.freshness = 0]
  IN IF P.msg = None THEN Q ELSE Handshake(Q)

ChildAfterStart(P) == IF P.msg = None THEN "wait" ELSE "work"

\* HandleCompletion.
CompletionKeepsMsg(P) ==
  [P EXCEPT !.state = "Idle",
            !.freshness = IF @ < RestartEvery THEN @ + 1 ELSE @]
Completion(P) ==
  [P EXCEPT !.state = "Idle", !.msg = None,
            !.freshness = IF @ < RestartEvery THEN @ + 1 ELSE @]

Answer(r) == results' = [results EXCEPT ![r] = @ + 1]

FailsInAnyState(P, exit) == P.msg # None
FailCurrentRequest(P, exit) ==
  \/ P.state = "Handshaking" /\ P.msg \in ReturnError
  \/ P.state = "Executing" /\ (exit = "other" \/ P.msg \in ReturnError)

GivesUpLate(P) == P.attempts > MaxAttempts + 1
GivesUp(P) == P.attempts > MaxAttempts

\* ProcIDPool::Alloc returns the old id to the end and takes the first.
PoolWithout(old) == ids
PoolWith(old) == Append(ids, old)

\* Restart of a process found dead or late.  exit tells kFailStatus from any
\* other end.
Restart(p, exit) ==
  LET P      == [proc[p] EXCEPT !.attempts = @ + 1]
      fails  == FailCurrentRequest(P, exit)
      hanged == fails /\ P.state = "Executing"
      pool   == PoolWith(P.id)
      Q      == IF fails THEN Completion(P) ELSE P
      R      == IF hanged THEN [Q EXCEPT !.id = Head(pool)] ELSE Q
  IN IF GivesUp(P)
       THEN failed' = TRUE /\ UNCHANGED <<proc, child, ids, results>>
       ELSE /\ proc' = [proc EXCEPT ![p] = Start(R)]
            /\ child' = [child EXCEPT ![p] = ChildAfterStart(R)]
            /\ ids' = IF hanged THEN Tail(pool) ELSE ids
            /\ IF fails THEN Answer(P.msg) ELSE UNCHANGED results
            /\ UNCHANGED failed

\* Execute(): the request is announced and given to the subprocess.
Running(P) == [P EXCEPT !.state = "Executing"]

\* Execute(msg) of an accepted request: with a fresh process, which first
\* has to be restarted and shake hands, or at once.
KeepAttempts(P, r) == [P EXCEPT !.msg = r]
TakeOver(P, r) == [P EXCEPT !.msg = r, !.attempts = 0]

Execute(p, r) ==
  LET P       == proc[p]
      planned == P.state = "Idle" /\ WantsFreshProcess(P, r)
  IN IF planned /\ GivesUp([P EXCEPT !.attempts = @ + 1])
       THEN /\ failed' = TRUE
            /\ UNCHANGED <<proc, child, announced>>
       ELSE /\ child' = [child EXCEPT ![p] = IF @ = "dead" /\ ~planned THEN @ ELSE "work"]
            /\ IF planned \/ P.state = "Started"
                 THEN /\ proc' = [proc EXCEPT ![p] =
                            IF planned
                              THEN Start(TakeOver([P EXCEPT !.attempts = @ + 1], r))
                              ELSE Handshake(TakeOver(P, r))]
                      /\ UNCHANGED announced
                 ELSE /\ proc' = [proc EXCEPT ![p] = Running(TakeOver(P, r))]
                      /\ announced' = announced \cup {r}
            /\ UNCHANGED failed

-----------------------------------------------------------------------------
(* One round of Runner::Loop.                                              *)

At(place) == pc = place /\ ~failed

\* Handle(ExecRequest): the first process that accepts it, or the queue.
Queued(r) == IsScheduledForLeakCheck \/ \A p \in Procs : ~Accepts(p, r)

HandleRequest ==
  /\ At(<<"recv", 0>>)
  /\ pc' = <<"leak", 0>>
  /\ \E r \in unsent \ Binary :
       /\ unsent' = unsent \ {r}
       /\ IF Queued(r)
            THEN /\ queue' = Append(queue, r)
                 /\ UNCHANGED <<proc, child, failed, announced>>
            ELSE /\ \E p \in Procs :
                      /\ Accepts(p, r)
                      /\ \A q \in Procs : q < p => ~Accepts(q, r)
                      /\ Execute(p, r)
                 /\ UNCHANGED queue
  /\ UNCHANGED <<ids, triaged, execs, results, deaths>>

\* ExecuteBinary blocks the thread until the binary has run.
ExecuteBinary ==
  /\ At(<<"recv", 0>>)
  /\ pc' = <<"leak", 0>>
  /\ \E r \in unsent \cap Binary :
       /\ unsent' = unsent \ {r}
       /\ announced' = announced \cup {r}
       /\ Answer(r)
  /\ UNCHANGED <<queue, proc, child, ids, triaged, execs, failed, deaths>>

HandleCorpusTriaged ==
  /\ At(<<"recv", 0>>)
  /\ ~triaged
  /\ pc' = <<"leak", 0>>
  /\ triaged' = TRUE
  /\ UNCHANGED <<unsent, queue, proc, child, ids, execs, failed, announced,
                 results, deaths>>

NoMessage ==
  /\ At(<<"recv", 0>>)
  /\ pc' = <<"leak", 0>>
  /\ UNCHANGED <<unsent, queue, proc, child, ids, triaged, execs, failed,
                 announced, results, deaths>>

ExecsAfterLeakCheck ==
  IF IsScheduledForLeakCheck /\ AreProcsIdle THEN 0 ELSE execs

LeakCheck ==
  /\ At(<<"leak", 0>>)
  /\ pc' = <<"ready", 1>>
  /\ execs' = ExecsAfterLeakCheck
  /\ UNCHANGED <<unsent, queue, proc, child, ids, triaged, failed, announced,
                 results, deaths>>

\* Proc::Ready: deadline first, then the output pipe's EOF, then a reply.
Ready(p) ==
  /\ At(<<"ready", p>>)
  /\ pc' = <<"exec", p>>
  /\ \/ /\ child[p] = "late"
        /\ Restart(p, "other")
        /\ UNCHANGED announced
     \/ /\ child[p] = "dead"
        /\ \E exit \in {"fail", "other"} : Restart(p, exit)
        /\ UNCHANGED announced
     \/ /\ child[p] = "reply"
        /\ proc[p].state = "Handshaking"
        /\ proc' = [proc EXCEPT ![p] = Running(@)]
        /\ child' = [child EXCEPT ![p] = "work"]
        /\ announced' = announced \cup {proc[p].msg}
        /\ UNCHANGED <<ids, failed, results>>
     \/ /\ child[p] = "reply"
        /\ proc[p].state = "Executing"
        /\ Answer(proc[p].msg)
        /\ proc' = [proc EXCEPT ![p] = Completion(@)]
        /\ child' = [child EXCEPT ![p] = "wait"]
        /\ UNCHANGED <<ids, failed, announced>>
     \/ /\ child[p] \in {"wait", "work"}
        /\ UNCHANGED <<proc, child, ids, failed, announced, results>>
  /\ UNCHANGED <<unsent, queue, triaged, execs, deaths>>

\* After Ready the process is offered the front of the queue.
TakeQueued(p) ==
  /\ At(<<"exec", p>>)
  /\ pc' = IF p = NumProcs THEN <<"recv", 0>> ELSE <<"ready", p + 1>>
  /\ IF ~IsScheduledForLeakCheck /\ queue # <<>> /\ Accepts(p, Head(queue))
       THEN /\ Execute(p, Head(queue))
            /\ queue' = Tail(queue)
            /\ execs' = IF execs < 2 * NumProcs THEN execs + 1 ELSE execs
       ELSE UNCHANGED <<queue, proc, child, failed, announced, execs>>
  /\ UNCHANGED <<unsent, ids, triaged, results, deaths>>

Loop ==
  \/ HandleRequest \/ ExecuteBinary \/ HandleCorpusTriaged \/ NoMessage \/ LeakCheck
  \/ \E p \in Procs : Ready(p) \/ TakeQueued(p)

-----------------------------------------------------------------------------
(* The subprocesses: they reply to what they are given, die at any time, or *)
(* miss the deadline.                                                       *)

ChildMoves(p, to) ==
  /\ child' = [child EXCEPT ![p] = to]
  /\ UNCHANGED <<pc, unsent, queue, proc, ids, triaged, execs, failed,
                 announced, results>>

Reply(p) == child[p] = "work" /\ ChildMoves(p, "reply") /\ UNCHANGED deaths

Falls(p) ==
  /\ deaths < MaxDeaths
  /\ deaths' = deaths + 1
  /\ \/ child[p] # "dead" /\ ChildMoves(p, "dead")
     \/ child[p] = "work" /\ ChildMoves(p, "late")

Next == Loop \/ \E p \in Procs : Reply(p) \/ Falls(p)

Spec == Init /\ [][Next]_vars

\* The thread runs, messages of the host arrive, and a subprocess given work
\* replies unless it falls first.
FairSpec ==
  /\ Spec
  /\ WF_vars(Loop)
  /\ SF_vars(HandleRequest \/ ExecuteBinary)
  /\ \A p \in Procs : WF_vars(Reply(p))

-----------------------------------------------------------------------------

Holding(p) == proc[p].msg

\* Types; the assertions "already have pending msg", "wrong handshake state", "wrong
\* state for execute" and "don't have executed msg" cannot fail: a process
\* holds a request exactly while it shakes hands for it or executes it.
TypeOK ==
  /\ pc \in {<<"recv", 0>>, <<"leak", 0>>} \cup ({"ready", "exec"} \X Procs)
  /\ unsent \subseteq Requests
  /\ queue \in Seq(Requests)
  /\ proc \in [Procs -> [state : {"Started", "Handshaking", "Idle", "Executing"},
                         msg : Requests \cup {None}, id : 0 .. NumIDs - 1,
                         attempts : 0 .. MaxAttempts,
                         freshness : 0 .. RestartEvery,
                         env : {Env[r] : r \in Requests} \cup {None}]]
  /\ \A p \in Procs : proc[p].msg # None <=> proc[p].state \in {"Handshaking", "Executing"}
  /\ child \in [Procs -> {"wait", "work", "reply", "late", "dead"}]
  /\ ids \in Seq(0 .. NumIDs - 1)
  /\ triaged \in BOOLEAN /\ failed \in BOOLEAN
  /\ execs \in 0 .. 2 * NumProcs
  /\ announced \subseteq Requests
  /\ results \in [Requests -> Nat]
  /\ deaths \in 0 .. MaxDeaths

\* No two processes work under one proc id, whatever hangs, and the pool
\* neither loses an id nor holds one twice ("out of proc ids" cannot happen).
IDsDistinct ==
  LET free == {ids[i] : i \in DOMAIN ids}
  IN /\ Cardinality(UsedIDs) = NumProcs
     /\ Cardinality(free) = Len(ids)
     /\ UsedIDs \cup free = 0 .. NumIDs - 1
     /\ UsedIDs \cap free = {}

\* A request is at one place only: not received, queued, with one process,
\* or answered once.
AnsweredOnce ==
  \A r \in Requests :
    LET places == Cardinality({i \in DOMAIN queue : queue[i] = r})
                  + Cardinality({p \in Procs : Holding(p) = r})
                  + results[r] + (IF r \in unsent THEN 1 ELSE 0)
    IN failed \/ places = 1

\* A process runs a request under an id the host asked to avoid only when
\* the request avoids every id there was at the time; the id of a process
\* that holds a request does not change under it.
AvoidHonoured ==
  [][\A p \in Procs :
       proc'[p].msg # None /\ proc'[p] # proc[p] =>
         \/ proc'[p].id \notin Avoid[proc'[p].msg]
         \/ UsedIDs \subseteq Avoid[proc'[p].msg]
         \/ proc[p].msg = proc'[p].msg /\ proc[p].id = proc'[p].id]_vars

\* The executor gives up only after MaxAttempts real failures: restarts it
\* plans itself do not add up.
GivesUpAfterDeaths == failed => deaths >= MaxAttempts

Phase(r) ==
  IF results[r] > 0 THEN "answered"
  ELSE IF r \in unsent THEN "unsent"
  ELSE IF r \in announced THEN "running"
  ELSE "pending"

Protocol == INSTANCE ProcProtocol WITH
              phase <- [r \in Requests |-> Phase(r)], Limit <- NumProcs

\* Runner and its Procs implement the protocol the host expects.
ImplementsProtocol == Protocol!PSpec

\* Every request is executed and answered, however the masks, the restarts
\* and the queue interact (queue.Executor expects a result for it).
EveryRequestAnswered == \A r \in Requests : <>(results[r] = 1 \/ failed)

=============================================================================
