--------------------------- MODULE ProcRunnerProofs ---------------------------
(***************************************************************************)
(* For any requests, number of processes and failures: the executor keeps  *)
(* proc ids apart, answers a request once, honours the ids to avoid, gives *)
(* up only after real failures, and keeps the protocol of the host.        *)
(***************************************************************************)
EXTENDS ProcRunner, FiniteSetTheorems, TLAPS

ProcRecords ==
  [state : {"Started", "Handshaking", "Idle", "Executing"},
   msg : Requests \cup {None}, id : 0 .. NumIDs - 1, attempts : 0 .. MaxAttempts,
   freshness : 0 .. RestartEvery, env : {Env[r] : r \in Requests} \cup {None}]

\* Every id is with one process or once in the pool.
IDs ==
  /\ \A p, q \in Procs : proc[p].id = proc[q].id => p = q
  /\ \A i, j \in DOMAIN ids : ids[i] = ids[j] => i = j
  /\ \A p \in Procs, i \in DOMAIN ids : proc[p].id # ids[i]
  /\ \A x \in 0 .. NumIDs - 1 :
       \/ \E p \in Procs : proc[p].id = x
       \/ \E i \in DOMAIN ids : ids[i] = x

\* A process has no more attempts than subprocesses have fallen, the one that
\* waits to be restarted included.
Deaths ==
  /\ \A p \in Procs :
       proc[p].attempts + (IF child[p] \in {"late", "dead"} THEN 1 ELSE 0) <= deaths
  /\ GivesUpAfterDeaths

Waiting(r) == \E i \in DOMAIN queue : queue[i] = r
Held(r) == \E p \in Procs : proc[p].msg = r

\* A request is not received, queued, with a process or answered, in one
\* place and once.
Placed ==
  /\ \A i, j \in DOMAIN queue : queue[i] = queue[j] => i = j
  /\ \A p, q \in Procs : proc[p].msg # None /\ proc[p].msg = proc[q].msg => p = q
  /\ \A r \in Requests :
       /\ results[r] \in {0, 1}
       /\ r \in unsent \/ Waiting(r) \/ Held(r) \/ results[r] = 1
       /\ r \in unsent => ~(Waiting(r) \/ Held(r) \/ results[r] = 1)
       /\ Waiting(r) => ~(Held(r) \/ results[r] = 1)
       /\ Held(r) => results[r] = 0

\* What is executed was announced, and what was announced is with a process
\* until it is answered.
Told ==
  /\ \A p \in Procs : proc[p].state = "Executing" => proc[p].msg \in announced
  /\ \A r \in announced : results[r] = 1 \/ Held(r)

XInv == TypeOK /\ IDs /\ Deaths /\ (failed \/ (Placed /\ Told))

\* The type invariant, unfolded once for the steps below.
LEMMA TypeFacts ==
  TypeOK <=>
    /\ pc \in {<<"recv", 0>>, <<"leak", 0>>} \cup ({"ready", "exec"} \X Procs)
    /\ unsent \subseteq Requests
    /\ queue \in Seq(Requests)
    /\ proc \in [Procs -> ProcRecords]
    /\ \A p \in Procs :
         (proc[p].msg # None) <=> proc[p].state \in {"Handshaking", "Executing"}
    /\ child \in [Procs -> {"wait", "work", "reply", "late", "dead"}]
    /\ ids \in Seq(0 .. NumIDs - 1)
    /\ triaged \in BOOLEAN /\ failed \in BOOLEAN
    /\ execs \in 0 .. 2 * NumProcs
    /\ announced \subseteq Requests
    /\ results \in [Requests -> Nat]
    /\ deaths \in 0 .. MaxDeaths
BY DEF TypeOK, ProcRecords

\* Handing request r to a process with record P leaves it with record Q and
\* its subprocess in state c; announces says whether it starts at once.
TookOver(P, r, Q, c, announces) ==
  /\ Q \in ProcRecords
  /\ Q.msg = r /\ Q.id = P.id /\ Q.attempts = 0
  /\ Q.state = IF announces THEN "Executing" ELSE "Handshaking"
  /\ c \in {"work", "dead"}

\* A process's record is made of its fields, each of its type.
LEMMA RecordFacts ==
  ASSUME NEW P \in ProcRecords
  PROVE  /\ P = [state |-> P.state, msg |-> P.msg, id |-> P.id,
                 attempts |-> P.attempts, freshness |-> P.freshness, env |-> P.env]
         /\ P.state \in {"Started", "Handshaking", "Idle", "Executing"}
         /\ P.msg \in Requests \cup {None}
         /\ P.id \in 0 .. NumIDs - 1
         /\ P.attempts \in 0 .. MaxAttempts
         /\ P.freshness \in 0 .. RestartEvery
         /\ P.env \in {Env[r] : r \in Requests} \cup {None}
BY DEF ProcRecords

\* The operations on a record, field by field.
LEMMA RecordOps ==
  ASSUME NEW s, NEW m, NEW i, NEW a, NEW f, NEW e, NEW x, NEW P,
         P = [state |-> s, msg |-> m, id |-> i, attempts |-> a, freshness |-> f,
              env |-> e]
  PROVE  /\ Running(P) = [state |-> "Executing", msg |-> m, id |-> i, attempts |-> a,
                          freshness |-> f, env |-> e]
         /\ [P EXCEPT !.id = x] = [state |-> s, msg |-> m, id |-> x, attempts |-> a,
                                   freshness |-> f, env |-> e]
         /\ Completion(P) = [state |-> "Idle", msg |-> None, id |-> i, attempts |-> a,
                             freshness |-> IF f < RestartEvery THEN f + 1 ELSE f,
                             env |-> e]
<1>2. Running(P) = [state |-> "Executing", msg |-> m, id |-> i, attempts |-> a,
                    freshness |-> f, env |-> e]
  BY DEF Running
<1>3. [P EXCEPT !.id = x] = [state |-> s, msg |-> m, id |-> x, attempts |-> a,
                             freshness |-> f, env |-> e]
  OBVIOUS
<1>4. Completion(P) = [state |-> "Idle", msg |-> None, id |-> i, attempts |-> a,
                       freshness |-> IF f < RestartEvery THEN f + 1 ELSE f,
                       env |-> e]
  <2>1. PICK g, T, U : /\ g = IF f < RestartEvery THEN f + 1 ELSE f
                       /\ T = [P EXCEPT !.state = "Idle"]
                       /\ U = [T EXCEPT !.msg = None]
    BY Zenon
  <2>2. T = [state |-> "Idle", msg |-> m, id |-> i, attempts |-> a, freshness |-> f,
             env |-> e]
    BY <2>1
  <2>3. U = [state |-> "Idle", msg |-> None, id |-> i, attempts |-> a,
             freshness |-> f, env |-> e]
    <3>1. [T EXCEPT !.msg = None] = [state |-> "Idle", msg |-> None, id |-> i,
                                     attempts |-> a, freshness |-> f, env |-> e]
      BY ONLY <2>2
    <3> QED BY ONLY <2>1, <3>1
  <2>4. [U EXCEPT !.freshness = g] = [state |-> "Idle", msg |-> None, id |-> i,
                                      attempts |-> a, freshness |-> g, env |-> e]
    BY ONLY <2>3
  <2>5. P.freshness = f
    OBVIOUS
  <2>6. Completion(P) = [U EXCEPT !.freshness = g]
    BY ONLY <2>1, <2>5 DEF Completion
  <2> QED BY <2>1, <2>4, <2>6
<1> QED BY <1>2, <1>3, <1>4

\* What Execute leaves in a record it gives a request to.
LEMMA TakeOverFacts ==
  ASSUME NEW P \in ProcRecords, NEW x
  PROVE  TakeOver(P, x) = [state |-> P.state, msg |-> x, id |-> P.id, attempts |-> 0,
                           freshness |-> P.freshness, env |-> P.env]
<1>1. PICK s, m, i, a, f, e : /\ s = P.state /\ m = P.msg /\ i = P.id /\ a = P.attempts
                              /\ f = P.freshness /\ e = P.env
  OBVIOUS
<1>2. P = [state |-> s, msg |-> m, id |-> i, attempts |-> a, freshness |-> f,
           env |-> e]
  BY <1>1, RecordFacts
<1>3. TakeOver(P, x) = [state |-> s, msg |-> x, id |-> i, attempts |-> 0,
                        freshness |-> f, env |-> e]
  <2>1. PICK T : T = [P EXCEPT !.msg = x]
    BY Zenon
  <2>2. T = [state |-> s, msg |-> x, id |-> i, attempts |-> a, freshness |-> f,
             env |-> e]
    BY ONLY <1>2, <2>1
  <2>3. [T EXCEPT !.attempts = 0] = [state |-> s, msg |-> x, id |-> i, attempts |-> 0,
                                     freshness |-> f, env |-> e]
    BY ONLY <2>2
  <2>4. TakeOver(P, x) = [T EXCEPT !.attempts = 0]
    BY ONLY <2>1 DEF TakeOver
  <2> QED BY ONLY <2>3, <2>4
<1> QED BY ONLY <1>1, <1>3

\* Execute(msg) either gives up, or hands r over to p.
ExecuteFails(p) ==
  /\ failed' = TRUE /\ UNCHANGED <<proc, child, announced>>
  /\ proc[p].attempts >= MaxAttempts
ExecuteTakes(p, r) ==
  \E Q, c, announces :
    /\ announces \in BOOLEAN
    /\ TookOver(proc[p], r, Q, c, announces)
    /\ c = "dead" => child[p] = "dead"
    /\ proc' = [proc EXCEPT ![p] = Q]
    /\ child' = [child EXCEPT ![p] = c]
    /\ announced' = IF announces THEN announced \cup {r} ELSE announced
    /\ UNCHANGED failed

\* What Execute(msg) does with a process that accepts the request.
LEMMA ExecuteFacts ==
  ASSUME TypeOK, NEW p \in Procs, NEW r \in Requests, Accepts(p, r), Execute(p, r)
  PROVE  ExecuteFails(p) \/ ExecuteTakes(p, r)
<1>1. PICK P : P = proc[p]
  OBVIOUS
<1>2. P \in ProcRecords /\ P.state \in {"Started", "Idle"}
  BY <1>1, TypeFacts DEF Accepts
<1>3. /\ P = [state |-> P.state, msg |-> P.msg, id |-> P.id,
              attempts |-> P.attempts, freshness |-> P.freshness, env |-> P.env]
      /\ P.id \in 0 .. NumIDs - 1 /\ P.attempts \in 0 .. MaxAttempts
      /\ P.freshness \in 0 .. RestartEvery
      /\ P.env \in {Env[q] : q \in Requests} \cup {None}
      /\ MaxAttempts \in Nat /\ RestartEvery \in Nat /\ r # None
  BY <1>2, RecordFacts, ProcAssumption
<1>4. PICK planned \in BOOLEAN : planned = (P.state = "Idle" /\ WantsFreshProcess(P, r))
  BY Zenon
<1>5. CASE planned /\ GivesUp([P EXCEPT !.attempts = @ + 1])
  <2>1. failed' = TRUE /\ UNCHANGED <<proc, child, announced>>
    BY <1>1, <1>4, <1>5, Zenon DEF Execute
  <2>2. P.attempts >= MaxAttempts
    BY <1>3, <1>5 DEF GivesUp
  <2> QED BY <1>1, <2>1, <2>2 DEF ExecuteFails
<1>6. CASE ~(planned /\ GivesUp([P EXCEPT !.attempts = @ + 1]))
  <2>1. PICK c : c = IF child[p] = "dead" /\ ~planned THEN child[p] ELSE "work"
    OBVIOUS
  <2>2. c \in {"work", "dead"} /\ (c = "dead" => child[p] = "dead")
    BY <2>1
  <2>3. child' = [child EXCEPT ![p] = c] /\ UNCHANGED failed
    BY <1>1, <1>4, <1>6, <2>1, TypeFacts, Zenon DEF Execute
  <2>4. CASE planned \/ P.state = "Started"
    <3>1. PICK Q : Q = [state |-> "Handshaking", msg |-> r, id |-> P.id, attempts |-> 0,
                        freshness |-> IF planned THEN 0 ELSE P.freshness,
                        env |-> Env[r]]
      BY Zenon
    <3>2. Q = IF planned THEN Start(TakeOver([P EXCEPT !.attempts = @ + 1], r))
                         ELSE Handshake(TakeOver(P, r))
      BY <1>3, <3>1, Zenon DEF Start, TakeOver, Handshake
    <3>3. proc' = [proc EXCEPT ![p] = Q] /\ UNCHANGED announced
      BY <1>1, <1>4, <1>6, <2>4, <3>2, Zenon DEF Execute
    <3>4. TookOver(P, r, Q, c, FALSE)
      BY <1>3, <2>2, <3>1 DEF TookOver, ProcRecords
    <3> QED BY <1>1, <2>2, <2>3, <3>3, <3>4, Zenon DEF ExecuteTakes
  <2>5. CASE ~(planned \/ P.state = "Started")
    <3>1. PICK Q : Q = [state |-> "Executing", msg |-> r, id |-> P.id, attempts |-> 0,
                        freshness |-> P.freshness, env |-> P.env]
      BY Zenon
    <3>2. Q = Running(TakeOver(P, r))
      <4>1. PICK T : T = [state |-> P.state, msg |-> r, id |-> P.id, attempts |-> 0,
                          freshness |-> P.freshness, env |-> P.env]
        BY Zenon
      <4>2. T = TakeOver(P, r)
        BY ONLY <1>2, <4>1, TakeOverFacts
      <4>3. Q = Running(T)
        BY ONLY <3>1, <4>1, RecordOps
      <4> QED BY <4>2, <4>3
    <3>3. proc' = [proc EXCEPT ![p] = Q] /\ announced' = announced \cup {r}
      BY <1>1, <1>4, <1>6, <2>5, <3>2, Zenon DEF Execute
    <3>4. TookOver(P, r, Q, c, TRUE)
      BY <1>3, <2>2, <3>1 DEF TookOver, ProcRecords
    <3> QED BY <1>1, <2>2, <2>3, <3>3, <3>4, Zenon DEF ExecuteTakes
  <2> QED BY <2>4, <2>5
<1> QED BY <1>5, <1>6

\* Restarting a process with record P leaves it with record Q: with its
\* request, or without one, when the request was answered with an error.
Keeps(P, Q) ==
  /\ Q \in ProcRecords
  /\ Q.msg = P.msg /\ Q.id = P.id /\ Q.attempts = P.attempts + 1
  /\ Q.state = IF P.msg = None THEN "Started" ELSE "Handshaking"
Drops(P, Q) ==
  /\ Q \in ProcRecords
  /\ Q.msg = None /\ Q.attempts = P.attempts + 1 /\ Q.state = "Started"

\* What Restart does.
LEMMA RestartFacts ==
  ASSUME TypeOK, NEW p \in Procs, NEW exit, Restart(p, exit)
  PROVE  \/ /\ failed' = TRUE /\ UNCHANGED <<proc, child, ids, results>>
            /\ proc[p].attempts >= MaxAttempts
         \/ /\ UNCHANGED failed
            /\ \E Q, c :
                 /\ c \in {"wait", "work"}
                 /\ proc' = [proc EXCEPT ![p] = Q]
                 /\ child' = [child EXCEPT ![p] = c]
                 /\ \/ Keeps(proc[p], Q) /\ UNCHANGED <<ids, results>>
                    \/ /\ Drops(proc[p], Q)
                       /\ proc[p].msg # None
                       /\ results' = [results EXCEPT ![proc[p].msg] = @ + 1]
                       /\ \/ /\ Q.id = proc[p].id /\ UNCHANGED ids
                             /\ proc[p].msg \in ReturnError
                             /\ proc[p].state = "Handshaking"
                          \/ /\ Q.id = Head(Append(ids, proc[p].id))
                             /\ ids' = Tail(Append(ids, proc[p].id))
                             /\ proc[p].state = "Executing"
<1>1. PICK O : O = proc[p]
  OBVIOUS
<1>2. O \in ProcRecords
  BY <1>1, TypeFacts
<1>3. /\ O = [state |-> O.state, msg |-> O.msg, id |-> O.id,
              attempts |-> O.attempts, freshness |-> O.freshness, env |-> O.env]
      /\ O.state \in {"Started", "Handshaking", "Idle", "Executing"}
      /\ O.msg \in Requests \cup {None}
      /\ O.id \in 0 .. NumIDs - 1 /\ O.attempts \in 0 .. MaxAttempts
      /\ O.freshness \in 0 .. RestartEvery
      /\ O.env \in {Env[q] : q \in Requests} \cup {None}
      /\ MaxAttempts \in Nat /\ RestartEvery \in Nat
  BY <1>2, RecordFacts, ProcAssumption
<1>4. (O.msg # None) <=> O.state \in {"Handshaking", "Executing"}
  BY <1>1, TypeFacts
<1>5. PICK P : P = [O EXCEPT !.attempts = @ + 1]
  BY Zenon
<1>6. P = [state |-> O.state, msg |-> O.msg, id |-> O.id, attempts |-> O.attempts + 1,
           freshness |-> O.freshness, env |-> O.env]
  BY <1>3, <1>5
<1>7. CASE GivesUp(P)
  <2>1. failed' = TRUE /\ UNCHANGED <<proc, child, ids, results>>
    BY <1>1, <1>5, <1>7 DEF Restart
  <2>2. O.attempts >= MaxAttempts
    BY <1>3, <1>6, <1>7 DEF GivesUp
  <2> QED BY <1>1, <2>1, <2>2, Zenon
<1>8. CASE ~GivesUp(P) /\ ~FailCurrentRequest(P, exit)
  <2>1. /\ proc' = [proc EXCEPT ![p] = Start(P)]
        /\ child' = [child EXCEPT ![p] = ChildAfterStart(P)]
        /\ UNCHANGED <<ids, results, failed>>
    BY <1>1, <1>5, <1>8 DEF Restart
  <2>2. PICK Q, c : Q = Start(P) /\ c = ChildAfterStart(P)
    OBVIOUS
  <2>3. P.attempts \in 0 .. MaxAttempts
    BY <1>3, <1>6, <1>8 DEF GivesUp
  <2>4. CASE O.msg = None
    <3>1. Q = [state |-> "Started", msg |-> O.msg, id |-> O.id,
               attempts |-> O.attempts + 1, freshness |-> 0, env |-> O.env]
      BY <1>6, <2>2, <2>4, Zenon DEF Start
    <3>2. Keeps(O, Q)
      BY <1>3, <1>6, <2>3, <2>4, <3>1 DEF Keeps, ProcRecords
    <3> QED BY <1>1, <2>1, <2>2, <3>2, Zenon DEF ChildAfterStart
  <2>5. CASE O.msg # None
    <3>1. Q = [state |-> "Handshaking", msg |-> O.msg, id |-> O.id,
               attempts |-> O.attempts + 1, freshness |-> 0, env |-> Env[O.msg]]
      BY <1>6, <2>2, <2>5, Zenon DEF Start, Handshake
    <3>2. Keeps(O, Q)
      BY <1>3, <1>6, <2>3, <2>5, <3>1 DEF Keeps, ProcRecords
    <3> QED BY <1>1, <2>1, <2>2, <3>2, Zenon DEF ChildAfterStart
  <2> QED BY <2>4, <2>5, Zenon
<1>9. CASE ~GivesUp(P) /\ FailCurrentRequest(P, exit)
  <2>1. /\ O.msg # None /\ O.state \in {"Handshaking", "Executing"}
        /\ O.state = "Handshaking" => O.msg \in ReturnError
    BY <1>4, <1>6, <1>9 DEF FailCurrentRequest
  <2>2. P.attempts \in 0 .. MaxAttempts
    BY <1>3, <1>6, <1>9 DEF GivesUp
  <2>3. PICK C : C = Completion(P)
    OBVIOUS
  <2>4. PICK f \in 0 .. RestartEvery :
          C = [state |-> "Idle", msg |-> None, id |-> O.id,
               attempts |-> O.attempts + 1, freshness |-> f, env |-> O.env]
    <3>1. PICK f : f = IF O.freshness < RestartEvery THEN O.freshness + 1
                                                   ELSE O.freshness
      OBVIOUS
    <3>2. f \in 0 .. RestartEvery
      BY <1>3, <3>1
    <3>3. C = [state |-> "Idle", msg |-> None, id |-> O.id,
               attempts |-> O.attempts + 1, freshness |-> f, env |-> O.env]
      BY ONLY <1>6, <2>3, <3>1, RecordOps
    <3> QED BY <3>2, <3>3
  <2>5. CASE O.state = "Executing"
    <3>1. PICK h, R, Q : /\ h = Head(Append(ids, O.id)) /\ R = [C EXCEPT !.id = h]
                         /\ Q = Start(R)
      BY Zenon
    <3>2. /\ proc' = [proc EXCEPT ![p] = Q]
          /\ child' = [child EXCEPT ![p] = ChildAfterStart(R)]
          /\ ids' = Tail(Append(ids, O.id))
          /\ results' = [results EXCEPT ![O.msg] = @ + 1]
          /\ UNCHANGED failed
      BY <1>1, <1>5, <1>6, <1>9, <2>3, <2>5, <3>1, Zenon DEF Restart, PoolWith, Answer
    <3>3. R = [state |-> "Idle", msg |-> None, id |-> h,
               attempts |-> O.attempts + 1, freshness |-> f, env |-> O.env]
      BY <2>4, <3>1
    <3>4. Q = [state |-> "Started", msg |-> None, id |-> h,
               attempts |-> O.attempts + 1, freshness |-> 0, env |-> O.env]
      <4>1. PICK b, z : b = O.attempts + 1 /\ z = O.env
        OBVIOUS
      <4>2. R = [state |-> "Idle", msg |-> None, id |-> h, attempts |-> b,
                 freshness |-> f, env |-> z]
        BY <3>3, <4>1
      <4>3. Start(R) = [state |-> "Started", msg |-> None, id |-> h, attempts |-> b,
                        freshness |-> 0, env |-> z]
        BY ONLY <4>2, Zenon DEF Start
      <4> QED BY <3>1, <4>1, <4>3
    <3>5. h \in 0 .. NumIDs - 1
      <4>1. ids \in Seq(0 .. NumIDs - 1)
        BY TypeFacts
      <4>2. ASSUME NEW S, NEW q \in Seq(S), NEW x \in S PROVE Head(Append(q, x)) \in S
        BY ONLY <4>2
      <4> QED BY <1>3, <3>1, <4>1, <4>2, Zenon
    <3>6. Drops(O, Q)
      BY <1>3, <1>6, <2>2, <3>4, <3>5 DEF Drops, ProcRecords
    <3>7. ChildAfterStart(R) = "wait" /\ Q.id = h
      BY <3>3, <3>4 DEF ChildAfterStart
    <3> QED BY <1>1, <2>1, <2>5, <3>1, <3>2, <3>6, <3>7, Zenon
  <2>6. CASE O.state = "Handshaking"
    <3>1. PICK Q : Q = Start(C)
      OBVIOUS
    <3>2. /\ proc' = [proc EXCEPT ![p] = Q]
          /\ child' = [child EXCEPT ![p] = ChildAfterStart(C)]
          /\ results' = [results EXCEPT ![O.msg] = @ + 1]
          /\ UNCHANGED <<ids, failed>>
      BY <1>1, <1>5, <1>6, <1>9, <2>3, <2>6, <3>1 DEF Restart, Answer
    <3>3. Q = [state |-> "Started", msg |-> None, id |-> O.id,
               attempts |-> O.attempts + 1, freshness |-> 0, env |-> O.env]
      BY <2>4, <3>1, Zenon DEF Start
    <3>4. Drops(O, Q)
      BY <1>3, <1>6, <2>2, <3>3 DEF Drops, ProcRecords
    <3>5. ChildAfterStart(C) = "wait" /\ Q.id = O.id
      BY <2>4, <3>3 DEF ChildAfterStart
    <3> QED BY <1>1, <2>1, <2>6, <3>2, <3>4, <3>5, Zenon
  <2> QED BY <2>1, <2>5, <2>6, Zenon
<1> QED BY <1>7, <1>8, <1>9, Zenon

\* The type invariant of the next state, unfolded once.
LEMMA TypeFactsPrime ==
  TypeOK' <=>
    /\ pc' \in {<<"recv", 0>>, <<"leak", 0>>} \cup ({"ready", "exec"} \X Procs)
    /\ unsent' \subseteq Requests
    /\ queue' \in Seq(Requests)
    /\ proc' \in [Procs -> ProcRecords]
    /\ \A p \in Procs :
         (proc'[p].msg # None) <=> proc'[p].state \in {"Handshaking", "Executing"}
    /\ child' \in [Procs -> {"wait", "work", "reply", "late", "dead"}]
    /\ ids' \in Seq(0 .. NumIDs - 1)
    /\ triaged' \in BOOLEAN /\ failed' \in BOOLEAN
    /\ execs' \in 0 .. 2 * NumProcs
    /\ announced' \subseteq Requests
    /\ results' \in [Requests -> Nat]
    /\ deaths' \in 0 .. MaxDeaths
BY DEF TypeOK, ProcRecords

\* One process changes its record and its subprocess.
Changes(p, Q, c) ==
  /\ proc' = [proc EXCEPT ![p] = Q]
  /\ child' = [child EXCEPT ![p] = c]

\* What a step that changes one process leaves of the types: that process has the
\* new record, the others are untouched.
LEMMA ChangeFacts ==
  ASSUME TypeOK, NEW p \in Procs, NEW Q \in ProcRecords,
         NEW c \in {"wait", "work", "reply", "late", "dead"}, Changes(p, Q, c),
         (Q.msg # None) <=> Q.state \in {"Handshaking", "Executing"}
  PROVE  /\ proc' \in [Procs -> ProcRecords]
         /\ child' \in [Procs -> {"wait", "work", "reply", "late", "dead"}]
         /\ \A q \in Procs :
              (proc'[q].msg # None) <=> proc'[q].state \in {"Handshaking", "Executing"}
         /\ proc'[p] = Q /\ child'[p] = c
         /\ \A q \in Procs \ {p} : proc'[q] = proc[q] /\ child'[q] = child[q]
<1>1. /\ proc \in [Procs -> ProcRecords]
      /\ child \in [Procs -> {"wait", "work", "reply", "late", "dead"}]
      /\ \A q \in Procs :
           (proc[q].msg # None) <=> proc[q].state \in {"Handshaking", "Executing"}
  BY TypeFacts
<1>2. /\ proc'[p] = Q /\ child'[p] = c
      /\ \A q \in Procs \ {p} : proc'[q] = proc[q] /\ child'[q] = child[q]
      /\ proc' \in [Procs -> ProcRecords]
      /\ child' \in [Procs -> {"wait", "work", "reply", "late", "dead"}]
  BY <1>1 DEF Changes
<1> QED BY <1>1, <1>2

\* A step that gives no process a new id keeps the ids apart.
LEMMA SameIDs ==
  ASSUME TypeOK, IDs, NEW p \in Procs, proc' \in [Procs -> ProcRecords],
         proc'[p].id = proc[p].id, UNCHANGED ids,
         \A q \in Procs \ {p} : proc'[q] = proc[q]
  PROVE  IDs'
<1>1. \A q \in Procs : proc'[q].id = proc[q].id
  OBVIOUS
<1> QED BY <1>1 DEF IDs

\* Alloc puts the old id at the end of the pool and takes the first.
LEMMA RotatedIDs ==
  ASSUME TypeOK, IDs, NEW p \in Procs, NEW Q, proc' \in [Procs -> ProcRecords],
         proc'[p] = Q, Q.id = Head(Append(ids, proc[p].id)),
         ids' = Tail(Append(ids, proc[p].id)),
         \A q \in Procs \ {p} : proc'[q] = proc[q]
  PROVE  IDs' /\ ids' \in Seq(0 .. NumIDs - 1)
<1>1. PICK x, S, pool : x = proc[p].id /\ S = 0 .. NumIDs - 1 /\ pool = Append(ids, x)
  BY Zenon
<1>2. x \in S /\ ids \in Seq(S)
  BY <1>1, TypeFacts, RecordFacts
<1>3. PICK n \in Nat : /\ DOMAIN ids = 1 .. n
                       /\ DOMAIN pool = 1 .. n + 1 /\ pool \in Seq(S)
                       /\ \A i \in 1 .. n : pool[i] = ids[i]
                       /\ pool[n + 1] = x
  BY <1>1, <1>2
<1>4. /\ Head(pool) = pool[1]
      /\ Tail(pool) \in Seq(S)
      /\ DOMAIN Tail(pool) = 1 .. n
      /\ \A i \in 1 .. n : Tail(pool)[i] = pool[i + 1]
  <2>1. Len(pool) = n + 1 /\ pool # <<>>
    BY <1>3
  <2> QED BY <1>3, <2>1
<1>5. \A i, j \in 1 .. n + 1 : pool[i] = pool[j] => i = j
  <2>1. \A i \in 1 .. n : ids[i] # x
    BY <1>1, <1>3, Zenon DEF IDs
  <2>2. \A i, j \in 1 .. n : ids[i] = ids[j] => i = j
    BY <1>3 DEF IDs
  <2>3. \A i \in 1 .. n + 1 : i \in 1 .. n \/ i = n + 1
    BY <1>3
  <2> QED BY <1>3, <2>1, <2>2, <2>3
<1>6. \A q \in Procs \ {p}, i \in 1 .. n + 1 : proc[q].id # pool[i]
  <2>1. \A i \in 1 .. n + 1 : i \in 1 .. n \/ i = n + 1
    BY <1>3
  <2> QED BY <1>1, <1>3, <2>1 DEF IDs
<1>7. /\ ids' = Tail(pool) /\ proc'[p].id = pool[1]
      /\ \A i \in 1 .. n : i + 1 \in 1 .. n + 1 /\ i + 1 # 1
      /\ 1 \in 1 .. n + 1
  BY <1>1, <1>3, <1>4
<1>8. \A i \in 1 .. n : ids'[i] = pool[i + 1]
  BY <1>4, <1>7, Zenon
<1>9. DOMAIN ids' = 1 .. n
  BY <1>4, <1>7
<1>10. \A q, r \in Procs : proc'[q].id = proc'[r].id => q = r
  BY <1>6, <1>7 DEF IDs
<1>11. \A i, j \in DOMAIN ids' : ids'[i] = ids'[j] => i = j
  <2>1. SUFFICES ASSUME NEW i \in 1 .. n, NEW j \in 1 .. n, ids'[i] = ids'[j]
                 PROVE  i = j
    BY <1>9, Zenon
  <2>2. i + 1 \in 1 .. n + 1 /\ j + 1 \in 1 .. n + 1 /\ pool[i + 1] = pool[j + 1]
    BY <1>7, <1>8, <2>1, Zenon
  <2>3. i + 1 = j + 1
    BY <1>5, <2>2
  <2> QED BY <1>3, <2>3
<1>12. \A q \in Procs, i \in DOMAIN ids' : proc'[q].id # ids'[i]
  <2>1. SUFFICES ASSUME NEW q \in Procs, NEW i \in 1 .. n
                 PROVE  proc'[q].id # ids'[i]
    BY <1>9
  <2>2. ids'[i] = pool[i + 1] /\ i + 1 \in 1 .. n + 1 /\ i + 1 # 1
    BY <1>7, <1>8, Zenon
  <2>3. CASE q = p
    BY <1>5, <1>7, <2>2, <2>3, Zenon
  <2>4. CASE q # p
    BY <1>6, <2>2, <2>4, Zenon
  <2> QED BY <2>3, <2>4, Zenon
<1>13. ASSUME NEW y \in S
       PROVE  \/ \E q \in Procs : proc'[q].id = y
              \/ \E i \in DOMAIN ids' : ids'[i] = y
  <2>1. (\E q \in Procs \ {p} : proc[q].id = y) \/ (\E i \in 1 .. n + 1 : pool[i] = y)
    <3>1. \A i \in 1 .. n : i \in 1 .. n + 1
      BY <1>3
    <3>2. n + 1 \in 1 .. n + 1
      BY <1>3
    <3> QED BY <1>1, <1>3, <1>13, <3>1, <3>2 DEF IDs
  <2>2. ASSUME NEW i \in 1 .. n + 1, pool[i] = y, i # 1
        PROVE  \E j \in DOMAIN ids' : ids'[j] = y
    <3>1. i - 1 \in 1 .. n /\ i - 1 + 1 = i
      BY <1>3, <2>2
    <3> QED BY <1>8, <1>9, <2>2, <3>1, Zenon
  <2> QED BY <1>7, <2>1, <2>2, Zenon
<1> QED BY <1>1, <1>4, <1>7, <1>10, <1>11, <1>12, <1>13, Zenon DEF IDs

\* IDs is what IDsDistinct counts.
LEMMA IDsCounted == TypeOK /\ IDs => IDsDistinct
<1> SUFFICES ASSUME TypeOK, IDs PROVE IDsDistinct
  OBVIOUS
<1>1. PICK free : free = {ids[i] : i \in DOMAIN ids}
  BY Zenon
<1>2. /\ NumProcs \in Nat /\ Procs = 1 .. NumProcs
      /\ proc \in [Procs -> ProcRecords] /\ ids \in Seq(0 .. NumIDs - 1)
  BY TypeFacts, ProcAssumption DEF Procs
<1>3. Cardinality(UsedIDs) = NumProcs
  <2>1. PICK f : f = [p \in Procs |-> proc[p].id]
    BY Zenon
  <2>2. f \in Surjection(Procs, UsedIDs)
    BY <2>1 DEF Surjection, UsedIDs
  <2>3. f \in Injection(Procs, UsedIDs)
    BY <2>1, <2>2 DEF Injection, IsInjective, Surjection, IDs
  <2>4. IsFiniteSet(Procs) /\ Cardinality(Procs) = NumProcs
    BY <1>2, FS_Interval
  <2>5. Cardinality(UsedIDs) = Cardinality(Procs)
    BY ONLY <2>2, <2>3, <2>4, FS_Surjection
  <2> QED BY <2>4, <2>5
<1>4. Cardinality(free) = Len(ids)
  <2>1. PICK n \in Nat : n = Len(ids) /\ DOMAIN ids = 1 .. n
    BY <1>2
  <2>2. ids \in Surjection(1 .. n, free)
    <3>1. ids \in [1 .. n -> free]
      BY <1>1, <1>2, <2>1
    <3> QED BY <1>1, <2>1, <3>1 DEF Surjection
  <2>3. ids \in Injection(1 .. n, free)
    BY <2>1, <2>2 DEF Injection, IsInjective, Surjection, IDs
  <2>4. IsFiniteSet(1 .. n) /\ Cardinality(1 .. n) = n
    BY FS_Interval
  <2>5. Cardinality(free) = Cardinality(1 .. n)
    BY ONLY <2>2, <2>3, <2>4, FS_Surjection
  <2> QED BY <2>1, <2>4, <2>5
<1>5. UsedIDs \cup free = 0 .. NumIDs - 1
  <2>1. UsedIDs \subseteq 0 .. NumIDs - 1
    BY <1>2, RecordFacts DEF UsedIDs
  <2>2. free \subseteq 0 .. NumIDs - 1
    <3>1. ASSUME NEW S, NEW f \in Seq(S), NEW i \in DOMAIN f PROVE f[i] \in S
      BY ONLY <3>1
    <3> QED BY <1>1, <1>2, <3>1, Zenon
  <2>3. 0 .. NumIDs - 1 \subseteq UsedIDs \cup free
    BY <1>1 DEF IDs, UsedIDs
  <2> QED BY <2>1, <2>2, <2>3, Zenon
<1>6. UsedIDs \cap free = {}
  BY <1>1 DEF UsedIDs, IDs
<1> QED BY <1>1, <1>3, <1>4, <1>5, <1>6 DEF IDsDistinct

\* A place is one of five, and counts one.
LEMMA PlacedCounted == TypeOK /\ (failed \/ Placed) => AnsweredOnce
<1> SUFFICES ASSUME TypeOK, Placed, NEW r \in Requests
             PROVE  Cardinality({i \in DOMAIN queue : queue[i] = r})
                    + Cardinality({p \in Procs : Holding(p) = r})
                    + results[r] + (IF r \in unsent THEN 1 ELSE 0) = 1
  BY DEF AnsweredOnce
<1>1. PICK W, H : /\ W = {i \in DOMAIN queue : queue[i] = r}
                  /\ H = {p \in Procs : Holding(p) = r}
  BY Zenon
<1>2. Cardinality(W) = IF Waiting(r) THEN 1 ELSE 0
  <2>1. CASE Waiting(r)
    <3>1. PICK i \in DOMAIN queue : queue[i] = r
      BY <2>1 DEF Waiting
    <3>2. W = {i}
      BY <1>1, <3>1 DEF Placed
    <3> QED BY <2>1, <3>2, FS_Singleton, Zenon
  <2>2. CASE ~Waiting(r)
    <3>1. W = {}
      BY <1>1, <2>2 DEF Waiting
    <3> QED BY <2>2, <3>1, FS_EmptySet
  <2> QED BY <2>1, <2>2
<1>3. Cardinality(H) = IF Held(r) THEN 1 ELSE 0
  <2>1. CASE Held(r)
    <3>1. PICK p \in Procs : proc[p].msg = r
      BY <2>1 DEF Held
    <3>2. H = {p}
      BY <1>1, <3>1, ProcAssumption DEF Placed, Holding
    <3> QED BY <2>1, <3>2, FS_Singleton
  <2>2. CASE ~Held(r)
    <3>1. H = {}
      BY <1>1, <2>2 DEF Held, Holding
    <3> QED BY <2>2, <3>1, FS_EmptySet
  <2> QED BY <2>1, <2>2
<1>4. /\ results[r] \in {0, 1}
      /\ r \in unsent \/ Waiting(r) \/ Held(r) \/ results[r] = 1
      /\ r \in unsent => ~(Waiting(r) \/ Held(r) \/ results[r] = 1)
      /\ Waiting(r) => ~(Held(r) \/ results[r] = 1)
      /\ Held(r) => results[r] = 0
  BY DEF Placed
<1>5. Cardinality(W) + Cardinality(H) + results[r] + (IF r \in unsent THEN 1 ELSE 0) = 1
  BY ONLY <1>2, <1>3, <1>4
<1> QED BY <1>1, <1>5

\* Only process p changes: the requests the others hold stay with them.
LEMMA HeldAfter ==
  ASSUME NEW p \in Procs, \A q \in Procs \ {p} : proc'[q] = proc[q], NEW r
  PROVE  Held(r)' <=> (proc'[p].msg = r \/ \E q \in Procs \ {p} : proc[q].msg = r)
BY DEF Held

\* A request comes out of the host's or the runner's hands into p's.
LEMMA TakenPlaced ==
  ASSUME TypeOK, Placed, Told, NEW p \in Procs, NEW r \in Requests,
         proc[p].msg = None, proc'[p].msg = r,
         \A q \in Procs \ {p} : proc'[q] = proc[q],
         \A i, j \in DOMAIN queue' : queue'[i] = queue'[j] => i = j,
         \A q \in Requests : (q \in unsent') <=> (q \in unsent /\ q # r),
         \A q \in Requests : Waiting(q)' <=> (Waiting(q) /\ q # r),
         r \in unsent \/ Waiting(r), UNCHANGED results,
         announced' = announced \/ announced' = announced \cup {r},
         proc'[p].state = "Executing" => r \in announced'
  PROVE  Placed' /\ Told'
<1>1. r # None /\ announced \subseteq Requests
  BY ProcAssumption, TypeFacts
<1>2. \A q \in Requests : Held(q)' <=> (q = r \/ Held(q))
  BY <1>1, HeldAfter, ProcAssumption DEF Held
<1>3. ~Held(r) /\ results[r] = 0
  BY DEF Placed
<1>4. \A q, s \in Procs : proc'[q].msg # None /\ proc'[q].msg = proc'[s].msg => q = s
  BY <1>3 DEF Placed, Held
<1>5. ASSUME NEW q \in Requests
      PROVE  /\ results'[q] \in {0, 1}
             /\ q \in unsent' \/ Waiting(q)' \/ Held(q)' \/ results'[q] = 1
             /\ q \in unsent' => ~(Waiting(q)' \/ Held(q)' \/ results'[q] = 1)
             /\ Waiting(q)' => ~(Held(q)' \/ results'[q] = 1)
             /\ Held(q)' => results'[q] = 0
  <2>1. /\ (q \in unsent') <=> (q \in unsent /\ q # r)
        /\ Waiting(q)' <=> (Waiting(q) /\ q # r)
        /\ Held(q)' <=> (q = r \/ Held(q))
        /\ results'[q] = results[q]
    BY <1>2, <1>5
  <2>2. /\ results[q] \in {0, 1}
        /\ q \in unsent \/ Waiting(q) \/ Held(q) \/ results[q] = 1
        /\ q \in unsent => ~(Waiting(q) \/ Held(q) \/ results[q] = 1)
        /\ Waiting(q) => ~(Held(q) \/ results[q] = 1)
        /\ Held(q) => results[q] = 0
    BY <1>5 DEF Placed
  <2> QED BY <1>3, <2>1, <2>2
<1>6. Placed'
  BY <1>4, <1>5 DEF Placed
<1>7. \A q \in Procs : proc'[q].state = "Executing" => proc'[q].msg \in announced'
  BY DEF Told
<1>8. \A q \in announced' : results'[q] = 1 \/ Held(q)'
  BY <1>1, <1>2 DEF Told
<1> QED BY <1>6, <1>7, <1>8 DEF Told

\* A process goes on with its request, or without one.
LEMMA KeptPlaced ==
  ASSUME TypeOK, Placed, Told, NEW p \in Procs, proc'[p].msg = proc[p].msg,
         \A q \in Procs \ {p} : proc'[q] = proc[q], UNCHANGED <<unsent, queue, results>>,
         \/ announced' = announced
         \/ proc[p].msg \in Requests /\ announced' = announced \cup {proc[p].msg},
         proc'[p].state = "Executing" => proc[p].msg \in announced'
  PROVE  Placed' /\ Told'
<1>1. \A q \in Procs : proc'[q].msg = proc[q].msg
  OBVIOUS
<1>2. \A r : (Held(r)' <=> Held(r)) /\ (Waiting(r)' <=> Waiting(r))
  BY <1>1 DEF Held, Waiting
<1>3. Placed'
  BY <1>1, <1>2 DEF Placed
<1>4. \A q \in Procs : proc'[q].state = "Executing" => proc'[q].msg \in announced'
  BY DEF Told
<1>5. \A q \in announced' : results'[q] = 1 \/ Held(q)'
  <2>1. proc[p].msg \in Requests => Held(proc[p].msg)
    BY DEF Held
  <2> QED BY <1>2, <2>1 DEF Told
<1> QED BY <1>3, <1>4, <1>5 DEF Told

\* The request a process held is answered.
LEMMA DroppedPlaced ==
  ASSUME TypeOK, Placed, Told, NEW p \in Procs, NEW r \in Requests, proc[p].msg = r,
         proc'[p].msg = None, proc'[p].state # "Executing",
         \A q \in Procs \ {p} : proc'[q] = proc[q],
         UNCHANGED <<unsent, queue, announced>>,
         results' = [results EXCEPT ![r] = @ + 1]
  PROVE  Placed' /\ Told'
<1>1. r # None /\ announced \subseteq Requests /\ results \in [Requests -> Nat]
  BY ProcAssumption, TypeFacts
<1>2. \A q \in Requests : Held(q)' <=> (q # r /\ Held(q))
  <2>1. \A q \in Procs \ {p} : proc[q].msg # r
    BY <1>1 DEF Placed
  <2> QED BY <1>1, <2>1, HeldAfter, ProcAssumption DEF Held
<1>3. Held(r) /\ results[r] = 0
  BY DEF Placed, Held
<1>4. \A q \in Requests : results'[q] = IF q = r THEN 1 ELSE results[q]
  BY <1>1, <1>3
<1>5. \A q \in Requests : Waiting(q)' <=> Waiting(q)
  BY DEF Waiting
<1>6. \A q, s \in Procs : proc'[q].msg # None /\ proc'[q].msg = proc'[s].msg => q = s
  BY DEF Placed
<1>7. \A q \in Requests :
        /\ results'[q] \in {0, 1}
        /\ q \in unsent' \/ Waiting(q)' \/ Held(q)' \/ results'[q] = 1
        /\ q \in unsent' => ~(Waiting(q)' \/ Held(q)' \/ results'[q] = 1)
        /\ Waiting(q)' => ~(Held(q)' \/ results'[q] = 1)
        /\ Held(q)' => results'[q] = 0
  <2>1. SUFFICES ASSUME NEW q \in Requests
        PROVE  /\ results'[q] \in {0, 1}
               /\ q \in unsent' \/ Waiting(q)' \/ Held(q)' \/ results'[q] = 1
               /\ q \in unsent' => ~(Waiting(q)' \/ Held(q)' \/ results'[q] = 1)
               /\ Waiting(q)' => ~(Held(q)' \/ results'[q] = 1)
               /\ Held(q)' => results'[q] = 0
    OBVIOUS
  <2>2. /\ (Held(q)' <=> (q # r /\ Held(q))) /\ (Waiting(q)' <=> Waiting(q))
        /\ results'[q] = IF q = r THEN 1 ELSE results[q]
    BY <1>2, <1>4, <1>5
  <2>3. /\ results[q] \in {0, 1}
        /\ q \in unsent \/ Waiting(q) \/ Held(q) \/ results[q] = 1
        /\ q \in unsent => ~(Waiting(q) \/ Held(q) \/ results[q] = 1)
        /\ Waiting(q) => ~(Held(q) \/ results[q] = 1)
        /\ Held(q) => results[q] = 0
    BY DEF Placed
  <2> QED BY <1>3, <2>2, <2>3
<1>8. Placed'
  <2>1. \A i, j \in DOMAIN queue' : queue'[i] = queue'[j] => i = j
    BY DEF Placed
  <2> QED BY ONLY <1>6, <1>7, <2>1 DEF Placed
<1>9. \A q \in Procs : proc'[q].state = "Executing" => proc'[q].msg \in announced'
  BY DEF Told
<1>10. \A q \in announced' : results'[q] = 1 \/ Held(q)'
  BY <1>1, <1>2, <1>4 DEF Told
<1> QED BY <1>8, <1>9, <1>10 DEF Told

\* What the runner does not hold: a request it queues, and a binary it runs.
LEMMA ReceivedPlaced ==
  ASSUME TypeOK, Placed, Told, NEW r \in unsent, unsent' = unsent \ {r}, UNCHANGED proc,
         \/ queue' = Append(queue, r) /\ UNCHANGED <<results, announced>>
         \/ /\ results' = [results EXCEPT ![r] = @ + 1]
            /\ announced' = announced \cup {r} /\ UNCHANGED queue
  PROVE  Placed' /\ Told'
<1>1. /\ r \in Requests /\ results \in [Requests -> Nat] /\ queue \in Seq(Requests)
      /\ announced \subseteq Requests
  BY TypeFacts
<1>2. /\ ~Waiting(r) /\ ~Held(r) /\ results[r] = 0
  BY <1>1 DEF Placed
<1>3. \A q : Held(q)' <=> Held(q)
  BY DEF Held
<1>4. \A q, s \in Procs : proc'[q].msg # None /\ proc'[q].msg = proc'[s].msg => q = s
  BY DEF Placed
<1>5. \A q \in Requests :
        /\ results[q] \in {0, 1}
        /\ q \in unsent \/ Waiting(q) \/ Held(q) \/ results[q] = 1
        /\ q \in unsent => ~(Waiting(q) \/ Held(q) \/ results[q] = 1)
        /\ Waiting(q) => ~(Held(q) \/ results[q] = 1)
        /\ Held(q) => results[q] = 0
  BY DEF Placed
<1>6. CASE queue' = Append(queue, r) /\ UNCHANGED <<results, announced>>
  <2>1. PICK n \in Nat : /\ DOMAIN queue = 1 .. n /\ DOMAIN queue' = 1 .. n + 1
                         /\ queue'[n + 1] = r
                         /\ \A i \in 1 .. n : queue'[i] = queue[i]
    BY <1>1, <1>6
  <2>2. \A i \in 1 .. n + 1 : i \in 1 .. n \/ i = n + 1
    OBVIOUS
  <2>3. \A i \in 1 .. n : i \in 1 .. n + 1
    OBVIOUS
  <2>4. n + 1 \in 1 .. n + 1
    OBVIOUS
  <2>5. \A i \in 1 .. n : queue[i] # r
    BY <1>2, <2>1 DEF Waiting
  <2>6. \A i, j \in DOMAIN queue' : queue'[i] = queue'[j] => i = j
    BY <2>1, <2>2, <2>5 DEF Placed
  <2>7. \A q : Waiting(q)' <=> (Waiting(q) \/ q = r)
    BY <2>1, <2>2, <2>3, <2>4 DEF Waiting
  <2>8. Placed'
    BY <1>2, <1>3, <1>4, <1>5, <1>6, <2>6, <2>7 DEF Placed
  <2> QED BY <1>3, <1>6, <2>8 DEF Told
<1>7. CASE /\ results' = [results EXCEPT ![r] = @ + 1]
           /\ announced' = announced \cup {r} /\ UNCHANGED queue
  <2>1. \A q \in Requests : results'[q] = IF q = r THEN 1 ELSE results[q]
    BY <1>1, <1>2, <1>7
  <2>2. \A q : Waiting(q)' <=> Waiting(q)
    BY <1>7 DEF Waiting
  <2>3. \A i, j \in DOMAIN queue' : queue'[i] = queue'[j] => i = j
    BY <1>7 DEF Placed
  <2>4. Placed'
    BY <1>2, <1>3, <1>4, <1>5, <2>1, <2>2, <2>3 DEF Placed
  <2>5. \A q \in announced' : results'[q] = 1 \/ Held(q)'
    BY <1>1, <1>3, <1>7, <2>1 DEF Told
  <2>6. \A q \in Procs : proc'[q].state = "Executing" => proc'[q].msg \in announced'
    BY <1>7 DEF Told
  <2> QED BY <2>4, <2>5, <2>6 DEF Told
<1> QED BY <1>6, <1>7

\* Execute(msg) of a request that was in the host's hands or the first of
\* the queue.
LEMMA ExecuteStep ==
  ASSUME XInv, ~failed, NEW p \in Procs, NEW r \in Requests, Accepts(p, r), Execute(p, r),
         UNCHANGED <<ids, triaged, results, deaths>>,
         pc' \in {<<"recv", 0>>, <<"leak", 0>>} \cup ({"ready", "exec"} \X Procs),
         execs' \in 0 .. 2 * NumProcs,
         unsent' \subseteq Requests, queue' \in Seq(Requests),
         \A i, j \in DOMAIN queue' : queue'[i] = queue'[j] => i = j,
         \A q \in Requests : (q \in unsent') <=> (q \in unsent /\ q # r),
         \A q \in Requests : Waiting(q)' <=> (Waiting(q) /\ q # r),
         r \in unsent \/ Waiting(r)
  PROVE  XInv'
<1>1. TypeOK /\ IDs /\ Deaths /\ Placed /\ Told
  BY DEF XInv
<1>2. /\ proc \in [Procs -> ProcRecords] /\ r # None
      /\ child \in [Procs -> {"wait", "work", "reply", "late", "dead"}]
      /\ ids \in Seq(0 .. NumIDs - 1)
      /\ triaged \in BOOLEAN /\ failed \in BOOLEAN
      /\ announced \subseteq Requests /\ results \in [Requests -> Nat]
      /\ deaths \in 0 .. MaxDeaths /\ MaxDeaths \in Nat /\ MaxAttempts \in Nat
      /\ \A q \in Procs :
           (proc[q].msg # None) <=> proc[q].state \in {"Handshaking", "Executing"}
      /\ proc[p].attempts \in 0 .. MaxAttempts
  BY <1>1, TypeFacts, RecordFacts, ProcAssumption, Zenon
<1>3. CASE ExecuteFails(p)
  <2>0. /\ failed' = TRUE /\ UNCHANGED <<proc, child, announced>>
        /\ proc[p].attempts >= MaxAttempts
    BY <1>3 DEF ExecuteFails
  <2>1. TypeOK'
    BY <1>2, <2>0, TypeFactsPrime
  <2>2. IDs'
    BY <1>1, <2>0 DEF IDs
  <2>3. proc[p].attempts <= deaths
    <3>1. proc[p].attempts + (IF child[p] \in {"late", "dead"} THEN 1 ELSE 0) <= deaths
      BY <1>1 DEF Deaths
    <3> QED BY <1>2, <3>1
  <2>4. deaths >= MaxAttempts
    BY <1>2, <2>0, <2>3
  <2>5. Deaths'
    BY <1>1, <2>0, <2>4 DEF Deaths, GivesUpAfterDeaths
  <2> QED BY <2>0, <2>1, <2>2, <2>5 DEF XInv
<1>4. CASE ExecuteTakes(p, r)
  <2>0. PICK Q, c, announces :
          /\ announces \in BOOLEAN
          /\ TookOver(proc[p], r, Q, c, announces)
          /\ c = "dead" => child[p] = "dead"
          /\ Changes(p, Q, c)
          /\ announced' = IF announces THEN announced \cup {r} ELSE announced
          /\ UNCHANGED failed
    BY <1>4, Zenon DEF Changes, ExecuteTakes
  <2>1. /\ Q \in ProcRecords /\ Q.msg = r /\ Q.id = proc[p].id /\ Q.attempts = 0
        /\ Q.state \in {"Handshaking", "Executing"}
        /\ (Q.state = "Executing") <=> announces
        /\ c \in {"wait", "work", "reply", "late", "dead"} /\ c # "late"
    BY <2>0 DEF TookOver
  <2>2. /\ proc' \in [Procs -> ProcRecords]
        /\ child' \in [Procs -> {"wait", "work", "reply", "late", "dead"}]
        /\ \A q \in Procs :
              (proc'[q].msg # None) <=> proc'[q].state \in {"Handshaking", "Executing"}
        /\ proc'[p] = Q /\ child'[p] = c
        /\ \A q \in Procs \ {p} : proc'[q] = proc[q] /\ child'[q] = child[q]
    BY <1>1, <1>2, <2>0, <2>1, ChangeFacts
  <2>3. TypeOK'
    BY <1>2, <2>0, <2>2, TypeFactsPrime, Zenon
  <2>4. IDs'
    BY <1>1, <2>1, <2>2, SameIDs, Zenon
  <2>5. Deaths'
    <3>1. child[p] = "dead" => 1 <= deaths
      BY <1>1, <1>2 DEF Deaths
    <3>2. proc'[p].attempts + (IF child'[p] \in {"late", "dead"} THEN 1 ELSE 0) <= deaths'
      BY <1>2, <2>0, <2>1, <2>2, <3>1
    <3>3. \A q \in Procs \ {p} :
            proc'[q].attempts + (IF child'[q] \in {"late", "dead"} THEN 1 ELSE 0) <= deaths'
      BY <1>1, <2>2 DEF Deaths
    <3> QED BY <2>0, <3>2, <3>3, Zenon DEF Deaths, GivesUpAfterDeaths
  <2>6. proc[p].msg = None
    BY <1>2, Zenon DEF Accepts
  <2>7. Placed' /\ Told'
    BY <1>1, <2>0, <2>1, <2>2, <2>6, TakenPlaced
  <2> QED BY <2>3, <2>4, <2>5, <2>7 DEF XInv
<1> QED BY <1>1, <1>3, <1>4, ExecuteFacts

\* Restart of a process found dead or late.
LEMMA RestartStep ==
  ASSUME XInv, ~failed, NEW p \in Procs, NEW exit, Restart(p, exit),
         child[p] \in {"late", "dead"}, pc' = <<"exec", p>>,
         UNCHANGED <<unsent, queue, triaged, execs, announced, deaths>>
  PROVE  XInv'
<1>1. TypeOK /\ IDs /\ Deaths /\ Placed /\ Told
  BY DEF XInv
<1>2. /\ proc \in [Procs -> ProcRecords]
      /\ child \in [Procs -> {"wait", "work", "reply", "late", "dead"}]
      /\ ids \in Seq(0 .. NumIDs - 1)
      /\ triaged \in BOOLEAN /\ failed \in BOOLEAN /\ execs \in 0 .. 2 * NumProcs
      /\ unsent \subseteq Requests /\ queue \in Seq(Requests)
      /\ announced \subseteq Requests /\ results \in [Requests -> Nat]
      /\ deaths \in 0 .. MaxDeaths /\ MaxDeaths \in Nat /\ MaxAttempts \in Nat
      /\ \A q \in Procs :
           (proc[q].msg # None) <=> proc[q].state \in {"Handshaking", "Executing"}
      /\ proc[p].attempts \in 0 .. MaxAttempts
      /\ proc[p].msg \in Requests \cup {None}
      /\ pc' \in {<<"recv", 0>>, <<"leak", 0>>} \cup ({"ready", "exec"} \X Procs)
  BY <1>1, TypeFacts, RecordFacts, ProcAssumption, Zenon
<1>3. proc[p].attempts + 1 <= deaths
  BY <1>1 DEF Deaths
<1>4. CASE /\ failed' = TRUE /\ UNCHANGED <<proc, child, ids, results>>
           /\ proc[p].attempts >= MaxAttempts
  <2>1. TypeOK'
    BY <1>2, <1>4, TypeFactsPrime, Zenon
  <2>2. IDs'
    BY <1>1, <1>4 DEF IDs
  <2>3. deaths >= MaxAttempts
    BY <1>2, <1>3, <1>4
  <2>4. Deaths'
    BY <1>1, <1>4, <2>3 DEF Deaths, GivesUpAfterDeaths
  <2> QED BY <1>4, <2>1, <2>2, <2>4 DEF XInv
<1>5. ASSUME NEW Q \in ProcRecords, NEW c \in {"wait", "work"}, Changes(p, Q, c),
             UNCHANGED failed, Q.attempts = proc[p].attempts + 1,
             (Q.msg # None) <=> Q.state \in {"Handshaking", "Executing"},
             IDs', ids' \in Seq(0 .. NumIDs - 1), results' \in [Requests -> Nat],
             Placed' /\ Told'
      PROVE  XInv'
  <2>1. /\ proc' \in [Procs -> ProcRecords]
        /\ child' \in [Procs -> {"wait", "work", "reply", "late", "dead"}]
        /\ \A q \in Procs :
              (proc'[q].msg # None) <=> proc'[q].state \in {"Handshaking", "Executing"}
        /\ proc'[p] = Q /\ child'[p] = c
        /\ \A q \in Procs \ {p} : proc'[q] = proc[q] /\ child'[q] = child[q]
    <3>1. c \in {"wait", "work", "reply", "late", "dead"}
      BY <1>5
    <3> QED BY <1>1, <1>5, <3>1, ChangeFacts
  <2>2. TypeOK'
    BY <1>2, <1>5, <2>1, TypeFactsPrime
  <2>3. Deaths'
    <3>1. proc'[p].attempts + (IF child'[p] \in {"late", "dead"} THEN 1 ELSE 0) <= deaths'
      BY <1>2, <1>3, <1>5, <2>1
    <3>2. \A q \in Procs \ {p} :
            proc'[q].attempts + (IF child'[q] \in {"late", "dead"} THEN 1 ELSE 0) <= deaths'
      BY <1>1, <2>1 DEF Deaths
    <3> QED BY <1>5, <3>1, <3>2, Zenon DEF Deaths, GivesUpAfterDeaths
  <2> QED BY <1>5, <2>2, <2>3 DEF XInv
<1>6. ASSUME NEW Q, NEW c \in {"wait", "work"}, Changes(p, Q, c), UNCHANGED failed,
             Keeps(proc[p], Q), UNCHANGED <<ids, results>>
      PROVE  XInv'
  <2>1. /\ Q \in ProcRecords /\ Q.msg = proc[p].msg /\ Q.id = proc[p].id
        /\ Q.attempts = proc[p].attempts + 1
        /\ (Q.msg # None) <=> Q.state \in {"Handshaking", "Executing"}
        /\ Q.state # "Executing"
    BY <1>6 DEF Keeps
  <2>2. /\ proc'[p] = Q /\ \A q \in Procs \ {p} : proc'[q] = proc[q]
        /\ proc' \in [Procs -> ProcRecords]
    BY <1>2, <1>6, <2>1, Zenon DEF Changes
  <2>3. IDs'
    BY <1>1, <1>6, <2>1, <2>2, SameIDs
  <2>4. Placed' /\ Told'
    BY <1>1, <1>6, <2>1, <2>2, KeptPlaced, Zenon
  <2> QED BY <1>2, <1>5, <1>6, <2>1, <2>3, <2>4
<1>7. ASSUME NEW Q, NEW c \in {"wait", "work"}, Changes(p, Q, c), UNCHANGED failed,
             Drops(proc[p], Q), proc[p].msg # None,
             results' = [results EXCEPT ![proc[p].msg] = @ + 1],
             \/ Q.id = proc[p].id /\ UNCHANGED ids
             \/ /\ Q.id = Head(Append(ids, proc[p].id))
                /\ ids' = Tail(Append(ids, proc[p].id))
      PROVE  XInv'
  <2>1. /\ Q \in ProcRecords /\ Q.msg = None
        /\ Q.attempts = proc[p].attempts + 1
        /\ (Q.msg # None) <=> Q.state \in {"Handshaking", "Executing"}
        /\ Q.state # "Executing"
    BY <1>7 DEF Drops
  <2>2. /\ proc'[p] = Q /\ \A q \in Procs \ {p} : proc'[q] = proc[q]
        /\ proc' \in [Procs -> ProcRecords]
    BY <1>2, <1>7, <2>1, Zenon DEF Changes
  <2>3. IDs' /\ ids' \in Seq(0 .. NumIDs - 1)
    <3>1. CASE Q.id = proc[p].id /\ UNCHANGED ids
      BY <1>1, <1>2, <2>2, <3>1, SameIDs, Zenon
    <3>2. CASE /\ Q.id = Head(Append(ids, proc[p].id))
               /\ ids' = Tail(Append(ids, proc[p].id))
      BY <1>1, <2>2, <3>2, RotatedIDs, Zenon
    <3> QED BY <1>7, <3>1, <3>2
  <2>4. PICK r \in Requests : r = proc[p].msg
    BY <1>2, <1>7
  <2>5. Placed' /\ Told'
    BY <1>1, <1>7, <2>1, <2>2, <2>4, DroppedPlaced, Zenon
  <2>6. results' \in [Requests -> Nat]
    BY <1>2, <1>7, <2>4
  <2> QED BY <1>5, <1>7, <2>1, <2>3, <2>5, <2>6
<1> QED BY <1>1, <1>4, <1>6, <1>7, RestartFacts, Zenon DEF Changes

\* Steps that leave the requests and the processes as they are.
LEMMA QuietStep ==
  ASSUME XInv, UNCHANGED <<unsent, queue, proc, ids, failed, announced, results>>,
         TypeOK', deaths' >= deaths,
         \A p \in Procs : \/ child'[p] = child[p]
                          \/ child'[p] \notin {"late", "dead"}
                          \/ deaths' = deaths + 1
  PROVE  XInv'
<1>1. TypeOK /\ IDs /\ Deaths /\ (failed \/ (Placed /\ Told))
  BY DEF XInv
<1>2. IDs' /\ (failed' \/ (Placed' /\ Told'))
  BY <1>1 DEF IDs, Placed, Told, Waiting, Held
<1>3. /\ deaths \in Nat /\ deaths' \in Nat /\ MaxAttempts \in Nat
      /\ \A p \in Procs : proc[p].attempts \in Nat
  BY <1>1, TypeFacts, TypeFactsPrime, RecordFacts, ProcAssumption
<1>4. ASSUME NEW p \in Procs
      PROVE  proc'[p].attempts + (IF child'[p] \in {"late", "dead"} THEN 1 ELSE 0) <= deaths'
  <2>1. proc[p].attempts + (IF child[p] \in {"late", "dead"} THEN 1 ELSE 0) <= deaths
    BY <1>1 DEF Deaths
  <2>2. proc'[p].attempts = proc[p].attempts
    OBVIOUS
  <2>3. proc[p].attempts \in Nat
    BY <1>3
  <2>4. \/ child'[p] = child[p] \/ child'[p] \notin {"late", "dead"}
        \/ deaths' = deaths + 1
    OBVIOUS
  <2> QED BY <1>3, <2>1, <2>2, <2>3, <2>4
<1>5. GivesUpAfterDeaths'
  <2>1. GivesUpAfterDeaths
    BY <1>1 DEF Deaths
  <2> QED BY <1>3, <2>1 DEF GivesUpAfterDeaths
<1> QED BY <1>2, <1>4, <1>5 DEF XInv, Deaths

\* Where the thread goes next is a place of its loop.
LEMMA Places ==
  /\ NumProcs \in Nat \ {0}
  /\ \A p \in Procs :
       /\ <<"exec", p>> \in {"ready", "exec"} \X Procs
       /\ (IF p = NumProcs THEN <<"recv", 0>> ELSE <<"ready", p + 1>>)
            \in {<<"recv", 0>>, <<"leak", 0>>} \cup ({"ready", "exec"} \X Procs)
  /\ <<"ready", 1>> \in {"ready", "exec"} \X Procs
<1>1. NumProcs \in Nat \ {0}
  BY ProcAssumption
<1>2. 1 \in Procs /\ \A p \in Procs : p # NumProcs => p + 1 \in Procs
  BY <1>1 DEF Procs
<1> QED BY <1>1, <1>2

\* The runner's handling of an ExecRequest message keeps the invariant.
LEMMA HandleRequestStep == ASSUME XInv, HandleRequest PROVE XInv'
<1>1. PICK r \in unsent \ Binary :
        /\ unsent' = unsent \ {r}
        /\ IF Queued(r)
             THEN /\ queue' = Append(queue, r)
                  /\ UNCHANGED <<proc, child, failed, announced>>
             ELSE /\ \E p \in Procs :
                       /\ Accepts(p, r)
                       /\ \A q \in Procs : q < p => ~Accepts(q, r)
                       /\ Execute(p, r)
                  /\ UNCHANGED queue
  BY DEF HandleRequest
<1>2. /\ ~failed /\ pc' = <<"leak", 0>> /\ UNCHANGED <<ids, triaged, execs, results, deaths>>
  BY DEF HandleRequest, At
<1>3. TypeOK /\ IDs /\ Deaths /\ Placed /\ Told
  BY <1>2 DEF XInv
<1>4. r \in Requests /\ unsent' \subseteq Requests /\ queue \in Seq(Requests)
  BY <1>1, <1>3, TypeFacts
<1>5. CASE Queued(r)
  <2>1. queue' = Append(queue, r) /\ UNCHANGED <<proc, child, failed, announced>>
    BY <1>1, <1>5
  <2>2. queue' \in Seq(Requests)
    BY <1>4, <2>1
  <2>3. TypeOK'
    BY <1>2, <1>3, <1>4, <2>1, <2>2, TypeFacts, TypeFactsPrime
  <2>4. Placed' /\ Told'
    BY <1>1, <1>2, <1>3, <2>1, ReceivedPlaced
  <2>5. IDs' /\ Deaths'
    BY <1>2, <1>3, <2>1 DEF IDs, Deaths, GivesUpAfterDeaths
  <2> QED BY <2>3, <2>4, <2>5 DEF XInv
<1>6. CASE ~Queued(r)
  <2>1. PICK p \in Procs : Accepts(p, r) /\ Execute(p, r)
    BY <1>1, <1>6
  <2>2. UNCHANGED queue
    BY <1>1, <1>6
  <2>3. \A i, j \in DOMAIN queue' : queue'[i] = queue'[j] => i = j
    BY <1>3, <2>2 DEF Placed
  <2>4. \A q \in Requests : Waiting(q)' <=> (Waiting(q) /\ q # r)
    BY <1>1, <1>3, <1>4, <2>2 DEF Placed, Waiting
  <2>5. pc' \in {<<"recv", 0>>, <<"leak", 0>>} \cup ({"ready", "exec"} \X Procs)
    BY <1>2
  <2>6. execs' \in 0 .. 2 * NumProcs
    BY <1>2, <1>3, TypeFacts
  <2> QED BY <1>1, <1>2, <1>4, <2>1, <2>2, <2>3, <2>4, <2>5, <2>6, ExecuteStep
<1> QED BY <1>5, <1>6

\* Taking the first of a queue without repetition.
LEMMA Dequeued ==
  ASSUME TypeOK, queue # <<>>, queue' = Tail(queue),
         \A i, j \in DOMAIN queue : queue[i] = queue[j] => i = j
  PROVE  /\ Head(queue) \in Requests /\ queue' \in Seq(Requests) /\ Waiting(Head(queue))
         /\ \A i, j \in DOMAIN queue' : queue'[i] = queue'[j] => i = j
         /\ \A q : Waiting(q)' <=> (Waiting(q) /\ q # Head(queue))
<1>1. queue \in Seq(Requests)
  BY TypeFacts
<1>2. PICK n \in Nat : /\ DOMAIN queue = 1 .. n + 1 /\ DOMAIN queue' = 1 .. n
                       /\ \A i \in 1 .. n : queue'[i] = queue[i + 1]
                       /\ Head(queue) = queue[1] /\ queue[1] \in Requests
                       /\ queue' \in Seq(Requests)
  <2>1. PICK n \in Nat : Len(queue) = n + 1
    <3>1. Len(queue) \in Nat \ {0}
      BY <1>1
    <3>2. Len(queue) - 1 \in Nat /\ Len(queue) = (Len(queue) - 1) + 1
      BY <3>1
    <3> QED BY <3>2, Zenon
  <2>2. DOMAIN queue = 1 .. n + 1 /\ DOMAIN Tail(queue) = 1 .. n
    BY <1>1, <2>1
  <2>3. \A i \in 1 .. n : Tail(queue)[i] = queue[i + 1]
    BY <1>1, <2>1, <2>2
  <2>4. Head(queue) = queue[1] /\ queue[1] \in Requests /\ Tail(queue) \in Seq(Requests)
    BY <1>1
  <2> QED BY <2>2, <2>3, <2>4
<1>3. /\ \A i \in 1 .. n : i + 1 \in 1 .. n + 1 /\ i + 1 # 1
      /\ \A i \in 1 .. n + 1 : i # 1 => i - 1 \in 1 .. n /\ (i - 1) + 1 = i
      /\ 1 \in 1 .. n + 1
      /\ \A i, j \in 1 .. n : i + 1 = j + 1 => i = j
  BY <1>2
<1>4. \A i, j \in DOMAIN queue' : queue'[i] = queue'[j] => i = j
  BY <1>2, <1>3
<1>5. ASSUME NEW q PROVE Waiting(q)' <=> (Waiting(q) /\ q # Head(queue))
  <2>1. ASSUME NEW i \in DOMAIN queue', queue'[i] = q PROVE Waiting(q) /\ q # Head(queue)
    BY <1>2, <1>3, <2>1 DEF Waiting
  <2>2. ASSUME NEW i \in DOMAIN queue, queue[i] = q, q # Head(queue) PROVE Waiting(q)'
    <3>1. i # 1
      BY <1>2, <2>2
    <3>2. i - 1 \in DOMAIN queue' /\ queue'[i - 1] = q
      BY <1>2, <1>3, <2>2, <3>1
    <3> QED BY <3>2 DEF Waiting
  <2> QED BY <2>1, <2>2 DEF Waiting
<1>6. Waiting(Head(queue))
  BY <1>2, <1>3 DEF Waiting
<1> QED BY <1>2, <1>4, <1>5, <1>6

\* Taking a queued request in the loop keeps the invariant.
LEMMA TakeQueuedStep == ASSUME XInv, NEW p \in Procs, TakeQueued(p) PROVE XInv'
<1>1. /\ ~failed
      /\ pc' = IF p = NumProcs THEN <<"recv", 0>> ELSE <<"ready", p + 1>>
      /\ UNCHANGED <<unsent, ids, triaged, results, deaths>>
  BY DEF TakeQueued, At
<1>2. TypeOK /\ IDs /\ Deaths /\ Placed /\ Told
  BY <1>1 DEF XInv
<1>3. pc' \in {<<"recv", 0>>, <<"leak", 0>>} \cup ({"ready", "exec"} \X Procs)
  BY <1>1, Places, Zenon
<1>4. CASE ~IsScheduledForLeakCheck /\ queue # <<>> /\ Accepts(p, Head(queue))
  <2>1. /\ Execute(p, Head(queue)) /\ queue' = Tail(queue)
        /\ execs' = IF execs < 2 * NumProcs THEN execs + 1 ELSE execs
    BY <1>4 DEF TakeQueued
  <2>2. PICK r : r = Head(queue)
    OBVIOUS
  <2>3. /\ r \in Requests /\ queue' \in Seq(Requests) /\ Waiting(r)
        /\ \A i, j \in DOMAIN queue' : queue'[i] = queue'[j] => i = j
        /\ \A q : Waiting(q)' <=> (Waiting(q) /\ q # r)
    BY <1>2, <1>4, <2>1, <2>2, Dequeued, Zenon DEF Placed
  <2>4. execs' \in 0 .. 2 * NumProcs
    BY <1>2, <2>1, TypeFacts, Places
  <2>5. unsent' \subseteq Requests
        /\ \A q \in Requests : (q \in unsent') <=> (q \in unsent /\ q # r)
    BY <1>1, <1>2, <2>3, TypeFacts DEF Placed
  <2> QED BY <1>1, <1>3, <1>4, <2>1, <2>2, <2>3, <2>4, <2>5, ExecuteStep
<1>5. CASE ~(~IsScheduledForLeakCheck /\ queue # <<>> /\ Accepts(p, Head(queue)))
  <2>1. UNCHANGED <<queue, proc, child, failed, announced, execs>>
    BY <1>5 DEF TakeQueued
  <2>2. TypeOK'
    BY <1>1, <1>2, <1>3, <2>1, TypeFacts, TypeFactsPrime, Zenon
  <2>3. deaths' >= deaths
    BY <1>1, <1>2, TypeFacts, ProcAssumption
  <2> QED BY <1>1, <2>1, <2>2, <2>3, QuietStep
<1> QED BY <1>4, <1>5

\* A process replies: its handshake lets it execute, the end of an execution
\* answers its request.
LEMMA ReplyStep ==
  ASSUME XInv, ~failed, NEW p \in Procs, pc' = <<"exec", p>>, child[p] = "reply",
         UNCHANGED <<unsent, queue, ids, triaged, execs, failed, deaths>>,
         \/ /\ proc[p].state = "Handshaking"
            /\ proc' = [proc EXCEPT ![p] = Running(@)]
            /\ child' = [child EXCEPT ![p] = "work"]
            /\ announced' = announced \cup {proc[p].msg}
            /\ UNCHANGED results
         \/ /\ proc[p].state = "Executing"
            /\ Answer(proc[p].msg)
            /\ proc' = [proc EXCEPT ![p] = Completion(@)]
            /\ child' = [child EXCEPT ![p] = "wait"]
            /\ UNCHANGED announced
  PROVE  XInv'
<1>1. TypeOK /\ IDs /\ Deaths /\ Placed /\ Told
  BY DEF XInv
<1>2. PICK O : O = proc[p]
  OBVIOUS
<1>3. /\ O \in ProcRecords
      /\ O = [state |-> O.state, msg |-> O.msg, id |-> O.id, attempts |-> O.attempts,
              freshness |-> O.freshness, env |-> O.env]
      /\ O.msg \in Requests \cup {None} /\ O.id \in 0 .. NumIDs - 1
      /\ O.attempts \in 0 .. MaxAttempts /\ O.freshness \in 0 .. RestartEvery
      /\ O.env \in {Env[q] : q \in Requests} \cup {None}
      /\ MaxAttempts \in Nat /\ RestartEvery \in Nat
  BY <1>1, <1>2, TypeFacts, RecordFacts, ProcAssumption, Zenon
<1>4. O.msg \in Requests /\ O.msg # None
  BY <1>1, <1>2, <1>3, TypeFacts, ProcAssumption, Zenon
<1>5. /\ pc' \in {<<"recv", 0>>, <<"leak", 0>>} \cup ({"ready", "exec"} \X Procs)
      /\ proc \in [Procs -> ProcRecords] /\ announced \subseteq Requests
      /\ results \in [Requests -> Nat]
  BY <1>1, TypeFacts, Places
<1>6. ASSUME NEW Q \in ProcRecords, NEW c \in {"wait", "work"}, Changes(p, Q, c),
             Q.attempts = O.attempts, Q.id = O.id,
             (Q.msg # None) <=> Q.state \in {"Handshaking", "Executing"},
             announced' \subseteq Requests, results' \in [Requests -> Nat],
             Placed' /\ Told'
      PROVE  XInv'
  <2>1. c \in {"wait", "work", "reply", "late", "dead"}
    BY <1>6, Zenon
  <2>2. /\ proc' \in [Procs -> ProcRecords]
        /\ child' \in [Procs -> {"wait", "work", "reply", "late", "dead"}]
        /\ \A q \in Procs :
              (proc'[q].msg # None) <=> proc'[q].state \in {"Handshaking", "Executing"}
        /\ proc'[p] = Q /\ child'[p] = c
        /\ \A q \in Procs \ {p} : proc'[q] = proc[q] /\ child'[q] = child[q]
    BY <1>1, <1>6, <2>1, ChangeFacts, Zenon
  <2>3. TypeOK'
    BY <1>1, <1>5, <1>6, <2>2, TypeFacts, TypeFactsPrime, Zenon
  <2>4. IDs'
    BY <1>1, <1>2, <1>6, <2>2, SameIDs, Zenon
  <2>5. \A q \in Procs :
          proc'[q].attempts + (IF child'[q] \in {"late", "dead"} THEN 1 ELSE 0) <= deaths'
    BY <1>1, <1>2, <1>6, <2>2 DEF Deaths
  <2>6. Deaths'
    BY <1>1, <2>5, Zenon DEF Deaths, GivesUpAfterDeaths
  <2> QED BY <1>6, <2>3, <2>4, <2>6, Zenon DEF XInv
<1>7. CASE /\ O.state = "Handshaking"
           /\ proc' = [proc EXCEPT ![p] = Running(@)]
           /\ child' = [child EXCEPT ![p] = "work"]
           /\ announced' = announced \cup {O.msg}
           /\ UNCHANGED results
  <2>1. PICK Q : Q = Running(O)
    OBVIOUS
  <2>2. Q = [state |-> "Executing", msg |-> O.msg, id |-> O.id, attempts |-> O.attempts,
             freshness |-> O.freshness, env |-> O.env]
    BY <1>3, <2>1, Zenon DEF Running
  <2>3. Q \in ProcRecords /\ Q.msg = O.msg /\ Q.id = O.id /\ Q.attempts = O.attempts
        /\ Q.state = "Executing"
    BY <1>3, <2>2 DEF ProcRecords
  <2>4. Changes(p, Q, "work")
    BY <1>2, <1>7, <2>1 DEF Changes
  <2>5. proc'[p] = Q /\ \A q \in Procs \ {p} : proc'[q] = proc[q]
    BY <1>5, <2>4, Zenon DEF Changes
  <2>6. Placed' /\ Told'
    BY <1>1, <1>2, <1>4, <1>7, <2>3, <2>5, KeptPlaced
  <2>7. announced' \subseteq Requests /\ results' \in [Requests -> Nat]
    BY <1>4, <1>5, <1>7, Zenon
  <2> QED BY <1>4, <1>6, <2>3, <2>4, <2>6, <2>7
<1>8. CASE /\ O.state = "Executing"
           /\ Answer(O.msg)
           /\ proc' = [proc EXCEPT ![p] = Completion(@)]
           /\ child' = [child EXCEPT ![p] = "wait"]
           /\ UNCHANGED announced
  <2>1. PICK Q, f : /\ Q = Completion(O)
                    /\ f = IF O.freshness < RestartEvery THEN O.freshness + 1
                                                       ELSE O.freshness
    OBVIOUS
  <2>2. Q = [state |-> "Idle", msg |-> None, id |-> O.id, attempts |-> O.attempts,
             freshness |-> f, env |-> O.env]
    BY ONLY <1>3, <2>1, RecordOps
  <2>3. f \in 0 .. RestartEvery
    BY <1>3, <2>1
  <2>4. /\ Q \in ProcRecords /\ Q.msg = None /\ Q.id = O.id /\ Q.attempts = O.attempts
        /\ Q.state = "Idle"
    BY <1>3, <2>2, <2>3 DEF ProcRecords
  <2>5. Changes(p, Q, "wait")
    BY <1>2, <1>8, <2>1 DEF Changes
  <2>6. proc'[p] = Q /\ \A q \in Procs \ {p} : proc'[q] = proc[q]
    BY <1>5, <2>5 DEF Changes
  <2>7. PICK r \in Requests : r = O.msg
    BY <1>4, Zenon
  <2>8. results' = [results EXCEPT ![r] = @ + 1]
    BY <1>8, <2>7 DEF Answer
  <2>9. Placed' /\ Told'
    BY <1>1, <1>2, <1>8, <2>4, <2>6, <2>7, <2>8, DroppedPlaced, Zenon
  <2>10. announced' \subseteq Requests /\ results' \in [Requests -> Nat]
    BY <1>5, <1>8, <2>8
  <2> QED BY <1>6, <2>4, <2>5, <2>9, <2>10
<1> QED BY <1>2, <1>7, <1>8

\* Handling a process's pipe (reply, death or timeout) keeps the invariant.
LEMMA ReadyStep == ASSUME XInv, NEW p \in Procs, Ready(p) PROVE XInv'
<1>1. /\ ~failed /\ pc' = <<"exec", p>>
      /\ UNCHANGED <<unsent, queue, triaged, execs, deaths>>
  BY DEF Ready, At
<1>2. CASE /\ child[p] \in {"late", "dead"}
           /\ \E exit \in {"fail", "other"} : Restart(p, exit)
           /\ UNCHANGED announced
  BY <1>1, <1>2, RestartStep
<1>3. CASE /\ child[p] = "reply"
           /\ UNCHANGED <<ids, failed>>
           /\ \/ /\ proc[p].state = "Handshaking"
                 /\ proc' = [proc EXCEPT ![p] = Running(@)]
                 /\ child' = [child EXCEPT ![p] = "work"]
                 /\ announced' = announced \cup {proc[p].msg}
                 /\ UNCHANGED results
              \/ /\ proc[p].state = "Executing"
                 /\ Answer(proc[p].msg)
                 /\ proc' = [proc EXCEPT ![p] = Completion(@)]
                 /\ child' = [child EXCEPT ![p] = "wait"]
                 /\ UNCHANGED announced
  BY <1>1, <1>3, ReplyStep
<1>4. CASE UNCHANGED <<proc, child, ids, failed, announced, results>>
  <2>1. TypeOK
    BY DEF XInv
  <2>2. TypeOK'
    BY <1>1, <1>4, <2>1, TypeFacts, TypeFactsPrime, Places
  <2>3. deaths' >= deaths
    BY <1>1, <2>1, TypeFacts, ProcAssumption
  <2> QED BY <1>1, <1>4, <2>2, <2>3, QuietStep
<1> QED BY <1>2, <1>3, <1>4 DEF Ready

\* Running a binary program keeps the invariant.
LEMMA ExecuteBinaryStep == ASSUME XInv, ExecuteBinary PROVE XInv'
<1>1. PICK r \in unsent \cap Binary :
        /\ unsent' = unsent \ {r} /\ announced' = announced \cup {r} /\ Answer(r)
  BY DEF ExecuteBinary
<1>2. /\ ~failed /\ pc' = <<"leak", 0>>
      /\ UNCHANGED <<queue, proc, child, ids, triaged, execs, failed, deaths>>
  BY DEF ExecuteBinary, At
<1>3. TypeOK /\ IDs /\ Deaths /\ Placed /\ Told
  BY <1>2 DEF XInv
<1>4. /\ r \in Requests /\ announced \subseteq Requests /\ results \in [Requests -> Nat]
      /\ results' = [results EXCEPT ![r] = @ + 1]
  BY <1>1, <1>3, TypeFacts DEF Answer
<1>5. results' \in [Requests -> Nat] /\ announced' \subseteq Requests
  BY <1>1, <1>4
<1>6. TypeOK'
  BY <1>1, <1>2, <1>3, <1>5, TypeFacts, TypeFactsPrime
<1>7. Placed' /\ Told'
  BY <1>1, <1>2, <1>3, <1>4, ReceivedPlaced, Zenon
<1>8. IDs' /\ Deaths'
  BY <1>2, <1>3 DEF IDs, Deaths, GivesUpAfterDeaths
<1> QED BY <1>6, <1>7, <1>8 DEF XInv

\* The inductive step.
LEMMA NextXInv == XInv /\ [Next]_vars => XInv'
<1> SUFFICES ASSUME XInv, [Next]_vars PROVE XInv'
  OBVIOUS
<1>1. TypeOK
  BY DEF XInv
<1>2. /\ deaths \in 0 .. MaxDeaths /\ MaxDeaths \in Nat
      /\ execs \in 0 .. 2 * NumProcs /\ NumProcs \in Nat
      /\ child \in [Procs -> {"wait", "work", "reply", "late", "dead"}]
  BY <1>1, TypeFacts, ProcAssumption
<1>3. CASE HandleCorpusTriaged \/ NoMessage \/ LeakCheck
  <2>1. /\ UNCHANGED <<unsent, queue, proc, child, ids, failed, announced, results, deaths>>
        /\ pc' \in {<<"leak", 0>>, <<"ready", 1>>}
        /\ triaged' \in BOOLEAN /\ execs' \in {execs, 0}
    BY <1>1, <1>3, TypeFacts, Zenon
       DEF HandleCorpusTriaged, NoMessage, LeakCheck, ExecsAfterLeakCheck
  <2>2. execs' \in 0 .. 2 * NumProcs
    BY <1>2, <2>1
  <2>3. TypeOK'
    BY <1>1, <2>1, <2>2, TypeFacts, TypeFactsPrime, Places, Zenon
  <2>4. deaths' >= deaths
    BY <1>2, <2>1
  <2> QED BY <2>1, <2>3, <2>4, QuietStep
<1>4. ASSUME NEW p \in Procs, Reply(p) \/ Falls(p) PROVE XInv'
  <2>1. PICK to \in {"reply", "dead", "late"} :
          ChildMoves(p, to) /\ (to = "reply" \/ deaths' = deaths + 1)
          /\ (deaths' = deaths \/ (deaths' = deaths + 1 /\ deaths < MaxDeaths))
    BY <1>4 DEF Reply, Falls
  <2>2. deaths' \in 0 .. MaxDeaths /\ deaths' >= deaths
    BY <1>2, <2>1
  <2>3. /\ child' = [child EXCEPT ![p] = to]
        /\ UNCHANGED <<pc, unsent, queue, proc, ids, triaged, execs, failed, announced,
                       results>>
    BY <2>1 DEF ChildMoves
  <2>4. /\ child' \in [Procs -> {"wait", "work", "reply", "late", "dead"}]
        /\ \A q \in Procs : child'[q] = IF q = p THEN to ELSE child[q]
    BY <1>2, <2>3
  <2>5. TypeOK'
    BY <1>1, <2>2, <2>3, <2>4, TypeFacts, TypeFactsPrime
  <2>6. \A q \in Procs : \/ child'[q] = child[q]
                         \/ child'[q] \notin {"late", "dead"}
                         \/ deaths' = deaths + 1
    BY <2>1, <2>4
  <2> QED BY <2>2, <2>3, <2>5, <2>6, QuietStep, Zenon
<1>5. CASE UNCHANGED vars
  <2>1. TypeOK'
    BY <1>1, <1>5 DEF vars, TypeOK
  <2>2. deaths' >= deaths
    BY <1>2, <1>5 DEF vars
  <2> QED BY <1>5, <2>1, <2>2, QuietStep, Zenon DEF vars
<1> QED BY <1>3, <1>4, <1>5, HandleRequestStep, ExecuteBinaryStep, ReadyStep, TakeQueuedStep
        DEF Next, Loop

\* The invariant holds when the runner enters its loop.
LEMMA InitXInv == Init => XInv
<1> SUFFICES ASSUME Init PROVE XInv
  OBVIOUS
<1>1. /\ NumProcs \in Nat \ {0} /\ NumIDs \in Nat /\ NumIDs >= NumProcs
      /\ RestartEvery \in Nat /\ MaxAttempts \in Nat /\ MaxDeaths \in Nat
      /\ None \notin Requests
  BY ProcAssumption
<1>2. PICK m \in Nat : m = NumIDs - NumProcs
  BY <1>1
<1>3. /\ DOMAIN ids = 1 .. m /\ \A i \in 1 .. m : ids[i] = NumProcs + i - 1
      /\ \A p \in Procs : proc[p] = [state |-> "Started", msg |-> None, id |-> p - 1,
                              attempts |-> 0, freshness |-> 0, env |-> None]
  BY <1>2 DEF Init
<1>4. ASSUME NEW p \in Procs
      PROVE  /\ proc[p] \in ProcRecords /\ p \in 1 .. NumProcs
             /\ proc[p].id = p - 1 /\ proc[p].msg = None /\ proc[p].state = "Started"
             /\ proc[p].attempts = 0
  <2>1. p \in 1 .. NumProcs
    BY DEF Procs
  <2>2. p - 1 \in 0 .. NumIDs - 1 /\ 0 \in 0 .. MaxAttempts /\ 0 \in 0 .. RestartEvery
    BY <1>1, <2>1
  <2>3. proc[p] = [state |-> "Started", msg |-> None, id |-> p - 1, attempts |-> 0,
                   freshness |-> 0, env |-> None]
    BY <1>3
  <2>4. proc[p] \in ProcRecords
    BY <2>2, <2>3 DEF ProcRecords
  <2> QED BY <2>1, <2>3, <2>4
<1>5. ids \in Seq(0 .. NumIDs - 1)
  <2>1. \A i \in 1 .. m : NumProcs + i - 1 \in 0 .. NumIDs - 1
    BY <1>1, <1>2
  <2>2. ids \in [1 .. m -> 0 .. NumIDs - 1]
    BY <1>2, <2>1 DEF Init
  <2>3. ASSUME NEW S, NEW f \in [1 .. m -> S] PROVE f \in Seq(S)
    BY ONLY m \in Nat, <2>3
  <2> QED BY <2>2, <2>3, Zenon
<1>6. TypeOK
  <2>1. queue \in Seq(Requests)
    <3>1. \A S : <<>> \in Seq(S)
      OBVIOUS
    <3> QED BY <3>1 DEF Init
  <2>2. proc \in [Procs -> ProcRecords]
    BY <1>4 DEF Init
  <2>3. 0 \in 0 .. 2 * NumProcs /\ 0 \in 0 .. MaxDeaths
    BY <1>1
  <2>4. results \in [Requests -> Nat]
    BY Zenon DEF Init
  <2> QED BY <1>3, <1>5, <2>1, <2>2, <2>3, <2>4, TypeFacts, Zenon DEF Init
<1>7. IDs
  <2>1. \A p, q \in Procs : proc[p].id = proc[q].id => p = q
    <3>1. ASSUME NEW p \in Procs, NEW q \in Procs, proc[p].id = proc[q].id PROVE p = q
      <4>1. p - 1 = q - 1 /\ p \in 1 .. NumProcs /\ q \in 1 .. NumProcs
        BY <1>4, <3>1
      <4> QED BY <1>1, <4>1
    <3> QED BY <3>1
  <2>2. \A i, j \in DOMAIN ids : ids[i] = ids[j] => i = j
    BY <1>1, <1>3
  <2>3. \A p \in Procs, i \in DOMAIN ids : proc[p].id # ids[i]
    <3>1. ASSUME NEW p \in Procs, NEW i \in 1 .. m PROVE proc[p].id # ids[i]
      <4>1. proc[p].id = p - 1 /\ ids[i] = NumProcs + i - 1 /\ p \in 1 .. NumProcs
        BY <1>3, <1>4
      <4> QED BY <1>1, <4>1
    <3> QED BY <1>3, <3>1
  <2>4. ASSUME NEW x \in 0 .. NumIDs - 1
        PROVE  \/ \E p \in Procs : proc[p].id = x
               \/ \E i \in DOMAIN ids : ids[i] = x
    <3>1. CASE x < NumProcs
      <4>1. x + 1 \in Procs /\ (x + 1) - 1 = x
        BY <1>1, <3>1 DEF Procs
      <4> QED BY <1>4, <4>1
    <3>2. CASE ~(x < NumProcs)
      <4>1. x - NumProcs + 1 \in 1 .. m /\ NumProcs + (x - NumProcs + 1) - 1 = x
        BY <1>1, <1>2, <3>2
      <4> QED BY <1>3, <4>1
    <3> QED BY <3>1, <3>2
  <2> QED BY <2>1, <2>2, <2>3, <2>4 DEF IDs
<1>8. Deaths
  BY <1>1, <1>4 DEF Init, Deaths, GivesUpAfterDeaths
<1>9. Placed /\ Told
  <2>1. /\ unsent = Requests /\ queue = <<>> /\ announced = {}
        /\ \A r \in Requests : results[r] = 0
    BY DEF Init
  <2>2. \A r \in Requests : ~Waiting(r) /\ ~Held(r)
    BY <1>1, <1>4, <2>1 DEF Waiting, Held
  <2> QED BY <1>4, <2>1, <2>2 DEF Placed, Told
<1> QED BY <1>6, <1>7, <1>8, <1>9 DEF XInv

\* The invariant holds in every reachable state.
LEMMA XInvHolds == Spec => []XInv
BY InitXInv, NextXInv, PTL DEF Spec

\* Runner and Proc (executor_runner.h): none of the states the assertions
\* "already have pending msg", "wrong handshake state", "wrong state for
\* execute" and "don't have executed msg" guard against is ever reached.
THEOREM AssertionsHold == Spec => []TypeOK
<1>1. XInv => TypeOK
  BY DEF XInv
<1> QED BY <1>1, XInvHolds, PTL

\* ProcIDPool: whatever hangs and is restarted, no id is used by two
\* processes, lost, or kept twice.
THEOREM IDsNeverShared == Spec => []IDsDistinct
<1>1. XInv => IDsDistinct
  BY IDsCounted DEF XInv
<1> QED BY <1>1, XInvHolds, PTL

\* Runner::Loop: a request is unsent, queued, with one process or answered
\* once, until failmsg ends the executor.
THEOREM RequestsAnsweredOnce == Spec => []AnsweredOnce
<1>1. XInv => AnsweredOnce
  BY PlacedCounted, Zenon DEF XInv
<1> QED BY <1>1, XInvHolds, PTL

\* Proc::Restart: the executor gives up only after MaxAttempts subprocesses
\* have died or hung.
THEOREM RealFailuresOnly == Spec => []GivesUpAfterDeaths
<1>1. XInv => GivesUpAfterDeaths
  BY DEF XInv, Deaths
<1> QED BY <1>1, XInvHolds, PTL

-----------------------------------------------------------------------------
(* What a step does to the process that changes.                           *)

Honours(p) ==
  proc'[p].msg # None /\ proc'[p] # proc[p] =>
    \/ proc'[p].id \notin Avoid[proc'[p].msg]
    \/ UsedIDs \subseteq Avoid[proc'[p].msg]
    \/ proc[p].msg = proc'[p].msg /\ proc[p].id = proc'[p].id

\* Execute gives a request only to a process that its mask does not avoid.
LEMMA ExecuteHonours ==
  ASSUME TypeOK, NEW p \in Procs, NEW r \in Requests, Accepts(p, r), Execute(p, r),
         NEW q \in Procs
  PROVE  Honours(q)
<1>1. CASE ExecuteFails(p)
  BY <1>1 DEF ExecuteFails, Honours
<1>2. CASE ExecuteTakes(p, r)
  <2>1. PICK Q, c, announces :
          TookOver(proc[p], r, Q, c, announces) /\ proc' = [proc EXCEPT ![p] = Q]
    BY <1>2, Zenon DEF ExecuteTakes
  <2>2. proc \in [Procs -> ProcRecords]
    BY TypeFacts
  <2>3. proc'[p].msg = r /\ proc'[p].id = proc[p].id
    BY <2>1, <2>2 DEF TookOver
  <2>4. q # p => proc'[q] = proc[q]
    BY <2>1, <2>2
  <2> QED BY <2>3, <2>4 DEF Honours, Accepts
<1> QED BY <1>1, <1>2, ExecuteFacts

\* Restart, with the retry it may make, moves no request to another process.
LEMMA RestartHonours ==
  ASSUME TypeOK, NEW p \in Procs, NEW exit, Restart(p, exit), NEW q \in Procs
  PROVE  Honours(q)
<1>1. proc \in [Procs -> ProcRecords]
  BY TypeFacts
<1>2. \/ UNCHANGED proc
      \/ \E Q : /\ proc' = [proc EXCEPT ![p] = Q]
                /\ Keeps(proc[p], Q) \/ Drops(proc[p], Q)
  BY RestartFacts, Zenon
<1>3. CASE UNCHANGED proc
  BY <1>3, Zenon DEF Honours
<1>4. ASSUME NEW Q, proc' = [proc EXCEPT ![p] = Q],
             Keeps(proc[p], Q) \/ Drops(proc[p], Q)
      PROVE  Honours(q)
  <2>1. proc'[p] = Q /\ (q # p => proc'[q] = proc[q])
    BY <1>1, <1>4
  <2>2. Q.msg = None \/ (Q.msg = proc[p].msg /\ Q.id = proc[p].id)
    BY <1>4 DEF Keeps, Drops
  <2> QED BY <2>1, <2>2 DEF Honours
<1> QED BY <1>2, <1>3, <1>4

\* Proc::Execute(msg) and Restart: a process is never given a request that
\* asks to avoid its id while another id is in use, and its id never changes
\* under a request.
THEOREM MasksHonoured == Spec => AvoidHonoured
<1>1. ASSUME XInv, [Next]_vars, NEW q \in Procs PROVE Honours(q)
  <2>1. TypeOK
    BY <1>1 DEF XInv
  <2>2. CASE HandleRequest
    <3>1. PICK r \in unsent :
            \/ UNCHANGED proc
            \/ \E p \in Procs : Accepts(p, r) /\ Execute(p, r)
      BY <2>2 DEF HandleRequest
    <3>2. r \in Requests
      BY <2>1, TypeFacts
    <3>3. CASE UNCHANGED proc
      BY <3>3 DEF Honours
    <3> QED BY <1>1, <2>1, <3>1, <3>2, <3>3, ExecuteHonours
  <2>3. ASSUME NEW p \in Procs, Ready(p) PROVE Honours(q)
    <3>1. CASE \E exit \in {"fail", "other"} : Restart(p, exit)
      BY <1>1, <2>1, <3>1, RestartHonours
    <3>2. CASE UNCHANGED proc
      BY <3>2 DEF Honours
    <3>3. ASSUME NEW Q, proc' = [proc EXCEPT ![p] = Q],
                 Q.msg = None \/ (Q.msg = proc[p].msg /\ Q.id = proc[p].id)
          PROVE  Honours(q)
      <4>1. proc'[p] = Q /\ (q # p => proc'[q] = proc[q])
        BY <1>1, <2>1, <3>3, TypeFacts
      <4> QED BY <3>3, <4>1 DEF Honours
    <3>4. PICK O : O = proc[p] /\ O \in ProcRecords
      BY <2>1, TypeFacts
    <3>5. CASE proc' = [proc EXCEPT ![p] = Running(@)]
      <4>1. PICK Q : Q = Running(O)
        OBVIOUS
      <4>2. Q.msg = O.msg /\ Q.id = O.id
        BY <3>4, <4>1, RecordFacts DEF Running
      <4> QED BY <3>3, <3>4, <3>5, <4>1, <4>2, Zenon
    <3>6. CASE proc' = [proc EXCEPT ![p] = Completion(@)]
      <4>1. PICK Q : Q = Completion(O)
        OBVIOUS
      <4>2. Q.msg = None
        <5>0. PICK s, m, i, a, f, e :
                /\ s = O.state /\ m = O.msg /\ i = O.id /\ a = O.attempts
                /\ f = O.freshness /\ e = O.env
          OBVIOUS
        <5>1. O = [state |-> s, msg |-> m, id |-> i, attempts |-> a, freshness |-> f,
                   env |-> e]
          BY <3>4, <5>0, RecordFacts, Zenon
        <5>2. Q = [state |-> "Idle", msg |-> None, id |-> i, attempts |-> a,
                   freshness |-> IF f < RestartEvery THEN f + 1 ELSE f, env |-> e]
          BY ONLY <4>1, <5>1, RecordOps
        <5> QED BY <5>2
      <4> QED BY <3>3, <3>4, <3>6, <4>1, <4>2, Zenon
    <3> QED BY <2>3, <3>1, <3>2, <3>5, <3>6 DEF Ready
  <2>4. ASSUME NEW p \in Procs, TakeQueued(p) PROVE Honours(q)
    <3>1. CASE queue # <<>> /\ Accepts(p, Head(queue)) /\ Execute(p, Head(queue))
      <4>1. Head(queue) \in Requests
        BY <2>1, <3>1, TypeFacts
      <4> QED BY <1>1, <2>1, <3>1, <4>1, ExecuteHonours
    <3>2. CASE UNCHANGED proc
      BY <3>2 DEF Honours
    <3> QED BY <2>4, <3>1, <3>2 DEF TakeQueued
  <2>5. CASE UNCHANGED proc
    BY <2>5 DEF Honours
  <2> QED BY <1>1, <2>2, <2>3, <2>4, <2>5
          DEF Next, Loop, vars, ExecuteBinary, HandleCorpusTriaged, NoMessage, LeakCheck,
              Reply, Falls, ChildMoves
<1>2. XInv /\ [Next]_vars =>
        [\A p \in Procs :
           proc'[p].msg # None /\ proc'[p] # proc[p] =>
             \/ proc'[p].id \notin Avoid[proc'[p].msg]
             \/ UsedIDs \subseteq Avoid[proc'[p].msg]
             \/ proc[p].msg = proc'[p].msg /\ proc[p].id = proc'[p].id]_vars
  BY <1>1 DEF Honours
<1> QED BY <1>2, XInvHolds, PTL DEF Spec, AvoidHonoured

-----------------------------------------------------------------------------
(* The refinement.                                                         *)

PhaseMap == [r \in Requests |-> Phase(r)]

\* A step that changes no request's phase is a stutter of the protocol.
LEMMA SamePhases ==
  ASSUME \A r \in Requests : Phase(r)' = Phase(r)
  PROVE  [Protocol!PNext]_PhaseMap
BY DEF PhaseMap

\* One request moves, as the protocol allows.
LEMMA OneMoves ==
  ASSUME NEW r \in Requests, \A q \in Requests \ {r} : Phase(q)' = Phase(q),
         \/ Phase(r) = "unsent" /\ Phase(r)' \in {"pending", "answered"}
         \/ Phase(r) = "running" /\ Phase(r)' = "answered"
         \/ Phase(r) = "pending" /\ Phase(r)' = "answered" /\ r \in ReturnError
         \/ /\ Phase(r) \in {"unsent", "pending"} /\ Phase(r)' = "running"
            /\ Cardinality({q \in Requests : Phase(q) = "running"}) < NumProcs
  PROVE  [Protocol!PNext]_PhaseMap
<1>1. PhaseMap' = [PhaseMap EXCEPT ![r] = Phase(r)']
  BY Zenon DEF PhaseMap
<1>2. {q \in Requests : PhaseMap[q] = "running"} = {q \in Requests : Phase(q) = "running"}
  BY DEF PhaseMap
<1>3. PhaseMap[r] = Phase(r)
  BY DEF PhaseMap
<1>4. CASE Phase(r) = "unsent" /\ Phase(r)' \in {"pending", "answered"}
  BY <1>1, <1>3, <1>4, Zenon DEF PhaseMap, Protocol!PNext, Protocol!Accept, Protocol!RunToEnd
<1>5. CASE Phase(r) = "running" /\ Phase(r)' = "answered"
  BY <1>1, <1>3, <1>5, Zenon DEF PhaseMap, Protocol!PNext, Protocol!Answer
<1>6. CASE Phase(r) = "pending" /\ Phase(r)' = "answered" /\ r \in ReturnError
  BY <1>1, <1>3, <1>6, Zenon DEF PhaseMap, Protocol!PNext, Protocol!NeverStarts
<1>7. CASE /\ Phase(r) \in {"unsent", "pending"} /\ Phase(r)' = "running"
           /\ Cardinality({q \in Requests : Phase(q) = "running"}) < NumProcs
  <2>1. Cardinality(Protocol!RunningNow) < NumProcs
    BY <1>2, <1>7, Zenon DEF PhaseMap, Protocol!RunningNow
  <2>2. Protocol!Start(r) \/ Protocol!AcceptAndStart(r)
    <3>0. Protocol!Cardinality(Protocol!RunningNow) = Cardinality(Protocol!RunningNow)
      BY DEF Protocol!Cardinality, Cardinality
    <3>1. CASE Phase(r) = "unsent"
      BY <1>1, <1>7, <2>1, <3>0, <3>1 DEF PhaseMap, Protocol!AcceptAndStart
    <3>2. CASE Phase(r) = "pending"
      BY <1>1, <1>7, <2>1, <3>0, <3>2, Zenon DEF PhaseMap, Protocol!Start
    <3> QED BY <1>7, <3>1, <3>2
  <2> QED BY <2>2 DEF Protocol!PNext
<1> QED BY <1>4, <1>5, <1>6, <1>7

\* While process p is not with an announced request, another may start.
LEMMA RoomToStart ==
  ASSUME TypeOK, Placed, Told, NEW p \in Procs,
         proc[p].msg \in Requests => Phase(proc[p].msg) # "running"
  PROVE  Cardinality({q \in Requests : Phase(q) = "running"}) < NumProcs
<1>1. PICK R : R = {q \in Requests : Phase(q) = "running"}
  BY Zenon
<1>2. ASSUME NEW r \in R PROVE \E q \in Procs \ {p} : proc[q].msg = r
  <2>1. r \in Requests /\ r \in announced /\ results[r] # 1
    BY <1>1 DEF Phase, Placed
  <2>2. Held(r)
    BY <2>1 DEF Told
  <2> QED BY <1>1, <2>1, <2>2, Zenon DEF Held
<1>3. PICK f : f = [r \in R |-> CHOOSE q \in Procs \ {p} : proc[q].msg = r]
  BY Zenon
<1>4. \A r \in R : f[r] \in Procs \ {p} /\ proc[f[r]].msg = r
  BY <1>2, <1>3
<1>5. f \in [R -> Procs \ {p}]
  BY <1>3, <1>4
<1>6. f \in Injection(R, Procs \ {p})
  BY <1>4, <1>5 DEF Injection, IsInjective
<1>7. NumProcs \in Nat /\ IsFiniteSet(Procs) /\ Cardinality(Procs) = NumProcs
  <2>1. NumProcs \in Nat /\ Procs = 1 .. NumProcs
    BY ProcAssumption DEF Procs
  <2>2. IsFiniteSet(Procs) /\ Cardinality(Procs) = NumProcs
    BY <2>1, FS_Interval
  <2> QED BY <2>1, <2>2
<1>8. IsFiniteSet(Procs \ {p}) /\ Cardinality(Procs \ {p}) = NumProcs - 1
  BY <1>7, FS_RemoveElement
<1>9. IsFiniteSet(R) /\ Cardinality(R) <= Cardinality(Procs \ {p})
  BY ONLY <1>6, <1>8, FS_Injection
<1>10. Cardinality(R) \in Nat
  BY <1>9, FS_CardinalityType, Zenon
<1> QED BY <1>1, <1>7, <1>8, <1>9, <1>10

\* Where a request is tells its phase.
LEMMA PhaseOf ==
  ASSUME TypeOK, Placed, Told, NEW r \in Requests
  PROVE  /\ r \in unsent => Phase(r) = "unsent" /\ r \notin announced
         /\ Waiting(r) => Phase(r) = "pending" /\ r \notin announced
         /\ Held(r) => /\ Phase(r) = IF r \in announced THEN "running" ELSE "pending"
                       /\ r \notin unsent
<1>1. results[r] \in {0, 1}
  BY DEF Placed
<1> QED BY <1>1 DEF Placed, Told, Phase

\* A request that is handed to a process, from the host's hands or the queue.
LEMMA ExecuteRefines ==
  ASSUME TypeOK, Placed, Told, NEW p \in Procs, NEW r \in Requests,
         Accepts(p, r), Execute(p, r), UNCHANGED results,
         \/ r \in unsent /\ unsent' = unsent \ {r}
         \/ Waiting(r) /\ UNCHANGED unsent
  PROVE  [Protocol!PNext]_PhaseMap
<1>1. \/ Phase(r) = "unsent" /\ r \in unsent
      \/ Phase(r) = "pending" /\ r \notin unsent /\ UNCHANGED unsent
  BY PhaseOf DEF Placed
<1>2. r \notin announced /\ results[r] = 0 /\ r \notin unsent'
  BY PhaseOf DEF Placed
<1>3. announced' = announced \/ announced' = announced \cup {r}
  BY ExecuteFacts, Zenon DEF ExecuteFails, ExecuteTakes
<1>4. \A q \in Requests \ {r} : Phase(q)' = Phase(q)
  BY <1>3 DEF Phase
<1>5. CASE announced' = announced
  <2>1. Phase(r)' = "pending"
    BY <1>2, <1>5 DEF Phase
  <2>2. CASE Phase(r) = "unsent"
    BY <1>4, <2>1, <2>2, OneMoves, Zenon
  <2>3. CASE Phase(r) = "pending"
    <3>1. \A q \in Requests : Phase(q)' = Phase(q)
      BY <1>4, <2>1, <2>3
    <3> QED BY <3>1, SamePhases
  <2> QED BY <1>1, <2>2, <2>3
<1>6. CASE announced' = announced \cup {r}
  <2>1. Phase(r)' = "running"
    BY <1>2, <1>6 DEF Phase
  <2>2. proc[p].msg = None
    BY TypeFacts, Zenon DEF Accepts
  <2>3. Cardinality({q \in Requests : Phase(q) = "running"}) < NumProcs
    BY <2>2, RoomToStart, ProcAssumption
  <2>4. Phase(r) \in {"unsent", "pending"}
    BY <1>1
  <2> QED BY <1>4, <2>1, <2>3, <2>4, OneMoves
<1> QED BY <1>3, <1>5, <1>6, Zenon

\* The request a process held is answered.
LEMMA AnswerRefines ==
  ASSUME TypeOK, Placed, Told, NEW p \in Procs, NEW r \in Requests, proc[p].msg = r,
         proc[p].state = "Executing" \/ r \in ReturnError,
         results' = [results EXCEPT ![r] = @ + 1], UNCHANGED <<unsent, announced>>
  PROVE  [Protocol!PNext]_PhaseMap
<1>1. Held(r) /\ results[r] = 0 /\ results \in [Requests -> Nat]
  BY TypeFacts, Zenon DEF Held, Placed
<1>2. Phase(r) = IF r \in announced THEN "running" ELSE "pending"
  BY <1>1, PhaseOf, Zenon
<1>3. \A q \in Requests \ {r} : results'[q] = results[q]
  BY <1>1, Zenon
<1>4. \A q \in Requests \ {r} : Phase(q)' = Phase(q)
  BY <1>3 DEF Phase
<1>5. results'[r] = 1
  BY <1>1
<1>6. Phase(r)' = "answered"
  BY <1>5 DEF Phase
<1>7. r \in announced \/ r \in ReturnError
  BY DEF Told
<1> QED BY <1>2, <1>4, <1>6, <1>7, OneMoves, Zenon

\* Handling a process's pipe takes at most one request one phase further.
LEMMA ReadyRefines ==
  ASSUME XInv, NEW p \in Procs, Ready(p)
  PROVE  [Protocol!PNext]_PhaseMap
<1>1. ~failed /\ UNCHANGED unsent
  BY DEF Ready, At
<1>2. TypeOK /\ Placed /\ Told
  BY <1>1 DEF XInv
<1>3. proc[p].msg \in Requests \cup {None}
  BY <1>2, TypeFacts, RecordFacts
<1>4. CASE UNCHANGED <<announced, results>>
  BY <1>1, <1>4, SamePhases DEF Phase
<1>5. ASSUME NEW exit, Restart(p, exit), UNCHANGED announced
      PROVE  [Protocol!PNext]_PhaseMap
  <2>1. \/ UNCHANGED results
        \/ /\ proc[p].msg # None
           /\ results' = [results EXCEPT ![proc[p].msg] = @ + 1]
           /\ proc[p].msg \in ReturnError \/ proc[p].state = "Executing"
    BY <1>2, <1>5, RestartFacts, Zenon
  <2>2. CASE UNCHANGED results
    BY <1>4, <1>5, <2>2
  <2>3. CASE ~UNCHANGED results
    <3>1. PICK r \in Requests : r = proc[p].msg
      BY <1>3, <2>1, <2>3
    <3> QED BY <1>1, <1>2, <1>5, <2>1, <2>3, <3>1, AnswerRefines
  <2> QED BY <2>2, <2>3
<1>6. CASE /\ proc[p].state = "Handshaking"
           /\ announced' = announced \cup {proc[p].msg}
           /\ UNCHANGED results
  <2>1. PICK r \in Requests : r = proc[p].msg
    BY <1>2, <1>3, <1>6, TypeFacts, Zenon
  <2>2. CASE r \in announced
    <3>1. announced' = announced
      BY <1>6, <2>1, <2>2
    <3> QED BY <1>4, <1>6, <3>1
  <2>3. CASE r \notin announced
    <3>1. Held(r)
      BY <2>1 DEF Held
    <3>2. Phase(r) = "pending" /\ r \notin unsent /\ results[r] = 0
      BY <1>2, <2>3, <3>1, PhaseOf, Zenon DEF Placed
    <3>3. Phase(r)' = "running"
      BY <1>1, <1>6, <2>1, <3>2 DEF Phase
    <3>4. \A q \in Requests \ {r} : Phase(q)' = Phase(q)
      BY <1>1, <1>6, <2>1 DEF Phase
    <3>5. Cardinality({q \in Requests : Phase(q) = "running"}) < NumProcs
      BY <1>2, <2>1, <3>2, RoomToStart, Zenon
    <3> QED BY <3>2, <3>3, <3>4, <3>5, OneMoves
  <2> QED BY <2>2, <2>3
<1>7. CASE /\ proc[p].state = "Executing"
           /\ Answer(proc[p].msg)
           /\ UNCHANGED announced
  <2>1. PICK r \in Requests : r = proc[p].msg
    BY <1>2, <1>3, <1>7, TypeFacts, Zenon
  <2> QED BY <1>1, <1>2, <1>7, <2>1, AnswerRefines, Zenon DEF Answer
<1> QED BY <1>4, <1>5, <1>6, <1>7 DEF Ready

\* Every step of the runner is a step of the protocol or a stutter.
LEMMA NextRefines == XInv /\ [Next]_vars => [Protocol!PNext]_PhaseMap
<1> SUFFICES ASSUME XInv, [Next]_vars PROVE [Protocol!PNext]_PhaseMap
  OBVIOUS
<1>1. CASE UNCHANGED <<unsent, announced, results>>
  BY <1>1, SamePhases DEF Phase
<1>2. ~failed => TypeOK /\ Placed /\ Told
  BY DEF XInv
<1>3. CASE HandleRequest
  <2>1. ~failed /\ UNCHANGED results
    BY <1>3 DEF HandleRequest, At
  <2>2. PICK r \in unsent :
          /\ unsent' = unsent \ {r}
          /\ \/ UNCHANGED announced
             \/ \E p \in Procs : Accepts(p, r) /\ Execute(p, r)
    BY <1>3 DEF HandleRequest
  <2>3. r \in Requests
    BY <1>2, <2>1, TypeFacts
  <2>4. CASE UNCHANGED announced
    <3>1. Phase(r) = "unsent" /\ r \notin announced /\ results[r] = 0
      BY <1>2, <2>1, <2>3, PhaseOf, Zenon DEF Placed
    <3>2. Phase(r)' = "pending"
      BY <2>1, <2>2, <2>4, <3>1 DEF Phase
    <3>3. \A q \in Requests \ {r} : Phase(q)' = Phase(q)
      BY <2>1, <2>2, <2>4 DEF Phase
    <3> QED BY <2>3, <3>1, <3>2, <3>3, OneMoves, Zenon
  <2> QED BY <1>2, <2>1, <2>2, <2>3, <2>4, ExecuteRefines, Zenon
<1>4. CASE ExecuteBinary
  <2>1. ~failed
    BY <1>4 DEF ExecuteBinary, At
  <2>2. PICK r \in unsent :
          /\ unsent' = unsent \ {r} /\ announced' = announced \cup {r}
          /\ results' = [results EXCEPT ![r] = @ + 1]
    BY <1>4, Zenon DEF ExecuteBinary, Answer
  <2>3. r \in Requests /\ results \in [Requests -> Nat]
    BY <1>2, <2>1, TypeFacts, Zenon
  <2>4. Phase(r) = "unsent" /\ results[r] = 0
    BY <1>2, <2>1, <2>3, PhaseOf DEF Placed
  <2>5. results'[r] = 1 /\ \A q \in Requests \ {r} : results'[q] = results[q]
    BY <2>2, <2>3, <2>4
  <2>6. Phase(r)' = "answered" /\ \A q \in Requests \ {r} : Phase(q)' = Phase(q)
    BY <2>2, <2>5 DEF Phase
  <2> QED BY <2>3, <2>4, <2>6, OneMoves, Zenon
<1>5. ASSUME NEW p \in Procs, TakeQueued(p) PROVE [Protocol!PNext]_PhaseMap
  <2>1. ~failed /\ UNCHANGED <<unsent, results>>
    BY <1>5 DEF TakeQueued, At
  <2>2. CASE queue # <<>> /\ Accepts(p, Head(queue)) /\ Execute(p, Head(queue))
    <3>1. PICK r : r = Head(queue)
      OBVIOUS
    <3>2. r \in Requests /\ Waiting(r)
      <4>1. queue \in Seq(Requests)
        BY <1>2, <2>1, TypeFacts
      <4>2. 1 \in DOMAIN queue /\ queue[1] = Head(queue) /\ queue[1] \in Requests
        BY <2>2, <4>1
      <4> QED BY <3>1, <4>2 DEF Waiting
    <3> QED BY <1>2, <2>1, <2>2, <3>1, <3>2, ExecuteRefines
  <2>3. CASE UNCHANGED announced
    BY <1>1, <2>1, <2>3
  <2> QED BY <1>5, <2>2, <2>3 DEF TakeQueued
<1> QED BY <1>1, <1>3, <1>4, <1>5, ReadyRefines
        DEF Next, Loop, vars, HandleCorpusTriaged, NoMessage, LeakCheck, Reply, Falls,
            ChildMoves

\* Runner and its Procs keep the protocol the host relies on: a request is
\* announced only after it was received, at most as many are announced and
\* unanswered as there are processes, and each is answered once.
THEOREM RunnerKeepsProtocol == Spec => ImplementsProtocol
<1>1. Init => Protocol!PInit
  BY DEF Init, Protocol!PInit, Phase
<1>2. XInv /\ [Next]_vars => [Protocol!PNext]_[r \in Requests |-> Phase(r)]
  BY NextRefines DEF PhaseMap
<1> QED BY <1>1, <1>2, XInvHolds, PTL DEF Spec, ImplementsProtocol, Protocol!PSpec
=============================================================================
