------------------------- MODULE ConfigActionsProofs -------------------------
(***************************************************************************)
(* For any set of processes, any registry and any programs: the list of    *)
(* saved sysctls is exact, a program that reaches its end leaves the       *)
(* sysctls only it can touch as it found them, and a FLIP changes one.     *)
(***************************************************************************)
EXTENDS ConfigActions, FiniteSetTheorems, SequenceTheorems, TLAPS

\* Between the save and the write of an action, the action is at the head of
\* the program and has passed the checks of kconfuzz_apply_config_action.
ActionPending ==
  \A p \in Procs :
    pc[p] \in {"select", "write"} =>
      /\ prog[p] # <<>>
      /\ Current(p).op = "config"
      /\ ~BadAction(Current(p))

\* While a program runs, each sysctl that only it touches either still holds
\* what the program found, or the saved value is what the program found.
SavedIsEntry ==
  \A p \in Procs, q \in Params :
    /\ pc[p] # "idle"
    /\ Isolated(p, q)
    /\ q \notin unsaved[p]
    /\ <<q, entry[p][q]>> \notin Refused
    => IF saved[p][q] = None THEN Read(p, q) = entry[p][q]
                             ELSE saved[p][q] = entry[p][q]

IInv == TypeOK /\ OrderMatchesSaved /\ ActionPending /\ SavedIsEntry

-----------------------------------------------------------------------------

\* Distinct entries of a list that omits q are fewer than the parameters, so
\* the capacity check of kconfuzz_apply_config_action never fails.
LEMMA RoomInOrder ==
  ASSUME NEW s \in Seq(Params), NEW q \in Params,
         \A i, j \in DOMAIN s : s[i] = s[j] => i = j,
         \A i \in DOMAIN s : s[i] # q
  PROVE  Len(s) < Cardinality(Params)
<1> DEFINE R == Params \ {q}
<1>1. IsFiniteSet(Params)
  BY ConfigAssumption
<1>2. /\ IsFiniteSet(R)
      /\ Cardinality(R) = Cardinality(Params) - 1
      /\ Cardinality(Params) \in Nat
      /\ Cardinality(R) \in Nat
  BY <1>1, FS_RemoveElement, FS_CardinalityType
<1>3. Len(s) \in Nat /\ DOMAIN s = 1 .. Len(s)
  OBVIOUS
<1>4. IsFiniteSet(1 .. Len(s)) /\ Cardinality(1 .. Len(s)) = Len(s)
  <2>1. /\ IsFiniteSet(1 .. Len(s))
        /\ Cardinality(1 .. Len(s)) =
             IF 1 > Len(s) THEN 0 ELSE Len(s) - 1 + 1
    <3>1. 1 \in Int /\ Len(s) \in Int
      BY <1>3
    <3> QED BY ONLY <3>1, FS_Interval, Zenon
  <2> QED BY <1>3, <2>1
<1>5. s \in Injection(1 .. Len(s), R)
  BY <1>3 DEF Injection, IsInjective
<1>6. Cardinality(1 .. Len(s)) <= Cardinality(R)
  BY <1>2, <1>4, <1>5, FS_Injection
<1> QED BY <1>2, <1>3, <1>4, <1>6

-----------------------------------------------------------------------------

\* The invariant holds when the VM has booted and no program runs.
LEMMA InitIInv == Init => IInv
<1> SUFFICES ASSUME Init PROVE IInv
  OBVIOUS
<1> USE ConfigAssumption
<1>1. TypeOK
  <2>1. 0 \in Legal
    BY DEF Legal
  <2> QED BY <2>1 DEF Init, TypeOK, Phases
<1>2. OrderMatchesSaved
  BY DEF Init, OrderMatchesSaved
<1>3. ActionPending /\ SavedIsEntry
  BY DEF Init, ActionPending, SavedIsEntry
<1> QED BY <1>1, <1>2, <1>3 DEF IInv

\* A new test process starts from empty saved arrays.
LEMMA ForkKeeps ==
  ASSUME NEW p \in Procs, IInv, Fork(p)
  PROVE  IInv'
<1> USE ConfigAssumption DEF IInv, Fork
<1>1. TypeOK'
  <2>1. \A q \in Params : Read(p, q) \in Value
    BY DEF TypeOK, Read, Home
  <2> QED BY <2>1 DEF TypeOK, Phases
<1>2. OrderMatchesSaved'
  BY DEF TypeOK, OrderMatchesSaved
<1>3. ActionPending'
  BY DEF TypeOK, ActionPending, Current
<1>4. SavedIsEntry'
  <2> SUFFICES ASSUME NEW r \in Procs, NEW q \in Params,
                      (/\ pc[r] # "idle"
                       /\ Isolated(r, q)
                       /\ q \notin unsaved[r]
                       /\ <<q, entry[r][q]>> \notin Refused)'
               PROVE  (IF saved[r][q] = None
                         THEN Read(r, q) = entry[r][q]
                         ELSE saved[r][q] = entry[r][q])'
    BY DEF SavedIsEntry
  <2>1. CASE r = p
    BY <2>1 DEF TypeOK, Read
  <2>2. CASE r # p
    BY <2>2 DEF TypeOK, SavedIsEntry, Read, Isolated
  <2> QED BY <2>1, <2>2
<1> QED BY <1>1, <1>2, <1>3, <1>4

\* Steps that touch neither the sysctls nor the saved values: calls, skipped
\* actions, the end of the program, the death of the process.
LEMMA ControlKeeps ==
  ASSUME NEW p \in Procs, IInv,
         \/ Die(p) \/ RunCall(p) \/ CallReturns(p) \/ SkipAction(p)
         \/ EndProgram(p) \/ Exit(p)
  PROVE  IInv'
<1> USE ConfigAssumption DEF IInv
<1>1. UNCHANGED <<sysctl, sel, saved, order, entry, unsaved>>
  BY DEF Die, RunCall, CallReturns, SkipAction, EndProgram, Exit
<1>2. /\ pc' \in [Procs -> Phases]
      /\ \A r \in Procs : pc'[r] # "idle" => pc[r] # "idle"
      /\ \A r \in Procs : pc'[r] \in {"select", "write"} =>
           pc'[r] = pc[r] /\ prog'[r] = prog[r]
  BY Zenon DEF TypeOK, Phases, Die, RunCall, CallReturns, SkipAction, AtAction,
         EndProgram, Exit
<1>3. prog' \in [Procs -> Seq(Instr)]
  <2>1. \A s \in Seq(Instr) : s # <<>> => Tail(s) \in Seq(Instr)
    OBVIOUS
  <2>2. \/ prog' = prog
        \/ prog[p] # <<>> /\ prog' = [prog EXCEPT ![p] = Tail(prog[p])]
    BY DEF Die, RunCall, CallReturns, SkipAction, AtAction, EndProgram, Exit
  <2>3. prog \in [Procs -> Seq(Instr)]
    BY DEF TypeOK
  <2> QED BY ONLY <2>1, <2>2, <2>3
<1>4. running' \in [Procs -> Nat]
  BY DEF TypeOK, Die, RunCall, CallReturns, SkipAction, EndProgram, Exit
<1>5. TypeOK'
  BY <1>1, <1>2, <1>3, <1>4 DEF TypeOK
<1>6. OrderMatchesSaved'
  BY <1>1 DEF OrderMatchesSaved
<1>7. ActionPending'
  BY <1>2 DEF ActionPending, Current, BadAction
<1>8. SavedIsEntry'
  BY <1>1, <1>2 DEF SavedIsEntry, Read, Isolated
<1> QED BY <1>5, <1>6, <1>7, <1>8

\* A new namespace holds boot values and belongs to a process without a
\* program.
LEMMA RespawnKeeps ==
  ASSUME NEW p \in Procs, IInv, Respawn(p)
  PROVE  IInv'
<1> USE ConfigAssumption DEF IInv, Respawn
<1>1. TypeOK'
  BY DEF TypeOK, Phases
<1>2. OrderMatchesSaved' /\ ActionPending'
  BY DEF TypeOK, OrderMatchesSaved, ActionPending, Current, BadAction
<1>3. SavedIsEntry'
  <2>1. \A r \in Procs, q \in Params : r # p => Read(r, q)' = Read(r, q)
    BY DEF TypeOK, Read, Home
  <2>2. \A r \in Procs : pc'[r] # "idle" => r # p /\ pc[r] # "idle"
    BY DEF TypeOK
  <2> QED BY <2>1, <2>2 DEF SavedIsEntry, Isolated
<1> QED BY <1>1, <1>2, <1>3

\* The value saved at the first restorable action is what the program found.
LEMMA SaveKeeps ==
  ASSUME NEW p \in Procs, IInv, SaveOriginal(p)
  PROVE  IInv'
<1> USE ConfigAssumption DEF IInv
<1> DEFINE a == Current(p)
           q == a.param
<1>1. /\ a \in Instr
      /\ a.op = "config"
      /\ q \in Params
      /\ ~BadAction(a)
  <2>1. \A s \in Seq(Instr) : s # <<>> => Head(s) \in Instr
    OBVIOUS
  <2> QED BY <2>1 DEF TypeOK, SaveOriginal, AtAction, Current, BadAction
<1>2. Read(p, q) \in Value
  BY <1>1 DEF TypeOK, Read, Home
<1>3. ActionPending'
  BY <1>1 DEF TypeOK, ActionPending, SaveOriginal, AtAction, Current, BadAction
<1>4. CASE NeedsSave(p, a) /\ q \notin Unreadable
  <2>1. saved[p][q] = None
    BY <1>4 DEF NeedsSave
  <2>2. OrderHasRoom(p)
    <3>1. \A i \in DOMAIN order[p] : order[p][i] # q
      BY <1>1, <2>1 DEF OrderMatchesSaved
    <3> QED
      BY <1>1, <3>1, RoomInOrder, Zenon DEF TypeOK, OrderMatchesSaved, OrderHasRoom
  <2>3. /\ saved' = [saved EXCEPT ![p][q] = Read(p, q)]
        /\ order' = [order EXCEPT ![p] = Append(@, q)]
        /\ pc' = [pc EXCEPT ![p] = "select"]
        /\ UNCHANGED <<sysctl, prog, running, sel, entry, unsaved>>
    BY <1>4, <2>2 DEF SaveOriginal
  <2>4. TypeOK'
    <3>1. Append(order[p], q) \in Seq(Params)
      BY <1>1 DEF TypeOK
    <3> QED BY <1>1, <1>2, <2>3, <3>1 DEF TypeOK, Phases
  <2>5. OrderMatchesSaved'
    <3> DEFINE s == order[p]
    <3>1. /\ s \in Seq(Params)
          /\ DOMAIN s = 1 .. Len(s)
          /\ Len(s) \in Nat
          /\ \A i \in DOMAIN s : s[i] # q
      BY <1>1, <2>1 DEF TypeOK, OrderMatchesSaved
    <3>2. /\ DOMAIN Append(s, q) = 1 .. Len(s) + 1
          /\ \A i \in 1 .. Len(s) : Append(s, q)[i] = s[i]
          /\ Append(s, q)[Len(s) + 1] = q
      BY <3>1, <1>1
    <3>3. \A i, j \in DOMAIN Append(s, q) :
            Append(s, q)[i] = Append(s, q)[j] => i = j
      BY <3>1, <3>2 DEF OrderMatchesSaved
    <3>4. \A x \in Params :
            (\E i \in DOMAIN Append(s, q) : Append(s, q)[i] = x) <=>
            (x = q \/ \E i \in DOMAIN s : s[i] = x)
      BY <3>1, <3>2
    <3>5. \A x \in Params :
            saved'[p][x] # None <=> x = q \/ saved[p][x] # None
      BY <1>1, <1>2, <2>3 DEF TypeOK
    <3>6. order'[p] = Append(s, q)
      BY <2>3 DEF TypeOK
    <3>7. \A r \in Procs : r # p => order'[r] = order[r] /\ saved'[r] = saved[r]
      BY <2>3 DEF TypeOK
    <3>8. ASSUME NEW r \in Procs
          PROVE  (/\ \A i, j \in DOMAIN order[r] :
                       order[r][i] = order[r][j] => i = j
                  /\ \A x \in Params :
                       saved[r][x] # None <=>
                         \E i \in DOMAIN order[r] : order[r][i] = x)'
      <4>1. CASE r = p
        <5>1. \A x \in Params :
                saved[p][x] # None <=> \E i \in DOMAIN s : s[i] = x
          BY DEF OrderMatchesSaved
        <5>2. \A i, j \in DOMAIN order'[p] :
                order'[p][i] = order'[p][j] => i = j
          BY ONLY <3>3, <3>6, Zenon
        <5>3. \A x \in Params :
                saved'[p][x] # None <=>
                  \E i \in DOMAIN order'[p] : order'[p][i] = x
          BY ONLY <3>4, <3>5, <3>6, <5>1, Zenon
        <5> QED BY ONLY <4>1, <5>2, <5>3, Zenon
      <4>2. CASE r # p
        BY <3>7, <4>2 DEF OrderMatchesSaved
      <4> QED BY <4>1, <4>2
    <3> QED BY <3>8 DEF OrderMatchesSaved
  <2>6. SavedIsEntry'
    BY <1>1, <1>2, <2>1, <2>3 DEF TypeOK, SavedIsEntry, Read, Isolated,
       SaveOriginal, AtAction
  <2> QED BY <1>3, <2>4, <2>5, <2>6
<1>5. CASE ~(NeedsSave(p, a) /\ q \notin Unreadable)
  <2>1. /\ pc' = [pc EXCEPT ![p] = "select"]
        /\ UNCHANGED <<sysctl, prog, running, sel, saved, order, entry, unsaved>>
    BY <1>5 DEF SaveOriginal
  <2>2. TypeOK' /\ OrderMatchesSaved'
    BY <2>1 DEF TypeOK, Phases, OrderMatchesSaved
  <2>3. SavedIsEntry'
    BY <2>1 DEF TypeOK, SavedIsEntry, Read, Isolated, SaveOriginal, AtAction
  <2> QED BY <1>3, <2>2, <2>3
<1> QED BY <1>4, <1>5

\* The value chosen is one the registry lists, for a flip too.
LEMMA SelectKeeps ==
  ASSUME NEW p \in Procs, IInv, SelectValue(p)
  PROVE  IInv'
<1> USE ConfigAssumption DEF IInv
<1> DEFINE a == Current(p)
<1>1. a \in Instr /\ a.op = "config" /\ ~BadAction(a)
  <2>1. \A s \in Seq(Instr) : s # <<>> => Head(s) \in Instr
    OBVIOUS
  <2> QED BY <2>1 DEF TypeOK, ActionPending, SelectValue, Current
<1>2. a.value \in Nat /\ (a.flip \/ a.value < NumValues)
  <2>1. a.value \in Nat /\ a.flip \in BOOLEAN
    BY <1>1 DEF Instr
  <2> QED BY <1>1, <2>1 DEF BadAction
<1>3. Selected(p, a) \in Legal
  <2>1. CASE ~a.flip
    BY <1>2, <2>1 DEF Selected, Legal
  <2>2. Fallback(a) \in Legal
    BY <1>2 DEF Fallback, Legal
  <2>3. \A v \in Legal : FlipFrom(v) \in Legal
    BY DEF FlipFrom, Legal
  <2> QED BY <2>1, <2>2, <2>3 DEF Selected
<1>4. TypeOK'
  BY <1>3 DEF TypeOK, Phases, SelectValue
<1>5. OrderMatchesSaved' /\ ActionPending'
  BY DEF TypeOK, OrderMatchesSaved, ActionPending, SelectValue, Current,
         BadAction
<1>6. SavedIsEntry'
  BY DEF TypeOK, SavedIsEntry, SelectValue, Read, Isolated
<1> QED BY <1>4, <1>5, <1>6

\* A write or a restore of p reaches no sysctl that only another process
\* touches.
LEMMA OthersUntouched ==
  ASSUME NEW p \in Procs, NEW q \in Params, NEW v \in Value, TypeOK,
         WriteFile(p, q, v)
  PROVE  /\ sysctl' \in [Procs \cup {"vm"} -> [Params -> Value]]
         /\ \A r \in Procs, x \in Params :
              Isolated(r, x) /\ <<r, x>> # <<p, q>> =>
                sysctl'[Home(r, x)][x] = Read(r, x)
         /\ <<q, v>> \notin Refused => sysctl'[Home(p, q)][q] = v
         /\ <<q, v>> \in Refused => sysctl' = sysctl
<1> USE ConfigAssumption DEF TypeOK
<1>1. Home(p, q) \in Procs \cup {"vm"}
  BY DEF Home
<1>2. CASE <<q, v>> \in Refused
  BY <1>2 DEF WriteFile, Read
<1>3. CASE <<q, v>> \notin Refused
  <2>1. sysctl' = [sysctl EXCEPT ![Home(p, q)][q] = v]
    BY <1>3 DEF WriteFile
  <2>2. sysctl' \in [Procs \cup {"vm"} -> [Params -> Value]]
    BY <1>1, <2>1
  <2>3. sysctl'[Home(p, q)][q] = v
    BY <1>1, <2>1 DEF Read, Home
  <2>4. ASSUME NEW r \in Procs, NEW x \in Params,
               Isolated(r, x), <<r, x>> # <<p, q>>
        PROVE  sysctl'[Home(r, x)][x] = Read(r, x)
    BY <1>1, <2>1, <2>4 DEF Read, Home, Isolated
  <2> QED BY <1>3, <2>2, <2>3, <2>4
<1> QED BY <1>2, <1>3

\* A write without a saved value is recorded as unsaved; with one, what the
\* program found is safe in the saved value.
LEMMA WriteKeeps ==
  ASSUME NEW p \in Procs, IInv, WriteValue(p)
  PROVE  IInv'
<1> USE ConfigAssumption DEF IInv
<1> DEFINE q == Current(p).param
<1>1. q \in Params /\ prog[p] # <<>>
  BY DEF ActionPending, WriteValue, BadAction
<1>2. sel[p] \in Value
  BY DEF TypeOK, Value
<1>3. WriteFile(p, q, sel[p])
  BY DEF WriteValue
<1>w. /\ sysctl' \in [Procs \cup {"vm"} -> [Params -> Value]]
      /\ \A r \in Procs, x \in Params :
           Isolated(r, x) /\ <<r, x>> # <<p, q>> =>
             sysctl'[Home(r, x)][x] = Read(r, x)
      /\ <<q, sel[p]>> \in Refused => sysctl' = sysctl
  <2>1. TypeOK /\ q \in Params
    BY <1>1
  <2> HIDE DEF q
  <2> QED BY ONLY <1>2, <1>3, <2>1, p \in Procs, OthersUntouched, Zenon
<1>4. /\ prog' = [prog EXCEPT ![p] = Tail(prog[p])]
      /\ pc' = [pc EXCEPT ![p] = "exec"]
      /\ pc[p] = "write"
      /\ unsaved' = IF saved[p][q] = None /\ <<q, sel[p]>> \notin Refused
                      THEN [unsaved EXCEPT ![p] = @ \cup {q}]
                      ELSE unsaved
      /\ UNCHANGED <<running, sel, saved, order, entry>>
  BY DEF WriteValue
<1>5. TypeOK'
  <2>1. Tail(prog[p]) \in Seq(Instr)
    BY <1>1 DEF TypeOK
  <2>2. prog' \in [Procs -> Seq(Instr)]
    BY <1>4, <2>1 DEF TypeOK
  <2>3. unsaved' \in [Procs -> SUBSET Params]
    BY <1>1, <1>4 DEF TypeOK
  <2>4. sysctl' \in [Procs \cup {"vm"} -> [Params -> Value]]
    BY <1>w
  <2> QED BY <1>4, <2>2, <2>3, <2>4 DEF TypeOK, Phases
<1>6. OrderMatchesSaved' /\ ActionPending'
  BY <1>4 DEF TypeOK, OrderMatchesSaved, ActionPending, Current, BadAction
<1>7. SavedIsEntry'
  <2> SUFFICES ASSUME NEW r \in Procs, NEW x \in Params,
                      (/\ pc[r] # "idle"
                       /\ Isolated(r, x)
                       /\ x \notin unsaved[r]
                       /\ <<x, entry[r][x]>> \notin Refused)'
               PROVE  (IF saved[r][x] = None
                         THEN Read(r, x) = entry[r][x]
                         ELSE saved[r][x] = entry[r][x])'
    BY DEF SavedIsEntry
  <2>1. /\ pc[r] # "idle"
        /\ Isolated(r, x)
        /\ x \notin unsaved[r]
        /\ <<x, entry[r][x]>> \notin Refused
    BY <1>1, <1>4 DEF TypeOK, Isolated
  <2>2. IF saved[r][x] = None THEN Read(r, x) = entry[r][x]
                              ELSE saved[r][x] = entry[r][x]
    BY <2>1 DEF SavedIsEntry
  <2>3. CASE <<r, x>> # <<p, q>>
    <3>1. \A t \in Procs, y \in Params :
            Isolated(t, y) /\ <<t, y>> # <<p, q>> =>
              sysctl'[Home(t, y)][y] = Read(t, y)
      BY ONLY <1>w, Zenon
    <3>2. Read(r, x)' = Read(r, x)
      BY <2>1, <2>3, <3>1 DEF Read, Home
    <3> QED BY <1>4, <2>2, <3>2
  <2>4. CASE r = p /\ x = q
    <3>1. CASE saved[p][q] # None
      BY <1>4, <2>2, <2>4, <3>1
    <3>2. CASE saved[p][q] = None
      <4>1. <<q, sel[p]>> \in Refused
        BY <1>1, <1>4, <2>4, <3>2 DEF TypeOK
      <4>2. sysctl' = sysctl
        BY <1>w, <4>1
      <4> QED BY <1>4, <2>2, <2>4, <4>2 DEF Read
    <3> QED BY <3>1, <3>2
  <2> QED BY <2>3, <2>4
<1> QED BY <1>5, <1>6, <1>7

\* Taking the last saved sysctl off the list writes back what the program
\* found and leaves the rest of the list exact.
LEMMA RestoreKeeps ==
  ASSUME NEW p \in Procs, IInv, RestoreOne(p)
  PROVE  IInv'
<1> USE ConfigAssumption DEF IInv
<1> DEFINE s == order[p]
           n == Len(s)
           t == SubSeq(s, 1, n - 1)
<1>0. PICK q \in Params : q = s[n]
  BY DEF TypeOK, RestoreOne
<1>1. /\ s \in Seq(Params) /\ s # <<>>
      /\ n \in Nat /\ n > 0 /\ DOMAIN s = 1 .. n
      /\ s[n] = q
  BY <1>0 DEF TypeOK, RestoreOne
<1>2. saved[p][q] # None
  BY <1>1 DEF OrderMatchesSaved
<1>3. PICK v \in Value : v = saved[p][q]
  BY <1>1, <1>2 DEF TypeOK
<1>4. /\ WriteFile(p, q, v)
      /\ saved' = [saved EXCEPT ![p][q] = None]
      /\ order' = [order EXCEPT ![p] = t]
      /\ UNCHANGED <<pc, prog, running, sel, entry, unsaved>>
  BY <1>1, <1>2, <1>3 DEF RestoreOne
<1>5. /\ t \in Seq(Params)
      /\ DOMAIN t = 1 .. n - 1
      /\ \A i \in 1 .. n - 1 : t[i] = s[i]
  BY <1>1
<1>6. TypeOK'
  <2>1. sysctl' \in [Procs \cup {"vm"} -> [Params -> Value]]
    <3>1. TypeOK
      OBVIOUS
    <3> QED BY ONLY <1>4, <3>1, OthersUntouched, p \in Procs, q \in Params,
                    v \in Value, Zenon
  <2>2. order' \in [Procs -> Seq(Params)]
    BY <1>4, <1>5 DEF TypeOK
  <2>3. saved' \in [Procs -> [Params -> Value \cup {None}]]
    BY <1>1, <1>4 DEF TypeOK
  <2> QED BY <1>4, <2>1, <2>2, <2>3 DEF TypeOK
<1>7. OrderMatchesSaved'
  <2>1. \A i, j \in DOMAIN s : s[i] = s[j] => i = j
    BY DEF OrderMatchesSaved
  <2>2. \A x \in Params :
          saved[p][x] # None <=> \E i \in DOMAIN s : s[i] = x
    BY DEF OrderMatchesSaved
  <2>3. \A i, j \in DOMAIN t : t[i] = t[j] => i = j
    BY <1>1, <1>5, <2>1
  <2>4. \A x \in Params :
          (\E i \in DOMAIN t : t[i] = x) <=>
          (x # q /\ \E i \in DOMAIN s : s[i] = x)
    <3>1. \A i \in 1 .. n - 1 : i \in 1 .. n /\ i # n
      BY <1>1
    <3>2. \A i \in 1 .. n : i # n => i \in 1 .. n - 1
      BY <1>1
    <3>3. n \in 1 .. n
      BY <1>1
    <3> HIDE DEF n, s, t
    <3> QED BY ONLY <1>1, <1>5, <2>1, <3>1, <3>2, <3>3, Zenon
  <2>5. \A x \in Params :
          saved'[p][x] # None <=> x # q /\ saved[p][x] # None
    BY <1>1, <1>4 DEF TypeOK
  <2>6. /\ order'[p] = t
        /\ \A r \in Procs :
             r # p => order'[r] = order[r] /\ saved'[r] = saved[r]
    BY <1>4 DEF TypeOK
  <2>7. ASSUME NEW r \in Procs
        PROVE  (/\ \A i, j \in DOMAIN order[r] :
                     order[r][i] = order[r][j] => i = j
                /\ \A x \in Params :
                     saved[r][x] # None <=>
                       \E i \in DOMAIN order[r] : order[r][i] = x)'
    <3>1. CASE r = p
      <4>1. \A i, j \in DOMAIN order'[p] :
              order'[p][i] = order'[p][j] => i = j
        BY ONLY <2>3, <2>6, Zenon
      <4>2. \A x \in Params :
              saved'[p][x] # None <=>
                \E i \in DOMAIN order'[p] : order'[p][i] = x
        <5> HIDE DEF s, t
        <5> TAKE x \in Params
        <5>1. (\E i \in DOMAIN t : t[i] = x) <=> x # q /\ saved[p][x] # None
          BY ONLY x \in Params, <2>2, <2>4, Zenon
        <5>2. saved'[p][x] # None <=> \E i \in DOMAIN t : t[i] = x
          BY ONLY x \in Params, <2>5, <5>1, Zenon
        <5> QED BY ONLY <2>6, <5>2, Zenon
      <4> QED BY ONLY <3>1, <4>1, <4>2, Zenon
    <3>2. CASE r # p
      BY <2>6, <3>2 DEF OrderMatchesSaved
    <3> QED BY <3>1, <3>2
  <2> QED BY <2>7 DEF OrderMatchesSaved
<1>8. ActionPending'
  BY <1>4 DEF ActionPending, Current, BadAction
<1>9. SavedIsEntry'
  <2> SUFFICES ASSUME NEW r \in Procs, NEW x \in Params,
                      (/\ pc[r] # "idle"
                       /\ Isolated(r, x)
                       /\ x \notin unsaved[r]
                       /\ <<x, entry[r][x]>> \notin Refused)'
               PROVE  (IF saved[r][x] = None
                         THEN Read(r, x) = entry[r][x]
                         ELSE saved[r][x] = entry[r][x])'
    BY DEF SavedIsEntry
  <2>1. /\ pc[r] # "idle"
        /\ Isolated(r, x)
        /\ x \notin unsaved[r]
        /\ <<x, entry[r][x]>> \notin Refused
    BY <1>4 DEF Isolated
  <2>2. IF saved[r][x] = None THEN Read(r, x) = entry[r][x]
                              ELSE saved[r][x] = entry[r][x]
    BY <2>1 DEF SavedIsEntry
  <2>3. CASE <<r, x>> # <<p, q>>
    <3>1. \A u \in Procs, y \in Params :
            Isolated(u, y) /\ <<u, y>> # <<p, q>> =>
              sysctl'[Home(u, y)][y] = Read(u, y)
      <4>1. TypeOK
        OBVIOUS
      <4> QED BY ONLY <1>4, <4>1, OthersUntouched, ConfigAssumption, Zenon
    <3>2. Read(r, x)' = Read(r, x)
      BY <2>1, <2>3, <3>1 DEF Read, Home
    <3>3. saved'[r][x] = saved[r][x]
      BY <1>1, <1>4, <2>3 DEF TypeOK
    <3> QED BY <1>4, <2>2, <3>2, <3>3
  <2>4. CASE r = p /\ x = q
    <3>1. saved[p][q] = entry[p][q]
      BY <1>2, <2>2, <2>4
    <3>2. <<q, saved[p][q]>> \notin Refused
      BY <2>1, <2>4, <3>1
    <3>3. sysctl'[Home(p, q)][q] = entry[p][q]
      <4>1. TypeOK /\ <<q, v>> \notin Refused /\ v = entry[p][q]
        BY <1>3, <3>1, <3>2
      <4> QED BY ONLY <1>4, <4>1, OthersUntouched, p \in Procs, q \in Params,
                      v \in Value, Zenon
    <3>4. saved'[p][q] = None
      BY <1>1, <1>4 DEF TypeOK
    <3> QED BY <1>4, <2>4, <3>3, <3>4 DEF Read, Home
  <2> QED BY <2>3, <2>4
<1> QED BY <1>6, <1>7, <1>8, <1>9

-----------------------------------------------------------------------------

\* The invariant is inductive.
LEMMA NextIInv == IInv /\ [Next]_vars => IInv'
<1> SUFFICES ASSUME IInv, [Next]_vars PROVE IInv'
  OBVIOUS
<1>1. CASE UNCHANGED vars
  <2>1. TypeOK'
    BY <1>1 DEF vars, IInv, TypeOK
  <2>2. OrderMatchesSaved'
    BY <1>1 DEF vars, IInv, OrderMatchesSaved
  <2>3. ActionPending'
    BY <1>1 DEF vars, IInv, ActionPending, Current, BadAction
  <2>4. SavedIsEntry'
    BY <1>1 DEF vars, IInv, SavedIsEntry, Read, Isolated
  <2> QED
    BY <2>1, <2>2, <2>3, <2>4 DEF IInv
<1>2. CASE Next
  <2> PICK p \in Procs : Fork(p) \/ Step(p) \/ Die(p) \/ Respawn(p)
    BY <1>2 DEF Next
  <2> QED
    BY ForkKeeps, ControlKeeps, RespawnKeeps, SaveKeeps, SelectKeeps,
       WriteKeeps, RestoreKeeps DEF Step
<1> QED BY <1>1, <1>2

\* The inductive invariant holds in every reachable state.
LEMMA Invariance == Spec => []IInv
BY InitIInv, NextIInv, PTL DEF Spec

\* Types hold for any registry and any programs; in particular the executor
\* never writes a value the registry does not list.
THEOREM TypeCorrect == Spec => []TypeOK
<1>1. IInv => TypeOK
  BY DEF IInv
<1> QED BY <1>1, Invariance, PTL

\* The list kconfuzz_restore_config_actions walks is exact: each saved
\* sysctl once, none left out, whatever the size of the registry.
THEOREM SavedListExact == Spec => []OrderMatchesSaved
<1>1. IInv => OrderMatchesSaved
  BY DEF IInv
<1> QED BY <1>1, Invariance, PTL

\* A program that reaches the end of the restore leaves each sysctl that
\* only it can touch as it found it.
THEOREM RestoreCorrect == Spec => []RestoredAtExit
<1>1. IInv => RestoredAtExit
  <2> SUFFICES ASSUME IInv, NEW p \in Procs, NEW q \in Params,
                      pc[p] = "restore", order[p] = <<>>, Isolated(p, q),
                      q \notin unsaved[p], <<q, entry[p][q]>> \notin Refused
               PROVE  Read(p, q) = entry[p][q]
    BY DEF RestoredAtExit
  <2>1. saved[p][q] = None
    BY DEF IInv, OrderMatchesSaved
  <2> QED BY <2>1 DEF IInv, SavedIsEntry
<1> QED BY <1>1, Invariance, PTL

-----------------------------------------------------------------------------
(* FLIP actions.                                                           *)

\* Until it is written, the selected value of a FLIP action is the one after the
\* current value of a sysctl that only the process touches.
FlipPending ==
  \A p \in Procs, q \in Params :
    /\ pc[p] = "write"
    /\ Current(p).flip /\ Current(p).param = q
    /\ Isolated(p, q) /\ q \notin Unreadable /\ Read(p, q) \in Legal
    => sel[p] = FlipFrom(Read(p, q))

\* A step of another process leaves a sysctl alone that only p touches.
LEMMA OtherLeaves ==
  ASSUME IInv, NEW p \in Procs, NEW q \in Params, Isolated(p, q), NEW r \in Procs, r # p,
         Fork(r) \/ Step(r) \/ Die(r) \/ Respawn(r)
  PROVE  /\ Read(p, q)' = Read(p, q)
         /\ pc'[p] = pc[p] /\ prog'[p] = prog[p] /\ sel'[p] = sel[p]
<1>1. Home(p, q) = p /\ p # "vm" /\ p \in Procs \cup {"vm"}
  BY ConfigAssumption DEF Isolated, Home
<1>2. sysctl \in [Procs \cup {"vm"} -> [Params -> Value]] /\ pc \in [Procs -> Phases]
      /\ prog \in [Procs -> Seq(Instr)] /\ sel \in [Procs -> Legal]
  BY DEF IInv, TypeOK
<1>3. pc'[p] = pc[p] /\ prog'[p] = prog[p] /\ sel'[p] = sel[p]
  BY <1>2 DEF Fork, Step, Die, Respawn, RunCall, CallReturns, SkipAction, SaveOriginal,
              SelectValue, WriteValue, EndProgram, RestoreOne, Exit
<1>4. ASSUME NEW x, NEW v, WriteFile(r, x, v) PROVE sysctl'[p] = sysctl[p]
  <2>1. Home(r, x) # p
    BY <1>1 DEF Home
  <2> QED BY <1>1, <1>2, <1>4, <2>1 DEF WriteFile
<1>5. sysctl'[p] = sysctl[p]
  <2>1. CASE WriteValue(r)
    BY <1>4, <2>1, Zenon DEF WriteValue
  <2>2. CASE RestoreOne(r)
    BY <1>4, <2>2 DEF RestoreOne
  <2>3. CASE Respawn(r)
    BY <1>1, <1>2, <2>3 DEF Respawn
  <2>4. CASE sysctl' = sysctl
    BY <2>4
  <2> QED BY <2>1, <2>2, <2>3, <2>4 DEF Fork, Step, Die, RunCall, CallReturns, SkipAction,
                                        SaveOriginal, SelectValue, EndProgram, Exit
<1> QED BY <1>1, <1>3, <1>5 DEF Read

\* Nothing happens between the selection and the write of a FLIP action.
LEMMA FlipKept ==
  ASSUME IInv, FlipPending, [Next]_vars
  PROVE  FlipPending'
<1>1. CASE UNCHANGED vars
  BY <1>1 DEF vars, FlipPending, Current, Isolated, Read
<1>2. CASE Next
  <2>1. PICK r \in Procs : Fork(r) \/ Step(r) \/ Die(r) \/ Respawn(r)
    BY <1>2 DEF Next
  <2>2. SUFFICES ASSUME NEW p \in Procs, NEW q \in Params,
                        pc'[p] = "write", Head(prog'[p]).flip, Head(prog'[p]).param = q,
                        Isolated(p, q), q \notin Unreadable, Read(p, q)' \in Legal
                 PROVE  sel'[p] = FlipFrom(Read(p, q)')
    BY DEF FlipPending, Current, Isolated, FlipFrom
  <2>3. CASE r # p
    BY <2>1, <2>2, <2>3, OtherLeaves DEF FlipPending, Current
  <2>4. CASE r = p
    <3>1. pc \in [Procs -> Phases] /\ sel \in [Procs -> Legal]
      BY DEF IInv, TypeOK
    <3>2. CASE SelectValue(p)
      <4>1. /\ prog' = prog /\ sysctl' = sysctl
            /\ sel'[p] = Selected(p, Current(p))
        BY <3>1, <3>2 DEF SelectValue
      <4> QED BY <2>2, <4>1 DEF Selected, Current, Read
    <3>3. CASE CallReturns(p)
      BY <2>2, <3>3 DEF CallReturns, FlipPending, Current, Read
    <3>4. CASE ~SelectValue(p) /\ ~CallReturns(p)
      BY <2>1, <2>2, <2>4, <3>1, <3>4
         DEF Fork, Step, Die, Respawn, RunCall, SkipAction, SaveOriginal, AtAction,
             WriteValue, EndProgram, RestoreOne, Exit
    <3> QED BY <3>2, <3>3, <3>4
  <2> QED BY <2>3, <2>4
<1> QED BY <1>1, <1>2

\* A FLIP action that the kernel accepts (kconfuzz_apply_config_action) changes
\* the value of a sysctl that only the process touches.
THEOREM FlipsChangeValues == Spec => FlipToggles
<1>1. Init => FlipPending
  BY DEF Init, FlipPending
<1>2. ASSUME IInv, FlipPending, [Next]_vars, NEW p \in Procs, NEW q \in Params,
             Writes(p), Current(p).flip, Current(p).param = q, Isolated(p, q),
             q \notin Unreadable, Read(p, q) \in Legal, <<q, sel[p]>> \notin Refused,
             NumValues > 1
      PROVE  sysctl'[Home(p, q)][q] # Read(p, q)
  <2>1. pc[p] = "write" /\ pc'[p] = "exec"
    BY <1>2 DEF Writes
  <2>2. PICK r \in Procs : Fork(r) \/ Step(r) \/ Die(r) \/ Respawn(r)
    BY <1>2, <2>1 DEF Next, vars
  <2>3. r = p
    BY <1>2, <2>1, <2>2, OtherLeaves, Zenon
  <2>4. WriteValue(p)
    <3>1. pc \in [Procs -> Phases]
      BY <1>2 DEF IInv, TypeOK
    <3> QED BY <2>1, <2>2, <2>3, <3>1
          DEF Fork, Step, Die, Respawn, RunCall, CallReturns, SkipAction, SaveOriginal,
              AtAction, SelectValue, EndProgram, RestoreOne, Exit
  <2>5. PICK v : v = Read(p, q)
    OBVIOUS
  <2>6. sel[p] = (v + 1) % NumValues /\ v \in 0 .. NumValues - 1
    BY <1>2, <2>1, <2>5 DEF FlipPending, FlipFrom, Legal
  <2>7. sel[p] # v
    <3>1. NumValues \in Nat
      BY ConfigAssumption
    <3>2. CASE v + 1 < NumValues
      <4>1. (v + 1) % NumValues = v + 1
        BY <2>6, <3>1, <3>2
      <4> QED BY <2>6, <4>1
    <3>3. CASE v + 1 = NumValues
      <4>1. (v + 1) % NumValues = 0
        BY <1>2, <2>6, <3>1, <3>3
      <4> QED BY <1>2, <2>6, <3>3, <4>1
    <3> QED BY <2>6, <3>1, <3>2, <3>3
  <2>8. sysctl'[Home(p, q)][q] = sel[p]
    <3>1. sel[p] \in Value /\ TypeOK
      BY <1>2 DEF IInv, TypeOK, Value
    <3>2. WriteFile(p, q, sel[p])
      BY <1>2, <2>4 DEF WriteValue
    <3> QED BY <1>2, <3>1, <3>2, OthersUntouched
  <2> QED BY <2>5, <2>7, <2>8
<1>3. IInv /\ FlipPending /\ [Next]_vars =>
        [\A p \in Procs, q \in Params :
           /\ Writes(p)
           /\ Current(p).flip
           /\ Current(p).param = q
           /\ Isolated(p, q)
           /\ q \notin Unreadable
           /\ Read(p, q) \in Legal
           /\ <<q, sel[p]>> \notin Refused
           /\ NumValues > 1
           => sysctl'[Home(p, q)][q] # Read(p, q)]_vars
  BY <1>2
<1> QED BY <1>1, <1>3, FlipKept, InitIInv, NextIInv, PTL DEF Spec, FlipToggles
=============================================================================
