-------------------------------- MODULE Triage --------------------------------
(***************************************************************************)
(* pkg/fuzzer: the triage of a program whose run showed new signal         *)
(* (triageJob).  deflake runs it again to tell stable from flaky signal;   *)
(* handleCall asks whether the stable signal needs the kernel config       *)
(* actions of the run, minimizes the program and the actions, and saves.   *)
(*                                                                         *)
(* Executions are flaky: a run of a call shows any of Results, as far as   *)
(* its elements are visible with the actions that are applied.  The last   *)
(* call stands for Extra.  The goroutines of handleCall share nothing, so  *)
(* one of them is followed.                                                *)
(***************************************************************************)
EXTENDS Signal, FiniteSets, Functions

CONSTANTS
  NCalls, Elems,
  Results,  \* per call, the [raw, prio] its runs may have
  Needs,    \* per element, the actions without which no run shows it
  Configs,  \* the contexts (sequences of actions, or None) the job may have
  None,
  SaveMaxActions,
  deflakeNeedRuns, deflakeMaxRuns,
  deflakeNeedCorpusRuns, deflakeMinCorpusRuns, deflakeMaxCorpusRuns, deflakeTotalCorpusRuns,
  deflakeNeedSnapshotRuns

Calls == 1 .. NCalls
Prios == 0 .. 3

ASSUME TriageAssumption ==
  /\ NCalls \in Nat
  /\ Elems \subseteq Nat
  /\ Results \in [Calls -> SUBSET [raw : SUBSET Elems, prio : Prios]]
  /\ {deflakeNeedCorpusRuns, deflakeNeedSnapshotRuns} \subseteq 1 .. deflakeNeedRuns
  /\ {deflakeNeedRuns, deflakeMaxRuns, deflakeMinCorpusRuns, deflakeMaxCorpusRuns,
      deflakeTotalCorpusRuns, SaveMaxActions} \subseteq Nat
  /\ deflakeNeedRuns <= deflakeMaxRuns
  /\ deflakeNeedCorpusRuns <= deflakeMaxCorpusRuns
  /\ deflakeNeedCorpusRuns <= deflakeTotalCorpusRuns
  /\ \A c \in Configs \ {None} : c \in Seq(Range(c)) /\ None \notin Seq(Range(c))

VARIABLES
  fromCorpus, snapshot, config,  \* flags, Config.Snapshot and context of the job
  pc,
  run, prevTotalNewSignal,       \* of deflake
  result, at,                    \* the result in hand, its next call to look at
  calls,                         \* triageJob.calls
  maxSignal,                     \* Cover.maxSignal
  seen,    \* how many runs showed the element of a call, with at least a priority
  late,    \* the calls that entered the job during deflake
  info,    \* stableSignal and newStableSignal of the call that handleCall has
  call, firm,  \* that call, and its elements that needRuns runs have shown
  metadata,  \* MetadataEnabled, found out when it is first asked
  ctx,     \* its kconfuzzConfig
  red,     \* reduceKConfuzzActions: the target, the actions left, chunk and index
  probe,   \* the executions of reproducesSignal and probeKConfuzzSignal
  saved    \* the signal of the new corpus item

jobVars     == <<fromCorpus, snapshot, config>>
deflakeVars == <<run, prevTotalNewSignal, result, at, calls, maxSignal, seen, late>>
handleVars  == <<info, call, firm, metadata, ctx, red, probe, saved>>
vars == <<jobVars, pc, deflakeVars, handleVars>>

NoResult == [c \in Calls |-> None]
NotSeen  == [c \in Calls |-> [ep \in Elems \X Prios |-> 0]]
NoCalls  == [c \in {} |-> None]
NoInfo   == [stable |-> NoSignal, newStable |-> NoSignal]
NoRed    == [stage |-> None, target |-> NoSignal, left |-> <<>>, perAction |-> FALSE,
             chunk |-> 0, index |-> 0]
NoProbe  == [next |-> None, want |-> NoSignal, with |-> <<>>, got |-> NoSignal, runs |-> 0]

Init ==
  /\ fromCorpus \in BOOLEAN
  /\ snapshot \in BOOLEAN
  /\ config \in Configs
  /\ pc = "start"
  /\ run = 0
  /\ prevTotalNewSignal = 0
  /\ result = NoResult
  /\ at = NCalls + 1
  /\ calls = NoCalls
  /\ maxSignal = NoSignal
  /\ seen = NotSeen
  /\ late = {}
  /\ info = NoInfo
  /\ call = None
  /\ firm = {}
  /\ metadata = TRUE
  /\ ctx = None
  /\ red = NoRed
  /\ probe = NoProbe
  /\ saved = None

-----------------------------------------------------------------------------
(* Executions.                                                             *)

Actions(c) == IF c = None THEN {} ELSE Range(c)

Visible(actions) == {e \in Elems : Needs[e] \subseteq actions}

Shown(c, actions) ==
  {[raw |-> r.raw \cap Visible(actions), prio |-> r.prio] : r \in Results[c]}

\* The results of a run of the whole program; a call may have none.
RunResults ==
  {res \in [Calls -> {None} \cup UNION {Shown(c, Actions(config)) : c \in Calls}] :
     \A c \in Calls : res[c] \in {None} \cup Shown(c, Actions(config))}

needRuns ==
  IF snapshot THEN deflakeNeedSnapshotRuns
  ELSE IF fromCorpus THEN deflakeNeedCorpusRuns ELSE deflakeNeedRuns

-----------------------------------------------------------------------------
(* Results, one call after the other: Cover has its own mutex.             *)

Levels == 0 .. deflakeNeedRuns - 1

\* Mutant: level 0 is updated before level 1.
NextSignalsUp(signals, this) ==
  [j \in Levels |->
     CASE j = 0 -> Merge(signals[0], this)
       [] j = 1 -> Merge(signals[1], Intersection(Merge(signals[0], this), this))
       [] OTHER -> Merge(signals[j], Intersection(signals[j - 1], this))]

\* Mutant: a level is replaced.
NextSignalsAfresh(signals, this) ==
  [j \in Levels |->
     IF j = 0 THEN Merge(signals[0], this) ELSE Intersection(signals[j - 1], this)]

\* signals after one more run, from the highest level down.
NextSignals(signals, this) ==
  [j \in Levels |->
     IF j = 0 THEN Merge(signals[0], this)
     ELSE IF j < needRuns THEN Merge(signals[j], Intersection(signals[j - 1], this))
     ELSE signals[j]]

NewCall(new, this) ==
  [newSignal |-> new, signals |-> [j \in Levels |-> IF j = 0 THEN this ELSE NoSignal]]

\* deflakeCall for a call of the job: what the run adds to it.
Deflaked(c, new, this) ==
  [newSignal |-> Merge(c.newSignal, new), signals |-> NextSignals(c.signals, this)]

With(c, i) == [d \in DOMAIN calls \cup {c} |-> IF d = c THEN i ELSE calls[d]]

Count(c, this) ==
  [seen EXCEPT ![c] = [ep \in Elems \X Prios |->
                         IF Has(this, ep[1], ep[2]) THEN @[ep] + 1 ELSE @[ep]]]

\* NewInputFilter may refuse a call.
LookAt(c) ==
  LET this == FromRaw(result[c].raw, result[c].prio)
      new  == DiffRaw(maxSignal, result[c].raw, result[c].prio)
  IN /\ maxSignal' = Merge(maxSignal, new)
     /\ seen' = Count(c, this)
     /\ \/ /\ c \in DOMAIN calls
           /\ calls' = With(c, Deflaked(calls[c], new, this))
           /\ UNCHANGED late
        \/ /\ c \notin DOMAIN calls
           /\ new # NoSignal
           /\ calls' = With(c, IF pc = "first" THEN NewCall(new, this)
                               ELSE Deflaked(NewCall(new, this), NoSignal, this))
           /\ late' = IF pc = "first" THEN late ELSE late \cup {c}
        \/ /\ c \notin DOMAIN calls
           /\ UNCHANGED <<calls, late>>

NextResult ==
  /\ at <= NCalls
  /\ at' = at + 1
  /\ IF result[at] = None
       THEN UNCHANGED <<calls, maxSignal, seen, late>>
       ELSE LookAt(at)
  /\ UNCHANGED <<jobVars, pc, run, prevTotalNewSignal, result, handleVars>>

-----------------------------------------------------------------------------
(* processResult of the first run, and deflake.                            *)

ResultsDone == at > NCalls

FirstRun ==
  /\ pc = "start"
  /\ pc' = "first"
  /\ result' \in RunResults
  /\ at' = 1
  /\ UNCHANGED <<jobVars, run, prevTotalNewSignal, calls, maxSignal, seen, late, handleVars>>

StartJob ==
  /\ pc = "first"
  /\ ResultsDone
  /\ pc' = IF calls = NoCalls THEN "done" ELSE "deflake"
  /\ run' = 1
  /\ result' = NoResult
  /\ UNCHANGED <<jobVars, prevTotalNewSignal, at, calls, maxSignal, seen, late, handleVars>>

totalNewSignal ==
  Cardinality(UNION {{c} \X DOMAIN calls[c].newSignal : c \in DOMAIN calls})

haveSignal ==
  \A c \in DOMAIN calls : IntersectsWith(calls[c].newSignal, calls[c].signals[needRuns - 1])

\* Mutant: what is not stable yet has no chance in the last runs.
noChanceLate ==
  LET left == deflakeMaxRuns - run IN
  \A c \in DOMAIN calls :
    /\ left < needRuns
    /\ ~IntersectsWith(calls[c].newSignal, calls[c].signals[needRuns - 1])

noChance ==
  LET left == deflakeMaxRuns - run IN
  \A c \in DOMAIN calls :
    /\ left < needRuns
    /\ ~IntersectsWith(calls[c].newSignal, calls[c].signals[needRuns - left - 1])

noNewSignal == prevTotalNewSignal = totalNewSignal

stopDeflake ==
  CASE snapshot -> run >= needRuns + 1
    [] ~snapshot /\ ~fromCorpus -> run >= deflakeMaxRuns \/ haveSignal \/ noChance
    [] OTHER -> \/ run >= deflakeTotalCorpusRuns
                \/ noNewSignal /\ run >= deflakeMaxCorpusRuns
                \/ noNewSignal /\ run >= deflakeMinCorpusRuns /\ haveSignal

\* One more run: it is stopped, the program fails, or there are results.
Execute ==
  /\ pc = "deflake"
  /\ ResultsDone
  /\ ~stopDeflake
  /\ prevTotalNewSignal' = totalNewSignal
  /\ run' = run + 1
  /\ \/ pc' = "done" /\ UNCHANGED <<result, at>>
     \/ UNCHANGED <<pc, result, at>>
     \/ pc' = pc /\ result' \in RunResults /\ at' = 1
  /\ UNCHANGED <<jobVars, calls, maxSignal, seen, late, handleVars>>

\* Programs that run meanwhile find signal too.
OtherProgram ==
  /\ pc \in {"first", "deflake"}
  /\ \E c \in Calls : \E r \in Results[c] :
       maxSignal' = Merge(maxSignal, FromRaw(r.raw, r.prio))
  /\ UNCHANGED <<jobVars, pc, run, prevTotalNewSignal, result, at, calls, seen, late,
                 handleVars>>

\* The elements of a call that needRuns runs have shown.  deflakeCall looks twice
\* at the run with which a call enters the job.
FirmElems(c) ==
  {e \in Elems : seen[c][<<e, 0>>] >= (IF c \in late THEN needRuns - 1 ELSE needRuns)}

\* The end of deflake, and the start of handleCall for one of the calls; what
\* deflake worked with is not used any more.
HandleCall(c) ==
  LET stable    == calls[c].signals[needRuns - 1]
      newStable == Intersection(calls[c].newSignal, stable)
  IN
  /\ pc = "deflake"
  /\ ResultsDone
  /\ stopDeflake
  /\ call' = c
  /\ firm' = FirmElems(c)
  /\ info' = [stable |-> stable, newStable |-> newStable]
  /\ pc' = IF newStable = NoSignal THEN "done" ELSE "check"
  /\ run' = 0
  /\ prevTotalNewSignal' = 0
  /\ calls' = NoCalls
  /\ result' = NoResult
  /\ maxSignal' = NoSignal
  /\ seen' = NotSeen
  /\ late' = {}
  /\ UNCHANGED <<jobVars, at, metadata, ctx, red, probe, saved>>

-----------------------------------------------------------------------------
(* Does a program show a signal with some actions?  Up to two runs.        *)

\* Mutant: some of the signal is enough.
signalContainsAny(want, got) == IntersectsWith(want, got)

signalContainsAll(want, got) == \A e \in DOMAIN want : Has(got, e, want[e])

Ask(next, want, with) ==
  [next |-> next, want |-> want, with |-> with, got |-> NoSignal, runs |-> 0]

\* The answer is in pc; a run that is stopped or fails is a no.
ProbeRun ==
  /\ pc = "probe"
  /\ \/ /\ pc' = "no"
        /\ UNCHANGED probe
     \/ \E r \in Shown(call, Actions(probe.with)) \cup {[raw |-> {}, prio |-> 0]} :
          LET got == Merge(probe.got, FromRaw(r.raw, r.prio)) IN
          /\ probe' = [probe EXCEPT !.got = got, !.runs = @ + 1]
          /\ pc' = IF signalContainsAll(probe.want, got) THEN "yes"
                   ELSE IF probe.runs = 1 THEN "no" ELSE "probe"
  /\ UNCHANGED <<jobVars, deflakeVars, info, call, firm, metadata, ctx, red, saved>>

HandleStep(from, next) ==
  /\ pc = from
  /\ probe.next = next
  /\ UNCHANGED <<jobVars, deflakeVars, call, firm, metadata>>

\* checkKConfuzzDependency, when there is a context and metadata is enabled.
Check ==
  /\ pc = "check"
  /\ metadata' \in BOOLEAN
  /\ \/ /\ config # None /\ metadata'
        /\ ctx' = config
        /\ pc' = "probe"
        /\ probe' = Ask("check", info.newStable, <<>>)
     \/ /\ config = None \/ ~metadata'
        /\ ctx' = None
        /\ pc' = "minimize"
        /\ UNCHANGED probe
  /\ UNCHANGED <<jobVars, deflakeVars, call, firm, info, red, saved>>

Independent ==
  /\ HandleStep("yes", "check")
  /\ ctx' = None
  /\ pc' = "minimize"
  /\ probe' = NoProbe
  /\ UNCHANGED <<info, red, saved>>

Dependent ==
  /\ HandleStep("no", "check")
  /\ pc' = "minimize"
  /\ probe' = NoProbe
  /\ UNCHANGED <<info, ctx, red, saved>>

-----------------------------------------------------------------------------
(* minimize and minimizeKConfuzzConfig.                                    *)

\* The length of the next chunks, 0 after the last; half is half the last one.
ChunkFrom(half, perAction) == IF half >= 2 THEN half ELSE IF perAction THEN 1 ELSE 0

Reduce(stage, target, actions, perAction) ==
  [stage |-> stage, target |-> target, left |-> actions, perAction |-> perAction,
   chunk |-> ChunkFrom(Len(actions) \div 2, perAction), index |-> 0]

\* prog.Minimize runs shorter programs with the actions that still fit in them,
\* and keeps those that show the whole of newStableSignal; it may be stopped.
MinimizeProg ==
  /\ HandleStep("minimize", None)
  /\ \/ /\ pc' = "done"
        /\ UNCHANGED <<ctx, red>>
     \/ /\ ctx \in {None, <<>>}
        /\ ctx' = None
        /\ pc' = "save"
        /\ UNCHANGED red
     \/ /\ ctx \notin {None, <<>>}
        /\ \E n \in 0 .. Len(ctx) :
             LET fit == SubSeq(ctx, 1, n) IN
             /\ n < Len(ctx) => DOMAIN info.newStable \subseteq Visible(Range(fit))
             /\ ctx' = IF n = 0 THEN None ELSE fit
             /\ pc' = IF n = 0 THEN "save" ELSE "reduce"
             /\ red' = IF n = 0 THEN red
                       ELSE Reduce("strict", info.newStable, fit,
                                   SaveMaxActions = 0 \/ n <= SaveMaxActions * 2)
  /\ UNCHANGED <<info, probe, saved>>

\* The actions without those of the chunk.
Cut == SubSeq(red.left, 1, red.index) \o
       SubSeq(red.left, red.index + red.chunk + 1, Len(red.left))

MinActions == IF red.stage = "compact" THEN 1 ELSE 0

ReduceStep ==
  /\ HandleStep("reduce", None)
  /\ red.chunk > 0
  /\ \/ /\ red.index >= Len(red.left)
        /\ red' = [red EXCEPT !.index = 0,
                     !.chunk = ChunkFrom(red.chunk \div 2, red.perAction /\ red.chunk > 1)]
        /\ UNCHANGED <<pc, probe>>
     \/ /\ red.index < Len(red.left)
        /\ Len(Cut) < MinActions
        /\ red' = [red EXCEPT !.index = @ + red.chunk]
        /\ UNCHANGED <<pc, probe>>
     \/ /\ red.index < Len(red.left)
        /\ Len(Cut) >= MinActions
        /\ pc' = "probe"
        /\ probe' = Ask("reduce", red.target, Cut)
        /\ UNCHANGED red
  /\ UNCHANGED <<info, ctx, saved>>

Removed ==
  /\ HandleStep("yes", "reduce")
  /\ red' = [red EXCEPT !.left = probe.with]
  /\ pc' = "reduce"
  /\ probe' = NoProbe
  /\ UNCHANGED <<info, ctx, saved>>

\* Mutant: the same chunk is tried again.
NotRemovedYet ==
  /\ HandleStep("no", "reduce")
  /\ pc' = "reduce"
  /\ probe' = NoProbe
  /\ UNCHANGED <<info, ctx, red, saved>>

NotRemoved ==
  /\ HandleStep("no", "reduce")
  /\ red' = [red EXCEPT !.index = @ + red.chunk]
  /\ pc' = "reduce"
  /\ probe' = NoProbe
  /\ UNCHANGED <<info, ctx, saved>>

TooMany(actions) == SaveMaxActions > 0 /\ Len(actions) > SaveMaxActions

kconfuzzAnchorSignal(s) ==
  FromRaw({CHOOSE e \in DOMAIN s : \A d \in DOMAIN s : e <= d}, 0)

limitKConfuzzActionsForSave(actions) ==
  IF TooMany(actions)
    THEN [i \in 1 .. SaveMaxActions |->
            actions[((i - 1) * Len(actions)) \div SaveMaxActions + 1]]
    ELSE actions

\* A context without actions is dropped.
Normalized(actions) == IF actions = <<>> THEN None ELSE actions

StrictDone ==
  /\ HandleStep("reduce", None)
  /\ red.stage = "strict" /\ red.chunk = 0
  /\ IF TooMany(red.left)
       THEN /\ ctx' = red.left
            /\ red' = Reduce("compact", kconfuzzAnchorSignal(info.newStable), red.left, TRUE)
            /\ UNCHANGED pc
       ELSE /\ ctx' = Normalized(red.left)
            /\ red' = NoRed
            /\ pc' = "save"
  /\ UNCHANGED <<info, probe, saved>>

CompactDone ==
  /\ HandleStep("reduce", None)
  /\ red.stage = "compact" /\ red.chunk = 0
  /\ IF Len(red.left) < Len(ctx)
       THEN /\ pc' = "probe"
            /\ probe' = Ask("anchor", red.target, red.left)
            /\ UNCHANGED <<ctx, red>>
       ELSE /\ pc' = "save"
            /\ ctx' = limitKConfuzzActionsForSave(ctx)
            /\ red' = NoRed
            /\ UNCHANGED probe
  /\ UNCHANGED <<info, saved>>

\* Mutant: the signal that is looked for stays the same.
CompactedSignal ==
  /\ HandleStep("yes", "anchor")
  /\ ctx' = limitKConfuzzActionsForSave(red.left)
  /\ info' = [info EXCEPT !.stable = probe.got]
  /\ pc' = "save"
  /\ red' = NoRed
  /\ probe' = NoProbe
  /\ UNCHANGED saved

Compacted ==
  /\ HandleStep("yes", "anchor")
  /\ ctx' = limitKConfuzzActionsForSave(red.left)
  /\ info' = [stable |-> probe.got, newStable |-> red.target]
  /\ pc' = "save"
  /\ red' = NoRed
  /\ probe' = NoProbe
  /\ UNCHANGED saved

NotCompacted ==
  /\ HandleStep("no", "anchor")
  /\ ctx' = limitKConfuzzActionsForSave(ctx)
  /\ pc' = "save"
  /\ red' = NoRed
  /\ probe' = NoProbe
  /\ UNCHANGED <<info, saved>>

\* NewInputFilter may refuse the input.
SaveInput ==
  /\ HandleStep("save", None)
  /\ saved' \in {None, info.stable}
  /\ pc' = "done"
  /\ UNCHANGED <<info, ctx, red, probe>>

-----------------------------------------------------------------------------

Deflake ==
  FirstRun \/ NextResult \/ StartJob \/ Execute \/ \E c \in DOMAIN calls : HandleCall(c)

Handle ==
  \/ ProbeRun \/ Check \/ Independent \/ Dependent \/ MinimizeProg
  \/ ReduceStep \/ Removed \/ NotRemoved \/ StrictDone
  \/ CompactDone \/ Compacted \/ NotCompacted \/ SaveInput

Next == Deflake \/ OtherProgram \/ Handle

Spec == Init /\ [][Next]_vars

\* Every execution gets its result, and the goroutine of the job runs.
FairSpec == Spec /\ WF_vars(Deflake \/ Handle)

-----------------------------------------------------------------------------
(* Properties.                                                             *)

\* signals[j] of a call holds what j+1 runs have shown with at least that
\* priority (common to 3 of the runs, for the last level), except that the run
\* with which a call enters the job during deflake counts for two.
SignalsCounted ==
  \A c \in DOMAIN calls : \A j \in Levels : \A e \in DOMAIN calls[c].signals[j] :
    LET n == seen[c][<<e, calls[c].signals[j][e]>>] IN
    n >= 1 /\ n >= (IF c \in late THEN j ELSE j + 1)

\* Nothing stable is missed: an element that j+1 runs have shown with the highest
\* priority it was seen with is in signals[j] with that priority.
ReliableIsStable ==
  \A c \in DOMAIN calls \ late : \A e \in Elems, p \in Prios : \A j \in 0 .. needRuns - 1 :
    /\ seen[c][<<e, p>>] > j
    /\ p < 3 => seen[c][<<e, p + 1>>] = 0
    => Has(calls[c].signals[j], e, p)

\* deflake does not give up too early.  It stops when every call has new stable
\* signal, or else when no element of the new signal, counted at its highest
\* priority, has been shown so often that the runs left could make it stable.
RunsLeft == IF snapshot \/ fromCorpus THEN 0 ELSE deflakeMaxRuns - run
GivesUpOnlyFlaky ==
  [][call = None /\ call' # None /\ ~haveSignal =>
       \A c \in DOMAIN calls \ late : \A e \in DOMAIN calls[c].newSignal, p \in Prios :
         /\ p < 3 => seen[c][<<e, p + 1>>] = 0
         /\ seen[c][<<e, p>>] > 0
         => \/ seen[c][<<e, p>>] + RunsLeft < needRuns /\ seen[c][<<e, p>>] < run
            \/ Has(calls[c].signals[needRuns - 1], e, p)]_vars

\* The actions that are left explain the signal they are kept for: an action
\* that an element needs is not removed however the runs flake, unless the cap
\* on saved actions cuts it off.
Explains(actions, s) == DOMAIN s \subseteq Visible(actions)
NeededKept ==
  metadata =>
    /\ red.stage # None => Explains(Range(red.left), red.target)
    /\ pc \in {"minimize", "save"} =>
         \/ Explains(Actions(ctx), info.newStable)
         \/ SaveMaxActions > 0 /\ ctx # None /\ Len(ctx) = SaveMaxActions

\* What is saved has the signal it is saved for, and that is new signal which
\* needRuns runs have shown; compaction may replace the rest by what its probe shows.
SavedIsNew ==
  saved # None =>
    /\ info.newStable # NoSignal
    /\ signalContainsAll(info.newStable, saved)
    /\ DOMAIN info.newStable \subseteq firm

\* A job ends, whatever its executions show: deflake stops, and so does the
\* reduction of the actions.
JobEnds == pc = "first" ~> pc = "done"
=============================================================================
