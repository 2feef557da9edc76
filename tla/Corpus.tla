-------------------------------- MODULE Corpus --------------------------------
(***************************************************************************)
(* The corpus of the manager and its copy on disk: the candidates and      *)
(* triage jobs of pkg/fuzzer, the corpus of pkg/corpus, the database of    *)
(* pkg/db, and the goroutines of syz-manager that move the manager from    *)
(* phase to phase, store new inputs and minimize the corpus, through       *)
(* crashes of the manager and failing writes.                              *)
(*                                                                         *)
(* Three mutexes matter.  Manager.mu is held by a minimization from start  *)
(* to end and else for one step; corpus.mu by a Save that waits for room   *)
(* in the channel of updates and else for one step; corpusDBMu by the      *)
(* second half of a minimization and else for one step.                    *)
(***************************************************************************)
EXTENDS DB, Signal

CONSTANTS
  None,
  Stable,      \* the signals triage may find stable for a program
  Rank,        \* how soon minimization considers a program: not squashed, short
  Broken,      \* records that do not parse
  Disabled,    \* programs with calls that are not enabled
  Filtered,    \* what is left of a program without its disabled calls, or None
  Seeds, HubProgs, FuzzProgs,  \* programs of these origins
  Preserve,    \* the preserve_corpus parameter
  UseHub,      \* a hub is configured
  InitialLog,  \* the file when the manager is first started
  CurrentDBVersion,
  CandidateAttempts,  \* 3 in the code
  UpdatesCap,         \* the capacity of the channel of updates: 128 in the code
  MaxFaults           \* bound: crashes of the manager and failing writes

ASSUME CorpusAssumption ==
  /\ None \notin Keys
  /\ Filtered \in [Disabled -> (Keys \ Disabled) \cup {None}]
  /\ Broken \cup Disabled \cup Seeds \cup HubProgs \cup FuzzProgs \subseteq Keys
  /\ (HubProgs \cup FuzzProgs) \cap Disabled = {}
  /\ Rank \in [Keys -> Nat]
  /\ \A k \in Keys : \A s \in Stable[k] : \A e \in DOMAIN s : s[e] \in Nat
  /\ {Preserve, UseHub} \subseteq BOOLEAN
  /\ UpdatesCap \in Nat \ {0}
  /\ {CandidateAttempts, CurrentDBVersion, MaxFaults} \subseteq Nat
  /\ InitialLog \in Seq(Entries)

phaseInit == 0
phaseLoadedCorpus == 1
phaseTriagedCorpus == 2
phaseQueriedHub == 3
phaseTriagedHub == 4

VARIABLES
  db,
  phase,      \* phaseInit while the manager is down
  candidate,  \* per key: is its program queued or running as a candidate
  attempt,    \* and how many times has it been run without new signal
  fromCorpus, \* the candidates that came from the database
  job,        \* per key: the triage job started for its program
  jobIsCandidate,
  maxSignal,  \* Fuzzer.Cover.maxSignal
  items,      \* Corpus.progsMap: the signal of every program of the corpus
  total,      \* Corpus.signal
  updates,    \* the channel from Corpus.Save to corpusInputHandler
  sending,    \* per key: the update its job waits to send
  handler,    \* the update corpusInputHandler is storing
  minimizer, scan,  \* the minimization in progress, the records left to look at
  lastMinCorpus,
  disabledHashes,
  loop,       \* fuzzerLoop: how far it is in deciding that triage is over
  hub,        \* hubSyncLoop
  crashes, errors

managerVars == <<phase, minimizer, scan, lastMinCorpus, disabledHashes, loop, hub>>
fuzzerVars  == <<candidate, attempt, fromCorpus, job, jobIsCandidate, maxSignal>>
corpusVars  == <<items, total, updates, sending, handler>>
vars == <<db, managerVars, fuzzerVars, corpusVars, crashes, errors>>

NoUpdate == [key |-> None, exists |-> FALSE]

Up == phase # phaseInit

Init ==
  /\ db = [ver |-> 0, log |-> InitialLog, version |-> 0, records |-> {},
           pending |-> <<>>, uncompacted |-> 0]
  /\ phase = phaseInit
  /\ candidate = [k \in Keys |-> FALSE]
  /\ attempt = [k \in Keys |-> 0]
  /\ fromCorpus = {}
  /\ job = [k \in Keys |-> "none"]
  /\ jobIsCandidate = [k \in Keys |-> FALSE]
  /\ maxSignal = NoSignal
  /\ items = NoSignal
  /\ total = NoSignal
  /\ updates = <<>>
  /\ sending = [k \in Keys |-> NoUpdate]
  /\ handler = NoUpdate
  /\ minimizer = "idle"
  /\ scan = {}
  /\ lastMinCorpus = 0
  /\ disabledHashes = {}
  /\ loop = "sleep"
  /\ hub = "off"
  /\ crashes = 0
  /\ errors = 0

MgrMuFree    == minimizer = "idle"
CorpusMuFree == \A k \in Keys : job[k] # "send"
DBMuFree     == minimizer # "scan"

MayFail == crashes + errors < MaxFaults

\* The database after an operation with outcome r.
SetDB(r) ==
  /\ db' = r.db
  /\ errors' = IF r.err /\ MayFail THEN errors + 1 ELSE errors

\* The end of the process: the file alone outlives it.
OnDisk(d) == [d EXCEPT !.version = 0, !.records = {}, !.pending = <<>>, !.uncompacted = 0]

Exit ==
  /\ phase' = phaseInit
  /\ candidate' = [k \in Keys |-> FALSE]
  /\ attempt' = [k \in Keys |-> 0]
  /\ fromCorpus' = {}
  /\ job' = [k \in Keys |-> "none"]
  /\ jobIsCandidate' = [k \in Keys |-> FALSE]
  /\ maxSignal' = NoSignal
  /\ items' = NoSignal
  /\ total' = NoSignal
  /\ updates' = <<>>
  /\ sending' = [k \in Keys |-> NoUpdate]
  /\ handler' = NoUpdate
  /\ minimizer' = "idle"
  /\ scan' = {}
  /\ lastMinCorpus' = 0
  /\ disabledHashes' = {}
  /\ loop' = "sleep"
  /\ hub' = "off"

-----------------------------------------------------------------------------
(* Start: LoadSeeds and MachineChecked.                                    *)

\* The program that the candidate made of a key runs.
Prog(k) == IF k \in Disabled THEN Filtered[k] ELSE k

\* LoadSeeds: open the database, drop the records that do not parse.
LoadedDBs ==
  UNION {IF r.err THEN {r}
         ELSE Flush(DeleteAll(r.db, Broken \cap r.db.records), MayFail) : r \in Open(db, MayFail)}

Start ==
  /\ ~Up
  /\ \E r \in LoadedDBs :
       IF r.err
         THEN /\ SetDB([r EXCEPT !.db = OnDisk(@)])  \* the manager exits
              /\ UNCHANGED <<managerVars, fuzzerVars, corpusVars>>
         ELSE LET keys == (r.db.records \cup Seeds) \ Broken IN
              /\ SetDB(r)
              /\ fromCorpus' = r.db.records
              /\ candidate' = [k \in Keys |-> k \in keys /\ Prog(k) # None]
              /\ disabledHashes' = IF Preserve THEN keys \cap Disabled ELSE {}
              /\ phase' = phaseLoadedCorpus
              /\ UNCHANGED <<attempt, job, jobIsCandidate, maxSignal, corpusVars, minimizer,
                             scan, lastMinCorpus, loop, hub>>
  /\ UNCHANGED crashes

Crash ==
  /\ Up
  /\ crashes + errors < MaxFaults
  /\ crashes' = crashes + 1
  /\ db' = OnDisk(db)
  /\ Exit
  /\ UNCHANGED errors

-----------------------------------------------------------------------------
(* pkg/fuzzer: results of candidates and of fuzzing, triage jobs.          *)

\* Signals a run of k's program may show: it is flaky.
Observed(k) == Stable[Prog(k)] \cup {NoSignal}

NewMaxSignal(s) ==
  [e \in {x \in DOMAIN s : ~Has(maxSignal, x, s[x])} |-> s[e]]

\* A result with new signal starts a triage job; the goroutine of the job
\* counts itself only when it runs.  NewInputFilter needs Manager.mu.
StartTriage(k, s, isCandidate) ==
  /\ NewMaxSignal(s) # NoSignal
  /\ MgrMuFree
  /\ maxSignal' = Merge(maxSignal, s)
  /\ job' = [job EXCEPT ![k] = "spawned"]
  /\ jobIsCandidate' = [jobIsCandidate EXCEPT ![k] = isCandidate]

\* A run without new signal.  The limit is lower if the request is risky.
Retried(k, limit) == k \in fromCorpus /\ attempt[k] < limit

\* Mutant: the candidate stays in the count.
EndCandidateCounted(k) == UNCHANGED <<candidate, attempt>>

EndCandidate(k) ==
  /\ candidate' = [candidate EXCEPT ![k] = FALSE]
  /\ attempt' = [attempt EXCEPT ![k] = 0]

CandidateResult(k) ==
  /\ candidate[k]
  /\ job[k] = "none"
  /\ \E s \in Observed(k) :
       \/ /\ StartTriage(k, s, TRUE)
          /\ EndCandidate(k)
       \/ /\ NewMaxSignal(s) = NoSignal
          /\ \E limit \in {CandidateAttempts, CandidateAttempts - 1, 0} :
               IF Retried(k, limit)
                 THEN /\ attempt' = [attempt EXCEPT ![k] = @ + 1]
                      /\ UNCHANGED candidate
                 ELSE EndCandidate(k)
          /\ UNCHANGED <<maxSignal, job, jobIsCandidate>>
  /\ UNCHANGED <<db, managerVars, corpusVars, fromCorpus, crashes, errors>>

FuzzResult(k) ==
  /\ Up
  /\ k \in FuzzProgs
  /\ job[k] = "none" /\ ~candidate[k]
  /\ \E s \in Observed(k) : StartTriage(k, s, FALSE)
  /\ UNCHANGED <<db, managerVars, corpusVars, candidate, attempt, fromCorpus, crashes, errors>>

\* The steps of a job: count itself; deflake, and give up or go on; pass
\* NewInputFilter; save.
JobStep(k, from, to) ==
  /\ job[k] = from
  /\ job' = [job EXCEPT ![k] = to]
  /\ jobIsCandidate' = [jobIsCandidate EXCEPT ![k] = @ /\ to # "none"]
  /\ UNCHANGED <<db, managerVars, candidate, attempt, fromCorpus, maxSignal, crashes, errors>>

JobRuns(k)   == JobStep(k, "spawned", "counted") /\ UNCHANGED corpusVars
JobFlaky(k)  == JobStep(k, "counted", "none") /\ UNCHANGED corpusVars
JobFilter(k) == MgrMuFree /\ JobStep(k, "counted", "save") /\ UNCHANGED corpusVars

\* Corpus.Save, as far as it gets without waiting.
SignalOf(p) == IF p \in DOMAIN items THEN items[p] ELSE NoSignal

\* Mutant: what was loaded from the database need not be stored.
NewItemUnlessLoaded(p) == [key |-> p, exists |-> p \in DOMAIN items \cup fromCorpus]

NewItem(p) == [key |-> p, exists |-> p \in DOMAIN items]

Room == Len(updates) < UpdatesCap

JobSave(k) ==
  LET p == Prog(k) IN
  /\ job[k] = "save"
  /\ CorpusMuFree
  /\ \E s \in Stable[p] :
       /\ items' = [q \in DOMAIN items \cup {p} |->
                     IF q = p THEN Merge(SignalOf(p), s) ELSE items[q]]
       /\ total' = Merge(total, s)
       /\ maxSignal' = Merge(maxSignal, s)
  /\ job' = [job EXCEPT ![k] = IF Room THEN "none" ELSE "send"]
  /\ updates' = IF Room THEN Append(updates, NewItem(p)) ELSE updates
  /\ sending' = IF Room THEN sending ELSE [sending EXCEPT ![k] = NewItem(p)]
  /\ jobIsCandidate' = [jobIsCandidate EXCEPT ![k] = @ /\ ~Room]
  /\ UNCHANGED <<db, managerVars, handler, candidate, attempt, fromCorpus, crashes, errors>>

JobSend(k) ==
  /\ Room
  /\ JobStep(k, "send", "none")
  /\ updates' = Append(updates, sending[k])
  /\ sending' = [sending EXCEPT ![k] = NoUpdate]
  /\ UNCHANGED <<items, total, handler>>

-----------------------------------------------------------------------------
(* corpusInputHandler.                                                     *)

TakeUpdate ==
  /\ handler = NoUpdate
  /\ updates # <<>>
  /\ updates' = Tail(updates)
  /\ handler' = IF Head(updates).exists THEN NoUpdate ELSE Head(updates)
  /\ UNCHANGED <<db, managerVars, fuzzerVars, items, total, sending, crashes, errors>>

\* Mutant: the record waits for the next flush.
StoreUpdateLater ==
  /\ handler # NoUpdate
  /\ DBMuFree
  /\ db' = Save(db, handler.key)
  /\ handler' = NoUpdate
  /\ UNCHANGED <<managerVars, fuzzerVars, items, total, updates, sending, crashes, errors>>

\* An error is logged; the records stay pending.
StoreUpdate ==
  /\ handler # NoUpdate
  /\ DBMuFree
  /\ \E r \in Flush(Save(db, handler.key), MayFail) : SetDB(r)
  /\ handler' = NoUpdate
  /\ UNCHANGED <<managerVars, fuzzerVars, items, total, updates, sending, crashes>>

-----------------------------------------------------------------------------
(* minimizeCorpusLocked, called every minute and before every connection   *)
(* to the hub.                                                             *)

\* Corpus.Minimize looks at short programs first, else in any order.
Orders ==
  {o \in Injection(1 .. Cardinality(DOMAIN items), DOMAIN items) :
     \A i, j \in DOMAIN o : i < j => Rank[o[i]] <= Rank[o[j]]}

Minimized(order) ==
  LET kept == Minimize([i \in DOMAIN order |-> items[order[i]]])
  IN Restrict(items, {order[i] : i \in kept})

\* Mutant: minimization does not wait for the triage of the corpus.
MayMinimizeEarly == Up /\ Cardinality(DOMAIN items) > (lastMinCorpus * 103) \div 100

MayMinimize ==
  /\ phase >= phaseTriagedCorpus
  /\ Cardinality(DOMAIN items) > (lastMinCorpus * 103) \div 100

StartMinimize ==
  /\ MgrMuFree
  /\ CorpusMuFree
  /\ MayMinimize
  /\ \E order \in Orders : items' = Minimized(order)
  /\ lastMinCorpus' = Cardinality(DOMAIN items')
  /\ minimizer' = "minimized"
  /\ UNCHANGED <<db, phase, scan, disabledHashes, loop, hub, fuzzerVars, total, updates,
                 sending, handler, crashes, errors>>

LockDB ==
  /\ minimizer = "minimized"
  /\ minimizer' = "scan"
  /\ scan' = db.records
  /\ UNCHANGED <<db, phase, lastMinCorpus, disabledHashes, loop, hub, fuzzerVars, corpusVars,
                 crashes, errors>>

Unused(k) == k \notin DOMAIN items /\ k \notin disabledHashes

ScanRecord(k) ==
  /\ minimizer = "scan"
  /\ k \in scan
  /\ CorpusMuFree
  /\ scan' = scan \ {k}
  /\ db' = IF Unused(k) THEN Delete(db, k) ELSE db
  /\ UNCHANGED <<phase, minimizer, lastMinCorpus, disabledHashes, loop, hub, fuzzerVars,
                 corpusVars, crashes, errors>>

\* A failing flush is fatal, a failing change of the version goes unnoticed.
EndMinimize ==
  /\ minimizer = "scan"
  /\ scan = {}
  /\ \E r \in Flush(db, MayFail) :
       IF r.err
         THEN /\ SetDB([r EXCEPT !.db = OnDisk(@)])
              /\ Exit
         ELSE /\ \E r2 \in BumpVersion(r.db, CurrentDBVersion, MayFail) : SetDB(r2)
              /\ minimizer' = "idle"
              /\ UNCHANGED <<phase, scan, lastMinCorpus, disabledHashes, loop, hub, fuzzerVars,
                             corpusVars>>
  /\ UNCHANGED crashes

-----------------------------------------------------------------------------
(* fuzzerLoop and hubSyncLoop: the phases.                                 *)

statCandidates          == Cardinality({k \in Keys : candidate[k]})
statJobsTriageCandidate ==
  Cardinality({k \in Keys : job[k] \in {"counted", "save", "send"} /\ jobIsCandidate[k]})

LoopStep(from, to) ==
  /\ Up
  /\ loop = from
  /\ loop' = to
  /\ UNCHANGED <<db, minimizer, scan, lastMinCorpus, disabledHashes, fuzzerVars, corpusVars,
                 crashes, errors>>

\* CandidateTriageFinished reads the two counters one after the other.  In the
\* last phase the loop changes nothing any more, and is left out.
NoCandidates ==
  /\ phase # phaseTriagedHub
  /\ statCandidates = 0
  /\ LoopStep("sleep", "candidates")
  /\ UNCHANGED <<phase, hub>>

NoJobs ==
  /\ LoopStep("candidates", IF statJobsTriageCandidate = 0 THEN "finished" ELSE "sleep")
  /\ UNCHANGED <<phase, hub>>

TriageFinished ==
  /\ MgrMuFree
  /\ LoopStep("finished", "sleep")
  /\ LET queryHub == phase = phaseLoadedCorpus /\ UseHub
     IN  /\ phase' = IF queryHub THEN phaseTriagedCorpus
                     ELSE IF phase \in {phaseLoadedCorpus, phaseQueriedHub}
                          THEN phaseTriagedHub ELSE phase
         /\ hub' = IF queryHub THEN "loop" ELSE hub

HubStep(from, to) ==
  /\ hub = from
  /\ hub' = to
  /\ UNCHANGED <<db, minimizer, scan, lastMinCorpus, disabledHashes, loop, corpusVars, crashes,
                 errors>>

\* needMoreCandidates, then a sync that got an answer: addNewCandidates first
\* moves the phase, then adds the candidates.
HubAnswers ==
  /\ MgrMuFree
  /\ statCandidates + statJobsTriageCandidate = 0
  /\ HubStep("loop", "adding")
  /\ phase' = IF phase = phaseTriagedCorpus THEN phaseQueriedHub ELSE phase
  /\ UNCHANGED fuzzerVars

AddCandidates ==
  /\ HubStep("adding", "done")
  /\ \E new \in SUBSET {k \in HubProgs : ~candidate[k] /\ job[k] = "none"} :
       /\ candidate' = [k \in Keys |-> candidate[k] \/ k \in new]
       /\ fromCorpus' = fromCorpus \ new
  /\ UNCHANGED <<phase, attempt, job, jobIsCandidate, maxSignal>>

hubIsUnreachable ==
  /\ MgrMuFree
  /\ HubStep("loop", "done")
  /\ phase' = IF phase = phaseTriagedCorpus THEN phaseTriagedHub ELSE phase
  /\ UNCHANGED fuzzerVars

-----------------------------------------------------------------------------

Job(k) == JobRuns(k) \/ JobFlaky(k) \/ JobFilter(k) \/ JobSave(k) \/ JobSend(k)

Handler == TakeUpdate \/ StoreUpdate

Minimizer == StartMinimize \/ LockDB \/ EndMinimize \/ \E k \in Keys : ScanRecord(k)

FuzzerLoop == NoCandidates \/ NoJobs \/ TriageFinished

Hub == HubAnswers \/ AddCandidates \/ hubIsUnreachable

Next ==
  \/ Start
  \/ Crash
  \/ \E k \in Keys : CandidateResult(k) \/ FuzzResult(k) \/ Job(k)
  \/ Handler
  \/ Minimizer
  \/ FuzzerLoop
  \/ Hub

Spec == Init /\ [][Next]_vars

\* Some goroutine with work to do gets on with it, executions and triage jobs
\* end.  fuzzerLoop, which polls forever, needs its own share.
Workers == Handler \/ Minimizer \/ \E k \in Keys : CandidateResult(k) \/ Job(k)

FairSpec == Spec /\ WF_vars(Workers) /\ WF_vars(FuzzerLoop)

-----------------------------------------------------------------------------
(* Properties.                                                             *)

Stored == deserializeDB(db.log)

\* As long as no write has failed, the file followed by the pending records is
\* what is in memory, whatever was saved, deleted, flushed and compacted.
Mirrored ==
  Up /\ errors = 0 =>
    ~Corrupted(db.log) /\ deserializeDB(db.log \o db.pending) = db.records

\* A record that is on disk leaves it only if it was deleted in memory: failing
\* and partial writes, crashes and repairs lose nothing that was stored.  With
\* preserve_corpus, programs whose calls are disabled at the moment never leave it.
DurableKept ==
  [][\A k \in Stored \ Broken :
       \/ k \in Stored'
       \/ Up /\ k \notin db.records /\ ~(Preserve /\ k \in Disabled)]_vars

\* Every program of the corpus is in the database or on its way there, though a
\* minimization deletes records while programs are saved again.
OnTheWay == {updates[i] : i \in DOMAIN updates} \cup Range(sending) \cup {handler}
CorpusAccounted ==
  \A p \in DOMAIN items :
    p \in db.records \/ [key |-> p, exists |-> FALSE] \in OnTheWay

\* A minimization deletes no record whose program still waits for its first
\* runs after the restart.
DeletedOnlyAfterRun ==
  [][\A k \in db.records \cap fromCorpus :
       Up' /\ k \notin db'.records => ~candidate[k]]_vars

\* Minimization and updates of items keep the signal of the corpus: it is what
\* the items have together, with the priorities.
SignalKept ==
  /\ DOMAIN total = UNION {DOMAIN items[p] : p \in DOMAIN items}
  /\ \A e \in DOMAIN total :
       /\ \A p \in DOMAIN items : e \in DOMAIN items[p] => items[p][e] <= total[e]
       /\ \E p \in DOMAIN items : Has(items[p], e, total[e])

\* A program of the corpus reaches the file, unless it is minimized away, a write
\* fails or the manager crashes: none stays in memory only.  The goal holds of a
\* program outside the corpus, so that this is p \in DOMAIN items ~> goal.
CorpusStored ==
  \A p \in Keys \ (Disabled \cup Broken) :
    []<>(p \in Stored \/ p \notin DOMAIN items \/ errors > 0)

\* The triage of the corpus ends, and the manager goes on to the hub or to
\* reproducing crashes: phase = phaseLoadedCorpus ~> phase # phaseLoadedCorpus.
TriageEnds == []<>(phase # phaseLoadedCorpus)
=============================================================================
