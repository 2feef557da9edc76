----------------------------- MODULE TriageProofs -----------------------------
(***************************************************************************)
(* The triage of a program, for any number of calls, elements, actions and *)
(* runs (Triage): what deflake counts as stable and when it gives up, and  *)
(* that handleCall keeps the actions a signal needs and saves what is new. *)
(***************************************************************************)
EXTENDS Triage, TLAPS

Sig    == UNION {[D -> Prios] : D \in SUBSET Elems}
Counts == [Elems \X Prios -> Nat]

\* Count for one call.
Plus(n, this) ==
  [ep \in Elems \X Prios |-> IF Has(this, ep[1], ep[2]) THEN n[ep] + 1 ELSE n[ep]]

\* SignalsCounted for one call: isLate is whether it entered during deflake.
Counted(n, signals, isLate) ==
  \A j \in Levels : \A e \in DOMAIN signals[j] :
    n[<<e, signals[j][e]>>] >= 1 /\ n[<<e, signals[j][e]>>] >= (IF isLate THEN j ELSE j + 1)

\* A run that showed a priority showed every lower one.
Monotone(n) == \A e \in Elems : \A p, q \in Prios : p <= q => n[<<e, q>>] <= n[<<e, p>>]

\* ReliableIsStable for one call.
Reliable(n, signals) ==
  \A e \in Elems, p \in Prios : \A j \in 0 .. needRuns - 1 :
    n[<<e, p>>] > j /\ (p < 3 => n[<<e, p + 1>>] = 0) => Has(signals[j], e, p)

-----------------------------------------------------------------------------
(* Signals.                                                                *)

\* The operations of pkg/signal on signals give signals.
LEMMA SigClosed ==
  ASSUME NEW s \in Sig, NEW t \in Sig
  PROVE  /\ NoSignal \in Sig
         /\ Merge(s, t) \in Sig
         /\ Intersection(s, t) \in Sig
<1>1. NoSignal \in Sig
  <2>1. NoSignal \in [{} -> Prios]
    BY DEF NoSignal
  <2>2. {} \in SUBSET Elems
    OBVIOUS
  <2> QED BY <2>1, <2>2, Zenon DEF Sig
<1>2. PICK D \in SUBSET Elems : s \in [D -> Prios]
  BY DEF Sig
<1>3. PICK E \in SUBSET Elems : t \in [E -> Prios]
  BY DEF Sig
<1>4. Merge(s, t) \in [D \cup E -> Prios]
  BY <1>2, <1>3 DEF Merge, Has
<1>5. Merge(s, t) \in Sig
  <2>1. D \cup E \in SUBSET Elems
    OBVIOUS
  <2> QED BY <1>4, <2>1, Zenon DEF Sig
<1>6. Intersection(s, t) \in [{x \in D : Has(t, x, s[x])} -> Prios]
  BY <1>2 DEF Intersection
<1>7. Intersection(s, t) \in Sig
  <2>1. {x \in D : Has(t, x, s[x])} \in SUBSET Elems
    OBVIOUS
  <2> QED BY <1>6, <2>1 DEF Sig
<1> QED BY <1>1, <1>5, <1>7

\* An element of a signal and its priority.
LEMMA SigElem ==
  ASSUME NEW s \in Sig, NEW e \in DOMAIN s
  PROVE  e \in Elems /\ s[e] \in Prios
BY DEF Sig

\* Raw signal as a signal, and what of it is new.
LEMMA RawSig ==
  ASSUME NEW s \in Sig, NEW raw \in SUBSET Elems, NEW prio \in Prios
  PROVE  FromRaw(raw, prio) \in Sig /\ DiffRaw(s, raw, prio) \in Sig
<1>1. FromRaw(raw, prio) \in [raw -> Prios]
  BY DEF FromRaw
<1>2. DiffRaw(s, raw, prio) \in [{x \in raw : ~Has(s, x, prio)} -> Prios]
  BY DEF DiffRaw
<1>3. {x \in raw : ~Has(s, x, prio)} \in SUBSET Elems
  OBVIOUS
<1> QED BY <1>1, <1>2, <1>3 DEF Sig

\* Merge has what either of its arguments has, at the higher priority.
LEMMA MergeElem ==
  ASSUME NEW s \in Sig, NEW t \in Sig, NEW e \in DOMAIN Merge(s, t)
  PROVE  \/ e \in DOMAIN s /\ Merge(s, t)[e] = s[e]
         \/ e \in DOMAIN t /\ Merge(s, t)[e] = t[e]
BY DEF Merge, Has

\* Merge loses nothing at its priority or below.
LEMMA MergeHas ==
  ASSUME NEW s \in Sig, NEW t \in Sig, NEW e \in Elems, NEW p \in Prios,
         Has(s, e, p) \/ Has(t, e, p)
  PROVE  Has(Merge(s, t), e, p)
<1>1. e \in DOMAIN s => s[e] \in 0 .. 3
  BY SigElem DEF Prios
<1>2. e \in DOMAIN t => t[e] \in 0 .. 3
  BY SigElem DEF Prios
<1> QED BY <1>1, <1>2 DEF Merge, Has, Prios

\* Intersection has an element at the priority of its first argument.
LEMMA IntersectionElem ==
  ASSUME NEW s \in Sig, NEW t \in Sig, NEW e
  PROVE  /\ e \in DOMAIN Intersection(s, t) <=> (e \in DOMAIN s /\ Has(t, e, s[e]))
         /\ e \in DOMAIN Intersection(s, t) => Intersection(s, t)[e] = s[e]
BY DEF Intersection

\* The same, with a name for the intersection.
LEMMA InBoth ==
  ASSUME NEW s \in Sig, NEW t \in Sig
  PROVE  \E both \in Sig :
           /\ both = Intersection(s, t)
           /\ \A e \in DOMAIN both : e \in DOMAIN s /\ Has(t, e, s[e]) /\ both[e] = s[e]
<1>1. Intersection(s, t) \in Sig
  BY SigClosed
<1> QED BY <1>1, IntersectionElem

\* A result to look at is that of a call.
LEMMA ResultOfCall ==
  ASSUME NEW n \in 1 .. NCalls + 1, n <= NCalls
  PROVE  n \in Calls
BY TriageAssumption DEF Calls

\* The empty signal needs no action.
LEMMA NothingToExplain ==
  ASSUME NEW A
  PROVE  NoSignal \in Sig /\ DOMAIN NoSignal = {} /\ Explains(A, NoSignal)
<1>1. DOMAIN NoSignal = {} /\ NoSignal \in [{} -> Prios]
  BY DEF NoSignal
<1> QED BY <1>1, Zenon DEF Sig, Explains

\* What is counted for an element, at a priority and at the lowest.
LEMMA CountAt ==
  ASSUME NEW m \in Counts, NEW e \in Elems, NEW p \in Prios
  PROVE  0 \in Prios /\ 0 <= p /\ m[<<e, p>>] \in Nat /\ m[<<e, 0>>] \in Nat
BY DEF Counts, Prios

-----------------------------------------------------------------------------
(* One run, one call.                                                      *)

\* One more run leaves counts counts.
LEMMA PlusCounts ==
  ASSUME NEW n \in Counts, NEW this \in Sig
  PROVE  /\ Plus(n, this) \in Counts
         /\ \A e \in Elems, p \in Prios :
              /\ Plus(n, this)[<<e, p>>] >= n[<<e, p>>]
              /\ Has(this, e, p) => Plus(n, this)[<<e, p>>] = n[<<e, p>>] + 1
              /\ ~Has(this, e, p) => Plus(n, this)[<<e, p>>] = n[<<e, p>>]
<1>1. Plus(n, this) \in Counts
  BY DEF Plus, Counts
<1>2. ASSUME NEW e \in Elems, NEW p \in Prios
      PROVE  /\ n[<<e, p>>] \in Nat
             /\ Plus(n, this)[<<e, p>>]
                  = IF Has(this, e, p) THEN n[<<e, p>>] + 1 ELSE n[<<e, p>>]
  BY DEF Plus, Counts
<1> QED BY <1>1, <1>2

\* The signal of a run that is new was seen in it.
LEMMA NewIsSeen ==
  ASSUME NEW n \in Counts, NEW s \in Sig, NEW raw \in SUBSET Elems, NEW prio \in Prios,
         NEW e \in DOMAIN DiffRaw(s, raw, prio)
  PROVE  Plus(n, FromRaw(raw, prio))[<<e, DiffRaw(s, raw, prio)[e]>>] >= 1
<1>1. e \in raw /\ e \in Elems /\ DiffRaw(s, raw, prio)[e] = prio
  BY DEF DiffRaw
<1>2. Has(FromRaw(raw, prio), e, prio)
  BY <1>1 DEF Has, FromRaw, Prios
<1>3. n[<<e, prio>>] \in Nat
  BY <1>1 DEF Counts
<1>4. FromRaw(raw, prio) \in Sig
  BY RawSig
<1>5. Plus(n, FromRaw(raw, prio))[<<e, prio>>] = n[<<e, prio>>] + 1
  BY <1>1, <1>2, <1>4, PlusCounts, Zenon
<1> QED BY <1>1, <1>3, <1>5

\* A count that does not fall stays above zero.
LEMMA StillSeen ==
  ASSUME NEW m \in Nat, NEW n \in Nat, m >= n, n >= 1
  PROVE  m >= 1
OBVIOUS

\* The levels after a run that are not what they were.
LEMMA NextSignalsElem ==
  ASSUME NEW signals \in [Levels -> Sig], NEW this \in Sig, NEW j \in Levels
  PROVE  /\ NextSignals(signals, this)[j] \in Sig
         /\ j = 0 => NextSignals(signals, this)[j] = Merge(signals[0], this)
         /\ j # 0 /\ j < needRuns =>
              /\ j - 1 \in Levels
              /\ NextSignals(signals, this)[j]
                   = Merge(signals[j], Intersection(signals[j - 1], this))
         /\ j # 0 /\ ~(j < needRuns) =>
              NextSignals(signals, this)[j] = signals[j]
<1>0. deflakeNeedRuns \in Nat /\ j \in Nat
  BY TriageAssumption DEF Levels
<1>1. CASE j = 0
  <2>1. NextSignals(signals, this)[j] = Merge(signals[0], this)
    BY <1>1 DEF NextSignals
  <2>2. signals[0] \in Sig
    BY <1>1
  <2> QED BY <1>1, <2>1, <2>2, SigClosed
<1>2. CASE j # 0 /\ j < needRuns
  <2>1. NextSignals(signals, this)[j] = Merge(signals[j], Intersection(signals[j - 1], this))
    BY <1>2 DEF NextSignals
  <2>2. j - 1 \in Levels
    BY <1>0, <1>2 DEF Levels
  <2>3. signals[j] \in Sig /\ signals[j - 1] \in Sig
    BY <2>2
  <2>4. Intersection(signals[j - 1], this) \in Sig
    BY <2>3, SigClosed
  <2> QED BY <1>2, <2>1, <2>2, <2>3, <2>4, SigClosed
<1>3. CASE j # 0 /\ ~(j < needRuns)
  <2>1. NextSignals(signals, this)[j] = signals[j]
    BY <1>3 DEF NextSignals
  <2> QED BY <1>3, <2>1
<1> QED BY <1>1, <1>2, <1>3

\* deflakeCall counts one run: from the highest level down, no level sees what
\* the same run has added to the level below.
LEMMA CountedStep ==
  ASSUME NEW n \in Counts, NEW signals \in [Levels -> Sig], NEW this \in Sig,
         NEW isLate \in BOOLEAN, Counted(n, signals, isLate)
  PROVE  Counted(Plus(n, this), NextSignals(signals, this), isLate)
<1> DEFINE m == Plus(n, this)
           next == NextSignals(signals, this)
<1>0. SUFFICES ASSUME NEW j \in Levels, NEW e \in DOMAIN next[j]
               PROVE  /\ m[<<e, next[j][e]>>] >= 1
                      /\ m[<<e, next[j][e]>>] >= (IF isLate THEN j ELSE j + 1)
  BY DEF Counted
<1>1. j \in Nat /\ deflakeNeedRuns \in Nat
  BY TriageAssumption DEF Levels
<1>2. ASSUME NEW k \in Levels, NEW d \in DOMAIN signals[k]
      PROVE  /\ d \in Elems /\ signals[k][d] \in Prios
             /\ n[<<d, signals[k][d]>>] \in Nat
             /\ m[<<d, signals[k][d]>>] \in Nat
             /\ m[<<d, signals[k][d]>>] >= n[<<d, signals[k][d]>>]
             /\ n[<<d, signals[k][d]>>] >= 1
             /\ n[<<d, signals[k][d]>>] >= (IF isLate THEN k ELSE k + 1)
  <2>1. signals[k] \in Sig
    OBVIOUS
  <2>2. d \in Elems /\ signals[k][d] \in Prios
    BY <2>1, SigElem
  <2>3. n[<<d, signals[k][d]>>] \in Nat
    BY <2>2 DEF Counts
  <2>4. m \in Counts /\ m[<<d, signals[k][d]>>] >= n[<<d, signals[k][d]>>]
    BY <2>2, PlusCounts
  <2>5. m[<<d, signals[k][d]>>] \in Nat
    BY <2>2, <2>4 DEF Counts
  <2> HIDE DEF m
  <2> QED BY <2>2, <2>3, <2>4, <2>5 DEF Counted
<1>3. ASSUME e \in DOMAIN signals[j], next[j][e] = signals[j][e]
      PROVE  /\ m[<<e, next[j][e]>>] >= 1
             /\ m[<<e, next[j][e]>>] >= (IF isLate THEN j ELSE j + 1)
  <2> HIDE DEF m, next
  <2> QED BY <1>1, <1>2, <1>3
<1>4. CASE j = 0
  <2>1. next[j] = Merge(signals[0], this) /\ signals[0] \in Sig
    BY <1>4, NextSignalsElem
  <2>2. CASE e \in DOMAIN this /\ next[j][e] = this[e]
    <3>1. e \in Elems /\ this[e] \in Prios
      BY <2>2, SigElem
    <3>2. Has(this, e, this[e])
      BY <2>2, <3>1 DEF Has, Prios
    <3>3. m[<<e, this[e]>>] = n[<<e, this[e]>>] + 1 /\ n[<<e, this[e]>>] \in Nat
      BY <3>1, <3>2, PlusCounts, Zenon DEF Counts
    <3> HIDE DEF m, next
    <3> QED BY <1>4, <2>2, <3>3
  <2>3. CASE ~(e \in DOMAIN this /\ next[j][e] = this[e])
    BY <1>3, <1>4, <2>1, <2>3, MergeElem
  <2> QED BY <2>2, <2>3
<1>5. CASE j # 0 /\ j < needRuns
  <2> DEFINE both == Intersection(signals[j - 1], this)
  <2>1. j - 1 \in Levels /\ next[j] = Merge(signals[j], both)
    BY <1>5, NextSignalsElem
  <2>2. signals[j] \in Sig /\ signals[j - 1] \in Sig
    BY <2>1
  <2>3. both \in Sig
    BY <2>2, SigClosed
  <2>4. CASE e \in DOMAIN both /\ next[j][e] = both[e]
    <3>1. /\ e \in DOMAIN signals[j - 1] /\ both[e] = signals[j - 1][e]
          /\ Has(this, e, signals[j - 1][e])
      BY <2>2, <2>4, IntersectionElem
    <3>2. m[<<e, signals[j - 1][e]>>] = n[<<e, signals[j - 1][e]>>] + 1
      BY <1>2, <2>1, <3>1, PlusCounts
    <3> HIDE DEF m, next, both
    <3> QED BY <1>1, <1>2, <1>5, <2>1, <2>4, <3>1, <3>2
  <2>5. CASE ~(e \in DOMAIN both /\ next[j][e] = both[e])
    <3> HIDE DEF both
    <3> QED BY <1>3, <2>1, <2>2, <2>3, <2>5, MergeElem
  <2> QED BY <2>4, <2>5
<1>6. CASE j # 0 /\ ~(j < needRuns)
  BY <1>3, <1>6, NextSignalsElem
<1> QED BY <1>4, <1>5, <1>6

\* A run that shows a priority counts for the lower ones too.
LEMMA MonotoneStep ==
  ASSUME NEW n \in Counts, NEW this \in Sig, Monotone(n)
  PROVE  Monotone(Plus(n, this))
<1>1. SUFFICES ASSUME NEW e \in Elems, NEW p \in Prios, NEW q \in Prios, p <= q
               PROVE  Plus(n, this)[<<e, q>>] <= Plus(n, this)[<<e, p>>]
  BY DEF Monotone
<1>2. n[<<e, q>>] \in Nat /\ n[<<e, p>>] \in Nat /\ n[<<e, q>>] <= n[<<e, p>>]
  BY <1>1 DEF Monotone, Counts
<1>3. Has(this, e, q) => Has(this, e, p)
  <2>1. e \in DOMAIN this => this[e] \in Prios
    BY SigElem
  <2> QED BY <1>1, <2>1 DEF Has, Prios
<1> QED BY <1>2, <1>3, PlusCounts

\* deflakeCall misses no run in which an element has its highest priority.
LEMMA ReliableStep ==
  ASSUME NEW n \in Counts, NEW signals \in [Levels -> Sig], NEW this \in Sig,
         needRuns \in 1 .. deflakeNeedRuns,
         Counted(n, signals, FALSE), Monotone(n), Reliable(n, signals)
  PROVE  Reliable(Plus(n, this), NextSignals(signals, this))
<1> DEFINE m == Plus(n, this)
           next == NextSignals(signals, this)
<1>0. SUFFICES ASSUME NEW e \in Elems, NEW p \in Prios, NEW j \in 0 .. needRuns - 1,
                      m[<<e, p>>] > j, p < 3 => m[<<e, p + 1>>] = 0
               PROVE  Has(next[j], e, p)
  BY DEF Reliable
<1>1. j \in Levels /\ j \in Nat /\ j < needRuns
  BY TriageAssumption DEF Levels
<1>2. p \in 0 .. 3
  BY DEF Prios
<1>3. n[<<e, p>>] \in Nat
  BY DEF Counts
<1>4. p < 3 => p + 1 \in Prios /\ n[<<e, p + 1>>] = 0 /\ ~Has(this, e, p + 1)
  <2>1. ASSUME p < 3 PROVE p + 1 \in Prios
    BY <1>2, <2>1 DEF Prios
  <2>2. ASSUME p < 3 PROVE n[<<e, p + 1>>] \in Nat
    BY <2>1, <2>2 DEF Counts
  <2>3. ASSUME p < 3
        PROVE  /\ Has(this, e, p + 1) => m[<<e, p + 1>>] = n[<<e, p + 1>>] + 1
               /\ ~Has(this, e, p + 1) => m[<<e, p + 1>>] = n[<<e, p + 1>>]
    BY <2>1, <2>3, PlusCounts
  <2> HIDE DEF m
  <2> QED BY <1>0, <2>1, <2>2, <2>3
<1>5. signals[j] \in Sig
  BY <1>1
<1>6. CASE ~Has(this, e, p)
  <2>1. n[<<e, p>>] > j
    BY <1>0, <1>6, PlusCounts
  <2>2. Has(signals[j], e, p)
    BY <1>4, <2>1 DEF Reliable
  <2>3. CASE j = 0
    BY <1>1, <1>5, <2>2, <2>3, NextSignalsElem, MergeHas
  <2>4. CASE j # 0
    <3>1. j - 1 \in Levels /\ next[j] = Merge(signals[j], Intersection(signals[j - 1], this))
      BY <1>1, <2>4, NextSignalsElem
    <3>2. Intersection(signals[j - 1], this) \in Sig
      BY <3>1, SigClosed
    <3> HIDE DEF next
    <3> QED BY <1>5, <2>2, <3>1, <3>2, MergeHas
  <2> QED BY <2>3, <2>4
<1>7. CASE Has(this, e, p)
  <2>1. CASE j = 0
    BY <1>1, <1>5, <1>7, <2>1, NextSignalsElem, MergeHas
  <2>2. CASE j # 0
    <3>1. j - 1 \in Levels /\ next[j] = Merge(signals[j], Intersection(signals[j - 1], this))
      BY <1>1, <2>2, NextSignalsElem
    <3>2. signals[j - 1] \in Sig
      BY <3>1
    <3>3. n[<<e, p>>] > j - 1 /\ j - 1 \in 0 .. needRuns - 1
      <4>1. m[<<e, p>>] = n[<<e, p>>] + 1
        BY <1>7, PlusCounts
      <4> HIDE DEF m
      <4> QED BY <1>0, <1>1, <1>3, <2>2, <4>1
    <3>4. Has(signals[j - 1], e, p)
      BY <1>4, <3>3 DEF Reliable
    <3> DEFINE q == signals[j - 1][e]
    <3>5. e \in DOMAIN signals[j - 1] /\ q \in Prios /\ q >= p
      BY <3>2, <3>4, SigElem DEF Has
    <3>6. n[<<e, q>>] >= 1
      BY <3>1, <3>5 DEF Counted
    <3>7. q = p
      <4>1. SUFFICES ASSUME q > p PROVE FALSE
        BY <1>2, <3>5 DEF Prios
      <4>2. p < 3 /\ p + 1 <= q
        BY <1>2, <3>5, <4>1 DEF Prios
      <4>3. n[<<e, q>>] <= n[<<e, p + 1>>]
        BY <1>4, <3>5, <4>2 DEF Monotone
      <4>4. n[<<e, q>>] \in Nat
        BY <3>5 DEF Counts
      <4> HIDE DEF q
      <4> QED BY <1>4, <3>6, <4>2, <4>3, <4>4
    <3>8. Intersection(signals[j - 1], this) \in Sig
      BY <3>2, SigClosed
    <3>9. /\ e \in DOMAIN Intersection(signals[j - 1], this)
          /\ Intersection(signals[j - 1], this)[e] = p
      BY <1>7, <3>2, <3>5, <3>7, IntersectionElem
    <3>10. Has(Intersection(signals[j - 1], this), e, p)
      BY <1>2, <3>9 DEF Has
    <3> HIDE DEF next
    <3> QED BY <1>5, <3>1, <3>8, <3>10, MergeHas
  <2> QED BY <2>1, <2>2
<1> QED BY <1>6, <1>7

-----------------------------------------------------------------------------
(* The invariant of deflake.                                               *)

CallInfo == [newSignal : Sig, signals : [Levels -> Sig]]
RawInfo  == [raw : SUBSET Elems, prio : Prios]
Zero     == [ep \in Elems \X Prios |-> 0]

DeflakeTypes ==
  /\ fromCorpus \in BOOLEAN /\ snapshot \in BOOLEAN
  /\ result \in [Calls -> {None} \cup RawInfo]
  /\ at \in 1 .. NCalls + 1
  /\ at <= NCalls => pc \in {"first", "deflake"}
  /\ maxSignal \in Sig
  /\ seen \in [Calls -> Counts]
  /\ DOMAIN calls \subseteq Calls
  /\ \A c \in DOMAIN calls : calls[c] \in CallInfo
  /\ late \subseteq DOMAIN calls

\* What is known of a call: the counts are those of its runs.
CallInv(c) ==
  /\ Monotone(seen[c])
  /\ c \in DOMAIN calls => Counted(seen[c], calls[c].signals, c \in late)
  /\ c \in DOMAIN calls \ late => Reliable(seen[c], calls[c].signals)
  /\ pc = "start" \/ (pc = "first" /\ c >= at) => seen[c] = Zero

DeflakeInv == DeflakeTypes /\ \A c \in Calls : CallInv(c)

\* needRuns (job.go) is a level that the signals have.
LEMMA NeedRunsType ==
  ASSUME fromCorpus \in BOOLEAN, snapshot \in BOOLEAN
  PROVE  deflakeNeedRuns \in Nat /\ needRuns \in 1 .. deflakeNeedRuns
BY TriageAssumption DEF needRuns

\* When deflake stops, no signal of a call that is not stable yet could still become
\* stable, and none was in every run.
LEMMA StoppedFlaky ==
  ASSUME stopDeflake, ~haveSignal, run \in Nat, fromCorpus \in BOOLEAN, snapshot \in BOOLEAN,
         NEW c \in DOMAIN calls, calls[c] \in CallInfo, seen[c] \in Counts,
         Monotone(seen[c]), Reliable(seen[c], calls[c].signals),
         NEW e \in DOMAIN calls[c].newSignal, NEW p \in Prios,
         seen[c][<<e, calls[c].newSignal[e]>>] >= 1,
         p < 3 => seen[c][<<e, p + 1>>] = 0,
         ~Has(calls[c].signals[needRuns - 1], e, p)
  PROVE  seen[c][<<e, p>>] + RunsLeft < needRuns /\ seen[c][<<e, p>>] < run
<1>1. PICK n, q : n = seen[c][<<e, p>>] /\ q = calls[c].newSignal[e]
  BY Zenon
<1>2. e \in Elems /\ q \in Prios
  BY <1>1, SigElem, Zenon DEF CallInfo
<1>3. n \in Nat /\ seen[c][<<e, q>>] \in Nat
  BY <1>1, <1>2, Zenon DEF Counts
<1>4. needRuns \in Nat /\ needRuns >= 1
  BY NeedRunsType
<1>5. ASSUME NEW j \in 0 .. needRuns - 1, ~Has(calls[c].signals[j], e, p) PROVE n <= j
  BY <1>1, <1>2, <1>3, <1>4, <1>5 DEF Reliable
<1>6. n < needRuns
  <2>1. needRuns - 1 \in 0 .. needRuns - 1
    BY <1>4
  <2>2. n <= needRuns - 1
    BY <1>5, <2>1
  <2> QED BY <1>3, <1>4, <2>2
<1>7. CASE snapshot
  BY <1>1, <1>3, <1>4, <1>6, <1>7 DEF stopDeflake, RunsLeft
<1>8. CASE ~snapshot /\ fromCorpus
  <2>1. run >= deflakeTotalCorpusRuns \/ run >= deflakeMaxCorpusRuns
    BY <1>8, Zenon DEF stopDeflake
  <2>2. needRuns <= run
    BY <1>8, <2>1, TriageAssumption DEF needRuns
  <2> QED BY <1>1, <1>3, <1>4, <1>6, <1>8, <2>2 DEF RunsLeft
<1>9. CASE ~snapshot /\ ~fromCorpus
  <2>0. /\ needRuns = deflakeNeedRuns /\ deflakeMaxRuns \in Nat
        /\ needRuns <= deflakeMaxRuns /\ RunsLeft = deflakeMaxRuns - run
    BY <1>9, TriageAssumption, Zenon DEF needRuns, RunsLeft
  <2>1. CASE run >= deflakeMaxRuns
    BY <1>1, <1>3, <1>4, <1>6, <2>0, <2>1
  <2>2. CASE ~(run >= deflakeMaxRuns)
    <3>1. noChance
      BY <1>9, <2>2, Zenon DEF stopDeflake
    <3>2. PICK left : left = deflakeMaxRuns - run
      OBVIOUS
    <3>3. left \in Nat /\ left > 0 /\ left < needRuns
          /\ ~IntersectsWith(calls[c].newSignal, calls[c].signals[needRuns - left - 1])
      BY <2>0, <2>2, <3>1, <3>2 DEF noChance
    <3>4. PICK j : j = needRuns - left - 1
      OBVIOUS
    <3>5. j \in 0 .. needRuns - 1
      BY <1>4, <3>3, <3>4
    <3>6. ~Has(calls[c].signals[j], e, q)
      BY <1>1, <3>3, <3>4, Zenon DEF IntersectsWith
    <3>7. q <= p
      <4>1. SUFFICES ASSUME q > p PROVE FALSE
        BY <1>2 DEF Prios
      <4>2. p < 3 /\ p + 1 \in Prios /\ p + 1 <= q
        BY <1>2, <4>1 DEF Prios
      <4>3. seen[c][<<e, q>>] <= seen[c][<<e, p + 1>>] /\ seen[c][<<e, p + 1>>] = 0
        BY <1>2, <4>2, Zenon DEF Monotone
      <4> QED BY <1>1, <1>3, <4>3
    <3>8. ~Has(calls[c].signals[j], e, p)
      <4>1. PICK t : t = calls[c].signals[j]
        OBVIOUS
      <4>2. t \in Sig
        <5>1. j \in Levels
          BY <2>0, <3>5 DEF Levels
        <5> QED BY <4>1, <5>1, Zenon DEF CallInfo
      <4>3. e \in DOMAIN t => t[e] \in Prios
        BY <4>2, SigElem
      <4> QED BY <1>2, <3>6, <3>7, <4>1, <4>3 DEF Has, Prios
    <3>9. n <= j
      BY <1>5, <3>5, <3>8
    <3> QED BY <1>1, <1>3, <1>4, <2>0, <3>2, <3>3, <3>4, <3>9
  <2> QED BY <2>1, <2>2, Zenon
<1> QED BY <1>7, <1>8, <1>9

\* The counts before any run.
LEMMA ZeroCounts == Zero \in Counts /\ Monotone(Zero)
BY DEF Zero, Counts, Monotone

\* The results of a run are raw signal of the elements.
LEMMA ResultTypes ==
  ASSUME NEW res \in RunResults
  PROVE  res \in [Calls -> {None} \cup RawInfo]
<1>1. ASSUME NEW c \in Calls PROVE Shown(c, Actions(config)) \subseteq RawInfo
  <2>1. Results[c] \in SUBSET RawInfo
    BY TriageAssumption DEF RawInfo
  <2> QED BY <2>1 DEF Shown, RawInfo
<1>2. ASSUME NEW c \in Calls PROVE res[c] \in {None} \cup RawInfo
  BY <1>1 DEF RunResults
<1> QED BY <1>2 DEF RunResults

\* The results of a run show what is visible with the job's actions.
LEMMA ResultsShow ==
  ASSUME NEW res \in RunResults, NEW c \in Calls, res[c] # None
  PROVE  res[c].raw \subseteq Visible(Actions(config))
<1>1. res[c] \in Shown(c, Actions(config))
  BY DEF RunResults
<1> QED BY <1>1 DEF Shown

\* A call that enters the job with the first run, or with a later one.
LEMMA NewCallCounted ==
  ASSUME NEW n \in Counts, NEW new \in Sig, NEW this \in Sig,
         fromCorpus \in BOOLEAN, snapshot \in BOOLEAN
  PROVE  /\ NewCall(new, this) \in CallInfo
         /\ NewCall(new, this).signals \in [Levels -> Sig]
         /\ Counted(Plus(n, this), NewCall(new, this).signals, FALSE)
         /\ n = Zero => Reliable(Plus(n, this), NewCall(new, this).signals)
         /\ Counted(Plus(n, this), NextSignals(NewCall(new, this).signals, this), TRUE)
<1> DEFINE first == NewCall(new, this).signals
           m     == Plus(n, this)
<1>1. /\ first = [j \in Levels |-> IF j = 0 THEN this ELSE NoSignal]
      /\ NewCall(new, this) = [newSignal |-> new, signals |-> first]
  BY DEF NewCall
<1>2. first \in [Levels -> Sig]
  BY <1>1, SigClosed
<1>3. NewCall(new, this) \in CallInfo
  BY <1>1, <1>2 DEF CallInfo
<1>4. ASSUME NEW e \in DOMAIN this
      PROVE  /\ e \in Elems /\ this[e] \in Prios
             /\ m[<<e, this[e]>>] \in Nat /\ m[<<e, this[e]>>] >= 1
  <2>1. e \in Elems /\ this[e] \in Prios
    BY SigElem
  <2>2. Has(this, e, this[e])
    BY <2>1 DEF Has, Prios
  <2>3. m[<<e, this[e]>>] = n[<<e, this[e]>>] + 1 /\ n[<<e, this[e]>>] \in Nat
    BY <2>1, <2>2, PlusCounts, Zenon DEF Counts
  <2> HIDE DEF m
  <2> QED BY <2>1, <2>3
<1>5. Counted(m, first, FALSE)
  <2> HIDE DEF m, first
  <2> QED BY <1>1, <1>4 DEF Counted, NoSignal
<1>6. ASSUME n = Zero PROVE Reliable(m, first)
  <2>1. SUFFICES ASSUME NEW e \in Elems, NEW p \in Prios, NEW j \in 0 .. needRuns - 1,
                        m[<<e, p>>] > j
                 PROVE  Has(first[j], e, p)
    BY DEF Reliable
  <2>2. n[<<e, p>>] = 0
    BY <1>6, Zenon DEF Zero
  <2>3. Has(this, e, p) /\ j = 0
    <3>1. needRuns \in Nat
      BY NeedRunsType
    <3> QED BY <2>1, <2>2, <3>1, PlusCounts
  <2>4. 0 \in Levels
    BY NeedRunsType DEF Levels
  <2> HIDE DEF first
  <2> QED BY <1>1, <2>3, <2>4
<1>7. Counted(m, NextSignals(first, this), TRUE)
  <2>0. SUFFICES ASSUME NEW j \in Levels, NEW e \in DOMAIN NextSignals(first, this)[j]
                 PROVE  /\ e \in DOMAIN this /\ NextSignals(first, this)[j][e] = this[e]
                        /\ j \in {0, 1}
    <3> HIDE DEF m, first
    <3> QED BY <1>4 DEF Counted
  <2>1. j \in Nat
    BY NeedRunsType DEF Levels
  <2>2. CASE j = 0
    <3>1. NextSignals(first, this)[j] = Merge(this, this)
      BY <1>1, <1>2, <2>2, NextSignalsElem
    <3> QED BY <2>0, <2>2, <3>1, MergeElem
  <2>3. CASE j # 0
    <3>1. first[j] = NoSignal
      BY <1>1, <2>3
    <3>2. CASE j < needRuns
      <4> DEFINE both == Intersection(first[j - 1], this)
      <4>1. j - 1 \in Levels /\ NextSignals(first, this)[j] = Merge(NoSignal, both)
        BY <1>2, <2>3, <3>1, <3>2, NextSignalsElem, Zenon
      <4>2. first[j - 1] \in Sig /\ both \in Sig /\ NoSignal \in Sig
        BY <1>2, <4>1, SigClosed
      <4>3. e \in DOMAIN both /\ Merge(NoSignal, both)[e] = both[e]
        <5> HIDE DEF both
        <5> QED BY <2>0, <4>1, <4>2, MergeElem DEF NoSignal
      <4>4. e \in DOMAIN first[j - 1] /\ both[e] = first[j - 1][e]
        BY <4>2, <4>3, IntersectionElem
      <4>5. first[j - 1] = this /\ j = 1
        <5> HIDE DEF first
        <5> QED BY <1>1, <2>1, <4>1, <4>4 DEF NoSignal
      <4> HIDE DEF first, both
      <4> QED BY <4>1, <4>3, <4>4, <4>5
    <3>3. CASE ~(j < needRuns)
      <4>1. NextSignals(first, this)[j] = NoSignal
        BY <1>2, <2>3, <3>1, <3>3, NextSignalsElem
      <4> QED BY <2>0, <4>1 DEF NoSignal
    <3> QED BY <3>2, <3>3
  <2> QED BY <2>2, <2>3, Zenon
<1> QED BY <1>2, <1>3, <1>5, <1>6, <1>7, Zenon

-----------------------------------------------------------------------------
(* The steps.                                                              *)

\* No job has counted anything yet.
LEMMA InitInv == ASSUME Init PROVE DeflakeInv
<1>1. DeflakeTypes
  <2>1. at \in 1 .. NCalls + 1 /\ ~(at <= NCalls)
    BY TriageAssumption DEF Init
  <2>2. seen \in [Calls -> Counts]
    BY ZeroCounts DEF Init, NotSeen, Zero
  <2>3. result \in [Calls -> {None} \cup RawInfo]
    BY DEF Init, NoResult
  <2>4. DOMAIN calls = {}
    BY DEF Init, NoCalls
  <2>5. maxSignal \in Sig
    BY SigClosed DEF Init, NoSignal, Sig
  <2> QED BY <2>1, <2>2, <2>3, <2>4, <2>5 DEF Init, DeflakeTypes
<1>2. ASSUME NEW c \in Calls PROVE CallInv(c)
  <2>1. seen[c] = Zero
    BY DEF Init, NotSeen, Zero
  <2>2. DOMAIN calls = {}
    BY DEF Init, NoCalls
  <2> QED BY <2>1, <2>2, ZeroCounts DEF CallInv
<1> QED BY <1>1, <1>2 DEF DeflakeInv

\* The result of one call: it is not in the job and stays out, it enters with
\* the first run or with a later one, or it is there already.
LEMMA LookAtInv ==
  ASSUME DeflakeInv, at \in Calls, result[at] # None, LookAt(at), at' = at + 1,
         UNCHANGED <<jobVars, pc, result>>
  PROVE  DeflakeInv'
<1>a. PICK c : c = at
  OBVIOUS
<1>b. PICK raw, prio : raw = result[c].raw /\ prio = result[c].prio
  OBVIOUS
<1>1. raw \in SUBSET Elems /\ prio \in Prios /\ maxSignal \in Sig
  BY <1>a, <1>b DEF DeflakeInv, DeflakeTypes, RawInfo
<1>c. PICK this, new : this = FromRaw(raw, prio) /\ new = DiffRaw(maxSignal, raw, prio)
  OBVIOUS
<1>2. this \in Sig /\ new \in Sig
  BY <1>1, <1>c, RawSig
<1>3. /\ seen[c] \in Counts /\ Monotone(seen[c]) /\ CallInv(c)
      /\ fromCorpus \in BOOLEAN /\ snapshot \in BOOLEAN
      /\ needRuns \in 1 .. deflakeNeedRuns
  BY <1>a, NeedRunsType DEF DeflakeInv, DeflakeTypes, CallInv
<1>4. needRuns' = needRuns
  BY Zenon DEF jobVars, needRuns
<1>5. /\ seen' = [seen EXCEPT ![c] = Plus(seen[c], this)]
      /\ maxSignal' = Merge(maxSignal, new)
  BY <1>a, <1>b, <1>c DEF LookAt, Count, Plus
<1>6. PICK i : \/ /\ calls' = calls /\ late' = late /\ c \notin DOMAIN calls
               \/ /\ calls' = With(c, i)
                  /\ i \in CallInfo
                  /\ late' = late \/ late' = late \cup {c}
                  /\ Counted(Plus(seen[c], this), i.signals, c \in late')
                  /\ c \notin late' => Reliable(Plus(seen[c], this), i.signals)
  <2>1. CASE /\ c \in DOMAIN calls
             /\ calls' = With(c, Deflaked(calls[c], new, this))
             /\ UNCHANGED late
    <3>1. calls[c] \in CallInfo /\ calls[c].signals \in [Levels -> Sig]
          /\ calls[c].newSignal \in Sig
      BY <2>1, Zenon DEF DeflakeInv, DeflakeTypes, CallInfo
    <3>2. NextSignals(calls[c].signals, this) \in [Levels -> Sig]
      <4>1. \A j \in Levels : NextSignals(calls[c].signals, this)[j] \in Sig
        BY <1>2, <3>1, NextSignalsElem, Zenon
      <4> QED BY <4>1 DEF NextSignals
    <3>3. Deflaked(calls[c], new, this) \in CallInfo
      BY <1>2, <3>1, <3>2, SigClosed DEF Deflaked, CallInfo
    <3>4. Deflaked(calls[c], new, this).signals = NextSignals(calls[c].signals, this)
      BY DEF Deflaked
    <3>5. Counted(seen[c], calls[c].signals, c \in late)
      BY <1>3, <2>1 DEF CallInv
    <3>6. (c \in late) \in BOOLEAN
      OBVIOUS
    <3>7. Counted(Plus(seen[c], this), NextSignals(calls[c].signals, this), c \in late)
      <4> QED BY <1>2, <1>3, <3>1, <3>5, <3>6, CountedStep, Zenon
    <3>8. ASSUME c \notin late
          PROVE  Reliable(Plus(seen[c], this), NextSignals(calls[c].signals, this))
      <4>1. Reliable(seen[c], calls[c].signals)
        BY <1>3, <2>1, <3>8, Zenon DEF CallInv
      <4>2. Counted(seen[c], calls[c].signals, FALSE)
        BY <3>5, <3>8, Zenon DEF Counted
      <4> QED BY <1>2, <1>3, <3>1, <4>1, <4>2, ReliableStep, Zenon
    <3> QED BY <2>1, <3>3, <3>4, <3>7, <3>8, Zenon
  <2>2. CASE /\ c \notin DOMAIN calls
             /\ calls' = With(c, NewCall(new, this))
             /\ late' = late
             /\ pc = "first"
    <3>1. c \notin late
      BY <2>2 DEF DeflakeInv, DeflakeTypes
    <3>2. c >= at
      BY <1>a DEF Calls
    <3>3. seen[c] = Zero
      BY <1>3, <2>2, <3>2 DEF CallInv
    <3>4. /\ NewCall(new, this) \in CallInfo
          /\ Counted(Plus(seen[c], this), NewCall(new, this).signals, FALSE)
          /\ Reliable(Plus(seen[c], this), NewCall(new, this).signals)
      <4> QED BY <1>2, <1>3, <3>3, NewCallCounted, Zenon
    <3>5. Counted(Plus(seen[c], this), NewCall(new, this).signals, c \in late')
      BY <2>2, <3>1, <3>4, Zenon DEF Counted
    <3> QED BY <2>2, <3>4, <3>5
  <2>3. CASE /\ c \notin DOMAIN calls
             /\ calls' = With(c, Deflaked(NewCall(new, this), NoSignal, this))
             /\ late' = late \cup {c}
    <3> DEFINE i == Deflaked(NewCall(new, this), NoSignal, this)
    <3>1. /\ NewCall(new, this) \in CallInfo
          /\ NewCall(new, this).signals \in [Levels -> Sig]
          /\ NewCall(new, this).newSignal \in Sig
          /\ Counted(Plus(seen[c], this), NextSignals(NewCall(new, this).signals, this), TRUE)
      <4>1. NewCall(new, this).newSignal = new
        BY Zenon DEF NewCall
      <4> QED BY <1>2, <1>3, <4>1, NewCallCounted, Zenon
    <3>2. NextSignals(NewCall(new, this).signals, this) \in [Levels -> Sig]
      <4>1. \A j \in Levels : NextSignals(NewCall(new, this).signals, this)[j] \in Sig
        BY <1>2, <3>1, NextSignalsElem
      <4> QED BY <4>1, Zenon DEF NextSignals
    <3>3. i \in CallInfo /\ i.signals = NextSignals(NewCall(new, this).signals, this)
      BY <1>2, <3>1, <3>2, SigClosed DEF Deflaked, CallInfo
    <3>4. Counted(Plus(seen[c], this), i.signals, c \in late')
      BY <2>3, <3>1, <3>3, Zenon DEF Counted
    <3> QED BY <2>3, <3>3, <3>4, Zenon
  <2>4. CASE c \notin DOMAIN calls /\ UNCHANGED <<calls, late>>
    BY <2>4, Zenon
  <2>5. \/ /\ c \in DOMAIN calls
           /\ calls' = With(c, Deflaked(calls[c], new, this))
           /\ UNCHANGED late
        \/ /\ c \notin DOMAIN calls
           /\ calls' = With(c, IF pc = "first" THEN NewCall(new, this)
                               ELSE Deflaked(NewCall(new, this), NoSignal, this))
           /\ late' = IF pc = "first" THEN late ELSE late \cup {c}
        \/ c \notin DOMAIN calls /\ UNCHANGED <<calls, late>>
    BY <1>a, <1>b, <1>c, Zenon DEF LookAt
  <2> QED BY <2>1, <2>2, <2>3, <2>4, <2>5, Zenon
<1>7. c \in Calls /\ at' = c + 1 /\ at' \in 1 .. NCalls + 1 /\ NCalls \in Nat
  BY <1>a, TriageAssumption DEF Calls
<1>8. Plus(seen[c], this) \in Counts /\ Monotone(Plus(seen[c], this))
  <2> QED BY <1>2, <1>3, PlusCounts, MonotoneStep
<1>9. DeflakeTypes'
  <2>1. seen' \in [Calls -> Counts]
    BY <1>5, <1>8, Zenon DEF DeflakeInv, DeflakeTypes
  <2>2. maxSignal' \in Sig
    BY <1>1, <1>2, <1>5, SigClosed
  <2>3. /\ DOMAIN calls' \subseteq Calls
        /\ \A d \in DOMAIN calls' : calls'[d] \in CallInfo
        /\ late' \subseteq DOMAIN calls'
    BY <1>6, <1>7 DEF DeflakeInv, DeflakeTypes, With
  <2>4. /\ (fromCorpus \in BOOLEAN /\ snapshot \in BOOLEAN)'
        /\ (result \in [Calls -> {None} \cup RawInfo])'
        /\ pc' \in {"first", "deflake"}
    BY DEF DeflakeInv, DeflakeTypes, jobVars, Calls
  <2> QED BY <1>7, <2>1, <2>2, <2>3, <2>4 DEF DeflakeTypes
<1>10. ASSUME NEW d \in Calls PROVE CallInv(d)'
  <2>0. CallInv(d)
    BY Zenon DEF DeflakeInv
  <2>1. CASE d = c
    <3>1. seen'[d] = Plus(seen[c], this)
      BY <1>5, <1>7, <2>1, Zenon DEF DeflakeInv, DeflakeTypes
    <3>2. /\ d \in DOMAIN calls' => Counted(seen'[d], calls'[d].signals, d \in late')
          /\ d \in DOMAIN calls' \ late' => Reliable(seen'[d], calls'[d].signals)
      <4> QED BY <1>6, <2>1, <3>1 DEF With
    <3>3. Monotone(seen'[d])
      BY <1>8, <3>1, Zenon
    <3>4. pc' # "start" /\ ~(d >= at')
      BY <1>7, <2>1 DEF DeflakeInv, DeflakeTypes, Calls
    <3> QED BY <1>4, <3>2, <3>3, <3>4, Zenon DEF CallInv, Reliable
  <2>2. CASE d # c
    <3>1. seen'[d] = seen[d]
      BY <1>5, <2>2 DEF DeflakeInv, DeflakeTypes
    <3>2. d \in DOMAIN calls' => d \in DOMAIN calls /\ calls'[d] = calls[d]
      <4> QED BY <1>6, <2>2 DEF With
    <3>3. d \in late' <=> d \in late
      BY <1>6, <2>2
    <3>4. d >= at' => d >= at
      BY DEF Calls
    <3> QED BY <1>4, <2>0, <3>1, <3>2, <3>3, <3>4, SMTT(30) DEF CallInv, Reliable
  <2> QED BY <2>1, <2>2
<1> QED BY <1>9, <1>10 DEF DeflakeInv

\* handleCall leaves what deflake has alone.
LEMMA HandleFrame ==
  ASSUME Handle
  PROVE  UNCHANGED <<jobVars, deflakeVars>> /\ pc \notin {"start", "first"}
         /\ pc' \notin {"start", "first"}
<1>1. CASE ProbeRun
  BY <1>1, Zenon DEF ProbeRun
<1>2. CASE Check
  BY <1>2, Zenon DEF Check
<1>3. CASE Independent \/ Dependent \/ MinimizeProg
  BY <1>3 DEF Independent, Dependent, MinimizeProg, HandleStep
<1>4. CASE ReduceStep \/ Removed \/ NotRemoved
  BY <1>4 DEF ReduceStep, Removed, NotRemoved, HandleStep
<1>5. CASE StrictDone \/ CompactDone
  BY <1>5, Zenon DEF StrictDone, CompactDone, HandleStep
<1>6. CASE Compacted \/ NotCompacted \/ SaveInput
  BY <1>6 DEF Compacted, NotCompacted, SaveInput, HandleStep
<1> QED BY <1>1, <1>2, <1>3, <1>4, <1>5, <1>6 DEF Handle

\* The steps that count nothing.
LEMMA SameCounts ==
  ASSUME DeflakeInv, DeflakeTypes', UNCHANGED <<jobVars, calls, seen, late>>,
         \A c \in Calls : pc' = "start" \/ (pc' = "first" /\ c >= at') =>
                            pc = "start" \/ (pc = "first" /\ c >= at)
  PROVE  DeflakeInv'
<1>1. needRuns' = needRuns
  BY Zenon DEF needRuns, jobVars
<1>2. ASSUME NEW c \in Calls PROVE CallInv(c)'
  <2>1. CallInv(c)
    BY DEF DeflakeInv
  <2> QED BY <1>1, <2>1 DEF CallInv, Reliable
<1> QED BY <1>2 DEF DeflakeInv

\* Every step of the triage keeps the invariant.
LEMMA NextInv == ASSUME DeflakeInv, [Next]_vars PROVE DeflakeInv'
<1> USE DEF DeflakeInv
<1>0. NCalls \in Nat
  BY TriageAssumption
<1>1. CASE FirstRun
  <2>1. result' \in [Calls -> {None} \cup RawInfo]
    BY <1>1, ResultTypes DEF FirstRun
  <2>2. at' = 1 /\ at' \in 1 .. NCalls + 1 /\ pc' = "first" /\ pc = "start"
    BY <1>0, <1>1 DEF FirstRun
  <2>3. UNCHANGED <<jobVars, calls, maxSignal, seen, late>>
    BY <1>1 DEF FirstRun
  <2>4. DeflakeTypes'
    BY <2>1, <2>2, <2>3 DEF DeflakeTypes, jobVars
  <2> QED BY <2>2, <2>3, <2>4, SameCounts
<1>2. CASE StartJob
  <2>1. result' \in [Calls -> {None} \cup RawInfo]
    BY <1>2 DEF StartJob, NoResult
  <2>2. at' = at /\ at > NCalls /\ pc' \in {"done", "deflake"}
    BY <1>2 DEF StartJob, ResultsDone
  <2>3. UNCHANGED <<jobVars, calls, maxSignal, seen, late>>
    BY <1>2 DEF StartJob
  <2>4. DeflakeTypes'
    BY <1>0, <2>1, <2>2, <2>3 DEF DeflakeTypes, jobVars
  <2> QED BY <2>2, <2>3, <2>4, SameCounts
<1>3. CASE Execute
  <2>1. result' \in [Calls -> {None} \cup RawInfo]
    BY <1>3, ResultTypes DEF Execute, DeflakeTypes
  <2>2. /\ at' \in 1 .. NCalls + 1
        /\ at' <= NCalls => pc' \in {"first", "deflake"}
        /\ pc' \in {"done", "deflake"}
    BY <1>0, <1>3 DEF Execute, ResultsDone, DeflakeTypes
  <2>3. UNCHANGED <<jobVars, calls, maxSignal, seen, late>>
    BY <1>3 DEF Execute
  <2>4. DeflakeTypes'
    BY <2>1, <2>2, <2>3 DEF DeflakeTypes, jobVars
  <2> QED BY <2>2, <2>3, <2>4, SameCounts
<1>4. CASE NextResult
  <2>1. /\ at \in Calls /\ at' = at + 1 /\ UNCHANGED <<jobVars, pc, result>>
        /\ pc \in {"first", "deflake"}
    BY <1>0, <1>4 DEF NextResult, DeflakeTypes, Calls
  <2>2. CASE result[at] # None
    BY <1>4, <2>1, <2>2, LookAtInv DEF NextResult
  <2>3. CASE result[at] = None
    <3>1. UNCHANGED <<calls, maxSignal, seen, late>>
      BY <1>4, <2>3 DEF NextResult
    <3>2. DeflakeTypes'
      BY <1>0, <2>1, <3>1 DEF DeflakeTypes, jobVars, Calls
    <3>3. \A c \in Calls : c >= at' => c >= at
      BY <2>1 DEF Calls
    <3> QED BY <2>1, <3>1, <3>2, <3>3, SameCounts, Zenon
  <2> QED BY <2>2, <2>3, Zenon
<1>5. CASE \E c \in DOMAIN calls : HandleCall(c)
  <2>1. /\ seen' = NotSeen /\ calls' = NoCalls /\ late' = {} /\ result' = NoResult
        /\ maxSignal' = NoSignal /\ UNCHANGED <<jobVars, at>> /\ at > NCalls
        /\ pc' \in {"done", "check"}
    BY <1>5 DEF HandleCall, ResultsDone
  <2>2. seen' \in [Calls -> Counts] /\ \A c \in Calls : seen'[c] = Zero
    BY <2>1, ZeroCounts DEF NotSeen, Zero
  <2>3. DOMAIN calls' = {}
    BY <2>1 DEF NoCalls
  <2>4. NoSignal \in Sig
    BY Zenon DEF NoSignal, Sig
  <2>5. result' \in [Calls -> {None} \cup RawInfo]
    BY <2>1 DEF NoResult
  <2>6. DeflakeTypes'
    BY <1>0, <2>1, <2>2, <2>3, <2>4, <2>5 DEF DeflakeTypes, jobVars
  <2>7. ASSUME NEW c \in Calls PROVE CallInv(c)'
    BY <2>1, <2>2, <2>3, ZeroCounts, Zenon DEF CallInv
  <2> QED BY <2>6, <2>7, Zenon
<1>6. CASE OtherProgram
  <2>1. PICK c \in Calls : \E r \in Results[c] :
          maxSignal' = Merge(maxSignal, FromRaw(r.raw, r.prio))
    BY <1>6, Zenon DEF OtherProgram
  <2>2. PICK r \in Results[c] : maxSignal' = Merge(maxSignal, FromRaw(r.raw, r.prio))
    BY <2>1
  <2>3. r.raw \in SUBSET Elems /\ r.prio \in Prios
    BY TriageAssumption
  <2>4. maxSignal \in Sig
    BY Zenon DEF DeflakeTypes
  <2>5. maxSignal' \in Sig
    BY <2>2, <2>3, <2>4, RawSig, SigClosed, Zenon
  <2>6. UNCHANGED <<jobVars, pc, result, at, calls, seen, late>>
    BY <1>6, Zenon DEF OtherProgram
  <2>7. DeflakeTypes'
    BY <2>5, <2>6, Zenon DEF DeflakeTypes, jobVars
  <2> QED BY <2>6, <2>7, SameCounts, Zenon
<1>7. CASE Handle
  <2>1. UNCHANGED <<jobVars, deflakeVars>> /\ pc \notin {"start", "first"}
        /\ pc' \notin {"start", "first"}
    BY <1>7, HandleFrame
  <2>2. at > NCalls
    <3>1. pc # "deflake"
      BY <1>7, Zenon
        DEF Handle, ProbeRun, Check, Independent, Dependent, MinimizeProg, ReduceStep,
                  Removed, NotRemoved, StrictDone, CompactDone, Compacted, NotCompacted,
                  SaveInput, HandleStep
    <3> QED BY <1>0, <2>1, <3>1 DEF DeflakeTypes
  <2>3. DeflakeTypes'
    BY <1>0, <2>1, <2>2 DEF DeflakeTypes, jobVars, deflakeVars
  <2>4. UNCHANGED <<calls, seen, late>>
    BY <2>1 DEF deflakeVars
  <2> QED BY <2>1, <2>3, <2>4, SameCounts
<1>8. CASE UNCHANGED vars
  <2>1. UNCHANGED <<jobVars, pc, result, at, maxSignal, calls, seen, late>>
    BY <1>8 DEF vars, deflakeVars
  <2>2. DeflakeTypes'
    BY <2>1 DEF DeflakeTypes, jobVars
  <2> QED BY <2>1, <2>2, SameCounts
<1> QED BY <1>1, <1>2, <1>3, <1>4, <1>5, <1>6, <1>7, <1>8 DEF Next, Deflake

\* deflake (job.go) counts right: what is in level j of a call's signals was
\* shown by j+1 runs, or by j if the call entered during deflake.
THEOREM SignalsAreCounted == Spec => []SignalsCounted
<1>1. DeflakeInv => SignalsCounted
  BY Zenon DEF DeflakeInv, DeflakeTypes, CallInv, Counted, SignalsCounted
<1> QED BY <1>1, InitInv, NextInv, PTL DEF Spec

\* deflake misses nothing: an element that j+1 runs have shown with its highest
\* priority is in level j.
THEOREM StableNotMissed == Spec => []ReliableIsStable
<1>1. DeflakeInv => ReliableIsStable
  BY Zenon DEF DeflakeInv, DeflakeTypes, CallInv, Reliable, ReliableIsStable
<1> QED BY <1>1, InitInv, NextInv, PTL DEF Spec

-----------------------------------------------------------------------------
(* The invariant of handleCall.                                            *)

Asking  == {"probe", "yes", "no"}
Working == Asking \cup {"check", "minimize", "reduce", "save"}

\* The contexts made of actions of the job's.
Parts == Seq(Actions(config))

\* A run shows an element only with the actions that the element needs.
Shows ==
  /\ config \in Configs
  /\ \A c \in Calls : result[c] # None => result[c].raw \subseteq Visible(Actions(config))
  /\ \A c \in Calls : \A e \in Elems, p \in Prios :
       seen[c][<<e, p>>] > 0 => e \in Visible(Actions(config))

\* New signal was seen.
NewSeen ==
  /\ run \in Nat
  /\ \A c \in DOMAIN calls : \A e \in DOMAIN calls[c].newSignal :
       seen[c][<<e, calls[c].newSignal[e]>>] >= 1

\* The signal that handleCall works for.
Wanted ==
  /\ info.stable \in Sig /\ info.newStable \in Sig
  /\ signalContainsAll(info.newStable, info.stable)
  /\ DOMAIN info.newStable \subseteq firm
  /\ pc \in Working => /\ call \in Calls
                       /\ info.newStable # NoSignal
                       /\ Explains(Actions(config), info.newStable)
  /\ saved # None => /\ pc = "done" /\ saved = info.stable
                     /\ info.newStable # NoSignal
  /\ pc \in {"start", "first", "deflake", "check", "minimize"} => red = NoRed

\* The reduction of the actions: what is left explains the signal it is for.
Sound ==
  /\ red = [stage |-> red.stage, target |-> red.target, left |-> red.left,
            perAction |-> red.perAction, chunk |-> red.chunk, index |-> red.index]
  /\ red.left \in Parts /\ red.index \in Nat /\ red.chunk \in Nat
  /\ red.target \in Sig /\ red.target # NoSignal
  /\ DOMAIN red.target \subseteq DOMAIN info.newStable
  /\ Explains(Range(red.left), red.target)
  /\ ctx \in Parts /\ config # None
  /\ \/ red.stage = "strict" /\ red.target = info.newStable
     \/ red.stage = "compact" /\ TooMany(ctx)

\* The question that the runs of a probe answer.
Asked ==
  /\ probe = [next |-> probe.next, want |-> probe.want, with |-> probe.with,
              got |-> probe.got, runs |-> probe.runs]
  /\ probe.with \in Parts /\ probe.got \in Sig
  /\ Explains(Range(probe.with), probe.got)
  /\ pc = "yes" => signalContainsAll(probe.want, probe.got)
  /\ \/ /\ probe.next = "check" /\ red = NoRed
        /\ probe.want = info.newStable /\ probe.with = <<>>
        /\ ctx = config /\ config # None /\ metadata
     \/ /\ probe.next \in {"reduce", "anchor"} /\ Sound
        /\ probe.want = red.target
        /\ probe.next = "anchor" => red.stage = "compact" /\ probe.with = red.left

\* The context that is kept explains the signal.
Kept ==
  /\ metadata \in BOOLEAN
  /\ pc = "minimize" =>
       /\ ctx = None \/ (ctx = config /\ metadata)
       /\ metadata => Explains(Actions(ctx), info.newStable)
  /\ pc = "save" /\ metadata =>
       \/ Explains(Actions(ctx), info.newStable)
       \/ SaveMaxActions > 0 /\ ctx # None /\ Len(ctx) = SaveMaxActions

HandleInv ==
  /\ Wanted
  /\ pc \in Asking => Asked
  /\ pc = "reduce" \/ red # NoRed => Sound
  /\ Kept

-----------------------------------------------------------------------------
(* The operators.                                                          *)

\* A nonempty set of numbers has a least one (Least, below, from the library).
LeastExists == \A S \in SUBSET Nat : S # {} => \E m \in S : \A n \in S : m <= n

\* kconfuzzAnchorSignal takes one element of the signal.
LEMMA AnchorFacts ==
  ASSUME LeastExists, NEW s \in Sig, s # NoSignal
  PROVE  /\ kconfuzzAnchorSignal(s) \in Sig
         /\ kconfuzzAnchorSignal(s) # NoSignal
         /\ DOMAIN kconfuzzAnchorSignal(s) \subseteq DOMAIN s
<1>1. PICK D \in SUBSET Elems : s \in [D -> Prios]
  BY DEF Sig
<1>2. D # {}
  BY <1>1 DEF NoSignal
<1>3. PICK d : d = CHOOSE e \in DOMAIN s : \A x \in DOMAIN s : e <= x
  OBVIOUS
<1>4. d \in D
  <2>1. D \in SUBSET Nat
    BY TriageAssumption
  <2>2. \E m \in D : \A n \in D : m <= n
    BY <1>2, <2>1 DEF LeastExists
  <2> QED BY <1>1, <1>3, <2>2, Zenon
<1>5. kconfuzzAnchorSignal(s) = FromRaw({d}, 0)
  BY <1>3 DEF kconfuzzAnchorSignal
<1>6. FromRaw({d}, 0) \in [{d} -> Prios]
  BY DEF FromRaw, Prios
<1>7. {d} \in SUBSET Elems
  BY <1>4
<1>8. DOMAIN FromRaw({d}, 0) = {d}
  BY DEF FromRaw
<1>9. FromRaw({d}, 0) # NoSignal
  BY <1>8 DEF NoSignal
<1> QED BY <1>1, <1>4, <1>5, <1>6, <1>7, <1>8, <1>9 DEF Sig

\* More actions explain what fewer do, and they explain less signal.
LEMMA ExplainsMore ==
  ASSUME NEW A, NEW B, NEW s, NEW t,
         Explains(A, s), A \subseteq B, DOMAIN t \subseteq DOMAIN s
  PROVE  Explains(B, t)
BY DEF Explains, Visible

\* What a run shows all of, its actions explain.
LEMMA ShownExplained ==
  ASSUME NEW A, NEW want, NEW got, Explains(A, got), signalContainsAll(want, got)
  PROVE  Explains(A, want)
BY DEF Explains, signalContainsAll, Has

\* The actions of a context.
LEMMA ActionsFacts ==
  /\ Actions(None) = {} /\ Range(<<>>) = {} /\ Actions(<<>>) = {}
  /\ \A c : Actions(c) \subseteq Range(c)
  /\ \A c : c # None => Actions(c) = Range(c)
BY DEF Actions, Range

\* A context is a sequence of actions, and so is none of its parts no context.
LEMMA PartsFacts ==
  ASSUME config \in Configs
  PROVE  /\ <<>> \in Parts
         /\ config # None => config \in Parts /\ None \notin Parts
BY TriageAssumption DEF Parts, Actions

\* limitKConfuzzActionsForSave keeps actions of the context, and as many as allowed.
LEMMA LimitFacts ==
  ASSUME NEW S, NEW s \in Seq(S)
  PROVE  /\ limitKConfuzzActionsForSave(s) \in Seq(S)
         /\ TooMany(s) => Len(limitKConfuzzActionsForSave(s)) = SaveMaxActions
         /\ ~TooMany(s) => limitKConfuzzActionsForSave(s) = s
<1>1. CASE TooMany(s)
  <2>1. PICK M, L : M = SaveMaxActions /\ L = Len(s)
    OBVIOUS
  <2>2. M \in Nat /\ L \in Nat /\ M > 0 /\ L > M
    BY <1>1, <2>1, TriageAssumption DEF TooMany
  <2>3. ASSUME NEW i \in 1 .. M PROVE ((i - 1) * L) \div M + 1 \in 1 .. L
    <3>1. PICK x \in Nat : x = (i - 1) * L
      BY <2>2
    <3>2. PICK q \in Nat : q = x \div M
      BY <2>2, <3>1
    <3>3. M * q <= x
      BY <2>2, <3>2
    <3>4. (i - 1) * L <= (M - 1) * L
      BY <2>2
    <3>5. (M - 1) * L = M * L - L
      BY <2>2
    <3>6. M * q < M * L
      <4>1. M * q \in Nat /\ M * L \in Nat
        BY <2>2, <3>2
      <4> QED BY <2>2, <3>1, <3>3, <3>4, <3>5, <4>1
    <3>7. q < L
      <4>1. ASSUME q >= L PROVE M * q >= M * L
        BY <2>2, <3>2, <4>1
      <4>2. M * q \in Nat /\ M * L \in Nat
        BY <2>2, <3>2
      <4> QED BY <2>2, <3>2, <3>6, <4>1, <4>2
    <3> QED BY <2>2, <3>1, <3>2, <3>7
  <2>4. PICK t : t = [i \in 1 .. M |-> s[((i - 1) * L) \div M + 1]]
    BY Zenon
  <2>5. t = limitKConfuzzActionsForSave(s)
    BY <1>1, <2>1, <2>4 DEF limitKConfuzzActionsForSave
  <2>6. ASSUME NEW k \in 1 .. L PROVE s[k] \in S
    BY <2>1
  <2>7. t \in [1 .. M -> S]
    BY <2>3, <2>4, <2>6
  <2>8. t \in Seq(S) /\ Len(t) = M
    BY <2>2, <2>7
  <2> QED BY <1>1, <2>1, <2>5, <2>8
<1>2. CASE ~TooMany(s)
  BY <1>2 DEF limitKConfuzzActionsForSave
<1> QED BY <1>1, <1>2

\* The parts of a sequence.
LEMMA PartFacts ==
  ASSUME NEW S, NEW s \in Seq(S), NEW i \in Nat
  PROVE  /\ SubSeq(s, 1, 0) = <<>>
         /\ SubSeq(s, 1, Len(s)) = s
         /\ SubSeq(s, i + 1, Len(s)) \in Seq(S)
         /\ i <= Len(s) => /\ SubSeq(s, 1, i) \in Seq(S)
                           /\ Len(SubSeq(s, 1, i)) = i
                           /\ \A j \in 1 .. i : SubSeq(s, 1, i)[j] = s[j]
<1>1. SubSeq(s, 1, 0) = <<>> /\ SubSeq(s, 1, Len(s)) = s
  OBVIOUS
<1>2. CASE i <= Len(s)
  BY <1>1, <1>2
<1>3. CASE i > Len(s)
  BY <1>1, <1>3
<1> QED BY <1>2, <1>3

\* What is left without a chunk.
LEMMA CutFacts ==
  ASSUME NEW S, red.left \in Seq(S), red.index \in Nat, red.chunk \in Nat,
         red.index < Len(red.left)
  PROVE  Cut \in Seq(S)
<1>1. PICK s, i, k : s = red.left /\ i = red.index /\ k = red.chunk
  OBVIOUS
<1>2. s \in Seq(S) /\ i \in Nat /\ k \in Nat /\ i < Len(s) /\ Len(s) \in Nat
  BY <1>1
<1>3. SubSeq(s, 1, i) \in Seq(S) /\ SubSeq(s, i + k + 1, Len(s)) \in Seq(S)
  <2>1. i + k \in Nat /\ i <= Len(s)
    BY <1>2
  <2> QED BY <1>2, <2>1, PartFacts
<1> QED BY <1>1, <1>3 DEF Cut

\* ChunkFrom gives lengths.
LEMMA ChunkFacts ==
  /\ \A half \in Nat : \A per : ChunkFrom(half, per) \in Nat
  /\ \A n \in Nat : n \div 2 \in Nat
BY DEF ChunkFrom

-----------------------------------------------------------------------------
(* handleCall.                                                             *)

\* What the steps of handleCall leave alone.
Still == UNCHANGED <<jobVars, deflakeVars, call, firm>>

\* The job's context and what it is made of stay the same.
LEMMA StillFacts ==
  ASSUME Still
  PROVE  /\ config' = config /\ Parts' = Parts /\ call' = call /\ firm' = firm
         /\ \A c : Actions(c)' = Actions(c)
BY Zenon DEF Still, jobVars, Parts, Actions

\* reproducesSignal and probeKConfuzzSignal: the signal of a run is explained by
\* the actions it has.
LEMMA ProbeRunInv ==
  ASSUME HandleInv, config \in Configs, ProbeRun
  PROVE  HandleInv'
<1>0. Still /\ pc = "probe" /\ UNCHANGED <<info, metadata, ctx, red, saved>>
  BY Zenon DEF ProbeRun, Still
<1>1. config' = config /\ Parts' = Parts /\ call' = call /\ firm' = firm
  BY <1>0, StillFacts
<1>2. Actions(config)' = Actions(config)
  BY <1>1, Zenon DEF Actions
<1>3. Asked /\ call \in Calls
  BY <1>0, Zenon DEF HandleInv, Asking, Working, Wanted
<1>4. /\ probe'.with = probe.with /\ probe'.want = probe.want /\ probe'.next = probe.next
      /\ probe'.got \in Sig /\ Explains(Range(probe.with), probe'.got)
      /\ probe' = [next |-> probe'.next, want |-> probe'.want, with |-> probe'.with,
                   got |-> probe'.got, runs |-> probe'.runs]
      /\ pc' \in Asking
      /\ pc' = "yes" => signalContainsAll(probe'.want, probe'.got)
  <2>1. CASE pc' = "no" /\ UNCHANGED probe
    BY <1>3, <2>1, Zenon DEF Asked, Asking
  <2>2. CASE ~(pc' = "no" /\ UNCHANGED probe)
    <3>1. PICK r \in Shown(call, Actions(probe.with)) \cup {[raw |-> {}, prio |-> 0]} :
            LET got == Merge(probe.got, FromRaw(r.raw, r.prio)) IN
            /\ probe' = [probe EXCEPT !.got = got, !.runs = @ + 1]
            /\ pc' = IF signalContainsAll(probe.want, got) THEN "yes"
                     ELSE IF probe.runs = 1 THEN "no" ELSE "probe"
      BY <2>2, Zenon DEF ProbeRun
    <3>2. PICK got : got = Merge(probe.got, FromRaw(r.raw, r.prio))
      OBVIOUS
    <3>3. r.raw \in SUBSET Elems /\ r.prio \in Prios
          /\ r.raw \subseteq Visible(Actions(probe.with))
      <4>1. Results[call] \in SUBSET [raw : SUBSET Elems, prio : Prios]
        BY <1>3, TriageAssumption, Zenon
      <4> QED BY <4>1 DEF Shown, Prios
    <3>4. FromRaw(r.raw, r.prio) \in Sig /\ probe.got \in Sig
      BY <1>3, <3>3, RawSig, SigClosed, Zenon DEF Asked
    <3>5. got \in Sig
      BY <3>2, <3>4, SigClosed, Zenon
    <3>6. Explains(Range(probe.with), got)
      <4>1. DOMAIN got = DOMAIN probe.got \cup r.raw
        BY <3>2, Zenon DEF Merge, FromRaw
      <4>2. r.raw \subseteq Visible(Range(probe.with))
        BY <3>3, ActionsFacts, Zenon DEF Visible
      <4> QED BY <1>3, <4>1, <4>2 DEF Asked, Explains
    <3>7. probe' = [next |-> probe.next, want |-> probe.want, with |-> probe.with,
                    got |-> got, runs |-> probe.runs + 1]
      <4>1. probe' = [probe EXCEPT !.got = got, !.runs = @ + 1]
        BY <3>1, <3>2, Zenon
      <4>2. PICK n, w, m, g, k : probe = [next |-> n, want |-> w, with |-> m, got |-> g, runs |-> k]
        BY <1>3 DEF Asked
      <4> QED BY <4>1, <4>2, Zenon
    <3>8. pc' = IF signalContainsAll(probe.want, got) THEN "yes"
                ELSE IF probe.runs = 1 THEN "no" ELSE "probe"
      BY <3>1, <3>2, Zenon
    <3> QED BY <3>5, <3>6, <3>7, <3>8 DEF Asking
  <2> QED BY <2>1, <2>2
<1>5. Wanted' /\ Kept'
  BY <1>0, <1>1, <1>2, <1>4, Zenon DEF HandleInv, Wanted, Kept, Asking, Working, Explains, Visible
<1>6. Sound => Sound'
  BY <1>0, <1>1, Zenon DEF Sound, TooMany, Explains
<1>7. Asked'
  BY <1>0, <1>1, <1>3, <1>4, <1>6, Zenon DEF Asked, NoRed, Explains
<1> QED BY <1>0, <1>4, <1>5, <1>6, <1>7 DEF HandleInv, Asking, NoRed

\* A question that has not been run yet.
LEMMA AskFacts ==
  ASSUME NEW next, NEW want, NEW with, NEW A
  PROVE  /\ Ask(next, want, with) = [next |-> next, want |-> want, with |-> with,
                                     got |-> NoSignal, runs |-> 0]
         /\ NoSignal \in Sig /\ Explains(A, NoSignal)
BY NothingToExplain, Zenon DEF Ask

\* The check of the dependency, for a job that has a context.
LEMMA CheckInv ==
  ASSUME HandleInv, config \in Configs, Check
  PROVE  HandleInv'
<1>0. Still /\ pc = "check" /\ UNCHANGED <<info, red, saved>> /\ metadata' \in BOOLEAN
  BY DEF Check, Still
<1>1. /\ config' = config /\ Parts' = Parts /\ call' = call /\ firm' = firm
      /\ Actions(config)' = Actions(config) /\ Actions(ctx)' = Actions(ctx')
  BY <1>0, StillFacts DEF Actions
<1>2. pc' \in {"probe", "minimize"}
  BY DEF Check
<1>3. red = NoRed /\ red' = NoRed
  BY <1>0 DEF HandleInv, Wanted
<1>4. Wanted'
  BY <1>0, <1>1, <1>2, Zenon DEF HandleInv, Wanted, Working, Asking, Explains, Visible
<1>5. CASE config # None /\ metadata' /\ ctx' = config /\ pc' = "probe"
           /\ probe' = Ask("check", info.newStable, <<>>)
  <2>1. probe' = [next |-> "check", want |-> info.newStable, with |-> <<>>,
                  got |-> NoSignal, runs |-> 0]
    BY <1>5, AskFacts
  <2>2. <<>> \in Parts /\ NoSignal \in Sig /\ Explains(Range(<<>>), NoSignal)
    BY PartsFacts, AskFacts, Zenon
  <2>3. /\ probe'.next = "check" /\ probe'.want = info.newStable /\ probe'.with = <<>>
        /\ probe'.got = NoSignal /\ probe'.runs = 0
    BY <2>1, Zenon
  <2>4. Asked'
    BY <1>0, <1>1, <1>3, <1>5, <2>1, <2>2, <2>3, Zenon DEF Asked, Explains, Visible
  <2> QED BY <1>0, <1>3, <1>4, <1>5, <2>4, Zenon DEF HandleInv, Kept
<1>6. CASE (config = None \/ ~metadata') /\ ctx' = None /\ pc' = "minimize"
  <2>1. metadata' => Explains(Actions(ctx)', info'.newStable)
    <3>1. metadata' => Actions(ctx)' = Actions(config)
      BY <1>1, <1>6
    <3> QED BY <1>0, <3>1, Zenon DEF HandleInv, Wanted, Working
  <2>2. Kept'
    BY <1>0, <1>6, <2>1 DEF Kept, Explains
  <2> QED BY <1>3, <1>4, <1>6, <2>2 DEF HandleInv, Asking
<1> QED BY <1>5, <1>6 DEF Check

\* The answer: without any action the signal is there, or it is not.
LEMMA CheckedInv ==
  ASSUME HandleInv, config \in Configs, Independent \/ Dependent
  PROVE  HandleInv'
<1>0. /\ Still /\ pc \in {"yes", "no"} /\ UNCHANGED <<info, red, saved, metadata>>
      /\ pc' = "minimize" /\ probe.next = "check"
  BY DEF Independent, Dependent, HandleStep, Still
<1>1. /\ config' = config /\ Parts' = Parts /\ call' = call /\ firm' = firm
      /\ Actions(config)' = Actions(config) /\ Actions(ctx)' = Actions(ctx')
  BY <1>0, StillFacts, Zenon DEF Actions
<1>2. /\ Asked /\ red = NoRed /\ ctx = config /\ metadata
      /\ probe.want = info.newStable /\ probe.with = <<>>
  BY <1>0 DEF HandleInv, Asking, Asked
<1>3. Wanted'
  BY <1>0, <1>1, <1>2, Zenon DEF HandleInv, Wanted, Working, Asking, Explains, Visible
<1>4. CASE Independent
  <2>1. ctx' = None /\ pc = "yes"
    BY <1>4 DEF Independent, HandleStep
  <2>2. Explains({}, info.newStable)
    BY <1>2, <2>1, ActionsFacts, ShownExplained, Zenon DEF Asked
  <2>3. Kept'
    BY <1>0, <1>1, <2>1, <2>2, ActionsFacts, Zenon DEF HandleInv, Kept, Explains, Visible
  <2> QED BY <1>0, <1>2, <1>3, <2>3 DEF HandleInv, Asking
<1>5. CASE Dependent
  <2>1. ctx' = ctx
    BY <1>5 DEF Dependent
  <2>2. Explains(Actions(config), info.newStable)
    BY <1>0, Zenon DEF HandleInv, Wanted, Working, Asking
  <2>3. Kept'
    BY <1>0, <1>1, <1>2, <2>1, <2>2, Zenon DEF HandleInv, Kept, Explains, Visible
  <2> QED BY <1>0, <1>2, <1>3, <2>3 DEF HandleInv, Asking
<1> QED BY <1>4, <1>5, Zenon

\* A reduction starts with the context it is to reduce.
LEMMA ReduceFacts ==
  ASSUME NEW stage, NEW target, NEW S, NEW actions \in Seq(S), NEW per
  PROVE  /\ Reduce(stage, target, actions, per)
              = [stage |-> stage, target |-> target, left |-> actions, perAction |-> per,
                 chunk |-> Reduce(stage, target, actions, per).chunk, index |-> 0]
         /\ Reduce(stage, target, actions, per).chunk \in Nat
BY ChunkFacts DEF Reduce

\* prog.Minimize leaves the actions that fit in the shorter program.
LEMMA MinimizeProgInv ==
  ASSUME HandleInv, config \in Configs, MinimizeProg
  PROVE  HandleInv'
<1>0. /\ Still /\ pc = "minimize" /\ UNCHANGED <<info, saved, metadata, probe>>
      /\ pc' \in {"done", "save", "reduce"}
  BY DEF MinimizeProg, HandleStep, Still
<1>1. /\ config' = config /\ Parts' = Parts /\ call' = call /\ firm' = firm
      /\ Actions(config)' = Actions(config) /\ Actions(ctx)' = Actions(ctx')
  BY <1>0, StillFacts DEF Actions
<1>2. /\ red = NoRed /\ metadata \in BOOLEAN /\ info.newStable # NoSignal
      /\ ctx = None \/ (ctx = config /\ metadata)
      /\ metadata => Explains(Actions(ctx), info.newStable)
  BY <1>0, Zenon DEF HandleInv, Wanted, Working, Kept
<1>3. Wanted'
  BY <1>0, <1>1, <1>2, Zenon DEF HandleInv, Wanted, Working, Asking, Explains, Visible
<1>4. CASE pc' = "done" /\ UNCHANGED <<ctx, red>>
  BY <1>0, <1>2, <1>3, <1>4 DEF HandleInv, Kept, Asking
<1>5. CASE ctx \in {None, <<>>} /\ ctx' = None /\ pc' = "save" /\ UNCHANGED red
  <2>1. Actions(ctx) = Actions(ctx')
    BY <1>5, ActionsFacts
  <2>2. Kept'
    BY <1>0, <1>1, <1>2, <1>5, <2>1, Zenon DEF HandleInv, Kept, Explains, Visible
  <2> QED BY <1>0, <1>2, <1>3, <1>5, <2>2 DEF HandleInv, Asking
<1>6. ASSUME ctx \notin {None, <<>>}, NEW n \in 0 .. Len(ctx), NEW fit,
             fit = SubSeq(ctx, 1, n),
             n < Len(ctx) => DOMAIN info.newStable \subseteq Visible(Range(fit)),
             ctx' = (IF n = 0 THEN None ELSE fit),
             pc' = (IF n = 0 THEN "save" ELSE "reduce"),
             red' = (IF n = 0 THEN red
                     ELSE Reduce("strict", info.newStable, fit,
                                 SaveMaxActions = 0 \/ n <= SaveMaxActions * 2))
      PROVE  HandleInv'
  <2>1. /\ ctx = config /\ metadata /\ config # None /\ ctx \in Parts
        /\ Explains(Range(ctx), info.newStable)
    BY <1>2, <1>6, PartsFacts, ActionsFacts, Zenon
  <2>2. Len(ctx) \in Nat /\ Len(ctx) > 0
    BY <1>6, <2>1 DEF Parts
  <2>3. fit \in Parts /\ Explains(Range(fit), info.newStable)
    <3>1. n \in Nat /\ n <= Len(ctx) /\ ctx \in Seq(Actions(config))
      BY <2>1, <2>2 DEF Parts
    <3>2. fit \in Parts /\ (n = Len(ctx) => fit = ctx)
      BY <1>6, <3>1, PartFacts DEF Parts
    <3>3. CASE n < Len(ctx)
      BY <1>6, <3>2, <3>3 DEF Explains
    <3>4. CASE n = Len(ctx)
      BY <2>1, <3>2, <3>4, Zenon
    <3> QED BY <2>2, <3>1, <3>3, <3>4
  <2>4. CASE n = 0
    <3>1. fit = <<>>
      BY <1>6, <2>1, <2>4, PartFacts DEF Parts
    <3>2. Explains(Actions(ctx)', info.newStable)
      BY <1>1, <1>6, <2>3, <2>4, <3>1, ActionsFacts, Zenon
    <3>3. Kept'
      BY <1>0, <1>6, <2>1, <2>4, <3>2, Zenon DEF HandleInv, Kept, Explains, Visible
    <3> QED BY <1>0, <1>2, <1>3, <1>6, <2>4, <3>3, Zenon DEF HandleInv, Asking
  <2>5. CASE n # 0
    <3>1. pc' = "reduce" /\ ctx' = fit
          /\ red' = Reduce("strict", info.newStable, fit,
                           SaveMaxActions = 0 \/ n <= SaveMaxActions * 2)
      BY <1>6, <2>5
    <3>2. PICK per, chunk :
            /\ red' = [stage |-> "strict", target |-> info.newStable, left |-> fit,
                       perAction |-> per, chunk |-> chunk, index |-> 0]
            /\ chunk \in Nat
      <4>1. fit \in Seq(Actions(config))
        BY <2>3, Zenon DEF Parts
      <4> QED BY <3>1, <4>1, ReduceFacts, Zenon
    <3>3. info.newStable \in Sig
      BY Zenon DEF HandleInv, Wanted
    <3>4. Sound'
      BY <1>0, <1>1, <1>2, <2>1, <2>3, <3>1, <3>2, <3>3 DEF Sound, Explains
    <3> QED BY <1>0, <1>2, <1>3, <3>1, <3>4, Zenon DEF HandleInv, Kept, Asking
  <2> QED BY <2>4, <2>5, Zenon
<1> QED BY <1>4, <1>5, <1>6, Zenon DEF MinimizeProg

\* The steps of a reduction that are about the same actions.
LEMMA SoundStill ==
  ASSUME Sound, Still, UNCHANGED <<info, ctx>>, NEW left \in Parts, NEW chunk \in Nat,
         NEW index \in Nat, Explains(Range(left), red.target),
         red' = [stage |-> red.stage, target |-> red.target, left |-> left,
                 perAction |-> red.perAction, chunk |-> chunk, index |-> index]
  PROVE  Sound'
<1>1. config' = config /\ Parts' = Parts
  BY StillFacts
<1> QED BY <1>1, Zenon DEF Sound, TooMany, Explains

\* An attempt to remove a chunk, the next chunk, or chunks of half the length.
LEMMA ReduceStepInv ==
  ASSUME HandleInv, config \in Configs, ReduceStep
  PROVE  HandleInv'
<1>0. /\ Still /\ pc = "reduce" /\ UNCHANGED <<info, ctx, saved, metadata>>
      /\ pc' \in {"reduce", "probe"}
  BY DEF ReduceStep, HandleStep, Still
<1>1. /\ config' = config /\ Parts' = Parts /\ call' = call /\ firm' = firm
      /\ Actions(config)' = Actions(config)
  BY <1>0, StillFacts DEF Actions
<1>2. Sound
  BY <1>0 DEF HandleInv
<1>3. Wanted' /\ Kept'
  BY <1>0, <1>1, Zenon DEF HandleInv, Wanted, Kept, Working, Asking, Explains, Visible
<1>4. PICK st, ta, le, pe, ch, ix :
        red = [stage |-> st, target |-> ta, left |-> le, perAction |-> pe,
               chunk |-> ch, index |-> ix]
  BY <1>2, Zenon DEF Sound
<1>5. le \in Parts /\ ch \in Nat /\ ix \in Nat /\ Explains(Range(le), ta)
  BY <1>2, <1>4, Zenon DEF Sound
<1>6. ASSUME NEW k \in Nat, NEW i \in Nat, pc' = pc,
             red' = [stage |-> st, target |-> ta, left |-> le, perAction |-> pe,
                     chunk |-> k, index |-> i]
      PROVE  HandleInv'
  <2>2. Sound'
    BY <1>0, <1>2, <1>4, <1>5, <1>6, SoundStill, Zenon
  <2> QED BY <1>0, <1>3, <1>6, <2>2 DEF HandleInv, Asking
<1>7. CASE /\ red' = [red EXCEPT !.index = 0,
                        !.chunk = ChunkFrom(red.chunk \div 2, red.perAction /\ red.chunk > 1)]
           /\ UNCHANGED <<pc, probe>>
  <2>1. PICK k : k = ChunkFrom(red.chunk \div 2, red.perAction /\ red.chunk > 1)
    OBVIOUS
  <2>2. k \in Nat
    BY <1>4, <1>5, <2>1, ChunkFacts
  <2>3. red' = [stage |-> st, target |-> ta, left |-> le, perAction |-> pe,
                chunk |-> k, index |-> 0]
    BY <1>4, <1>7, <2>1, Zenon
  <2> QED BY <1>6, <1>7, <2>2, <2>3, Zenon
<1>8. CASE red' = [red EXCEPT !.index = @ + red.chunk] /\ UNCHANGED <<pc, probe>>
  <2>1. red' = [stage |-> st, target |-> ta, left |-> le, perAction |-> pe,
                chunk |-> ch, index |-> ix + ch]
    BY <1>4, <1>8
  <2>2. ix + ch \in Nat
    BY <1>5
  <2> QED BY <1>5, <1>6, <1>8, <2>1, <2>2, Zenon
<1>9. CASE /\ red.index < Len(red.left)
           /\ pc' = "probe"
           /\ probe' = Ask("reduce", red.target, Cut)
           /\ UNCHANGED red
  <2>1. Cut \in Parts
    BY <1>2, <1>9, CutFacts DEF Sound, Parts
  <2>2. PICK cut : cut = Cut
    OBVIOUS
  <2>3. probe' = [next |-> "reduce", want |-> red.target, with |-> cut,
                  got |-> NoSignal, runs |-> 0]
        /\ NoSignal \in Sig /\ Explains(Range(cut), NoSignal)
    BY <1>9, <2>2, AskFacts, Zenon
  <2>4. Sound'
    BY <1>0, <1>1, <1>2, <1>9 DEF Sound, TooMany, Explains
  <2>5. Asked'
    <3>1. /\ probe'.next = "reduce" /\ probe'.want = red.target /\ probe'.with = cut
          /\ probe'.got = NoSignal /\ probe'.runs = 0
      BY <2>3
    <3>2. pc' # "yes" /\ red' = red
      BY <1>9
    <3> QED BY <1>1, <2>1, <2>2, <2>3, <2>4, <3>1, <3>2, Zenon DEF Asked, Explains, Visible
  <2> QED BY <1>3, <2>4, <2>5, <1>9, Zenon DEF HandleInv
<1> QED BY <1>7, <1>8, <1>9 DEF ReduceStep

\* Without the chunk the signal is there, or it is not.
LEMMA RemovedInv ==
  ASSUME HandleInv, config \in Configs, Removed \/ NotRemoved
  PROVE  HandleInv'
<1>0. /\ Still /\ pc \in {"yes", "no"} /\ UNCHANGED <<info, ctx, saved, metadata>>
      /\ pc' = "reduce" /\ probe.next = "reduce"
  BY DEF Removed, NotRemoved, HandleStep, Still
<1>1. /\ config' = config /\ Parts' = Parts /\ call' = call /\ firm' = firm
      /\ Actions(config)' = Actions(config)
  BY <1>0, StillFacts, Zenon DEF Actions
<1>2. Asked /\ Sound /\ probe.want = red.target
  BY <1>0 DEF HandleInv, Asking, Asked
<1>3. Wanted' /\ Kept'
  BY <1>0, <1>1, Zenon DEF HandleInv, Wanted, Kept, Working, Asking, Explains, Visible
<1>4. PICK st, ta, le, pe, ch, ix :
        red = [stage |-> st, target |-> ta, left |-> le, perAction |-> pe,
               chunk |-> ch, index |-> ix]
  BY <1>2 DEF Sound
<1>5. le \in Parts /\ ch \in Nat /\ ix \in Nat /\ Explains(Range(le), ta)
  BY <1>2, <1>4, Zenon DEF Sound
<1>6. Sound'
  <2>1. CASE Removed
    <3>1. pc = "yes" /\ red' = [red EXCEPT !.left = probe.with]
      BY <2>1 DEF Removed, HandleStep
    <3>2. PICK with : with = probe.with
      OBVIOUS
    <3>3. with \in Parts /\ Explains(Range(with), red.target)
      BY <1>2, <3>1, <3>2, ShownExplained, Zenon DEF Asked
    <3>4. red' = [stage |-> st, target |-> ta, left |-> with, perAction |-> pe,
                  chunk |-> ch, index |-> ix]
      BY <1>4, <3>1, <3>2, Zenon
    <3> QED BY <1>0, <1>2, <1>4, <1>5, <3>3, <3>4, SoundStill, Zenon
  <2>2. CASE NotRemoved
    <3>1. red' = [red EXCEPT !.index = @ + red.chunk]
      BY <2>2 DEF NotRemoved
    <3>2. red' = [stage |-> st, target |-> ta, left |-> le, perAction |-> pe,
                  chunk |-> ch, index |-> ix + ch]
      BY <1>4, <3>1
    <3>3. ix + ch \in Nat
      BY <1>5
    <3> QED BY <1>0, <1>2, <1>4, <1>5, <3>2, <3>3, SoundStill, Zenon
  <2> QED BY <2>1, <2>2, Zenon
<1> QED BY <1>0, <1>3, <1>6 DEF HandleInv, Asking

\* The reduction for the whole signal is done: the context is saved, or what is
\* left is too much.
LEMMA StrictDoneInv ==
  ASSUME LeastExists, HandleInv, config \in Configs, StrictDone
  PROVE  HandleInv'
<1>0. /\ Still /\ pc = "reduce" /\ UNCHANGED <<info, probe, saved, metadata>>
      /\ red.stage = "strict" /\ pc' \in {"reduce", "save"}
  BY Zenon DEF StrictDone, HandleStep, Still
<1>1. /\ config' = config /\ Parts' = Parts /\ call' = call /\ firm' = firm
      /\ Actions(config)' = Actions(config) /\ Actions(ctx)' = Actions(ctx')
  BY <1>0, StillFacts, Zenon DEF Actions
<1>2. /\ Sound /\ red.target = info.newStable /\ red.left \in Parts /\ config # None
      /\ Explains(Range(red.left), info.newStable)
      /\ info.newStable \in Sig /\ info.newStable # NoSignal /\ metadata \in BOOLEAN
  BY <1>0, Zenon DEF HandleInv, Sound, Wanted, Working, Kept
<1>3. Wanted'
  BY <1>0, <1>1, Zenon DEF HandleInv, Wanted, Working, Asking, Explains, Visible
<1>4. CASE /\ TooMany(red.left)
           /\ ctx' = red.left
           /\ red' = Reduce("compact", kconfuzzAnchorSignal(info.newStable), red.left, TRUE)
           /\ UNCHANGED pc
  <2>1. PICK anchor, left : anchor = kconfuzzAnchorSignal(info.newStable) /\ left = red.left
    OBVIOUS
  <2>2. anchor \in Sig /\ anchor # NoSignal /\ DOMAIN anchor \subseteq DOMAIN info.newStable
    BY <1>2, <2>1, AnchorFacts, Zenon
  <2>3. left \in Parts /\ Explains(Range(left), anchor) /\ TooMany(left)
    BY <1>2, <1>4, <2>1, <2>2, ExplainsMore, Zenon
  <2>4. PICK chunk \in Nat :
          red' = [stage |-> "compact", target |-> anchor, left |-> left, perAction |-> TRUE,
                  chunk |-> chunk, index |-> 0]
    <3>1. left \in Seq(Actions(config))
      BY <2>3 DEF Parts
    <3> QED BY <1>4, <2>1, <3>1, ReduceFacts, Zenon
  <2>5. Sound'
    <3>1. ctx' = left /\ TooMany(ctx)' /\ info' = info
      BY <1>0, <1>4, <2>1, <2>3, Zenon DEF TooMany
    <3>2. Explains(Range(left), anchor)'
      BY <2>3
    <3> QED BY <1>1, <1>2, <2>2, <2>3, <2>4, <3>1, <3>2, Zenon DEF Sound
  <2> QED BY <1>0, <1>2, <1>3, <1>4, <2>5, Zenon DEF HandleInv, Kept, Asking
<1>5. CASE ctx' = Normalized(red.left) /\ red' = NoRed /\ pc' = "save"
  <2>1. Actions(ctx') = Range(red.left)
    <3>1. None \notin Parts
      BY <1>2, PartsFacts, Zenon
    <3> QED BY <1>2, <1>5, <3>1, ActionsFacts, Zenon DEF Normalized
  <2>2. Kept'
    BY <1>0, <1>1, <1>2, <1>5, <2>1, Zenon DEF Kept, Explains, Visible
  <2> QED BY <1>3, <1>5, <2>2 DEF HandleInv, Asking
<1> QED BY <1>4, <1>5, Zenon DEF StrictDone

\* The context that is saved at the end of the reduction for the anchor: limited
\* if it is too much, or else it explains the signal.
LEMMA LimitedKept ==
  ASSUME Still, config \in Configs, config # None, NEW c \in Parts, metadata' \in BOOLEAN,
         TooMany(c) \/ Explains(Range(c), info'.newStable),
         ctx' = limitKConfuzzActionsForSave(c), pc' = "save"
  PROVE  Kept'
<1>1. ctx' \in Parts /\ ctx' # None
  BY LimitFacts, PartsFacts, Zenon DEF Parts
<1>2. Actions(ctx)' = Range(ctx')
  BY <1>1, Zenon DEF Actions
<1>3. CASE TooMany(c)
  <2>1. Len(ctx') = SaveMaxActions /\ SaveMaxActions > 0
    BY <1>3, LimitFacts, Zenon DEF Parts, TooMany
  <2> QED BY <1>1, <2>1 DEF Kept
<1>4. CASE ~TooMany(c)
  <2>1. ctx' = c
    BY <1>4, LimitFacts DEF Parts
  <2>2. Explains(Range(ctx'), info'.newStable)
    BY <1>4, <2>1, Zenon
  <2> QED BY <1>2, <2>2 DEF Kept, Explains, Visible
<1> QED BY <1>3, <1>4, Zenon

\* The reduction for the anchor is done: one more probe, or the context is cut.
LEMMA CompactDoneInv ==
  ASSUME HandleInv, config \in Configs, CompactDone
  PROVE  HandleInv'
<1>0. /\ Still /\ pc = "reduce" /\ UNCHANGED <<info, saved, metadata>>
      /\ red.stage = "compact" /\ pc' \in {"probe", "save"}
  BY DEF CompactDone, HandleStep, Still
<1>1. /\ config' = config /\ Parts' = Parts /\ call' = call /\ firm' = firm
      /\ Actions(config)' = Actions(config)
  BY <1>0, StillFacts, Zenon DEF Actions
<1>2. /\ Sound /\ red.left \in Parts /\ config # None /\ ctx \in Parts /\ TooMany(ctx)
      /\ metadata \in BOOLEAN
  BY <1>0 DEF HandleInv, Sound, Kept
<1>3. Wanted'
  BY <1>0, <1>1, Zenon DEF HandleInv, Wanted, Working, Asking, Explains, Visible
<1>4. CASE /\ pc' = "probe"
           /\ probe' = Ask("anchor", red.target, red.left)
           /\ UNCHANGED <<ctx, red>>
  <2>1. probe' = [next |-> "anchor", want |-> red.target, with |-> red.left,
                  got |-> NoSignal, runs |-> 0]
        /\ NoSignal \in Sig /\ Explains(Range(red.left), NoSignal)
    BY <1>4, AskFacts, Zenon
  <2>2. Sound'
    BY <1>0, <1>1, <1>2, <1>4 DEF Sound, TooMany, Explains
  <2>3. Asked'
    <3>1. /\ probe'.next = "anchor" /\ probe'.want = red.target /\ probe'.with = red.left
          /\ probe'.got = NoSignal /\ probe'.runs = 0
      BY <2>1
    <3>2. pc' # "yes" /\ red' = red /\ red.stage = "compact"
      BY <1>0, <1>4
    <3> QED BY <1>1, <1>2, <2>1, <2>2, <3>1, <3>2, Zenon DEF Asked, Explains, Visible
  <2> QED BY <1>0, <1>2, <1>3, <1>4, <2>2, <2>3, Zenon DEF HandleInv, Kept
<1>5. CASE pc' = "save" /\ ctx' = limitKConfuzzActionsForSave(ctx) /\ red' = NoRed
  <2>1. Kept'
    BY <1>0, <1>2, <1>5, LimitedKept, Zenon
  <2> QED BY <1>3, <1>5, <2>1 DEF HandleInv, Asking
<1> QED BY <1>4, <1>5 DEF CompactDone

\* The last probe: the compacted context is saved for the anchor, or the other is cut.
LEMMA CompactedInv ==
  ASSUME HandleInv, config \in Configs, Compacted \/ NotCompacted
  PROVE  HandleInv'
<1>0. /\ Still /\ pc \in {"yes", "no"} /\ UNCHANGED <<saved, metadata>>
      /\ pc' = "save" /\ probe.next = "anchor" /\ red' = NoRed
  BY DEF Compacted, NotCompacted, HandleStep, Still
<1>1. /\ config' = config /\ Parts' = Parts /\ call' = call /\ firm' = firm
      /\ Actions(config)' = Actions(config)
  BY <1>0, StillFacts DEF Actions
<1>2. /\ Asked /\ Sound /\ probe.want = red.target /\ metadata \in BOOLEAN
      /\ red.left \in Parts /\ config # None /\ ctx \in Parts /\ TooMany(ctx)
      /\ Explains(Range(red.left), red.target)
  BY <1>0, Zenon DEF HandleInv, Asking, Asked, Sound, Kept
<1>3. /\ saved = None /\ call \in Calls /\ DOMAIN info.newStable \subseteq firm
      /\ Explains(Actions(config), info.newStable)
  BY <1>0 DEF HandleInv, Wanted, Working, Asking
<1>4. CASE Compacted
  <2>1. /\ info' = [stable |-> probe.got, newStable |-> red.target] /\ pc = "yes"
        /\ ctx' = limitKConfuzzActionsForSave(red.left)
    BY <1>4 DEF Compacted, HandleStep
  <2>2. /\ probe.got \in Sig /\ red.target \in Sig /\ red.target # NoSignal
        /\ signalContainsAll(red.target, probe.got)
        /\ DOMAIN red.target \subseteq DOMAIN info.newStable
    BY <1>2, <2>1, Zenon DEF Asked, Sound
  <2>3. Explains(Actions(config), red.target)
    BY <1>3, <2>2, ExplainsMore, Zenon
  <2>4. Wanted'
    BY <1>0, <1>1, <1>3, <2>1, <2>2, <2>3, Zenon
      DEF Wanted, Explains, Visible, signalContainsAll
  <2>5. Kept'
    BY <1>0, <1>2, <2>1, LimitedKept, Zenon
  <2> QED BY <1>0, <2>4, <2>5, Zenon DEF HandleInv, Asking
<1>5. CASE NotCompacted
  <2>1. info' = info /\ ctx' = limitKConfuzzActionsForSave(ctx)
    BY <1>5, Zenon DEF NotCompacted
  <2>2. Wanted'
    BY <1>0, <1>1, <2>1, Zenon DEF HandleInv, Wanted, Working, Asking, Explains, Visible
  <2>3. Kept'
    BY <1>0, <1>2, <2>1, LimitedKept, Zenon
  <2> QED BY <1>0, <2>2, <2>3 DEF HandleInv, Asking
<1> QED BY <1>4, <1>5

\* What is saved is the stable signal.
LEMMA SaveInputInv ==
  ASSUME HandleInv, config \in Configs, SaveInput
  PROVE  HandleInv'
<1>0. /\ Still /\ pc = "save" /\ UNCHANGED <<info, ctx, red, metadata>>
      /\ pc' = "done" /\ saved' \in {None, info.stable}
  BY DEF SaveInput, HandleStep, Still
<1>1. /\ config' = config /\ Parts' = Parts /\ call' = call /\ firm' = firm
  BY <1>0, StillFacts
<1>2. Wanted' /\ Kept'
  BY <1>0, <1>1, Zenon DEF HandleInv, Wanted, Kept, Working, Asking
<1>3. Sound => Sound'
  BY <1>0, <1>1, Zenon DEF Sound, TooMany, Explains
<1> QED BY <1>0, <1>2, <1>3, Zenon DEF HandleInv, Asking, NoRed

\* handleCall keeps its invariant.
LEMMA HandleKeeps ==
  ASSUME LeastExists, HandleInv, config \in Configs, Handle
  PROVE  HandleInv'
BY ProbeRunInv, CheckInv, CheckedInv, MinimizeProgInv, ReduceStepInv, RemovedInv,
   StrictDoneInv, CompactDoneInv, CompactedInv, SaveInputInv, Zenon DEF Handle

-----------------------------------------------------------------------------
(* What deflake gives handleCall.                                          *)

\* The result of one call.
LEMMA LookAtShows ==
  ASSUME DeflakeInv, Shows, NewSeen, at \in Calls, result[at] # None, LookAt(at),
         UNCHANGED <<jobVars, run, result>>
  PROVE  Shows' /\ NewSeen'
<1>a. PICK c : c = at
  OBVIOUS
<1>b. PICK raw, prio : raw = result[c].raw /\ prio = result[c].prio
  OBVIOUS
<1>1. raw \in SUBSET Elems /\ prio \in Prios /\ maxSignal \in Sig /\ c \in Calls
      /\ seen \in [Calls -> Counts] /\ raw \subseteq Visible(Actions(config))
  BY <1>a, <1>b, Zenon DEF DeflakeInv, DeflakeTypes, RawInfo, Shows
<1>c. PICK this, new : this = FromRaw(raw, prio) /\ new = DiffRaw(maxSignal, raw, prio)
  OBVIOUS
<1>2. this \in Sig /\ new \in Sig /\ NoSignal \in Sig
  BY <1>1, <1>c, RawSig, SigClosed
<1>d. PICK m : m = Plus(seen[c], this)
  OBVIOUS
<1>3. seen' = [seen EXCEPT ![c] = m]
  BY <1>a, <1>b, <1>c, <1>d, Zenon DEF LookAt, Count, Plus
<1>4. /\ m \in Counts
      /\ \A e \in Elems, p \in Prios : m[<<e, p>>] >= seen[c][<<e, p>>]
      /\ \A e \in Elems, p \in Prios :
           m[<<e, p>>] = seen[c][<<e, p>>] \/ e \in DOMAIN this
  <2>1. \A e \in Elems, p \in Prios : Has(this, e, p) \/ ~Has(this, e, p)
    OBVIOUS
  <2>2. seen[c] \in Counts
    BY <1>1, Zenon
  <2>3. /\ Plus(seen[c], this) \in Counts
        /\ \A e \in Elems, p \in Prios :
             /\ Plus(seen[c], this)[<<e, p>>] >= seen[c][<<e, p>>]
             /\ ~Has(this, e, p) => Plus(seen[c], this)[<<e, p>>] = seen[c][<<e, p>>]
    BY <1>2, <2>2, PlusCounts, Zenon
  <2>4. \A e \in Elems, p \in Prios : Has(this, e, p) => e \in DOMAIN this
    BY Zenon DEF Has
  <2> QED BY <1>d, <2>1, <2>3, <2>4, Zenon
<1>5. Shows'
  <2>1. config' = config /\ Actions(config)' = Actions(config) /\ result' = result
    BY Zenon DEF jobVars, Actions
  <2>2. DOMAIN this \subseteq Visible(Actions(config))
    BY <1>1, <1>c, Zenon DEF FromRaw
  <2>3. ASSUME NEW d \in Calls, NEW e \in Elems, NEW p \in Prios, seen'[d][<<e, p>>] > 0
        PROVE  e \in Visible(Actions(config))
    <3>1. CASE d # c
      BY <1>1, <1>3, <2>3, <3>1, Zenon DEF Shows
    <3>2. CASE d = c
      <4>1. m[<<e, p>>] > 0
        BY <1>1, <1>3, <2>3, <3>2, Zenon
      <4> QED BY <1>1, <1>4, <2>2, <4>1, Zenon DEF Shows
    <3> QED BY <3>1, <3>2
  <2> QED BY <2>1, <2>3, Zenon DEF Shows, Visible
<1>6. ASSUME NEW e \in DOMAIN new PROVE m[<<e, new[e]>>] >= 1
  BY <1>1, <1>c, <1>d, NewIsSeen, Zenon
<1>7. PICK i : \/ calls' = calls
               \/ /\ calls' = With(c, i)
                  /\ \A e \in DOMAIN i.newSignal : m[<<e, i.newSignal[e]>>] >= 1
  <2>1. CASE c \in DOMAIN calls /\ calls' = With(c, Deflaked(calls[c], new, this))
    <3>1. PICK s : s = calls[c].newSignal
      OBVIOUS
    <3>2. s \in Sig
      BY <2>1, <3>1, Zenon DEF DeflakeInv, DeflakeTypes, CallInfo
    <3>3. Deflaked(calls[c], new, this).newSignal = Merge(s, new)
      BY <3>1 DEF Deflaked
    <3>4. ASSUME NEW e \in DOMAIN s PROVE m[<<e, s[e]>>] >= 1
      <4>1. e \in Elems /\ s[e] \in Prios /\ seen[c][<<e, s[e]>>] >= 1
        BY <2>1, <3>1, <3>2, SigElem, Zenon DEF NewSeen
      <4>2. m[<<e, s[e]>>] >= seen[c][<<e, s[e]>>]
        BY <1>4, <4>1, Zenon
      <4>3. m[<<e, s[e]>>] \in Nat /\ seen[c][<<e, s[e]>>] \in Nat
        BY <1>1, <1>4, <4>1, Zenon DEF Counts
      <4> QED BY <4>1, <4>2, <4>3, StillSeen, Zenon
    <3>5. \A e \in DOMAIN Merge(s, new) : m[<<e, Merge(s, new)[e]>>] >= 1
      BY <1>2, <1>6, <3>2, <3>4, MergeElem, SMTT(30)
    <3> QED BY <2>1, <3>3, <3>5, Zenon
  <2>2. CASE calls' = With(c, NewCall(new, this))
    <3>1. NewCall(new, this).newSignal = new
      BY DEF NewCall
    <3> QED BY <1>6, <2>2, <3>1, Zenon
  <2>3. CASE calls' = With(c, Deflaked(NewCall(new, this), NoSignal, this))
    <3>1. Deflaked(NewCall(new, this), NoSignal, this).newSignal = Merge(new, NoSignal)
      BY Zenon DEF Deflaked, NewCall
    <3>2. \A e \in DOMAIN Merge(new, NoSignal) : m[<<e, Merge(new, NoSignal)[e]>>] >= 1
      BY <1>2, <1>6, MergeElem DEF NoSignal
    <3> QED BY <2>3, <3>1, <3>2, Zenon
  <2> QED BY <1>a, <1>b, <1>c, <2>1, <2>2, <2>3, Zenon DEF LookAt
<1>8. NewSeen'
  <2>1. ASSUME NEW d \in DOMAIN calls', NEW e \in DOMAIN calls'[d].newSignal
        PROVE  seen'[d][<<e, calls'[d].newSignal[e]>>] >= 1
    <3>0. DOMAIN calls \subseteq Calls
      BY Zenon DEF DeflakeInv, DeflakeTypes
    <3>1. CASE d # c
      <4>1. d \in DOMAIN calls /\ calls'[d] = calls[d]
        BY <1>7, <3>1, Zenon DEF With
      <4>2. seen'[d] = seen[d]
        BY <1>1, <1>3, <3>0, <3>1, <4>1, Zenon
      <4> QED BY <2>1, <4>1, <4>2, Zenon DEF NewSeen
    <3>2. CASE d = c /\ calls' = calls
      <4>1. PICK s : s = calls[c].newSignal
        OBVIOUS
      <4>2. s \in Sig /\ e \in DOMAIN s /\ calls'[d].newSignal = s
        BY <3>2, <4>1, Zenon DEF DeflakeInv, DeflakeTypes, CallInfo
      <4>3. e \in Elems /\ s[e] \in Prios /\ seen[c][<<e, s[e]>>] >= 1
        BY <3>2, <4>1, <4>2, SigElem, Zenon DEF NewSeen
      <4>4. m[<<e, s[e]>>] >= seen[c][<<e, s[e]>>]
        BY <1>4, <4>3, Zenon
      <4>5. m[<<e, s[e]>>] \in Nat /\ seen[c][<<e, s[e]>>] \in Nat
        BY <1>1, <1>4, <4>3, Zenon DEF Counts
      <4>6. seen'[d] = m
        BY <1>1, <1>3, <3>2, Zenon
      <4>7. m[<<e, s[e]>>] >= 1
        BY <4>3, <4>4, <4>5, StillSeen, Zenon
      <4> QED BY <4>2, <4>6, <4>7, Zenon
    <3>3. CASE d = c /\ calls' # calls
      <4>1. calls'[d] = i
        BY <1>7, <3>3, Zenon DEF With
      <4>2. seen'[d] = m
        BY <1>1, <1>3, <3>3, Zenon
      <4> QED BY <1>7, <2>1, <3>3, <4>1, <4>2, Zenon
    <3> QED BY <3>1, <3>2, <3>3, Zenon
  <2> QED BY <2>1, Zenon DEF NewSeen
<1> QED BY <1>5, <1>8

\* handleCall starts with new signal that needRuns runs have shown.
LEMMA HandleCallInv ==
  ASSUME DeflakeInv, Shows, HandleInv, NEW c \in DOMAIN calls, HandleCall(c)
  PROVE  HandleInv'
<1>1. /\ c \in Calls /\ calls[c] \in CallInfo /\ seen[c] \in Counts /\ Monotone(seen[c])
      /\ Counted(seen[c], calls[c].signals, c \in late)
      /\ deflakeNeedRuns \in Nat /\ needRuns \in 1 .. deflakeNeedRuns
  BY NeedRunsType DEF DeflakeInv, DeflakeTypes, CallInv
<1>2. PICK j : j = needRuns - 1
  OBVIOUS
<1>3. j \in Levels /\ j \in Nat /\ needRuns = j + 1
  BY <1>1, <1>2 DEF Levels
<1>4. PICK s, t : s = calls[c].newSignal /\ t = calls[c].signals[j]
  OBVIOUS
<1>5. s \in Sig /\ t \in Sig
  BY <1>1, <1>3, <1>4, Zenon DEF CallInfo
<1>6. PICK both \in Sig :
        /\ both = Intersection(s, t)
        /\ \A e \in DOMAIN both : e \in DOMAIN s /\ Has(t, e, s[e]) /\ both[e] = s[e]
  BY <1>5, InBoth, Zenon
<1>7. /\ pc = "deflake" /\ call' = c /\ firm' = FirmElems(c)
      /\ info' = [stable |-> t, newStable |-> both]
      /\ pc' = IF both = NoSignal THEN "done" ELSE "check"
      /\ UNCHANGED <<jobVars, metadata, ctx, red, probe, saved>>
  BY <1>2, <1>4, <1>6, Zenon DEF HandleCall
<1>8. red = NoRed /\ saved = None /\ metadata \in BOOLEAN
  BY <1>7, Zenon DEF HandleInv, Wanted, Kept
<1>9. ASSUME NEW e \in DOMAIN both
      PROVE  /\ Has(t, e, both[e])
             /\ e \in FirmElems(c)
             /\ e \in Visible(Actions(config))
  <2>1. e \in DOMAIN s /\ Has(t, e, s[e]) /\ both[e] = s[e]
    BY <1>6, Zenon
  <2>2. e \in DOMAIN t
    BY <2>1, Zenon DEF Has
  <2>3. e \in Elems /\ t[e] \in Prios
    BY <1>5, <2>2, SigElem
  <2>4. PICK n, k : n = seen[c][<<e, t[e]>>] /\ k = seen[c][<<e, 0>>]
    OBVIOUS
  <2>5. n >= 1 /\ n >= (IF c \in late THEN j ELSE j + 1)
    BY <1>1, <1>3, <1>4, <2>2, <2>4, Zenon DEF Counted
  <2>6. n <= k
    <3>1. 0 \in Prios /\ 0 <= t[e]
      BY <1>1, <2>3, CountAt, Zenon
    <3> QED BY <1>1, <2>3, <2>4, <3>1, Zenon DEF Monotone
  <2>7. n \in Nat /\ k \in Nat
    BY <1>1, <2>3, <2>4, CountAt, Zenon
  <2>8. k >= (IF c \in late THEN needRuns - 1 ELSE needRuns)
    BY <1>3, <2>5, <2>6, <2>7
  <2>9. e \in FirmElems(c)
    BY <2>3, <2>4, <2>8, Zenon DEF FirmElems
  <2>10. e \in Visible(Actions(config))
    <3>1. n > 0
      BY <2>5, <2>7
    <3> QED BY <1>1, <2>3, <2>4, <3>1, Zenon DEF Shows
  <2> QED BY <2>1, <2>9, <2>10, Zenon
<1>10. Actions(config)' = Actions(config)
  BY <1>7 DEF jobVars, Actions
<1>11. Wanted'
  <2>1. signalContainsAll(both, t) /\ DOMAIN both \subseteq FirmElems(c)
        /\ Explains(Actions(config), both)
    BY <1>9 DEF signalContainsAll, Explains
  <2>2. /\ info'.stable = t /\ info'.newStable = both
        /\ signalContainsAll(info.newStable, info.stable)'
        /\ Explains(Actions(config), info.newStable)'
    BY <1>7, <1>10, <2>1, Zenon DEF signalContainsAll, Explains, Visible
  <2> QED BY <1>1, <1>5, <1>6, <1>7, <1>8, <2>1, <2>2, Zenon DEF Wanted, Working, Asking
<1>12. pc' \in {"done", "check"}
  BY <1>7
<1> QED BY <1>7, <1>8, <1>11, <1>12, Zenon DEF HandleInv, Kept, Asking

TriageInv == DeflakeInv /\ Shows /\ NewSeen /\ HandleInv

\* A triage starts with nothing seen and nothing wanted.
LEMMA InitTriageInv == ASSUME Init PROVE TriageInv
<1>1. DeflakeInv
  BY InitInv
<1>2. Shows
  <2>1. config \in Configs /\ result = NoResult /\ seen = NotSeen
    BY Zenon DEF Init
  <2>2. \A c \in Calls : result[c] = None
    BY <2>1 DEF NoResult
  <2>3. ASSUME NEW c \in Calls, NEW e \in Elems, NEW p \in Prios
        PROVE  seen[c][<<e, p>>] = 0 /\ ~(seen[c][<<e, p>>] > 0)
    BY <2>1 DEF NotSeen
  <2> QED BY <2>1, <2>2, <2>3, Zenon DEF Shows
<1>3. NewSeen
  BY Zenon DEF NewSeen, Init, NoCalls
<1>4. info.stable = NoSignal /\ info.newStable = NoSignal /\ NoSignal \in Sig
      /\ DOMAIN NoSignal = {}
  <2>1. info = NoInfo
    BY Zenon DEF Init
  <2>2. DOMAIN NoSignal = {} /\ NoSignal \in [{} -> Prios]
    BY DEF NoSignal
  <2>3. NoSignal \in Sig
    BY <2>2, Zenon DEF Sig
  <2> QED BY <2>1, <2>2, <2>3 DEF NoInfo
<1>5. Wanted
  BY <1>4, Zenon DEF Init, Wanted, signalContainsAll, Working, Asking
<1>6. HandleInv
  BY <1>5, Zenon DEF HandleInv, Init, Kept, Asking
<1> QED BY <1>1, <1>2, <1>3, <1>6 DEF TriageInv

\* Steps of deflake but the last do not touch what handleCall has.
LEMMA HandleStill ==
  ASSUME HandleInv, UNCHANGED <<jobVars, handleVars>>,
         pc' = pc \/ (pc \in {"start", "first", "deflake"} /\
                      pc' \in {"first", "deflake", "done"})
  PROVE  HandleInv'
<1>1. /\ UNCHANGED <<info, call, firm, metadata, ctx, red, probe, saved>>
      /\ config' = config /\ Parts' = Parts /\ Actions(config)' = Actions(config)
      /\ Actions(ctx)' = Actions(ctx)
  BY Zenon DEF handleVars, jobVars, Parts, Actions
<1>2. Sound => Sound'
  BY <1>1, Zenon DEF Sound, TooMany, Explains
<1>3. Wanted'
  BY <1>1, Zenon DEF HandleInv, Wanted, Working, Asking, Explains, Visible
<1>4. pc' = pc /\ Asked => Asked'
  BY <1>1, <1>2, Zenon DEF Asked, Explains, NoRed
<1>5. Kept'
  BY <1>1, Zenon DEF HandleInv, Kept, Explains, Visible
<1> QED BY <1>1, <1>2, <1>3, <1>4, <1>5, Zenon DEF HandleInv, Asking, NoRed

\* What has been seen stays the same.
LEMMA ShowsStill ==
  ASSUME DeflakeInv, Shows, NewSeen, UNCHANGED <<jobVars, calls, seen>>, run' \in Nat,
         \A c \in Calls : result'[c] # None => result'[c].raw \subseteq Visible(Actions(config))
  PROVE  Shows' /\ NewSeen'
<1>1. config' = config /\ Actions(config)' = Actions(config)
  BY Zenon DEF jobVars, Actions
<1> QED BY <1>1, Zenon DEF Shows, NewSeen, Visible

\* Every step of the triage keeps the invariant, given LeastExists.
LEMMA NextKeeps == ASSUME LeastExists, TriageInv, [Next]_vars PROVE TriageInv'
<1>0. DeflakeInv /\ Shows /\ NewSeen /\ HandleInv /\ config \in Configs
  BY Zenon DEF TriageInv, Shows
<1>1. DeflakeInv'
  BY <1>0, NextInv
<1>2. CASE FirstRun
  <2>1. \A c \in Calls : result'[c] # None => result'[c].raw \subseteq Visible(Actions(config))
    BY <1>2, ResultsShow, Zenon DEF FirstRun
  <2>2. /\ UNCHANGED <<jobVars, calls, seen>> /\ run' \in Nat /\ UNCHANGED handleVars
        /\ pc = "start" /\ pc' = "first"
    BY <1>0, <1>2 DEF FirstRun, NewSeen
  <2> QED BY <1>0, <1>1, <2>1, <2>2, ShowsStill, HandleStill, Zenon DEF TriageInv
<1>3. CASE StartJob
  <2>1. \A c \in Calls : result'[c] = None
    BY <1>3, Zenon DEF StartJob, NoResult
  <2>2. /\ UNCHANGED <<jobVars, calls, seen>> /\ run' \in Nat /\ UNCHANGED handleVars
        /\ pc = "first" /\ pc' \in {"done", "deflake"}
    BY <1>3 DEF StartJob
  <2> QED BY <1>0, <1>1, <2>1, <2>2, ShowsStill, HandleStill, Zenon DEF TriageInv
<1>4. CASE Execute
  <2>1. \A c \in Calls : result'[c] # None => result'[c].raw \subseteq Visible(Actions(config))
    BY <1>0, <1>4, ResultsShow, Zenon DEF Execute, Shows
  <2>2. /\ UNCHANGED <<jobVars, calls, seen>> /\ run' \in Nat /\ UNCHANGED handleVars
        /\ pc = "deflake" /\ pc' \in {"done", "deflake"}
    <3>1. UNCHANGED <<jobVars, calls, seen>> /\ UNCHANGED handleVars
      BY <1>4, Zenon DEF Execute
    <3>2. pc = "deflake" /\ pc' \in {"done", "deflake"} /\ run' \in {run, run + 1}
      BY <1>4, Zenon DEF Execute
    <3>3. run \in Nat
      BY <1>0, Zenon DEF NewSeen
    <3> QED BY <3>1, <3>2, <3>3
  <2> QED BY <1>0, <1>1, <2>1, <2>2, ShowsStill, HandleStill, Zenon DEF TriageInv
<1>5. CASE NextResult
  <2>1. UNCHANGED <<jobVars, run, result, pc>> /\ UNCHANGED handleVars /\ at \in Calls
    <3>1. UNCHANGED <<jobVars, run, result, pc>> /\ UNCHANGED handleVars /\ at <= NCalls
      BY <1>5, Zenon DEF NextResult
    <3>2. at \in 1 .. NCalls + 1
      BY <1>0, Zenon DEF DeflakeInv, DeflakeTypes
    <3>3. at \in Calls
      BY <3>1, <3>2, ResultOfCall
    <3> QED BY <3>1, <3>3, Zenon
  <2>2. HandleInv'
    BY <1>0, <2>1, HandleStill, Zenon
  <2>3. Shows' /\ NewSeen'
    <3>1. CASE result[at] # None
      BY <1>0, <1>5, <2>1, <3>1, LookAtShows DEF NextResult
    <3>2. CASE result[at] = None
      <4>1. UNCHANGED <<calls, seen>>
        BY <1>5, <3>2 DEF NextResult
      <4> QED BY <1>0, <2>1, <4>1, ShowsStill, Zenon DEF Shows, NewSeen
    <3> QED BY <3>1, <3>2
  <2> QED BY <1>1, <2>2, <2>3, Zenon DEF TriageInv
<1>6. CASE \E c \in DOMAIN calls : HandleCall(c)
  <2>1. HandleInv'
    BY <1>0, <1>6, HandleCallInv
  <2>2. /\ UNCHANGED jobVars /\ run' = 0 /\ calls' = NoCalls /\ result' = NoResult
        /\ seen' = NotSeen
    BY <1>6, Zenon DEF HandleCall
  <2>3. NewSeen'
    BY <2>2, Zenon DEF NewSeen, NoCalls
  <2>4. config' = config /\ \A c \in Calls : result'[c] = None
    BY <2>2, Zenon DEF NoResult, jobVars
  <2>5. ASSUME NEW c \in Calls, NEW e \in Elems, NEW p \in Prios
        PROVE  ~(seen'[c][<<e, p>>] > 0)
    BY <2>2 DEF NotSeen
  <2>6. Shows'
    BY <1>0, <2>4, <2>5, Zenon DEF Shows
  <2> QED BY <1>1, <2>1, <2>3, <2>6, Zenon DEF TriageInv
<1>7. CASE OtherProgram
  <2>1. UNCHANGED <<jobVars, run, result, pc, calls, seen>> /\ UNCHANGED handleVars
    BY <1>7, Zenon DEF OtherProgram
  <2> QED BY <1>0, <1>1, <2>1, ShowsStill, HandleStill, Zenon DEF TriageInv, Shows, NewSeen
<1>8. CASE Handle
  <2>1. UNCHANGED <<jobVars, deflakeVars>>
    BY <1>8, HandleFrame, Zenon
  <2>2. UNCHANGED <<run, result, calls, seen>>
    BY <2>1 DEF deflakeVars
  <2>3. HandleInv'
    BY <1>0, <1>8, HandleKeeps, Zenon
  <2> QED BY <1>0, <1>1, <2>1, <2>2, <2>3, ShowsStill, Zenon DEF TriageInv, Shows, NewSeen
<1>9. CASE UNCHANGED vars
  <2>1. UNCHANGED <<jobVars, run, result, pc, calls, seen>> /\ UNCHANGED handleVars
    BY <1>9, Zenon DEF vars, deflakeVars
  <2> QED BY <1>0, <1>1, <2>1, ShowsStill, HandleStill, Zenon DEF TriageInv, Shows, NewSeen
<1> QED BY <1>2, <1>3, <1>4, <1>5, <1>6, <1>7, <1>8, <1>9, Zenon DEF Next, Deflake

INSTANCE WellFoundedInduction

\* A set of numbers has a least one.
LEMMA Least ==
  ASSUME NEW S \in SUBSET Nat, S # {}
  PROVE  \E m \in S : \A n \in S : m <= n
<1>1. PICK R : R = OpToRel(<, Nat)
  BY Zenon
<1>2. PICK m \in S : \A n \in S : ~(<<n, m>> \in R)
  BY <1>1, NatLessThanWellFounded, WFMin, Zenon
<1>3. ASSUME NEW n \in S, n < m PROVE FALSE
  <2>1. <<n, m>> \in R
    BY <1>1, <1>3, Zenon DEF OpToRel
  <2> QED BY <1>2, <2>1
<1> QED BY <1>3

\* Every step of the triage keeps the invariant.
LEMMA NextTriageInv == ASSUME TriageInv, [Next]_vars PROVE TriageInv'
<1>1. LeastExists
  BY Least, Zenon DEF LeastExists
<1> QED BY <1>1, NextKeeps, Zenon

\* minimizeKConfuzzConfig (job.go) removes no action that the signal needs,
\* however the runs flake: only the cap on saved actions does.
THEOREM NoNeededActionRemoved == Spec => []NeededKept
<1>1. TriageInv => NeededKept
  <2>1. red.stage # None => red # NoRed
    BY DEF NoRed
  <2> QED BY <2>1, Zenon DEF TriageInv, HandleInv, Sound, Kept, NeededKept
<1> QED BY <1>1, InitTriageInv, NextTriageInv, PTL DEF Spec

\* handleCall (job.go) saves a program with the signal it was kept for, and that
\* is new signal which the runs of deflake have shown as often as asked.
THEOREM SavedForStableSignal == Spec => []SavedIsNew
<1>1. TriageInv => SavedIsNew
  BY Zenon DEF TriageInv, HandleInv, Wanted, SavedIsNew
<1> QED BY <1>1, InitTriageInv, NextTriageInv, PTL DEF Spec

\* deflake (job.go) stops without stable signal only when none can become stable
\* in the runs that are left.
THEOREM NoEarlyGiveUp == Spec => GivesUpOnlyFlaky
<1> DEFINE Fair(c, e, p) ==
      /\ p < 3 => seen[c][<<e, p + 1>>] = 0
      /\ seen[c][<<e, p>>] > 0
      => \/ seen[c][<<e, p>>] + RunsLeft < needRuns /\ seen[c][<<e, p>>] < run
         \/ Has(calls[c].signals[needRuns - 1], e, p)
<1>1. ASSUME TriageInv, [Next]_vars, call = None, call' # None, ~haveSignal,
             NEW c \in DOMAIN calls \ late, NEW e \in DOMAIN calls[c].newSignal,
             NEW p \in Prios
      PROVE  Fair(c, e, p)
  <2>1. SUFFICES ASSUME p < 3 => seen[c][<<e, p + 1>>] = 0,
                        ~Has(calls[c].signals[needRuns - 1], e, p)
                 PROVE  seen[c][<<e, p>>] + RunsLeft < needRuns /\ seen[c][<<e, p>>] < run
    BY Zenon
  <2>2. stopDeflake
    <3>1. ~(UNCHANGED handleVars)
      BY <1>1, Zenon DEF handleVars
    <3>2. ~Handle
      <4>1. Handle => call' = call
        BY Zenon DEF Handle, ProbeRun, Check, Independent, Dependent, MinimizeProg, ReduceStep,
               Removed, NotRemoved, StrictDone, CompactDone, Compacted, NotCompacted,
               SaveInput, HandleStep
      <4> QED BY <1>1, <4>1
    <3> QED BY <1>1, <3>1, <3>2, Zenon
              DEF Next, Deflake, vars, FirstRun, NextResult, StartJob, Execute,
                                    OtherProgram, HandleCall
  <2>3. /\ calls[c] \in CallInfo /\ seen[c] \in Counts /\ Monotone(seen[c])
        /\ Reliable(seen[c], calls[c].signals) /\ run \in Nat
        /\ fromCorpus \in BOOLEAN /\ snapshot \in BOOLEAN
        /\ seen[c][<<e, calls[c].newSignal[e]>>] >= 1
    BY <1>1, Zenon DEF TriageInv, NewSeen, DeflakeInv, DeflakeTypes, CallInv
  <2> QED BY <1>1, <2>1, <2>2, <2>3, StoppedFlaky, Zenon
<1>2. TriageInv /\ [Next]_vars =>
        [call = None /\ call' # None /\ ~haveSignal =>
           \A c \in DOMAIN calls \ late : \A e \in DOMAIN calls[c].newSignal, p \in Prios :
             Fair(c, e, p)]_vars
  <2> HIDE DEF Fair
  <2> QED BY <1>1
<1> QED BY <1>2, InitTriageInv, NextTriageInv, PTL DEF Spec, GivesUpOnlyFlaky
=============================================================================
