----------------------------- MODULE CorpusProofs -----------------------------
(***************************************************************************)
(* Safety of Corpus, for all programs, parameters and numbers of faults.   *)
(* First what the operations of the database do to its records, to what    *)
(* can be read from its file and to the two together (DB); then what the   *)
(* manager makes of it (Corpus); last that the signal of the corpus        *)
(* survives saves and minimizations (Signal).                              *)
(***************************************************************************)
EXTENDS Corpus, FiniteSetTheorems, TLAPS

Changes == {Put(k) : k \in Keys} \cup {Del(k) : k \in Keys}

DBs == [ver : Nat, log : Seq(Entries), version : Nat, records : SUBSET Keys,
        pending : Seq(Changes), uncompacted : Nat]

-----------------------------------------------------------------------------
(* Numbers and signals.                                                    *)

\* A signal gives its elements priorities.
IsSignal(s) == \A e \in DOMAIN s : s[e] \in Nat

\* A nonempty set of numbers has a least one.
LEMMA Least ==
  ASSUME NEW T \in SUBSET Nat, T # {}
  PROVE  \E x \in T : \A y \in T : x <= y
<1>1. PICK R : R = OpToRel(<, Nat)
  BY Zenon
<1>2. PICK x \in T : \A y \in T : ~(<<y, x>> \in R)
  BY <1>1, NatLessThanWellFounded, WFMin, Zenon
<1>3. ASSUME NEW y \in T, y < x PROVE FALSE
  <2>1. y \in Nat /\ x \in Nat
    OBVIOUS
  <2>2. <<y, x>> \in R
    BY <1>1, <1>3, <2>1, Zenon DEF OpToRel
  <2> QED BY <1>2, <2>2
<1> QED BY <1>3

\* The order of numbers.
LEMMA NoMore ==
  ASSUME NEW x \in Nat, NEW y \in Nat, NEW z \in Nat, x <= y, y <= z
  PROVE  x <= z
OBVIOUS

\* fuzzerLoop and the hub only move to later phases.
LEMMA LaterPhase ==
  ASSUME NEW from \in Nat, from # phaseInit, NEW to,
         \/ to = from
         \/ from = phaseLoadedCorpus /\ to \in {phaseTriagedCorpus, phaseTriagedHub}
         \/ from = phaseTriagedCorpus /\ to \in {phaseQueriedHub, phaseTriagedHub}
         \/ from = phaseQueriedHub /\ to = phaseTriagedHub
  PROVE  to \in Nat /\ to # 0 /\ to >= from
BY DEF phaseInit, phaseLoadedCorpus, phaseTriagedCorpus, phaseQueriedHub, phaseTriagedHub

\* m has the elements of s and t, with the higher of their priorities.
IsMax(m, s, t) ==
  /\ IsSignal(m)
  /\ DOMAIN m = DOMAIN s \cup DOMAIN t
  /\ \A e \in DOMAIN s : s[e] <= m[e]
  /\ \A e \in DOMAIN t : t[e] <= m[e]
  /\ \A e \in DOMAIN m :
       \/ e \in DOMAIN s /\ m[e] = s[e]
       \/ e \in DOMAIN t /\ m[e] = t[e]

\* Merge takes the higher priority of every element.
LEMMA MergeMax ==
  ASSUME NEW s, NEW t, IsSignal(s), IsSignal(t)
  PROVE  IsMax(Merge(s, t), s, t)
<1> DEFINE m == Merge(s, t)
<1>1. /\ DOMAIN m = DOMAIN s \cup DOMAIN t
      /\ \A e \in DOMAIN m : m[e] = IF e \in DOMAIN s /\ (e \in DOMAIN t => t[e] <= s[e])
                               THEN s[e] ELSE t[e]
  BY Zenon DEF Merge, Has
<1> QED BY <1>1 DEF IsMax, IsSignal

\* s has only elements of t, none of them with a higher priority.
Below(s, t) == \A e \in DOMAIN s : e \in DOMAIN t /\ s[e] <= t[e]

\* What is below a signal is below what it becomes by a merge ...
LEMMA BelowMax ==
  ASSUME NEW s, NEW t, NEW u, NEW m, IsSignal(s), IsSignal(t), IsSignal(u),
         IsMax(m, u, t), Below(s, u)
  PROVE  Below(s, m)
BY DEF Below, IsMax, IsSignal

\* ... and stays below it when the same signal is merged into both.
LEMMA MaxBelow ==
  ASSUME NEW s, NEW t, NEW u, NEW m, NEW n, IsSignal(s), IsSignal(t), IsSignal(u),
         IsMax(n, s, t), IsMax(m, u, t), Below(s, u)
  PROVE  Below(n, m)
BY DEF Below, IsMax, IsSignal

-----------------------------------------------------------------------------
(* Sequences and logs.                                                     *)

\* Sequences with the same elements in the same places are the same sequence.
LEMMA SameSequence ==
  ASSUME NEW S, NEW x \in Seq(S), NEW y \in Seq(S), Len(x) = Len(y),
         \A i \in 1 .. Len(x) : x[i] = y[i]
  PROVE  x = y
OBVIOUS

\* Writing no changes leaves a log as it is.
LEMMA NothingAdded ==
  ASSUME NEW S, NEW x \in Seq(S)
  PROVE  x \o <<>> = x
OBVIOUS

\* Append keeps what is there and puts its element behind it.
LEMMA OneAdded ==
  ASSUME NEW S, NEW x \in Seq(S), NEW e \in S, NEW y, y = Append(x, e)
  PROVE  /\ \A i \in 1 .. Len(x) : i \in 1 .. Len(y) /\ y[i] = x[i]
         /\ Len(y) \in 1 .. Len(y) /\ y[Len(y)] = e
OBVIOUS

\* Append keeps the type.
LEMMA AppendType ==
  ASSUME NEW S, NEW x \in Seq(S), NEW e \in S
  PROVE  Append(x, e) \in Seq(S)
OBVIOUS

\* It keeps the elements,
LEMMA AppendKeeps ==
  ASSUME NEW S, NEW x \in Seq(S), NEW e \in S, NEW i \in 1 .. Len(x)
  PROVE  i \in 1 .. Len(Append(x, e)) /\ Append(x, e)[i] = x[i]
OBVIOUS

\* and adds one.
LEMMA AppendAdds ==
  ASSUME NEW S, NEW x \in Seq(S), NEW e \in S
  PROVE  /\ Len(Append(x, e)) \in 1 .. Len(Append(x, e))
         /\ Append(x, e)[Len(Append(x, e))] = e
OBVIOUS

\* Tail moves every element but the first one place down.
LEMMA OneTaken ==
  ASSUME NEW S, NEW x \in Seq(S), NEW i \in 1 .. Len(x), i # 1, NEW y, y = Tail(x)
  PROVE  i - 1 \in 1 .. Len(y) /\ y[i - 1] = x[i]
OBVIOUS

\* The three kinds of entry differ, and so do entries with different keys.
LEMMA EntryKinds ==
  ASSUME NEW k \in Keys, NEW l \in Keys
  PROVE  /\ Put(k) \in Changes /\ Del(k) \in Changes
         /\ Put(k) # Torn /\ Del(k) # Torn
         /\ Put(k) # Del(l)
         /\ Put(k) = Put(l) => k = l
         /\ Del(k) = Del(l) => k = l
<1>1. Put(k).op = "put" /\ Del(k).op = "del" /\ Torn.op = "torn" /\ Del(l).op = "del"
  BY DEF Put, Del, Torn
<1>2. Put(k).key = k /\ Put(l).key = l /\ Del(k).key = k /\ Del(l).key = l
  BY DEF Put, Del
<1> QED BY <1>1, <1>2 DEF Changes

\* What a flush appends for the pending keys are entries of the file.
LEMMA ChangesAreEntries == Changes \subseteq Entries /\ Torn \notin Changes
<1>1. Changes \subseteq Entries
  BY DEF Changes, Entries
<1>2. ASSUME NEW e \in Changes PROVE e # Torn
  BY EntryKinds DEF Changes
<1> QED BY <1>1, <1>2

\* A record is in the file if it was put and not deleted after, in the part of the
\* file that can be read.
LEMMA InFile ==
  ASSUME NEW log, NEW k \in Keys
  PROVE  k \in deserializeDB(log) <=>
           \E i \in DOMAIN log :
             /\ log[i] = Put(k) /\ Readable(log, i)
             /\ \A j \in i + 1 .. Len(log) : log[j] = Del(k) => ~Readable(log, j)
BY DEF deserializeDB

\* An intact log can be read to its end.
LEMMA InIntactFile ==
  ASSUME NEW log \in Seq(Entries), ~Corrupted(log), NEW k \in Keys
  PROVE  k \in deserializeDB(log) <=>
           \E i \in 1 .. Len(log) :
             log[i] = Put(k) /\ \A j \in i + 1 .. Len(log) : log[j] # Del(k)
<1>1. \A i \in 1 .. Len(log) : Readable(log, i)
  BY DEF Readable, Corrupted
<1> QED BY <1>1, InFile

\* What one log after the other is made of.
LEMMA Concatenated ==
  ASSUME NEW log \in Seq(Entries), NEW more \in Seq(Entries)
  PROVE  /\ log \o more \in Seq(Entries)
         /\ Corrupted(log \o more) <=> Corrupted(log) \/ Corrupted(more)
         /\ \A e \in Entries : log \o Append(more, e) = Append(log \o more, e)
<1> DEFINE L == log \o more
<1>1. /\ Len(L) = Len(log) + Len(more) /\ L \in Seq(Entries)
      /\ \A i \in 1 .. Len(log) : L[i] = log[i]
      /\ \A i \in 1 .. Len(more) : L[Len(log) + i] = more[i]
  OBVIOUS
<1>2. Corrupted(L) <=> Corrupted(log) \/ Corrupted(more)
  <2> HIDE DEF L
  <2>1. ASSUME Corrupted(L) PROVE Corrupted(log) \/ Corrupted(more)
    <3>1. PICK i \in 1 .. Len(L) : L[i] = Torn
      BY <1>1, <2>1 DEF Corrupted
    <3>2. CASE i <= Len(log)
      BY <1>1, <3>1, <3>2 DEF Corrupted
    <3>3. CASE i > Len(log)
      <4>1. i - Len(log) \in 1 .. Len(more) /\ Len(log) + (i - Len(log)) = i
        BY <1>1, <3>3
      <4>2. more[i - Len(log)] = Torn
        BY <1>1, <3>1, <4>1
      <4> QED BY <4>1, <4>2 DEF Corrupted
    <3> QED BY <3>2, <3>3
  <2>2. ASSUME Corrupted(log) PROVE Corrupted(L)
    BY <1>1, <2>2 DEF Corrupted
  <2>3. ASSUME Corrupted(more) PROVE Corrupted(L)
    <3>1. PICK i \in 1 .. Len(more) : more[i] = Torn
      BY <2>3 DEF Corrupted
    <3>2. Len(log) + i \in 1 .. Len(L)
      BY <1>1
    <3> QED BY <1>1, <3>1, <3>2 DEF Corrupted
  <2> QED BY <2>1, <2>2, <2>3
<1>3. ASSUME NEW e \in Entries PROVE log \o Append(more, e) = Append(L, e)
  <2>1. log \o Append(more, e) \in Seq(Entries) /\ Append(L, e) \in Seq(Entries)
    OBVIOUS
  <2>2. Len(log \o Append(more, e)) = Len(Append(L, e))
    OBVIOUS
  <2>3. \A i \in 1 .. Len(Append(L, e)) : (log \o Append(more, e))[i] = Append(L, e)[i]
    OBVIOUS
  <2> QED BY <2>1, <2>2, <2>3, SameSequence
<1> QED BY <1>1, <1>2, <1>3

\* The first part of a log decides how far it can be read.
LEMMA ReadableConcat ==
  ASSUME NEW log \in Seq(Entries), NEW more \in Seq(Entries)
  PROVE  /\ \A i \in 1 .. Len(log) : Readable(log \o more, i) <=> Readable(log, i)
         /\ \A i \in 1 .. Len(more) :
              Readable(log \o more, Len(log) + i) <=> ~Corrupted(log) /\ Readable(more, i)
<1> DEFINE L == log \o more
<1>1. /\ Len(L) = Len(log) + Len(more) /\ L \in Seq(Entries)
      /\ \A i \in 1 .. Len(log) : L[i] = log[i]
      /\ \A i \in 1 .. Len(more) : L[Len(log) + i] = more[i]
  OBVIOUS
<1> HIDE DEF L
<1>2. ASSUME NEW i \in 1 .. Len(log) PROVE Readable(L, i) <=> Readable(log, i)
  <2>1. \A j \in 1 .. i : j \in 1 .. Len(log)
    OBVIOUS
  <2> QED BY <1>1, <2>1 DEF Readable
<1>3. ASSUME NEW i \in 1 .. Len(more)
      PROVE  Readable(L, Len(log) + i) <=> ~Corrupted(log) /\ Readable(more, i)
  <2>1. ASSUME Readable(L, Len(log) + i) PROVE ~Corrupted(log) /\ Readable(more, i)
    <3>1. \A j \in 1 .. Len(log) : log[j] # Torn
      BY <1>1, <2>1 DEF Readable
    <3>2. ASSUME NEW j \in 1 .. i PROVE more[j] # Torn
      <4>1. Len(log) + j \in 1 .. Len(log) + i /\ j \in 1 .. Len(more)
        OBVIOUS
      <4> QED BY <1>1, <2>1, <4>1, Zenon DEF Readable
    <3> QED BY <3>1, <3>2 DEF Readable, Corrupted
  <2>2. ASSUME ~Corrupted(log), Readable(more, i) PROVE Readable(L, Len(log) + i)
    <3>1. ASSUME NEW j \in 1 .. Len(log) + i PROVE L[j] # Torn
      <4>1. CASE j <= Len(log)
        BY <1>1, <2>2, <4>1 DEF Corrupted
      <4>2. CASE j > Len(log)
        <5>1. j - Len(log) \in 1 .. i /\ j - Len(log) \in 1 .. Len(more)
              /\ Len(log) + (j - Len(log)) = j
          BY <4>2
        <5> QED BY <1>1, <2>2, <5>1, Zenon DEF Readable
      <4> QED BY <4>1, <4>2
    <3> QED BY <3>1 DEF Readable
  <2> QED BY <2>1, <2>2
<1> QED BY <1>2, <1>3 DEF L

\* What a log holds survives what is written behind it, unless that deletes it.
LEMMA KeptBehind ==
  ASSUME NEW log \in Seq(Entries), NEW more \in Seq(Entries), NEW k \in Keys,
         k \in deserializeDB(log), \A i \in 1 .. Len(more) : more[i] # Del(k)
  PROVE  k \in deserializeDB(log \o more)
<1>1. PICK i \in 1 .. Len(log) :
        /\ log[i] = Put(k) /\ Readable(log, i)
        /\ \A j \in i + 1 .. Len(log) : log[j] = Del(k) => ~Readable(log, j)
  BY InFile
<1>2. /\ Len(log \o more) = Len(log) + Len(more)
      /\ \A j \in 1 .. Len(log) : (log \o more)[j] = log[j]
      /\ \A j \in 1 .. Len(more) : (log \o more)[Len(log) + j] = more[j]
  OBVIOUS
<1>3. Readable(log \o more, i)
  BY <1>1, ReadableConcat
<1>4. ASSUME NEW j \in i + 1 .. Len(log \o more), (log \o more)[j] = Del(k)
      PROVE  ~Readable(log \o more, j)
  <2>1. CASE j <= Len(log)
    <3>1. j \in i + 1 .. Len(log) /\ j \in 1 .. Len(log)
      BY <2>1
    <3> QED BY <1>1, <1>2, <1>4, <3>1, ReadableConcat
  <2>2. CASE j > Len(log)
    <3>1. j - Len(log) \in 1 .. Len(more) /\ Len(log) + (j - Len(log)) = j
      BY <1>2, <2>2
    <3> QED BY <1>2, <1>4, <3>1
  <2> QED BY <2>1, <2>2
<1>5. i \in DOMAIN (log \o more) /\ (log \o more)[i] = Put(k)
  BY <1>1, <1>2
<1> QED BY <1>3, <1>4, <1>5, InFile, Zenon

\* One more entry at the end of an intact log.
LEMMA AppendRead ==
  ASSUME NEW log \in Seq(Entries), ~Corrupted(log), NEW k \in Keys
  PROVE  /\ ~Corrupted(Append(log, Put(k))) /\ ~Corrupted(Append(log, Del(k)))
         /\ deserializeDB(Append(log, Put(k))) = deserializeDB(log) \cup {k}
         /\ deserializeDB(Append(log, Del(k))) = deserializeDB(log) \ {k}
<1>1. Put(k) \in Entries /\ Del(k) \in Entries /\ Put(k) # Torn /\ Del(k) # Torn
  BY EntryKinds, ChangesAreEntries
<1>2. ASSUME NEW e \in Entries, e # Torn
      PROVE  /\ Append(log, e) \in Seq(Entries) /\ ~Corrupted(Append(log, e))
             /\ Len(Append(log, e)) = Len(log) + 1
             /\ Append(log, e)[Len(log) + 1] = e
             /\ \A i \in 1 .. Len(log) : Append(log, e)[i] = log[i]
  BY <1>2 DEF Corrupted
<1>3. ASSUME NEW l \in Keys
      PROVE  l \in deserializeDB(Append(log, Put(k))) <=> l \in deserializeDB(log) \cup {k}
  <2> DEFINE L == Append(log, Put(k))
  <2>1. /\ L \in Seq(Entries) /\ ~Corrupted(L) /\ Len(L) = Len(log) + 1
        /\ L[Len(log) + 1] = Put(k) /\ \A i \in 1 .. Len(log) : L[i] = log[i]
    BY <1>1, <1>2
  <2> HIDE DEF L
  <2>2. Put(k) # Del(l) /\ (Put(k) = Put(l) => k = l)
    BY EntryKinds
  <2>3. ASSUME l \in deserializeDB(log) PROVE l \in deserializeDB(L)
    BY <2>1, <2>2, <2>3, InIntactFile
  <2>4. ASSUME l = k PROVE l \in deserializeDB(L)
    BY <2>1, <2>4, InIntactFile
  <2>5. ASSUME l \in deserializeDB(L), l # k PROVE l \in deserializeDB(log)
    BY <2>1, <2>2, <2>5, InIntactFile
  <2> QED BY <2>3, <2>4, <2>5 DEF L
<1>4. ASSUME NEW l \in Keys
      PROVE  l \in deserializeDB(Append(log, Del(k))) <=> l \in deserializeDB(log) \ {k}
  <2> DEFINE L == Append(log, Del(k))
  <2>1. /\ L \in Seq(Entries) /\ ~Corrupted(L) /\ Len(L) = Len(log) + 1
        /\ L[Len(log) + 1] = Del(k) /\ \A i \in 1 .. Len(log) : L[i] = log[i]
    BY <1>1, <1>2
  <2> HIDE DEF L
  <2>2. Put(l) # Del(k) /\ (Del(k) = Del(l) => k = l)
    BY EntryKinds
  <2>3. ASSUME l \in deserializeDB(log), l # k PROVE l \in deserializeDB(L)
    BY <2>1, <2>2, <2>3, InIntactFile
  <2>4. ASSUME l = k PROVE l \notin deserializeDB(L)
    BY <2>1, <2>2, <2>4, InIntactFile
  <2>5. ASSUME l \in deserializeDB(L), l # k PROVE l \in deserializeDB(log)
    BY <2>1, <2>2, <2>5, InIntactFile
  <2> QED BY <2>3, <2>4, <2>5 DEF L
<1>5. \A L : deserializeDB(L) \subseteq Keys
  BY DEF deserializeDB
<1> QED BY <1>1, <1>2, <1>3, <1>4, <1>5

\* A listing of a finite set has each of its elements once.
LEMMA Listed ==
  ASSUME NEW S, IsFiniteSet(S)
  PROVE  /\ Listing(S) \in [1 .. Cardinality(S) -> S]
         /\ \A x \in S : \E i \in 1 .. Cardinality(S) : Listing(S)[i] = x
         /\ Cardinality(S) \in Nat
<1> DEFINE n == Cardinality(S)
<1>1. n \in Nat /\ ExistsBijection(1 .. n, S)
  BY FS_CardinalityType
<1>2. Injection(1 .. n, S) # {}
  BY <1>1 DEF ExistsBijection, Bijection
<1>3. Listing(S) \in Injection(1 .. n, S)
  BY <1>2 DEF Listing
<1>4. Cardinality(1 .. n) = n
  BY <1>1, FS_Interval
<1>5. Listing(S) \in Surjection(1 .. n, S)
  BY <1>3, <1>4, FS_Injection
<1> QED BY <1>1, <1>3, <1>5 DEF Injection, Surjection

\* What compact writes holds exactly the records it is given.
LEMMA CompactedDB ==
  ASSUME NEW d \in DBs, NEW keys \in SUBSET Keys
  PROVE  LET c == Compacted(d, keys) IN
         /\ c \in DBs /\ c.records = d.records /\ c.pending = d.pending
         /\ ~Corrupted(c.log) /\ deserializeDB(c.log) = keys
<1> DEFINE order == Listing(keys)
           log   == [i \in DOMAIN order |-> Put(order[i])]
           n     == Cardinality(keys)
<1>1. IsFiniteSet(keys)
  BY DBAssumption, FS_Subset
<1>2. /\ n \in Nat /\ order \in [1 .. n -> keys]
      /\ \A k \in keys : \E i \in 1 .. n : order[i] = k
  BY <1>1, Listed
<1> HIDE DEF order, n
<1>3. \A i \in 1 .. n : order[i] \in Keys
  BY <1>2
<1>4. log \in [1 .. n -> Changes]
  BY <1>2, <1>3, EntryKinds
<1>5. log \in Seq(Entries) /\ Len(log) = n /\ \A i \in 1 .. n : log[i] = Put(order[i])
  BY <1>2, <1>4, ChangesAreEntries
<1> HIDE DEF log
<1>6. ~Corrupted(log)
  BY <1>3, <1>5, EntryKinds DEF Corrupted
<1>7. ASSUME NEW k \in Keys PROVE k \in deserializeDB(log) <=> k \in keys
  <2>1. ASSUME k \in keys PROVE k \in deserializeDB(log)
    <3>1. PICK i \in 1 .. n : order[i] = k
      BY <1>2, <2>1
    <3>2. \A j \in 1 .. n : log[j] # Del(k)
      BY <1>3, <1>5, EntryKinds
    <3> QED BY <1>5, <1>6, <3>1, <3>2, InIntactFile
  <2>2. ASSUME k \in deserializeDB(log) PROVE k \in keys
    <3>1. PICK i \in 1 .. n : log[i] = Put(k)
      BY <1>5, <1>6, <2>2, InIntactFile
    <3>2. order[i] = k
      BY <1>3, <1>5, <3>1, EntryKinds
    <3> QED BY <1>2, <3>2
  <2> QED BY <2>1, <2>2
<1>8. deserializeDB(log) = keys
  <2>1. deserializeDB(log) \subseteq Keys
    BY DEF deserializeDB
  <2> QED BY <1>7, <2>1
<1>9. Compacted(d, keys) = [d EXCEPT !.ver = d.version, !.uncompacted = n, !.log = log]
  BY DEF Compacted, order, n, log
<1>10. /\ Compacted(d, keys) \in DBs /\ Compacted(d, keys).log = log
       /\ Compacted(d, keys).records = d.records
       /\ Compacted(d, keys).pending = d.pending
  BY <1>2, <1>5, <1>9, Zenon DEF DBs
<1> QED BY <1>6, <1>8, <1>10

-----------------------------------------------------------------------------
(* Operations.                                                             *)

\* File and pending changes together are what is in memory (Mirrored of Corpus).
Intact(d) == ~Corrupted(d.log) /\ deserializeDB(d.log \o d.pending) = d.records

\* The records that pending changes delete.
Deleted(d) == {k \in Keys : \E i \in 1 .. Len(d.pending) : d.pending[i] = Del(k)}

\* A change recorded at the end of pending.
LEMMA Recorded ==
  ASSUME NEW d \in DBs, Intact(d), NEW k \in Keys
  PROVE  /\ deserializeDB(d.log \o Append(d.pending, Put(k))) = d.records \cup {k}
         /\ deserializeDB(d.log \o Append(d.pending, Del(k))) = d.records \ {k}
<1>1. d.log \in Seq(Entries) /\ d.pending \in Seq(Changes) /\ d.pending \in Seq(Entries)
  BY ChangesAreEntries DEF DBs
<1>2. /\ d.log \o d.pending \in Seq(Entries) /\ ~Corrupted(d.log \o d.pending)
      /\ \A e \in Entries : d.log \o Append(d.pending, e) = Append(d.log \o d.pending, e)
  <2>1. ~Corrupted(d.log) /\ ~Corrupted(d.pending)
    BY <1>1, ChangesAreEntries DEF Intact, Corrupted
  <2> QED BY <1>1, <2>1, Concatenated, Zenon
<1>4. Put(k) \in Entries /\ Del(k) \in Entries
  BY EntryKinds, ChangesAreEntries
<1>5. deserializeDB(d.log \o d.pending) = d.records
  BY DEF Intact
<1> QED BY <1>2, <1>4, <1>5, AppendRead, Zenon

\* Save adds the record in memory, and an intact database stays one.
LEMMA SaveDB ==
  ASSUME NEW d \in DBs, NEW k \in Keys
  PROVE  /\ Save(d, k) \in DBs /\ Save(d, k).log = d.log
         /\ Save(d, k).records = d.records \cup {k}
         /\ Deleted(Save(d, k)) = Deleted(d)
         /\ Intact(d) => Intact(Save(d, k))
<1>1. CASE k \in d.records
  BY <1>1 DEF Save, DBs
<1>2. CASE k \notin d.records
  <2> DEFINE s == [d EXCEPT !.records = @ \cup {k}, !.pending = Append(@, Put(k)),
                            !.uncompacted = @ + 1]
  <2>1. Save(d, k) = s
    BY <1>2 DEF Save
  <2>2. /\ s \in DBs /\ s.log = d.log /\ s.records = d.records \cup {k}
        /\ s.pending = Append(d.pending, Put(k))
    <3>1. /\ Append(d.pending, Put(k)) \in Seq(Changes) /\ d.uncompacted + 1 \in Nat
          /\ d.records \cup {k} \in SUBSET Keys
      BY EntryKinds DEF DBs
    <3>2. PICK recs \in SUBSET Keys, p \in Seq(Changes), n \in Nat :
            recs = d.records \cup {k} /\ p = Append(d.pending, Put(k)) /\ n = d.uncompacted + 1
      BY <3>1, Zenon
    <3>3. s = [d EXCEPT !.records = recs, !.pending = p, !.uncompacted = n]
      BY <3>2
    <3> HIDE DEF s
    <3> QED BY <3>2, <3>3, Zenon DEF DBs
  <2> HIDE DEF s
  <2>3. Deleted(s) = Deleted(d)
    <3>1. \A l \in Keys : Put(k) # Del(l)
      BY EntryKinds
    <3>2. d.pending \in Seq(Changes)
      BY DEF DBs
    <3> QED BY <2>2, <3>1, <3>2 DEF Deleted
  <2>4. Intact(d) => Intact(s)
    BY <2>2, Recorded DEF Intact
  <2> QED BY <2>1, <2>2, <2>3, <2>4
<1> QED BY <1>1, <1>2

\* Delete removes the record in memory, and an intact database stays one.
LEMMA DeleteDB ==
  ASSUME NEW d \in DBs, NEW k \in Keys
  PROVE  /\ Delete(d, k) \in DBs /\ Delete(d, k).log = d.log
         /\ Delete(d, k).records = d.records \ {k}
         /\ Deleted(Delete(d, k)) \subseteq Deleted(d) \cup {k}
         /\ Intact(d) => Intact(Delete(d, k))
<1>1. CASE k \notin d.records
  BY <1>1 DEF Delete, DBs
<1>2. CASE k \in d.records
  <2> DEFINE s == [d EXCEPT !.records = @ \ {k}, !.pending = Append(@, Del(k)),
                            !.uncompacted = @ + 1]
  <2>1. Delete(d, k) = s
    BY <1>2 DEF Delete
  <2>2. /\ s \in DBs /\ s.log = d.log /\ s.records = d.records \ {k}
        /\ s.pending = Append(d.pending, Del(k))
    <3>1. /\ Append(d.pending, Del(k)) \in Seq(Changes) /\ d.uncompacted + 1 \in Nat
          /\ d.records \ {k} \in SUBSET Keys
      BY EntryKinds DEF DBs
    <3>2. PICK recs \in SUBSET Keys, p \in Seq(Changes), n \in Nat :
            recs = d.records \ {k} /\ p = Append(d.pending, Del(k)) /\ n = d.uncompacted + 1
      BY <3>1, Zenon
    <3>3. s = [d EXCEPT !.records = recs, !.pending = p, !.uncompacted = n]
      BY <3>2
    <3> HIDE DEF s
    <3> QED BY <3>2, <3>3, Zenon DEF DBs
  <2> HIDE DEF s
  <2>3. Deleted(s) \subseteq Deleted(d) \cup {k}
    <3>1. \A l \in Keys : Del(k) = Del(l) => k = l
      BY EntryKinds
    <3>2. d.pending \in Seq(Changes)
      BY DEF DBs
    <3> QED BY <2>2, <3>1, <3>2 DEF Deleted
  <2>4. Intact(d) => Intact(s)
    BY <2>2, Recorded DEF Intact
  <2> QED BY <2>1, <2>2, <2>3, <2>4
<1> QED BY <1>1, <1>2

\* A database without pending changes has no pending deletions.
LEMMA NothingDeleted ==
  ASSUME NEW d, d.pending = <<>>
  PROVE  Deleted(d) = {}
BY DEF Deleted

\* Appending to the log twice is appending both in one go.
LEMMA InOneGo ==
  ASSUME NEW log \in Seq(Entries), NEW a \in Seq(Entries), NEW b \in Seq(Entries)
  PROVE  (log \o a) \o b = log \o (a \o b)
<1>1. PICK x, y : x = (log \o a) \o b /\ y = log \o (a \o b)
  BY Zenon
<1>2. x \in Seq(Entries) /\ y \in Seq(Entries) /\ Len(x) = Len(y)
  BY <1>1
<1>3. \A i \in 1 .. Len(x) : x[i] = y[i]
  BY <1>1
<1> QED BY <1>1, <1>2, <1>3, SameSequence

\* Deletions at the end of an intact log.
LEMMA DeletionsRead ==
  ASSUME NEW log \in Seq(Entries), ~Corrupted(log), NEW dels \in Seq(Changes),
         NEW keys \in SUBSET Keys,
         \A i \in 1 .. Len(dels) : \E k \in keys : dels[i] = Del(k),
         \A k \in keys : \E i \in 1 .. Len(dels) : dels[i] = Del(k)
  PROVE  deserializeDB(log \o dels) = deserializeDB(log) \ keys
<1>1. dels \in Seq(Entries) /\ ~Corrupted(dels)
  BY ChangesAreEntries DEF Corrupted
<1>2. PICK L : L = log \o dels
  BY Zenon
<1>3. L \in Seq(Entries) /\ ~Corrupted(L)
  BY <1>1, <1>2, Concatenated
<1>4. /\ Len(L) = Len(log) + Len(dels)
      /\ \A i \in 1 .. Len(log) : L[i] = log[i]
      /\ \A i \in 1 .. Len(dels) : L[Len(log) + i] = dels[i]
  BY <1>1, <1>2
<1>5. ASSUME NEW k \in Keys PROVE k \in deserializeDB(L) <=> k \in deserializeDB(log) \ keys
  <2>1. ASSUME k \in deserializeDB(log), k \notin keys PROVE k \in deserializeDB(L)
    <3>1. \A i \in 1 .. Len(dels) : dels[i] # Del(k)
      BY <2>1, EntryKinds
    <3> QED BY <1>1, <1>2, <2>1, <3>1, KeptBehind
  <2>2. ASSUME k \in deserializeDB(L) PROVE k \in deserializeDB(log) /\ k \notin keys
    <3>1. PICK i \in 1 .. Len(L) : L[i] = Put(k) /\ \A j \in i + 1 .. Len(L) : L[j] # Del(k)
      BY <1>3, <2>2, InIntactFile
    <3>2. i <= Len(log)
      <4>1. SUFFICES ASSUME i > Len(log) PROVE FALSE
        BY <1>4
      <4>2. i - Len(log) \in 1 .. Len(dels) /\ Len(log) + (i - Len(log)) = i
        BY <1>4, <4>1
      <4>3. dels[i - Len(log)] = Put(k)
        BY <1>4, <3>1, <4>2, Zenon
      <4> QED BY <4>2, <4>3, EntryKinds, Zenon
    <3>3. k \in deserializeDB(log)
      BY <1>4, <3>1, <3>2, InIntactFile
    <3>4. ASSUME NEW j \in 1 .. Len(dels) PROVE dels[j] # Del(k)
      <4>1. Len(log) + j \in i + 1 .. Len(L)
        BY <1>4, <3>2
      <4> QED BY <1>4, <3>1, <4>1, Zenon
    <3> QED BY <3>3, <3>4
  <2> QED BY <2>1, <2>2
<1>6. \A M : deserializeDB(M) \subseteq Keys
  BY Zenon DEF deserializeDB
<1> QED BY <1>2, <1>5, <1>6

\* So does deleting several records.
LEMMA DeleteAllDB ==
  ASSUME NEW d \in DBs, NEW keys \in SUBSET d.records
  PROVE  /\ DeleteAll(d, keys) \in DBs /\ DeleteAll(d, keys).log = d.log
         /\ DeleteAll(d, keys).records = d.records \ keys
         /\ Deleted(DeleteAll(d, keys)) \subseteq Deleted(d) \cup keys
         /\ Intact(d) => Intact(DeleteAll(d, keys))
<1>1. /\ d.log \in Seq(Entries) /\ d.pending \in Seq(Changes) /\ d.records \in SUBSET Keys
      /\ d.uncompacted \in Nat
  BY DEF DBs
<1>2. IsFiniteSet(keys)
  BY <1>1, DBAssumption, FS_Subset
<1> PICK order : order = Listing(keys)
  OBVIOUS
<1> PICK n : n = Cardinality(keys)
  OBVIOUS
<1>3. /\ n \in Nat /\ order \in [1 .. n -> keys]
      /\ \A k \in keys : \E i \in 1 .. n : order[i] = k
  BY <1>2, Listed
<1>4. PICK dels : dels = [i \in DOMAIN order |-> Del(order[i])]
  BY Zenon
<1>5. \A i \in 1 .. n : order[i] \in Keys
  BY <1>1, <1>3
<1>6. dels \in [1 .. n -> Changes]
  BY <1>3, <1>4, <1>5, EntryKinds
<1>7. dels \in Seq(Changes) /\ Len(dels) = n /\ \A i \in 1 .. n : dels[i] = Del(order[i])
  BY <1>3, <1>4, <1>6
<1>8. PICK recs \in SUBSET Keys, p \in Seq(Changes), m \in Nat :
        recs = d.records \ keys /\ p = d.pending \o dels /\ m = d.uncompacted + n
  <2>1. d.pending \o dels \in Seq(Changes)
    BY <1>1, <1>7
  <2>2. d.uncompacted + n \in Nat
    BY <1>1, <1>3
  <2> QED BY <1>1, <2>1, <2>2, Zenon
<1>9. PICK s : s = DeleteAll(d, keys)
  OBVIOUS
<1>10. s = [d EXCEPT !.records = recs, !.uncompacted = m, !.pending = p]
  BY <1>3, <1>4, <1>8, <1>9 DEF DeleteAll
<1>11. s \in DBs /\ s.log = d.log /\ s.records = recs /\ s.pending = p
  BY <1>10, Zenon DEF DBs
<1>12. Deleted(s) \subseteq Deleted(d) \cup keys
  <2>1. ASSUME NEW k \in Keys, NEW i \in 1 .. Len(p), p[i] = Del(k)
        PROVE  k \in Deleted(d) \cup keys
    <3>1. CASE i <= Len(d.pending)
      <4>1. i \in 1 .. Len(d.pending) /\ p[i] = d.pending[i]
        BY <1>1, <1>7, <1>8, <3>1
      <4> QED BY <2>1, <4>1, Zenon DEF Deleted
    <3>2. CASE i > Len(d.pending)
      <4>1. PICK j \in 1 .. n : p[i] = dels[j]
        <5>1. i - Len(d.pending) \in 1 .. n /\ p[i] = dels[i - Len(d.pending)]
          BY <1>1, <1>7, <1>8, <3>2
        <5> QED BY <5>1
      <4>2. order[j] \in Keys /\ Del(order[j]) = Del(k)
        BY <1>5, <1>7, <2>1, <4>1
      <4>3. order[j] = k
        BY <4>2, EntryKinds, Zenon
      <4> QED BY <1>3, <4>1, <4>3
    <3> QED BY <1>1, <3>1, <3>2
  <2> QED BY <1>11, <2>1 DEF Deleted
<1>13. ASSUME Intact(d) PROVE Intact(s)
  <2>1. d.pending \in Seq(Entries) /\ dels \in Seq(Entries) /\ ~Corrupted(d.pending)
    BY <1>1, <1>7, ChangesAreEntries DEF Corrupted
  <2>2. PICK log \in Seq(Entries), old \in Seq(Entries) : log = d.log /\ old = d.pending
    BY <1>1, <2>1
  <2>3. PICK L : L = log \o old
    BY Zenon
  <2>4. L \in Seq(Entries) /\ ~Corrupted(L) /\ deserializeDB(L) = d.records
    BY <1>13, <2>1, <2>2, <2>3, Concatenated DEF Intact
  <2>5. log \o (old \o dels) = L \o dels
    <3>1. dels \in Seq(Entries)
      BY <2>1, Zenon
    <3>2. (log \o old) \o dels = log \o (old \o dels)
      BY <3>1, InOneGo, Zenon
    <3> QED BY <2>3, <3>2, Zenon
  <2>6. deserializeDB(L \o dels) = deserializeDB(L) \ keys
    <3>1. \A i \in 1 .. Len(dels) : \E k \in keys : dels[i] = Del(k)
      BY <1>3, <1>7
    <3>2. \A k \in keys : \E i \in 1 .. Len(dels) : dels[i] = Del(k)
      BY <1>3, <1>7
    <3>3. keys \in SUBSET Keys
      BY <1>1
    <3>4. L \in Seq(Entries) /\ ~Corrupted(L) /\ dels \in Seq(Changes)
      BY <1>7, <2>4
    <3> QED BY <3>1, <3>2, <3>3, <3>4, DeletionsRead, Zenon
  <2> QED BY <1>8, <1>11, <1>13, <2>2, <2>4, <2>5, <2>6 DEF Intact
<1> QED BY <1>8, <1>9, <1>11, <1>12, <1>13

\* What the outcome r of a write may do to the database d: the records in memory stay,
\* and those in the file, too, unless a pending change deletes them.
Wrote(d, r) ==
  /\ r.db \in DBs /\ r.err \in BOOLEAN
  /\ r.db.records = d.records
  /\ Deleted(r.db) \subseteq Deleted(d)
  /\ deserializeDB(d.log) \subseteq deserializeDB(r.db.log) \cup Deleted(d)

\* An outcome that leaves the database as it is.
LEMMA WroteNothing ==
  ASSUME NEW d \in DBs
  PROVE  /\ Wrote(d, Failed(d)) /\ Wrote(d, Ok(d))
         /\ Failed(d).err /\ ~Ok(d).err /\ Ok(d).db = d
BY DEF Wrote, Failed, Ok, DBs

\* A rewritten file that holds what the old one did.
LEMMA Unchanged ==
  ASSUME NEW a \in DBs, NEW r, Wrote(a, r), r.db.pending = a.pending, a.pending = <<>>,
         Intact(a), ~Corrupted(r.db.log), deserializeDB(r.db.log) = deserializeDB(a.log)
  PROVE  Intact(r.db)
<1>1. PICK old \in Seq(Entries), new \in Seq(Entries) : old = a.log /\ new = r.db.log
  BY DEF DBs, Wrote
<1>2. old \o <<>> = old /\ new \o <<>> = new
  BY NothingAdded
<1> QED BY <1>1, <1>2 DEF Intact, Wrote

\* A compaction keeps what the file holds, and only fails on an error or a corrupted file.
LEMMA compactDB ==
  ASSUME NEW d \in DBs, NEW m \in BOOLEAN, NEW r \in compact(d, m)
  PROVE  /\ Wrote(d, r) /\ r.db.pending = d.pending
         /\ r.err => m \/ Corrupted(d.log)
         /\ ~r.err => ~Corrupted(r.db.log) /\ deserializeDB(r.db.log) = deserializeDB(d.log)
<1>1. CASE r = Failed(d)
  <2>1. r.err /\ r.db = d
    BY <1>1 DEF Failed
  <2>2. m \/ Corrupted(d.log)
    <3>1. SUFFICES ASSUME ~m, ~Corrupted(d.log) PROVE FALSE
      OBVIOUS
    <3>2. r = Ok(Compacted(d, deserializeDB(d.log)))
      BY <3>1 DEF compact
    <3> QED BY <2>1, <3>2 DEF Ok
  <2> QED BY <1>1, <2>1, <2>2, WroteNothing
<1>2. CASE r # Failed(d)
  <2>1. r = Ok(Compacted(d, deserializeDB(d.log)))
    BY <1>2 DEF compact
  <2>2. r.err = FALSE /\ r.db = Compacted(d, deserializeDB(d.log))
    BY <2>1 DEF Ok
  <2>3. deserializeDB(d.log) \in SUBSET Keys
    BY DEF deserializeDB
  <2>4. /\ r.db \in DBs /\ r.db.records = d.records /\ r.db.pending = d.pending
        /\ ~Corrupted(r.db.log) /\ deserializeDB(r.db.log) = deserializeDB(d.log)
    BY <2>2, <2>3, CompactedDB
  <2>5. Deleted(r.db) = Deleted(d)
    BY <2>4 DEF Deleted
  <2> QED BY <2>2, <2>4, <2>5, Zenon DEF Wrote
<1> QED BY <1>1, <1>2

\* Writing part of the pending changes.
LEMMA PartWritten ==
  ASSUME NEW d \in DBs, NEW more \in Seq(Entries),
         \A i \in 1 .. Len(more) :
           more[i] = Torn \/ \E j \in 1 .. Len(d.pending) : more[i] = d.pending[j]
  PROVE  deserializeDB(d.log) \subseteq deserializeDB(d.log \o more) \cup Deleted(d)
<1> SUFFICES ASSUME NEW k \in deserializeDB(d.log), k \notin Deleted(d)
             PROVE  k \in deserializeDB(d.log \o more)
  OBVIOUS
<1>1. k \in Keys /\ d.log \in Seq(Entries)
  BY DEF deserializeDB, DBs
<1>2. \A i \in 1 .. Len(more) : more[i] # Del(k)
  BY <1>1, EntryKinds DEF Deleted
<1> QED BY <1>1, <1>2, KeptBehind

\* A successful append leaves no pending changes.
\* The elements of a sequence after an Append.
LEMMA AppendedDB ==
  ASSUME NEW d \in DBs
  PROVE  /\ Appended(d) \in DBs /\ Appended(d).records = d.records
         /\ Appended(d).pending = <<>> /\ Appended(d).log = d.log \o d.pending
         /\ Deleted(Appended(d)) = {}
         /\ deserializeDB(d.log) \subseteq deserializeDB(Appended(d).log) \cup Deleted(d)
         /\ Intact(d) => ~Corrupted(Appended(d).log) /\ Intact(Appended(d))
<1>1. d.log \in Seq(Entries) /\ d.pending \in Seq(Entries) /\ ~Corrupted(d.pending)
  BY ChangesAreEntries DEF DBs, Corrupted
<1>2. PICK log \in Seq(Entries), none \in Seq(Changes) :
        log = d.log \o d.pending /\ none = <<>>
  <2>1. d.log \o d.pending \in Seq(Entries)
    BY <1>1, Concatenated
  <2>2. <<>> \in Seq(Changes)
    OBVIOUS
  <2> QED BY <2>1, <2>2, Zenon
<1>3. PICK a : a = Appended(d)
  OBVIOUS
<1>4. a = [d EXCEPT !.log = log, !.pending = none]
  BY <1>2, <1>3 DEF Appended
<1>5. a \in DBs /\ a.records = d.records /\ a.pending = <<>> /\ a.log = log
  BY <1>2, <1>4, Zenon DEF DBs
<1>6. Deleted(a) = {}
  BY <1>5 DEF Deleted
<1>7. deserializeDB(d.log) \subseteq deserializeDB(d.log \o d.pending) \cup Deleted(d)
  BY <1>1, PartWritten
<1>8. ASSUME Intact(d) PROVE ~Corrupted(log) /\ Intact(a)
  <2>1. ~Corrupted(log)
    BY <1>1, <1>2, <1>8, Concatenated DEF Intact
  <2>2. log \o <<>> = log
    BY NothingAdded
  <2> QED BY <1>2, <1>5, <1>8, <2>1, <2>2 DEF Intact
<1> QED BY <1>2, <1>3, <1>5, <1>6, <1>7, <1>8

\* A failed append.
LEMMA PartialWritesDB ==
  ASSUME NEW d \in DBs, NEW e \in PartialWrites(d)
  PROVE  Wrote(d, Failed(e))
<1>1. /\ d.log \in Seq(Entries) /\ d.pending \in Seq(Entries) /\ Torn \in Entries
      /\ d.pending \in Seq(Changes)
  BY ChangesAreEntries DEF DBs, Entries
<1>2. PICK i \in DOMAIN d.pending, rest \in {<<>>, <<Torn>>} :
        e = WrittenUpTo(d, i, rest)
  BY DEF PartialWrites
<1>3. PICK p : p = d.pending
  OBVIOUS
<1>4. PICK part : part = SubSeq(p, 1, i - 1)
  BY Zenon
<1>5. /\ p \in Seq(Entries) /\ part \in Seq(Entries) /\ Len(part) = i - 1 /\ i \in 1 .. Len(p)
      /\ \A j \in 1 .. Len(part) : part[j] = p[j]
  BY <1>1, <1>3, <1>4
<1>6. /\ rest \in Seq(Entries) /\ \A j \in 1 .. Len(rest) : rest[j] = Torn
  <2>1. CASE rest = <<>>
    BY <2>1
  <2>2. CASE rest = <<Torn>>
    BY <1>1, <2>2
  <2> QED BY <2>1, <2>2, Zenon
<1>7. PICK log \in Seq(Entries), more \in Seq(Entries) : log = d.log /\ more = part \o rest
  <2>1. part \o rest \in Seq(Entries)
    BY <1>5, <1>6
  <2> QED BY <1>1, <2>1, Zenon
<1>8. (log \o part) \o rest = log \o more
  <2>1. part \in Seq(Entries) /\ rest \in Seq(Entries)
    BY <1>5, <1>6, Zenon
  <2>2. (log \o part) \o rest = log \o (part \o rest)
    BY <2>1, InOneGo, Zenon
  <2>3. more = part \o rest
    BY <1>7, Zenon
  <2> QED BY <2>2, <2>3, Zenon
<1>9. PICK all \in Seq(Entries) : all = log \o more
  <2>1. log \o more \in Seq(Entries)
    BY <1>7
  <2> QED BY <2>1, Zenon
<1>10. e = [d EXCEPT !.log = all]
  BY <1>2, <1>3, <1>4, <1>7, <1>8, <1>9, Zenon DEF WrittenUpTo
<1>11. e \in DBs /\ e.log = all /\ e.records = d.records /\ e.pending = d.pending
  BY <1>10, Zenon DEF DBs
<1>12. \A j \in 1 .. Len(more) : more[j] = Torn \/ \E l \in 1 .. Len(p) : more[j] = p[l]
  <2>1. ASSUME NEW j \in 1 .. Len(more)
        PROVE  more[j] = Torn \/ \E l \in 1 .. Len(p) : more[j] = p[l]
    <3>1. CASE j <= Len(part)
      <4>1. j \in 1 .. Len(p) /\ more[j] = p[j]
        BY <1>5, <1>6, <1>7, <3>1
      <4> QED BY <4>1
    <3>2. CASE j > Len(part)
      <4>1. j - Len(part) \in 1 .. Len(rest) /\ more[j] = rest[j - Len(part)]
        BY <1>5, <1>6, <1>7, <3>2
      <4> QED BY <1>6, <4>1
    <3> QED BY <1>5, <3>1, <3>2
  <2> QED BY <2>1
<1>13. deserializeDB(d.log) \subseteq deserializeDB(all) \cup Deleted(d)
  <2>1. \A j \in 1 .. Len(more) :
          more[j] = Torn \/ \E l \in 1 .. Len(d.pending) : more[j] = d.pending[l]
    BY <1>3, <1>12, Zenon
  <2>2. deserializeDB(d.log) \subseteq deserializeDB(d.log \o more) \cup Deleted(d)
    BY <2>1, PartWritten, Zenon
  <2>3. all = d.log \o more
    BY <1>7, <1>9, Zenon
  <2> QED BY <2>2, <2>3, Zenon
<1>14. Deleted(e) = Deleted(d)
  BY <1>11 DEF Deleted
<1>15. Failed(e).db = e /\ Failed(e).err = TRUE
  BY Zenon DEF Failed
<1> QED BY <1>11, <1>13, <1>14, <1>15, Zenon DEF Wrote

\* Flush keeps the records and what the file holds, up to the deletions asked for.  It
\* fails on an intact database only where a write may fail, and otherwise leaves it intact.
LEMMA FlushDB ==
  ASSUME NEW d \in DBs, NEW m \in BOOLEAN, NEW r \in Flush(d, m)
  PROVE  /\ Wrote(d, r)
         /\ ~r.err => r.db.pending = <<>>
         /\ Intact(d) /\ r.err => m
         /\ Intact(d) /\ ~r.err => Intact(r.db) /\ ~Corrupted(r.db.log)
<1>1. CASE d.pending = <<>>
  <2>1. r = Ok(d)
    BY <1>1 DEF Flush
  <2>2. Intact(d) => ~Corrupted(d.log)
    BY DEF Intact
  <2> QED BY <1>1, <2>1, <2>2, WroteNothing
<1>2. CASE d.pending # <<>> /\ m /\ \E e \in PartialWrites(d) : r = Failed(e)
  <2>1. PICK e \in PartialWrites(d) : r = Failed(e)
    BY <1>2
  <2>2. r.err
    BY <2>1 DEF Failed
  <2> QED BY <1>2, <2>1, <2>2, PartialWritesDB
<1>3. CASE d.pending # <<>> /\ r = Ok(Appended(d))
  <2>1. r.db = Appended(d) /\ r.err = FALSE
    BY <1>3 DEF Ok
  <2>2. PICK a \in DBs : a = Appended(d)
    BY AppendedDB, Zenon
  <2>3. /\ a.records = d.records /\ a.pending = <<>> /\ Deleted(a) = {}
        /\ deserializeDB(d.log) \subseteq deserializeDB(a.log) \cup Deleted(d)
        /\ Intact(d) => ~Corrupted(a.log) /\ Intact(a)
    BY <2>2, AppendedDB, Zenon
  <2>4. Wrote(d, r)
    BY <2>1, <2>2, <2>3, Zenon DEF Wrote
  <2> QED BY <2>1, <2>2, <2>3, <2>4
<1>4. CASE d.pending # <<>> /\ r \in compact(Appended(d), m)
  <2>1. PICK a \in DBs : a = Appended(d)
    BY AppendedDB, Zenon
  <2>2. /\ a.records = d.records /\ a.pending = <<>> /\ Deleted(a) = {}
        /\ deserializeDB(d.log) \subseteq deserializeDB(a.log) \cup Deleted(d)
        /\ Intact(d) => ~Corrupted(a.log) /\ Intact(a)
    BY <2>1, AppendedDB, Zenon
  <2>3. r \in compact(a, m)
    BY <1>4, <2>1
  <2>4. /\ Wrote(a, r) /\ r.db.pending = a.pending
        /\ r.err => m \/ Corrupted(a.log)
        /\ ~r.err => ~Corrupted(r.db.log) /\ deserializeDB(r.db.log) = deserializeDB(a.log)
    BY <2>3, compactDB, Zenon
  <2>5. Wrote(d, r)
    BY <2>2, <2>4, Zenon DEF Wrote
  <2>6. Intact(d) /\ ~r.err => Intact(r.db)
    BY <2>2, <2>4, Unchanged
  <2> QED BY <2>2, <2>4, <2>5, <2>6
<1> QED BY <1>1, <1>2, <1>3, <1>4, Zenon DEF Flush

\* Recording another version.
LEMMA Versioned ==
  ASSUME NEW d \in DBs, NEW v \in Nat
  PROVE  LET e == [d EXCEPT !.version = v] IN
         /\ e \in DBs /\ e.log = d.log /\ e.records = d.records /\ e.pending = d.pending
         /\ Deleted(e) = Deleted(d) /\ (Intact(e) <=> Intact(d))
<1>1. PICK e : e = [d EXCEPT !.version = v]
  BY Zenon
<1>2. e \in DBs /\ e.log = d.log /\ e.records = d.records /\ e.pending = d.pending
  BY <1>1, Zenon DEF DBs
<1>3. Deleted(e) = Deleted(d) /\ (Intact(e) <=> Intact(d))
  BY <1>2, Zenon DEF Deleted, Intact
<1> QED BY <1>1, <1>2, <1>3

\* The same of BumpVersion.
LEMMA BumpVersionDB ==
  ASSUME NEW d \in DBs, NEW v \in Nat, NEW m \in BOOLEAN, NEW r \in BumpVersion(d, v, m)
  PROVE  /\ Wrote(d, r)
         /\ ~r.err => r.db.pending = <<>>
         /\ Intact(d) /\ r.err => m
         /\ Intact(d) /\ ~r.err => Intact(r.db) /\ ~Corrupted(r.db.log)
<1>1. PICK f \in Flush(d, m) :
        r \in IF f.err \/ f.db.version = v THEN {f} ELSE compact([f.db EXCEPT !.version = v], m)
  BY DEF BumpVersion
<1>2. /\ Wrote(d, f)
      /\ ~f.err => f.db.pending = <<>>
      /\ Intact(d) /\ f.err => m
      /\ Intact(d) /\ ~f.err => Intact(f.db) /\ ~Corrupted(f.db.log)
  BY FlushDB
<1>3. CASE f.err \/ f.db.version = v
  BY <1>1, <1>2, <1>3, Zenon
<1>4. CASE ~(f.err \/ f.db.version = v)
  <2>1. f.db \in DBs
    BY <1>2 DEF Wrote
  <2>2. PICK e : e = [f.db EXCEPT !.version = v]
    BY Zenon
  <2>3. /\ e \in DBs /\ e.log = f.db.log /\ e.records = f.db.records /\ e.pending = f.db.pending
        /\ Deleted(e) = Deleted(f.db) /\ (Intact(e) <=> Intact(f.db))
    BY <2>1, <2>2, Versioned
  <2>4. r \in compact(e, m)
    BY <1>1, <1>4, <2>2, Zenon
  <2>5. /\ Wrote(e, r) /\ r.db.pending = e.pending
        /\ r.err => m \/ Corrupted(e.log)
        /\ ~r.err => ~Corrupted(r.db.log) /\ deserializeDB(r.db.log) = deserializeDB(e.log)
    BY <2>3, <2>4, compactDB, Zenon
  <2>6. Wrote(d, r)
    <3>1. Deleted(r.db) \subseteq Deleted(d) /\ Deleted(f.db) \subseteq Deleted(d)
      BY <1>2, <2>3, <2>5, Zenon DEF Wrote
    <3>2. deserializeDB(d.log) \subseteq deserializeDB(r.db.log) \cup Deleted(d)
      <4>1. deserializeDB(d.log) \subseteq deserializeDB(f.db.log) \cup Deleted(d)
        BY <1>2, Zenon DEF Wrote
      <4>2. deserializeDB(f.db.log) \subseteq deserializeDB(r.db.log) \cup Deleted(f.db)
        BY <2>3, <2>5, Zenon DEF Wrote
      <4> QED BY <3>1, <4>1, <4>2, Zenon
    <3>3. r.db \in DBs /\ r.err \in BOOLEAN /\ r.db.records = d.records
      BY <1>2, <2>3, <2>5, Zenon DEF Wrote
    <3> QED BY <3>1, <3>2, <3>3, Zenon DEF Wrote
  <2>7. Intact(d) /\ ~r.err => Intact(r.db)
    BY <1>2, <1>4, <2>3, <2>5, Unchanged, Zenon
  <2> QED BY <1>2, <1>4, <2>3, <2>5, <2>6, <2>7, Zenon
<1> QED BY <1>3, <1>4

\* Open keeps whatever can be read, in memory and in the file it writes.
LEMMA OpenDB ==
  ASSUME NEW d \in DBs, NEW m \in BOOLEAN, NEW r \in Open(d, m)
  PROVE  /\ r.err \in BOOLEAN
         /\ r.err => r.db = d
         /\ ~r.err => /\ r.db \in DBs /\ Intact(r.db) /\ r.db.pending = <<>>
                     /\ r.db.records = deserializeDB(d.log)
                     /\ deserializeDB(r.db.log) = deserializeDB(d.log)
<1>1. CASE r = Failed(d)
  <2>1. r.err = TRUE /\ r.db = d
    BY <1>1 DEF Failed
  <2> QED BY <2>1, Zenon
<1>2. CASE r # Failed(d)
  <2>1. PICK keys \in SUBSET Keys : keys = deserializeDB(d.log)
    BY Zenon DEF deserializeDB
  <2>2. PICK none \in Seq(Changes) : none = <<>>
    <3>1. <<>> \in Seq(Changes)
      OBVIOUS
    <3> QED BY <3>1, Zenon
  <2>3. PICK l : l = [d EXCEPT !.version = d.ver, !.records = keys, !.pending = none]
    OBVIOUS
  <2>4. l \in DBs /\ l.log = d.log /\ l.records = keys /\ l.pending = none
    BY <2>3, Zenon DEF DBs
  <2>5. r = Ok(Compacted(l, keys))
    BY <1>2, <2>1, <2>2, <2>3 DEF Open
  <2>6. r.err = FALSE /\ r.db = Compacted(l, keys)
    BY <2>5 DEF Ok
  <2>7. /\ r.db \in DBs /\ r.db.records = keys /\ r.db.pending = <<>>
        /\ ~Corrupted(r.db.log) /\ deserializeDB(r.db.log) = keys
    BY <2>2, <2>4, <2>6, CompactedDB
  <2>8. Intact(r.db)
    <3>1. PICK log \in Seq(Entries) : log = r.db.log
      BY <2>7, Zenon DEF DBs
    <3>2. log \o <<>> = log
      BY NothingAdded
    <3> QED BY <2>7, <3>1, <3>2, Zenon DEF Intact
  <2> QED BY <2>1, <2>6, <2>7, <2>8, Zenon
<1> QED BY <1>1, <1>2

-----------------------------------------------------------------------------
(* The manager.                                                            *)

Jobs == {"none", "spawned", "counted", "save", "send"}

\* What Corpus.Save reports: never a program with disabled calls.
Updates == [key : Keys \ Disabled, exists : BOOLEAN]

Types ==
  /\ db \in DBs
  /\ phase \in Nat /\ crashes \in Nat /\ errors \in Nat
  /\ candidate \in [Keys -> BOOLEAN]
  /\ job \in [Keys -> Jobs]
  /\ DOMAIN items \subseteq Keys \ Disabled
  /\ updates \in Seq(Updates)
  /\ sending \in [Keys -> Updates \cup {NoUpdate}]
  /\ handler \in Updates \cup {NoUpdate}
  /\ scan \subseteq Keys

\* Candidates and jobs have a program, and the jobs that wait to send have an update.
Working ==
  \A k \in Keys :
    /\ candidate[k] \/ job[k] # "none" => Prog(k) # None
    /\ sending[k] # NoUpdate <=> job[k] = "send"

\* Nothing is left of a manager that has exited but the file.
Down ==
  ~Up => /\ DOMAIN items = {} /\ updates = <<>> /\ handler = NoUpdate /\ fromCorpus = {}
         /\ \A k \in Keys : ~candidate[k] /\ job[k] = "none"
         /\ minimizer = "idle" /\ hub = "off" /\ loop = "sleep"

InFlight(p) ==
  LET new == [key |-> p, exists |-> FALSE] IN
  \/ \E i \in 1 .. Len(updates) : updates[i] = new
  \/ \E k \in Keys : sending[k] = new
  \/ handler = new

Accounted == \A p \in DOMAIN items : p \in db.records \/ InFlight(p)

Unspoilt == Up /\ errors = 0 => Intact(db)

\* Deletions are pending only during a minimization, which holds corpusDBMu: no
\* record is saved again behind its deletion.
Deletions ==
  /\ minimizer # "scan" => Deleted(db) = {}
  /\ Deleted(db) \cap db.records = {}
  /\ Preserve => /\ Deleted(db) \cap Disabled = {}
                 /\ Up => db.records \cap Disabled \subseteq disabledHashes

\* Once fuzzerLoop has seen no candidates, those of the corpus are all gone.
Triaged ==
  /\ minimizer # "idle" => phase >= phaseTriagedCorpus
  /\ loop # "sleep" \/ phase >= phaseTriagedCorpus => \A k \in fromCorpus \cap Keys : ~candidate[k]

IInv == Types /\ Working /\ Down /\ Accounted /\ Unspoilt /\ Deletions /\ Triaged

\* A program that is not None is one of the keys, and its calls are enabled.
LEMMA ProgEnabled ==
  ASSUME NEW k \in Keys, Prog(k) # None
  PROVE  Prog(k) \in Keys \ Disabled
BY CorpusAssumption DEF Prog

\* NoUpdate is no update.
LEMMA NoUpdateNew ==
  /\ NoUpdate \notin Updates
  /\ \A p \in Keys : NoUpdate # [key |-> p, exists |-> FALSE]
BY CorpusAssumption DEF NoUpdate, Updates

\* The file alone.
LEMMA OnDiskDB ==
  ASSUME NEW d \in DBs
  PROVE  OnDisk(d) \in DBs /\ OnDisk(d).log = d.log /\ Deleted(OnDisk(d)) = {}
<1>1. PICK none \in Seq(Changes), recs \in SUBSET Keys : none = <<>> /\ recs = {}
  <2>1. <<>> \in Seq(Changes) /\ {} \in SUBSET Keys
    OBVIOUS
  <2> QED BY <2>1, Zenon
<1>2. PICK o : o = OnDisk(d)
  OBVIOUS
<1>3. o = [d EXCEPT !.version = 0, !.records = recs, !.pending = none, !.uncompacted = 0]
  BY <1>1, <1>2 DEF OnDisk
<1>4. o \in DBs /\ o.log = d.log /\ o.pending = <<>> /\ o.records = {}
  BY <1>1, <1>3, Zenon DEF DBs
<1>5. Deleted(o) = {}
  BY <1>4 DEF Deleted
<1> QED BY <1>2, <1>4, <1>5

\* The invariant holds initially.
LEMMA InitIInv == Init => IInv
<1> SUFFICES ASSUME Init PROVE IInv
  OBVIOUS
<1> USE DEF Init
<1>1. PICK log \in Seq(Entries), none \in Seq(Changes), recs \in SUBSET Keys :
        log = InitialLog /\ none = <<>> /\ recs = {}
  <2>1. <<>> \in Seq(Changes) /\ {} \in SUBSET Keys
    OBVIOUS
  <2> QED BY <2>1, CorpusAssumption, Zenon
<1>2. db = [ver |-> 0, log |-> log, version |-> 0, records |-> recs, pending |-> none,
            uncompacted |-> 0]
  BY <1>1, Zenon
<1>3. db \in DBs /\ db.records = {} /\ db.pending = <<>>
  BY <1>1, <1>2 DEF DBs
<1>4. Deleted(db) = {}
  BY <1>3 DEF Deleted
<1>5. phase = 0 /\ ~Up /\ DOMAIN items = {}
  BY DEF phaseInit, Up, NoSignal
<1>6. Types
  BY <1>3, <1>5 DEF Types, Jobs
<1>7. Working /\ Down
  BY <1>5 DEF Working, Down
<1>8. Accounted /\ Unspoilt /\ Deletions /\ Triaged
  BY <1>3, <1>4, <1>5, Zenon DEF Accounted, Unspoilt, Deletions, Triaged, phaseTriagedCorpus
<1> QED BY <1>6, <1>7, <1>8 DEF IInv

\* After the manager has exited.
LEMMA ExitIInv ==
  ASSUME IInv, Exit, db' \in DBs, Deleted(db') = {}, crashes' \in Nat, errors' \in Nat
  PROVE  IInv'
<1> USE DEF Exit
<1>1. phase' = 0 /\ ~Up' /\ DOMAIN items' = {}
  BY DEF phaseInit, Up, NoSignal
<1>2. Types'
  BY <1>1 DEF Types, Jobs
<1>3. Working' /\ Down'
  BY <1>1, Zenon DEF Working, Down
<1>4. Deletions'
  BY <1>1, Zenon DEF Deletions, Deleted
<1>5. Accounted' /\ Unspoilt' /\ Triaged'
  BY <1>1 DEF Accounted, Unspoilt, Triaged, phaseTriagedCorpus
<1> QED BY <1>2, <1>3, <1>4, <1>5 DEF IInv

\* Steps that leave the database, the corpus and the updates alone.
Quiet == UNCHANGED <<db, scan, items, updates, sending, handler, disabledHashes, crashes, errors>>

\* Results of candidates and of fuzzing.
LEMMA ResultIInv ==
  ASSUME IInv, NEW k \in Keys, CandidateResult(k) \/ FuzzResult(k)
  PROVE  IInv'
<1> USE DEF IInv
<1>1. /\ Quiet /\ UNCHANGED <<phase, minimizer, loop, hub, fromCorpus>>
      /\ job[k] = "none" /\ (candidate[k] \/ (k \in FuzzProgs /\ Up))
  BY Zenon DEF CandidateResult, FuzzResult, Quiet, managerVars, corpusVars
<1>2. Up /\ Prog(k) # None
  BY <1>1, CorpusAssumption DEF Down, Working, Prog
<1>3. \/ job' = [job EXCEPT ![k] = "spawned"]
      \/ job' = job
  BY DEF CandidateResult, FuzzResult, StartTriage
<1>4. \/ candidate' = [candidate EXCEPT ![k] = FALSE]
      \/ candidate' = candidate
  BY Zenon DEF CandidateResult, FuzzResult, EndCandidate
<1>5. Types'
  BY <1>1, <1>3, <1>4, Zenon DEF Types, Jobs, Quiet
<1>6. Working'
  BY <1>1, <1>2, <1>3, <1>4 DEF Working, Types, Quiet, Prog
<1>7. Down'
  BY <1>1, <1>2, Zenon DEF Down, Up
<1>8. Accounted' /\ Unspoilt' /\ Deletions'
  BY <1>1, Zenon DEF Accounted, InFlight, Unspoilt, Deletions, Quiet, Up
<1>9. Triaged'
  BY <1>1, <1>4 DEF Triaged, Types
<1> QED BY <1>5, <1>6, <1>7, <1>8, <1>9

\* A job starts to run, gives up, or passes the filter.
LEMMA JobStepIInv ==
  ASSUME IInv, NEW k \in Keys, JobRuns(k) \/ JobFlaky(k) \/ JobFilter(k)
  PROVE  IInv'
<1> USE DEF IInv
<1>1. /\ Quiet /\ UNCHANGED <<phase, minimizer, loop, hub, fromCorpus, candidate>>
  BY DEF JobRuns, JobFlaky, JobFilter, JobStep, Quiet, managerVars, corpusVars
<1>2. PICK to \in Jobs \ {"send"} : job' = [job EXCEPT ![k] = to] /\ job[k] \notin {"none", "send"}
  BY Zenon DEF JobRuns, JobFlaky, JobFilter, JobStep, Jobs
<1>3. Up /\ Prog(k) # None
  BY <1>2 DEF Down, Working
<1>5. Types'
  BY <1>1, <1>2, Zenon DEF Types, Jobs, Quiet
<1>6. Working'
  BY <1>1, <1>2, <1>3, Zenon DEF Working, Types, Quiet, Prog
<1>7. Down'
  BY <1>1, <1>3, Zenon DEF Down, Up
<1>8. Accounted' /\ Unspoilt' /\ Deletions' /\ Triaged'
  BY <1>1, Zenon DEF Accounted, InFlight, Unspoilt, Deletions, Triaged, Quiet, Up
<1> QED BY <1>5, <1>6, <1>7, <1>8, Zenon

\* Corpus.Save: a new program's update is sent, or its job waits to send it.
LEMMA JobSaveIInv ==
  ASSUME IInv, NEW k \in Keys, JobSave(k)
  PROVE  IInv'
<1> USE DEF IInv
<1>1. PICK p : p = Prog(k)
  OBVIOUS
<1>2. /\ UNCHANGED <<db, scan, handler, disabledHashes, crashes, errors>>
      /\ UNCHANGED <<phase, minimizer, loop, hub, fromCorpus, candidate>>
      /\ job[k] = "save"
      /\ DOMAIN items' = DOMAIN items \cup {p}
  BY <1>1, Zenon DEF JobSave, managerVars
<1>3. Up /\ p \in Keys \ Disabled
  BY <1>1, <1>2, ProgEnabled DEF Down, Working
<1>4. PICK new : new = NewItem(p)
  OBVIOUS
<1>5. new \in Updates /\ (p \notin DOMAIN items => new = [key |-> p, exists |-> FALSE])
  <2>1. CASE p \in DOMAIN items
    <3>1. new = [key |-> p, exists |-> TRUE]
      BY <1>4, <2>1, Zenon DEF NewItem
    <3> QED BY <1>3, <2>1, <3>1 DEF Updates
  <2>2. CASE p \notin DOMAIN items
    <3>1. (p \in DOMAIN items) = FALSE
      BY <2>2
    <3>2. new = [key |-> p, exists |-> FALSE]
      BY <1>4, <3>1, Zenon DEF NewItem
    <3> QED BY <1>3, <3>2 DEF Updates
  <2> QED BY <2>1, <2>2
<1>6. \/ /\ job' = [job EXCEPT ![k] = "none"]
         /\ updates' = Append(updates, new)
         /\ sending' = sending
      \/ /\ job' = [job EXCEPT ![k] = "send"]
         /\ updates' = updates
         /\ sending' = [sending EXCEPT ![k] = new]
  BY <1>1, <1>4, Zenon DEF JobSave
<1>7. Types'
  <2>1. updates' \in Seq(Updates) /\ sending' \in [Keys -> Updates \cup {NoUpdate}]
    <3>1. updates \in Seq(Updates) /\ sending \in [Keys -> Updates \cup {NoUpdate}]
      BY Zenon DEF Types
    <3>2. Append(updates, new) \in Seq(Updates)
      BY <1>5, <3>1, AppendType, Zenon
    <3>3. [sending EXCEPT ![k] = new] \in [Keys -> Updates \cup {NoUpdate}]
      BY <1>5, <3>1
    <3> QED BY <1>6, <3>1, <3>2, <3>3, Zenon
  <2>2. job' \in [Keys -> Jobs]
    BY <1>6 DEF Types, Jobs
  <2>3. DOMAIN items' \subseteq Keys \ Disabled
    BY <1>2, <1>3, Zenon DEF Types
  <2> QED BY <1>2, <2>1, <2>2, <2>3, Zenon DEF Types
<1>8. Working'
  BY <1>1, <1>2, <1>3, <1>5, <1>6, NoUpdateNew, CorpusAssumption DEF Working, Types, Prog
<1>9. Down'
  BY <1>2, <1>3, Zenon DEF Down, Up
<1>10. sending[k] = NoUpdate
  BY <1>2, Zenon DEF Working
<1>11. ASSUME NEW q \in DOMAIN items' PROVE q \in db'.records \/ InFlight(q)'
  <2>1. CASE q \in DOMAIN items
    <3>1. q \in Keys /\ (q \in db.records \/ InFlight(q))
      BY <2>1, Zenon DEF Accounted, Types
    <3>2. CASE q \in db.records
      BY <1>2, <3>2, Zenon
    <3>3. CASE InFlight(q)
      <4>1. NoUpdate # [key |-> q, exists |-> FALSE]
        BY <3>1, NoUpdateNew, Zenon
      <4>2. \A i \in 1 .. Len(updates) : i \in 1 .. Len(updates') /\ updates'[i] = updates[i]
        <5>1. updates \in Seq(Updates)
          BY Zenon DEF Types
        <5>2. CASE updates' = updates
          BY <5>2, Zenon
        <5>3. CASE updates' = Append(updates, new)
          <6>1. \A i \in 1 .. Len(updates) : /\ i \in 1 .. Len(Append(updates, new))
                                             /\ Append(updates, new)[i] = updates[i]
            <7> TAKE i \in 1 .. Len(updates)
            <7> QED BY <1>5, <5>1, AppendKeeps
          <6> QED BY <5>3, <6>1, Zenon
        <5> QED BY <1>6, <5>2, <5>3, Zenon
      <4>3. \A l \in Keys : sending[l] # NoUpdate => sending'[l] = sending[l]
        BY <1>6, <1>10, Zenon DEF Types
      <4> QED BY <1>2, <3>3, <4>1, <4>2, <4>3, Zenon DEF InFlight
    <3> QED BY <3>1, <3>2, <3>3, Zenon
  <2>2. CASE q \notin DOMAIN items
    <3>1. q = p /\ new = [key |-> q, exists |-> FALSE]
      BY <1>2, <1>5, <2>2, Zenon
    <3>2. CASE sending' = [sending EXCEPT ![k] = new]
      BY <3>1, <3>2, Zenon DEF InFlight, Types
    <3>3. CASE updates' = Append(updates, new)
      <4>1. Len(updates') \in 1 .. Len(updates') /\ updates'[Len(updates')] = new
        <5>1. updates \in Seq(Updates)
          BY Zenon DEF Types
        <5>2. /\ Len(Append(updates, new)) \in 1 .. Len(Append(updates, new))
              /\ Append(updates, new)[Len(Append(updates, new))] = new
          BY <1>5, <5>1, AppendAdds, Zenon
        <5> QED BY <3>3, <5>2, Zenon
      <4> QED BY <3>1, <4>1, Zenon DEF InFlight
    <3> QED BY <1>6, <3>2, <3>3, Zenon
  <2> QED BY <2>1, <2>2, Zenon
<1>12. Unspoilt' /\ Deletions' /\ Triaged'
  BY <1>2, Zenon DEF Unspoilt, Deletions, Triaged, Up
<1> QED BY <1>7, <1>8, <1>9, <1>11, <1>12, Zenon DEF Accounted

\* An update that waited is sent.
LEMMA JobSendIInv ==
  ASSUME IInv, NEW k \in Keys, JobSend(k)
  PROVE  IInv'
<1> USE DEF IInv
<1>1. /\ UNCHANGED <<db, scan, items, handler, disabledHashes, crashes, errors>>
      /\ UNCHANGED <<phase, minimizer, loop, hub, fromCorpus, candidate>>
      /\ job[k] = "send"
      /\ job' = [job EXCEPT ![k] = "none"]
      /\ updates' = Append(updates, sending[k])
      /\ sending' = [sending EXCEPT ![k] = NoUpdate]
  BY Zenon DEF JobSend, JobStep, managerVars
<1>2. Up /\ Prog(k) # None /\ sending[k] \in Updates
  BY <1>1, Zenon DEF Down, Working, Types
<1>3. Types'
  BY <1>1, <1>2 DEF Types, Jobs
<1>4. Working'
  BY <1>1, <1>2 DEF Working, Types, Prog
<1>5. Down'
  BY <1>1, <1>2 DEF Down, Up
<1>6. ASSUME NEW p \in DOMAIN items' PROVE p \in db'.records \/ InFlight(p)'
  <2>1. p \in db.records \/ InFlight(p)
    BY <1>1, Zenon DEF Accounted
  <2>2. /\ \A i \in 1 .. Len(updates) : i \in 1 .. Len(updates') /\ updates'[i] = updates[i]
        /\ Len(updates') \in 1 .. Len(updates') /\ updates'[Len(updates')] = sending[k]
    <3>1. PICK x, y, e : x = updates /\ y = updates' /\ e = sending[k]
      BY Zenon
    <3>2. x \in Seq(Updates) /\ e \in Updates /\ y = Append(x, e)
      BY <1>1, <1>2, <3>1, Zenon DEF Types
    <3>3. /\ \A i \in 1 .. Len(x) : i \in 1 .. Len(y) /\ y[i] = x[i]
          /\ Len(y) \in 1 .. Len(y) /\ y[Len(y)] = e
      BY <3>2, OneAdded
    <3> QED BY <3>1, <3>3, Zenon
  <2>3. \A l \in Keys \ {k} : sending'[l] = sending[l]
    BY <1>1 DEF Types
  <2> QED BY <1>1, <2>1, <2>2, <2>3, Zenon DEF InFlight
<1>7. Unspoilt' /\ Deletions' /\ Triaged'
  BY <1>1, Zenon DEF Unspoilt, Deletions, Triaged, Up
<1> QED BY <1>3, <1>4, <1>5, <1>6, <1>7, Zenon DEF Accounted

\* corpusInputHandler takes an update.
LEMMA TakeUpdateIInv ==
  ASSUME IInv, TakeUpdate
  PROVE  IInv'
<1> USE DEF IInv
<1>1. /\ UNCHANGED <<db, scan, items, sending, job, disabledHashes, crashes, errors>>
      /\ UNCHANGED <<phase, minimizer, loop, hub, fromCorpus, candidate>>
      /\ handler = NoUpdate /\ updates # <<>> /\ updates' = Tail(updates)
      /\ handler' = IF Head(updates).exists THEN NoUpdate ELSE Head(updates)
  BY DEF TakeUpdate, managerVars, fuzzerVars
<1>2. Up /\ Head(updates) \in Updates /\ Tail(updates) \in Seq(Updates)
  BY <1>1 DEF Down, Types
<1>3. Types'
  <2>1. handler' \in Updates \cup {NoUpdate}
    BY <1>1, <1>2, Zenon
  <2> QED BY <1>1, <1>2, <2>1 DEF Types
<1>4. Working'
  BY <1>1, Zenon DEF Working, Prog
<1>5. Down'
  BY <1>1, <1>2 DEF Down, Up
<1>6. ASSUME NEW p \in DOMAIN items' PROVE p \in db'.records \/ InFlight(p)'
  <2>1. p \in Keys /\ (p \in db.records \/ InFlight(p))
    BY <1>1, Zenon DEF Accounted, Types
  <2>2. PICK new : new = [key |-> p, exists |-> FALSE]
    BY Zenon
  <2>3. new # NoUpdate
    BY <2>1, <2>2, NoUpdateNew
  <2>4. CASE \E i \in 1 .. Len(updates) : updates[i] = new
    <3>1. PICK i \in 1 .. Len(updates) : updates[i] = new
      BY <2>4
    <3>2. CASE i = 1
      <4>1. Head(updates) = new
        BY <1>1, <3>1, <3>2 DEF Types
      <4>2. handler' = new
        <5>1. Head(updates).exists = FALSE
          BY <2>2, <4>1
        <5> QED BY <1>1, <4>1, <5>1
      <4> QED BY <2>2, <4>2 DEF InFlight
    <3>3. CASE i # 1
      <4>1. i - 1 \in 1 .. Len(updates') /\ updates'[i - 1] = new
        <5>1. updates \in Seq(Updates) /\ updates' = Tail(updates)
          BY <1>1, Zenon DEF Types
        <5> QED BY <3>1, <3>3, <5>1, OneTaken
      <4> QED BY <2>2, <4>1 DEF InFlight
    <3> QED BY <3>2, <3>3
  <2> QED BY <1>1, <2>1, <2>2, <2>3, <2>4, Zenon DEF InFlight
<1>7. Unspoilt' /\ Deletions' /\ Triaged'
  BY <1>1 DEF Unspoilt, Deletions, Triaged, Up
<1> QED BY <1>3, <1>4, <1>5, <1>6, <1>7, Zenon DEF Accounted

\* The errors are counted where a write may fail.
LEMMA SetDBErrors ==
  ASSUME Types, NEW r, SetDB(r)
  PROVE  /\ db' = r.db /\ errors' \in Nat
         /\ errors' = 0 => errors = 0 /\ ~(r.err /\ MayFail)
BY DEF Types, SetDB

\* The update is stored: nothing is pending that deletes a record.
LEMMA StoreUpdateIInv ==
  ASSUME IInv, StoreUpdate
  PROVE  IInv' /\ Stored \subseteq Stored'
<1> USE DEF IInv
<1>1. /\ UNCHANGED <<scan, items, sending, updates, job, disabledHashes, crashes>>
      /\ UNCHANGED <<phase, minimizer, loop, hub, fromCorpus, candidate>>
      /\ handler # NoUpdate /\ minimizer # "scan" /\ handler' = NoUpdate
  BY DEF StoreUpdate, managerVars, fuzzerVars, DBMuFree
<1>2. Up /\ handler \in Updates /\ handler.key \in Keys \ Disabled
  BY <1>1 DEF Down, Types, Updates
<1>3. PICK s : s = Save(db, handler.key)
  OBVIOUS
<1>4. PICK r \in Flush(s, MayFail) : SetDB(r)
  BY <1>3 DEF StoreUpdate
<1>5. /\ s \in DBs /\ s.log = db.log /\ s.records = db.records \cup {handler.key}
      /\ Deleted(s) = Deleted(db) /\ (Intact(db) => Intact(s))
  BY <1>2, <1>3, SaveDB, Zenon DEF Types
<1>6. MayFail \in BOOLEAN
  BY DEF MayFail
<1>7. /\ Wrote(s, r)
      /\ Intact(s) /\ r.err => MayFail
      /\ Intact(s) /\ ~r.err => Intact(r.db)
  BY <1>4, <1>5, <1>6, FlushDB, Zenon
<1>8. /\ db' = r.db /\ errors' \in Nat
      /\ errors' = 0 => errors = 0 /\ ~(r.err /\ MayFail)
  BY <1>4, SetDBErrors
<1>9. /\ db' \in DBs /\ db'.records = db.records \cup {handler.key} /\ Deleted(db') = {}
      /\ Stored \subseteq Stored'
  <2>1. Deleted(s) = {}
    BY <1>1, <1>5 DEF Deletions
  <2> QED BY <1>5, <1>7, <1>8, <2>1, Zenon DEF Wrote, Stored
<1>10. Types'
  BY <1>1, <1>8, <1>9, Zenon DEF Types
<1>11. Working'
  BY <1>1, Zenon DEF Working, Prog
<1>12. Down'
  BY <1>1, <1>2 DEF Down, Up
<1>13. ASSUME NEW p \in DOMAIN items' PROVE p \in db'.records \/ InFlight(p)'
  <2>1. p \in db.records \/ InFlight(p)
    BY <1>1, Zenon DEF Accounted
  <2>2. handler = [key |-> p, exists |-> FALSE] => handler.key = p
    OBVIOUS
  <2> QED BY <1>1, <1>9, <2>1, <2>2, Zenon DEF InFlight
<1>14. Unspoilt'
  <2>1. SUFFICES ASSUME errors' = 0 PROVE Intact(db')
    BY Zenon DEF Unspoilt, Intact
  <2> QED BY <1>2, <1>5, <1>7, <1>8, <2>1, Zenon DEF Unspoilt
<1>15. Deletions'
  <2>1. Deleted(db)' = {}
    BY <1>9 DEF Deleted
  <2> QED BY <1>1, <1>2, <1>9, <2>1, Zenon DEF Deletions, Up
<1>16. Triaged'
  BY <1>1 DEF Triaged
<1> QED BY <1>9, <1>10, <1>11, <1>12, <1>13, <1>14, <1>15, <1>16, Zenon DEF Accounted

\* A minimization starts: it only takes programs out of the corpus.
LEMMA StartMinimizeIInv ==
  ASSUME IInv, StartMinimize
  PROVE  IInv'
<1> USE DEF IInv
<1>1. /\ UNCHANGED <<db, scan, updates, sending, handler, job, disabledHashes, crashes, errors>>
      /\ UNCHANGED <<phase, loop, hub, fromCorpus, candidate>>
      /\ phase >= phaseTriagedCorpus /\ minimizer = "idle" /\ minimizer' = "minimized"
  BY DEF StartMinimize, fuzzerVars, MayMinimize, MgrMuFree
<1>2. Up
  BY <1>1 DEF Up, phaseInit, phaseTriagedCorpus, Types
<1>3. DOMAIN items' \subseteq DOMAIN items
  <2>1. PICK order \in Orders : items' = Minimized(order)
    BY DEF StartMinimize
  <2>2. PICK sigs, kept : /\ sigs = [i \in DOMAIN order |-> items[order[i]]]
                          /\ kept = Minimize(sigs)
    BY Zenon
  <2>3. kept \subseteq DOMAIN order
    BY <2>2, Zenon DEF Minimize
  <2>4. \A i \in DOMAIN order : order[i] \in DOMAIN items
    BY DEF Orders, Injection
  <2>5. items' = Restrict(items, {order[i] : i \in kept})
    BY <2>1, <2>2, Zenon DEF Minimized
  <2>6. DOMAIN items' = {order[i] : i \in kept}
    BY <2>5 DEF Restrict
  <2> QED BY <2>3, <2>4, <2>6
<1>4. Types' /\ Working' /\ Down'
  BY <1>1, <1>2, <1>3, Zenon DEF Types, Working, Prog, Down, Up
<1>5. Accounted' /\ Unspoilt' /\ Deletions' /\ Triaged'
  BY <1>1, <1>3, Zenon DEF Accounted, InFlight, Unspoilt, Deletions, Triaged, Up
<1> QED BY <1>4, <1>5, Zenon

\* It takes corpusDBMu.
LEMMA LockDBIInv ==
  ASSUME IInv, LockDB
  PROVE  IInv'
<1> USE DEF IInv
<1>1. /\ UNCHANGED <<db, items, updates, sending, handler, job, disabledHashes, crashes, errors>>
      /\ UNCHANGED <<phase, loop, hub, fromCorpus, candidate>>
      /\ minimizer = "minimized" /\ minimizer' = "scan" /\ scan' = db.records
  BY DEF LockDB, fuzzerVars, corpusVars
<1>2. Up /\ db.records \subseteq Keys
  BY <1>1 DEF Down, Types, DBs
<1>3. Types' /\ Working' /\ Down'
  BY <1>1, <1>2, Zenon DEF Types, Working, Prog, Down, Up
<1>4. Accounted' /\ Unspoilt' /\ Deletions' /\ Triaged'
  BY <1>1, Zenon DEF Accounted, InFlight, Unspoilt, Deletions, Triaged, Up
<1> QED BY <1>3, <1>4

\* A record without a program of the corpus is deleted, unless it is preserved.
LEMMA ScanRecordIInv ==
  ASSUME IInv, NEW k \in Keys, ScanRecord(k)
  PROVE  IInv' /\ Stored' = Stored
<1> USE DEF IInv
<1>1. /\ UNCHANGED <<items, updates, sending, handler, job, disabledHashes, crashes, errors>>
      /\ UNCHANGED <<phase, minimizer, loop, hub, fromCorpus, candidate>>
      /\ minimizer = "scan" /\ scan' = scan \ {k}
      /\ db' = IF Unused(k) THEN Delete(db, k) ELSE db
  BY Zenon DEF ScanRecord, fuzzerVars, corpusVars
<1>2. Up
  BY <1>1 DEF Down
<1>3. CASE ~Unused(k) \/ k \notin db.records
  <2>1. db' = db
    BY <1>1, <1>3 DEF Delete
  <2>2. Types' /\ Working' /\ Down'
    BY <1>1, <1>2, <2>1, Zenon DEF Types, Working, Prog, Down, Up
  <2>3. Accounted' /\ Unspoilt' /\ Deletions' /\ Triaged' /\ Stored' = Stored
    BY <1>1, <2>1, Zenon DEF Accounted, InFlight, Unspoilt, Deletions, Triaged, Up, Stored
  <2> QED BY <2>2, <2>3
<1>4. CASE Unused(k) /\ k \in db.records
  <2>1. /\ db' \in DBs /\ db'.log = db.log /\ db'.records = db.records \ {k}
        /\ Deleted(db') \subseteq Deleted(db) \cup {k}
        /\ Intact(db) => Intact(db')
    BY <1>1, <1>4, DeleteDB, Zenon DEF Types
  <2>2. Types' /\ Working' /\ Down'
    BY <1>1, <1>2, <2>1, Zenon DEF Types, Working, Prog, Down, Up
  <2>3. Accounted'
    BY <1>1, <1>4, <2>1, Zenon DEF Accounted, InFlight, Unused
  <2>4. Unspoilt'
    BY <1>1, <1>2, <2>1, Zenon DEF Unspoilt, Intact
  <2>5. Deletions'
    <3>1. Deleted(db)' = Deleted(db')
      BY DEF Deleted
    <3>2. Preserve => k \notin Disabled
      BY <1>2, <1>4 DEF Deletions, Unused
    <3> QED BY <1>1, <1>2, <2>1, <3>1, <3>2, Zenon DEF Deletions, Up
  <2>6. Triaged' /\ Stored' = Stored
    BY <1>1, <2>1, Zenon DEF Triaged, Stored
  <2> QED BY <2>2, <2>3, <2>4, <2>5, <2>6
<1> QED BY <1>3, <1>4, Zenon

\* An outcome is a record of a database and an error.
LEMMA FlushRecord ==
  ASSUME NEW d, NEW m, NEW r \in Flush(d, m), NEW e
  PROVE  [r EXCEPT !.db = e].db = e /\ [r EXCEPT !.db = e].err = r.err
<1>1. PICK c, b : r = [db |-> c, err |-> b]
  BY Zenon DEF Flush, compact, Ok, Failed
<1> QED BY <1>1

\* The minimization ends with a flush and a change of the version, or the manager exits.
LEMMA EndMinimizeIInv ==
  ASSUME IInv, EndMinimize
  PROVE  IInv' /\ Stored \subseteq Stored' \cup Deleted(db)
<1> USE DEF IInv
<1>1. UNCHANGED crashes /\ minimizer = "scan"
  BY Zenon DEF EndMinimize
<1>2. Up /\ MayFail \in BOOLEAN
  BY <1>1 DEF Down, MayFail
<1>3. PICK r \in Flush(db, MayFail) :
        IF r.err
          THEN SetDB([r EXCEPT !.db = OnDisk(@)]) /\ Exit
          ELSE /\ \E r2 \in BumpVersion(r.db, CurrentDBVersion, MayFail) : SetDB(r2)
               /\ minimizer' = "idle"
               /\ UNCHANGED <<phase, scan, lastMinCorpus, disabledHashes, loop, hub, fuzzerVars,
                              corpusVars>>
  BY DEF EndMinimize
<1>4. /\ Wrote(db, r) /\ r.db \in DBs
      /\ ~r.err => r.db.pending = <<>>
      /\ Intact(db) /\ r.err => MayFail
      /\ Intact(db) /\ ~r.err => Intact(r.db)
  BY <1>2, FlushDB, Zenon DEF Types, Wrote
<1>5. CASE r.err
  <2>1. PICK x : x = [r EXCEPT !.db = OnDisk(r.db)]
    BY Zenon
  <2>2. SetDB(x) /\ Exit
    BY <1>3, <1>5, <2>1
  <2>3. OnDisk(r.db) \in DBs /\ OnDisk(r.db).log = r.db.log /\ Deleted(OnDisk(r.db)) = {}
    BY <1>4, OnDiskDB, Zenon
  <2>4. db' = x.db /\ errors' \in Nat
    BY <2>2, SetDBErrors
  <2>5. x.db = OnDisk(r.db)
    BY <2>1, FlushRecord
  <2>6. IInv'
    BY <1>1, <2>2, <2>3, <2>4, <2>5, ExitIInv, Zenon DEF Types
  <2>7. Stored \subseteq Stored' \cup Deleted(db)
    BY <1>4, <2>3, <2>4, <2>5, Zenon DEF Wrote, Stored
  <2> QED BY <2>6, <2>7
<1>6. CASE ~r.err
  <2>1. PICK r2 \in BumpVersion(r.db, CurrentDBVersion, MayFail) : SetDB(r2)
    BY <1>3, <1>6
  <2>2. /\ UNCHANGED <<scan, items, updates, sending, handler, job, disabledHashes>>
        /\ UNCHANGED <<phase, loop, hub, fromCorpus, candidate>>
        /\ minimizer' = "idle"
    BY <1>3, <1>6 DEF fuzzerVars, corpusVars
  <2>3. /\ Wrote(r.db, r2)
        /\ Intact(r.db) /\ r2.err => MayFail
        /\ Intact(r.db) /\ ~r2.err => Intact(r2.db)
    BY <1>2, <1>4, <2>1, CorpusAssumption, BumpVersionDB, Zenon
  <2>4. /\ db' = r2.db /\ errors' \in Nat
        /\ errors' = 0 => errors = 0 /\ ~(r2.err /\ MayFail)
    BY <2>1, SetDBErrors, Zenon
  <2>5. Deleted(r.db) = {}
    BY <1>4, <1>6, NothingDeleted, Zenon
  <2>6. db' \in DBs /\ db'.records = db.records /\ Deleted(db') = {}
    BY <1>4, <2>3, <2>4, <2>5, Zenon DEF Wrote
  <2>7. Stored \subseteq Stored' \cup Deleted(db)
    <3>1. Stored \subseteq deserializeDB(r.db.log) \cup Deleted(db)
      BY <1>4, Zenon DEF Wrote, Stored
    <3>2. deserializeDB(r.db.log) \subseteq Stored'
      BY <2>3, <2>4, <2>5, Zenon DEF Wrote, Stored
    <3> QED BY <3>1, <3>2
  <2>8. Types' /\ Working' /\ Down'
    BY <1>1, <1>2, <2>2, <2>4, <2>6, Zenon DEF Types, Working, Prog, Down, Up
  <2>9. Accounted'
    BY <2>2, <2>6, Zenon DEF Accounted, InFlight
  <2>10. Unspoilt'
    <3>1. SUFFICES ASSUME errors' = 0 PROVE Intact(db')
      BY DEF Unspoilt, Intact
    <3> QED BY <1>2, <1>4, <1>6, <2>3, <2>4, <3>1, Zenon DEF Unspoilt
  <2>11. Deletions'
    <3>1. Deleted(db)' = {}
      BY <2>6, Zenon DEF Deleted
    <3> QED BY <1>2, <2>2, <2>6, <3>1, Zenon DEF Deletions, Up
  <2>12. Triaged'
    BY <2>2 DEF Triaged
  <2> QED BY <2>7, <2>8, <2>9, <2>10, <2>11, <2>12, Zenon
<1> QED BY <1>5, <1>6

\* LoadSeeds: the file loses nothing but broken records, and a database that could be
\* loaded is intact and has no broken records.
LEMMA Loaded ==
  ASSUME Types, NEW r \in LoadedDBs
  PROVE  /\ r.db \in DBs /\ Stored \subseteq deserializeDB(r.db.log) \cup Broken
         /\ \A e : [r EXCEPT !.db = e].db = e
         /\ ~r.err => Intact(r.db) /\ Deleted(r.db) = {} /\ r.db.records \cap Broken = {}
<1>1. PICK o \in Open(db, MayFail) :
        r \in IF o.err THEN {o}
              ELSE Flush(DeleteAll(o.db, Broken \cap o.db.records), MayFail)
  BY DEF LoadedDBs
<1>2. MayFail \in BOOLEAN
  BY DEF MayFail
<1>3. /\ o.err => o.db = db
      /\ ~o.err => /\ o.db \in DBs /\ Intact(o.db) /\ o.db.pending = <<>>
                  /\ deserializeDB(o.db.log) = Stored
  BY <1>2, OpenDB, Zenon DEF Types, Stored
<1>4. CASE o.err
  <2>1. PICK c, b : o = [db |-> c, err |-> b]
    BY DEF Open, Ok, Failed
  <2> QED BY <1>1, <1>3, <1>4, <2>1, Zenon DEF Types, Stored
<1>5. CASE ~o.err
  <2>1. PICK keys \in SUBSET o.db.records : keys = Broken \cap o.db.records
    BY Zenon
  <2>2. PICK d : d = DeleteAll(o.db, keys)
    OBVIOUS
  <2>3. /\ d \in DBs /\ d.log = o.db.log /\ d.records = o.db.records \ keys
        /\ Deleted(d) \subseteq Deleted(o.db) \cup keys /\ Intact(d)
    BY <1>3, <1>5, <2>2, DeleteAllDB, Zenon
  <2>4. r \in Flush(d, MayFail)
    BY <1>1, <1>5, <2>1, <2>2, Zenon
  <2>5. /\ Wrote(d, r)
        /\ ~r.err => r.db.pending = <<>> /\ Intact(r.db)
    BY <1>2, <2>3, <2>4, FlushDB, Zenon
  <2>6. Deleted(o.db) = {} /\ (~r.err => Deleted(r.db) = {})
    BY <1>3, <1>5, <2>5, NothingDeleted, Zenon
  <2>7. \A e : [r EXCEPT !.db = e].db = e
    BY <2>4, FlushRecord
  <2>8. Stored \subseteq deserializeDB(r.db.log) \cup Broken
    BY <1>3, <1>5, <2>1, <2>3, <2>5, <2>6, Zenon DEF Wrote
  <2> QED BY <2>1, <2>3, <2>5, <2>6, <2>7, <2>8, Zenon DEF Wrote
<1> QED BY <1>4, <1>5, Zenon

\* The manager starts, or exits because the database cannot be loaded.
LEMMA StartIInv ==
  ASSUME IInv, Start
  PROVE  IInv' /\ Stored \subseteq Stored' \cup Broken
<1> USE DEF IInv
<1>1. UNCHANGED crashes /\ ~Up
  BY DEF Start
<1>2. PICK r \in LoadedDBs :
        IF r.err
          THEN /\ SetDB([r EXCEPT !.db = OnDisk(@)])
               /\ UNCHANGED <<managerVars, fuzzerVars, corpusVars>>
          ELSE LET keys == (r.db.records \cup Seeds) \ Broken IN
               /\ SetDB(r)
               /\ fromCorpus' = r.db.records
               /\ candidate' = [k \in Keys |-> k \in keys /\ Prog(k) # None]
               /\ disabledHashes' = IF Preserve THEN keys \cap Disabled ELSE {}
               /\ phase' = phaseLoadedCorpus
               /\ UNCHANGED <<attempt, job, jobIsCandidate, maxSignal, corpusVars, minimizer,
                              scan, lastMinCorpus, loop, hub>>
  BY Zenon DEF Start
<1>3. /\ r.db \in DBs /\ Stored \subseteq deserializeDB(r.db.log) \cup Broken
      /\ \A e : [r EXCEPT !.db = e].db = e
      /\ ~r.err => Intact(r.db) /\ Deleted(r.db) = {} /\ r.db.records \cap Broken = {}
  BY Loaded
<1>4. CASE r.err
  <2>1. PICK x : x = [r EXCEPT !.db = OnDisk(r.db)]
    BY Zenon
  <2>2. SetDB(x) /\ UNCHANGED <<managerVars, fuzzerVars, corpusVars>>
    BY <1>2, <1>4, <2>1, Zenon
  <2>3. OnDisk(r.db) \in DBs /\ OnDisk(r.db).log = r.db.log /\ Deleted(OnDisk(r.db)) = {}
    BY <1>3, OnDiskDB
  <2>4. db' = OnDisk(r.db) /\ errors' \in Nat
    BY <1>3, <2>1, <2>2, SetDBErrors, Zenon
  <2>5. ~Up'
    BY <1>1, <2>2 DEF managerVars, Up
  <2>6. Types' /\ Working' /\ Down'
    BY <1>1, <2>2, <2>3, <2>4, Zenon
      DEF Types, Working, Prog, Down, Up, managerVars, fuzzerVars, corpusVars
  <2>7. Deletions'
    <3>1. Deleted(db)' = {}
      BY <2>3, <2>4, Zenon DEF Deleted
    <3> QED BY <2>5, <3>1, Zenon DEF Deletions
  <2>8. Accounted' /\ Unspoilt' /\ Triaged'
    BY <1>1, <2>2, <2>5, Zenon
      DEF Accounted, Down, Unspoilt, Triaged, managerVars, fuzzerVars, corpusVars
  <2>9. Stored \subseteq Stored' \cup Broken
    BY <1>3, <2>3, <2>4, Zenon DEF Stored
  <2> QED BY <2>6, <2>7, <2>8, <2>9
<1>5. CASE ~r.err
  <2>1. PICK keys : keys = (r.db.records \cup Seeds) \ Broken
    BY Zenon
  <2>2. /\ SetDB(r)
        /\ candidate' = [k \in Keys |-> k \in keys /\ Prog(k) # None]
        /\ disabledHashes' = IF Preserve THEN keys \cap Disabled ELSE {}
        /\ phase' = 1
        /\ UNCHANGED <<job, items, updates, sending, handler, minimizer, scan, loop, hub>>
    BY <1>2, <1>5, <2>1, Zenon DEF phaseLoadedCorpus, corpusVars
  <2>3. /\ db' = r.db /\ errors' \in Nat
    BY <2>2, SetDBErrors, Zenon
  <2>4. Up' /\ DOMAIN items' = {} /\ loop' = "sleep" /\ minimizer' = "idle"
    BY <1>1, <2>2 DEF Up, phaseInit, Down
  <2>5. candidate' \in [Keys -> BOOLEAN]
    <3>1. \A k \in Keys : (k \in keys /\ Prog(k) # None) \in BOOLEAN
      OBVIOUS
    <3> QED BY <2>2, <3>1, Zenon
  <2>6. Types'
    BY <1>1, <1>3, <2>2, <2>3, <2>4, <2>5, Zenon DEF Types
  <2>7. Working'
    BY <1>1, <2>2, Zenon DEF Working, Down, Prog
  <2>8. Down' /\ Accounted'
    BY <2>4, Zenon DEF Down, Accounted
  <2>9. Unspoilt'
    BY <1>3, <1>5, <2>3, Zenon DEF Unspoilt, Intact
  <2>10. Deletions'
    <3>1. Deleted(db)' = {}
      BY <1>3, <1>5, <2>3 DEF Deleted
    <3>2. Preserve => db'.records \cap Disabled \subseteq disabledHashes'
      BY <1>3, <1>5, <2>1, <2>2, <2>3, Zenon
    <3> QED BY <3>1, <3>2, Zenon DEF Deletions
  <2>11. Triaged'
    BY <2>2, <2>4 DEF Triaged, phaseTriagedCorpus
  <2>12. Stored \subseteq Stored' \cup Broken
    BY <1>3, <2>3, Zenon DEF Stored
  <2> QED BY <2>6, <2>7, <2>8, <2>9, <2>10, <2>11, <2>12, Zenon
<1> QED BY <1>4, <1>5

\* The manager crashes.
LEMMA CrashIInv ==
  ASSUME IInv, Crash
  PROVE  IInv' /\ Stored' = Stored
<1>1. /\ db' = OnDisk(db) /\ crashes' = crashes + 1 /\ Exit /\ UNCHANGED errors
  BY DEF Crash
<1>2. db \in DBs /\ crashes \in Nat /\ errors \in Nat
  BY Zenon DEF IInv, Types
<1>3. db' \in DBs /\ db'.log = db.log /\ Deleted(db') = {}
  BY <1>1, <1>2, OnDiskDB, Zenon
<1>4. crashes' \in Nat /\ errors' \in Nat
  BY <1>1, <1>2
<1> QED BY <1>1, <1>3, <1>4, ExitIInv, Zenon DEF Stored

\* fuzzerLoop.
LEMMA FuzzerLoopIInv ==
  ASSUME IInv, FuzzerLoop
  PROVE  IInv'
<1> USE DEF IInv
<1>1. /\ Quiet /\ UNCHANGED <<job, minimizer, fromCorpus, candidate>> /\ Up
  BY DEF FuzzerLoop, NoCandidates, NoJobs, TriageFinished, LoopStep, Quiet, fuzzerVars, corpusVars
<1>2. phase' \in Nat /\ phase' # 0 /\ phase' >= phase
  <2>1. \/ phase' = phase
        \/ phase = phaseLoadedCorpus /\ phase' \in {phaseTriagedCorpus, phaseTriagedHub}
        \/ phase = phaseQueriedHub /\ phase' = phaseTriagedHub
    BY Zenon DEF FuzzerLoop, NoCandidates, NoJobs, TriageFinished
  <2>2. phase \in Nat /\ phase # phaseInit
    BY <1>1, Zenon DEF Types, Up
  <2> QED BY <2>1, <2>2, LaterPhase, Zenon
<1>3. \/ \A k \in Keys : ~candidate[k]
      \/ loop # "sleep"
  <2>1. ASSUME NoCandidates PROVE \A k \in Keys : ~candidate[k]
    <3>1. PICK left : left = {k \in Keys : candidate[k]}
      BY Zenon
    <3>2. IsFiniteSet(left) /\ Cardinality(left) = 0
      BY <2>1, <3>1, DBAssumption, FS_Subset, Zenon DEF NoCandidates, statCandidates
    <3>3. left = {}
      BY <3>2, FS_EmptySet
    <3> QED BY <3>1, <3>3
  <2> QED BY <2>1 DEF FuzzerLoop, NoJobs, TriageFinished, LoopStep
<1>4. Types' /\ Working' /\ Down'
  BY <1>1, <1>2, Zenon DEF Types, Working, Prog, Down, Up, Quiet, phaseInit
<1>5. Accounted' /\ Unspoilt' /\ Deletions'
  BY <1>1, Zenon DEF Accounted, InFlight, Unspoilt, Deletions, Quiet
<1>6. Triaged'
  BY <1>1, <1>2, <1>3 DEF Triaged, Types, phaseTriagedCorpus
<1> QED BY <1>4, <1>5, <1>6, Zenon

\* hubSyncLoop: what comes from the hub has no disabled calls, and is not of the corpus.
LEMMA HubIInv ==
  ASSUME IInv, Hub
  PROVE  IInv'
<1> USE DEF IInv
<1>1. /\ Quiet /\ UNCHANGED <<job, minimizer, loop>> /\ hub # "off"
  BY Zenon DEF Hub, HubAnswers, AddCandidates, hubIsUnreachable, HubStep, Quiet, fuzzerVars,
               corpusVars
<1>2. Up
  BY <1>1, Zenon DEF Down
<1>3. /\ phase' \in Nat /\ phase' # 0 /\ phase' >= phase
      /\ phase' >= phaseTriagedCorpus => phase >= phaseTriagedCorpus
  <2>1. \/ phase' = phase
        \/ phase = phaseTriagedCorpus /\ phase' \in {phaseQueriedHub, phaseTriagedHub}
    BY Zenon DEF Hub, HubAnswers, AddCandidates, hubIsUnreachable
  <2>2. phase \in Nat /\ phase # phaseInit
    BY <1>2, Zenon DEF Types, Up
  <2>3. phase' \in Nat /\ phase' # 0 /\ phase' >= phase
    BY <2>1, <2>2, LaterPhase, Zenon
  <2>4. phase' >= phaseTriagedCorpus => phase >= phaseTriagedCorpus
    BY <2>1, <2>2 DEF phaseTriagedCorpus
  <2> QED BY <2>3, <2>4, Zenon
<1>4. PICK new \in SUBSET HubProgs :
        /\ candidate' \in [Keys -> BOOLEAN]
        /\ \A k \in Keys : candidate'[k] => candidate[k] \/ k \in new
        /\ fromCorpus' = fromCorpus \ new
  <2>1. CASE UNCHANGED fuzzerVars
    <3>1. {} \in SUBSET HubProgs /\ fromCorpus' = fromCorpus \ {} /\ candidate' = candidate
      BY <2>1 DEF fuzzerVars
    <3> QED BY <3>1, Zenon DEF Types
  <2>2. CASE AddCandidates
    <3>1. PICK new \in SUBSET HubProgs :
            /\ candidate' = [k \in Keys |-> candidate[k] \/ k \in new]
            /\ fromCorpus' = fromCorpus \ new
      BY <2>2 DEF AddCandidates
    <3>2. \A k \in Keys : (candidate[k] \/ k \in new) \in BOOLEAN
      OBVIOUS
    <3>3. candidate' \in [Keys -> BOOLEAN]
      BY <3>1, <3>2, Zenon
    <3> QED BY <3>1, <3>3, Zenon
  <2> QED BY <2>1, <2>2 DEF Hub, HubAnswers, hubIsUnreachable
<1>5. \A k \in new : Prog(k) # None
  BY CorpusAssumption, Zenon DEF Prog
<1>6. Types'
  BY <1>1, <1>3, <1>4 DEF Types, Quiet
<1>7. Working'
  BY <1>1, <1>4, <1>5, Zenon DEF Working, Prog, Quiet
<1>8. Down'
  BY <1>3, Zenon DEF Down, Up, phaseInit
<1>9. Accounted' /\ Unspoilt' /\ Deletions'
  BY <1>1, <1>2, Zenon DEF Accounted, InFlight, Unspoilt, Deletions, Quiet
<1>10. Triaged'
  BY <1>1, <1>3, <1>4 DEF Triaged, Types, phaseTriagedCorpus
<1> QED BY <1>6, <1>7, <1>8, <1>9, <1>10, Zenon

\* No step of any goroutine breaks the invariant.
LEMMA NextIInv == IInv /\ [Next]_vars => IInv'
<1> SUFFICES ASSUME IInv, [Next]_vars PROVE IInv'
  OBVIOUS
<1>1. CASE Start
  BY <1>1, StartIInv
<1>2. CASE Crash
  BY <1>2, CrashIInv
<1>3. CASE \E k \in Keys : CandidateResult(k) \/ FuzzResult(k)
  BY <1>3, ResultIInv
<1>4. CASE \E k \in Keys : Job(k)
  BY <1>4, JobStepIInv, JobSaveIInv, JobSendIInv DEF Job
<1>5. CASE Handler
  BY <1>5, TakeUpdateIInv, StoreUpdateIInv DEF Handler
<1>6. CASE Minimizer
  BY <1>6, StartMinimizeIInv, LockDBIInv, EndMinimizeIInv, ScanRecordIInv, Zenon DEF Minimizer
<1>7. CASE FuzzerLoop
  BY <1>7, FuzzerLoopIInv
<1>8. CASE Hub
  BY <1>8, HubIInv, Zenon
<1>9. CASE UNCHANGED vars
  <2> USE <1>9 DEF IInv, vars, managerVars, fuzzerVars, corpusVars
  <2>1. Types' /\ Working' /\ Down'
    BY Zenon DEF Types, Working, Prog, Down, Up
  <2>2. Accounted' /\ Unspoilt' /\ Deletions' /\ Triaged'
    BY Zenon DEF Accounted, InFlight, Unspoilt, Deletions, Triaged, Up
  <2> QED BY <2>1, <2>2
<1> QED BY <1>1, <1>2, <1>3, <1>4, <1>5, <1>6, <1>7, <1>8, <1>9, Zenon DEF Next

\* The inductive invariant holds in every state.
LEMMA Always == Spec => []IInv
BY InitIInv, NextIInv, PTL DEF Spec

\* Every program of the corpus is in the database or on its way there: no order of
\* saves, updates, minimizations and failing writes loses one.
THEOREM NoProgramForgotten == Spec => []CorpusAccounted
<1>1. IInv => CorpusAccounted
  <2> SUFFICES ASSUME IInv, NEW p \in DOMAIN items, p \notin db.records
               PROVE  [key |-> p, exists |-> FALSE] \in OnTheWay
    BY Zenon DEF CorpusAccounted
  <2>1. InFlight(p) /\ updates \in Seq(Updates) /\ DOMAIN sending = Keys
    BY Zenon DEF IInv, Accounted, Types
  <2>2. PICK new : new = [key |-> p, exists |-> FALSE]
    BY Zenon
  <2>3. CASE \E i \in 1 .. Len(updates) : updates[i] = new
    BY <2>1, <2>2, <2>3 DEF OnTheWay
  <2>4. CASE \E k \in Keys : sending[k] = new
    BY <2>1, <2>2, <2>4, Zenon DEF OnTheWay, Range
  <2>5. CASE handler = new
    BY <2>2, <2>5, Zenon DEF OnTheWay
  <2> QED BY <2>1, <2>2, <2>3, <2>4, <2>5, Zenon DEF InFlight
<1> QED BY <1>1, Always, PTL

\* Until a write fails, the file followed by the pending records is what is in memory.
THEOREM FileMirrorsMemory == Spec => []Mirrored
<1>1. IInv => Mirrored
  BY Zenon DEF IInv, Unspoilt, Intact, Mirrored
<1> QED BY <1>1, Always, PTL

\* A record leaves the file only if it does not parse or was deleted in memory, and
\* with preserve_corpus never because its calls are disabled: through any sequence of
\* partial writes, crashes and repairs.
THEOREM NothingStoredIsLost == Spec => DurableKept
<1> DEFINE Kept == \A k \in Stored \ Broken :
                     \/ k \in Stored'
                     \/ Up /\ k \notin db.records /\ ~(Preserve /\ k \in Disabled)
<1>1. IInv /\ [Next]_vars => [Kept]_vars
  <2> SUFFICES ASSUME IInv, Next PROVE Kept
    OBVIOUS
  <2>1. CASE db' = db
    BY <2>1, Zenon DEF Stored
  <2>2. CASE Start
    BY <2>2, StartIInv, Zenon
  <2>3. CASE Crash
    BY <2>3, CrashIInv, Zenon
  <2>4. CASE StoreUpdate
    BY <2>4, StoreUpdateIInv, Zenon
  <2>5. CASE EndMinimize
    <3>1. Up
      BY <2>5 DEF EndMinimize, IInv, Down
    <3>2. Stored \subseteq Stored' \cup Deleted(db)
      BY <2>5, EndMinimizeIInv, Zenon
    <3>3. Deleted(db) \cap db.records = {} /\ (Preserve => Deleted(db) \cap Disabled = {})
      BY Zenon DEF IInv, Deletions
    <3> QED BY <3>1, <3>2, <3>3, Zenon
  <2>6. CASE \E k \in Keys : ScanRecord(k)
    BY <2>6, ScanRecordIInv
  <2>7. CASE \E k \in Keys : CandidateResult(k) \/ FuzzResult(k) \/ Job(k)
    BY <2>1, <2>7, Zenon
      DEF CandidateResult, FuzzResult, Job, JobRuns, JobFlaky, JobFilter, JobSave,
                      JobSend, JobStep
  <2>8. CASE TakeUpdate \/ StartMinimize \/ LockDB
    BY <2>1, <2>8, Zenon DEF TakeUpdate, StartMinimize, LockDB
  <2>9. CASE FuzzerLoop \/ Hub
    BY <2>1, <2>9, Zenon DEF FuzzerLoop, NoCandidates, NoJobs, TriageFinished, LoopStep, Hub,
                      HubAnswers, AddCandidates, hubIsUnreachable, HubStep
  <2> QED BY <2>2, <2>3, <2>4, <2>5, <2>6, <2>7, <2>8, <2>9, Zenon DEF Next, Handler, Minimizer
<1>2. Spec => [][Kept]_vars
  BY <1>1, Always, PTL DEF Spec
<1> QED BY <1>2, Zenon DEF DurableKept

\* No minimization deletes the record of a program that still waits for its first runs
\* after the restart.
THEOREM RunBeforeDeleted == Spec => DeletedOnlyAfterRun
<1> DEFINE Safe == \A k \in db.records \cap fromCorpus :
                     Up' /\ k \notin db'.records => ~candidate[k]
<1>1. IInv /\ [Next]_vars => [Safe]_vars
  <2> SUFFICES ASSUME IInv, Next PROVE Safe
    BY Zenon
  <2>1. CASE ~Up
    BY <2>1, Zenon DEF IInv, Down
  <2>2. CASE minimizer # "idle"
    <3>1. \A k \in fromCorpus \cap Keys : ~candidate[k]
      BY <2>2 DEF IInv, Triaged
    <3>2. db.records \subseteq Keys
      BY Zenon DEF IInv, Types, DBs
    <3> QED BY <3>1, <3>2
  <2>3. CASE ~Up'
    BY <2>3
  <2>4. CASE db'.records = db.records
    BY <2>4, Zenon
  <2>5. CASE StoreUpdate
    <3>1. PICK r \in Flush(Save(db, handler.key), MayFail) : db' = r.db
      BY <2>5, Zenon DEF StoreUpdate, SetDB
    <3>2. db \in DBs /\ handler.key \in Keys /\ MayFail \in BOOLEAN
      BY <2>5 DEF StoreUpdate, IInv, Types, Updates, MayFail
    <3>3. Save(db, handler.key) \in DBs /\ db.records \subseteq Save(db, handler.key).records
      BY <3>2, SaveDB, Zenon
    <3>4. db'.records = Save(db, handler.key).records
      BY <3>1, <3>2, <3>3, FlushDB, Zenon DEF Wrote
    <3> QED BY <3>3, <3>4, Zenon
  <2>6. CASE Start \/ Crash
    BY <2>1, <2>3, <2>6 DEF Start, Crash, Exit, Up
  <2>7. CASE \E k \in Keys : CandidateResult(k) \/ FuzzResult(k) \/ Job(k)
    BY <2>4, <2>7, Zenon
      DEF CandidateResult, FuzzResult, Job, JobRuns, JobFlaky, JobFilter, JobSave,
                      JobSend, JobStep
  <2>8. CASE TakeUpdate \/ StartMinimize
    BY <2>4, <2>8, Zenon DEF TakeUpdate, StartMinimize
  <2>9. CASE FuzzerLoop \/ Hub
    BY <2>4, <2>9, Zenon DEF FuzzerLoop, NoCandidates, NoJobs, TriageFinished, LoopStep, Hub,
                      HubAnswers, AddCandidates, hubIsUnreachable, HubStep
  <2>10. CASE LockDB \/ EndMinimize \/ \E k \in Keys : ScanRecord(k)
    BY <2>2, <2>10 DEF LockDB, EndMinimize, ScanRecord
  <2> QED BY <2>5, <2>6, <2>7, <2>8, <2>9, <2>10, Zenon DEF Next, Handler, Minimizer
<1>2. Spec => [][Safe]_vars
  BY <1>1, Always, PTL DEF Spec
<1> QED BY <1>2 DEF DeletedOnlyAfterRun

-----------------------------------------------------------------------------
(* Signal.                                                                 *)

SignalInv ==
  /\ IsSignal(total)
  /\ \A p \in DOMAIN items : IsSignal(items[p])
  /\ SignalKept

\* Corpus.Save.
LEMMA SaveSignal ==
  ASSUME IInv, SignalInv, NEW k \in Keys, JobSave(k)
  PROVE  SignalInv'
<1>1. PICK p : p = Prog(k)
  OBVIOUS
<1>2. p \in Keys
  BY <1>1, ProgEnabled, Zenon DEF JobSave, IInv, Working
<1>3. PICK s \in Stable[p] :
        /\ items' = [q \in DOMAIN items \cup {p} |->
                      IF q = p THEN Merge(SignalOf(p), s) ELSE items[q]]
        /\ total' = Merge(total, s)
  BY <1>1, Zenon DEF JobSave
<1>4. IsSignal(s) /\ IsSignal(SignalOf(p))
  BY <1>2, CorpusAssumption, Zenon DEF IsSignal, SignalInv, SignalOf, NoSignal
<1>5. PICK old : old = SignalOf(p)
  BY Zenon
<1>6. PICK new : new = Merge(old, s)
  OBVIOUS
<1>7. /\ DOMAIN items' = DOMAIN items \cup {p} /\ items'[p] = new
      /\ \A q \in DOMAIN items \ {p} : items'[q] = items[q]
  BY <1>3, <1>5, <1>6, Zenon
<1>8. IsMax(new, old, s)
  BY <1>4, <1>5, <1>6, MergeMax, Zenon
<1>9. IsMax(total', total, s)
  BY <1>3, <1>4, MergeMax, Zenon DEF SignalInv
<1> USE DEF IsMax
<1>10. /\ p \in DOMAIN items => old = items[p]
       /\ p \notin DOMAIN items => DOMAIN old = {}
  BY <1>5 DEF SignalOf, NoSignal
<1>11. ASSUME NEW q \in DOMAIN items' PROVE IsSignal(items'[q])
  BY <1>7, <1>8, Zenon DEF SignalInv
<1>12. ASSUME NEW q \in DOMAIN items' PROVE Below(items'[q], total')
  <2>1. \A l \in DOMAIN items : IsSignal(items[l]) /\ Below(items[l], total)
    BY Zenon DEF SignalInv, SignalKept, Below
  <2>2. IsSignal(total)
    BY DEF SignalInv
  <2>3. CASE q = p
    <3>1. Below(old, total)
      BY <1>10, <2>1, Zenon DEF Below
    <3> QED BY <1>4, <1>5, <1>7, <1>8, <1>9, <2>2, <2>3, <3>1, MaxBelow, Zenon
  <2>4. CASE q # p
    BY <1>4, <1>7, <1>9, <2>1, <2>2, <2>4, BelowMax, Zenon
  <2> QED BY <2>3, <2>4, Zenon
<1>13. DOMAIN total' = UNION {DOMAIN items'[q] : q \in DOMAIN items'}
  <2>1. DOMAIN total = UNION {DOMAIN items[q] : q \in DOMAIN items}
    BY Zenon DEF SignalInv, SignalKept
  <2>2. ASSUME NEW e \in DOMAIN total' PROVE \E q \in DOMAIN items' : e \in DOMAIN items'[q]
    <3>1. CASE e \in DOMAIN s
      BY <1>7, <1>8, <3>1, Zenon
    <3>2. CASE e \in DOMAIN total
      <4>1. PICK q \in DOMAIN items : e \in DOMAIN items[q]
        BY <2>1, <3>2
      <4> QED BY <1>7, <1>8, <1>10, <4>1, Zenon
    <3> QED BY <1>9, <3>1, <3>2, Zenon
  <2> QED BY <1>12, <2>2, Zenon DEF Below
<1>14. ASSUME NEW e \in DOMAIN total', NEW q \in DOMAIN items', e \in DOMAIN items'[q]
       PROVE  items'[q][e] <= total'[e]
  BY <1>14, <1>12, Zenon DEF Below
<1>15. ASSUME NEW e \in DOMAIN total' PROVE \E q \in DOMAIN items' : Has(items'[q], e, total'[e])
  <2>1. CASE e \in DOMAIN s /\ total'[e] = s[e]
    BY <1>4, <1>7, <1>8, <2>1, Zenon DEF Has, IsSignal
  <2>2. CASE e \in DOMAIN total /\ total'[e] = total[e]
    <3>1. PICK q \in DOMAIN items : Has(items[q], e, total[e])
      BY <2>2, Zenon DEF SignalInv, SignalKept
    <3>2. CASE q = p
      <4>1. e \in DOMAIN new /\ old[e] <= new[e] /\ total[e] <= old[e]
        BY <1>8, <1>10, <3>1, <3>2, Zenon DEF Has
      <4>2. new[e] \in Nat /\ old[e] \in Nat /\ total[e] \in Nat
        BY <1>4, <1>5, <1>8, <1>10, <2>2, <3>1, <3>2, <4>1, Zenon DEF IsSignal, SignalInv, Has
      <4>3. total[e] <= new[e]
        BY <4>1, <4>2, NoMore, Zenon
      <4> QED BY <1>7, <2>2, <3>2, <4>1, <4>3, Zenon DEF Has
    <3>3. CASE q # p
      BY <1>7, <2>2, <3>1, <3>3, Zenon DEF Has
    <3> QED BY <3>2, <3>3, Zenon
  <2> QED BY <1>9, <2>1, <2>2, Zenon
<1>16. SignalKept'
  BY <1>13, <1>14, <1>15, Zenon DEF SignalKept
<1> QED BY <1>9, <1>11, <1>16, Zenon DEF SignalInv, IsSignal

\* Minimize keeps, for every element, a program that has it with its highest priority.
LEMMA MinimizeSignal ==
  ASSUME IInv, SignalInv, StartMinimize
  PROVE  SignalInv'
<1>1. PICK order \in Orders : items' = Minimized(order)
  BY DEF StartMinimize
<1>2. PICK sigs, kept : /\ sigs = [i \in DOMAIN order |-> items[order[i]]]
                        /\ kept = Minimize(sigs)
  BY Zenon
<1>3. /\ DOMAIN order \subseteq Nat
      /\ \A i \in DOMAIN order : order[i] \in DOMAIN items
      /\ \A p \in DOMAIN items : \E i \in DOMAIN order : order[i] = p
      /\ \A i \in DOMAIN order : 1 .. i - 1 \subseteq DOMAIN order
  <2>1. IsFiniteSet(DOMAIN items)
    BY DBAssumption, FS_Subset DEF IInv, Types
  <2>2. PICK S, n : S = DOMAIN items /\ n = Cardinality(S)
    OBVIOUS
  <2>3. n \in Nat /\ Cardinality(1 .. n) = n
    BY <2>1, <2>2, FS_CardinalityType, FS_Interval
  <2>4. order \in Injection(1 .. n, S)
    BY <2>2 DEF Orders
  <2>5. order \in [1 .. n -> S]
    BY <2>4 DEF Injection
  <2>6. order \in Surjection(1 .. n, S)
    BY <2>1, <2>2, <2>3, <2>4, FS_Injection
  <2>7. \A p \in S : \E i \in 1 .. n : order[i] = p
    BY <2>6 DEF Surjection
  <2> QED BY <2>2, <2>3, <2>5, <2>7
<1>4. /\ DOMAIN sigs = DOMAIN order
      /\ \A i \in DOMAIN order : sigs[i] = items[order[i]]
  BY <1>2, Zenon
<1>5. kept \subseteq DOMAIN order
  BY <1>2, <1>4, Zenon DEF Minimize
<1>6. items' = Restrict(items, {order[i] : i \in kept})
  BY <1>1, <1>2, Zenon DEF Minimized
<1>7. /\ DOMAIN items' = {order[i] : i \in kept}
      /\ \A p \in DOMAIN items' : items'[p] = items[p]
  BY <1>6, Zenon DEF Restrict
<1>8. DOMAIN items' \subseteq DOMAIN items /\ total' = total
  BY <1>3, <1>5, <1>7, Zenon DEF StartMinimize
<1>9. ASSUME NEW e \in DOMAIN total PROVE \E p \in DOMAIN items' : Has(items'[p], e, total[e])
  <2>1. PICK T : T = {i \in DOMAIN order : Has(items[order[i]], e, total[e])}
    BY Zenon
  <2>2. T # {} /\ T \in SUBSET Nat
    <3>1. PICK p \in DOMAIN items : Has(items[p], e, total[e])
      BY DEF SignalInv, SignalKept
    <3> QED BY <1>3, <2>1, <3>1, Zenon
  <2>3. PICK i \in T : \A j \in T : i <= j
    BY <2>2, Least, Zenon
  <2>4. i \in DOMAIN sigs /\ i \in Nat /\ Has(sigs[i], e, total[e])
    BY <1>3, <1>4, <2>1, <2>3, Zenon
  <2>5. \A j \in DOMAIN sigs : e \in DOMAIN sigs[j] => sigs[j][e] <= total[e] /\ sigs[j][e] \in Nat
    BY <1>3, <1>4 DEF SignalInv, SignalKept, IsSignal
  <2>6. e \in DOMAIN sigs[i] /\ sigs[i][e] = total[e]
    <3>1. total[e] \in Nat
      BY Zenon DEF SignalInv, IsSignal
    <3> QED BY <2>4, <2>5, <3>1 DEF Has
  <2>7. ASSUME NEW j \in 1 .. i - 1 PROVE ~Has(sigs[j], e, sigs[i][e])
    <3>1. j \notin T
      BY <2>3, <2>4
    <3>2. j \in DOMAIN order
      BY <1>3, <1>4, <2>4
    <3> QED BY <1>4, <2>1, <2>6, <3>1, <3>2
  <2>8. i \in kept
    BY <1>2, <2>4, <2>5, <2>6, <2>7, Zenon DEF Minimize
  <2> QED BY <1>4, <1>5, <1>7, <2>4, <2>8, Zenon
<1>10. DOMAIN total = UNION {DOMAIN items'[p] : p \in DOMAIN items'}
  <2>1. DOMAIN total = UNION {DOMAIN items[p] : p \in DOMAIN items}
    BY Zenon DEF SignalInv, SignalKept
  <2>2. \A e \in DOMAIN total : \E p \in DOMAIN items' : e \in DOMAIN items'[p]
    BY <1>9, Zenon DEF Has
  <2>3. \A p \in DOMAIN items' : \A e \in DOMAIN items'[p] : e \in DOMAIN total
    BY <1>7, <1>8, <2>1, Zenon
  <2> QED BY <2>2, <2>3
<1>11. SignalKept'
  BY <1>7, <1>8, <1>9, <1>10, Zenon DEF SignalKept, SignalInv
<1> QED BY <1>7, <1>8, <1>11, Zenon DEF SignalInv, IsSignal

\* An empty corpus.
LEMMA NoSignalKept ==
  ASSUME total = NoSignal, items = NoSignal
  PROVE  SignalInv
BY DEF SignalInv, SignalKept, IsSignal, NoSignal

\* The signal of the corpus is that of its programs together, with the highest
\* priorities, whatever is saved and minimized in whatever order.
THEOREM CorpusKeepsSignal == Spec => []SignalKept
<1>1. Init => SignalInv
  BY NoSignalKept DEF Init
<1>2. IInv /\ SignalInv /\ [Next]_vars => SignalInv'
  <2> SUFFICES ASSUME IInv, SignalInv, [Next]_vars PROVE SignalInv'
    OBVIOUS
  <2>1. CASE UNCHANGED <<items, total>>
    BY <2>1, Zenon DEF SignalInv, SignalKept, IsSignal
  <2>2. CASE Exit
    <3>1. total' = NoSignal /\ items' = NoSignal
      BY <2>2 DEF Exit
    <3> QED BY <3>1, Zenon DEF SignalInv, SignalKept, IsSignal, NoSignal
  <2>3. CASE \E k \in Keys : JobSave(k)
    BY <2>3, SaveSignal
  <2>4. CASE StartMinimize
    BY <2>4, MinimizeSignal
  <2>5. CASE Start \/ Crash \/ EndMinimize
    BY <2>1, <2>2, <2>5, Zenon DEF Start, Crash, EndMinimize, corpusVars
  <2>6. CASE \E k \in Keys : \/ CandidateResult(k) \/ FuzzResult(k) \/ JobRuns(k)
                             \/ JobFlaky(k) \/ JobFilter(k) \/ JobSend(k) \/ ScanRecord(k)
    BY <2>1, <2>6, Zenon DEF CandidateResult, FuzzResult, JobRuns, JobFlaky, JobFilter, JobSend,
                      ScanRecord, corpusVars
  <2>7. CASE Handler \/ LockDB
    BY <2>1, <2>7 DEF Handler, TakeUpdate, StoreUpdate, LockDB, corpusVars
  <2>8. CASE FuzzerLoop \/ Hub
    BY <2>1, <2>8, Zenon DEF FuzzerLoop, NoCandidates, NoJobs, TriageFinished, LoopStep, Hub,
                      HubAnswers, AddCandidates, hubIsUnreachable, HubStep, corpusVars
  <2>9. CASE UNCHANGED vars
    BY <2>1, <2>9 DEF vars, corpusVars
  <2> QED BY <2>3, <2>4, <2>5, <2>6, <2>7, <2>8, <2>9 DEF Next, Job, Minimizer
<1>3. SignalInv => SignalKept
  BY DEF SignalInv
<1> QED BY <1>1, <1>2, <1>3, Always, PTL DEF Spec
=============================================================================
