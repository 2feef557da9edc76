------------------------------ MODULE PoolProofs ------------------------------
(***************************************************************************)
(* A VM never keeps running an outdated default job without having been    *)
(* told to stop, and the pool reserves as many VMs as it was last asked    *)
(* to, for any number of VMs, jobs and calls.                              *)
(***************************************************************************)
EXTENDS Pool, FiniteSetTheorems, TLAPS

\* What the argument needs of the types.
Shapes ==
  /\ defaultJob \in Nat
  /\ job \in [VMs -> Nat \cup {Nil}]
  /\ cancelled \in [VMs -> BOOLEAN]
  /\ pc \in [VMs -> {"pause", "reset", "boot", "fetch", "idle", "select", "run"}]
  /\ cur \in [VMs -> Nat \cup Jobs \cup {Nil}]
  /\ waiting \subseteq Jobs
  /\ sendTo = [vm |-> sendTo.vm, live |-> sendTo.live]

\* A goroutine that runs has a job, and free sends to a VM that has one.
HasJob ==
  /\ \A v \in VMs : pc[v] = "run" => cur[v] # Nil
  /\ \A v \in VMs : sendTo.vm = v => job[v] # Nil

\* The inductive invariant.
StaleInv == Shapes /\ HasJob /\ StaleDefaultStopped

\* The invariant holds of the pool as NewDispatcher returns it.
LEMMA InitStale == Init => StaleInv
  <1> SUFFICES ASSUME Init PROVE StaleInv
    OBVIOUS
  <1>1. Shapes
    BY DEF Init, Shapes, NoSend
  <1>2. HasJob /\ StaleDefaultStopped
    BY PoolAssumption DEF Init, HasJob, StaleDefaultStopped, NoSend, VMs
  <1> QED
    BY <1>1, <1>2 DEF StaleInv

\* One step of Pool keeps the invariant.
LEMMA NextStale == StaleInv /\ [Next]_vars => StaleInv'
  <1> SUFFICES ASSUME StaleInv, [Next]_vars PROVE StaleInv'
    OBVIOUS
  <1> USE PoolAssumption DEF StaleInv, Shapes, HasJob, StaleDefaultStopped, NoSend
  <1>1. CASE ReserveForRun
    BY <1>1 DEF ReserveForRun, Begin
  <1>2. CASE SetDefault
    BY <1>2 DEF SetDefault, Begin
  <1>3. CASE TogglePause
    BY <1>3 DEF TogglePause, Begin
  <1>4. CASE Reserve
    <2> PICK v : v = Head(todo).vm
      OBVIOUS
    <2>1. /\ cancelled' = [cancelled EXCEPT ![v] = TRUE]
          /\ job' = [job EXCEPT ![v] = Nil]
          /\ sendTo = [vm |-> 0, live |-> FALSE]
          /\ UNCHANGED <<defaultJob, pc, cur, sendTo, waiting>>
      BY <1>4 DEF Reserve, StopForReserve
    <2>2. 0 \notin VMs
      BY DEF VMs
    <2>3. Shapes'
      BY <2>1, Zenon
    <2>4. HasJob'
      BY <2>1, <2>2
    <2>5. StaleDefaultStopped'
      BY <2>1
    <2> QED
      BY <2>3, <2>4, <2>5
  <1>5. CASE Free
    BY <1>5, Zenon DEF Free, Restarts, DropChan
  <1>6. CASE SwitchToJob
    <2> PICK v : v = sendTo.vm
      OBVIOUS
    <2>1. /\ \/ /\ pc' = [pc EXCEPT ![v] = "run"]
                /\ cur' = [cur EXCEPT ![v] = job[v]]
             \/ UNCHANGED <<pc, cur>>
          /\ sendTo' = [vm |-> 0, live |-> FALSE]
          /\ UNCHANGED <<defaultJob, job, cancelled, waiting>>
      BY <1>6 DEF SwitchToJob
    <2>2. 0 \notin VMs
      BY DEF VMs
    <2>3. v \in VMs => job[v] \in Nat
      OBVIOUS
    <2>4. Shapes'
      BY <2>1, <2>3
    <2>5. HasJob'
      BY <2>1, <2>2, <2>3
    <2>6. StaleDefaultStopped'
      BY <2>1
    <2> QED
      BY <2>4, <2>5, <2>6
  <1>7. CASE Run
    BY <1>7 DEF Run
  <1>8. CASE RunAborted
    BY <1>8 DEF RunAborted
  <1>9. ASSUME NEW v \in VMs, RunInstance(v) PROVE StaleInv'
    <2>1. CASE WaitUnpaused(v)
      BY <2>1 DEF WaitUnpaused, Goto
    <2>2. CASE Reset(v)
      BY <2>2, Zenon DEF Reset, Goto
    <2>3. CASE Boot(v)
      BY <2>3 DEF Boot, Goto
    <2>4. CASE BootFails(v)
      BY <2>4 DEF BootFails, Goto
    <2>5. CASE Fetch(v)
      BY <2>5 DEF Fetch, Goto
    <2>6. CASE EnterSelect(v)
      BY <2>6 DEF EnterSelect, Goto
    <2>7. CASE TakeJob(v)
      BY <2>7 DEF TakeJob, Goto
    <2>8. CASE Abandon(v)
      BY <2>8 DEF Abandon, Goto
    <2>9. CASE JobEnds(v)
      BY <2>9 DEF JobEnds, Goto
    <2> QED
      BY <1>9, <2>1, <2>2, <2>3, <2>4, <2>5, <2>6, <2>7, <2>8, <2>9 DEF RunInstance
  <1>10. CASE UNCHANGED vars
    BY <1>10 DEF vars
  <1> QED
    BY <1>1, <1>2, <1>3, <1>4, <1>5, <1>6, <1>7, <1>8, <1>9, <1>10 DEF Next, Method

\* Whatever calls of ReserveForRun, SetDefault and TogglePause meet whatever
\* steps of the VMs' goroutines, a VM that runs a default job other than the
\* one assigned to it has its context cancelled.
THEOREM OutdatedJobsStopped == Spec => []StaleDefaultStopped
  <1>1. StaleInv => StaleDefaultStopped
    BY DEF StaleInv
  <1> QED
    BY <1>1, InitStale, NextStale, PTL DEF Spec

-----------------------------------------------------------------------------
(* How many VMs are reserved.                                              *)

\* The VMs that the visits of T reserve, or free.
Coming(kind, T) == {T[i].vm : i \in {j \in DOMAIN T : T[j].kind = kind}}

\* The VMs reserved once the method in progress is done.
Final(R, T) == (R \cup Coming("reserve", T)) \ Coming("free", T)

Visit == [kind : {"reserve", "free"}, vm : VMs]

VisitTypes ==
  /\ todo \in Seq(Visit)
  /\ \A i, j \in DOMAIN todo : todo[i].vm = todo[j].vm => i = j

CountTypes ==
  /\ count \in 0 .. NumVMs /\ defaultJob \in Nat
  /\ job \in [VMs -> Nat \cup {Nil}]
  /\ reserved = [v \in VMs |-> job[v] = Nil]

CountInv ==
  /\ VisitTypes /\ CountTypes
  /\ Cardinality(Final(VMs \ Unreserved, todo)) = count

\* Sets of VMs are finite, and of natural numbers.
LEMMA VMCount == IsFiniteSet(VMs) /\ Cardinality(VMs) = NumVMs
<1>1. NumVMs \in Int /\ 1 \in Int /\ ~(1 > NumVMs) /\ NumVMs - 1 + 1 = NumVMs
  BY PoolAssumption
<1>2. /\ IsFiniteSet(1 .. NumVMs)
      /\ Cardinality(1 .. NumVMs) = IF 1 > NumVMs THEN 0 ELSE NumVMs - 1 + 1
  BY <1>1, FS_Interval
<1> QED BY <1>1, <1>2 DEF VMs

\* A set of VMs is a finite set of at most NumVMs numbers.
LEMMA VMSets ==
  ASSUME NEW S, S \subseteq VMs
  PROVE  /\ IsFiniteSet(S) /\ Cardinality(S) \in Nat /\ Cardinality(S) <= NumVMs
         /\ S \subseteq Nat
<1>2. IsFiniteSet(S) /\ Cardinality(S) <= Cardinality(VMs)
  BY VMCount, FS_Subset
<1> QED BY VMCount, <1>2, FS_CardinalityType DEF VMs

\* Pool order numbers the VMs of S from 0 on, without gaps.
RankOf(S) == [v \in S |-> Rank(S, v)]

\* A VM's place in the pool's order, among the VMs of S, is below their number.
LEMMA RankLess ==
  ASSUME NEW S, S \subseteq VMs, NEW v \in S
  PROVE  Rank(S, v) \in 0 .. Cardinality(S) - 1
<1> DEFINE B == {w \in S : w < v}
<1>1. B \subseteq S \ {v}
  BY VMSets
<1>2. IsFiniteSet(S \ {v}) /\ Cardinality(S \ {v}) = Cardinality(S) - 1
  BY VMSets, FS_RemoveElement
<1>3. IsFiniteSet(B) /\ Cardinality(B) <= Cardinality(S \ {v})
  BY <1>1, <1>2, FS_Subset
<1>4. Cardinality(B) \in Nat /\ Cardinality(S) \in Nat
  BY <1>3, VMSets, FS_CardinalityType
<1> HIDE DEF B
<1>5. Cardinality(B) \in 0 .. Cardinality(S) - 1
  BY <1>2, <1>3, <1>4
<1> QED BY <1>5 DEF Rank, B

\* A later VM has a higher place.
LEMMA RankGrows ==
  ASSUME NEW S, S \subseteq VMs, NEW v \in S, NEW u \in S, v < u
  PROVE  Rank(S, v) < Rank(S, u)
<1> DEFINE B == {w \in S : w < v}
           C == {w \in S : w < u}
<1>1. B \subseteq S /\ C \subseteq S /\ v \notin B /\ B \cup {v} \subseteq C
  BY VMSets
<1>2. IsFiniteSet(B) /\ IsFiniteSet(C)
  BY <1>1, VMSets, FS_Subset
<1>3. IsFiniteSet(B \cup {v}) /\ Cardinality(B \cup {v}) = Cardinality(B) + 1
  BY <1>1, <1>2, FS_AddElement, Zenon
<1>4. Cardinality(B \cup {v}) <= Cardinality(C)
  BY <1>1, <1>2, FS_Subset
<1>5. Cardinality(B) \in Nat /\ Cardinality(C) \in Nat
  BY <1>2, FS_CardinalityType
<1> HIDE DEF B, C
<1>6. Cardinality(B) < Cardinality(C)
  BY <1>3, <1>4, <1>5
<1> QED BY <1>6 DEF Rank, B, C

\* The places of the VMs of S are 0 .. |S| - 1, each taken exactly once.
LEMMA RankBijection ==
  ASSUME NEW S, S \subseteq VMs
  PROVE  /\ \A v \in S : Rank(S, v) \in 0 .. Cardinality(S) - 1
         /\ \A v, u \in S : Rank(S, v) = Rank(S, u) => v = u
         /\ \A k \in 0 .. Cardinality(S) - 1 : \E v \in S : Rank(S, v) = k
<1>1. \A v \in S : Rank(S, v) \in 0 .. Cardinality(S) - 1
  BY RankLess
<1>2. ASSUME NEW v \in S, NEW u \in S, Rank(S, v) = Rank(S, u) PROVE v = u
  <2>1. v \in Nat /\ u \in Nat
    BY VMSets
  <2>2. Rank(S, v) \in Nat
    BY <1>1, VMSets
  <2>3. ~(v < u) /\ ~(u < v)
    BY <1>2, <2>2, RankGrows
  <2> QED BY <2>1, <2>3
<1>3. PICK n \in Nat : n = Cardinality(S)
  BY VMSets
<1>4. PICK T : T = 0 .. n - 1
  OBVIOUS
<1>5. IsFiniteSet(T) /\ Cardinality(T) = n
  BY <1>4, FS_Interval
<1>6. RankOf(S) \in Injection(S, T)
  BY <1>1, <1>2, <1>3, <1>4 DEF RankOf, Injection, IsInjective
<1>7. RankOf(S) \in Surjection(S, T)
  BY <1>3, <1>5, <1>6, FS_Injection
<1>8. \A k \in T : \E v \in S : RankOf(S)[v] = k
  BY <1>7 DEF Surjection
<1> QED BY <1>1, <1>2, <1>3, <1>4, <1>8 DEF RankOf

\* The first n VMs are n.
LEMMA FirstCount ==
  ASSUME NEW S, S \subseteq VMs, NEW n \in 0 .. Cardinality(S)
  PROVE  FirstOf(S, n) \subseteq S /\ Cardinality(FirstOf(S, n)) = n
<1>1. PICK F, T, f : F = FirstOf(S, n) /\ T = 0 .. n - 1 /\ f = [v \in F |-> Rank(S, v)]
  BY Zenon
<1>2. F \subseteq S /\ \A v \in S : v \in F <=> Rank(S, v) < n
  BY <1>1 DEF FirstOf
<1>3. Cardinality(S) \in Nat /\ n \in Nat /\ n <= Cardinality(S)
  BY VMSets
<1>4. IsFiniteSet(F)
  BY <1>2, VMSets, FS_Subset
<1>5. IsFiniteSet(T) /\ Cardinality(T) = n
  BY <1>1, <1>3, FS_Interval
<1>6. f \in [F -> T]
  <2>1. \A v \in F : Rank(S, v) \in T
    BY <1>1, <1>2, <1>3, RankBijection
  <2> QED BY <1>1, <2>1
<1>7. f \in Injection(F, T)
  BY <1>1, <1>2, <1>6, RankBijection DEF Injection, IsInjective
<1>8. f \in Surjection(F, T)
  <2>1. \A k \in T : \E v \in F : f[v] = k
    <3>1. ASSUME NEW k \in T PROVE \E v \in F : f[v] = k
      <4>1. k \in 0 .. Cardinality(S) - 1 /\ k < n
        BY <1>1, <1>3
      <4>2. PICK v \in S : Rank(S, v) = k
        BY <4>1, RankBijection
      <4> QED BY <1>1, <1>2, <4>1, <4>2
    <3> QED BY <3>1
  <2> QED BY <1>6, <2>1 DEF Surjection
<1>9. ExistsBijection(F, T)
  BY <1>7, <1>8 DEF ExistsBijection, Bijection
<1>10. Cardinality(F) = n
  BY <1>4, <1>5, <1>9, FS_Bijection
<1> QED BY <1>1, <1>2, <1>10

\* Visits go to each VM of S once.
LEMMA VisitFacts ==
  ASSUME NEW S, S \subseteq VMs, NEW kind \in {"reserve", "free"}, NEW T,
         T = Visits(kind, S)
  PROVE  /\ T \in Seq(Visit)
         /\ \A i, j \in DOMAIN T : T[i].vm = T[j].vm => i = j
         /\ \A i \in DOMAIN T : T[i].kind = kind
         /\ Coming(kind, T) = S
         /\ \A k \in {"reserve", "free"} : k # kind => Coming(k, T) = {}
<1>1. PICK n \in Nat : n = Cardinality(S)
  BY VMSets
<1>2. \A i \in 1 .. n : Nth(S, i) \in S /\ Rank(S, Nth(S, i)) = i - 1
  <2>1. ASSUME NEW i \in 1 .. n PROVE Nth(S, i) \in S /\ Rank(S, Nth(S, i)) = i - 1
    <3>1. i - 1 \in 0 .. Cardinality(S) - 1
      BY <1>1
    <3>2. \E v \in S : Rank(S, v) = i - 1
      BY <3>1, RankBijection
    <3> QED BY <3>2 DEF Nth
  <2> QED BY <2>1
<1>3. \A v \in S : Rank(S, v) + 1 \in 1 .. n /\ Nth(S, Rank(S, v) + 1) = v
  <2>1. ASSUME NEW v \in S
        PROVE  Rank(S, v) + 1 \in 1 .. n /\ Nth(S, Rank(S, v) + 1) = v
    <3>1. PICK k \in Nat : k = Rank(S, v) /\ k + 1 \in 1 .. n
      BY <1>1, RankBijection
    <3>2. Nth(S, k + 1) \in S /\ Rank(S, Nth(S, k + 1)) = k
      BY <1>2, <3>1
    <3> QED BY <3>1, <3>2, RankBijection
  <2> QED BY <2>1
<1>4. /\ DOMAIN T = 1 .. n
      /\ \A i \in 1 .. n : T[i] = [kind |-> kind, vm |-> Nth(S, i)]
      /\ T = [i \in 1 .. n |-> [kind |-> kind, vm |-> Nth(S, i)]]
  BY <1>1 DEF Visits
<1>5. \A i \in 1 .. n : T[i] \in Visit /\ T[i].kind = kind /\ T[i].vm = Nth(S, i)
  BY <1>2, <1>4 DEF Visit
<1>6. T \in Seq(Visit)
  <2>1. T \in [1 .. n -> Visit]
    BY <1>4, <1>5
  <2> QED BY <2>1
<1>7. ASSUME NEW i \in DOMAIN T, NEW j \in DOMAIN T, T[i].vm = T[j].vm PROVE i = j
  <2>1. i \in 1 .. n /\ j \in 1 .. n
    BY <1>4
  <2>2. i - 1 = j - 1
    BY <1>2, <1>5, <1>7, <2>1
  <2> QED BY <2>1, <2>2
<1>8. \A v : v \in Coming(kind, T) <=> v \in S
  BY <1>2, <1>3, <1>4, <1>5 DEF Coming
<1>9. \A k \in {"reserve", "free"} : k # kind => Coming(k, T) = {}
  BY <1>4, <1>5 DEF Coming
<1> QED BY <1>4, <1>5, <1>6, <1>7, <1>8, <1>9, Zenon

\* A method begins: what it will have done adds up.
LEMMA BeginCount ==
  ASSUME CountInv, MutexFree, NEW kind \in {"reserve", "free"}, NEW S, S \subseteq VMs,
         todo' = Visits(kind, S), UNCHANGED <<job, reserved>>, defaultJob' \in Nat,
         count' \in 0 .. NumVMs,
         count' = Cardinality(IF kind = "reserve" THEN (VMs \ Unreserved) \cup S
                                                  ELSE (VMs \ Unreserved) \ S)
  PROVE  CountInv'
<1>1. /\ todo' \in Seq(Visit)
      /\ \A i, j \in DOMAIN todo' : todo'[i].vm = todo'[j].vm => i = j
      /\ Coming(kind, todo') = S
      /\ \A k \in {"reserve", "free"} : k # kind => Coming(k, todo') = {}
  BY VisitFacts
<1>2. Final(VMs \ Unreserved, todo') =
        IF kind = "reserve" THEN (VMs \ Unreserved) \cup S ELSE (VMs \ Unreserved) \ S
  BY <1>1 DEF Final
<1>3. Unreserved' = Unreserved
  BY DEF Unreserved
<1>4. Cardinality(Final(VMs \ Unreserved, todo)') = count'
  BY <1>2, <1>3, Zenon DEF Final, Coming
<1>5. VisitTypes'
  BY <1>1 DEF VisitTypes
<1>6. CountTypes'
  BY DEF CountInv, CountTypes
<1> QED BY <1>4, <1>5, <1>6 DEF CountInv

\* ReserveForRun keeps the count: after the visits it plans, as many VMs as asked
\* for are reserved, whether it grows or shrinks the reservation.
LEMMA ReserveForRunCount ==
  ASSUME CountInv, ReserveForRun
  PROVE  CountInv'
<1>1. PICK c \in 0 .. NumVMs : /\ todo' = Adjust(c) /\ count' = c
                               /\ MutexFree /\ UNCHANGED <<job, reserved, defaultJob>>
  BY DEF ReserveForRun, Begin
<1>2. PICK R : R = VMs \ Unreserved
  BY Zenon
<1>3. /\ R \subseteq VMs /\ Unreserved \subseteq VMs /\ R \cap Unreserved = {}
      /\ Unreserved = VMs \ R
  BY <1>2 DEF Unreserved
<1>4. /\ IsFiniteSet(R) /\ IsFiniteSet(Unreserved) /\ Cardinality(R) \in Nat
      /\ Cardinality(Unreserved) = NumVMs - Cardinality(R)
  <2>1. /\ IsFiniteSet(VMs) /\ IsFiniteSet(R) /\ Cardinality(R) \in Nat
        /\ IsFiniteSet(Unreserved)
    BY <1>3, VMSets
  <2>2. Cardinality(VMs) = NumVMs
    BY VMCount
  <2>3. Cardinality(VMs \ R) = Cardinality(VMs) - Cardinality(VMs \cap R)
    BY <2>1, FS_Difference, Zenon
  <2>4. VMs \cap R = R
    BY <1>3
  <2> QED BY <1>3, <2>1, <2>2, <2>3, <2>4
<1>5. NumVMs \in Nat /\ c \in Nat /\ defaultJob' \in Nat
  BY <1>1, PoolAssumption DEF CountInv, CountTypes
<1>6. CASE c >= Cardinality(R)
  <2>1. PICK n \in Nat : n = c - Cardinality(R)
    BY <1>4, <1>5, <1>6
  <2>2. PICK S : S = FirstOf(Unreserved, n)
    OBVIOUS
  <2>3. S \subseteq Unreserved /\ Cardinality(S) = n
    <3>1. n \in 0 .. Cardinality(Unreserved)
      BY <1>1, <1>4, <1>5, <2>1
    <3> QED BY <1>3, <2>2, <3>1, FirstCount
  <2>4. todo' = Visits("reserve", S)
    BY <1>1, <1>2, <1>6, <2>1, <2>2 DEF Adjust
  <2>5. Cardinality(R \cup S) = c
    <3>1. IsFiniteSet(S) /\ R \cap S = {}
      BY <1>3, <1>4, <2>3, FS_Subset
    <3>2. Cardinality(R \cup S) = Cardinality(R) + Cardinality(S) - Cardinality(R \cap S)
      BY <1>4, <3>1, FS_Union
    <3>3. Cardinality(R \cap S) = 0
      BY <3>1, FS_EmptySet
    <3> QED BY <1>4, <1>5, <2>1, <2>3, <3>2, <3>3
  <2> QED BY <1>1, <1>2, <1>3, <1>5, <2>3, <2>4, <2>5, BeginCount
<1>7. CASE ~(c >= Cardinality(R))
  <2>1. PICK n \in Nat : n = Cardinality(R) - c
    BY <1>4, <1>5, <1>7
  <2>2. PICK S : S = FirstOf(R, n)
    OBVIOUS
  <2>3. S \subseteq R /\ Cardinality(S) = n
    <3>1. n \in 0 .. Cardinality(R)
      BY <1>4, <1>5, <2>1
    <3> QED BY <1>3, <2>2, <3>1, FirstCount
  <2>4. todo' = Visits("free", S)
    BY <1>1, <1>2, <1>7, <2>1, <2>2 DEF Adjust
  <2>5. Cardinality(R \ S) = c
    <3>1. R \cap S = S
      BY <2>3
    <3>2. Cardinality(R \ S) = Cardinality(R) - Cardinality(R \cap S)
      BY <1>4, FS_Difference, Zenon
    <3> QED BY <1>4, <1>5, <2>1, <2>3, <3>1, <3>2
  <2> QED BY <1>1, <1>2, <1>3, <1>5, <2>3, <2>4, <2>5, BeginCount
<1> QED BY <1>6, <1>7

\* SetDefault and TogglePause free VMs that are not reserved.
LEMMA FreeCount ==
  ASSUME CountInv, MutexFree, UNCHANGED <<job, reserved, count>>, defaultJob' \in Nat,
         todo' = Visits("free", Unreserved)
  PROVE  CountInv'
<1>1. Final(VMs \ Unreserved, todo) = VMs \ Unreserved
  BY DEF Final, Coming, MutexFree
<1>2. (VMs \ Unreserved) \ Unreserved = VMs \ Unreserved
  OBVIOUS
<1>3. count' = Cardinality((VMs \ Unreserved) \ Unreserved) /\ count' \in 0 .. NumVMs
  BY <1>1, <1>2 DEF CountInv, CountTypes
<1>4. Unreserved \subseteq VMs
  BY DEF Unreserved
<1> QED BY <1>3, <1>4, BeginCount

\* A step that touches no instance's job and no plan keeps the count.
LEMMA SameCount ==
  ASSUME CountInv, UNCHANGED <<job, reserved, count, defaultJob, todo>>
  PROVE  CountInv'
<1>1. Unreserved' = Unreserved
  BY DEF Unreserved
<1>2. Final(VMs \ Unreserved, todo)' = Final(VMs \ Unreserved, todo)
  BY <1>1 DEF Final, Coming
<1> QED BY <1>2 DEF CountInv, VisitTypes, CountTypes

\* One visit: the VMs reserved in the end stay the same.
LEMMA VisitCount ==
  ASSUME CountInv, todo # <<>>, NEW v, v = Head(todo).vm, NEW kind, kind = Head(todo).kind,
         todo' = Tail(todo), NEW b, b = (kind = "reserve"), NEW d \in Nat \cup {Nil},
         d = Nil <=> b,
         reserved' = [reserved EXCEPT ![v] = b], job' = [job EXCEPT ![v] = d],
         UNCHANGED <<count, defaultJob>>
  PROVE  CountInv'
<1>1. todo \in Seq(Visit) /\ \A i, j \in DOMAIN todo : todo[i].vm = todo[j].vm => i = j
  BY DEF CountInv, VisitTypes
<1>2. PICK n \in Nat : DOMAIN todo = 1 .. n + 1
  <2>1. Len(todo) \in Nat /\ Len(todo) # 0 /\ DOMAIN todo = 1 .. Len(todo)
    BY <1>1
  <2>2. Len(todo) - 1 \in Nat /\ Len(todo) = (Len(todo) - 1) + 1
    BY <2>1
  <2> QED BY <2>1, <2>2, Zenon
<1>3. /\ todo' \in Seq(Visit) /\ DOMAIN todo' = 1 .. n
      /\ \A i \in 1 .. n : todo'[i] = todo[i + 1]
      /\ Head(todo) = todo[1]
  BY <1>1, <1>2
<1>4. v \in VMs /\ kind \in {"reserve", "free"} /\ todo[1].vm = v /\ todo[1].kind = kind
  <2>1. todo[1] \in Visit
    BY <1>1, <1>2
  <2>2. v = todo[1].vm /\ kind = todo[1].kind
    BY <1>3
  <2> QED BY <2>1, <2>2 DEF Visit
<1>5. \A i \in 1 .. n : todo'[i].vm # v
  BY <1>1, <1>2, <1>3, <1>4
<1>6. /\ \A w, k : w \in Coming(k, todo) <=>
                     \/ w = v /\ k = kind
                     \/ w \in Coming(k, todo')
      /\ \A k : v \notin Coming(k, todo')
  <2>1. \A w, k : w \in Coming(k, todo) <=>
          \E i \in 1 .. n + 1 : todo[i].vm = w /\ todo[i].kind = k
    BY <1>2 DEF Coming
  <2>2. \A w, k : w \in Coming(k, todo') <=>
          \E i \in 1 .. n : todo'[i].vm = w /\ todo'[i].kind = k
    BY <1>3, Zenon DEF Coming
  <2>3. \A i \in 1 .. n : i + 1 \in 1 .. n + 1
    OBVIOUS
  <2>4. \A i \in 1 .. n + 1 : i = 1 \/ (i - 1 \in 1 .. n /\ todo[i] = todo'[i - 1])
    BY <1>3
  <2>5. 1 \in 1 .. n + 1
    OBVIOUS
  <2>6. ASSUME NEW w, NEW k
        PROVE  w \in Coming(k, todo) <=> (w = v /\ k = kind) \/ w \in Coming(k, todo')
    <3>1. ASSUME w \in Coming(k, todo) PROVE (w = v /\ k = kind) \/ w \in Coming(k, todo')
      <4>1. PICK i \in 1 .. n + 1 : todo[i].vm = w /\ todo[i].kind = k
        BY <2>1, <3>1
      <4>2. CASE i = 1
        BY <1>4, <4>1, <4>2
      <4>3. CASE i # 1
        <5>1. i - 1 \in 1 .. n /\ todo[i] = todo'[i - 1]
          BY <2>4, <4>3, Zenon
        <5>2. PICK j \in 1 .. n : todo'[j].vm = w /\ todo'[j].kind = k
          BY <4>1, <5>1, Zenon
        <5> QED BY <2>2, <5>2, Zenon
      <4> QED BY <4>2, <4>3
    <3>2. ASSUME w \in Coming(k, todo') PROVE w \in Coming(k, todo)
      BY <1>3, <2>1, <2>2, <2>3, <3>2
    <3>3. ASSUME w = v, k = kind PROVE w \in Coming(k, todo)
      BY <1>4, <2>1, <2>5, <3>3
    <3> QED BY <3>1, <3>2, <3>3
  <2>7. \A k : v \notin Coming(k, todo')
    BY <1>5, <2>2, Zenon
  <2> QED BY <2>6, <2>7
<1>7. reserved \in [VMs -> BOOLEAN] /\ b \in BOOLEAN
  BY DEF CountInv, CountTypes
<1>8. /\ \A w \in VMs : w \in VMs \ Unreserved <=> reserved[w]
      /\ \A w \in VMs : w \in VMs \ Unreserved' <=> reserved'[w]
  BY DEF Unreserved
<1>9. /\ reserved'[v] = b /\ \A w \in VMs \ {v} : reserved'[w] = reserved[w]
  BY <1>4, <1>7
<1>10. ASSUME NEW w
       PROVE  w \in Final(VMs \ Unreserved, todo)' <=> w \in Final(VMs \ Unreserved, todo)
  <2>1. w \in Final(VMs \ Unreserved, todo) <=>
          /\ w \in VMs \ Unreserved \/ w \in Coming("reserve", todo)
          /\ w \notin Coming("free", todo)
    BY DEF Final
  <2>2. w \in Final(VMs \ Unreserved, todo)' <=>
          /\ w \in VMs \ Unreserved' \/ w \in Coming("reserve", todo')
          /\ w \notin Coming("free", todo')
    BY DEF Final, Coming
  <2>3. CASE w = v
    BY <1>4, <1>6, <1>8, <1>9, <2>1, <2>2, <2>3, Zenon
  <2>4. CASE w # v
    <3>1. w \in VMs \ Unreserved' <=> w \in VMs \ Unreserved
      BY <1>8, <1>9, <2>4
    <3> QED BY <1>6, <2>1, <2>2, <2>4, <3>1
  <2> QED BY <2>3, <2>4
<1>11. Cardinality(Final(VMs \ Unreserved, todo)') = count'
  <2>1. Final(VMs \ Unreserved, todo)' = Final(VMs \ Unreserved, todo)
    BY <1>10, Zenon
  <2> QED BY <2>1 DEF CountInv
<1>12. VisitTypes'
  <2>1. ASSUME NEW i \in DOMAIN todo', NEW j \in DOMAIN todo', todo'[i].vm = todo'[j].vm
        PROVE  i = j
    <3>1. i \in 1 .. n /\ j \in 1 .. n /\ i + 1 \in DOMAIN todo /\ j + 1 \in DOMAIN todo
      BY <1>2, <1>3
    <3>2. i + 1 = j + 1
      BY <1>1, <1>3, <2>1, <3>1
    <3> QED BY <3>1, <3>2
  <2> QED BY <1>3, <2>1 DEF VisitTypes
<1>13. CountTypes'
  <2>1. /\ count' \in 0 .. NumVMs /\ defaultJob' \in Nat /\ job' \in [VMs -> Nat \cup {Nil}]
    BY Zenon DEF CountInv, CountTypes
  <2>2. reserved' = [w \in VMs |-> job'[w] = Nil]
    BY <1>4, <1>7, Zenon DEF CountInv, CountTypes
  <2> QED BY <2>1, <2>2, Zenon DEF CountTypes
<1> QED BY <1>11, <1>12, <1>13 DEF CountInv

\* Every step of the pool keeps the count.
LEMMA StepCount == CountInv /\ [Next]_vars => CountInv'
<1> SUFFICES ASSUME CountInv, [Next]_vars PROVE CountInv'
  OBVIOUS
<1>1. CASE SetDefault
  <2>1. defaultJob' \in Nat
    BY <1>1 DEF SetDefault, CountInv, CountTypes
  <2> QED BY <1>1, <2>1, FreeCount DEF SetDefault, Begin
<1>2. CASE TogglePause
  <2>1. PICK pause \in BOOLEAN :
          Begin(IF pause THEN Visits("free", Unreserved) ELSE <<>>)
    BY <1>2 DEF TogglePause
  <2>2. UNCHANGED <<defaultJob, count>> /\ defaultJob \in Nat
    BY <1>2 DEF TogglePause, CountInv, CountTypes
  <2>3. CASE pause
    BY <2>1, <2>2, <2>3, FreeCount DEF Begin
  <2>4. CASE ~pause
    BY <2>1, <2>2, <2>4, SameCount DEF Begin, MutexFree
  <2> QED BY <2>3, <2>4
<1>3. CASE Reserve
  <2>1. PICK v : v = Head(todo).vm
    OBVIOUS
  <2> QED BY <1>3, <2>1, VisitCount, Zenon DEF Reserve, StopForReserve
<1>4. CASE Free
  <2>1. PICK v : v = Head(todo).vm
    OBVIOUS
  <2>2. defaultJob \in Nat /\ defaultJob # Nil
    BY PoolAssumption DEF CountInv, CountTypes
  <2> QED BY <1>4, <2>1, <2>2, VisitCount, Zenon DEF Free, DropChan
<1>5. CASE SwitchToJob \/ Run \/ RunAborted
  BY <1>5, SameCount DEF SwitchToJob, Run, RunAborted
<1>6. ASSUME NEW v \in VMs, RunInstance(v) PROVE CountInv'
  BY <1>6, SameCount DEF RunInstance, WaitUnpaused, Reset, Boot, BootFails, Fetch,
                         EnterSelect, TakeJob, Abandon, JobEnds
<1>7. CASE UNCHANGED vars
  BY <1>7, SameCount DEF vars
<1> QED BY <1>1, <1>2, <1>3, <1>4, <1>5, <1>6, <1>7, ReserveForRunCount DEF Next, Method

\* Whatever calls of ReserveForRun, SetDefault and TogglePause came before,
\* after ReserveForRun(c) exactly c VMs are reserved, and a VM has a job of
\* its own exactly when it is not.
THEOREM ReservedAsAsked == Spec => []ReservedExactly
<1>1. Init => CountInv
  <2> SUFFICES ASSUME Init PROVE CountInv
    OBVIOUS
  <2>1. VisitTypes
    BY DEF Init, VisitTypes
  <2>4. CountTypes
    <3>1. NumVMs \in Nat /\ 0 \in 0 .. NumVMs /\ 0 # Nil
      BY PoolAssumption
    <3> QED BY <3>1, Zenon DEF Init, CountTypes
  <2>2. Final(VMs \ Unreserved, todo) = {}
    BY DEF Init, Final, Coming, Unreserved
  <2>3. Cardinality({}) = 0
    BY FS_EmptySet
  <2> QED BY <2>1, <2>2, <2>3, <2>4, Zenon DEF Init, CountInv
<1>2. CountInv => ReservedExactly
  <2> SUFFICES ASSUME CountInv PROVE ReservedExactly
    OBVIOUS
  <2>1. ASSUME MutexFree PROVE Final(VMs \ Unreserved, todo) = VMs \ Unreserved
    BY <2>1 DEF Final, Coming, MutexFree
  <2> QED BY <2>1 DEF CountInv, CountTypes, ReservedExactly
<1> QED BY <1>1, <1>2, StepCount, PTL DEF Spec
=============================================================================
