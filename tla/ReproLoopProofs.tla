--------------------------- MODULE ReproLoopProofs ---------------------------
(***************************************************************************)
(* For any crashes, titles and VMs: no title is reproduced twice at once,  *)
(* the reproductions that run have their VMs, and attempts go to the       *)
(* crashes tried less.                                                     *)
(***************************************************************************)
EXTENDS ReproLoop, FiniteSetTheorems, SequenceTheorems, WellFoundedInduction, TLAPS

Types ==
  /\ queue \in Seq(Crashes)
  /\ reproducing \subseteq Titles
  /\ attempts \in [Titles -> Nat]
  /\ parallel \in Nat
  /\ poolSize \in Nat
  /\ pc \in {"off", "pop", "need", "wait", "slot", "start", "left"}
  /\ crash \in Crashes \cup {None}
  /\ at \in [Crashes -> {"unseen", "refused", "queued", "popped", "declined",
                         "running", "ended", "returned", "handled"}]

\* The queue has the queued crashes, each once; the loop has the popped one,
\* whose title is not under reproduction, for only the loop starts one.
Where ==
  /\ \A i, j \in DOMAIN queue : queue[i] = queue[j] => i = j
  /\ \A c \in Crashes : (at[c] = "queued") <=> \E i \in DOMAIN queue : queue[i] = c
  /\ \A c \in Crashes : (at[c] = "popped") <=> (c = crash)
  /\ pc \in {"need", "slot", "start"} => crash # None
  /\ pc \in {"off", "pop", "wait"} => crash = None
  /\ crash # None => Title[crash] \notin reproducing

\* The crashes that hold a slot, the one the loop has taken apart.
Busy == {c \in Crashes : at[c] \in {"running", "ended"}}

\* Every reproduction holds one of the MaxRepros slots until it has returned
\* it.  Titles under reproduction are counted like the reproductions.
Slots ==
  /\ IsFiniteSet(Busy)
  /\ pc = "off" => Busy = {}
  /\ Cardinality(Busy) + parallel + (IF pc = "start" THEN 1 ELSE 0) <= MaxRepros
  /\ IsFiniteSet(reproducing)
  /\ Cardinality(Running) = Cardinality(reproducing)

\* The pool shrinks to nothing when the last work is gone.
Idle == queue = <<>> /\ reproducing = {} /\ crash = None => poolSize = 0

PoolFits ==
  /\ calculateReproVMs(Cardinality(reproducing)) <= poolSize
  /\ poolSize <= ReproVMs

RLInv == Types /\ Where /\ OneReproPerTitle /\ Slots /\ PoolFits /\ Idle

\* A nonempty set of numbers has a least one.
LEMMA Least ==
  ASSUME NEW T \in SUBSET Nat, T # {}
  PROVE  \E x \in T : \A y \in T : x <= y
<1>1. PICK R : R = OpToRel(<, Nat)
  BY Zenon
<1>2. PICK x \in T : \A y \in T : ~(<<y, x>> \in R)
  BY <1>1, NatLessThanWellFounded, WFMin, Zenon
<1>3. ASSUME NEW y \in T, y < x PROVE FALSE
  <2>1. y \in Nat /\ x \in Nat
    OBVIOUS
  <2>2. <<y, x>> \in R
    BY <1>1, <1>3, <2>1, Zenon DEF OpToRel
  <2> QED BY <1>2, <2>2
<1> QED BY <1>3

\* calculateReproVMs never asks for fewer VMs for more reproductions.
LEMMA VMsMonotone ==
  /\ calculateReproVMs(0) = 0
  /\ \A m, n \in Nat : m <= n => calculateReproVMs(m) <= calculateReproVMs(n)
  /\ \A n \in Nat : calculateReproVMs(n) \in Nat
<1>1. \A n \in Nat : /\ (n * 4 + 2) \div 3 \in Nat
                     /\ 3 * ((n * 4 + 2) \div 3) <= n * 4 + 2
                     /\ n * 4 + 2 < 3 * ((n * 4 + 2) \div 3) + 3
  OBVIOUS
<1>2. \A n \in Nat : n >= 1 => (n * 4 + 2) \div 3 >= 2
  BY <1>1
<1>3. (0 * 4 + 2) \div 3 = 0
  BY <1>1
<1>4. \A m, n \in Nat : m <= n => (m * 4 + 2) \div 3 <= (n * 4 + 2) \div 3
  BY <1>1
<1> QED BY <1>1, <1>2, <1>3, <1>4, ReproAssumption DEF calculateReproVMs

\* The reproductions the slots allow fit into the VMs.
LEMMA SlotsFit ==
  /\ MaxRepros \in Nat
  /\ \A n \in Nat : n <= MaxRepros => calculateReproVMs(n) <= ReproVMs
<1> DEFINE S == {n \in 1 .. ReproVMs : calculateReproVMs(n) <= ReproVMs}
           T == {n \in Nat \ {0} : n \notin S}
<1>1. ReproVMs \in Nat
  BY ReproAssumption
<1>2. T \in SUBSET Nat /\ ReproVMs + 1 \in T
  BY <1>1
<1>3. PICK m \in T : \A y \in T : m <= y
  BY <1>2, Least, Zenon
<1>4. S = 1 .. m - 1
  <2>1. \A n \in 1 .. m - 1 : n \in S
    BY <1>3
  <2>2. \A n \in S : n < m
    <3>1. SUFFICES ASSUME NEW n \in S, m <= n PROVE FALSE
      BY <1>3, <1>1
    <3>2. calculateReproVMs(m) <= calculateReproVMs(n) /\ n \in Nat /\ m \in Nat
      BY <1>1, <3>1, VMsMonotone
    <3>3. m \in 1 .. ReproVMs /\ calculateReproVMs(m) <= ReproVMs
      BY <1>1, <3>1, <3>2, VMsMonotone
    <3> QED BY <3>3
  <2> QED BY <1>1, <2>1, <2>2
<1>5. MaxRepros = m - 1
  <2>1. Cardinality(1 .. m - 1) = m - 1
    BY <1>3, FS_Interval
  <2> QED BY <1>4, <2>1, Zenon DEF MaxRepros
<1>6. ASSUME NEW n \in Nat, n <= MaxRepros
      PROVE  calculateReproVMs(n) <= ReproVMs
  <2>1. CASE n = 0
    BY <1>1, <2>1, VMsMonotone
  <2>2. CASE n # 0
    BY <1>3, <1>4, <1>5, <1>6, <2>2
  <2> QED BY <2>1, <2>2
<1> QED BY <1>3, <1>5, <1>6

\* rest has every crash of q but gone, each once.
Without(rest, q, gone) ==
  /\ \A j, k \in DOMAIN rest : rest[j] = rest[k] => j = k
  /\ \A c \in Crashes : (\E k \in DOMAIN rest : rest[k] = c)
       <=> (c # gone /\ \E k \in DOMAIN q : q[k] = c)

\* Removing entry i from a queue of different crashes removes its crash.
LEMMA RemoveAtRemoves ==
  ASSUME NEW q \in Seq(Crashes), NEW i \in DOMAIN q, NEW rest,
         rest = RemoveAt(q, i), \A j, k \in DOMAIN q : q[j] = q[k] => j = k
  PROVE  rest \in Seq(Crashes) /\ Without(rest, q, q[i])
<1>1. PICK n \in Nat : n = Len(q) /\ DOMAIN q = 1 .. n /\ i \in 1 .. n
  OBVIOUS
<1>2. PICK a, b : /\ a = SubSeq(q, 1, i - 1) /\ b = SubSeq(q, i + 1, n)
                  /\ rest = a \o b
  BY <1>1, Zenon DEF RemoveAt
<1>3. /\ a \in Seq(Crashes) /\ Len(a) = i - 1
      /\ \A k \in 1 .. i - 1 : a[k] = q[k]
  <2>1. 1 \in Int /\ i - 1 \in Int /\ \A k \in 1 .. i - 1 : q[k] \in Crashes
    BY <1>1
  <2>2. /\ a \in Seq(Crashes)
        /\ Len(a) = IF 1 <= i - 1 THEN i - 1 - 1 + 1 ELSE 0
        /\ \A k \in 1 .. i - 1 - 1 + 1 : a[k] = q[1 + k - 1]
    BY ONLY <1>2, <2>1, SubSeqProperties
  <2> QED BY <1>1, <2>2
<1>4. /\ b \in Seq(Crashes) /\ Len(b) = n - i
      /\ \A k \in 1 .. n - i : b[k] = q[i + k]
  <2>1. PICK m : m = i + 1
    OBVIOUS
  <2>2. m \in Int /\ n \in Int /\ \A k \in m .. n : q[k] \in Crashes
    BY <1>1, <2>1
  <2>3. b = SubSeq(q, m, n)
    BY <1>2, <2>1
  <2>4. /\ b \in Seq(Crashes)
        /\ Len(b) = IF m <= n THEN n - m + 1 ELSE 0
        /\ \A k \in 1 .. n - m + 1 : b[k] = q[m + k - 1]
    BY ONLY <2>2, <2>3, SubSeqProperties
  <2>5. n - m + 1 = n - i /\ (m <= n \/ n - i = 0)
    BY <1>1, <2>1
  <2>6. \A k \in 1 .. n - i : m + k - 1 = i + k
    BY <1>1, <2>1
  <2> QED BY <2>4, <2>5, <2>6
<1>5. /\ rest \in Seq(Crashes) /\ DOMAIN rest = 1 .. n - 1
      /\ \A k \in 1 .. n - 1 : rest[k] = IF k <= i - 1 THEN a[k] ELSE b[k - (i - 1)]
  <2>1. /\ rest \in Seq(Crashes) /\ Len(rest) = Len(a) + Len(b)
        /\ \A k \in 1 .. Len(a) + Len(b) :
             rest[k] = IF k <= Len(a) THEN a[k] ELSE b[k - Len(a)]
    <3>1. a \in Seq(Crashes) /\ b \in Seq(Crashes) /\ rest = a \o b
      BY <1>2, <1>3, <1>4
    <3> QED BY ONLY <3>1, ConcatProperties
  <2>2. Len(a) + Len(b) = n - 1
    <3>1. Len(a) = i - 1 /\ Len(b) = n - i /\ i \in Int /\ n \in Int
      BY <1>1, <1>3, <1>4
    <3> QED BY ONLY <3>1
  <2>3. DOMAIN rest = 1 .. Len(rest)
    BY <2>1
  <2> QED BY <1>3, <2>1, <2>2, <2>3
<1>6. \A k \in 1 .. n - 1 : rest[k] = IF k < i THEN q[k] ELSE q[k + 1]
  <2>1. ASSUME NEW k \in 1 .. n - 1, k < i PROVE rest[k] = q[k]
    BY <1>1, <1>3, <1>5, <2>1
  <2>2. ASSUME NEW k \in 1 .. n - 1, ~(k < i) PROVE rest[k] = q[k + 1]
    <3>1. k - (i - 1) \in 1 .. n - i /\ i + (k - (i - 1)) = k + 1 /\ ~(k <= i - 1)
      BY <1>1, <2>2
    <3> QED BY <1>4, <1>5, <3>1
  <2> QED BY <2>1, <2>2
<1>7. ASSUME NEW j \in DOMAIN rest, NEW k \in DOMAIN rest, rest[j] = rest[k]
      PROVE  j = k
  <2>1. /\ j \in 1 .. n - 1 /\ k \in 1 .. n - 1
        /\ j \in 1 .. n /\ j + 1 \in 1 .. n /\ k \in 1 .. n /\ k + 1 \in 1 .. n
    BY <1>1, <1>5
  <2> QED BY ONLY <1>1, <1>6, <1>7, <2>1, \A l, m \in DOMAIN q : q[l] = q[m] => l = m
<1>8. ASSUME NEW k \in DOMAIN rest
      PROVE  rest[k] # q[i] /\ \E l \in DOMAIN q : q[l] = rest[k]
  <2>1. k \in 1 .. n - 1 /\ k \in 1 .. n /\ k + 1 \in 1 .. n
    BY <1>1, <1>5
  <2>2. CASE k < i
    BY <1>1, <1>6, <2>1, <2>2
  <2>3. CASE ~(k < i)
    BY <1>1, <1>6, <2>1, <2>3
  <2> QED BY <2>2, <2>3
<1>9. ASSUME NEW k \in DOMAIN q, q[k] # q[i]
      PROVE  \E l \in DOMAIN rest : rest[l] = q[k]
  <2>1. CASE k < i
    BY <1>1, <1>5, <1>6, <2>1
  <2>2. CASE k > i
    <3>1. k - 1 \in 1 .. n - 1 /\ rest[k - 1] = q[k]
      BY <1>1, <1>6, <2>2
    <3> QED BY <1>5, <3>1
  <2> QED BY <1>1, <1>9, <2>1, <2>2
<1> QED BY <1>5, <1>7, <1>8, <1>9 DEF Without

\* The titles of a queue are finitely many.
LEMMA TitlesFinite ==
  ASSUME NEW q \in Seq(Crashes)
  PROVE  IsFiniteSet({Title[q[i]] : i \in DOMAIN q})
<1>1. PICK n \in Nat : DOMAIN q = 1 .. n
  OBVIOUS
<1>2. PICK f, T : f = [i \in 1 .. n |-> Title[q[i]]] /\ T = {Title[q[i]] : i \in 1 .. n}
  BY Zenon
<1>3. f \in Surjection(1 .. n, T)
  BY <1>2, Zenon DEF Surjection
<1>4. IsFiniteSet(1 .. n)
  BY FS_Interval
<1>5. IsFiniteSet(T)
  BY ONLY <1>3, <1>4, FS_Surjection
<1> QED BY <1>1, <1>2, <1>5, Zenon

\* adjustPoolSizeLocked leaves the reproductions that run their VMs, keeps
\* within the VMs there are, and frees them all when there is nothing to do.
LEMMA AdjustFits ==
  ASSUME NEW running, IsFiniteSet(running), NEW q \in Seq(Crashes),
         calculateReproVMs(Cardinality(running)) <= ReproVMs
  PROVE  /\ AdjustedPool(running, q) \in Nat
         /\ calculateReproVMs(Cardinality(running)) <= AdjustedPool(running, q)
         /\ AdjustedPool(running, q) <= ReproVMs
         /\ running = {} /\ q = <<>> => AdjustedPool(running, q) = 0
<1>1. PICK W, U : /\ W = {Title[q[i]] : i \in DOMAIN q}
                  /\ U = running \cup W
  BY Zenon
<1>2. IsFiniteSet(W) /\ IsFiniteSet(U)
  BY <1>1, TitlesFinite, FS_Union, Zenon
<1>3. Cardinality(running) \in Nat /\ Cardinality(U) \in Nat
  BY <1>2, FS_CardinalityType
<1>4. Cardinality(running) <= Cardinality(U)
  BY <1>1, <1>2, FS_Subset
<1>5. PICK need : need = calculateReproVMs(Cardinality(U))
  OBVIOUS
<1>6. need \in Nat /\ calculateReproVMs(Cardinality(running)) <= need
  BY <1>3, <1>4, <1>5, VMsMonotone
<1>7. AdjustedPool(running, q) = IF need < ReproVMs THEN need ELSE ReproVMs
  BY <1>1, <1>5 DEF AdjustedPool
<1>8. ASSUME running = {}, q = <<>> PROVE need = 0
  <2>1. U = {}
    BY <1>1, <1>8
  <2> QED BY <1>5, <2>1, FS_EmptySet, VMsMonotone
<1> QED BY <1>6, <1>7, <1>8, ReproAssumption

\* Of a set of indices, those in P if there are any, else all of them.
Preferred(F, E, P) ==
  /\ F \subseteq E /\ F # {}
  /\ \A i, j \in F : (i \in P) <=> (j \in P)
  /\ \A i \in F, j \in E \ F : i \in P /\ j \notin P

\* Among waiting crashes there is always one that popCrash may prefer.
LEMMA PreferredExist ==
  ASSUME NEW E, E # {}, NEW P
  PROVE  \E F : Preferred(F, E, P)
<1>1. CASE E \cap P # {}
  <2>1. Preferred(E \cap P, E, P)
    BY <1>1 DEF Preferred
  <2> QED BY <2>1
<1>2. CASE E \cap P = {}
  <2>1. Preferred(E, E, P)
    BY <1>2 DEF Preferred
  <2> QED BY <2>1
<1> QED BY <1>1, <1>2

\* The scan of popCrash ends with a crash that none is better than, and that
\* is better than the ones before it.
LEMMA BestFound ==
  ASSUME Types, Eligible # {}
  PROVE  /\ Best \in Eligible
         /\ \A j \in Eligible : ~newBetter(queue[Best], queue[j])
<1> DEFINE t(j) == attempts[Title[queue[j]]]
<1>1. PICK E0 : /\ E0 \subseteq Eligible /\ E0 # {}
                /\ \A i, j \in E0 : (queue[i] \in FullRepro) <=> (queue[j] \in FullRepro)
                /\ \A i \in E0, j \in Eligible \ E0 :
                     queue[i] \in FullRepro /\ queue[j] \notin FullRepro
  <2>1. PICK P : P = {j \in Eligible : queue[j] \in FullRepro}
    BY Zenon
  <2>2. PICK F : Preferred(F, Eligible, P)
    BY ONLY Eligible # {}, PreferredExist
  <2> QED BY <2>1, <2>2 DEF Preferred
<1>2. \A j \in Eligible : j \in Nat /\ queue[j] \in Crashes /\ t(j) \in Nat
  BY ReproAssumption DEF Types, Eligible
<1>3. PICK k \in E0 : \A j \in E0 : t(k) <= t(j)
  <2>1. PICK T : T = {t(j) : j \in E0}
    BY Zenon
  <2>2. T \in SUBSET Nat /\ T # {}
    BY <1>1, <1>2, <2>1
  <2>3. PICK x \in T : \A y \in T : x <= y
    BY ONLY <2>2, Least
  <2> QED BY <2>1, <2>3
<1> DEFINE E2 == {j \in E0 : t(j) = t(k)}
<1>4. PICK E4 : /\ E4 \subseteq E2 /\ E4 # {}
                /\ \A i, j \in E4 : (queue[i] \in Manual) <=> (queue[j] \in Manual)
                /\ \A i \in E4, j \in E2 \ E4 :
                     queue[i] \in Manual /\ queue[j] \notin Manual
  <2>1. PICK P : P = {j \in E2 : queue[j] \in Manual}
    BY Zenon
  <2>2. PICK F : Preferred(F, E2, P)
    BY <1>3, PreferredExist
  <2> QED BY <2>1, <2>2 DEF Preferred
<1>5. PICK E6 : /\ E6 \subseteq E4 /\ E6 # {}
                /\ \A i, j \in E6 : (queue[i] \in FromHub) <=> (queue[j] \in FromHub)
                /\ \A i \in E6, j \in E4 \ E6 :
                     queue[i] \notin FromHub /\ queue[j] \in FromHub
  <2>1. PICK P : P = {j \in E4 : queue[j] \notin FromHub}
    BY Zenon
  <2>2. PICK F : Preferred(F, E4, P)
    BY <1>4, PreferredExist, Zenon
  <2> QED BY <2>1, <2>2 DEF Preferred
<1>6. PICK i \in E6 : \A j \in E6 : i <= j
  BY <1>1, <1>2, <1>4, <1>5, Least
<1>7. i \in Eligible /\ i \in E0 /\ i \in E2 /\ i \in E4 /\ t(i) = t(k)
  BY <1>1, <1>4, <1>5, <1>6
<1>8. ASSUME NEW j \in Eligible
      PROVE  /\ ~newBetter(queue[i], queue[j])
             /\ j < i => newBetter(queue[j], queue[i])
  <2>1. CASE j \notin E0
    <3>1. queue[i] \in FullRepro /\ queue[j] \notin FullRepro
      BY <1>1, <1>7, <2>1
    <3> QED BY <3>1 DEF newBetter
  <2>2. CASE j \in E0 \ E2
    <3>1. /\ (queue[i] \in FullRepro) <=> (queue[j] \in FullRepro)
          /\ t(i) < t(j) /\ t(i) \in Nat /\ t(j) \in Nat
      BY <1>1, <1>2, <1>3, <1>7, <2>2
    <3> QED BY <3>1 DEF newBetter
  <2>3. CASE j \in E2 \ E4
    <3>1. /\ (queue[i] \in FullRepro) <=> (queue[j] \in FullRepro)
          /\ t(i) = t(j)
          /\ queue[i] \in Manual /\ queue[j] \notin Manual
      BY <1>1, <1>4, <1>7, <2>3
    <3> QED BY <3>1 DEF newBetter
  <2>4. CASE j \in E4
    <3>1. /\ (queue[i] \in FullRepro) <=> (queue[j] \in FullRepro)
          /\ t(i) = t(j)
          /\ (queue[i] \in Manual) <=> (queue[j] \in Manual)
      BY <1>1, <1>4, <1>7, <2>4
    <3>2. CASE j \in E6
      <4>1. ((queue[i] \in FromHub) <=> (queue[j] \in FromHub)) /\ ~(j < i)
        BY <1>2, <1>5, <1>6, <1>7, <3>2
      <4> QED BY <3>1, <4>1 DEF newBetter
    <3>3. CASE j \notin E6
      <4>1. queue[i] \notin FromHub /\ queue[j] \in FromHub
        BY <1>5, <1>6, <2>4, <3>3
      <4> QED BY <3>1, <4>1 DEF newBetter
    <3> QED BY <3>2, <3>3
  <2> QED BY <2>1, <2>2, <2>3, <2>4
<1>9. \E b \in Eligible : \A j \in Eligible :
        /\ ~newBetter(queue[b], queue[j])
        /\ j < b => newBetter(queue[j], queue[b])
  BY <1>7, <1>8
<1> HIDE DEF E2, t
<1>10. /\ Best \in Eligible
       /\ \A j \in Eligible : /\ ~newBetter(queue[Best], queue[j])
                              /\ j < Best => newBetter(queue[j], queue[Best])
  BY <1>9, Zenon DEF Best
<1> QED BY <1>10

\* The invariant holds of the loop as NewReproLoop returns it.
LEMMA InitRLInv == Init => RLInv
<1> SUFFICES ASSUME Init PROVE RLInv
  OBVIOUS
<1> USE ReproAssumption DEF Init
<1>1. Types
  <2>1. \A S : <<>> \in Seq(S)
    OBVIOUS
  <2> QED BY <2>1 DEF Types
<1>2. Where
  BY DEF Where
<1>3. Running = {} /\ Busy = {}
  BY DEF Running, Busy
<1>4. OneReproPerTitle
  BY <1>3 DEF OneReproPerTitle
<1>5. Slots
  BY <1>3, FS_EmptySet, SlotsFit DEF Slots
<1>6. PoolFits /\ Idle
  BY FS_EmptySet, VMsMonotone DEF PoolFits, Idle
<1> QED BY <1>1, <1>2, <1>4, <1>5, <1>6 DEF RLInv

\* Where the loop may be while it has a crash in hand.
PcFits(p, c) ==
  /\ p \in {"off", "pop", "need", "wait", "slot", "start", "left"}
  /\ p \in {"need", "slot", "start"} => c # None
  /\ p \in {"off", "pop", "wait"} => c = None

\* Steps of the loop that touch neither the queue nor a reproduction.
LEMMA LoopMoves ==
  ASSUME RLInv, UNCHANGED <<queue, reproducing, attempts, poolSize, crash, at>>,
         PcFits(pc', crash), parallel' \in Nat, pc' = "off" => pc = "off",
         Cardinality(Busy) + parallel' + (IF pc' = "start" THEN 1 ELSE 0) <= MaxRepros
  PROVE  RLInv'
<1> USE DEF RLInv
<1>1. Running' = Running /\ Busy' = Busy
  BY DEF Running, Busy
<1>2. Types' /\ Where'
  BY DEF Types, Where, PcFits
<1>3. OneReproPerTitle'
  BY <1>1 DEF OneReproPerTitle
<1>4. Slots'
  BY <1>1 DEF Slots
<1>5. PoolFits' /\ Idle'
  BY DEF PoolFits, Idle
<1> QED BY <1>2, <1>3, <1>4, <1>5

\* Steps that change where a crash is, but not which ones are reproduced.
LEMMA SameRepros ==
  ASSUME RLInv, UNCHANGED <<reproducing, parallel>>,
         \A c \in Crashes : at'[c] = at[c] \/ {at[c], at'[c]} \cap {"running", "ended"} = {},
         pc' = "start" => pc = "start", pc' = "off" => pc = "off"
  PROVE  /\ Running' = Running /\ Busy' = Busy
         /\ OneReproPerTitle' /\ Slots'
<1>1. Running' = Running /\ Busy' = Busy
  BY Zenon DEF Running, Busy
<1>2. OneReproPerTitle'
  BY <1>1 DEF OneReproPerTitle, RLInv
<1>3. Slots'
  <2>1. Cardinality(Busy) \in Nat /\ parallel \in Nat
    BY FS_CardinalityType DEF Slots, Types, RLInv
  <2>2. Cardinality(Busy) + parallel + (IF pc' = "start" THEN 1 ELSE 0) <= MaxRepros
    BY <2>1, SlotsFit DEF Slots, RLInv
  <2>3. /\ IsFiniteSet(Busy) /\ (pc' = "off" => Busy = {})
        /\ IsFiniteSet(reproducing) /\ Cardinality(Running) = Cardinality(reproducing)
    BY DEF Slots, RLInv
  <2> QED BY <1>1, <2>2, <2>3 DEF Slots
<1> QED BY <1>1, <1>2, <1>3

\* Enqueue keeps the invariant.
LEMMA EnqueueStep ==
  ASSUME RLInv, NEW c \in Crashes, Enqueue(c)
  PROVE  RLInv'
<1> USE DEF RLInv
<1>1. /\ at[c] = "unseen"
      /\ UNCHANGED <<reproducing, attempts, parallel, poolSize, pc, crash, cancelled>>
  BY DEF Enqueue
<1>2. CASE Repeated(c)
  <2>1. at' = [at EXCEPT ![c] = "refused"] /\ queue' = queue
    BY <1>2 DEF Enqueue
  <2>2. Types' /\ Where'
    BY <1>1, <2>1 DEF Types, Where
  <2>3. OneReproPerTitle' /\ Slots'
    BY <1>1, <2>1, SameRepros DEF Types
  <2> QED BY <1>1, <2>1, <2>2, <2>3 DEF PoolFits, Idle
<1>3. CASE ~Repeated(c)
  <2>1. at' = [at EXCEPT ![c] = "queued"] /\ queue' = Append(queue, c)
    BY <1>3 DEF Enqueue
  <2>2. PICK n \in Nat : /\ DOMAIN queue = 1 .. n /\ DOMAIN queue' = 1 .. n + 1
                         /\ \A i \in 1 .. n : queue'[i] = queue[i]
                         /\ queue'[n + 1] = c
    BY <2>1 DEF Types
  <2>3. Types'
    BY <1>1, <2>1 DEF Types
  <2>4. \A i \in DOMAIN queue : queue[i] # c
    BY <1>1 DEF Where
  <2>5. \A i, j \in DOMAIN queue' : queue'[i] = queue'[j] => i = j
    BY <2>2, <2>4 DEF Where
  <2>6. \A d \in Crashes : (\E i \in DOMAIN queue' : queue'[i] = d)
                             <=> (d = c \/ \E i \in DOMAIN queue : queue[i] = d)
    <3>1. n + 1 \in 1 .. n + 1 /\ \A i \in 1 .. n : i \in 1 .. n + 1
      BY <2>2
    <3> QED BY <2>2, <3>1
  <2>7. Where'
    BY <1>1, <2>1, <2>5, <2>6 DEF Where, Types
  <2>8. OneReproPerTitle' /\ Slots'
    BY <1>1, <2>1, SameRepros DEF Types
  <2>9. queue' # <<>>
    BY <2>1 DEF Types
  <2> QED BY <1>1, <2>3, <2>7, <2>8, <2>9 DEF PoolFits, Idle
<1> QED BY <1>2, <1>3

\* popCrash, with the reservation of VMs that follows it, keeps the invariant.
LEMMA PopStep ==
  ASSUME RLInv, popCrash
  PROVE  RLInv'
<1> USE DEF RLInv
<1>1. /\ pc = "pop" /\ crash = None
      /\ UNCHANGED <<reproducing, attempts, parallel, poolSize>>
  BY DEF popCrash, Where
<1>2. CASE Eligible = {}
  <2>1. pc' = "wait" /\ UNCHANGED <<queue, crash, at>>
    BY <1>2 DEF popCrash
  <2>2. Cardinality(Busy) + parallel' + (IF pc' = "start" THEN 1 ELSE 0) <= MaxRepros
    BY <1>1, <2>1 DEF Slots
  <2> QED BY <1>1, <2>1, <2>2, LoopMoves DEF PcFits, Types
<1>3. CASE Eligible # {}
  <2>1. PICK i, c : i = Best /\ c = queue[i]
    OBVIOUS
  <2>2. /\ crash' = c
        /\ queue' = RemoveAt(queue, i)
        /\ at' = [at EXCEPT ![c] = "popped"]
        /\ pc' = "need"
    BY <1>3, <2>1 DEF popCrash
  <2>3. i \in DOMAIN queue /\ Title[c] \notin reproducing
    BY <1>3, <2>1, BestFound DEF Eligible
  <2>4. c \in Crashes /\ at[c] = "queued" /\ c # None
    BY <2>1, <2>3, ReproAssumption DEF Types, Where
  <2>5. queue' \in Seq(Crashes) /\ Without(queue', queue, c)
    <3>1. /\ queue \in Seq(Crashes)
          /\ \A j, k \in DOMAIN queue : queue[j] = queue[k] => j = k
      BY DEF Types, Where
    <3>2. PICK rest : rest = RemoveAt(queue, i)
      OBVIOUS
    <3>3. rest \in Seq(Crashes) /\ Without(rest, queue, queue[i])
      BY ONLY <2>3, <3>1, <3>2, RemoveAtRemoves
    <3> QED BY <2>1, <2>2, <3>2, <3>3
  <2>6. Types'
    BY <1>1, <2>2, <2>4, <2>5 DEF Types
  <2>7. Where'
    <3>1. \A j, k \in DOMAIN queue' : queue'[j] = queue'[k] => j = k
      BY <2>5 DEF Without
    <3>2. \A d \in Crashes :
            (at'[d] = "queued") <=> \E j \in DOMAIN queue' : queue'[j] = d
      BY <2>2, <2>4, <2>5 DEF Without, Where, Types
    <3>3. \A d \in Crashes : (at'[d] = "popped") <=> (d = crash')
      BY <1>1, <2>2, <2>4, ReproAssumption DEF Where, Types
    <3> QED BY <1>1, <2>2, <2>3, <2>4, <3>1, <3>2, <3>3 DEF Where
  <2>8. OneReproPerTitle' /\ Slots'
    BY <1>1, <2>2, <2>4, SameRepros DEF Types
  <2> QED BY <1>1, <2>2, <2>4, <2>6, <2>7, <2>8 DEF PoolFits, Idle
<1> QED BY <1>2, <1>3

\* Dropping a crash that needs no reproduction keeps the invariant.
LEMMA NotNeededStep ==
  ASSUME RLInv, NotNeeded
  PROVE  RLInv'
<1> USE DEF RLInv
<1>1. /\ pc = "need" /\ pc' = "pop"
      /\ poolSize' = AdjustedPool(reproducing, queue)
      /\ at' = [at EXCEPT ![crash] = "declined"]
      /\ crash' = None
      /\ UNCHANGED <<queue, reproducing, attempts, parallel>>
  BY DEF NotNeeded
<1>2. crash \in Crashes /\ at[crash] = "popped"
  BY <1>1 DEF Types, Where
<1>3. /\ poolSize' \in Nat /\ poolSize' <= ReproVMs
      /\ calculateReproVMs(Cardinality(reproducing)) <= poolSize'
      /\ reproducing = {} /\ queue = <<>> => poolSize' = 0
  <2>1. IsFiniteSet(reproducing) /\ queue \in Seq(Crashes)
    BY DEF Slots, Types
  <2>2. calculateReproVMs(Cardinality(reproducing)) <= ReproVMs
    <3>1. Cardinality(reproducing) \in Nat
      BY <2>1, FS_CardinalityType
    <3>2. calculateReproVMs(Cardinality(reproducing)) \in Nat
      BY <3>1, VMsMonotone
    <3> QED BY <3>2, ReproAssumption DEF PoolFits, Types
  <2> QED BY <1>1, <2>1, <2>2, AdjustFits
<1>4. Types'
  BY <1>1, <1>2, <1>3 DEF Types
<1>5. Where'
  <2>1. \A d \in Crashes : (at'[d] = "queued") <=> (at[d] = "queued")
    BY <1>1, <1>2 DEF Types
  <2>2. \A d \in Crashes : at'[d] # "popped"
    BY <1>1, <1>2 DEF Types, Where
  <2> QED BY <1>1, <2>1, <2>2, ReproAssumption DEF Where
<1>6. OneReproPerTitle' /\ Slots'
  BY <1>1, <1>2, SameRepros DEF Types
<1> QED BY <1>1, <1>3, <1>4, <1>5, <1>6 DEF PoolFits, Idle

\* The loop starts the reproduction of the crash it popped, in the slot it
\* took: one more reproduction and one more title.
LEMMA StartStep ==
  ASSUME RLInv, StartRepro
  PROVE  RLInv'
<1> USE DEF RLInv
<1>1. PICK c, t : c = crash /\ t = Title[c]
  OBVIOUS
<1>2. /\ pc = "start" /\ pc' = "pop"
      /\ attempts' = [attempts EXCEPT ![t] = @ + 1]
      /\ reproducing' = reproducing \cup {t}
      /\ poolSize' = AdjustedPool(reproducing', queue)
      /\ at' = [at EXCEPT ![c] = "running"]
      /\ crash' = None
      /\ UNCHANGED <<queue, parallel>>
  BY <1>1 DEF StartRepro
<1>3. /\ c \in Crashes /\ at[c] = "popped" /\ t \in Titles /\ t \notin reproducing
  BY <1>1, <1>2, ReproAssumption, Zenon DEF Types, Where
<1>4. Running' = Running \cup {c} /\ Busy' = Busy \cup {c} /\ c \notin Busy
  BY <1>2, <1>3 DEF Running, Busy, Types
<1>5. /\ IsFiniteSet(Busy) /\ IsFiniteSet(Running) /\ Running \subseteq Busy
      /\ IsFiniteSet(reproducing) /\ c \notin Running
  BY <1>3, FS_Subset DEF Slots, Running, Busy
<1>6. /\ IsFiniteSet(Busy') /\ Cardinality(Busy') = Cardinality(Busy) + 1
      /\ IsFiniteSet(Running') /\ Cardinality(Running') = Cardinality(Running) + 1
      /\ IsFiniteSet(reproducing')
      /\ Cardinality(reproducing') = Cardinality(reproducing) + 1
      /\ Running' \subseteq Busy'
  BY <1>2, <1>3, <1>4, <1>5, FS_AddElement
<1>7. /\ Cardinality(Busy) \in Nat /\ Cardinality(Running) \in Nat
      /\ Cardinality(Running') \in Nat /\ parallel \in Nat
      /\ Cardinality(Running') <= Cardinality(Busy')
  BY <1>5, <1>6, FS_CardinalityType, FS_Subset DEF Types
<1>8. Slots'
  BY <1>2, <1>4, <1>6, <1>7, SlotsFit DEF Slots
<1>9. calculateReproVMs(Cardinality(reproducing')) <= ReproVMs
  <2>1. Cardinality(reproducing') = Cardinality(Running')
    BY <1>6 DEF Slots
  <2>2. Cardinality(Running') <= MaxRepros
    BY <1>2, <1>6, <1>7, SlotsFit DEF Slots
  <2> QED BY <1>7, <2>1, <2>2, SlotsFit
<1>10. /\ poolSize' \in Nat /\ poolSize' <= ReproVMs
       /\ calculateReproVMs(Cardinality(reproducing')) <= poolSize'
  BY <1>2, <1>6, <1>9, AdjustFits DEF Types
<1>11. Types'
  BY <1>2, <1>3, <1>10 DEF Types
<1>12. Where'
  <2>1. \A d \in Crashes : (at'[d] = "queued") <=> (at[d] = "queued")
    BY <1>2, <1>3 DEF Types
  <2>2. \A d \in Crashes : at'[d] # "popped"
    BY <1>1, <1>2, <1>3 DEF Types, Where
  <2> QED BY <1>2, <2>1, <2>2, ReproAssumption DEF Where
<1>13. OneReproPerTitle'
  BY <1>1, <1>2, <1>3, <1>4 DEF OneReproPerTitle
<1>14. PoolFits' /\ Idle'
  BY <1>2, <1>10 DEF PoolFits, Idle
<1> QED BY <1>8, <1>11, <1>12, <1>13, <1>14

\* A reproduction ends: its title is free again, its slot is not yet.
LEMMA EndStep ==
  ASSUME RLInv, NEW c \in Crashes, EndRepro(c)
  PROVE  RLInv'
<1> USE DEF RLInv
<1>1. /\ at[c] = "running"
      /\ reproducing' = reproducing \ {Title[c]}
      /\ poolSize' = AdjustedPool(reproducing', queue)
      /\ at' = [at EXCEPT ![c] = "ended"]
      /\ UNCHANGED <<queue, attempts, parallel, pc, crash>>
  BY DEF EndRepro
<1>2. c \in Running /\ Title[c] \in reproducing
  BY <1>1 DEF Running, OneReproPerTitle
<1>3. Running' = Running \ {c} /\ Busy' = Busy
  BY <1>1 DEF Running, Busy, Types
<1>4. IsFiniteSet(Busy) /\ IsFiniteSet(Running) /\ IsFiniteSet(reproducing)
  BY FS_Subset DEF Slots, Running, Busy
<1>5. /\ Cardinality(Running') = Cardinality(Running) - 1
      /\ IsFiniteSet(reproducing')
      /\ Cardinality(reproducing') = Cardinality(reproducing) - 1
  BY <1>1, <1>2, <1>3, <1>4, FS_RemoveElement, Zenon
<1>6. Slots'
  BY <1>1, <1>3, <1>5 DEF Slots
<1>7. calculateReproVMs(Cardinality(reproducing')) <= ReproVMs
  <2>1. /\ Cardinality(reproducing') \in Nat /\ Cardinality(reproducing) \in Nat
        /\ Cardinality(reproducing') <= Cardinality(reproducing)
    BY <1>4, <1>5, FS_CardinalityType
  <2>2. /\ calculateReproVMs(Cardinality(reproducing')) \in Nat
        /\ calculateReproVMs(Cardinality(reproducing)) \in Nat
        /\ calculateReproVMs(Cardinality(reproducing'))
             <= calculateReproVMs(Cardinality(reproducing))
    BY <2>1, VMsMonotone
  <2> QED BY <2>2, ReproAssumption DEF PoolFits, Types
<1>8. /\ poolSize' \in Nat /\ poolSize' <= ReproVMs
      /\ calculateReproVMs(Cardinality(reproducing')) <= poolSize'
      /\ reproducing' = {} /\ queue = <<>> => poolSize' = 0
  BY <1>1, <1>5, <1>7, AdjustFits DEF Types
<1>9. Types'
  BY <1>1, <1>8 DEF Types
<1>10. Where'
  <2>1. \A d \in Crashes : /\ (at'[d] = "queued") <=> (at[d] = "queued")
                           /\ (at'[d] = "popped") <=> (at[d] = "popped")
    BY <1>1 DEF Types
  <2> QED BY <1>1, <2>1 DEF Where
<1>11. OneReproPerTitle'
  BY <1>1, <1>2, <1>3 DEF OneReproPerTitle
<1>12. PoolFits' /\ Idle'
  BY <1>1, <1>8 DEF PoolFits, Idle
<1> QED BY <1>6, <1>9, <1>10, <1>11, <1>12

\* A goroutine's return of its slot keeps the invariant.
LEMMA ReturnStep ==
  ASSUME RLInv, NEW c \in Crashes, ReturnSlot(c)
  PROVE  RLInv'
<1> USE DEF RLInv
<1>1. /\ at[c] = "ended"
      /\ parallel' = parallel + 1
      /\ at' = [at EXCEPT ![c] = "returned"]
      /\ UNCHANGED <<queue, reproducing, attempts, poolSize, pc, crash>>
  BY DEF ReturnSlot
<1>2. Running' = Running /\ Busy' = Busy \ {c} /\ c \in Busy
  BY <1>1 DEF Running, Busy, Types
<1>3. /\ IsFiniteSet(Busy) /\ IsFiniteSet(Busy')
      /\ Cardinality(Busy') = Cardinality(Busy) - 1
      /\ Cardinality(Busy) \in Nat /\ parallel \in Nat
  BY <1>2, FS_RemoveElement, FS_CardinalityType DEF Slots, Types
<1>4. Slots'
  BY <1>1, <1>2, <1>3, SlotsFit DEF Slots
<1>5. Types'
  BY <1>1 DEF Types
<1>6. Where'
  <2>1. \A d \in Crashes : /\ (at'[d] = "queued") <=> (at[d] = "queued")
                           /\ (at'[d] = "popped") <=> (at[d] = "popped")
    BY <1>1 DEF Types
  <2> QED BY <1>1, <2>1 DEF Where
<1>7. OneReproPerTitle'
  BY <1>1, <1>2 DEF OneReproPerTitle
<1> QED BY <1>1, <1>4, <1>5, <1>6, <1>7 DEF PoolFits, Idle

\* A goroutine's ping of the loop keeps the invariant.
LEMMA PingStep ==
  ASSUME RLInv, NEW c \in Crashes, PingLoop(c)
  PROVE  RLInv'
<1> USE DEF RLInv
<1>1. /\ at[c] = "returned"
      /\ at' = [at EXCEPT ![c] = "handled"]
      /\ UNCHANGED <<queue, reproducing, attempts, parallel, poolSize, pc, crash>>
  BY DEF PingLoop
<1>2. Types' /\ OneReproPerTitle' /\ Slots'
  BY <1>1, SameRepros DEF Types
<1>3. Where'
  <2>1. \A d \in Crashes : /\ (at'[d] = "queued") <=> (at[d] = "queued")
                           /\ (at'[d] = "popped") <=> (at[d] = "popped")
    BY <1>1 DEF Types
  <2> QED BY <1>1, <2>1 DEF Where
<1> QED BY <1>1, <1>2, <1>3 DEF PoolFits, Idle

\* Every step of the reproduction loop keeps the invariant.
LEMMA StepRLInv == RLInv /\ [Next]_vars => RLInv'
<1> SUFFICES ASSUME RLInv, [Next]_vars PROVE RLInv'
  OBVIOUS
<1> USE DEF RLInv
<1>1. Cardinality(Busy) \in Nat /\ parallel \in Nat
  BY FS_CardinalityType DEF Slots, Types
<1>2. Cardinality(Busy) + parallel + (IF pc = "start" THEN 1 ELSE 0) <= MaxRepros
  BY DEF Slots
<1>3. PcFits(pc, crash)
  BY DEF Types, Where, PcFits
<1>4. CASE UNCHANGED vars
  BY <1>1, <1>2, <1>3, <1>4, LoopMoves DEF vars
<1>5. CASE StartLoop
  <2>1. Cardinality(Busy) = 0 /\ crash = None
    BY <1>5, FS_EmptySet DEF StartLoop, Slots, Where
  <2>2. /\ parallel' = MaxRepros /\ pc' = "pop"
        /\ UNCHANGED <<queue, reproducing, attempts, poolSize, crash, at>>
    BY <1>5 DEF StartLoop
  <2>3. Cardinality(Busy) + parallel' + (IF pc' = "start" THEN 1 ELSE 0) <= MaxRepros
    BY <2>1, <2>2, SlotsFit
  <2> QED BY <2>1, <2>2, <2>3, SlotsFit, LoopMoves DEF PcFits
<1>6. CASE Needed
  <2>1. /\ pc = "need" /\ pc' = "slot"
        /\ UNCHANGED <<queue, reproducing, attempts, poolSize, crash, at, parallel>>
    BY <1>6 DEF Needed
  <2> QED BY <1>1, <1>2, <1>3, <2>1, LoopMoves DEF PcFits
<1>7. CASE WaitPing
  <2>1. /\ pc = "wait" /\ pc' = "pop"
        /\ UNCHANGED <<queue, reproducing, attempts, poolSize, crash, at, parallel>>
    BY <1>7 DEF WaitPing
  <2> QED BY <1>1, <1>2, <1>3, <2>1, LoopMoves DEF PcFits
<1>8. CASE TakeSlot
  <2>1. /\ pc = "slot" /\ pc' = "start" /\ parallel > 0 /\ parallel' = parallel - 1
        /\ UNCHANGED <<queue, reproducing, attempts, poolSize, crash, at>>
    BY <1>8 DEF TakeSlot
  <2>2. Cardinality(Busy) + parallel' + (IF pc' = "start" THEN 1 ELSE 0) <= MaxRepros
    BY <1>1, <1>2, <2>1, SlotsFit
  <2> QED BY <1>1, <1>3, <2>1, <2>2, LoopMoves DEF PcFits
<1>9. CASE LeaveLoop
  <2>1. /\ pc \in {"wait", "slot"} /\ pc' = "left"
        /\ UNCHANGED <<queue, reproducing, attempts, poolSize, crash, at, parallel>>
    BY <1>9 DEF LeaveLoop
  <2> QED BY <1>1, <1>2, <1>3, <2>1, LoopMoves DEF PcFits
<1>10. CASE Cancel
  BY <1>1, <1>2, <1>3, <1>10, LoopMoves DEF Cancel
<1> QED BY <1>4, <1>5, <1>6, <1>7, <1>8, <1>9, <1>10, PopStep, NotNeededStep,
           StartStep, EnqueueStep, EndStep, ReturnStep, PingStep
        DEF Next, Loop, Goroutine

\* The invariant holds in every reachable state.
LEMMA AlwaysRLInv == Spec => []RLInv
BY InitRLInv, StepRLInv, PTL DEF Spec

\* Whatever crashes arrive while the loop and the reproductions run, no two
\* crashes of one title are under reproduction at once, and the map
\* reproducing holds the titles of those that are, no more and no fewer.
THEOREM NoTitleTwice == Spec => []OneReproPerTitle
<1>1. RLInv => OneReproPerTitle
  BY DEF RLInv
<1> QED BY <1>1, AlwaysRLInv, PTL

\* For every number of VMs the slots are few enough: every reproduction that
\* runs has the VMs calculateReproVMs gives it, the pool stays within the VMs
\* that may be reserved, and an idle loop has given them all back.
THEOREM ReprosHaveVMs == Spec => []EnoughVMs
<1>1. RLInv => EnoughVMs
  <2> SUFFICES ASSUME RLInv PROVE EnoughVMs
    OBVIOUS
  <2>1. calculateReproVMs(Cardinality(Running)) <= poolSize /\ poolSize <= ReproVMs
    BY DEF RLInv, PoolFits, Slots
  <2>2. ASSUME pc = "wait", queue = <<>>, Running = {} PROVE poolSize = 0
    <3>1. crash = None /\ reproducing = {}
      BY <2>2 DEF RLInv, Where, OneReproPerTitle
    <3> QED BY <2>2, <3>1 DEF RLInv, Idle
  <2> QED BY <2>1, <2>2 DEF EnoughVMs
<1> QED BY <1>1, AlwaysRLInv, PTL

\* The loop pops a crash tried more often only when the ones tried less have
\* their title under reproduction, or when full reproductions are involved.
THEOREM FewerAttemptsFirst == Spec => UntriedFirst
<1>1. ASSUME RLInv, [Next]_vars, NEW c \in Crashes, NEW d \in Crashes,
             at[c] = "queued", at'[c] = "popped",
             at[d] = "queued", Title[d] \notin reproducing,
             {c, d} \cap FullRepro = {}
      PROVE  attempts[Title[c]] <= attempts[Title[d]]
  <2> USE <1>1 DEF RLInv
  <2>1. at' # at
    OBVIOUS
  <2>2. CASE popCrash
    <3>1. Eligible # {}
      BY <2>1, <2>2 DEF popCrash
    <3>2. PICK i : i = Best /\ at' = [at EXCEPT ![queue[i]] = "popped"]
      BY <2>2, <3>1 DEF popCrash
    <3>3. queue[i] = c
      BY <3>2 DEF Types
    <3>4. PICK j \in DOMAIN queue : queue[j] = d
      BY DEF Where
    <3>5. j \in Eligible
      BY <3>4 DEF Eligible
    <3>6. ~newBetter(c, d)
      BY <3>1, <3>2, <3>3, <3>4, <3>5, BestFound
    <3>7. attempts[Title[c]] \in Nat /\ attempts[Title[d]] \in Nat
      BY ReproAssumption DEF Types
    <3> QED BY <3>6, <3>7 DEF newBetter
  <2>3. CASE ~popCrash
    <3>1. ASSUME NEW e, NEW x, x # "popped", at' = [at EXCEPT ![e] = x] PROVE FALSE
      BY <3>1 DEF Types
    <3>2. \A e \in Crashes : ~Enqueue(e) /\ ~Goroutine(e)
      BY <3>1, Zenon DEF Enqueue, Goroutine, EndRepro, ReturnSlot, PingLoop
    <3>3. ~NotNeeded /\ ~StartRepro
      BY <3>1 DEF NotNeeded, StartRepro
    <3>4. ~(StartLoop \/ Needed \/ WaitPing \/ TakeSlot \/ LeaveLoop \/ Cancel)
      BY <2>1 DEF StartLoop, Needed, WaitPing, TakeSlot, LeaveLoop, Cancel
    <3>5. ~UNCHANGED vars
      BY <2>1 DEF vars
    <3> QED BY <2>3, <3>2, <3>3, <3>4, <3>5 DEF Next, Loop
  <2> QED BY <2>2, <2>3
<1>2. RLInv /\ [Next]_vars =>
        [\A c, d \in Crashes :
           /\ at[c] = "queued" /\ at'[c] = "popped"
           /\ at[d] = "queued" /\ Title[d] \notin reproducing
           /\ {c, d} \cap FullRepro = {}
           => attempts[Title[c]] <= attempts[Title[d]]]_vars
  BY <1>1
<1> QED BY <1>2, AlwaysRLInv, PTL DEF Spec, UntriedFirst
=============================================================================
