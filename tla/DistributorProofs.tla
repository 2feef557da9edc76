-------------------------- MODULE DistributorProofs --------------------------
(***************************************************************************)
(* For any VMs, requests and avoided VMs: the distributor loses no request *)
(* and hands none out twice.                                               *)
(***************************************************************************)
EXTENDS Distributor, FiniteSetTheorems, WellFoundedInduction, TLAPS

Queued(r) == \E i \in DOMAIN queue : queue[i].req = r
InHand(r) == \E v \in VMs : held[v] = r
Given(r) == given[r] # None

\* A VM has a request in hand while it decides about it; neither the queue
\* nor the VMs have a request twice.
Hands ==
  /\ \A v \in VMs : (held[v] # None) <=> pc[v] \in {"ask", "delay"}
  /\ \A v, w \in VMs : held[v] # None /\ held[v] = held[w] => v = w
  /\ \A i, j \in DOMAIN queue : queue[i].req = queue[j].req => i = j

\* Every request is somewhere, and nowhere else.
Somewhere ==
  \A r \in Requests :
    \/ r \in unsent \/ r \in source \/ Queued(r) \/ InHand(r) \/ Given(r)
Apart ==
  \A r \in Requests :
    /\ r \in unsent => ~(r \in source \/ Queued(r) \/ InHand(r) \/ Given(r))
    /\ r \in source => ~(Queued(r) \/ InHand(r) \/ Given(r))
    /\ Queued(r) => ~(InHand(r) \/ Given(r))
    /\ InHand(r) => ~Given(r)

DInv == TypeOK /\ Hands /\ Somewhere /\ Apart

Entries == [req : Requests, age : 0 .. Old]

\* The age bound is a number, and ageing a request stays within it.
LEMMA OldNat == Old \in Nat /\ \A n \in 0 .. Old : Older(n) \in 0 .. Old
BY DistributorAssumption DEF Old, Older

\* A nonempty set of numbers has a least one.
LEMMA Least ==
  ASSUME NEW T \in SUBSET Nat, T # {}
  PROVE  \E x \in T : \A y \in T : x <= y
<1>1. PICK R : R = OpToRel(<, Nat)
  BY Zenon
<1>2. PICK x \in T : \A y \in T : ~(<<y, x>> \in R)
  BY <1>1, NatLessThanWellFounded, WFMin, Zenon
<1>3. ASSUME NEW y \in T, y < x PROVE FALSE
  <2>1. y \in Nat /\ x \in Nat
    OBVIOUS
  <2>2. <<y, x>> \in R
    BY <1>1, <1>3, <2>1, Zenon DEF OpToRel
  <2> QED BY <1>2, <2>2
<1> QED BY <1>3

\* rest has every entry of q but that of request gone, each once.
Without(rest, q, gone) ==
  /\ \A j, k \in DOMAIN rest : rest[j].req = rest[k].req => j = k
  /\ \A r \in Requests : (\E k \in DOMAIN rest : rest[k].req = r)
       <=> (r # gone /\ \E k \in DOMAIN q : q[k].req = r)

\* Moving the last entry to the place of entry i removes exactly that entry,
\* when no request is in the queue twice.
LEMMA MoveLastRemoves ==
  ASSUME NEW q \in Seq(Entries), NEW i \in DOMAIN q, NEW rest,
         rest = MoveLast(q, i),
         \A j, k \in DOMAIN q : q[j].req = q[k].req => j = k
  PROVE  rest \in Seq(Entries) /\ Without(rest, q, q[i].req)
<1>1. PICK n \in Nat : n = Len(q) /\ DOMAIN q = 1 .. n /\ i \in 1 .. n
  OBVIOUS
<1>2. rest = [k \in 1 .. n - 1 |-> IF k = i THEN q[n] ELSE q[k]]
  BY <1>1 DEF MoveLast
<1>3. \A k \in 1 .. n : q[k] \in Entries
  BY <1>1
<1>4. rest \in Seq(Entries) /\ DOMAIN rest = 1 .. n - 1
  <2>1. n - 1 \in Nat /\ n \in 1 .. n
    BY <1>1
  <2>2. \A k \in 1 .. n - 1 : k \in 1 .. n
    BY <1>1
  <2>3. rest \in [1 .. n - 1 -> Entries]
    BY <1>2, <1>3, <2>1, <2>2
  <2> QED BY <2>1, <2>3
<1>5. \A k \in 1 .. n - 1 : rest[k] = IF k = i THEN q[n] ELSE q[k]
  BY <1>2
<1>6. ASSUME NEW j \in DOMAIN rest, NEW k \in DOMAIN rest,
             rest[j].req = rest[k].req
      PROVE  j = k
  <2>1. j \in 1 .. n /\ k \in 1 .. n /\ j # n /\ k # n
    BY <1>4, <1>1
  <2> QED BY <1>1, <1>4, <1>5, <1>6, <2>1
<1>7. ASSUME NEW k \in DOMAIN rest
      PROVE  /\ rest[k].req # q[i].req
             /\ \E l \in DOMAIN q : q[l].req = rest[k].req
  <2>1. k \in 1 .. n /\ k # n /\ n \in 1 .. n
    BY <1>4, <1>1
  <2> QED BY <1>1, <1>4, <1>5, <2>1
<1>8. ASSUME NEW k \in DOMAIN q, q[k].req # q[i].req
      PROVE  \E l \in DOMAIN rest : rest[l].req = q[k].req
  <2>1. CASE k = n
    <3>1. i \in 1 .. n - 1 /\ rest[i] = q[n]
      BY <1>1, <1>5, <1>8, <2>1
    <3> QED BY <1>4, <2>1, <3>1
  <2>2. CASE k # n
    <3>1. k \in 1 .. n - 1 /\ rest[k] = q[k]
      BY <1>1, <1>5, <1>8, <2>2
    <3> QED BY <1>4, <3>1
  <2> QED BY <2>1, <2>2
<1> QED BY <1>4, <1>6, <1>7, <1>8 DEF Without

\* DInv speaks of one request at a time, in one place.
LEMMA OnePlaceFromDInv == DInv => OnePlaceOnly
<1> SUFFICES ASSUME DInv, NEW r \in Requests PROVE Places(r) = 1
  BY DEF OnePlaceOnly
<1> USE DistributorAssumption DEF DInv
<1> DEFINE Q == {i \in DOMAIN queue : queue[i].req = r}
           H == {v \in VMs : held[v] = r}
           X == {x \in {"unsent", "source", "given"} :
                   \/ x = "unsent" /\ r \in unsent
                   \/ x = "source" /\ r \in source
                   \/ x = "given" /\ given[r] # None}
<1>1. Places(r) = Cardinality(Q) + Cardinality(H) + Cardinality(X)
  BY DEF Places
<1>2. IF Queued(r) THEN \E i : Q = {i} ELSE Q = {}
  <2>1. CASE Queued(r)
    <3>1. PICK i \in DOMAIN queue : queue[i].req = r
      BY <2>1 DEF Queued
    <3>2. \A j \in DOMAIN queue : queue[j].req = r => j = i
      BY <3>1 DEF Hands
    <3>3. Q = {i}
      BY <3>1, <3>2
    <3> QED BY <2>1, <3>3, Zenon
  <2>2. CASE ~Queued(r)
    BY <2>2 DEF Queued
  <2> QED BY <2>1, <2>2
<1>3. IF InHand(r) THEN \E v : H = {v} ELSE H = {}
  BY DEF InHand, Hands
<1>4. IF r \in unsent \/ r \in source \/ Given(r) THEN \E x : X = {x} ELSE X = {}
  <2>1. CASE r \in unsent
    BY <2>1 DEF Apart, Given
  <2>2. CASE r \in source
    BY <2>2 DEF Apart, Given
  <2>3. CASE Given(r)
    BY <2>3 DEF Apart, Given
  <2>4. CASE ~(r \in unsent \/ r \in source \/ Given(r))
    BY <2>4 DEF Given
  <2> QED BY <2>1, <2>2, <2>3, <2>4, Zenon
<1> HIDE DEF Q, H, X
<1>5. \A s : (\E x : s = {x}) => Cardinality(s) = 1
  BY FS_Singleton, Zenon
<1>6. Cardinality({}) = 0
  BY FS_EmptySet
<1>7. /\ Cardinality(Q) = IF Queued(r) THEN 1 ELSE 0
      /\ Cardinality(H) = IF InHand(r) THEN 1 ELSE 0
      /\ Cardinality(X) = IF r \in unsent \/ r \in source \/ Given(r) THEN 1 ELSE 0
  BY <1>2, <1>3, <1>4, <1>5, <1>6, Zenon
<1>8. /\ Queued(r) => ~(InHand(r) \/ r \in unsent \/ r \in source \/ Given(r))
      /\ InHand(r) => ~(r \in unsent \/ r \in source \/ Given(r))
      /\ Queued(r) \/ InHand(r) \/ r \in unsent \/ r \in source \/ Given(r)
  BY DEF Apart, Somewhere
<1> QED BY <1>1, <1>7, <1>8

\* The invariant holds of the distributor as newDistributor returns it.
LEMMA InitDInv == Init => DInv
<1> SUFFICES ASSUME Init PROVE DInv
  OBVIOUS
<1> USE DistributorAssumption DEF Init
<1>1. TypeOK
  <2>1. \A S : <<>> \in Seq(S)
    OBVIOUS
  <2>2. /\ queue \in Seq([req : Requests, age : 0 .. Old])
        /\ 0 \in 0 .. Old
    BY <2>1, OldNat
  <2>3. /\ held \in [VMs -> Requests \cup {None}]
        /\ given \in [Requests -> VMs \cup {None}]
        /\ noted \in [VMs -> 0 .. Old]
        /\ active \in [DOMAIN active -> 0 .. Old]
    BY <2>2
  <2> QED BY <2>2, <2>3, Zenon DEF TypeOK
<1>2. Hands
  BY DEF Hands
<1>3. Somewhere /\ Apart
  BY DEF Somewhere, Apart, Queued, InHand, Given
<1> QED BY <1>1, <1>2, <1>3 DEF DInv

\* A step that leaves every request where it is.
LEMMA NothingMoves ==
  ASSUME DInv, UNCHANGED <<unsent, source>>,
         \A r \in Requests : /\ Queued(r)' <=> Queued(r)
                             /\ InHand(r)' <=> InHand(r)
                             /\ Given(r)' <=> Given(r)
  PROVE  Somewhere' /\ Apart'
BY DEF DInv, Somewhere, Apart

\* Steps of noteActive and of Next that only change pc, the counter and the
\* activity table.
LEMMA NothingMovesElsewhere ==
  ASSUME DInv, UNCHANGED <<unsent, source, queue, held, given>>
  PROVE  Somewhere' /\ Apart'
BY NothingMoves DEF Queued, InHand, Given

\* The walk over the delayed requests in Next() keeps the invariant: it moves one
\* request from the delayed ones to the calling VM, or none.
LEMMA ScanStep ==
  ASSUME DInv, NEW v \in VMs, Scan(v)
  PROVE  DInv'
<1> USE DistributorAssumption DEF DInv
<1> DEFINE ok == {i \in DOMAIN queue : May(v, queue[i])}
<1>1. CASE ok = {}
  <2>1. /\ Goto(v, "scan", "take")
        /\ UNCHANGED <<unsent, source, seq, active, queue, empty, table, noted, held, given>>
    BY <1>1 DEF Scan
  <2>2. TypeOK' /\ Hands'
    BY <2>1 DEF TypeOK, Hands, Goto
  <2> QED BY <2>1, <2>2, NothingMovesElsewhere
<1>2. CASE ok # {}
  <2>1. PICK i : i = CHOOSE m \in ok : \A k \in ok : m <= k
    OBVIOUS
  <2>2. i \in DOMAIN queue
    <3>1. queue \in Seq(Entries)
      BY DEF TypeOK, Entries
    <3>2. ok \in SUBSET Nat
      BY <3>1
    <3>3. \E x \in ok : \A y \in ok : x <= y
      BY <1>2, <3>2, Least, Zenon
    <3> QED BY <2>1, <3>3
  <2>3. PICK rest, r : rest = MoveLast(queue, i) /\ r = queue[i].req
    OBVIOUS
  <2>4. /\ Goto(v, "scan", "away")
        /\ given' = [given EXCEPT ![r] = v]
        /\ queue' = rest
        /\ empty' = (rest = <<>>)
        /\ UNCHANGED <<unsent, source, seq, active, table, noted, held>>
    BY <1>2, <2>1, <2>3 DEF Scan, Give, IsEmpty
  <2>5. /\ queue \in Seq(Entries)
        /\ \A j, k \in DOMAIN queue : queue[j].req = queue[k].req => j = k
    BY DEF TypeOK, Entries, Hands
  <2>6. /\ rest \in Seq(Entries)
        /\ \A j, k \in DOMAIN rest : rest[j].req = rest[k].req => j = k
        /\ \A q \in Requests : (\E k \in DOMAIN rest : rest[k].req = q)
             <=> (q # r /\ \E k \in DOMAIN queue : queue[k].req = q)
    <3>1. rest \in Seq(Entries) /\ Without(rest, queue, queue[i].req)
      BY ONLY <2>2, <2>3, <2>5, MoveLastRemoves
    <3> QED BY ONLY <2>3, <3>1 DEF Without
  <2>7. r \in Requests /\ Queued(r)
    <3>1. queue[i] \in Entries
      BY <2>2, <2>5
    <3> QED BY <2>2, <2>3, <3>1 DEF Entries, Queued
  <2>8. TypeOK'
    BY <2>4, <2>6, <2>7, Zenon DEF TypeOK, Entries, Goto
  <2>9. Hands'
    BY <2>4, <2>6 DEF Hands, TypeOK, Goto
  <2>10. \A q \in Requests : /\ Queued(q)' <=> (q # r /\ Queued(q))
                             /\ InHand(q)' <=> InHand(q)
                             /\ Given(q)' <=> (q = r \/ Given(q))
    <3>1. \A q \in Requests : Queued(q)' <=> (q # r /\ Queued(q))
      BY <2>4, <2>6 DEF Queued
    <3>2. \A q \in Requests : InHand(q)' <=> InHand(q)
      BY <2>4 DEF InHand
    <3>3. \A q \in Requests : Given(q)' <=> (q = r \/ Given(q))
      BY <2>4, <2>7 DEF Given, TypeOK
    <3> QED BY <3>1, <3>2, <3>3
  <2>11. Somewhere' /\ Apart'
    BY <2>4, <2>7, <2>10 DEF Somewhere, Apart
  <2> QED BY <2>8, <2>9, <2>11
<1> QED BY <1>1, <1>2

\* Taking what the walk found keeps the invariant.
LEMMA TakeStep ==
  ASSUME DInv, NEW v \in VMs, Take(v)
  PROVE  DInv'
<1> USE DistributorAssumption DEF DInv
<1>1. PICK r \in source :
        /\ source' = source \ {r}
        /\ IF v \in Avoid[r]
             THEN /\ Goto(v, "take", "ask")
                  /\ held' = [held EXCEPT ![v] = r]
                  /\ UNCHANGED given
             ELSE Goto(v, "take", "away") /\ Give(v, r) /\ UNCHANGED held
  BY DEF Take
<1>2. UNCHANGED <<unsent, seq, active, queue, empty, table, noted>>
  BY DEF Take
<1>3. r \in Requests /\ r # None
  BY DEF TypeOK
<1>4. pc[v] = "take" /\ held[v] = None
  BY <1>1 DEF Hands, Goto
<1>5. \A q \in Requests : Queued(q)' <=> Queued(q)
  BY <1>2 DEF Queued
<1>6. CASE v \in Avoid[r]
  <2>1. /\ pc' = [pc EXCEPT ![v] = "ask"]
        /\ held' = [held EXCEPT ![v] = r]
        /\ given' = given
    BY <1>1, <1>6 DEF Goto
  <2>2. TypeOK'
    BY <1>1, <1>2, <1>3, <2>1 DEF TypeOK
  <2>3. ~InHand(r)
    BY <1>3 DEF Apart
  <2>4. Hands'
    BY <1>2, <1>3, <2>1, <2>3 DEF Hands, TypeOK, InHand
  <2>5. \A q \in Requests : /\ InHand(q)' <=> (q = r \/ InHand(q))
                            /\ Given(q)' <=> Given(q)
    BY <1>3, <1>4, <2>1 DEF InHand, Given, TypeOK
  <2>6. Somewhere' /\ Apart'
    BY <1>1, <1>2, <1>3, <1>5, <2>5 DEF Somewhere, Apart
  <2> QED BY <2>2, <2>4, <2>6
<1>7. CASE v \notin Avoid[r]
  <2>1. /\ pc' = [pc EXCEPT ![v] = "away"]
        /\ given' = [given EXCEPT ![r] = v]
        /\ held' = held
    BY <1>1, <1>7 DEF Goto, Give
  <2>2. TypeOK'
    BY <1>1, <1>2, <1>3, <2>1 DEF TypeOK
  <2>3. Hands'
    BY <1>2, <1>4, <2>1 DEF Hands, TypeOK
  <2>4. \A q \in Requests : /\ InHand(q)' <=> InHand(q)
                            /\ Given(q)' <=> (q = r \/ Given(q))
    BY <1>3, <2>1 DEF InHand, Given, TypeOK
  <2>5. Somewhere' /\ Apart'
    BY <1>1, <1>2, <1>3, <1>5, <2>4 DEF Somewhere, Apart
  <2> QED BY <2>2, <2>3, <2>5
<1> QED BY <1>6, <1>7

\* Asking the source for a fresh request keeps the invariant.
LEMMA AskStep ==
  ASSUME DInv, NEW v \in VMs, Ask(v)
  PROVE  DInv'
<1> USE DistributorAssumption DEF DInv
<1>1. UNCHANGED <<unsent, source, seq, active, queue, empty, table, noted>>
  BY DEF Ask
<1>2. \A q \in Requests : Queued(q)' <=> Queued(q)
  BY <1>1 DEF Queued
<1>3. PICK r : r = held[v]
  OBVIOUS
<1>4. r \in Requests /\ InHand(r) /\ pc[v] = "ask"
  BY <1>3 DEF Ask, Hands, TypeOK, InHand
<1>5. CASE HasOtherActive(Avoid[held[v]])
  <2>1. pc' = [pc EXCEPT ![v] = "delay"] /\ held' = held /\ given' = given
    BY <1>5 DEF Ask, Goto
  <2>2. TypeOK' /\ Hands'
    BY <1>1, <1>4, <2>1 DEF TypeOK, Hands
  <2> QED BY <1>1, <2>1, <2>2, NothingMovesElsewhere
<1>6. CASE ~HasOtherActive(Avoid[held[v]])
  <2>1. /\ pc' = [pc EXCEPT ![v] = "away"]
        /\ given' = [given EXCEPT ![r] = v]
        /\ held' = [held EXCEPT ![v] = None]
    BY <1>3, <1>6 DEF Ask, Goto, Give
  <2>2. TypeOK'
    BY <1>1, <1>4, <2>1 DEF TypeOK
  <2>3. Hands'
    BY <1>1, <2>1 DEF Hands, TypeOK
  <2>4. \A q \in Requests : InHand(q)' <=> (q # r /\ InHand(q))
    BY <1>3, <2>1 DEF InHand, Hands, TypeOK
  <2>5. \A q \in Requests : Given(q)' <=> (q = r \/ Given(q))
    BY <1>4, <2>1 DEF Given, TypeOK
  <2>6. Somewhere' /\ Apart'
    BY <1>1, <1>2, <1>4, <2>4, <2>5 DEF Somewhere, Apart
  <2> QED BY <2>2, <2>3, <2>6
<1> QED BY <1>5, <1>6

\* delay() keeps the invariant: the request goes from the VM to the delayed ones.
LEMMA DelayStep ==
  ASSUME DInv, NEW v \in VMs, Delay(v)
  PROVE  DInv'
<1> USE DistributorAssumption DEF DInv
<1>1. PICK r, e : r = held[v] /\ e = [req |-> r, age |-> 0]
  BY Zenon
<1>2. /\ pc[v] = "delay" /\ pc' = [pc EXCEPT ![v] = "take"]
      /\ queue' = Append(queue, e)
      /\ empty' = FALSE
      /\ held' = [held EXCEPT ![v] = None]
      /\ UNCHANGED <<unsent, source, seq, active, table, noted, given>>
  BY <1>1 DEF Delay, Goto
<1>3. r \in Requests /\ InHand(r)
  BY <1>1, <1>2 DEF Hands, TypeOK, InHand
<1>4. queue \in Seq(Entries) /\ e \in Entries /\ e.req = r
  BY <1>1, <1>3, OldNat DEF TypeOK, Entries
<1>5. PICK n \in Nat : /\ DOMAIN queue = 1 .. n
                       /\ DOMAIN queue' = 1 .. n + 1
                       /\ \A i \in 1 .. n : queue'[i] = queue[i]
                       /\ queue'[n + 1] = e
  BY <1>2, <1>4
<1>6. queue' \in Seq(Entries)
  BY <1>2, <1>4
<1>7. TypeOK'
  BY <1>2, <1>3, <1>6, Zenon DEF TypeOK, Entries
<1>8. ~Queued(r)
  BY <1>3 DEF Apart
<1>9. \A i, j \in DOMAIN queue' : queue'[i].req = queue'[j].req => i = j
  BY <1>4, <1>5, <1>8 DEF Queued, Hands
<1>10. Hands'
  BY <1>2, <1>9 DEF Hands, TypeOK
<1>11. \A q \in Requests : InHand(q)' <=> (q # r /\ InHand(q))
  BY <1>1, <1>2 DEF InHand, Hands, TypeOK
<1>12. \A q \in Requests : Queued(q)' <=> (q = r \/ Queued(q))
  <2>1. n + 1 \in 1 .. n + 1 /\ \A i \in 1 .. n : i \in 1 .. n + 1
    BY <1>5
  <2> QED BY <1>4, <1>5, <2>1 DEF Queued
<1>13. \A q \in Requests : Given(q)' <=> Given(q)
  BY <1>2 DEF Given
<1>14. Somewhere' /\ Apart'
  BY <1>2, <1>3, <1>11, <1>12, <1>13 DEF Somewhere, Apart
<1> QED BY <1>7, <1>10, <1>14

\* noteActive moves the counter: everything remembered gets older.
LEMMA CountStep ==
  ASSUME DInv, NEW v \in VMs, Count(v)
  PROVE  DInv'
<1> USE DEF DInv
<1>1. /\ pc[v] = "count" /\ pc' = [pc EXCEPT ![v] = "store"]
      /\ seq' = Older(seq)
      /\ active' = [slot \in DOMAIN active |-> Older(active[slot])]
      /\ noted' = [w \in VMs |-> IF w = v THEN 0 ELSE Older(noted[w])]
      /\ UNCHANGED <<unsent, source, empty, table, held, given>>
  BY DEF Count, Goto
<1>2. queue \in Seq(Entries)
  BY DEF TypeOK, Entries
<1>3. PICK n \in Nat : n = Len(queue) /\ DOMAIN queue = 1 .. n
  BY <1>2
<1>4. queue' = [i \in 1 .. n |-> [queue[i] EXCEPT !.age = Older(@)]]
  BY <1>3 DEF Count
<1>5. \A i \in 1 .. n : /\ queue'[i] \in Entries
                        /\ queue'[i].req = queue[i].req
  <2>1. \A i \in 1 .. n : queue[i] \in Entries
    BY <1>2, <1>3
  <2> QED BY <1>4, <2>1, OldNat DEF Entries
<1>6. queue' \in Seq(Entries) /\ DOMAIN queue' = DOMAIN queue
  BY <1>3, <1>4, <1>5
<1>7. empty => queue' = <<>>
  <2>1. SUFFICES ASSUME empty PROVE queue' = <<>>
    OBVIOUS
  <2>2. n = 0
    BY <1>3, <2>1 DEF TypeOK
  <2> QED BY <1>3, <1>6, <2>2
<1>8. TypeOK'
  <2>1. /\ seq' \in 0 .. Old
        /\ active' \in [DOMAIN active' -> 0 .. Old]
        /\ noted' \in [VMs -> 0 .. Old]
    BY <1>1, OldNat DEF TypeOK
  <2> QED BY <1>1, <1>6, <1>7, <2>1 DEF TypeOK, Entries
<1>9. Hands'
  BY <1>1, <1>3, <1>5, <1>6, Zenon DEF Hands, TypeOK
<1>10. \A q \in Requests : /\ Queued(q)' <=> Queued(q)
                           /\ InHand(q)' <=> InHand(q)
                           /\ Given(q)' <=> Given(q)
  BY <1>1, <1>3, <1>5, <1>6 DEF Queued, InHand, Given
<1> QED BY <1>1, <1>8, <1>9, <1>10, NothingMoves

\* Every step of the distributor keeps the invariant.
LEMMA StepDInv == DInv /\ [Next]_vars => DInv'
<1> SUFFICES ASSUME DInv, [Next]_vars PROVE DInv'
  OBVIOUS
<1> USE DistributorAssumption DEF DInv
<1>1. CASE UNCHANGED vars
  <2>1. TypeOK' /\ Hands'
    BY <1>1 DEF vars, TypeOK, Hands
  <2> QED BY <1>1, <2>1, NothingMovesElsewhere DEF vars
<1>2. CASE Submit
  <2>1. PICK r \in unsent : unsent' = unsent \ {r} /\ source' = source \cup {r}
    BY <1>2 DEF Submit
  <2>2. UNCHANGED <<seq, active, queue, empty, pc, table, noted, held, given>>
    BY <1>2 DEF Submit
  <2>3. TypeOK' /\ Hands'
    BY <2>1, <2>2 DEF TypeOK, Hands
  <2>4. \A q \in Requests : /\ Queued(q)' <=> Queued(q)
                            /\ InHand(q)' <=> InHand(q)
                            /\ Given(q)' <=> Given(q)
    BY <2>2 DEF Queued, InHand, Given
  <2>5. Somewhere' /\ Apart'
    BY <2>1, <2>4 DEF Somewhere, Apart, TypeOK
  <2> QED BY <2>3, <2>5
<1>3. ASSUME NEW v \in VMs, Call(v) PROVE DInv'
  <2>1. UNCHANGED <<unsent, source, queue, held, given>>
    BY <1>3 DEF Call
  <2>2. /\ UNCHANGED <<seq, active, empty, noted>>
        /\ table' = [table EXCEPT ![v] = Fits(v)]
        /\ pc[v] = "away"
        /\ pc' = [pc EXCEPT ![v] = "count"] \/ pc' = [pc EXCEPT ![v] = "grow"]
    BY <1>3, Zenon DEF Call, Goto
  <2>3. Fits(v) \in BOOLEAN
    BY DEF Fits
  <2>4. TypeOK'
    <3>1. table' \in [VMs -> BOOLEAN]
      BY <2>2, <2>3 DEF TypeOK
    <3>2. pc' \in [VMs -> {"away", "grow", "count", "store", "look", "scan", "take",
                          "ask", "delay"}]
      BY <2>2, Zenon DEF TypeOK
    <3> QED BY <2>1, <2>2, <3>1, <3>2, Zenon DEF TypeOK
  <2>5. Hands'
    BY <2>1, <2>2, Zenon DEF TypeOK, Hands
  <2> QED BY <2>1, <2>4, <2>5, NothingMovesElsewhere
<1>4. ASSUME NEW v \in VMs, Grow(v) PROVE DInv'
  <2>1. UNCHANGED <<unsent, source, queue, held, given, seq, empty, noted>>
    BY <1>4 DEF Grow
  <2>2. active' \in [DOMAIN active' -> 0 .. Old] /\ table' \in [VMs -> BOOLEAN]
    <3>1. CASE Fits(v)
      BY <1>4, <3>1, Zenon DEF Grow, TypeOK
    <3>2. CASE ~Fits(v)
      <4>1. /\ active' = [slot \in 0 .. v + Slack - 1 |-> seq]
            /\ table' = [w \in VMs |-> w = v]
        BY <1>4, <3>2 DEF Grow
      <4>2. seq \in 0 .. Old
        BY DEF TypeOK
      <4> QED BY <4>1, <4>2
    <3> QED BY <3>1, <3>2
  <2>3. TypeOK' /\ Hands'
    BY <1>4, <2>1, <2>2 DEF Grow, Goto, TypeOK, Hands
  <2> QED BY <2>1, <2>3, NothingMovesElsewhere
<1>5. ASSUME NEW v \in VMs, Store(v) PROVE DInv'
  <2>1. UNCHANGED <<unsent, source, queue, held, given, seq, empty, table, noted>>
    BY <1>5 DEF Store
  <2>2. active' \in [DOMAIN active' -> 0 .. Old]
    BY <1>5, Zenon DEF Store, TypeOK
  <2>3. TypeOK' /\ Hands'
    BY <1>5, <2>1, <2>2 DEF Store, Goto, TypeOK, Hands
  <2> QED BY <2>1, <2>3, NothingMovesElsewhere
<1>6. ASSUME NEW v \in VMs, Look(v) \/ TakeNothing(v) PROVE DInv'
  <2>1. UNCHANGED <<unsent, source, seq, active, queue, empty, table, noted, held, given>>
    BY <1>6 DEF Look, TakeNothing
  <2>2. TypeOK' /\ Hands'
    BY <1>6, <2>1, Zenon DEF Look, TakeNothing, Goto, TypeOK, Hands
  <2> QED BY <2>1, <2>2, NothingMovesElsewhere
<1> QED BY <1>1, <1>2, <1>3, <1>4, <1>5, <1>6, CountStep, ScanStep, TakeStep,
           AskStep, DelayStep DEF Next, InNext

\* At any time every request is with its producer, in the source, in the hand
\* of one VM, in the delayed queue or handed to one VM: Next, noteActive and
\* the removal of a delayed entry, called by any number of VMs at once, lose
\* and repeat none.
THEOREM NoRequestLostOrRepeated == Spec => []OnePlaceOnly
<1>1. Spec => []DInv
  BY InitDInv, StepDInv, PTL DEF Spec
<1> QED BY <1>1, OnePlaceFromDInv, PTL

\* The flag that Next reads without the lock is set only when nothing is
\* delayed: a VM that skips the scan overlooks no request.
THEOREM FlagHidesNothing == Spec => []TypeOK
<1>1. Spec => []DInv
  BY InitDInv, StepDInv, PTL DEF Spec
<1>2. DInv => TypeOK
  BY DEF DInv
<1> QED BY <1>1, <1>2, PTL
=============================================================================
