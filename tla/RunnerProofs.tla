----------------------------- MODULE RunnerProofs -----------------------------
(***************************************************************************)
(* For any requests, VMs and failures: no request is lost and none is      *)
(* completed twice, no VM is sent more than its backlog, every message     *)
(* names a request the manager knows, a request is forgiven a VM crash at  *)
(* most once, and all of it implements ExecContract.                       *)
(***************************************************************************)
EXTENDS Runner, FiniteSetTheorems, TLAPS

Maps == UNION {[S -> Requests] : S \in SUBSET Nat}

\* The stages of the requests, from how often each is done and which are held.
StageIn(D, A, r) ==
  IF D[r] > 0 THEN "done" ELSE IF r \in A THEN "taken" ELSE "waiting"
Stages(D, A) == [r \in Requests |-> StageIn(D, A, r)]

\* A request not done and not held is waiting.
LEMMA StageWaiting ==
  ASSUME NEW D \in [Requests -> Nat], NEW A, NEW r \in Requests, D[r] = 0, r \notin A
  PROVE  Stages(D, A)[r] = "waiting"
BY DEF Stages, StageIn

\* A request not done that some runner holds is taken.
LEMMA StageTaken ==
  ASSUME NEW D \in [Requests -> Nat], NEW A, NEW r \in Requests, D[r] = 0, r \in A
  PROVE  Stages(D, A)[r] = "taken"
BY DEF Stages, StageIn

\* Taking a request changes its stage only.
LEMMA StageTake ==
  ASSUME NEW D \in [Requests -> Nat], NEW A, NEW r \in Requests, D[r] = 0
  PROVE  Stages(D, A \cup {r}) = [Stages(D, A) EXCEPT ![r] = "taken"]
<1>1. PICK S, T : S = Stages(D, A) /\ T = Stages(D, A \cup {r})
  OBVIOUS
<1>2. T = [S EXCEPT ![r] = "taken"]
  BY <1>1 DEF Stages, StageIn
<1> QED BY <1>1, <1>2, Zenon

\* Giving a request back changes its stage only.
LEMMA StageBack ==
  ASSUME NEW D \in [Requests -> Nat], NEW A, NEW r \in Requests, D[r] = 0
  PROVE  Stages(D, A \ {r}) = [Stages(D, A) EXCEPT ![r] = "waiting"]
<1>1. PICK S, T : S = Stages(D, A) /\ T = Stages(D, A \ {r})
  OBVIOUS
<1>2. T = [S EXCEPT ![r] = "waiting"]
  BY <1>1 DEF Stages, StageIn
<1> QED BY <1>1, <1>2, Zenon

\* Completing one changes its stage only, whether or not it is held:
LEMMA StageEnd ==
  ASSUME NEW D \in [Requests -> Nat], NEW A, NEW r \in Requests, D[r] = 0, NEW B \in {A, A \ {r}}
  PROVE  Stages([D EXCEPT ![r] = @ + 1], B) = [Stages(D, A) EXCEPT ![r] = "done"]
<1>1. PICK E, S, T : E = [D EXCEPT ![r] = @ + 1] /\ S = Stages(D, A) /\ T = Stages(E, B)
  BY Zenon
<1>2. T = [S EXCEPT ![r] = "done"]
  BY <1>1 DEF Stages, StageIn
<1> QED BY <1>1, <1>2, Zenon

\* a request that no runner has taken,
LEMMA StageReject ==
  ASSUME NEW D \in [Requests -> Nat], NEW A, NEW r \in Requests, D[r] = 0
  PROVE  Stages([D EXCEPT ![r] = @ + 1], A) = [Stages(D, A) EXCEPT ![r] = "done"]
<1>1. A \in {A, A \ {r}}
  OBVIOUS
<1> QED BY <1>1, StageEnd, Zenon

\* or one that is given up in the same step.
LEMMA StageDone ==
  ASSUME NEW D \in [Requests -> Nat], NEW A, NEW r \in Requests, D[r] = 0
  PROVE  Stages([D EXCEPT ![r] = @ + 1], A \ {r}) = [Stages(D, A) EXCEPT ![r] = "done"]
<1>1. A \ {r} \in {A, A \ {r}}
  OBVIOUS
<1> QED BY <1>1, StageEnd, Zenon

Types ==
  /\ base \subseteq Requests
  /\ pq \in Seq(Requests)
  /\ dones \in [Requests -> Nat]
  /\ inst \in [VMs -> {"off", "run", "stop", "wait", "drain"}]
  /\ loop \in [VMs -> {"none", "shake", "ready", "on", "exit"}]
  /\ stopped \in [VMs -> BOOLEAN]
  /\ nextID \in [VMs -> Nat]
  /\ requests \in [VMs -> Maps]

\* Ids are fresh; a runner takes requests only while its instance has not
\* begun to drain; nothing is left in the map of a finished instance.
Phases ==
  \A v \in VMs :
    /\ \A id \in DOMAIN requests[v] : id <= nextID[v]
    /\ loop[v] = "on" => inst[v] \in {"run", "stop", "wait"}
    /\ loop[v] \in {"shake", "ready"} => stopped[v] \/ inst[v] = "run"
    /\ inst[v] \in {"stop", "wait", "drain"} => stopped[v]
    /\ inst[v] = "off" => DOMAIN requests[v] = {}

RInv == Types /\ Phases /\ OnePlace

-----------------------------------------------------------------------------
(* What the two ends of a connection and the messages between them know of *)
(* each other.  D, H, E: the ids the runner has requests for, remembers as *)
(* hanged, takes to be executing; P, R, L: the ids the executor has        *)
(* pending, running, and reported hanged; M: the messages to the host.     *)

Ends(D, H, E, P, R, L) ==
  /\ P \subseteq D /\ R \subseteq D /\ E \subseteq D /\ L \subseteq D \cup H
  /\ D \cap H = {} /\ R \cap L = {}
  /\ P \cap (R \cup L \cup E) = {}

\* What a message about an id tells of it.
Tells(D, H, P, R, L, m) ==
  /\ m.id \in D \cup H /\ m.id \notin P
  /\ m.id \in R => m.type = "executing"
  /\ m.id \in L => m.id \in D /\ (m.type = "result" => m.status = "Hanged")
  /\ m.id \in H => m.type = "result"

\* Of two messages about an id, the first one.
Precedes(H, m, k) ==
  m.id = k.id =>
    /\ m.id \notin H
    /\ m.type = "result" =>
         m.status = "Hanged" /\ k.type = "result" /\ k.status = "Success"

Talk(D, H, E, P, R, L, M) ==
  /\ Ends(D, H, E, P, R, L)
  /\ \A i \in DOMAIN M : Tells(D, H, P, R, L, M[i])
  /\ \A i, j \in DOMAIN M : i < j => Precedes(H, M[i], M[j])

\* What the runner will take to be executing after k more messages.
View(E, M, k) ==
  {id \in E \cup {M[i].id : i \in {j \in 1 .. k : M[j].type = "executing"}} :
     \A i \in 1 .. k : M[i].id = id => M[i].type # "result"}

Views(E, R, M) ==
  /\ \A k \in 0 .. Len(M) :
       IsFiniteSet(View(E, M, k)) /\ Cardinality(View(E, M, k)) <= Procs
  /\ View(E, M, Len(M)) = R

\* One connection: the loop's place lp, the last id x it gave out, and the
\* above.
ChatOf(lp, D, x, E, H, P, R, L, M) ==
  /\ M \in Seq(Messages)
  /\ IsFiniteSet(P) /\ Cardinality(P) <= Depth * Procs
  /\ lp \in {"none", "shake", "ready"} =>
       D = {} /\ E = {} /\ H = {} /\ P = {} /\ R = {} /\ L = {} /\ M = <<>>
  /\ lp = "on" => /\ Talk(D, H, E, P, R, L, M)
                  /\ Views(E, R, M)
                  /\ \A id \in H : id <= x

Chat(v) == ChatOf(loop[v], DOMAIN requests[v], nextID[v], executing[v], hanged[v],
                  pending[v], running[v], late[v], toHost[v])

ChatTypes ==
  /\ executing \in [VMs -> SUBSET Nat] /\ hanged \in [VMs -> SUBSET Nat]
  /\ pending \in [VMs -> SUBSET Nat] /\ running \in [VMs -> SUBSET Nat]
  /\ late \in [VMs -> SUBSET Nat] /\ toHost \in [VMs -> Seq(Messages)]

Chats == ChatTypes /\ \A v \in VMs : Chat(v)

\* A crash that a request was running in is its last, or the one an
\* important request survives.
Struck ==
  /\ onceCrashed \subseteq Important
  /\ outcome \in [Requests -> {"none", "Success", "ExecFailure", "Hanged", "Crashed"}]
  /\ crashes \in [Requests -> Nat]
  /\ \A r \in Requests :
       /\ (outcome[r] = "none") <=> (dones[r] = 0)
       /\ crashes[r] = (IF r \in onceCrashed THEN 1 ELSE 0)
                       + (IF outcome[r] = "Crashed" THEN 1 ELSE 0)
       /\ outcome[r] = "Crashed" /\ r \in Important => r \in onceCrashed

\* A map is a function from its ids to requests.
LEMMA MapFacts ==
  ASSUME NEW m \in Maps
  PROVE  /\ DOMAIN m \subseteq Nat
         /\ m \in [DOMAIN m -> Requests]
         /\ \A i \in DOMAIN m : m[i] \in Requests
BY Zenon DEF Maps

\* The empty map is a map of ids to requests.
LEMMA EmptyMapFacts == EmptyMap \in Maps /\ DOMAIN EmptyMap = {}
<1>1. EmptyMap \in [{} -> Requests]
  BY DEF EmptyMap
<1>2. {} \in SUBSET Nat
  OBVIOUS
<1> QED BY <1>1, <1>2, Zenon DEF Maps, EmptyMap

\* Deleting an id from an injective map removes exactly its request.
LEMMA ForgetFacts ==
  ASSUME NEW m \in Maps, NEW id \in DOMAIN m,
         \A i, j \in DOMAIN m : m[i] = m[j] => i = j
  PROVE  /\ Forget(m, id) \in Maps
         /\ DOMAIN Forget(m, id) = DOMAIN m \ {id}
         /\ \A i, j \in DOMAIN Forget(m, id) :
              Forget(m, id)[i] = Forget(m, id)[j] => i = j
         /\ Values(Forget(m, id)) = Values(m) \ {m[id]}
<1>1. DOMAIN Forget(m, id) = DOMAIN m \ {id}
  BY DEF Forget
<1>2. \A i \in DOMAIN m \ {id} : Forget(m, id)[i] = m[i]
  BY DEF Forget
<1>3. Forget(m, id) \in [DOMAIN m \ {id} -> Requests]
  BY MapFacts DEF Forget
<1>4. DOMAIN m \ {id} \in SUBSET Nat
  BY MapFacts
<1> QED BY <1>1, <1>2, <1>3, <1>4 DEF Maps, Values

\* Adding a request under a fresh id adds exactly that request.
LEMMA AddFacts ==
  ASSUME NEW m \in Maps, NEW id \in Nat, id \notin DOMAIN m,
         NEW r \in Requests, r \notin Values(m),
         \A i, j \in DOMAIN m : m[i] = m[j] => i = j,
         NEW n, n = [i \in DOMAIN m \cup {id} |-> IF i = id THEN r ELSE m[i]]
  PROVE  /\ n \in Maps
         /\ DOMAIN n = DOMAIN m \cup {id}
         /\ \A i, j \in DOMAIN n : n[i] = n[j] => i = j
         /\ Values(n) = Values(m) \cup {r}
<1>1. n \in [DOMAIN m \cup {id} -> Requests]
  BY MapFacts
<1>2. DOMAIN m \cup {id} \in SUBSET Nat
  BY MapFacts
<1>3. \A i \in DOMAIN m : n[i] = m[i] /\ i # id
  OBVIOUS
<1>4. n[id] = r /\ DOMAIN n = DOMAIN m \cup {id}
  OBVIOUS
<1> QED BY <1>1, <1>2, <1>3, <1>4 DEF Maps, Values

\* Queue facts: appending a new request, taking the first one.
LEMMA AppendFacts ==
  ASSUME NEW s \in Seq(Requests), NEW r \in Requests, r \notin Values(s),
         \A i, j \in DOMAIN s : s[i] = s[j] => i = j
  PROVE  /\ Append(s, r) \in Seq(Requests)
         /\ Values(Append(s, r)) = Values(s) \cup {r}
         /\ \A i, j \in DOMAIN Append(s, r) :
              Append(s, r)[i] = Append(s, r)[j] => i = j
<1>1. /\ Len(s) \in Nat /\ DOMAIN s = 1 .. Len(s)
      /\ DOMAIN Append(s, r) = 1 .. Len(s) + 1
      /\ \A i \in 1 .. Len(s) : Append(s, r)[i] = s[i]
      /\ Append(s, r)[Len(s) + 1] = r
  OBVIOUS
<1>2. Values(Append(s, r)) = Values(s) \cup {r}
  BY <1>1 DEF Values
<1>3. \A i, j \in DOMAIN Append(s, r) :
        Append(s, r)[i] = Append(s, r)[j] => i = j
  BY <1>1 DEF Values
<1> QED BY <1>2, <1>3

\* Taking the head of a queue without duplicates removes exactly that request.
LEMMA TailFacts ==
  ASSUME NEW s \in Seq(Requests), s # <<>>,
         \A i, j \in DOMAIN s : s[i] = s[j] => i = j
  PROVE  /\ Head(s) \in Values(s)
         /\ Tail(s) \in Seq(Requests)
         /\ Values(Tail(s)) = Values(s) \ {Head(s)}
         /\ \A i, j \in DOMAIN Tail(s) : Tail(s)[i] = Tail(s)[j] => i = j
<1>1. /\ Len(s) \in Nat /\ Len(s) > 0 /\ DOMAIN s = 1 .. Len(s)
      /\ Head(s) = s[1]
      /\ Tail(s) \in Seq(Requests)
      /\ DOMAIN Tail(s) = 1 .. Len(s) - 1
      /\ \A i \in 1 .. Len(s) - 1 : Tail(s)[i] = s[i + 1]
  OBVIOUS
<1>2. Values(Tail(s)) \subseteq Values(s) \ {Head(s)}
  BY <1>1 DEF Values
<1>3. ASSUME NEW i \in DOMAIN s, s[i] # Head(s)
      PROVE  s[i] \in Values(Tail(s))
  <2>1. i - 1 \in 1 .. Len(s) - 1 /\ Tail(s)[i - 1] = s[i]
    BY <1>1, <1>3
  <2> QED BY <1>1, <2>1 DEF Values
<1>4. Values(s) \ {Head(s)} \subseteq Values(Tail(s))
  BY <1>3 DEF Values
<1>5. \A i, j \in DOMAIN Tail(s) : Tail(s)[i] = Tail(s)[j] => i = j
  BY <1>1
<1> QED BY <1>1, <1>2, <1>4, <1>5 DEF Values

\* The last four conjuncts of OnePlace, over any sets: B the requests on
\* offer, Q the queued ones, h[v] the ones VM v holds, d the Done counts.
Disjoint(B, Q, h, d) ==
  /\ \A v, w \in VMs : v # w => h[v] \cap h[w] = {}
  /\ B \cap Q = {}
  /\ \A v \in VMs : h[v] \cap (B \cup Q) = {}
  /\ \A r \in Requests :
       d[r] = IF r \in B \cup Q \/ \E v \in VMs : r \in h[v] THEN 0 ELSE 1

Injective(f) == \A i, j \in DOMAIN f : f[i] = f[j] => i = j

HeldMap == [v \in VMs |-> Values(requests[v])]

\* OnePlace in parts: no queue holds a request twice, and no two places share one.
LEMMA OnePlaceSplit ==
  OnePlace <=> /\ Injective(pq)
               /\ \A v \in VMs : Injective(requests[v])
               /\ Disjoint(base, Values(pq), HeldMap, dones)
BY DEF OnePlace, Injective, Disjoint, HeldMap, Held

\* The same of the next state.
LEMMA OnePlaceSplitPrime ==
  OnePlace' <=> /\ Injective(pq')
                /\ \A v \in VMs : Injective(requests'[v])
                /\ Disjoint(base', Values(pq'), HeldMap', dones')
BY DEF OnePlace, Injective, Disjoint, HeldMap, Held, Values

AllHeld == {r \in Requests : \E v \in VMs : r \in Values(requests[v])}

\* r moves from the source to VM v.
LEMMA DisjointTake ==
  ASSUME NEW B, NEW Q, NEW h, NEW d, Disjoint(B, Q, h, d),
         NEW v \in VMs, NEW r \in B \cup Q, NEW B2, NEW Q2, NEW h2,
         B2 \cup Q2 = (B \cup Q) \ {r}, B2 \cap Q2 = {},
         h2[v] = h[v] \cup {r}, \A w \in VMs \ {v} : h2[w] = h[w]
  PROVE  Disjoint(B2, Q2, h2, d)
BY DEF Disjoint

\* r moves from VM v back to the queue.
LEMMA DisjointReturn ==
  ASSUME NEW B, NEW Q, NEW h, NEW d, Disjoint(B, Q, h, d),
         NEW v \in VMs, NEW r \in h[v], NEW h2,
         h2[v] = h[v] \ {r}, \A w \in VMs \ {v} : h2[w] = h[w]
  PROVE  Disjoint(B, Q \cup {r}, h2, d)
BY DEF Disjoint

\* r leaves VM v for good and is counted.
LEMMA DisjointFinish ==
  ASSUME NEW B, NEW Q, NEW h, NEW d \in [Requests -> Nat],
         Disjoint(B, Q, h, d),
         NEW v \in VMs, NEW r \in Requests, r \in h[v], NEW h2,
         h2[v] = h[v] \ {r}, \A w \in VMs \ {v} : h2[w] = h[w]
  PROVE  Disjoint(B, Q, h2, [d EXCEPT ![r] = @ + 1])
<1>1. PICK e : e = [d EXCEPT ![r] = @ + 1]
  BY Zenon
<1>2. e[r] = 1 /\ \A q \in Requests \ {r} : e[q] = d[q]
  BY <1>1 DEF Disjoint
<1>3. Disjoint(B, Q, h2, e)
  BY <1>2 DEF Disjoint
<1> QED BY <1>1, <1>3

\* r is rejected: it leaves the offer and is counted.
LEMMA DisjointReject ==
  ASSUME NEW B, NEW Q, NEW h, NEW d \in [Requests -> Nat],
         Disjoint(B, Q, h, d), NEW r \in Requests, r \in B
  PROVE  Disjoint(B \ {r}, Q, h, [d EXCEPT ![r] = @ + 1])
<1>1. PICK e : e = [d EXCEPT ![r] = @ + 1]
  BY Zenon
<1>2. e[r] = 1 /\ \A q \in Requests \ {r} : e[q] = d[q]
  BY <1>1 DEF Disjoint
<1>3. Disjoint(B \ {r}, Q, h, e)
  BY <1>2 DEF Disjoint
<1> QED BY <1>1, <1>3

\* Taking a request moves it from the source to one runner's map.
LEMMA TakeStep ==
  ASSUME RInv, NEW v \in VMs, NEW r \in Requests, NextRequest(r),
         UNCHANGED dones,
         requests' = [requests EXCEPT ![v] =
           [i \in DOMAIN @ \cup {nextID[v] + 1} |->
              IF i = nextID[v] + 1 THEN r ELSE @[i]]]
  PROVE  /\ OnePlace'
         /\ base' \subseteq Requests /\ pq' \in Seq(Requests)
         /\ requests' \in [VMs -> Maps]
         /\ DOMAIN requests'[v] = DOMAIN requests[v] \cup {nextID[v] + 1}
         /\ \A w \in VMs \ {v} : requests'[w] = requests[w]
         /\ r \notin AllHeld /\ dones[r] = 0 /\ AllHeld' = AllHeld \cup {r}
<1> USE DEF RInv, Types
<1>1. PICK n : n = [i \in DOMAIN requests[v] \cup {nextID[v] + 1} |->
                      IF i = nextID[v] + 1 THEN r ELSE requests[v][i]]
  BY Zenon
<1>2. /\ requests'[v] = n
      /\ \A w \in VMs \ {v} : requests'[w] = requests[w]
      /\ requests' = [requests EXCEPT ![v] = n]
  BY <1>1
<1>3. /\ r \in base \cup Values(pq)
      /\ \A w \in VMs : r \notin Values(requests[w])
  <2>1. r \in base \cup Values(pq)
    BY TailFacts DEF NextRequest, OnePlace
  <2> QED BY <2>1 DEF OnePlace, Held
<1>4. nextID[v] + 1 \in Nat /\ nextID[v] + 1 \notin DOMAIN requests[v]
  <2>1. requests[v] \in Maps
    OBVIOUS
  <2>2. DOMAIN requests[v] \subseteq Nat
    BY <2>1, MapFacts
  <2>3. \A id \in DOMAIN requests[v] : id <= nextID[v]
    BY DEF Phases
  <2> QED BY <2>2, <2>3
<1>5. /\ n \in Maps
      /\ DOMAIN n = DOMAIN requests[v] \cup {nextID[v] + 1}
      /\ \A i, j \in DOMAIN n : n[i] = n[j] => i = j
      /\ Values(n) = Values(requests[v]) \cup {r}
  <2>1. requests[v] \in Maps /\ r \notin Values(requests[v])
    BY <1>3
  <2>2. \A i, j \in DOMAIN requests[v] :
          requests[v][i] = requests[v][j] => i = j
    BY DEF OnePlace
  <2> QED BY ONLY <1>1, <1>4, <2>1, <2>2, r \in Requests, AddFacts
<1>6. /\ base' \subseteq Requests /\ pq' \in Seq(Requests)
      /\ base' \cup Values(pq') = (base \cup Values(pq)) \ {r}
      /\ base' \cap Values(pq') = {}
      /\ \A i, j \in DOMAIN pq' : pq'[i] = pq'[j] => i = j
  <2>1. CASE r \in base /\ base' = base \ {r} /\ pq' = pq
    BY <2>1 DEF OnePlace
  <2>2. CASE pq # <<>> /\ r = Head(pq) /\ pq' = Tail(pq) /\ base' = base
    <3>1. /\ r \in Values(pq) /\ pq' \in Seq(Requests)
          /\ Values(pq') = Values(pq) \ {r}
          /\ \A i, j \in DOMAIN pq' : pq'[i] = pq'[j] => i = j
      BY <2>2, TailFacts, Zenon DEF OnePlace
    <3>2. base \cap Values(pq) = {}
      BY DEF OnePlace
    <3> QED BY <2>2, <3>1, <3>2
  <2> QED BY <2>1, <2>2 DEF NextRequest
<1>7. /\ Values(requests'[v]) = Values(requests[v]) \cup {r}
      /\ \A w \in VMs \ {v} : Values(requests'[w]) = Values(requests[w])
  BY <1>2, <1>5, Zenon
<1>8. Disjoint(base', Values(pq'), HeldMap', dones')
  <2>1. Disjoint(base, Values(pq), HeldMap, dones)
    BY OnePlaceSplit
  <2>2. /\ HeldMap'[v] = HeldMap[v] \cup {r}
        /\ \A w \in VMs \ {v} : HeldMap'[w] = HeldMap[w]
    BY <1>7, Zenon DEF HeldMap
  <2>3. PICK h, h2 : h = HeldMap /\ h2 = HeldMap'
    OBVIOUS
  <2>4. r \in base \cup Values(pq)
    BY <1>3
  <2>5. Disjoint(base', Values(pq'), h2, dones)
    BY ONLY <1>6, <2>1, <2>2, <2>3, <2>4, v \in VMs, DisjointTake
  <2> QED BY <2>3, <2>5
<1>9. \A w \in VMs : Injective(requests'[w])
  <2>1. Injective(requests'[v])
    BY <1>2, <1>5, Zenon DEF Injective
  <2>2. \A w \in VMs : Injective(requests[w])
    BY OnePlaceSplit
  <2> QED BY <1>2, <2>1, <2>2
<1>10. Injective(pq')
  BY <1>6 DEF Injective
<1>11. OnePlace'
  BY <1>8, <1>9, <1>10, OnePlaceSplitPrime, Zenon
<1>12. r \notin AllHeld /\ dones[r] = 0
  BY <1>3 DEF AllHeld, OnePlace
<1>13. AllHeld' = AllHeld \cup {r}
  BY <1>7, Zenon DEF AllHeld
<1> QED BY <1>2, <1>5, <1>6, <1>11, <1>12, <1>13, Zenon

\* Completing a held request removes it from the map and either counts it as
\* done, for the first time, or queues it again.
LEMMA ReturnStep ==
  ASSUME RInv, NEW v \in VMs, NEW id \in DOMAIN requests[v], NEW status,
         Done(requests[v][id], status),
         requests' = [requests EXCEPT ![v] = Forget(@, id)]
  PROVE  /\ OnePlace'
         /\ base' \subseteq Requests /\ pq' \in Seq(Requests)
         /\ dones' \in [Requests -> Nat]
         /\ requests' \in [VMs -> Maps]
         /\ DOMAIN requests'[v] \subseteq DOMAIN requests[v]
         /\ \A w \in VMs \ {v} : requests'[w] = requests[w]
         /\ requests[v][id] \in AllHeld /\ dones[requests[v][id]] = 0
         /\ AllHeld' = AllHeld \ {requests[v][id]}
<1> USE DEF RInv, Types
<1>1. PICK n, r : n = Forget(requests[v], id) /\ r = requests[v][id]
  OBVIOUS
<1>2. /\ requests'[v] = n
      /\ \A w \in VMs \ {v} : requests'[w] = requests[w]
      /\ requests' = [requests EXCEPT ![v] = n]
  BY <1>1
<1>3. /\ n \in Maps
      /\ DOMAIN n = DOMAIN requests[v] \ {id}
      /\ \A i, j \in DOMAIN n : n[i] = n[j] => i = j
      /\ Values(n) = Values(requests[v]) \ {r}
  <2>1. requests[v] \in Maps
    OBVIOUS
  <2>2. \A i, j \in DOMAIN requests[v] :
          requests[v][i] = requests[v][j] => i = j
    BY DEF OnePlace
  <2>3. PICK m : m = requests[v]
    OBVIOUS
  <2>4. m \in Maps /\ id \in DOMAIN m /\ \A i, j \in DOMAIN m : m[i] = m[j] => i = j
    BY ONLY <2>1, <2>2, <2>3, id \in DOMAIN requests[v], Zenon
  <2>5. /\ Forget(m, id) \in Maps
        /\ DOMAIN Forget(m, id) = DOMAIN m \ {id}
        /\ \A i, j \in DOMAIN Forget(m, id) :
             Forget(m, id)[i] = Forget(m, id)[j] => i = j
        /\ Values(Forget(m, id)) = Values(m) \ {m[id]}
    BY ONLY <2>4, ForgetFacts
  <2> QED BY ONLY <1>1, <2>3, <2>5, Zenon
<1>4. r \in Requests /\ r \in Values(requests[v])
  BY <1>1, MapFacts DEF Values
<1>5. /\ r \notin base \cup Values(pq)
      /\ \A w \in VMs \ {v} : r \notin Values(requests[w])
      /\ dones[r] = 0
  BY <1>4 DEF OnePlace, Held
<1>6. /\ Values(requests'[v]) = Values(requests[v]) \ {r}
      /\ \A w \in VMs \ {v} : Values(requests'[w]) = Values(requests[w])
  BY <1>2, <1>3
<1>7. \A w \in VMs : Injective(requests'[w])
  BY <1>2, <1>3 DEF OnePlace, Injective
<1>8. Injective(pq) /\ Disjoint(base, Values(pq), HeldMap, dones)
  BY OnePlaceSplit
<1>9. PICK h, h2 : h = HeldMap /\ h2 = HeldMap'
  OBVIOUS
<1>10. /\ r \in h[v]
       /\ h2[v] = h[v] \ {r}
       /\ \A w \in VMs \ {v} : h2[w] = h[w]
  BY <1>4, <1>6, <1>9 DEF HeldMap
<1>11. r \in AllHeld /\ AllHeld' = AllHeld \ {r}
  BY <1>4, <1>5, <1>6 DEF AllHeld
<1>12. CASE Retries(r, status)
  <2>1. pq' = Append(pq, r) /\ base' = base /\ dones' = dones
    BY <1>1, <1>12 DEF Done
  <2>2. /\ pq' \in Seq(Requests)
        /\ Values(pq') = Values(pq) \cup {r}
        /\ Injective(pq')
    BY <1>4, <1>5, <2>1, AppendFacts, Zenon DEF OnePlace, Injective
  <2>3. Disjoint(base, Values(pq) \cup {r}, h2, dones)
    BY ONLY <1>8, <1>9, <1>10, v \in VMs, DisjointReturn
  <2>4. OnePlace'
    BY <1>7, <1>9, <2>1, <2>2, <2>3, OnePlaceSplitPrime, Zenon
  <2> QED BY <1>1, <1>2, <1>3, <1>5, <1>11, <2>1, <2>2, <2>4, SMTT(30)
<1>13. CASE ~Retries(r, status)
  <2>1. pq' = pq /\ base' = base /\ dones' = [dones EXCEPT ![r] = @ + 1]
    BY <1>1, <1>13 DEF Done
  <2>2. dones \in [Requests -> Nat] /\ dones' \in [Requests -> Nat]
    BY <1>4, <2>1
  <2>3. Disjoint(base, Values(pq), h2, dones')
    <3>1. PICK Q : Q = Values(pq)
      OBVIOUS
    <3>2. Disjoint(base, Q, h, dones) /\ r \in Requests
      BY <1>4, <1>8, <1>9, <3>1
    <3>3. Disjoint(base, Q, h2, [dones EXCEPT ![r] = @ + 1])
      BY ONLY <1>10, <2>2, <3>2, v \in VMs, DisjointFinish, Zenon
    <3> QED BY <2>1, <3>1, <3>3
  <2>4. OnePlace'
    BY <1>7, <1>8, <1>9, <2>1, <2>3, OnePlaceSplitPrime
  <2> QED BY <1>1, <1>2, <1>3, <1>5, <1>11, <2>1, <2>2, <2>4
<1> QED BY <1>1, <1>5, <1>12, <1>13, <1>11

\* The invariant holds before any VM is up.
LEMMA InitRInv == Init => RInv
<1> SUFFICES ASSUME Init PROVE RInv
  OBVIOUS
<1>1. Types
  BY EmptyMapFacts DEF Init, Types
<1>2. Phases
  BY EmptyMapFacts DEF Init, Phases
<1>3. OnePlace
  BY EmptyMapFacts DEF Init, OnePlace, Held, Values
<1> QED BY <1>1, <1>2, <1>3 DEF RInv

\* Steps that move no request.
LEMMA SamePlaces ==
  ASSUME RInv, UNCHANGED <<base, pq, dones, requests>>
  PROVE  OnePlace'
<1>1. HeldMap' = HeldMap
  BY DEF HeldMap
<1> QED BY <1>1, OnePlaceSplit, OnePlaceSplitPrime DEF RInv

\* Every step of the runners keeps the invariant.
LEMMA StepRInv == RInv /\ [Next]_vars => RInv'
<1> SUFFICES ASSUME RInv, [Next]_vars PROVE RInv'
  OBVIOUS
<1> USE DEF RInv
<1>0. CASE UNCHANGED vars
  <2>1. OnePlace'
    BY <1>0, SamePlaces DEF vars, retryVars, loopVars
  <2> QED BY <1>0, <2>1
       DEF vars, retryVars, instVars, loopVars, Types, Phases
<1> SUFFICES ASSUME NEW v \in VMs,
                    Server(v) \/ Executor(v) \/ StopFuzzing(v)
                      \/ HandshakeFails(v) \/ ConnLost(v)
             PROVE  RInv'
  BY <1>0 DEF Next
<1>1. CASE CreateInstance(v)
  <2>1. DOMAIN requests[v] = {} /\ requests[v] \in Maps
    BY <1>1 DEF CreateInstance, Phases, Types
  <2>2. Types'
    BY <1>1, EmptyMapFacts DEF CreateInstance, Types, retryVars
  <2>3. Phases'
    BY <1>1, EmptyMapFacts, Zenon DEF CreateInstance, Types, Phases
  <2>4. HeldMap' = HeldMap
    BY <1>1, <2>1, EmptyMapFacts DEF CreateInstance, HeldMap, Types, Values
  <2>5. \A w \in VMs : Injective(requests'[w])
    BY <1>1, EmptyMapFacts, OnePlaceSplit
       DEF CreateInstance, Types, Injective
  <2>6. OnePlace'
    BY <1>1, <2>4, <2>5, OnePlaceSplit, OnePlaceSplitPrime, Zenon
       DEF CreateInstance, retryVars
  <2> QED BY <2>2, <2>3, <2>6
<1>2. CASE StopFuzzing(v)
  <2>1. UNCHANGED <<base, pq, dones, requests, loop, nextID>>
    BY <1>2 DEF StopFuzzing, retryVars
  <2> QED BY <1>2, <2>1, SamePlaces DEF StopFuzzing, Types, Phases
<1>3. CASE BeginShutdown(v)
  <2>1. UNCHANGED <<base, pq, dones, requests, loop, nextID>>
    BY <1>3 DEF BeginShutdown, retryVars
  <2> QED BY <1>3, <2>1, SamePlaces DEF BeginShutdown, Types, Phases
<1>4. CASE LoopFinished(v)
  <2>1. UNCHANGED <<base, pq, dones, requests, loop, nextID, stopped>>
    BY <1>4 DEF LoopFinished, retryVars, loopVars
  <2> QED BY <1>4, <2>1, SamePlaces DEF LoopFinished, Types, Phases
<1>5. CASE DrainOne(v)
  <2>1. PICK id \in DOMAIN requests[v], status \in {"Crashed", "Restarted"} :
          /\ Done(requests[v][id], status)
          /\ requests' = [requests EXCEPT ![v] = Forget(@, id)]
    BY <1>5, Zenon DEF DrainOne
  <2>2. /\ OnePlace'
        /\ base' \subseteq Requests /\ pq' \in Seq(Requests)
        /\ dones' \in [Requests -> Nat]
        /\ requests' \in [VMs -> Maps]
        /\ DOMAIN requests'[v] \subseteq DOMAIN requests[v]
        /\ \A w \in VMs \ {v} : requests'[w] = requests[w]
    BY <2>1, ReturnStep, Zenon
  <2>3. /\ inst[v] = "drain"
        /\ UNCHANGED <<inst, loop, stopped, nextID>>
    BY <1>5 DEF DrainOne, instVars
  <2>4. Types'
    BY <2>2, <2>3 DEF Types
  <2>5. Phases'
    BY <2>2, <2>3, SMTT(30) DEF Phases
  <2> QED BY <2>2, <2>4, <2>5
<1>6. CASE EndInstance(v)
  <2>1. UNCHANGED <<base, pq, dones, requests, loop, nextID, stopped>>
    BY <1>6 DEF EndInstance, retryVars, loopVars
  <2> QED BY <1>6, <2>1, SamePlaces DEF EndInstance, Types, Phases
<1>7. CASE Connect(v)
  <2>1. UNCHANGED <<base, pq, dones, requests, inst, nextID, stopped>>
    BY <1>7, SMTT(30) DEF Connect, retryVars, instVars
  <2> QED BY <1>7, <2>1, SamePlaces DEF Connect, Types, Phases
<1>8. CASE Handshake(v) \/ HandshakeFails(v) \/ EnterLoop(v)
  <2>1. UNCHANGED <<base, pq, dones, requests, inst, nextID, stopped>>
    BY <1>8, Zenon DEF Handshake, HandshakeFails, EnterLoop, retryVars, instVars
  <2>2. OnePlace'
    BY <2>1, SamePlaces, Zenon
  <2>3. Types' /\ Phases'
    BY <1>8, <2>1 DEF Handshake, HandshakeFails, EnterLoop, Types, Phases
  <2> QED BY <2>2, <2>3, Zenon
<1>9. CASE SendRequest(v)
  <2>1. PICK r \in Requests : NextRequest(r)
          /\ requests' = [requests EXCEPT ![v] =
               [i \in DOMAIN @ \cup {nextID[v] + 1} |->
                  IF i = nextID[v] + 1 THEN r ELSE @[i]]]
    BY <1>9, Zenon DEF SendRequest
  <2>2. UNCHANGED dones
    BY <1>9 DEF SendRequest
  <2>3. /\ OnePlace'
        /\ base' \subseteq Requests /\ pq' \in Seq(Requests)
        /\ requests' \in [VMs -> Maps]
        /\ DOMAIN requests'[v] = DOMAIN requests[v] \cup {nextID[v] + 1}
        /\ \A w \in VMs \ {v} : requests'[w] = requests[w]
    BY <2>1, <2>2, TakeStep, Zenon
  <2>4. /\ loop[v] = "on" /\ UNCHANGED <<inst, stopped>>
        /\ nextID' = [nextID EXCEPT ![v] = @ + 1]
        /\ loop' = [loop EXCEPT ![v] = IF conn[v] = "open" THEN "on" ELSE "exit"]
    BY <1>9 DEF SendRequest, instVars
  <2>5. Types'
    BY <2>2, <2>3, <2>4, SMTT(30) DEF Types
  <2>6. \A w \in VMs : \A id \in DOMAIN requests'[w] : id <= nextID'[w]
    <3>1. DOMAIN requests[v] \subseteq Nat
      BY MapFacts DEF Types
    <3>2. /\ nextID[v] \in Nat /\ nextID'[v] = nextID[v] + 1
          /\ \A w \in VMs \ {v} : nextID'[w] = nextID[w]
      BY <2>4, Zenon DEF Types
    <3>3. \A id \in DOMAIN requests[v] : id <= nextID[v] + 1
      BY <3>1, <3>2 DEF Phases
    <3>4. \A id \in DOMAIN requests'[v] : id <= nextID'[v]
      BY <2>3, <3>2, <3>3, SMTT(30)
    <3>5. \A w \in VMs \ {v} : \A id \in DOMAIN requests'[w] : id <= nextID'[w]
      BY <2>3, <3>2 DEF Phases
    <3> QED BY <3>4, <3>5
  <2>7. Phases'
    BY <2>3, <2>4, <2>6 DEF Types, Phases
  <2> QED BY <2>3, <2>5, <2>7
<1>10. CASE RejectRequest(v)
  <2>1. PICK r \in Unencodable : r \in base /\ base' = base \ {r}
          /\ dones' = [dones EXCEPT ![r] = @ + 1]
    BY <1>10, Zenon DEF RejectRequest
  <2>2. /\ UNCHANGED <<pq, inst, loop, stopped, requests>>
        /\ nextID' = [nextID EXCEPT ![v] = @ + 1]
    BY <1>10 DEF RejectRequest, instVars
  <2>3. r \in Requests /\ dones \in [Requests -> Nat]
    BY <2>1 DEF Types
  <2>4. Types'
    BY <2>1, <2>2, <2>3, SMTT(30) DEF Types
  <2>5. \A w \in VMs : \A id \in DOMAIN requests'[w] : id <= nextID'[w]
    <3>1. \A w \in VMs : nextID[w] \in Nat /\ nextID[w] <= nextID'[w]
      BY <2>2 DEF Types
    <3>2. ASSUME NEW w \in VMs, NEW id \in DOMAIN requests[w]
          PROVE  id <= nextID'[w]
      <4>1. id \in Nat
        BY <3>2, MapFacts DEF Types
      <4>2. id <= nextID[w] /\ nextID'[w] \in Nat
        BY <2>2 DEF Types, Phases
      <4> QED BY <3>1, <4>1, <4>2
    <3> QED BY <2>2, <3>2
  <2>6. Phases'
    BY <2>2, <2>5 DEF Phases
  <2>7. Disjoint(base \ {r}, Values(pq), HeldMap, [dones EXCEPT ![r] = @ + 1])
    <3>1. Disjoint(base, Values(pq), HeldMap, dones)
      BY OnePlaceSplit
    <3> QED BY ONLY <2>1, <2>3, <3>1, DisjointReject, Zenon
  <2>8. HeldMap' = HeldMap
    BY <2>2 DEF HeldMap
  <2>9. OnePlace'
    BY <2>1, <2>2, <2>7, <2>8, OnePlaceSplit, OnePlaceSplitPrime, Zenon
  <2> QED BY <2>4, <2>6, <2>9
<1>11. CASE LeaveLoop(v) \/ HandleExecuting(v)
  <2>1. UNCHANGED <<base, pq, dones, requests, inst, nextID, stopped>>
    BY <1>11, Zenon DEF LeaveLoop, HandleExecuting, retryVars, instVars
  <2>2. \/ loop' = loop
        \/ loop' = [loop EXCEPT ![v] = "exit"]
    BY <1>11, Zenon DEF LeaveLoop, HandleExecuting, Types
  <2> QED BY <2>1, <2>2, SamePlaces, SMTT(30) DEF Types, Phases
<1>12. CASE HandleResult(v)
  <2> DEFINE mid == Head(toHost[v]).id
             mst == Head(toHost[v]).status
  <2>1. /\ UNCHANGED <<inst, stopped, nextID>>
        /\ loop[v] = "on"
        /\ \/ loop' = loop
           \/ loop' = [loop EXCEPT ![v] = "exit"]
    BY <1>12, Zenon DEF HandleResult, Receives, instVars, Types
  <2>2. CASE mid \in DOMAIN requests[v]
    <3>1. /\ Done(requests[v][mid], mst)
          /\ requests' = [requests EXCEPT ![v] = Forget(@, mid)]
      BY <1>12, <2>2, Zenon DEF HandleResult
    <3> HIDE DEF mid, mst
    <3>2. /\ OnePlace'
          /\ base' \subseteq Requests /\ pq' \in Seq(Requests)
          /\ dones' \in [Requests -> Nat]
          /\ requests' \in [VMs -> Maps]
          /\ DOMAIN requests'[v] \subseteq DOMAIN requests[v]
          /\ \A w \in VMs \ {v} : requests'[w] = requests[w]
      BY <2>2, <3>1, ReturnStep, Zenon
    <3>3. Types'
      BY <2>1, <3>2, Zenon DEF Types
    <3>4. Phases'
      BY <2>1, <3>2, Zenon DEF Types, Phases
    <3> QED BY <3>2, <3>3, <3>4, Zenon
  <2>3. CASE mid \notin DOMAIN requests[v]
    <3>1. UNCHANGED <<base, pq, dones, requests>>
      BY <1>12, <2>3, Zenon DEF HandleResult, retryVars
    <3> QED BY <2>1, <3>1, SamePlaces, Zenon DEF Types, Phases
  <2> QED BY <2>2, <2>3, Zenon
<1>13. CASE ConnLost(v) \/ Executor(v)
  <2>1. UNCHANGED <<base, pq, dones, requests, inst, nextID, stopped, loop>>
    BY <1>13, Zenon DEF ConnLost, Executor, ExecStart, ExecNeverStarts, ExecAgain,
                 ExecFinish, ExecLate, retryVars, instVars, loopVars
  <2> QED BY <2>1, SamePlaces, SMTT(30) DEF Types, Phases
<1> QED BY <1>1, <1>2, <1>3, <1>4, <1>5, <1>6, <1>7, <1>8, <1>9, <1>10, <1>11,
           <1>12, <1>13, Zenon DEF Server

\* For any number of VMs, requests and failures, every request is in exactly
\* one place at any time and Done completes it at most once: the check of
\* Stopped at the start of ConnectionLoop and the wait in Shutdown keep the
\* two goroutines of a VM from both completing what the VM holds.
THEOREM NothingLostOrDoneTwice == Spec => []OnePlace
<1>1. RInv => OnePlace
  BY DEF RInv
<1> QED BY <1>1, InitRInv, StepRInv, PTL DEF Spec

-----------------------------------------------------------------------------
(* The connection: what each step does to Talk and Views.                  *)

\* The fields of a message.
LEMMA MessageFacts ==
  ASSUME NEW m \in Messages
  PROVE  /\ m.type \in {"executing", "result"} /\ m.id \in Nat
         /\ m.status \in {"Success", "ExecFailure", "Hanged"}
BY DEF Messages

\* The two messages an executor makes have the fields they are made with.
LEMMA MadeMessages ==
  ASSUME NEW id \in Nat, NEW status \in {"Success", "ExecFailure", "Hanged"}
  PROVE  /\ Executing(id) \in Messages /\ Executing(id).type = "executing"
         /\ Executing(id).id = id
         /\ Result(id, status) \in Messages /\ Result(id, status).type = "result"
         /\ Result(id, status).id = id /\ Result(id, status).status = status
BY DEF Executing, Result, Messages

\* Longer by one message m, shorter by the first.
Longer(M, m, N, n) ==
  /\ n \in Nat /\ DOMAIN M = 1 .. n /\ DOMAIN N = 1 .. n + 1
  /\ Len(M) = n /\ Len(N) = n + 1
  /\ N[n + 1] = m /\ \A i \in 1 .. n : N[i] = M[i]
Shorter(M, N, n) ==
  /\ n \in Nat /\ DOMAIN M = 1 .. n + 1 /\ DOMAIN N = 1 .. n
  /\ Len(M) = n + 1 /\ Len(N) = n
  /\ \A i \in 1 .. n : N[i] = M[i + 1]

\* Sending a message makes the channel longer by it.
LEMMA AppendMessage ==
  ASSUME NEW M \in Seq(Messages), NEW m \in Messages, NEW N, N = Append(M, m)
  PROVE  N \in Seq(Messages) /\ \E n : Longer(M, m, N, n)
<1>1. /\ Len(M) \in Nat /\ DOMAIN M = 1 .. Len(M)
      /\ N \in Seq(Messages) /\ Len(N) = Len(M) + 1 /\ DOMAIN N = 1 .. Len(M) + 1
      /\ N[Len(M) + 1] = m /\ \A i \in 1 .. Len(M) : N[i] = M[i]
  OBVIOUS
<1> QED BY <1>1 DEF Longer

\* Reading a message makes the channel shorter by its head.
LEMMA TailMessage ==
  ASSUME NEW M \in Seq(Messages), M # <<>>, NEW N, N = Tail(M)
  PROVE  /\ N \in Seq(Messages) /\ Head(M) = M[1] /\ M[1] \in Messages
         /\ \E n : Shorter(M, N, n)
<1>1. /\ Len(M) \in Nat \ {0} /\ DOMAIN M = 1 .. Len(M)
      /\ Head(M) = M[1] /\ M[1] \in Messages
      /\ N \in Seq(Messages) /\ Len(N) = Len(M) - 1 /\ DOMAIN N = 1 .. Len(M) - 1
      /\ \A i \in 1 .. Len(M) - 1 : N[i] = M[i + 1]
  OBVIOUS
<1>2. PICK n \in Nat : n = Len(M) - 1
  <2>1. Len(M) - 1 \in Nat
    BY <1>1
  <2> QED BY <2>1
<1>3. Len(M) = n + 1
  BY <1>1, <1>2
<1> QED BY <1>1, <1>2, <1>3 DEF Shorter

\* The places of the messages before and after.
LEMMA LongerFacts ==
  ASSUME NEW M, NEW m, NEW N, NEW n, Longer(M, m, N, n)
  PROVE  /\ \A i \in DOMAIN N : (i \in DOMAIN M /\ N[i] = M[i]) \/ (i = n + 1 /\ N[i] = m)
         /\ \A i, j \in DOMAIN N : i < j => i \in DOMAIN M /\ N[i] = M[i]
         /\ \A i \in DOMAIN M : i \in DOMAIN N
BY DEF Longer

\* One of the places after a message was added.
LEMMA LongerPlace ==
  ASSUME NEW M, NEW m, NEW N, NEW n, Longer(M, m, N, n), NEW i \in DOMAIN N
  PROVE  (i \in DOMAIN M /\ N[i] = M[i]) \/ N[i] = m
BY LongerFacts

\* The one in front of another is an old one.
LEMMA LongerFront ==
  ASSUME NEW M, NEW m, NEW N, NEW n, Longer(M, m, N, n),
         NEW i \in DOMAIN N, NEW j \in DOMAIN N, i < j
  PROVE  i \in DOMAIN M /\ N[i] = M[i]
BY LongerFacts

\* The messages left after a read are the old ones, one place earlier and in order.
LEMMA ShorterFacts ==
  ASSUME NEW M, NEW N, NEW n, Shorter(M, N, n)
  PROVE  /\ 1 \in DOMAIN M
         /\ \A i \in DOMAIN N : i + 1 \in DOMAIN M /\ N[i] = M[i + 1] /\ 1 < i + 1
         /\ \A i, j \in DOMAIN N : i < j => i + 1 < j + 1
BY SMTT(30) DEF Shorter

\* Two ends and the messages between them agree after one more message, if they
\* agree without it and it fits behind each of the others.
LEMMA LongerTalk ==
  ASSUME NEW D, NEW H, NEW E, NEW P, NEW R, NEW L, NEW M, NEW m, NEW N, NEW n,
         Longer(M, m, N, n), Ends(D, H, E, P, R, L),
         \A i \in DOMAIN M : Tells(D, H, P, R, L, M[i]), Tells(D, H, P, R, L, m),
         \A i, j \in DOMAIN M : i < j => Precedes(H, M[i], M[j]),
         \A i \in DOMAIN M : Precedes(H, M[i], m)
  PROVE  Talk(D, H, E, P, R, L, N)
<1>1. ASSUME NEW i \in DOMAIN N PROVE Tells(D, H, P, R, L, N[i])
  <2>1. (i \in DOMAIN M /\ N[i] = M[i]) \/ N[i] = m
    BY <1>1, LongerPlace
  <2>2. CASE i \in DOMAIN M /\ N[i] = M[i]
    BY <2>2, Zenon
  <2>3. CASE N[i] = m
    BY <2>3, Zenon
  <2> QED BY <2>1, <2>2, <2>3, Zenon
<1>2. ASSUME NEW i \in DOMAIN N, NEW j \in DOMAIN N, i < j PROVE Precedes(H, N[i], N[j])
  <2>1. i \in DOMAIN M /\ N[i] = M[i]
    BY <1>2, LongerFront, Zenon
  <2>2. CASE j \in DOMAIN M /\ N[j] = M[j]
    BY <1>2, <2>1, <2>2, Zenon
  <2>3. CASE N[j] = m
    BY <2>1, <2>3, Zenon
  <2>4. (j \in DOMAIN M /\ N[j] = M[j]) \/ N[j] = m
    BY <1>2, LongerPlace
  <2> QED BY <2>2, <2>3, <2>4, Zenon
<1> QED BY <1>1, <1>2, Zenon DEF Talk

\* What is left of the messages after a read is in order.
LEMMA ShorterPairs ==
  ASSUME NEW H, NEW M, NEW N, NEW n, Shorter(M, N, n),
         \A i, j \in DOMAIN M : i < j => Precedes(H, M[i], M[j]),
         NEW i \in DOMAIN N, NEW j \in DOMAIN N, i < j
  PROVE  Precedes(H, N[i], N[j])
<1>1. i + 1 \in DOMAIN M /\ N[i] = M[i + 1] /\ j + 1 \in DOMAIN M /\ N[j] = M[j + 1]
      /\ i + 1 < j + 1
  BY ShorterFacts
<1> QED BY <1>1, Zenon

\* A fresh connection: nobody knows of any id.
LEMMA TalkEmpty == Talk({}, {}, {}, {}, {}, {}, <<>>) /\ Views({}, {}, <<>>)
<1>1. Talk({}, {}, {}, {}, {}, {}, <<>>)
  BY DEF Talk, Ends
<1>2. \A k \in 0 .. Len(<<>>) : k = 0
  OBVIOUS
<1>3. View({}, <<>>, 0) = {}
  BY DEF View
<1>4. Procs \in Nat
  BY RunnerAssumption
<1>5. Views({}, {}, <<>>)
  BY <1>2, <1>3, <1>4, FS_EmptySet, SMTT(30) DEF Views
<1> QED BY <1>1, <1>5

\* A new request.
LEMMA TalkSend ==
  ASSUME NEW D, NEW H, NEW E, NEW P, NEW R, NEW L, NEW M, Talk(D, H, E, P, R, L, M),
         NEW id, id \notin D \cup H
  PROVE  Talk(D \cup {id}, H, E, P \cup {id}, R, L, M)
BY DEF Talk, Ends, Tells

\* The executor starts a pending request and says so.
LEMMA TalkStart ==
  ASSUME NEW D, NEW H, NEW E, NEW P, NEW R, NEW L, NEW M, Talk(D, H, E, P, R, L, M),
         NEW id \in P, NEW m, m.type = "executing", m.id = id,
         NEW N, NEW n, Longer(M, m, N, n)
  PROVE  Talk(D, H, E, P \ {id}, R \cup {id}, L, N)
<1>1. Ends(D, H, E, P \ {id}, R \cup {id}, L)
  BY Zenon DEF Talk, Ends
<1>2. \A i \in DOMAIN M : Tells(D, H, P \ {id}, R \cup {id}, L, M[i])
  BY Zenon DEF Talk, Ends, Tells
<1>3. Tells(D, H, P \ {id}, R \cup {id}, L, m)
  BY Zenon DEF Talk, Ends, Tells
<1>4. \A i \in DOMAIN M : Precedes(H, M[i], m)
  BY Zenon DEF Talk, Ends, Tells, Precedes
<1>5. \A i, j \in DOMAIN M : i < j => Precedes(H, M[i], M[j])
  BY DEF Talk
<1> QED BY <1>1, <1>2, <1>3, <1>4, <1>5, LongerTalk, Zenon

\* The executor answers a pending request without having started it.
LEMMA TalkNeverStarts ==
  ASSUME NEW D, NEW H, NEW E, NEW P, NEW R, NEW L, NEW M, Talk(D, H, E, P, R, L, M),
         NEW id \in P, NEW m, m.type = "result", m.id = id,
         NEW N, NEW n, Longer(M, m, N, n)
  PROVE  Talk(D, H, E, P \ {id}, R, L, N)
<1>1. Ends(D, H, E, P \ {id}, R, L)
  BY Zenon DEF Talk, Ends
<1>2. \A i \in DOMAIN M : Tells(D, H, P \ {id}, R, L, M[i])
  BY Zenon DEF Talk, Ends, Tells
<1>3. Tells(D, H, P \ {id}, R, L, m)
  BY Zenon DEF Talk, Ends, Tells
<1>4. \A i \in DOMAIN M : Precedes(H, M[i], m)
  BY Zenon DEF Talk, Ends, Tells, Precedes
<1>5. \A i, j \in DOMAIN M : i < j => Precedes(H, M[i], M[j])
  BY DEF Talk
<1> QED BY <1>1, <1>2, <1>3, <1>4, <1>5, LongerTalk, Zenon

\* The executor announces a running request once more, at a retry.
LEMMA TalkAgain ==
  ASSUME NEW D, NEW H, NEW E, NEW P, NEW R, NEW L, NEW M, Talk(D, H, E, P, R, L, M),
         NEW id \in R, NEW m, m.type = "executing", m.id = id,
         NEW N, NEW n, Longer(M, m, N, n)
  PROVE  Talk(D, H, E, P, R, L, N)
<1>1. Ends(D, H, E, P, R, L)
  BY Zenon DEF Talk, Ends
<1>2. \A i \in DOMAIN M : Tells(D, H, P, R, L, M[i])
  BY DEF Talk, Ends, Tells
<1>3. Tells(D, H, P, R, L, m)
  BY Zenon DEF Talk, Ends, Tells
<1>4. \A i \in DOMAIN M : Precedes(H, M[i], m)
  BY Zenon DEF Talk, Ends, Tells, Precedes
<1>5. \A i, j \in DOMAIN M : i < j => Precedes(H, M[i], M[j])
  BY DEF Talk
<1> QED BY <1>1, <1>2, <1>3, <1>4, <1>5, LongerTalk, Zenon

\* The executor answers a running request, which may leave a hanged one behind.
LEMMA TalkFinish ==
  ASSUME NEW D, NEW H, NEW E, NEW P, NEW R, NEW L, NEW M, Talk(D, H, E, P, R, L, M),
         NEW id \in R, NEW m, m.type = "result", m.id = id,
         NEW L2, L2 = L \/ (m.status = "Hanged" /\ L2 = L \cup {id}),
         NEW N, NEW n, Longer(M, m, N, n)
  PROVE  Talk(D, H, E, P, R \ {id}, L2, N)
<1>1. Ends(D, H, E, P, R \ {id}, L2)
  BY Zenon DEF Talk, Ends
<1>2. \A i \in DOMAIN M : Tells(D, H, P, R \ {id}, L2, M[i])
  BY Zenon DEF Talk, Ends, Tells
<1>3. Tells(D, H, P, R \ {id}, L2, m)
  BY Zenon DEF Talk, Ends, Tells
<1>4. \A i \in DOMAIN M : Precedes(H, M[i], m)
  BY Zenon DEF Talk, Ends, Tells, Precedes
<1>5. \A i, j \in DOMAIN M : i < j => Precedes(H, M[i], M[j])
  BY DEF Talk
<1> QED BY <1>1, <1>2, <1>3, <1>4, <1>5, LongerTalk, Zenon

\* The executor's late answer to a request that it had called hanged.
LEMMA TalkLate ==
  ASSUME NEW D, NEW H, NEW E, NEW P, NEW R, NEW L, NEW M, Talk(D, H, E, P, R, L, M),
         NEW id \in L, NEW m, m.type = "result", m.id = id, m.status = "Success",
         NEW N, NEW n, Longer(M, m, N, n)
  PROVE  Talk(D, H, E, P, R, L \ {id}, N)
<1>1. Ends(D, H, E, P, R, L \ {id})
  BY Zenon DEF Talk, Ends
<1>2. \A i \in DOMAIN M : Tells(D, H, P, R, L \ {id}, M[i])
  BY Zenon DEF Talk, Ends, Tells
<1>3. Tells(D, H, P, R, L \ {id}, m)
  BY Zenon DEF Talk, Ends, Tells
<1>4. \A i \in DOMAIN M : Precedes(H, M[i], m)
  BY Zenon DEF Talk, Ends, Tells, Precedes
<1>5. \A i, j \in DOMAIN M : i < j => Precedes(H, M[i], M[j])
  BY Zenon DEF Talk
<1> QED BY <1>1, <1>2, <1>3, <1>4, <1>5, LongerTalk, Zenon

\* The host takes the first message.
LEMMA TalkExecuting ==
  ASSUME NEW D, NEW H, NEW E, NEW P, NEW R, NEW L, NEW M, Talk(D, H, E, P, R, L, M),
         NEW N, NEW n, Shorter(M, N, n), M[1].type = "executing"
  PROVE  M[1].id \in D /\ Talk(D, H, E \cup {M[1].id}, P, R, L, N)
<1>1. Tells(D, H, P, R, L, M[1])
  BY ShorterFacts, Zenon DEF Talk
<1>2. M[1].id \in D /\ Ends(D, H, E \cup {M[1].id}, P, R, L)
  <2>1. M[1].id \in D /\ M[1].id \notin P
    BY <1>1, Zenon DEF Talk, Ends, Tells
  <2>2. Ends(D, H, E, P, R, L)
    BY Zenon DEF Talk
  <2> QED BY <2>1, <2>2, Zenon DEF Ends
<1>3. \A i \in DOMAIN N : Tells(D, H, P, R, L, N[i])
  BY ShorterFacts DEF Talk
<1>4. \A i, j \in DOMAIN N : i < j => Precedes(H, N[i], N[j])
  BY ShorterPairs, Zenon DEF Talk
<1> QED BY <1>2, <1>3, <1>4, Zenon DEF Talk

\* The result of a request the runner knows.
LEMMA TalkResult ==
  ASSUME NEW D, NEW H, NEW E, NEW P, NEW R, NEW L, NEW M, Talk(D, H, E, P, R, L, M),
         NEW N, NEW n, Shorter(M, N, n), M[1].type = "result", NEW id \in D, id = M[1].id,
         NEW H2, H2 = IF M[1].status = "Hanged" THEN H \cup {id} ELSE H
  PROVE  Talk(D \ {id}, H2, E \ {id}, P, R, L, N)
<1>1. Tells(D, H, P, R, L, M[1])
  BY ShorterFacts, Zenon DEF Talk
<1>2. Ends(D \ {id}, H2, E \ {id}, P, R, L)
  BY <1>1, Zenon DEF Talk, Ends, Tells
<1>3. ASSUME NEW i \in DOMAIN N
      PROVE  /\ Tells(D, H, P, R, L, N[i])
             /\ N[i].id = id => /\ M[1].status = "Hanged" /\ N[i].type = "result"
                                /\ N[i].status = "Success"
  <2>1. i + 1 \in DOMAIN M /\ N[i] = M[i + 1] /\ 1 < i + 1 /\ 1 \in DOMAIN M
    BY ShorterFacts, Zenon
  <2>2. Precedes(H, M[1], M[i + 1])
    BY <2>1, Zenon DEF Talk
  <2> QED BY <2>1, <2>2, Zenon DEF Talk, Precedes
<1>4. \A i \in DOMAIN N : Tells(D \ {id}, H2, P, R, L, N[i])
  BY <1>1, <1>3, Zenon DEF Tells
<1>5. ASSUME NEW i \in DOMAIN N, NEW j \in DOMAIN N, i < j
      PROVE  Precedes(H2, N[i], N[j])
  <2>1. Precedes(H, N[i], N[j])
    BY <1>5, ShorterPairs, Zenon DEF Talk
  <2> QED BY <1>3, <2>1 DEF Precedes
<1> QED BY <1>2, <1>4, <1>5, Zenon DEF Talk

\* The late result of a request that was reported hanged.
LEMMA TalkLateResult ==
  ASSUME NEW D, NEW H, NEW E, NEW P, NEW R, NEW L, NEW M, Talk(D, H, E, P, R, L, M),
         NEW N, NEW n, Shorter(M, N, n), M[1].type = "result", NEW id, id \notin D,
         id = M[1].id
  PROVE  id \in H /\ Talk(D, H \ {id}, E, P, R, L, N)
<1>1. Tells(D, H, P, R, L, M[1])
  BY ShorterFacts, Zenon DEF Talk
<1>2. id \in H /\ id \notin L /\ Ends(D, H \ {id}, E, P, R, L)
  BY <1>1, Zenon DEF Talk, Ends, Tells
<1>3. ASSUME NEW i \in DOMAIN N PROVE Tells(D, H, P, R, L, N[i]) /\ N[i].id # id
  <2>1. i + 1 \in DOMAIN M /\ N[i] = M[i + 1] /\ 1 < i + 1 /\ 1 \in DOMAIN M
    BY ShorterFacts, Zenon
  <2>2. Precedes(H, M[1], M[i + 1])
    BY <2>1, Zenon DEF Talk
  <2> QED BY <1>2, <2>1, <2>2, Zenon DEF Talk, Precedes
<1>4. \A i \in DOMAIN N : Tells(D, H \ {id}, P, R, L, N[i])
  BY <1>3, Zenon DEF Tells
<1>5. ASSUME NEW i \in DOMAIN N, NEW j \in DOMAIN N, i < j
      PROVE  Precedes(H \ {id}, N[i], N[j])
  <2>1. Precedes(H, N[i], N[j])
    BY <1>5, ShorterPairs, Zenon DEF Talk
  <2> QED BY <2>1 DEF Precedes
<1> QED BY <1>2, <1>4, <1>5, Zenon DEF Talk

\* Membership in a view.
LEMMA InView ==
  ASSUME NEW E, NEW M, NEW k \in Nat, NEW id
  PROVE  id \in View(E, M, k) <=>
           /\ id \in E \/ \E i \in 1 .. k : M[i].type = "executing" /\ M[i].id = id
           /\ \A i \in 1 .. k : M[i].id = id => M[i].type # "result"
BY Zenon DEF View

\* One more message.
SeenLonger(E, M, m, N, n) ==
  /\ \A k \in 0 .. n : View(E, N, k) = View(E, M, k)
  /\ (/\ m.type = "executing"
      /\ \A i \in DOMAIN M : M[i].id = m.id => M[i].type # "result")
     => View(E, N, n + 1) = View(E, M, n) \cup {m.id}
  /\ m.type = "result" => View(E, N, n + 1) = View(E, M, n) \ {m.id}

\* A message sent changes only what the host will see after all the others.
LEMMA ViewLonger ==
  ASSUME NEW E, NEW M, NEW m, NEW N, NEW n, Longer(M, m, N, n)
  PROVE  SeenLonger(E, M, m, N, n)
<1>1. /\ n \in Nat /\ DOMAIN M = 1 .. n /\ N[n + 1] = m
      /\ \A i \in 1 .. n : N[i] = M[i]
      /\ n + 1 \in 1 .. n + 1
      /\ \A i \in 1 .. n : i \in 1 .. n + 1
      /\ \A i \in 1 .. n + 1 : i \in 1 .. n \/ i = n + 1
  BY DEF Longer
<1>2. ASSUME NEW k \in 0 .. n PROVE View(E, N, k) = View(E, M, k)
  <2>1. k \in Nat /\ \A i \in 1 .. k : N[i] = M[i]
    BY <1>1, <1>2, SMTT(30)
  <2>2. \A id : id \in View(E, N, k) <=> id \in View(E, M, k)
    BY <2>1, InView
  <2> QED BY <2>2
<1>3. n + 1 \in Nat
  BY <1>1
<1>4. ASSUME m.type = "executing",
             \A i \in DOMAIN M : M[i].id = m.id => M[i].type # "result"
      PROVE  View(E, N, n + 1) = View(E, M, n) \cup {m.id}
  <2>1. \A id : id \in View(E, N, n + 1) <=> (id \in View(E, M, n) \/ id = m.id)
    BY <1>1, <1>3, <1>4, InView
  <2> QED BY <2>1, Zenon
<1>5. ASSUME m.type = "result" PROVE View(E, N, n + 1) = View(E, M, n) \ {m.id}
  <2>1. \A id : id \in View(E, N, n + 1) <=> (id \in View(E, M, n) /\ id # m.id)
    BY <1>1, <1>3, <1>5, InView, SMTT(30)
  <2> QED BY <2>1, Zenon
<1> QED BY <1>2, <1>4, <1>5 DEF SeenLonger

\* The first message taken.
SeenShorter(E, E2, M, N, n) == \A k \in 0 .. n : View(E2, N, k) = View(E, M, k + 1)

\* Handling a message moves the host's view to what it was about to become.
LEMMA ViewShorter ==
  ASSUME NEW E, NEW M, NEW N, NEW n, Shorter(M, N, n), NEW E2,
         \/ M[1].type = "executing" /\ E2 = E \cup {M[1].id}
         \/ /\ M[1].type = "result" /\ E2 = E \ {M[1].id}
            /\ \A i \in DOMAIN N : N[i].id = M[1].id => N[i].type = "result"
  PROVE  SeenShorter(E, E2, M, N, n)
<1> SUFFICES ASSUME NEW k \in 0 .. n PROVE View(E2, N, k) = View(E, M, k + 1)
  BY DEF SeenShorter
<1>1. /\ k \in Nat /\ k + 1 \in Nat /\ n \in Nat
      /\ \A i \in 1 .. k : N[i] = M[i + 1] /\ i + 1 \in 1 .. k + 1 /\ i \in DOMAIN N
      /\ 1 \in 1 .. k + 1
      /\ \A i \in 1 .. k + 1 : i = 1 \/ (i - 1 \in 1 .. k /\ M[i] = N[i - 1])
  BY SMTT(30) DEF Shorter
<1>2. ASSUME NEW id
      PROVE  /\ (\A i \in 1 .. k + 1 : M[i].id = id => M[i].type # "result") <=>
                  /\ M[1].id = id => M[1].type # "result"
                  /\ \A i \in 1 .. k : N[i].id = id => N[i].type # "result"
             /\ (\E i \in 1 .. k + 1 : M[i].type = "executing" /\ M[i].id = id) <=>
                  \/ M[1].type = "executing" /\ M[1].id = id
                  \/ \E i \in 1 .. k : N[i].type = "executing" /\ N[i].id = id
  BY <1>1
<1>3. ASSUME NEW id PROVE id \in View(E2, N, k) <=> id \in View(E, M, k + 1)
  <2>1. id \in View(E, M, k + 1) <=>
          /\ id \in E \/ (M[1].type = "executing" /\ M[1].id = id)
             \/ \E i \in 1 .. k : N[i].type = "executing" /\ N[i].id = id
          /\ M[1].id = id => M[1].type # "result"
          /\ \A i \in 1 .. k : N[i].id = id => N[i].type # "result"
    BY <1>1, <1>2, InView, SMTT(30)
  <2>2. id \in View(E2, N, k) <=>
          /\ id \in E2 \/ \E i \in 1 .. k : N[i].type = "executing" /\ N[i].id = id
          /\ \A i \in 1 .. k : N[i].id = id => N[i].type # "result"
    BY <1>1, InView, SMTT(30)
  <2> QED BY <1>1, <2>1, <2>2, Zenon
<1> QED BY <1>3, Zenon

\* The host's views keep matching the executor when it sends a message.
LEMMA ViewsLonger ==
  ASSUME NEW E, NEW R, NEW R2, NEW M, NEW m, NEW N, NEW n, Longer(M, m, N, n),
         Views(E, R, M), IsFiniteSet(R2), Cardinality(R2) <= Procs,
         View(E, N, n + 1) = R2
  PROVE  Views(E, R2, N)
<1>1. /\ n \in Nat /\ Len(M) = n /\ Len(N) = n + 1
      /\ \A k \in 0 .. n + 1 : k \in 0 .. n \/ k = n + 1
  BY DEF Longer
<1>2. SeenLonger(E, M, m, N, n)
  BY ViewLonger
<1> QED BY <1>1, <1>2, Zenon DEF Views, SeenLonger

\* The host's views keep matching the executor when the host handles a message.
LEMMA ViewsShorter ==
  ASSUME NEW E, NEW R, NEW E2, NEW M, NEW N, NEW n, Shorter(M, N, n), Views(E, R, M),
         SeenShorter(E, E2, M, N, n)
  PROVE  Views(E2, R, N)
<1>1. /\ n \in Nat /\ Len(M) = n + 1 /\ Len(N) = n
      /\ \A k \in 0 .. n : k + 1 \in 0 .. n + 1
      /\ n \in 0 .. n
  BY DEF Shorter
<1> QED BY <1>1, Zenon DEF Views, SeenShorter

\* What the executor has running is what the runner will take to be
\* executing, and its number is bounded.
LEMMA ViewsNow ==
  ASSUME NEW E, NEW R, NEW M \in Seq(Messages), Views(E, R, M)
  PROVE  /\ IsFiniteSet(R) /\ Cardinality(R) <= Procs /\ Cardinality(R) \in Nat
         /\ IsFiniteSet(E) /\ Cardinality(E) <= Procs
<1>1. Len(M) \in Nat /\ Len(M) \in 0 .. Len(M) /\ 0 \in 0 .. Len(M)
  OBVIOUS
<1>2. View(E, M, 0) = E
  BY DEF View
<1>3. IsFiniteSet(R) /\ Cardinality(R) <= Procs /\ IsFiniteSet(E) /\ Cardinality(E) <= Procs
  BY <1>1, <1>2 DEF Views
<1> QED BY <1>3, FS_CardinalityType

-----------------------------------------------------------------------------
(* One connection, step by step.                                           *)

\* The bounds on what a VM may be given are numbers.
LEMMA BoundFacts == Procs \in Nat /\ Depth \in Nat /\ Depth * Procs \in Nat
<1>1. Procs \in Nat /\ Depth \in Nat
  BY RunnerAssumption
<1> QED BY <1>1

\* Removing an id from a small finite set.
LEMMA SmallerSet ==
  ASSUME NEW P, IsFiniteSet(P), Cardinality(P) <= Depth * Procs, NEW id
  PROVE  IsFiniteSet(P \ {id}) /\ Cardinality(P \ {id}) <= Depth * Procs
<1>1. IsFiniteSet(P \ {id}) /\ Cardinality(P \ {id}) <= Cardinality(P)
  BY FS_Subset
<1>2. Cardinality(P \ {id}) \in Nat /\ Cardinality(P) \in Nat
  BY <1>1, FS_CardinalityType
<1> QED BY <1>1, <1>2, BoundFacts

\* A VM without a conversation is in a consistent one.
LEMMA NewChat ==
  ASSUME NEW lp \in {"none", "shake", "ready", "on"}, NEW x
  PROVE  ChatOf(lp, {}, x, {}, {}, {}, {}, {}, <<>>)
<1>1. IsFiniteSet({}) /\ Cardinality({}) = 0
  BY FS_EmptySet
<1>2. <<>> \in Seq(Messages)
  OBVIOUS
<1> QED BY <1>1, <1>2, BoundFacts, TalkEmpty DEF ChatOf

\* Past its loop a connection only has types.
LEMMA ChatOver ==
  ASSUME NEW D, NEW x, NEW E, NEW H, NEW P, NEW R, NEW L, NEW M \in Seq(Messages),
         IsFiniteSet(P), Cardinality(P) <= Depth * Procs
  PROVE  ChatOf("exit", D, x, E, H, P, R, L, M)
BY DEF ChatOf

\* The guard of ConnectionLoop bounds what is pending at the executor.
LEMMA SendBound ==
  ASSUME NEW D, NEW E, NEW P, IsFiniteSet(D), E \subseteq D, P \subseteq D \ E,
         Cardinality(D) - Cardinality(E) < Depth * Procs, NEW id
  PROVE  IsFiniteSet(P \cup {id}) /\ Cardinality(P \cup {id}) <= Depth * Procs
<1>1. D \cap E = E
  OBVIOUS
<1>2. IsFiniteSet(D \ E) /\ Cardinality(D \ E) = Cardinality(D) - Cardinality(E)
  BY <1>1, FS_Difference
<1>3. IsFiniteSet(P) /\ Cardinality(P) <= Cardinality(D \ E)
  BY <1>2, FS_Subset
<1>4. Cardinality(P) \in Nat /\ Cardinality(D \ E) \in Nat
  BY <1>2, <1>3, FS_CardinalityType
<1>5. IsFiniteSet(P \cup {id}) /\ Cardinality(P \cup {id}) <= Cardinality(P) + 1
  <2>1. /\ IsFiniteSet(P \cup {id})
        /\ Cardinality(P \cup {id}) = IF id \in P THEN Cardinality(P)
                                                 ELSE Cardinality(P) + 1
    BY <1>3, FS_AddElement, Zenon
  <2> QED BY <1>4, <2>1
<1>6. Cardinality(P \cup {id}) \in Nat
  BY <1>5, FS_CardinalityType, Zenon
<1> QED BY <1>2, <1>3, <1>4, <1>5, <1>6, BoundFacts, SMTT(30)

\* Sending a request under a fresh id keeps a conversation consistent.
LEMMA ChatSend ==
  ASSUME NEW D, NEW x \in Nat, NEW E, NEW H, NEW P, NEW R, NEW L, NEW M,
         ChatOf("on", D, x, E, H, P, R, L, M), D \subseteq 0 .. x, H \subseteq Nat,
         Cardinality(D) - Cardinality(E) < Depth * Procs
  PROVE  ChatOf("on", D \cup {x + 1}, x + 1, E, H, P \cup {x + 1}, R, L, M)
<1>1. /\ Talk(D, H, E, P, R, L, M) /\ Views(E, R, M) /\ \A id \in H : id <= x
      /\ M \in Seq(Messages)
  BY DEF ChatOf
<1>2. x + 1 \notin D \cup H /\ \A id \in H : id <= x + 1
  BY <1>1
<1>3. Talk(D \cup {x + 1}, H, E, P \cup {x + 1}, R, L, M)
  BY <1>1, <1>2, TalkSend, Zenon
<1>4. IsFiniteSet(0 .. x)
  BY FS_Interval
<1>5. IsFiniteSet(D)
  BY <1>4, FS_Subset, Zenon
<1>6. E \subseteq D /\ P \subseteq D \ E
  BY <1>1 DEF Talk, Ends
<1>7. IsFiniteSet(P \cup {x + 1}) /\ Cardinality(P \cup {x + 1}) <= Depth * Procs
  BY <1>5, <1>6, SendBound, Zenon
<1> QED BY <1>1, <1>2, <1>3, <1>7, Zenon DEF ChatOf

\* What a message m of the executor leads to, if it changes what is pending,
\* running and reported hanged to P2, R2, L2.
Said(D, E, H, M, m, N, P2, R2, L2) ==
  /\ \A n : Longer(M, m, N, n) => /\ Talk(D, H, E, P2, R2, L2, N)
                                  /\ View(E, N, n + 1) = R2
  /\ IsFiniteSet(R2) /\ Cardinality(R2) <= Procs

\* An executor's message keeps its conversation consistent, whichever it is.
LEMMA ChatSays ==
  ASSUME NEW lp \in {"on", "exit"}, NEW D, NEW x, NEW E, NEW H, NEW P, NEW R, NEW L,
         NEW M, ChatOf(lp, D, x, E, H, P, R, L, M), NEW m \in Messages, NEW N,
         N = Append(M, m), NEW P2, NEW R2, NEW L2,
         P2 = P \/ \E id : P2 = P \ {id},
         lp = "on" => Said(D, E, H, M, m, N, P2, R2, L2)
  PROVE  ChatOf(lp, D, x, E, H, P2, R2, L2, N)
<1>1. /\ M \in Seq(Messages) /\ IsFiniteSet(P) /\ Cardinality(P) <= Depth * Procs
  BY DEF ChatOf
<1>2. IsFiniteSet(P2) /\ Cardinality(P2) <= Depth * Procs
  BY <1>1, SmallerSet, Zenon
<1>3. N \in Seq(Messages)
  BY <1>1, AppendMessage
<1>4. PICK n : Longer(M, m, N, n)
  BY <1>1, AppendMessage, Zenon
<1>5. CASE lp = "exit"
  BY <1>2, <1>3, <1>5, ChatOver, Zenon
<1>6. CASE lp = "on"
  <2>1. Views(E, R, M) /\ \A id \in H : id <= x
    BY <1>6, Zenon DEF ChatOf
  <2>2. Views(E, R2, N)
    BY <1>4, <1>6, <2>1, ViewsLonger, Zenon DEF Said
  <2> QED BY <1>2, <1>3, <1>4, <1>6, <2>1, <2>2, Zenon DEF ChatOf, Said
<1> QED BY <1>5, <1>6, Zenon

\* ExecStart, ExecNeverStarts, ExecAgain, ExecFinish and ExecLate.
LEMMA ChatStart ==
  ASSUME NEW lp \in {"on", "exit"}, NEW D, NEW x, NEW E, NEW H, NEW P, NEW R, NEW L,
         NEW M, ChatOf(lp, D, x, E, H, P, R, L, M), NEW id \in P, id \in Nat, NEW N,
         N = Append(M, Executing(id)), Cardinality(R) < Procs
  PROVE  ChatOf(lp, D, x, E, H, P \ {id}, R \cup {id}, L, N)
<1>1. PICK m \in Messages : m = Executing(id) /\ m.type = "executing" /\ m.id = id
  BY MadeMessages
<1>2. PICK P3, R3, L3 : P3 = P \ {id} /\ R3 = R \cup {id} /\ L3 = L
  BY Zenon
<1>3. ASSUME lp = "on" PROVE Said(D, E, H, M, m, N, P3, R3, L3)
  <2>1. Talk(D, H, E, P, R, L, M) /\ Views(E, R, M) /\ M \in Seq(Messages)
    BY <1>3, Zenon DEF ChatOf
  <2>2. \A i \in DOMAIN M : M[i].id # id
    BY <2>1, Zenon DEF Talk, Tells
  <2>3. ASSUME NEW n, Longer(M, m, N, n)
        PROVE  /\ Talk(D, H, E, P \ {id}, R \cup {id}, L, N)
               /\ View(E, N, n + 1) = R \cup {id}
    <3>1. Talk(D, H, E, P \ {id}, R \cup {id}, L, N)
      BY <1>1, <2>1, <2>3, TalkStart, Zenon
    <3>2. View(E, N, n + 1) = View(E, M, n) \cup {id}
      <4>1. SeenLonger(E, M, m, N, n)
        BY <2>3, ViewLonger, Zenon
      <4> QED BY <1>1, <2>2, <4>1, Zenon DEF SeenLonger
    <3> QED BY <2>1, <2>3, <3>1, <3>2, Zenon DEF Views, Longer
  <2>4. IsFiniteSet(R) /\ Cardinality(R) \in Nat
    BY <2>1, ViewsNow, Zenon
  <2>5. /\ IsFiniteSet(R \cup {id})
        /\ Cardinality(R \cup {id}) = IF id \in R THEN Cardinality(R)
                                                 ELSE Cardinality(R) + 1
    BY <2>4, FS_AddElement, Zenon
  <2>6. IsFiniteSet(R3) /\ Cardinality(R3) <= Procs
    BY <1>2, <2>4, <2>5, BoundFacts, SMTT(30)
  <2> QED BY <1>2, <2>3, <2>6, Zenon DEF Said
<1>4. P3 = P \/ \E k : P3 = P \ {k}
  BY <1>2, Zenon
<1>5. ChatOf(lp, D, x, E, H, P3, R3, L3, N)
  BY <1>1, <1>3, <1>4, ChatSays, Zenon
<1> QED BY <1>2, <1>5

\* The executor answers id: what is left pending, running and hanged.
Answers(id, status, P, R, L, P2, R2, L2) ==
  \/ id \in P /\ P2 = P \ {id} /\ R2 = R /\ L2 = L
  \/ /\ id \in R /\ P2 = P /\ R2 = R \ {id}
     /\ L2 = L \/ (status = "Hanged" /\ L2 = L \cup {id})
  \/ id \in L /\ P2 = P /\ R2 = R /\ L2 = L \ {id} /\ status = "Success"

\* The same for an answer.
LEMMA ChatResult ==
  ASSUME NEW lp \in {"on", "exit"}, NEW D, NEW x, NEW E, NEW H, NEW P, NEW R, NEW L,
         NEW M, ChatOf(lp, D, x, E, H, P, R, L, M), NEW m \in Messages,
         m.type = "result", NEW P2, NEW R2, NEW L2,
         Answers(m.id, m.status, P, R, L, P2, R2, L2)
  PROVE  ChatOf(lp, D, x, E, H, P2, R2, L2, Append(M, m))
<1>1. PICK id, status, N : id = m.id /\ status = m.status /\ N = Append(M, m)
  BY Zenon
<1>2. PICK P3, R3, L3 : P3 = P2 /\ R3 = R2 /\ L3 = L2
  OBVIOUS
<1>3. ASSUME lp = "on" PROVE Said(D, E, H, M, m, N, P3, R3, L3)
  <2>1. Talk(D, H, E, P, R, L, M) /\ Views(E, R, M) /\ M \in Seq(Messages)
    BY <1>3, Zenon DEF ChatOf
  <2>2. R2 = R \ {id}
    BY <1>1, <2>1, Zenon DEF Talk, Ends, Answers
  <2>3. ASSUME NEW n, Longer(M, m, N, n)
        PROVE  /\ Talk(D, H, E, P2, R2, L2, N)
               /\ View(E, N, n + 1) = R2
    <3>1. Talk(D, H, E, P2, R2, L2, N)
      <4>1. CASE id \in P /\ P2 = P \ {id} /\ R2 = R /\ L2 = L
        BY <1>1, <2>1, <2>2, <2>3, <4>1, TalkNeverStarts, Zenon
      <4>2. CASE /\ id \in R /\ P2 = P /\ R2 = R \ {id}
                 /\ L2 = L \/ (status = "Hanged" /\ L2 = L \cup {id})
        BY <1>1, <2>1, <2>3, <4>2, TalkFinish, Zenon
      <4>3. CASE id \in L /\ P2 = P /\ R2 = R /\ L2 = L \ {id} /\ status = "Success"
        BY <1>1, <2>1, <2>2, <2>3, <4>3, TalkLate, Zenon
      <4> QED BY <1>1, <4>1, <4>2, <4>3, SMTT(30) DEF Answers
    <3>2. View(E, N, n + 1) = View(E, M, n) \ {id}
      <4>1. SeenLonger(E, M, m, N, n)
        BY <2>3, ViewLonger, Zenon
      <4> QED BY <1>1, <4>1, Zenon DEF SeenLonger
    <3> QED BY <2>1, <2>2, <2>3, <3>1, <3>2, Zenon DEF Views, Longer
  <2>4. IsFiniteSet(R) /\ Cardinality(R) <= Procs /\ Cardinality(R) \in Nat
    BY <2>1, ViewsNow, Zenon
  <2>5. IsFiniteSet(R \ {id}) /\ Cardinality(R \ {id}) <= Cardinality(R)
    BY <2>4, FS_Subset, Zenon
  <2>6. Cardinality(R \ {id}) \in Nat
    BY <2>5, FS_CardinalityType, Zenon
  <2>7. IsFiniteSet(R3) /\ Cardinality(R3) <= Procs
    BY <1>2, <2>2, <2>4, <2>5, <2>6, BoundFacts, SMTT(30)
  <2> QED BY <1>2, <2>3, <2>7, Zenon DEF Said
<1>4. P3 = P \/ \E k : P3 = P \ {k}
  BY <1>2, SMTT(30) DEF Answers
<1>5. ChatOf(lp, D, x, E, H, P3, R3, L3, N)
  BY <1>1, <1>3, <1>4, ChatSays, Zenon
<1> QED BY <1>1, <1>2, <1>5

\* The same for a repeated announcement.
LEMMA ChatAgain ==
  ASSUME NEW lp \in {"on", "exit"}, NEW D, NEW x, NEW E, NEW H, NEW P, NEW R, NEW L,
         NEW M, ChatOf(lp, D, x, E, H, P, R, L, M), NEW id \in R, id \in Nat, NEW N,
         N = Append(M, Executing(id))
  PROVE  ChatOf(lp, D, x, E, H, P, R, L, N)
<1>1. PICK m \in Messages : m = Executing(id) /\ m.type = "executing" /\ m.id = id
  BY MadeMessages
<1>2. PICK P3, R3, L3 : P3 = P /\ R3 = R /\ L3 = L
  BY Zenon
<1>3. ASSUME lp = "on" PROVE Said(D, E, H, M, m, N, P3, R3, L3)
  <2>1. Talk(D, H, E, P, R, L, M) /\ Views(E, R, M) /\ M \in Seq(Messages)
    BY <1>3, SMTT(30) DEF ChatOf
  <2>2. \A i \in DOMAIN M : M[i].id = id => M[i].type # "result"
    BY <2>1, Zenon DEF Talk, Tells
  <2>3. ASSUME NEW n, Longer(M, m, N, n)
        PROVE  Talk(D, H, E, P, R, L, N) /\ View(E, N, n + 1) = R
    <3>1. Talk(D, H, E, P, R, L, N)
      BY <1>1, <2>1, <2>3, TalkAgain
    <3>2. View(E, N, n + 1) = View(E, M, n) \cup {id}
      <4>1. SeenLonger(E, M, m, N, n)
        BY <2>3, ViewLonger
      <4> QED BY <1>1, <2>2, <4>1, Zenon DEF SeenLonger
    <3> QED BY <2>1, <2>3, <3>1, <3>2, Zenon DEF Views, Longer
  <2> QED BY <1>2, <2>1, <2>3, ViewsNow, Zenon DEF Said
<1>4. P3 = P \/ \E k : P3 = P \ {k}
  BY <1>2, Zenon
<1>5. ChatOf(lp, D, x, E, H, P3, R3, L3, N)
  BY <1>1, <1>3, <1>4, ChatSays, Zenon
<1> QED BY <1>2, <1>5, Zenon

\* HandleExecuting: the id is known.
LEMMA ChatExecuting ==
  ASSUME NEW D, NEW x, NEW E, NEW H, NEW P, NEW R, NEW L, NEW M,
         ChatOf("on", D, x, E, H, P, R, L, M), M # <<>>, NEW N, N = Tail(M),
         NEW id, id = Head(M).id, Head(M).type = "executing"
  PROVE  id \in D /\ ChatOf("on", D, x, E \cup {id}, H, P, R, L, N)
<1>1. /\ Talk(D, H, E, P, R, L, M) /\ Views(E, R, M) /\ \A i \in H : i <= x
      /\ M \in Seq(Messages) /\ IsFiniteSet(P) /\ Cardinality(P) <= Depth * Procs
  BY Zenon DEF ChatOf
<1>2. N \in Seq(Messages) /\ Head(M) = M[1]
  BY <1>1, TailMessage, Zenon
<1>3. PICK n : Shorter(M, N, n)
  BY <1>1, TailMessage, Zenon
<1>4. id \in D /\ Talk(D, H, E \cup {id}, P, R, L, N)
  BY <1>1, <1>2, <1>3, TalkExecuting, Zenon
<1>5. PICK E2 : E2 = E \cup {id}
  BY Zenon
<1>6. SeenShorter(E, E2, M, N, n)
  BY <1>2, <1>3, <1>5, ViewShorter, Zenon
<1>7. Views(E2, R, N)
  BY <1>1, <1>3, <1>6, ViewsShorter, Zenon
<1> QED BY <1>1, <1>2, <1>4, <1>5, <1>7, Zenon DEF ChatOf

\* HandleResult of an id the runner has no request for: it is remembered as
\* hanged.
LEMMA ChatLateResult ==
  ASSUME NEW D, NEW x, NEW E, NEW H, NEW P, NEW R, NEW L, NEW M,
         ChatOf("on", D, x, E, H, P, R, L, M), M # <<>>,
         Head(M).type = "result", Head(M).id \notin D
  PROVE  /\ Head(M).id \in H
         /\ ChatOf("on", D, x, E, H \ {Head(M).id}, P, R, L, Tail(M))
<1>0. PICK id, N : id = Head(M).id /\ N = Tail(M)
  BY Zenon
<1>1. /\ Talk(D, H, E, P, R, L, M) /\ Views(E, R, M) /\ \A i \in H : i <= x
      /\ M \in Seq(Messages) /\ IsFiniteSet(P) /\ Cardinality(P) <= Depth * Procs
  BY DEF ChatOf
<1>2. N \in Seq(Messages) /\ Head(M) = M[1]
  BY <1>0, <1>1, TailMessage
<1>3. PICK n : Shorter(M, N, n)
  BY <1>0, <1>1, TailMessage, Zenon
<1>4. id \in H /\ Talk(D, H \ {id}, E, P, R, L, N)
  BY <1>0, <1>1, <1>2, <1>3, TalkLateResult, Zenon
<1>5. E = E \ {id}
  BY <1>0, <1>1 DEF Talk, Ends
<1>6. \A i \in DOMAIN N : N[i].id = id => N[i].type = "result"
  <2>1. \A i \in DOMAIN N : N[i].id \in D \cup (H \ {id})
    BY <1>4, Zenon DEF Talk, Tells
  <2> QED BY <1>0, <2>1, Zenon
<1>7. SeenShorter(E, E, M, N, n)
  BY <1>0, <1>2, <1>3, <1>5, <1>6, ViewShorter, Zenon
<1>8. Views(E, R, N)
  BY <1>0, <1>1, <1>3, <1>7, ViewsShorter, Zenon
<1> QED BY <1>0, <1>1, <1>2, <1>4, <1>8, Zenon DEF ChatOf

\* HandleResult of a request the runner holds.
LEMMA ChatAnswered ==
  ASSUME NEW D, NEW x, NEW E, NEW H, NEW P, NEW R, NEW L, NEW M,
         ChatOf("on", D, x, E, H, P, R, L, M), M # <<>>, NEW N, N = Tail(M),
         NEW id \in D, id = Head(M).id, Head(M).type = "result", id <= x,
         NEW H2, H2 = IF Head(M).status = "Hanged" THEN H \cup {id} ELSE H
  PROVE  ChatOf("on", D \ {id}, x, E \ {id}, H2, P, R, L, N)
<1>1. /\ Talk(D, H, E, P, R, L, M) /\ Views(E, R, M) /\ \A i \in H : i <= x
      /\ M \in Seq(Messages) /\ IsFiniteSet(P) /\ Cardinality(P) <= Depth * Procs
  BY DEF ChatOf
<1>2. N \in Seq(Messages) /\ Head(M) = M[1]
  BY <1>1, TailMessage, SMTT(30)
<1>3. PICK n : Shorter(M, N, n)
  BY <1>1, TailMessage, Zenon
<1>4. Talk(D \ {id}, H2, E \ {id}, P, R, L, N)
  BY <1>1, <1>2, <1>3, TalkResult, Zenon
<1>5. \A i \in DOMAIN N : N[i].id = id => N[i].type = "result"
  BY <1>4, Zenon DEF Talk, Tells
<1>6. PICK E2 : E2 = E \ {id}
  BY Zenon
<1>7. SeenShorter(E, E2, M, N, n)
  BY <1>2, <1>3, <1>5, <1>6, ViewShorter, Zenon
<1>8. Views(E2, R, N)
  BY <1>1, <1>3, <1>7, ViewsShorter, Zenon
<1>9. \A i \in H2 : i <= x
  BY <1>1
<1> QED BY <1>1, <1>2, <1>4, <1>6, <1>8, <1>9, Zenon DEF ChatOf

-----------------------------------------------------------------------------
(* Every connection, step by step.                                         *)

SameChat(w) ==
  /\ loop'[w] = loop[w] /\ requests'[w] = requests[w] /\ nextID'[w] = nextID[w]
  /\ executing'[w] = executing[w] /\ hanged'[w] = hanged[w] /\ pending'[w] = pending[w]
  /\ running'[w] = running[w] /\ late'[w] = late[w] /\ toHost'[w] = toHost[w]

\* A step of the connection of v, which leaves it as given.
Turn(v, lp, D, x, E, H, P, R, L, M) ==
  /\ loop'[v] = lp /\ DOMAIN requests'[v] = D /\ nextID'[v] = x
  /\ executing'[v] = E /\ hanged'[v] = H /\ pending'[v] = P
  /\ running'[v] = R /\ late'[v] = L /\ toHost'[v] = M
  /\ \A w \in VMs \ {v} : SameChat(w)

\* A step of one VM that leaves its conversation consistent leaves all of them so.
LEMMA ChatTurn ==
  ASSUME Chats, ChatTypes', NEW v \in VMs, NEW lp, NEW D, NEW x, NEW E, NEW H, NEW P,
         NEW R, NEW L, NEW M, Turn(v, lp, D, x, E, H, P, R, L, M),
         ChatOf(lp, D, x, E, H, P, R, L, M)
  PROVE  Chats'
<1>1. ASSUME NEW w \in VMs PROVE Chat(w)'
  <2>1. CASE w = v
    BY <2>1, Zenon DEF Turn, Chat
  <2>2. CASE w # v
    <3>1. SameChat(w) /\ Chat(w)
      BY <2>2, Zenon DEF Turn, Chats
    <3> QED BY <3>1, Zenon DEF SameChat, Chat
  <2> QED BY <2>1, <2>2, Zenon
<1> QED BY <1>1 DEF Chats

\* A step that touches no connection keeps the conversations.
LEMMA SameChats ==
  ASSUME Chats, UNCHANGED <<loop, requests, nextID, executing, hanged, execVars>>
  PROVE  Chats'
BY Zenon DEF Chats, ChatTypes, Chat, execVars

\* The connection of v now.
LEMMA ChatNow ==
  ASSUME Chats, NEW v \in VMs
  PROVE  /\ ChatOf(loop[v], DOMAIN requests[v], nextID[v], executing[v], hanged[v],
                   pending[v], running[v], late[v], toHost[v])
         /\ loop[v] \in {"none", "shake", "ready"} =>
              /\ DOMAIN requests[v] = {} /\ executing[v] = {} /\ hanged[v] = {}
              /\ pending[v] = {} /\ running[v] = {} /\ late[v] = {} /\ toHost[v] = <<>>
         /\ toHost[v] \in Seq(Messages)
         /\ IsFiniteSet(pending[v]) /\ Cardinality(pending[v]) <= Depth * Procs
BY Zenon DEF Chats, Chat, ChatOf

\* Creating an instance keeps the conversations.
LEMMA CreateInstanceChats ==
  ASSUME RInv, Chats, NEW v \in VMs, CreateInstance(v)
  PROVE  Chats'
<1>1. Turn(v, "none", {}, 0, {}, {}, {}, {}, {}, <<>>)
  BY EmptyMapFacts, Zenon DEF RInv, Types, Chats, ChatTypes, CreateInstance, Turn, SameChat
<1>2. ChatTypes'
  BY SMTT(30) DEF Chats, ChatTypes, CreateInstance
<1> QED BY <1>1, <1>2, ChatTurn, NewChat, Zenon

\* Only the loop's place changes.
LEMMA LoopChats ==
  ASSUME RInv, Chats, NEW v \in VMs, NEW lp, loop' = [loop EXCEPT ![v] = lp],
         UNCHANGED <<requests, nextID, executing, hanged, execVars>>,
         \/ lp = "exit"
         \/ lp \in {"shake", "ready", "on"} /\ loop[v] \in {"none", "shake", "ready"}
  PROVE  Chats'
<1>1. Turn(v, lp, DOMAIN requests[v], nextID[v], executing[v], hanged[v], pending[v],
           running[v], late[v], toHost[v])
  BY SMTT(30) DEF RInv, Types, Turn, SameChat, execVars
<1>2. ChatTypes'
  BY SMTT(30) DEF Chats, ChatTypes, execVars
<1>3. ChatOf(lp, DOMAIN requests[v], nextID[v], executing[v], hanged[v], pending[v],
             running[v], late[v], toHost[v])
  <2>1. CASE lp = "exit"
    BY <2>1, ChatNow, ChatOver, Zenon
  <2>2. CASE lp \in {"shake", "ready", "on"} /\ loop[v] \in {"none", "shake", "ready"}
    <3>1. ChatOf(lp, {}, nextID[v], {}, {}, {}, {}, {}, <<>>)
      BY <2>2, NewChat, Zenon
    <3> QED BY <2>2, <3>1, ChatNow, Zenon
  <2> QED BY <2>1, <2>2, Zenon
<1> QED BY <1>1, <1>2, <1>3, ChatTurn, Zenon

\* Draining a dead connection keeps the conversations.
LEMMA DrainOneChats ==
  ASSUME RInv, Chats, NEW v \in VMs, DrainOne(v)
  PROVE  Chats'
<1>1. PICK id \in DOMAIN requests[v] : requests' = [requests EXCEPT ![v] = Forget(@, id)]
  BY Zenon DEF DrainOne
<1>2. loop[v] = "exit"
  BY <1>1, ChatNow, Zenon DEF DrainOne, RInv, Types, Phases
<1>3. Turn(v, "exit", DOMAIN requests'[v], nextID[v], executing[v], hanged[v], pending[v],
           running[v], late[v], toHost[v])
  BY <1>1, <1>2, Zenon DEF RInv, Types, Turn, SameChat, DrainOne, execVars
<1>4. ChatTypes'
  BY Zenon DEF Chats, ChatTypes, DrainOne, execVars
<1>5. ChatOf("exit", DOMAIN requests'[v], nextID[v], executing[v], hanged[v], pending[v],
             running[v], late[v], toHost[v])
  BY ChatNow, ChatOver, Zenon
<1> QED BY <1>3, <1>4, <1>5, ChatTurn, Zenon

\* sendRequest keeps the conversations.
LEMMA SendRequestChats ==
  ASSUME RInv, Chats, NEW v \in VMs, SendRequest(v)
  PROVE  Chats'
<1>1. PICK x \in Nat : x = nextID[v]
  BY Zenon DEF RInv, Types
<1>2. requests[v] \in Maps /\ DOMAIN requests[v] \subseteq 0 .. x /\ hanged[v] \subseteq Nat
  BY <1>1, MapFacts, SMTT(30) DEF RInv, Types, Phases, Chats, ChatTypes
<1>3. PICK m : requests' = [requests EXCEPT ![v] = m]
                /\ DOMAIN m = DOMAIN requests[v] \cup {x + 1}
  <2>1. PICK r \in Requests \ Unencodable :
          requests' = [requests EXCEPT ![v] =
            [i \in DOMAIN @ \cup {nextID[v] + 1} |->
               IF i = nextID[v] + 1 THEN r ELSE @[i]]]
    BY Zenon DEF SendRequest
  <2>2. PICK m : m = [i \in DOMAIN requests[v] \cup {nextID[v] + 1} |->
                        IF i = nextID[v] + 1 THEN r ELSE requests[v][i]]
    BY Zenon
  <2>3. DOMAIN m = DOMAIN requests[v] \cup {x + 1}
    BY <1>1, <2>2, Zenon
  <2> QED BY <2>1, <2>2, <2>3, Zenon
<1>4. DOMAIN requests'[v] = DOMAIN requests[v] \cup {x + 1}
  BY <1>3, SMTT(30) DEF RInv, Types
<1>5. CASE conn[v] = "open"
  <2>1. ChatOf("on", DOMAIN requests[v] \cup {x + 1}, x + 1, executing[v], hanged[v],
               pending[v] \cup {x + 1}, running[v], late[v], toHost[v])
    <3>1. ChatOf("on", DOMAIN requests[v], x, executing[v], hanged[v], pending[v], running[v],
                 late[v], toHost[v])
      BY <1>1, ChatNow, Zenon DEF SendRequest
    <3>2. Cardinality(DOMAIN requests[v]) - Cardinality(executing[v]) < Depth * Procs
      BY Zenon DEF SendRequest, MayTake
    <3> QED BY <1>2, <3>1, <3>2, ChatSend, Zenon
  <2>2. Turn(v, "on", DOMAIN requests[v] \cup {x + 1}, x + 1, executing[v], hanged[v],
             pending[v] \cup {x + 1}, running[v], late[v], toHost[v])
    BY <1>1, <1>3, <1>4, <1>5, SMTT(30)
       DEF RInv, Types, Chats, ChatTypes, Turn, SameChat, SendRequest
  <2>3. ChatTypes'
    BY <1>1, <1>5, SMTT(30) DEF Chats, ChatTypes, SendRequest
  <2> QED BY <2>1, <2>2, <2>3, ChatTurn, Zenon
<1>6. CASE conn[v] # "open"
  <2>1. ChatOf("exit", DOMAIN requests[v] \cup {x + 1}, x + 1, executing[v], hanged[v],
               pending[v], running[v], late[v], toHost[v])
    BY ChatNow, ChatOver, Zenon
  <2>2. Turn(v, "exit", DOMAIN requests[v] \cup {x + 1}, x + 1, executing[v], hanged[v],
             pending[v], running[v], late[v], toHost[v])
    BY <1>1, <1>3, <1>4, <1>6, Zenon
       DEF RInv, Types, Chats, ChatTypes, Turn, SameChat, SendRequest
  <2>3. ChatTypes'
    BY <1>6, SMTT(30) DEF Chats, ChatTypes, SendRequest
  <2> QED BY <2>1, <2>2, <2>3, ChatTurn, Zenon
<1> QED BY <1>5, <1>6, Zenon

\* A request rejected before it is sent keeps the conversations.
LEMMA RejectRequestChats ==
  ASSUME RInv, Chats, NEW v \in VMs, RejectRequest(v)
  PROVE  Chats'
<1>1. PICK x \in Nat : x = nextID[v]
  BY DEF RInv, Types
<1>2. ChatOf("on", DOMAIN requests[v], x, executing[v], hanged[v], pending[v], running[v],
             late[v], toHost[v])
  BY <1>1, ChatNow, Zenon DEF RejectRequest
<1>3. \A id \in hanged[v] : id \in Nat /\ (id <= x => id <= x + 1)
  BY SMTT(30) DEF Chats, ChatTypes
<1>4. ChatOf("on", DOMAIN requests[v], x + 1, executing[v], hanged[v], pending[v],
             running[v], late[v], toHost[v])
  BY <1>2, <1>3, Zenon DEF ChatOf
<1>5. Turn(v, "on", DOMAIN requests[v], x + 1, executing[v], hanged[v], pending[v],
           running[v], late[v], toHost[v])
  BY <1>1, Zenon DEF RInv, Types, Turn, SameChat, RejectRequest, execVars
<1>6. ChatTypes'
  BY SMTT(30) DEF Chats, ChatTypes, RejectRequest, execVars
<1> QED BY <1>4, <1>5, <1>6, ChatTurn, Zenon

\* handleExecutingMessage keeps the conversations.
LEMMA HandleExecutingChats ==
  ASSUME RInv, Chats, NEW v \in VMs, HandleExecuting(v)
  PROVE  Chats'
<1>1. PICK id : id = Head(toHost[v]).id
  OBVIOUS
<1>2. PICK N : N = Tail(toHost[v])
  BY Zenon
<1>3. /\ id \in DOMAIN requests[v]
      /\ ChatOf("on", DOMAIN requests[v], nextID[v], executing[v] \cup {id}, hanged[v],
                pending[v], running[v], late[v], N)
  <2>1. /\ loop[v] = "on" /\ toHost[v] # <<>> /\ Head(toHost[v]).type = "executing"
    BY Zenon DEF HandleExecuting, Receives
  <2>2. ChatOf("on", DOMAIN requests[v], nextID[v], executing[v], hanged[v], pending[v],
               running[v], late[v], toHost[v])
    BY <2>1, ChatNow, Zenon
  <2> QED BY <1>1, <1>2, <2>1, <2>2, ChatExecuting, Zenon
<1>4. /\ id \in Nat /\ N \in Seq(Messages)
  BY <1>2, <1>3, MapFacts, Zenon DEF RInv, Types, ChatOf
<1>5. /\ toHost' = [toHost EXCEPT ![v] = N]
      /\ executing' = [executing EXCEPT ![v] = @ \cup {id}]
      /\ loop' = [loop EXCEPT ![v] = @]
      /\ loop[v] = "on"
  BY <1>1, <1>2, <1>3, SMTT(30) DEF HandleExecuting, Receives, Unknown
<1>6. Turn(v, "on", DOMAIN requests[v], nextID[v], executing[v] \cup {id}, hanged[v],
           pending[v], running[v], late[v], N)
  BY <1>5, Zenon DEF RInv, Types, Chats, ChatTypes, Turn, SameChat, HandleExecuting
<1>7. ChatTypes'
  BY <1>4, <1>5 DEF Chats, ChatTypes, HandleExecuting
<1> QED BY <1>3, <1>6, <1>7, ChatTurn, Zenon

\* handleExecResult keeps the conversations.
LEMMA HandleResultChats ==
  ASSUME RInv, Chats, NEW v \in VMs, HandleResult(v)
  PROVE  Chats'
<1>1. PICK id : id = Head(toHost[v]).id
  OBVIOUS
<1>2. PICK N : N = Tail(toHost[v])
  BY Zenon
<1>3. /\ toHost' = [toHost EXCEPT ![v] = N]
      /\ loop[v] = "on" /\ toHost[v] # <<>> /\ Head(toHost[v]).type = "result"
      /\ UNCHANGED <<nextID, pending, running, late>>
      /\ loop' = [loop EXCEPT ![v] = IF Unknown(v, id) THEN "exit" ELSE @]
  BY <1>1, <1>2, Zenon DEF HandleResult, Receives
<1>4. ChatOf("on", DOMAIN requests[v], nextID[v], executing[v], hanged[v], pending[v],
             running[v], late[v], toHost[v])
  BY <1>3, ChatNow, Zenon
<1>5. N \in Seq(Messages)
  BY <1>2, <1>3, <1>4, TailMessage, Zenon DEF ChatOf
<1>6. CASE id \in DOMAIN requests[v]
  <2>1. PICK H2 : H2 = IF Head(toHost[v]).status = "Hanged" THEN hanged[v] \cup {id}
                                                            ELSE hanged[v]
    BY Zenon
  <2>2. /\ requests' = [requests EXCEPT ![v] = Forget(@, id)]
        /\ executing' = [executing EXCEPT ![v] = @ \ {id}]
        /\ hanged' = IF Remembered(Head(toHost[v]).status)
                       THEN [hanged EXCEPT ![v] = @ \cup {id}] ELSE hanged
        /\ ~Unknown(v, id)
    BY <1>1, <1>6, Zenon DEF HandleResult, Unknown
  <2>3. DOMAIN Forget(requests[v], id) = DOMAIN requests[v] \ {id}
    BY Zenon DEF Forget
  <2>4. id <= nextID[v] /\ id \in Nat
    BY <1>6, MapFacts, SMTT(30) DEF RInv, Types, Phases
  <2>5. ChatOf("on", DOMAIN requests[v] \ {id}, nextID[v], executing[v] \ {id}, H2,
               pending[v], running[v], late[v], N)
    BY <1>1, <1>2, <1>3, <1>4, <1>6, <2>1, <2>4, ChatAnswered, Zenon
  <2>6. hanged' = [hanged EXCEPT ![v] = H2]
    BY <2>1, <2>2, Zenon DEF Remembered, Chats, ChatTypes
  <2>7. Turn(v, "on", DOMAIN requests[v] \ {id}, nextID[v], executing[v] \ {id}, H2,
             pending[v], running[v], late[v], N)
    BY <1>3, <2>2, <2>3, <2>6, Zenon DEF RInv, Types, Chats, ChatTypes, Turn, SameChat
  <2>8. H2 \subseteq Nat
    BY <2>1, <2>4, Zenon DEF Chats, ChatTypes
  <2>9. ChatTypes'
    BY <1>3, <1>5, <2>2, <2>6, <2>8, Zenon DEF Chats, ChatTypes
  <2> QED BY <2>5, <2>7, <2>9, ChatTurn, Zenon
<1>7. CASE id \notin DOMAIN requests[v]
  <2>1. /\ hanged' = [hanged EXCEPT ![v] = @ \ {id}]
        /\ UNCHANGED <<requests, executing>>
    BY <1>1, <1>7, Zenon DEF HandleResult
  <2>2. /\ id \in hanged[v]
        /\ ChatOf("on", DOMAIN requests[v], nextID[v], executing[v], hanged[v] \ {id},
                  pending[v], running[v], late[v], N)
    BY ONLY <1>1, <1>2, <1>3, <1>4, <1>7, ChatLateResult, Zenon
  <2>3. ~Unknown(v, id)
    BY <2>2, Zenon DEF Unknown
  <2>4. Turn(v, "on", DOMAIN requests[v], nextID[v], executing[v], hanged[v] \ {id},
             pending[v], running[v], late[v], N)
    BY <1>3, <2>1, <2>3, Zenon DEF RInv, Types, Chats, ChatTypes, Turn, SameChat
  <2>5. ChatTypes'
    BY <1>3, <1>5, <2>1, Zenon DEF Chats, ChatTypes
  <2> QED BY <2>2, <2>4, <2>5, ChatTurn, Zenon
<1> QED BY <1>6, <1>7, Zenon

\* A message of the executor, which leaves P pending, R running and L
\* reported hanged.
Leaves(v, m, P, R, L) ==
  /\ P \subseteq Nat /\ R \subseteq Nat /\ L \subseteq Nat
  /\ pending' = [pending EXCEPT ![v] = P]
  /\ running' = [running EXCEPT ![v] = R]
  /\ late' = [late EXCEPT ![v] = L]
  /\ Send(v, m) /\ UNCHANGED loopVars

Says(v, P, R, L, N) ==
  ChatOf(loop[v], DOMAIN requests[v], nextID[v], executing[v], hanged[v], P, R, L, N)

\* An executor's step that sends one message keeps the conversations.
LEMMA ExecutorChats ==
  ASSUME RInv, Chats, NEW v \in VMs, NEW m \in Messages, NEW P, NEW R, NEW L,
         Leaves(v, m, P, R, L), Says(v, P, R, L, Append(toHost[v], m))
  PROVE  Chats'
<1>0. PICK N : N = Append(toHost[v], m)
  BY Zenon
<1>1. N \in Seq(Messages)
  BY <1>0, Zenon DEF Says, ChatOf
<1>2. toHost' = [toHost EXCEPT ![v] = N]
  BY <1>0, SMTT(30) DEF Leaves, Send
<1>3. Turn(v, loop[v], DOMAIN requests[v], nextID[v], executing[v], hanged[v], P, R, L, N)
  BY <1>2, Zenon DEF Chats, ChatTypes, Turn, SameChat, Leaves, loopVars
<1>4. ChatTypes'
  BY <1>1, <1>2, Zenon DEF Chats, ChatTypes, Leaves, loopVars
<1> QED BY <1>0, <1>3, <1>4, ChatTurn, Zenon DEF Says

\* Every step of an executor keeps the conversations.
LEMMA ExecStepChats ==
  ASSUME RInv, Chats, NEW v \in VMs, Executor(v)
  PROVE  Chats'
<1>1. /\ Says(v, pending[v], running[v], late[v], toHost[v])
      /\ pending[v] \subseteq Nat /\ running[v] \subseteq Nat /\ late[v] \subseteq Nat
      /\ pending = [pending EXCEPT ![v] = pending[v]]
      /\ running = [running EXCEPT ![v] = running[v]]
      /\ late = [late EXCEPT ![v] = late[v]]
  BY ChatNow, Zenon DEF Chats, ChatTypes, Says
<1>2. pending[v] # {} \/ running[v] # {} \/ late[v] # {} => loop[v] \in {"on", "exit"}
  BY ChatNow, Zenon DEF RInv, Types
<1>3. CASE ExecStart(v)
  <2>1. PICK id \in pending[v] :
          /\ pending' = [pending EXCEPT ![v] = @ \ {id}]
          /\ running' = [running EXCEPT ![v] = @ \cup {id}]
          /\ Send(v, Executing(id))
    BY <1>3, Zenon DEF ExecStart
  <2>2. PICK P, R, N : /\ P = pending[v] \ {id} /\ R = running[v] \cup {id}
                       /\ N = Append(toHost[v], Executing(id))
    BY Zenon
  <2>3. Says(v, P, R, late[v], N)
    BY <1>1, <1>2, <1>3, <2>2, ChatStart, Zenon DEF Says, ExecStart
  <2>4. PICK m \in Messages : m = Executing(id)
    BY <1>1, MadeMessages, Zenon
  <2>5. Leaves(v, m, P, R, late[v])
    BY <1>1, <1>3, <2>1, <2>2, <2>4, Zenon DEF Leaves, ExecStart
  <2> QED BY <2>2, <2>3, <2>4, <2>5, ExecutorChats, Zenon
<1>4. CASE ExecNeverStarts(v)
  <2>1. PICK id \in pending[v] :
          /\ pending' = [pending EXCEPT ![v] = @ \ {id}]
          /\ Send(v, Result(id, "ExecFailure"))
    BY <1>4, Zenon DEF ExecNeverStarts
  <2>2. PICK P : P = pending[v] \ {id}
    BY Zenon
  <2>3. PICK m \in Messages : /\ m = Result(id, "ExecFailure") /\ m.type = "result"
                              /\ m.id = id /\ m.status = "ExecFailure"
    <3>1. id \in Nat
      BY <1>1, Zenon
    <3> QED BY <3>1, MadeMessages
  <2>4. Says(v, P, running[v], late[v], Append(toHost[v], m))
    <3>1. Answers(m.id, m.status, pending[v], running[v], late[v], P, running[v], late[v])
      BY <2>1, <2>2, <2>3, Zenon DEF Answers
    <3>2. loop[v] \in {"on", "exit"}
      BY <1>2, <2>1, Zenon
    <3> QED BY <1>1, <2>3, <3>1, <3>2, ChatResult, Zenon DEF Says
  <2>5. Leaves(v, m, P, running[v], late[v])
    BY <1>1, <1>4, <2>1, <2>2, <2>3, Zenon DEF Leaves, ExecNeverStarts
  <2> QED BY <2>3, <2>4, <2>5, ExecutorChats, Zenon
<1>5. CASE ExecAgain(v)
  <2>1. PICK id \in running[v] : Send(v, Executing(id))
    BY <1>5, SMTT(30) DEF ExecAgain
  <2>2. PICK N : N = Append(toHost[v], Executing(id))
    BY Zenon
  <2>3. Says(v, pending[v], running[v], late[v], N)
    BY <1>1, <1>2, <2>2, ChatAgain, Zenon DEF Says
  <2>4. PICK m \in Messages : m = Executing(id)
    BY <1>1, MadeMessages, Zenon
  <2>5. Leaves(v, m, pending[v], running[v], late[v])
    BY <1>1, <1>5, <2>1, <2>2, <2>4, SMTT(30) DEF Leaves, ExecAgain
  <2> QED BY <2>2, <2>3, <2>4, <2>5, ExecutorChats, Zenon
<1>6. CASE ExecFinish(v)
  <2>1. PICK id \in running[v], status \in {"Success", "Hanged"} :
          /\ running' = [running EXCEPT ![v] = @ \ {id}]
          /\ late' = IF status = "Hanged" THEN [late EXCEPT ![v] = @ \cup {id}] ELSE late
          /\ Send(v, Result(id, status))
    BY <1>6, Zenon DEF ExecFinish
  <2>2. PICK R, L : /\ R = running[v] \ {id}
                    /\ L = IF status = "Hanged" THEN late[v] \cup {id} ELSE late[v]
    BY Zenon
  <2>3. PICK m \in Messages : /\ m = Result(id, status) /\ m.type = "result"
                              /\ m.id = id /\ m.status = status
    <3>1. id \in Nat
      BY <1>1, Zenon
    <3> QED BY <3>1, MadeMessages
  <2>4. Says(v, pending[v], R, L, Append(toHost[v], m))
    <3>1. Answers(m.id, m.status, pending[v], running[v], late[v], pending[v], R, L)
      BY <2>1, <2>2, <2>3, Zenon DEF Answers
    <3>2. loop[v] \in {"on", "exit"}
      BY <1>2, <2>1, Zenon
    <3> QED BY <1>1, <2>3, <3>1, <3>2, ChatResult, Zenon DEF Says
  <2>5. Leaves(v, m, pending[v], R, L)
    BY <1>1, <1>6, <2>1, <2>2, <2>3, Zenon DEF Leaves, ExecFinish
  <2> QED BY <2>3, <2>4, <2>5, ExecutorChats, Zenon
<1>7. CASE ExecLate(v)
  <2>1. PICK id \in late[v] : /\ late' = [late EXCEPT ![v] = @ \ {id}]
                              /\ Send(v, Result(id, "Success"))
    BY <1>7, Zenon DEF ExecLate
  <2>2. PICK L : L = late[v] \ {id}
    BY Zenon
  <2>3. PICK m \in Messages : /\ m = Result(id, "Success") /\ m.type = "result"
                              /\ m.id = id /\ m.status = "Success"
    <3>1. id \in Nat
      BY <1>1, Zenon
    <3> QED BY <3>1, MadeMessages
  <2>4. Says(v, pending[v], running[v], L, Append(toHost[v], m))
    <3>1. Answers(m.id, m.status, pending[v], running[v], late[v], pending[v], running[v], L)
      BY <2>1, <2>2, <2>3, Zenon DEF Answers
    <3>2. loop[v] \in {"on", "exit"}
      BY <1>2, <2>1, Zenon
    <3> QED BY <1>1, <2>3, <3>1, <3>2, ChatResult, Zenon DEF Says
  <2>5. Leaves(v, m, pending[v], running[v], L)
    BY <1>1, <1>7, <2>1, <2>2, <2>3, Zenon DEF Leaves, ExecLate
  <2> QED BY <2>3, <2>4, <2>5, ExecutorChats, Zenon
<1> QED BY <1>3, <1>4, <1>5, <1>6, <1>7, Zenon DEF Executor

\* Every step of the runners keeps the conversations.
LEMMA StepChats == RInv /\ Chats /\ [Next]_vars => Chats'
<1> SUFFICES ASSUME RInv, Chats, [Next]_vars PROVE Chats'
  OBVIOUS
<1>1. CASE UNCHANGED vars
  BY <1>1, SameChats, Zenon DEF vars, loopVars
<1>2. ASSUME NEW v \in VMs, Server(v) PROVE Chats'
  <2>1. CASE BeginShutdown(v) \/ LoopFinished(v) \/ EndInstance(v)
    BY <2>1, SameChats, Zenon DEF BeginShutdown, LoopFinished, EndInstance, loopVars
  <2>2. CASE Connect(v)
    BY <1>2, <2>2, LoopChats, Zenon DEF Connect
  <2>3. CASE Handshake(v)
    BY <1>2, <2>3, LoopChats, Zenon DEF Handshake
  <2>4. CASE EnterLoop(v)
    <3>1. PICK lp \in {"on", "exit"} : loop' = [loop EXCEPT ![v] = lp]
      BY <2>4, Zenon DEF EnterLoop
    <3> QED BY <1>2, <2>4, <3>1, LoopChats, Zenon DEF EnterLoop
  <2>5. CASE LeaveLoop(v)
    BY <1>2, <2>5, LoopChats, Zenon DEF LeaveLoop
  <2> QED BY <1>2, <2>1, <2>2, <2>3, <2>4, <2>5, CreateInstanceChats, DrainOneChats,
             SendRequestChats, RejectRequestChats, HandleExecutingChats,
             HandleResultChats, Zenon DEF Server
<1>3. ASSUME NEW v \in VMs, HandshakeFails(v) PROVE Chats'
  BY <1>3, LoopChats, Zenon DEF HandshakeFails
<1>4. ASSUME NEW v \in VMs, StopFuzzing(v) \/ ConnLost(v) PROVE Chats'
  BY <1>4, SameChats DEF StopFuzzing, ConnLost
<1> QED BY <1>1, <1>2, <1>3, <1>4, ExecStepChats, SMTT(30) DEF Next

\* There is no conversation to begin with.
LEMMA InitChats == Init => Chats
<1> SUFFICES ASSUME Init PROVE Chats
  OBVIOUS
<1>1. ASSUME NEW v \in VMs PROVE Chat(v)
  <2>1. ChatOf("none", {}, 0, {}, {}, {}, {}, {}, <<>>)
    BY NewChat, Zenon
  <2> QED BY <2>1, EmptyMapFacts DEF Init, Chat
<1>2. ChatTypes
  BY DEF Init, ChatTypes
<1> QED BY <1>1, <1>2, Zenon DEF Chats

\* The conversations are consistent in every reachable state.
LEMMA ChatsHold == Spec => [](RInv /\ Chats)
<1>1. Init => RInv /\ Chats
  BY InitRInv, InitChats
<1>2. RInv /\ Chats /\ [Next]_vars => RInv' /\ Chats'
  BY StepRInv, StepChats
<1> QED BY <1>1, <1>2, PTL DEF Spec

\* The executor's backlog stays within what ConnectionLoop allows it, and
\* the runner never takes more than Procs requests to be executing, although
\* each end learns of the other's moves only through messages in flight.
THEOREM BacklogBounded == Spec => []InFlightBound
<1>1. RInv /\ Chats => InFlightBound
  <2> SUFFICES ASSUME RInv, Chats, NEW v \in VMs
               PROVE  /\ Cardinality(pending[v]) <= Depth * Procs
                      /\ loop[v] = "on" =>
                           /\ executing[v] \subseteq DOMAIN requests[v]
                           /\ Cardinality(executing[v]) <= Procs
    BY SMTT(30) DEF InFlightBound
  <2>1. ASSUME loop[v] = "on"
        PROVE  /\ executing[v] \subseteq DOMAIN requests[v]
               /\ Cardinality(executing[v]) <= Procs
    BY <2>1, ChatNow, ViewsNow, Zenon DEF ChatOf, Talk, Ends
  <2> QED BY <2>1, ChatNow, Zenon
<1> QED BY <1>1, ChatsHold, PTL

\* No message of the executor, however late, names an id the runner does not
\* know: handleExecutingMessage and handleExecResult never drop the
\* connection for it.
THEOREM MessagesRecognised == Spec => []KnownIDs
<1>1. RInv /\ Chats => KnownIDs
  <2> SUFFICES ASSUME RInv, Chats, NEW v \in VMs, loop[v] = "on", toHost[v] # <<>>
               PROVE  ~Unknown(v, Head(toHost[v]).id)
    BY SMTT(30) DEF KnownIDs
  <2>1. /\ toHost[v] \in Seq(Messages)
        /\ \A i \in DOMAIN toHost[v] : toHost[v][i].id \in DOMAIN requests[v] \cup hanged[v]
    BY ChatNow, Zenon DEF ChatOf, Talk, Tells
  <2>2. Head(toHost[v]) = toHost[v][1] /\ 1 \in DOMAIN toHost[v]
    BY <2>1, SMTT(30)
  <2> QED BY <2>1, <2>2, Zenon DEF Unknown
<1> QED BY <1>1, ChatsHold, PTL

-----------------------------------------------------------------------------
(* What a step does to the requests, for the history of crashes and for    *)
(* the contract.                                                           *)

Statuses == {"Success", "ExecFailure", "Hanged", "Crashed", "Restarted"}

Quiet == UNCHANGED <<dones, outcome, onceCrashed, crashes, AllHeld>>

Takes(r) ==
  /\ UNCHANGED <<dones, outcome, onceCrashed, crashes>>
  /\ dones[r] = 0 /\ r \notin AllHeld /\ AllHeld' = AllHeld \cup {r}

Rejects(r) ==
  /\ UNCHANGED <<onceCrashed, crashes, AllHeld>>
  /\ dones[r] = 0 /\ r \notin AllHeld
  /\ outcome' = [outcome EXCEPT ![r] = "ExecFailure"]
  /\ dones' = [dones EXCEPT ![r] = @ + 1]

Returns(r, status) ==
  /\ Done(r, status)
  /\ dones[r] = 0 /\ r \in AllHeld /\ AllHeld' = AllHeld \ {r}
  /\ crashes' = IF status = "Crashed" THEN [crashes EXCEPT ![r] = @ + 1] ELSE crashes

Moves ==
  \/ Quiet
  \/ \E r \in Requests : Takes(r) \/ Rejects(r)
  \/ \E r \in Requests, status \in Statuses : Returns(r, status)

\* Every step moves at most one request.
LEMMA StepMoves ==
  ASSUME RInv, Chats, [Next]_vars
  PROVE  Moves
<1>1. ASSUME UNCHANGED <<retryVars, requests, crashes>> PROVE Moves
  BY <1>1 DEF Moves, Quiet, AllHeld, retryVars
<1>2. CASE UNCHANGED vars
  BY <1>1, <1>2, Zenon DEF vars, loopVars
<1> SUFFICES ASSUME NEW v \in VMs,
                    Server(v) \/ Executor(v) \/ StopFuzzing(v)
                      \/ HandshakeFails(v) \/ ConnLost(v)
             PROVE  Moves
  BY <1>2, Zenon DEF Next
<1>3. CASE CreateInstance(v)
  <2>1. DOMAIN requests[v] = {} /\ requests[v] \in Maps
    BY <1>3, Zenon DEF CreateInstance, RInv, Phases, Types
  <2>2. Values(requests[v]) = {} /\ Values(requests'[v]) = {}
    BY <1>3, <2>1, EmptyMapFacts, Zenon DEF CreateInstance, RInv, Types, Values
  <2>3. \A w \in VMs \ {v} : requests'[w] = requests[w]
    BY <1>3, Zenon DEF CreateInstance, RInv, Types
  <2>4. \A w \in VMs : Values(requests'[w]) = Values(requests[w])
    BY <2>2, <2>3, Zenon
  <2>5. AllHeld' = AllHeld
    BY <2>4, Zenon DEF AllHeld
  <2> QED BY <1>3, <2>5, Zenon DEF CreateInstance, Moves, Quiet, retryVars
<1>4. CASE DrainOne(v)
  <2>1. PICK id \in DOMAIN requests[v], status \in {"Crashed", "Restarted"} :
          /\ Done(requests[v][id], status)
          /\ crashes' = IF status = "Crashed"
                          THEN [crashes EXCEPT ![requests[v][id]] = @ + 1] ELSE crashes
          /\ requests' = [requests EXCEPT ![v] = Forget(@, id)]
    BY <1>4, Zenon DEF DrainOne
  <2>2. PICK r : r = requests[v][id]
    OBVIOUS
  <2>3. r \in AllHeld /\ dones[r] = 0 /\ AllHeld' = AllHeld \ {r}
    BY <2>1, <2>2, ReturnStep, Zenon
  <2>4. Returns(r, status) /\ r \in Requests /\ status \in Statuses
    BY <2>1, <2>2, <2>3, Zenon DEF Returns, AllHeld, Statuses
  <2> QED BY <2>4 DEF Moves
<1>5. CASE SendRequest(v)
  <2>1. PICK r \in Requests : NextRequest(r)
          /\ requests' = [requests EXCEPT ![v] =
               [i \in DOMAIN @ \cup {nextID[v] + 1} |->
                  IF i = nextID[v] + 1 THEN r ELSE @[i]]]
    BY <1>5, Zenon DEF SendRequest
  <2>2. UNCHANGED <<dones, outcome, onceCrashed, crashes>>
    BY <1>5 DEF SendRequest
  <2>3. r \notin AllHeld /\ dones[r] = 0 /\ AllHeld' = AllHeld \cup {r}
    <3>1. UNCHANGED dones
      BY <2>2, Zenon
    <3>2. /\ OnePlace'
          /\ base' \subseteq Requests /\ pq' \in Seq(Requests)
          /\ requests' \in [VMs -> Maps]
          /\ DOMAIN requests'[v] = DOMAIN requests[v] \cup {nextID[v] + 1}
          /\ \A w \in VMs \ {v} : requests'[w] = requests[w]
          /\ r \notin AllHeld /\ dones[r] = 0 /\ AllHeld' = AllHeld \cup {r}
      BY <2>1, <3>1, TakeStep, Zenon
    <3> QED BY <3>2, Zenon
  <2> QED BY <2>2, <2>3, Zenon DEF Moves, Takes
<1>6. CASE RejectRequest(v)
  <2>1. PICK r \in Unencodable :
          /\ r \in base
          /\ outcome' = [outcome EXCEPT ![r] = "ExecFailure"]
          /\ dones' = [dones EXCEPT ![r] = @ + 1]
    BY <1>6, Zenon DEF RejectRequest
  <2>2. r \in Requests /\ dones[r] = 0 /\ r \notin AllHeld
    BY <2>1 DEF RInv, Types, OnePlace, Held, AllHeld
  <2>3. UNCHANGED <<onceCrashed, crashes, AllHeld>>
    BY <1>6, Zenon DEF RejectRequest, AllHeld
  <2> QED BY <2>1, <2>2, <2>3, Zenon DEF Moves, Rejects
<1>7. CASE HandleResult(v)
  <2>1. PICK id, status : id = Head(toHost[v]).id /\ status = Head(toHost[v]).status
    OBVIOUS
  <2>2. CASE id \in DOMAIN requests[v]
    <3>1. /\ Done(requests[v][id], status) /\ UNCHANGED crashes
          /\ requests' = [requests EXCEPT ![v] = Forget(@, id)]
      BY <1>7, <2>1, <2>2, Zenon DEF HandleResult
    <3>2. status \in {"Success", "ExecFailure", "Hanged"}
      <4>1. toHost[v] \in Seq(Messages) /\ toHost[v] # <<>>
        BY <1>7, ChatNow, Zenon DEF HandleResult, Receives
      <4>2. Head(toHost[v]) \in Messages
        BY <4>1
      <4> QED BY <2>1, <4>2, Zenon DEF Messages
    <3>3. PICK r : r = requests[v][id]
      BY SMTT(30)
    <3>4. r \in AllHeld /\ dones[r] = 0 /\ AllHeld' = AllHeld \ {r}
      BY <2>2, <3>1, <3>3, ReturnStep, Zenon
    <3>5. Returns(r, status) /\ r \in Requests /\ status \in Statuses
      BY <3>1, <3>2, <3>3, <3>4, Zenon DEF Returns, AllHeld, Statuses
    <3> QED BY <3>5, SMTT(30) DEF Moves
  <2>3. CASE id \notin DOMAIN requests[v]
    BY <1>1, <1>7, <2>1, <2>3, Zenon DEF HandleResult
  <2> QED BY <2>2, <2>3, Zenon
<1>8. CASE BeginShutdown(v) \/ LoopFinished(v) \/ EndInstance(v) \/ Connect(v)
             \/ Handshake(v) \/ EnterLoop(v) \/ LeaveLoop(v) \/ HandleExecuting(v)
  BY <1>1, <1>8, Zenon DEF BeginShutdown, LoopFinished, EndInstance, Connect, Handshake,
                    EnterLoop, LeaveLoop, HandleExecuting, loopVars
<1>9. CASE StopFuzzing(v) \/ HandshakeFails(v) \/ ConnLost(v)
  BY <1>1, <1>9, Zenon DEF StopFuzzing, HandshakeFails, ConnLost
<1>10. CASE Executor(v)
  BY <1>1, <1>10, Zenon DEF Executor, ExecStart, ExecNeverStarts, ExecAgain, ExecFinish,
                     ExecLate, loopVars
<1> QED BY <1>3, <1>4, <1>5, <1>6, <1>7, <1>8, <1>9, <1>10, Zenon DEF Server

StruckOne(r, out, done, n, once) ==
  /\ (out = "none") <=> (done = 0)
  /\ n = (IF once THEN 1 ELSE 0) + (IF out = "Crashed" THEN 1 ELSE 0)
  /\ out = "Crashed" /\ r \in Important => once

\* Every step of the runners keeps the account of crashes.
LEMMA StepStruck ==
  ASSUME RInv, Chats, Struck, [Next]_vars
  PROVE  Struck'
<1>1. Moves
  BY StepMoves, Zenon
<1>2. dones \in [Requests -> Nat]
  BY Zenon DEF RInv, Types
<1>3. CASE Quiet \/ \E r \in Requests : Takes(r)
  <2>1. UNCHANGED <<dones, outcome, onceCrashed, crashes>>
    BY <1>3, Zenon DEF Quiet, Takes
  <2> QED BY <2>1 DEF Struck
<1>4. ASSUME NEW r \in Requests, Rejects(r) PROVE Struck'
  BY <1>2, <1>4, SMTT(30) DEF Struck, Rejects
<1>5. ASSUME NEW r \in Requests, NEW status \in Statuses, Returns(r, status)
      PROVE  Struck'
  <2>1. outcome[r] = "none" /\ dones[r] = 0
    BY <1>5, Zenon DEF Returns, Struck
  <2>2. CASE status = "Restarted"
    <3>1. UNCHANGED <<dones, outcome, onceCrashed, crashes>>
      BY <1>5, <2>2, Zenon DEF Returns, Done, Retries
    <3> QED BY <3>1, Zenon DEF Struck
  <2>3. CASE status = "Crashed" /\ Retries(r, status)
    <3>1. /\ UNCHANGED <<dones, outcome>> /\ onceCrashed' = onceCrashed \cup {r}
          /\ r \in Important \ onceCrashed
          /\ crashes' = [crashes EXCEPT ![r] = @ + 1]
      BY <1>5, <2>3, Zenon DEF Returns, Done, Retries
    <3> QED BY <2>1, <3>1, SMTT(30) DEF Struck
  <2>4. CASE status # "Restarted" /\ ~Retries(r, status)
    <3>1. /\ outcome' = [outcome EXCEPT ![r] = status]
          /\ dones' = [dones EXCEPT ![r] = @ + 1]
          /\ UNCHANGED onceCrashed
          /\ crashes' = IF status = "Crashed" THEN [crashes EXCEPT ![r] = @ + 1]
                                              ELSE crashes
          /\ status \in {"Success", "ExecFailure", "Hanged", "Crashed"}
          /\ status = "Crashed" /\ r \in Important => r \in onceCrashed
      BY <1>5, <2>4 DEF Returns, Done, Retries, Statuses
    <3> QED BY <1>2, <2>1, <3>1, SMTT(30) DEF Struck
  <2> QED BY <2>2, <2>3, <2>4, Zenon DEF Retries
<1> QED BY <1>1, <1>3, <1>4, <1>5, SMTT(30) DEF Moves

\* The three invariants hold in every reachable state.
LEMMA StruckHolds == Spec => [](RInv /\ Chats /\ Struck)
<1>1. Init => RInv /\ Chats /\ Struck
  <2>1. Init => Struck
    BY DEF Init, Struck
  <2> QED BY <2>1, InitRInv, InitChats, Zenon
<1>2. RInv /\ Chats /\ Struck /\ [Next]_vars => RInv' /\ Chats' /\ Struck'
  BY StepRInv, StepChats, StepStruck, Zenon
<1> QED BY <1>1, <1>2, PTL DEF Spec

\* The producer sees Crashed only for a request that was executing in a
\* crash, an important one only after its second: the flag onceCrashed of
\* retry.go records exactly the crash that was forgiven.
THEOREM CrashesForgivenOnce == Spec => []CrashedAfterRetry
<1>1. Struck => CrashedAfterRetry
  BY RunnerAssumption, SMTT(30) DEF Struck, CrashedAfterRetry
<1> QED BY <1>1, StruckHolds, PTL

StageMap == [r \in Requests |-> Stage(r)]

\* A request's stage in the contract, from where the runners hold it.
LEMMA StageFacts ==
  StageMap = Stages(dones, AllHeld) /\ StageMap' = Stages(dones', AllHeld')
BY Zenon DEF StageMap, Stage, Stages, StageIn, AllHeld, Held

\* Every step of the runners is a step of the contract or a stutter.
LEMMA MoveRefines ==
  ASSUME RInv, Chats, Struck, [Next]_vars
  PROVE  [Contract!CNext]_(Contract!cvars)
<1>1. Moves
  BY StepMoves
<1>2. dones \in [Requests -> Nat]
  BY DEF RInv, Types
<1>3. PICK S, T : S = StageMap /\ T = StageMap'
  OBVIOUS
<1>4. S = Stages(dones, AllHeld) /\ T = Stages(dones', AllHeld')
  BY <1>3, StageFacts, Zenon
<1>5. CASE Quiet
  <2>1. T = S
    BY <1>4, <1>5, Zenon DEF Quiet
  <2> QED BY <1>3, <1>5, <2>1, Zenon DEF Quiet, StageMap, Contract!cvars
<1>6. ASSUME NEW r \in Requests, Takes(r) PROVE Contract!Take(r)
  <2>1. S[r] = "waiting" /\ T = [S EXCEPT ![r] = "taken"]
    <3>1. dones[r] = 0 /\ r \notin AllHeld
      BY <1>6, Zenon DEF Takes
    <3>2. T = Stages(dones, AllHeld \cup {r})
      BY <1>4, <1>6, Zenon DEF Takes
    <3>3. Stages(dones, AllHeld)[r] = "waiting"
      BY <1>2, <1>6, <3>1, StageWaiting, Zenon
    <3>4. Stages(dones, AllHeld \cup {r}) = [Stages(dones, AllHeld) EXCEPT ![r] = "taken"]
      BY <1>2, <1>6, <3>1, StageTake, Zenon
    <3> QED BY <1>4, <3>2, <3>3, <3>4, Zenon
  <2> QED BY <1>3, <1>6, <2>1, Zenon DEF Takes, StageMap, Contract!Take
<1>7. ASSUME NEW r \in Requests, Rejects(r) PROVE Contract!Reject(r)
  <2>1. S[r] = "waiting" /\ T = [S EXCEPT ![r] = "done"]
    <3>1. dones[r] = 0 /\ r \notin AllHeld
      BY <1>7, Zenon DEF Rejects
    <3>2. T = Stages([dones EXCEPT ![r] = @ + 1], AllHeld)
      BY <1>4, <1>7, Zenon DEF Rejects
    <3>3. Stages(dones, AllHeld)[r] = "waiting"
      BY <1>2, <1>7, <3>1, StageWaiting, Zenon
    <3>4. Stages([dones EXCEPT ![r] = @ + 1], AllHeld)
            = [Stages(dones, AllHeld) EXCEPT ![r] = "done"]
      BY <1>2, <1>7, <3>1, StageReject, Zenon
    <3> QED BY <1>4, <3>2, <3>3, <3>4, Zenon
  <2> QED BY <1>3, <1>7, <2>1, Zenon DEF Rejects, StageMap, Contract!Reject
<1>8. ASSUME NEW r \in Requests, NEW status \in Statuses, Returns(r, status)
      PROVE  \/ Contract!Restart(r) \/ Contract!Strike(r)
             \/ \E st \in Contract!Status : Contract!Finish(r, st)
  <2>0. dones[r] = 0 /\ r \in AllHeld /\ AllHeld' = AllHeld \ {r}
    BY <1>8, Zenon DEF Returns
  <2>1. S[r] = "taken"
    BY <1>2, <1>4, <1>8, <2>0, StageTaken, Zenon
  <2>2. CASE Retries(r, status)
    <3>1. UNCHANGED <<dones, outcome>>
      BY <1>8, <2>2, Zenon DEF Returns, Done
    <3>2. T = [S EXCEPT ![r] = "waiting"]
      <4>1. T = Stages(dones, AllHeld \ {r})
        BY <1>4, <2>0, <3>1, Zenon
      <4>2. Stages(dones, AllHeld \ {r}) = [Stages(dones, AllHeld) EXCEPT ![r] = "waiting"]
        BY <1>2, <1>8, <2>0, StageBack, Zenon
      <4> QED BY <1>4, <4>1, <4>2, Zenon
    <3>3. CASE status = "Restarted"
      <4>1. UNCHANGED onceCrashed
        BY <1>8, <2>2, <3>3, Zenon DEF Returns, Done
      <4> QED BY <1>3, <2>1, <3>1, <3>2, <4>1, Zenon DEF StageMap, Contract!Restart
    <3>4. CASE status = "Crashed"
      <4>1. r \in Important \ onceCrashed /\ onceCrashed' = onceCrashed \cup {r}
        BY <1>8, <2>2, <3>4, SMTT(30) DEF Returns, Done, Retries
      <4> QED BY <1>3, <2>1, <3>1, <3>2, <4>1, Zenon DEF StageMap, Contract!Strike
    <3> QED BY <2>2, <3>3, <3>4, Zenon DEF Retries
  <2>3. CASE ~Retries(r, status)
    <3>1. /\ outcome' = [outcome EXCEPT ![r] = status]
          /\ dones' = [dones EXCEPT ![r] = @ + 1]
          /\ UNCHANGED onceCrashed
          /\ status \in {"Success", "ExecFailure", "Hanged", "Crashed"}
          /\ status = "Crashed" /\ r \in Important => r \in onceCrashed
      BY <1>8, <2>3, Zenon DEF Returns, Done, Retries, Statuses
    <3>2. T = [S EXCEPT ![r] = "done"]
      <4>1. T = Stages([dones EXCEPT ![r] = @ + 1], AllHeld \ {r})
        BY <1>4, <2>0, <3>1, Zenon
      <4>2. Stages([dones EXCEPT ![r] = @ + 1], AllHeld \ {r})
              = [Stages(dones, AllHeld) EXCEPT ![r] = "done"]
        BY <1>2, <1>8, <2>0, StageDone, Zenon
      <4> QED BY <1>4, <4>1, <4>2, Zenon
    <3>3. Contract!Finish(r, status) /\ status \in Contract!Status
      BY <1>3, <2>1, <3>1, <3>2, SMTT(30) DEF StageMap, Contract!Finish, Contract!Status
    <3> QED BY <3>3, Zenon
  <2> QED BY <2>2, <2>3, Zenon
<1> QED BY <1>1, <1>5, <1>6, <1>7, <1>8, Zenon DEF Moves, Contract!CNext

\* The runners and the retry layer implement queue.Executor's contract: a
\* request is taken, and completed exactly once; lost with its VM it is
\* offered again, and after a crash only if it is important, and only once.
THEOREM RunnersKeepContract == Spec => ImplementsContract
<1>1. Init => Contract!CInit
  <2> SUFFICES ASSUME Init PROVE Contract!CInit
    OBVIOUS
  <2>1. \A v \in VMs : Held(v) = {}
    BY EmptyMapFacts, Zenon DEF Init, Held, Values
  <2>2. \A r \in Requests : Stage(r) = "waiting"
    BY <2>1 DEF Init, Stage
  <2> QED BY <2>2, Zenon DEF Init, Contract!CInit
<1>2. RInv /\ Chats /\ Struck /\ [Next]_vars => [Contract!CNext]_(Contract!cvars)
  BY MoveRefines
<1> QED BY <1>1, <1>2, StruckHolds, PTL DEF Spec, ImplementsContract, Contract!CSpec
=============================================================================
