----------------------------- MODULE Distributor -----------------------------
(***************************************************************************)
(* pkg/fuzzer/queue/distributor.go: hands requests to VMs and keeps a      *)
(* request from a VM it wants to avoid while other VMs are active.         *)
(*                                                                         *)
(* The code compares values of one counter (seq) taken at different times. *)
(* The model keeps, for each value taken, how far the counter has moved    *)
(* since, up to Old, beyond which the comparisons no longer change.        *)
(***************************************************************************)
EXTENDS Naturals, Sequences, FiniteSets, SequencesExt

CONSTANTS
  NumVMs,
  Requests,
  Avoid,    \* the VMs each request avoids
  Recency,  \* 1000 in the code
  Slack,    \* 10 in the code: room left when the activity table grows
  None

VMs == 0 .. NumVMs - 1

ASSUME DistributorAssumption ==
  /\ {NumVMs, Slack, Recency} \subseteq Nat \ {0}
  /\ Avoid \in [Requests -> SUBSET VMs]
  /\ None \notin Requests \cup VMs

VARIABLES
  unsent,   \* requests not yet submitted
  source,   \* requests the source has
  seq,      \* the counter
  active,   \* the activity table: for each slot, how old its value is
  queue,    \* delayed requests
  empty,    \* the flag read without the lock
  pc,
  table,    \* whether a VM's pointer to the table is the present one
  noted,    \* how old the value is that a VM is about to store
  held,     \* the request a VM has in hand
  given     \* the VM each request was handed to

vars == <<unsent, source, seq, active, queue, empty, pc, table, noted, held, given>>

Old == Recency + 1

Older(age) == IF age < Old THEN age + 1 ELSE Old

Init ==
  /\ unsent = Requests
  /\ source = {}
  /\ seq = 0
  /\ active = <<>>
  /\ queue = <<>>
  /\ empty = FALSE
  /\ pc = [v \in VMs |-> "away"]
  /\ table = [v \in VMs |-> FALSE]
  /\ noted = [v \in VMs |-> 0]
  /\ held = [v \in VMs |-> None]
  /\ given = [r \in Requests |-> None]

Goto(v, from, to) == pc[v] = from /\ pc' = [pc EXCEPT ![v] = to]

Give(v, r) == given' = [given EXCEPT ![r] = v]

\* The producer submits a request.
Submit ==
  /\ \E r \in unsent : unsent' = unsent \ {r} /\ source' = source \cup {r}
  /\ UNCHANGED <<seq, active, queue, empty, pc, table, noted, held, given>>

-----------------------------------------------------------------------------
(* noteActive.                                                             *)

Fits(v) == v \in DOMAIN active

Call(v) ==
  /\ Goto(v, "away", IF Fits(v) THEN "count" ELSE "grow")
  /\ table' = [table EXCEPT ![v] = Fits(v)]
  /\ UNCHANGED <<unsent, source, seq, active, queue, empty, noted, held, given>>

\* Under the lock the pointer is loaded again; a new table holds zeros.
Grow(v) ==
  /\ Goto(v, "grow", "count")
  /\ IF Fits(v)
       THEN active' = active /\ table' = [table EXCEPT ![v] = TRUE]
       ELSE /\ active' = [slot \in 0 .. v + Slack - 1 |-> seq]
            /\ table' = [w \in VMs |-> w = v]
  /\ UNCHANGED <<unsent, source, seq, queue, empty, noted, held, given>>

Count(v) ==
  /\ Goto(v, "count", "store")
  /\ seq' = Older(seq)
  /\ active' = [slot \in DOMAIN active |-> Older(active[slot])]
  /\ queue' = [i \in DOMAIN queue |-> [queue[i] EXCEPT !.age = Older(@)]]
  /\ noted' = [w \in VMs |-> IF w = v THEN 0 ELSE Older(noted[w])]
  /\ UNCHANGED <<unsent, source, empty, table, held, given>>

\* A table that was replaced since it was loaded takes the value with it.
Store(v) ==
  /\ Goto(v, "store", "look")
  /\ active' = IF table[v] THEN [active EXCEPT ![v] = noted[v]] ELSE active
  /\ UNCHANGED <<unsent, source, seq, queue, empty, table, noted, held, given>>

-----------------------------------------------------------------------------
(* delayed.                                                                *)

Look(v) ==
  /\ Goto(v, "look", IF empty THEN "take" ELSE "scan")
  /\ UNCHANGED <<unsent, source, seq, active, queue, empty, table, noted, held, given>>

NeverMay(v, d) == v \notin Avoid[d.req]
May(v, d) == v \in Avoid[d.req] => d.age >= Recency

CutLast(q, i) == Front(q)
\* Removing entry i moves the last entry to its place.
MoveLast(q, i) == [k \in 1 .. Len(q) - 1 |-> IF k = i THEN q[Len(q)] ELSE q[k]]

EmptyEarly(q) == Len(q) <= 1
IsEmpty(q) == q = <<>>

Scan(v) ==
  LET ok == {i \in DOMAIN queue : May(v, queue[i])} IN
  /\ IF ok = {}
       THEN Goto(v, "scan", "take") /\ UNCHANGED <<queue, empty, given>>
       ELSE LET i == CHOOSE i \in ok : \A k \in ok : i <= k
                rest == MoveLast(queue, i)
            IN /\ Goto(v, "scan", "away")
               /\ Give(v, queue[i].req)
               /\ queue' = rest
               /\ empty' = IsEmpty(rest)
  /\ UNCHANGED <<unsent, source, seq, active, table, noted, held>>

-----------------------------------------------------------------------------
(* The loop of Next.                                                       *)

\* The source has nothing: Next returns nil.
TakeNothing(v) ==
  /\ source = {}
  /\ Goto(v, "take", "away")
  /\ UNCHANGED <<unsent, source, seq, active, queue, empty, table, noted, held, given>>

Take(v) ==
  /\ \E r \in source :
       /\ source' = source \ {r}
       /\ IF v \in Avoid[r]
            THEN /\ Goto(v, "take", "ask")
                 /\ held' = [held EXCEPT ![v] = r]
                 /\ UNCHANGED given
            ELSE Goto(v, "take", "away") /\ Give(v, r) /\ UNCHANGED held
  /\ UNCHANGED <<unsent, seq, active, queue, empty, table, noted>>

HasOtherActive(set) == \E slot \in DOMAIN active \ set : active[slot] <= Recency

Ask(v) ==
  /\ pc[v] = "ask"
  /\ IF HasOtherActive(Avoid[held[v]])
       THEN Goto(v, "ask", "delay") /\ UNCHANGED <<held, given>>
       ELSE /\ Goto(v, "ask", "away")
            /\ Give(v, held[v])
            /\ held' = [held EXCEPT ![v] = None]
  /\ UNCHANGED <<unsent, source, seq, active, queue, empty, table, noted>>

Delay(v) ==
  /\ Goto(v, "delay", "take")
  /\ queue' = Append(queue, [req |-> held[v], age |-> 0])
  /\ empty' = FALSE
  /\ held' = [held EXCEPT ![v] = None]
  /\ UNCHANGED <<unsent, source, seq, active, table, noted, given>>

InNext(v) ==
  \/ Grow(v) \/ Count(v) \/ Store(v) \/ Look(v) \/ Scan(v)
  \/ TakeNothing(v) \/ Take(v) \/ Ask(v) \/ Delay(v)

Next == Submit \/ \E v \in VMs : Call(v) \/ InNext(v)

Spec == Init /\ [][Next]_vars

\* A call of Next runs to its end.  Only VM 0 is known to keep calling: any
\* other may be taken away for a reproduction or never come up.
FairSpec == Spec /\ WF_vars(Call(0)) /\ \A v \in VMs : WF_vars(InNext(v))

-----------------------------------------------------------------------------

\* Types, and the flag that is read without the lock never hides a delayed request.
TypeOK ==
  /\ unsent \subseteq Requests /\ source \subseteq Requests
  /\ seq \in 0 .. Old
  /\ active \in [DOMAIN active -> 0 .. Old]
  /\ queue \in Seq([req : Requests, age : 0 .. Old])
  /\ empty \in BOOLEAN /\ (empty => queue = <<>>)
  /\ pc \in [VMs -> {"away", "grow", "count", "store", "look", "scan", "take",
                     "ask", "delay"}]
  /\ table \in [VMs -> BOOLEAN]
  /\ noted \in [VMs -> 0 .. Old]
  /\ held \in [VMs -> Requests \cup {None}]
  /\ given \in [Requests -> VMs \cup {None}]

Places(r) ==
  Cardinality({i \in DOMAIN queue : queue[i].req = r})
  + Cardinality({v \in VMs : held[v] = r})
  + Cardinality({x \in {"unsent", "source", "given"} :
                   \/ x = "unsent" /\ r \in unsent
                   \/ x = "source" /\ r \in source
                   \/ x = "given" /\ given[r] # None})

\* A request is with its producer, in the source, in the hand of one VM, in
\* the queue or handed out, and only in one of these places: the removal that
\* moves the last entry and the delays of several VMs lose and repeat nothing.
OnePlaceOnly == \A r \in Requests : Places(r) = 1

\* The flag is a hint that may be stale, the table may be replaced under a
\* call, and the VM for which a request was delayed may disappear: as long as
\* one VM keeps asking, even one that every request avoids, every request is
\* handed out.
EveryRequestGiven == \A r \in Requests : r \in source ~> given[r] # None

=============================================================================
