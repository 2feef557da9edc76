---------------------------------- MODULE DB ----------------------------------
(***************************************************************************)
(* pkg/db/db.go: a set of records kept in memory and in a log on disk.     *)
(*                                                                         *)
(* A database is one record: ver and log are the file, the other fields    *)
(* are the DB struct.  The value of a record is a function of its key (the *)
(* key is its hash), and the sequence number is always 0.  An operation    *)
(* that writes yields the set of its possible outcomes [db, err]: a write  *)
(* may fail, and then part of it may have reached the file.  Data is       *)
(* discarded from memory (DiscardData) once the database is loaded.        *)
(***************************************************************************)
EXTENDS Naturals, Sequences, FiniteSets, Functions

CONSTANTS
  Keys,
  CompactDen, CompactNum  \* 10 and 9 in the code

ASSUME DBAssumption ==
  /\ IsFiniteSet(Keys)
  /\ CompactDen \in Nat \ {0}
  /\ CompactNum \in Nat

Put(k) == [op |-> "put", key |-> k]
Del(k) == [op |-> "del", key |-> k]
Torn   == [op |-> "torn"]  \* part of a record

Entries == {Torn} \cup {Put(k) : k \in Keys} \cup {Del(k) : k \in Keys}

Corrupted(log) == \E i \in DOMAIN log : log[i] = Torn

\* deserializeDB applies the records up to the first that it cannot read; the
\* bytes behind a torn record are not aligned to records any more.
Readable(log, i) == \A j \in 1 .. i : log[j] # Torn

deserializeDB(log) ==
  {k \in Keys : \E i \in DOMAIN log :
     /\ log[i] = Put(k) /\ Readable(log, i)
     /\ \A j \in i + 1 .. Len(log) : log[j] = Del(k) => ~Readable(log, j)}

Save(db, k) ==
  IF k \in db.records THEN db
  ELSE [db EXCEPT !.records = @ \cup {k}, !.pending = Append(@, Put(k)),
                  !.uncompacted = @ + 1]

\* Mutant: the record is only dropped from memory.
DeleteUnlogged(db, k) == [db EXCEPT !.records = @ \ {k}]

Delete(db, k) ==
  IF k \notin db.records THEN db
  ELSE [db EXCEPT !.records = @ \ {k}, !.pending = Append(@, Del(k)),
                  !.uncompacted = @ + 1]

\* The keys of a map in the order in which a loop over it takes them.
Listing(keys) == CHOOSE order \in Injection(1 .. Cardinality(keys), keys) : TRUE

\* Delete of every one of a set of records.
DeleteAll(db, keys) ==
  LET order == Listing(keys) IN
  [db EXCEPT !.records = @ \ keys, !.uncompacted = @ + Cardinality(keys),
             !.pending = @ \o [i \in DOMAIN order |-> Del(order[i])]]

Ok(db)     == [db |-> db, err |-> FALSE]
Failed(db) == [db |-> db, err |-> TRUE]

\* What compact writes to a new file, which then replaces the old one.
Compacted(db, keys) ==
  LET order == Listing(keys) IN
  [db EXCEPT !.ver = db.version, !.uncompacted = Cardinality(keys),
             !.log = [i \in DOMAIN order |-> Put(order[i])]]

\* Without its data in memory the database is compacted from the file.
compact(db, mayFail) ==
  IF Corrupted(db.log) THEN {Failed(db)}
  ELSE {Ok(Compacted(db, deserializeDB(db.log)))} \cup
       (IF mayFail THEN {Failed(db)} ELSE {})

ShouldCompact(db) ==
  (db.uncompacted \div CompactDen) * CompactNum >= Cardinality(db.records)

\* Mutant: the file is not opened for appending, and a write starts at its head.
PartialWritesAtHead(db) ==
  {[db EXCEPT !.log = SubSeq(db.pending, 1, i) \o SubSeq(@, i + 1, Len(@))] :
     i \in DOMAIN db.pending}

\* A failed append: the records before the i-th are in the file, and maybe part
\* of that one; all stay pending.
WrittenUpTo(db, i, rest) == [db EXCEPT !.log = @ \o SubSeq(db.pending, 1, i - 1) \o rest]

PartialWrites(db) ==
  {WrittenUpTo(db, i, rest) : i \in DOMAIN db.pending, rest \in {<<>>, <<Torn>>}}

Appended(db) == [db EXCEPT !.log = @ \o db.pending, !.pending = <<>>]

Flush(db, mayFail) ==
  IF db.pending = <<>> THEN {Ok(db)}
  ELSE (IF ShouldCompact(db) THEN compact(Appended(db), mayFail) ELSE {Ok(Appended(db))})
       \cup (IF mayFail THEN {Failed(d) : d \in PartialWrites(db)} ELSE {})

BumpVersion(db, version, mayFail) ==
  UNION {IF r.err \/ r.db.version = version THEN {r}
         ELSE compact([r.db EXCEPT !.version = version], mayFail) : r \in Flush(db, mayFail)}

\* Open with repair: whatever can be read is kept, and the file is rewritten
\* with it.
Open(db, mayFail) ==
  LET keys   == deserializeDB(db.log)
      loaded == [db EXCEPT !.version = db.ver, !.records = keys, !.pending = <<>>]
  IN {Ok(Compacted(loaded, keys))} \cup (IF mayFail THEN {Failed(db)} ELSE {})
=============================================================================
