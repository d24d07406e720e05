---------------------------- MODULE MemoryStore ----------------------------
(***************************************************************************)
(* The memory store of agentic_memory: SQLiteLanceDBStore (store.py), the  *)
(* ingest loop of MemoryEngine (engine.py), MemoryPruner (pruner.py), the  *)
(* life of the server process (main_api.py) and the two maintenance        *)
(* commands of the CLI (cli.py).                                           *)
(*                                                                         *)
(* A fact lives in two stores that share no transaction:                   *)
(*   - the SQLite table memory_keys, one row per natural key.  The process *)
(*     reads and writes it through one connection whose transaction is     *)
(*     committed only by the `with self.conn` blocks: sql is what that     *)
(*     connection sees, disk is what has been committed;                   *)
(*   - the LanceDB table of vectors, vec, where every call is durable as   *)
(*     soon as it returns.  Retrieval reads this table alone.              *)
(*                                                                         *)
(* A natural key is an opaque value, a memory id is its rank in the order  *)
(* in which time.time_ns() handed the ids out, and a text is abstracted    *)
(* away: what matters is which id of a key can be retrieved.               *)
(***************************************************************************)
EXTENDS Integers

CONSTANTS
  Keys,           \* natural keys  target_user:subject:predicate
  Workers,        \* concurrent ingest calls: requests in flight, or threads
  MaxId,          \* bound: ids handed out
  MaxClock,       \* bound: the clock
  MaxFacts,       \* bound: facts extracted from one paragraph
  MaxFaults,      \* bound: faults
  Lifetimes,      \* the lifetimes a FactRecord may carry; Null is no expires_at
  Null,           \* SQL's NULL
  InactiveKeeps,  \* retentions of inactive rows the pruner may be called with
  MaxAges,        \* maximal ages the pruner may be called with
  EventLoop,      \* TRUE: the server's one event loop; FALSE: threads
  Faults,         \* the faults that may happen, of FaultKinds
  Callers         \* the optional callers present, of CallerKinds

FaultKinds == {"embed", "update", "delete", "commit", "crash"}
CallerKinds == {"resolve", "profile", "cleanup", "set_expiry"}

ASSUME BoundsAssumption ==
  /\ MaxId \in Nat /\ MaxClock \in Nat /\ MaxFacts \in Nat /\ MaxFaults \in Nat
ASSUME ClockAssumption ==
  /\ Null \notin Nat
  /\ Lifetimes \subseteq Nat \cup {Null}
  /\ InactiveKeeps \subseteq Nat
  /\ MaxAges \subseteq Nat
ASSUME ModeAssumption ==
  /\ EventLoop \in BOOLEAN
  /\ Faults \subseteq FaultKinds
  /\ Callers \subseteq CallerKinds

VARIABLES
  clock,    \* time.time()
  issued,   \* ids handed out so far
  fact,     \* fact[i]: the key, updated_at and expires_at written under id i
  sql,      \* memory_keys as the process' connection sees it
  disk,     \* memory_keys as committed
  vec,      \* vec[i]: the LanceDB row of id i and its timestamp
  worker,   \* worker[w]: where an ingest call stands
  up,       \* a server process has the files open
  faults,   \* faults so far
  ageCut,   \* history: the largest max_age cutoff pruned with
  expCut    \* history: the time of the last prune

stores == <<fact, sql, disk, vec>>
cuts == <<ageCut, expCut>>
vars == <<clock, issued, stores, worker, up, faults, cuts>>

Ids == 1..MaxId
Row == [id : 0..MaxId, active : BOOLEAN]
Fact == [key : Keys \cup {Null}, updated : Nat, expires : Nat \cup {Null}]
Vector == [state : {"absent", "live", "dead"}, at : Nat]
Steps == {"idle", "extracting", "looping", "stamped", "replacing", "embedding"}
Call == [pc : Steps, left : 0..MaxFacts, id : 0..MaxId]
NoRow == [id |-> 0, active |-> FALSE]
Idle == [pc |-> "idle", left |-> 0, id |-> 0]

-----------------------------------------------------------------------------
(* Who may run.                                                            *)

\* Past the await on the extractor, process_paragraph_detailed never yields.
Running(w) == worker[w].pc \in {"looping", "stamped", "replacing", "embedding"}

\* Faulty variant: a handler that also awaits between its two writes.
MayRunInterleaved(w) == up

\* On the event loop nobody else is past its await; a thread is never held up.
MayRun(w) == up /\ (EventLoop => \A u \in Workers \ {w} : ~Running(u))
LoopFree == up /\ (EventLoop => \A u \in Workers : ~Running(u))

\* Faulty variant: a plain Lock, which deactivate_by_key cannot take again.
UnlockedNonReentrant ==
  \A w \in Workers : worker[w].pc \notin {"stamped", "replacing"}

\* The store's RLock is held across two steps only inside upsert_fact.
Unlocked == \A w \in Workers : worker[w].pc # "replacing"

MayFail(kind) == kind \in Faults /\ faults < MaxFaults

-----------------------------------------------------------------------------
(* The statements the operations are made of.                              *)

\* Faulty variant: only the SQLite row is marked inactive.
DeactivateRowOnly(k) == vec

\* table.update(where id = old, is_active = False) for the active row of k.
DeactivateVector(k) ==
  IF sql[k].active /\ vec[sql[k].id].state = "live"
  THEN [vec EXCEPT ![sql[k].id].state = "dead"]
  ELSE vec

\* INSERT OR REPLACE of an active row.
Replaced(k, i) == [sql EXCEPT ![k] = [id |-> i, active |-> TRUE]]

\* memory_id = mem_{time_ns}, now = time.time(), taken before the lock.
NewFact(k, life) ==
  [fact EXCEPT ![issued + 1] =
     [key |-> k, updated |-> clock,
      expires |-> IF life = Null THEN Null ELSE clock + life]]

\* now - days; every time is at least 0, so a negative cutoff acts as 0.
Cutoff(days) == IF clock > days THEN clock - days ELSE 0

Expired(i, now) == fact[i].expires # Null /\ fact[i].expires < now

\* The WHERE clause of the DELETE on memory_keys.
RowDue(row, keepCut, maxCut) ==
  /\ row.id # 0
  /\ \/ ~row.active /\ fact[row.id].updated < keepCut
     \/ fact[row.id].updated < maxCut
     \/ Expired(row.id, clock)

\* Faulty variant: the retention of inactive rows is applied to every row.
VectorDueWhenInactive(v, keepCut, maxCut) ==
  v.state # "absent" /\ (v.at < keepCut \/ v.at < maxCut)

\* Faulty variant: the maximal age is left out of the LanceDB filter.
VectorDueIgnoresAge(v, keepCut, maxCut) == v.state = "dead" /\ v.at < keepCut

\* The filter of the LanceDB delete, which knows nothing of expires_at.
VectorDue(v, keepCut, maxCut) ==
  \/ v.state = "dead" /\ v.at < keepCut
  \/ v.state # "absent" /\ v.at < maxCut

PrunedRows(db, keepCut, maxCut) ==
  [k \in Keys |-> IF RowDue(db[k], keepCut, maxCut) THEN NoRow ELSE db[k]]

PrunedVectors(keepCut, maxCut) ==
  [i \in Ids |-> IF VectorDue(vec[i], keepCut, maxCut)
                 THEN [vec[i] EXCEPT !.state = "absent"] ELSE vec[i]]

NoteCuts(maxCut) ==
  /\ ageCut' = IF maxCut > ageCut THEN maxCut ELSE ageCut
  /\ expCut' = clock

Step(w, pc) == worker' = [worker EXCEPT ![w].pc = pc]
Return(w) == worker' = [worker EXCEPT ![w] = Idle]
Fault == faults' = faults + 1

-----------------------------------------------------------------------------
(* MemoryEngine.process_paragraph_detailed.                                *)

\* POST /ingest: the handler awaits the extractor.
Submit(w) ==
  /\ up
  /\ worker[w].pc = "idle"
  /\ Step(w, "extracting")
  /\ UNCHANGED <<clock, issued, stores, up, faults, cuts>>

\* The extractor answers with a list of facts.  An extractor that raises ends
\* the call and changes nothing, just as an empty list does.
Extracted(w) ==
  /\ MayRun(w)
  /\ worker[w].pc = "extracting"
  /\ \E n \in 0..MaxFacts :
       /\ issued + n <= MaxId
       /\ worker' = [worker EXCEPT ![w] =
            IF n = 0 THEN Idle ELSE [pc |-> "looping", left |-> n, id |-> 0]]
  /\ UNCHANGED <<clock, issued, stores, up, faults, cuts>>

\* upsert_fact up to its lock: the next fact gets its key, id and time.
Stamp(w) ==
  /\ MayRun(w)
  /\ worker[w].pc = "looping"
  /\ issued < MaxId
  /\ \E k \in Keys, life \in Lifetimes : fact' = NewFact(k, life)
  /\ issued' = issued + 1
  /\ worker' = [worker EXCEPT ![w].pc = "stamped", ![w].id = issued + 1]
  /\ UNCHANGED <<clock, sql, disk, vec, up, faults, cuts>>

\* upsert_fact takes the lock; deactivate_by_key marks the active row inactive
\* in the open transaction and its vector inactive for good.
DeactivateOld(w) ==
  /\ MayRun(w)
  /\ worker[w].pc = "stamped"
  /\ Unlocked
  /\ LET k == fact[worker[w].id].key IN
       /\ sql' = [sql EXCEPT ![k].active = FALSE]
       /\ vec' = DeactivateVector(k)
  /\ Step(w, "replacing")
  /\ UNCHANGED <<clock, issued, fact, disk, up, faults, cuts>>

\* LanceDB refuses the update: the exception leaves the UPDATE of memory_keys
\* in the open transaction, for whoever commits next.
DeactivateFails(w) ==
  /\ MayFail("update")
  /\ MayRun(w)
  /\ worker[w].pc = "stamped"
  /\ Unlocked
  /\ LET k == fact[worker[w].id].key IN
       /\ sql[k].active
       /\ sql' = [sql EXCEPT ![k].active = FALSE]
  /\ Return(w)
  /\ Fault
  /\ UNCHANGED <<clock, issued, fact, disk, vec, up, cuts>>

\* Faulty variant: the row is written outside `with self.conn`.
InsertUncommitted(w) ==
  /\ MayRun(w)
  /\ worker[w].pc = "replacing"
  /\ sql' = Replaced(fact[worker[w].id].key, worker[w].id)
  /\ Step(w, "embedding")
  /\ UNCHANGED <<clock, issued, fact, disk, vec, up, faults, cuts>>

\* Faulty variant: the row gets an id of its own, not the one stamped.
InsertFreshId(w) ==
  /\ MayRun(w)
  /\ worker[w].pc = "replacing"
  /\ sql' = Replaced(fact[worker[w].id].key, issued + 1)
  /\ disk' = sql'
  /\ Step(w, "embedding")
  /\ UNCHANGED <<clock, issued, fact, vec, up, faults, cuts>>

\* INSERT OR REPLACE and the commit of everything pending; unlock.
InsertNew(w) ==
  /\ MayRun(w)
  /\ worker[w].pc = "replacing"
  /\ sql' = Replaced(fact[worker[w].id].key, worker[w].id)
  /\ disk' = sql'
  /\ Step(w, "embedding")
  /\ UNCHANGED <<clock, issued, fact, vec, up, faults, cuts>>

\* The commit fails (the database stays locked past busy_timeout): `with
\* self.conn` rolls everything pending back and the call raises.
InsertFails(w) ==
  /\ MayFail("commit")
  /\ MayRun(w)
  /\ worker[w].pc = "replacing"
  /\ sql' = disk
  /\ Return(w)
  /\ Fault
  /\ UNCHANGED <<clock, issued, fact, disk, vec, up, cuts>>

\* The text is embedded and add_vector_record appends the vector row.
AddVector(w) ==
  /\ MayRun(w)
  /\ worker[w].pc = "embedding"
  /\ Unlocked
  /\ vec' = [vec EXCEPT ![worker[w].id] = [state |-> "live", at |-> clock]]
  /\ IF worker[w].left > 1
     THEN worker' = [worker EXCEPT
            ![w] = [pc |-> "looping", left |-> worker[w].left - 1, id |-> 0]]
     ELSE Return(w)
  /\ UNCHANGED <<clock, issued, fact, sql, disk, up, faults, cuts>>

\* The embedder (or the append) raises: the rest of the paragraph is dropped.
EmbedFails(w) ==
  /\ MayFail("embed")
  /\ MayRun(w)
  /\ worker[w].pc = "embedding"
  /\ Return(w)
  /\ Fault
  /\ UNCHANGED <<clock, issued, stores, up, cuts>>

Ingest(w) ==
  \/ Submit(w) \/ Extracted(w) \/ Stamp(w)
  \/ DeactivateOld(w) \/ DeactivateFails(w)
  \/ InsertNew(w) \/ InsertFails(w)
  \/ AddVector(w) \/ EmbedFails(w)

-----------------------------------------------------------------------------
(* The pruner and the other callers of the store.                          *)

\* prune_now -> delete_expired, from the pruner's loop or POST /prune.  The
\* DELETE on memory_keys stays in the open transaction.
Prune(keep, age) ==
  /\ LoopFree
  /\ Unlocked
  /\ sql' = PrunedRows(sql, Cutoff(keep), Cutoff(age))
  /\ vec' = PrunedVectors(Cutoff(keep), Cutoff(age))
  /\ NoteCuts(Cutoff(age))
  /\ UNCHANGED <<clock, issued, fact, disk, worker, up, faults>>

\* The LanceDB delete raises after the DELETE: _run_loop logs it and goes on.
PruneFails(keep, age) ==
  /\ MayFail("delete")
  /\ LoopFree
  /\ Unlocked
  /\ sql' = PrunedRows(sql, Cutoff(keep), Cutoff(age))
  /\ NoteCuts(Cutoff(age))
  /\ Fault
  /\ UNCHANGED <<clock, issued, fact, disk, vec, worker, up>>

\* cache_user_profile: its commit takes everything pending with it.
CacheProfile ==
  /\ "profile" \in Callers
  /\ LoopFree
  /\ Unlocked
  /\ sql # disk
  /\ disk' = sql
  /\ UNCHANGED <<clock, issued, fact, sql, vec, worker, up, faults, cuts>>

\* resolve_contradiction: a new row without expiry, uncommitted, no vector.
ResolveContradiction(k) ==
  /\ "resolve" \in Callers
  /\ LoopFree
  /\ Unlocked
  /\ issued < MaxId
  /\ sql[k].active
  /\ fact' = NewFact(k, Null)
  /\ issued' = issued + 1
  /\ sql' = Replaced(k, issued + 1)
  /\ vec' = DeactivateVector(k)
  /\ UNCHANGED <<clock, disk, worker, up, faults, cuts>>

-----------------------------------------------------------------------------
(* Processes.  The CLI commands open the files while no server has them.   *)

Exit ==
  /\ sql' = disk
  /\ worker' = [w \in Workers |-> Idle]
  /\ up' = FALSE

\* lifespan's shutdown, once the requests in flight are done: close() closes
\* the connection, and SQLite rolls back what was not committed.
Shutdown ==
  /\ up
  /\ \A w \in Workers : worker[w].pc = "idle"
  /\ Exit
  /\ UNCHANGED <<clock, issued, fact, disk, vec, faults, cuts>>

Crash ==
  /\ MayFail("crash")
  /\ up
  /\ Exit
  /\ Fault
  /\ UNCHANGED <<clock, issued, fact, disk, vec, cuts>>

Start ==
  /\ ~up
  /\ up' = TRUE
  /\ UNCHANGED <<clock, issued, stores, worker, faults, cuts>>

\* `cleanup`: prune_now in a process of its own, which exits without a commit.
CliCleanup(keep, age) ==
  /\ "cleanup" \in Callers
  /\ ~up
  /\ vec' = PrunedVectors(Cutoff(keep), Cutoff(age))
  /\ NoteCuts(Cutoff(age))
  /\ UNCHANGED <<clock, issued, fact, sql, disk, worker, up, faults>>

\* `set-expiry`: upsert_fact of an empty object with an expiry, and no vector.
CliSetExpiry(k, life) ==
  /\ "set_expiry" \in Callers
  /\ ~up
  /\ issued < MaxId
  /\ life # Null
  /\ fact' = NewFact(k, life)
  /\ issued' = issued + 1
  /\ sql' = Replaced(k, issued + 1)
  /\ disk' = sql'
  /\ vec' = DeactivateVector(k)
  /\ UNCHANGED <<clock, worker, up, faults, cuts>>

Tick ==
  /\ clock < MaxClock
  /\ clock' = clock + 1
  /\ UNCHANGED <<issued, stores, worker, up, faults, cuts>>

-----------------------------------------------------------------------------
Init ==
  /\ clock = 0
  /\ issued = 0
  /\ fact = [i \in Ids |-> [key |-> Null, updated |-> 0, expires |-> Null]]
  /\ sql = [k \in Keys |-> NoRow]
  /\ disk = sql
  /\ vec = [i \in Ids |-> [state |-> "absent", at |-> 0]]
  /\ worker = [w \in Workers |-> Idle]
  /\ up = TRUE
  /\ faults = 0
  /\ ageCut = 0
  /\ expCut = 0

Next ==
  \/ \E w \in Workers : Ingest(w)
  \/ \E keep \in InactiveKeeps, age \in MaxAges :
       Prune(keep, age) \/ PruneFails(keep, age) \/ CliCleanup(keep, age)
  \/ \E k \in Keys : ResolveContradiction(k)
  \/ \E k \in Keys, life \in Lifetimes : CliSetExpiry(k, life)
  \/ CacheProfile
  \/ Shutdown \/ Crash \/ Start
  \/ Tick

Spec == Init /\ [][Next]_vars

\* Extractors answer, threads and handlers are scheduled, and the pruner's loop
\* comes round for as long as its process lives.
Fairness ==
  /\ \A w \in Workers :
       /\ WF_vars(Extracted(w)) /\ WF_vars(Stamp(w)) /\ WF_vars(DeactivateOld(w))
       /\ WF_vars(InsertNew(w)) /\ WF_vars(AddVector(w))
  /\ WF_vars(\E keep \in InactiveKeeps, age \in MaxAges : Prune(keep, age))

FairSpec == Spec /\ Fairness

-----------------------------------------------------------------------------
(* Properties.                                                             *)

TypeOK ==
  /\ clock \in 0..MaxClock
  /\ issued \in 0..MaxId
  /\ fact \in [Ids -> Fact]
  /\ sql \in [Keys -> Row]
  /\ disk \in [Keys -> Row]
  /\ vec \in [Ids -> Vector]
  /\ worker \in [Workers -> Call]
  /\ up \in BOOLEAN
  /\ faults \in 0..MaxFaults
  /\ ageCut \in Nat
  /\ expCut \in Nat

\* The pruner has already deleted, or had reason to delete, the row of id i.
Condemned(i) == fact[i].updated < ageCut \/ Expired(i, expCut)

Owned(db, i) == db[fact[i].key] = [id |-> i, active |-> TRUE]

\* Every memory that can be retrieved is the active row of its natural key,
\* in the open transaction and on disk, unless the pruner has condemned it.
\* So the vectors of a key never disagree about its current value (store.py,
\* upsert_fact), whatever crashes or fails in between.
LiveVectorOwned ==
  \A i \in Ids : vec[i].state = "live" =>
    Condemned(i) \/ (Owned(sql, i) /\ Owned(disk, i))

\* Without faults, and while no ingest is past its extractor, every active row
\* that the pruner has not condemned can be retrieved, however the ingests and
\* prunes of several threads interleaved (engine.py, process_paragraph_detailed).
RecallComplete ==
  (up /\ \A w \in Workers : ~Running(w)) => \A k \in Keys :
    sql[k].active /\ ~Condemned(sql[k].id) => vec[sql[k].id].state = "live"

\* An ingest is between the two statements that replace the row of key k.
Replacing(w, k) == worker[w].pc = "replacing" /\ fact[worker[w].id].key = k

\* What a crash would roll back is the row being replaced right now, a deletion
\* by the pruner, or a deactivation that LanceDB refused to follow: a write that
\* an ingest has acknowledged is never at stake (store.py, `with self.conn`).
CrashLosesOnlyPrunes ==
  \A k \in Keys : sql[k] # disk[k] =>
    \/ \E w \in Workers : Replacing(w, k)
    \/ sql[k] = NoRow /\ Condemned(disk[k].id)
    \/ sql[k] = NoRow /\ ~disk[k].active
    \/ faults > 0 /\ ~sql[k].active

\* A fact whose expiry the pruner has seen pass is no longer retrievable.
PurgedNotRecalled ==
  \A i \in Ids : Expired(i, expCut) => vec[i].state # "live"

\* Between processes, no row is left on disk that the last cleanup deleted.
CleanupDurable ==
  ~up => \A k \in Keys : disk[k].id # 0 => ~Condemned(disk[k].id)

\* A committed row is never replaced by a memory that was stamped earlier.
NoOlderOverwrite ==
  [][\A k \in Keys : disk'[k].id >= disk[k].id \/ disk'[k] = NoRow]_vars

\* Every ingest ends, however the store's lock is contended (store.py's RLock);
\* only the bound on ids may hold one up.
IngestEnds ==
  \A w \in Workers :
    (worker[w].pc # "idle") ~>
      (worker[w].pc = "idle" \/ (worker[w].pc = "looping" /\ issued = MaxId))

\* A memory past the maximal age stops being retrievable, if the process lives
\* long enough for the pruner to come round (pruner.py, _run_loop).
TooOld(i) == vec[i].state = "live" /\ \A age \in MaxAges : vec[i].at < Cutoff(age)
AgedOut == \A i \in Ids : TooOld(i) ~> (vec[i].state # "live" \/ ~up)
-----------------------------------------------------------------------------
(* The inductive invariants behind RecallComplete and CrashLosesOnlyPrunes. *)

Storing(w) == worker[w].pc \in {"stamped", "replacing", "embedding"}

\* A row names an id that was written under the row's own key.
NamesOwn(row, k) == IF row.id = 0 THEN ~row.active ELSE fact[row.id].key = k

\* What names an id, a row or an ingest, names one that was issued; a row lies
\* under the key of its fact.
Named(row, k) == row.id <= issued /\ NamesOwn(row, k)

IdsNamed ==
  /\ \A k \in Keys : Named(sql[k], k) /\ Named(disk[k], k)
  /\ \A w \in Workers : Storing(w) =>
       worker[w].id \in 1..issued /\ fact[worker[w].id].key \in Keys

NamedInv == TypeOK /\ expCut <= clock /\ IdsNamed

LossInv == NamedInv /\ CrashLosesOnlyPrunes

\* The vector of a fact is written once its id is issued, and not before its
\* row: the pruner's filter on vectors never runs ahead of the one on rows.
Dated ==
  \A i \in Ids :
    /\ fact[i].updated <= clock
    /\ vec[i].state # "absent" => i <= issued /\ fact[i].updated <= vec[i].at

\* An active row is retrievable, or its vector is on its way.
Recallable(row) ==
  row.active /\ ~Condemned(row.id) =>
    \/ vec[row.id].state = "live"
    \/ \E w \in Workers : worker[w].pc = "embedding" /\ worker[w].id = row.id

AllRecallable ==
  \A k \in Keys :
    /\ Recallable(sql[k])
    /\ Recallable(disk[k]) \/ \E w \in Workers : Replacing(w, k)

RecallInv == NamedInv /\ Dated /\ AllRecallable
=============================================================================
