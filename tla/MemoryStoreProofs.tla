-------------------------- MODULE MemoryStoreProofs -------------------------
(***************************************************************************)
(* What holds of the memory store in every mode, for any number of keys,   *)
(* concurrent ingests, ids, faults and prunes.                             *)
(***************************************************************************)
EXTENDS MemoryStore, TLAPS

-----------------------------------------------------------------------------
(* Type correctness.                                                       *)

USE BoundsAssumption, ClockAssumption

LEMMA CutoffType ==
  ASSUME clock \in Nat, NEW d \in Nat
  PROVE  Cutoff(d) \in Nat /\ Cutoff(d) <= clock
BY DEF Cutoff

LEMMA NewFactType ==
  ASSUME TypeOK, NEW k \in Keys, NEW life \in Nat \cup {Null}, issued < MaxId
  PROVE  /\ NewFact(k, life) \in
              [Ids -> Fact]
         /\ issued + 1 \in 0..MaxId /\ issued + 1 \in Ids
<1>1. clock \in Nat
  BY DEF TypeOK
<1>2. (IF life = Null THEN Null ELSE clock + life) \in Nat \cup {Null}
  BY <1>1
<1> DEFINE new == [key |-> k, updated |-> clock,
                   expires |-> IF life = Null THEN Null ELSE clock + life]
<1>3. new \in Fact
  BY <1>1, <1>2 DEF Fact
<1>4. issued + 1 \in 0..MaxId /\ issued + 1 \in Ids
  BY DEF TypeOK, Ids
<1>5. QED
  BY <1>3, <1>4 DEF NewFact, TypeOK

LEMMA ReplacedType ==
  ASSUME TypeOK, NEW k, NEW i \in 0..MaxId
  PROVE  Replaced(k, i) \in [Keys -> Row]
BY DEF Replaced, TypeOK, Row

LEMMA DeactivateVectorType ==
  ASSUME TypeOK, NEW k
  PROVE  DeactivateVector(k) \in [Ids -> Vector]
<1>1. \A i \in Ids : [vec[i] EXCEPT !.state = "dead"] \in Vector
  BY DEF TypeOK, Vector
<1>2. QED
  BY <1>1 DEF DeactivateVector, TypeOK

LEMMA DeactivateRowType ==
  ASSUME TypeOK, NEW k
  PROVE  [sql EXCEPT ![k].active = FALSE] \in [Keys -> Row]
<1>1. \A j \in Keys : [sql[j] EXCEPT !.active = FALSE] \in Row
  BY DEF TypeOK, Row
<1>2. QED
  BY <1>1 DEF TypeOK

LEMMA PrunedType ==
  ASSUME TypeOK, NEW keepCut, NEW maxCut
  PROVE  /\ PrunedRows(sql, keepCut, maxCut) \in [Keys -> Row]
         /\ PrunedVectors(keepCut, maxCut) \in
              [Ids -> Vector]
<1>1. PrunedRows(sql, keepCut, maxCut) \in [Keys -> Row]
  BY DEF PrunedRows, TypeOK, Row, NoRow
<1>2. \A i \in Ids : [vec[i] EXCEPT !.state = "absent"] \in Vector
  BY DEF TypeOK, Vector
<1>3. QED
  BY <1>1, <1>2 DEF PrunedVectors, TypeOK

LEMMA NoteCutsType ==
  ASSUME TypeOK, NEW maxCut \in Nat, NoteCuts(maxCut)
  PROVE  ageCut' \in Nat /\ expCut' \in Nat /\ ageCut' >= ageCut /\ ageCut' >= maxCut
BY DEF NoteCuts, TypeOK

\* The worker records that a step of an ingest leaves behind.
LEMMA StepType ==
  ASSUME TypeOK, NEW w \in Workers, NEW pc \in Steps, Step(w, pc)
  PROVE  worker' \in [Workers -> Call]
<1>1. [worker[w] EXCEPT !.pc = pc] \in Call
  BY DEF TypeOK, Call
<1>2. QED
  BY <1>1 DEF Step, TypeOK

LEMMA IdleType == Idle \in Call
BY DEF Idle, Call, Steps

LEMMA ReturnType ==
  ASSUME TypeOK, NEW w \in Workers, Return(w)
  PROVE  worker' \in [Workers -> Call]
BY IdleType DEF Return, TypeOK

LEMMA FaultType ==
  ASSUME TypeOK, NEW kind, MayFail(kind), Fault
  PROVE  faults' \in 0..MaxFaults
BY DEF TypeOK, MayFail, Fault

LEMMA TypeStep == TypeOK /\ [Next]_vars => TypeOK'
<1> SUFFICES ASSUME TypeOK, [Next]_vars PROVE TypeOK'
  OBVIOUS
<1> USE DEF stores, cuts
<1>1. ASSUME NEW w \in Workers, Submit(w) PROVE TypeOK'
  BY <1>1, StepType DEF Submit, TypeOK, Steps
<1>2. ASSUME NEW w \in Workers, Extracted(w) PROVE TypeOK'
  <2>1. PICK n \in 0..MaxFacts : worker' = [worker EXCEPT ![w] =
          IF n = 0 THEN Idle ELSE [pc |-> "looping", left |-> n, id |-> 0]]
    BY <1>2 DEF Extracted
  <2>2. Idle \in Call /\ [pc |-> "looping", left |-> n, id |-> 0] \in Call
    BY DEF Idle, Call, Steps
  <2>3. QED
    BY <1>2, <2>1, <2>2 DEF Extracted, TypeOK
<1>3. ASSUME NEW w \in Workers, Stamp(w) PROVE TypeOK'
  <2>1. PICK k \in Keys, life \in Lifetimes : fact' = NewFact(k, life)
    BY <1>3 DEF Stamp
  <2>2. fact' \in [Ids -> Fact]
        /\ issued' \in 0..MaxId
    BY <1>3, <2>1, NewFactType DEF Stamp
  <2>3. [worker[w] EXCEPT !.pc = "stamped", !.id = issued + 1] \in Call
    BY <1>3, <2>1, NewFactType DEF Stamp, TypeOK, Call, Steps
  <2>4. QED
    BY <1>3, <2>2, <2>3 DEF Stamp, TypeOK
<1>4. ASSUME NEW w \in Workers, DeactivateOld(w) PROVE TypeOK'
  BY <1>4, DeactivateVectorType, DeactivateRowType, StepType DEF DeactivateOld, TypeOK, Steps
<1>5. ASSUME NEW w \in Workers, DeactivateFails(w) PROVE TypeOK'
  <2>1. worker' \in [Workers -> Call] /\ faults' \in 0..MaxFaults
    BY <1>5, ReturnType, FaultType DEF DeactivateFails
  <2>2. sql' \in [Keys -> Row]
    BY <1>5, DeactivateRowType DEF DeactivateFails
  <2>3. QED
    BY <1>5, <2>1, <2>2 DEF DeactivateFails, TypeOK
<1>6. ASSUME NEW w \in Workers, InsertNew(w) PROVE TypeOK'
  <2>1. worker[w].id \in 0..MaxId
    BY DEF TypeOK, Call
  <2>2. QED
    BY <1>6, <2>1, ReplacedType, StepType DEF InsertNew, TypeOK, Steps
<1>7. ASSUME NEW w \in Workers, InsertFails(w) PROVE TypeOK'
  <2>1. worker' \in [Workers -> Call] /\ faults' \in 0..MaxFaults
    BY <1>7, ReturnType, FaultType DEF InsertFails
  <2>2. QED
    BY <1>7, <2>1 DEF InsertFails, TypeOK
<1>8. ASSUME NEW w \in Workers, AddVector(w) PROVE TypeOK'
  <2>1. vec' \in [Ids -> Vector]
    <3>1. [state |-> "live", at |-> clock] \in Vector
      BY DEF TypeOK, Vector
    <3>2. QED
      BY <1>8, <3>1 DEF AddVector, TypeOK
  <2>2. worker' \in [Workers -> Call]
    <3>1. CASE worker[w].left > 1
      <4>1. [pc |-> "looping", left |-> worker[w].left - 1, id |-> 0] \in Call
        BY <3>1 DEF TypeOK, Call, Steps
      <4>2. QED
        BY <1>8, <3>1, <4>1 DEF AddVector, TypeOK
    <3>2. CASE ~(worker[w].left > 1)
      BY <1>8, <3>2, ReturnType DEF AddVector
    <3>3. QED
      BY <3>1, <3>2
  <2>3. QED
    BY <1>8, <2>1, <2>2 DEF AddVector, TypeOK
<1>9. ASSUME NEW w \in Workers, EmbedFails(w) PROVE TypeOK'
  <2>1. worker' \in [Workers -> Call] /\ faults' \in 0..MaxFaults
    BY <1>9, ReturnType, FaultType DEF EmbedFails
  <2>2. QED
    BY <1>9, <2>1 DEF EmbedFails, TypeOK
<1>10. ASSUME NEW keep \in InactiveKeeps, NEW age \in MaxAges,
              Prune(keep, age) \/ PruneFails(keep, age) \/ CliCleanup(keep, age)
       PROVE TypeOK'
  <2>1. Cutoff(age) \in Nat
    BY CutoffType DEF TypeOK
  <2>2. ageCut' \in Nat /\ expCut' \in Nat
    BY <1>10, <2>1, NoteCutsType DEF Prune, PruneFails, CliCleanup
  <2>3. CASE Prune(keep, age)
    BY <2>2, <2>3, PrunedType DEF Prune, TypeOK
  <2>4. CASE PruneFails(keep, age)
    BY <2>2, <2>4, PrunedType, FaultType DEF PruneFails, TypeOK
  <2>5. CASE CliCleanup(keep, age)
    BY <2>2, <2>5, PrunedType DEF CliCleanup, TypeOK
  <2>6. QED
    BY <1>10, <2>3, <2>4, <2>5
<1>11. ASSUME NEW k \in Keys, ResolveContradiction(k) PROVE TypeOK'
  <2>1. fact' \in [Ids -> Fact] /\ issued' \in 0..MaxId
    BY <1>11, NewFactType DEF ResolveContradiction
  <2>2. sql' \in [Keys -> Row] /\ vec' \in [Ids -> Vector]
    BY <1>11, NewFactType, ReplacedType, DeactivateVectorType DEF ResolveContradiction
  <2>3. QED
    BY <1>11, <2>1, <2>2 DEF ResolveContradiction, TypeOK
<1>12. ASSUME NEW k \in Keys, NEW life \in Lifetimes, CliSetExpiry(k, life) PROVE TypeOK'
  <2>1. fact' \in [Ids -> Fact] /\ issued' \in 0..MaxId
    BY <1>12, NewFactType DEF CliSetExpiry
  <2>2. sql' \in [Keys -> Row] /\ disk' \in [Keys -> Row] /\ vec' \in [Ids -> Vector]
    BY <1>12, NewFactType, ReplacedType, DeactivateVectorType DEF CliSetExpiry
  <2>3. QED
    BY <1>12, <2>1, <2>2 DEF CliSetExpiry, TypeOK
<1>13. ASSUME CacheProfile PROVE TypeOK'
  BY <1>13 DEF CacheProfile, TypeOK
<1>14. ASSUME Shutdown \/ Crash PROVE TypeOK'
  <2>1. Exit /\ UNCHANGED <<clock, issued, fact, disk, vec, cuts>>
    BY <1>14 DEF Shutdown, Crash
  <2>2. faults' \in 0..MaxFaults
    BY <1>14, FaultType DEF Shutdown, Crash, TypeOK
  <2>3. QED
    BY <2>1, <2>2, IdleType DEF Exit, TypeOK
<1>15. ASSUME Start \/ Tick PROVE TypeOK'
  <2>1. clock' \in 0..MaxClock
    BY <1>15 DEF Start, Tick, TypeOK
  <2>2. up' \in BOOLEAN /\ UNCHANGED <<issued, stores, worker, faults, cuts>>
    BY <1>15 DEF Start, Tick, TypeOK
  <2>3. QED
    BY <2>1, <2>2 DEF TypeOK
<1>16. ASSUME UNCHANGED vars PROVE TypeOK'
  BY <1>16 DEF vars, TypeOK
<1>17. QED
  BY <1>1, <1>2, <1>3, <1>4, <1>5, <1>6, <1>7, <1>8, <1>9, <1>10, <1>11, <1>12,
     <1>13, <1>14, <1>15, <1>16 DEF Next, Ingest

LEMMA InitTypeOK == Init => TypeOK
<1> SUFFICES ASSUME Init PROVE TypeOK
  OBVIOUS
<1>1. [key |-> Null, updated |-> 0, expires |-> Null] \in Fact
  BY DEF Fact
<1>2. NoRow \in Row /\ [state |-> "absent", at |-> 0] \in Vector
  BY DEF NoRow, Row, Vector
<1>3. QED
  BY <1>1, <1>2, IdleType DEF Init, TypeOK

\* Every reachable state of the store is well typed: its ids stay within those
\* handed out, and every operation leaves rows, vectors and calls in their sets.
THEOREM TypeCorrect == Spec => []TypeOK
BY InitTypeOK, TypeStep, PTL DEF Spec

-----------------------------------------------------------------------------
(* What every invariant below uses of a well-typed state.                  *)

LEMMA OwnedFields ==
  ASSUME NEW db \in [Keys -> Row], NEW k \in Keys, NEW i \in Ids
  PROVE  db[k] = [id |-> i, active |-> TRUE] <=> db[k].id = i /\ db[k].active
BY DEF Row

LEMMA NoRowFields ==
  ASSUME NEW row \in Row
  PROVE  row = NoRow <=> row.id = 0 /\ ~row.active
BY DEF Row, NoRow

\* An id that the pruner has condemned stays condemned.
LEMMA CondemnedStays ==
  ASSUME TypeOK, TypeOK', NEW i \in Ids, fact'[i] = fact[i],
         ageCut' >= ageCut, expCut' >= expCut, Condemned(i)
  PROVE  Condemned(i)'
<1>1. fact[i].updated \in Nat /\ fact[i].expires \in Nat \cup {Null}
  BY DEF TypeOK, Fact
<1>2. QED
  BY <1>1 DEF TypeOK, Condemned, Expired

\* The cutoffs of the prunes only grow, and never pass the clock.
LEMMA CutsGrowStep ==
  ASSUME TypeOK, expCut <= clock, [Next]_vars
  PROVE  ageCut' >= ageCut /\ expCut' >= expCut /\ expCut' <= clock'
<1> USE DEF cuts, stores
<1> DEFINE Grown == ageCut' >= ageCut /\ expCut' >= expCut /\ expCut' <= clock'
<1>1. clock \in Nat /\ ageCut \in Nat /\ expCut \in Nat /\ expCut <= clock
  BY DEF TypeOK
<1>2. ASSUME UNCHANGED <<clock, cuts>>
      PROVE  Grown
  BY <1>1, <1>2
<1>3. ASSUME NEW w \in Workers, Ingest(w)
      PROVE  Grown
  BY <1>2, <1>3 DEF Ingest, Submit, Extracted, Stamp, DeactivateOld,
     DeactivateFails, InsertNew, InsertFails, AddVector, EmbedFails
<1>4. ASSUME NEW keep \in InactiveKeeps, NEW age \in MaxAges,
             Prune(keep, age) \/ PruneFails(keep, age) \/ CliCleanup(keep, age)
      PROVE  Grown
  <2>1. Cutoff(age) \in Nat
    BY <1>1, CutoffType
  <2>2. QED
    BY <1>1, <1>4, <2>1 DEF Prune, PruneFails, CliCleanup, NoteCuts
<1>5. ASSUME CacheProfile \/ Shutdown \/ Crash \/ Start \/ UNCHANGED vars
      PROVE  Grown
  BY <1>2, <1>5 DEF CacheProfile, Shutdown, Crash, Start, vars
<1>6. ASSUME NEW k \in Keys, ResolveContradiction(k)
      PROVE  Grown
  BY <1>2, <1>6 DEF ResolveContradiction
<1>7. ASSUME NEW k \in Keys, NEW life \in Lifetimes, CliSetExpiry(k, life)
      PROVE  Grown
  BY <1>2, <1>7 DEF CliSetExpiry
<1>8. ASSUME Tick
      PROVE  Grown
  BY <1>1, <1>8 DEF Tick
<1>9. QED
  <2>1. CASE Next
    BY <2>1, <1>3, <1>4, <1>5, <1>6, <1>7, <1>8 DEF Next
  <2>2. CASE UNCHANGED vars
    BY <2>2, <1>5
  <2>3. QED
    BY <2>1, <2>2

\* The fact that a Stamp, a contradiction or set-expiry writes is a new one.
LEMMA NewFactFields ==
  ASSUME TypeOK, NEW k \in Keys, NEW life \in Nat \cup {Null}, issued < MaxId
  PROVE  /\ NewFact(k, life)[issued + 1].key = k
         /\ NewFact(k, life)[issued + 1].updated = clock
         /\ \A i \in Ids : i # issued + 1 => NewFact(k, life)[i] = fact[i]
         /\ issued \in Nat /\ issued + 1 \in Ids
BY DEF NewFact, TypeOK, Ids

\* What deactivates a row leaves its id alone, and the other rows too.
LEMMA DeactivatedRow ==
  ASSUME TypeOK, NEW k \in Keys
  PROVE  /\ \A j \in Keys : j # k => [sql EXCEPT ![k].active = FALSE][j] = sql[j]
         /\ [sql EXCEPT ![k].active = FALSE][k].id = sql[k].id
         /\ ~[sql EXCEPT ![k].active = FALSE][k].active
BY DEF TypeOK, Row

LEMMA ReplacedRow ==
  ASSUME TypeOK, NEW k \in Keys, NEW i
  PROVE  /\ \A j \in Keys : j # k => Replaced(k, i)[j] = sql[j]
         /\ Replaced(k, i)[k] = [id |-> i, active |-> TRUE]
BY DEF TypeOK, Replaced

-----------------------------------------------------------------------------
(* Ids are handed out once, and rows lie under the key of their fact.      *)

\* A fact once written under an id is never written again.
LEMMA FactStays ==
  ASSUME TypeOK, [Next]_vars
  PROVE  /\ issued' >= issued
         /\ \A i \in Ids : i <= issued => fact'[i] = fact[i]
<1> USE DEF stores
<1> DEFINE Stays == issued' >= issued /\ \A i \in Ids : i <= issued => fact'[i] = fact[i]
<1>1. issued \in Nat /\ Ids \subseteq Nat
  BY DEF TypeOK, Ids
<1>2. ASSUME UNCHANGED <<issued, fact>> PROVE Stays
  BY <1>1, <1>2
<1>3. ASSUME NEW k \in Keys, NEW life \in Nat \cup {Null}, issued < MaxId,
             fact' = NewFact(k, life), issued' = issued + 1
      PROVE  Stays
  BY <1>1, <1>3, NewFactFields
<1>4. ASSUME NEW w \in Workers, Ingest(w) PROVE Stays
  <2>1. CASE Stamp(w)
    BY <1>3, <2>1 DEF Stamp
  <2>2. CASE ~Stamp(w)
    BY <1>2, <1>4, <2>2 DEF Ingest, Submit, Extracted, DeactivateOld,
       DeactivateFails, InsertNew, InsertFails, AddVector, EmbedFails
  <2>3. QED
    BY <2>1, <2>2
<1>5. ASSUME NEW keep \in InactiveKeeps, NEW age \in MaxAges,
             Prune(keep, age) \/ PruneFails(keep, age) \/ CliCleanup(keep, age)
      PROVE  Stays
  BY <1>2, <1>5 DEF Prune, PruneFails, CliCleanup
<1>6. ASSUME NEW k \in Keys, ResolveContradiction(k) PROVE Stays
  BY <1>3, <1>6 DEF ResolveContradiction
<1>7. ASSUME NEW k \in Keys, NEW life \in Lifetimes, CliSetExpiry(k, life) PROVE Stays
  BY <1>3, <1>7 DEF CliSetExpiry
<1>8. ASSUME CacheProfile \/ Shutdown \/ Crash \/ Start \/ Tick \/ UNCHANGED vars
      PROVE  Stays
  BY <1>2, <1>8 DEF CacheProfile, Shutdown, Crash, Start, Tick, vars
<1>9. CASE Next
  BY <1>9, <1>4, <1>5, <1>6, <1>7, <1>8 DEF Next
<1>10. QED
  BY <1>8, <1>9

\* A row is named under its key as long as its fact stays.
LEMMA NamedStays ==
  ASSUME TypeOK, [Next]_vars, TypeOK', NEW row \in Row, NEW k \in Keys, Named(row, k)
  PROVE  Named(row, k)'
<1>1. row.id \in Nat /\ (row.id # 0 => row.id \in Ids) /\ issued \in Nat /\ issued' \in Nat
  BY DEF TypeOK, Row, Ids, Named
<1>2. QED
  BY <1>1, FactStays DEF Named, NamesOwn

LEMMA NamedNothing ==
  ASSUME TypeOK, NEW k
  PROVE  Named(NoRow, k)
BY DEF Named, NamesOwn, NoRow, TypeOK

\* Deactivating a row takes nothing from its name.
LEMMA NamedInactive ==
  ASSUME TypeOK, NEW k \in Keys, \A j \in Keys : Named(sql[j], j), NEW j \in Keys
  PROVE  Named([sql EXCEPT ![k].active = FALSE][j], j)
<1> DEFINE new == [sql EXCEPT ![k].active = FALSE][j]
<1>1. new.id = sql[j].id /\ (new.active => sql[j].active)
  BY DeactivatedRow
<1>2. Named(sql[j], j)
  OBVIOUS
<1> HIDE DEF new
<1>3. Named(new, j)
  BY <1>1, <1>2 DEF Named, NamesOwn
<1>4. QED
  BY <1>3 DEF new

LEMMA NamedReplaced ==
  ASSUME NamedInv, [Next]_vars, TypeOK', NEW k \in Keys, NEW i \in 1..issued',
         fact'[i].key = k, sql' = Replaced(k, i), NEW j \in Keys
  PROVE  Named(sql[j], j)'
<1>1. CASE j = k
  <2>1. sql'[j] = [id |-> i, active |-> TRUE]
    BY <1>1, ReplacedRow DEF NamedInv
  <2>2. QED
    BY <1>1, <2>1 DEF Named, NamesOwn, TypeOK
<1>2. CASE j # k
  <2>1. sql'[j] = sql[j]
    <3>1. sql \in [Keys -> Row]
      BY DEF NamedInv, TypeOK
    <3>2. [sql EXCEPT ![k] = [id |-> i, active |-> TRUE]][j] = sql[j]
      BY <1>2, <3>1
    <3>3. QED
      BY <3>2 DEF Replaced
  <2>2. sql[j] \in Row /\ Named(sql[j], j)
    BY DEF NamedInv, IdsNamed, TypeOK
  <2>3. QED
    BY <2>1, <2>2, NamedStays DEF NamedInv, Named, NamesOwn
<1>3. QED
  BY <1>1, <1>2

LEMMA NamedPruned ==
  ASSUME TypeOK, \A j \in Keys : Named(sql[j], j), NEW a, NEW b, NEW j \in Keys
  PROVE  Named(PrunedRows(sql, a, b)[j], j)
BY NamedNothing DEF PrunedRows

\* What an ingest needs to keep its name: it holds the id that it held, or none.
LEMMA NamedIngest ==
  ASSUME NamedInv, [Next]_vars, TypeOK',
         NEW w \in Workers,
         \A u \in Workers \ {w} : worker'[u] = worker[u],
         Storing(w)' => Storing(w) /\ worker'[w].id = worker[w].id,
         NEW u \in Workers, Storing(u)'
  PROVE  worker'[u].id \in 1..issued' /\ fact'[worker'[u].id].key \in Keys
<1>1. Storing(u) /\ worker'[u].id = worker[u].id
  BY DEF Storing
<1>2. worker[u].id \in 1..issued /\ fact[worker[u].id].key \in Keys /\ worker[u].id \in Ids
  BY <1>1 DEF NamedInv, IdsNamed, TypeOK, Ids
<1>3. QED
  BY <1>1, <1>2, FactStays DEF NamedInv, TypeOK

\* The rows of a state keep their names when only what they point at may change.
LEMMA NamedKept ==
  ASSUME NamedInv, [Next]_vars, TypeOK', NEW j \in Keys
  PROVE  /\ sql'[j] = sql[j] => Named(sql[j], j)'
         /\ sql'[j] = disk[j] => Named(sql[j], j)'
         /\ disk'[j] = disk[j] => Named(disk[j], j)'
<1>1. sql[j] \in Row /\ disk[j] \in Row /\ Named(sql[j], j) /\ Named(disk[j], j)
  BY DEF NamedInv, IdsNamed, TypeOK
<1>2. QED
  BY <1>1, NamedStays DEF NamedInv, Named, NamesOwn

\* Every row that a step leaves in the open transaction or on disk is named.
LEMMA RowsNamed ==
  ASSUME NamedInv, [Next]_vars, TypeOK'
  PROVE  \A k \in Keys : Named(sql[k], k)' /\ Named(disk[k], k)'
<1> USE DEF stores
<1> DEFINE Rows == \A k \in Keys : Named(sql[k], k)'
           Kept == \A k \in Keys : Named(disk[k], k)'
<1>t. TypeOK /\ \A j \in Keys : Named(sql[j], j)
  BY DEF NamedInv, IdsNamed
<1>1. UNCHANGED sql => Rows
  BY NamedKept
<1>2. UNCHANGED disk => Kept
  BY NamedKept
<1>3. Rows /\ disk' = sql' => Kept
  BY DEF Named, NamesOwn
<1>4. sql' = disk => Rows
  BY NamedKept
<1>5. ASSUME NEW k \in Keys, sql' = [sql EXCEPT ![k].active = FALSE]
      PROVE  Rows
  <2>1. ASSUME NEW j \in Keys PROVE Named(sql[j], j)'
    <3>1. sql'[j] \in Row /\ Named(sql'[j], j)
      BY <1>5, <1>t, NamedInactive DEF TypeOK
    <3>2. QED
      BY <3>1, <1>t, NamedStays DEF Named, NamesOwn
  <2>2. QED
    BY <2>1
<1>6. ASSUME NEW a, NEW b, sql' = PrunedRows(sql, a, b)
      PROVE  Rows
  <2>1. ASSUME NEW j \in Keys PROVE Named(sql[j], j)'
    <3>1. sql'[j] \in Row /\ Named(sql'[j], j)
      BY <1>6, <1>t, NamedPruned DEF TypeOK
    <3>2. QED
      BY <3>1, <1>t, NamedStays DEF Named, NamesOwn
  <2>2. QED
    BY <2>1
<1>7. ASSUME NEW w \in Workers, Ingest(w) PROVE Rows /\ Kept
  <2>1. CASE DeactivateOld(w) \/ DeactivateFails(w)
    <3>1. fact[worker[w].id].key \in Keys
      BY <2>1 DEF NamedInv, IdsNamed, Storing, DeactivateOld, DeactivateFails
    <3>2. QED
      BY <1>2, <1>5, <2>1, <3>1 DEF DeactivateOld, DeactivateFails
  <2>2. CASE InsertNew(w)
    <3> DEFINE i == worker[w].id
    <3>1. i \in 1..issued' /\ fact'[i].key \in Keys /\ fact' = fact
      BY <2>2 DEF NamedInv, IdsNamed, Storing, InsertNew
    <3>2. sql' = Replaced(fact'[i].key, i) /\ disk' = sql'
      BY <2>2 DEF InsertNew
    <3> HIDE DEF i
    <3>3. Rows
      BY <3>1, <3>2, NamedReplaced
    <3>4. QED
      BY <1>3, <3>2, <3>3
  <2>3. CASE InsertFails(w)
    BY <1>2, <1>4, <2>3 DEF InsertFails
  <2>4. CASE Submit(w) \/ Extracted(w) \/ Stamp(w) \/ AddVector(w) \/ EmbedFails(w)
    BY <1>1, <1>2, <2>4 DEF Submit, Extracted, Stamp, AddVector, EmbedFails
  <2>5. QED
    BY <1>7, <2>1, <2>2, <2>3, <2>4 DEF Ingest
<1>8. ASSUME NEW keep \in InactiveKeeps, NEW age \in MaxAges,
             Prune(keep, age) \/ PruneFails(keep, age) \/ CliCleanup(keep, age)
      PROVE  Rows /\ Kept
  BY <1>1, <1>2, <1>6, <1>8 DEF Prune, PruneFails, CliCleanup
<1>9. ASSUME NEW k \in Keys, NEW life \in Nat \cup {Null}, issued < MaxId,
             fact' = NewFact(k, life), issued' = issued + 1,
             sql' = Replaced(k, issued + 1)
      PROVE  Rows
  <2>1. issued + 1 \in 1..issued' /\ fact'[issued + 1].key = k
    BY <1>9, <1>t, NewFactFields DEF Ids
  <2>2. QED
    BY <1>9, <2>1, NamedReplaced
<1>10. ASSUME NEW k \in Keys, ResolveContradiction(k) PROVE Rows /\ Kept
  BY <1>2, <1>9, <1>10 DEF ResolveContradiction
<1>11. ASSUME NEW k \in Keys, NEW life \in Lifetimes, CliSetExpiry(k, life)
       PROVE  Rows /\ Kept
  BY <1>3, <1>9, <1>11 DEF CliSetExpiry
<1>12. ASSUME CacheProfile PROVE Rows /\ Kept
  BY <1>1, <1>3, <1>12 DEF CacheProfile
<1>13. ASSUME Shutdown \/ Crash PROVE Rows /\ Kept
  BY <1>2, <1>4, <1>13 DEF Shutdown, Crash, Exit
<1>14. ASSUME Start \/ Tick \/ UNCHANGED vars PROVE Rows /\ Kept
  BY <1>1, <1>2, <1>14 DEF Start, Tick, vars
<1>15. CASE Next
  BY <1>15, <1>7, <1>8, <1>10, <1>11, <1>12, <1>13, <1>14 DEF Next
<1>16. QED
  BY <1>14, <1>15

\* An ingest past its Stamp names a fact that was written for it.
LEMMA IngestsNamed ==
  ASSUME NamedInv, [Next]_vars, TypeOK'
  PROVE  \A u \in Workers : Storing(u)' =>
           worker'[u].id \in 1..issued' /\ fact'[worker'[u].id].key \in Keys
<1> USE DEF stores
<1> DEFINE Goal == \A u \in Workers : Storing(u)' =>
             worker'[u].id \in 1..issued' /\ fact'[worker'[u].id].key \in Keys
<1>t. worker \in [Workers -> Call]
  BY DEF NamedInv, TypeOK
<1>1. ASSUME NEW w \in Workers, \A u \in Workers \ {w} : worker'[u] = worker[u],
             Storing(w)' => Storing(w) /\ worker'[w].id = worker[w].id
      PROVE  Goal
  BY <1>1, NamedIngest
<1>2. ASSUME UNCHANGED worker PROVE Goal
  BY <1>1, <1>2 DEF Storing
<1>3. ASSUME NEW w \in Workers, Ingest(w) PROVE Goal
  <2>1. CASE Stamp(w)
    <3>1. PICK k \in Keys, life \in Lifetimes : fact' = NewFact(k, life)
      BY <2>1 DEF Stamp
    <3>2. issued + 1 \in 1..issued' /\ fact'[issued + 1].key = k
      BY <2>1, <3>1, NewFactFields DEF Stamp, NamedInv, Ids
    <3>3. /\ \A u \in Workers \ {w} : worker'[u] = worker[u]
          /\ worker'[w].id = issued + 1
      BY <1>t, <2>1 DEF Stamp, Call
    <3>4. ASSUME NEW u \in Workers, Storing(u)'
          PROVE  worker'[u].id \in 1..issued' /\ fact'[worker'[u].id].key \in Keys
      <4>1. CASE u = w
        BY <3>2, <3>3, <4>1
      <4>2. CASE u # w
        <5>1. Storing(u) /\ worker'[u] = worker[u]
          BY <3>3, <3>4, <4>2 DEF Storing
        <5>2. worker[u].id \in 1..issued /\ fact[worker[u].id].key \in Keys
              /\ worker[u].id \in Ids
          BY <5>1 DEF NamedInv, IdsNamed, TypeOK, Ids
        <5>3. QED
          BY <5>1, <5>2, FactStays DEF NamedInv, TypeOK
      <4>3. QED
        BY <4>1, <4>2
    <3>5. QED
      BY <3>4
  <2>2. CASE DeactivateOld(w) \/ InsertNew(w)
    <3>1. Storing(w) /\ \E pc \in Steps : Step(w, pc)
      BY <2>2 DEF DeactivateOld, InsertNew, Storing, Steps
    <3>2. worker'[w].id = worker[w].id /\ \A u \in Workers \ {w} : worker'[u] = worker[u]
      BY <1>t, <3>1 DEF Step, Call
    <3>3. QED
      BY <1>1, <3>1, <3>2
  <2>3. CASE Submit(w) \/ Extracted(w) \/ DeactivateFails(w) \/ InsertFails(w)
             \/ AddVector(w) \/ EmbedFails(w)
    <3>1. /\ \A u \in Workers \ {w} : worker'[u] = worker[u]
          /\ ~Storing(w)'
      BY <1>t, <2>3 DEF Submit, Extracted, DeactivateFails, InsertFails, AddVector,
         EmbedFails, Step, Return, Idle, Storing, Call
    <3>2. QED
      BY <1>1, <3>1
  <2>4. QED
    BY <1>3, <2>1, <2>2, <2>3 DEF Ingest
<1>4. ASSUME NEW keep \in InactiveKeeps, NEW age \in MaxAges,
             Prune(keep, age) \/ PruneFails(keep, age) \/ CliCleanup(keep, age)
      PROVE  Goal
  BY <1>2, <1>4 DEF Prune, PruneFails, CliCleanup
<1>5. ASSUME NEW k \in Keys, ResolveContradiction(k) PROVE Goal
  BY <1>2, <1>5 DEF ResolveContradiction
<1>6. ASSUME NEW k \in Keys, NEW life \in Lifetimes, CliSetExpiry(k, life) PROVE Goal
  BY <1>2, <1>6 DEF CliSetExpiry
<1>7. ASSUME Shutdown \/ Crash PROVE Goal
  BY <1>7 DEF Shutdown, Crash, Exit, Idle, Storing
<1>8. ASSUME CacheProfile \/ Start \/ Tick \/ UNCHANGED vars PROVE Goal
  BY <1>2, <1>8 DEF CacheProfile, Start, Tick, vars
<1>9. CASE Next
  BY <1>9, <1>3, <1>4, <1>5, <1>6, <1>7, <1>8 DEF Next
<1>10. QED
  BY <1>8, <1>9

LEMMA NamedStep == NamedInv /\ [Next]_vars => NamedInv'
BY TypeStep, CutsGrowStep, RowsNamed, IngestsNamed DEF NamedInv, IdsNamed

LEMMA InitNamed == Init => NamedInv
BY InitTypeOK DEF Init, NamedInv, IdsNamed, Named, NamesOwn, NoRow, Storing, Idle

\* An issued id that is condemned stays condemned.
LEMMA CondemnedKept ==
  ASSUME NamedInv, [Next]_vars, TypeOK', NEW i \in 1..issued, Condemned(i)
  PROVE  Condemned(i)'
<1>1. i \in Ids /\ fact'[i] = fact[i] /\ ageCut' >= ageCut /\ expCut' >= expCut
  BY FactStays, CutsGrowStep DEF NamedInv, TypeOK, Ids
<1>2. QED
  BY <1>1, CondemnedStays DEF NamedInv

\* An ingest that does not move stays between its two statements.
LEMMA ReplacingKept ==
  ASSUME NamedInv, [Next]_vars, TypeOK', NEW w \in Workers, NEW k, Replacing(w, k),
         worker'[w] = worker[w]
  PROVE  Replacing(w, k)'
<1>1. worker[w].id \in Ids /\ worker[w].id <= issued
  BY DEF NamedInv, IdsNamed, Replacing, Storing, TypeOK, Ids
<1>2. fact'[worker[w].id] = fact[worker[w].id]
  BY <1>1, FactStays DEF NamedInv
<1>3. QED
  BY <1>2 DEF Replacing

-----------------------------------------------------------------------------
(* What a crash can lose.                                                  *)

\* The row of key k in the open transaction may differ from the one on disk.
Excused(k) ==
  \/ \E w \in Workers : Replacing(w, k)
  \/ sql[k] = NoRow /\ Condemned(disk[k].id)
  \/ sql[k] = NoRow /\ ~disk[k].active
  \/ faults > 0 /\ ~sql[k].active

\* A key whose two rows a step leaves alone stays excused.
LEMMA LossKept ==
  ASSUME LossInv, [Next]_vars, TypeOK', NEW k \in Keys,
         sql'[k] = sql[k], disk'[k] = disk[k], faults' >= faults,
         \A w \in Workers : Replacing(w, k) => Replacing(w, k)',
         sql[k] # disk[k]
  PROVE  Excused(k)'
<1>1. NamedInv /\ Excused(k)
  BY DEF LossInv, CrashLosesOnlyPrunes, Excused
<1>2. PICK i \in Nat : i = disk[k].id
  BY <1>1 DEF NamedInv, TypeOK, Row
<1>3. CASE sql[k] = NoRow /\ Condemned(disk[k].id)
  <2>1. disk[k] \in Row /\ Named(disk[k], k)
    BY <1>1 DEF NamedInv, IdsNamed, TypeOK
  <2>2. i # 0 /\ i <= issued
    BY <1>2, <1>3, <2>1, NoRowFields DEF Named, NamesOwn
  <2>3. Condemned(i)'
    BY <1>1, <1>2, <1>3, <2>2, CondemnedKept DEF NamedInv, TypeOK
  <2>4. QED
    BY <1>2, <1>3, <2>3 DEF Excused, Condemned, Expired
<1>4. CASE sql[k] = NoRow /\ ~disk[k].active
  BY <1>4 DEF Excused
<1>5. CASE faults > 0 /\ ~sql[k].active
  BY <1>1, <1>5 DEF Excused, NamedInv, TypeOK
<1>6. CASE \E w \in Workers : Replacing(w, k)
  BY <1>6 DEF Excused
<1>7. QED
  BY <1>1, <1>3, <1>4, <1>5, <1>6 DEF Excused

\* A pruned row is condemned on disk, or was inactive there or here already.
LEMMA LossPruned ==
  ASSUME LossInv, [Next]_vars, TypeOK', NEW k \in Keys,
         NEW keepCut \in Nat, NEW maxCut \in Nat,
         sql' = PrunedRows(sql, keepCut, maxCut), NoteCuts(maxCut), Unlocked,
         UNCHANGED <<clock, fact, disk, worker>>, faults' >= faults,
         sql'[k] # disk'[k]
  PROVE  Excused(k)'
<1>1. NamedInv /\ sql[k] \in Row /\ disk[k] \in Row
  BY DEF LossInv, NamedInv, TypeOK
<1>2. CASE ~RowDue(sql[k], keepCut, maxCut)
  <2>1. sql'[k] = sql[k]
    BY <1>2 DEF PrunedRows
  <2>2. \A w \in Workers : Replacing(w, k) => Replacing(w, k)'
    BY <1>1, ReplacingKept
  <2>3. QED
    BY <2>1, <2>2, LossKept
<1>3. CASE RowDue(sql[k], keepCut, maxCut)
  <2>1. sql'[k] = NoRow /\ ~sql'[k].active
    BY <1>3 DEF PrunedRows, NoRow
  <2>2. CASE sql[k] = disk[k] /\ disk[k].active
    <3>1. PICK i \in 1..issued : i = disk[k].id
      BY <1>1, <1>3, <2>2 DEF RowDue, NamedInv, IdsNamed, Named, Row, TypeOK
    <3>2. fact[i].updated < maxCut \/ Expired(i, clock)
      BY <1>3, <2>2, <3>1 DEF RowDue
    <3>3. i \in Ids /\ fact[i].updated \in Nat /\ ageCut' \in Nat /\ ageCut' >= maxCut
          /\ expCut' = clock
      BY <1>1, <3>1, NoteCutsType DEF NamedInv, TypeOK, Ids, Fact, NoteCuts
    <3>4. Condemned(i)'
      BY <3>2, <3>3 DEF Condemned, Expired
    <3>5. QED
      BY <2>1, <3>1, <3>4 DEF Excused, Condemned, Expired
  <2>3. CASE sql[k] = disk[k] /\ ~disk[k].active
    BY <2>1, <2>3 DEF Excused
  <2>4. CASE sql[k] # disk[k]
    <3>1. sql[k] # NoRow
      BY <1>3 DEF RowDue, NoRow
    <3>2. ~\E w \in Workers : Replacing(w, k)
      BY DEF Unlocked, Replacing
    <3>3. faults > 0
      BY <2>4, <3>1, <3>2 DEF LossInv, CrashLosesOnlyPrunes
    <3>4. QED
      BY <1>1, <2>1, <3>3 DEF Excused, NamedInv, TypeOK
  <2>5. QED
    BY <2>2, <2>3, <2>4
<1>4. QED
  BY <1>2, <1>3

LEMMA LossStep ==
  ASSUME LossInv, [Next]_vars, "resolve" \notin Callers
  PROVE  LossInv'
<1> USE DEF stores, cuts
<1>n. NamedInv /\ NamedInv' /\ TypeOK /\ TypeOK'
  BY NamedStep DEF LossInv, NamedInv
<1>t. /\ worker \in [Workers -> Call] /\ faults \in Nat
      /\ sql \in [Keys -> Row] /\ disk \in [Keys -> Row]
  BY <1>n DEF TypeOK
<1> DEFINE Goal == \A k \in Keys : sql'[k] # disk'[k] => Excused(k)'
<1>1. ASSUME sql' = sql, disk' = disk, faults' >= faults,
             \A w \in Workers : worker'[w] = worker[w] \/ worker[w].pc # "replacing"
      PROVE  Goal
  <2>1. ASSUME NEW k \in Keys, NEW w \in Workers, Replacing(w, k)
        PROVE  Replacing(w, k)'
    BY <1>1, <1>n, <2>1, ReplacingKept DEF Replacing
  <2>2. QED
    BY <1>1, <1>n, <2>1, LossKept
<1>2. ASSUME sql' = disk' PROVE Goal
  BY <1>2
<1>3. ASSUME NEW w \in Workers, Ingest(w) PROVE Goal
  <2>1. CASE InsertNew(w) \/ InsertFails(w)
    BY <1>2, <2>1 DEF InsertNew, InsertFails
  <2>2. CASE Submit(w) \/ Extracted(w) \/ Stamp(w) \/ AddVector(w) \/ EmbedFails(w)
    <3>1. /\ sql' = sql /\ disk' = disk /\ faults' >= faults
          /\ worker[w].pc # "replacing"
          /\ \A u \in Workers \ {w} : worker'[u] = worker[u]
      BY <1>t, <2>2 DEF Submit, Extracted, Stamp, AddVector, EmbedFails, Step, Return, Fault
    <3>2. QED
      BY <1>1, <3>1
  <2>3. CASE DeactivateOld(w) \/ DeactivateFails(w)
    <3> DEFINE i == worker[w].id
    <3>1. PICK j \in Keys : j = fact[i].key
      BY <1>n, <2>3 DEF NamedInv, IdsNamed, Storing, DeactivateOld, DeactivateFails
    <3>2. /\ sql' = [sql EXCEPT ![j].active = FALSE]
          /\ disk' = disk /\ fact' = fact /\ faults' >= faults
          /\ worker[w].pc = "stamped"
          /\ \A u \in Workers \ {w} : worker'[u] = worker[u]
      BY <1>t, <2>3, <3>1 DEF DeactivateOld, DeactivateFails, Step, Return, Fault
    <3>3. ASSUME NEW k \in Keys, k # j, sql'[k] # disk'[k] PROVE Excused(k)'
      <4>1. sql'[k] = sql[k] /\ disk'[k] = disk[k]
        BY <1>n, <3>2, <3>3, DeactivatedRow
      <4>2. ASSUME NEW u \in Workers, Replacing(u, k) PROVE Replacing(u, k)'
        BY <1>n, <3>2, <4>2, ReplacingKept DEF Replacing
      <4>3. QED
        BY <1>n, <3>2, <3>3, <4>1, <4>2, LossKept
    <3>4. Excused(j)'
      <4>1. CASE DeactivateOld(w)
        <5>1. worker'[w].pc = "replacing" /\ worker'[w].id = i
          BY <1>t, <4>1 DEF DeactivateOld, Step, Call
        <5>2. Replacing(w, j)'
          BY <3>1, <3>2, <5>1 DEF Replacing
        <5>3. QED
          BY <5>2 DEF Excused
      <4>2. CASE DeactivateFails(w)
        BY <1>n, <1>t, <3>2, <4>2, DeactivatedRow DEF Excused, DeactivateFails, Fault
      <4>3. QED
        BY <2>3, <4>1, <4>2
    <3>5. QED
      BY <3>3, <3>4
  <2>4. QED
    BY <1>3, <2>1, <2>2, <2>3 DEF Ingest
<1>4. ASSUME NEW keep \in InactiveKeeps, NEW age \in MaxAges,
             Prune(keep, age) \/ PruneFails(keep, age)
      PROVE  Goal
  <2>1. Cutoff(keep) \in Nat /\ Cutoff(age) \in Nat
    BY <1>n, CutoffType DEF TypeOK
  <2>2. /\ sql' = PrunedRows(sql, Cutoff(keep), Cutoff(age)) /\ NoteCuts(Cutoff(age))
        /\ Unlocked /\ UNCHANGED <<clock, fact, disk, worker>> /\ faults' >= faults
    BY <1>t, <1>4 DEF Prune, PruneFails, Fault
  <2>3. QED
    BY <1>n, <2>1, <2>2, LossPruned
<1>5. ASSUME NEW keep \in InactiveKeeps, NEW age \in MaxAges, CliCleanup(keep, age)
      PROVE  Goal
  BY <1>1, <1>t, <1>5 DEF CliCleanup
<1>6. ASSUME NEW k \in Keys, NEW life \in Lifetimes, CliSetExpiry(k, life) PROVE Goal
  BY <1>2, <1>6 DEF CliSetExpiry
<1>7. ASSUME CacheProfile \/ Shutdown \/ Crash PROVE Goal
  BY <1>2, <1>7 DEF CacheProfile, Shutdown, Crash, Exit
<1>8. ASSUME Start \/ Tick \/ UNCHANGED vars PROVE Goal
  BY <1>1, <1>t, <1>8 DEF Start, Tick, vars
<1>9. ~\E k \in Keys : ResolveContradiction(k)
  BY DEF ResolveContradiction
<1>10. Goal
  <2>1. CASE Next
    BY <2>1, <1>3, <1>4, <1>5, <1>6, <1>7, <1>8, <1>9 DEF Next
  <2>2. QED
    BY <1>8, <2>1
<1>11. QED
  BY <1>n, <1>10 DEF LossInv, CrashLosesOnlyPrunes, Excused

\* Unless contradictions are resolved, whose row nobody commits, what a crash
\* would roll back is the row being replaced right now, a deletion by the pruner
\* or a deactivation that LanceDB refused: no acknowledged write, whichever
\* faults happen and in whichever order ingests and prunes run.
THEOREM CrashLosesNoWrite ==
  ASSUME "resolve" \notin Callers
  PROVE  Spec => []CrashLosesOnlyPrunes
<1>1. Init => LossInv
  BY InitNamed DEF LossInv, CrashLosesOnlyPrunes, Init
<1>2. LossInv /\ [Next]_vars => LossInv'
  BY LossStep
<1>3. LossInv => CrashLosesOnlyPrunes
  BY DEF LossInv
<1>4. QED
  BY <1>1, <1>2, <1>3, PTL DEF Spec

-----------------------------------------------------------------------------
(* What retrieval can miss.                                                *)

\* Nothing is written without its time, and vectors keep theirs.
LEMMA DatedKept ==
  ASSUME NamedInv, TypeOK', Dated, clock' >= clock, issued' >= issued,
         \A i \in Ids : \/ fact'[i] = fact[i]
                        \/ i > issued /\ fact'[i].updated = clock,
         \A i \in Ids : vec'[i].state # "absent" =>
           vec[i].state # "absent" /\ vec'[i].at = vec[i].at
  PROVE  Dated'
<1>1. /\ clock \in Nat /\ clock' \in Nat /\ issued \in Nat /\ issued' \in Nat
      /\ \A i \in Ids : i \in Nat /\ fact[i].updated \in Nat /\ vec[i].at \in Nat
  BY DEF NamedInv, TypeOK, Fact, Vector, Ids
<1>2. ASSUME NEW i \in Ids
      PROVE  /\ fact'[i].updated <= clock'
             /\ vec'[i].state # "absent" => i <= issued' /\ fact'[i].updated <= vec'[i].at
  <2>1. fact[i].updated <= clock
    BY DEF Dated
  <2>2. vec[i].state # "absent" => i <= issued /\ fact[i].updated <= vec[i].at
    BY DEF Dated
  <2>3. i <= issued => fact'[i] = fact[i]
    BY <1>1
  <2>4. fact'[i].updated <= clock'
    BY <1>1, <2>1
  <2>5. QED
    BY <1>1, <2>2, <2>3, <2>4
<1>3. QED
  BY <1>2 DEF Dated, Ids

LEMMA DeactivatedDates ==
  ASSUME TypeOK, NEW k, NEW i \in Ids
  PROVE  /\ DeactivateVector(k)[i].state # "absent" => vec[i].state # "absent"
         /\ DeactivateVector(k)[i].at = vec[i].at
BY DEF DeactivateVector, TypeOK, Vector

LEMMA PrunedDates ==
  ASSUME TypeOK, NEW a, NEW b, NEW i \in Ids
  PROVE  /\ PrunedVectors(a, b)[i].state # "absent" => vec[i].state # "absent"
         /\ PrunedVectors(a, b)[i].at = vec[i].at
BY DEF PrunedVectors, TypeOK, Vector

LEMMA DatedStep ==
  ASSUME NamedInv, Dated, [Next]_vars
  PROVE  Dated'
<1> USE DEF stores
<1>t. TypeOK /\ TypeOK' /\ issued' >= issued /\ clock \in Nat /\ Ids \subseteq Nat
  BY TypeStep, FactStays DEF NamedInv, TypeOK, Ids
<1>1. ASSUME clock' >= clock, fact' = fact, vec' = vec PROVE Dated'
  BY <1>1, <1>t, DatedKept
<1>2. ASSUME clock' = clock, fact' = fact, NEW k, vec' = DeactivateVector(k)
      PROVE  Dated'
  BY <1>2, <1>t, DatedKept, DeactivatedDates
<1>3. ASSUME clock' = clock, fact' = fact, NEW a, NEW b, vec' = PrunedVectors(a, b)
      PROVE  Dated'
  <2>1. \A i \in Ids : vec'[i].state # "absent" =>
                         vec[i].state # "absent" /\ vec'[i].at = vec[i].at
    <3>1. TAKE i \in Ids
    <3>2. /\ PrunedVectors(a, b)[i].state # "absent" => vec[i].state # "absent"
          /\ PrunedVectors(a, b)[i].at = vec[i].at
      BY <1>t, PrunedDates
    <3>3. vec'[i] = PrunedVectors(a, b)[i]
      BY <1>3
    <3>4. QED
      BY <3>2, <3>3
  <2>2. QED
    BY <1>3, <1>t, <2>1, DatedKept
<1>4. ASSUME clock' = clock, issued < MaxId, NEW k \in Keys, NEW life \in Nat \cup {Null},
             fact' = NewFact(k, life), vec' = vec \/ vec' = DeactivateVector(k)
      PROVE  Dated'
  <2>1. \A i \in Ids : \/ fact'[i] = fact[i]
                       \/ i > issued /\ fact'[i].updated = clock
    <3>1. /\ fact'[issued + 1].updated = clock /\ issued \in Nat
          /\ \A i \in Ids : i # issued + 1 => fact'[i] = fact[i]
      BY <1>4, <1>t, NewFactFields
    <3>2. issued + 1 > issued
      BY <3>1
    <3>3. QED
      BY <3>1, <3>2
  <2>2. QED
    BY <1>4, <1>t, <2>1, DatedKept, DeactivatedDates
<1>5. ASSUME NEW w \in Workers, Ingest(w) PROVE Dated'
  <2>1. CASE Stamp(w)
    BY <1>4, <2>1 DEF Stamp
  <2>2. CASE AddVector(w)
    <3>1. worker[w].id \in 1..issued /\ worker[w].id \in Ids
      BY <1>t, <2>2 DEF NamedInv, IdsNamed, Storing, AddVector, TypeOK, Ids
    <3>2. /\ fact' = fact /\ clock' = clock /\ issued' = issued
          /\ vec' = [vec EXCEPT ![worker[w].id] = [state |-> "live", at |-> clock]]
      BY <2>2 DEF AddVector
    <3>3. ASSUME NEW i \in Ids
          PROVE  /\ fact'[i].updated <= clock'
                 /\ vec'[i].state # "absent" => i <= issued' /\ fact'[i].updated <= vec'[i].at
      <4>1. CASE i = worker[w].id
        BY <1>t, <3>1, <3>2, <4>1 DEF Dated, TypeOK
      <4>2. CASE i # worker[w].id
        BY <1>t, <3>1, <3>2, <4>2 DEF Dated, TypeOK
      <4>3. QED
        BY <4>1, <4>2
    <3>4. QED
      BY <3>3 DEF Dated, Ids
  <2>3. CASE DeactivateOld(w)
    BY <1>2, <2>3 DEF DeactivateOld
  <2>4. CASE Submit(w) \/ Extracted(w) \/ DeactivateFails(w) \/ InsertNew(w)
             \/ InsertFails(w) \/ EmbedFails(w)
    BY <1>1, <1>t, <2>4 DEF Submit, Extracted, DeactivateFails, InsertNew, InsertFails,
       EmbedFails
  <2>5. QED
    BY <1>5, <2>1, <2>2, <2>3, <2>4 DEF Ingest
<1>6. ASSUME NEW keep \in InactiveKeeps, NEW age \in MaxAges,
             Prune(keep, age) \/ PruneFails(keep, age) \/ CliCleanup(keep, age)
      PROVE  Dated'
  BY <1>1, <1>3, <1>t, <1>6 DEF Prune, PruneFails, CliCleanup
<1>7. ASSUME NEW k \in Keys, ResolveContradiction(k) PROVE Dated'
  BY <1>4, <1>7 DEF ResolveContradiction
<1>8. ASSUME NEW k \in Keys, NEW life \in Lifetimes, CliSetExpiry(k, life) PROVE Dated'
  BY <1>4, <1>8 DEF CliSetExpiry
<1>9. ASSUME CacheProfile \/ Shutdown \/ Crash \/ Start \/ Tick \/ UNCHANGED vars
      PROVE  Dated'
  BY <1>1, <1>t, <1>9 DEF CacheProfile, Shutdown, Crash, Start, Tick, vars
<1>10. CASE Next
  BY <1>10, <1>5, <1>6, <1>7, <1>8, <1>9 DEF Next
<1>11. QED
  BY <1>9, <1>10

\* A row stays recallable if the step takes neither its vector, unless the row
\* is condemned by then, nor the ingest that is about to write it.
LEMMA RecallableKept ==
  ASSUME NamedInv, [Next]_vars, TypeOK', NEW k \in Keys, NEW row \in Row,
         Named(row, k), Recallable(row),
         \A i \in Ids : fact[i].key = k /\ vec[i].state = "live" =>
           vec'[i].state = "live" \/ Condemned(i)',
         \A w \in Workers : worker[w].pc = "embedding" =>
           worker'[w] = worker[w] \/ vec'[worker[w].id].state = "live"
  PROVE  Recallable(row)'
<1> SUFFICES ASSUME row.active, ~Condemned(row.id)'
             PROVE  \/ vec'[row.id].state = "live"
                    \/ \E w \in Workers : worker'[w].pc = "embedding"
                                          /\ worker'[w].id = row.id
  BY DEF Recallable
<1>1. row.id \in 1..issued /\ row.id \in Ids /\ fact[row.id].key = k
  BY DEF Named, NamesOwn, Row, NamedInv, TypeOK, Ids
<1>2. ~Condemned(row.id)
  BY <1>1, CondemnedKept
<1>3. CASE vec[row.id].state = "live"
  BY <1>1, <1>3
<1>4. CASE \E w \in Workers : worker[w].pc = "embedding" /\ worker[w].id = row.id
  BY <1>4
<1>5. QED
  BY <1>2, <1>3, <1>4 DEF Recallable

\* Deactivating the row of one key takes no other key's vector.
LEMMA OtherVectorKept ==
  ASSUME NamedInv, NEW j \in Keys, NEW i \in Ids, fact[i].key # j
  PROVE  DeactivateVector(j)[i] = vec[i]
<1>1. Named(sql[j], j) /\ sql[j] \in Row /\ vec \in [Ids -> Vector]
  BY DEF NamedInv, IdsNamed, TypeOK
<1>2. sql[j].active => sql[j].id # i
  BY <1>1 DEF Named, NamesOwn, Ids
<1>3. QED
  BY <1>1, <1>2 DEF DeactivateVector

\* A vector that a prune takes belongs to a fact that the prune condemns.
LEMMA PrunedCondemned ==
  ASSUME NamedInv, TypeOK', Dated, NEW keepCut \in Nat, NEW maxCut \in Nat,
         NoteCuts(maxCut), fact' = fact, vec' = PrunedVectors(keepCut, maxCut),
         NEW i \in Ids, vec[i].state = "live"
  PROVE  vec'[i].state = "live" \/ Condemned(i)'
<1>1. CASE VectorDue(vec[i], keepCut, maxCut)
  <2>1. vec[i].at < maxCut /\ fact[i].updated <= vec[i].at
    BY <1>1 DEF VectorDue, Dated
  <2>2. fact'[i].updated < ageCut'
    BY <2>1, NoteCutsType DEF NamedInv, TypeOK, Fact, Vector
  <2>3. QED
    BY <2>2 DEF Condemned
<1>2. CASE ~VectorDue(vec[i], keepCut, maxCut)
  BY <1>2 DEF PrunedVectors
<1>3. QED
  BY <1>1, <1>2

LEMMA RecallStep ==
  ASSUME RecallInv, [Next]_vars, Faults \subseteq {"update", "delete"},
         Callers \subseteq {"cleanup", "profile"}
  PROVE  AllRecallable'
<1> USE DEF stores, cuts
<1>n. NamedInv /\ TypeOK /\ TypeOK' /\ Dated
  BY TypeStep DEF RecallInv, NamedInv
<1>t. /\ worker \in [Workers -> Call] /\ vec \in [Ids -> Vector]
      /\ sql \in [Keys -> Row] /\ disk \in [Keys -> Row]
      /\ \A w \in Workers : worker[w].pc = "embedding" => worker[w].id \in Ids
  BY <1>n DEF TypeOK, NamedInv, IdsNamed, Storing, Ids
<1>k. \A k \in Keys : /\ Named(sql[k], k) /\ Recallable(sql[k])
                      /\ Named(disk[k], k)
                      /\ Recallable(disk[k]) \/ \E w \in Workers : Replacing(w, k)
  BY <1>n DEF NamedInv, IdsNamed, RecallInv, AllRecallable
<1> DEFINE Takes(k) == \E i \in Ids : /\ fact[i].key = k /\ vec[i].state = "live"
                                      /\ vec'[i].state # "live" /\ ~Condemned(i)'
           Stays(w) == worker'[w] = worker[w] \/ vec'[worker[w].id].state = "live"
           Good(k) == /\ Recallable(sql[k])'
                      /\ Recallable(disk[k])' \/ \E w \in Workers : Replacing(w, k)'
<1>1. ASSUME NEW k \in Keys, NEW row \in Row, Named(row, k), Recallable(row), ~Takes(k),
             \A w \in Workers : worker[w].pc = "embedding" => Stays(w)
      PROVE  Recallable(row)'
  BY <1>1, <1>n, RecallableKept
<1>2. ASSUME NEW k \in Keys, ~Takes(k),
             \A w \in Workers : worker[w].pc = "embedding" => Stays(w),
             \A w \in Workers : worker[w].pc = "replacing" => worker'[w] = worker[w],
             sql'[k] = sql[k] \/ ~sql'[k].active, disk'[k] = disk[k]
      PROVE  Good(k)
  <2>1. Recallable(sql[k])'
    <3>1. CASE sql'[k] = sql[k]
      <4>1. Recallable(sql[k]) /\ Named(sql[k], k) /\ sql[k] \in Row
        BY <1>k, <1>t
      <4>2. QED
        BY <1>1, <1>2, <3>1, <4>1 DEF Recallable, Condemned, Expired
    <3>2. CASE ~sql'[k].active
      BY <3>2 DEF Recallable
    <3>3. QED
      BY <1>2, <3>1, <3>2
  <2>2. CASE Recallable(disk[k])
    <3>1. Named(disk[k], k) /\ disk[k] \in Row
      BY <1>k, <1>t
    <3>2. QED
      BY <1>1, <1>2, <2>1, <2>2, <3>1 DEF Recallable, Condemned, Expired
  <2>3. CASE \E w \in Workers : Replacing(w, k)
    BY <1>2, <1>n, <2>1, <2>3, ReplacingKept DEF Replacing
  <2>4. QED
    BY <1>k, <2>2, <2>3
<1>3. ASSUME vec' = vec, sql' = sql, disk' = disk,
             \A w \in Workers : worker[w].pc \in {"embedding", "replacing"} =>
               worker'[w] = worker[w]
      PROVE  \A k \in Keys : Good(k)
  BY <1>2, <1>3
<1>4. ASSUME NEW w \in Workers, Ingest(w) PROVE \A k \in Keys : Good(k)
  <2>1. CASE Submit(w) \/ Extracted(w) \/ Stamp(w)
    <3>1. /\ vec' = vec /\ sql' = sql /\ disk' = disk
          /\ worker[w].pc \notin {"embedding", "replacing"}
          /\ \A u \in Workers \ {w} : worker'[u] = worker[u]
      BY <1>t, <2>1 DEF Submit, Extracted, Stamp, Step
    <3>2. QED
      BY <1>3, <3>1
  <2>2. CASE DeactivateOld(w) \/ DeactivateFails(w)
    <3>1. PICK j \in Keys : j = fact[worker[w].id].key
      BY <1>n, <2>2 DEF NamedInv, IdsNamed, Storing, DeactivateOld, DeactivateFails
    <3>2. /\ sql' = [sql EXCEPT ![j].active = FALSE]
          /\ disk' = disk /\ fact' = fact /\ (vec' = DeactivateVector(j) \/ vec' = vec)
          /\ worker[w].pc = "stamped"
          /\ \A u \in Workers \ {w} : worker'[u] = worker[u]
      BY <1>t, <2>2, <3>1 DEF DeactivateOld, DeactivateFails, Step, Return
    <3>3. ASSUME NEW k \in Keys, k # j PROVE Good(k)
      <4>1. sql'[k] = sql[k]
        BY <1>n, <3>2, <3>3, DeactivatedRow
      <4>2. ~Takes(k)
        BY <1>n, <3>2, <3>3, OtherVectorKept
      <4>3. QED
        BY <1>2, <3>2, <4>1, <4>2
    <3>4. ~sql'[j].active
      BY <1>n, <3>2, DeactivatedRow
    <3>5. CASE DeactivateOld(w)
      <4>1. worker'[w].pc = "replacing" /\ worker'[w].id = worker[w].id
        BY <1>t, <3>5 DEF DeactivateOld, Step, Call
      <4>2. Replacing(w, j)'
        BY <3>1, <3>2, <4>1 DEF Replacing
      <4>3. Good(j)
        BY <3>4, <4>2 DEF Recallable
      <4>4. QED
        BY <3>3, <4>3
    <3>6. CASE DeactivateFails(w)
      <4>1. vec' = vec /\ disk' = disk
        BY <3>6 DEF DeactivateFails
      <4>2. ~Takes(j)
        BY <4>1
      <4>3. Good(j)
        BY <1>2, <3>2, <3>4, <4>2
      <4>4. QED
        BY <3>3, <4>3
    <3>7. QED
      BY <2>2, <3>5, <3>6
  <2>3. CASE InsertNew(w)
    <3>1. PICK j \in Keys : j = fact[worker[w].id].key
      BY <1>n, <2>3 DEF NamedInv, IdsNamed, Storing, InsertNew
    <3>2. /\ sql' = Replaced(j, worker[w].id) /\ disk' = sql' /\ vec' = vec
          /\ worker[w].pc = "replacing"
          /\ \A u \in Workers \ {w} : worker'[u] = worker[u]
          /\ worker'[w].pc = "embedding" /\ worker'[w].id = worker[w].id
      BY <1>t, <2>3, <3>1 DEF InsertNew, Step, Call
    <3>r. /\ sql'[j] = [id |-> worker[w].id, active |-> TRUE]
          /\ \A k \in Keys : k # j => sql'[k] = sql[k]
      BY <1>n, <3>2, ReplacedRow
    <3>3. ASSUME NEW k \in Keys PROVE Recallable(sql[k])'
      <4>1. CASE k = j
        <5>1. sql'[k].id = worker'[w].id
          BY <3>2, <3>r, <4>1
        <5>2. QED
          BY <3>2, <5>1 DEF Recallable
      <4>2. CASE k # j
        <5>1. sql'[k] = sql[k] /\ ~Takes(k)
          BY <3>2, <3>r, <4>2
        <5>2. \A u \in Workers : worker[u].pc = "embedding" => Stays(u)
          BY <3>2
        <5>3. Recallable(sql[k]) /\ Named(sql[k], k) /\ sql[k] \in Row
          BY <1>k, <1>t
        <5>4. QED
          BY <1>1, <5>1, <5>2, <5>3 DEF Recallable, Condemned, Expired
      <4>3. QED
        BY <4>1, <4>2
    <3>4. QED
      BY <3>2, <3>3 DEF Recallable
  <2>4. CASE AddVector(w)
    <3>1. /\ sql' = sql /\ disk' = disk /\ worker[w].pc = "embedding"
          /\ \A u \in Workers \ {w} : worker'[u] = worker[u]
          /\ vec' = [vec EXCEPT ![worker[w].id] = [state |-> "live", at |-> clock]]
      BY <1>t, <2>4 DEF AddVector, Return
    <3>2. vec'[worker[w].id].state = "live" /\ \A k \in Keys : ~Takes(k)
      BY <1>t, <3>1
    <3>3. QED
      BY <1>2, <3>1, <3>2
  <2>5. ~InsertFails(w) /\ ~EmbedFails(w)
    BY DEF InsertFails, EmbedFails, MayFail
  <2>6. QED
    BY <1>4, <2>1, <2>2, <2>3, <2>4, <2>5 DEF Ingest
<1>5. ASSUME NEW keep \in InactiveKeeps, NEW age \in MaxAges,
             Prune(keep, age) \/ PruneFails(keep, age) \/ CliCleanup(keep, age)
      PROVE  \A k \in Keys : Good(k)
  <2>1. Cutoff(keep) \in Nat /\ Cutoff(age) \in Nat
    BY <1>n, CutoffType DEF TypeOK
  <2>2. /\ NoteCuts(Cutoff(age)) /\ fact' = fact /\ disk' = disk /\ worker' = worker
        /\ vec' = vec \/ vec' = PrunedVectors(Cutoff(keep), Cutoff(age))
        /\ sql' = sql \/ sql' = PrunedRows(sql, Cutoff(keep), Cutoff(age))
    BY <1>5 DEF Prune, PruneFails, CliCleanup
  <2>3. ASSUME NEW k \in Keys PROVE Good(k)
    <3>1. ~Takes(k)
      BY <1>n, <2>1, <2>2, PrunedCondemned
    <3>2. sql'[k] = sql[k] \/ ~sql'[k].active
      BY <2>2 DEF PrunedRows, NoRow
    <3>3. QED
      BY <1>2, <2>2, <3>1, <3>2
  <2>4. QED
    BY <2>3
<1>6. ASSUME CacheProfile PROVE \A k \in Keys : Good(k)
  <2>1. vec' = vec /\ sql' = sql /\ disk' = sql /\ worker' = worker
    BY <1>6 DEF CacheProfile
  <2>2. \A k \in Keys : Recallable(sql[k])'
    <3>1. ASSUME NEW k \in Keys PROVE Recallable(sql[k])'
      <4>1. Recallable(sql[k]) /\ Named(sql[k], k) /\ sql[k] \in Row /\ ~Takes(k)
        BY <1>k, <1>t, <2>1
      <4>2. QED
        BY <1>1, <2>1, <4>1 DEF Recallable, Condemned, Expired
    <3>2. QED
      BY <3>1
  <2>3. QED
    BY <2>1, <2>2 DEF Recallable
<1>7. ASSUME Shutdown PROVE \A k \in Keys : Good(k)
  <2>1. /\ vec' = vec /\ sql' = disk /\ disk' = disk
        /\ \A w \in Workers : worker[w].pc = "idle"
    BY <1>7 DEF Shutdown, Exit
  <2>2. ASSUME NEW k \in Keys PROVE Recallable(sql[k])'
    <3>1. Recallable(disk[k]) /\ Named(disk[k], k) /\ disk[k] \in Row /\ ~Takes(k)
      BY <1>k, <1>t, <2>1 DEF Replacing
    <3>2. QED
      BY <1>1, <2>1, <3>1 DEF Recallable, Condemned, Expired
  <2>3. QED
    BY <2>1, <2>2 DEF Recallable
<1>8. ASSUME Start \/ Tick \/ UNCHANGED vars PROVE \A k \in Keys : Good(k)
  BY <1>3, <1>8 DEF Start, Tick, vars
<1>9. /\ ~Crash /\ ~\E k \in Keys : ResolveContradiction(k)
      /\ ~\E k \in Keys, life \in Lifetimes : CliSetExpiry(k, life)
  BY DEF Crash, MayFail, ResolveContradiction, CliSetExpiry
<1>10. \A k \in Keys : Good(k)
  <2>1. CASE Next
    BY <2>1, <1>4, <1>5, <1>6, <1>7, <1>8, <1>9 DEF Next
  <2>2. QED
    BY <1>8, <2>1
<1>11. QED
  BY <1>10 DEF AllRecallable

\* Without faults but those of LanceDB's update and delete, and without the two
\* callers that write rows that have no vector, every active row not condemned
\* by the pruner is retrievable whenever no ingest is past its extractor, in
\* whichever order the ingests and prunes of several threads ran.
THEOREM RecallIsComplete ==
  ASSUME Faults \subseteq {"update", "delete"}, Callers \subseteq {"cleanup", "profile"}
  PROVE  Spec => []RecallComplete
<1>1. Init => RecallInv
  <2>1. Init => Dated /\ AllRecallable
    BY DEF Init, Dated, AllRecallable, Recallable, NoRow, Ids
  <2>2. QED
    BY <2>1, InitNamed DEF RecallInv
<1>2. RecallInv /\ [Next]_vars => RecallInv'
  BY NamedStep, DatedStep, RecallStep DEF RecallInv
<1>3. RecallInv => RecallComplete
  BY DEF RecallInv, AllRecallable, Recallable, RecallComplete, Running
<1>4. QED
  BY <1>1, <1>2, <1>3, PTL DEF Spec
=============================================================================
