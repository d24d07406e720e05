------------------------- MODULE MemoryServerProofs -------------------------
(***************************************************************************)
(* The server's memory store keeps its two databases consistent, for any   *)
(* number of keys, concurrent ingests, ids, faults and prunes: IInv of     *)
(* MemoryServer is inductive.                                              *)
(***************************************************************************)
EXTENDS MemoryServer, MemoryStoreProofs

-----------------------------------------------------------------------------
(* What the lemmas below use of a well-typed, consistent state.            *)

USE BoundsAssumption, ClockAssumption

LEMMA CutsGrow ==
  ASSUME IInv, [Next]_vars
  PROVE  ageCut' >= ageCut /\ expCut' >= expCut /\ expCut' <= clock'
BY CutsGrowStep DEF IInv

\* On the event loop, an ingest past its extractor runs alone.
LEMMA RunsAlone ==
  ASSUME IInv, NEW w \in Workers, MayRun(w)
  PROVE  up /\ \A u \in Workers : Running(u) => u = w
BY ServerAssumption DEF MayRun

LEMMA NobodyRuns ==
  ASSUME IInv, LoopFree \/ ~up
  PROVE  \A u \in Workers : ~Running(u)
BY ServerAssumption DEF LoopFree, IInv, Serial

\* The rows and vectors untouched, the part of IInv about them is kept.
LEMMA StoresKept ==
  ASSUME IInv, TypeOK', UNCHANGED stores, issued' = issued,
         ageCut' >= ageCut, expCut' >= expCut
  PROVE  IdsIssued' /\ LiveVectorOwned'
<1> USE DEF stores
<1>1. IdsIssued'
  BY DEF IInv, IdsIssued, NamesOwn, Ids
<1>2. LiveVectorOwned'
  BY CondemnedStays DEF IInv, LiveVectorOwned, Owned, Ids
<1>3. QED
  BY <1>1, <1>2

\* Without an ingest past its extractor there is nothing to say of one.
LEMMA QuietKept ==
  ASSUME \A u \in Workers : ~Running(u)', ~up' => sql' = disk'
  PROVE  Serial' /\ StoringNewest'
BY DEF Serial, StoringNewest, Storing, Running

-----------------------------------------------------------------------------
(* One lemma per action that writes to the stores.                         *)

\* What a step must show for the invariant to survive it.
Rest == Serial /\ IdsIssued /\ StoringNewest /\ LiveVectorOwned

LEMMA StampKeeps ==
  ASSUME IInv, TypeOK', [Next]_vars, NEW w \in Workers, Stamp(w)
  PROVE  Rest'
<1>1. PICK k \in Keys, life \in Lifetimes : fact' = NewFact(k, life)
  BY DEF Stamp
<1>2. /\ issued \in Nat /\ issued' = issued + 1 /\ issued + 1 \in Ids
      /\ fact \in [Ids -> Fact]
  BY DEF Stamp, IInv, TypeOK, Ids
<1>3. fact'[issued + 1].key = k /\ \A i \in Ids : i # issued + 1 => fact'[i] = fact[i]
  BY <1>1, <1>2 DEF NewFact
<1>4. UNCHANGED <<sql, disk, vec, up>>
  BY DEF Stamp
<1>5. up /\ \A u \in Workers : Running(u) => u = w
  BY RunsAlone DEF Stamp
<1>6. /\ \A u \in Workers \ {w} : worker'[u] = worker[u]
      /\ worker'[w].pc = "stamped" /\ worker'[w].id = issued + 1
  BY DEF Stamp, IInv, TypeOK, Call
<1>7. Serial'
  BY <1>4, <1>5, <1>6 DEF Serial, Running
<1>8. IdsIssued'
  BY <1>2, <1>3, <1>4 DEF IInv, IdsIssued, NamesOwn, TypeOK, Row, Ids
<1>9. StoringNewest'
  <2>1. vec'[issued'].state = "absent"
    BY <1>2, <1>4 DEF IInv, IdsIssued, Ids
  <2>2. \A u \in Workers : Storing(u)' => u = w
    BY <1>5, <1>6 DEF Storing, Running
  <2>3. QED
    BY <1>2, <1>6, <2>1, <2>2 DEF StoringNewest
<1>10. LiveVectorOwned'
  <2>1. ASSUME NEW i \in Ids, vec'[i].state = "live"
        PROVE  i # issued + 1 /\ fact'[i] = fact[i] /\ vec[i].state = "live"
    BY <1>2, <1>3, <1>4, <2>1 DEF IInv, IdsIssued, Ids
  <2>2. QED
    BY <1>4, <2>1, CutsGrow, CondemnedStays DEF IInv, LiveVectorOwned, Owned, Ids
<1>11. QED
  BY <1>7, <1>8, <1>9, <1>10 DEF Rest

\* Deactivating the active row of key k, no other vector stays live under k.
LEMMA DeactivatedVector ==
  ASSUME IInv, NEW k \in Keys, NEW i \in Ids, DeactivateVector(k)[i].state = "live"
  PROVE  /\ vec[i].state = "live"
         /\ Condemned(i) \/ fact[i].key # k
<1>1. sql \in [Keys -> Row] /\ vec \in [Ids -> Vector] /\ fact[i].key \in Keys \cup {Null}
  BY DEF IInv, TypeOK, Fact
<1>2. vec[i].state = "live"
  BY <1>1 DEF DeactivateVector, Vector
<1>3. CASE Owned(sql, i) /\ fact[i].key = k
  <2>1. sql[k].active /\ sql[k].id = i
    BY <1>1, <1>3 DEF Owned
  <2>2. DeactivateVector(k)[i].state = "dead"
    BY <1>1, <1>2, <2>1 DEF DeactivateVector, Vector
  <2>3. QED
    BY <2>2
<1>4. QED
  BY <1>2, <1>3 DEF IInv, LiveVectorOwned

LEMMA DeactivatedAbsent ==
  ASSUME TypeOK, NEW k \in Keys, NEW i \in Ids, vec[i].state = "absent"
  PROVE  DeactivateVector(k)[i].state = "absent"
BY DEF DeactivateVector, TypeOK, Vector

LEMMA DeactivateOldKeeps ==
  ASSUME IInv, TypeOK', [Next]_vars, NEW w \in Workers, DeactivateOld(w)
  PROVE  Rest'
<1> DEFINE k == fact[worker[w].id].key
<1>1. /\ issued \in Ids /\ worker[w].id = issued /\ k \in Keys
      /\ vec[issued].state = "absent"
  BY DEF DeactivateOld, IInv, TypeOK, StoringNewest, Storing, IdsIssued, Ids
<1>2. UNCHANGED <<issued, fact, disk, up, ageCut, expCut>>
  BY DEF DeactivateOld, cuts
<1>3. /\ vec' = DeactivateVector(k) /\ sql' \in [Keys -> Row]
      /\ \A j \in Keys : j # k => sql'[j] = sql[j]
      /\ sql'[k] = [sql[k] EXCEPT !.active = FALSE]
      /\ sql'[k].id = sql[k].id /\ ~sql'[k].active
  <2>1. sql' = [sql EXCEPT ![k].active = FALSE]
    BY DEF DeactivateOld
  <2>2. QED
    BY <1>1, <2>1, DeactivateRowType DEF DeactivateOld, IInv, TypeOK, Row
<1>4. up /\ \A u \in Workers : Running(u) => u = w
  BY RunsAlone DEF DeactivateOld
<1>5. /\ \A u \in Workers \ {w} : worker'[u] = worker[u]
      /\ worker'[w].pc = "replacing" /\ worker'[w].id = issued
  BY <1>1 DEF DeactivateOld, Step, IInv, TypeOK, Call
<1>6. Serial'
  BY <1>2, <1>4, <1>5 DEF Serial, Running
<1>7. IdsIssued'
  <2>1. \A i \in Ids : IF i <= issued THEN fact'[i].key \in Keys
                                      ELSE vec'[i].state = "absent"
    BY <1>1, <1>2, <1>3, DeactivatedAbsent DEF IInv, IdsIssued
  <2>2. sql[k] = NoRow => sql'[k] = NoRow
    BY <1>1, <1>3, NoRowFields DEF IInv, TypeOK
  <2>3. ASSUME NEW j \in Keys
        PROVE  /\ sql'[j].id <= issued' /\ disk'[j].id <= issued'
               /\ sql'[j] = NoRow \/ disk'[j].id <= sql'[j].id
               /\ NamesOwn(sql[j], j)' /\ NamesOwn(disk[j], j)'
    <3>1. sql'[j].id = sql[j].id /\ (sql'[j].active => sql[j].active)
      BY <1>3
    <3>2. sql[j] = NoRow => sql'[j] = NoRow
      BY <1>3, <2>2
    <3>3. QED
      BY <1>2, <3>1, <3>2 DEF IInv, IdsIssued, NamesOwn
  <2>4. QED
    BY <1>2, <2>1, <2>3 DEF IdsIssued, NamesOwn, Ids
<1>8. StoringNewest'
  <2>1. vec'[issued'].state = "absent" /\ issued' # 0
    BY <1>1, <1>2, <1>3, DeactivatedAbsent DEF IInv, Ids
  <2>2. \A u \in Workers : Storing(u)' => u = w
    BY <1>4, <1>5 DEF Storing, Running
  <2>3. QED
    BY <1>1, <1>2, <1>3, <1>5, <2>1, <2>2 DEF StoringNewest
<1>9. LiveVectorOwned'
  <2>1. ASSUME NEW i \in Ids, vec'[i].state = "live"
        PROVE  Condemned(i)' \/ (Owned(sql, i)' /\ Owned(disk, i)')
    <3>1. vec[i].state = "live" /\ (Condemned(i) \/ fact[i].key # k)
      BY <1>1, <1>3, <2>1, DeactivatedVector
    <3>2. Condemned(i) => Condemned(i)'
      BY <1>2 DEF Condemned, Expired
    <3>3. i <= issued /\ fact[i].key \in Keys
      BY <3>1 DEF IInv, IdsIssued
    <3>4. QED
      BY <1>2, <1>3, <3>1, <3>2, <3>3 DEF IInv, LiveVectorOwned, Owned
  <2>2. QED
    BY <2>1 DEF LiveVectorOwned, Ids
<1>10. QED
  BY <1>6, <1>7, <1>8, <1>9 DEF Rest

LEMMA InsertNewKeeps ==
  ASSUME IInv, TypeOK', [Next]_vars, NEW w \in Workers, InsertNew(w)
  PROVE  Rest'
<1> DEFINE k == fact[worker[w].id].key
<1>1. /\ issued \in Ids /\ worker[w].id = issued /\ k \in Keys
      /\ vec[issued].state = "absent" /\ ~sql[k].active
  BY DEF InsertNew, IInv, TypeOK, StoringNewest, Storing, IdsIssued, Ids
<1>2. UNCHANGED <<issued, fact, vec, up, ageCut, expCut>>
  BY DEF InsertNew, cuts
<1>3. /\ disk' = sql' /\ sql'[k] = [id |-> issued, active |-> TRUE]
      /\ \A j \in Keys : j # k => sql'[j] = sql[j]
  BY <1>1 DEF InsertNew, Replaced, IInv, TypeOK
<1>4. up /\ \A u \in Workers : Running(u) => u = w
  BY RunsAlone DEF InsertNew
<1>5. /\ \A u \in Workers \ {w} : worker'[u] = worker[u]
      /\ worker'[w].pc = "embedding" /\ worker'[w].id = issued
  BY <1>1 DEF InsertNew, Step, IInv, TypeOK, Call
<1>6. Serial'
  BY <1>2, <1>4, <1>5 DEF Serial, Running
<1>7. IdsIssued'
  <2>1. ASSUME NEW j \in Keys
        PROVE  /\ sql'[j].id <= issued' /\ NamesOwn(sql[j], j)'
               /\ disk'[j].id <= sql'[j].id
    <3>1. CASE j = k
      BY <1>1, <1>2, <1>3, <3>1 DEF NamesOwn, Ids
    <3>2. CASE j # k
      BY <1>2, <1>3, <3>2 DEF IInv, IdsIssued, NamesOwn, TypeOK, Row
    <3>3. QED
      BY <3>1, <3>2
  <2>2. QED
    BY <1>2, <1>3, <2>1 DEF IInv, IdsIssued, NamesOwn, Ids
<1>8. StoringNewest'
  <2>1. \A u \in Workers : Storing(u)' => u = w
    BY <1>4, <1>5 DEF Storing, Running
  <2>2. QED
    BY <1>1, <1>2, <1>3, <1>5, <2>1 DEF StoringNewest, Owned, Ids
<1>9. LiveVectorOwned'
  <2>1. ASSUME NEW i \in Ids, vec'[i].state = "live", ~Condemned(i)'
        PROVE  Owned(sql, i)' /\ Owned(disk, i)'
    <3>1. fact[i].key \in Keys /\ Owned(sql, i)
      BY <1>2, <2>1 DEF IInv, LiveVectorOwned, IdsIssued, Condemned, Expired
    <3>2. fact[i].key # k
      BY <1>1, <3>1 DEF Owned
    <3>3. QED
      BY <1>2, <1>3, <3>1, <3>2 DEF Owned
  <2>2. QED
    BY <2>1 DEF LiveVectorOwned, Ids
<1>10. QED
  BY <1>6, <1>7, <1>8, <1>9 DEF Rest

LEMMA AddVectorKeeps ==
  ASSUME IInv, TypeOK', [Next]_vars, NEW w \in Workers, AddVector(w)
  PROVE  Rest'
<1>1. /\ issued \in Ids /\ worker[w].id = issued
      /\ Owned(sql, issued) /\ Owned(disk, issued)
  BY DEF AddVector, IInv, TypeOK, StoringNewest, Storing, Ids
<1>2. UNCHANGED <<issued, fact, sql, disk, up, ageCut, expCut>>
  BY DEF AddVector, cuts
<1>3. \A i \in Ids : i # issued => vec'[i] = vec[i]
  BY <1>1 DEF AddVector, IInv, TypeOK
<1>4. up /\ \A u \in Workers : Running(u) => u = w
  BY RunsAlone DEF AddVector
<1>5. /\ \A u \in Workers \ {w} : worker'[u] = worker[u]
      /\ worker'[w].pc \in {"looping", "idle"}
  BY DEF AddVector, Return, Idle, IInv, TypeOK, Call
<1>6. Serial'
  BY <1>2, <1>4, <1>5 DEF Serial, Running
<1>7. IdsIssued'
  BY <1>1, <1>2, <1>3 DEF IInv, IdsIssued, NamesOwn, Ids
<1>8. StoringNewest'
  BY <1>4, <1>5 DEF StoringNewest, Storing, Running
<1>9. LiveVectorOwned'
  BY <1>1, <1>2, <1>3 DEF IInv, LiveVectorOwned, Owned, Condemned, Expired, Ids
<1>10. QED
  BY <1>6, <1>7, <1>8, <1>9 DEF Rest

\* A rollback leaves what is on disk: a failed commit, a crash, a shutdown.
LEMMA RollbackKeeps ==
  ASSUME IInv, TypeOK', sql' = disk, UNCHANGED <<issued, fact, disk, vec, cuts>>,
         \A u \in Workers : ~Running(u)'
  PROVE  Rest'
<1>1. Serial' /\ StoringNewest'
  BY QuietKept
<1>2. IdsIssued'
  BY DEF cuts, IInv, IdsIssued, NamesOwn, TypeOK, Row, Ids
<1>3. LiveVectorOwned'
  BY DEF cuts, IInv, LiveVectorOwned, Owned, Condemned, Expired, Ids
<1>4. QED
  BY <1>1, <1>2, <1>3 DEF Rest

LEMMA PruneKeeps ==
  ASSUME IInv, TypeOK', [Next]_vars, NEW keep \in InactiveKeeps, NEW age \in MaxAges,
         Prune(keep, age) \/ PruneFails(keep, age) \/ CliCleanup(keep, age)
  PROVE  Rest'
<1> DEFINE rows == PrunedRows(sql, Cutoff(keep), Cutoff(age))
           vectors == PrunedVectors(Cutoff(keep), Cutoff(age))
<1>1. /\ UNCHANGED <<issued, fact, disk, worker, up>>
      /\ NoteCuts(Cutoff(age))
      /\ sql' \in {sql, rows} /\ vec' \in {vec, vectors}
      /\ ~up => sql' = sql
  BY DEF Prune, PruneFails, CliCleanup, LoopFree
<1>2. \A u \in Workers : ~Running(u)'
  BY <1>1, NobodyRuns DEF Prune, PruneFails, CliCleanup, Running
<1>3. Serial' /\ StoringNewest'
  BY <1>1, <1>2, QuietKept DEF IInv, Serial
<1>4. \A i \in Ids : vec'[i].state \in {vec[i].state, "absent"}
  BY <1>1 DEF PrunedVectors, IInv, TypeOK, Vector
<1>5. ASSUME NEW k \in Keys
      PROVE  \/ sql'[k] = sql[k]
             \/ sql'[k] = NoRow /\ RowDue(sql[k], Cutoff(keep), Cutoff(age))
  <2>1. CASE sql' = rows
    BY <2>1 DEF PrunedRows
  <2>2. QED
    BY <1>1, <2>1
<1>6. IdsIssued'
  <2>1. ASSUME NEW k \in Keys
        PROVE  /\ sql'[k].id <= issued' /\ disk'[k].id <= issued'
               /\ sql'[k] = NoRow \/ disk'[k].id <= sql'[k].id
               /\ NamesOwn(sql[k], k)' /\ NamesOwn(disk[k], k)'
    BY <1>1, <1>5 DEF NoRow, IInv, TypeOK, IdsIssued, NamesOwn
  <2>2. \A i \in Ids : IF i <= issued' THEN fact'[i].key \in Keys
                                       ELSE vec'[i].state = "absent"
    BY <1>1, <1>4 DEF IInv, IdsIssued
  <2>3. QED
    BY <2>1, <2>2 DEF IdsIssued, NamesOwn, Ids
<1>7. LiveVectorOwned'
  <2>1. ASSUME NEW i \in Ids, vec'[i].state = "live", ~Condemned(i)'
        PROVE  Owned(sql, i)' /\ Owned(disk, i)'
    <3>1. vec[i].state = "live" /\ ~Condemned(i) /\ fact[i].key \in Keys
      <4>1. ageCut' >= ageCut /\ expCut' >= expCut
        BY CutsGrow
      <4>2. QED
        BY <1>1, <1>4, <2>1, <4>1, CondemnedStays DEF IInv, IdsIssued
    <3>2. Owned(sql, i) /\ Owned(disk, i)
      BY <3>1 DEF IInv, LiveVectorOwned
    <3>3. ~RowDue(sql[fact[i].key], Cutoff(keep), Cutoff(age))
      <4>1. /\ fact[i].updated \in Nat /\ fact[i].expires \in Nat \cup {Null}
            /\ clock \in Nat
        BY DEF IInv, TypeOK, Fact
      <4>2. expCut' = clock /\ ageCut' >= Cutoff(age) /\ Cutoff(age) \in Nat /\ ageCut' \in Nat
        BY <1>1, <4>1, CutoffType, NoteCutsType DEF NoteCuts, IInv
      <4>3. fact[i].updated >= Cutoff(age) /\ ~Expired(i, clock)
        BY <1>1, <2>1, <4>1, <4>2 DEF Condemned, Expired
      <4>4. QED
        BY <3>2, <4>1, <4>2, <4>3 DEF RowDue, Owned
    <3>4. QED
      BY <1>1, <1>5, <3>1, <3>2, <3>3 DEF Owned
  <2>2. QED
    BY <2>1 DEF LiveVectorOwned, Ids
<1>8. QED
  BY <1>3, <1>6, <1>7 DEF Rest

\* A row without a vector takes the place of the row of k, and of its vector.
LEMMA WithdrawKeeps ==
  ASSUME IInv, TypeOK', NEW k \in Keys, NEW life \in Lifetimes \cup {Null},
         fact' = NewFact(k, life), issued < MaxId, issued' = issued + 1,
         sql' = Replaced(k, issued + 1), disk' \in {disk, sql'},
         vec' = DeactivateVector(k),
         UNCHANGED <<up, worker, cuts>>, ~up => disk' = sql',
         \A u \in Workers : ~Running(u)
  PROVE  Rest'
<1>1. issued + 1 \in Ids /\ issued \in Nat /\ fact \in [Ids -> Fact]
  BY DEF IInv, TypeOK, Ids
<1>2. fact'[issued + 1].key = k /\ \A i \in Ids : i # issued + 1 => fact'[i] = fact[i]
  BY <1>1 DEF NewFact
<1>3. /\ sql'[k] = [id |-> issued + 1, active |-> TRUE]
      /\ \A j \in Keys : j # k => sql'[j] = sql[j]
  BY DEF Replaced, IInv, TypeOK
<1>4. Serial' /\ StoringNewest'
  BY QuietKept DEF Running
<1>5. IdsIssued'
  <2>1. ASSUME NEW j \in Keys
        PROVE  /\ sql'[j].id <= issued' /\ disk'[j].id <= issued'
               /\ sql'[j] = NoRow \/ disk'[j].id <= sql'[j].id
               /\ NamesOwn(sql[j], j)' /\ NamesOwn(disk[j], j)'
    <3>1. /\ sql[j].id \in Nat /\ sql[j].id <= issued
          /\ disk[j].id \in Nat /\ disk[j].id <= issued
          /\ sql[j] = NoRow \/ disk[j].id <= sql[j].id
      BY DEF IInv, IdsIssued, TypeOK, Row
    <3>2. sql'[j].id <= issued' /\ NamesOwn(sql[j], j)'
      <4>1. CASE j = k
        BY <1>1, <1>2, <1>3, <4>1 DEF NamesOwn
      <4>2. CASE j # k
        BY <1>1, <1>2, <1>3, <3>1, <4>2 DEF IInv, IdsIssued, NamesOwn, Ids
      <4>3. QED
        BY <4>1, <4>2
    <3>3. CASE disk' = sql'
      <4>1. sql'[j].id \in Nat
        BY DEF TypeOK, Row
      <4>2. QED
        BY <3>2, <3>3, <4>1 DEF NamesOwn
    <3>4. CASE disk' = disk
      <4>1. NamesOwn(disk[j], j)'
        BY <1>1, <1>2, <3>1, <3>4 DEF IInv, IdsIssued, NamesOwn, Ids
      <4>2. sql'[j] = NoRow \/ disk'[j].id <= sql'[j].id
        BY <1>1, <1>3, <3>1, <3>4
      <4>3. QED
        BY <1>1, <3>1, <3>2, <3>4, <4>1, <4>2
    <3>5. QED
      BY <3>3, <3>4
  <2>2. \A i \in Ids : IF i <= issued' THEN fact'[i].key \in Keys
                                       ELSE vec'[i].state = "absent"
    BY <1>1, <1>2, DeactivatedAbsent DEF IInv, IdsIssued, Ids
  <2>3. QED
    BY <2>1, <2>2 DEF IdsIssued, NamesOwn, Ids
<1>6. LiveVectorOwned'
  <2>1. ASSUME NEW i \in Ids, vec'[i].state = "live"
        PROVE  Condemned(i)' \/ (Owned(sql, i)' /\ Owned(disk, i)')
    <3>1. vec[i].state = "live" /\ (Condemned(i) \/ fact[i].key # k)
      BY <2>1, DeactivatedVector
    <3>2. i # issued + 1 /\ fact[i].key \in Keys
      BY <1>1, <3>1 DEF IInv, IdsIssued
    <3>3. Condemned(i) => Condemned(i)'
      BY <1>2, <3>2 DEF Condemned, Expired, cuts
    <3>4. QED
      BY <1>2, <1>3, <3>1, <3>2, <3>3 DEF IInv, LiveVectorOwned, Owned
  <2>2. QED
    BY <2>1 DEF LiveVectorOwned, Ids
<1>7. QED
  BY <1>4, <1>5, <1>6 DEF Rest

-----------------------------------------------------------------------------
(* The inductive invariant.                                                *)

LEMMA InitHolds == Init => IInv
<1> SUFFICES ASSUME Init PROVE IInv
  OBVIOUS
<1>1. TypeOK
  BY InitTypeOK
<1>2. expCut <= clock /\ Serial /\ StoringNewest
  BY DEF Init, Serial, StoringNewest, Storing, Running, Idle
<1>3. IdsIssued /\ LiveVectorOwned
  BY DEF Init, IdsIssued, NamesOwn, NoRow, LiveVectorOwned, Ids
<1>4. QED
  BY <1>1, <1>2, <1>3 DEF IInv

LEMMA StepHolds == IInv /\ [Next]_vars => IInv'
<1> SUFFICES ASSUME IInv, [Next]_vars PROVE IInv'
  OBVIOUS
<1>1. TypeOK'
  BY TypeStep DEF IInv
<1>2. expCut' <= clock' /\ ageCut' >= ageCut /\ expCut' >= expCut
  BY <1>1, CutsGrow
<1>3. ASSUME NEW w \in Workers, Submit(w) PROVE Rest'
  <2>1. IdsIssued' /\ LiveVectorOwned'
    BY <1>1, <1>2, <1>3, StoresKept DEF Submit
  <2>2. \A u \in Workers : worker'[u] = worker[u] \/ (u = w /\ worker'[u].pc = "extracting")
    BY <1>3 DEF Submit, Step, IInv, TypeOK, Call
  <2>3. Serial' /\ StoringNewest'
    BY <1>3, <2>2 DEF Submit, IInv, Serial, StoringNewest, Storing, Running, stores, Owned, Ids
  <2>4. QED
    BY <2>1, <2>3 DEF Rest
<1>4. ASSUME NEW w \in Workers, Extracted(w) PROVE Rest'
  <2>1. IdsIssued' /\ LiveVectorOwned'
    BY <1>1, <1>2, <1>4, StoresKept DEF Extracted
  <2>2. \A u \in Workers : worker'[u] = worker[u] \/ (u = w /\ worker'[u].pc \in {"looping", "idle"})
    BY <1>4 DEF Extracted, Idle, IInv, TypeOK, Call
  <2>3. up /\ \A u \in Workers : Running(u) => u = w
    BY <1>4, RunsAlone DEF Extracted
  <2>4. Serial' /\ StoringNewest'
    <3>1. ~Storing(w)'
      BY <1>4, <2>2 DEF Extracted, Storing
    <3>2. \A u \in Workers : u # w => ~Running(u)'
      BY <2>2, <2>3 DEF Running
    <3>3. QED
      BY <1>4, <2>3, <3>1, <3>2 DEF Extracted, Serial, StoringNewest, Storing, Running
  <2>5. QED
    BY <2>1, <2>4 DEF Rest
<1>5. ASSUME NEW w \in Workers, EmbedFails(w) PROVE Rest'
  <2>1. IdsIssued' /\ LiveVectorOwned'
    BY <1>1, <1>2, <1>5, StoresKept DEF EmbedFails
  <2>2. up /\ \A u \in Workers : Running(u) => u = w
    BY <1>5, RunsAlone DEF EmbedFails
  <2>3. \A u \in Workers : ~Running(u)'
    BY <1>5, <2>2 DEF EmbedFails, Return, Idle, Running, IInv, TypeOK
  <2>4. QED
    BY <1>5, <2>1, <2>2, <2>3, QuietKept DEF EmbedFails, Rest
<1>6. ASSUME NEW w \in Workers, Stamp(w) PROVE Rest'
  BY <1>1, <1>6, StampKeeps
<1>7. ASSUME NEW w \in Workers, DeactivateOld(w) PROVE Rest'
  BY <1>1, <1>7, DeactivateOldKeeps
<1>8. ASSUME NEW w \in Workers, DeactivateFails(w) PROVE Rest'
  BY <1>8, ServerAssumption DEF DeactivateFails, MayFail
<1>9. ASSUME NEW w \in Workers, InsertNew(w) PROVE Rest'
  BY <1>1, <1>9, InsertNewKeeps
<1>10. ASSUME NEW w \in Workers, InsertFails(w) PROVE Rest'
  <2>1. up /\ \A u \in Workers : Running(u) => u = w
    BY <1>10, RunsAlone DEF InsertFails
  <2>2. \A u \in Workers : ~Running(u)'
    BY <1>10, <2>1 DEF InsertFails, Return, Idle, Running, IInv, TypeOK
  <2>3. QED
    BY <1>1, <1>10, <2>2, RollbackKeeps DEF InsertFails
<1>11. ASSUME NEW w \in Workers, AddVector(w) PROVE Rest'
  BY <1>1, <1>11, AddVectorKeeps
<1>12. ASSUME NEW keep \in InactiveKeeps, NEW age \in MaxAges,
              Prune(keep, age) \/ PruneFails(keep, age) \/ CliCleanup(keep, age)
       PROVE Rest'
  BY <1>1, <1>12, PruneKeeps
<1>13. ASSUME NEW k \in Keys, ResolveContradiction(k) PROVE Rest'
  BY <1>1, <1>13, NobodyRuns, WithdrawKeeps DEF ResolveContradiction, LoopFree
<1>14. ASSUME NEW k \in Keys, NEW life \in Lifetimes, CliSetExpiry(k, life) PROVE Rest'
  BY <1>1, <1>14, NobodyRuns, WithdrawKeeps DEF CliSetExpiry
<1>15. ASSUME CacheProfile PROVE Rest'
  <2>1. Serial' /\ StoringNewest'
    BY <1>15, NobodyRuns, QuietKept DEF CacheProfile, LoopFree, Running
  <2>2. IdsIssued' /\ LiveVectorOwned'
    BY <1>15 DEF CacheProfile, cuts, IInv, IdsIssued, NamesOwn, LiveVectorOwned,
                 Owned, Condemned, Expired, TypeOK, Row, Ids
  <2>3. QED
    BY <2>1, <2>2 DEF Rest
<1>16. ASSUME Shutdown \/ Crash PROVE Rest'
  <2>1. \A u \in Workers : ~Running(u)'
    BY <1>16 DEF Shutdown, Crash, Exit, Idle, Running
  <2>2. QED
    BY <1>1, <1>16, <2>1, RollbackKeeps DEF Shutdown, Crash, Exit
<1>17. ASSUME Start \/ Tick \/ UNCHANGED vars PROVE Rest'
  <2>1. /\ UNCHANGED <<issued, stores, worker>>
        /\ up' = up \/ up'
    BY <1>17 DEF Start, Tick, vars
  <2>2. IdsIssued' /\ LiveVectorOwned'
    BY <1>1, <1>2, <2>1, StoresKept
  <2>3. Serial' /\ StoringNewest'
    BY <2>1 DEF IInv, Serial, StoringNewest, Storing, Running, stores, Owned, Ids
  <2>4. QED
    BY <2>2, <2>3 DEF Rest
<1>18. Rest'
  <2>1. CASE Next
    BY <2>1, <1>3, <1>4, <1>5, <1>6, <1>7, <1>8, <1>9, <1>10, <1>11, <1>12, <1>13,
       <1>14, <1>15, <1>16, <1>17 DEF Next, Ingest
  <2>2. CASE UNCHANGED vars
    BY <2>2, <1>17
  <2>3. QED
    BY <2>1, <2>2
<1>19. QED
  BY <1>1, <1>2, <1>18 DEF IInv, Rest

\* The consistency of the two databases is inductive for the server.
THEOREM Consistent == Spec => []IInv
BY InitHolds, StepHolds, PTL DEF Spec

\* Every retrievable memory is the active row of its natural key, committed,
\* unless the pruner has condemned it: however many ingests, crashes, failed
\* commits, failed embeddings and prunes there were (store.py, upsert_fact).
THEOREM LiveVectorsOwned == Spec => []LiveVectorOwned
<1>1. IInv => LiveVectorOwned
  BY DEF IInv
<1>2. QED
  BY <1>1, Consistent, PTL

LEMMA CommitsNewer ==
  ASSUME IInv, TypeOK', [Next]_vars, NEW k \in Keys
  PROVE  disk'[k].id >= disk[k].id \/ disk'[k] = NoRow
<1> DEFINE Newer == disk'[k].id >= disk[k].id \/ disk'[k] = NoRow
<1>1. /\ sql[k].id \in Nat /\ disk[k].id \in Nat /\ issued \in Nat
      /\ sql[k].id <= issued /\ disk[k].id <= issued
      /\ sql[k] = NoRow \/ disk[k].id <= sql[k].id
      /\ \A j \in Keys : sql[j].id \in Nat
  BY DEF IInv, IdsIssued, TypeOK, Row
<1>2. ASSUME disk' \in {disk, sql}
      PROVE  Newer
  BY <1>1, <1>2
<1>3. ASSUME NEW j \in Keys, NEW i \in Nat, i >= issued,
             sql' = Replaced(j, i), disk' = sql'
      PROVE  Newer
  <2>1. sql'[k].id = i \/ sql'[k] = sql[k]
    BY <1>3 DEF Replaced, IInv, TypeOK
  <2>2. QED
    BY <1>1, <1>2, <1>3, <2>1
<1>4. ASSUME NEW w \in Workers, InsertNew(w)
      PROVE  Newer
  <2>1. worker[w].id = issued /\ fact[worker[w].id].key \in Keys
    BY <1>4 DEF InsertNew, IInv, TypeOK, StoringNewest, Storing, IdsIssued, Ids
  <2>2. QED
    BY <1>1, <1>3, <1>4, <2>1 DEF InsertNew
<1>5. ASSUME NEW j \in Keys, NEW life \in Lifetimes, CliSetExpiry(j, life)
      PROVE  Newer
  BY <1>1, <1>3, <1>5 DEF CliSetExpiry
<1>6. ASSUME NEW w \in Workers, Ingest(w), ~InsertNew(w)
      PROVE  Newer
  BY <1>2, <1>6 DEF Ingest, Submit, Extracted, Stamp, DeactivateOld,
     DeactivateFails, InsertFails, AddVector, EmbedFails, stores
<1>7. ASSUME NEW keep \in InactiveKeeps, NEW age \in MaxAges,
             Prune(keep, age) \/ PruneFails(keep, age) \/ CliCleanup(keep, age)
      PROVE  Newer
  BY <1>2, <1>7 DEF Prune, PruneFails, CliCleanup
<1>8. ASSUME NEW j \in Keys, ResolveContradiction(j)
      PROVE  Newer
  BY <1>2, <1>8 DEF ResolveContradiction
<1>9. ASSUME CacheProfile \/ Shutdown \/ Crash \/ Start \/ Tick \/ UNCHANGED vars
      PROVE  Newer
  BY <1>2, <1>9 DEF CacheProfile, Shutdown, Crash, Start, Tick, vars, stores
<1>10. QED
  <2>1. CASE Next
    BY <2>1, <1>4, <1>5, <1>6, <1>7, <1>8, <1>9 DEF Next
  <2>2. CASE UNCHANGED vars
    BY <2>2, <1>9
  <2>3. QED
    BY <2>1, <2>2

\* Extractions may finish out of order, commits may fail and processes may
\* crash: what is committed under a key only ever gets newer, or is pruned.
THEOREM NeverOlder == Spec => NoOlderOverwrite
<1>1. IInv /\ [Next]_vars
        => [\A k \in Keys : disk'[k].id >= disk[k].id \/ disk'[k] = NoRow]_vars
  BY TypeStep, CommitsNewer DEF IInv
<1>2. QED
  BY <1>1, Consistent, PTL DEF Spec, NoOlderOverwrite
=============================================================================
