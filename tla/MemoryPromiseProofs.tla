------------------------ MODULE MemoryPromiseProofs ------------------------
(***************************************************************************)
(* The server's memory store implements FactMemory: each of its steps is   *)
(* one of FactMemory's, or changes nothing that FactMemory knows of.       *)
(***************************************************************************)
EXTENDS MemoryServerProofs

USE BoundsAssumption, ClockAssumption

-----------------------------------------------------------------------------
(* The refinement mapping, read off a consistent state.                    *)

\* A key has at most one answer, so knownIds chooses that one.
Determined ==
  \A k \in Keys : \/ knownIds[k] = 0 /\ Answers(k) = {}
                  \/ knownIds[k] # 0 /\ Answers(k) = {knownIds[k]}

LEMMA KnownIs == IInv => Determined
<1> SUFFICES ASSUME IInv, NEW k \in Keys, Answers(k) # {}
             PROVE  knownIds[k] # 0 /\ Answers(k) = {knownIds[k]}
  BY DEF knownIds, Determined
<1>1. ASSUME NEW i \in Answers(k)
      PROVE  i \in Ids /\ i = sql[k].id
  <2>1. i \in Ids /\ fact[i].key = k /\ vec[i].state = "live" /\ ~Condemned(i)
    BY <1>1 DEF Answers
  <2>2. Owned(sql, i)
    BY <2>1 DEF IInv, LiveVectorOwned
  <2>3. QED
    BY <2>1, <2>2 DEF Owned
<1>2. knownIds[k] \in Answers(k)
  BY DEF knownIds
<1>3. QED
  BY <1>1, <1>2 DEF Ids

LEMMA KnownIsNext == IInv' => Determined'
BY KnownIs, PTL

\* What is being stored is the newest id there is.
Pending == \E w \in Workers : Storing(w)
OpenNewest == IF Pending THEN openId = issued /\ openId # 0 ELSE openId = 0

LEMMA OpenIs == IInv => OpenNewest
BY DEF OpenNewest, Pending, openId, IInv, StoringNewest

LEMMA OpenIsNext == IInv' => OpenNewest'
BY OpenIs, PTL

LEMMA SameOpen ==
  ASSUME IInv, IInv', issued' = issued, Pending' <=> Pending
  PROVE  openId' = openId
BY OpenIs, OpenIsNext DEF OpenNewest

LEMMA KnownFunction ==
  knownIds = [k \in Keys |-> knownIds[k]]
BY DEF knownIds

LEMMA KnownFunctionNext ==
  knownIds' = [k \in Keys |-> knownIds'[k]]
BY DEF knownIds

\* Two states that give a key the same answers map it to the same id.
LEMMA SameAnswers ==
  ASSUME IInv, IInv', NEW k \in Keys, Answers(k)' = Answers(k)
  PROVE  knownIds'[k] = knownIds[k]
<1>1. Determined /\ Determined'
  BY KnownIs, KnownIsNext
<1>2. QED
  BY <1>1 DEF Determined

LEMMA AnswersKept ==
  ASSUME UNCHANGED <<fact, vec, ageCut, expCut>>, NEW k \in Keys
  PROVE  Answers(k)' = Answers(k)
BY DEF Answers, Condemned, Expired, Ids

-----------------------------------------------------------------------------
(* The kinds of steps.                                                     *)

Mapped == [Promise!Next]_(Promise!promiseVars)

LEMMA Forgets ==
  ASSUME IInv, IInv', issued' = issued, Pending' <=> Pending,
         \A k \in Keys : Answers(k)' \subseteq Answers(k)
  PROVE  Mapped
<1> DEFINE S == {k \in Keys : Answers(k)' = {}}
<1>1. ASSUME NEW k \in Keys
      PROVE  knownIds'[k] = IF k \in S THEN 0 ELSE knownIds[k]
  <2>1. Determined /\ Determined'
    BY KnownIs, KnownIsNext
  <2>2. CASE Answers(k)' = {}
    BY <2>1, <2>2 DEF Determined
  <2>3. CASE Answers(k)' # {}
    BY <2>1, <2>3 DEF Determined
  <2>4. QED
    BY <2>2, <2>3
<1>2. knownIds' = [k \in Keys |-> IF k \in S THEN 0 ELSE knownIds[k]]
  BY <1>1, KnownFunctionNext
<1>3. openId' = openId
  BY SameOpen
<1>4. Promise!Forget(S)
  BY <1>2, <1>3 DEF Promise!Forget
<1>5. QED
  BY <1>4 DEF Mapped, Promise!Next

LEMMA SameKnown ==
  ASSUME IInv, IInv', \A k \in Keys : Answers(k)' = Answers(k)
  PROVE  knownIds' = knownIds
<1>1. \A k \in Keys : knownIds'[k] = knownIds[k]
  BY SameAnswers
<1>2. QED
  BY <1>1, KnownFunction, KnownFunctionNext

LEMMA Abandons ==
  ASSUME IInv, IInv', issued' = issued, ~Pending',
         \A k \in Keys : Answers(k)' = Answers(k)
  PROVE  Mapped
<1>1. knownIds' = knownIds
  BY SameKnown
<1>2. openId' = 0
  BY OpenIsNext DEF OpenNewest
<1>3. QED
  BY <1>1, <1>2 DEF Mapped, Promise!Next, Promise!Abandon

LEMMA Begins ==
  ASSUME IInv, IInv', issued' = issued + 1, ~Pending, Pending',
         \A k \in Keys : Answers(k)' = Answers(k)
  PROVE  Mapped
<1>1. knownIds' = knownIds
  BY SameKnown
<1>2. openId = 0 /\ openId' = issued + 1
  BY OpenIs, OpenIsNext DEF OpenNewest
<1>3. QED
  BY <1>1, <1>2 DEF Mapped, Promise!Next, Promise!Begin

LEMMA Learns ==
  ASSUME IInv, IInv', issued' = issued, Pending, ~Pending', NEW k \in Keys,
         Answers(k) = {}, Answers(k)' = {issued},
         \A j \in Keys \ {k} : Answers(j)' = Answers(j)
  PROVE  Mapped
<1>1. knownIds[k] = 0 /\ knownIds'[k] = issued
  BY KnownIs, KnownIsNext DEF Determined
<1>2. \A j \in Keys \ {k} : knownIds'[j] = knownIds[j]
  BY SameAnswers
<1>3. openId = issued /\ openId # 0 /\ openId' = 0
  BY OpenIs, OpenIsNext DEF OpenNewest
<1>4. knownIds' = [knownIds EXCEPT ![k] = openId]
  BY <1>1, <1>2, <1>3, KnownFunction, KnownFunctionNext
<1>5. Promise!Learn(k)
  BY <1>1, <1>3, <1>4 DEF Promise!Learn
<1>6. QED
  BY <1>5 DEF Mapped, Promise!Next

LEMMA Withdraws ==
  ASSUME IInv, IInv', issued' = issued + 1, ~Pending, ~Pending', NEW k \in Keys,
         Answers(k)' = {}, \A j \in Keys \ {k} : Answers(j)' = Answers(j)
  PROVE  Mapped
<1>1. knownIds'[k] = 0
  BY KnownIsNext DEF Determined
<1>2. \A j \in Keys \ {k} : knownIds'[j] = knownIds[j]
  BY SameAnswers
<1>3. openId = 0 /\ openId' = 0
  BY OpenIs, OpenIsNext DEF OpenNewest
<1>4. knownIds' = [knownIds EXCEPT ![k] = 0]
  BY <1>1, <1>2, KnownFunction, KnownFunctionNext
<1>5. Promise!Withdraw(k)
  BY <1>3, <1>4 DEF Promise!Withdraw
<1>6. QED
  BY <1>5 DEF Mapped, Promise!Next

-----------------------------------------------------------------------------
(* One step per action.                                                    *)

LEMMA NonePending == IInv /\ (LoopFree \/ ~up) => ~Pending
BY NobodyRuns DEF Pending, Storing, Running

LEMMA StepMaps ==
  ASSUME IInv, IInv', [Next]_vars
  PROVE  Mapped
<1> USE DEF stores, cuts
<1>1. ASSUME NEW w \in Workers, Submit(w) PROVE Mapped
  <2>1. Pending' <=> Pending
    BY <1>1 DEF Submit, Step, Pending, Storing, IInv, TypeOK, Call
  <2>2. QED
    BY <1>1, <2>1, AnswersKept, Forgets DEF Submit
<1>2. ASSUME NEW w \in Workers, Extracted(w) PROVE Mapped
  <2>1. Pending' <=> Pending
    BY <1>2 DEF Extracted, Idle, Pending, Storing, IInv, TypeOK, Call
  <2>2. QED
    BY <1>2, <2>1, AnswersKept, Forgets DEF Extracted
<1>3. ASSUME NEW w \in Workers, Stamp(w) PROVE Mapped
  <2>1. ~Pending /\ Pending'
    <3>1. ~Pending
      BY <1>3, RunsAlone DEF Stamp, Pending, Storing, Running
    <3>2. Pending'
      BY <1>3 DEF Stamp, Pending, Storing, IInv, TypeOK, Call
    <3>3. QED
      BY <3>1, <3>2
  <2>2. ASSUME NEW k \in Keys PROVE Answers(k)' = Answers(k)
    <3>1. PICK j \in Keys, life \in Lifetimes : fact' = NewFact(j, life)
      BY <1>3 DEF Stamp
    <3>2. \A i \in Ids : i # issued + 1 => fact'[i] = fact[i]
      BY <3>1 DEF NewFact, IInv, TypeOK
    <3>3. \A i \in Ids : vec'[i] = vec[i] /\ (vec[i].state = "live" => i # issued + 1)
      BY <1>3 DEF Stamp, IInv, IdsIssued, TypeOK
    <3>4. QED
      BY <1>3, <3>2, <3>3 DEF Stamp, Answers, Condemned, Expired, Ids
  <2>3. QED
    BY <1>3, <2>1, <2>2, Begins DEF Stamp
<1>4. ASSUME NEW w \in Workers, DeactivateOld(w) PROVE Mapped
  <2>1. Pending' <=> Pending
    BY <1>4 DEF DeactivateOld, Step, Pending, Storing, IInv, TypeOK, Call
  <2>2. fact[worker[w].id].key \in Keys
    <3>1. worker[w].id = issued /\ issued # 0
      BY <1>4 DEF DeactivateOld, IInv, StoringNewest, Storing
    <3>2. issued \in Ids
      BY <3>1 DEF IInv, TypeOK, Ids
    <3>3. QED
      BY <3>1, <3>2 DEF IInv, TypeOK, IdsIssued
  <2>3. ASSUME NEW k \in Keys PROVE Answers(k)' \subseteq Answers(k)
    BY <1>4, <2>2, DeactivatedVector DEF DeactivateOld, Answers, Condemned, Expired, Ids
  <2>4. QED
    BY <1>4, <2>1, <2>3, Forgets DEF DeactivateOld
<1>5. ASSUME NEW w \in Workers, DeactivateFails(w) PROVE Mapped
  BY <1>5, ServerAssumption DEF DeactivateFails, MayFail
<1>6. ASSUME NEW w \in Workers, InsertNew(w) PROVE Mapped
  <2>1. Pending' <=> Pending
    BY <1>6 DEF InsertNew, Step, Pending, Storing, IInv, TypeOK, Call
  <2>2. QED
    BY <1>6, <2>1, AnswersKept, Forgets DEF InsertNew
<1>7. ASSUME NEW w \in Workers, InsertFails(w) \/ EmbedFails(w) PROVE Mapped
  <2>1. \A u \in Workers : Running(u) => u = w
    BY <1>7, RunsAlone DEF InsertFails, EmbedFails
  <2>2. ~Pending'
    BY <1>7, <2>1 DEF InsertFails, EmbedFails, Return, Idle, Running, Pending, Storing, IInv, TypeOK
  <2>3. QED
    BY <1>7, <2>2, AnswersKept, Abandons DEF InsertFails, EmbedFails
<1>8. ASSUME NEW w \in Workers, AddVector(w) PROVE Mapped
  <2> DEFINE k == fact[issued].key
  <2>1. /\ issued \in Ids /\ worker[w].id = issued /\ k \in Keys
        /\ vec[issued].state = "absent" /\ Owned(sql, issued)
    BY <1>8 DEF AddVector, IInv, TypeOK, StoringNewest, Storing, IdsIssued, Ids
  <2>2. Pending /\ ~Pending'
    <3>1. Pending
      BY <1>8 DEF AddVector, Pending, Storing
    <3>2. \A u \in Workers : Running(u) => u = w
      BY <1>8, RunsAlone DEF AddVector
    <3>3. ~Storing(w)'
      BY <1>8 DEF AddVector, Return, Idle, Storing, IInv, TypeOK, Call
    <3>4. \A u \in Workers \ {w} : ~Storing(u)'
      BY <1>8, <3>2 DEF AddVector, Return, Running, Storing, IInv, TypeOK
    <3>5. QED
      BY <3>1, <3>3, <3>4 DEF Pending
  <2>3. /\ vec'[issued].state = "live"
        /\ \A i \in Ids : i # issued => vec'[i] = vec[i]
    BY <1>8, <2>1 DEF AddVector, IInv, TypeOK
  <2>4. \A j \in Keys \ {k} : Answers(j)' = Answers(j)
    BY <1>8, <2>1, <2>3 DEF AddVector, Answers, Condemned, Expired, Ids
  <2>5. CASE Condemned(issued)
    <3>1. Answers(k)' = Answers(k)
      BY <1>8, <2>1, <2>3, <2>5 DEF AddVector, Answers, Condemned, Expired, Ids
    <3>2. QED
      BY <1>8, <2>2, <2>4, <3>1, Abandons DEF AddVector
  <2>6. CASE ~Condemned(issued)
    <3>1. Answers(k) = {}
      <4>1. ASSUME NEW i \in Answers(k) PROVE FALSE
        <5>1. i \in Ids /\ fact[i].key = k /\ vec[i].state = "live" /\ ~Condemned(i)
          BY <4>1 DEF Answers
        <5>2. Owned(sql, i)
          BY <5>1 DEF IInv, LiveVectorOwned
        <5>3. QED
          BY <2>1, <5>1, <5>2 DEF Owned
      <4>2. QED
        BY <4>1
    <3>2. Answers(k)' = {issued}
      <4>1. \A i \in Ids : i \in Answers(k)' <=> i \in Answers(k) \/ i = issued
        BY <1>8, <2>1, <2>3, <2>6 DEF AddVector, Answers, Condemned, Expired, Ids
      <4>2. Answers(k)' \subseteq Ids
        BY <2>1 DEF Answers, Ids
      <4>3. QED
        BY <2>1, <3>1, <4>1, <4>2
    <3>3. QED
      BY <1>8, <2>1, <2>2, <2>4, <3>1, <3>2, Learns DEF AddVector
  <2>7. QED
    BY <2>5, <2>6
<1>9. ASSUME NEW keep \in InactiveKeeps, NEW age \in MaxAges,
             Prune(keep, age) \/ PruneFails(keep, age) \/ CliCleanup(keep, age)
      PROVE Mapped
  <2>1. UNCHANGED <<issued, fact, worker>>
    BY <1>9 DEF Prune, PruneFails, CliCleanup
  <2>2. Pending' <=> Pending
    BY <2>1 DEF Pending, Storing
  <2>3. \A i \in Ids : vec'[i].state = "live" => vec[i].state = "live"
    BY <1>9 DEF Prune, PruneFails, CliCleanup, PrunedVectors, IInv, TypeOK, Vector
  <2>4. \A i \in Ids : Condemned(i) => Condemned(i)'
    BY <2>1, CutsGrow, CondemnedStays DEF IInv
  <2>5. ASSUME NEW k \in Keys PROVE Answers(k)' \subseteq Answers(k)
    BY <2>1, <2>3, <2>4 DEF Answers, Ids
  <2>6. QED
    BY <2>1, <2>2, <2>5, Forgets
<1>10. ASSUME NEW k \in Keys, NEW life \in Lifetimes \cup {Null},
              fact' = NewFact(k, life), issued' = issued + 1, issued < MaxId,
              vec' = DeactivateVector(k), UNCHANGED <<worker, cuts>>, ~Pending
       PROVE Mapped
  <2>1. ~Pending'
    BY <1>10 DEF Pending, Storing
  <2>2. /\ \A i \in Ids : i # issued + 1 => fact'[i] = fact[i]
        /\ \A i \in Ids : vec[i].state # "absent" => i # issued + 1
    BY <1>10 DEF NewFact, IInv, IdsIssued, TypeOK
  <2>3. \A i \in Ids : vec'[i].state = "live" =>
          vec[i].state = "live" /\ (Condemned(i) \/ fact[i].key # k)
    BY <1>10, DeactivatedVector
  <2>4. Answers(k)' = {}
    BY <1>10, <2>2, <2>3 DEF Answers, Condemned, Expired, Ids
  <2>5. ASSUME NEW j \in Keys \ {k} PROVE Answers(j)' = Answers(j)
    <3>1. ASSUME NEW i \in Ids, fact[i].key = j
          PROVE  vec'[i] = vec[i]
      <4>1. CASE sql[k].active
        BY <1>10, <3>1, <4>1 DEF DeactivateVector, IInv, IdsIssued, NamesOwn, TypeOK, Row
      <4>2. CASE ~sql[k].active
        BY <1>10, <4>2 DEF DeactivateVector
      <4>3. QED
        BY <4>1, <4>2
    <3>2. QED
      BY <1>10, <2>2, <2>3, <3>1 DEF Answers, Condemned, Expired, Ids
  <2>6. QED
    BY <1>10, <2>1, <2>4, <2>5, Withdraws
<1>11. ASSUME NEW k \in Keys, ResolveContradiction(k) PROVE Mapped
  BY <1>10, <1>11, NonePending DEF ResolveContradiction
<1>12. ASSUME NEW k \in Keys, NEW life \in Lifetimes, CliSetExpiry(k, life) PROVE Mapped
  BY <1>10, <1>12, NonePending DEF CliSetExpiry
<1>13. ASSUME CacheProfile \/ Start \/ Tick \/ UNCHANGED vars PROVE Mapped
  <2>1. UNCHANGED <<issued, fact, vec, worker, cuts>>
    BY <1>13 DEF CacheProfile, Start, Tick, vars
  <2>2. Pending' <=> Pending
    BY <2>1 DEF Pending, Storing
  <2>3. QED
    BY <2>1, <2>2, AnswersKept, Forgets
<1>14. ASSUME Shutdown \/ Crash PROVE Mapped
  <2>1. ~Pending'
    BY <1>14 DEF Shutdown, Crash, Exit, Idle, Pending, Storing
  <2>2. QED
    BY <1>14, <2>1, AnswersKept, Abandons DEF Shutdown, Crash
<1>15. QED
  <2>1. CASE Next
    BY <2>1, <1>1, <1>2, <1>3, <1>4, <1>5, <1>6, <1>7, <1>8, <1>9, <1>11, <1>12,
       <1>13, <1>14 DEF Next, Ingest
  <2>2. CASE UNCHANGED vars
    BY <2>2, <1>13
  <2>3. QED
    BY <2>1, <2>2

LEMMA InitMaps == Init => Promise!Init
<1> SUFFICES ASSUME Init PROVE Promise!Init
  OBVIOUS
<1>1. \A k \in Keys : Answers(k) = {}
  BY DEF Init, Answers
<1>2. knownIds = [k \in Keys |-> 0]
  BY <1>1 DEF knownIds
<1>3. openId = 0
  BY DEF Init, openId, Storing, Idle
<1>4. QED
  BY <1>2, <1>3 DEF Init, Promise!Init

\* The store implements its promise: each key is answered with its newest
\* memory or with none, whatever the schedule, the crashes and the failures,
\* and a memory that was superseded or forgotten never comes back.
THEOREM PromiseKept == Spec => KeepsPromise
<1>1. IInv /\ IInv' /\ [Next]_vars => [Promise!Next]_(Promise!promiseVars)
  BY StepMaps DEF Mapped
<1>2. QED
  BY <1>1, InitMaps, Consistent, PTL DEF Spec, KeepsPromise, Promise!Spec
=============================================================================
