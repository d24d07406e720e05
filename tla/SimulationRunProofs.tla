------------------------ MODULE SimulationRunProofs ------------------------
(* Types, counts, records and the lifecycle promise of SimulationRun. *)
EXTENDS SimulationRun, FiniteSetTheorems, TLAPS

USE RecordsAssumption, ScriptAssumption

-----------------------------------------------------------------------------
(* Types.                                                                  *)

\* A fact belongs to a user, and gets an id.
LEMMA Owned == \A e \in Events : Owner(e) \in Users
  BY DEF Owner, Position

LEMMA Identified == \A r \in Runs, e \in Events : FactId(r, e) \in Facts
  BY DEF FactId, Facts

\* What a contradiction resolves against is a fact id of the run, or nothing.
LEMMA ResolvesType ==
  ASSUME TypeOK, NEW r \in Runs, NEW e \in Events
  PROVE  Resolves(r, e) \subseteq Facts \cup {Null}
<1>1. \A f \in Events : Known(r, f) \subseteq Facts
  BY DEF Known, TypeOK, Result
<1>2. Superseded(r, e) \subseteq Facts
  BY <1>1 DEF Superseded, Prior, Candidates
<1> QED BY <1>2 DEF Resolves

\* A counted event keeps the types of the result and of the progress.
LEMMA PlaysType ==
  ASSUME TypeOK, NEW r \in Runs, NEW e \in Events, NEW result \in Result,
         Plays(r, e, result)
  PROVE  /\ run' \in [Runs -> Result] /\ progress' \in [Runs -> Progress]
<1>1. [result EXCEPT !.handled = @ \cup {e}, !.played = @ + 1] \in Result
  <2> DEFINE tried == [result EXCEPT !.handled = @ \cup {e}]
  <2>1. tried \in Result
    BY DEF Result
  <2>2. [result EXCEPT !.handled = @ \cup {e}, !.played = @ + 1]
          = [tried EXCEPT !.played = @ + 1]
    OBVIOUS
  <2> HIDE DEF tried
  <2>3. [tried EXCEPT !.played = @ + 1] \in Result
    BY <2>1 DEF Result
  <2> QED BY <2>2, <2>3
<1>2. [played |-> result.played + 1, errors |-> result.errors] \in Progress
  BY DEF Result, Progress
<1>3. run \in [Runs -> Result] /\ progress \in [Runs -> Progress]
  BY DEF TypeOK
<1> QED BY <1>1, <1>2, <1>3 DEF Plays

\* A write fails or succeeds within the bound on faults.
LEMMA WritesType ==
  ASSUME TypeOK, NEW ok \in BOOLEAN, Writes(ok)
  PROVE  faults' \in 0..MaxFaults
  BY DEF Writes, TypeOK, RecordsTypeOK

LEMMA RunNumberType == ASSUME NEW r PROVE RunNumber(r) \in Runs
  BY DEF RunNumber

LEMMA StartRowType ==
  ASSUME TypeOK, NEW n \in Runs, NEW r \in Runs, NEW ok, StartRow(n, r, ok)
  PROVE  rows' \in [Runs -> Row \cup {NoRow}]
  BY DEF StartRow, TypeOK, RecordsTypeOK, Row

LEMMA EndRowType ==
  ASSUME TypeOK, NEW n \in Runs, NEW ok, NEW status \in {"completed", "failed"},
         EndRow(n, status, ok)
  PROVE  rows' \in [Runs -> Row \cup {NoRow}]
<1>1. CASE ok /\ rows[n] # NoRow
  <2>1. rows[n] \in Row
    BY <1>1 DEF TypeOK, RecordsTypeOK
  <2>2. [rows[n] EXCEPT !.status = status] \in Row
    BY <2>1 DEF Row
  <2> QED BY <1>1, <2>2 DEF EndRow, TypeOK, RecordsTypeOK
<1>2. CASE ~(ok /\ rows[n] # NoRow)
  BY <1>2 DEF EndRow, TypeOK, RecordsTypeOK
<1> QED BY <1>1, <1>2

LEMMA LogFactType ==
  ASSUME TypeOK, NEW n \in Runs, NEW r \in Runs, NEW u \in Users, NEW id \in Facts,
         NEW old \in Facts \cup {Null}, NEW ok \in BOOLEAN,
         LogFact(n, r, u, id, old, ok)
  PROVE  /\ active' \subseteq Users \X Facts /\ inactive' \subseteq Users \X Facts
         /\ trail' \in Seq(Entry) /\ Len(trail) <= Len(trail')
         /\ complete' \in BOOLEAN
<1> DEFINE entry == [number |-> n, run |-> r, user |-> u, id |-> id, old |-> old]
<1>1. entry \in Entry
  BY DEF Entry
<1>2. trail \in Seq(Entry)
  BY DEF TypeOK, RecordsTypeOK
<1>3. Append(trail, entry) \in Seq(Entry) /\ Len(Append(trail, entry)) = Len(trail) + 1
  BY <1>1, <1>2
<1>4. trail' \in Seq(Entry) /\ Len(trail) <= Len(trail')
  BY <1>2, <1>3 DEF LogFact
<1>5. active' \subseteq Users \X Facts
  BY DEF LogFact, Activated, TypeOK, RecordsTypeOK
<1>6. inactive' \subseteq Users \X Facts
  BY DEF LogFact, TypeOK, RecordsTypeOK
<1>7. complete' \in BOOLEAN
  BY DEF LogFact, TypeOK, RecordsTypeOK
<1> QED BY <1>4, <1>5, <1>6, <1>7

\* Init has the types.
LEMMA InitType == Init => TypeOK
<1> SUFFICES ASSUME Init PROVE TypeOK
  OBVIOUS
<1>1. RecordsTypeOK
  BY DEF Init, RecordsInit, RecordsTypeOK
<1>2. Blank \in Result
  BY DEF Blank, Result
<1>3. run \in [Runs -> Result]
  BY <1>2 DEF Init
<1>4. progress \in [Runs -> Progress]
  BY DEF Init, Progress
<1> QED BY <1>1, <1>3, <1>4 DEF Init, TypeOK, Steps

\* A task that goes on stands at another step.
LEMMA AtType ==
  ASSUME TypeOK, NEW r \in Runs, NEW step \in Steps, At(r, step)
  PROVE  task' \in [Runs -> Steps]
  BY DEF At, TypeOK

\* Every step of a runner's task keeps the types.
LEMMA RunnerType ==
  ASSUME TypeOK, NEW r \in Runs, RunnerStep(r)
  PROVE  TypeOK'
<1> USE DEF dashboard
<1>0. /\ run[r] \in Result /\ Foremost(r) \subseteq Events
      /\ UNCHANGED <<server, slot, stopping, told, asked, since, open>>
  BY DEF TypeOK, Foremost, Left, RunnerStep, Begin, Ingested, ProfileRead,
         RecordError, PlayedOut, WaitedOut, Validated, Cancelled, Finish, records,
         written, states
<1>1. task' \in [Runs -> Steps]
  BY AtType DEF RunnerStep, Begin, Ingested, ProfileRead, RecordError, PlayedOut,
                WaitedOut, Validated, Cancelled, Steps
<1>2. ASSUME UNCHANGED <<run, progress>>, UNCHANGED records
      PROVE  TypeOK'
  BY <1>0, <1>1, <1>2 DEF TypeOK, RecordsTypeOK, records, written, states
<1>3. ASSUME run' \in [Runs -> Result], progress' \in [Runs -> Progress],
             UNCHANGED records
      PROVE  TypeOK'
  BY <1>0, <1>1, <1>3 DEF TypeOK, RecordsTypeOK, records, written, states
<1>4. ASSUME NEW status \in {"completed", "failed"}, Finish(r, status)
      PROVE  TypeOK'
  <2>1. run' \in [Runs -> Result]
    BY <1>4, <1>0 DEF Finish, TypeOK, Result
  <2>2. progress' \in [Runs -> Progress]
    BY <1>4, <1>0 DEF Finish, TypeOK, Progress, Result
  <2>3. rows' \in [Runs -> Row \cup {NoRow}] /\ faults' \in 0..MaxFaults
    BY <1>4, WritesType, EndRowType, RunNumberType DEF Finish
  <2> QED BY <1>0, <1>1, <1>4, <2>1, <2>2, <2>3 DEF Finish, TypeOK, RecordsTypeOK, states
<1>5. CASE Begin(r)
  <2>1. rows' \in [Runs -> Row \cup {NoRow}] /\ faults' \in 0..MaxFaults
    BY <1>5, WritesType, StartRowType, RunNumberType DEF Begin
  <2> QED BY <1>0, <1>1, <1>5, <2>1 DEF Begin, TypeOK, RecordsTypeOK, states
<1>6. CASE Ingested(r)
  <2>1. PICK e \in Foremost(r) : \E old \in Resolves(r, e), ok \in BOOLEAN :
          /\ Writes(ok)
          /\ LogFact(RunNumber(r), r, Owner(e), FactId(r, e), old, ok)
          /\ Plays(r, e, [run[r] EXCEPT !.ids[e] = FactId(r, e), !.ingested = @ + 1])
    BY <1>6 DEF Ingested
  <2>2. e \in Events /\ Owner(e) \in Users /\ FactId(r, e) \in Facts
    BY <1>0, Owned, Identified
  <2>3. [run[r] EXCEPT !.ids[e] = FactId(r, e), !.ingested = @ + 1] \in Result
    <3> DEFINE known == [run[r] EXCEPT !.ids[e] = FactId(r, e)]
    <3>1. known \in Result
      BY <1>0, <2>2 DEF Result
    <3>2. [run[r] EXCEPT !.ids[e] = FactId(r, e), !.ingested = @ + 1]
            = [known EXCEPT !.ingested = @ + 1]
      OBVIOUS
    <3> HIDE DEF known
    <3>3. [known EXCEPT !.ingested = @ + 1] \in Result
      BY <3>1 DEF Result
    <3> QED BY <3>2, <3>3
  <2>4. run' \in [Runs -> Result] /\ progress' \in [Runs -> Progress]
    BY <2>1, <2>2, <2>3, PlaysType
  <2>5. /\ active' \subseteq Users \X Facts /\ inactive' \subseteq Users \X Facts
        /\ trail' \in Seq(Entry) /\ Len(trail) <= Len(trail')
        /\ complete' \in BOOLEAN /\ faults' \in 0..MaxFaults
    BY <2>1, <2>2, LogFactType, WritesType, ResolvesType, RunNumberType
  <2>6. since \in 0..Len(trail')
    BY <2>5 DEF TypeOK, RecordsTypeOK
  <2>7. UNCHANGED rows
    BY <1>6 DEF Ingested
  <2> QED BY <1>0, <1>1, <2>4, <2>5, <2>6, <2>7 DEF TypeOK, RecordsTypeOK
<1>7. CASE ProfileRead(r)
  <2>1. PICK e \in Foremost(r) : Plays(r, e, [run[r] EXCEPT !.reads = @ + 1])
    BY <1>7 DEF ProfileRead
  <2>2. [run[r] EXCEPT !.reads = @ + 1] \in Result
    BY <1>0 DEF Result
  <2> QED BY <1>0, <1>3, <1>7, <2>1, <2>2, PlaysType DEF ProfileRead
<1>8. CASE RecordError(r)
  <2>1. PICK e \in Foremost(r) : Plays(r, e, [run[r] EXCEPT !.errors = @ + 1])
    BY <1>8 DEF RecordError
  <2>2. [run[r] EXCEPT !.errors = @ + 1] \in Result
    BY <1>0 DEF Result
  <2> QED BY <1>0, <1>3, <1>8, <2>1, <2>2, PlaysType DEF RecordError
<1>9. CASE PlayedOut(r)
  <2>1. IsFiniteSet(Left(r))
    BY FS_Subset DEF Left
  <2>2. Cardinality(Left(r)) \in Nat
    BY <2>1, FS_CardinalityType
  <2>3. run' \in [Runs -> Result]
    BY <1>9, <1>0, <2>2 DEF PlayedOut, TypeOK, Result
  <2> QED BY <1>3, <1>9, <2>3 DEF PlayedOut, TypeOK
<1>10. CASE WaitedOut(r)
  BY <1>10, <1>4 DEF WaitedOut, FinalStatus
<1>11. CASE Validated(r)
  BY <1>11, <1>2 DEF Validated
<1>12. CASE Cancelled(r)
  BY <1>12, <1>2, <1>4 DEF Cancelled
<1> QED BY <1>5, <1>6, <1>7, <1>8, <1>9, <1>10, <1>11, <1>12 DEF RunnerStep

\* Every step keeps the types.
LEMMA StepType == TypeOK /\ [Next]_vars => TypeOK'
<1> USE DEF dashboard
<1> SUFFICES ASSUME TypeOK, [Next]_vars PROVE TypeOK'
  OBVIOUS
<1>1. ASSUME NEW r \in Runs, RunnerStep(r) PROVE TypeOK'
  BY <1>1, RunnerType
<1>2. ASSUME NEW r \in Runs, Start(r) PROVE TypeOK'
  BY <1>2 DEF Start, At, TypeOK, RecordsTypeOK, records, written, states, Steps
<1>3. ASSUME NEW r \in Runs, Stop(r) PROVE TypeOK'
  BY <1>3 DEF Stop, TypeOK, RecordsTypeOK, records, written, states
<1>4. ASSUME NEW r \in Runs, StopAnswered(r) PROVE TypeOK'
  BY <1>4 DEF StopAnswered, TypeOK, RecordsTypeOK, records, written, states
<1>5. CASE Shutdown
  BY <1>5 DEF Shutdown, TypeOK, RecordsTypeOK, written, states
<1>6. CASE Teardown
  BY <1>6 DEF Teardown, TypeOK, RecordsTypeOK, records, written, states
<1>7. ASSUME Gone, faults' \in 0..MaxFaults PROVE TypeOK'
  <2>1. task' \in [Runs -> Steps]
    BY <1>7 DEF Gone, TypeOK, Steps
  <2>2. since' \in 0..Len(trail') /\ trail' \in Seq(Entry)
    <3>1. trail \in Seq(Entry) /\ trail' = trail /\ since' = Len(trail)
      BY <1>7 DEF Gone, Closed, TypeOK, RecordsTypeOK, written
    <3>2. Len(trail) \in Nat
      BY <3>1
    <3> QED BY <3>1, <3>2
  <2>3. /\ rows' \in [Runs -> Row \cup {NoRow}] /\ open' \in BOOLEAN
        /\ active' = {} /\ inactive' = {} /\ complete' \in BOOLEAN
    BY <1>7 DEF Gone, Closed, TypeOK, RecordsTypeOK, written
  <2>4. /\ server' = "down" /\ slot' = Null /\ stopping' = {}
        /\ UNCHANGED <<told, asked, run, progress>>
    BY <1>7 DEF Gone
  <2> QED BY <1>7, <2>1, <2>2, <2>3, <2>4 DEF TypeOK, RecordsTypeOK
<1>8. CASE Exit
  BY <1>7, <1>8 DEF Exit, TypeOK, RecordsTypeOK
<1>9. CASE Crash
  BY <1>7, <1>9 DEF Crash, TypeOK, RecordsTypeOK
<1>10. CASE Restart
  BY <1>10 DEF Restart, TypeOK, RecordsTypeOK, written, states
<1>11. CASE UNCHANGED vars
  BY <1>11 DEF vars, TypeOK, RecordsTypeOK, records, written, states
<1> QED BY <1>1, <1>2, <1>3, <1>4, <1>5, <1>6, <1>8, <1>9, <1>10, <1>11 DEF Next

\* Every variable has its type, for any scripts and any number of runs.
THEOREM RunTypeCorrect == Spec => []TypeOK
  BY InitType, StepType, PTL DEF Spec

=============================================================================
