------------------------- MODULE RunPromiseProofs -------------------------
(* The inductive invariant of SimulationRun: its counts, and its promise.  *)
EXTENDS SimulationRunProofs

USE RecordsAssumption, ScriptAssumption

-----------------------------------------------------------------------------
(* What the steps do to the tasks.                                         *)

\* A runner's step moves its own task, which was going: on, or to its end if it
\* was cancelled.
LEMMA RunnerMoves ==
  ASSUME TypeOK, NEW r \in Runs, RunnerStep(r)
  PROVE  /\ Going(r) /\ UNCHANGED <<server, slot, stopping, told, asked>>
         /\ \A q \in Runs \ {r} : task'[q] = task[q] /\ run'[q] = run[q]
                                  /\ progress'[q] = progress[q]
         /\ r \in asked => task'[r] = "cancelled"
         /\ r \notin asked => task'[r] \in {"playing", "waiting", "validating", "returned"}
<1> USE DEF dashboard, Resumes, At, Going, TypeOK
<1>1. CASE Begin(r)
  BY <1>1 DEF Begin
<1>2. CASE Ingested(r)
  BY <1>2 DEF Ingested, Plays
<1>3. CASE ProfileRead(r)
  BY <1>3 DEF ProfileRead, Plays
<1>4. CASE RecordError(r)
  BY <1>4 DEF RecordError, Plays
<1>5. CASE PlayedOut(r)
  BY <1>5 DEF PlayedOut
<1>6. CASE WaitedOut(r)
  BY <1>6 DEF WaitedOut, Finish
<1>7. CASE Validated(r)
  BY <1>7 DEF Validated
<1>8. CASE Cancelled(r)
  BY <1>8 DEF Cancelled, Finish
<1> QED BY <1>1, <1>2, <1>3, <1>4, <1>5, <1>6, <1>7, <1>8 DEF RunnerStep

\* One run at a time.
LEMMA OneGoingStep == TypeOK /\ OneGoing /\ [Next]_vars => OneGoing'
<1> SUFFICES ASSUME TypeOK, OneGoing, [Next]_vars PROVE OneGoing'
  OBVIOUS
<1> USE DEF OneGoing, Going, TypeOK
<1>1. ASSUME NEW r \in Runs, RunnerStep(r) PROVE OneGoing'
  BY <1>1, RunnerMoves
<1>2. ASSUME NEW r \in Runs, Start(r) PROVE OneGoing'
  BY <1>2 DEF Start, At, Free
<1>3. ASSUME NEW r \in Runs, Stop(r) PROVE OneGoing'
  BY <1>3 DEF Stop
<1>4. ASSUME NEW r \in Runs, StopAnswered(r) PROVE OneGoing'
  BY <1>4 DEF StopAnswered
<1>5. CASE Shutdown
  BY <1>5 DEF Shutdown, dashboard
<1>6. CASE Teardown
  BY <1>6 DEF Teardown, dashboard
<1>7. CASE Exit \/ Crash
  BY <1>7 DEF Exit, Crash, Gone
<1>8. CASE Restart
  BY <1>8 DEF Restart, dashboard
<1>9. CASE UNCHANGED vars
  BY <1>9 DEF vars, dashboard
<1> QED BY <1>1, <1>2, <1>3, <1>4, <1>5, <1>6, <1>7, <1>8, <1>9 DEF Next

\* A cancelled task ends, and does not return.
LEMMA AskedEndsStep == TypeOK /\ AskedEnds /\ [Next]_vars => AskedEnds'
<1> SUFFICES ASSUME TypeOK, AskedEnds, [Next]_vars PROVE AskedEnds'
  OBVIOUS
<1> USE DEF AskedEnds, Going, TypeOK
<1>1. ASSUME NEW r \in Runs, RunnerStep(r) PROVE AskedEnds'
  BY <1>1, RunnerMoves
<1>2. ASSUME NEW r \in Runs, Start(r) PROVE AskedEnds'
  BY <1>2 DEF Start, At
<1>3. ASSUME NEW r \in Runs, Stop(r) PROVE AskedEnds'
  BY <1>3 DEF Stop
<1>4. ASSUME NEW r \in Runs, StopAnswered(r) PROVE AskedEnds'
  BY <1>4 DEF StopAnswered
<1>5. CASE Shutdown
  BY <1>5 DEF Shutdown, dashboard
<1>6. CASE Teardown
  BY <1>6 DEF Teardown, dashboard
<1>7. CASE Exit \/ Crash
  BY <1>7 DEF Exit, Crash, Gone
<1>8. CASE Restart
  BY <1>8 DEF Restart, dashboard
<1>9. CASE UNCHANGED vars
  BY <1>9 DEF vars, dashboard
<1> QED BY <1>1, <1>2, <1>3, <1>4, <1>5, <1>6, <1>7, <1>8, <1>9 DEF Next

-----------------------------------------------------------------------------
(* Counts.                                                                 *)

\* The part of InOrder about one run.
Ordered(r) ==
  /\ run[r].handled \subseteq Chosen[r]
  /\ task[r] \in {"none", "created", "playing"} => run[r].skipped = 0
  /\ task[r] \in {"validating", "returned"} => run[r].status # "in_progress"

LEMMA InOrderIs == InOrder <=> \A r \in Runs : Ordered(r)
  BY DEF InOrder, Ordered

\* A task that moves to another step, or gets lost, keeps its counts.
LEMMA SameCounts ==
  ASSUME NEW r \in Runs, run'[r] = run[r], progress'[r] = progress[r],
         Ordered(r), Accounts(r), task'[r] = task[r] \/ task'[r] \in {"cancelled", "lost"}
  PROVE  Ordered(r)' /\ Accounts(r)'
  BY DEF Ordered, Accounts

\* Whatever a run has handled is finite.
LEMMA HandledFinite ==
  ASSUME TypeOK, NEW r \in Runs
  PROVE  IsFiniteSet(run[r].handled)
<1>1. run[r].handled \subseteq Events
  BY DEF TypeOK, Result
<1> QED BY <1>1, FS_Subset

\* An event that is handled once adds one to the played and one to the counts.
LEMMA PlaysCounts ==
  ASSUME TypeOK, NEW r \in Runs, Ordered(r), Accounts(r), task[r] = "playing",
         NEW e \in Foremost(r), NEW result \in Result,
         result.handled = run[r].handled, result.played = run[r].played,
         result.skipped = run[r].skipped,
         result.ingested + result.reads + result.errors = run[r].played + 1,
         Plays(r, e, result), task'[r] = "playing"
  PROVE  Ordered(r)' /\ Accounts(r)'
<1> DEFINE tried == [result EXCEPT !.handled = @ \cup {e}]
           counted == [tried EXCEPT !.played = @ + 1]
<1>0. e \in Chosen[r] /\ e \in Events /\ e \notin run[r].handled
  BY DEF Foremost, Left
<1>1. /\ tried.handled = run[r].handled \cup {e} /\ tried.played = run[r].played
      /\ tried.skipped = run[r].skipped /\ tried.errors = result.errors
      /\ tried.ingested = result.ingested /\ tried.reads = result.reads
      /\ tried \in Result /\ result.errors \in Nat /\ run[r].played \in Nat
  BY <1>0 DEF Result, TypeOK
<1>2. run'[r] = counted
  BY DEF Plays, TypeOK
<1> HIDE DEF tried
<1>3. /\ counted.handled = run[r].handled \cup {e}
      /\ counted.played = run[r].played + 1 /\ counted.skipped = run[r].skipped
      /\ counted.errors = result.errors /\ counted.ingested = result.ingested
      /\ counted.reads = result.reads
  BY <1>1 DEF Result
<1> HIDE DEF counted
<1>4. progress'[r].played = run[r].played + 1 /\ progress'[r].errors = result.errors
  BY DEF Plays, TypeOK
<1>6. Cardinality(run[r].handled \cup {e}) = Cardinality(run[r].handled) + 1
  BY <1>0, HandledFinite, FS_AddElement
<1>7. run[r].skipped = 0 /\ run[r].handled \subseteq Chosen[r]
      /\ run[r].played + run[r].skipped = Cardinality(run[r].handled)
  BY DEF Ordered, Accounts
<1>8. Ordered(r)'
  BY <1>0, <1>2, <1>3, <1>7 DEF Ordered
<1>9. Accounts(r)'
  BY <1>1, <1>2, <1>3, <1>4, <1>6, <1>7 DEF Accounts
<1> QED BY <1>8, <1>9

\* When a queue is done, the events that are left are skipped.
LEMMA PlayedOutCounts ==
  ASSUME TypeOK, NEW r \in Runs, Ordered(r), Accounts(r), PlayedOut(r)
  PROVE  Ordered(r)' /\ Accounts(r)'
<1> DEFINE done == [run[r] EXCEPT !.skipped = Cardinality(Left(r))]
<1>1. task[r] = "playing" /\ task'[r] = "waiting" /\ progress' = progress
  BY DEF PlayedOut, Resumes, At, TypeOK
<1>2. run'[r] = [done EXCEPT !.handled = Chosen[r]] /\ run[r] \in Result
  BY DEF PlayedOut, TypeOK
<1>3. /\ done.skipped = Cardinality(Left(r)) /\ done.played = run[r].played
      /\ done.errors = run[r].errors /\ done.ingested = run[r].ingested
      /\ done.reads = run[r].reads
      /\ DOMAIN done = DOMAIN run[r]
  BY <1>2 DEF Result
<1> HIDE DEF done
<1>4. /\ run'[r].handled = Chosen[r] /\ run'[r].skipped = Cardinality(Left(r))
      /\ run'[r].played = run[r].played /\ run'[r].errors = run[r].errors
      /\ run'[r].ingested = run[r].ingested /\ run'[r].reads = run[r].reads
  BY <1>2, <1>3 DEF Result
<1>5. Chosen[r] = run[r].handled \cup Left(r) /\ run[r].handled \cap Left(r) = {}
  BY DEF Ordered, Left
<1>6. IsFiniteSet(Left(r))
  BY FS_Subset DEF Left
<1>7. Cardinality(Chosen[r]) = Cardinality(run[r].handled) + Cardinality(Left(r))
  <2>1. IsFiniteSet(run[r].handled)
    BY HandledFinite
  <2>2. Cardinality(run[r].handled \cup Left(r)) =
          Cardinality(run[r].handled) + Cardinality(Left(r))
            - Cardinality(run[r].handled \cap Left(r))
    BY <2>1, <1>6, FS_Union
  <2>3. Cardinality(run[r].handled \cap Left(r)) = 0
    BY <1>5, FS_EmptySet
  <2>4. Cardinality(run[r].handled) \in Nat /\ Cardinality(Left(r)) \in Nat
    BY <2>1, <1>6, FS_CardinalityType
  <2> QED BY <1>5, <2>2, <2>3, <2>4
<1>8. run[r].skipped = 0 /\ run[r].played \in Nat
      /\ run[r].played + run[r].skipped = Cardinality(run[r].handled)
  BY <1>1, <1>2 DEF Ordered, Accounts, Result
<1>9. Ordered(r)'
  BY <1>1, <1>4 DEF Ordered
<1>10. Accounts(r)'
  BY <1>1, <1>4, <1>7, <1>8 DEF Accounts
<1> QED BY <1>9, <1>10

\* A finished run has an outcome, and its counts decide which.
LEMMA FinishCounts ==
  ASSUME TypeOK, NEW r \in Runs, Ordered(r), Accounts(r), NEW status, Finish(r, status),
         \/ /\ task[r] = "waiting" /\ task'[r] = "validating"
            /\ status = FinalStatus(r)
         \/ task'[r] = "cancelled"
  PROVE  Ordered(r)' /\ Accounts(r)'
<1>1. run'[r] = [run[r] EXCEPT !.status = status] /\ run[r] \in Result
  BY DEF Finish, TypeOK
<1>2. /\ run'[r].handled = run[r].handled /\ run'[r].skipped = run[r].skipped
      /\ run'[r].played = run[r].played /\ run'[r].errors = run[r].errors
      /\ run'[r].ingested = run[r].ingested /\ run'[r].reads = run[r].reads
      /\ run'[r].status = status
  BY <1>1 DEF Result
<1>3. progress'[r].played = progress[r].played /\ progress'[r].errors = run[r].errors
  BY DEF Finish, TypeOK, Progress
<1>4. run[r].ingested \in Nat /\ run[r].reads \in Nat /\ run[r].errors \in Nat
  BY <1>1 DEF Result
<1>5. Ordered(r)'
  BY <1>2 DEF Ordered, FinalStatus
<1>6. Accounts(r)'
  BY <1>2, <1>3, <1>4 DEF Accounts, FinalStatus
<1> QED BY <1>5, <1>6

\* Every step of a runner keeps its counts in order.
LEMMA RunnerCounts ==
  ASSUME TypeOK, NEW r \in Runs, Ordered(r), Accounts(r), RunnerStep(r)
  PROVE  Ordered(r)' /\ Accounts(r)'
<1>0. run[r] \in Result /\ Foremost(r) \subseteq Events
  BY DEF TypeOK, Foremost, Left
<1>0a. /\ run[r].ingested \in Nat /\ run[r].reads \in Nat /\ run[r].errors \in Nat
       /\ run[r].played = run[r].ingested + run[r].reads + run[r].errors
  BY <1>0 DEF Accounts, Result
<1>1. CASE Begin(r)
  BY <1>1 DEF Begin, Resumes, At, TypeOK, Ordered, Accounts
<1>2. CASE Ingested(r)
  <2>1. PICK e \in Foremost(r) :
          Plays(r, e, [run[r] EXCEPT !.ids[e] = FactId(r, e), !.ingested = @ + 1])
    BY <1>2 DEF Ingested
  <2> DEFINE known == [run[r] EXCEPT !.ids[e] = FactId(r, e)]
             result == [known EXCEPT !.ingested = @ + 1]
  <2>2. Plays(r, e, result)
    BY <2>1
  <2>3. /\ known \in Result /\ known.handled = run[r].handled
        /\ known.played = run[r].played /\ known.skipped = run[r].skipped
        /\ known.ingested = run[r].ingested /\ known.reads = run[r].reads
        /\ known.errors = run[r].errors
    BY <1>0, Identified DEF Result
  <2> HIDE DEF known
  <2>4. /\ result \in Result /\ result.handled = run[r].handled
        /\ result.played = run[r].played /\ result.skipped = run[r].skipped
        /\ result.ingested = run[r].ingested + 1 /\ result.reads = run[r].reads
        /\ result.errors = run[r].errors
    BY <2>3 DEF Result
  <2> HIDE DEF result
  <2>5. task[r] = "playing" /\ task'[r] = "playing"
    BY <1>2 DEF Ingested, Resumes, At, TypeOK
  <2> QED BY <1>0a, <2>2, <2>4, <2>5, PlaysCounts
<1>3. CASE ProfileRead(r)
  <2> DEFINE result == [run[r] EXCEPT !.reads = @ + 1]
  <2>1. PICK e \in Foremost(r) : Plays(r, e, result)
    BY <1>3 DEF ProfileRead
  <2>2. /\ result \in Result /\ result.handled = run[r].handled
        /\ result.played = run[r].played /\ result.skipped = run[r].skipped
        /\ result.ingested = run[r].ingested /\ result.reads = run[r].reads + 1
        /\ result.errors = run[r].errors
    BY <1>0 DEF Result
  <2> HIDE DEF result
  <2>3. task[r] = "playing" /\ task'[r] = "playing"
    BY <1>3 DEF ProfileRead, Resumes, At, TypeOK
  <2> QED BY <1>0a, <2>1, <2>2, <2>3, PlaysCounts
<1>4. CASE RecordError(r)
  <2> DEFINE result == [run[r] EXCEPT !.errors = @ + 1]
  <2>1. PICK e \in Foremost(r) : Plays(r, e, result)
    BY <1>4 DEF RecordError
  <2>2. /\ result \in Result /\ result.handled = run[r].handled
        /\ result.played = run[r].played /\ result.skipped = run[r].skipped
        /\ result.ingested = run[r].ingested /\ result.reads = run[r].reads
        /\ result.errors = run[r].errors + 1
    BY <1>0 DEF Result
  <2> HIDE DEF result
  <2>3. task[r] = "playing" /\ task'[r] = "playing"
    BY <1>4 DEF RecordError, Resumes, At, TypeOK
  <2> QED BY <1>0a, <2>1, <2>2, <2>3, PlaysCounts
<1>5. CASE PlayedOut(r)
  BY <1>5, PlayedOutCounts
<1>6. CASE WaitedOut(r)
  BY <1>6, FinishCounts DEF WaitedOut, Resumes, At, TypeOK
<1>7. CASE Validated(r)
  BY <1>7 DEF Validated, Resumes, At, TypeOK, Ordered, Accounts
<1>8. CASE Cancelled(r)
  <2>1. task'[r] = "cancelled"
    BY <1>8 DEF Cancelled, At, TypeOK
  <2>2. CASE task[r] \in {"created", "validating"}
    BY <1>8, <2>1, <2>2, SameCounts DEF Cancelled
  <2>3. CASE task[r] \notin {"created", "validating"}
    BY <1>8, <2>1, <2>3, FinishCounts DEF Cancelled
  <2> QED BY <2>2, <2>3
<1> QED BY <1>1, <1>2, <1>3, <1>4, <1>5, <1>6, <1>7, <1>8 DEF RunnerStep

\* Every step keeps every run's counts in order.
LEMMA CountsStep ==
  ASSUME TypeOK, InOrder, CountsAddUp, [Next]_vars
  PROVE  InOrder' /\ CountsAddUp'
<1> SUFFICES ASSUME NEW q \in Runs PROVE Ordered(q)' /\ Accounts(q)'
  BY DEF InOrder, Ordered, CountsAddUp
<1>0. Ordered(q) /\ Accounts(q)
  BY InOrderIs DEF CountsAddUp
<1>1. ASSUME NEW r \in Runs, RunnerStep(r) PROVE Ordered(q)' /\ Accounts(q)'
  BY <1>0, <1>1, RunnerMoves, RunnerCounts, SameCounts
<1>2. ASSUME NEW r \in Runs, Start(r) PROVE Ordered(q)' /\ Accounts(q)'
  BY <1>0, <1>2 DEF Start, At, TypeOK, Ordered, Accounts
<1>3. ASSUME UNCHANGED <<task, run, progress>> PROVE Ordered(q)' /\ Accounts(q)'
  BY <1>0, <1>3, SameCounts
<1>4. ASSUME NEW r \in Runs, Stop(r) \/ StopAnswered(r) PROVE UNCHANGED <<task, run, progress>>
  BY <1>4 DEF Stop, StopAnswered
<1>5. CASE Shutdown \/ Teardown \/ Restart \/ UNCHANGED vars
  BY <1>3, <1>5 DEF Shutdown, Teardown, Restart, vars
<1>6. CASE Exit \/ Crash
  <2>1. Gone
    BY <1>6 DEF Exit, Crash
  <2> QED BY <1>0, <2>1, SameCounts DEF Gone
<1> QED BY <1>1, <1>2, <1>3, <1>4, <1>5, <1>6 DEF Next

-----------------------------------------------------------------------------
LEMMA InitInv == Init => IInv
<1> SUFFICES ASSUME Init PROVE IInv
  OBVIOUS
<1>1. TypeOK
  BY InitType
<1>2. OneGoing /\ AskedEnds
  BY DEF Init, OneGoing, AskedEnds, Going
<1>3. ASSUME NEW r \in Runs PROVE Ordered(r) /\ Accounts(r)
  <2>1. /\ run[r] = Blank /\ task[r] = "none"
        /\ progress[r].played = 0 /\ progress[r].errors = 0
    BY DEF Init
  <2>2. /\ Blank.handled = {} /\ Blank.ingested = 0 /\ Blank.reads = 0
        /\ Blank.errors = 0 /\ Blank.played = 0 /\ Blank.skipped = 0
    BY DEF Blank
  <2>3. Cardinality({}) = 0
    BY FS_EmptySet
  <2> QED BY <2>1, <2>2, <2>3 DEF Ordered, Accounts
<1> QED BY <1>1, <1>2, <1>3, InOrderIs DEF IInv, CountsAddUp

LEMMA StepInv == IInv /\ [Next]_vars => IInv'
  BY StepType, OneGoingStep, AskedEndsStep, CountsStep DEF IInv

\* The inductive invariant holds, for any scripts and any number of runs.
THEOREM RunConsistent == Spec => []IInv
  BY InitInv, StepInv, PTL DEF Spec

\* The counts of every run account for every event of its queue exactly once.
THEOREM CountsRight == Spec => []CountsAddUp
<1>1. IInv => CountsAddUp
  BY DEF IInv
<1> QED BY <1>1, RunConsistent, PTL

-----------------------------------------------------------------------------
(* What is recorded of the run in the slot.                                *)

\* What playing an event leaves of the result that it is given.
LEMMA PlaysFields ==
  ASSUME TypeOK, NEW r \in Runs, NEW e, NEW result, DOMAIN result = DOMAIN run[r],
         Plays(r, e, result)
  PROVE  /\ run'[r].status = result.status /\ run'[r].ids = result.ids
         /\ run'[r].handled = result.handled \cup {e}
<1> DEFINE tried == [result EXCEPT !.handled = @ \cup {e}]
<1>0. run[r] \in Result
  BY DEF TypeOK
<1>1. /\ tried.status = result.status /\ tried.ids = result.ids
      /\ tried.handled = result.handled \cup {e} /\ DOMAIN tried = DOMAIN run[r]
  BY <1>0 DEF Result
<1>2. run'[r] = [tried EXCEPT !.played = @ + 1]
  BY DEF Plays, TypeOK
<1> HIDE DEF tried
<1> QED BY <1>0, <1>1, <1>2 DEF Result

\* An ingest that is answered is logged, and its fact's id is kept.
LEMMA IngestedFields ==
  ASSUME TypeOK, NEW r \in Runs, Ingested(r)
  PROVE  \E e \in Foremost(r) : \E old \in Resolves(r, e), ok \in BOOLEAN :
           /\ Writes(ok) /\ LogFact(RunNumber(r), r, Owner(e), FactId(r, e), old, ok)
           /\ run'[r].status = run[r].status
           /\ run'[r].ids = [run[r].ids EXCEPT ![e] = FactId(r, e)]
           /\ run'[r].handled = run[r].handled \cup {e}
<1>1. PICK e \in Foremost(r) : \E old \in Resolves(r, e), ok \in BOOLEAN :
        /\ Writes(ok) /\ LogFact(RunNumber(r), r, Owner(e), FactId(r, e), old, ok)
        /\ Plays(r, e, [run[r] EXCEPT !.ids[e] = FactId(r, e), !.ingested = @ + 1])
  BY DEF Ingested
<1> DEFINE known == [run[r] EXCEPT !.ids[e] = FactId(r, e)]
           result == [known EXCEPT !.ingested = @ + 1]
<1>2. Plays(r, e, result)
  BY <1>1
<1>3. run[r] \in Result
  BY DEF TypeOK
<1>4. /\ known.status = run[r].status /\ known.handled = run[r].handled
      /\ known.ids = [run[r].ids EXCEPT ![e] = FactId(r, e)]
      /\ DOMAIN known = DOMAIN run[r]
  BY <1>3 DEF Result
<1> HIDE DEF known
<1>5. /\ result.status = run[r].status /\ result.handled = run[r].handled
      /\ result.ids = [run[r].ids EXCEPT ![e] = FactId(r, e)]
      /\ DOMAIN result = DOMAIN run[r]
  BY <1>3, <1>4 DEF Result
<1> HIDE DEF result
<1>6. /\ run'[r].status = run[r].status
      /\ run'[r].ids = [run[r].ids EXCEPT ![e] = FactId(r, e)]
      /\ run'[r].handled = run[r].handled \cup {e}
  <2>1. DOMAIN result = DOMAIN run[r]
    BY <1>5
  <2>2. /\ run'[r].status = result.status /\ run'[r].ids = result.ids
        /\ run'[r].handled = result.handled \cup {e}
    BY <1>2, <2>1, PlaysFields
  <2> QED BY <1>5, <2>2
<1> QED BY <1>1, <1>6

\* The other events, and the skip, leave a run's status and ids alone.
LEMMA PlayedFields ==
  ASSUME TypeOK, NEW r \in Runs, ProfileRead(r) \/ RecordError(r) \/ PlayedOut(r)
  PROVE  /\ run'[r].status = run[r].status /\ run'[r].ids = run[r].ids
         /\ Ordered(r) => run[r].handled \subseteq run'[r].handled
<1>0. run[r] \in Result
  BY DEF TypeOK
<1>1. CASE ProfileRead(r)
  <2> DEFINE result == [run[r] EXCEPT !.reads = @ + 1]
  <2>1. PICK e \in Foremost(r) : Plays(r, e, result)
    BY <1>1 DEF ProfileRead
  <2>2. /\ result.status = run[r].status /\ result.ids = run[r].ids
        /\ result.handled = run[r].handled /\ DOMAIN result = DOMAIN run[r]
    BY <1>0 DEF Result
  <2> HIDE DEF result
  <2> QED BY <2>1, <2>2, PlaysFields
<1>2. CASE RecordError(r)
  <2> DEFINE result == [run[r] EXCEPT !.errors = @ + 1]
  <2>1. PICK e \in Foremost(r) : Plays(r, e, result)
    BY <1>2 DEF RecordError
  <2>2. /\ result.status = run[r].status /\ result.ids = run[r].ids
        /\ result.handled = run[r].handled /\ DOMAIN result = DOMAIN run[r]
    BY <1>0 DEF Result
  <2> HIDE DEF result
  <2> QED BY <2>1, <2>2, PlaysFields
<1>3. CASE PlayedOut(r)
  <2> DEFINE done == [run[r] EXCEPT !.skipped = Cardinality(Left(r))]
  <2>1. done.status = run[r].status /\ done.ids = run[r].ids /\ DOMAIN done = DOMAIN run[r]
    BY <1>0 DEF Result
  <2>2. run'[r] = [done EXCEPT !.handled = Chosen[r]]
    BY <1>3 DEF PlayedOut, TypeOK
  <2> HIDE DEF done
  <2> QED BY <1>0, <2>1, <2>2 DEF Result, Ordered
<1> QED BY <1>1, <1>2, <1>3

\* An event that is handled, and a skip, leave a run's status alone.
LEMMA SameStatus ==
  ASSUME TypeOK, NEW r \in Runs,
         \/ Ingested(r) \/ ProfileRead(r) \/ RecordError(r) \/ PlayedOut(r)
  PROVE  run'[r].status = run[r].status
  BY IngestedFields, PlayedFields

\* A run that is finished has the status that it was finished with.
LEMMA FinishedStatus ==
  ASSUME TypeOK, NEW r \in Runs, NEW status, Finish(r, status)
  PROVE  run'[r].status = status
<1>1. run'[r] = [run[r] EXCEPT !.status = status] /\ run[r] \in Result
  BY DEF Finish, TypeOK
<1> QED BY <1>1 DEF Result

\* A run has no outcome before it is finished, and has one once it is cancelled,
\* unless that was before its first step.
LEMMA RunnerStatus ==
  ASSUME TypeOK, InOrder, NEW r \in Runs, RunnerStep(r),
         task[r] \in {"created", "playing", "waiting"} => run[r].status = "in_progress"
  PROVE  /\ task'[r] \in {"created", "playing", "waiting"} => run'[r].status = "in_progress"
         /\ task'[r] = "cancelled" => task[r] = "created" \/ run'[r].status # "in_progress"
<1> USE DEF Resumes, At, TypeOK
<1>1. CASE Begin(r)
  BY <1>1 DEF Begin
<1>2. CASE Ingested(r) \/ ProfileRead(r) \/ RecordError(r) \/ PlayedOut(r)
  <2>1. task[r] = "playing" /\ task'[r] \in {"playing", "waiting"}
    BY <1>2 DEF Ingested, ProfileRead, RecordError, PlayedOut
  <2> QED BY <1>2, <2>1, SameStatus
<1>3. CASE WaitedOut(r) \/ Validated(r)
  BY <1>3 DEF WaitedOut, Validated
<1>4. CASE Cancelled(r)
  <2>1. task'[r] = "cancelled" /\ task[r] \in {"created", "playing", "waiting", "validating"}
    BY <1>4 DEF Cancelled, Going
  <2>2. CASE task[r] \in {"created", "validating"}
    BY <1>4, <2>1, <2>2 DEF Cancelled, InOrder
  <2>3. CASE task[r] \notin {"created", "validating"}
    BY <1>4, <2>1, <2>3, FinishedStatus DEF Cancelled
  <2> QED BY <2>1, <2>2, <2>3
<1> QED BY <1>1, <1>2, <1>3, <1>4 DEF RunnerStep

\* What is written of a run on an open logger is what it has come to.
LEMMA RunnerRow ==
  ASSUME TypeOK, NEW r \in Runs, RunnerStep(r), open, faults' = 0,
         task[r] = "created" => r \notin asked /\ run[r].status = "in_progress",
         task[r] # "created" =>
           rows[RunNumber(r)] = [status |-> run[r].status, by |-> r]
  PROVE  rows'[RunNumber(r)] = [status |-> run'[r].status, by |-> r]
<1> USE DEF Resumes, At
<1>0. RunNumber(r) \in Runs /\ rows \in [Runs -> Row \cup {NoRow}] /\ faults \in Nat
  BY RunNumberType DEF TypeOK, RecordsTypeOK
<1>1. ASSUME NEW ok \in BOOLEAN, Writes(ok) PROVE ok
  BY <1>0, <1>1 DEF Writes
<1>2. ASSUME NEW status, Finish(r, status), task[r] # "created"
      PROVE  rows'[RunNumber(r)] = [status |-> run'[r].status, by |-> r]
  <2>1. EndRow(RunNumber(r), status, TRUE)
    BY <1>1, <1>2 DEF Finish
  <2>2. rows[RunNumber(r)] # NoRow
    BY <1>2, RecordsAssumption DEF NoRow
  <2>3. rows'[RunNumber(r)] = [rows[RunNumber(r)] EXCEPT !.status = status]
    BY <1>0, <2>1, <2>2 DEF EndRow
  <2> QED BY <1>2, <2>3, FinishedStatus
<1>3. CASE Begin(r)
  <2>1. StartRow(RunNumber(r), r, TRUE) /\ run' = run /\ task[r] = "created"
    BY <1>1, <1>3 DEF Begin
  <2> QED BY <1>0, <2>1 DEF StartRow
<1>4. CASE Ingested(r) \/ ProfileRead(r) \/ RecordError(r) \/ PlayedOut(r)
  <2>1. task[r] = "playing" /\ rows' = rows
    BY <1>4 DEF Ingested, ProfileRead, RecordError, PlayedOut, records, written
  <2> QED BY <1>4, <2>1, SameStatus
<1>5. CASE WaitedOut(r)
  BY <1>2, <1>5 DEF WaitedOut
<1>6. CASE Validated(r)
  BY <1>6 DEF Validated, records, written
<1>7. CASE Cancelled(r)
  BY <1>2, <1>7 DEF Cancelled, records, written
<1> QED BY <1>3, <1>4, <1>5, <1>6, <1>7 DEF RunnerStep

\* A runner's step never opens or closes the logger, nor takes faults back.
LEMMA RunnerOpen ==
  ASSUME TypeOK, NEW r \in Runs, RunnerStep(r)
  PROVE  open' = open /\ (faults' = 0 => faults = 0)
<1>0. faults \in Nat
  BY DEF TypeOK, RecordsTypeOK
<1>00. ASSUME NEW ok \in BOOLEAN, Writes(ok) PROVE faults' = 0 => faults = 0
  BY <1>0, <1>00 DEF Writes
<1>1. CASE Begin(r)
  BY <1>00, <1>1 DEF Begin
<1>11. CASE Ingested(r)
  BY <1>00, <1>11 DEF Ingested
<1>2. ASSUME NEW status, Finish(r, status) PROVE open' = open /\ (faults' = 0 => faults = 0)
  BY <1>00, <1>2 DEF Finish
<1>3. CASE ProfileRead(r) \/ RecordError(r) \/ PlayedOut(r) \/ Validated(r)
  BY <1>3 DEF ProfileRead, RecordError, PlayedOut, Validated, records
<1>4. CASE WaitedOut(r) \/ Cancelled(r)
  BY <1>2, <1>4 DEF WaitedOut, Cancelled, records
<1> QED BY <1>1, <1>11, <1>3, <1>4 DEF RunnerStep

\* A runner's step keeps the records of the slot right.
LEMMA RecordingRunner ==
  ASSUME IInv, Recording, NEW r \in Runs, RunnerStep(r)
  PROVE  Recording'
<1>0. TypeOK /\ InOrder /\ slot = r /\ Going(r) /\ slot' = r /\ server' = server
      /\ asked' = asked /\ slot # Null
  BY RunnerMoves, RecordsAssumption DEF IInv, OneGoing
<1>1. \A q \in Runs \ {r} : task'[q] = task[q] /\ run'[q] = run[q]
  BY <1>0, RunnerMoves
<1>2. task'[r] \in {"playing", "waiting", "validating", "returned", "cancelled"}
  BY <1>0, RunnerMoves
<1>3. task[r] \in {"created", "playing", "waiting"} => run[r].status = "in_progress"
  BY DEF Recording
<1>4. /\ task'[r] \in {"created", "playing", "waiting"} => run'[r].status = "in_progress"
      /\ task'[r] = "cancelled" => task[r] = "created" \/ run'[r].status # "in_progress"
  BY <1>0, <1>3, RunnerStatus
<1>5. open' = open /\ (faults' = 0 => faults = 0)
  BY <1>0, RunnerOpen
<1>6. server = "up" => open /\ \A q \in asked : task[q] # "created"
  BY DEF Recording
<1>7. server' = "up" => open' /\ \A q \in asked' : task'[q] # "created"
  BY <1>0, <1>1, <1>2, <1>5, <1>6 DEF IInv, TypeOK
<1>8. server' # "down"
  BY <1>0 DEF IInv, OneGoing
<1>9. \A q \in Runs :
        task'[q] \in {"none", "created", "playing", "waiting"} => run'[q].status = "in_progress"
  BY <1>1, <1>2, <1>4 DEF Recording
<1>10. server = "up" /\ task'[r] = "cancelled" => run'[r].status # "in_progress"
  <2>1. task'[r] = "cancelled" => r \in asked
    BY <1>0, RunnerMoves
  <2> QED BY <1>4, <1>6, <2>1
<1>11. server = "up" /\ faults' = 0 =>
         rows'[RunNumber(r)] = [status |-> run'[r].status, by |-> r]
  <2> SUFFICES ASSUME server = "up", faults' = 0
               PROVE  rows'[RunNumber(r)] = [status |-> run'[r].status, by |-> r]
    OBVIOUS
  <2>1. task[r] = "created" => r \notin asked /\ run[r].status = "in_progress"
    BY <1>3, <1>6
  <2>2. task[r] # "created" => rows[RunNumber(r)] = [status |-> run[r].status, by |-> r]
    BY <1>0, <1>5 DEF Recording
  <2> QED BY <1>0, <1>6, <2>1, <2>2, RunnerRow
<1>12. RunNumber(slot)' = RunNumber(r)
  BY DEF RunNumber
<1> QED BY <1>0, <1>2, <1>7, <1>8, <1>9, <1>10, <1>11, <1>12 DEF Recording

\* Nothing else touches what is recorded while the process lives.
LEMMA RecordingStep == IInv /\ Recording /\ [Next]_vars => Recording'
<1> SUFFICES ASSUME IInv, Recording, [Next]_vars PROVE Recording'
  OBVIOUS
<1> USE RecordsAssumption DEF IInv, TypeOK, RunNumber
<1>1. ASSUME NEW r \in Runs, RunnerStep(r) PROVE Recording'
  BY <1>1, RecordingRunner
<1>2. ASSUME NEW r \in Runs, Start(r) PROVE Recording'
  BY <1>2 DEF Start, At, Recording, records, AskedEnds, Going
<1>3. ASSUME NEW r \in Runs, Stop(r) PROVE Recording'
  BY <1>3 DEF Stop, Recording, records, written
<1>4. ASSUME NEW r \in Runs, StopAnswered(r) PROVE Recording'
  BY <1>4 DEF StopAnswered, Recording, records, written
<1>5. CASE Shutdown
  BY <1>5 DEF Shutdown, Recording, dashboard
<1>6. CASE Teardown
  BY <1>6 DEF Teardown, Recording, dashboard
<1>7. CASE Exit \/ Crash
  BY <1>7 DEF Exit, Crash, Gone, Recording
<1>8. CASE Restart
  BY <1>8 DEF Restart, Recording, dashboard, AskedEnds, OneGoing, Going
<1>9. CASE UNCHANGED vars
  BY <1>9 DEF vars, Recording, dashboard, records, written
<1> QED BY <1>1, <1>2, <1>3, <1>4, <1>5, <1>6, <1>7, <1>8, <1>9 DEF Next

LEMMA InitRecording == Init => Recording
<1> SUFFICES ASSUME Init PROVE Recording
  OBVIOUS
<1>1. Blank.status = "in_progress"
  BY DEF Blank
<1> QED BY <1>1 DEF Init, RecordsInit, Recording

\* As long as no audit write fails, what the status endpoint says of a run and
\* what run_metadata says agree, for any scripts and any number of runs under
\* one number, however they are stopped.
THEOREM StatusIsRecorded == Spec => []StatusRecorded
<1>1. IInv /\ Recording => StatusRecorded
  <2> SUFFICES ASSUME IInv, Recording, server = "up", slot # Null,
                      task[slot] # "created", faults = 0
               PROVE  LET row == rows[RunNumber(slot)] IN
                        /\ row.by = slot /\ row.status = run[slot].status
                        /\ Status(slot) \in {"completed", "failed"} => row.status = Status(slot)
                        /\ Over(slot) => row.status # "in_progress"
    BY DEF StatusRecorded
  <2>1. slot \in Runs /\ task[slot] \in Steps
    BY DEF IInv, TypeOK
  <2>2. rows[RunNumber(slot)] = [status |-> run[slot].status, by |-> slot]
    BY DEF Recording
  <2>3. Status(slot) \in {"completed", "failed"} => run[slot].status = Status(slot)
    BY <2>1 DEF Status, Going, Steps
  <2>4. Over(slot) => run[slot].status # "in_progress"
    BY <2>1 DEF Over, Recording, IInv, InOrder
  <2> QED BY <2>2, <2>3, <2>4
<1> QED BY <1>1, RunConsistent, InitRecording, RecordingStep, PTL DEF Spec

-----------------------------------------------------------------------------
(* The audit trail and the fact states.                                    *)

\* Logging a fact of user u that supersedes none, or one of u and not itself,
\* changes what the trail tells as it changes the states.
LEMMA LogReplayed ==
  ASSUME TypeOK, Filed, NEW n \in Runs, NEW r \in Runs, NEW e \in Events,
         NEW id \in Facts, id[2] = e, NEW old \in Facts \cup {Null}, old # id,
         old # Null => Owner(old[2]) = Owner(e),
         LogFact(n, r, Owner(e), id, old, TRUE), since' = since,
         active = ActiveByTrail
  PROVE  /\ active' = ActiveByTrail'
         /\ \A i \in DOMAIN trail' : trail'[i].user = Owner(trail'[i].id[2])
<1> DEFINE entry == [number |-> n, run |-> r, user |-> Owner(e), id |-> id, old |-> old]
           Told(i) == <<trail[i].user, trail[i].id>>
           Listed == {i \in since + 1..Len(trail) : Standing(i)}
<1>1. trail \in Seq(Entry) /\ since \in 0..Len(trail) /\ Len(trail) \in Nat
  BY DEF TypeOK, RecordsTypeOK
<1>2. entry \in Entry
  BY Owned DEF Entry
<1>3. trail' = Append(trail, entry)
  BY DEF LogFact
<1>4. /\ entry.user = Owner(e) /\ entry.id = id /\ entry.old = old
  OBVIOUS
<1> HIDE DEF entry
<1>5. /\ Len(trail') = Len(trail) + 1 /\ trail'[Len(trail) + 1] = entry
      /\ \A i \in 1..Len(trail) : trail'[i] = trail[i]
      /\ DOMAIN trail' = 1..Len(trail) + 1 /\ DOMAIN trail = 1..Len(trail)
  BY <1>1, <1>2, <1>3
<1>6. \A i \in DOMAIN trail' : trail'[i].user = Owner(trail'[i].id[2])
  BY <1>4, <1>5 DEF Filed
<1>7. \A i \in 1..Len(trail) : Standing(i)' <=> Standing(i) /\ trail[i].id # old
  <2> TAKE i \in 1..Len(trail)
  <2>1. i + 1..Len(trail) + 1 = (i + 1..Len(trail)) \cup {Len(trail) + 1}
    BY <1>1
  <2>2. Standing(i)' <=> \A j \in i + 1..Len(trail) + 1 : trail'[j].old # trail'[i].id
    BY <1>5 DEF Standing
  <2>3. trail'[i] = trail[i] /\ \A j \in i + 1..Len(trail) : trail'[j] = trail[j]
    BY <1>1, <1>5
  <2>4. trail'[Len(trail) + 1].old = old
    BY <1>4, <1>5
  <2> QED BY <2>1, <2>2, <2>3, <2>4 DEF Standing
<1>8. \A j \in {Len(trail) + 1} : Standing(j)'
  <2> TAKE j \in {Len(trail) + 1}
  <2>1. j + 1..Len(trail') = {}
    BY <1>1, <1>5
  <2> QED BY <2>1 DEF Standing
<1>9. \A i \in 1..Len(trail) : trail[i].id # old <=> Told(i) # <<Owner(e), old>>
  <2> TAKE i \in 1..Len(trail)
  <2>0. trail[i] \in Entry
    BY <1>1
  <2>1. trail[i].id \in Facts /\ trail[i].user = Owner(trail[i].id[2])
    BY <1>5, <2>0 DEF Filed, Entry
  <2>2. trail[i].id # Null
    BY <2>1, RecordsAssumption
  <2> QED BY <2>1, <2>2
<1>10. ActiveByTrail = {Told(i) : i \in Listed}
  BY DEF ActiveByTrail
<1>11. ActiveByTrail' = {<<trail'[i].user, trail'[i].id>> :
                           i \in {j \in since + 1..Len(trail') : Standing(j)'}}
  BY DEF ActiveByTrail
<1>12. {j \in since + 1..Len(trail') : Standing(j)'}
         = {i \in Listed : trail[i].id # old} \cup {Len(trail) + 1}
  <2>1. since + 1..Len(trail') = (since + 1..Len(trail)) \cup {Len(trail) + 1}
    BY <1>1, <1>5
  <2>2. \A i \in since + 1..Len(trail) : Standing(i)' <=> Standing(i) /\ trail[i].id # old
    BY <1>1, <1>7
  <2> QED BY <1>8, <2>1, <2>2
<1>13. ActiveByTrail' = {Told(i) : i \in {j \in Listed : trail[j].id # old}}
                          \cup {<<Owner(e), id>>}
  <2> DEFINE New(i) == <<trail'[i].user, trail'[i].id>>
             Kept == {j \in Listed : trail[j].id # old}
  <2>1. \A i \in Kept : New(i) = Told(i)
    BY <1>1, <1>5
  <2>2. New(Len(trail) + 1) = <<Owner(e), id>>
    BY <1>4, <1>5
  <2>3. ActiveByTrail' = {New(i) : i \in Kept \cup {Len(trail) + 1}}
    BY <1>11, <1>12
  <2> HIDE DEF New, Kept, Listed
  <2>4. {New(i) : i \in Kept \cup {Len(trail) + 1}}
          = {Told(i) : i \in Kept} \cup {<<Owner(e), id>>}
    BY <2>1, <2>2
  <2> QED BY <2>3, <2>4 DEF Kept
<1>14. {Told(i) : i \in {j \in Listed : trail[j].id # old}}
         = {Told(i) : i \in Listed} \ {<<Owner(e), old>>}
  <2>1. \A i \in Listed : trail[i].id # old <=> Told(i) # <<Owner(e), old>>
    BY <1>1, <1>9
  <2> HIDE DEF Told, Listed
  <2> QED BY <2>1
<1>15. active' = (active \ {<<Owner(e), old>>}) \cup {<<Owner(e), id>>}
  BY DEF LogFact, Activated
<1> QED BY <1>6, <1>10, <1>13, <1>14, <1>15

\* A fact that is played supersedes none or another one, of the same user.
LEMMA ResolvesOther ==
  ASSUME TypeOK, Filed, NEW r \in Runs, NEW e \in Foremost(r), NEW old \in Resolves(r, e)
  PROVE  /\ e \in Events /\ old \in Facts \cup {Null} /\ old # FactId(r, e)
         /\ old # Null => Owner(old[2]) = Owner(e)
<1>1. e \in Events /\ e \notin run[r].handled
  BY DEF Foremost, Left
<1>2. old \in Facts \cup {Null}
  BY <1>1, ResolvesType
<1>3. CASE old = Null
  BY <1>1, <1>3, Identified, RecordsAssumption
<1>4. CASE old # Null
  <2>1. PICK f \in Prior(r, e) : Owner(f) = Owner(e) /\ old \in Known(r, f)
    BY <1>4 DEF Resolves, Superseded
  <2>2. f \in Events /\ old = run[r].ids[f]
    BY <2>1 DEF Prior, Candidates, Known
  <2>3. old = FactId(r, f) /\ f # e
    BY <1>1, <1>4, <2>2 DEF Filed
  <2>4. old[2] = f /\ FactId(r, e)[2] = e
    BY <2>3 DEF FactId
  <2> QED BY <1>1, <1>2, <2>1, <2>3, <2>4
<1> QED BY <1>3, <1>4

\* A runner's step keeps the trail and the states together.
LEMMA ReplayedRunner ==
  ASSUME TypeOK, InOrder, Filed, Replayed, NEW r \in Runs, RunnerStep(r)
  PROVE  Filed' /\ Replayed'
<1>0. run[r] \in Result /\ Ordered(r)
  BY InOrderIs DEF TypeOK
<1>1. \A q \in Runs \ {r} : run'[q] = run[q]
  BY RunnerMoves
<1>2. ASSUME UNCHANGED <<trail, since, complete, active>>,
             run'[r].ids = run[r].ids, run[r].handled \subseteq run'[r].handled
      PROVE  Filed' /\ Replayed'
  <2>1. Filed'
    BY <1>1, <1>2 DEF Filed, FactId
  <2>2. Replayed'
    BY <1>2 DEF Replayed, ActiveByTrail, Standing
  <2> QED BY <2>1, <2>2
<1>3. ASSUME NEW status, Finish(r, status) PROVE Filed' /\ Replayed'
  <2>1. run'[r] = [run[r] EXCEPT !.status = status]
    BY <1>3 DEF Finish, TypeOK
  <2>2. run'[r].ids = run[r].ids /\ run'[r].handled = run[r].handled
    BY <1>0, <2>1 DEF Result
  <2> QED BY <1>2, <1>3, <2>2 DEF Finish, states
<1>4. CASE Begin(r) \/ Validated(r)
  BY <1>2, <1>4 DEF Begin, Validated, states, records, written
<1>5. CASE Ingested(r)
  <2>0. PICK e \in Foremost(r) : \E old \in Resolves(r, e), ok \in BOOLEAN :
           /\ Writes(ok) /\ LogFact(RunNumber(r), r, Owner(e), FactId(r, e), old, ok)
           /\ run'[r].status = run[r].status
           /\ run'[r].ids = [run[r].ids EXCEPT ![e] = FactId(r, e)]
           /\ run'[r].handled = run[r].handled \cup {e}
    BY <1>5, IngestedFields
  <2>1. PICK old \in Resolves(r, e), ok \in BOOLEAN :
          /\ LogFact(RunNumber(r), r, Owner(e), FactId(r, e), old, ok)
          /\ run'[r].ids = [run[r].ids EXCEPT ![e] = FactId(r, e)]
          /\ run'[r].handled = run[r].handled \cup {e}
    BY <2>0
  <2>2. /\ e \in Events /\ old \in Facts \cup {Null} /\ old # FactId(r, e)
        /\ old # Null => Owner(old[2]) = Owner(e)
    BY ResolvesOther
  <2>3. since' = since
    BY <1>5 DEF Ingested
  <2>4. RunNumber(r) \in Runs /\ FactId(r, e) \in Facts /\ FactId(r, e)[2] = e
    BY <2>2, Identified, RunNumberType DEF FactId
  <2>5. \A q \in Runs : \A f \in Events :
          run'[q].ids[f] # Null => run'[q].ids[f] = FactId(q, f) /\ f \in run'[q].handled
    BY <1>0, <1>1, <2>1, <2>2 DEF Filed, Result
  <2>6. CASE ~ok
    <3>1. trail' = trail /\ ~complete'
      BY <2>1, <2>6 DEF LogFact
    <3> QED BY <2>5, <3>1 DEF Filed, Replayed, FactId
  <2>7. CASE ok /\ complete
    BY <2>1, <2>2, <2>3, <2>4, <2>5, <2>7, LogReplayed DEF Filed, Replayed, FactId
  <2>8. CASE ok /\ ~complete
    <3>1. ~complete' /\ trail' = Append(trail, [number |-> RunNumber(r), run |-> r,
                           user |-> Owner(e), id |-> FactId(r, e), old |-> old])
      BY <2>1, <2>8 DEF LogFact
    <3>2. trail \in Seq(Entry)
      BY DEF TypeOK, RecordsTypeOK
    <3>3. \A i \in DOMAIN trail' : trail'[i].user = Owner(trail'[i].id[2])
      BY <2>4, <3>1, <3>2 DEF Filed
    <3> QED BY <2>5, <3>1, <3>3 DEF Filed, Replayed, FactId
  <2> QED BY <2>6, <2>7, <2>8
<1>6. CASE ProfileRead(r) \/ RecordError(r) \/ PlayedOut(r)
  <2>1. UNCHANGED <<trail, since, complete, active>>
    BY <1>6 DEF ProfileRead, RecordError, PlayedOut, records, written, states
  <2> QED BY <1>0, <1>2, <1>6, <2>1, PlayedFields
<1>7. CASE WaitedOut(r)
  BY <1>3, <1>7 DEF WaitedOut
<1>8. CASE Cancelled(r)
  BY <1>2, <1>3, <1>8 DEF Cancelled, records, written, states
<1> QED BY <1>4, <1>5, <1>6, <1>7, <1>8 DEF RunnerStep

\* Nothing else writes to the trail, and the states go with the process.
LEMMA ReplayedStep == IInv /\ Filed /\ Replayed /\ [Next]_vars => Filed' /\ Replayed'
<1> SUFFICES ASSUME IInv, Filed, Replayed, [Next]_vars PROVE Filed' /\ Replayed'
  OBVIOUS
<1>1. ASSUME NEW r \in Runs, RunnerStep(r) PROVE Filed' /\ Replayed'
  BY <1>1, ReplayedRunner DEF IInv
<1>2. ASSUME UNCHANGED <<trail, since, complete, active, run>> PROVE Filed' /\ Replayed'
  BY <1>2 DEF Filed, Replayed, ActiveByTrail, Standing, FactId
<1>3. ASSUME NEW r \in Runs, Start(r) \/ Stop(r) \/ StopAnswered(r)
      PROVE  Filed' /\ Replayed'
  BY <1>2, <1>3 DEF Start, Stop, StopAnswered, records, written, states
<1>4. CASE Shutdown \/ Teardown \/ Restart
  BY <1>2, <1>4 DEF Shutdown, Teardown, Restart, records, written, states
<1>5. CASE Exit \/ Crash
  <2>1. Gone
    BY <1>5 DEF Exit, Crash
  <2>2. Len(trail) \in Nat
    BY DEF IInv, TypeOK, RecordsTypeOK
  <2>3. UNCHANGED <<trail, run>> /\ active' = {} /\ since' = Len(trail')
    BY <2>1 DEF Gone, Closed, written
  <2>4. Filed'
    BY <2>3 DEF Filed, FactId
  <2>5. since' + 1..Len(trail') = {}
    BY <2>2, <2>3
  <2>6. ActiveByTrail' = {}
    BY <2>5 DEF ActiveByTrail
  <2> QED BY <2>3, <2>4, <2>6 DEF Replayed
<1>6. CASE UNCHANGED vars
  BY <1>2, <1>6 DEF vars, records, written, states
<1> QED BY <1>1, <1>3, <1>4, <1>5, <1>6 DEF Next

LEMMA InitReplayed == Init => Filed /\ Replayed
<1> SUFFICES ASSUME Init PROVE Filed /\ Replayed
  OBVIOUS
<1>1. trail = << >> /\ since = 0 /\ active = {} /\ Len(trail) = 0 /\ DOMAIN trail = {}
  BY DEF Init, RecordsInit
<1>2. 0 + 1..Len(trail) = {}
  BY <1>1
<1>3. ActiveByTrail = {}
  BY <1>1, <1>2 DEF ActiveByTrail
<1>4. \A r \in Runs : \A e \in Events : run[r].ids[e] = Null
  BY DEF Init, Blank
<1> QED BY <1>1, <1>3, <1>4 DEF Filed, Replayed

\* Replaying the audit trail gives the states that the monitoring service shows,
\* for any scripts, as long as no audit write of the process was lost.
THEOREM TrailToldStates == Spec => []TrailTellsStates
<1>1. Replayed => TrailTellsStates
  BY DEF Replayed, TrailTellsStates
<1> QED BY <1>1, RunConsistent, InitReplayed, ReplayedStep, PTL DEF Spec

-----------------------------------------------------------------------------
(* The promise.                                                            *)

StateOf == [r \in Runs |-> Status(r)]
LoggedOf == [r \in Runs |-> run[r].ingested + run[r].reads]

\* A run is in progress in the eyes of the status endpoint while its task goes.
LEMMA StatusIs ==
  ASSUME TypeOK, InOrder, NEW r \in Runs
  PROVE  /\ Status(r) = "in_progress" <=> Going(r)
         /\ Status(r) = "none" <=> task[r] = "none"
         /\ Status(r) = "stopped" <=> task[r] = "cancelled"
         /\ Status(r) = "lost" <=> task[r] = "lost"
         /\ task[r] = "returned" => Status(r) \in {"completed", "failed"}
<1>1. run[r].status \in {"in_progress", "completed", "failed"} /\ task[r] \in Steps
  BY DEF TypeOK, Result
<1> QED BY <1>1 DEF Status, Going, InOrder, Steps

LEMMA StatusIsNext ==
  ASSUME TypeOK', InOrder', NEW r \in Runs
  PROVE  /\ Status(r)' = "in_progress" <=> Going(r)'
         /\ Status(r)' = "none" <=> task'[r] = "none"
         /\ Status(r)' = "stopped" <=> task'[r] = "cancelled"
         /\ Status(r)' = "lost" <=> task'[r] = "lost"
         /\ task'[r] = "returned" => Status(r)' \in {"completed", "failed"}
<1>1. run'[r].status \in {"in_progress", "completed", "failed"} /\ task'[r] \in Steps
  BY DEF TypeOK, Result
<1> QED BY <1>1 DEF Status, Going, InOrder, Steps

\* What the promise is about stays as it is.
Still(r) == Status(r)' = Status(r) /\ run'[r].ingested + run'[r].reads = run[r].ingested + run[r].reads

LEMMA Stutters ==
  ASSUME \A q \in Runs : Still(q), UNCHANGED <<asked, told>>
  PROVE  UNCHANGED Lifecycle!vars
<1>1. StateOf' = StateOf /\ LoggedOf' = LoggedOf
  BY DEF StateOf, LoggedOf, Still
<1> QED BY <1>1 DEF Lifecycle!vars, StateOf, LoggedOf

\* One run records an event.
LEMMA Records ==
  ASSUME NEW r \in Runs, Status(r) = "in_progress", Status(r)' = Status(r), r \notin asked,
         run'[r].ingested + run'[r].reads = run[r].ingested + run[r].reads + 1,
         \A q \in Runs \ {r} : Still(q), UNCHANGED <<asked, told>>
  PROVE  Lifecycle!Next
<1>1. StateOf' = StateOf
  BY DEF StateOf, Still
<1>2. LoggedOf' = [LoggedOf EXCEPT ![r] = @ + 1]
  BY DEF LoggedOf, Still
<1>3. StateOf[r] = "in_progress"
  BY DEF StateOf
<1>4. Lifecycle!Record(r)
  BY <1>1, <1>2, <1>3 DEF Lifecycle!Record, StateOf, LoggedOf
<1> QED BY <1>4 DEF Lifecycle!Next

\* One run ends.
LEMMA Ends ==
  ASSUME NEW r \in Runs, Status(r) = "in_progress",
         Status(r)' \in {"completed", "failed", "stopped"},
         Status(r)' = "stopped" <=> r \in asked,
         run'[r].ingested + run'[r].reads = run[r].ingested + run[r].reads,
         \A q \in Runs \ {r} : Still(q), UNCHANGED <<asked, told>>
  PROVE  Lifecycle!Next
<1>1. LoggedOf' = LoggedOf
  BY DEF LoggedOf, Still
<1> DEFINE outcome == Status(r)'
<1>2. StateOf' = [StateOf EXCEPT ![r] = outcome]
  BY DEF StateOf, Still
<1>3. StateOf[r] = "in_progress"
  BY DEF StateOf
<1> HIDE DEF outcome
<1>4. outcome \in Lifecycle!Outcomes \ {"lost"} /\ (outcome = "stopped" <=> r \in asked)
  BY DEF Lifecycle!Outcomes, outcome
<1>5. Lifecycle!End(r, outcome)
  BY <1>1, <1>2, <1>3, <1>4 DEF Lifecycle!End, StateOf, LoggedOf
<1> QED BY <1>4, <1>5 DEF Lifecycle!Next

\* A runner's step is a step of the promise, or none.
LEMMA RunnerKeeps ==
  ASSUME IInv, IInv', NEW r \in Runs, RunnerStep(r)
  PROVE  Lifecycle!Next \/ UNCHANGED Lifecycle!vars
<1> USE DEF IInv
<1>1. /\ Going(r) /\ UNCHANGED <<asked, told>> /\ \A q \in Runs \ {r} : Still(q)
      /\ Status(r) = "in_progress" /\ run[r] \in Result /\ task \in [Runs -> Steps]
      /\ Foremost(r) \subseteq Events
  BY RunnerMoves, StatusIs DEF Still, Status, Going, TypeOK, Foremost, Left
<1>2. ASSUME r \notin asked, task'[r] \in {"playing", "waiting", "validating"}
      PROVE  Status(r)' = "in_progress"
  BY <1>2, StatusIsNext DEF Going
<1>3. ASSUME r \notin asked, task'[r] \in {"playing", "waiting", "validating"},
             run'[r].ingested = run[r].ingested, run'[r].reads = run[r].reads
      PROVE  UNCHANGED Lifecycle!vars
  BY <1>1, <1>2, <1>3, Stutters DEF Still
<1>4. ASSUME NEW status, Finish(r, status)
      PROVE  run'[r].ingested = run[r].ingested /\ run'[r].reads = run[r].reads
  BY <1>1, <1>4 DEF Finish, TypeOK, Result
<1>5. ASSUME NEW e \in Events, NEW result \in Result, Plays(r, e, result)
      PROVE  run'[r].ingested = result.ingested /\ run'[r].reads = result.reads
  <2> DEFINE tried == [result EXCEPT !.handled = @ \cup {e}]
  <2>1. tried.ingested = result.ingested /\ tried.reads = result.reads /\ tried \in Result
    BY DEF Result
  <2>2. run'[r] = [tried EXCEPT !.played = @ + 1]
    BY <1>5 DEF Plays, TypeOK
  <2> HIDE DEF tried
  <2> QED BY <2>1, <2>2 DEF Result
<1>6. CASE Begin(r)
  BY <1>1, <1>3, <1>6 DEF Begin, Resumes, At
<1>7. CASE Ingested(r)
  <2>1. PICK e \in Foremost(r) :
          Plays(r, e, [run[r] EXCEPT !.ids[e] = FactId(r, e), !.ingested = @ + 1])
    BY <1>7 DEF Ingested
  <2> DEFINE known == [run[r] EXCEPT !.ids[e] = FactId(r, e)]
             result == [known EXCEPT !.ingested = @ + 1]
  <2>2. Plays(r, e, result)
    BY <2>1
  <2>3. /\ known \in Result /\ known.ingested = run[r].ingested
        /\ known.reads = run[r].reads /\ e \in Events
    BY <1>1, Identified DEF Result
  <2> HIDE DEF known
  <2>4. /\ result \in Result /\ result.ingested = run[r].ingested + 1
        /\ result.reads = run[r].reads
    BY <2>3 DEF Result
  <2> HIDE DEF result
  <2>5. run'[r].ingested = run[r].ingested + 1 /\ run'[r].reads = run[r].reads
    BY <1>5, <2>2, <2>3, <2>4
  <2>6. r \notin asked /\ task'[r] = "playing"
    BY <1>1, <1>7 DEF Ingested, Resumes, At
  <2>7. run[r].ingested \in Nat /\ run[r].reads \in Nat
    BY <1>1 DEF Result
  <2>8. run'[r].ingested + run'[r].reads = run[r].ingested + run[r].reads + 1
    BY <2>5, <2>7
  <2>9. Status(r)' = Status(r)
    BY <1>1, <1>2, <2>6
  <2> QED BY <1>1, <2>6, <2>8, <2>9, Records
<1>8. CASE ProfileRead(r)
  <2> DEFINE result == [run[r] EXCEPT !.reads = @ + 1]
  <2>1. PICK e \in Foremost(r) : Plays(r, e, result)
    BY <1>8 DEF ProfileRead
  <2>2. /\ result \in Result /\ result.ingested = run[r].ingested
        /\ result.reads = run[r].reads + 1
    BY <1>1 DEF Result
  <2> HIDE DEF result
  <2>3. run'[r].ingested = run[r].ingested /\ run'[r].reads = run[r].reads + 1
    BY <1>1, <1>5, <2>1, <2>2
  <2>4. r \notin asked /\ task'[r] = "playing"
    BY <1>1, <1>8 DEF ProfileRead, Resumes, At
  <2>5. run[r].ingested \in Nat /\ run[r].reads \in Nat
    BY <1>1 DEF Result
  <2>6. run'[r].ingested + run'[r].reads = run[r].ingested + run[r].reads + 1
    BY <2>3, <2>5
  <2>7. Status(r)' = Status(r)
    BY <1>1, <1>2, <2>4
  <2> QED BY <1>1, <2>4, <2>6, <2>7, Records
<1>9. CASE RecordError(r)
  <2> DEFINE result == [run[r] EXCEPT !.errors = @ + 1]
  <2>1. PICK e \in Foremost(r) : Plays(r, e, result)
    BY <1>9 DEF RecordError
  <2>2. /\ result \in Result /\ result.ingested = run[r].ingested
        /\ result.reads = run[r].reads
    BY <1>1 DEF Result
  <2> HIDE DEF result
  <2>3. run'[r].ingested = run[r].ingested /\ run'[r].reads = run[r].reads
    BY <1>1, <1>5, <2>1, <2>2
  <2> QED BY <1>1, <1>3, <1>9, <2>3 DEF RecordError, Resumes, At
<1>10. CASE PlayedOut(r)
  <2> DEFINE done == [run[r] EXCEPT !.skipped = Cardinality(Left(r))]
  <2>1. run'[r] = [done EXCEPT !.handled = Chosen[r]]
    BY <1>10 DEF PlayedOut, TypeOK
  <2>2. /\ done.ingested = run[r].ingested /\ done.reads = run[r].reads
        /\ DOMAIN done = DOMAIN run[r]
    BY <1>1 DEF Result
  <2> HIDE DEF done
  <2>3. run'[r].ingested = run[r].ingested /\ run'[r].reads = run[r].reads
    BY <1>1, <2>1, <2>2 DEF Result
  <2> QED BY <1>1, <1>3, <1>10, <2>3 DEF PlayedOut, Resumes, At
<1>11. CASE WaitedOut(r)
  BY <1>1, <1>3, <1>4, <1>11 DEF WaitedOut, Resumes, At
<1>12. CASE Validated(r)
  <2>1. task'[r] = "returned" /\ r \notin asked /\ run' = run
    BY <1>1, <1>12 DEF Validated, Resumes, At
  <2>2. Status(r)' \in {"completed", "failed"}
    BY <2>1, StatusIsNext
  <2> QED BY <1>1, <2>1, <2>2, Ends
<1>13. CASE Cancelled(r)
  <2>1. task'[r] = "cancelled" /\ r \in asked
    BY <1>1, <1>13 DEF Cancelled, At
  <2>2. Status(r)' = "stopped"
    BY <2>1, StatusIsNext
  <2>3. run'[r].ingested = run[r].ingested /\ run'[r].reads = run[r].reads
    BY <1>4, <1>13 DEF Cancelled
  <2> QED BY <1>1, <2>1, <2>2, <2>3, Ends
<1> QED BY <1>6, <1>7, <1>8, <1>9, <1>10, <1>11, <1>12, <1>13 DEF RunnerStep

\* Every other step is a step of the promise, or none.
LEMMA StepKeeps ==
  ASSUME IInv, IInv', [Next]_vars
  PROVE  [Lifecycle!Next]_(Lifecycle!vars)
<1> USE DEF IInv
<1>1. ASSUME NEW r \in Runs, RunnerStep(r) PROVE Lifecycle!Next \/ UNCHANGED Lifecycle!vars
  BY <1>1, RunnerKeeps
<1>2. ASSUME UNCHANGED <<task, run, asked, told>> PROVE UNCHANGED Lifecycle!vars
  BY <1>2, Stutters DEF Still, Status, Going
<1>3. ASSUME NEW r \in Runs, Start(r) PROVE Lifecycle!Next
  <2>1. task[r] = "none" /\ task' = [task EXCEPT ![r] = "created"] /\ UNCHANGED <<asked, told, run>>
    BY <1>3 DEF Start, At
  <2>2. \A q \in Runs : ~Going(q)
    BY <1>3 DEF Start, Free, OneGoing
  <2>3. LoggedOf' = LoggedOf
    BY <2>1 DEF LoggedOf
  <2>4. Status(r)' = "in_progress" /\ \A q \in Runs \ {r} : Status(q)' = Status(q)
    BY <2>1 DEF Status, Going, TypeOK
  <2>5. StateOf' = [StateOf EXCEPT ![r] = "in_progress"]
    BY <2>4 DEF StateOf
  <2>6. StateOf[r] = "none" /\ \A q \in Runs : StateOf[q] # "in_progress"
    BY <2>1, <2>2, StatusIs DEF StateOf
  <2>7. Lifecycle!Start(r)
    BY <2>1, <2>3, <2>5, <2>6 DEF Lifecycle!Start, StateOf, LoggedOf
  <2> QED BY <2>7 DEF Lifecycle!Next
<1>4. ASSUME NEW A \in SUBSET Runs, \A r \in A : Going(r), asked' = asked \cup A,
             UNCHANGED <<task, run, told>>
      PROVE  Lifecycle!Next
  <2>1. StateOf' = StateOf /\ LoggedOf' = LoggedOf
    BY <1>4 DEF StateOf, LoggedOf, Status, Going
  <2>2. \A r \in A : StateOf[r] = "in_progress"
    BY <1>4, StatusIs DEF StateOf
  <2>3. Lifecycle!AskToStop(A)
    BY <1>4, <2>1, <2>2 DEF Lifecycle!AskToStop, StateOf, LoggedOf
  <2> QED BY <2>3 DEF Lifecycle!Next
<1>5. ASSUME NEW r \in Runs, Stop(r) PROVE Lifecycle!Next
  <2>1. {r} \in SUBSET Runs /\ asked' = asked \cup {r} /\ \A q \in {r} : Going(q)
    BY <1>5 DEF Stop
  <2> HIDE DEF IInv
  <2> QED BY <1>4, <1>5, <2>1 DEF Stop
<1>6. CASE Teardown
  <2> DEFINE A == {r \in Runs : Going(r)}
  <2>1. A \in SUBSET Runs /\ asked' = asked \cup A /\ \A r \in A : Going(r)
    BY <1>6 DEF Teardown
  <2> HIDE DEF A
  <2> QED BY <1>4, <1>6, <2>1 DEF Teardown, dashboard
<1>7. ASSUME NEW r \in Runs, StopAnswered(r) PROVE Lifecycle!Next
  <2>1. task[r] = "cancelled"
    BY <1>7 DEF StopAnswered, AskedEnds
  <2>2. StateOf' = StateOf /\ LoggedOf' = LoggedOf
    BY <1>7 DEF StopAnswered, StateOf, LoggedOf, Status, Going
  <2>3. StateOf[r] = "stopped"
    BY <2>1, StatusIs DEF StateOf
  <2>4. Lifecycle!Tell(r)
    BY <1>7, <2>2, <2>3 DEF StopAnswered, Lifecycle!Tell, StateOf, LoggedOf
  <2> QED BY <2>4 DEF Lifecycle!Next
<1>8. CASE Exit \/ Crash
  <2>1. Gone
    BY <1>8 DEF Exit, Crash
  <2>2. LoggedOf' = LoggedOf /\ UNCHANGED <<asked, told>>
    BY <2>1 DEF Gone, LoggedOf
  <2>3. ASSUME NEW r \in Runs
        PROVE  Status(r)' = IF Status(r) = "in_progress" THEN "lost" ELSE Status(r)
    <3>1. task'[r] = (IF Going(r) THEN "lost" ELSE task[r]) /\ run' = run
      BY <2>1 DEF Gone
    <3>2. CASE Going(r)
      BY <3>1, <3>2, StatusIs, StatusIsNext
    <3>3. CASE ~Going(r)
      <4>1. task'[r] = task[r] /\ run'[r] = run[r]
        BY <3>1, <3>3
      <4>2. Status(r)' = Status(r)
        BY <4>1 DEF Status, Going
      <4>3. Status(r) # "in_progress"
        BY <3>3, StatusIs
      <4> QED BY <4>2, <4>3
    <3> QED BY <3>2, <3>3
  <2>4. StateOf' = [r \in Runs |-> IF StateOf[r] = "in_progress" THEN "lost" ELSE StateOf[r]]
    BY <2>3 DEF StateOf
  <2>5. Lifecycle!Lose
    BY <2>2, <2>4 DEF Lifecycle!Lose, StateOf, LoggedOf
  <2> QED BY <2>5 DEF Lifecycle!Next
<1>9. CASE Shutdown \/ Restart \/ UNCHANGED vars
  BY <1>2, <1>9 DEF Shutdown, Restart, vars, dashboard
<1> QED BY <1>1, <1>3, <1>5, <1>6, <1>7, <1>8, <1>9 DEF Next

LEMMA InitKeeps == Init => Lifecycle!Init
<1> SUFFICES ASSUME Init PROVE Lifecycle!Init
  OBVIOUS
<1>1. \A r \in Runs : task[r] = "none" /\ run[r] = Blank
  BY DEF Init
<1>2. Blank.ingested = 0 /\ Blank.reads = 0 /\ Blank.ingested + Blank.reads = 0
  BY DEF Blank
<1>3. \A r \in Runs : Status(r) = "none"
  BY <1>1 DEF Status, Going
<1>4. \A r \in Runs : run[r].ingested + run[r].reads = 0
  BY <1>1, <1>2
<1>5. asked = {} /\ told = {}
  BY DEF Init
<1> QED BY <1>3, <1>4, <1>5 DEF Lifecycle!Init

\* The dashboard keeps the promise of RunLifecycle: one run at a time, outcomes
\* that stay, and nothing recorded for a run that was asked to stop.
THEOREM LifecycleKept == Spec => KeepsLifecycle
<1>1. IInv /\ IInv' /\ [Next]_vars => [Lifecycle!Next]_(Lifecycle!vars)
  BY StepKeeps
<1> QED BY <1>1, InitKeeps, RunConsistent, PTL DEF Spec, KeepsLifecycle, Lifecycle!Spec

-----------------------------------------------------------------------------
(* What a contradiction supersedes.                                        *)

\* In one scenario, the order of the queue is that of the positions.
LEMMA BeforeInScenario ==
  ASSUME NEW e \in Events, NEW f \in Events, Script[e].scenario = Script[f].scenario
  PROVE  /\ Script[e].index < Script[f].index => Before(e, f)
         /\ Before(e, f) => Script[e].index < Script[f].index /\ ~Before(f, e)
<1>1. /\ Script[e].index \in Nat /\ Script[f].index \in Nat
      /\ Script[e].at \in Nat /\ Script[f].at \in Nat /\ Script[e].scenario \in Nat
  BY DEF Position
<1>2. /\ Script[e].index < Script[f].index => Script[e].at <= Script[f].at
      /\ Script[f].index < Script[e].index => Script[f].at <= Script[e].at
      /\ Script[e].index = Script[f].index => e = f
  OBVIOUS
<1> QED BY <1>1, <1>2 DEF Before

\* A runner's step handles the next event of its queue, all that are left, or none.
LEMMA HandledStep ==
  ASSUME TypeOK, NEW r \in Runs, RunnerStep(r)
  PROVE  \/ run'[r].handled = run[r].handled
         \/ run'[r].handled = Chosen[r]
         \/ \E e \in Foremost(r) : run'[r].handled = run[r].handled \cup {e}
<1>0. run[r] \in Result
  BY DEF TypeOK
<1>1. CASE Ingested(r)
  BY <1>1, IngestedFields
<1>2. CASE ProfileRead(r)
  <2> DEFINE result == [run[r] EXCEPT !.reads = @ + 1]
  <2>1. PICK e \in Foremost(r) : Plays(r, e, result)
    BY <1>2 DEF ProfileRead
  <2>2. result.handled = run[r].handled /\ DOMAIN result = DOMAIN run[r]
    BY <1>0 DEF Result
  <2> HIDE DEF result
  <2> QED BY <2>1, <2>2, PlaysFields
<1>3. CASE RecordError(r)
  <2> DEFINE result == [run[r] EXCEPT !.errors = @ + 1]
  <2>1. PICK e \in Foremost(r) : Plays(r, e, result)
    BY <1>3 DEF RecordError
  <2>2. result.handled = run[r].handled /\ DOMAIN result = DOMAIN run[r]
    BY <1>0 DEF Result
  <2> HIDE DEF result
  <2> QED BY <2>1, <2>2, PlaysFields
<1>4. CASE PlayedOut(r)
  <2> DEFINE done == [run[r] EXCEPT !.skipped = Cardinality(Left(r))]
  <2>1. DOMAIN done = DOMAIN run[r]
    BY <1>0 DEF Result
  <2>2. run'[r] = [done EXCEPT !.handled = Chosen[r]]
    BY <1>4 DEF PlayedOut, TypeOK
  <2> HIDE DEF done
  <2> QED BY <1>0, <2>1, <2>2 DEF Result
<1>5. ASSUME NEW status, Finish(r, status) PROVE run'[r].handled = run[r].handled
  <2>1. run'[r] = [run[r] EXCEPT !.status = status]
    BY <1>5 DEF Finish, TypeOK
  <2> QED BY <1>0, <2>1 DEF Result
<1>6. CASE Begin(r) \/ Validated(r) \/ WaitedOut(r) \/ Cancelled(r)
  BY <1>5, <1>6 DEF Begin, Validated, WaitedOut, Cancelled
<1> QED BY <1>1, <1>2, <1>3, <1>4, <1>6 DEF RunnerStep

\* A run plays its events in the order of its queue.
LEMMA QueuedStep == TypeOK /\ Queued /\ [Next]_vars => Queued'
<1> SUFFICES ASSUME TypeOK, Queued, [Next]_vars PROVE Queued'
  OBVIOUS
<1>1. ASSUME NEW r \in Runs, RunnerStep(r) PROVE Queued'
  <2>1. task'[r] # "none" /\ \A q \in Runs \ {r} : task'[q] = task[q] /\ run'[q] = run[q]
    BY <1>1, RunnerMoves
  <2>2. ASSUME NEW g \in run'[r].handled, NEW e \in Chosen[r] \ run'[r].handled
        PROVE  Before(g, e)
    <3>1. CASE run'[r].handled = run[r].handled
      BY <3>1 DEF Queued, Left
    <3>2. CASE \E x \in Foremost(r) : run'[r].handled = run[r].handled \cup {x}
      BY <3>2 DEF Queued, Left, Foremost
    <3>3. CASE run'[r].handled = Chosen[r]
      BY <3>3
    <3> QED BY <1>1, <3>1, <3>2, <3>3, HandledStep
  <2>3. ASSUME NEW q \in Runs, NEW g \in run'[q].handled, NEW e \in Chosen[q] \ run'[q].handled
        PROVE  Before(g, e)
    BY <2>1, <2>2 DEF Queued, Left
  <2> QED BY <2>1, <2>3 DEF Queued, Left, Before
<1>2. ASSUME run' = run, \A r \in Runs : task'[r] = "none" => task[r] = "none"
      PROVE  Queued'
  BY <1>2 DEF Queued, Left, Before
<1>3. ASSUME NEW r \in Runs, Start(r) \/ Stop(r) \/ StopAnswered(r) PROVE Queued'
  <2>1. run' = run /\ \A q \in Runs : task'[q] = "none" => task[q] = "none"
    BY <1>3 DEF Start, Stop, StopAnswered, At, TypeOK
  <2> QED BY <1>2, <2>1
<1>4. CASE Shutdown \/ Teardown \/ Restart \/ UNCHANGED vars
  BY <1>2, <1>4 DEF Shutdown, Teardown, Restart, vars
<1>5. CASE Exit \/ Crash
  <2>1. Gone
    BY <1>5 DEF Exit, Crash
  <2>2. run' = run /\ \A q \in Runs : task'[q] = "none" => task[q] = "none"
    BY <2>1 DEF Gone
  <2> QED BY <1>2, <2>2
<1> QED BY <1>1, <1>3, <1>4, <1>5 DEF Next

\* What an ingest supersedes is a fact of its own scenario that came before it
\* and that no other fact of the scenario has followed.
LEMMA SupersededIs ==
  ASSUME TypeOK, Filed, Queued, OwnTargets, NEW r \in Runs, NEW e \in Foremost(r),
         NEW old \in Resolves(r, e), old # Null
  PROVE  \E f \in Events : /\ old = run[r].ids[f] /\ old = FactId(r, f)
                           /\ Owner(f) = Owner(e) /\ Before(f, e)
                           /\ Script[e].scenario = Script[f].scenario
                           /\ ~Followed(r, f)
<1>1. e \in Events /\ e \in Left(r)
  BY DEF Foremost, Left
<1>2. PICK f \in Prior(r, e) : Owner(f) = Owner(e) /\ old \in Known(r, f)
  BY DEF Resolves, Superseded
<1>3. f \in Events /\ old = run[r].ids[f] /\ f \in Candidates(r, e)
  BY <1>2 DEF Prior, Candidates, Known
<1>4. Script[f].scenario \in Nat
  BY <1>3 DEF Position
<1>5. Script[e].target # Null
  BY <1>3, <1>4 DEF Candidates
<1>6. Script[e].target = Script[e].scenario /\ Script[f].scenario = Script[e].scenario
      /\ Script[f].index < Script[e].index
  BY <1>1, <1>3, <1>5 DEF Candidates, OwnTargets
<1>7. Before(f, e)
  BY <1>1, <1>3, <1>6, BeforeInScenario
<1>8. ASSUME NEW g \in Events, run[r].ids[g] # Null, Before(f, g),
             Script[g].scenario = Script[f].scenario
      PROVE  FALSE
  <2>1. Before(g, e)
    BY <1>1, <1>8 DEF Filed, Queued
  <2>2. Script[g].index < Script[e].index
    BY <1>1, <1>6, <1>8, <2>1, BeforeInScenario
  <2>3. g \in Candidates(r, e)
    BY <1>6, <1>8, <2>2 DEF Candidates, Known
  <2>4. ~Before(g, f) /\ g # f
    BY <1>3, <1>8, BeforeInScenario DEF Position
  <2> QED BY <1>2, <2>3, <2>4 DEF Prior
<1>9. ~Followed(r, f) /\ old = FactId(r, f)
  BY <1>3, <1>8 DEF Followed, Filed
<1> QED BY <1>2, <1>3, <1>6, <1>7, <1>9

\* An ingest leaves the last fact of every scenario active.
LEMMA LastActiveIngested ==
  ASSUME TypeOK, Filed, Queued, OwnTargets, NEW r \in Runs, Going(r), LastActive, Ingested(r)
  PROVE  \A f \in Events : run'[r].ids[f] # Null =>
           <<Owner(f), run'[r].ids[f]>> \in active' \/ Followed(r, f)'
<1>1. PICK e \in Foremost(r) : \E old \in Resolves(r, e), ok \in BOOLEAN :
        /\ Writes(ok) /\ LogFact(RunNumber(r), r, Owner(e), FactId(r, e), old, ok)
        /\ run'[r].status = run[r].status
        /\ run'[r].ids = [run[r].ids EXCEPT ![e] = FactId(r, e)]
        /\ run'[r].handled = run[r].handled \cup {e}
  BY IngestedFields
<1>2. PICK old \in Resolves(r, e), ok \in BOOLEAN :
        /\ LogFact(RunNumber(r), r, Owner(e), FactId(r, e), old, ok)
        /\ run'[r].ids = [run[r].ids EXCEPT ![e] = FactId(r, e)]
  BY <1>1
<1>3. e \in Events /\ run[r].ids \in [Events -> Facts \cup {Null}] /\ FactId(r, e) # Null
  BY Identified, RecordsAssumption DEF Foremost, Left, TypeOK, Result
<1>4. /\ run'[r].ids[e] = FactId(r, e)
      /\ \A g \in Events : g # e => run'[r].ids[g] = run[r].ids[g]
  BY <1>2, <1>3
<1>5. active' = (active \ {<<Owner(e), old>>}) \cup {<<Owner(e), FactId(r, e)>>}
  BY <1>2 DEF LogFact, Activated
<1>6. ASSUME NEW f \in Events, f # e, run'[r].ids[f] # Null
      PROVE  <<Owner(f), run'[r].ids[f]>> \in active' \/ Followed(r, f)'
  <2>1. <<Owner(f), run[r].ids[f]>> \in active \/ Followed(r, f)
    BY <1>4, <1>6 DEF LastActive
  <2>2. CASE Followed(r, f)
    <3>1. PICK g \in Events : /\ run[r].ids[g] # Null /\ Before(f, g)
                              /\ Script[g].scenario = Script[f].scenario
      BY <2>2 DEF Followed
    <3>2. run'[r].ids[g] # Null
      BY <1>3, <1>4, <3>1
    <3> QED BY <3>1, <3>2 DEF Followed, Before
  <2>3. CASE <<Owner(f), run[r].ids[f]>> \in active /\ run[r].ids[f] # old
    BY <1>4, <1>5, <1>6, <2>3
  <2>4. CASE run[r].ids[f] = old
    <3>1. old # Null
      BY <1>4, <1>6, <2>4
    <3>2. PICK h \in Events : /\ old = FactId(r, h) /\ Before(h, e)
                              /\ Script[e].scenario = Script[h].scenario
      BY <3>1, SupersededIs
    <3>3. run[r].ids[f] = FactId(r, f)
      BY <2>4, <3>1 DEF Filed
    <3>4. f = h
      <4>1. FactId(r, f)[2] = f /\ FactId(r, h)[2] = h
        BY DEF FactId
      <4> QED BY <2>4, <3>2, <3>3, <4>1
    <3>5. run'[r].ids[e] # Null /\ Before(f, e) /\ Script[e].scenario = Script[f].scenario
      BY <1>3, <1>4, <3>2, <3>4
    <3> QED BY <1>3, <3>5 DEF Followed, Before
  <2> QED BY <2>1, <2>2, <2>3, <2>4
<1>7. <<Owner(e), run'[r].ids[e]>> \in active'
  BY <1>4, <1>5
<1> QED BY <1>6, <1>7

LEMMA LastActiveStep ==
  ASSUME OwnTargets, IInv, Filed, Queued, LastActive, [Next]_vars
  PROVE  LastActive'
<1>0. TypeOK /\ OneGoing /\ InOrder
  BY DEF IInv
<1>1. ASSUME NEW r \in Runs, RunnerStep(r) PROVE LastActive'
  <2>1. /\ Going(r) /\ \A q \in Runs \ {r} : ~Going(q)
        /\ \A q \in Runs \ {r} : task'[q] = task[q]
    BY <1>0, <1>1, RunnerMoves DEF OneGoing
  <2>2. ASSUME run'[r].ids = run[r].ids, active' = active
        PROVE  \A f \in Events : run'[r].ids[f] # Null =>
                 <<Owner(f), run'[r].ids[f]>> \in active' \/ Followed(r, f)'
    BY <2>1, <2>2 DEF LastActive, Followed, Before
  <2>3. \A f \in Events : run'[r].ids[f] # Null =>
          <<Owner(f), run'[r].ids[f]>> \in active' \/ Followed(r, f)'
    <3>1. CASE Ingested(r)
      BY <1>0, <2>1, <3>1, LastActiveIngested
    <3>2. CASE ProfileRead(r) \/ RecordError(r) \/ PlayedOut(r)
      BY <1>0, <2>2, <3>2, PlayedFields
         DEF ProfileRead, RecordError, PlayedOut, records, states
    <3>3. ASSUME NEW status, Finish(r, status)
          PROVE  run'[r].ids = run[r].ids /\ active' = active
      <4>1. run'[r] = [run[r] EXCEPT !.status = status] /\ run[r] \in Result
        BY <1>0, <3>3 DEF Finish, TypeOK
      <4> QED BY <3>3, <4>1 DEF Result, Finish, states
    <3>4. CASE Begin(r) \/ Validated(r) \/ WaitedOut(r) \/ Cancelled(r)
      BY <2>2, <3>3, <3>4 DEF Begin, Validated, WaitedOut, Cancelled, records, states
    <3> QED BY <1>1, <3>1, <3>2, <3>4 DEF RunnerStep
  <2>4. \A q \in Runs \ {r} : ~Going(q)'
    BY <2>1 DEF Going
  <2> QED BY <2>3, <2>4 DEF LastActive, Owner
<1>2. ASSUME UNCHANGED <<run, active>>, \A q \in Runs : Going(q)' => Going(q)
      PROVE  LastActive'
  BY <1>2 DEF LastActive, Followed, Before, Owner
<1>3. ASSUME NEW r \in Runs, Start(r) PROVE LastActive'
  <2>1. run' = run /\ task' = [task EXCEPT ![r] = "created"] /\ task[r] = "none"
        /\ active' = active
    BY <1>3 DEF Start, At, records, states
  <2>2. \A q \in Runs \ {r} : ~Going(q)'
    BY <1>0, <1>3, <2>1 DEF Start, Free, OneGoing, Going, TypeOK
  <2>3. \A f \in Events : run'[r].ids[f] = Null
    BY <2>1 DEF Queued, Filed
  <2> QED BY <2>2, <2>3 DEF LastActive
<1>4. ASSUME NEW r \in Runs, Stop(r) \/ StopAnswered(r) PROVE LastActive'
  BY <1>2, <1>4 DEF Stop, StopAnswered, records, states, Going
<1>5. CASE Shutdown \/ Teardown \/ Restart \/ UNCHANGED vars
  BY <1>2, <1>5 DEF Shutdown, Teardown, Restart, vars, records, states, Going
<1>6. CASE Exit \/ Crash
  <2>1. Gone
    BY <1>6 DEF Exit, Crash
  <2>2. \A q \in Runs : ~Going(q)'
    BY <2>1 DEF Gone, Going
  <2> QED BY <2>2 DEF LastActive
<1> QED BY <1>1, <1>3, <1>4, <1>5, <1>6 DEF Next

\* What a step adds to the trail supersedes nothing, or an active fact of the
\* same user that its run has ingested.
LEMMA AddsSuperseding ==
  ASSUME OwnTargets, IInv, Filed, Queued, LastActive, [Next]_vars,
         NEW i \in Len(trail) + 1..Len(trail'), trail'[i].old # Null
  PROVE  /\ <<trail'[i].user, trail'[i].old>> \in active
         /\ \E e \in Events : run[trail'[i].run].ids[e] = trail'[i].old
<1>0. TypeOK /\ trail \in Seq(Entry) /\ Len(trail) \in Nat
  BY DEF IInv, TypeOK, RecordsTypeOK
<1>1. ASSUME NEW r \in Runs, Ingested(r)
      PROVE  /\ <<trail'[i].user, trail'[i].old>> \in active
             /\ \E e \in Events : run[trail'[i].run].ids[e] = trail'[i].old
  <2>0. PICK e \in Foremost(r) : \E old \in Resolves(r, e), ok \in BOOLEAN :
          /\ Writes(ok) /\ LogFact(RunNumber(r), r, Owner(e), FactId(r, e), old, ok)
          /\ run'[r].status = run[r].status
          /\ run'[r].ids = [run[r].ids EXCEPT ![e] = FactId(r, e)]
          /\ run'[r].handled = run[r].handled \cup {e}
    BY <1>0, <1>1, IngestedFields
  <2>1. PICK old \in Resolves(r, e), ok \in BOOLEAN :
          LogFact(RunNumber(r), r, Owner(e), FactId(r, e), old, ok)
    BY <2>0
  <2> DEFINE entry == [number |-> RunNumber(r), run |-> r, user |-> Owner(e),
                       id |-> FactId(r, e), old |-> old]
  <2>2. trail' # trail /\ trail' = Append(trail, entry)
    BY <1>0, <2>1 DEF LogFact
  <2>3. entry.user = Owner(e) /\ entry.run = r /\ entry.old = old
    OBVIOUS
  <2> HIDE DEF entry
  <2>4. i = Len(trail) + 1 /\ trail'[i] = entry
    BY <1>0, <2>2
  <2>5. PICK f \in Events : /\ old = run[r].ids[f] /\ Owner(f) = Owner(e) /\ ~Followed(r, f)
    BY <1>0, <2>3, <2>4, SupersededIs
  <2>6. Going(r)
    BY <1>1 DEF Ingested, Resumes, Going
  <2>7. <<Owner(e), old>> \in active
    BY <2>3, <2>4, <2>5, <2>6 DEF LastActive
  <2> QED BY <2>3, <2>4, <2>5, <2>7
<1>2. ASSUME trail' = trail PROVE FALSE
  BY <1>0, <1>2
<1>3. ASSUME NEW r \in Runs, RunnerStep(r), ~Ingested(r) PROVE FALSE
  BY <1>2, <1>3 DEF RunnerStep, Begin, ProfileRead, RecordError, PlayedOut, WaitedOut,
     Validated, Cancelled, Finish, records, written
<1>4. ASSUME NEW r \in Runs, Start(r) \/ Stop(r) \/ StopAnswered(r) PROVE FALSE
  BY <1>2, <1>4 DEF Start, Stop, StopAnswered, records, written
<1>5. ~(Shutdown \/ Teardown \/ Restart \/ UNCHANGED vars)
  BY <1>2 DEF Shutdown, Teardown, Restart, vars, records, written
<1>6. ~(Exit \/ Crash)
  BY <1>2 DEF Exit, Crash, Gone, written
<1> QED BY <1>1, <1>3, <1>4, <1>5, <1>6 DEF Next

LEMMA InitLast == Init => Queued /\ LastActive
BY DEF Init, Queued, LastActive, Blank, Going

\* If contradictions stay within their scenario, as the generator's do, each is
\* resolved against an active fact of the same user and run, whichever events
\* failed before, however runs were stopped, and whatever the log lost.
THEOREM ContradictsActive ==
  ASSUME OwnTargets
  PROVE  Spec => SupersedesActive
<1>1. IInv /\ Filed /\ Queued /\ LastActive /\ [Next]_vars => LastActive'
  BY LastActiveStep
<1>2. IInv /\ Queued /\ [Next]_vars => Queued'
  BY QueuedStep DEF IInv
<1>3. IInv /\ Filed /\ Queued /\ LastActive /\ [Next]_vars =>
        \A i \in Len(trail) + 1..Len(trail') :
          trail'[i].old # Null =>
            /\ <<trail'[i].user, trail'[i].old>> \in active
            /\ \E e \in Events : run[trail'[i].run].ids[e] = trail'[i].old
  BY AddsSuperseding
<1> QED BY <1>1, <1>2, <1>3, RunConsistent, InitReplayed, ReplayedStep, InitLast,
           PTL DEF Spec, SupersedesActive
=============================================================================
