--------------------------- MODULE SimulationRun ---------------------------
(***************************************************************************)
(* Simulation runs: the dashboard's endpoints that start and stop them     *)
(* (dashboard_api.py) and the SimulationRunner that plays one              *)
(* (simulation_runner.py), in one process with one event loop, over the    *)
(* records of RunRecords.                                                  *)
(*                                                                         *)
(* A run is an asyncio task.  It yields while it sleeps until the next     *)
(* event and waits for the engine's answer ("playing"), while it waits out *)
(* its duration and while the validator works; what it does between two    *)
(* of these is one action.  task.cancel() makes the await at which a task  *)
(* stands raise CancelledError, whether or not its result is there.        *)
(* Latencies, notes and the time within a run are abstracted away: an      *)
(* event is early enough to be played or it is not.                        *)
(***************************************************************************)
EXTENDS RunRecords, FiniteSets

CONSTANTS
  Script,    \* Script[e]: what scenario fact e is
  Chosen,    \* Chosen[r]: the events of the scenarios that run r was started with
  Silent,    \* the facts in whose text the engine's extractor finds nothing
  Duration   \* the length of a run

\* Scenario facts: the position in a scenario, the time, whether it is a profile
\* read, the scenario's user, metadata["user_id"], and contradicts_scenario.
Position == [scenario : Nat, index : Nat, at : Nat, read : BOOLEAN,
             user : Users, override : Users \cup {Null}, target : Nat \cup {Null}]

ASSUME ScriptAssumption ==
  /\ IsFiniteSet(Events)
  /\ Script \in [Events -> Position]
  /\ Chosen \in [Runs -> SUBSET Events]
  /\ Silent \subseteq Events /\ Duration \in Nat
  /\ Null \notin Users \cup Nat
  /\ 1 \in Runs
  /\ \A e, f \in Events :
       Script[e].scenario = Script[f].scenario =>
         /\ Script[e].index = Script[f].index => e = f
         /\ Script[e].index < Script[f].index => Script[e].at <= Script[f].at

VARIABLES
  server,    \* the dashboard process
  slot,      \* current_run
  task,      \* task[r]: where the task of run r stands
  asked,     \* the runs whose task was cancelled
  stopping,  \* the runs with a stop request that awaits the task's end
  told,      \* history: the runs whose stop was answered "stopped"
  run,       \* run[r]: its RunResult, and the facts it ingested
  progress   \* progress[r]: what the status endpoint shows

dashboard == <<slot, stopping, told>>
vars == <<records, server, dashboard, task, asked, run, progress>>

Steps == {"none", "created", "playing", "waiting", "validating",
          "returned", "cancelled", "lost"}
Result == [ids : [Events -> Facts \cup {Null}], handled : SUBSET Events,
           ingested : Nat, reads : Nat, errors : Nat, played : Nat,
           skipped : Nat, status : {"in_progress", "completed", "failed"}]
Progress == [played : Nat, errors : Nat]

Blank == [ids |-> [e \in Events |-> Null], handled |-> {}, ingested |-> 0,
          reads |-> 0, errors |-> 0, played |-> 0, skipped |-> 0,
          status |-> "in_progress"]

Going(r) == task[r] \in {"created", "playing", "waiting", "validating"}
Over(r) == task[r] \in {"returned", "cancelled"}

\* Every run of the dashboard is run number 1.
RunNumber(r) == 1

-----------------------------------------------------------------------------
(* The script.                                                             *)

\* sort_key: timestamp, then scenario, then position in the scenario.
Before(e, f) ==
  LET a == Script[e]  b == Script[f] IN
    \/ a.at < b.at
    \/ a.at = b.at /\ a.scenario < b.scenario
    \/ a.at = b.at /\ a.scenario = b.scenario /\ a.index < b.index

Late(e) == Script[e].at > Duration

\* The next event of run r's queue, if it is not past the duration.
Left(r) == Chosen[r] \ run[r].handled
Foremost(r) ==
  {e \in Left(r) : ~Late(e) /\ \A f \in Left(r) \ {e} : Before(e, f)}

\* resolve_user_id
Owner(e) == IF Script[e].override # Null THEN Script[e].override ELSE Script[e].user

\* Faulty variant: what an earlier run played is not forgotten.
KnownKept(r, f) == {run[q].ids[f] : q \in {q \in Runs : q <= r}} \ {Null}

\* _scenario_fact_ids: the ids under which run r has ingested f.
Known(r, f) == {run[r].ids[f]} \ {Null}

\* The facts _backfill_contradiction may point e at.
Candidates(r, e) ==
  {f \in Events : /\ Known(r, f) # {}
                  /\ Script[f].scenario = Script[e].target
                  /\ \/ Script[e].target # Script[e].scenario
                     \/ Script[f].index < Script[e].index}

\* The one it does: the last that was played.
Prior(r, e) ==
  {f \in Candidates(r, e) : \A g \in Candidates(r, e) \ {f} : Before(g, f)}

\* The fact that e supersedes, if any: only one of the same user.
Superseded(r, e) == UNION {Known(r, f) : f \in {g \in Prior(r, e) : Owner(g) = Owner(e)}}
Resolves(r, e) == IF Superseded(r, e) = {} THEN {Null} ELSE Superseded(r, e)

-----------------------------------------------------------------------------
(* A run, from await to await.                                             *)

\* The runner's task goes on; a cancelled one raises instead.
Resumes(r, step) == task[r] = step /\ r \notin asked

At(r, step) == task' = [task EXCEPT ![r] = step]

\* The first step: start_run, and a fresh progress.
Begin(r) ==
  /\ Resumes(r, "created") /\ At(r, "playing")
  /\ \E ok \in BOOLEAN : Writes(ok) /\ StartRow(RunNumber(r), r, ok)
  /\ UNCHANGED <<trail, open, states, since, complete, server, dashboard, asked,
                 run, progress>>

\* events_played counts every event that was tried; then _update_progress.
Plays(r, e, result) ==
  /\ run' = [run EXCEPT ![r] = [result EXCEPT !.handled = @ \cup {e},
                                              !.played = @ + 1]]
  /\ progress' = [progress EXCEPT ![r] = [played |-> result.played + 1,
                                          errors |-> result.errors]]

\* _engine_fact_id: a synthetic id for an utterance the engine made nothing of.
FactId(r, e) == IF e \in Silent THEN <<0, e>> ELSE <<r, e>>

\* The engine answers an ingest.
Ingested(r) ==
  /\ Resumes(r, "playing") /\ At(r, "playing")
  /\ \E e \in Foremost(r) : \E old \in Resolves(r, e), ok \in BOOLEAN :
       /\ ~Script[e].read
       /\ Writes(ok)
       /\ LogFact(RunNumber(r), r, Owner(e), FactId(r, e), old, ok)
       /\ Plays(r, e, [run[r] EXCEPT !.ids[e] = FactId(r, e), !.ingested = @ + 1])
  /\ UNCHANGED <<rows, open, since, server, dashboard, asked>>

\* The engine answers a profile read; cache events are not audited.
ProfileRead(r) ==
  /\ Resumes(r, "playing") /\ At(r, "playing")
  /\ \E e \in Foremost(r) :
       /\ Script[e].read
       /\ Plays(r, e, [run[r] EXCEPT !.reads = @ + 1])
  /\ UNCHANGED <<records, server, dashboard, asked>>

\* Faulty variant: an error ends the handling of the event uncounted.
RecordErrorUncounted(r) ==
  /\ Resumes(r, "playing") /\ At(r, "playing")
  /\ \E e \in Foremost(r) :
       run' = [run EXCEPT ![r].handled = @ \cup {e}, ![r].errors = @ + 1]
  /\ UNCHANGED <<records, server, dashboard, asked, progress>>

\* The call fails: refused, timed out, unparseable.  It is not tried again.
RecordError(r) ==
  /\ Resumes(r, "playing") /\ At(r, "playing")
  /\ \E e \in Foremost(r) : Plays(r, e, [run[r] EXCEPT !.errors = @ + 1])
  /\ UNCHANGED <<records, server, dashboard, asked>>

\* Faulty variant: an event past the duration is waited for.
PlayedOutStrict(r) ==
  /\ Resumes(r, "playing") /\ At(r, "waiting") /\ Left(r) = {}
  /\ UNCHANGED <<records, server, dashboard, asked, run, progress>>

\* Only events past the duration are left: they are skipped.
PlayedOut(r) ==
  /\ Resumes(r, "playing") /\ At(r, "waiting")
  /\ \A e \in Left(r) : Late(e)
  /\ run' = [run EXCEPT ![r].skipped = Cardinality(Left(r)), ![r].handled = Chosen[r]]
  /\ UNCHANGED <<records, server, dashboard, asked, progress>>

\* _final_status: failed only when nothing at all got through.
FinalStatus(r) ==
  IF run[r].played # 0 /\ run[r].errors >= run[r].played THEN "failed" ELSE "completed"

\* _finish: the result, the progress' errors and the metadata row.
Finish(r, status) ==
  /\ run' = [run EXCEPT ![r].status = status]
  /\ progress' = [progress EXCEPT ![r].errors = run[r].errors]
  /\ \E ok \in BOOLEAN : Writes(ok) /\ EndRow(RunNumber(r), status, ok)
  /\ UNCHANGED <<trail, open, states, since, complete>>

WaitedOut(r) ==
  /\ Resumes(r, "waiting") /\ At(r, "validating")
  /\ Finish(r, FinalStatus(r))
  /\ UNCHANGED <<server, dashboard, asked>>

\* The validator reports or raises, which is noted.
Validated(r) ==
  /\ Resumes(r, "validating") /\ At(r, "returned")
  /\ UNCHANGED <<records, server, dashboard, asked, run, progress>>

\* Faulty variant: CancelledError goes past _finish.
CancelledUnfinished(r) ==
  /\ r \in asked /\ Going(r) /\ At(r, "cancelled")
  /\ UNCHANGED <<records, run, progress, server, dashboard, asked>>

\* CancelledError arrives: during playback the run is finished as failed; before
\* its first step, and while it validates, nothing catches it.
Cancelled(r) ==
  /\ r \in asked /\ Going(r) /\ At(r, "cancelled")
  /\ IF task[r] \in {"created", "validating"}
     THEN UNCHANGED <<records, run, progress>>
     ELSE Finish(r, "failed")
  /\ UNCHANGED <<server, dashboard, asked>>

-----------------------------------------------------------------------------
(* The dashboard.                                                          *)

\* Faulty variant: a run whose status is final counts as over.
FreeOnStatus == slot # Null => run[slot].status # "in_progress"

Free == slot # Null => ~Going(slot)

Start(r) ==
  /\ server = "up" /\ Free
  /\ task[r] = "none" /\ \A q \in Runs : q < r => task[q] # "none"
  /\ slot' = r /\ At(r, "created")
  /\ UNCHANGED <<records, server, stopping, told, asked, run, progress>>

\* task.cancel(), then await it.  The run's id leaves the dashboard only after
\* the task's first step.
Stop(r) ==
  /\ server = "up" /\ slot = r /\ Going(r) /\ task[r] # "created"
  /\ asked' = asked \cup {r} /\ stopping' = stopping \cup {r}
  /\ UNCHANGED <<records, server, slot, told, task, run, progress>>

StopAnswered(r) ==
  /\ r \in stopping /\ ~Going(r)
  /\ stopping' = stopping \ {r} /\ told' = told \cup {r}
  /\ UNCHANGED <<records, server, slot, asked, task, run, progress>>

\* What _status_from_runner says of a run.
Status(r) ==
  CASE task[r] = "none" -> "none"
    [] Going(r) -> "in_progress"
    [] task[r] = "returned" -> run[r].status
    [] task[r] = "cancelled" -> "stopped"
    [] task[r] = "lost" -> "lost"

-----------------------------------------------------------------------------
(* The process.                                                            *)

\* Requests drain, then the lifespan closes the audit logger.
Shutdown ==
  /\ server = "up" /\ stopping = {}
  /\ server' = "closing" /\ open' = FALSE
  /\ UNCHANGED <<written, states, faults, since, complete, dashboard, task, asked,
                 run, progress>>

\* The event loop ends: it cancels what is going, and runs it to its end.
Teardown ==
  /\ server = "closing"
  /\ \E r \in Runs : Going(r) /\ r \notin asked
  /\ asked' = asked \cup {r \in Runs : Going(r)}
  /\ UNCHANGED <<records, server, dashboard, task, run, progress>>

Gone ==
  /\ server' = "down" /\ slot' = Null /\ stopping' = {} /\ Closed
  /\ task' = [r \in Runs |-> IF Going(r) THEN "lost" ELSE task[r]]
  /\ UNCHANGED <<written, told, asked, run, progress>>

Exit ==
  /\ server = "closing" /\ \A r \in Runs : ~Going(r)
  /\ Gone /\ UNCHANGED faults

Crash == server # "down" /\ faults < MaxFaults /\ faults' = faults + 1 /\ Gone

Restart ==
  /\ server = "down" /\ server' = "up" /\ open' = TRUE
  /\ UNCHANGED <<written, states, faults, since, complete, dashboard, task, asked, run, progress>>

-----------------------------------------------------------------------------
Init ==
  /\ RecordsInit
  /\ server = "up" /\ slot = Null /\ stopping = {} /\ told = {} /\ asked = {}
  /\ task = [r \in Runs |-> "none"]
  /\ run = [r \in Runs |-> Blank]
  /\ progress = [r \in Runs |-> [played |-> 0, errors |-> 0]]

RunnerStep(r) ==
  \/ Begin(r) \/ Ingested(r) \/ ProfileRead(r) \/ RecordError(r)
  \/ PlayedOut(r) \/ WaitedOut(r) \/ Validated(r) \/ Cancelled(r)

Next ==
  \/ \E r \in Runs : RunnerStep(r) \/ Start(r) \/ Stop(r) \/ StopAnswered(r)
  \/ Shutdown \/ Teardown \/ Exit \/ Crash \/ Restart

Spec == Init /\ [][Next]_vars

\* Timers fire, the engine client's timeout bounds every call, the validator
\* makes finitely many of them, and the loop wakes whoever awaits a task.
Fairness ==
  /\ \A r \in Runs : WF_vars(RunnerStep(r)) /\ WF_vars(StopAnswered(r))
  /\ WF_vars(Teardown)

FairSpec == Spec /\ Fairness

-----------------------------------------------------------------------------
(* Properties.                                                             *)

\* Every variable has its type.
TypeOK ==
  /\ RecordsTypeOK
  /\ server \in {"up", "closing", "down"}
  /\ slot \in Runs \cup {Null}
  /\ stopping \subseteq Runs /\ told \subseteq Runs /\ asked \subseteq Runs
  /\ task \in [Runs -> Steps]
  /\ run \in [Runs -> Result]
  /\ progress \in [Runs -> Progress]

\* What the dashboard says of its run and what run_metadata says agree, if no
\* audit write failed: a finished run has the row's status, a stopped one is
\* "failed" there, unless it had already been closed when it was stopped.
StatusRecorded ==
  server = "up" /\ slot # Null /\ task[slot] # "created" /\ faults = 0 =>
    LET row == rows[RunNumber(slot)] IN
      /\ row.by = slot /\ row.status = run[slot].status
      /\ Status(slot) \in {"completed", "failed"} => row.status = Status(slot)
      /\ Over(slot) => row.status # "in_progress"

\* The counts of a result account for every event of its queue exactly once,
\* the status endpoint is never behind them, and a run that ended by itself is
\* "failed" exactly when it played something and nothing got through.
Accounts(r) ==
  LET x == run[r] IN
    /\ x.played = x.ingested + x.reads + x.errors
    /\ x.played + x.skipped = Cardinality(x.handled)
    /\ progress[r].played = x.played /\ progress[r].errors = x.errors
    /\ task[r] \in {"waiting", "validating", "returned"} => x.handled = Chosen[r]
    /\ task[r] \in {"validating", "returned"} =>
         (x.status = "failed" <=> x.played > 0 /\ x.ingested + x.reads = 0)
CountsAddUp == \A r \in Runs : Accounts(r)

\* Replaying the audit trail by the validator's rule gives the fact states that
\* the monitoring service shows, as long as no audit write was lost.
TrailTellsStates ==
  server = "up" /\ complete => active = ActiveByTrail

\* A contradiction is resolved against a fact that is active, of the same user,
\* and ingested by the same run: never against one already superseded.
SupersedesActive ==
  [][\A i \in Len(trail) + 1..Len(trail') :
       trail'[i].old # Null =>
         /\ <<trail'[i].user, trail'[i].old>> \in active
         /\ \E e \in Events : run[trail'[i].run].ids[e] = trail'[i].old]_vars

\* The dashboard and the runner keep the promise of RunLifecycle.
Lifecycle == INSTANCE RunLifecycle WITH
  state <- [r \in Runs |-> Status(r)],
  logged <- [r \in Runs |-> run[r].ingested + run[r].reads]
KeepsLifecycle == Lifecycle!Spec

\* A run that was started ends, whatever the engine does.
RunsEnd == \A r \in Runs : Going(r) ~> ~Going(r)

\* A run is validated from its own audit events: none of the events that carry
\* its run number was written by an earlier run.
TrailIsOwn ==
  \A r \in Runs : task[r] = "validating" =>
    \A i \in EventsOf(RunNumber(r)) : trail[i].run = r

\* The facts the dashboard lists as active are those it counts as active.
FactsPanelAgrees ==
  server = "up" /\ complete => ListedActive = active

-----------------------------------------------------------------------------
(* The inductive invariant.                                                *)

\* Only the run in the slot is going, and only in a live process.
OneGoing == \A r \in Runs : Going(r) => slot = r /\ server # "down"

\* A task that was cancelled never returns; a stop request outlives no process.
AskedEnds ==
  /\ \A r \in asked : Going(r) \/ task[r] \in {"cancelled", "lost"}
  /\ \A r \in stopping : r \in asked /\ task[r] # "lost"

\* Events are skipped only once the queue is done; the validator sees an outcome.
InOrder ==
  \A r \in Runs :
    /\ run[r].handled \subseteq Chosen[r]
    /\ task[r] \in {"none", "created", "playing"} => run[r].skipped = 0
    /\ task[r] \in {"validating", "returned"} => run[r].status # "in_progress"

IInv == TypeOK /\ OneGoing /\ AskedEnds /\ InOrder /\ CountsAddUp

\* What StatusRecorded rests on besides: the run in the slot has the row of its
\* number, and what it has come to is in both.
Recording ==
  /\ server = "up" => open /\ \A r \in asked : task[r] # "created"
  /\ server = "down" => slot = Null
  /\ slot # Null => task[slot] \notin {"none", "lost"}
  /\ \A r \in Runs :
       task[r] \in {"none", "created", "playing", "waiting"} => run[r].status = "in_progress"
  /\ server = "up" /\ slot # Null =>
       /\ task[slot] = "cancelled" => run[slot].status # "in_progress"
       /\ task[slot] # "created" /\ faults = 0 =>
            rows[RunNumber(slot)] = [status |-> run[slot].status, by |-> slot]

\* What TrailTellsStates rests on besides: a fact is filed under its own user, and
\* the ids that a run knows are those of facts that it has played.
Filed ==
  /\ \A i \in DOMAIN trail : trail[i].user = Owner(trail[i].id[2])
  /\ \A r \in Runs : \A e \in Events :
       run[r].ids[e] # Null => run[r].ids[e] = FactId(r, e) /\ e \in run[r].handled
Replayed == complete => active = ActiveByTrail

\* A contradiction names its own scenario, as the generator writes them.
OwnTargets == \A e \in Events : Script[e].target \in {Null, Script[e].scenario}

\* What SupersedesActive rests on besides: a run plays its events in order, ...
Queued ==
  \A r \in Runs :
    /\ task[r] = "none" => run[r].handled = {}
    /\ \A g \in run[r].handled, e \in Left(r) : Before(g, e)

\* ... and while it goes, each fact that it knows is active, or is followed by
\* another one of its scenario.
Followed(r, f) ==
  \E g \in Events : /\ run[r].ids[g] # Null /\ Before(f, g)
                    /\ Script[g].scenario = Script[f].scenario

LastActive ==
  \A r \in Runs : Going(r) => \A f \in Events :
    run[r].ids[f] # Null => <<Owner(f), run[r].ids[f]>> \in active \/ Followed(r, f)
=============================================================================
