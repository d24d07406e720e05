----------------------------- MODULE RunRecords -----------------------------
(***************************************************************************)
(* What is written down about simulation runs: the run_metadata rows and   *)
(* the audit events of AuditLogger (audit_logger.py), and the fact states  *)
(* that MonitoringService (monitoring_service.py) keeps in memory and      *)
(* forwards, event by event, to the audit log.                             *)
(*                                                                         *)
(* A row and an event carry the run number the caller passes; by (a row's  *)
(* start_time) and run name the run that really wrote them.  The trail is  *)
(* in the order of event_id.  Nobody in this code logs an expiry.          *)
(***************************************************************************)
EXTENDS Integers, Sequences

CONSTANTS
  Runs,        \* the runs, numbered from 1 in the order in which they start
  Events,      \* the facts of the scenarios of one run
  Users,
  MaxFaults,   \* bound: faults
  Null

\* Fact ids: <<r, e>> is the id the engine gave out when run r ingested e, and
\* <<0, e>> the synthetic id sim:<scenario>:<index>, the same in every run.
Facts == (Runs \cup {0}) \X Events

ASSUME RecordsAssumption ==
  /\ Runs \subseteq Nat \ {0}
  /\ MaxFaults \in Nat
  /\ Null \notin Runs \cup Facts

VARIABLES
  rows,      \* run_metadata: rows[n] is the row of run number n
  trail,     \* audit_events
  open,      \* the audit logger's connection is open
  active,    \* monitoring: the active facts, <<user, fact>>
  inactive,  \* monitoring: the superseded ones
  faults,    \* audit writes that failed on an open connection, and crashes
  since,     \* history: the length of the trail when the process started
  complete   \* history: every write of this process reached the trail

written == <<rows, trail>>
states == <<active, inactive>>
records == <<written, open, states, faults, since, complete>>

NoRow == [status |-> "none", by |-> Null]
Row == [status : {"in_progress", "completed", "failed"}, by : Runs]
Entry == [number : Runs, run : Runs, user : Users, id : Facts,
          old : Facts \cup {Null}]

\* Whether a write to audit_log.db succeeds: never on a closed logger; on an
\* open one it may raise (the database is locked by another process).
Writes(ok) ==
  /\ ok => open
  /\ ~ok => ~open \/ faults < MaxFaults
  /\ faults' = IF ok \/ ~open THEN faults ELSE faults + 1

-----------------------------------------------------------------------------
\* start_run: INSERT OR REPLACE; the runner swallows an exception.
StartRow(n, r, ok) ==
  rows' = IF ok THEN [rows EXCEPT ![n] = [status |-> "in_progress", by |-> r]]
          ELSE rows

\* Faulty variant: whether the run was ever started is not checked.
EndRowUnchecked(n, status, ok) ==
  rows' = IF ok THEN [rows EXCEPT ![n].status = status] ELSE rows

\* end_run: an UPDATE of whatever row has the number; it raises, and the
\* runner swallows it, if there is none.
EndRow(n, status, ok) ==
  rows' = IF ok /\ rows[n] # NoRow THEN [rows EXCEPT ![n].status = status]
          ELSE rows

\* Faulty variant: the superseded fact stays among the active ones.
ActiveForgetful(u, id, old) == active \cup {<<u, id>>}

\* _update_metrics: what becomes active, and what it supersedes.
Activated(u, id, old) == (active \ {<<u, old>>}) \cup {<<u, id>>}

\* log_event of an ingest (old = Null) or of a resolved contradiction: the
\* states are updated first, so a failing audit write leaves them ahead of the
\* trail.
LogFact(n, r, u, id, old, ok) ==
  /\ active' = Activated(u, id, old)
  /\ inactive' = (inactive \cup (IF old = Null THEN {} ELSE {<<u, old>>}))
                   \ {<<u, id>>}
  /\ trail' = IF ok THEN Append(trail, [number |-> n, run |-> r, user |-> u,
                                        id |-> id, old |-> old])
              ELSE trail
  /\ complete' = (complete /\ ok)

-----------------------------------------------------------------------------
\* The process is gone, and the states with it; the next one starts from here.
Closed ==
  /\ open' = FALSE /\ active' = {} /\ inactive' = {}
  /\ since' = Len(trail) /\ complete' = TRUE

RecordsInit ==
  /\ rows = [n \in Runs |-> NoRow] /\ trail = << >> /\ open = TRUE
  /\ active = {} /\ inactive = {}
  /\ faults = 0 /\ since = 0 /\ complete = TRUE

RecordsTypeOK ==
  /\ rows \in [Runs -> Row \cup {NoRow}]
  /\ trail \in Seq(Entry)
  /\ open \in BOOLEAN
  /\ active \subseteq Users \X Facts /\ inactive \subseteq Users \X Facts
  /\ faults \in 0..MaxFaults
  /\ since \in 0..Len(trail)
  /\ complete \in BOOLEAN

-----------------------------------------------------------------------------
(* What readers make of the trail.                                         *)

\* Position i of the trail made its fact active and no later one superseded it.
Standing(i) == \A j \in i + 1..Len(trail) : trail[j].old # trail[i].id

\* The validator's rule: a fact is active until an event supersedes it.
ActiveByTrail ==
  {<<trail[i].user, trail[i].id>> : i \in {j \in since + 1..Len(trail) : Standing(j)}}

\* The dashboard's rule (get_user_facts): the last event with that fact id.
\* An event that supersedes a fact is filed under the new fact's id.
ListedActive == {<<trail[i].user, trail[i].id>> : i \in since + 1..Len(trail)}

\* What get_events(run_number = n) returns.
EventsOf(n) == {i \in DOMAIN trail : trail[i].number = n}
=============================================================================
