---------------------------- MODULE RunLifecycle ----------------------------
(***************************************************************************)
(* What the dashboard promises whoever starts, watches and stops runs: one *)
(* run at a time; a run that has ended keeps its outcome; a run is stopped *)
(* only if somebody asked; a stop request is answered "stopped" only when  *)
(* the run is; and once it was asked to stop, or has ended, a run records  *)
(* nothing any more.                                                       *)
(***************************************************************************)
EXTENDS Integers

CONSTANT Runs

VARIABLES
  state,   \* state[r]: what the status endpoint says of run r
  asked,   \* the runs whose stop was requested
  told,    \* the runs of which a stop request was answered "stopped"
  logged   \* logged[r]: the events recorded for run r

vars == <<state, asked, told, logged>>

Outcomes == {"completed", "failed", "stopped", "lost"}

Init ==
  /\ state = [r \in Runs |-> "none"]
  /\ asked = {} /\ told = {}
  /\ logged = [r \in Runs |-> 0]

Start(r) ==
  /\ state[r] = "none"
  /\ \A q \in Runs : state[q] # "in_progress"
  /\ state' = [state EXCEPT ![r] = "in_progress"]
  /\ UNCHANGED <<asked, told, logged>>

Record(r) ==
  /\ state[r] = "in_progress" /\ r \notin asked
  /\ logged' = [logged EXCEPT ![r] = @ + 1]
  /\ UNCHANGED <<state, asked, told>>

AskToStop(A) ==
  /\ \A r \in A : state[r] = "in_progress"
  /\ asked' = asked \cup A
  /\ UNCHANGED <<state, told, logged>>

End(r, outcome) ==
  /\ state[r] = "in_progress"
  /\ outcome = "stopped" <=> r \in asked
  /\ state' = [state EXCEPT ![r] = outcome]
  /\ UNCHANGED <<asked, told, logged>>

\* The process dies: whatever was going is lost.
Lose ==
  /\ state' = [r \in Runs |-> IF state[r] = "in_progress" THEN "lost" ELSE state[r]]
  /\ UNCHANGED <<asked, told, logged>>

Tell(r) ==
  /\ state[r] = "stopped"
  /\ told' = told \cup {r}
  /\ UNCHANGED <<state, asked, logged>>

Next ==
  \/ \E r \in Runs : Start(r) \/ Record(r) \/ Tell(r)
  \/ \E r \in Runs, outcome \in Outcomes \ {"lost"} : End(r, outcome)
  \/ \E A \in SUBSET Runs : AskToStop(A)
  \/ Lose

Spec == Init /\ [][Next]_vars
=============================================================================
