--------------------------- MODULE MCSimulationRun ---------------------------
(* Instances of SimulationRun for TLC: the events of two scenarios. *)
EXTENDS SimulationRun

\* A link of a modification chain of scenario 1, at index i and time t.
Link(i, t) == [scenario |-> 1, index |-> i, at |-> t, read |-> FALSE,
               user |-> "ann", override |-> Null,
               target |-> IF i = 0 THEN Null ELSE 1]

\* A fact, its contradiction at the same time and one by a peer; a profile read
\* of scenario 2, also at that time; and a link past the end of the run.
Played ==
  << Link(0, 1), Link(1, 1), [Link(2, 2) EXCEPT !.override = "bob"],
     [scenario |-> 2, index |-> 0, at |-> 1, read |-> TRUE, user |-> "bob",
      override |-> Null, target |-> Null],
     Link(3, 3) >>

\* The second run plays the contradiction alone, and is too short for the last.
BothRuns == <<{1, 2, 3, 4}, {1, 2, 5}>>

\* A contradiction by the same user, the smallest one, and one by a peer.
Pair == << Link(0, 1), Link(1, 2), [Link(2, 2) EXCEPT !.override = "bob"] >>
Twice == <<{1, 2, 3}, {1, 2, 3}>>
=============================================================================
