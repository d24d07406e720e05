----------------------------- MODULE Catalogue -----------------------------
(***************************************************************************)
(* The scenario specs of scenario_generator.py: the facts of the six       *)
(* categories and the outcomes that the validator is to check for each.    *)
(*                                                                         *)
(* A text is the set of its content words (normalise_tokens): texts that   *)
(* differ in nothing else are one, where they are compared as strings too. *)
(* An utterance comes with what the engine's extractor makes of it: a      *)
(* sequence of triples, each a natural key and the words of the stored     *)
(* text.                                                                   *)
(***************************************************************************)
EXTENDS Integers, Sequences

\* A triple "subject predicate object" under its key; dated has an expires_at.
Triple(key, words) == [key |-> key, words |-> words, dated |-> FALSE]

Primary(text, says) ==
  [text |-> text, says |-> says, kind |-> "fact", peer |-> FALSE, conflicts |-> FALSE,
   ttl |-> FALSE, expects |-> "none", marked |-> FALSE]

\* A contradiction, said by the scenario's peer or not, or a modification.
Contradicting(text, says, byPeer) ==
  [Primary(text, says) EXCEPT !.conflicts = TRUE, !.peer = byPeer]

Expiring(text, says) == [Primary(text, says) EXCEPT !.ttl = TRUE]

\* A read, and whether the runner's plan gave its expectation up.
ProfileRead(expects, given) ==
  [Primary({}, <<>>) EXCEPT !.kind = "read", !.expects = expects, !.marked = given]

-----------------------------------------------------------------------------
BaseOutcomes ==
  {"fact_stored", "fact_retrievable", "audit_event_logged", "user_isolation_ok",
   "metadata_correct"}

CategoryOutcomes ==
  [contradiction |-> {"old_fact_deactivated", "new_fact_active", "audit_trail_complete"},
   expiry |-> {"expiry_scheduled", "ttl_recorded", "fact_active_before_expiry"},
   cache |-> {"profile_generated", "profile_reflects_facts"},
   multi_user |-> {"both_facts_active", "no_cross_user_deactivation", "audit_trail_complete"},
   generic |-> {"all_facts_active", "no_contradiction_triggered"},
   modify |-> {"latest_value_active", "prior_versions_deactivated", "audit_trail_complete"}]

\* IMPLICIT_OUTCOMES of the validator.
ImplicitOutcomes ==
  [expiry |-> {"no_live_expiry_fired", "archive_not_deleted"},
   cache |-> {"expected_cache_unsatisfiable"}]

\* _outcomes_for: declared and implicit.
OutcomesFor(spec) ==
  BaseOutcomes \cup CategoryOutcomes[spec.category] \cup spec.extra
    \cup IF spec.category \in DOMAIN ImplicitOutcomes
         THEN ImplicitOutcomes[spec.category] ELSE {}

Scenario(category, facts, extra) ==
  [category |-> category, facts |-> facts, extra |-> extra]

NeedsPeer(spec) == \E i \in DOMAIN spec.facts : spec.facts[i].peer
=============================================================================
