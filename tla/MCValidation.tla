---------------------------- MODULE MCValidation ----------------------------
EXTENDS Validation

\* Entries of the catalogue, with what an extractor makes of their texts.
Home(city) == Triple("home", {"user", "lives"} \cup city)
Moves ==
  Scenario("contradiction",
    <<Primary({"live", "new", "york"}, <<Home({"new", "york"})>>),
      Contradicting({"moved", "san", "francisco"}, <<Home({"san", "francisco"})>>, FALSE)>>, {})
Commute ==
  Scenario("generic",
    <<Primary({"work", "google"}, <<Triple("job", {"user", "works", "google"})>>),
      Primary({"commute", "long"}, <<>>)>>, {})
Settled ==
  Scenario("generic", <<Primary({"moved", "boston"}, <<Home({"boston", "city"})>>)>>, {})
Lead(name) == Triple("lead", {"team", "lead", name})
TeamLead ==
  Scenario("multi_user",
    <<Primary({"team", "lead", "john"}, <<Lead("john")>>),
      Contradicting({"team", "lead", "sarah"}, <<Lead("sarah")>>, TRUE)>>, {})
Salary(n) == Triple("salary", {"user", "salary", n})
Paid == Scenario("generic", <<Primary({"paid", "90k"}, <<Salary("90k")>>)>>, {})
Raises ==
  Scenario("modify",
    <<Primary({"salary", "100k"}, <<Salary("100k")>>),
      Contradicting({"salary", "120k"}, <<Salary("120k")>>, FALSE)>>, {})
Sprint ==
  Scenario("expiry",
    <<Expiring({"sprint", "deadline", "two", "weeks"},
        <<[Triple("deadline", {"sprint", "ends", "two", "weeks"}) EXCEPT !.dated = TRUE]>>)>>, {})
Guild ==
  Scenario("cache",
    <<Primary({"lead", "reliability", "guild"}, <<Triple("guild", {"user", "leads", "reliability", "guild"})>>),
      ProfileRead("miss", FALSE), ProfileRead("hit", FALSE)>>,
    {"cache_hit_recorded"})
Refresh ==
  Scenario("cache",
    <<Primary({"postgres", "analytics"}, <<Triple("store", {"user", "uses", "postgres"})>>),
      ProfileRead("miss", FALSE),
      Primary({"clickhouse", "events"}, <<Triple("tool", {"events", "stored", "clickhouse"})>>),
      ProfileRead("miss", FALSE)>>,
    {"profile_refreshed_on_new_fact"})
Reviews ==
  Scenario("cache",
    <<Primary({"reviewing", "sharding"},
        <<Triple("reviews", {"user", "reviews", "sharding", "proposal"}),
          Triple("topic", {"proposal", "topic", "scaling", "out"})>>),
      ProfileRead("miss", FALSE)>>,
    {"recent_activity_populated", "stable_recent_split_correct"})
OnCall ==
  Scenario("cache",
    <<Primary({"call", "rotation"}, <<Triple("rotation", {"user", "runs", "rotation"})>>),
      ProfileRead("miss", FALSE), ProfileRead("miss", TRUE)>>,
    {"cache_miss_recorded"})
Role(r) == Triple("role", {"role", "user"} \cup r)
Promoted ==
  Scenario("modify",
    <<Primary({"role", "software", "engineer"}, <<Role({"software", "engineer"})>>),
      Contradicting({"engineering", "manager"}, <<Role({"manager", "people"})>>, FALSE),
      Contradicting({"director", "everything"}, <<Role({"director", "budget"})>>, FALSE)>>, {})

\* What an extractor may also make of them: nothing of a replacement, another key
\* for it, one key for two facts, no expiry, nothing at all.
UnheardMove ==
  Scenario("contradiction",
    <<Primary({"live", "new", "york"}, <<Home({"new", "york"})>>),
      Contradicting({"moved", "san", "francisco"}, <<>>, FALSE)>>, {})
RekeyedMove ==
  Scenario("contradiction",
    <<Primary({"live", "new", "york"}, <<Home({"new", "york"})>>),
      Contradicting({"moved", "san", "francisco"},
        <<Triple("move", {"user", "moved", "san", "francisco"})>>, FALSE)>>, {})
TwoHomes ==
  Scenario("generic",
    <<Primary({"live", "new", "york"}, <<Home({"new", "york"})>>),
      Primary({"house", "boston"}, <<Home({"boston", "house"})>>)>>, {})
UndatedSprint ==
  Scenario("expiry",
    <<Expiring({"sprint", "deadline", "two", "weeks"},
        <<Triple("deadline", {"sprint", "ends", "two", "weeks"})>>)>>, {})
UnheardReviews ==
  Scenario("cache",
    <<Primary({"reviewing", "sharding"}, <<>>), ProfileRead("miss", FALSE)>>,
    {"recent_activity_populated", "stable_recent_split_correct"})
UnheardGuild ==
  Scenario("cache",
    <<Primary({"lead", "reliability", "guild"}, <<>>), ProfileRead("miss", FALSE)>>,
    {"cache_miss_recorded"})

\* An entry may come twice, when more scenarios are asked for than there are.
AllBatches ==
  {<<Moves, Commute>>, <<Moves, Settled>>, <<Commute, Settled>>, <<TeamLead, Raises>>,
   <<Sprint, Guild>>, <<Reviews, Settled>>, <<Paid, Raises>>, <<Paid, Paid>>, <<OnCall>>, <<Refresh>>, <<Promoted>>,
   <<UnheardMove>>, <<RekeyedMove>>, <<TwoHomes>>, <<UndatedSprint>>, <<UnheardReviews>>,
   <<UnheardGuild>>}

\* A replacement that the extractor has nothing to say of.
UnheardMoves == {<<UnheardMove>>}

\* Nothing, or an event that an earlier run has left under a synthetic id.
OldEvents == {<<>>, <<[fact |-> <<1, 2, 0>>, user |-> "ann", old |-> NoId]>>}
NoLeftover == {<<>>}
NoLegacy == {{}}
OneLegacy ==
  {{}} \cup {{fault} : fault \in {"synthetic_fact_ids", "compare_utterance_text",
                                  "silence_is_failure", "script_decides_ownership"}}
=============================================================================
