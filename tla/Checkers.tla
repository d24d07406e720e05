------------------------------ MODULE Checkers ------------------------------
(***************************************************************************)
(* The 27 checkers of validator_service.py.  Each looks at one scenario s: *)
(* its facts that were ingested, the methods' states of them, the audit    *)
(* trail, the profiles of its users and its cache checks.                  *)
(***************************************************************************)
EXTENDS Evidence

\* Something speaks against, or nothing does and something speaks for.
Judge(against, for) == IF against THEN "failed" ELSE IF for THEN "passed" ELSE "skipped"

Own(x) == ForFact(RefId(x), UserOf(x))
State(x, method) == IF x \in DOMAIN seen THEN seen[x][method] ELSE Unavailable
Extracted(S) == {x \in S : ~ExtractedNothing(x)}
Lasting(s) == {x \in Ingested(s) : ~Superseded(x)}
ErrorsOf(s) == failed \cap FactsOf(s)

\* The profiles as the scenario's context has them.
ProfilesOf(s) == {p \in profiled : p.user \in UsersOf(s)}
AnsweredProfiles(s) == {p \in ProfilesOf(s) : p.answered}
Entries(u) == UNION {p.entries : p \in {q \in profiled : q.user = u}}

-----------------------------------------------------------------------------
(* Base.                                                                   *)

FactStored(s) ==
  LET refs == Extracted(Ingested(s))
      stored == {x \in refs : State(x, "db").exists \/ State(x, "audit").exists} IN
  IF refs = {} THEN "skipped" ELSE Judge(ErrorsOf(s) # {}, stored # {})

FactRetrievable(s) ==
  LET refs == {x \in Extracted(Lasting(s)) : State(x, "api").available}
      found == {x \in refs : State(x, "api").exists}
      missing == {x \in refs \ found : Attribution(x) # "cross_scenario"} IN
  Judge(missing # {}, found # {})

AuditEventLogged(s) ==
  Judge(\E x \in Ingested(s) : Own(x) = {}, Ingested(s) # {})

\* Both sides of a contradiction across users may show.
Crosses(x, y) == OldId(x) # NoId /\ OldId(x) = RefId(y) /\ UserOf(x) # UserOf(y)
CrossPair(s, u, v) ==
  \E x, y \in Ingested(s) : Crosses(x, y) /\ {u, v} = {UserOf(x), UserOf(y)}

\* _owner_by_text: the facts of the whole run, those of other users, and the
\* first of them that reads like a text.
Scripted == {x \in AllFacts : ~IsRead(x)}
Foreign(u) == {x \in Scripted : UserOf(x) # u}
LikeForeign(u, text) == {x \in Foreign(u) : TextsMatch(Utterance(x), text)}
FirstFact(S) == CHOOSE x \in S : \A y \in S : x[1] < y[1] \/ (x[1] = y[1] /\ x[2] <= y[2])

\* Texts that the store is asked about: does the user hold one like it?
RowTexts(u) == {RowText(r) : r \in RowsOfUser(u)}
OwnedTexts(u) ==
  IF \E o \in owned : o.user = u
  THEN UNION {o.texts : o \in {q \in owned : q.user = u}} ELSE RowTexts(u)
\* Faulty variant: the store is not asked.
UserOwnsNothing(u, text) == FALSE
UserOwns(u, text) ==
  ~Legacy("script_decides_ownership") /\ \E t \in OwnedTexts(u) : TextsMatch(t, text)

ProfileSuspects(s) ==
  UNION {{<<u, e>> : e \in {t \in Entries(u) :
            LikeForeign(u, t) # {} /\ ~CrossPair(s, u, UserOf(FirstFact(LikeForeign(u, t))))}} :
         u \in UsersOf(s)}

\* _retrieval_leaks looks at the queries that are utterances of the scenario.
QueriesOf(s) ==
  {r \in retrieved : r.user \in UsersOf(s) /\ \E x \in FactsOf(s) : Utterance(x) = r.query}
RetrievalSuspects(s) ==
  UNION {{<<r.user, TextOf(v)>> : v \in {w \in r.memories : LikeForeign(r.user, TextOf(w)) # {}}} :
         r \in QueriesOf(s)}

Suspects(s) == ProfileSuspects(s) \cup RetrievalSuspects(s)
Leaks(s) == {l \in Suspects(s) : ~UserOwns(l[1], l[2])}

\* A user's owned texts are read once, when the first suspect asks for them.
AskedOwners(s) ==
  IF Legacy("script_decides_ownership") THEN {}
  ELSE {l[1] : l \in Suspects(s)} \ {o.user : o \in owned}

MisfiledEvents(s) ==
  {x \in Ingested(s) : \E n \in EventsOf(RefId(x)) : Events[n].user # UserOf(x)}

UserIsolationOk(s) ==
  Judge(\/ \E x \in Ingested(s) : State(x, "db").available /\ State(x, "db").user # UserOf(x)
        \/ MisfiledEvents(s) # {} \/ Leaks(s) # {},
        \/ \E x \in Ingested(s) : State(x, "db").available \/ EventsOf(RefId(x)) # {}
        \/ \E u \in UsersOf(s) : Foreign(u) # {} /\ Entries(u) # {}
        \/ QueriesOf(s) # {})

\* Every row and event of the run has its user, number and time.
MetadataCorrect(s) ==
  Judge(FALSE, \E x \in Ingested(s) : Own(x) # {} \/ State(x, "db").available)

-----------------------------------------------------------------------------
(* Verdicts on whether facts are active.                                   *)

\* _expect_active: a fact that another scenario made inactive is skipped.
ExpectActive(refs) ==
  Judge(\E x \in refs : Verdict(x) = "inactive" /\ Attribution(x) = "same_scenario",
        refs = {} \/ \E x \in refs : Verdict(x) = "active")

ExpectReplaced(refs) ==
  Judge(\E x \in refs : Verdict(x) = "active", \E x \in refs : Verdict(x) = "inactive")

OldFactDeactivated(s) == ExpectReplaced({x \in Ingested(s) : Superseded(x)})
PriorVersionsDeactivated(s) == ExpectReplaced({x \in Ingested(s) : Superseded(x)})

NewFactActive(s) ==
  LET new == {x \in Lasting(s) : OldId(x) # NoId} IN
  IF new = {} THEN "skipped" ELSE ExpectActive(new)

BothFactsActive(s) ==
  IF Cardinality(UsersOf(s)) < 2 THEN "skipped" ELSE ExpectActive(Ingested(s))

AllFactsActive(s) == IF Ingested(s) = {} THEN "skipped" ELSE ExpectActive(Ingested(s))

LatestValueActive(s) ==
  IF Ingested(s) = {} THEN "skipped"
  ELSE ExpectActive({x \in Ingested(s) : \A y \in Ingested(s) : y[2] <= x[2]})

-----------------------------------------------------------------------------
(* The audit trail.                                                        *)

\* Every fact has events, and a replacement one that says what it replaced.
AuditTrailComplete(s) ==
  Judge(\/ \E x \in Ingested(s) : Own(x) = {}
        \/ \E x \in Ingested(s) :
             Superseded(x) /\ \A n \in Own(Replacer(x)) : Events[n].old # RefId(x), TRUE)

NoCrossUserDeactivation(s) ==
  Judge(\E x, y \in Ingested(s) : \E n \in EventsOf(RefId(x)) :
          /\ Events[n].old # NoId /\ Events[n].old # Events[n].fact
          /\ RefId(y) = Events[n].old /\ UserOf(y) # Events[n].user, TRUE)

NoContradictionTriggered(s) ==
  Judge(\/ \E x \in Ingested(s) : Superseded(x)
        \/ \E x \in Ingested(s) : \E n \in Own(x) :
             Events[n].old \in {RefId(y) : y \in Ingested(s)} \ {NoId, Events[n].fact}, TRUE)

\* What any method can see has a history, and so has what was superseded.
ArchiveNotDeleted(s) ==
  Judge(\/ \E x \in Ingested(s) : Own(x) = {} /\ Verdict(x) # "undecided"
        \/ \E x \in Ingested(s) :
             Superseded(x) /\ EventsOf(RefId(x)) = {} /\ Supersedes(RefId(x)) = {}, TRUE)

-----------------------------------------------------------------------------
(* Expiry.                                                                 *)

Expires(s) == {x \in Ingested(s) : SpecOf(x).ttl}

ExpiryScheduled(s) ==
  LET visible == {x \in Expires(s) : State(x, "db").available} IN
  Judge(Expires(s) = {} \/ \E x \in visible : ~State(x, "db").dated, visible # {})

TtlRecorded(s) == Judge(Expires(s) = {}, TRUE)

FactActiveBeforeExpiry(s) == IF Expires(s) = {} THEN "skipped" ELSE ExpectActive(Expires(s))

-----------------------------------------------------------------------------
(* The profile cache.                                                      *)

ProfileGenerated(s) == Judge(\E p \in ProfilesOf(s) : ~p.answered, TRUE)

ProfileReflectsFacts(s) ==
  LET refs == {x \in Extracted(Lasting(s)) : Entries(UserOf(x)) # {}}
      Reflected(x) ==
        \E e \in Entries(UserOf(x)), t \in MatchTexts(x) : TextsMatch(t, e) IN
  Judge(\E x \in refs : ~Reflected(x), refs # {})

\* cache_checks of the scenario with this expectation that the plan kept.
Expectations(s, status) ==
  {c \in checks : /\ c.read[1] = s /\ SpecOf(c.read).expects = status
                  /\ ~SpecOf(c.read).marked}
Matched(c) == c.observed = SpecOf(c.read).expects
Mismatched(c) == c.observed # "none" /\ ~Matched(c)
CacheExpectation(s, status) ==
  LET relevant == Expectations(s, status) IN
  Judge(\E c \in relevant : Mismatched(c), \E c \in relevant : Matched(c))

ProfileRefreshedOnNewFact(s) ==
  IF Cardinality({c \in checks : c.read[1] = s}) < 2 THEN "skipped"
  ELSE CacheExpectation(s, "miss")

RecentActivityPopulated(s) ==
  Judge(\E p \in AnsweredProfiles(s) : p.entries = {}, AnsweredProfiles(s) # {})

\* All that a run stores is recent: nothing is listed as stable as well.
StableRecentSplitCorrect(s) == Judge(FALSE, AnsweredProfiles(s) # {})

ExpectedCacheUnsatisfiable(s) ==
  Judge(FALSE, \A x \in FactsOf(s) : ~SpecOf(x).marked)

-----------------------------------------------------------------------------
\* _run_check.
Check(s, outcome) ==
  CASE outcome = "fact_stored" -> FactStored(s)
    [] outcome = "fact_retrievable" -> FactRetrievable(s)
    [] outcome = "audit_event_logged" -> AuditEventLogged(s)
    [] outcome = "user_isolation_ok" -> UserIsolationOk(s)
    [] outcome = "metadata_correct" -> MetadataCorrect(s)
    [] outcome = "old_fact_deactivated" -> OldFactDeactivated(s)
    [] outcome = "new_fact_active" -> NewFactActive(s)
    [] outcome = "audit_trail_complete" -> AuditTrailComplete(s)
    [] outcome = "expiry_scheduled" -> ExpiryScheduled(s)
    [] outcome = "ttl_recorded" -> TtlRecorded(s)
    [] outcome = "fact_active_before_expiry" -> FactActiveBeforeExpiry(s)
    [] outcome = "no_live_expiry_fired" -> "passed"
    [] outcome = "archive_not_deleted" -> ArchiveNotDeleted(s)
    [] outcome = "profile_generated" -> ProfileGenerated(s)
    [] outcome = "profile_reflects_facts" -> ProfileReflectsFacts(s)
    [] outcome = "cache_hit_recorded" -> CacheExpectation(s, "hit")
    [] outcome = "cache_miss_recorded" -> CacheExpectation(s, "miss")
    [] outcome = "recent_activity_populated" -> RecentActivityPopulated(s)
    [] outcome = "stable_recent_split_correct" -> StableRecentSplitCorrect(s)
    [] outcome = "profile_refreshed_on_new_fact" -> ProfileRefreshedOnNewFact(s)
    [] outcome = "expected_cache_unsatisfiable" -> ExpectedCacheUnsatisfiable(s)
    [] outcome = "both_facts_active" -> BothFactsActive(s)
    [] outcome = "no_cross_user_deactivation" -> NoCrossUserDeactivation(s)
    [] outcome = "all_facts_active" -> AllFactsActive(s)
    [] outcome = "no_contradiction_triggered" -> NoContradictionTriggered(s)
    [] outcome = "latest_value_active" -> LatestValueActive(s)
    [] outcome = "prior_versions_deactivated" -> PriorVersionsDeactivated(s)
=============================================================================
