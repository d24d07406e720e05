----------------------------- MODULE Validation -----------------------------
(***************************************************************************)
(* A run and then its validation (ValidatorService.validate): scenario by  *)
(* scenario, fact by fact, the four methods are asked, with an await for   *)
(* /retrieve and one for the profile, what they say is compared, and the   *)
(* checkers decide.  An ingest that the client gave up on may be stored    *)
(* between any two of those steps.                                         *)
(***************************************************************************)
EXTENDS Checkers

CONSTANTS
  Legacies,   \* the sets of pre-fix faults that are tried
  Leftover    \* sequences of events that an earlier run left under the number

ASSUME ValidationAssumption ==
  /\ TopK \in Nat \ {0} /\ MaxFaults \in Nat /\ NoUser \notin Users
  /\ Hit \in Nat \ {0} /\ Of \in Nat /\ Hit <= Of /\ Strict \in BOOLEAN
  /\ Defects \subseteq {"none", "keeps_old", "loses", "leaks"}
  /\ UNION Legacies \subseteq {"synthetic_fact_ids", "compare_utterance_text",
                               "silence_is_failure", "script_decides_ownership"}

VARIABLES
  stage,      \* "play", "validate", "done"
  scen,       \* the scenario that is validated
  todo,       \* its facts that have not been looked at
  cur,        \* the fact whose methods are being asked, and what they said
  results,    \* for each scenario that is through, outcome -> status
  disputed,   \* facts with a CrossValidationError
  stirred     \* history: the store has changed under the validator

setting == <<chosen, legacy, inherited>>
progress == <<stage, scen, todo, cur, results, disputed>>
vars == <<setting, kept, engine, pending, faults, evidence, progress, stirred>>

Idle == [at |-> "next"]
ToCollect(s) == Extracted(Ingested(s))

\* _materialise: a user is drawn for each scenario and, if it has facts of a
\* peer and there is another user, one of the others for those.
Cast ==
  /\ owner \in [Scenarios -> Users] /\ peer \in [Scenarios -> Users \cup {NoUser}]
  /\ \A s \in Scenarios :
       IF NeedsPeer(batch[s]) /\ Users # {owner[s]}
       THEN peer[s] \in Users \ {owner[s]} ELSE peer[s] = NoUser

Init ==
  /\ batch \in Batches /\ Cast
  /\ defect \in Defects /\ legacy \in Legacies /\ inherited \in Leftover
  /\ place = [s \in Scenarios |-> 0] /\ recorded = {} /\ failed = {}
  /\ checks = {} /\ trail = <<>> /\ pending = {}
  /\ rows = {} /\ dirty = {} /\ vectors = {} /\ cached = {} /\ torn = FALSE
  /\ retrieved = {} /\ profiled = {} /\ owned = {} /\ seen = <<>>
  /\ stage = "play" /\ scen = 1 /\ todo = {} /\ cur = Idle
  /\ results = <<>> /\ disputed = {} /\ stirred = FALSE
  /\ faults = (IF defect = "none" THEN 0 ELSE 1) + (IF legacy = {} THEN 0 ELSE 1)
                + (IF inherited = <<>> THEN 0 ELSE 1)

Play ==
  /\ stage = "play" /\ Playback
  /\ UNCHANGED <<legacy, inherited, evidence, progress, stirred>>

StoreLate ==
  /\ stage # "done" /\ \E x \in pending : StoredLate(x)
  /\ stirred' = (stirred \/ stage = "validate")
  /\ UNCHANGED <<legacy, inherited, evidence, progress>>

\* Faulty variant: it waits until the engine has answered what was given up.
BeginWhenQuiet ==
  /\ stage = "play" /\ pending = {} /\ stage' = "validate"
  /\ IF AllPlayed THEN UNCHANGED faults ELSE Fails
  /\ todo' = ToCollect(scen)
  /\ retrieved' = {} /\ profiled' = {} /\ owned' = {}
  /\ UNCHANGED <<setting, kept, engine, pending, seen, scen, cur, results, disputed, stirred>>

\* The run is over, all played or its time up.  _reset_caches.
Begin ==
  /\ stage = "play" /\ stage' = "validate"
  /\ IF AllPlayed THEN UNCHANGED faults ELSE Fails
  /\ todo' = ToCollect(scen)
  /\ retrieved' = {} /\ profiled' = {} /\ owned' = {}
  /\ UNCHANGED <<setting, kept, engine, pending, seen, scen, cur, results, disputed, stirred>>

-----------------------------------------------------------------------------
(* _validate_scenario.                                                     *)

Validating(at) == stage = "validate" /\ cur.at = at
Untouched == UNCHANGED <<setting, kept, pending, stage, scen, results, stirred>>

\* _collect_states begins: the row, and then the wait for /retrieve.
ReadRow ==
  /\ Validating("next") /\ todo # {}
  /\ LET x == FirstFact(todo) IN
     \E db \in DbStates(x) : cur' = [at |-> "api", fact |-> x, db |-> db]
  /\ Untouched /\ UNCHANGED <<engine, faults, evidence, todo, disputed>>

\* The answer, by the method's view of it, and then the wait for the profile.
Then(api) ==
  cur' = [at |-> "profile", fact |-> cur.fact, db |-> cur.db, api |-> api,
          audit |-> AuditState(cur.fact)]

\* validate_via_api: an answer is kept for the rest of the validation.
Asked(x) == {r \in retrieved : r.user = UserOf(x) /\ r.query = Query(x)}
RetrieveAgain ==
  /\ Validating("api") /\ \E r \in Asked(cur.fact) : Then(ApiState(cur.fact, r.memories))
  /\ Untouched /\ UNCHANGED <<engine, faults, evidence, todo, disputed>>
RetrieveAnswered ==
  /\ Validating("api") /\ Asked(cur.fact) = {}
  /\ \E memories \in Ranked(UserOf(cur.fact), Query(cur.fact)) :
       /\ Then(ApiState(cur.fact, memories))
       /\ retrieved' = retrieved \cup
            {[user |-> UserOf(cur.fact), query |-> Query(cur.fact), memories |-> memories]}
  /\ Untouched /\ UNCHANGED <<engine, faults, profiled, owned, seen, todo, disputed>>
RetrieveFails ==
  /\ Validating("api") /\ Asked(cur.fact) = {} /\ Fails /\ Then(Unavailable)
  /\ Untouched /\ UNCHANGED <<engine, evidence, todo, disputed>>

\* _get_profile: an answer is kept, and so is a failure.
Known(u) == {p \in profiled : p.user = u}
ProfileAnswered(u) ==
  /\ Known(u) = {}
  /\ \E entries \in Profiles(u) :
       /\ ShowsProfile(u, entries)
       /\ profiled' = profiled \cup {[user |-> u, answered |-> TRUE, entries |-> entries]}
  /\ UNCHANGED faults
ProfileFails(u) ==
  /\ Known(u) = {} /\ Fails
  /\ profiled' = profiled \cup {[user |-> u, answered |-> FALSE, entries |-> {}]}
  /\ UNCHANGED engine
ProfileKnown(u) == Known(u) # {} /\ UNCHANGED <<engine, faults, profiled>>
ProfileOf(u) == CHOOSE p \in profiled' : p.user = u

\* The last method has spoken: _compare.
ReadProfile ==
  /\ Validating("profile")
  /\ LET x == cur.fact
         u == UserOf(x)
     IN
     /\ ProfileKnown(u) \/ ProfileAnswered(u) \/ ProfileFails(u)
     /\ LET states == [db |-> cur.db, api |-> cur.api, audit |-> cur.audit,
                       profile |-> ProfileState(x, ProfileOf(u))]
        IN
        /\ seen' = [y \in DOMAIN seen \cup {x} |-> IF y = x THEN states ELSE seen[y]]
        /\ disputed' = IF Agreed(states) THEN disputed ELSE disputed \cup {x}
     /\ todo' = todo \ {x} /\ cur' = Idle
  /\ Untouched /\ UNCHANGED <<retrieved, owned>>

\* The profiles of the scenario's users that no fact has asked for.
Unread(s) == {u \in UsersOf(s) : Known(u) = {}}
Collected == Validating("next") /\ todo = {}
FetchProfile ==
  /\ Collected /\ \E u \in Unread(scen) : ProfileAnswered(u) \/ ProfileFails(u)
  /\ Untouched /\ UNCHANGED <<retrieved, owned, seen, todo, cur, disputed>>

\* The checkers, and on to the next scenario.
RunChecks ==
  /\ Collected /\ Unread(scen) = {}
  /\ results' = Append(results, [o \in OutcomesFor(batch[scen]) |-> Check(scen, o)])
  /\ owned' = owned \cup {[user |-> u, texts |-> RowTexts(u)] : u \in AskedOwners(scen)}
  /\ scen' = scen + 1
  /\ IF scen < Len(batch) THEN todo' = ToCollect(scen + 1) /\ UNCHANGED stage
     ELSE stage' = "done" /\ UNCHANGED todo
  /\ UNCHANGED <<setting, kept, engine, pending, faults, retrieved, profiled, seen, cur,
                 disputed, stirred>>

Validate ==
  \/ ReadRow \/ RetrieveAgain \/ RetrieveAnswered \/ RetrieveFails
  \/ ReadProfile \/ FetchProfile \/ RunChecks

Next == Play \/ StoreLate \/ Begin \/ Validate

\* The run's clock runs out, and the awaits of the validator come back.
Spec == Init /\ [][Next]_vars /\ WF_vars(Play \/ Begin) /\ WF_vars(Validate)

-----------------------------------------------------------------------------
(* What is told of a scenario, and what a reader takes it to mean.         *)

FailedOutcomes(s) == {o \in DOMAIN results[s] : results[s][o] = "failed"}
ScenarioPassed(s) == FailedOutcomes(s) = {} /\ disputed \cap FactsOf(s) = {}

\* Nothing is wrong with the engine, the checker or the run number.
Sound == defect = "none" /\ legacy = {} /\ inherited = <<>>

\* Scenario s was played to its end, all of it is on the trail, and no read was
\* told wrong from its latency.
AsScripted(s) ==
  /\ place[s] = Len(batch[s].facts) /\ ErrorsOf(s) = {}
  /\ \A x \in Ingested(s) : \E n \in DOMAIN trail : trail[n].fact = FactId(x)
  /\ \A c \in checks : c.read[1] = s => ~Mismatched(c) \/ SpecOf(c.read).marked

\* The triples of the run, and those of s.
Triples == UNION {MemoryIds(x) : x \in AllFacts}
TriplesOf(s) == {v \in Triples : v[1] = s}
FactOf(v) == <<v[1], v[2]>>
KeyOfMemory(v) == <<UserOfMemory(v), KeyOf(FactOf(v), v[3])>>

\* No other scenario has a triple under a natural key of one of s.
Alone(s) ==
  \A v \in TriplesOf(s), w \in Triples \ TriplesOf(s) : KeyOfMemory(v) # KeyOfMemory(w)

\* No triple that s may be shown can be taken for one of its own.
Confusable(v, w) ==
  TextsMatch(TextOf(v), TextOf(w)) \/ TextsMatch(Utterance(FactOf(v)), TextOf(w))
MayMeet(v, w) == UserOfMemory(v) = UserOfMemory(w) \/ defect = "leaks"
Distinct(s) ==
  \A v \in TriplesOf(s), w \in Triples : v # w /\ MayMeet(v, w) => ~Confusable(v, w)

\* The profiles of the users of s were shown, and they are those of the store.
Fresh(s) == \A p \in ProfilesOf(s) : p.answered /\ p.entries = ListedNow(p.user)

\* Nothing that was read of the users of s has left the store since, and their
\* rows' texts are those that are remembered.
StillShown(s) ==
  /\ \A p \in ProfilesOf(s) : p.entries \subseteq ListedNow(p.user)
  /\ \A r \in retrieved : r.user \in UsersOf(s) => r.memories \subseteq vectors
  /\ \A o \in owned : o.user \in UsersOf(s) => RowTexts(o.user) \subseteq o.texts

\* By the script x is replaced: what its user is told next in the scenario
\* contradicts it.
Between(x, y) == {z \in FactsOf(x[1]) : x[2] < z[2] /\ z[2] < y[2]}
Retold(x) ==
  \E y \in FactsOf(x[1]) :
    /\ x[2] < y[2] /\ SpecOf(y).conflicts /\ UserOf(y) = UserOf(x)
    /\ \A z \in Between(x, y) : IsRead(z)

\* Within its scenario, triple v is overwritten by a later one.
Later(v, w) == v[2] < w[2] \/ (v[2] = w[2] /\ v[3] < w[3])
Overwritten(v) ==
  \E w \in TriplesOf(v[1]) : Later(v, w) /\ KeyOfMemory(w) = KeyOfMemory(v)
SilentAfter(x) ==
  \E y \in FactsOf(x[1]) : x[2] < y[2] /\ ~IsRead(y) /\ SpecOf(y).says = <<>>

\* What the extractor made of s is what its script means, where it is not silent:
\* the triples of a replaced fact are overwritten and no others are, and what is
\* to expire has an expiry.
Understood(s) ==
  /\ \A v \in TriplesOf(s) :
       IF Retold(FactOf(v)) THEN Overwritten(v) \/ SilentAfter(FactOf(v))
       ELSE ~Overwritten(v)
  /\ \A x \in Expires(s) : SpecOf(x).says # <<>> => SpecOf(x).says[1].dated

\* It was not silent about a replacement, nor about all that a profile was to show.
Voiced(s) ==
  /\ \A v \in TriplesOf(s) : Retold(FactOf(v)) => Overwritten(v)
  /\ "recent_activity_populated" \in OutcomesFor(batch[s]) =>
       \A u \in UsersOf(s) : \E x \in Ingested(s) : UserOf(x) = u /\ SpecOf(x).says # <<>>

\* Every /retrieve for a fact of s was answered.
Answered(s) == \A x \in FactsOf(s) \cap DOMAIN seen : seen[x].api.available

-----------------------------------------------------------------------------
(* Properties.                                                             *)

\* Every fact that the runner is through with has exactly one of a record, an
\* error and a cache check; only ingests that were given up on are stored late;
\* and an event is about a fact that has a record.  The validator reads a fact
\* with none of them as played and one with two by its record (_build_refs).
Accounted ==
  /\ recorded \cup failed \cup {c.read : c \in checks}
       = {x \in AllFacts : x[2] <= place[x[1]]}
  /\ recorded \cap failed = {} /\ pending \subseteq failed
  /\ \A c \in checks : IsRead(c.read) /\ c.read \notin failed
  /\ \A x \in recorded \cup pending : ~IsRead(x)
  /\ \A n \in DOMAIN trail : \E x \in recorded : trail[n].fact = FactId(x)

\* An event is about a fact with a record, and what it supersedes is a fact of
\* the same scenario with one.
EventsOwn ==
  \A n \in DOMAIN trail :
    \E x \in recorded :
      /\ trail[n].fact = FactId(x)
      /\ trail[n].old # NoId =>
           \E y \in recorded : y[1] = x[1] /\ trail[n].old = FactId(y)

\* The inductive invariant behind Accounted and CollisionsUnseen.
IInv ==
  /\ batch \in Batches /\ place \in [Scenarios -> Nat]
  /\ trail \in Seq({trail[n] : n \in DOMAIN trail})
  /\ Accounted /\ EventsOwn

\* An event says what its fact is and what is resolved by it, and the events of a
\* scenario come in the order of its facts.
TrailTold ==
  /\ \A n \in DOMAIN trail : \E x \in recorded : trail[n] = Event(x)
  /\ \A m, n \in DOMAIN trail, x, y \in recorded :
       /\ trail[m].fact = FactId(x) /\ trail[n].fact = FactId(y)
       /\ x[1] = y[1] /\ x[2] < y[2]
       => m < n

\* The memories are the run's own, and while no deactivation was torn each is
\* the one of its key's active row.
RowKeeps(r, v) ==
  r.id = v /\ r.active /\ r.user = UserOfMemory(v) /\ r.key = KeyOf(FactOf(v), v[3])
StoreKept ==
  /\ vectors \subseteq Triples
  /\ \A r \in rows :
       r = [user |-> r.user, key |-> r.key, id |-> r.id, active |-> r.active, dated |-> r.dated]
  /\ ~torn /\ defect # "keeps_old" =>
       dirty = {} /\ \A v \in vectors : \E r \in rows : RowKeeps(r, v)

\* What the methods have said of fact x: the row is its user's; the memories are
\* what the store answers, if nothing has changed it since; the trail is the run's.
DbRight(x, db) == db.available => db.user = UserOf(x)
ApiRight(x, api) ==
  ~stirred /\ api.available =>
    \E memories \in Ranked(UserOf(x), Query(x)) : api = ApiState(x, memories)
CurRight ==
  /\ cur.at \in {"next", "api", "profile"}
  /\ cur.at # "next" => stage = "validate" /\ cur.fact \in todo /\ DbRight(cur.fact, cur.db)
  /\ cur.at = "profile" =>
       ApiRight(cur.fact, cur.api) /\ cur.audit = AuditState(cur.fact)
SeenRight ==
  \A x \in DOMAIN seen :
    /\ DbRight(x, seen[x].db) /\ ApiRight(x, seen[x].api) /\ seen[x].audit = AuditState(x)
    /\ x \in disputed \/ Agreed(seen[x])

\* The answers that are kept are still the store's, and nobody else's memories.
AnswersKept ==
  \A r \in retrieved :
    /\ ~stirred => r.memories \in Ranked(r.user, r.query)
    /\ defect # "leaks" => \A v \in r.memories : UserOfMemory(v) = r.user

\* How far the validation is: every fact of the scenario is seen or to be seen.
InStep ==
  /\ stage \in {"play", "validate", "done"}
  /\ scen \in Nat \ {0} /\ DOMAIN results = 1..(scen - 1)
  /\ results \in Seq({results[n] : n \in DOMAIN results})
  /\ stage = "play" =>
       /\ scen = 1 /\ cur = Idle /\ DOMAIN seen = {} /\ retrieved = {} /\ ~stirred
  /\ stage = "validate" =>
       /\ scen \in Scenarios /\ todo \subseteq ToCollect(scen)
       /\ ToCollect(scen) \subseteq todo \cup DOMAIN seen

\* The inductive invariant behind PassMeansSo and NoFalseLeak.
VInv ==
  /\ IInv /\ TrailTold /\ StoreKept
  /\ InStep /\ CurRight /\ SeenRight /\ AnswersKept

\* The trail of a run of its own number never names another scenario as the one
\* that replaced a fact, whatever happened to the run and in the engine: the
\* collision that _attribute_inactive forgives is one that it cannot see.
CollisionsUnseen ==
  inherited = <<>> /\ ~Legacy("synthetic_fact_ids") =>
    \A s \in Scenarios : \A x \in Ingested(s) : Attribution(x) # "cross_scenario"

\* The scenario that a step reaches a verdict on.
Judged == DOMAIN results' \ DOMAIN results

\* A sound engine is not accused: a scenario that went as scripted passes, with
\* whatever else went wrong in the run, an ingest that is stored in the middle
\* of its validation included, unless another scenario has overwritten it, one
\* of its texts reads like another of the user, a profile is not shown or a cached
\* one is, or the extractor made another story of the scenario or missed part of it.
NoFalseAlarm ==
  [][\A s \in Judged :
       /\ Sound /\ AsScripted(s) /\ Alone(s) /\ Distinct(s) /\ Fresh(s)
       /\ Understood(s) /\ Voiced(s)
       => ScenarioPassed(s)']_vars

\* A passed scenario means what it says, for a faulty engine and under the
\* pre-fix faults: what was replaced cannot be retrieved (except by a checker
\* that looks for its utterance), and what was not can, if /retrieve answered
\* and nothing was stored behind the validator's back.
PassMeansSo ==
  [][\A s \in Judged :
       ScenarioPassed(s)' /\ Answered(s) /\ ~stirred /\ inherited = <<>> =>
         \A x \in {y \in Ingested(s) \cap recorded : SpecOf(y).says # <<>>} :
           IF Superseded(x)
           THEN Legacy("compare_utterance_text") \/ Memory(x, 1) \notin vectors
           ELSE Distinct(s) => MemoryIds(x) \cap vectors # {}]_vars

\* An engine that keeps each user's memories to itself and its two databases
\* together is not reported to leak, whatever else went wrong in the run or is
\* wrong with the checker, as long as what was shown of the scenario's users
\* still holds: criterion H is about the store and not the script.
NoFalseLeak ==
  [][\A s \in Judged :
       /\ defect \notin {"leaks", "keeps_old"} /\ ~torn /\ StillShown(s)
       /\ ~Legacy("script_decides_ownership") /\ inherited = <<>>
       => results'[s]["user_isolation_ok"] # "failed"]_vars

\* The validator "no longer reports extractor silence" as a failure
\* (RELEASE_NOTES.md:93; "not a consistency failure", validator_service.py:1185):
\* a scenario that went as scripted, alone with its keys and rightly understood
\* but for an utterance that yielded nothing, passes.
SilenceForgiven ==
  \A s \in DOMAIN results :
    /\ Sound /\ AsScripted(s) /\ Alone(s) /\ Distinct(s) /\ Fresh(s) /\ Understood(s)
    => ScenarioPassed(s)

\* Every validation ends, whatever has failed and whatever is stored late.
Ends == <>(stage = "done")
=============================================================================
