------------------------------ MODULE Evidence ------------------------------
(***************************************************************************)
(* What the validator makes of a run: its references to the facts that     *)
(* were played, the four methods that look at one of them, and Method 4's  *)
(* comparison of what they say (validator_service.py).                     *)
(***************************************************************************)
EXTENDS PlayedRun

CONSTANTS
  Hit, Of,    \* two texts match when they share Hit/Of of the shorter one
  Strict      \* an unavailable method is a disagreement

VARIABLES
  legacy,     \* the pre-fix faults that are switched on (legacy_checker.py)
  inherited,  \* events of an earlier run under the same run number
  retrieved,  \* _retrieval_cache
  profiled,   \* _profile_cache
  owned,      \* _owned_texts_cache
  seen        \* the methods' states of the scenario's facts

evidence == <<retrieved, profiled, owned, seen>>

-----------------------------------------------------------------------------
(* Texts.                                                                  *)

Shared(a, b) == Cardinality(a \cap b)
Shorter(a, b) == IF Cardinality(a) < Cardinality(b) THEN Cardinality(a) ELSE Cardinality(b)
TextsMatch(a, b) == a # {} /\ b # {} /\ Of * Shared(a, b) >= Hit * Shorter(a, b)

\* text_overlap(t, a) <= text_overlap(t, b)
NoBetter(t, a, b) == Shared(t, a) * Shorter(t, b) <= Shared(t, b) * Shorter(t, a)

-----------------------------------------------------------------------------
(* _build_refs: a fact is played unless it has an error.  One with neither *)
(* record nor error, past the run's end, is taken for played.              *)

Legacy(fault) == fault \in legacy
Utterance(x) == SpecOf(x).text
EngineIds(x) == x \in recorded /\ ~Legacy("synthetic_fact_ids")
RefId(x) == IF EngineIds(x) THEN FactId(x) ELSE Synthetic(x)
RefMemories(x) == IF EngineIds(x) THEN MemoryIds(x) ELSE {}
StoredTexts(x) == {TextOf(v) : v \in RefMemories(x)}
OldId(x) == IF x \in recorded /\ HasPrior(x) THEN FactId(Prior(x)) ELSE NoId

Ingested(s) == {x \in FactsOf(s) : ~IsRead(x) /\ x \notin failed}
UsersOf(s) == {UserOf(x) : x \in FactsOf(s)}

\* _match_texts and its first candidate.
MatchTexts(x) ==
  IF Legacy("compare_utterance_text") THEN {Utterance(x)}
  ELSE StoredTexts(x) \cup {Utterance(x)}
Query(x) ==
  IF Legacy("compare_utterance_text") \/ StoredTexts(x) = {} THEN Utterance(x)
  ELSE TextOf(Memory(x, 1))

\* The extractor ran and found nothing.
ExtractedNothing(x) ==
  EngineIds(x) /\ SpecOf(x).says = <<>> /\ ~Legacy("silence_is_failure")

\* _superseded_within_scenario: who replaced x, the last one to say so.
After(x) == {y \in Ingested(x[1]) : x[2] < y[2] /\ OldId(y) # NoId /\ OldId(y) = RefId(x)}
\* Faulty variant: a peer's contradiction counts.
ReplacersOfAnyUser(x) == After(x)
Replacers(x) == {y \in After(x) : UserOf(y) = UserOf(x)}
Superseded(x) == Replacers(x) # {}
Replacer(x) == CHOOSE y \in Replacers(x) : \A z \in Replacers(x) : z[2] <= y[2]

-----------------------------------------------------------------------------
(* The methods' states.                                                    *)

Says(exists, active, user) ==
  [available |-> TRUE, exists |-> exists, active |-> active, user |-> user]
Unavailable == [available |-> FALSE, exists |-> FALSE, active |-> FALSE, user |-> NoUser]

\* Method 1: the row of the fact's id, or of its user's the best match for the
\* utterance; of equally good ones the table's order decides.
RowsOfUser(u) == {r \in rows : r.user = u}
RowText(r) == TextOf(r.id)
RowById(x) == {r \in RowsOfUser(UserOf(x)) : r.id = RefId(x)}
BestRows(x) ==
  LET own == RowsOfUser(UserOf(x)) IN
  {r \in own : /\ TextsMatch(Utterance(x), RowText(r))
               /\ \A q \in own : NoBetter(Utterance(x), RowText(q), RowText(r))}
RowsFor(x) == IF RowById(x) # {} THEN RowById(x) ELSE BestRows(x)
DbState(r) ==
  [available |-> TRUE, exists |-> TRUE, active |-> r.active, user |-> r.user, dated |-> r.dated]
NoDbState ==
  [available |-> FALSE, exists |-> FALSE, active |-> FALSE, user |-> NoUser, dated |-> FALSE]
DbStates(x) == IF RowsFor(x) = {} THEN {NoDbState} ELSE {DbState(r) : r \in RowsFor(x)}

\* Method 2: found among the memories by its id or by its text.
FoundById(x, memories) == memories \cap RefMemories(x) # {}
FoundByText(x, memories) ==
  \E v \in memories, t \in MatchTexts(x) : TextsMatch(t, TextOf(v))
ApiState(x, memories) ==
  LET found == FoundById(x, memories) \/ FoundByText(x, memories) IN
  Says(found, found, UserOf(x))

\* Method 3: the fact's own events, and the later ones that supersede it.
Events == inherited \o trail
EventsOf(id) == {n \in DOMAIN Events : Events[n].fact = id}
Scoped(id, u) == {n \in EventsOf(id) : Events[n].user = u}
ForFact(id, u) == IF Scoped(id, u) # {} THEN Scoped(id, u) ELSE EventsOf(id)
Supersedes(id) == {n \in DOMAIN Events : Events[n].old = id /\ Events[n].fact # id}
LastOf(ns) == CHOOSE n \in ns : \A k \in ns : k <= n
FirstOf(ns) == CHOOSE n \in ns : \A k \in ns : n <= k
Superseding(x) ==
  LET mine == ForFact(RefId(x), UserOf(x)) IN
  {n \in Supersedes(RefId(x)) : mine # {} /\ n >= LastOf(mine)}
AuditState(x) ==
  LET mine == ForFact(RefId(x), UserOf(x)) IN
  IF mine = {} THEN Unavailable
  ELSE Says(TRUE, Superseding(x) = {}, Events[LastOf(mine)].user)

\* Method 4's source: a profile that does not show the fact says nothing.
ProfileState(x, answer) ==
  IF \E e \in answer.entries : TextsMatch(Utterance(x), e)
  THEN Says(TRUE, TRUE, UserOf(x)) ELSE Unavailable

-----------------------------------------------------------------------------
(* _compare.                                                               *)

Methods == {"db", "api", "audit", "profile"}
Available(states) == {m \in Methods : states[m].available}
Verdicts(states) == {states[m].active : m \in Available(states)}
Owners(states) == {states[m].user : m \in Available(states)}
\* Faulty variant: only the owner is compared.
AgreedOnOwner(states) == Cardinality(Owners(states)) <= 1
Agreed(states) ==
  /\ Cardinality(Verdicts(states)) <= 1 /\ Cardinality(Owners(states)) <= 1
  /\ Strict => Available(states) = Methods

\* _verdict: what all that speak say; undecided if they differ or none does.
Verdict(x) ==
  IF x \notin DOMAIN seen THEN "undecided"
  ELSE CASE Verdicts(seen[x]) = {TRUE} -> "active"
         [] Verdicts(seen[x]) = {FALSE} -> "inactive"
         [] OTHER -> "undecided"

\* _attribute_inactive: who made the fact inactive.
Attribution(x) ==
  IF Superseded(x) THEN "same_scenario"
  ELSE IF Superseding(x) = {} THEN "unattributed"
  ELSE IF Events[FirstOf(Superseding(x))].fact \in {RefId(y) : y \in Ingested(x[1])}
       THEN "same_scenario" ELSE "cross_scenario"
=============================================================================
