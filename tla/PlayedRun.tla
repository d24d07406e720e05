----------------------------- MODULE PlayedRun -----------------------------
(***************************************************************************)
(* A run as the validator finds it: the scenarios that were generated, the *)
(* engine they were played against, and what the runner has kept of them.  *)
(*                                                                         *)
(* The engine is seen from outside, an ingest at a time: what its store    *)
(* goes through inside one is MemoryStore.  It is the system under test,   *)
(* and an instance lets it be faulty in the ways of Defects.               *)
(***************************************************************************)
EXTENDS Catalogue, FiniteSets

CONSTANTS
  Batches,    \* the sequences of scenario specs that are tried
  Users,
  NoUser,
  Defects,    \* subset of {"none", "keeps_old", "loses", "leaks"}
  TopK,       \* the retrieve_top_k of the validator
  MaxFaults   \* bound: how many things go wrong

\* What an extractor says: triples, each with a text of its own.
Worded(says) ==
  /\ says \in Seq({says[j] : j \in DOMAIN says})
  /\ \A j \in DOMAIN says : says[j].words # {} /\ IsFiniteSet(says[j].words)

\* Scenarios are numbered in their order, and so are the facts of each.
ASSUME BatchesAssumption ==
  \A b \in Batches :
    /\ Len(b) \in Nat \ {0} /\ DOMAIN b = 1..Len(b)
    /\ \A s \in DOMAIN b :
         /\ Len(b[s].facts) \in Nat /\ DOMAIN b[s].facts = 1..Len(b[s].facts)
         /\ \A i \in DOMAIN b[s].facts : Worded(b[s].facts[i].says)

VARIABLES
  batch,      \* the scenarios of the run
  owner,      \* owner[s]: the user of scenario s
  peer,       \* peer[s]: its second user
  defect,     \* what is wrong with the engine
  place,      \* place[s]: how many facts of s the runner is through with
  recorded,   \* facts with an entry in fact_records
  failed,     \* facts with an entry in errors
  checks,     \* cache_checks
  trail,      \* the run's audit events, in order
  pending,    \* ingests that the client has given up on and the engine has not
  rows,       \* memory_keys, as committed
  dirty,      \* keys deactivated in the engine's open transaction
  vectors,    \* the active LanceDB records
  cached,     \* user_profiles
  torn,       \* history: LanceDB has refused to follow a deactivation
  faults

chosen == <<batch, owner, peer, defect>>
kept == <<place, recorded, failed, checks, trail>>
engine == <<rows, dirty, vectors, cached, torn>>

Scenarios == DOMAIN batch
SpecOf(x) == batch[x[1]].facts[x[2]]
FactsOf(s) == {s} \X DOMAIN batch[s].facts
AllFacts == UNION {FactsOf(s) : s \in Scenarios}
IsRead(x) == SpecOf(x).kind = "read"

\* resolve_user_id: the metadata of a peer's fact names its user.
UserOf(x) == IF SpecOf(x).peer /\ peer[x[1]] # NoUser THEN peer[x[1]] ELSE owner[x[1]]

\* Ids: the n-th memory of an utterance, or the runner's own id for it.
Memory(x, n) == <<x[1], x[2], n>>
Synthetic(x) == <<x[1], x[2], 0>>
NoId == <<0, 0, 0>>
MemoryIds(x) == {Memory(x, n) : n \in DOMAIN SpecOf(x).says}
FactId(x) == IF SpecOf(x).says = <<>> THEN Synthetic(x) ELSE Memory(x, 1)
TextOf(id) == batch[id[1]].facts[id[2]].says[id[3]].words
UserOfMemory(id) == UserOf(<<id[1], id[2]>>)

\* Faulty variant: one list of played facts for all the scenarios.
PriorOfAnyScenario(x) ==
  LET before == recorded \ {x} IN
  IF SpecOf(x).conflicts /\ before # {}
  THEN CHOOSE y \in before :
         \A z \in before : z[1] < y[1] \/ (z[1] = y[1] /\ z[2] <= y[2])
  ELSE <<0, 0>>
\* _backfill_contradiction: the last fact of the scenario with a record.
Prior(x) ==
  LET before == {j \in 1..(x[2] - 1) : <<x[1], j>> \in recorded} IN
  IF SpecOf(x).conflicts /\ before # {}
  THEN <<x[1], CHOOSE j \in before : \A k \in before : k <= j>> ELSE <<0, 0>>
HasPrior(x) == Prior(x) # <<0, 0>>

-----------------------------------------------------------------------------
(* The engine's store after the first n triples of utterance x.            *)

KeyOf(x, j) == SpecOf(x).says[j].key
KeysUpTo(x, n) == {KeyOf(x, j) : j \in 1..n}
Latest(x, n, k) ==
  CHOOSE j \in 1..n : KeyOf(x, j) = k /\ \A i \in (j + 1)..n : KeyOf(x, i) # k

Same(r, x, keys) == r.user = UserOf(x) /\ r.key \in keys
Committed == {[r EXCEPT !.active = @ /\ <<r.user, r.key>> \notin dirty] : r \in rows}
RowOf(x, j) ==
  [user |-> UserOf(x), key |-> KeyOf(x, j), id |-> Memory(x, j), active |-> TRUE,
   dated |-> SpecOf(x).says[j].dated]

\* upsert_fact: an INSERT OR REPLACE under the natural key.
RowsAfter(x, n) ==
  IF n = 0 THEN rows
  ELSE {r \in Committed : ~Same(r, x, KeysUpTo(x, n))}
         \cup {RowOf(x, Latest(x, n, k)) : k \in KeysUpTo(x, n)}

\* deactivate_by_key acts on a row that is active, and add_vector_record adds.
Replaced(x, keys) ==
  {r.id : r \in {q \in Committed : q.active /\ Same(q, x, keys) /\ defect # "keeps_old"}}
Added(x, n) ==
  {Memory(x, j) : j \in {i \in 1..n : defect = "keeps_old" \/ i = Latest(x, n, KeyOf(x, i))}}
VectorsAfter(x, n) == (vectors \ Replaced(x, KeysUpTo(x, n))) \cup Added(x, n)

Stores(x) ==
  LET n == IF defect = "loses" THEN 0 ELSE Len(SpecOf(x).says) IN
  /\ rows' = RowsAfter(x, n) /\ vectors' = VectorsAfter(x, n)
  /\ dirty' = IF n = 0 THEN dirty ELSE {}
  /\ UNCHANGED <<cached, torn>>

\* What deactivate_by_key finds active as it comes to the n-th triple.
Found(x, n) ==
  IF KeyOf(x, n) \notin KeysUpTo(x, n - 1) THEN Replaced(x, {KeyOf(x, n)})
  ELSE IF defect = "keeps_old" THEN {} ELSE {Memory(x, Latest(x, n - 1, KeyOf(x, n)))}

\* The n-th triple fails: the embedding or the vector is not added, the INSERT
\* is rolled back, or the vector's deactivation raises with the row's pending.
Half(x, n) ==
  /\ rows' = RowsAfter(x, n) /\ vectors' = VectorsAfter(x, n) \ {Memory(x, n)}
  /\ dirty' = {} /\ UNCHANGED torn
Undone(x, n) ==
  /\ rows' = RowsAfter(x, n - 1) /\ dirty' = {}
  /\ vectors' = VectorsAfter(x, n - 1) \ Found(x, n) /\ UNCHANGED torn
Torn(x, n) ==
  /\ Found(x, n) # {} /\ torn' = TRUE
  /\ rows' = RowsAfter(x, n - 1) /\ vectors' = VectorsAfter(x, n - 1)
  /\ dirty' = (IF n = 1 THEN dirty ELSE {}) \cup {<<UserOf(x), KeyOf(x, n)>>}

StoresPart(x) ==
  /\ \/ UNCHANGED <<rows, dirty, vectors, torn>>
     \/ \E n \in DOMAIN SpecOf(x).says : Half(x, n) \/ Undone(x, n) \/ Torn(x, n)
  /\ UNCHANGED cached

-----------------------------------------------------------------------------
(* What the engine answers.                                                *)

Live(u) == {v \in vectors : defect = "leaks" \/ UserOfMemory(v) = u}

\* The TopK best of the live memories: those that are the query come first.
Ranked(u, query) ==
  LET exact == {v \in Live(u) : TextOf(v) = query} IN
  {got \in SUBSET Live(u) :
     /\ Cardinality(got) = TopK \/ got = Live(u)
     /\ Cardinality(got) <= TopK
     /\ exact \subseteq got \/ got \subseteq exact}

ListedNow(u) == {TextOf(v) : v \in Live(u)}
Unexpired(u) == {c \in cached : c.user = u}

\* POST /profile for u shows entries: the cached row, or one made and committed.
FromCache(u, entries) ==
  /\ [user |-> u, entries |-> entries] \in cached
  /\ UNCHANGED engine
Generated(u, entries) ==
  /\ entries = ListedNow(u)
  /\ cached' = (cached \ Unexpired(u)) \cup {[user |-> u, entries |-> entries]}
  /\ rows' = Committed /\ dirty' = {} /\ UNCHANGED <<vectors, torn>>
ShowsProfile(u, entries) == FromCache(u, entries) \/ Generated(u, entries)

-----------------------------------------------------------------------------
(* Playback.  The facts of a scenario come in their order, those of        *)
(* different ones in any; scenario s + 1 does not start before s.          *)

NextFact(s) == <<s, place[s] + 1>>
Due(s) == /\ place[s] < Len(batch[s].facts)
          /\ s > 1 => place[s - 1] > 0
Passes(s) == place' = [place EXCEPT ![s] = @ + 1]
MayFail == faults < MaxFaults
Fails == MayFail /\ faults' = faults + 1

\* One audit event: what it is about, and the fact it supersedes.
Event(x) ==
  [fact |-> FactId(x), user |-> UserOf(x),
   old |-> IF HasPrior(x) /\ UserOf(Prior(x)) = UserOf(x) THEN FactId(Prior(x)) ELSE NoId]

\* _play_ingest with an answer; the audit write may fail, which is swallowed.
IngestAnswered(s) ==
  LET x == NextFact(s) IN
  /\ Due(s) /\ ~IsRead(x) /\ Passes(s) /\ Stores(x)
  /\ recorded' = recorded \cup {x}
  /\ \/ trail' = Append(trail, Event(x)) /\ UNCHANGED faults
     \/ UNCHANGED trail /\ Fails
  /\ UNCHANGED <<chosen, failed, checks, pending>>

\* Faulty variant: the record is made before the answer is looked at.
FailsWithARecord(s) ==
  LET x == NextFact(s) IN
  /\ Due(s) /\ ~IsRead(x) /\ Passes(s) /\ Fails /\ StoresPart(x)
  /\ failed' = failed \cup {x} /\ recorded' = recorded \cup {x}
  /\ UNCHANGED <<chosen, checks, trail, pending>>

\* _record_error: the engine fails, early or with the ingest half done.
IngestFails(s) ==
  LET x == NextFact(s) IN
  /\ Due(s) /\ ~IsRead(x) /\ Passes(s) /\ Fails /\ StoresPart(x)
  /\ failed' = failed \cup {x}
  /\ UNCHANGED <<chosen, recorded, checks, trail, pending>>

\* The client gives up; the engine has not, and does not know that it did.
IngestTimesOut(s) ==
  LET x == NextFact(s) IN
  /\ Due(s) /\ ~IsRead(x) /\ Passes(s) /\ Fails
  /\ failed' = failed \cup {x} /\ pending' = pending \cup {x}
  /\ UNCHANGED <<chosen, recorded, checks, trail, engine>>

\* Any time later, the simulation's validation included.
StoredLate(x) ==
  /\ x \in pending /\ pending' = pending \ {x} /\ Stores(x)
  /\ UNCHANGED <<chosen, kept, faults>>

\* A profile is what the row holds or what can be listed.
Profiles(u) == {c.entries : c \in Unexpired(u)} \cup {ListedNow(u)}

\* _play_profile_read: told from the latency, hit or miss or neither.
ReadAnswered(s) ==
  LET x == NextFact(s) IN
  /\ Due(s) /\ IsRead(x) /\ Passes(s)
  /\ \E entries \in Profiles(UserOf(x)) : ShowsProfile(UserOf(x), entries)
  /\ \E observed \in {"hit", "miss", "none"} :
       checks' = checks \cup {[read |-> x, observed |-> observed]}
  /\ UNCHANGED <<chosen, recorded, failed, trail, pending, faults>>

ReadFails(s) ==
  LET x == NextFact(s) IN
  /\ Due(s) /\ IsRead(x) /\ Passes(s) /\ Fails
  /\ failed' = failed \cup {x}
  /\ UNCHANGED <<chosen, recorded, checks, trail, pending, engine>>

Playback ==
  \E s \in Scenarios :
    \/ IngestAnswered(s) \/ IngestFails(s) \/ IngestTimesOut(s)
    \/ ReadAnswered(s) \/ ReadFails(s)

AllPlayed == \A s \in Scenarios : ~Due(s)
=============================================================================
