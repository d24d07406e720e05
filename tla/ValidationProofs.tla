-------------------------- MODULE ValidationProofs --------------------------
(* What the validator may rely on in the records of a run, for any          *)
(* scenarios, users, faults and leftovers.                                  *)
EXTENDS Validation, SequenceTheorems, FiniteSetTheorems, WellFoundedInduction, TLAPS

-----------------------------------------------------------------------------
(* Numbers.                                                                *)

LEMMA HasLeast ==
  ASSUME NEW S, S \subseteq Nat, S # {}
  PROVE  \E m \in S : \A n \in S : m <= n
<1>1. PICK m \in S : \A n \in S : <<n, m>> \notin OpToRel(<, Nat)
  BY NatLessThanWellFounded, WFMin, Zenon
<1>2. \A n \in S : ~(n < m)
  BY <1>1 DEF OpToRel
<1> QED BY <1>2

\* A set of numbers below a bound has a greatest one.
LEMMA HasGreatest ==
  ASSUME NEW k \in Nat, NEW S, S \subseteq 1..k, S # {}
  PROVE  \E m \in S : \A n \in S : n <= m
<1> DEFINE T == {k - n : n \in S}
<1>1. T \subseteq Nat /\ T # {}
  <2>1. \A n \in S : k - n \in Nat
    OBVIOUS
  <2> QED BY <2>1
<1>2. PICK t \in T : \A u \in T : t <= u
  BY <1>1, HasLeast
<1>3. PICK m \in S : t = k - m
  OBVIOUS
<1>4. \A n \in S : k - m <= k - n
  BY <1>2, <1>3
<1> QED BY <1>4

-----------------------------------------------------------------------------
(* Facts and their ids.                                                    *)

LEMMA FactsAre ==
  ASSUME batch \in Batches
  PROVE  /\ Scenarios \subseteq Nat \ {0}
         /\ AllFacts = {x \in Scenarios \X (Nat \ {0}) : x[2] <= Len(batch[x[1]].facts)}
<1>1. /\ Len(batch) \in Nat /\ Scenarios = 1..Len(batch)
      /\ \A s \in Scenarios :
           Len(batch[s].facts) \in Nat /\ DOMAIN batch[s].facts = 1..Len(batch[s].facts)
  BY BatchesAssumption DEF Scenarios
<1>2. Scenarios \subseteq Nat \ {0}
  BY <1>1
<1>3. ASSUME NEW x \in AllFacts
      PROVE  x \in Scenarios \X (Nat \ {0}) /\ x[2] <= Len(batch[x[1]].facts)
  <2>1. PICK s \in Scenarios : x \in {s} \X DOMAIN batch[s].facts
    BY DEF AllFacts, FactsOf
  <2> QED BY <1>1, <2>1
<1>4. ASSUME NEW x \in Scenarios \X (Nat \ {0}), x[2] <= Len(batch[x[1]].facts)
      PROVE  x \in AllFacts
  <2>1. x[2] \in DOMAIN batch[x[1]].facts
    BY <1>1, <1>4
  <2>2. x \in {x[1]} \X DOMAIN batch[x[1]].facts
    BY <2>1
  <2> QED BY <2>2 DEF AllFacts, FactsOf
<1> QED BY <1>2, <1>3, <1>4

\* An id tells its fact.
LEMMA IdsDiffer ==
  ASSUME batch \in Batches, NEW x \in AllFacts, NEW y \in AllFacts
  PROVE  /\ FactId(x) = FactId(y) => x = y
         /\ FactId(x) = Synthetic(y) => x = y
         /\ Synthetic(x) = Synthetic(y) => x = y
         /\ FactId(x) # NoId /\ Synthetic(x) # NoId
<1>1. x \in (Nat \ {0}) \X (Nat \ {0}) /\ y \in (Nat \ {0}) \X (Nat \ {0})
  BY FactsAre
<1> DEFINE same == x[1] = y[1] /\ x[2] = y[2]
<1>2. same => x = y
  BY <1>1
<1>3. /\ FactId(x)[1] = x[1] /\ FactId(x)[2] = x[2]
      /\ FactId(y)[1] = y[1] /\ FactId(y)[2] = y[2]
      /\ Synthetic(x)[1] = x[1] /\ Synthetic(x)[2] = x[2]
      /\ Synthetic(y)[1] = y[1] /\ Synthetic(y)[2] = y[2]
  BY DEF FactId, Synthetic, Memory
<1>4. NoId[1] = 0
  BY DEF NoId
<1> QED BY <1>1, <1>2, <1>3, <1>4

\* Ids are the batch's.
LEMMA IdsStay ==
  ASSUME batch' = batch, NEW x
  PROVE  FactId(x)' = FactId(x) /\ IsRead(x)' = IsRead(x)
  BY DEF FactId, IsRead, SpecOf, Memory, Synthetic

\* The fact that a contradiction resolves against has a record.
LEMMA PriorRecorded ==
  ASSUME NEW x \in AllFacts, batch \in Batches, HasPrior(x)
  PROVE  Prior(x) \in recorded /\ Prior(x)[1] = x[1]
<1> DEFINE before == {j \in 1..(x[2] - 1) : <<x[1], j>> \in recorded}
<1>1. before # {} /\ Prior(x) = <<x[1], CHOOSE j \in before : \A k \in before : k <= j>>
  BY DEF HasPrior, Prior
<1>2. x[2] - 1 \in Nat
  BY FactsAre
<1>3. \E j \in before : \A k \in before : k <= j
  BY <1>1, <1>2, HasGreatest
<1> DEFINE last == CHOOSE j \in before : \A k \in before : k <= j
<1>4. last \in before
  BY <1>3
<1>5. <<x[1], last>> \in recorded
  BY <1>4
<1> QED BY <1>1, <1>5

-----------------------------------------------------------------------------
(* The invariant holds at the start, and through what does not play.       *)

LEMMA Starts == Init => IInv
<1> SUFFICES ASSUME Init PROVE IInv
  OBVIOUS
<1>1. batch \in Batches /\ place \in [Scenarios -> Nat] /\ trail = <<>>
  BY DEF Init
<1>2. {x \in AllFacts : x[2] <= place[x[1]]} = {}
  BY <1>1, FactsAre DEF Init
<1>3. Accounted
  BY <1>2 DEF Init, Accounted
<1>4. EventsOwn
  BY <1>1 DEF EventsOwn
<1> QED BY <1>1, <1>3, <1>4 DEF IInv

LEMMA Stays ==
  ASSUME IInv, batch' = batch, UNCHANGED kept, pending' \subseteq pending
  PROVE  IInv'
<1>1. UNCHANGED <<place, recorded, failed, checks, trail, Scenarios, AllFacts>>
  BY DEF kept, Scenarios, AllFacts, FactsOf
<1>2. Accounted'
  BY <1>1, IdsStay DEF IInv, Accounted
<1>3. EventsOwn'
  BY <1>1, IdsStay DEF IInv, EventsOwn
<1> QED BY <1>1, <1>2, <1>3 DEF IInv

-----------------------------------------------------------------------------
(* A fact that is played is a new one, and the next of its scenario.       *)

LEMMA Next1 ==
  ASSUME IInv, batch' = batch, NEW s \in Scenarios, Due(s), Passes(s),
         NEW x, x = NextFact(s)
  PROVE  /\ x \in AllFacts /\ UNCHANGED <<Scenarios, AllFacts>>
         /\ x \notin recorded \cup failed \cup {c.read : c \in checks}
         /\ place' \in [Scenarios -> Nat]
         /\ {y \in AllFacts : y[2] <= place'[y[1]]}
              = {y \in AllFacts : y[2] <= place[y[1]]} \cup {x}
<1>1. batch \in Batches /\ place \in [Scenarios -> Nat]
  BY DEF IInv
<1>2. x = <<s, place[s] + 1>> /\ place[s] < Len(batch[s].facts)
  BY DEF NextFact, Due
<1>3. x \in AllFacts
  BY <1>1, <1>2, FactsAre
<1>4. UNCHANGED <<Scenarios, AllFacts>>
  BY DEF Scenarios, AllFacts, FactsOf
<1>5. place' = [place EXCEPT ![s] = @ + 1] /\ place' \in [Scenarios -> Nat]
  BY <1>1 DEF Passes
<1>6. x \notin {y \in AllFacts : y[2] <= place[y[1]]}
  BY <1>1, <1>2
<1>7. {y \in AllFacts : y[2] <= place'[y[1]]}
        = {y \in AllFacts : y[2] <= place[y[1]]} \cup {x}
  <2>1. ASSUME NEW y \in AllFacts
        PROVE  y[2] <= place'[y[1]] <=> y[2] <= place[y[1]] \/ y = x
    <3>1. y \in Scenarios \X Nat
      BY <1>1, FactsAre
    <3>2. CASE y[1] # s
      BY <1>1, <1>2, <1>5, <3>1, <3>2
    <3>3. CASE y[1] = s
      BY <1>1, <1>2, <1>5, <3>1, <3>3
    <3> QED BY <3>2, <3>3
  <2> QED BY <1>3, <2>1
<1> QED BY <1>3, <1>4, <1>5, <1>6, <1>7 DEF IInv, Accounted

\* An event that is added is about a fact whose record is added with it.
LEMMA Logged ==
  ASSUME IInv, batch' = batch, NEW x \in AllFacts,
         recorded' = recorded \cup {x}, trail' = Append(trail, Event(x))
  PROVE  trail' \in Seq({trail'[n] : n \in DOMAIN trail'}) /\ EventsOwn'
<1> DEFINE E == {trail[n] : n \in DOMAIN trail} \cup {Event(x)}
<1>1. trail \in Seq(E) /\ Event(x) \in E
  <2>1. trail \in Seq({trail[n] : n \in DOMAIN trail})
    BY DEF IInv
  <2> QED BY <2>1
<1> HIDE DEF E
<1>2. /\ trail' \in Seq(E) /\ Len(trail') = Len(trail) + 1
      /\ \A n \in 1..Len(trail) : trail'[n] = trail[n]
      /\ trail'[Len(trail) + 1] = Event(x)
  BY <1>1, AppendProperties
<1>3. DOMAIN trail = 1..Len(trail) /\ Len(trail) \in Nat /\ DOMAIN trail' = 1..Len(trail')
  BY <1>1, <1>2
<1>4. trail' \in Seq({trail'[n] : n \in DOMAIN trail'})
  BY <1>2, <1>3
<1>5. Event(x).fact = FactId(x)
  BY DEF Event
<1>6. Event(x).old # NoId =>
        \E y \in recorded : y[1] = x[1] /\ Event(x).old = FactId(y)
  BY PriorRecorded DEF Event, IInv
<1>7. ASSUME NEW n \in DOMAIN trail'
      PROVE  \E z \in recorded' :
               /\ trail'[n].fact = FactId(z)
               /\ trail'[n].old # NoId =>
                    \E y \in recorded' : y[1] = z[1] /\ trail'[n].old = FactId(y)
  <2>1. CASE n = Len(trail) + 1
    BY <1>2, <1>5, <1>6, <2>1
  <2>2. CASE n \in DOMAIN trail
    BY <1>2, <1>3, <2>2 DEF IInv, EventsOwn
  <2> QED BY <1>2, <1>3, <2>1, <2>2
<1>8. EventsOwn'
  BY <1>7, IdsStay DEF EventsOwn, NoId
<1> QED BY <1>4, <1>8

-----------------------------------------------------------------------------
(* Every way to play a fact.                                               *)

LEMMA Plays ==
  ASSUME IInv, NEW s \in Scenarios,
         \/ IngestAnswered(s) \/ IngestFails(s) \/ IngestTimesOut(s)
         \/ ReadAnswered(s) \/ ReadFails(s)
  PROVE  IInv'
<1> DEFINE x == NextFact(s)
           reads == {c.read : c \in checks}
<1>1. /\ Due(s) /\ Passes(s) /\ batch' = batch
  BY DEF IngestAnswered, IngestFails, IngestTimesOut, ReadAnswered, ReadFails, chosen
<1>2. /\ x \in AllFacts /\ UNCHANGED <<Scenarios, AllFacts>>
      /\ x \notin recorded \cup failed \cup reads
      /\ place' \in [Scenarios -> Nat]
      /\ {y \in AllFacts : y[2] <= place'[y[1]]}
           = {y \in AllFacts : y[2] <= place[y[1]]} \cup {x}
  BY <1>1, Next1
<1>3. /\ batch' \in Batches /\ place' \in [Scenarios' -> Nat]
  BY <1>1, <1>2 DEF IInv
<1>4. ASSUME UNCHANGED trail, recorded \subseteq recorded'
      PROVE  trail' \in Seq({trail'[n] : n \in DOMAIN trail'}) /\ EventsOwn'
  <2>1. trail' \in Seq({trail'[n] : n \in DOMAIN trail'})
    BY <1>4 DEF IInv
  <2>2. EventsOwn'
    BY <1>1, <1>4, IdsStay DEF IInv, EventsOwn, NoId
  <2> QED BY <2>1, <2>2
<1>5. {y \in AllFacts' : y[2] <= place'[y[1]]}
        = recorded \cup failed \cup reads \cup {x}
  BY <1>2 DEF IInv, Accounted
<1> HIDE DEF x, reads
<1>6. CASE IngestAnswered(s)
  <2>1. /\ recorded' = recorded \cup {x} /\ ~IsRead(x)
        /\ UNCHANGED <<failed, checks, pending>>
        /\ trail' = trail \/ trail' = Append(trail, Event(x))
    BY <1>6 DEF IngestAnswered, x
  <2>2. trail' \in Seq({trail'[n] : n \in DOMAIN trail'}) /\ EventsOwn'
    <3>1. CASE trail' = trail
      BY <1>4, <2>1, <3>1
    <3>2. CASE trail' = Append(trail, Event(x))
      BY <1>1, <1>2, <2>1, <3>2, Logged
    <3> QED BY <2>1, <3>1, <3>2
  <2>3. Accounted'
    <3>1. recorded' \cup failed' \cup {c.read : c \in checks'}
            = {y \in AllFacts' : y[2] <= place'[y[1]]}
      BY <1>5, <2>1 DEF reads
    <3>2. /\ recorded' \cap failed' = {} /\ pending' \subseteq failed'
          /\ \A c \in checks' : IsRead(c.read)' /\ c.read \notin failed'
          /\ \A y \in recorded' \cup pending' : ~IsRead(y)'
      BY <1>1, <1>2, <2>1, IdsStay DEF IInv, Accounted
    <3>3. \A n \in DOMAIN trail' : \E y \in recorded' : trail'[n].fact = FactId(y)'
      BY <2>2 DEF EventsOwn
    <3> QED BY <3>1, <3>2, <3>3 DEF Accounted
  <2> QED BY <1>3, <2>2, <2>3 DEF IInv
<1>7. CASE IngestFails(s) \/ IngestTimesOut(s) \/ ReadFails(s)
  <2>1. /\ failed' = failed \cup {x} /\ UNCHANGED <<recorded, checks, trail>>
        /\ pending' = pending \/ (pending' = pending \cup {x} /\ ~IsRead(x))
    BY <1>7 DEF IngestFails, IngestTimesOut, ReadFails, x
  <2>2. trail' \in Seq({trail'[n] : n \in DOMAIN trail'}) /\ EventsOwn'
    BY <1>4, <2>1
  <2>3. Accounted'
    <3>1. recorded' \cup failed' \cup {c.read : c \in checks'}
            = {y \in AllFacts' : y[2] <= place'[y[1]]}
      BY <1>5, <2>1 DEF reads
    <3>2. x \notin recorded /\ \A c \in checks : c.read # x
      BY <1>2 DEF reads
    <3>3. /\ recorded' \cap failed' = {} /\ pending' \subseteq failed'
          /\ \A c \in checks' : IsRead(c.read)' /\ c.read \notin failed'
          /\ \A y \in recorded' \cup pending' : ~IsRead(y)'
      BY <1>1, <2>1, <3>2, IdsStay DEF IInv, Accounted
    <3>4. \A n \in DOMAIN trail' : \E y \in recorded' : trail'[n].fact = FactId(y)'
      BY <2>2 DEF EventsOwn
    <3> QED BY <3>1, <3>3, <3>4 DEF Accounted
  <2> QED BY <1>3, <2>2, <2>3 DEF IInv
<1>8. CASE ReadAnswered(s)
  <2>1. IsRead(x) /\ UNCHANGED <<recorded, failed, trail, pending>>
    BY <1>8 DEF ReadAnswered, x
  <2>2. PICK o \in {"hit", "miss", "none"} :
          checks' = checks \cup {[read |-> x, observed |-> o]}
    BY <1>8 DEF ReadAnswered, x
  <2>3. trail' \in Seq({trail'[n] : n \in DOMAIN trail'}) /\ EventsOwn'
    BY <1>4, <2>1
  <2>4. Accounted'
    <3>1. {c.read : c \in checks'} = reads \cup {x}
      <4> DEFINE c0 == [read |-> x, observed |-> o]
      <4>1. c0.read = x
        OBVIOUS
      <4> HIDE DEF c0
      <4>2. checks' = checks \cup {c0}
        BY <2>2 DEF c0
      <4> QED BY <4>1, <4>2 DEF reads
    <3>2. recorded' \cup failed' \cup {c.read : c \in checks'}
            = {y \in AllFacts' : y[2] <= place'[y[1]]}
      BY <1>5, <2>1, <3>1
    <3>3. \A c \in checks' : IsRead(c.read)' /\ c.read \notin failed'
      BY <1>1, <1>2, <2>1, <2>2, IdsStay DEF IInv, Accounted
    <3>4. /\ recorded' \cap failed' = {} /\ pending' \subseteq failed'
          /\ \A y \in recorded' \cup pending' : ~IsRead(y)'
      BY <1>1, <2>1, IdsStay DEF IInv, Accounted
    <3>5. \A n \in DOMAIN trail' : \E y \in recorded' : trail'[n].fact = FactId(y)'
      BY <2>3 DEF EventsOwn
    <3> QED BY <3>2, <3>3, <3>4, <3>5 DEF Accounted
  <2> QED BY <1>3, <2>3, <2>4 DEF IInv
<1> QED BY <1>6, <1>7, <1>8

-----------------------------------------------------------------------------
(* The invariant, step by step.                                            *)

LEMMA Steps == IInv /\ [Next]_vars => IInv'
<1> SUFFICES ASSUME IInv, [Next]_vars PROVE IInv'
  OBVIOUS
<1>1. CASE Play
  <2>1. PICK s \in Scenarios :
          \/ IngestAnswered(s) \/ IngestFails(s) \/ IngestTimesOut(s)
          \/ ReadAnswered(s) \/ ReadFails(s)
    BY <1>1 DEF Play, Playback
  <2> QED BY <2>1, Plays
<1>2. CASE StoreLate
  <2>1. batch' = batch /\ UNCHANGED kept /\ pending' \subseteq pending
    BY <1>2 DEF StoreLate, StoredLate, chosen
  <2> QED BY <2>1, Stays
<1>3. CASE Begin
  <2>1. batch' = batch /\ UNCHANGED <<kept, pending>>
    BY <1>3 DEF Begin, setting, chosen
  <2> QED BY <2>1, Stays
<1>4. CASE Validate
  <2>1. batch' = batch /\ UNCHANGED <<kept, pending>>
    <3>1. CASE ReadRow \/ RetrieveAgain \/ RetrieveAnswered \/ RetrieveFails
      BY <3>1 DEF ReadRow, RetrieveAgain, RetrieveAnswered, RetrieveFails, Untouched,
           setting, chosen
    <3>2. CASE ReadProfile \/ FetchProfile
      BY <3>2 DEF ReadProfile, FetchProfile, Untouched, setting, chosen
    <3>3. CASE RunChecks
      BY <3>3 DEF RunChecks, setting, chosen
    <3> QED BY <1>4, <3>1, <3>2, <3>3 DEF Validate
  <2> QED BY <2>1, Stays
<1>5. CASE UNCHANGED vars
  <2>1. batch' = batch /\ UNCHANGED <<kept, pending>>
    BY <1>5 DEF vars, setting, chosen
  <2> QED BY <2>1, Stays
<1> QED BY <1>1, <1>2, <1>3, <1>4, <1>5 DEF Next

LEMMA RecordsRight == Spec => []IInv
<1>1. Init => IInv
  BY Starts
<1>2. IInv /\ [Next]_vars => IInv'
  BY Steps
<1> QED BY <1>1, <1>2, PTL DEF Spec

\* What the runner is through with is accounted for exactly once, however its
\* calls fail (_play_ingest, _play_profile_read, _record_error).
THEOREM AllAccounted == Spec => []Accounted
<1>1. IInv => Accounted
  BY DEF IInv
<1> QED BY <1>1, RecordsRight, PTL

-----------------------------------------------------------------------------
(* Collisions cannot be seen.                                              *)

\* What supersedes a fact in a run's own trail is a fact of its scenario.
LEMMA SupersededWithin ==
  ASSUME IInv, inherited = <<>>, ~Legacy("synthetic_fact_ids"),
         NEW s \in Scenarios, NEW x \in Ingested(s), NEW n \in Supersedes(RefId(x))
  PROVE  Events[n].fact \in {RefId(y) : y \in Ingested(x[1])}
<1>1. batch \in Batches /\ x \in AllFacts
  <2>1. FactsOf(s) \subseteq AllFacts
    BY DEF AllFacts
  <2> QED BY <2>1 DEF IInv, Ingested
<1>2. Events = trail
  <2>1. trail \in Seq({trail[m] : m \in DOMAIN trail})
    BY DEF IInv
  <2> QED BY <2>1, ConcatEmptySeq DEF Events
<1>3. n \in DOMAIN trail /\ trail[n].old = RefId(x)
  BY <1>2 DEF Supersedes
<1>4. RefId(x) = FactId(x) \/ RefId(x) = Synthetic(x)
  BY DEF RefId
<1>5. RefId(x) # NoId
  BY <1>1, <1>4, IdsDiffer
<1>6. PICK z \in recorded, y \in recorded :
        trail[n].fact = FactId(z) /\ y[1] = z[1] /\ trail[n].old = FactId(y)
  BY <1>3, <1>5 DEF IInv, EventsOwn
<1>7. recorded \subseteq AllFacts
  BY DEF IInv, Accounted
<1>8. y = x
  BY <1>1, <1>3, <1>4, <1>6, <1>7, IdsDiffer
<1>9. z \in Ingested(x[1])
  <2>1. z \in FactsOf(z[1])
    <3>1. PICK t \in Scenarios : z \in {t} \X DOMAIN batch[t].facts
      BY <1>6, <1>7 DEF AllFacts, FactsOf
    <3> QED BY <3>1 DEF FactsOf
  <2>2. ~IsRead(z) /\ z \notin failed
    BY <1>6 DEF IInv, Accounted
  <2> QED BY <1>6, <1>8, <2>1, <2>2 DEF Ingested
<1>10. RefId(z) = FactId(z)
  BY <1>6 DEF RefId, EngineIds
<1> QED BY <1>2, <1>6, <1>9, <1>10

\* The first of a set of events is one of them.
LEMMA FirstIsIn ==
  ASSUME NEW S, S \subseteq Nat, S # {}
  PROVE  FirstOf(S) \in S
<1>1. \E m \in S : \A n \in S : m <= n
  BY HasLeast
<1> QED BY <1>1 DEF FirstOf

\* A run's own trail never lets _attribute_inactive blame another scenario: no
\* collision is forgiven, for any scenarios, users, faults and engines.
THEOREM CollisionsNeverSeen == Spec => []CollisionsUnseen
<1>1. IInv => CollisionsUnseen
  <2> SUFFICES ASSUME IInv, inherited = <<>>, ~Legacy("synthetic_fact_ids"),
                      NEW s \in Scenarios, NEW x \in Ingested(s),
                      Superseding(x) # {}
               PROVE  Events[FirstOf(Superseding(x))].fact
                        \in {RefId(y) : y \in Ingested(x[1])}
    BY DEF CollisionsUnseen, Attribution
  <2>1. Superseding(x) \subseteq Supersedes(RefId(x))
    BY DEF Superseding
  <2>2. Supersedes(RefId(x)) \subseteq Nat
    <3>1. trail \in Seq({trail[m] : m \in DOMAIN trail})
      BY DEF IInv
    <3>2. Events = trail
      BY <3>1, ConcatEmptySeq DEF Events
    <3> QED BY <3>1, <3>2 DEF Supersedes
  <2>3. FirstOf(Superseding(x)) \in Supersedes(RefId(x))
    BY <2>1, <2>2, FirstIsIn
  <2> QED BY <2>3, SupersededWithin
<1> QED BY <1>1, RecordsRight, PTL

-----------------------------------------------------------------------------
(* Facts, their triples and their texts.                                   *)

LEMMA FactShape ==
  ASSUME batch \in Batches, NEW x \in AllFacts
  PROVE  /\ x = <<x[1], x[2]>> /\ x[1] \in Scenarios /\ x \in FactsOf(x[1])
         /\ x[1] \in Nat /\ x[2] \in Nat \ {0}
         /\ Len(SpecOf(x).says) \in Nat /\ DOMAIN SpecOf(x).says = 1..Len(SpecOf(x).says)
         /\ SpecOf(x).says # <<>> => 1 \in DOMAIN SpecOf(x).says
         /\ \A j \in DOMAIN SpecOf(x).says :
              SpecOf(x).says[j].words # {} /\ IsFiniteSet(SpecOf(x).says[j].words)
<1>1. PICK s \in Scenarios : x \in {s} \X DOMAIN batch[s].facts
  BY DEF AllFacts, FactsOf
<1>2. x = <<x[1], x[2]>> /\ x[1] = s /\ x[2] \in DOMAIN batch[s].facts
  BY <1>1
<1>3. x[1] \in Nat /\ x[2] \in Nat \ {0}
  BY FactsAre
<1>4. s \in DOMAIN batch
  BY DEF Scenarios
<1>5. PICK says : says = SpecOf(x).says
  OBVIOUS
<1>6. Worded(says)
  <2>1. says = batch[s].facts[x[2]].says
    BY <1>2, <1>5 DEF SpecOf
  <2> QED BY <1>2, <1>4, <2>1, BatchesAssumption
<1>7. /\ Len(says) \in Nat /\ DOMAIN says = 1..Len(says)
      /\ says # <<>> => 1 \in DOMAIN says
  BY <1>6 DEF Worded
<1> QED BY <1>1, <1>2, <1>3, <1>5, <1>6, <1>7 DEF FactsOf, Worded

LEMMA TripleShape ==
  ASSUME batch \in Batches, NEW x \in AllFacts, NEW j \in DOMAIN SpecOf(x).says
  PROVE  /\ Memory(x, j) \in Triples /\ Memory(x, j) \in MemoryIds(x)
         /\ Memory(x, j)[1] = x[1] /\ Memory(x, j)[3] = j /\ FactOf(Memory(x, j)) = x
         /\ UserOfMemory(Memory(x, j)) = UserOf(x)
         /\ TextOf(Memory(x, j)) = SpecOf(x).says[j].words
<1>1. x = <<x[1], x[2]>>
  BY FactShape
<1>2. Memory(x, j) \in MemoryIds(x)
  BY DEF MemoryIds
<1>3. Memory(x, j) \in Triples
  BY <1>2 DEF Triples
<1>4. /\ Memory(x, j)[1] = x[1] /\ Memory(x, j)[2] = x[2] /\ Memory(x, j)[3] = j
  BY DEF Memory
<1>5. FactOf(Memory(x, j)) = x
  BY <1>1, <1>4 DEF FactOf
<1>6. UserOfMemory(Memory(x, j)) = UserOf(x)
  BY <1>1, <1>4 DEF UserOfMemory
<1>7. TextOf(Memory(x, j)) = SpecOf(x).says[j].words
  BY <1>4 DEF TextOf, SpecOf
<1> QED BY <1>2, <1>3, <1>4, <1>5, <1>6, <1>7

LEMMA TripleOf ==
  ASSUME batch \in Batches, NEW v \in Triples
  PROVE  \E x \in AllFacts : \E j \in DOMAIN SpecOf(x).says : v = Memory(x, j)
BY DEF Triples, MemoryIds

\* A text that has words matches itself.
LEMMA TextReflexive ==
  ASSUME NEW a, a # {}, IsFiniteSet(a)
  PROVE  TextsMatch(a, a)
<1> DEFINE n == Cardinality(a)
<1>1. n \in Nat
  BY FS_CardinalityType
<1>2. Shared(a, a) = n /\ Shorter(a, a) = n
  BY DEF Shared, Shorter
<1>3. Of \in Nat /\ Hit \in Nat /\ Hit <= Of
  BY ValidationAssumption
<1> HIDE DEF n
<1>4. Of * n >= Hit * n
  BY <1>1, <1>3
<1> QED BY <1>2, <1>4 DEF TextsMatch

LEMMA TripleText ==
  ASSUME batch \in Batches, NEW v \in Triples
  PROVE  TextsMatch(TextOf(v), TextOf(v))
<1>1. PICK x \in AllFacts : \E j \in DOMAIN SpecOf(x).says : v = Memory(x, j)
  BY TripleOf
<1>2. PICK j \in DOMAIN SpecOf(x).says : v = Memory(x, j)
  BY <1>1
<1> QED BY <1>2, FactShape, TripleShape, TextReflexive

-----------------------------------------------------------------------------
(* What stays with the run's records.                                      *)

\* What a contradiction resolves against depends on the records only.
LEMMA PriorStays ==
  ASSUME batch' = batch, recorded' = recorded, NEW x
  PROVE  Prior(x)' = Prior(x)
<1>1. SpecOf(x)' = SpecOf(x)
  BY DEF SpecOf
<1> DEFINE B == {j \in 1..(x[2] - 1) : <<x[1], j>> \in recorded}
<1>2. B' = B
  OBVIOUS
<1>3. Prior(x) = IF SpecOf(x).conflicts /\ B # {} THEN <<x[1], LastOf(B)>> ELSE <<0, 0>>
  BY DEF Prior, LastOf
<1>4. Prior(x)' = IF SpecOf(x)'.conflicts /\ B' # {} THEN <<x[1], LastOf(B')>> ELSE <<0, 0>>
  BY DEF Prior, LastOf
<1> HIDE DEF B
<1> QED BY <1>1, <1>2, <1>3, <1>4

LEMMA SettingStays ==
  ASSUME UNCHANGED <<chosen, kept, legacy, inherited>>
  PROVE  /\ UNCHANGED <<batch, owner, peer, defect, place, recorded, failed, checks, trail,
                        Scenarios, AllFacts, Triples, Events>>
         /\ \A x : /\ UserOf(x)' = UserOf(x) /\ FactId(x)' = FactId(x) /\ Event(x)' = Event(x)
                   /\ Query(x)' = Query(x) /\ AuditState(x)' = AuditState(x)
                   /\ \A m : ApiState(x, m)' = ApiState(x, m)
         /\ \A v : TextOf(v)' = TextOf(v) /\ UserOfMemory(v)' = UserOfMemory(v)
         /\ \A s : Ingested(s)' = Ingested(s) /\ ToCollect(s)' = ToCollect(s)
<1>1. UNCHANGED <<batch, owner, peer, defect, place, recorded, failed, checks, trail>>
  BY DEF chosen, kept
<1>2. /\ UNCHANGED <<Scenarios, AllFacts, Events>>
      /\ \A x : /\ SpecOf(x)' = SpecOf(x) /\ IsRead(x)' = IsRead(x)
                /\ \A n : Memory(x, n)' = Memory(x, n)
      /\ \A fault : Legacy(fault)' = Legacy(fault)
      /\ \A v : TextOf(v)' = TextOf(v)
      /\ \A s : FactsOf(s)' = FactsOf(s)
  BY <1>1 DEF Scenarios, AllFacts, FactsOf, Events, SpecOf, IsRead, Memory, Legacy, TextOf
<1>3. \A x : /\ UserOf(x)' = UserOf(x) /\ FactId(x)' = FactId(x)
             /\ MemoryIds(x)' = MemoryIds(x) /\ Utterance(x)' = Utterance(x)
             /\ EngineIds(x)' = EngineIds(x) /\ Prior(x)' = Prior(x)
             /\ Synthetic(x)' = Synthetic(x)
  <2>1. \A x : UserOf(x)' = UserOf(x)
    BY <1>1, <1>2 DEF UserOf
  <2>2. \A x : Synthetic(x)' = Synthetic(x)
    BY DEF Synthetic
  <2>3. \A x : FactId(x)' = FactId(x)
    BY <1>2, <2>2 DEF FactId
  <2>4. \A x : MemoryIds(x)' = MemoryIds(x)
    BY <1>2 DEF MemoryIds
  <2>5. \A x : Utterance(x)' = Utterance(x) /\ EngineIds(x)' = EngineIds(x)
    BY <1>1, <1>2 DEF Utterance, EngineIds
  <2>6. \A x : Prior(x)' = Prior(x)
    BY <1>1, PriorStays
  <2> QED BY <2>1, <2>2, <2>3, <2>4, <2>5, <2>6
<1>4. \A x : RefId(x)' = RefId(x) /\ RefMemories(x)' = RefMemories(x)
             /\ ExtractedNothing(x)' = ExtractedNothing(x) /\ HasPrior(x)' = HasPrior(x)
  BY <1>2, <1>3 DEF RefId, RefMemories, ExtractedNothing, HasPrior
<1>5. \A v : UserOfMemory(v)' = UserOfMemory(v)
  BY <1>3 DEF UserOfMemory
<1>6. Triples' = Triples
  BY <1>2, <1>3 DEF Triples
<1>7. \A x : StoredTexts(x)' = StoredTexts(x) /\ MatchTexts(x)' = MatchTexts(x)
             /\ Query(x)' = Query(x) /\ Event(x)' = Event(x)
  <2>1. \A x : StoredTexts(x)' = StoredTexts(x)
    BY <1>2, <1>4 DEF StoredTexts
  <2>2. \A x : MatchTexts(x)' = MatchTexts(x)
    BY <1>2, <1>3, <2>1 DEF MatchTexts
  <2>3. \A x : Query(x)' = Query(x)
    BY <1>2, <1>3, <2>1 DEF Query
  <2>4. \A x : Event(x)' = Event(x)
    BY <1>3, <1>4 DEF Event, NoId
  <2> QED BY <2>1, <2>2, <2>3, <2>4
<1>8. \A x, m : ApiState(x, m)' = ApiState(x, m)
  <2>1. \A x, m : FoundById(x, m)' = FoundById(x, m)
    BY <1>4 DEF FoundById
  <2>2. \A x, m : FoundByText(x, m)' = FoundByText(x, m)
    BY <1>2, <1>7 DEF FoundByText, TextsMatch, Shared, Shorter
  <2> QED BY <1>3, <2>1, <2>2 DEF ApiState, Says
<1>9. \A x : AuditState(x)' = AuditState(x)
  <2>1. \A id, u : ForFact(id, u)' = ForFact(id, u) /\ Supersedes(id)' = Supersedes(id)
    BY <1>2 DEF ForFact, Scoped, EventsOf, Supersedes
  <2>2. \A x : /\ ForFact(RefId(x), UserOf(x))' = ForFact(RefId(x), UserOf(x))
               /\ Supersedes(RefId(x))' = Supersedes(RefId(x))
    BY <1>3, <1>4, <2>1
  <2>3. \A x : Superseding(x)' = Superseding(x)
    BY <2>2 DEF Superseding
  <2> QED BY <1>2, <2>2, <2>3 DEF AuditState, Says, Unavailable
<1>10. \A s : Ingested(s)' = Ingested(s) /\ ToCollect(s)' = ToCollect(s)
  <2>1. \A s : Ingested(s)' = Ingested(s)
    BY <1>1, <1>2 DEF Ingested
  <2> QED BY <1>4, <2>1 DEF ToCollect, Extracted
<1> QED BY <1>1, <1>2, <1>3, <1>5, <1>6, <1>7, <1>8, <1>9, <1>10

LEMMA RankedStays ==
  ASSUME UNCHANGED <<chosen, kept, legacy, inherited, vectors>>, NEW u, NEW query
  PROVE  Ranked(u, query)' = Ranked(u, query) /\ Live(u)' = Live(u)
<1>1. /\ UNCHANGED <<defect, vectors>>
      /\ \A v : TextOf(v)' = TextOf(v) /\ UserOfMemory(v)' = UserOfMemory(v)
  BY SettingStays
<1>2. Live(u)' = Live(u)
  BY <1>1 DEF Live
<1> QED BY <1>1, <1>2 DEF Ranked

-----------------------------------------------------------------------------
(* The trail tells what was resolved.                                      *)

LEMMA EventStays ==
  ASSUME UNCHANGED <<batch, owner, peer, recorded>>
  PROVE  \A x : /\ UserOf(x)' = UserOf(x) /\ FactId(x)' = FactId(x)
                /\ Event(x)' = Event(x)
<1>1. /\ UNCHANGED recorded
      /\ \A x : SpecOf(x)' = SpecOf(x) /\ Synthetic(x)' = Synthetic(x)
                /\ \A n : Memory(x, n)' = Memory(x, n)
  BY DEF SpecOf, Memory, Synthetic
<1>2. \A x : UserOf(x)' = UserOf(x)
  BY <1>1 DEF UserOf
<1>3. \A x : FactId(x)' = FactId(x)
  BY <1>1 DEF FactId
<1>4. \A x : Prior(x)' = Prior(x)
  BY PriorStays
<1>5. \A x : HasPrior(x)' = HasPrior(x)
  BY <1>4 DEF HasPrior
<1>6. \A x : UserOf(Prior(x))' = UserOf(Prior(x)) /\ FactId(Prior(x))' = FactId(Prior(x))
  BY <1>2, <1>3, <1>4
<1> QED BY <1>2, <1>3, <1>5, <1>6 DEF Event, NoId

\* A record that is added comes after those that an event was made from.
LEMMA EventOfRecord ==
  ASSUME IInv, UNCHANGED <<batch, owner, peer>>, NEW s \in Scenarios, Due(s),
         NEW x, x = NextFact(s), recorded' = recorded \cup {x},
         NEW z \in recorded \cup {x}
  PROVE  Event(z)' = Event(z)
<1>1. batch \in Batches /\ place \in [Scenarios -> Nat] /\ recorded \subseteq AllFacts
  BY DEF IInv, Accounted
<1>2. x = <<s, place[s] + 1>> /\ x \in AllFacts
  BY <1>1, FactsAre DEF NextFact, Due
<1>3. z \in AllFacts /\ z[2] \in Nat /\ (z[1] = s => z[2] <= x[2])
  <2>1. CASE z = x
    BY <1>1, <1>2, <2>1
  <2>2. CASE z \in recorded
    BY <1>1, <1>2, <2>2, FactsAre DEF IInv, Accounted
  <2> QED BY <2>1, <2>2
<1>4. \A j \in 1..(z[2] - 1) : <<z[1], j>> \in recorded' <=> <<z[1], j>> \in recorded
  BY <1>1, <1>2, <1>3
<1>5. \A y : SpecOf(y)' = SpecOf(y) /\ Synthetic(y)' = Synthetic(y)
             /\ \A n : Memory(y, n)' = Memory(y, n)
  BY DEF SpecOf, Memory, Synthetic
<1>6. \A y : UserOf(y)' = UserOf(y)
  BY <1>5 DEF UserOf
<1>7. \A y : FactId(y)' = FactId(y)
  BY <1>5 DEF FactId
<1>8. Prior(z)' = Prior(z)
  <2> DEFINE B == {j \in 1..(z[2] - 1) : <<z[1], j>> \in recorded}
  <2>1. B' = B
    BY <1>4
  <2>2. Prior(z) = IF SpecOf(z).conflicts /\ B # {} THEN <<z[1], LastOf(B)>> ELSE <<0, 0>>
    BY DEF Prior, LastOf
  <2>3. Prior(z)' = IF SpecOf(z)'.conflicts /\ B' # {} THEN <<z[1], LastOf(B')>> ELSE <<0, 0>>
    BY DEF Prior, LastOf
  <2> HIDE DEF B
  <2> QED BY <1>5, <2>1, <2>2, <2>3
<1>9. HasPrior(z)' = HasPrior(z)
  BY <1>8 DEF HasPrior
<1>10. UserOf(Prior(z))' = UserOf(Prior(z)) /\ FactId(Prior(z))' = FactId(Prior(z))
  BY <1>6, <1>7, <1>8
<1> QED BY <1>6, <1>7, <1>9, <1>10 DEF Event, NoId

LEMMA TrailStays ==
  ASSUME TrailTold, UNCHANGED <<batch, owner, peer, recorded, trail>>
  PROVE  TrailTold'
BY EventStays DEF TrailTold

LEMMA TrailGrows ==
  ASSUME IInv, TrailTold, NEW s \in Scenarios, IngestAnswered(s)
  PROVE  TrailTold'
<1> PICK x : x = NextFact(s)
  OBVIOUS
<1>1. /\ Due(s) /\ Passes(s) /\ UNCHANGED <<batch, owner, peer>>
      /\ recorded' = recorded \cup {x} /\ ~IsRead(x)
      /\ trail' = trail \/ trail' = Append(trail, Event(x))
  BY DEF IngestAnswered, chosen
<1>2. batch \in Batches /\ place \in [Scenarios -> Nat] /\ recorded \subseteq AllFacts
  BY DEF IInv, Accounted
<1>3. x \in AllFacts /\ x \notin recorded
  BY <1>1, Next1
<1>4. /\ \A z \in recorded' : Event(z)' = Event(z)
      /\ \A z : FactId(z)' = FactId(z)
  <2>1. \A z \in recorded' : Event(z)' = Event(z)
    BY <1>1, EventOfRecord
  <2> QED BY <1>1, <2>1, IdsStay
<1>5. x[1] = s /\ \A z \in recorded : z[1] = s => z[2] < x[2]
  <2>1. x = <<s, place[s] + 1>>
    BY DEF NextFact
  <2>2. \A z \in recorded : z[2] \in Nat /\ z[2] <= place[z[1]]
    BY <1>2, FactsAre DEF IInv, Accounted
  <2> QED BY <1>2, <2>1, <2>2
<1>6. \A n \in DOMAIN trail : \E z \in recorded : trail[n] = Event(z)
  BY DEF TrailTold
<1>7. /\ trail' \in Seq({trail'[n] : n \in DOMAIN trail'})
      /\ DOMAIN trail = 1..Len(trail) /\ Len(trail) \in Nat
  BY <1>1, <1>3, Logged DEF IInv
\* An event tells its fact.
<1>8. \A n \in DOMAIN trail, z \in AllFacts : trail[n].fact = FactId(z) => z \in recorded
  BY <1>2, <1>6, IdsDiffer DEF Event
<1>9. CASE trail' = trail
  <2>1. ASSUME NEW m \in DOMAIN trail, NEW n \in DOMAIN trail,
               NEW y \in recorded', NEW z \in recorded',
               trail[m].fact = FactId(y), trail[n].fact = FactId(z),
               y[1] = z[1], y[2] < z[2]
        PROVE  m < n
    <3>1. y \in recorded /\ z \in recorded
      BY <1>1, <1>2, <1>3, <1>8, <2>1
    <3> QED BY <2>1, <3>1 DEF TrailTold
  <2>2. \A n \in DOMAIN trail' : \E z \in recorded' : trail'[n] = Event(z)'
    BY <1>1, <1>4, <1>6, <1>9
  <2> QED BY <1>4, <1>9, <2>1, <2>2 DEF TrailTold
<1>10. CASE trail' = Append(trail, Event(x))
  <2> DEFINE E == {trail[n] : n \in DOMAIN trail} \cup {Event(x)}
  <2>1. trail \in Seq(E) /\ Event(x) \in E
    <3>1. trail \in Seq({trail[n] : n \in DOMAIN trail})
      BY DEF IInv
    <3> QED BY <3>1
  <2> HIDE DEF E
  <2>2. /\ Len(trail') = Len(trail) + 1 /\ DOMAIN trail' = 1..(Len(trail) + 1)
        /\ \A n \in 1..Len(trail) : trail'[n] = trail[n]
        /\ trail'[Len(trail) + 1] = Event(x)
    BY <1>7, <1>10, <2>1, AppendProperties
  <2>3. \A n \in DOMAIN trail' : \E z \in recorded' : trail'[n] = Event(z)'
    <3>1. ASSUME NEW n \in DOMAIN trail', n = Len(trail) + 1
          PROVE  trail'[n] = Event(x)' /\ x \in recorded'
      BY <1>1, <1>4, <2>2, <3>1
    <3>2. ASSUME NEW n \in DOMAIN trail
          PROVE  \E z \in recorded' : trail'[n] = Event(z)'
      BY <1>1, <1>4, <1>6, <1>7, <2>2
    <3> QED BY <1>7, <2>2, <3>1, <3>2
  <2>4. ASSUME NEW m \in DOMAIN trail', NEW n \in DOMAIN trail',
               NEW y \in recorded', NEW z \in recorded',
               trail'[m].fact = FactId(y), trail'[n].fact = FactId(z),
               y[1] = z[1], y[2] < z[2]
        PROVE  m < n
    <3>1. Event(x).fact = FactId(x)
      BY DEF Event
    <3>2. y \in AllFacts /\ z \in AllFacts
      BY <1>1, <1>2, <1>3
    <3>3. y[2] \in Nat /\ z[2] \in Nat
      BY <1>2, <3>2, FactsAre
    <3>4. m \in DOMAIN trail
      <4>1. SUFFICES ASSUME m = Len(trail) + 1 PROVE FALSE
        BY <1>7, <2>2
      <4>2. y = x
        BY <1>2, <1>3, <2>2, <2>4, <3>1, <3>2, <4>1, IdsDiffer
      <4>3. z \in recorded /\ z[1] = s
        BY <1>1, <1>5, <2>4, <3>3, <4>2
      <4> QED BY <1>5, <2>4, <3>3, <4>2, <4>3
    <3>5. trail[m].fact = FactId(y) /\ y \in recorded
      BY <1>7, <1>8, <2>2, <2>4, <3>2, <3>4
    <3>6. CASE n = Len(trail) + 1
      BY <1>7, <3>4, <3>6
    <3>7. CASE n \in DOMAIN trail
      <4>1. trail[n].fact = FactId(z) /\ z \in recorded
        BY <1>7, <1>8, <2>2, <2>4, <3>2, <3>7
      <4> QED BY <2>4, <3>4, <3>5, <3>7, <4>1 DEF TrailTold
    <3> QED BY <1>7, <2>2, <3>6, <3>7
  <2> QED BY <1>4, <2>3, <2>4 DEF TrailTold
<1> QED BY <1>1, <1>9, <1>10


-----------------------------------------------------------------------------
(* Each memory is the one of its key's active row, while nothing was torn.  *)

LEMMA KeysStay ==
  ASSUME UNCHANGED <<batch, owner, peer>>
  PROVE  /\ UNCHANGED <<Triples, AllFacts>>
         /\ \A v : UserOfMemory(v)' = UserOfMemory(v)
         /\ \A r, v : RowKeeps(r, v)' = RowKeeps(r, v)
<1>1. /\ UNCHANGED <<Scenarios, AllFacts>>
      /\ \A x : SpecOf(x)' = SpecOf(x) /\ \A n : Memory(x, n)' = Memory(x, n)
  BY DEF SpecOf, Memory, Scenarios, AllFacts, FactsOf
<1>2. \A x : UserOf(x)' = UserOf(x)
  BY <1>1 DEF UserOf
<1>3. \A x : MemoryIds(x)' = MemoryIds(x)
  BY <1>1 DEF MemoryIds
<1>4. Triples' = Triples
  BY <1>1, <1>3 DEF Triples
<1>5. \A v : UserOfMemory(v)' = UserOfMemory(v)
  BY <1>2 DEF UserOfMemory
<1>6. \A x, j : KeyOf(x, j)' = KeyOf(x, j)
  BY <1>1 DEF KeyOf
<1>7. \A v : KeyOf(FactOf(v), v[3])' = KeyOf(FactOf(v), v[3])
  BY <1>6 DEF FactOf
<1> QED BY <1>1, <1>4, <1>5, <1>7 DEF RowKeeps

\* A memory store as StoreKept has it, whichever its parts are.
Row(r) == r = [user |-> r.user, key |-> r.key, id |-> r.id, active |-> r.active, dated |-> r.dated]
Keeps(R, V) ==
  /\ V \subseteq Triples /\ \A r \in R : Row(r)
  /\ ~torn /\ defect # "keeps_old" => \A v \in V : \E r \in R : RowKeeps(r, v)

LEMMA KeepsIs == StoreKept <=> Keeps(rows, vectors) /\ (~torn /\ defect # "keeps_old" => dirty = {})
BY DEF StoreKept, Keeps, Row

\* The rows that a commit leaves.
LEMMA CommittedRows ==
  ASSUME \A r \in rows : Row(r)
  PROVE  /\ \A q \in Committed : Row(q)
         /\ dirty = {} => \A r \in rows : \A v : RowKeeps(r, v) =>
                        \E q \in Committed : RowKeeps(q, v)
<1>1. ASSUME NEW r, Row(r), NEW e, NEW q, q = [r EXCEPT !.active = e]
      PROVE  Row(q) /\ q.user = r.user /\ q.key = r.key /\ q.id = r.id /\ q.active = e
  <2>1. q = [user |-> r.user, key |-> r.key, id |-> r.id, active |-> e, dated |-> r.dated]
    BY <1>1 DEF Row
  <2> QED BY <2>1 DEF Row
<1>2. ASSUME NEW q \in Committed PROVE Row(q)
  <2>1. PICK r \in rows : q = [r EXCEPT !.active = @ /\ <<r.user, r.key>> \notin dirty]
    BY DEF Committed
  <2> QED BY <1>1, <2>1
<1>3. ASSUME dirty = {}, NEW r \in rows, NEW v, RowKeeps(r, v)
      PROVE  \E q \in Committed : RowKeeps(q, v)
  <2> DEFINE e == r.active /\ <<r.user, r.key>> \notin dirty
             q == [r EXCEPT !.active = e]
  <2>1. q \in Committed
    BY DEF Committed
  <2>2. e
    BY <1>3 DEF RowKeeps
  <2>3. q.user = r.user /\ q.key = r.key /\ q.id = r.id /\ q.active = e
    BY <1>1
  <2> QED BY <1>3, <2>1, <2>2, <2>3 DEF RowKeeps
<1> QED BY <1>2, <1>3

\* What the first n triples of an utterance leave, in Keeps' words.
LEMMA StoreAfter ==
  ASSUME batch \in Batches, NEW x \in AllFacts, StoreKept,
         NEW n \in 0..Len(SpecOf(x).says)
  PROVE  Keeps(RowsAfter(x, n), VectorsAfter(x, n))
<1>1. /\ vectors \subseteq Triples /\ \A r \in rows : Row(r)
      /\ ~torn /\ defect # "keeps_old" =>
           dirty = {} /\ \A v \in vectors : \E r \in rows : RowKeeps(r, v)
  BY DEF StoreKept, Row
<1>2. /\ Len(SpecOf(x).says) \in Nat /\ DOMAIN SpecOf(x).says = 1..Len(SpecOf(x).says)
  BY FactShape
<1>3. 1..n \subseteq DOMAIN SpecOf(x).says
  BY <1>2
<1>4. /\ \A j \in 1..n : Memory(x, j) \in Triples
      /\ \A j \in 1..n : UserOfMemory(Memory(x, j)) = UserOf(x)
      /\ \A j \in 1..n : KeyOf(FactOf(Memory(x, j)), Memory(x, j)[3]) = KeyOf(x, j)
  BY <1>3, TripleShape
<1>5. VectorsAfter(x, n) \subseteq Triples
  BY <1>1, <1>4 DEF VectorsAfter, Added
<1>6. ASSUME NEW r \in RowsAfter(x, n) PROVE Row(r)
  <2>1. CASE n = 0
    BY <1>1, <2>1 DEF RowsAfter
  <2>2. CASE r \in Committed
    BY <1>1, <2>2, CommittedRows
  <2>3. ASSUME NEW j, r = RowOf(x, j) PROVE Row(r)
    BY <2>3 DEF RowOf, Row
  <2> QED BY <2>1, <2>2, <2>3 DEF RowsAfter
<1>7. ASSUME ~torn, defect # "keeps_old", NEW v \in VectorsAfter(x, n)
      PROVE  \E r \in RowsAfter(x, n) : RowKeeps(r, v)
  <2> DEFINE K == KeysUpTo(x, n)
  <2>1. CASE n = 0
    <3>1. RowsAfter(x, n) = rows /\ Added(x, n) = {}
      BY <2>1 DEF RowsAfter, Added
    <3> QED BY <1>1, <1>7, <3>1 DEF VectorsAfter
  <2>2. CASE n # 0 /\ v \in vectors /\ v \notin Replaced(x, K)
    <3>1. PICK q \in Committed : RowKeeps(q, v)
      BY <1>1, <1>7, <2>2, CommittedRows
    <3>2. q.active /\ q.id = v
      BY <3>1 DEF RowKeeps
    <3>3. ~Same(q, x, K)
      BY <1>7, <2>2, <3>2 DEF Replaced
    <3>4. q \in RowsAfter(x, n)
      BY <2>2, <3>3 DEF RowsAfter
    <3> QED BY <3>1, <3>4
  <2>3. CASE n # 0 /\ v \in Added(x, n)
    <3>1. PICK j \in 1..n : v = Memory(x, j) /\ j = Latest(x, n, KeyOf(x, j))
      BY <1>7, <2>3 DEF Added
    <3>2. KeyOf(x, j) \in K
      BY DEF KeysUpTo
    <3>3. RowOf(x, j) \in RowsAfter(x, n)
      BY <2>3, <3>1, <3>2 DEF RowsAfter
    <3>4. RowKeeps(RowOf(x, j), v)
      BY <1>4, <3>1 DEF RowKeeps, RowOf
    <3> QED BY <3>3, <3>4
  <2> QED BY <1>7, <2>1, <2>2, <2>3 DEF VectorsAfter
<1> QED BY <1>5, <1>6, <1>7 DEF Keeps

\* An answered, a late and a failing ingest.
LEMMA StoreStays ==
  ASSUME batch \in Batches, UNCHANGED chosen, NEW x \in AllFacts, StoreKept,
         Stores(x) \/ StoresPart(x)
  PROVE  StoreKept'
<1>1. /\ UNCHANGED <<Triples, defect>> /\ \A r, v : RowKeeps(r, v)' = RowKeeps(r, v)
  BY KeysStay DEF chosen
<1>2. Keeps(rows, vectors) /\ (~torn /\ defect # "keeps_old" => dirty = {})
  BY KeepsIs
<1> DEFINE L == Len(SpecOf(x).says)
<1>3. L \in Nat /\ DOMAIN SpecOf(x).says = 1..L
  BY FactShape
<1> HIDE DEF L
<1>4. ASSUME NEW n \in 0..L
      PROVE  Keeps(RowsAfter(x, n), VectorsAfter(x, n))
  BY StoreAfter DEF L
<1>5. ASSUME NEW n \in 0..L, rows' = RowsAfter(x, n), vectors' \subseteq VectorsAfter(x, n),
             torn' = torn, dirty' = {} \/ dirty' = dirty
      PROVE  StoreKept'
  <2>1. Keeps(RowsAfter(x, n), VectorsAfter(x, n))
    BY <1>4
  <2> QED BY <1>1, <1>2, <1>5, <2>1 DEF StoreKept, Keeps, Row
<1>6. CASE Stores(x)
  <2>1. PICK n \in 0..L : /\ rows' = RowsAfter(x, n) /\ vectors' = VectorsAfter(x, n)
                          /\ dirty' = {} \/ dirty' = dirty
    BY <1>3, <1>6 DEF Stores, L
  <2>2. torn' = torn
    BY <1>6 DEF Stores
  <2> QED BY <1>5, <2>1, <2>2
<1>7. CASE UNCHANGED <<rows, dirty, vectors, torn>>
  BY <1>1, <1>2, <1>7 DEF StoreKept, Keeps, Row
<1>8. ASSUME NEW n \in DOMAIN SpecOf(x).says, Half(x, n)
      PROVE  StoreKept'
  BY <1>3, <1>5, <1>8 DEF Half
<1>9. ASSUME NEW n \in DOMAIN SpecOf(x).says, Undone(x, n)
      PROVE  StoreKept'
  BY <1>3, <1>5, <1>9 DEF Undone
<1>10. ASSUME NEW n \in DOMAIN SpecOf(x).says, Torn(x, n)
       PROVE  StoreKept'
  <2>1. Keeps(RowsAfter(x, n - 1), VectorsAfter(x, n - 1))
    BY <1>3, <1>4
  <2>2. /\ rows' = RowsAfter(x, n - 1) /\ vectors' = VectorsAfter(x, n - 1) /\ torn' = TRUE
    BY <1>10 DEF Torn
  <2> QED BY <1>1, <2>1, <2>2 DEF StoreKept, Keeps, Row
<1> QED BY <1>6, <1>7, <1>8, <1>9, <1>10 DEF StoresPart

\* A profile that is shown.
LEMMA StoreShown ==
  ASSUME UNCHANGED chosen, StoreKept, NEW u, NEW entries, ShowsProfile(u, entries)
  PROVE  StoreKept' /\ UNCHANGED vectors
<1>1. /\ UNCHANGED <<Triples, defect>> /\ \A r, v : RowKeeps(r, v)' = RowKeeps(r, v)
  BY KeysStay DEF chosen
<1>2. CASE FromCache(u, entries)
  BY <1>1, <1>2 DEF FromCache, engine, StoreKept
<1>3. CASE Generated(u, entries)
  <2>1. rows' = Committed /\ dirty' = {} /\ vectors' = vectors /\ torn' = torn
    BY <1>3 DEF Generated
  <2>2. \A r \in Committed : Row(r)
    BY CommittedRows DEF StoreKept, Row
  <2>3. ~torn /\ defect # "keeps_old" =>
          \A v \in vectors : \E q \in Committed : RowKeeps(q, v)
    BY CommittedRows DEF StoreKept, Row
  <2> QED BY <1>1, <2>1, <2>2, <2>3 DEF StoreKept, Row
<1> QED BY <1>2, <1>3 DEF ShowsProfile

-----------------------------------------------------------------------------
(* What was said stays right.                                              *)

LEMMA SaidStays ==
  ASSUME UNCHANGED <<chosen, kept, legacy, inherited>>,
         stirred' \/ UNCHANGED <<vectors, stirred>>
  PROVE  /\ \A x, db : DbRight(x, db)' = DbRight(x, db)
         /\ \A x, api : ApiRight(x, api) => ApiRight(x, api)'
         /\ \A x : AuditState(x)' = AuditState(x)
<1>1. \A x, db : DbRight(x, db)' = DbRight(x, db)
  BY SettingStays DEF DbRight
<1>2. \A x, api : ApiRight(x, api) => ApiRight(x, api)'
  <2>1. CASE stirred'
    BY <2>1 DEF ApiRight
  <2>2. CASE UNCHANGED <<vectors, stirred>>
    <3>1. ASSUME NEW x PROVE Ranked(UserOf(x), Query(x))' = Ranked(UserOf(x), Query(x))
      <4>1. PICK u, q : u = UserOf(x) /\ q = Query(x)
        OBVIOUS
      <4>2. UserOf(x)' = u /\ Query(x)' = q
        BY <4>1, SettingStays
      <4>3. Ranked(u, q)' = Ranked(u, q)
        BY <2>2, RankedStays
      <4> QED BY <4>1, <4>2, <4>3
    <3>2. \A x, m : ApiState(x, m)' = ApiState(x, m)
      BY SettingStays
    <3> QED BY <2>2, <3>1, <3>2 DEF ApiRight
  <2> QED BY <2>1, <2>2
<1> QED BY <1>1, <1>2, SettingStays

LEMMA SeenStays ==
  ASSUME SeenRight, UNCHANGED <<chosen, kept, legacy, inherited, seen>>,
         disputed \subseteq disputed', stirred' \/ UNCHANGED <<vectors, stirred>>
  PROVE  SeenRight'
<1>1. seen' = seen
  OBVIOUS
<1>2. /\ \A x, db : DbRight(x, db)' = DbRight(x, db)
      /\ \A x, api : ApiRight(x, api) => ApiRight(x, api)'
      /\ \A x : AuditState(x)' = AuditState(x)
  BY SaidStays
<1>3. ASSUME NEW x \in DOMAIN seen
      PROVE  /\ DbRight(x, seen[x].db)' /\ ApiRight(x, seen[x].api)'
             /\ seen'[x].audit = AuditState(x)' /\ (x \in disputed' \/ Agreed(seen'[x]))
  <2>1. /\ DbRight(x, seen[x].db) /\ ApiRight(x, seen[x].api)
        /\ seen[x].audit = AuditState(x) /\ (x \in disputed \/ Agreed(seen[x]))
    BY DEF SeenRight
  <2>2. PICK db, api : db = seen[x].db /\ api = seen[x].api
    OBVIOUS
  <2>3. seen'[x].db = db /\ seen'[x].api = api
    BY <1>1, <2>2
  <2>4. DbRight(x, db)' /\ ApiRight(x, api)'
    BY <1>2, <2>1, <2>2
  <2> QED BY <1>1, <1>2, <2>1, <2>3, <2>4
<1> QED BY <1>1, <1>3 DEF SeenRight

LEMMA CurStays ==
  ASSUME CurRight, UNCHANGED <<chosen, kept, legacy, inherited, cur, todo, stage>>,
         stirred' \/ UNCHANGED <<vectors, stirred>>
  PROVE  CurRight'
<1>1. cur' = cur /\ todo' = todo /\ stage' = stage
  OBVIOUS
<1>2. /\ \A x, db : DbRight(x, db)' = DbRight(x, db)
      /\ \A x, api : ApiRight(x, api) => ApiRight(x, api)'
      /\ \A x : AuditState(x)' = AuditState(x)
  BY SaidStays
<1>3. PICK x, db, api : x = cur.fact /\ db = cur.db /\ api = cur.api
  OBVIOUS
<1>4. cur'.fact = x /\ cur'.db = db /\ cur'.api = api
  BY <1>1, <1>3
<1> QED BY <1>1, <1>2, <1>3, <1>4 DEF CurRight

LEMMA AnswersStay ==
  ASSUME AnswersKept, UNCHANGED <<chosen, kept, legacy, inherited>>, retrieved' \subseteq retrieved,
         stirred' \/ UNCHANGED <<vectors, stirred>>
  PROVE  AnswersKept'
<1>1. \A v : UserOfMemory(v)' = UserOfMemory(v)
  BY SettingStays
<1>2. defect' = defect
  BY DEF chosen
<1>3. ASSUME UNCHANGED <<vectors, stirred>>, NEW u, NEW q PROVE Ranked(u, q)' = Ranked(u, q)
  BY <1>3, RankedStays
<1> QED BY <1>1, <1>2, <1>3 DEF AnswersKept

\* The first of the facts to look at is one of them.
LEMMA FirstFactIn ==
  ASSUME batch \in Batches, NEW s \in Scenarios, NEW S, S \subseteq FactsOf(s), S # {}
  PROVE  FirstFact(S) \in S
<1>1. \A x \in S : x \in AllFacts /\ x[1] = s
  BY DEF AllFacts, FactsOf
<1>2. \A x \in S : x[2] \in Nat
  BY <1>1, FactsAre
<1> DEFINE T == {x[2] : x \in S}
<1>3. T \subseteq Nat /\ T # {}
  BY <1>2
<1>4. PICK m \in T : \A n \in T : m <= n
  BY <1>3, HasLeast
<1>5. PICK x \in S : x[2] = m
  OBVIOUS
<1>6. \A y \in S : x[1] = y[1] /\ x[2] <= y[2]
  BY <1>1, <1>4, <1>5
<1> QED BY <1>5, <1>6 DEF FirstFact

LEMMA DbStatesOwn ==
  ASSUME NEW x, NEW db \in DbStates(x)
  PROVE  DbRight(x, db)
<1>1. \A r \in RowsFor(x) : r.user = UserOf(x)
  BY DEF RowsFor, RowById, BestRows, RowsOfUser
<1> QED BY <1>1 DEF DbStates, DbRight, DbState, NoDbState

-----------------------------------------------------------------------------
(* The invariant behind what a verdict means, step by step.                *)

LEMMA VStarts == Init => VInv
<1> SUFFICES ASSUME Init PROVE VInv
  OBVIOUS
<1>1. /\ trail = <<>> /\ vectors = {} /\ rows = {} /\ dirty = {} /\ seen = <<>>
      /\ retrieved = {} /\ cur = Idle /\ stage = "play" /\ scen = 1 /\ results = <<>>
      /\ stirred = FALSE
  BY DEF Init
<1>2. IInv
  BY Starts
<1>3. TrailTold
  BY <1>1 DEF TrailTold
<1>4. StoreKept
  BY <1>1 DEF StoreKept
<1>5. InStep
  BY <1>1 DEF InStep
<1>6. CurRight /\ SeenRight /\ AnswersKept
  BY <1>1 DEF CurRight, SeenRight, AnswersKept, Idle
<1> QED BY <1>2, <1>3, <1>4, <1>5, <1>6 DEF VInv

\* While it is played, nothing has been said.
LEMMA VPlays == VInv /\ Play => VInv'
<1> SUFFICES ASSUME VInv, Play PROVE VInv'
  OBVIOUS
<1>1. /\ IInv /\ TrailTold /\ StoreKept /\ InStep
      /\ batch \in Batches
  BY DEF VInv, IInv
<1>2. /\ stage = "play" /\ scen = 1 /\ cur = Idle /\ DOMAIN seen = {} /\ retrieved = {}
      /\ ~stirred
  BY <1>1 DEF Play, InStep
<1>3. /\ UNCHANGED <<legacy, inherited, stirred, stage, scen, todo, cur, results, disputed,
                     retrieved, profiled, owned, seen>>
  BY DEF Play, evidence, progress
<1>4. PICK s \in Scenarios :
        \/ IngestAnswered(s) \/ IngestFails(s) \/ IngestTimesOut(s)
        \/ ReadAnswered(s) \/ ReadFails(s)
  BY DEF Play, Playback
<1>5. IInv'
  BY <1>1, <1>4, Plays
<1>6. UNCHANGED chosen /\ Due(s) /\ Passes(s)
  BY <1>4 DEF IngestAnswered, IngestFails, IngestTimesOut, ReadAnswered, ReadFails
<1>7. NextFact(s) \in AllFacts
  BY <1>1, <1>6, Next1 DEF chosen
<1>8. TrailTold'
  <2>1. CASE IngestAnswered(s)
    BY <1>1, <2>1, TrailGrows
  <2>2. CASE ~IngestAnswered(s)
    <3>1. UNCHANGED <<recorded, trail>>
      BY <1>4, <2>2 DEF IngestFails, IngestTimesOut, ReadAnswered, ReadFails
    <3> QED BY <1>1, <1>6, <3>1, TrailStays DEF chosen
  <2> QED BY <2>1, <2>2
<1>9. StoreKept'
  <2>1. CASE IngestAnswered(s) \/ IngestFails(s)
    <3>1. Stores(NextFact(s)) \/ StoresPart(NextFact(s))
      BY <2>1 DEF IngestAnswered, IngestFails
    <3> QED BY <1>1, <1>6, <1>7, <3>1, StoreStays
  <2>2. CASE IngestTimesOut(s) \/ ReadFails(s)
    <3>1. UNCHANGED engine
      BY <2>2 DEF IngestTimesOut, ReadFails
    <3> QED BY <1>1, <1>6, <3>1, KeysStay DEF StoreKept, engine, chosen
  <2>3. CASE ReadAnswered(s)
    <3>1. PICK u, entries : ShowsProfile(u, entries)
      BY <2>3 DEF ReadAnswered
    <3> QED BY <1>1, <1>6, <3>1, StoreShown
  <2> QED BY <1>4, <2>1, <2>2, <2>3
<1>10. InStep'
  BY <1>1, <1>2, <1>3 DEF InStep
<1>11. CurRight'
  BY <1>2, <1>3 DEF CurRight, Idle
<1>12. SeenRight' /\ AnswersKept'
  BY <1>2, <1>3 DEF SeenRight, AnswersKept
<1> QED BY <1>5, <1>8, <1>9, <1>10, <1>11, <1>12 DEF VInv

\* An ingest that was given up on is stored, maybe behind the validator's back.
LEMMA VStoresLate == VInv /\ StoreLate => VInv'
<1> SUFFICES ASSUME VInv, StoreLate PROVE VInv'
  OBVIOUS
<1>1. PICK x \in pending : StoredLate(x)
  BY DEF StoreLate
<1>2. /\ IInv /\ TrailTold /\ StoreKept /\ InStep /\ CurRight /\ SeenRight /\ AnswersKept
      /\ batch \in Batches
  BY DEF VInv, IInv
<1>3. /\ UNCHANGED <<chosen, kept, legacy, inherited>> /\ pending' \subseteq pending /\ Stores(x)
      /\ UNCHANGED <<stage, scen, todo, cur, results, disputed, retrieved, profiled, owned, seen>>
      /\ stage # "done" /\ stirred' = (stirred \/ stage = "validate")
  BY <1>1 DEF StoreLate, StoredLate, evidence, progress
<1>4. x \in AllFacts
  BY <1>1, <1>2 DEF IInv, Accounted
<1>5. IInv'
  BY <1>2, <1>3, Stays DEF chosen
<1>6. TrailTold'
  BY <1>2, <1>3, TrailStays DEF chosen, kept
<1>7. StoreKept'
  BY <1>2, <1>3, <1>4, StoreStays
<1>8. \A s : ToCollect(s)' = ToCollect(s) /\ Scenarios' = Scenarios
  BY <1>3, SettingStays
<1>9. stage = "play" \/ stage = "validate"
  BY <1>2, <1>3 DEF InStep
<1>10. InStep'
  <2>1. stage = "play" => ~stirred'
    BY <1>2, <1>3 DEF InStep
  <2>2. ToCollect(scen)' = ToCollect(scen)
    BY <1>3, <1>8
  <2> QED BY <1>2, <1>3, <1>8, <2>1, <2>2 DEF InStep
<1>11. CurRight' /\ SeenRight' /\ AnswersKept'
  <2>1. CASE stage = "play"
    <3>1. cur' = Idle /\ DOMAIN seen' = {} /\ retrieved' = {}
      BY <1>2, <1>3, <2>1 DEF InStep
    <3> QED BY <3>1 DEF CurRight, Idle, SeenRight, AnswersKept
  <2>2. CASE stage = "validate"
    <3>1. stirred'
      BY <1>3, <2>2
    <3> QED BY <1>2, <1>3, <3>1, CurStays, SeenStays, AnswersStay
  <2> QED BY <1>9, <2>1, <2>2
<1> QED BY <1>5, <1>6, <1>7, <1>10, <1>11 DEF VInv

LEMMA VBegins == VInv /\ Begin => VInv'
<1> SUFFICES ASSUME VInv, Begin PROVE VInv'
  OBVIOUS
<1>1. /\ IInv /\ TrailTold /\ StoreKept /\ InStep /\ CurRight /\ SeenRight /\ AnswersKept
      /\ batch \in Batches
  BY DEF VInv, IInv
<1>2. /\ UNCHANGED <<chosen, kept, legacy, inherited, engine, pending, seen, scen, cur, results,
                     disputed, stirred>>
      /\ stage = "play" /\ stage' = "validate" /\ todo' = ToCollect(scen) /\ retrieved' = {}
  BY DEF Begin, setting
<1>3. UNCHANGED vectors
  BY <1>2 DEF engine
<1>4. IInv' /\ TrailTold'
  BY <1>1, <1>2, Stays, TrailStays DEF chosen, kept
<1>5. StoreKept'
  BY <1>1, <1>2, KeysStay DEF StoreKept, engine, chosen
<1>6. InStep'
  <2>1. scen = 1 /\ 1 \in Scenarios
    <3>1. Len(batch) \in Nat \ {0} /\ Scenarios = 1..Len(batch)
      BY <1>1, BatchesAssumption DEF Scenarios
    <3> QED BY <1>1, <1>2, <3>1 DEF InStep
  <2>2. \A s : ToCollect(s)' = ToCollect(s) /\ Scenarios' = Scenarios
    BY <1>2, SettingStays
  <2> QED BY <1>1, <1>2, <2>1, <2>2 DEF InStep
<1>7. CurRight'
  BY <1>1, <1>2 DEF CurRight, InStep, Idle
<1>8. SeenRight' /\ AnswersKept'
  BY <1>1, <1>2, <1>3, SeenStays, AnswersStay
<1> QED BY <1>4, <1>5, <1>6, <1>7, <1>8 DEF VInv

\* What every step of the validator leaves to be shown.
LEMMA VFirm ==
  ASSUME VInv, UNCHANGED <<setting, kept, pending>>
  PROVE  /\ IInv' /\ TrailTold' /\ UNCHANGED <<chosen, kept, legacy, inherited, Scenarios>>
         /\ UNCHANGED engine => StoreKept' /\ UNCHANGED vectors
         /\ \A s : ToCollect(s)' = ToCollect(s)
<1>1. UNCHANGED <<chosen, kept, legacy, inherited>> /\ IInv /\ TrailTold /\ StoreKept
  BY DEF setting, VInv
<1>2. IInv' /\ TrailTold'
  BY <1>1, Stays, TrailStays DEF chosen, kept
<1>3. UNCHANGED engine => StoreKept' /\ UNCHANGED vectors
  BY <1>1, KeysStay DEF StoreKept, engine, chosen
<1> QED BY <1>1, <1>2, <1>3, SettingStays

LEMMA VReadsRow == VInv /\ ReadRow => VInv'
<1> SUFFICES ASSUME VInv, ReadRow PROVE VInv'
  OBVIOUS
<1>1. /\ UNCHANGED <<setting, kept, pending, stage, scen, results, stirred, engine, evidence,
                     todo, disputed>>
      /\ stage = "validate" /\ cur.at = "next" /\ todo # {}
  BY DEF ReadRow, Untouched, Validating
<1>2. /\ IInv' /\ TrailTold' /\ StoreKept' /\ UNCHANGED vectors
      /\ UNCHANGED <<chosen, kept, legacy, inherited, Scenarios>>
      /\ \A s : ToCollect(s)' = ToCollect(s)
  BY <1>1, VFirm
<1>3. InStep /\ SeenRight /\ AnswersKept /\ batch \in Batches
  BY DEF VInv, IInv
<1>4. UNCHANGED <<retrieved, seen>>
  BY <1>1 DEF evidence
<1>5. InStep'
  BY <1>1, <1>2, <1>3, <1>4 DEF InStep
<1>6. SeenRight' /\ AnswersKept'
  BY <1>1, <1>2, <1>3, <1>4, SeenStays, AnswersStay
<1>7. CurRight'
  <2>1. PICK x, db : x = FirstFact(todo) /\ db \in DbStates(x)
                     /\ cur' = [at |-> "api", fact |-> x, db |-> db]
    BY DEF ReadRow
  <2>2. scen \in Scenarios /\ todo \subseteq FactsOf(scen)
    BY <1>1, <1>3 DEF InStep, ToCollect, Extracted, Ingested
  <2>3. x \in todo
    BY <1>1, <1>3, <2>1, <2>2, FirstFactIn
  <2>4. DbRight(x, db)'
    BY <1>1, <1>2, <2>1, DbStatesOwn, SaidStays
  <2>5. cur'.at = "api" /\ cur'.fact = x /\ cur'.db = db
    BY <2>1
  <2> QED BY <1>1, <2>3, <2>4, <2>5 DEF CurRight
<1> QED BY <1>2, <1>5, <1>6, <1>7 DEF VInv

\* /retrieve has said api, or failed; what it remembers is to be shown.
LEMMA VRetrieves ==
  ASSUME VInv, Untouched, UNCHANGED <<engine, seen, todo, disputed>>, Validating("api"),
         NEW api, Then(api), ApiRight(cur.fact, api), AnswersKept'
  PROVE  VInv'
<1>1. /\ UNCHANGED <<setting, kept, pending, stage, scen, results, stirred>>
      /\ stage = "validate" /\ cur.at = "api"
  BY DEF Untouched, Validating
<1>2. /\ IInv' /\ TrailTold' /\ StoreKept' /\ UNCHANGED vectors
      /\ UNCHANGED <<chosen, kept, legacy, inherited, Scenarios>>
      /\ \A s : ToCollect(s)' = ToCollect(s)
  BY <1>1, VFirm
<1>3. InStep /\ CurRight /\ SeenRight
  BY DEF VInv
<1>4. InStep'
  BY <1>1, <1>2, <1>3 DEF InStep
<1>5. SeenRight'
  BY <1>1, <1>2, <1>3, SeenStays
<1>6. CurRight'
  <2>1. PICK x, db, audit : x = cur.fact /\ db = cur.db /\ audit = AuditState(x)
    OBVIOUS
  <2>2. cur' = [at |-> "profile", fact |-> x, db |-> db, api |-> api, audit |-> audit]
    BY <2>1 DEF Then
  <2>3. x \in todo /\ DbRight(x, db)
    BY <1>1, <1>3, <2>1 DEF CurRight
  <2>4. DbRight(x, db)' /\ ApiRight(x, api)' /\ audit = AuditState(x)'
    BY <1>1, <1>2, <2>1, <2>3, SaidStays
  <2>5. /\ cur'.at = "profile" /\ cur'.fact = x /\ cur'.db = db /\ cur'.api = api
        /\ cur'.audit = audit
    BY <2>2
  <2> QED BY <1>1, <2>3, <2>4, <2>5 DEF CurRight
<1> QED BY <1>2, <1>4, <1>5, <1>6 DEF VInv

LEMMA VAsks == VInv /\ (RetrieveAgain \/ RetrieveAnswered \/ RetrieveFails) => VInv'
<1> SUFFICES ASSUME VInv, RetrieveAgain \/ RetrieveAnswered \/ RetrieveFails PROVE VInv'
  OBVIOUS
<1>1. /\ Untouched /\ UNCHANGED <<engine, seen, todo, disputed>> /\ Validating("api")
  BY DEF RetrieveAgain, RetrieveAnswered, RetrieveFails, evidence
<1>2. UNCHANGED <<chosen, kept, legacy, inherited, vectors, stirred>> /\ AnswersKept
  BY <1>1 DEF Untouched, setting, engine, VInv
<1>3. CASE RetrieveAgain
  <2>1. PICK r \in Asked(cur.fact) : Then(ApiState(cur.fact, r.memories))
    BY <1>3 DEF RetrieveAgain
  <2>2. /\ r \in retrieved /\ r.user = UserOf(cur.fact) /\ r.query = Query(cur.fact)
    BY DEF Asked
  <2>3. ApiRight(cur.fact, ApiState(cur.fact, r.memories))
    BY <1>2, <2>2 DEF AnswersKept, ApiRight
  <2>4. AnswersKept'
    BY <1>2, <1>3, AnswersStay DEF RetrieveAgain, evidence
  <2> QED BY <1>1, <2>1, <2>3, <2>4, VRetrieves
<1>4. CASE RetrieveAnswered
  <2>1. PICK memories \in Ranked(UserOf(cur.fact), Query(cur.fact)) :
          /\ Then(ApiState(cur.fact, memories))
          /\ retrieved' = retrieved \cup
               {[user |-> UserOf(cur.fact), query |-> Query(cur.fact), memories |-> memories]}
    BY <1>4 DEF RetrieveAnswered
  <2>2. ApiRight(cur.fact, ApiState(cur.fact, memories))
    BY DEF ApiRight
  <2>3. PICK u, q : u = UserOf(cur.fact) /\ q = Query(cur.fact)
    OBVIOUS
  <2>4. AnswersKept'
    <3>1. /\ \A v : UserOfMemory(v)' = UserOfMemory(v)
          /\ defect' = defect
      BY <1>2, SettingStays
    <3>2. \A w, p : Ranked(w, p)' = Ranked(w, p)
      BY <1>2, RankedStays
    <3>3. memories \in Ranked(u, q) /\ \A v \in memories : defect = "leaks" \/ UserOfMemory(v) = u
      BY <2>3 DEF Ranked, Live
    <3>4. ASSUME NEW r \in retrieved'
          PROVE  /\ ~stirred' => r.memories \in Ranked(r.user, r.query)'
                 /\ defect' # "leaks" => \A v \in r.memories : UserOfMemory(v)' = r.user
      <4>1. CASE r \in retrieved
        BY <1>2, <3>1, <3>2, <4>1 DEF AnswersKept
      <4>2. CASE r = [user |-> u, query |-> q, memories |-> memories]
        <5>1. r.user = u /\ r.query = q /\ r.memories = memories
          BY <4>2
        <5> QED BY <3>1, <3>2, <3>3, <5>1
      <4> QED BY <2>1, <2>3, <4>1, <4>2
    <3> QED BY <3>4 DEF AnswersKept
  <2> QED BY <1>1, <2>1, <2>2, <2>4, VRetrieves
<1>5. CASE RetrieveFails
  <2>1. Then(Unavailable) /\ AnswersKept'
    BY <1>2, <1>5, AnswersStay DEF RetrieveFails, evidence
  <2>2. ApiRight(cur.fact, Unavailable)
    BY DEF ApiRight, Unavailable
  <2> QED BY <1>1, <2>1, <2>2, VRetrieves
<1> QED BY <1>3, <1>4, <1>5

\* A profile that is read changes nothing that the invariant is about.
LEMMA ProfileStays ==
  ASSUME VInv, UNCHANGED <<setting, kept, pending>>, NEW u,
         ProfileKnown(u) \/ ProfileAnswered(u) \/ ProfileFails(u)
  PROVE  StoreKept' /\ UNCHANGED vectors
<1>1. CASE ProfileAnswered(u)
  <2>1. PICK entries : ShowsProfile(u, entries)
    BY <1>1 DEF ProfileAnswered
  <2> QED BY <2>1, StoreShown DEF VInv, setting
<1>2. CASE ProfileKnown(u) \/ ProfileFails(u)
  BY <1>2, VFirm DEF ProfileKnown, ProfileFails
<1> QED BY <1>1, <1>2

LEMMA VReadsProfile == VInv /\ ReadProfile => VInv'
<1> SUFFICES ASSUME VInv, ReadProfile PROVE VInv'
  OBVIOUS
<1>1. /\ UNCHANGED <<setting, kept, pending, stage, scen, results, stirred, retrieved>>
      /\ stage = "validate" /\ cur.at = "profile"
  BY DEF ReadProfile, Untouched, Validating
<1>2. PICK x : x = cur.fact
  OBVIOUS
<1>3. /\ todo' = todo \ {x} /\ cur' = Idle
      /\ ProfileKnown(UserOf(x)) \/ ProfileAnswered(UserOf(x)) \/ ProfileFails(UserOf(x))
  BY <1>2 DEF ReadProfile
<1>4. PICK states : /\ states.db = cur.db /\ states.api = cur.api /\ states.audit = cur.audit
                    /\ seen' = [y \in DOMAIN seen \cup {x} |-> IF y = x THEN states ELSE seen[y]]
                    /\ disputed' = IF Agreed(states) THEN disputed ELSE disputed \cup {x}
  BY <1>2 DEF ReadProfile
<1>5. /\ IInv' /\ TrailTold'
      /\ UNCHANGED <<chosen, kept, legacy, inherited, Scenarios>>
      /\ \A s : ToCollect(s)' = ToCollect(s)
  BY <1>1, VFirm
<1>6. StoreKept' /\ UNCHANGED vectors
  BY <1>1, <1>3, ProfileStays
<1>7. InStep /\ CurRight /\ SeenRight /\ AnswersKept
  BY DEF VInv
<1>8. DOMAIN seen' = DOMAIN seen \cup {x}
  BY <1>4
<1>9. InStep'
  BY <1>1, <1>3, <1>5, <1>7, <1>8 DEF InStep
<1>10. CurRight'
  BY <1>3 DEF CurRight, Idle
<1>11. SeenRight'
  <2>1. PICK db, api, audit : db = cur.db /\ api = cur.api /\ audit = cur.audit
    OBVIOUS
  <2>2. DbRight(x, db) /\ ApiRight(x, api) /\ audit = AuditState(x)
    BY <1>1, <1>2, <1>7, <2>1 DEF CurRight
  <2>3. DbRight(x, db)' /\ ApiRight(x, api)' /\ audit = AuditState(x)'
    BY <1>1, <1>5, <1>6, <2>2, SaidStays
  <2>4. ASSUME NEW y \in DOMAIN seen'
        PROVE  /\ DbRight(y, seen[y].db)' /\ ApiRight(y, seen[y].api)'
               /\ seen'[y].audit = AuditState(y)' /\ (y \in disputed' \/ Agreed(seen'[y]))
    <3>1. CASE y = x
      <4>1. seen'[y] = states
        BY <1>4, <3>1
      <4>2. seen'[y].db = db /\ seen'[y].api = api /\ seen'[y].audit = audit
        BY <1>4, <2>1, <4>1
      <4> QED BY <1>4, <2>3, <3>1, <4>1, <4>2
    <3>2. CASE y # x
      <4>1. seen'[y] = seen[y] /\ y \in DOMAIN seen
        BY <1>4, <1>8, <3>2
      <4>2. PICK d, a : d = seen[y].db /\ a = seen[y].api
        OBVIOUS
      <4>3. /\ DbRight(y, d) /\ ApiRight(y, a)
            /\ seen[y].audit = AuditState(y) /\ (y \in disputed \/ Agreed(seen[y]))
        BY <1>7, <4>1, <4>2 DEF SeenRight
      <4>4. DbRight(y, d)' /\ ApiRight(y, a)' /\ AuditState(y)' = AuditState(y)
        BY <1>1, <1>5, <1>6, <4>3, SaidStays
      <4>5. seen'[y].db = d /\ seen'[y].api = a
        BY <4>1, <4>2
      <4> QED BY <1>4, <4>1, <4>3, <4>4, <4>5
    <3> QED BY <3>1, <3>2
  <2> QED BY <2>4 DEF SeenRight
<1>12. AnswersKept'
  BY <1>1, <1>5, <1>6, <1>7, AnswersStay
<1> QED BY <1>5, <1>6, <1>9, <1>10, <1>11, <1>12 DEF VInv

LEMMA VFetches == VInv /\ FetchProfile => VInv'
<1> SUFFICES ASSUME VInv, FetchProfile PROVE VInv'
  OBVIOUS
<1>1. UNCHANGED <<setting, kept, pending, stage, scen, results, stirred, retrieved, seen, todo,
                  cur, disputed>>
  BY DEF FetchProfile, Untouched
<1>2. PICK u : ProfileAnswered(u) \/ ProfileFails(u)
  BY DEF FetchProfile
<1>3. /\ IInv' /\ TrailTold'
      /\ UNCHANGED <<chosen, kept, legacy, inherited, Scenarios>>
      /\ \A s : ToCollect(s)' = ToCollect(s)
  BY <1>1, VFirm
<1>4. StoreKept' /\ UNCHANGED vectors
  BY <1>1, <1>2, ProfileStays
<1>5. InStep /\ CurRight /\ SeenRight /\ AnswersKept
  BY DEF VInv
<1>6. InStep'
  BY <1>1, <1>3, <1>5 DEF InStep
<1>7. CurRight' /\ SeenRight' /\ AnswersKept'
  BY <1>1, <1>3, <1>4, <1>5, CurStays, SeenStays, AnswersStay
<1> QED BY <1>3, <1>4, <1>6, <1>7 DEF VInv

\* The results, one scenario longer.
LEMMA OneMore ==
  ASSUME InStep, RunChecks
  PROVE  /\ scen \in Scenarios /\ todo = {} /\ stage = "validate"
         /\ DOMAIN results' = 1..scen /\ scen \in Nat
         /\ results' \in Seq({results'[n] : n \in DOMAIN results'})
         /\ results'[scen] = [o \in OutcomesFor(batch[scen]) |-> Check(scen, o)]
         /\ Judged = {scen}
<1>1. stage = "validate" /\ todo = {} /\ scen \in Scenarios
  BY DEF RunChecks, Collected, Validating, InStep
<1> DEFINE R == [o \in OutcomesFor(batch[scen]) |-> Check(scen, o)]
           E == {results[n] : n \in DOMAIN results} \cup {R}
<1>2. results' = Append(results, R)
  BY DEF RunChecks
<1>3. results \in Seq(E) /\ R \in E
  <2> HIDE DEF R
  <2>1. results \in Seq({results[n] : n \in DOMAIN results})
    BY DEF InStep
  <2> QED BY <2>1
<1> HIDE DEF E, R
<1>4. /\ results' \in Seq(E) /\ Len(results') = Len(results) + 1
      /\ results'[Len(results) + 1] = R
  BY <1>2, <1>3, AppendProperties
<1>5. /\ DOMAIN results = 1..Len(results) /\ Len(results) \in Nat
      /\ DOMAIN results' = 1..Len(results')
  BY <1>3, <1>4
<1>6. scen \in Nat \ {0} /\ DOMAIN results = 1..(scen - 1)
  BY DEF InStep
<1>7. Len(results) = scen - 1
  <2>1. scen - 1 \in Nat
    BY <1>6
  <2>2. \A k, m \in Nat : 1..k = 1..m => k = m
    <3> SUFFICES ASSUME NEW k \in Nat, NEW m \in Nat, k < m PROVE 1..k # 1..m
      OBVIOUS
    <3>1. m \in 1..m /\ m \notin 1..k
      OBVIOUS
    <3> QED BY <3>1
  <2> QED BY <1>5, <1>6, <2>1, <2>2
<1>8. DOMAIN results' = 1..scen /\ results'[scen] = R
  BY <1>4, <1>5, <1>6, <1>7
<1>9. Judged = {scen}
  BY <1>6, <1>8 DEF Judged
<1>10. results' \in Seq({results'[n] : n \in DOMAIN results'})
  BY <1>4, <1>5
<1> QED BY <1>1, <1>6, <1>8, <1>9, <1>10 DEF R

LEMMA VChecks == VInv /\ RunChecks => VInv'
<1> SUFFICES ASSUME VInv, RunChecks PROVE VInv'
  OBVIOUS
<1>1. /\ UNCHANGED <<setting, kept, engine, pending, retrieved, seen, cur, disputed, stirred>>
      /\ scen' = scen + 1 /\ cur.at = "next"
      /\ \/ scen < Len(batch) /\ todo' = ToCollect(scen + 1) /\ stage' = stage
         \/ scen >= Len(batch) /\ stage' = "done"
  <2>1. \/ scen < Len(batch) /\ todo' = ToCollect(scen + 1) /\ stage' = stage
        \/ ~(scen < Len(batch)) /\ stage' = "done"
    BY DEF RunChecks
  <2>2. Len(batch) \in Nat /\ scen \in Nat
    BY BatchesAssumption DEF VInv, IInv, InStep
  <2>3. ~(scen < Len(batch)) => scen >= Len(batch)
    BY <2>2
  <2> QED BY <2>1, <2>3 DEF RunChecks, Collected, Validating
<1>2. /\ IInv' /\ TrailTold' /\ StoreKept' /\ UNCHANGED vectors
      /\ UNCHANGED <<chosen, kept, legacy, inherited, Scenarios>>
      /\ \A s : ToCollect(s)' = ToCollect(s)
  BY <1>1, VFirm
<1>3. InStep /\ CurRight /\ SeenRight /\ AnswersKept
  BY DEF VInv
<1>4. /\ scen \in Scenarios /\ todo = {} /\ stage = "validate"
      /\ DOMAIN results' = 1..scen /\ scen \in Nat
      /\ results' \in Seq({results'[n] : n \in DOMAIN results'})
  BY <1>3, OneMore
<1>5. InStep'
  <2>1. DOMAIN results' = 1..(scen' - 1) /\ scen' \in Nat \ {0}
    BY <1>1, <1>4
  <2>2. scen < Len(batch) => scen + 1 \in Scenarios'
    <3>1. Len(batch) \in Nat /\ Scenarios = 1..Len(batch)
      BY BatchesAssumption DEF VInv, IInv, Scenarios
    <3> QED BY <1>2, <1>4, <3>1
  <2>3. stage' = "validate" =>
          scen' \in Scenarios' /\ todo' = ToCollect(scen')
    BY <1>1, <2>2
  <2>4. ToCollect(scen)' = ToCollect(scen')
    BY <1>2
  <2>5. stage' \in {"validate", "done"}
    BY <1>1, <1>4
  <2> QED BY <1>4, <2>1, <2>3, <2>4, <2>5 DEF InStep
<1>6. CurRight'
  BY <1>1 DEF CurRight
<1>7. SeenRight' /\ AnswersKept'
  BY <1>1, <1>2, <1>3, SeenStays, AnswersStay
<1> QED BY <1>2, <1>5, <1>6, <1>7 DEF VInv

LEMMA VStutters == VInv /\ UNCHANGED vars => VInv'
<1> SUFFICES ASSUME VInv, UNCHANGED vars PROVE VInv'
  OBVIOUS
<1>1. UNCHANGED <<setting, kept, engine, pending, retrieved, seen, stage, scen, todo, cur,
                  results, disputed, stirred>>
  BY DEF vars, evidence, progress
<1>2. /\ IInv' /\ TrailTold' /\ StoreKept' /\ UNCHANGED vectors
      /\ UNCHANGED <<chosen, kept, legacy, inherited, Scenarios>>
      /\ \A s : ToCollect(s)' = ToCollect(s)
  BY <1>1, VFirm
<1>3. InStep /\ CurRight /\ SeenRight /\ AnswersKept
  BY DEF VInv
<1>4. InStep'
  BY <1>1, <1>2, <1>3 DEF InStep
<1>5. CurRight' /\ SeenRight' /\ AnswersKept'
  BY <1>1, <1>2, <1>3, CurStays, SeenStays, AnswersStay
<1> QED BY <1>2, <1>4, <1>5 DEF VInv

LEMMA VSteps == VInv /\ [Next]_vars => VInv'
<1>1. VInv /\ Validate => VInv'
  BY VReadsRow, VAsks, VReadsProfile, VFetches, VChecks DEF Validate
<1> QED BY <1>1, VPlays, VStoresLate, VBegins, VStutters DEF Next

LEMMA SaidRight == Spec => []VInv
<1>1. Init => VInv
  BY VStarts
<1>2. VInv /\ [Next]_vars => VInv'
  BY VSteps
<1> QED BY <1>1, <1>2, PTL DEF Spec

-----------------------------------------------------------------------------
(* What a verdict can be made from.                                        *)

LEMMA ThisTrail ==
  ASSUME IInv, inherited = <<>>
  PROVE  Events = trail /\ Len(trail) \in Nat /\ DOMAIN trail = 1..Len(trail)
<1>1. trail \in Seq({trail[m] : m \in DOMAIN trail})
  BY DEF IInv
<1> QED BY <1>1, ConcatEmptySeq DEF Events

LEMMA IngestedAre ==
  ASSUME batch \in Batches, NEW s \in Scenarios, NEW x \in Ingested(s)
  PROVE  x \in AllFacts /\ x \in FactsOf(s) /\ x[1] = s
<1>1. x \in FactsOf(s)
  BY DEF Ingested
<1> QED BY <1>1 DEF AllFacts, FactsOf

\* A fact whose texts the engine has extracted is one that is looked at.
LEMMA Looked ==
  ASSUME NEW s, NEW x \in Ingested(s), SpecOf(x).says # <<>>
  PROVE  x \in ToCollect(s)
BY DEF ToCollect, Extracted, ExtractedNothing

\* Only the engine's ids are ever replaced, and only by the fact that says so.
LEMMA ReplacedBy ==
  ASSUME IInv, NEW s \in Scenarios, NEW x \in Ingested(s), SpecOf(x).says # <<>>,
         NEW y \in Replacers(x)
  PROVE  /\ EngineIds(x) /\ RefId(x) = FactId(x) /\ EngineIds(y) /\ RefId(y) = FactId(y)
         /\ y \in recorded /\ y \in Ingested(s) /\ Event(y).old = FactId(x)
         /\ y[1] = x[1] /\ x[2] < y[2] /\ FactId(y) # FactId(x)
<1>1. /\ batch \in Batches /\ recorded \subseteq AllFacts
      /\ x \in AllFacts /\ x[1] = s
  BY IngestedAre DEF IInv, Accounted
<1>2. /\ y \in Ingested(s) /\ x[2] < y[2] /\ OldId(y) # NoId /\ OldId(y) = RefId(x)
      /\ UserOf(y) = UserOf(x)
  BY <1>1 DEF Replacers, After
<1>3. y \in recorded /\ HasPrior(y) /\ RefId(x) = FactId(Prior(y))
  BY <1>2 DEF OldId
<1>4. y \in AllFacts /\ y[1] = s
  BY <1>1, <1>2, IngestedAre
<1>5. Prior(y) \in AllFacts
  BY <1>1, <1>3, <1>4, PriorRecorded
<1>6. Prior(y) = x /\ FactId(x) = RefId(x)
  <2>1. RefId(x) = FactId(x) \/ RefId(x) = Synthetic(x)
    BY DEF RefId
  <2> QED BY <1>1, <1>3, <1>5, <2>1, IdsDiffer
<1>7. FactId(x) # Synthetic(x)
  <2>1. FactId(x) = Memory(x, 1)
    BY DEF FactId
  <2> QED BY <2>1 DEF Memory, Synthetic
<1>8. EngineIds(x) /\ EngineIds(y)
  BY <1>3, <1>6, <1>7 DEF RefId, EngineIds
<1>9. RefId(y) = FactId(y)
  BY <1>8 DEF RefId
<1>10. Event(y).old = FactId(x)
  BY <1>2, <1>3, <1>6 DEF Event
<1>11. FactId(y) # FactId(x)
  <2>1. y # x
    <3>1. x[2] \in Nat
      BY <1>1, FactsAre
    <3> QED BY <1>2, <3>1
  <2> QED BY <1>1, <1>4, <2>1, IdsDiffer
<1> QED BY <1>1, <1>2, <1>3, <1>4, <1>6, <1>8, <1>9, <1>10, <1>11

\* The trail tells that a replaced fact is inactive, if it has events of both.
LEMMA TrailSaysInactive ==
  ASSUME IInv, TrailTold, inherited = <<>>, NEW s \in Scenarios, AuditEventLogged(s) # "failed",
         NEW x \in Ingested(s), SpecOf(x).says # <<>>, Superseded(x)
  PROVE  AuditState(x).available /\ AuditState(x).active = FALSE
<1>1. PICK y \in Replacers(x) : TRUE
  BY DEF Superseded
<1>2. /\ RefId(x) = FactId(x) /\ RefId(y) = FactId(y)
      /\ y \in recorded /\ y \in Ingested(s) /\ Event(y).old = FactId(x)
      /\ y[1] = x[1] /\ x[2] < y[2] /\ FactId(y) # FactId(x) /\ x \in recorded
  BY ReplacedBy DEF EngineIds
<1>3. Own(x) # {} /\ Own(y) # {}
  BY <1>2 DEF AuditEventLogged, Judge
<1>4. Events = trail /\ Len(trail) \in Nat /\ DOMAIN trail = 1..Len(trail)
  BY ThisTrail
<1> DEFINE mine == ForFact(RefId(x), UserOf(x))
<1>5. mine \subseteq EventsOf(FactId(x)) /\ mine # {}
  BY <1>2, <1>3 DEF ForFact, Scoped, Own
<1>6. mine \subseteq 1..Len(trail) /\ \A n \in mine : trail[n].fact = FactId(x)
  BY <1>4, <1>5 DEF EventsOf
<1> HIDE DEF mine
<1>7. LastOf(mine) \in mine
  <2>1. \E m \in mine : \A n \in mine : n <= m
    BY <1>4, <1>5, <1>6, HasGreatest
  <2> QED BY <2>1 DEF LastOf
<1>8. PICK n \in EventsOf(FactId(y)) : TRUE
  BY <1>2, <1>3 DEF ForFact, Scoped, Own
<1>9. n \in DOMAIN trail /\ trail[n].fact = FactId(y)
  BY <1>4 DEF EventsOf
<1>10. trail[n] = Event(y)
  <2>1. PICK z \in recorded : trail[n] = Event(z)
    BY <1>9 DEF TrailTold
  <2>2. z \in AllFacts /\ y \in AllFacts /\ batch \in Batches
    BY <1>2 DEF IInv, Accounted
  <2>3. FactId(z) = FactId(y)
    BY <1>9, <2>1 DEF Event
  <2>4. z = y
    BY <2>2, <2>3, IdsDiffer
  <2> QED BY <2>1, <2>4
<1>11. n \in Supersedes(RefId(x))
  BY <1>2, <1>4, <1>9, <1>10 DEF Supersedes
<1>12. LastOf(mine) < n
  <2>1. LastOf(mine) \in DOMAIN trail /\ trail[LastOf(mine)].fact = FactId(x)
    BY <1>4, <1>6, <1>7
  <2> QED BY <1>2, <1>9, <2>1 DEF TrailTold
<1>13. n \in Superseding(x)
  <2>1. n \in Nat
    BY <1>4, <1>9
  <2>2. LastOf(mine) \in Nat
    <3>1. LastOf(mine) \in 1..Len(trail)
      BY <1>6, <1>7
    <3> QED BY <1>4, <3>1
  <2>3. n >= LastOf(mine)
    BY <1>12, <2>1, <2>2
  <2> QED BY <1>5, <1>11, <2>3 DEF Superseding, mine
<1>14. Superseding(x) # {} /\ mine # {}
  BY <1>5, <1>13
<1> QED BY <1>14 DEF AuditState, Says, mine

\* A memory that is stored is found when its own text is asked for: it is in the
\* answer, or the answer is full of others with that text.
LEMMA AskedIsFound ==
  ASSUME IInv, StoreKept, NEW x \in AllFacts, EngineIds(x), SpecOf(x).says # <<>>,
         ~Legacy("compare_utterance_text"), Memory(x, 1) \in vectors,
         NEW memories \in Ranked(UserOf(x), Query(x))
  PROVE  ApiState(x, memories).available /\ ApiState(x, memories).active = TRUE
<1> DEFINE v == Memory(x, 1)
<1>1. batch \in Batches
  BY DEF IInv
<1>2. 1 \in DOMAIN SpecOf(x).says
  BY <1>1, FactShape
<1>3. /\ v \in Triples /\ v \in MemoryIds(x) /\ UserOfMemory(v) = UserOf(x)
      /\ TextsMatch(TextOf(v), TextOf(v))
  BY <1>1, <1>2, TripleShape, TripleText
<1> HIDE DEF v
<1>4. RefMemories(x) = MemoryIds(x) /\ TextOf(v) \in StoredTexts(x)
  BY <1>3 DEF RefMemories, StoredTexts
<1>5. Query(x) = TextOf(v) /\ TextOf(v) \in MatchTexts(x)
  BY <1>4 DEF Query, MatchTexts, v
<1>6. v \in Live(UserOf(x))
  BY <1>3 DEF Live, v
<1> DEFINE exact == {w \in Live(UserOf(x)) : TextOf(w) = TextOf(v)}
<1>7. /\ Cardinality(memories) = TopK \/ memories = Live(UserOf(x))
      /\ exact \subseteq memories \/ memories \subseteq exact
  BY <1>5 DEF Ranked
<1>8. FoundById(x, memories) \/ FoundByText(x, memories)
  <2>1. CASE v \in memories
    BY <1>3, <1>4, <2>1 DEF FoundById
  <2>2. CASE v \notin memories
    <3>1. v \in exact
      BY <1>6
    <3>2. memories \subseteq exact /\ Cardinality(memories) = TopK
      BY <1>6, <1>7, <2>2, <3>1
    <3>3. memories # {}
      <4>1. TopK # 0
        BY ValidationAssumption
      <4> QED BY <3>2, <4>1, FS_EmptySet
    <3>4. PICK w \in memories : TextOf(w) = TextOf(v)
      BY <3>2, <3>3
    <3> QED BY <1>3, <1>5, <3>4 DEF FoundByText
  <2> QED BY <2>1, <2>2
<1> QED BY <1>8 DEF ApiState, Says

\* Two methods that differ are a dispute.
LEMMA TwoVerdicts ==
  ASSUME NEW states, states.api.available, states.audit.available,
         states.api.active = TRUE, states.audit.active = FALSE
  PROVE  ~Agreed(states)
<1>1. IsFiniteSet(Methods)
  <2>1. Methods = ((({} \cup {"db"}) \cup {"api"}) \cup {"audit"}) \cup {"profile"}
    BY DEF Methods
  <2> QED BY <2>1, FS_AddElement, FS_EmptySet
<1>2. IsFiniteSet(Available(states))
  BY <1>1, FS_Subset DEF Available
<1>3. IsFiniteSet(Verdicts(states))
  <2> DEFINE Active == [m \in Available(states) |-> states[m].active]
  <2>1. Active \in Surjection(Available(states), Verdicts(states))
    BY DEF Surjection, Verdicts
  <2> QED BY <1>2, <2>1, FS_Surjection
<1>4. {TRUE, FALSE} \subseteq Verdicts(states)
  <2>1. "api" \in Available(states) /\ "audit" \in Available(states)
    BY DEF Available, Methods
  <2> QED BY <2>1 DEF Verdicts
<1>5. Cardinality({TRUE, FALSE}) = 2
  <2>1. ASSUME NEW a, NEW b, a # b PROVE Cardinality({a, b}) = 2
    <3>1. IsFiniteSet({a}) /\ Cardinality({a}) = 1 /\ b \notin {a}
      BY <2>1, FS_Singleton
    <3>2. {a, b} = {a} \cup {b}
      OBVIOUS
    <3> QED BY <3>1, <3>2, FS_AddElement
  <2>2. TRUE # FALSE
    OBVIOUS
  <2> QED BY <2>1, <2>2, Zenon
<1>6. Cardinality({TRUE, FALSE}) <= Cardinality(Verdicts(states))
  BY <1>3, <1>4, FS_Subset
<1>7. Cardinality(Verdicts(states)) \in Nat
  BY <1>3, FS_CardinalityType
<1> QED BY <1>5, <1>6, <1>7 DEF Agreed

\* What a scenario that passes says of one of its facts.
LEMMA OfOneFact ==
  ASSUME VInv, NEW s \in Scenarios, ToCollect(s) \subseteq DOMAIN seen,
         disputed \cap FactsOf(s) = {}, Answered(s), ~stirred,
         NEW x \in Ingested(s), x \in recorded, SpecOf(x).says # <<>>
  PROVE  /\ x \in AllFacts /\ x \in DOMAIN seen /\ Agreed(seen[x])
         /\ seen[x].api.available /\ seen[x].audit = AuditState(x)
         /\ \E memories \in Ranked(UserOf(x), Query(x)) : seen[x].api = ApiState(x, memories)
<1>1. SeenRight /\ batch \in Batches
  BY DEF VInv, IInv
<1>2. x \in DOMAIN seen
  BY Looked
<1>3. x \in AllFacts /\ x \in FactsOf(s)
  BY <1>1, IngestedAre
<1>4. seen[x].api.available
  BY <1>2, <1>3 DEF Answered
<1>5. ApiRight(x, seen[x].api) /\ seen[x].audit = AuditState(x) /\ Agreed(seen[x])
  BY <1>1, <1>2, <1>3 DEF SeenRight
<1> QED BY <1>2, <1>3, <1>4, <1>5 DEF ApiRight

\* A fact that was replaced and passes cannot be retrieved.
LEMMA ReplacedIsGone ==
  ASSUME VInv, NEW s \in Scenarios, ToCollect(s) \subseteq DOMAIN seen,
         disputed \cap FactsOf(s) = {}, Answered(s), ~stirred, inherited = <<>>,
         AuditEventLogged(s) # "failed",
         NEW x \in Ingested(s), x \in recorded, SpecOf(x).says # <<>>,
         Superseded(x), ~Legacy("compare_utterance_text")
  PROVE  Memory(x, 1) \notin vectors
<1> SUFFICES ASSUME Memory(x, 1) \in vectors PROVE FALSE
  OBVIOUS
<1>1. IInv /\ TrailTold /\ StoreKept
  BY DEF VInv
<1>2. /\ x \in AllFacts /\ Agreed(seen[x])
      /\ seen[x].api.available /\ seen[x].audit = AuditState(x)
      /\ \E memories \in Ranked(UserOf(x), Query(x)) : seen[x].api = ApiState(x, memories)
  BY OfOneFact
<1>3. EngineIds(x)
  BY <1>1, ReplacedBy DEF Superseded
<1>4. seen[x].api.active = TRUE
  BY <1>1, <1>2, <1>3, AskedIsFound
<1>5. seen[x].audit.available /\ seen[x].audit.active = FALSE
  BY <1>1, <1>2, TrailSaysInactive
<1>6. ~Agreed(seen[x])
  BY <1>2, <1>4, <1>5, TwoVerdicts
<1> QED BY <1>2, <1>6

\* The first of the events that supersede x is one of them.
LEMMA NotForgiven ==
  ASSUME IInv, NEW s \in Scenarios, inherited = <<>>, NEW x \in Ingested(s),
         SpecOf(x).says # <<>>
  PROVE  Attribution(x) # "cross_scenario"
<1>1. Events = trail /\ Len(trail) \in Nat /\ DOMAIN trail = 1..Len(trail)
  BY ThisTrail
<1>2. CASE ~Legacy("synthetic_fact_ids")
  <2> SUFFICES ASSUME Superseding(x) # {}
               PROVE  Events[FirstOf(Superseding(x))].fact \in {RefId(y) : y \in Ingested(x[1])}
    BY DEF Attribution
  <2>1. Superseding(x) \subseteq Supersedes(RefId(x)) /\ Supersedes(RefId(x)) \subseteq Nat
    BY <1>1 DEF Superseding, Supersedes
  <2>2. FirstOf(Superseding(x)) \in Supersedes(RefId(x))
    BY <2>1, FirstIsIn
  <2> QED BY <1>2, <2>2, SupersededWithin
<1>3. CASE Legacy("synthetic_fact_ids")
  <2>1. RefId(x) = Synthetic(x)
    BY <1>3 DEF RefId, EngineIds
  <2>2. batch \in Batches /\ x \in AllFacts /\ recorded \subseteq AllFacts
    BY IngestedAre DEF IInv, Accounted
  <2>3. Supersedes(RefId(x)) = {}
    <3> SUFFICES ASSUME NEW n \in DOMAIN trail, trail[n].old = Synthetic(x) PROVE FALSE
      BY <1>1, <2>1 DEF Supersedes
    <3>1. Synthetic(x) # NoId
      BY <2>2, IdsDiffer
    <3>2. PICK y \in recorded : trail[n].old = FactId(y)
      BY <3>1 DEF IInv, EventsOwn
    <3>3. y = x
      BY <2>2, <3>2, IdsDiffer
    <3>4. FactId(x) = Memory(x, 1)
      BY DEF FactId
    <3> QED BY <3>2, <3>3, <3>4 DEF Memory, Synthetic
  <2>4. Superseding(x) = {}
    BY <2>3 DEF Superseding
  <2> QED BY <2>4 DEF Attribution
<1> QED BY <1>2, <1>3

\* A fact that nothing replaced and that passes can be retrieved.
LEMMA LastingIsThere ==
  ASSUME VInv, NEW s \in Scenarios, ToCollect(s) \subseteq DOMAIN seen,
         disputed \cap FactsOf(s) = {}, Answered(s), ~stirred, inherited = <<>>,
         FactRetrievable(s) # "failed", Distinct(s),
         NEW x \in Ingested(s), x \in recorded, SpecOf(x).says # <<>>,
         ~Superseded(x)
  PROVE  MemoryIds(x) \cap vectors # {}
<1>1. IInv /\ StoreKept /\ batch \in Batches
  BY DEF VInv, IInv
<1>2. PICK memories \in Ranked(UserOf(x), Query(x)) : seen[x].api = ApiState(x, memories)
  BY OfOneFact
<1>3. x \in AllFacts /\ x \in DOMAIN seen /\ seen[x].api.available
  BY OfOneFact
<1>4. State(x, "api") = seen[x].api
  BY <1>3 DEF State
<1>5. x \in Extracted(Lasting(s))
  BY DEF Extracted, ExtractedNothing, Lasting
<1>6. Attribution(x) # "cross_scenario"
  BY <1>1, NotForgiven
<1>7. seen[x].api.exists
  BY <1>3, <1>4, <1>5, <1>6 DEF FactRetrievable, Judge
<1>8. FoundById(x, memories) \/ FoundByText(x, memories)
  <2>1. ApiState(x, memories).exists = (FoundById(x, memories) \/ FoundByText(x, memories))
    BY DEF ApiState, Says
  <2> QED BY <1>2, <1>7, <2>1, Zenon
<1>9. memories \subseteq Live(UserOf(x)) /\ Live(UserOf(x)) \subseteq vectors
  BY DEF Ranked, Live
<1>10. CASE FoundById(x, memories)
  BY <1>9, <1>10 DEF FoundById, RefMemories
<1>11. CASE FoundByText(x, memories)
  <2>1. PICK v \in memories, t \in MatchTexts(x) : TextsMatch(t, TextOf(v))
    BY <1>11 DEF FoundByText
  <2>2. v \in vectors /\ v \in Triples /\ (defect = "leaks" \/ UserOfMemory(v) = UserOf(x))
    BY <1>1, <1>9 DEF StoreKept, Live
  <2>3. PICK w \in MemoryIds(x) : t = TextOf(w) \/ t = Utterance(x)
    <3>1. Memory(x, 1) \in MemoryIds(x)
      BY <1>1, <1>3, FactShape DEF MemoryIds
    <3>2. t = Utterance(x) \/ t \in StoredTexts(x)
      BY DEF MatchTexts
    <3>3. t \in StoredTexts(x) => \E m \in MemoryIds(x) : t = TextOf(m)
      BY DEF StoredTexts, RefMemories
    <3> QED BY <3>1, <3>2, <3>3
  <2>4. PICK j \in DOMAIN SpecOf(x).says : w = Memory(x, j)
    BY DEF MemoryIds
  <2>5. w \in TriplesOf(s) /\ FactOf(w) = x /\ UserOfMemory(w) = UserOf(x)
    <3>1. x[1] = s
      BY <1>1, IngestedAre
    <3> QED BY <1>1, <1>3, <2>4, <3>1, TripleShape DEF TriplesOf
  <2>6. Confusable(w, v) /\ MayMeet(w, v)
    BY <2>1, <2>2, <2>3, <2>5 DEF Confusable, MayMeet
  <2>7. w = v
    BY <2>2, <2>5, <2>6 DEF Distinct
  <2> QED BY <2>2, <2>7
<1> QED BY <1>8, <1>10, <1>11

\* At the verdict, the scenario's facts have been looked at.
LEMMA AtVerdict ==
  ASSUME VInv, RunChecks, NEW s \in Judged
  PROVE  /\ s = scen /\ s \in Scenarios /\ ToCollect(s) \subseteq DOMAIN seen
         /\ results'[s] = [o \in OutcomesFor(batch[s]) |-> Check(s, o)]
         /\ UNCHANGED <<batch, disputed>>
<1>1. InStep
  BY DEF VInv
<1>2. /\ scen \in Scenarios /\ todo = {} /\ stage = "validate" /\ Judged = {scen}
      /\ results'[scen] = [o \in OutcomesFor(batch[scen]) |-> Check(scen, o)]
  BY <1>1, OneMore
<1>3. ToCollect(scen) \subseteq DOMAIN seen
  BY <1>1, <1>2 DEF InStep
<1>4. UNCHANGED <<batch, disputed>>
  BY DEF RunChecks, setting, chosen
<1> QED BY <1>2, <1>3, <1>4

\* No scenario is judged but by the checkers.
LEMMA OnlyChecksJudge == [Next]_vars => RunChecks \/ Judged = {}
<1> SUFFICES ASSUME [Next]_vars, ~RunChecks PROVE results' = results
  BY DEF Judged
<1>1. CASE Play \/ StoreLate \/ Begin
  BY <1>1 DEF Play, StoreLate, Begin, progress
<1>2. CASE Validate
  BY <1>2 DEF Validate, ReadRow, RetrieveAgain, RetrieveAnswered, RetrieveFails, ReadProfile,
       FetchProfile, Untouched
<1>3. CASE UNCHANGED vars
  BY <1>3 DEF vars, progress
<1> QED BY <1>1, <1>2, <1>3 DEF Next

\* A passed scenario means what it says (validate, _compare, the checkers of what
\* is retrievable and of what is logged): for any scenarios, faults and defects,
\* what it tells replaced is gone, and what it does not can be retrieved.
THEOREM PassesMeanSo == Spec => PassMeansSo
<1> DEFINE Meant ==
      \A s \in Judged :
        ScenarioPassed(s)' /\ Answered(s) /\ ~stirred /\ inherited = <<>> =>
          \A x \in {y \in Ingested(s) \cap recorded : SpecOf(y).says # <<>>} :
            IF Superseded(x)
            THEN Legacy("compare_utterance_text") \/ Memory(x, 1) \notin vectors
            ELSE Distinct(s) => MemoryIds(x) \cap vectors # {}
<1>1. VInv /\ [Next]_vars => [Meant]_vars
  <2> SUFFICES ASSUME VInv, RunChecks, NEW s \in Judged,
                      ScenarioPassed(s)', Answered(s), ~stirred, inherited = <<>>,
                      NEW x \in Ingested(s), x \in recorded, SpecOf(x).says # <<>>
               PROVE  IF Superseded(x)
                      THEN Legacy("compare_utterance_text") \/ Memory(x, 1) \notin vectors
                      ELSE Distinct(s) => MemoryIds(x) \cap vectors # {}
    BY OnlyChecksJudge
  <2>1. /\ s \in Scenarios /\ ToCollect(s) \subseteq DOMAIN seen
        /\ results'[s] = [o \in OutcomesFor(batch[s]) |-> Check(s, o)]
        /\ UNCHANGED <<batch, disputed>>
    BY AtVerdict
  <2>2. disputed \cap FactsOf(s) = {}
    BY <2>1 DEF ScenarioPassed, FactsOf
  <2>3. \A o \in OutcomesFor(batch[s]) : Check(s, o) # "failed"
    BY <2>1 DEF ScenarioPassed, FailedOutcomes
  <2>4. FactRetrievable(s) # "failed" /\ AuditEventLogged(s) # "failed"
    <3>1. {"fact_retrievable", "audit_event_logged"} \subseteq OutcomesFor(batch[s])
      BY DEF OutcomesFor, BaseOutcomes
    <3>2. /\ Check(s, "fact_retrievable") = FactRetrievable(s)
          /\ Check(s, "audit_event_logged") = AuditEventLogged(s)
      BY DEF Check
    <3> QED BY <2>3, <3>1, <3>2
  <2>5. Superseded(x) /\ ~Legacy("compare_utterance_text") => Memory(x, 1) \notin vectors
    BY <2>1, <2>2, <2>4, ReplacedIsGone
  <2>6. ~Superseded(x) /\ Distinct(s) => MemoryIds(x) \cap vectors # {}
    BY <2>1, <2>2, <2>4, LastingIsThere
  <2> QED BY <2>5, <2>6
<1>2. Spec => [][Meant]_vars
  BY <1>1, SaidRight, PTL DEF Spec
<1> QED BY <1>2 DEF PassMeansSo

-----------------------------------------------------------------------------
(* Leaks.                                                                  *)

\* An event is the one of the fact whose id it has, under either kind of id.
LEMMA EventTold ==
  ASSUME IInv, TrailTold, inherited = <<>>, NEW s \in Scenarios, NEW x \in Ingested(s),
         NEW n \in EventsOf(RefId(x))
  PROVE  Events[n] = Event(x) /\ x \in recorded
<1>1. Events = trail
  BY ThisTrail
<1>2. n \in DOMAIN trail /\ trail[n].fact = RefId(x)
  BY <1>1 DEF EventsOf
<1>3. PICK z \in recorded : trail[n] = Event(z)
  BY <1>2 DEF TrailTold
<1>4. batch \in Batches /\ recorded \subseteq AllFacts /\ x \in AllFacts
  BY IngestedAre DEF IInv, Accounted
<1>5. FactId(z) = FactId(x) \/ FactId(z) = Synthetic(x)
  BY <1>2, <1>3 DEF Event, RefId
<1>6. z = x
  BY <1>4, <1>5, IdsDiffer
<1> QED BY <1>1, <1>3, <1>6

\* What a user is shown and the store still has is the user's own.
LEMMA ShownIsOwned ==
  ASSUME VInv, NEW s \in Scenarios, StillShown(s), ~Legacy("script_decides_ownership"),
         defect \notin {"leaks", "keeps_old"}, ~torn,
         NEW v \in vectors, UserOfMemory(v) \in UsersOf(s)
  PROVE  UserOwns(UserOfMemory(v), TextOf(v))
<1> PICK u : u = UserOfMemory(v)
  OBVIOUS
<1>1. StoreKept /\ batch \in Batches
  BY DEF VInv, IInv
<1>2. v \in Triples
  BY <1>1 DEF StoreKept
<1>3. PICK r \in rows : RowKeeps(r, v)
  BY <1>1 DEF StoreKept
<1>4. r.user = u /\ r.id = v
  BY <1>3 DEF RowKeeps
<1>5. TextOf(v) \in RowTexts(u)
  BY <1>4 DEF RowTexts, RowsOfUser, RowText
<1>6. TextOf(v) \in OwnedTexts(u)
  BY <1>5 DEF OwnedTexts, StillShown
<1>7. TextsMatch(TextOf(v), TextOf(v))
  BY <1>1, <1>2, TripleText
<1> QED BY <1>6, <1>7 DEF UserOwns

LEMMA NoLeaks ==
  ASSUME VInv, NEW s \in Scenarios, StillShown(s), ~Legacy("script_decides_ownership"),
         defect \notin {"leaks", "keeps_old"}, ~torn
  PROVE  Leaks(s) = {}
<1>1. AnswersKept
  BY DEF VInv
<1>2. ASSUME NEW l \in ProfileSuspects(s) PROVE UserOwns(l[1], l[2])
  <2>1. PICK u \in UsersOf(s) : l[1] = u /\ l[2] \in Entries(u)
    BY DEF ProfileSuspects
  <2>2. PICK p \in profiled : p.user = u /\ l[2] \in p.entries
    BY <2>1 DEF Entries
  <2>3. l[2] \in ListedNow(u)
    BY <2>1, <2>2 DEF StillShown, ProfilesOf
  <2>4. PICK v \in vectors : l[2] = TextOf(v) /\ UserOfMemory(v) = u
    BY <2>3 DEF ListedNow, Live
  <2> QED BY <2>1, <2>4, ShownIsOwned
<1>3. ASSUME NEW l \in RetrievalSuspects(s) PROVE UserOwns(l[1], l[2])
  <2>1. PICK r \in QueriesOf(s) : \E w \in r.memories : l[1] = r.user /\ l[2] = TextOf(w)
    BY DEF RetrievalSuspects
  <2> PICK v \in r.memories : l[1] = r.user /\ l[2] = TextOf(v)
    BY <2>1
  <2>2. r \in retrieved /\ r.user \in UsersOf(s)
    BY <2>1 DEF QueriesOf
  <2>3. UserOfMemory(v) = r.user /\ v \in vectors
    BY <1>1, <2>2 DEF AnswersKept, StillShown
  <2> QED BY <2>2, <2>3, ShownIsOwned
<1> QED BY <1>2, <1>3 DEF Leaks, Suspects

\* user_isolation_ok fails a scenario for a reason only (_profile_leaks,
\* _retrieval_leaks, _user_owns_text and the rows and events they sit next to):
\* for any scenarios and faults, what an engine without leaks shows is no leak.
THEOREM LeaksAreReal == Spec => NoFalseLeak
<1> DEFINE Right ==
      \A s \in Judged :
        /\ defect \notin {"leaks", "keeps_old"} /\ ~torn /\ StillShown(s)
        /\ ~Legacy("script_decides_ownership") /\ inherited = <<>>
        => results'[s]["user_isolation_ok"] # "failed"
<1>1. VInv /\ [Next]_vars => [Right]_vars
  <2> SUFFICES ASSUME VInv, RunChecks, NEW s \in Judged,
                      defect \notin {"leaks", "keeps_old"}, ~torn, StillShown(s),
                      ~Legacy("script_decides_ownership"), inherited = <<>>
               PROVE  results'[s]["user_isolation_ok"] # "failed"
    BY OnlyChecksJudge
  <2>1. /\ s \in Scenarios
        /\ results'[s] = [o \in OutcomesFor(batch[s]) |-> Check(s, o)]
    BY AtVerdict
  <2>2. "user_isolation_ok" \in OutcomesFor(batch[s])
    BY DEF OutcomesFor, BaseOutcomes
  <2>3. Check(s, "user_isolation_ok") = UserIsolationOk(s)
    BY DEF Check
  <2>4. /\ IInv /\ TrailTold /\ SeenRight
    BY DEF VInv
  <2>5. ASSUME NEW x \in Ingested(s), State(x, "db").available
        PROVE  State(x, "db").user = UserOf(x)
    <3>1. x \in DOMAIN seen
      BY <2>5 DEF State, Unavailable
    <3>2. State(x, "db") = seen[x].db
      BY <3>1 DEF State
    <3> QED BY <2>4, <2>5, <3>1, <3>2 DEF SeenRight, DbRight
  <2>6. MisfiledEvents(s) = {}
    <3>1. ASSUME NEW x \in Ingested(s), NEW n \in EventsOf(RefId(x))
          PROVE  Events[n].user = UserOf(x)
      <4>1. Events[n] = Event(x)
        BY <2>1, <2>4, EventTold
      <4> QED BY <4>1 DEF Event
    <3> QED BY <3>1 DEF MisfiledEvents
  <2>7. Leaks(s) = {}
    BY <2>1, NoLeaks
  <2>8. UserIsolationOk(s) # "failed"
    BY <2>5, <2>6, <2>7 DEF UserIsolationOk, Judge
  <2> QED BY <2>1, <2>2, <2>3, <2>8
<1>2. Spec => [][Right]_vars
  BY <1>1, SaidRight, PTL DEF Spec
<1> QED BY <1>2 DEF NoFalseLeak
=============================================================================
