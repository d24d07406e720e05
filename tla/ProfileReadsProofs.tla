------------------------- MODULE ProfileReadsProofs -------------------------
(* Types and the staleness of profiles, for any scenarios and TTLs.        *)
EXTENDS ProfileReads, WellFoundedInduction, TLAPS

USE ReadsAssumption

-----------------------------------------------------------------------------
(* Numbers.                                                                *)

LEMMA HasLeast ==
  ASSUME NEW S, S \subseteq Nat, S # {}
  PROVE  \E m \in S : \A n \in S : m <= n
<1>1. PICK m \in S : \A n \in S : <<n, m>> \notin OpToRel(<, Nat)
  BY NatLessThanWellFounded, WFMin, Zenon
<1>2. \A n \in S : ~(n < m)
  BY <1>1 DEF OpToRel
<1> QED BY <1>2

\* So has a set of integers that is bounded below, and one bounded above a greatest.
LEMMA BoundedLeast ==
  ASSUME NEW k \in Nat, NEW S, S # {}, \A n \in S : n \in Int /\ 0 - k <= n
  PROVE  \E m \in S : \A n \in S : m <= n
<1> DEFINE T == {n + k : n \in S}
<1>1. T \subseteq Nat /\ T # {}
  <2>1. \A n \in S : n + k \in Nat
    OBVIOUS
  <2> QED BY <2>1
<1>2. PICK t \in T : \A u \in T : t <= u
  BY <1>1, HasLeast
<1>3. PICK m \in S : t = m + k
  OBVIOUS
<1>4. \A n \in S : m + k <= n + k
  BY <1>2, <1>3
<1> QED BY <1>4

LEMMA BoundedGreatest ==
  ASSUME NEW k \in Nat, NEW S, S # {}, \A n \in S : n \in Nat /\ n <= k
  PROVE  \E m \in S : \A n \in S : n <= m
<1> DEFINE T == {k - n : n \in S}
<1>1. T \subseteq Nat /\ T # {}
  <2>1. \A n \in S : k - n \in Nat
    OBVIOUS
  <2> QED BY <2>1
<1>2. PICK t \in T : \A u \in T : t <= u
  BY <1>1, HasLeast
<1>3. PICK m \in S : t = k - m
  OBVIOUS
<1>4. \A n \in S : k - m <= k - n
  BY <1>2, <1>3
<1> QED BY <1>4

-----------------------------------------------------------------------------
(* Events, their times and the reads before them.                          *)

\* Events are positions in the scenarios' facts, and are due within the run.
LEMMA EventsAre ==
  ASSUME kind \in [Scenarios -> Kinds]
  PROVE  /\ AllEvents = {x \in Scenarios \X (Nat \ {0}) : x[2] \in Facts(x[1])}
         /\ \A s \in Scenarios : Facts(s) = 1..Len(kind[s].facts) /\ Len(kind[s].facts) \in Nat
<1>1. \A s \in Scenarios : Facts(s) = 1..Len(kind[s].facts) /\ Len(kind[s].facts) \in Nat
  BY DEF Facts
<1>2. ASSUME NEW x \in AllEvents
      PROVE  x \in Scenarios \X (Nat \ {0}) /\ x[2] \in Facts(x[1])
  <2>1. PICK s \in Scenarios : x \in {s} \X Facts(s)
    BY DEF AllEvents
  <2> QED BY <1>1, <2>1
<1>3. ASSUME NEW x \in Scenarios \X (Nat \ {0}), x[2] \in Facts(x[1])
      PROVE  x \in AllEvents
  <2>1. x \in {x[1]} \X Facts(x[1])
    BY <1>3
  <2> QED BY <2>1 DEF AllEvents
<1> QED BY <1>1, <1>2, <1>3

LEMMA Timed ==
  ASSUME IInv, NEW x \in AllEvents
  PROVE  At(x) \in 0..Duration
<1>1. kind \in [Scenarios -> Kinds]
  BY DEF IInv
<1>2. x[1] \in Scenarios /\ x[2] \in Facts(x[1])
  BY <1>1, EventsAre
<1>3. times[x[1]] \in [Facts(x[1]) -> 0..Duration]
  BY <1>2 DEF IInv, TypeOK
<1> QED BY <1>2, <1>3 DEF At

\* The read before a repeated one is a read of its scenario.
LEMMA PreviousIs ==
  ASSUME IInv, NEW x \in Repeated
  PROVE  /\ Previous(x) \in AllEvents /\ Previous(x)[1] = x[1] /\ Previous(x)[2] < x[2]
         /\ Expected(Previous(x)) # "fact" /\ \A j \in Earlier(x) : j <= Previous(x)[2]
<1>1. x \in AllEvents /\ Earlier(x) # {}
  BY DEF Repeated
<1>2. x[1] \in Scenarios /\ x[2] \in Nat
  BY <1>1, EventsAre DEF IInv
<1>3. \A j \in Earlier(x) : j \in Facts(x[1]) /\ j \in Nat \ {0} /\ j < x[2]
  <2>1. kind \in [Scenarios -> Kinds]
    BY DEF IInv
  <2>2. Facts(x[1]) = 1..Len(kind[x[1]].facts) /\ Len(kind[x[1]].facts) \in Nat
    BY <1>2, <2>1, EventsAre
  <2>3. Facts(x[1]) \subseteq Nat \ {0}
    BY <2>2
  <2> QED BY <2>3 DEF Earlier, Reads
<1>4. \E j \in Earlier(x) : \A k \in Earlier(x) : k <= j
  <2>1. \A j \in Earlier(x) : j \in Nat /\ j <= x[2]
    BY <1>2, <1>3
  <2> QED BY <1>1, <1>2, <2>1, BoundedGreatest
<1> DEFINE j == CHOOSE i \in Earlier(x) : \A k \in Earlier(x) : k <= i
<1>5. j \in Earlier(x) /\ Previous(x) = <<x[1], j>>
  BY <1>4 DEF Previous
<1>6. <<x[1], j>> \in AllEvents
  BY <1>2, <1>3, <1>5, EventsAre DEF IInv
<1>7. Expected(Previous(x)) # "fact" /\ \A k \in Earlier(x) : k <= Previous(x)[2]
  BY <1>4, <1>5 DEF Earlier, Reads, Expected
<1> QED BY <1>3, <1>5, <1>6, <1>7

LEMMA Gaps ==
  ASSUME IInv, NEW x \in Repeated
  PROVE  Gap(x) \in Int /\ 0 - Duration <= Gap(x)
<1>1. x \in AllEvents /\ Previous(x) \in AllEvents
  BY PreviousIs DEF Repeated
<1>2. At(x) \in 0..Duration /\ At(Previous(x)) \in 0..Duration
  BY <1>1, Timed
<1> QED BY <1>2 DEF Gap

\* The plan has a TTL to plan for when some miss is asked for, and none of those
\* misses has less room.
LEMMA TtlType ==
  ASSUME IInv, NEW x \in MissGaps
  PROVE  Upper \in Int /\ Upper <= Gap(x) /\ (~TooShort => PlannedTtl \in Nat)
<1> DEFINE gaps == {Gap(y) : y \in MissGaps}
<1>1. MissGaps \subseteq Repeated
  BY DEF MissGaps
<1>2. gaps # {} /\ \A g \in gaps : g \in Int /\ 0 - Duration <= g
  BY <1>1, Gaps
<1>3. \E g \in gaps : \A h \in gaps : g <= h
  BY <1>2, BoundedLeast
<1>4. \E g \in gaps : \A y \in MissGaps : g <= Gap(y)
  BY <1>3
<1>5. Upper \in gaps /\ Upper <= Gap(x)
  BY <1>4 DEF Upper
<1>6. Upper \in Int /\ Upper <= Gap(x)
  BY <1>2, <1>5
<1>7. ASSUME ~TooShort PROVE PlannedTtl \in Nat
  <2>1. CASE configured = Null
    <3>1. Upper > 2 * Margin
      BY <1>6, <1>7, <2>1 DEF TooShort
    <3>2. Upper \div 2 \in Nat
      BY <1>6, <3>1
    <3> QED BY <1>7, <2>1, <3>2 DEF PlannedTtl
  <2>2. CASE configured # Null
    BY <1>7, <2>2 DEF PlannedTtl, IInv
  <2> QED BY <2>1, <2>2
<1> QED BY <1>6, <1>7

-----------------------------------------------------------------------------
(* The plan keeps the invariant.                                           *)

\* What is moved stays within the run: between the read before it and its time.
LEMMA RetimedType ==
  ASSUME IInv, NEW t \in Nat, NEW s \in Scenarios
  PROVE  Retimed(t)[s] \in [Facts(s) -> 0..Duration]
<1> SUFFICES ASSUME NEW i \in Facts(s)
             PROVE  (IF <<s, i>> \in Movable(t)
                     THEN At(Previous(<<s, i>>)) + TargetGap(t) ELSE times[s][i]) \in 0..Duration
  BY DEF Retimed
<1>1. CASE <<s, i>> \in Movable(t)
  <2> DEFINE x == <<s, i>>
  <2>1. x \in Repeated /\ Gap(x) > TargetGap(t)
    BY <1>1 DEF Movable, Far, HitReads
  <2>2. x \in AllEvents /\ Previous(x) \in AllEvents
    BY <2>1, PreviousIs DEF Repeated
  <2>3. At(x) \in 0..Duration /\ At(Previous(x)) \in 0..Duration
    BY <2>2, Timed
  <2>4. TargetGap(t) \in Nat
    BY DEF TargetGap
  <2>5. At(Previous(x)) + TargetGap(t) \in 0..Duration
    BY <2>1, <2>3, <2>4 DEF Gap
  <2> QED BY <1>1, <2>5
<1>2. CASE <<s, i>> \notin Movable(t)
  BY <1>2 DEF IInv, TypeOK
<1> QED BY <1>1, <1>2

\* With the facts, the users and the clock, their predicates stay.
LEMMA SetupStays ==
  ASSUME UNCHANGED setup
  PROVE  UNCHANGED <<AllEvents, Repeated>> /\ \A x : Expected(x)' = Expected(x)
                   /\ \A s : Facts(s)' = Facts(s)
  BY DEF setup, AllEvents, Repeated, Reads, Earlier, Facts, Expected

LEMMA Planned == IInv /\ Plan => IInv'
<1> SUFFICES ASSUME IInv, Plan PROVE IInv'
  OBVIOUS
<1>1. UNCHANGED <<setup, clock, lag, row, learned, when, answer>>
  BY DEF Plan
<1>2. UNCHANGED <<kind, user, configured, engineTtl>>
  BY <1>1 DEF setup
<1>3. /\ UNCHANGED <<AllEvents, Repeated>> /\ \A x : Expected(x)' = Expected(x)
      /\ \A s : Facts(s)' = Facts(s)
  BY <1>1, SetupStays
<1>4. /\ \A s \in Scenarios : times'[s] \in [Facts(s) -> 0..Duration]
      /\ DOMAIN times' = Scenarios /\ ttl' \in Nat \cup {Null} /\ marked' \subseteq Repeated
  <2>1. CASE MissGaps = {}
    BY <2>1 DEF Plan, PlannedTtl, IInv, TypeOK
  <2>2. CASE MissGaps # {} /\ TooShort
    <3>1. ttl' = Null /\ marked' \subseteq MissGaps \cup HitReads /\ UNCHANGED times
      BY <2>2 DEF Plan, PlannedTtl, OutOfReach
    <3> QED BY <3>1 DEF MissGaps, HitReads, IInv, TypeOK
  <2>3. CASE MissGaps # {} /\ ~TooShort
    <3>1. PlannedTtl \in Nat
      BY <2>3, TtlType
    <3>2. /\ ttl' = PlannedTtl /\ times' = Retimed(PlannedTtl)
          /\ marked' \subseteq MissGaps \cup HitReads
      BY <2>3 DEF Plan, OutOfReach, Far
    <3>3. \A s \in Scenarios : times'[s] \in [Facts(s) -> 0..Duration]
      BY <3>1, <3>2, RetimedType
    <3>4. DOMAIN times' = Scenarios
      BY <3>2 DEF Retimed
    <3> QED BY <3>1, <3>2, <3>3, <3>4 DEF MissGaps, HitReads
  <2> QED BY <2>1, <2>2, <2>3
<1>5. TypeOK'
  BY <1>1, <1>2, <1>3, <1>4 DEF IInv, TypeOK, Plan
<1>6. RowsHold' /\ LearnedPlayed' /\ BoundedStaleness' /\ Answered' = Answered
  BY <1>1, <1>2, <1>3 DEF IInv, RowsHold, LearnedPlayed, BoundedStaleness, Answered
<1> QED BY <1>1, <1>2, <1>3, <1>4, <1>5, <1>6 DEF IInv

-----------------------------------------------------------------------------
(* Playing an event moves the clock on, and is not done twice.             *)

LEMMA PlaysIs ==
  ASSUME IInv, NEW x \in AllEvents, Plays(x)
  PROVE  /\ x[1] \in Scenarios /\ user[x[1]] \in Users
         /\ when[x] = Null /\ answer[x] = Null
         /\ lag' \in 0..MaxLag /\ clock' \in 0..Duration + MaxLag
         /\ clock <= clock' /\ clock' <= Duration + lag'
         /\ when' = [when EXCEPT ![x] = clock']
         /\ UNCHANGED <<setup, plan>>
<1>1. /\ x \in Unplayed /\ UNCHANGED <<setup, plan>>
      /\ when' = [when EXCEPT ![x] = clock']
  BY DEF Plays, Due
<1>2. PICK late \in 0..MaxLag - lag :
        lag' = lag + late /\ clock' = late + (IF clock > At(x) THEN clock ELSE At(x))
  BY DEF Plays
<1>3. At(x) \in 0..Duration
  BY Timed
<1>4. clock \in 0..Duration + MaxLag /\ lag \in 0..MaxLag /\ clock <= Duration + lag
  BY DEF IInv, TypeOK
<1>5. late \in Nat /\ lag + late <= MaxLag
  BY <1>2, <1>4
<1>6. /\ lag' \in 0..MaxLag /\ clock' \in Nat
      /\ clock <= clock' /\ clock' <= Duration + lag'
  BY <1>2, <1>3, <1>4, <1>5
<1>7. clock' \in 0..Duration + MaxLag
  BY <1>6
<1>8. when[x] = Null
  BY <1>1 DEF Unplayed
<1>9. answer[x] = Null
  BY <1>8 DEF IInv, Answered
<1>10. x[1] \in Scenarios /\ user[x[1]] \in Users
  <2>1. kind \in [Scenarios -> Kinds] /\ user \in [Scenarios -> Users]
    BY DEF IInv
  <2>2. x[1] \in Scenarios
    BY <2>1, EventsAre
  <2> QED BY <2>1, <2>2
<1> QED BY <1>1, <1>6, <1>7, <1>8, <1>9, <1>10

\* What all three ways to play an event keep.
LEMMA PlaysKeeps ==
  ASSUME IInv, NEW x \in AllEvents, Plays(x)
  PROVE  /\ UNCHANGED <<kind, user, times, configured, engineTtl, ttl, planned, marked>>
         /\ UNCHANGED AllEvents /\ \A y : Expected(y)' = Expected(y)
         /\ \A s \in Scenarios : times'[s] \in [Facts(s)' -> 0..Duration]
         /\ marked' \subseteq Repeated'
         /\ when' \in [AllEvents -> Nat \cup {Null}]
         /\ when'[x] = clock' /\ \A y \in AllEvents \ {x} : when'[y] = when[y]
         /\ \A y \in AllEvents : when'[y] # Null => when'[y] <= clock'
<1>1. /\ when' = [when EXCEPT ![x] = clock'] /\ UNCHANGED <<setup, plan>>
      /\ clock' \in Nat /\ clock <= clock'
  BY PlaysIs
<1>2. UNCHANGED <<kind, user, times, configured, engineTtl, ttl, planned, marked>>
  BY <1>1 DEF setup, plan
<1>3. /\ UNCHANGED <<AllEvents, Repeated>> /\ \A y : Expected(y)' = Expected(y)
      /\ \A s : Facts(s)' = Facts(s)
  BY <1>1, SetupStays
<1>4. /\ \A s \in Scenarios : times'[s] \in [Facts(s)' -> 0..Duration]
      /\ marked' \subseteq Repeated'
  BY <1>2, <1>3 DEF IInv, TypeOK
<1>5. when \in [AllEvents -> Nat \cup {Null}] /\ clock \in Nat
  BY DEF IInv, TypeOK
<1>6. /\ when' \in [AllEvents -> Nat \cup {Null}]
      /\ when'[x] = clock' /\ \A y \in AllEvents \ {x} : when'[y] = when[y]
  BY <1>1, <1>5
<1>7. ASSUME NEW y \in AllEvents, when'[y] # Null PROVE when'[y] <= clock'
  <2>1. CASE y = x
    BY <1>1, <1>6, <2>1
  <2>2. CASE y # x
    <3>1. when'[y] = when[y] /\ when[y] # Null /\ when[y] \in Nat
      BY <1>5, <1>6, <1>7, <2>2
    <3>2. when[y] <= clock
      BY <3>1 DEF IInv
    <3> QED BY <1>1, <1>5, <3>1, <3>2
  <2> QED BY <2>1, <2>2
<1> QED BY <1>2, <1>3, <1>4, <1>6, <1>7

\* An answer that was given is as good as it was: what is stored now is newer.
LEMMA OldAnswers ==
  ASSUME IInv, NEW x \in AllEvents, Plays(x),
         \A u \in Users : learned[u] \subseteq learned'[u],
         NEW z \in Answered, answer'[z] = answer[z]
  PROVE  /\ \A y \in AllEvents :
              Expected(y) = "fact" /\ user[y[1]] = user[z[1]]
                /\ when'[y] # Null /\ when'[y] < when'[z] - engineTtl
              => y \in answer'[z].facts
         /\ answer'[z].facts \subseteq learned'[user[z[1]]]
<1>1. /\ when'[x] = clock' /\ \A y \in AllEvents \ {x} : when'[y] = when[y]
      /\ clock <= clock' /\ clock' \in Nat /\ when[x] = Null
  BY PlaysKeeps, PlaysIs
<1>2. /\ z \in AllEvents /\ when[z] # Null /\ when[z] \in Nat /\ when[z] <= clock
      /\ clock \in Nat /\ engineTtl \in Nat
  BY DEF Answered, IInv, TypeOK
<1>3. when'[z] = when[z]
  BY <1>1, <1>2
<1>4. user[z[1]] \in Users
  <2>1. kind \in [Scenarios -> Kinds] /\ user \in [Scenarios -> Users]
    BY DEF IInv
  <2>2. z[1] \in Scenarios
    BY <1>2, <2>1, EventsAre
  <2> QED BY <2>1, <2>2
<1>5. ~(when'[x] < when'[z] - engineTtl)
  BY <1>1, <1>2, <1>3
<1>6. \A y \in AllEvents :
        Expected(y) = "fact" /\ user[y[1]] = user[z[1]]
          /\ when[y] # Null /\ when[y] < when[z] - engineTtl
        => y \in answer[z].facts
  BY DEF IInv, BoundedStaleness
<1>7. answer[z].facts \subseteq learned[user[z[1]]]
  BY DEF IInv, BoundedStaleness
<1>8. \A y \in AllEvents :
        Expected(y) = "fact" /\ user[y[1]] = user[z[1]]
          /\ when'[y] # Null /\ when'[y] < when'[z] - engineTtl
        => y \in answer'[z].facts
  BY <1>1, <1>3, <1>5, <1>6
<1> QED BY <1>4, <1>7, <1>8

\* What a step must show beyond that.
LEMMA Kept ==
  ASSUME IInv, NEW x \in AllEvents, Plays(x),
         \A u \in Users : learned[u] \subseteq learned'[u] /\ learned'[u] \subseteq AllEvents,
         \A u \in Users : row'[u].facts \subseteq AllEvents,
         DOMAIN row' = Users, DOMAIN learned' = Users, DOMAIN answer' = AllEvents,
         \A z \in AllEvents \ {x} : answer'[z] = answer[z],
         RowsHold', LearnedPlayed',
         answer'[x] # Null =>
           /\ \A y \in AllEvents :
                 Expected(y) = "fact" /\ user[y[1]] = user[x[1]]
                   /\ when'[y] # Null /\ when'[y] < when'[x] - engineTtl
                 => y \in answer'[x].facts
           /\ answer'[x].facts \subseteq learned'[user[x[1]]]
  PROVE  IInv'
<1>1. /\ UNCHANGED <<kind, user, times, configured, engineTtl, ttl, planned, marked>>
      /\ UNCHANGED AllEvents /\ \A y : Expected(y)' = Expected(y)
  BY PlaysKeeps
<1>2. /\ lag' \in 0..MaxLag /\ clock' \in 0..Duration + MaxLag
      /\ clock' <= Duration + lag' /\ answer[x] = Null
  BY PlaysIs
<1>3. TypeOK'
  <2>1. /\ \A s \in Scenarios : times'[s] \in [Facts(s)' -> 0..Duration]
        /\ marked' \subseteq Repeated'
    BY PlaysKeeps
  <2>2. ttl' \in Nat \cup {Null} /\ planned' \in BOOLEAN
    BY <1>1 DEF IInv, TypeOK
  <2> QED BY <1>1, <1>2, <2>1, <2>2 DEF TypeOK
<1>4. /\ when' \in [AllEvents -> Nat \cup {Null}]
      /\ when'[x] = clock' /\ \A y \in AllEvents \ {x} : when'[y] = when[y]
      /\ \A y \in AllEvents : when'[y] # Null => when'[y] <= clock'
  BY PlaysKeeps
<1>5. Answered' \subseteq Answered \cup {x}
  BY <1>1 DEF Answered
<1>6. \A z \in Answered' : when'[z] # Null
  <2>1. when'[x] # Null
    BY <1>2, <1>4
  <2>2. \A z \in Answered : z # x /\ z \in AllEvents /\ when[z] # Null
    BY <1>2 DEF Answered, IInv
  <2> QED BY <1>4, <1>5, <2>1, <2>2
<1>7. ASSUME NEW z \in Answered'
      PROVE  /\ \A y \in AllEvents :
                  Expected(y) = "fact" /\ user[y[1]] = user[z[1]]
                    /\ when'[y] # Null /\ when'[y] < when'[z] - engineTtl
                  => y \in answer'[z].facts
             /\ answer'[z].facts \subseteq learned'[user[z[1]]]
  <2>1. CASE z = x
    <3>1. answer'[x] # Null
      BY <1>7, <2>1 DEF Answered
    <3> QED BY <2>1, <3>1
  <2>2. CASE z # x
    <3>1. z \in Answered /\ z \in AllEvents \ {x}
      BY <1>5, <2>2 DEF Answered
    <3>2. answer'[z] = answer[z]
      BY <3>1
    <3> QED BY <3>1, <3>2, OldAnswers
  <2> QED BY <2>1, <2>2
<1>8. BoundedStaleness'
  BY <1>1, <1>7 DEF BoundedStaleness
<1>9. /\ kind' \in [Scenarios -> Kinds] /\ user' \in [Scenarios -> Users]
      /\ configured' \in Configured /\ engineTtl' \in EngineTtls
      /\ DOMAIN times' = Scenarios
  BY <1>1 DEF IInv
<1> QED BY <1>1, <1>2, <1>3, <1>4, <1>6, <1>8, <1>9 DEF IInv

-----------------------------------------------------------------------------
(* The events, one by one.                                                 *)

\* Of what the engine has, only an ingest changes anything.
LEMMA StillLearned ==
  ASSUME IInv, NEW x \in AllEvents, Plays(x), Expected(x) # "fact", UNCHANGED learned
  PROVE  /\ LearnedPlayed'
         /\ \A u \in Users : \A y \in learned[u] : y \in AllEvents \ {x} /\ when'[y] = when[y]
<1>1. /\ UNCHANGED <<AllEvents, user>> /\ \A y : Expected(y)' = Expected(y)
      /\ \A y \in AllEvents \ {x} : when'[y] = when[y]
  BY PlaysKeeps
<1>2. LearnedPlayed
  BY DEF IInv
<1>3. LearnedPlayed'
  BY <1>1, <1>2 DEF LearnedPlayed
<1>4. \A u \in Users : \A y \in learned[u] : y \in AllEvents \ {x}
  BY <1>2 DEF LearnedPlayed
<1> QED BY <1>1, <1>3, <1>4

LEMMA Ingests ==
  ASSUME IInv, NEW x \in AllEvents, Ingest(x)
  PROVE  IInv'
<1> DEFINE u == user[x[1]]
<1>1. /\ Plays(x) /\ Expected(x) = "fact" /\ UNCHANGED <<row, answer>>
      /\ learned' = [learned EXCEPT ![u] = @ \cup {x}]
  BY DEF Ingest
<1>2. /\ u \in Users /\ when[x] = Null /\ answer[x] = Null
      /\ clock <= clock' /\ clock' \in Nat /\ clock \in Nat
  BY <1>1, PlaysIs DEF IInv, TypeOK
<1>3. /\ UNCHANGED <<AllEvents, user>> /\ \A y : Expected(y)' = Expected(y)
      /\ when'[x] = clock' /\ \A y \in AllEvents \ {x} : when'[y] = when[y]
  BY <1>1, PlaysKeeps
<1>4. /\ DOMAIN learned' = Users /\ learned'[u] = learned[u] \cup {x}
      /\ \A v \in Users \ {u} : learned'[v] = learned[v]
  BY <1>1, <1>2 DEF IInv
<1>5. LearnedPlayed'
  <2>1. LearnedPlayed
    BY DEF IInv
  <2>2. ASSUME NEW v \in Users
        PROVE  learned'[v] = {y \in AllEvents :
                 Expected(y) = "fact" /\ user[y[1]] = v /\ when'[y] # Null}
    <3>1. learned[v] = {y \in AllEvents :
            Expected(y) = "fact" /\ user[y[1]] = v /\ when[y] # Null}
      BY <2>1 DEF LearnedPlayed
    <3>2. CASE v = u
      BY <1>1, <1>2, <1>3, <1>4, <3>1, <3>2
    <3>3. CASE v # u
      BY <1>3, <1>4, <3>1, <3>3
    <3> QED BY <3>2, <3>3
  <2> QED BY <1>3, <2>2 DEF LearnedPlayed
<1>6. RowsHold'
  <2>1. RowsHold
    BY DEF IInv
  <2>2. ASSUME NEW v \in Users, row[v] # NoRow
        PROVE  /\ row[v].at \in Int /\ row[v].at <= clock'
               /\ \A y \in learned'[v] : when'[y] < row[v].at => y \in row[v].facts
               /\ row[v].facts \subseteq learned'[v]
    <3>1. /\ row[v].at \in Int /\ row[v].at <= clock
          /\ \A y \in learned[v] : when[y] < row[v].at => y \in row[v].facts
          /\ row[v].facts \subseteq learned[v]
      BY <2>1, <2>2 DEF RowsHold
    <3>2. row[v].at <= clock' /\ ~(when'[x] < row[v].at)
      BY <1>2, <1>3, <3>1
    <3>3. \A y \in learned[v] : y \in AllEvents \ {x}
      BY <1>2 DEF IInv, LearnedPlayed
    <3>4. learned[v] \subseteq learned'[v] /\ learned'[v] \subseteq learned[v] \cup {x}
      BY <1>4
    <3> QED BY <1>3, <3>1, <3>2, <3>3, <3>4
  <2> QED BY <1>1, <2>2 DEF RowsHold, NoRow
<1>7. \A v \in Users : learned[v] \subseteq learned'[v] /\ learned'[v] \subseteq AllEvents
  BY <1>4 DEF IInv, TypeOK
<1>8. /\ \A v \in Users : row'[v].facts \subseteq AllEvents
      /\ DOMAIN row' = Users /\ DOMAIN answer' = AllEvents
  BY <1>1 DEF IInv, TypeOK
<1> QED BY <1>1, <1>2, <1>4, <1>5, <1>6, <1>7, <1>8, Kept

LEMMA Hits ==
  ASSUME IInv, NEW x \in AllEvents, CacheHit(x)
  PROVE  IInv'
<1> DEFINE u == user[x[1]]
<1>1. /\ Plays(x) /\ Expected(x) # "fact" /\ UNCHANGED <<row, learned>>
      /\ row[u] # NoRow /\ clock' - row[u].at <= engineTtl
      /\ answer' = [answer EXCEPT ![x] = [cached |-> TRUE, facts |-> row[u].facts]]
  BY DEF CacheHit, Cached, Answers
<1>2. u \in Users /\ clock <= clock' /\ clock' \in Nat /\ clock \in Nat /\ engineTtl \in Nat
  BY <1>1, PlaysIs DEF IInv, TypeOK
<1>3. /\ LearnedPlayed'
      /\ \A v \in Users : \A y \in learned[v] : y \in AllEvents \ {x} /\ when'[y] = when[y]
  BY <1>1, StillLearned
<1>4. RowsHold
  BY DEF IInv
<1>5. RowsHold'
  <2>1. ASSUME NEW v \in Users, row[v] # NoRow
        PROVE  /\ row[v].at \in Int /\ row[v].at <= clock'
               /\ \A y \in learned[v] : when'[y] < row[v].at => y \in row[v].facts
               /\ row[v].facts \subseteq learned[v]
    BY <1>2, <1>3, <1>4, <2>1 DEF RowsHold
  <2> QED BY <1>1, <2>1 DEF RowsHold, NoRow
<1>6. /\ answer'[x].facts = row[u].facts /\ DOMAIN answer' = AllEvents
      /\ \A z \in AllEvents \ {x} : answer'[z] = answer[z]
  BY <1>1 DEF IInv
<1>7. ASSUME NEW y \in AllEvents, Expected(y) = "fact", user[y[1]] = u,
             when'[y] # Null, when'[y] < when'[x] - engineTtl
      PROVE  y \in row[u].facts
  <2>1. when'[x] = clock' /\ \A z \in AllEvents \ {x} : when'[z] = when[z]
    BY <1>1, PlaysKeeps
  <2>2. y # x /\ when'[y] = when[y]
    BY <1>1, <1>7, <2>1
  <2>3. y \in learned[u] /\ when[y] \in Nat
    BY <1>2, <1>7, <2>2 DEF IInv, LearnedPlayed
  <2>4. row[u].at \in Int /\ when[y] < row[u].at
    BY <1>1, <1>2, <1>4, <1>7, <2>1, <2>2, <2>3 DEF RowsHold
  <2> QED BY <1>1, <1>2, <1>4, <2>3, <2>4 DEF RowsHold
<1>8. row[u].facts \subseteq learned[u]
  BY <1>1, <1>2, <1>4 DEF RowsHold
<1>9. /\ \A v \in Users : learned[v] \subseteq learned'[v] /\ learned'[v] \subseteq AllEvents
      /\ \A v \in Users : row'[v].facts \subseteq AllEvents
      /\ DOMAIN row' = Users /\ DOMAIN learned' = Users
  BY <1>1 DEF IInv, TypeOK
<1>10. /\ \A y \in AllEvents :
            Expected(y) = "fact" /\ user[y[1]] = user[x[1]]
              /\ when'[y] # Null /\ when'[y] < when'[x] - engineTtl
            => y \in answer'[x].facts
       /\ answer'[x].facts \subseteq learned'[user[x[1]]]
  BY <1>1, <1>6, <1>7, <1>8
<1> QED BY <1>1, <1>3, <1>5, <1>6, <1>9, <1>10, Kept

LEMMA Misses ==
  ASSUME IInv, NEW x \in AllEvents, CacheMiss(x)
  PROVE  IInv'
<1> DEFINE u == user[x[1]]
           made == [at |-> clock', facts |-> learned[u]]
<1>1. /\ Plays(x) /\ Expected(x) # "fact" /\ UNCHANGED learned
      /\ row' = [row EXCEPT ![u] = made]
      /\ answer' = [answer EXCEPT ![x] = [cached |-> FALSE, facts |-> learned[u]]]
  BY DEF CacheMiss, Answers
<1>2. u \in Users /\ clock <= clock' /\ clock' \in Nat /\ clock \in Nat /\ engineTtl \in Nat
  BY <1>1, PlaysIs DEF IInv, TypeOK
<1>3. /\ LearnedPlayed'
      /\ \A v \in Users : \A y \in learned[v] : y \in AllEvents \ {x} /\ when'[y] = when[y]
  BY <1>1, StillLearned
<1>4. /\ row'[u] = made /\ DOMAIN row' = Users
      /\ \A v \in Users \ {u} : row'[v] = row[v]
  BY <1>1, <1>2 DEF IInv
<1>5. made.at = clock' /\ made.facts = learned[u]
  OBVIOUS
<1> HIDE DEF made
<1>6. RowsHold'
  <2>1. ASSUME NEW v \in Users, row'[v] # NoRow
        PROVE  /\ row'[v].at \in Int /\ row'[v].at <= clock'
               /\ \A y \in learned[v] : when'[y] < row'[v].at => y \in row'[v].facts
               /\ row'[v].facts \subseteq learned[v]
    <3>1. CASE v = u
      BY <1>2, <1>4, <1>5, <3>1
    <3>2. CASE v # u
      <4>1. row'[v] = row[v] /\ row[v] # NoRow
        BY <1>4, <2>1, <3>2
      <4>2. RowsHold
        BY DEF IInv
      <4>3. /\ row[v].at \in Int /\ row[v].at <= clock
            /\ \A y \in learned[v] : when[y] < row[v].at => y \in row[v].facts
            /\ row[v].facts \subseteq learned[v]
        BY <4>1, <4>2 DEF RowsHold
      <4> QED BY <1>2, <1>3, <4>1, <4>3
    <3> QED BY <3>1, <3>2
  <2> QED BY <1>1, <2>1 DEF RowsHold, NoRow
<1>7. /\ answer'[x].facts = learned[u] /\ DOMAIN answer' = AllEvents
      /\ \A z \in AllEvents \ {x} : answer'[z] = answer[z]
  BY <1>1 DEF IInv
<1>8. /\ \A v \in Users : learned[v] \subseteq learned'[v] /\ learned'[v] \subseteq AllEvents
      /\ DOMAIN learned' = Users
  BY <1>1 DEF IInv, TypeOK
<1>9. \A v \in Users : row'[v].facts \subseteq AllEvents
  BY <1>4, <1>5, <1>8, <1>1 DEF IInv, TypeOK
<1>10. /\ \A y \in AllEvents :
            Expected(y) = "fact" /\ user[y[1]] = user[x[1]]
              /\ when'[y] # Null /\ when'[y] < when'[x] - engineTtl
            => y \in answer'[x].facts
       /\ answer'[x].facts \subseteq learned'[user[x[1]]]
  <2>1. UNCHANGED <<AllEvents, user>> /\ \A y : Expected(y)' = Expected(y)
    BY <1>1, PlaysKeeps
  <2>2. learned'[u] = {y \in AllEvents :
                         Expected(y) = "fact" /\ user[y[1]] = u /\ when'[y] # Null}
    BY <1>2, <1>3, <2>1 DEF LearnedPlayed
  <2> QED BY <1>1, <1>7, <2>2
<1> QED BY <1>1, <1>3, <1>4, <1>6, <1>7, <1>8, <1>9, <1>10, Kept

-----------------------------------------------------------------------------
(* What the plan promises.                                                 *)

\* The spacing of a scenario's facts leaves them in their order.
LEMMA DrawnInOrder ==
  ASSUME NEW k \in Kinds, NEW t \in Draws(k)
  PROVE  \A i, j \in DOMAIN k.facts : i < j => t[i] <= t[j]
<1> DEFINE n == Len(k.facts)
<1>1. DOMAIN k.facts = 1..n /\ n \in Nat
  OBVIOUS
<1>2. \A i \in 1..n : t[i] \in Nat
  <2>1. t \in [DOMAIN k.facts -> Instants] /\ Instants \subseteq Nat
    BY DEF Draws
  <2> QED BY <1>1, <2>1
<1> SUFFICES ASSUME NEW i \in 1..n, NEW l \in 1..n, i < l, ~(t[i] <= t[l])
             PROVE  FALSE
  BY <1>1
<1> DEFINE Below == {j \in 1..n : i < j /\ ~(t[i] <= t[j])}
<1>3. PICK j \in Below : \A m \in Below : j <= m
  <2>1. Below \subseteq Nat /\ l \in Below
    OBVIOUS
  <2> QED BY <2>1, HasLeast
<1>4. j \in 1..n /\ i < j /\ ~(t[i] <= t[j])
  BY <1>3
<1>5. j - 1 \in 1..n /\ j # 1 /\ j - 1 \notin Below
  BY <1>1, <1>3, <1>4
<1>6. t[i] <= t[j - 1]
  BY <1>2, <1>4, <1>5
<1>7. t[j] - t[j - 1] >= Spacing(k)
  BY <1>1, <1>4, <1>5 DEF Draws
<1>8. Spacing(k) \in Nat
  <2>1. n \in Nat \ {0} /\ k.spacing \in Nat
    BY <1>1, <1>4
  <2> HIDE DEF n
  <2>2. Duration \div n \in Nat
    BY <2>1
  <2> USE DEF n
  <2> QED BY <2>1, <2>2 DEF Spacing
<1> QED BY <1>2, <1>4, <1>5, <1>6, <1>7, <1>8

LEMMA StartsInOrder == Init => Ascending
<1> SUFFICES ASSUME Init, NEW s \in Scenarios
             PROVE  \A i, j \in Facts(s) : i < j => times[s][i] <= times[s][j]
  BY DEF Ascending
<1>1. kind[s] \in Kinds /\ times[s] \in Draws(kind[s])
  BY DEF Init
<1> QED BY <1>1, DrawnInOrder DEF Facts

\* A scenario's events are played in their order.
LEMMA PlayedInOrder ==
  ASSUME IInv, Ascending, InOrder, NEW x \in AllEvents, NEW y \in AllEvents,
         y[1] = x[1], y[2] < x[2], when[x] # Null
  PROVE  when[y] # Null
<1> SUFFICES ASSUME when[y] = Null PROVE FALSE
  OBVIOUS
<1>1. /\ x[1] \in Scenarios /\ x[2] \in Facts(x[1]) /\ y[2] \in Facts(x[1])
      /\ x[1] \in Nat /\ x[2] \in Nat /\ y[2] \in Nat
  BY EventsAre DEF IInv
<1>2. At(x) \in Nat /\ At(y) \in Nat /\ At(y) <= At(x)
  <2>1. At(x) \in 0..Duration /\ At(y) \in 0..Duration
    BY Timed
  <2>2. At(y) <= At(x)
    BY <1>1 DEF Ascending, At
  <2> QED BY <2>1, <2>2
<1>3. Precedes(x, y)
  BY DEF InOrder, Unplayed
<1> QED BY <1>1, <1>2, <1>3 DEF Precedes

\* The read before one that must hit need not hit: the plan does not move it.
LEMMA BeforeHit ==
  ASSUME IInv, NEW x \in HitReads
  PROVE  Previous(x) \notin HitReads
<1> SUFFICES ASSUME Previous(x) \in HitReads PROVE FALSE
  OBVIOUS
<1> DEFINE i == Previous(x)[2]
<1>1. /\ x \in Repeated /\ Expected(x) = "hit" /\ Expected(Previous(x)) = "hit"
      /\ x[2] \in Reads(x[1])
  BY DEF HitReads, Repeated
<1>2. /\ Previous(x) \in AllEvents /\ Previous(x)[1] = x[1] /\ i < x[2]
      /\ \A j \in Earlier(x) : j <= i
  BY <1>1, PreviousIs
<1>3. x \in AllEvents /\ x[1] \in Scenarios /\ kind[x[1]] \in Kinds
  BY <1>1, EventsAre DEF Repeated, IInv
<1>4. x[2] \in Facts(x[1]) /\ i \in Facts(x[1]) /\ Facts(x[1]) \subseteq Nat
  <2>1. kind \in [Scenarios -> Kinds]
    BY DEF IInv
  <2>2. x[2] \in Facts(x[1]) /\ i \in Facts(x[1])
    BY <1>2, <1>3, <2>1, EventsAre
  <2>3. Facts(x[1]) = 1..Len(kind[x[1]].facts) /\ Len(kind[x[1]].facts) \in Nat
    BY <1>3, <2>1, EventsAre
  <2> QED BY <2>2, <2>3
<1>5. PICK m \in Facts(x[1]) : i < m /\ m < x[2] /\ kind[x[1]].facts[m] = "miss"
  BY <1>1, <1>2, <1>3, <1>4 DEF HitsFollowMisses, Facts, Expected
<1>6. m \in Earlier(x)
  BY <1>5 DEF Earlier, Reads
<1> QED BY <1>2, <1>4, <1>5, <1>6

\* The times after the plan, and what is moved is moved forward, to its target.
LEMMA RetimedIs ==
  ASSUME IInv, NEW t \in Nat, NEW x \in AllEvents
  PROVE  /\ x \notin Movable(t) => Retimed(t)[x[1]][x[2]] = At(x)
         /\ x \in Movable(t) =>
              /\ Retimed(t)[x[1]][x[2]] = At(Previous(x)) + TargetGap(t)
              /\ x \in HitReads /\ Previous(x)[2] = x[2] - 1
              /\ At(Previous(x)) + TargetGap(t) < At(x)
<1>1. x[1] \in Scenarios /\ x[2] \in Facts(x[1]) /\ x = <<x[1], x[2]>>
  BY EventsAre DEF IInv
<1>2. Retimed(t)[x[1]][x[2]] = IF x \in Movable(t) THEN At(Previous(x)) + TargetGap(t)
                               ELSE times[x[1]][x[2]]
  BY <1>1 DEF Retimed
<1>3. ASSUME x \in Movable(t)
      PROVE  /\ x \in HitReads /\ Previous(x)[2] = x[2] - 1
             /\ At(Previous(x)) + TargetGap(t) < At(x)
  <2>1. x \in HitReads /\ Gap(x) > TargetGap(t) /\ Previous(x)[2] = x[2] - 1
    BY <1>3 DEF Movable, Far
  <2>2. Previous(x) \in AllEvents
    BY <2>1, PreviousIs DEF HitReads
  <2>3. At(x) \in 0..Duration /\ At(Previous(x)) \in 0..Duration
    BY <2>2, Timed
  <2>4. TargetGap(t) \in Nat
    BY DEF TargetGap
  <2> QED BY <2>1, <2>3, <2>4 DEF Gap
<1> QED BY <1>2, <1>3 DEF At

LEMMA RetimedInOrder ==
  ASSUME IInv, Ascending, NEW t \in Nat, NEW x \in AllEvents, NEW y \in AllEvents,
         y[1] = x[1], y[2] < x[2]
  PROVE  Retimed(t)[y[1]][y[2]] <= Retimed(t)[x[1]][x[2]]
<1>1. /\ x[1] \in Scenarios /\ x[2] \in Facts(x[1]) /\ y[2] \in Facts(x[1])
      /\ x[2] \in Nat /\ y[2] \in Nat
  BY EventsAre DEF IInv
<1>2. At(x) \in 0..Duration /\ At(y) \in 0..Duration /\ At(y) <= At(x)
  <2>1. At(y) <= At(x)
    BY <1>1 DEF Ascending, At
  <2> QED BY <2>1, Timed
<1>3. TargetGap(t) \in Nat
  BY DEF TargetGap
<1>4. Retimed(t)[y[1]][y[2]] \in Int /\ Retimed(t)[y[1]][y[2]] <= At(y)
  <2>1. CASE y \notin Movable(t)
    BY <1>2, <2>1, RetimedIs
  <2>2. CASE y \in Movable(t)
    <3>1. /\ Retimed(t)[y[1]][y[2]] = At(Previous(y)) + TargetGap(t)
          /\ At(Previous(y)) + TargetGap(t) < At(y) /\ y \in Repeated
      BY <2>2, RetimedIs DEF HitReads
    <3>2. At(Previous(y)) \in 0..Duration
      BY <3>1, PreviousIs, Timed
    <3> QED BY <1>2, <1>3, <3>1, <3>2
  <2> QED BY <2>1, <2>2
<1>5. CASE x \notin Movable(t)
  <2>1. Retimed(t)[x[1]][x[2]] = At(x)
    BY <1>5, RetimedIs
  <2> QED BY <1>2, <1>4, <2>1
<1>6. CASE x \in Movable(t)
  <2> DEFINE p == Previous(x)
  <2>1. /\ Retimed(t)[x[1]][x[2]] = At(p) + TargetGap(t)
        /\ x \in Repeated /\ p[2] = x[2] - 1
    BY <1>6, RetimedIs DEF HitReads
  <2>2. p \in AllEvents /\ p[1] = x[1]
    BY <2>1, PreviousIs
  <2>3. At(p) \in 0..Duration
    BY <2>2, Timed
  <2>4. At(y) <= At(p)
    <3>1. CASE y[2] = p[2]
      <4>1. At(y) = At(p)
        BY <2>2, <3>1 DEF At
      <4> QED BY <1>2, <4>1
    <3>2. CASE y[2] # p[2]
      <4>1. y[2] < p[2] /\ p[2] \in Facts(x[1])
        BY <1>1, <2>1, <2>2, <3>2, EventsAre DEF IInv
      <4> QED BY <1>1, <2>2, <4>1 DEF Ascending, At
    <3> QED BY <3>1, <3>2
  <2> QED BY <1>2, <1>3, <1>4, <2>1, <2>3, <2>4
<1> QED BY <1>5, <1>6

LEMMA PlanKeeps == PlanInv /\ Plan => PlanInv'
<1> SUFFICES ASSUME PlanInv, Plan PROVE PlanInv'
  OBVIOUS
<1>1. /\ IInv /\ Ascending /\ InOrder /\ OnTime /\ RowsFilled /\ IInv'
      /\ UNCHANGED <<setup, clock, lag, row, learned, when, answer>>
      /\ ~planned /\ planned' /\ ttl' = PlannedTtl
  BY Planned DEF PlanInv, Plan
<1>2. /\ UNCHANGED <<AllEvents, Repeated, kind, user>> /\ \A x : Expected(x)' = Expected(x)
      /\ \A s : Facts(s)' = Facts(s)
  BY <1>1, SetupStays DEF setup
<1>3. \A x \in AllEvents : Previous(x)' = Previous(x)
  BY <1>2 DEF Previous, Earlier, Reads, Expected
<1>4. HitReads' = HitReads
  BY <1>2 DEF HitReads
<1>5. UNCHANGED <<Unplayed, Answered>> /\ Unplayed = AllEvents /\ Answered = {}
  <2>1. UNCHANGED <<Unplayed, Answered>> /\ Unplayed = AllEvents
    BY <1>1, <1>2 DEF Unplayed, Answered, InOrder
  <2>2. Answered = {}
    BY <1>1, <2>1 DEF IInv, Answered, Unplayed
  <2> QED BY <2>1, <2>2
<1>6. CASE UNCHANGED times /\ ttl' = Null
  <2>1. Ascending'
    BY <1>1, <1>2, <1>6 DEF Ascending
  <2>2. OnTime' /\ InOrder' /\ RowsFilled' /\ PlannedHold' /\ HitsClose'
    <3>1. \A x : At(x)' = At(x)
      BY <1>6 DEF At
    <3>2. OnTime'
      BY <1>1, <1>2, <1>5, <3>1 DEF OnTime
    <3> QED BY <1>1, <1>2, <1>5, <1>6, <3>2
         DEF InOrder, RowsFilled, PlannedHold, HitsClose, NoRow
  <2> QED BY <1>1, <2>1, <2>2 DEF PlanInv
<1>7. CASE MissGaps # {} /\ ~TooShort
  <2> DEFINE t == PlannedTtl
  <2>1. t \in Nat
    BY <1>1, <1>7, TtlType
  <2>2. /\ times' = Retimed(t) /\ ttl' = t
        /\ Far(t) \ Movable(t) \subseteq marked'
    BY <1>1, <1>7 DEF Plan
  <2> HIDE DEF t
  <2>3. Ascending'
    <3>1. ASSUME NEW s \in Scenarios, NEW i \in Facts(s), NEW j \in Facts(s), i < j
          PROVE  Retimed(t)[s][i] <= Retimed(t)[s][j]
      <4>1. <<s, i>> \in AllEvents /\ <<s, j>> \in AllEvents
        BY DEF AllEvents
      <4> QED BY <1>1, <2>1, <3>1, <4>1, RetimedInOrder
    <3> QED BY <1>2, <2>2, <3>1 DEF Ascending
  <2>4. OnTime'
    <3>1. \A x \in AllEvents : At(x)' \in 0..Duration
      <4>1. \A x \in AllEvents : x[1] \in Scenarios /\ x[2] \in Facts(x[1])
        BY <1>1, EventsAre DEF IInv
      <4>2. \A s \in Scenarios : times'[s] \in [Facts(s)' -> 0..Duration]
        BY <1>1 DEF IInv, TypeOK
      <4>3. \A s \in Scenarios : times'[s] \in [Facts(s) -> 0..Duration]
        BY <1>2, <4>2
      <4> QED BY <4>1, <4>3 DEF At
    <3>2. clock = 0
      BY <1>1 DEF InOrder
    <3> QED BY <1>1, <1>2, <1>5, <3>1, <3>2 DEF OnTime, IInv, TypeOK
  <2>5. HitsClose'
    <3>1. ASSUME NEW x \in HitReads, x \notin marked'
          PROVE  Gap(x)' <= TargetGap(t)
      <4> DEFINE p == Previous(x)
      <4>1. /\ x \in Repeated /\ x \in AllEvents /\ p \in AllEvents
            /\ p \notin HitReads
        BY <1>1, PreviousIs, BeforeHit DEF HitReads, Repeated
      <4>2. At(x) \in 0..Duration /\ At(p) \in 0..Duration /\ TargetGap(t) \in Nat
        BY <1>1, <2>1, <4>1, Timed DEF TargetGap
      <4>3. At(p)' = At(p)
        <5>1. p \notin Movable(t)
          BY <4>1 DEF Movable, Far
        <5>2. Retimed(t)[p[1]][p[2]] = At(p)
          BY <1>1, <2>1, <4>1, <5>1, RetimedIs
        <5> QED BY <1>3, <2>2, <4>1, <5>2 DEF At
      <4>4. Gap(x)' = At(x)' - At(p)
        BY <1>3, <4>1, <4>3 DEF Gap
      <4>5. CASE x \in Movable(t)
        <5>1. At(x)' = At(p) + TargetGap(t)
          BY <1>1, <2>1, <2>2, <4>1, <4>5, RetimedIs DEF At
        <5> QED BY <4>2, <4>4, <5>1
      <4>6. CASE x \notin Movable(t)
        <5>1. At(x)' = At(x)
          BY <1>1, <2>1, <2>2, <4>1, <4>6, RetimedIs DEF At
        <5>2. ~(Gap(x) > TargetGap(t))
          BY <2>2, <3>1, <4>6 DEF Far
        <5> QED BY <4>2, <4>4, <5>1, <5>2 DEF Gap
      <4> QED BY <4>5, <4>6
    <3> QED BY <1>4, <2>2, <3>1 DEF HitsClose, TargetGap
  <2>6. InOrder' /\ RowsFilled' /\ PlannedHold'
    BY <1>1, <1>2, <1>5 DEF InOrder, RowsFilled, PlannedHold, NoRow
  <2> QED BY <1>1, <2>3, <2>4, <2>5, <2>6 DEF PlanInv
<1>8. MissGaps = {} \/ TooShort => UNCHANGED times /\ ttl' = Null
  BY DEF Plan, PlannedTtl
<1> QED BY <1>6, <1>7, <1>8

-----------------------------------------------------------------------------
(* Playing what is due keeps it.                                           *)

\* An event is played at its time or as late as the run is behind, after those
\* that are due before it, and the times of all stay.
LEMMA DueStep ==
  ASSUME PlanInv, NEW z \in AllEvents, Plays(z), IInv'
  PROVE  /\ Ascending' /\ InOrder' /\ OnTime' /\ HitsClose'
         /\ At(z) <= clock' /\ clock' <= At(z) + lag' /\ lag' <= MaxLag
         /\ \A x \in AllEvents : At(x)' = At(x) /\ Previous(x)' = Previous(x) /\ Gap(x)' = Gap(x)
         /\ UNCHANGED <<AllEvents, Repeated, HitReads, MissGaps>>
<1>1. /\ IInv /\ Ascending /\ InOrder /\ OnTime /\ HitsClose /\ planned
      /\ z \in Unplayed /\ \A y \in Unplayed \ {z} : Precedes(z, y)
  BY DEF PlanInv, Plays, Due
<1>2. /\ UNCHANGED <<kind, user, times, configured, engineTtl, ttl, planned, marked>>
      /\ UNCHANGED AllEvents /\ \A y : Expected(y)' = Expected(y)
      /\ when'[z] = clock' /\ \A y \in AllEvents \ {z} : when'[y] = when[y]
  BY <1>1, PlaysKeeps
<1>3. \A x \in AllEvents : At(x)' = At(x) /\ Previous(x)' = Previous(x) /\ Gap(x)' = Gap(x)
  BY <1>2 DEF At, Gap, Previous, Earlier, Reads, Facts
<1>4. UNCHANGED <<Repeated, HitReads, MissGaps>>
  BY <1>2 DEF MissGaps, HitReads, Repeated, Reads, Earlier, Facts, Expected
<1>5. PICK late \in 0..MaxLag - lag :
        lag' = lag + late /\ clock' = late + (IF clock > At(z) THEN clock ELSE At(z))
  BY DEF Plays
<1>6. /\ clock \in Nat /\ lag \in Nat /\ late \in Nat /\ lag + late <= MaxLag
      /\ \A x \in AllEvents : At(x) \in Nat
  <2>1. clock \in 0..Duration + MaxLag /\ lag \in 0..MaxLag
    BY <1>1 DEF IInv, TypeOK
  <2>2. \A x \in AllEvents : At(x) \in Nat
    BY <1>1, Timed
  <2> QED BY <2>1, <2>2
<1>7. clock <= At(z) + lag
  BY <1>1 DEF OnTime
<1>8. /\ At(z) <= clock' /\ clock' <= At(z) + lag' /\ lag' <= MaxLag /\ lag <= lag'
      /\ lag' \in Nat /\ clock' \in Nat
  BY <1>5, <1>6, <1>7
<1>9. Unplayed' = Unplayed \ {z}
  BY <1>2, <1>8 DEF Unplayed
<1>10. Ascending'
  BY <1>1, <1>2 DEF Ascending, Facts
<1>11. InOrder'
  <2>1. \A x, y : Precedes(y, x)' = Precedes(y, x)
    BY <1>2 DEF Precedes, At
  <2>2. ASSUME NEW y \in AllEvents \ (Unplayed \ {z}), NEW x \in Unplayed \ {z}
        PROVE  Precedes(y, x)
    BY <1>1 DEF InOrder
  <2> QED BY <1>1, <1>2, <1>9, <2>1, <2>2 DEF InOrder
<1>12. OnTime'
  <2>1. ASSUME NEW x \in Unplayed \ {z} PROVE clock' <= At(x) + lag'
    <3>1. At(z) <= At(x)
      BY <1>1, <1>6 DEF Precedes, Unplayed
    <3> QED BY <1>6, <1>8, <3>1 DEF Unplayed
  <2>2. ASSUME NEW y \in AllEvents \ (Unplayed \ {z})
        PROVE  At(y) <= when'[y] /\ when'[y] <= At(y) + lag'
    <3>1. CASE y = z
      BY <1>2, <1>8, <3>1
    <3>2. CASE y # z
      <4>1. when'[y] = when[y] /\ At(y) <= when[y] /\ when[y] <= At(y) + lag
        BY <1>1, <1>2, <3>2 DEF OnTime
      <4>2. when[y] \in Nat
        BY <1>1, <3>2 DEF IInv, Unplayed
      <4> QED BY <1>6, <1>8, <4>1, <4>2
    <3> QED BY <3>1, <3>2
  <2>3. Unplayed \subseteq AllEvents
    BY DEF Unplayed
  <2> QED BY <1>2, <1>3, <1>9, <2>1, <2>2, <2>3 DEF OnTime
<1>13. HitsClose'
  <2>1. \A x \in HitReads : x \in AllEvents
    BY DEF HitReads, Repeated
  <2> QED BY <1>1, <1>2, <1>3, <1>4, <2>1 DEF HitsClose, TargetGap
<1> QED BY <1>2, <1>3, <1>4, <1>8, <1>10, <1>11, <1>12, <1>13

\* The expectations of the reads that were answered stay met.
LEMMA StillHold ==
  ASSUME PlanInv, NEW z \in AllEvents, Plays(z), IInv',
         \A y \in AllEvents \ {z} : answer'[y] = answer[y],
         ttl = engineTtl,
         NEW x \in Answered \ marked
  PROVE  /\ x \in HitReads /\ ~answer'[Previous(x)].cached /\ 2 * MaxLag <= ttl
              => answer'[x].cached
         /\ x \in MissGaps /\ Alone(x[1]) /\ ttl + MaxLag < Upper
              => ~answer'[x].cached
<1>1. IInv /\ Ascending /\ InOrder /\ PlannedHold
  BY DEF PlanInv
<1>2. /\ when[z] = Null /\ answer[z] = Null
      /\ x \in AllEvents /\ when[x] # Null /\ answer[x] # Null
  BY <1>1, PlaysIs DEF Answered, IInv
<1>3. x # z /\ answer'[x] = answer[x]
  BY <1>2
<1>4. ASSUME x \in HitReads PROVE answer'[Previous(x)] = answer[Previous(x)]
  <2>1. Previous(x) \in AllEvents /\ Previous(x)[1] = x[1] /\ Previous(x)[2] < x[2]
    BY <1>1, <1>4, PreviousIs DEF HitReads
  <2>2. when[Previous(x)] # Null
    BY <1>1, <1>2, <2>1, PlayedInOrder
  <2> QED BY <1>2, <2>1, <2>2
<1> QED BY <1>1, <1>3, <1>4 DEF PlannedHold

\* A read that must hit finds the row that the read before it filled.
LEMMA HitHeld ==
  ASSUME PlanInv, NEW x \in HitReads, x \notin marked, Plays(x), IInv', ttl = engineTtl,
         ~answer[Previous(x)].cached, 2 * MaxLag <= ttl
  PROVE  Cached(user[x[1]])
<1> DEFINE p == Previous(x)
           u == user[x[1]]
<1>1. /\ IInv /\ Ascending /\ InOrder /\ OnTime /\ RowsFilled /\ HitsClose
      /\ x \in Unplayed /\ \A y \in Unplayed \ {x} : Precedes(x, y)
  BY DEF PlanInv, Plays, Due
<1>2. x \in AllEvents /\ x \in Repeated /\ ttl # Null /\ ttl \in Nat
  <2>1. engineTtl \in Nat
    BY <1>1 DEF IInv
  <2> QED BY <2>1 DEF HitReads, Repeated
<1>3. /\ p \in AllEvents /\ p[1] = x[1] /\ p[2] < x[2] /\ Expected(p) # "fact"
  BY <1>1, <1>2, PreviousIs
<1>4. At(x) \in Nat /\ At(p) \in Nat /\ At(x) - At(p) <= ttl \div 2
  <2>1. At(x) \in 0..Duration /\ At(p) \in 0..Duration
    BY <1>1, <1>2, <1>3, Timed
  <2> QED BY <1>1, <1>2, <2>1 DEF HitsClose, Gap, TargetGap
<1>5. p \notin Unplayed
  <2>1. SUFFICES ASSUME p \in Unplayed PROVE FALSE
    OBVIOUS
  <2>2. Precedes(x, p)
    BY <1>1, <1>2, <1>3, <2>1, EventsAre DEF IInv
  <2>3. At(p) <= At(x)
    <3>1. x[1] \in Scenarios /\ x[2] \in Facts(x[1]) /\ p[2] \in Facts(x[1])
      BY <1>1, <1>2, <1>3, EventsAre DEF IInv
    <3> QED BY <1>1, <1>3, <3>1 DEF Ascending, At
  <2>4. x[1] \in Nat /\ x[2] \in Nat /\ p[2] \in Nat
    BY <1>1, <1>2, <1>3, EventsAre DEF IInv
  <2> QED BY <1>3, <1>4, <2>2, <2>3, <2>4 DEF Precedes
<1>6. when[p] \in Nat /\ At(p) <= when[p]
  BY <1>1, <1>3, <1>5 DEF OnTime, IInv, Unplayed
<1>7. row[u] # NoRow /\ when[p] <= row[u].at
  BY <1>1, <1>3, <1>5 DEF RowsFilled
<1>8. u \in Users /\ row[u].at \in Int
  <2>1. u \in Users
    BY <1>1, <1>2, PlaysIs
  <2> QED BY <1>1, <1>7, <2>1 DEF IInv, RowsHold
<1>9. clock' <= At(x) + lag' /\ lag' <= MaxLag /\ clock' \in Nat /\ lag' \in Nat
  <2>1. clock' <= At(x) + lag' /\ lag' <= MaxLag
    BY <1>2, DueStep
  <2>2. clock' \in 0..Duration + MaxLag /\ lag' \in 0..MaxLag
    BY <1>1, <1>2, PlaysIs
  <2> QED BY <2>1, <2>2
<1>10. clock' - row[u].at <= ttl
  <2>1. clock' - row[u].at <= (ttl \div 2) + MaxLag
    BY <1>2, <1>4, <1>6, <1>7, <1>8, <1>9
  <2>2. (ttl \div 2) + MaxLag <= ttl
    BY <1>2
  <2> QED BY <1>2, <1>8, <1>9, <2>1, <2>2
<1> QED BY <1>7, <1>10 DEF Cached

\* A read that must miss comes more than the TTL after any that filled the row.
LEMMA MissHeld ==
  ASSUME PlanInv, NEW x \in MissGaps, Plays(x), IInv', ttl = engineTtl,
         Alone(x[1]), ttl + MaxLag < Upper
  PROVE  ~Cached(user[x[1]])
<1> DEFINE p == Previous(x)
           u == user[x[1]]
<1>1. /\ IInv /\ Ascending /\ InOrder /\ OnTime /\ RowsFilled
      /\ x \in Unplayed /\ \A y \in Unplayed \ {x} : Precedes(x, y)
  BY DEF PlanInv, Plays, Due
<1>2. x \in AllEvents /\ x \in Repeated /\ ttl \in Nat
  <2>1. engineTtl \in Nat
    BY <1>1 DEF IInv
  <2> QED BY <2>1 DEF MissGaps, Repeated
<1>3. p \in AllEvents /\ p[1] = x[1] /\ \A j \in Earlier(x) : j <= p[2]
  BY <1>1, <1>2, PreviousIs
<1>4. At(x) \in Nat /\ At(p) \in Nat /\ ttl + MaxLag < At(x) - At(p)
  <2>1. At(x) \in 0..Duration /\ At(p) \in 0..Duration
    BY <1>1, <1>2, <1>3, Timed
  <2>2. Upper \in Int /\ Upper <= Gap(x)
    BY <1>1, TtlType
  <2> QED BY <1>2, <2>1, <2>2 DEF Gap
<1>5. At(x) <= clock' /\ clock' \in Nat
  <2>1. clock' \in 0..Duration + MaxLag
    BY <1>1, <1>2, PlaysIs
  <2> QED BY <1>2, <2>1, DueStep
<1> SUFFICES ASSUME Cached(u) PROVE FALSE
  OBVIOUS
<1>6. row[u] # NoRow /\ clock' - row[u].at <= ttl
  BY DEF Cached
<1>7. u \in Users /\ row[u].at \in Int
  <2>1. u \in Users
    BY <1>1, <1>2, PlaysIs
  <2> QED BY <1>1, <1>6, <2>1 DEF IInv, RowsHold
<1>8. CASE row[u].at <= 0
  BY <1>2, <1>4, <1>5, <1>6, <1>7, <1>8
<1>9. CASE \E y \in AllEvents \ Unplayed :
              Expected(y) # "fact" /\ user[y[1]] = u /\ row[u].at = when[y]
  <2>1. PICK y \in AllEvents \ Unplayed :
          Expected(y) # "fact" /\ user[y[1]] = u /\ row[u].at = when[y]
    BY <1>9
  <2>2. y \in AllEvents /\ when[y] # Null /\ y \notin Unplayed /\ y # x
    BY <1>1, <2>1 DEF Unplayed
  <2>3. /\ y[1] \in Scenarios /\ y[2] \in Facts(y[1]) /\ y[1] \in Nat /\ y[2] \in Nat
        /\ x[1] \in Scenarios /\ x[2] \in Facts(x[1]) /\ x[2] \in Nat
        /\ p[2] \in Facts(x[1]) /\ p[2] \in Nat
    BY <1>1, <1>2, <1>3, <2>2, EventsAre DEF IInv
  <2>4. y[1] = x[1] /\ y[2] \in Reads(x[1])
    <3>1. y[2] \in Reads(y[1])
      BY <2>1, <2>3 DEF Reads, Expected
    <3> QED BY <2>1, <2>3, <3>1 DEF Alone
  <2>5. At(y) \in Nat
    <3>1. At(y) \in 0..Duration
      BY <1>1, <2>2, Timed
    <3> QED BY <3>1
  <2>6. y[2] < x[2]
    <3>1. SUFFICES ASSUME x[2] <= y[2] PROVE FALSE
      BY <2>3
    <3>2. x[2] # y[2]
      <4>1. x = <<x[1], x[2]>> /\ y = <<y[1], y[2]>>
        BY <1>1, <1>2, <2>2, EventsAre DEF IInv
      <4> QED BY <2>2, <2>4, <4>1
    <3>3. At(x) <= At(y)
      BY <1>1, <2>3, <2>4, <3>1, <3>2 DEF Ascending, At
    <3>4. Precedes(y, x)
      BY <1>1, <2>2 DEF InOrder
    <3> QED BY <1>4, <2>3, <2>4, <2>5, <3>1, <3>3, <3>4 DEF Precedes
  <2>7. y[2] \in Earlier(x) /\ y[2] <= p[2]
    BY <1>3, <2>4, <2>6 DEF Earlier
  <2>8. At(y) <= At(p)
    <3>1. CASE y[2] = p[2]
      <4>1. At(y) = At(p)
        BY <1>3, <2>4, <3>1 DEF At
      <4> QED BY <1>4, <4>1
    <3>2. CASE y[2] # p[2]
      <4>1. y[2] < p[2]
        BY <2>3, <2>7, <3>2
      <4> QED BY <1>1, <1>3, <2>3, <2>4, <4>1 DEF Ascending, At
    <3> QED BY <3>1, <3>2
  <2>9. when[y] <= At(y) + lag /\ lag \in 0..MaxLag /\ when[y] \in Nat
    BY <1>1, <2>2 DEF OnTime, IInv, TypeOK
  <2> QED BY <1>2, <1>4, <1>5, <1>6, <2>1, <2>5, <2>8, <2>9
<1> QED BY <1>1, <1>6, <1>7, <1>8, <1>9 DEF RowsFilled

\* What a step that plays event z owes the invariant besides: the rows, and
\* the expectation of z.
LEMMA PromiseKept ==
  ASSUME PlanInv, NEW z \in AllEvents, Plays(z), IInv', RowsFilled',
         \A y \in AllEvents \ {z} : answer'[y] = answer[y],
         answer'[z] # Null /\ answer'[z].cached => Cached(user[z[1]]),
         answer'[z] # Null /\ ~answer'[z].cached => ~Cached(user[z[1]])
                                                  /\ answer'[z].cached \in BOOLEAN
  PROVE  PlanInv'
<1>1. /\ Ascending' /\ InOrder' /\ OnTime' /\ HitsClose'
      /\ \A x \in AllEvents : Previous(x)' = Previous(x) /\ Gap(x)' = Gap(x)
      /\ UNCHANGED <<AllEvents, Repeated, HitReads, MissGaps>>
  BY DueStep
<1>2. /\ UNCHANGED <<kind, user, times, configured, engineTtl, ttl, planned, marked>>
      /\ when[z] = Null /\ answer[z] = Null /\ IInv
  BY PlaysKeeps, PlaysIs DEF PlanInv
<1>3. \A s : Alone(s)' = Alone(s)
  BY <1>2 DEF Alone, Reads, Facts
<1>4. Upper' = Upper
  <2>1. MissGaps \subseteq AllEvents
    BY DEF MissGaps, Repeated
  <2>2. {Gap(x) : x \in MissGaps}' = {Gap(x) : x \in MissGaps}
    BY <1>2 DEF Gap, MissGaps, Repeated, At, Previous, Earlier, Reads, Facts, Expected, AllEvents
  <2>3. \A g : (\A x \in MissGaps : g <= Gap(x))' = (\A x \in MissGaps : g <= Gap(x))
    BY <1>1, <2>1
  <2> QED BY <2>2, <2>3 DEF Upper
<1>5. ASSUME ttl = engineTtl, NEW x \in Answered', x \notin marked
      PROVE  /\ x \in HitReads /\ ~answer'[Previous(x)].cached /\ 2 * MaxLag <= ttl
                  => answer'[x].cached
             /\ x \in MissGaps /\ Alone(x[1]) /\ ttl + MaxLag < Upper
                  => ~answer'[x].cached
  <2>1. x \in AllEvents /\ answer'[x] # Null
    BY <1>1, <1>5 DEF Answered
  <2>2. CASE x # z
    <3>1. x \in Answered \ marked
      BY <1>5, <2>1, <2>2 DEF Answered
    <3> QED BY <1>5, <3>1, StillHold
  <2>3. CASE x = z
    <3>1. ASSUME x \in HitReads, ~answer'[Previous(x)].cached, 2 * MaxLag <= ttl
          PROVE  answer'[x].cached
      <4>1. Previous(x) \in AllEvents \ {x}
        <5>1. x \in Repeated /\ x \in Scenarios \X (Nat \ {0})
          BY <1>2, <2>1, <3>1, EventsAre DEF HitReads, IInv
        <5>2. Previous(x) \in AllEvents /\ Previous(x)[2] < x[2]
          BY <1>2, <5>1, PreviousIs
        <5> QED BY <5>1, <5>2
      <4>2. ~answer[Previous(x)].cached
        BY <2>3, <3>1, <4>1
      <4>3. Cached(user[x[1]])
        BY <1>5, <2>3, <3>1, <4>2, HitHeld
      <4> QED BY <2>1, <2>3, <4>3
    <3>2. ASSUME x \in MissGaps, Alone(x[1]), ttl + MaxLag < Upper
          PROVE  ~answer'[x].cached
      BY <1>5, <2>1, <2>3, <3>2, MissHeld
    <3> QED BY <3>1, <3>2
  <2> QED BY <2>2, <2>3
<1>6. PlannedHold'
  BY <1>1, <1>2, <1>3, <1>4, <1>5 DEF PlannedHold, Answered, HitReads, MissGaps, Repeated
<1> QED BY <1>1, <1>6 DEF PlanInv

\* The reads that were played, but for the one that is played now.
LEMMA OthersPlayed ==
  ASSUME PlanInv, NEW x \in AllEvents, Plays(x)
  PROVE  /\ x \notin AllEvents \ Unplayed
         /\ \A y \in AllEvents \ Unplayed : y \in AllEvents \ Unplayed' /\ when'[y] = when[y]
         /\ \A y \in AllEvents \ Unplayed' : y = x \/ y \in AllEvents \ Unplayed
         /\ x \in AllEvents \ Unplayed' /\ when'[x] = clock'
         /\ UNCHANGED <<AllEvents, user>> /\ \A y : Expected(y)' = Expected(y)
<1>1. /\ UNCHANGED <<AllEvents, user>> /\ \A y : Expected(y)' = Expected(y)
      /\ when'[x] = clock' /\ \A y \in AllEvents \ {x} : when'[y] = when[y]
      /\ when[x] = Null /\ clock' # Null
  <2>1. clock' \in 0..Duration + MaxLag
    BY PlaysIs DEF PlanInv
  <2> QED BY <2>1, PlaysKeeps, PlaysIs DEF PlanInv
<1> QED BY <1>1 DEF Unplayed

\* The rows stay filled when no read misses.
LEMMA RowsStay ==
  ASSUME PlanInv, NEW x \in AllEvents, Plays(x), UNCHANGED row,
         \A y \in AllEvents \ {x} : answer'[y] = answer[y],
         Expected(x) = "fact" \/ answer'[x].cached
  PROVE  RowsFilled'
<1>1. /\ UNCHANGED <<AllEvents, user>> /\ \A y : Expected(y)' = Expected(y)
      /\ NoRow' = NoRow /\ RowsFilled
  BY OthersPlayed DEF NoRow, PlanInv
<1>2. ASSUME NEW y \in AllEvents \ Unplayed', Expected(y) # "fact", ~answer'[y].cached
      PROVE  row[user[y[1]]] # NoRow /\ when'[y] <= row[user[y[1]]].at
  <2>1. y # x
    BY <1>2
  <2>2. y \in AllEvents \ Unplayed /\ when'[y] = when[y] /\ answer'[y] = answer[y]
    BY <2>1, OthersPlayed
  <2> QED BY <1>1, <1>2, <2>2 DEF RowsFilled
<1>3. ASSUME NEW v \in Users, row[v] # NoRow, ~(row[v].at <= 0)
      PROVE  \E y \in AllEvents \ Unplayed' :
               Expected(y) # "fact" /\ user[y[1]] = v /\ row[v].at = when'[y]
  <2>1. PICK y \in AllEvents \ Unplayed :
          Expected(y) # "fact" /\ user[y[1]] = v /\ row[v].at = when[y]
    BY <1>1, <1>3 DEF RowsFilled
  <2>2. y \in AllEvents \ Unplayed' /\ when'[y] = when[y]
    BY OthersPlayed
  <2> QED BY <2>1, <2>2
<1> QED BY <1>1, <1>2, <1>3 DEF RowsFilled

\* An ingest tells the cache nothing.
LEMMA IngestKeeps ==
  ASSUME PlanInv, NEW x \in AllEvents, Ingest(x)
  PROVE  PlanInv'
<1>1. /\ Plays(x) /\ IInv' /\ UNCHANGED <<row, answer>> /\ Expected(x) = "fact"
      /\ RowsFilled /\ answer[x] = Null
  BY Ingests, PlaysIs DEF PlanInv, Ingest
<1>2. RowsFilled'
  BY <1>1, RowsStay
<1>3. answer'[x] = Null
  BY <1>1
<1> QED BY <1>1, <1>2, <1>3, PromiseKept

\* A hit leaves the row as it is.
LEMMA HitKeeps ==
  ASSUME PlanInv, NEW x \in AllEvents, CacheHit(x)
  PROVE  PlanInv'
<1> DEFINE given == [cached |-> TRUE, facts |-> row[user[x[1]]].facts]
<1>1. /\ Plays(x) /\ IInv' /\ UNCHANGED row /\ Cached(user[x[1]])
      /\ answer' = [answer EXCEPT ![x] = given] /\ IInv /\ RowsFilled
  BY Hits DEF PlanInv, CacheHit, Answers
<1>2. given.cached = TRUE /\ answer'[x] = given
      /\ \A y \in AllEvents \ {x} : answer'[y] = answer[y]
  BY <1>1 DEF IInv
<1> HIDE DEF given
<1>3. RowsFilled'
  BY <1>1, <1>2, RowsStay
<1> QED BY <1>1, <1>2, <1>3, PromiseKept

\* A miss fills the row, no earlier than any other.
LEMMA MissKeeps ==
  ASSUME PlanInv, NEW x \in AllEvents, CacheMiss(x)
  PROVE  PlanInv'
<1> DEFINE u == user[x[1]]
           made == [at |-> clock', facts |-> learned[u]]
           given == [cached |-> FALSE, facts |-> learned[u]]
<1>1. /\ Plays(x) /\ IInv' /\ row' = [row EXCEPT ![u] = made] /\ ~Cached(u)
      /\ answer' = [answer EXCEPT ![x] = given] /\ IInv /\ RowsFilled
      /\ Expected(x) # "fact"
  BY Misses DEF PlanInv, CacheMiss, Answers
<1>2. given.cached = FALSE /\ answer'[x] = given
      /\ \A y \in AllEvents \ {x} : answer'[y] = answer[y]
  BY <1>1 DEF IInv
<1>3. /\ u \in Users /\ clock' \in Nat /\ clock' # Null
      /\ \A y \in AllEvents : when'[y] # Null => when'[y] <= clock'
  <2>1. u \in Users /\ clock' \in 0..Duration + MaxLag
    BY <1>1, PlaysIs
  <2> QED BY <1>1, <2>1, PlaysKeeps
<1>4. /\ row'[u] = made /\ made.at = clock'
      /\ \A v \in Users \ {u} : row'[v] = row[v]
  BY <1>1, <1>3 DEF IInv
<1>5. made # NoRow
  BY <1>3, <1>4 DEF NoRow
<1> HIDE DEF given, made, u
<1>6. \A y \in AllEvents : y[1] \in Scenarios /\ user[y[1]] \in Users
  <2>1. \A y \in AllEvents : y[1] \in Scenarios
    BY <1>1, EventsAre DEF IInv
  <2> QED BY <1>1, <2>1 DEF IInv
<1>7. /\ UNCHANGED <<AllEvents, user>> /\ \A y : Expected(y)' = Expected(y)
      /\ NoRow' = NoRow
  BY <1>1, OthersPlayed DEF NoRow
<1>8. ASSUME NEW y \in AllEvents \ Unplayed', Expected(y) # "fact", ~answer'[y].cached
      PROVE  row'[user[y[1]]] # NoRow /\ when'[y] <= row'[user[y[1]]].at
  <2>1. CASE user[y[1]] = u
    <3>1. when'[y] # Null
      BY <1>7, <1>8 DEF Unplayed
    <3> QED BY <1>3, <1>4, <1>5, <2>1, <3>1
  <2>2. CASE user[y[1]] # u
    <3>1. y # x /\ y \in AllEvents \ Unplayed /\ when'[y] = when[y]
      BY <1>1, <1>8, <2>2, OthersPlayed DEF u
    <3>2. answer'[y] = answer[y] /\ row'[user[y[1]]] = row[user[y[1]]]
      BY <1>2, <1>4, <1>6, <2>2, <3>1
    <3> QED BY <1>1, <1>8, <3>1, <3>2 DEF RowsFilled
  <2> QED BY <2>1, <2>2
<1>9. ASSUME NEW v \in Users, row'[v] # NoRow, ~(row'[v].at <= 0)
      PROVE  \E y \in AllEvents \ Unplayed' :
               Expected(y) # "fact" /\ user[y[1]] = v /\ row'[v].at = when'[y]
  <2>1. CASE v = u
    BY <1>1, <1>4, <2>1, OthersPlayed DEF u
  <2>2. CASE v # u
    <3>1. row[v] # NoRow /\ ~(row[v].at <= 0) /\ row'[v] = row[v]
      BY <1>4, <1>9, <2>2
    <3>2. PICK y \in AllEvents \ Unplayed :
            Expected(y) # "fact" /\ user[y[1]] = v /\ row[v].at = when[y]
      BY <1>1, <3>1 DEF RowsFilled
    <3>3. y \in AllEvents \ Unplayed' /\ when'[y] = when[y]
      BY <1>1, OthersPlayed
    <3> QED BY <3>1, <3>2, <3>3
  <2> QED BY <2>1, <2>2
<1>10. RowsFilled'
  BY <1>7, <1>8, <1>9 DEF RowsFilled
<1> QED BY <1>1, <1>2, <1>10, PromiseKept DEF u

-----------------------------------------------------------------------------
(* The theorems.                                                           *)

LEMMA Starts == Init => IInv
<1> SUFFICES ASSUME Init PROVE IInv
  OBVIOUS
<1>1. /\ kind \in [Scenarios -> Kinds] /\ user \in [Scenarios -> Users]
      /\ configured \in Configured /\ engineTtl \in EngineTtls
      /\ planned = FALSE /\ ttl = Null /\ marked = {} /\ clock = 0 /\ lag = 0
      /\ row \in [Users -> {NoRow} \cup Leftovers] /\ learned = [u \in Users |-> {}]
      /\ when = [x \in AllEvents |-> Null] /\ answer = [x \in AllEvents |-> Null]
  BY DEF Init
<1>2. \A s \in Scenarios : times[s] \in [Facts(s) -> 0..Duration]
  <2>1. \A s \in Scenarios : times[s] \in [DOMAIN kind[s].facts -> Instants]
    BY DEF Init, Draws
  <2> QED BY <2>1 DEF Facts
<1>3. \A u \in Users : row[u].facts = {} /\ (row[u] # NoRow => row[u].at \in Int /\ row[u].at <= 0)
  <2>1. NoRow.facts = {}
    BY DEF NoRow
  <2>2. \A u \in Users : row[u] = NoRow \/ row[u] \in Leftovers
    BY <1>1
  <2> QED BY <2>1, <2>2
<1>4. TypeOK
  <2>1. clock \in 0..Duration + MaxLag /\ lag \in 0..MaxLag
    BY <1>1
  <2>2. \A u \in Users : learned[u] \subseteq AllEvents /\ row[u].facts \subseteq AllEvents
    BY <1>1, <1>3
  <2>3. ttl \in Nat \cup {Null} /\ planned \in BOOLEAN /\ marked \subseteq Repeated
    BY <1>1
  <2> QED BY <1>2, <2>1, <2>2, <2>3 DEF TypeOK
<1>5. RowsHold
  BY <1>1, <1>3 DEF RowsHold
<1>6. LearnedPlayed
  BY <1>1 DEF LearnedPlayed
<1>7. Answered = {}
  BY <1>1 DEF Answered
<1>8. DOMAIN times = Scenarios
  BY DEF Init
<1> QED BY <1>1, <1>4, <1>5, <1>6, <1>7, <1>8 DEF IInv, BoundedStaleness

LEMMA Idles ==
  ASSUME IInv, UNCHANGED vars
  PROVE  IInv'
<1>1. UNCHANGED <<kind, user, configured, engineTtl, times, planned, ttl, marked, clock, lag,
                  row, learned, when, answer>>
  BY DEF vars, setup, plan
<1>2. /\ UNCHANGED <<AllEvents, Repeated, Answered>> /\ \A x : Expected(x)' = Expected(x)
      /\ \A s : Facts(s)' = Facts(s)
  BY <1>1, SetupStays DEF setup, Answered
<1>3. TypeOK' /\ RowsHold' /\ LearnedPlayed' /\ BoundedStaleness'
  BY <1>1, <1>2 DEF IInv, TypeOK, RowsHold, LearnedPlayed, BoundedStaleness
<1> QED BY <1>1, <1>2, <1>3 DEF IInv

LEMMA ReadsConsistent == Spec => []IInv
<1>1. Init => IInv
  BY Starts
<1>2. IInv /\ [Next]_vars => IInv'
  <2> SUFFICES ASSUME IInv, [Next]_vars PROVE IInv'
    OBVIOUS
  <2>1. CASE Plan
    BY <2>1, Planned
  <2>2. CASE \E x \in AllEvents : Ingest(x) \/ CacheHit(x) \/ CacheMiss(x)
    BY <2>2, Ingests, Hits, Misses
  <2>3. CASE UNCHANGED vars
    BY <2>3, Idles
  <2> QED BY <2>1, <2>2, <2>3 DEF Next
<1> QED BY <1>1, <1>2, PTL DEF Spec

LEMMA PlanStarts == Init => PlanInv
<1> SUFFICES ASSUME Init PROVE PlanInv
  OBVIOUS
<1>1. IInv /\ Ascending
  BY Starts, StartsInOrder
<1>2. /\ planned = FALSE /\ ttl = Null /\ clock = 0 /\ lag = 0
      /\ when = [x \in AllEvents |-> Null] /\ answer = [x \in AllEvents |-> Null]
      /\ row \in [Users -> {NoRow} \cup Leftovers]
  BY DEF Init
<1>3. Unplayed = AllEvents /\ Answered = {}
  BY <1>2 DEF Unplayed, Answered
<1>4. OnTime
  <2>1. \A x \in AllEvents : At(x) \in 0..Duration
    BY <1>1, Timed
  <2> QED BY <1>2, <1>3, <2>1 DEF OnTime
<1>5. RowsFilled
  BY <1>2, <1>3 DEF RowsFilled
<1> QED BY <1>1, <1>2, <1>3, <1>4, <1>5 DEF PlanInv, InOrder, HitsClose, PlannedHold

LEMMA PlanStep ==
  ASSUME PlanInv, [Next]_vars
  PROVE  PlanInv'
<1>1. CASE Plan
  BY <1>1, PlanKeeps
<1>2. CASE \E x \in AllEvents : Ingest(x) \/ CacheHit(x) \/ CacheMiss(x)
  BY <1>2, IngestKeeps, HitKeeps, MissKeeps
<1>3. CASE UNCHANGED vars
  <2>1. IInv'
    BY <1>3, Idles DEF PlanInv
  <2>2. UNCHANGED <<kind, user, configured, engineTtl, times, planned, ttl, marked, clock, lag,
                    row, learned, when, answer>>
    BY <1>3 DEF vars, setup, plan
  <2>3. /\ UNCHANGED <<AllEvents, Repeated, Answered>> /\ \A x : Expected(x)' = Expected(x)
        /\ \A s : Facts(s)' = Facts(s)
    BY <2>2, SetupStays DEF setup, Answered
  <2>4. /\ \A x : At(x)' = At(x) /\ Previous(x)' = Previous(x)
        /\ \A x, y : Precedes(x, y)' = Precedes(x, y)
        /\ \A s : Reads(s)' = Reads(s)
    BY <2>2, <2>3 DEF At, Precedes, Previous, Earlier, Reads, Expected
  <2>5. /\ \A x : Gap(x)' = Gap(x) /\ \A s : Alone(s)' = Alone(s)
        /\ UNCHANGED <<HitReads, MissGaps, Unplayed, NoRow>>
    BY <2>2, <2>3, <2>4 DEF Gap, Alone, HitReads, MissGaps, Unplayed, NoRow
  <2>6. Upper' = Upper
    BY <2>5 DEF Upper
  <2>7. Ascending' /\ InOrder' /\ OnTime' /\ HitsClose'
    BY <2>2, <2>3, <2>4, <2>5 DEF PlanInv, Ascending, InOrder, OnTime, HitsClose, TargetGap
  <2>8. RowsFilled' /\ PlannedHold'
    <3>1. RowsFilled'
      BY <2>2, <2>3, <2>5 DEF PlanInv, RowsFilled
    <3>2. PlannedHold'
      BY <2>2, <2>3, <2>4, <2>5, <2>6 DEF PlanInv, PlannedHold
    <3> QED BY <3>1, <3>2
  <2> QED BY <2>1, <2>7, <2>8 DEF PlanInv
<1> QED BY <1>1, <1>2, <1>3 DEF Next

\* The plan moves no read out of the run, marks only reads that follow another,
\* and has a TTL that is a number of seconds (plan_profile_cache_ttl).
THEOREM ReadsTypeCorrect == Spec => []TypeOK
<1>1. IInv => TypeOK
  BY DEF IInv
<1> QED BY <1>1, ReadsConsistent, PTL

\* No profile is staler than the TTL, whoever shares the cache and whatever the
\* plan (get_cached_profile, cache_user_profile).
THEOREM StalenessBounded == Spec => []BoundedStaleness
<1>1. IInv => BoundedStaleness
  BY DEF IInv
<1> QED BY <1>1, ReadsConsistent, PTL

\* With the TTL of the plan, the expectations that the plan leaves are met: a hit
\* after a read that filled the cache, as long as the run is late by no more than
\* half the TTL; a miss that the TTL leaves time for, if nobody else reads the
\* profile of its user (plan_profile_cache_ttl, _retime_hit_reads).
THEOREM ExpectationsMet == Spec => []PlannedHold
<1>1. Init => PlanInv
  BY PlanStarts
<1>2. PlanInv /\ [Next]_vars => PlanInv'
  BY PlanStep
<1>3. PlanInv => PlannedHold
  BY DEF PlanInv
<1> QED BY <1>1, <1>2, <1>3, PTL DEF Spec
=============================================================================
