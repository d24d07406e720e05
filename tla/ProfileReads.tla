---------------------------- MODULE ProfileReads ----------------------------
(***************************************************************************)
(* The profile cache of the engine (store.py, engine.py, main_api.py) and  *)
(* the simulation that watches it: the runner plans a TTL for the cache    *)
(* expectations of its scenarios (plan_profile_cache_ttl), moves reads,    *)
(* marks the expectations that it gives up, and then plays the facts in    *)
(* order, never early and sometimes late.                                  *)
(*                                                                         *)
(* Times are drawn from Instants, multiples of four units, so that halving *)
(* a gap twice is exact.  An ingest is answered with its fact stored; that *)
(* a read is told from its latency to be a hit or a miss is left out.      *)
(***************************************************************************)
EXTENDS Integers, Sequences, FiniteSets

CONSTANTS
  Scenarios,   \* natural numbers: the order of scenario ids
  Kinds,       \* catalogue entries
  Users,
  Instants,    \* the times at which a scenario fact may be scheduled
  Duration,    \* the length of the run
  Configured,  \* the configured_profile_cache_ttl_seconds that are tried
  EngineTtls,  \* the engine's PROFILE_CACHE_TTL_SECONDS that are tried
  Leftovers,   \* the rows that a user may have from before the run
  Margin,      \* _CACHE_TTL_MARGIN_SECONDS
  MaxLag,      \* bound: how far behind schedule a run gets
  Null

\* No read that must hit directly follows another in the catalogue, so that one
\* that is moved is never moved after one that was moved before it.
HitsFollowMisses(k) ==
  \A i, j \in DOMAIN k.facts :
    i < j /\ k.facts[i] = "hit" /\ k.facts[j] = "hit" =>
      \E m \in DOMAIN k.facts : i < m /\ m < j /\ k.facts[m] = "miss"

ASSUME ReadsAssumption ==
  /\ Scenarios \subseteq Nat /\ IsFiniteSet(Scenarios)
  /\ Instants \subseteq 0..Duration /\ EngineTtls \subseteq Nat
  /\ Duration \in Nat /\ Margin \in Nat /\ MaxLag \in Nat
  /\ Null \notin Nat /\ Configured \subseteq Nat \cup {Null}
  /\ \A k \in Kinds : /\ k.facts \in Seq({"fact", "hit", "miss"})
                     /\ k.spacing \in Nat /\ HitsFollowMisses(k)
  /\ \A l \in Leftovers : l.at \in Int /\ l.at <= 0 /\ l.facts = {}

VARIABLES
  kind,        \* kind[s]: the catalogue entry of scenario s
  user,        \* user[s]: its user
  times,       \* times[s]: when its facts are due
  configured, engineTtl,
  planned,     \* the runner has made its plan
  ttl,         \* the TTL it planned for
  marked,      \* the reads marked expected_cache_unsatisfiable
  clock, lag,
  row,         \* row[u]: the user_profiles row of u
  learned,     \* learned[u]: the facts that the engine has of u
  when,        \* history: when an event was played
  answer       \* history: what a read was answered

setup == <<kind, user, configured, engineTtl>>
plan == <<times, planned, ttl, marked>>
vars == <<setup, plan, clock, lag, row, learned, when, answer>>

Facts(s) == DOMAIN kind[s].facts
Reads(s) == {i \in Facts(s) : kind[s].facts[i] # "fact"}
Expected(x) == kind[x[1]].facts[x[2]]
At(x) == times[x[1]][x[2]]
AllEvents == UNION {{s} \X Facts(s) : s \in Scenarios}
NoRow == [at |-> Null, facts |-> {}]

-----------------------------------------------------------------------------
(* The plan.                                                               *)

\* The reads that come before read x in its scenario, and the last of them.
Earlier(x) == {j \in Reads(x[1]) : j < x[2]}
Previous(x) == <<x[1], CHOOSE j \in Earlier(x) : \A k \in Earlier(x) : k <= j>>
Repeated == {x \in AllEvents : x[2] \in Reads(x[1]) /\ Earlier(x) # {}}
Gap(x) == At(x) - At(Previous(x))

HitReads == {x \in Repeated : Expected(x) = "hit"}
MissGaps == {x \in Repeated : Expected(x) = "miss" /\ kind[x[1]].requires}
Upper == CHOOSE g \in {Gap(x) : x \in MissGaps} : \A x \in MissGaps : g <= Gap(x)

TooShort == configured = Null /\ Upper <= 2 * Margin

PlannedTtl ==
  IF MissGaps = {} \/ TooShort THEN Null
  ELSE IF configured # Null THEN configured ELSE Upper \div 2

\* Faulty variant: hit reads are moved to the very end of the TTL.
TargetGapLate(t) == t

TargetGap(t) == t \div 2

\* The hit reads that are too far from the read before them; one that directly
\* follows it is moved, the others are given up.
Far(t) == {x \in HitReads : Gap(x) > TargetGap(t)}
Movable(t) == {x \in Far(t) : Previous(x)[2] = x[2] - 1}

Retimed(t) ==
  [s \in Scenarios |->
    [i \in Facts(s) |-> IF <<s, i>> \in Movable(t)
                        THEN At(Previous(<<s, i>>)) + TargetGap(t)
                        ELSE times[s][i]]]

\* Faulty variant: the reads before the missing ones are marked.
OutOfReachBefore(t) ==
  IF t = Null \/ t >= Upper THEN {Previous(x) : x \in MissGaps} ELSE {}

\* The misses that no TTL of the plan makes happen.
OutOfReach(t) == IF t = Null \/ t >= Upper THEN MissGaps ELSE {}

\* plan_profile_cache_ttl: nothing to do, or all is given up, or reads move.
Plan ==
  /\ ~planned /\ planned' = TRUE /\ ttl' = PlannedTtl
  /\ \/ MissGaps = {} /\ UNCHANGED <<times, marked>>
     \/ /\ MissGaps # {} /\ TooShort
        /\ marked' = OutOfReach(Null) \cup HitReads /\ UNCHANGED times
     \/ /\ MissGaps # {} /\ ~TooShort
        /\ marked' = OutOfReach(PlannedTtl) \cup (Far(PlannedTtl) \ Movable(PlannedTtl))
        /\ times' = Retimed(PlannedTtl)
  /\ UNCHANGED <<setup, clock, lag, row, learned, when, answer>>

-----------------------------------------------------------------------------
(* Playback.                                                               *)

Precedes(x, y) ==
  \/ At(x) < At(y)
  \/ At(x) = At(y) /\ x[1] < y[1]
  \/ At(x) = At(y) /\ x[1] = y[1] /\ x[2] < y[2]

Unplayed == {x \in AllEvents : when[x] = Null}
Due(x) == x \in Unplayed /\ \A y \in Unplayed \ {x} : Precedes(x, y)

\* The event is played at its time or, behind schedule, later.
Plays(x) ==
  /\ planned /\ Due(x)
  /\ \E late \in 0..MaxLag - lag :
       /\ lag' = lag + late
       /\ clock' = late + (IF clock > At(x) THEN clock ELSE At(x))
  /\ when' = [when EXCEPT ![x] = clock']
  /\ UNCHANGED <<setup, plan>>

\* POST /ingest: nothing is said to the profile cache.
Ingest(x) ==
  /\ Expected(x) = "fact" /\ Plays(x)
  /\ learned' = [learned EXCEPT ![user[x[1]]] = @ \cup {x}]
  /\ UNCHANGED <<row, answer>>

\* get_cached_profile finds a row that has not expired.
Cached(u) == row[u] # NoRow /\ clock' - row[u].at <= engineTtl

Answers(x, cached, facts) ==
  answer' = [answer EXCEPT ![x] = [cached |-> cached, facts |-> facts]]

\* Faulty variant: a hit renews the row.
CacheHitRenewing(x) ==
  /\ Expected(x) # "fact" /\ Plays(x) /\ Cached(user[x[1]])
  /\ Answers(x, TRUE, row[user[x[1]]].facts)
  /\ row' = [row EXCEPT ![user[x[1]]].at = clock']
  /\ UNCHANGED learned

CacheHit(x) ==
  /\ Expected(x) # "fact" /\ Plays(x) /\ Cached(user[x[1]])
  /\ Answers(x, TRUE, row[user[x[1]]].facts)
  /\ UNCHANGED <<row, learned>>

\* No row, or an expired one, which is deleted: the profile is generated from
\* the user's active memories and cached.
CacheMiss(x) ==
  LET u == user[x[1]] IN
    /\ Expected(x) # "fact" /\ Plays(x) /\ ~Cached(u)
    /\ Answers(x, FALSE, learned[u])
    /\ row' = [row EXCEPT ![u] = [at |-> clock', facts |-> learned[u]]]
    /\ UNCHANGED learned

-----------------------------------------------------------------------------
\* _draw_timestamps: ascending, with the gap that the run has room for.
Spacing(k) ==
  LET room == Duration \div Len(k.facts) IN IF k.spacing < room THEN k.spacing ELSE room

Draws(k) ==
  {t \in [DOMAIN k.facts -> Instants] :
     \A i \in DOMAIN k.facts \ {1} : t[i] - t[i - 1] >= Spacing(k)}

Init ==
  /\ kind \in [Scenarios -> Kinds]
  /\ user \in [Scenarios -> Users]
  /\ times \in [Scenarios -> UNION {Draws(k) : k \in Kinds}]
  /\ \A s \in Scenarios : times[s] \in Draws(kind[s])
  /\ configured \in Configured /\ engineTtl \in EngineTtls
  /\ planned = FALSE /\ ttl = Null /\ marked = {}
  /\ clock = 0 /\ lag = 0
  /\ row \in [Users -> {NoRow} \cup Leftovers]
  /\ learned = [u \in Users |-> {}]
  /\ when = [x \in AllEvents |-> Null]
  /\ answer = [x \in AllEvents |-> Null]

Next ==
  \/ Plan
  \/ \E x \in AllEvents : Ingest(x) \/ CacheHit(x) \/ CacheMiss(x)

Spec == Init /\ [][Next]_vars

-----------------------------------------------------------------------------
(* Properties.                                                             *)

\* Every variable has its type; nothing is due before the run or after it.
TypeOK ==
  /\ \A s \in Scenarios : times[s] \in [Facts(s) -> 0..Duration]
  /\ ttl \in Nat \cup {Null} /\ planned \in BOOLEAN
  /\ marked \subseteq Repeated
  /\ clock \in 0..Duration + MaxLag /\ lag \in 0..MaxLag
  /\ \A u \in Users : learned[u] \subseteq AllEvents /\ row[u].facts \subseteq AllEvents

Answered == {x \in AllEvents : answer[x] # Null}

\* No other scenario reads the profile of this one's user.
Alone(s) == \A r \in Scenarios \ {s} : user[r] # user[s] \/ Reads(r) = {}

\* With the TTL that the plan asks for, the expectations that it does not give
\* up come true, also when the run is late by up to the margin the plan leaves:
\* a hit, if the read before it filled the cache; a miss after the TTL, if the
\* scenario has its user for itself.
PlannedHold ==
  ttl = engineTtl =>
    \A x \in Answered \ marked :
      /\ x \in HitReads /\ ~answer[Previous(x)].cached /\ 2 * MaxLag <= ttl
           => answer[x].cached
      /\ x \in MissGaps /\ Alone(x[1]) /\ ttl + MaxLag < Upper
           => ~answer[x].cached

\* A profile holds only facts of its user, and is never older than the TTL: it
\* misses no fact that was stored longer ago than that.
BoundedStaleness ==
  \A x \in Answered :
    LET old == {y \in AllEvents : /\ Expected(y) = "fact" /\ user[y[1]] = user[x[1]]
                                  /\ when[y] # Null /\ when[y] < when[x] - engineTtl}
    IN  old \subseteq answer[x].facts /\ answer[x].facts \subseteq learned[user[x[1]]]

\* A row is no younger than the clock, and holds what was stored before it.
RowsHold ==
  \A u \in Users :
    row[u] # NoRow =>
      /\ row[u].at \in Int /\ row[u].at <= clock
      /\ \A y \in learned[u] : when[y] < row[u].at => y \in row[u].facts
      /\ row[u].facts \subseteq learned[u]

\* What the engine has of a user are the user's facts that were played.
LearnedPlayed ==
  \A u \in Users :
    learned[u] = {y \in AllEvents : Expected(y) = "fact" /\ user[y[1]] = u /\ when[y] # Null}

\* The inductive invariant behind TypeOK and BoundedStaleness.
IInv ==
  /\ TypeOK /\ clock <= Duration + lag
  /\ kind \in [Scenarios -> Kinds] /\ user \in [Scenarios -> Users]
  /\ configured \in Configured /\ engineTtl \in EngineTtls
  /\ DOMAIN times = Scenarios
  /\ DOMAIN row = Users /\ DOMAIN learned = Users /\ DOMAIN answer = AllEvents
  /\ when \in [AllEvents -> Nat \cup {Null}]
  /\ \A x \in AllEvents : when[x] # Null => when[x] <= clock
  /\ \A x \in Answered : when[x] # Null
  /\ RowsHold /\ LearnedPlayed /\ BoundedStaleness

\* Scenarios are due in the order of their facts, before the plan and after it.
Ascending ==
  \A s \in Scenarios : \A i, j \in Facts(s) : i < j => times[s][i] <= times[s][j]

\* Nothing is played before the plan, and then what is due first is first.
InOrder ==
  /\ ~planned => Unplayed = AllEvents /\ ttl = Null /\ clock = 0
  /\ \A y \in AllEvents \ Unplayed, x \in Unplayed : Precedes(y, x)

\* Nothing is played early, nor later than the run is behind.
OnTime ==
  /\ \A x \in Unplayed : clock <= At(x) + lag
  /\ \A y \in AllEvents \ Unplayed : At(y) <= when[y] /\ when[y] <= At(y) + lag

\* A read that missed filled the row, which is only ever replaced by a later
\* one; a row is left from before the run or was filled by a read that missed.
RowsFilled ==
  LET played == {y \in AllEvents \ Unplayed : Expected(y) # "fact"} IN
    /\ \A y \in played : ~answer[y].cached =>
         row[user[y[1]]] # NoRow /\ when[y] <= row[user[y[1]]].at
    /\ \A u \in Users : row[u] # NoRow =>
         row[u].at <= 0 \/ \E y \in played : user[y[1]] = u /\ row[u].at = when[y]

\* Reads that must hit, and are not given up, are close to the read before them.
HitsClose == ttl # Null => \A x \in HitReads \ marked : Gap(x) <= TargetGap(ttl)

\* The inductive invariant behind PlannedHold.
PlanInv == IInv /\ Ascending /\ InOrder /\ OnTime /\ RowsFilled /\ HitsClose /\ PlannedHold

\* Every hit that is expected, and not marked as unsatisfiable, is one.
UnmarkedHit ==
  ttl = engineTtl => \A x \in (Answered \cap HitReads) \ marked : answer[x].cached
=============================================================================
