-------------------------- MODULE FactMemoryProofs --------------------------
(***************************************************************************)
(* What follows from the promise alone, for any set of keys.               *)
(***************************************************************************)
EXTENDS FactMemory, TLAPS

\* The id being stored is the newest one handed out.
OpenIsNewest ==
  /\ known \in [Keys -> Nat]
  /\ issued \in Nat
  /\ open \in {0, issued}

LEMMA OpenStaysNewest == Spec => []OpenIsNewest
<1>1. Init => OpenIsNewest
  BY DEF Init, OpenIsNewest
<1>2. OpenIsNewest /\ [Next]_promiseVars => OpenIsNewest'
  <2> SUFFICES ASSUME OpenIsNewest, [Next]_promiseVars PROVE OpenIsNewest'
    OBVIOUS
  <2> USE DEF OpenIsNewest
  <2>1. CASE Begin \/ Abandon \/ UNCHANGED promiseVars
    BY <2>1 DEF Begin, Abandon, promiseVars
  <2>2. ASSUME NEW k \in Keys, Learn(k) \/ Withdraw(k) PROVE OpenIsNewest'
    BY <2>2 DEF Learn, Withdraw
  <2>3. ASSUME NEW S \in SUBSET Keys, Forget(S) PROVE OpenIsNewest'
    BY <2>3 DEF Forget
  <2>4. QED
    BY <2>1, <2>2, <2>3 DEF Next
<1>3. QED
  BY <1>1, <1>2, PTL DEF Spec

\* A store that keeps the promise answers a key with what it answered before,
\* with nothing, or with the newest id of all: what the ingest of a fact
\* superseded never takes the place of what superseded it.
THEOREM OnlyNewest == Spec => NewestOrNothing
<1>1. OpenIsNewest /\ [Next]_promiseVars
        => [\A k \in Keys : known'[k] \in {known[k], 0, issued}]_promiseVars
  <2> SUFFICES ASSUME OpenIsNewest, Next, NEW k \in Keys
               PROVE  known'[k] \in {known[k], 0, issued}
    OBVIOUS
  <2> USE DEF OpenIsNewest
  <2>1. CASE Begin \/ Abandon
    BY <2>1 DEF Begin, Abandon
  <2>2. ASSUME NEW j \in Keys, Learn(j) \/ Withdraw(j)
        PROVE  known'[k] \in {known[k], 0, issued}
    BY <2>2 DEF Learn, Withdraw
  <2>3. ASSUME NEW S \in SUBSET Keys, Forget(S)
        PROVE  known'[k] \in {known[k], 0, issued}
    BY <2>3 DEF Forget
  <2>4. QED
    BY <2>1, <2>2, <2>3 DEF Next
<1>2. QED
  BY <1>1, OpenStaysNewest, PTL DEF Spec, NewestOrNothing
=============================================================================
