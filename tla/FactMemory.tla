----------------------------- MODULE FactMemory -----------------------------
(***************************************************************************)
(* What the memory store promises whoever retrieves from it: each natural  *)
(* key has at most one retrievable memory, ids are learned in the order in *)
(* which they were issued, and what has been superseded or forgotten never *)
(* comes back.  It does not promise that a memory is kept.                 *)
(***************************************************************************)
EXTENDS Naturals

CONSTANT Keys

VARIABLES
  known,   \* known[k]: the id that retrieval answers for key k, 0 for none
  issued,  \* ids handed out so far
  open     \* the id being stored, 0 for none

promiseVars == <<known, issued, open>>

Init ==
  /\ known = [k \in Keys |-> 0]
  /\ issued = 0
  /\ open = 0

\* A fact is about to be stored: it gets the next id.
Begin ==
  /\ open = 0
  /\ issued' = issued + 1
  /\ open' = issued + 1
  /\ UNCHANGED known

\* The fact becomes retrievable, once its predecessor no longer is.
Learn(k) ==
  /\ open # 0
  /\ known[k] = 0
  /\ known' = [known EXCEPT ![k] = open]
  /\ open' = 0
  /\ UNCHANGED issued

\* Storing the fact fails, and it will never be retrievable.
Abandon ==
  /\ open' = 0
  /\ UNCHANGED <<known, issued>>

\* Memories stop being retrievable: superseded, expired or too old.
Forget(S) ==
  /\ known' = [k \in Keys |-> IF k \in S THEN 0 ELSE known[k]]
  /\ UNCHANGED <<issued, open>>

\* A memory is replaced by one that is not meant to be retrieved.
Withdraw(k) ==
  /\ open = 0
  /\ issued' = issued + 1
  /\ known' = [known EXCEPT ![k] = 0]
  /\ UNCHANGED open

Next ==
  \/ Begin
  \/ Abandon
  \/ \E k \in Keys : Learn(k) \/ Withdraw(k)
  \/ \E S \in SUBSET Keys : Forget(S)

Spec == Init /\ [][Next]_promiseVars

\* The answer for a key changes only to nothing, or to the newest id there is:
\* an older memory never takes a newer one's place.
NewestOrNothing ==
  [][\A k \in Keys : known'[k] \in {known[k], 0, issued}]_promiseVars
=============================================================================
