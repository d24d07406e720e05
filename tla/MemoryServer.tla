---------------------------- MODULE MemoryServer ----------------------------
(***************************************************************************)
(* The memory store as the FastAPI server runs it: one event loop, and a   *)
(* LanceDB whose update does not raise.  What retrieval can see then keeps *)
(* the promise of FactMemory.                                              *)
(***************************************************************************)
EXTENDS MemoryStore

ASSUME ServerAssumption == EventLoop /\ "update" \notin Faults

\* The memories of key k that can be retrieved and are not condemned.
Answers(k) ==
  {i \in Ids : fact[i].key = k /\ vec[i].state = "live" /\ ~Condemned(i)}

knownIds ==
  [k \in Keys |-> IF Answers(k) = {} THEN 0 ELSE CHOOSE i \in Answers(k) : TRUE]

openId ==
  IF \E w \in Workers : Storing(w)
  THEN worker[CHOOSE w \in Workers : Storing(w)].id ELSE 0

Promise == INSTANCE FactMemory WITH known <- knownIds, open <- openId

\* With several ingests, crashes, failed embeddings, commits and prunes, the
\* server still answers each key with its newest memory or with none: an older
\* memory never resurfaces (store.py, upsert_fact and delete_expired).
KeepsPromise == Promise!Spec

-----------------------------------------------------------------------------
(* The inductive invariant behind the two.                                 *)

\* On one event loop at most one ingest is past its extractor, and while the
\* process is down nothing is running or pending.
Serial ==
  /\ \A v, w \in Workers : Running(v) /\ Running(w) => v = w
  /\ ~up => sql = disk /\ \A w \in Workers : ~Running(w)

\* Ids are handed out once: what names an id names one that was issued, under
\* its own key, and an id not issued yet has no vector.
IdsIssued ==
  /\ \A i \in Ids : IF i <= issued THEN fact[i].key \in Keys
                                   ELSE vec[i].state = "absent"
  /\ \A k \in Keys : /\ sql[k].id <= issued /\ disk[k].id <= issued
                     /\ sql[k] = NoRow \/ disk[k].id <= sql[k].id
                     /\ NamesOwn(sql[k], k) /\ NamesOwn(disk[k], k)

\* The id being stored is the newest one, and has no vector yet; between the
\* two writes its row is in place, and before them its key has no active row.
StoringNewest ==
  \A w \in Workers : Storing(w) =>
    /\ worker[w].id = issued /\ issued # 0
    /\ vec[issued].state = "absent"
    /\ worker[w].pc = "replacing" => ~sql[fact[issued].key].active
    /\ worker[w].pc = "embedding" => Owned(sql, issued) /\ Owned(disk, issued)

IInv ==
  /\ TypeOK
  /\ expCut <= clock
  /\ Serial
  /\ IdsIssued
  /\ StoringNewest
  /\ LiveVectorOwned
=============================================================================
