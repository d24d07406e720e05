--------------------------- MODULE MCProfileReads ---------------------------
EXTENDS ProfileReads

\* cache_001, cache_002, cache_006 of the catalogue.
HitSoon == [facts |-> <<"fact", "miss", "hit">>, spacing |-> 1, requires |-> FALSE]
MissLater == [facts |-> <<"fact", "miss", "miss">>, spacing |-> 8, requires |-> TRUE]
Refresh == [facts |-> <<"fact", "miss", "fact", "miss">>, spacing |-> 1, requires |-> FALSE]
AllKinds == {HitSoon, MissLater, Refresh}
HitAndMiss == {HitSoon, MissLater}

\* A row that an earlier run left behind as this one began.
OneLeft == {[at |-> 0, facts |-> {}]}
NoneLeft == {}
=============================================================================
