----------------------------- MODULE MCIPIntel -----------------------------
(* Two addresses over a cache of one, and three callers: one that leads, one *)
(* that waits for it and one that comes as it leaves.  Beside them the bucket *)
(* a lookup asks before it asks VirusTotal: a minute of six seconds, two     *)
(* tokens of three units, and three minutes, enough to empty it, leave it    *)
(* idle past its cap and empty it anew.  A lookup goes on whatever the bucket *)
(* says, so each machine is checked while the other rests.                   *)
EXTENDS IPIntel, TokenBucket

VARIABLE part

\* The part that rests has one initial state, so that no run is made twice.
Init ==
    /\ part \in {"lookups", "bucket"}
    /\ IntelInit
    /\ BucketInit
    /\ part = "bucket" => feed = "ipSet"

Next ==
    /\ \/ part = "lookups" /\ IntelNext /\ UNCHANGED bucketVars
       \/ part = "bucket" /\ BucketNext /\ UNCHANGED intelVars
    /\ UNCHANGED part

vars == <<part, intelVars, bucketVars>>

FairSpec == Init /\ [][Next]_vars /\ IntelFairness
=============================================================================
