---------------------------- MODULE TokenBucket ----------------------------
(***************************************************************************)
(* tokenBucket of vt.go: nothing runs between calls; allow refills for the  *)
(* time since the last call, capped, and then takes a token or refuses.     *)
(* Seconds and tokens are exact here; the code keeps both in float64.       *)
(***************************************************************************)
EXTENDS Integers

CONSTANTS
    Cap, Cost,  \* see RateLimit
    From,       \* start of the window the grants are counted in, any instant
    MaxTime     \* bound on the clock

ASSUME BucketAssumption ==
    /\ Cost \in Nat \ {0} /\ Cap \in Nat /\ Cost <= Cap
    /\ From \in Nat /\ MaxTime \in Nat

VARIABLES
    now,        \* time.Now()
    tokens,     \* b.tokens, in units
    last,       \* b.last
    granted     \* calls answered true at From or later (history)

bucketVars == <<now, tokens, last, granted>>

BucketTypeOK ==
    /\ now \in 0 .. MaxTime
    /\ tokens \in 0 .. Cap
    /\ last \in 0 .. now
    /\ granted \in Nat

\* newBucket: full.
BucketInit == now = 0 /\ tokens = Cap /\ last = 0 /\ granted = 0

Tick ==
    /\ now < MaxTime
    /\ now' = now + 1
    /\ UNCHANGED <<tokens, last, granted>>

Refill == IF tokens + (now - last) > Cap THEN Cap ELSE tokens + (now - last)

AllowTrue ==
    /\ Refill >= Cost
    /\ tokens' = Refill - Cost
    /\ last' = now
    /\ granted' = IF now >= From THEN granted + 1 ELSE granted
    /\ UNCHANGED now

\* Seeded bug: the clock of the last refill stands still on a refusal.
AllowFalseStale ==
    /\ Refill < Cost
    /\ tokens' = Refill
    /\ UNCHANGED <<now, last, granted>>

AllowFalse ==
    /\ Refill < Cost
    /\ tokens' = Refill
    /\ last' = now
    /\ UNCHANGED <<now, granted>>

BucketNext == Tick \/ AllowTrue \/ AllowFalse

BucketSpec == BucketInit /\ [][BucketNext]_bucketVars

----------------------------------------------------------------------------

\* However the calls fall, the grants since any instant From cost no more than
\* a full bucket and the time that has passed since (tokenBucket.allow).
WindowBound == granted * Cost <= Cap + (IF now > From THEN now - From ELSE 0)

\* The bucket behaves like one that refills continuously, whenever it is asked.
Limit == INSTANCE RateLimit WITH level <- Refill

ImplementsLimit == Limit!RateSpec
=============================================================================
