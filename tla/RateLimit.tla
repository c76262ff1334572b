----------------------------- MODULE RateLimit -----------------------------
(***************************************************************************)
(* What a token bucket promises (vt.go), without its clock: a level that   *)
(* rises by one unit per tick up to Cap and falls by Cost with each grant.  *)
(* One token is Cost units, so the bucket of the program, 4 tokens refilled *)
(* at 4 per minute, is Cost = 15 and Cap = 60 with ticks of one second.     *)
(***************************************************************************)
EXTENDS Integers

CONSTANTS Cap, Cost

ASSUME RateAssumption == Cost \in Nat \ {0} /\ Cap \in Nat /\ Cost <= Cap

VARIABLE level

RateTypeOK == level \in 0 .. Cap

RateInit == level = Cap

Lesser(a, b) == IF a <= b THEN a ELSE b

Rise == level' = Lesser(level + 1, Cap)

Grant == level >= Cost /\ level' = level - Cost

RateNext == Rise \/ Grant

RateSpec == RateInit /\ [][RateNext]_level
=============================================================================
