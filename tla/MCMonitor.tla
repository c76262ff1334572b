----------------------------- MODULE MCMonitor -----------------------------
(* Two connections of one binary, a binary of two versions, one alert       *)
(* goroutine and one restart and two changes of the machine.               *)
EXTENDS Monitor, TLC

ConnsOf == [k \in Conns |-> CHOOSE e \in Exes : TRUE]

Symmetry == Permutations(Conns) \cup Permutations(Contents)
=============================================================================
