----------------------------- MODULE MCVTQueue -----------------------------
(* Three hashes and two renders over a queue of one: a hash at the worker,  *)
(* one in the queue and one that finds it full.  A bucket of two tokens.    *)
EXTENDS VTQueue, TLC

Symmetry == Permutations(Renderers)
=============================================================================
