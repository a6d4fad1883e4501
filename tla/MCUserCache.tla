---------------------------- MODULE MCUserCache ---------------------------
(* Small instances of UserCache: the coroutines are interchangeable model values. *)
EXTENDS UserCache, TLC

Symmetry == Permutations(Requests)
===========================================================================
