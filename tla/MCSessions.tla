---------------------------- MODULE MCSessions ----------------------------
(* Small instances of Sessions: users, session ids and coroutines are model values. *)
EXTENDS Sessions, TLC

Symmetry == Permutations(Users) \cup Permutations(Sids) \cup Permutations(Requests)
===========================================================================
