--------------------------- MODULE MCApiClient ---------------------------
(* Small instances of ApiClient. *)
EXTENDS ApiClient, TLC
===========================================================================
