------------------------------- MODULE Absence -------------------------------
(* Python's None, SQL's NULL, a key or a file that is not there: the one value *)
(* by which all modules mean that there is none.                             *)

CONSTANT None
=============================================================================
