------------------------------ MODULE Optional ------------------------------
(***************************************************************************)
(* The value of what has none: undefined or O.none in the program, an      *)
(* absent property of a JSON object, a nil reply of Redis.                 *)
(***************************************************************************)
CONSTANT Missing
=============================================================================
