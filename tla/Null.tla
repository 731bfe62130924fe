-------------------------------- MODULE Null --------------------------------
(***************************************************************************)
(* What a nullable column, or a variable of the code that is null or       *)
(* undefined, holds.  A module of its own, so that the modules which       *)
(* extend it can be explored by one run.                                   *)
(***************************************************************************)

CONSTANT None

=============================================================================
