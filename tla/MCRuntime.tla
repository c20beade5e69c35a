----------------------------- MODULE MCRuntime -----------------------------
(***************************************************************************)
(* Instances of Runtime for TLC.  The constants are given in the           *)
(* configurations: two profiles and two devices are the smallest numbers   *)
(* for which the loops over them have a first, a next and a last position. *)
(***************************************************************************)
EXTENDS RuntimeInvariant

=============================================================================
