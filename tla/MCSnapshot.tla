----------------------------- MODULE MCSnapshot -----------------------------
(***************************************************************************)
(* An instance of Snapshot for TLC: two devices that both call a profile   *)
(* "main" and have another each.  A tick is half a millisecond: the offset *)
(* 1 of a file of 2 ticks is formatted as 2, past its end.  Of the         *)
(* durations one is right, one unknown, one longer than the file, and one  *)
(* no number.                                                              *)
(***************************************************************************)
EXTENDS Snapshot

MCProfiles == << [device |-> "a", token |-> "main"], [device |-> "a", token |-> "sub"],
                 [device |-> "b", token |-> "main"], [device |-> "b", token |-> "aux"] >>
MCDuration == <<0, 2, 3, NaN>>
MCLength   == <<2, 2, 1, 2>>

=============================================================================
