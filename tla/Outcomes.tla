------------------------------ MODULE Outcomes ------------------------------
(***************************************************************************)
(* How a check of the configuration ends: well, with a ConfigError, or     *)
(* with an exception that main() does not expect.                          *)
(***************************************************************************)
EXTENDS Integers, Sequences

Outcomes == {"ok", "rejects", "raises"}

Require(condition) == IF condition THEN "ok" ELSE "rejects"

\* Checks made one after the other: the first that fails decides.
Checked(outcomes) ==
  LET failed == {k \in DOMAIN outcomes : outcomes[k] # "ok"}
  IN  IF failed = {} THEN "ok"
      ELSE outcomes[CHOOSE k \in failed : \A l \in failed : k <= l]

=============================================================================
