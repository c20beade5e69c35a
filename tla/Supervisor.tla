----------------------------- MODULE Supervisor -----------------------------
(***************************************************************************)
(* What a run of the mock promises about the child processes it owns,      *)
(* whatever happens inside: children are spawned only while it starts, it  *)
(* goes live only with all of them spawned, once live it is never          *)
(* abandoned except by a kill, and it reports success only after an        *)
(* orderly stop that left no child alive.  Runtime implements it.          *)
(***************************************************************************)
CONSTANT Children

VARIABLES
  phase,     \* "starting", "serving", "stopping" or "ended"
  spawned,   \* children started so far
  alive,     \* children running now
  verdict    \* how the process ended, "none" before

vars == <<phase, spawned, alive, verdict>>

Init ==
  /\ phase = "starting"
  /\ spawned = {}
  /\ alive = {}
  /\ verdict = "none"

Spawn(c) ==
  /\ phase = "starting"
  /\ c \notin spawned
  /\ spawned' = spawned \cup {c}
  /\ alive' = alive \cup {c}
  /\ UNCHANGED <<phase, verdict>>

\* A child exits, by itself or because it was told to.
Die(c) ==
  /\ c \in alive
  /\ alive' = alive \ {c}
  /\ UNCHANGED <<phase, spawned, verdict>>

GoLive ==
  /\ phase = "starting"
  /\ spawned = Children
  /\ phase' = "serving"
  /\ UNCHANGED <<spawned, alive, verdict>>

BeginStop ==
  /\ phase = "serving"
  /\ phase' = "stopping"
  /\ UNCHANGED <<spawned, alive, verdict>>

MayEnd(v) ==
  \/ v = "killed"
  \/ v = "ok" /\ phase = "stopping" /\ alive = {}
  \/ v = "error" /\ phase \in {"starting", "stopping"}
                     /\ (phase = "stopping" => alive = {})
  \/ v \in {"traceback", "interrupted"} /\ phase \in {"starting", "stopping"}

End(v) ==
  /\ phase # "ended"
  /\ MayEnd(v)
  /\ phase' = "ended"
  /\ verdict' = v
  /\ UNCHANGED <<spawned, alive>>

Next ==
  \/ \E c \in Children : Spawn(c) \/ Die(c)
  \/ GoLive
  \/ BeginStop
  \/ \E v \in {"ok", "error", "traceback", "interrupted", "killed"} : End(v)

Spec == Init /\ [][Next]_vars

=============================================================================
