---------------------------- MODULE WtpSession ----------------------------
(***************************************************************************)
(* What an AP promises to the stations it serves, without sockets,         *)
(* messages, sequence numbers, retries and clocks.  Interfaces go on the   *)
(* air while the AP joins.  From the first RUN on they stay as they are:   *)
(* the AP may miss answers, lose its controller and find it again, but it  *)
(* takes service down only by stopping or by a reboot it asked for.  A     *)
(* controller lost is served again only by way of resuming, and joining is *)
(* reached again only through a reboot.                                    *)
(***************************************************************************)
EXTENDS Integers

CONSTANTS
  Interfaces,  \* what can be on the air
  MaxMissed    \* answers that may be missed before the controller is lost

VARIABLES
  phase,   \* joining, serving, lost, resuming or stopped
  missed,  \* requests of the serving AP not answered so far
  on,      \* the interfaces on the air
  asked    \* whether a reboot was asked for

vars == <<phase, missed, on, asked>>

Phases == {"joining", "serving", "lost", "resuming", "stopped"}

TypeOK ==
  /\ phase \in Phases
  /\ missed \in 0 .. MaxMissed
  /\ on \subseteq Interfaces
  /\ asked \in BOOLEAN

Init == phase = "joining" /\ missed = 0 /\ on = {} /\ asked = FALSE

Grow == on' \in SUBSET Interfaces /\ on \subseteq on'

(* A join that fails may leave interfaces on the air.                      *)
TryJoin ==
  /\ phase = "joining" /\ Grow
  /\ UNCHANGED <<phase, missed, asked>>

Serve ==
  /\ phase = "joining" /\ phase' = "serving" /\ Grow
  /\ UNCHANGED <<missed, asked>>

Miss ==
  /\ phase = "serving" /\ missed < MaxMissed /\ missed' = missed + 1
  /\ UNCHANGED <<phase, on, asked>>

Hear ==
  /\ phase = "serving" /\ missed' = 0
  /\ UNCHANGED <<phase, on, asked>>

Lose ==
  /\ phase = "serving" /\ phase' = "lost" /\ missed' = 0
  /\ UNCHANGED <<on, asked>>

Reconnect ==
  /\ phase = "lost" /\ phase' = "resuming"
  /\ UNCHANGED <<missed, on, asked>>

Resume ==
  /\ phase = "resuming" /\ phase' = "serving"
  /\ UNCHANGED <<missed, on, asked>>

AskReboot ==
  /\ phase # "stopped" /\ asked' = TRUE
  /\ UNCHANGED <<phase, missed, on>>

Reboot ==
  /\ asked
  /\ phase' = "joining" /\ missed' = 0 /\ on' = {} /\ asked' = FALSE

(* The process ends or gets stuck; ending, it takes interfaces off the air.*)
Stop ==
  /\ phase' = "stopped"
  /\ on' \in SUBSET on
  /\ UNCHANGED <<missed, asked>>

Next ==
  \/ TryJoin \/ Serve \/ Miss \/ Hear \/ Lose \/ Reconnect \/ Resume
  \/ AskReboot \/ Reboot \/ Stop

Spec == Init /\ [][Next]_vars
=============================================================================
