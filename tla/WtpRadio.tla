------------------------------ MODULE WtpRadio ------------------------------
(***************************************************************************)
(* What the AP does to its WiFi interfaces, in the large: while it joins   *)
(* it collects interfaces in a table that only grows, and may already have *)
(* told some of them to serve; it serves once all of the table was told;   *)
(* from there on nothing changes until the program takes down what it put  *)
(* up, or the system starts again.  Wtp and WtpWifi both implement this,   *)
(* the one with a handler as a step, the other with a command as a step.   *)
(***************************************************************************)
CONSTANT Interfaces

VARIABLES
  phase,  \* joining, serving or down
  table,  \* the interfaces the program knows of
  told    \* the interfaces that were last told to serve

vars == <<phase, table, told>>

Init == phase = "joining" /\ table = {} /\ told = {}

Collect ==
  /\ phase = "joining" /\ phase' = "joining"
  /\ table' \subseteq Interfaces /\ table \subseteq table'
  /\ told \subseteq told' /\ told' \subseteq table'

Serve ==
  /\ phase = "joining" /\ phase' = "serving"
  /\ table' \subseteq Interfaces /\ table \subseteq table'
  /\ told' = table'

TakeDown ==
  /\ phase' = "down"
  /\ table' = table /\ told' \subseteq told

Restart == phase' = "joining" /\ table' = {} /\ told' = {}

Next == Collect \/ Serve \/ TakeDown \/ Restart

Spec == Init /\ [][Next]_vars
=============================================================================
