------------------------------- MODULE MCWtp -------------------------------
(* Wtp on small instances.                                                 *)
EXTENDS Wtp

ok == [type |-> "RESCODE", val |-> ResultOK]
failed == [type |-> "RESCODE", val |-> ResultFailed]
time(t) == [type |-> "ECHO", val |-> t]
wifi(w) == [type |-> "WIFICFG", val |-> w]
other(t) == [type |-> t, val |-> 0]

(* A reply that configures and one that only accepts, a refusal behind a   *)
(* configuration, and what each kind of unusual attribute does.            *)
MCBodies ==
  {<<>>, <<ok>>, <<ok, time(2), wifi(0)>>, <<time(1), wifi(1), failed>>,
   <<wifi(0), other("bad")>>, <<other("skip"), ok>>, <<other("empty")>>,
   <<ok, other("stub")>>}
=============================================================================
