------------------------------ MODULE MCWtpNet ------------------------------
(* WtpNet on small instances.                                              *)
EXTENDS WtpNet

MCEchoTime == CHOOSE t \in EchoTimes : TRUE
MCWlan == CHOOSE w \in Wlans : TRUE

(* An accepting JOIN-REP configures one interface and sets the ECHO time.  *)
MCJoinBodies ==
  {Answer(ResultOK) \o <<[type |-> "ECHO", val |-> MCEchoTime],
                         [type |-> "WIFICFG", val |-> MCWlan]>>}
MCBodies == MCJoinBodies \cup {<<>>, Answer(ResultOK), Answer(ResultFailed)}
=============================================================================
