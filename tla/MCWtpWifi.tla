----------------------------- MODULE MCWtpWifi -----------------------------
(* WtpWifi on small instances.                                             *)
EXTENDS WtpWifi, TLC

MCSymmetry == Permutations(Wlans) \cup Permutations(Cfgs)
=============================================================================
