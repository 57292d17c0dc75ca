------------------------------ MODULE MCWtpId ------------------------------
(* WtpId with two UUIDs that have no byte in common.                       *)
EXTENDS WtpId

MCBytes == 0 .. 31
MCUuids == {[n \in Index |-> n], [n \in Index |-> 16 + n]}
=============================================================================
