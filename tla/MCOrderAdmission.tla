-------------------------- MODULE MCOrderAdmission --------------------------
(* Instances of OrderAdmission for TLC: the policy. *)
EXTENDS OrderAdmission

MCPolicy == [symbols |-> {"symbol"}, latency |-> 1, spread |-> 2, least |-> 1, most |-> 4,
             deviation |-> None]
MCSteps == {None, 2}
=============================================================================
