---------------------------- MODULE MCChargeMode ----------------------------
EXTENDS ChargeMode
(* The constants are given in the configurations ChargeMode_*.             *)
=============================================================================
