----------------------------- MODULE MCFixStore -----------------------------
(* FixStore on small instances: rings of at most three slots.              *)
EXTENDS FixStore
=============================================================================
