----------------------------- MODULE MCSession -----------------------------
(* Bounds for TLC are in the configurations; no definition is replaced.      *)
EXTENDS Session
=============================================================================
