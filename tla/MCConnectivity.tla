--------------------------- MODULE MCConnectivity ---------------------------
EXTENDS Connectivity
(* Model values and bounds are given in the configurations Connectivity_*. *)
=============================================================================
