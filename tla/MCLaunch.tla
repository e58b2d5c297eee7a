------------------------------ MODULE MCLaunch ------------------------------
(* Instances of Launch for TLC: everything is given in the configurations. *)
EXTENDS Launch
=============================================================================
