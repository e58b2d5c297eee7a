----------------------------- MODULE MCRealtime -----------------------------
(* An instance of Realtime: when the token launches and graduates.         *)
EXTENDS Realtime, TLC

CONSTANTS t1, c1

LaunchOne == t1 :> 1
GraduateOne == t1 :> 3
=============================================================================
