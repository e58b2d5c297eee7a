------------------------------ MODULE MCIndexer ------------------------------
(***************************************************************************)
(* Instances of Indexer for TLC.  A batch of three blocks and one          *)
(* confirmation are the smallest that leave a block without events between *)
(* the ends of a batch and a block above the confirmed head.               *)
(***************************************************************************)
EXTENDS Indexer
=============================================================================
