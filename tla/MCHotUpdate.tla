---------------------------- MODULE MCHotUpdate ----------------------------
(* Finite instances of HotUpdate for TLC.                                   *)
EXTENDS HotUpdate
=============================================================================
