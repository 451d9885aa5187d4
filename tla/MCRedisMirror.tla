--------------------------- MODULE MCRedisMirror ---------------------------
(* Finite instances of RedisMirror for TLC.                                 *)
EXTENDS RedisMirror, TLC
=============================================================================
