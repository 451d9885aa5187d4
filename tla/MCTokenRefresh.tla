--------------------------- MODULE MCTokenRefresh ---------------------------
(* Finite instances of TokenRefresh for TLC.                                *)
EXTENDS TokenRefresh, TLC

\* Chat requests are interchangeable in every safety property.
Interchangeable == Permutations(Chats)
=============================================================================
