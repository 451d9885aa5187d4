--------------------------- MODULE MCChatRotation ---------------------------
(* Finite instances of ChatRotation for TLC.                                *)
EXTENDS ChatRotation, TLC

\* Accounts, and requests, are interchangeable in every safety property.
Interchangeable ==
  Permutations(Accounts) \cup Permutations(Requests)
=============================================================================
