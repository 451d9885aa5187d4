-------------------------- MODULE MCStickySession --------------------------
(* Finite instances of StickySession for TLC.                               *)
EXTENDS StickySession, TLC

\* Keys, accounts and requests are interchangeable in every safety property.
Interchangeable == Permutations(Keys) \cup Permutations(Uids) \cup Permutations(Reqs)
=============================================================================
