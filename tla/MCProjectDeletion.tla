--------------------------- MODULE MCProjectDeletion ---------------------------
(* A small instance of ProjectDeletion for TLC.                               *)
EXTENDS ProjectDeletion

\* Batches of two rows: one can be locked while the other is wanted.
TwoSubmissions == {"s1", "s2"}
TwoDeletions == {"d1", "d2"}
=============================================================================
