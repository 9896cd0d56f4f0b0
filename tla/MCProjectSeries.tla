--------------------------- MODULE MCProjectSeries ---------------------------
(* Instances of ProjectSeries for TLC. *)
EXTENDS ProjectSeries

\* The code allows ten of each.
FewQuestions == [zero |-> 1, feature |-> 2]
=============================================================================
