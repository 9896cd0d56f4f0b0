----------------------------- MODULE MCSoloUpload -----------------------------
(* Instances of SoloUpload for TLC. *)
EXTENDS SoloUpload

CONSTANTS a1, a2

\* Two rounds of one session.
TwoRounds == [r \in Records |-> IF r = a1 THEN 1 ELSE 2]
Revisions == [s \in Windows |-> IF s = 1 THEN 3 ELSE 1]
OneSession == [r \in Records |-> "a"]
===============================================================================
