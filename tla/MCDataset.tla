------------------------------ MODULE MCDataset ------------------------------
(* Instances of Dataset for TLC. *)
EXTENDS Dataset, TLC

CONSTANTS p1, p2, g1, g2

\* Two entries in a group each.
TwoGroups == p1 :> g1 @@ p2 :> g2
\* One entry only.
OneEntry == p1 :> g1

\* What users import: every group, ...
AllGroups == {Groups}
\* ... or the first one only.
OneOrAll == {{g1}, Groups}
=============================================================================
