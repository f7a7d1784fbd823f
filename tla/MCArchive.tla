------------------------------ MODULE MCArchive ------------------------------
(* Instances of DatasetArchive for TLC. *)
EXTENDS DatasetArchive, TLC

\* Requests are alike.
ClientSymmetry == Permutations(Clients)
=============================================================================
