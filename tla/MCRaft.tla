------------------------------- MODULE MCRaft -------------------------------
(***************************************************************************)
(* Small clusters of RaftNode for TLC; the sizes and bounds are in the     *)
(* configurations.                                                         *)
(***************************************************************************)
EXTENDS Raft, TLC

\* Nodes differ by name only.  (Not used where a liveness property is checked.)
NodeSymmetry == Permutations(Node)
=============================================================================
