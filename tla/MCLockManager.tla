--------------------------- MODULE MCLockManager ---------------------------
(***************************************************************************)
(* A lock manager with few callers, resources and requests for TLC; the    *)
(* numbers and bounds are in the configurations.                           *)
(***************************************************************************)
EXTENDS LockManager, TLC

\* Resources differ by name only, and so do callers of one kind.
LockSymmetry == Permutations(Resource) \cup Permutations(Caller \ Remote)
=============================================================================
