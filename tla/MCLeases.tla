------------------------------ MODULE MCLeases ------------------------------
(***************************************************************************)
(* Small instances of Leases for TLC.                                       *)
(***************************************************************************)
EXTENDS Leases, TLC

Workers == Permutations(Worker)

Symmetric == Permutations(Worker) \cup Permutations(User)
=============================================================================
