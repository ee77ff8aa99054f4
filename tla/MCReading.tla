----------------------------- MODULE MCReading ------------------------------
(***************************************************************************)
(* Small instances of Reading for TLC.                                      *)
(***************************************************************************)
EXTENDS Reading, TLC

\* Of three messages the one in the middle is of another channel.
ChannelOf == [m \in Message |-> IF m = 2 THEN "b" ELSE "a"]

Inserters == Permutations(Inserter)
=============================================================================
