---------------------------- MODULE MCIngestion -----------------------------
(***************************************************************************)
(* Small instances of Ingestion for TLC.                                    *)
(***************************************************************************)
EXTENDS Ingestion, TLC

CONSTANTS c1, c2

Workers == Permutations(Worker)

E(date, kind) == [date |-> date, kind |-> kind]

\* A channel with a past: a post on the edge of the window, one inside it, and
\* a message of the user's own.
OneChannel == c1 :> <<E(0, "post"), E(1, "post"), E(1, "out")>>

\* A channel that begins with a service message, so that seedCursor gets null,
\* and one without a past.
TwoChannels == c1 :> <<E(0, "service")>> @@ c2 :> << >>
=============================================================================
