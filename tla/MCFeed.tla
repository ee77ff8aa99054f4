------------------------------- MODULE MCFeed -------------------------------
(***************************************************************************)
(* Small instances of Feed for TLC.                                         *)
(***************************************************************************)
EXTENDS Feed

\* Two filters that share messages: three pages, the last not full, and two
\* full pages.
Selected == "all" :> {1, 2, 3, 4, 5} @@ "channel" :> {1, 3, 4, 5}
=============================================================================
