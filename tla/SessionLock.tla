---------------------------- MODULE SessionLock -----------------------------
(***************************************************************************)
(* What the leases of the sessions promise: a lock for each session, with   *)
(* no row, no clock and no process in it.  A worker is granted several      *)
(* locks at once, only those that nobody else holds, and gives up those it  *)
(* is not granted again; a lock is lost whenever its time is over, its      *)
(* holder dies or its user logs out.  It is never passed on.                *)
(*                                                                          *)
(* Leases, which is translated from the code, implements this module.       *)
(***************************************************************************)
CONSTANTS User, Worker

VARIABLE holders   \* the workers that may believe they hold a session

Init == holders = [u \in User |-> {}]

Grant(w) ==
  \A u \in User : /\ holders'[u] \ {w} = holders[u] \ {w}
                  /\ w \in holders'[u] => holders[u] \subseteq {w}

Lapse == \A u \in User : holders'[u] \subseteq holders[u]

Next ==
  /\ holders' \in [User -> SUBSET Worker]
  /\ Lapse \/ \E w \in Worker : Grant(w)

Spec == Init /\ [][Next]_holders

\* What a user gains by this: a session is never with two workers.
Exclusive == \A u \in User : \A v, w \in holders[u] : v = w

\* From one worker to another it goes by way of nobody.
Handover ==
  [][\A u \in User : holders[u] # {} /\ holders'[u] # {} => holders'[u] = holders[u]]_holders
=============================================================================
