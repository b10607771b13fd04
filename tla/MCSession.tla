----------------------------- MODULE MCSession -----------------------------
(* Instances of Session for TLC.                                           *)
EXTENDS Session, TLC

CONSTANTS T, U   \* two threads of the application

TwoThreads == {T, U}
\* One configures and logs, the other closes, opens and sets the level too.
Roles == (T :> {"apply", "level", "size", "log"}) @@ (U :> {"close", "open", "level"})
FewCalls == (T :> 3) @@ (U :> 3)
SomeLevels == {0, 4}

\* The first process has its threads race, and may die at any step; the next one
\* takes what is left of the calls, with the levels and sizes as they are.
RaceThenReopen ==
    /\ used'.crashes = 0 => used'.calls[U] <= 2
    /\ used'.crashes > 0 => conf' = Fresh.conf

MCSpec == Init /\ [][Next /\ RaceThenReopen]_vars
=============================================================================
