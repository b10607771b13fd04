---------------------------- MODULE MCFileWriter ----------------------------
(* Instances of FileWriter for TLC.                                        *)
EXTENDS FileWriter, TLC

CONSTANTS P, Q   \* two threads of the application

TwoPosters == {P, Q}
OnePoster == {P}
\* One thread logs and flushes, the other logs and changes settings.
MixedOps == (P :> {"write", "flush", "flushBlocking"}) @@ (Q :> {"write", "set"})
AllOps == P :> {"write", "set", "flush", "flushBlocking"}

LoadOK == {TRUE}
LoadMayFail == {TRUE, FALSE}
=============================================================================
