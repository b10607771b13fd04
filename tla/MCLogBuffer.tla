---------------------------- MODULE MCLogBuffer ----------------------------
(* Instances of LogBuffer, Buffers and XlogFile for TLC, which do not       *)
(* interact: one of them moves, the others stay where they start.          *)
EXTENDS LogBuffer, Buffers, XlogFile

AnyKey == {TRUE, FALSE}
MixedRecords == {1, 2, 4}
TwoStrings == {<<Datum>>, <<Datum, Nul>>}

MCInit == Init /\ BuffersInit /\ XlogInit

MCNext ==
  \/ /\ BuffersInit /\ XlogInit /\ UNCHANGED <<bufferVars, xlogVars>> /\ Next
  \/ /\ Init /\ XlogInit /\ UNCHANGED <<vars, xlogVars>> /\ BuffersNext
  \/ /\ Init /\ BuffersInit /\ UNCHANGED <<vars, bufferVars>> /\ XlogNext
MCSpec == MCInit /\ [][MCNext]_<<vars, bufferVars, xlogVars>>
=============================================================================
