----------------------------- MODULE MCLogFiles -----------------------------
(* Instances of LogFiles for TLC.                                          *)
EXTENDS LogFiles, TLC

OneOfEach == [e \in {"rolls", "submits", "fails", "deaths", "backs"} |-> 1]
=============================================================================
