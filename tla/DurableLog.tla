----------------------------- MODULE DurableLog -----------------------------
(***************************************************************************)
(* What the native appender promises of its records, with no threads, no   *)
(* locks and no calls.  An accepted record is kept where a crash cannot    *)
(* reach it, then in flight to the file, then written or lost, and stays   *)
(* there.  A crash loses records in flight only; the close of a session    *)
(* may drop what is still kept.                                            *)
(***************************************************************************)
EXTENDS Integers

VARIABLES
    accepted,   \* how many records were accepted
    kept,       \* in the mmap file
    flight,     \* taken from it and not written yet
    written,    \* in the log file
    lost

logVars == <<accepted, kept, flight, written, lost>>

Init ==
    /\ accepted = 0
    /\ kept = {} /\ flight = {} /\ written = {} /\ lost = {}

\* A record is accepted: into the buffer, or straight on its way to the file.
Accept ==
    /\ accepted' = accepted + 1
    /\ \/ kept' = kept \cup {accepted'} /\ UNCHANGED flight
       \/ flight' = flight \cup {accepted'} /\ UNCHANGED kept
    /\ UNCHANGED <<written, lost>>

\* A flush takes everything that is kept.
Take ==
    /\ flight' = flight \cup kept
    /\ kept' = {}
    /\ UNCHANGED <<accepted, written, lost>>

\* A chunk is written as a whole, or fails as a whole.
Write ==
    \E chunk \in SUBSET flight :
        /\ flight' = flight \ chunk
        /\ \/ written' = written \cup chunk /\ UNCHANGED lost
           \/ lost' = lost \cup chunk /\ UNCHANGED written
        /\ UNCHANGED <<accepted, kept>>

\* Some of what is in flight may just have reached the file.
Crash ==
    /\ \E done \in SUBSET flight :
         /\ written' = written \cup done
         /\ lost' = lost \cup (flight \ done)
    /\ flight' = {}
    /\ UNCHANGED <<accepted, kept>>

\* Only what no flush has taken is dropped.
Close ==
    /\ lost' = lost \cup kept
    /\ kept' = {}
    /\ UNCHANGED <<accepted, flight, written>>

Next == Accept \/ Take \/ Write \/ Crash \/ Close

Spec == Init /\ [][Next]_logVars
=============================================================================
