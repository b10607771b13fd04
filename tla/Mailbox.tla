------------------------------ MODULE Mailbox ------------------------------
(***************************************************************************)
(* What FileWriter promises its callers, with no pool, no lock and no      *)
(* wakeup: messages are handled one at a time, in the order they were      *)
(* posted, and a message does not change from its post to its end.         *)
(***************************************************************************)
EXTENDS Sequences

CONSTANTS Messages, Nothing

VARIABLES
    box,    \* the messages posted and not taken yet
    out     \* the message being handled, or Nothing

Init == box = <<>> /\ out = Nothing

Post == \E m \in Messages : box' = Append(box, m) /\ UNCHANGED out

Take ==
    /\ box # <<>> /\ out = Nothing
    /\ out' = Head(box)
    /\ box' = Tail(box)

Done == out' = Nothing /\ UNCHANGED box

Next == Post \/ Take \/ Done

Spec == Init /\ [][Next]_<<box, out>>
=============================================================================
