--------------------------- MODULE MCMessageQueue ---------------------------
(* Instances of MessageQueue, AsyncResult and Signing for TLC, which do not *)
(* interact: one of them moves, the others stay where they start.           *)
EXTENDS MessageQueue, AsyncResult, Signing, TLC

CONSTANTS Owner, Other   \* two threads that use the queue

TwoClients == {Owner, Other}
\* One thread owns the queue and waits, one cancels; handlers use it as well.
Roles == (Owner :> {"create", "post", "broadcast", "wait"})
      @@ (Other :> {"cancel", "cancelAndWait", "stop", "release", "waitRunning"})
      @@ (Queue :> {"singleton", "faster", "wait", "install", "uninstall", "break"})
FewCalls == (Owner :> 3) @@ (Other :> 1) @@ (Queue :> 2)

\* A curve of 211 points over the 241 numbers that two words of four bits leave
\* below 2^8 - 15, y^2 = x^3 + 13, and draws at the edges of the words.  The
\* program that signs has bytes of two bits, so that a hash of three bytes is
\* shorter than n and one of five is cut.
MCServerKeys == {1, 77, 210}
MCZDraws     == {0, 1, 2, 16, 128, 239, 240, 255}
MCSignKeys   == {0, 1, 2, 100, 211, 240}
MCHashes     == {<<3, 3, 3, 3>>, <<1, 0, 2>>, <<0, 0, 0, 0, 1>>}
MCMasks      == {1, 77}

SigningRests == SigningInit /\ svrKey = Malformed /\ UNCHANGED <<handshakeVars, signing>>

MCInit == Init /\ ResultInit /\ SigningInit
MCNext ==
  \/ SigningRests /\ ResultInit /\ UNCHANGED resultVars /\ Next
  \/ SigningRests /\ Init /\ UNCHANGED vars /\ ResultNext
  \/ Init /\ ResultInit /\ UNCHANGED <<vars, resultVars>> /\ SigningNext
MCSpec ==
  MCInit /\ [][MCNext]_<<vars, resultVars, handshakeVars, signing>> /\ Fairness
=============================================================================
