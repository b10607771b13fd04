------------------------------ MODULE MCThread ------------------------------
(* Instances of Thread, Locks, MutexVector and Singleton for TLC, which do *)
(* not interact: one of them moves, the others stay where they start.      *)
EXTENDS Thread, Locks, MutexVector, Singleton, TLC

CONSTANTS P, Q   \* the owner of the object, another thread

TwoCallers == {P, Q}
OwnerAndOther == (P :> {"now", "after", "periodic", "join", "cancel", "destroy"})
              @@ (Q :> {"cancel", "kill"})
\* Two scopes on the mutex, one on the spin lock.
MostlyMutex == ("a" :> "mutex") @@ ("b" :> "mutex") @@ ("c" :> "spin")

LocksRest == LocksInit /\ ~mutex.recursive
VectorRest == VectorInit /\ asks = [h \in Holders |-> 0]

MCInit == Init /\ LocksInit /\ VectorInit /\ SingletonInit

MCNext ==
  \/ /\ LocksRest /\ VectorRest /\ SingletonInit
     /\ UNCHANGED <<lockVars, vectorVars, singletonVars>> /\ Next
  \/ /\ Init /\ VectorRest /\ SingletonInit
     /\ UNCHANGED <<vars, vectorVars, singletonVars>> /\ LocksNext
  \/ /\ Init /\ LocksRest /\ SingletonInit
     /\ UNCHANGED <<vars, lockVars, singletonVars>> /\ VectorNext
  \/ /\ Init /\ LocksRest /\ VectorRest
     /\ UNCHANGED <<vars, lockVars, vectorVars>> /\ SingletonNext
MCSpec == MCInit /\ [][MCNext]_<<vars, lockVars, vectorVars, singletonVars>> /\ Fairness
=============================================================================
