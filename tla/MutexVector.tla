---------------------------- MODULE MutexVector ----------------------------
(***************************************************************************)
(* MutexVector (comm/thread/mutexvector.h): a lock that any number of      *)
(* threads hold together, as long as they ask for the same number.  Every  *)
(* function holds m_mutex throughout, but for the wait on m_cond, which    *)
(* Locks is about.                                                         *)
(***************************************************************************)
EXTENDS Integers, FiniteSets

CONSTANTS
    Holders,  \* the threads, each with one ScopedMutexVector,
    Vectors   \* and the numbers they may ask for

ASSUME VectorAssumption ==
    Vectors \subseteq Int /\ Vectors # {} /\ IsFiniteSet(Holders)

VARIABLES
    m_vec, m_count,  \* the number it is held with, and by how many
    asks,            \* vec_ of each thread's scope
    holds            \* where each is: "no", "waiting", "woken", or islocked_

vectorVars == <<m_vec, m_count, asks, holds>>

VectorInit ==
    /\ m_vec = 0 /\ m_count = 0
    /\ asks \in [Holders -> Vectors]
    /\ holds = [h \in Holders |-> "no"]

\* m_cond.notifyAll, in which thread h goes on to be where it says.
Woken(h, to) ==
    [g \in Holders |-> IF g = h THEN to
                  ELSE IF holds[g] = "waiting" THEN "woken" ELSE holds[g]]

\* The end of Lock and of TryLock: another number is announced to those who wait.
Granted(h) ==
    /\ m_count' = m_count + 1 /\ m_vec' = asks[h]
    /\ holds' = IF m_vec = asks[h] THEN [holds EXCEPT ![h] = "yes"] ELSE Woken(h, "yes")

Passes(h) == m_vec = asks[h] \/ m_count <= 0

\* Lock, or one more round of its loop.
Lock(h) ==
    /\ holds[h] \in {"no", "woken"}
    /\ IF Passes(h) THEN Granted(h)
       ELSE holds' = [holds EXCEPT ![h] = "waiting"] /\ UNCHANGED <<m_vec, m_count>>
    /\ UNCHANGED asks

TryLock(h) ==
    /\ holds[h] = "no" /\ Passes(h)
    /\ Granted(h)
    /\ UNCHANGED asks

\* Mutant: notifyOne in the place of notifyAll.
UnLockTellsOne(h) ==
    /\ holds[h] = "yes"
    /\ m_count' = m_count - 1
    /\ LET waiting == {g \in Holders : holds[g] = "waiting"}
           one == IF m_count - 1 <= 0 /\ waiting # {} THEN {CHOOSE g \in waiting : TRUE} ELSE {}
       IN  holds' = [g \in Holders |-> IF g = h THEN "no"
                                        ELSE IF g \in one THEN "woken" ELSE holds[g]]
    /\ UNCHANGED <<m_vec, asks>>

\* UnLock, and the destructor of a scope that is locked.
UnLock(h) ==
    /\ holds[h] = "yes"
    /\ m_count' = m_count - 1
    /\ holds' = IF m_count - 1 <= 0 THEN Woken(h, "no") ELSE [holds EXCEPT ![h] = "no"]
    /\ UNCHANGED <<m_vec, asks>>

\* The thread's next ScopedMutexVector.
NewScope(h) ==
    /\ holds[h] = "no"
    /\ \E v \in Vectors : asks' = [asks EXCEPT ![h] = v]
    /\ UNCHANGED <<m_vec, m_count, holds>>

\* m_cond.wait returns by itself.
Spurious(h) ==
    /\ holds[h] = "waiting"
    /\ holds' = [holds EXCEPT ![h] = "woken"]
    /\ UNCHANGED <<m_vec, m_count, asks>>

VectorNext ==
    \E h \in Holders : Lock(h) \/ TryLock(h) \/ UnLock(h) \/ NewScope(h) \/ Spurious(h)

VectorSpec == VectorInit /\ [][VectorNext]_vectorVars

\* Those inside have asked for the same number, m_count counts them, and nobody
\* sleeps who could go in: whoever leaves last, and whoever changes the number,
\* has told the others.
VectorAgrees ==
    LET inside == {h \in Holders : holds[h] = "yes"}
    IN  /\ m_count = Cardinality(inside)
        /\ \A h \in inside : asks[h] = m_vec
        /\ \A h \in Holders : holds[h] = "waiting" => ~Passes(h)
=============================================================================
