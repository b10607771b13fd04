---------------------------- MODULE LocksProofs ----------------------------
(* Theorems about Locks, MutexVector and Singleton, for every set of       *)
(* threads, every finite set of scopes with the locks they are for,        *)
(* recursive or not, all numbers a MutexVector may be held with, and any   *)
(* types of singletons.                                                    *)
EXTENDS Locks, MutexVector, Singleton, FiniteSetTheorems, SequenceTheorems, TLAPS

-----------------------------------------------------------------------------
(* MutexVector                                                             *)

VectorTypeOK ==
    /\ m_vec \in Int /\ m_count \in Nat
    /\ asks \in [Holders -> Vectors]
    /\ holds \in [Holders -> {"no", "waiting", "woken", "yes"}]

VectorInv == VectorTypeOK /\ VectorAgrees

Inside == {h \in Holders : holds[h] = "yes"}

LEMMA InsideCounted ==
    ASSUME VectorAssumption, VectorTypeOK
    PROVE  /\ IsFiniteSet(Inside) /\ Cardinality(Inside) \in Nat
           /\ Cardinality(Inside) = 0 <=> Inside = {}
           /\ \A h \in Holders :
                 Cardinality(Inside \cup {h}) =
                     IF h \in Inside THEN Cardinality(Inside) ELSE Cardinality(Inside) + 1
           /\ \A h \in Inside : Cardinality(Inside \ {h}) = Cardinality(Inside) - 1
  <1>1. IsFiniteSet(Inside)
    BY FS_Subset DEF VectorAssumption, Inside
  <1>. QED
    BY <1>1, FS_CardinalityType, FS_EmptySet, FS_AddElement, FS_RemoveElement

\* Going in: with the number that those inside have asked for, or when there is
\* nobody inside.
LEMMA GrantedKeeps ==
    ASSUME VectorAssumption, VectorInv, NEW h \in Holders,
           holds[h] \in {"no", "woken"}, Passes(h), Granted(h), UNCHANGED asks
    PROVE  VectorInv'
  <1>. USE DEF VectorInv, VectorTypeOK
  <1>1. VectorTypeOK'
    BY DEF Granted, Woken, VectorAssumption
  <1>2. h \notin Inside /\ Inside' = Inside \cup {h}
    BY DEF Granted, Woken, Inside
  <1>3. m_count' = Cardinality(Inside')
    BY <1>2, InsideCounted DEF VectorAgrees, Inside, Granted
  <1>4. \A g \in Inside' : asks'[g] = m_vec'
    <2>1. CASE m_vec = asks[h]
      BY <1>2, <2>1 DEF VectorAgrees, Inside, Granted
    <2>2. CASE m_count <= 0
      <3>1. Inside = {}
        BY <2>2, InsideCounted DEF VectorAgrees, Inside
      <3>. QED
        BY <1>2, <3>1 DEF Granted
    <2>. QED
      BY <2>1, <2>2 DEF Passes
  <1>5. \A g \in Holders : holds'[g] = "waiting" => ~Passes(g)'
    <2>. SUFFICES ASSUME NEW g \in Holders, holds'[g] = "waiting" PROVE ~Passes(g)'
      OBVIOUS
    <2>1. m_vec = asks[h] /\ g # h /\ holds[g] = "waiting"
      BY DEF Granted, Woken
    <2>2. ~Passes(g)
      BY <2>1 DEF VectorAgrees
    <2>. QED
      BY <2>1, <2>2 DEF Passes, Granted
  <1>. QED
    BY <1>1, <1>3, <1>4, <1>5 DEF VectorAgrees, Inside

LEMMA UnLockKeeps ==
    ASSUME VectorAssumption, VectorInv, NEW h \in Holders, UnLock(h)
    PROVE  VectorInv'
  <1>. USE DEF VectorInv, VectorTypeOK
  <1>1. h \in Inside /\ Inside' = Inside \ {h}
    BY DEF UnLock, Woken, Inside
  <1>2. m_count' = Cardinality(Inside') /\ m_count' \in Nat
    BY <1>1, InsideCounted DEF VectorAgrees, Inside, UnLock
  <1>3. VectorTypeOK'
    BY <1>2 DEF UnLock, Woken
  <1>4. \A g \in Inside' : asks'[g] = m_vec'
    BY <1>1 DEF VectorAgrees, Inside, UnLock
  <1>5. \A g \in Holders : holds'[g] = "waiting" => ~Passes(g)'
    <2>. SUFFICES ASSUME NEW g \in Holders, holds'[g] = "waiting" PROVE ~Passes(g)'
      OBVIOUS
    <2>1. m_count - 1 > 0 /\ g # h /\ holds[g] = "waiting"
      BY DEF UnLock, Woken
    <2>2. ~Passes(g)
      BY <2>1 DEF VectorAgrees
    <2>. QED
      BY <2>1, <2>2 DEF Passes, UnLock
  <1>. QED
    BY <1>2, <1>3, <1>4, <1>5 DEF VectorAgrees, Inside

\* The steps in which nobody goes in or out.
LEMMA OutsideKeeps ==
    ASSUME VectorAssumption, VectorInv, NEW h \in Holders,
           \/ Lock(h) /\ ~Passes(h)
           \/ NewScope(h)
           \/ Spurious(h)
    PROVE  VectorInv'
  <1>. USE DEF VectorInv, VectorTypeOK
  <1>1. VectorTypeOK'
    BY DEF Lock, NewScope, Spurious
  <1>2. Inside' = Inside /\ UNCHANGED <<m_vec, m_count>>
    BY DEF Lock, NewScope, Spurious, Inside
  <1>3. \A g \in Inside : asks'[g] = asks[g]
    BY DEF Lock, NewScope, Spurious, Inside
  <1>4. \A g \in Holders : holds'[g] = "waiting" => ~Passes(g)'
    BY DEF Lock, NewScope, Spurious, Passes, VectorAgrees
  <1>. QED
    BY <1>1, <1>2, <1>3, <1>4 DEF VectorAgrees, Inside

\* VectorAgrees is inductive: those inside a MutexVector have asked for the same
\* number and are counted, and nobody sleeps on m_cond who could go in
\* (MutexVector::Lock, TryLock, UnLock).
THEOREM VectorAlwaysAgrees == VectorSpec => []VectorAgrees
  <1>. USE VectorAssumption
  <1>1. VectorInit => VectorInv
    <2>. SUFFICES ASSUME VectorInit PROVE VectorInv
      OBVIOUS
    <2>1. VectorTypeOK /\ Inside = {}
      BY DEF VectorInit, VectorTypeOK, Inside
    <2>2. m_count = Cardinality(Inside)
      BY <2>1, FS_EmptySet DEF VectorInit
    <2>. QED
      BY <2>1, <2>2 DEF VectorInit, VectorInv, VectorAgrees, Inside
  <1>2. VectorInv /\ [VectorNext]_vectorVars => VectorInv'
    <2>. SUFFICES ASSUME VectorInv, [VectorNext]_vectorVars PROVE VectorInv'
      OBVIOUS
    <2>1. CASE UNCHANGED vectorVars
      BY <2>1 DEF vectorVars, VectorInv, VectorTypeOK, VectorAgrees, Passes
    <2>2. ASSUME NEW h \in Holders, Lock(h) \/ TryLock(h) PROVE VectorInv'
      <3>1. CASE Passes(h)
        BY <2>2, <3>1, GrantedKeeps DEF Lock, TryLock
      <3>2. CASE ~Passes(h)
        BY <2>2, <3>2, OutsideKeeps DEF TryLock
      <3>. QED
        BY <3>1, <3>2
    <2>3. ASSUME NEW h \in Holders, UnLock(h) PROVE VectorInv'
      BY <2>3, UnLockKeeps
    <2>4. ASSUME NEW h \in Holders, NewScope(h) \/ Spurious(h) PROVE VectorInv'
      BY <2>4, OutsideKeeps
    <2>. QED
      BY <2>1, <2>2, <2>3, <2>4 DEF VectorNext
  <1>. QED
    BY <1>1, <1>2, PTL DEF VectorSpec, VectorInv

-----------------------------------------------------------------------------
(* Locks                                                                   *)

PthreadMutexes == [recursive : BOOLEAN, owner : Users \cup {Nobody, Gone}, count : Nat]

LocksTypeOK ==
    /\ scope \in [Users -> [Scopes -> {"none", "unlocked", "locked"}]]
    /\ mutex \in PthreadMutexes
    /\ magic \in BOOLEAN
    /\ state \in {0, 1}
    /\ anyway \in {0, 1}
    /\ label \in [Users -> Labels]
    /\ uses \in [Users -> Scopes \cup {NoScope}]

\* The scope of which a thread has called a function is there: not locked while
\* the thread tries to lock it, locked while it waits with it.
InItsScope(u) ==
    /\ label[u] \in {"lock", "timedlock"} =>
           /\ uses[u] \in Scopes /\ scope[u][uses[u]] = "unlocked"
           /\ label[u] = "timedlock" => On[uses[u]] = "mutex"
    /\ label[u] \in {"enter", "waiting", "relock", "clear"} =>
           uses[u] \in HeldScopes(u, "mutex")

\* Locked is owned, and only ~Mutex makes it Gone.
MutexInv ==
    /\ mutex.owner \in Users => mutex.count > 0
    /\ mutex.owner = Nobody => mutex.count = 0
    /\ magic => mutex.owner # Gone
    /\ \A u \in Users : InItsScope(u)

\* The two halves of HoldersAgree, the first for one thread.
LevelsAgree(u) ==
    mutex.owner # Gone => Levels(u) = IF mutex.owner = u THEN mutex.count ELSE 0
SpinAgrees ==
    \A u, v \in Users : \A r \in HeldScopes(u, "spin"), s \in HeldScopes(v, "spin") :
        state = 1 /\ u = v /\ r = s

LocksInv == LocksTypeOK /\ MutexInv /\ (\A u \in Users : LevelsAgree(u)) /\ SpinAgrees

\* The mutex with another owner and count.
MutexWith(x, o, n) == [x EXCEPT !.owner = o, !.count = n]

LEMMA MutexSet ==
    ASSUME NEW x \in PthreadMutexes, NEW o \in Users \cup {Nobody, Gone}, NEW n \in Nat
    PROVE  /\ MutexWith(x, o, n) \in PthreadMutexes
           /\ MutexWith(x, o, n).owner = o /\ MutexWith(x, o, n).count = n
  <1> DEFINE z == [x EXCEPT !.owner = o]
  <1>1. z \in PthreadMutexes /\ z.owner = o
    BY DEF PthreadMutexes
  <1> HIDE DEF z
  <1>2. [z EXCEPT !.count = n] \in PthreadMutexes
        /\ [z EXCEPT !.count = n].owner = o /\ [z EXCEPT !.count = n].count = n
    BY <1>1 DEF PthreadMutexes
  <1>3. MutexWith(x, o, n) = [z EXCEPT !.count = n]
    BY Zenon DEF z, MutexWith
  <1>. QED
    BY <1>2, <1>3

\* The set of them, field by field.
LEMMA MutexFields ==
    LocksTypeOK => /\ mutex \in PthreadMutexes
                   /\ mutex.owner \in Users \cup {Nobody, Gone} /\ mutex.count \in Nat
  BY DEF LocksTypeOK, PthreadMutexes

LEMMA TakenOnce ==
    ASSUME LocksTypeOK, NEW u \in Users
    PROVE  /\ Taken(u) \in PthreadMutexes
           /\ Taken(u).owner = u /\ Taken(u).count = mutex.count + 1
  <1> DEFINE n == mutex.count + 1
  <1>1. n \in Nat /\ mutex \in PthreadMutexes
    BY MutexFields
  <1>2. Taken(u) = MutexWith(mutex, u, n)
    BY Zenon DEF Taken, MutexWith
  <1> HIDE DEF n
  <1>3. Taken(u) \in PthreadMutexes /\ Taken(u).owner = u /\ Taken(u).count = n
    BY <1>1, <1>2, MutexSet
  <1>. QED
    BY <1>3 DEF n

LEMMA HeldCounted ==
    ASSUME LocksAssumption, NEW u, NEW l
    PROVE  /\ IsFiniteSet(HeldScopes(u, l)) /\ Cardinality(HeldScopes(u, l)) \in Nat
           /\ \A s \in HeldScopes(u, l) :
                 /\ Cardinality(HeldScopes(u, l)) > 0
                 /\ Cardinality(HeldScopes(u, l) \ {s}) = Cardinality(HeldScopes(u, l)) - 1
           /\ \A s : s \notin HeldScopes(u, l) =>
                 Cardinality(HeldScopes(u, l) \cup {s}) = Cardinality(HeldScopes(u, l)) + 1
  <1>1. IsFiniteSet(HeldScopes(u, l))
    BY FS_Subset DEF LocksAssumption, HeldScopes
  <1>2. ASSUME NEW s \in HeldScopes(u, l) PROVE Cardinality(HeldScopes(u, l)) > 0
    BY <1>1, FS_EmptySet, FS_CardinalityType
  <1>. QED
    BY <1>1, <1>2, FS_CardinalityType, FS_AddElement, FS_RemoveElement

\* What a thread's change of one of its scopes does to the scopes that are locked.
LEMMA HeldAfter ==
    ASSUME LocksAssumption, LocksTypeOK, NEW u \in Users, NEW s \in Scopes,
           NEW to \in {"none", "unlocked", "locked"}, SetScope(u, s, to)
    PROVE  /\ scope' \in [Users -> [Scopes -> {"none", "unlocked", "locked"}]]
           /\ \A l : HeldScopes(u, l)' =
                  IF l # On[s] THEN HeldScopes(u, l)
                  ELSE IF to = "locked" THEN HeldScopes(u, l) \cup {s}
                  ELSE HeldScopes(u, l) \ {s}
           /\ \A v \in Users : v # u => scope'[v] = scope[v]
           /\ \A l : \A v \in Users : v # u => HeldScopes(v, l)' = HeldScopes(v, l)
           /\ scope'[u][s] = to
           /\ \A r \in Scopes : r # s => scope'[u][r] = scope[u][r]
  BY DEF LocksTypeOK, SetScope, HeldScopes

\* Who is nowhere near the lock is not touched by another thread's step: it may
\* be woken from its wait, no more.
LEMMA OthersKeep ==
    ASSUME LocksAssumption, LocksInv, NEW v \in Users,
           scope'[v] = scope[v], uses'[v] = uses[v],
           label'[v] = label[v] \/ (label[v] = "waiting" /\ label'[v] = "relock"),
           mutex'.owner # Gone =>
               (mutex.owner # Gone /\ (mutex.owner = v <=> mutex'.owner = v)
                /\ (mutex.owner = v => mutex'.count = mutex.count))
    PROVE  InItsScope(v)' /\ LevelsAgree(v)'
  <1>1. \A l : HeldScopes(v, l)' = HeldScopes(v, l)
    BY DEF HeldScopes
  <1>2. InItsScope(v)'
    BY <1>1 DEF LocksInv, MutexInv, InItsScope
  <1>3. Levels(v)' = Levels(v)
    BY <1>1 DEF Levels
  <1>4. LevelsAgree(v)'
    BY <1>3 DEF LocksInv, LevelsAgree
  <1>. QED
    BY <1>2, <1>4

\* The steps that leave every lock and every scope alone.
LEMMA LabelsKeep ==
    ASSUME LocksAssumption, LocksInv, NEW u \in Users,
           UNCHANGED <<scope, mutex, magic, state>>,
           anyway' \in {0, 1}, label' \in [Users -> Labels],
           uses' \in [Users -> Scopes \cup {NoScope}],
           InItsScope(u)', Levels(u)' = Levels(u),
           \A v \in Users : v # u =>
               /\ uses'[v] = uses[v]
               /\ label'[v] = label[v] \/ (label[v] = "waiting" /\ label'[v] = "relock")
    PROVE  LocksInv'
  <1>1. LocksTypeOK'
    BY DEF LocksInv, LocksTypeOK
  <1>2. \A v \in Users : v # u => InItsScope(v)' /\ LevelsAgree(v)'
    BY OthersKeep
  <1>3. LevelsAgree(u)'
    BY DEF LocksInv, LevelsAgree
  <1>4. SpinAgrees'
    BY DEF LocksInv, SpinAgrees, HeldScopes
  <1>. QED
    BY <1>1, <1>2, <1>3, <1>4 DEF LocksInv, MutexInv

\* A thread gets a lock, by lock, timedlock or trylock of a scope.
LEMMA AcquireKeeps ==
    ASSUME LocksAssumption, LocksInv, NEW u \in Users, NEW s \in Scopes,
           scope[u][s] = "unlocked", label[u] \in {"idle", "lock", "timedlock"},
           Trylock(u, On[s]), Acquire(u, On[s]), SetScope(u, s, "locked"),
           UNCHANGED <<magic, anyway>>,
           label' = [label EXCEPT ![u] = "idle"],
           uses' \in [Users -> Scopes \cup {NoScope}],
           \A v \in Users : v # u => uses'[v] = uses[v]
    PROVE  LocksInv'
  <1>. USE DEF LocksInv
  <1>1. /\ On[s] \in {"mutex", "spin"}
        /\ s \notin HeldScopes(u, On[s])
        /\ scope' \in [Users -> [Scopes -> {"none", "unlocked", "locked"}]]
        /\ HeldScopes(u, On[s])' = HeldScopes(u, On[s]) \cup {s}
        /\ \A l : l # On[s] => HeldScopes(u, l)' = HeldScopes(u, l)
        /\ \A l : \A v \in Users : v # u => HeldScopes(v, l)' = HeldScopes(v, l)
        /\ \A v \in Users : v # u => scope'[v] = scope[v]
    BY HeldAfter DEF LocksAssumption, HeldScopes
  <1>2. CASE On[s] = "mutex"
    <2>1. mutex' = Taken(u) /\ state' = state /\ mutex.owner \in {u, Nobody}
      BY <1>2 DEF Acquire, Trylock, Available
    <2>2. /\ mutex' \in PthreadMutexes
          /\ mutex'.owner = u /\ mutex'.count = mutex.count + 1
      BY <2>1, TakenOnce
    <2>3. LocksTypeOK'
      BY <1>1, <2>1, <2>2 DEF LocksTypeOK, Labels
    <2>4. u # Nobody /\ u # Gone /\ Nobody # Gone /\ mutex.count \in Nat
      BY MutexFields DEF LocksAssumption
    <2>5. mutex.count = Levels(u)
      BY <2>1, <2>4 DEF LevelsAgree, MutexInv
    <2>6. Levels(u)' = Levels(u) + 1
      BY <1>1, <1>2, HeldCounted DEF Levels, LocksTypeOK
    <2>7. LevelsAgree(u)'
      BY <2>2, <2>5, <2>6 DEF LevelsAgree
    <2>8. InItsScope(u)'
      BY DEF InItsScope, LocksTypeOK
    <2>9. ASSUME NEW v \in Users, v # u PROVE InItsScope(v)' /\ LevelsAgree(v)'
      <3>1. mutex.owner # Gone /\ mutex.owner # v /\ mutex'.owner # v
        BY <2>1, <2>2, <2>4, <2>9 DEF LocksAssumption
      <3>2. label'[v] = label[v]
        BY <2>9 DEF LocksTypeOK
      <3>. QED
        BY <1>1, <2>9, <3>1, <3>2, OthersKeep
    <2>10. MutexInv'
      BY <2>2, <2>4, <2>8, <2>9 DEF MutexInv, LocksTypeOK
    <2>11. SpinAgrees'
      BY <1>1, <1>2, <2>1 DEF SpinAgrees
    <2>. QED
      BY <2>3, <2>7, <2>9, <2>10, <2>11
  <1>3. CASE On[s] = "spin"
    <2>1. mutex' = mutex /\ state = 0 /\ state' = 1
      BY <1>3 DEF Acquire, Trylock, Cas
    <2>2. LocksTypeOK'
      BY <1>1, <2>1 DEF LocksTypeOK, Labels
    <2>3. \A v \in Users : HeldScopes(v, "spin") = {}
      BY <2>1 DEF SpinAgrees
    <2>4. SpinAgrees'
      BY <1>1, <1>3, <2>1, <2>3 DEF SpinAgrees
    <2>5. HeldScopes(u, "mutex")' = HeldScopes(u, "mutex")
      BY <1>1, <1>3
    <2>6. LevelsAgree(u)'
      BY <2>1, <2>5 DEF LevelsAgree, Levels, LocksTypeOK
    <2>7. InItsScope(u)'
      BY DEF InItsScope, LocksTypeOK
    <2>8. ASSUME NEW v \in Users, v # u PROVE InItsScope(v)' /\ LevelsAgree(v)'
      <3>1. label'[v] = label[v]
        BY <2>8 DEF LocksTypeOK
      <3>. QED
        BY <1>1, <2>1, <2>8, <3>1, OthersKeep
    <2>9. MutexInv'
      BY <2>1, <2>7, <2>8 DEF MutexInv
    <2>. QED
      BY <2>2, <2>4, <2>6, <2>8, <2>9
  <1>. QED
    BY <1>1, <1>2, <1>3

\* Who believes to have the mutex has it, and lets go of it once.
LEMMA GivenOnce ==
    ASSUME LocksAssumption, LocksInv, NEW u \in Users, Levels(u) > 0, mutex' = Given(u)
    PROVE  /\ mutex' \in PthreadMutexes
           /\ mutex'.owner \in Users => mutex'.count > 0
           /\ mutex'.owner = Nobody => mutex'.count = 0
           /\ mutex'.owner = Gone <=> mutex.owner = Gone
           /\ mutex.owner # Gone =>
                  (mutex.owner = u /\ (IF mutex'.owner = u THEN mutex'.count ELSE 0) = Levels(u) - 1)
           /\ \A v \in Users : v # u =>
                  /\ mutex.owner = v <=> mutex'.owner = v
                  /\ mutex.owner = v => mutex'.count = mutex.count
  <1>. USE DEF LocksInv
  <1>1. u # Nobody /\ u # Gone /\ Nobody # Gone /\ Nobody \notin Users /\ Gone \notin Users
    BY DEF LocksAssumption
  <1>2. CASE mutex.owner = u
    <2>1. mutex.count = Levels(u) /\ mutex.count \in Nat /\ mutex.count > 0
      BY <1>1, <1>2, MutexFields DEF LevelsAgree, MutexInv
    <2> DEFINE o == IF mutex.count = 1 THEN Nobody ELSE u
    <2> DEFINE n == mutex.count - 1
    <2>2. mutex' = MutexWith(mutex, o, n)
      BY <1>2, Zenon DEF Given, MutexWith
    <2>3. mutex' \in PthreadMutexes /\ mutex'.owner = o /\ mutex'.count = n
      <3>1. o \in Users \cup {Nobody, Gone} /\ n \in Nat /\ mutex \in PthreadMutexes
        BY <2>1, MutexFields
      <3> HIDE DEF o, n
      <3>2. MutexWith(mutex, o, n) \in PthreadMutexes
            /\ MutexWith(mutex, o, n).owner = o /\ MutexWith(mutex, o, n).count = n
        BY <3>1, MutexSet
      <3>. QED
        BY <2>2, <3>2, Zenon
    <2>. QED
      BY <1>1, <1>2, <2>1, <2>3
  <1>3. CASE mutex.owner # u
    <2>1. mutex.owner = Gone
      BY <1>3 DEF LevelsAgree
    <2>. QED
      BY <1>1, <1>3, <2>1, MutexFields DEF Given
  <1>. QED
    BY <1>2, <1>3

\* A thread lets go of a lock, by unlock or by the destructor of a scope.
LEMMA ReleaseKeeps ==
    ASSUME LocksAssumption, LocksInv, NEW u \in Users, NEW s \in Scopes,
           NEW to \in {"none", "unlocked"},
           scope[u][s] = "locked", label[u] = "idle",
           Release(u, On[s]), SetScope(u, s, to),
           UNCHANGED <<magic, anyway, label, uses>>
    PROVE  LocksInv'
  <1>. USE DEF LocksInv
  <1>1. /\ On[s] \in {"mutex", "spin"}
        /\ s \in HeldScopes(u, On[s])
        /\ scope' \in [Users -> [Scopes -> {"none", "unlocked", "locked"}]]
        /\ HeldScopes(u, On[s])' = HeldScopes(u, On[s]) \ {s}
        /\ \A l : l # On[s] => HeldScopes(u, l)' = HeldScopes(u, l)
        /\ \A l : \A v \in Users : v # u => HeldScopes(v, l)' = HeldScopes(v, l)
        /\ \A v \in Users : v # u => scope'[v] = scope[v]
    BY HeldAfter DEF LocksAssumption, HeldScopes
  <1>2. CASE On[s] = "mutex"
    <2>1. mutex' = Given(u) /\ state' = state
      BY <1>2 DEF Release
    <2>2. Levels(u) = Cardinality(HeldScopes(u, "mutex")) /\ Levels(u) > 0
      BY <1>1, <1>2, HeldCounted DEF Levels
    <2>3. Levels(u)' = Levels(u) - 1
      BY <1>1, <1>2, <2>2, HeldCounted DEF Levels
    <2>4. LocksTypeOK'
      BY <1>1, <2>1, <2>2, GivenOnce DEF LocksTypeOK
    <2>5. LevelsAgree(u)'
      BY <2>1, <2>2, <2>3, GivenOnce DEF LevelsAgree
    <2>6. InItsScope(u)'
      BY DEF InItsScope
    <2>7. ASSUME NEW v \in Users, v # u PROVE InItsScope(v)' /\ LevelsAgree(v)'
      BY <1>1, <2>1, <2>2, <2>7, GivenOnce, OthersKeep
    <2>8. MutexInv'
      BY <2>1, <2>2, <2>6, <2>7, GivenOnce DEF MutexInv
    <2>9. SpinAgrees'
      BY <1>1, <1>2, <2>1 DEF SpinAgrees
    <2>. QED
      BY <2>4, <2>5, <2>7, <2>8, <2>9
  <1>3. CASE On[s] = "spin"
    <2>1. mutex' = mutex /\ state' = 0
      BY <1>3 DEF Release
    <2>2. LocksTypeOK'
      BY <1>1, <2>1 DEF LocksTypeOK
    <2>3. HeldScopes(u, "spin")' = {} /\ \A v \in Users : v # u => HeldScopes(v, "spin") = {}
      BY <1>1, <1>3 DEF SpinAgrees
    <2>4. SpinAgrees'
      BY <1>1, <2>3 DEF SpinAgrees
    <2>5. LevelsAgree(u)'
      BY <1>1, <1>3, <2>1 DEF LevelsAgree, Levels
    <2>6. InItsScope(u)'
      BY DEF InItsScope
    <2>7. ASSUME NEW v \in Users, v # u PROVE InItsScope(v)' /\ LevelsAgree(v)'
      BY <1>1, <2>1, <2>7, OthersKeep
    <2>8. MutexInv'
      BY <2>1, <2>6, <2>7 DEF MutexInv
    <2>. QED
      BY <2>2, <2>4, <2>5, <2>7, <2>8
  <1>. QED
    BY <1>1, <1>2, <1>3

\* A scope is made, or one that is not locked is destroyed.
LEMMA UnlockedKeeps ==
    ASSUME LocksAssumption, LocksInv, NEW u \in Users, NEW s \in Scopes,
           NEW to \in {"none", "unlocked"},
           label[u] = "idle", scope[u][s] # "locked", SetScope(u, s, to),
           UNCHANGED <<mutex, magic, state, anyway>>,
           \/ UNCHANGED <<label, uses>>
           \/ /\ to = "unlocked"
              /\ CallOf(u, s, "lock") \/ (CallOf(u, s, "timedlock") /\ On[s] = "mutex")
    PROVE  LocksInv'
  <1>. USE DEF LocksInv
  <1>1. /\ scope' \in [Users -> [Scopes -> {"none", "unlocked", "locked"}]]
        /\ \A l : \A v \in Users : HeldScopes(v, l)' = HeldScopes(v, l)
        /\ \A v \in Users : v # u => scope'[v] = scope[v]
        /\ scope'[u][s] = to
    BY HeldAfter DEF HeldScopes
  <1>2. /\ LocksTypeOK'
        /\ \A v \in Users : v # u => label'[v] = label[v] /\ uses'[v] = uses[v]
    BY <1>1 DEF LocksTypeOK, Labels, CallOf, GoTo
  <1>3. Levels(u)' = Levels(u) /\ InItsScope(u)'
    BY <1>1 DEF LocksTypeOK, Levels, InItsScope, CallOf, GoTo
  <1>4. ASSUME NEW v \in Users, v # u PROVE InItsScope(v)' /\ LevelsAgree(v)'
    BY <1>1, <1>2, <1>4, OthersKeep
  <1>5. LevelsAgree(u)'
    BY <1>3 DEF LevelsAgree
  <1>6. MutexInv'
    BY <1>3, <1>4 DEF MutexInv
  <1>7. SpinAgrees'
    BY <1>1 DEF SpinAgrees
  <1>. QED
    BY <1>2, <1>4, <1>5, <1>6, <1>7

\* A step of one thread in islocked() or in a wait, which takes the mutex or lets
\* go of it behind the scopes' back.
LEMMA BehindKeeps ==
    ASSUME LocksAssumption, LocksInv, NEW u \in Users, NEW l \in Labels, GoTo(u, l),
           UNCHANGED <<scope, magic, state, anyway, uses>>,
           mutex' \in PthreadMutexes,
           mutex'.owner \in Users => mutex'.count > 0,
           mutex'.owner = Nobody => mutex'.count = 0,
           mutex'.owner = Gone <=> mutex.owner = Gone,
           \A v \in Users : v # u => /\ mutex.owner = v <=> mutex'.owner = v
                                     /\ mutex.owner = v => mutex'.count = mutex.count,
           InItsScope(u)', LevelsAgree(u)'
    PROVE  LocksInv'
  <1>1. LocksTypeOK'
    BY DEF LocksInv, LocksTypeOK, GoTo
  <1>2. \A v \in Users : v # u => label'[v] = label[v]
    BY DEF LocksInv, LocksTypeOK, GoTo
  <1>3. \A v \in Users : v # u => InItsScope(v)' /\ LevelsAgree(v)'
    BY <1>2, OthersKeep
  <1>4. MutexInv'
    BY <1>3 DEF LocksInv, MutexInv
  <1>5. SpinAgrees'
    BY DEF LocksInv, SpinAgrees, HeldScopes
  <1>. QED
    BY <1>1, <1>3, <1>4, <1>5 DEF LocksInv

LEMMA TakesBehind ==
    ASSUME LocksAssumption, LocksInv, NEW u \in Users,
           mutex.owner \in {u, Nobody}, mutex' = Taken(u),
           UNCHANGED <<scope, magic, state, anyway, uses>>,
           \/ label[u] = "idle" /\ GoTo(u, "probe")
           \/ label[u] = "relock" /\ GoTo(u, "clear")
    PROVE  LocksInv'
  <1>1. /\ u # Nobody /\ u # Gone /\ Nobody # Gone /\ Nobody \notin Users
        /\ mutex.count \in Nat
    BY MutexFields DEF LocksAssumption, LocksInv
  <1>2. /\ mutex' \in PthreadMutexes /\ mutex'.owner = u /\ mutex'.count = mutex.count + 1
    BY TakenOnce DEF LocksInv
  <1>3. mutex.count = Levels(u)
    BY <1>1 DEF LocksInv, LevelsAgree, MutexInv
  <1>4. HeldScopes(u, "mutex")' = HeldScopes(u, "mutex")
    BY DEF HeldScopes
  <1>5. Levels(u)' = Levels(u) + 1 /\ InItsScope(u)'
    BY <1>4, HeldCounted DEF LocksInv, MutexInv, InItsScope, Levels, GoTo, LocksTypeOK
  <1>6. LevelsAgree(u)'
    BY <1>2, <1>3, <1>5 DEF LevelsAgree
  <1>7. GoTo(u, "probe") \/ GoTo(u, "clear")
    OBVIOUS
  <1>8. \A v \in Users : v # u => mutex.owner # v /\ mutex'.owner # v
    BY <1>1, <1>2
  <1>. QED
    BY <1>1, <1>2, <1>5, <1>6, <1>7, <1>8, BehindKeeps DEF Labels

LEMMA GivesBehind ==
    ASSUME LocksAssumption, LocksInv, NEW u \in Users, mutex' = Given(u),
           UNCHANGED <<scope, magic, state, anyway, uses>>,
           \/ label[u] = "probe" /\ GoTo(u, "idle")
           \/ label[u] = "enter" /\ GoTo(u, "waiting")
    PROVE  LocksInv'
  <1>1. HeldScopes(u, "mutex")' = HeldScopes(u, "mutex")
    BY DEF HeldScopes
  <1>2. Levels(u) > 0
    <2>1. Cardinality(HeldScopes(u, "mutex")) \in Nat
      BY HeldCounted
    <2>2. label[u] = "enter" => Cardinality(HeldScopes(u, "mutex")) > 0
      <3>1. label[u] = "enter" => uses[u] \in HeldScopes(u, "mutex")
        BY DEF LocksInv, MutexInv, InItsScope
      <3>. QED
        BY <3>1, HeldCounted
    <2>. QED
      BY <2>1, <2>2 DEF Levels
  <1>3. Levels(u)' = Levels(u) - 1 /\ InItsScope(u)'
    <2>1. \/ label[u] = "probe" /\ label'[u] = "idle"
          \/ label[u] = "enter" /\ label'[u] = "waiting"
      BY DEF LocksInv, LocksTypeOK, GoTo
    <2>2. Cardinality(HeldScopes(u, "mutex")) \in Nat
      BY HeldCounted
    <2>3. InItsScope(u)'
      BY <1>1, <2>1 DEF LocksInv, MutexInv, InItsScope
    <2>. QED
      BY <1>1, <2>1, <2>2, <2>3 DEF Levels
  <1>4. LevelsAgree(u)'
    BY <1>2, <1>3, GivenOnce DEF LevelsAgree
  <1>5. GoTo(u, "idle") \/ GoTo(u, "waiting")
    OBVIOUS
  <1>. QED
    BY <1>2, <1>3, <1>4, <1>5, GivenOnce, BehindKeeps DEF Labels

LEMMA DestroyKeeps ==
    ASSUME LocksAssumption, LocksInv, DestroyMutex PROVE LocksInv'
  <1>1. mutex \in PthreadMutexes /\ Gone \notin Users /\ Gone # Nobody
    BY MutexFields DEF LocksInv, LocksAssumption
  <1>2. mutex' \in PthreadMutexes /\ (mutex' = mutex \/ mutex'.owner = Gone)
    BY <1>1 DEF DestroyMutex, PthreadMutexes
  <1>3. LocksTypeOK'
    BY <1>2 DEF LocksInv, LocksTypeOK, DestroyMutex
  <1>4. \A v \in Users : InItsScope(v)' /\ LevelsAgree(v)'
    BY <1>1, <1>2, OthersKeep DEF DestroyMutex
  <1>5. MutexInv'
    BY <1>1, <1>2, <1>4 DEF LocksInv, MutexInv, DestroyMutex
  <1>6. SpinAgrees'
    BY DEF LocksInv, SpinAgrees, HeldScopes, DestroyMutex
  <1>. QED
    BY <1>3, <1>4, <1>5, <1>6 DEF LocksInv

-----------------------------------------------------------------------------
(* One step per action                                                     *)

LEMMA ScopeStepKeeps ==
    ASSUME LocksAssumption, LocksInv, NEW u \in Users, ScopeStep(u) PROVE LocksInv'
  <1>. USE DEF IsAt
  <1>1. ASSUME NEW s \in Scopes, NEW then \in {"idle", "lock", "timedlock"},
               ScopeConstruct(u, s, then)
        PROVE  LocksInv'
    <2>1. /\ label[u] = "idle" /\ scope[u][s] # "locked" /\ SetScope(u, s, "unlocked")
          /\ UNCHANGED <<mutex, magic, state, anyway>>
      BY <1>1 DEF ScopeConstruct
    <2>2. \/ UNCHANGED <<label, uses>>
          \/ CallOf(u, s, "lock")
          \/ CallOf(u, s, "timedlock") /\ On[s] = "mutex"
      BY <1>1 DEF ScopeConstruct
    <2>. QED
      BY <2>1, <2>2, UnlockedKeeps
  <1>2. ASSUME NEW s \in Scopes, NEW then \in {"lock", "timedlock"}, ScopeLock(u, s, then)
        PROVE  LocksInv'
    <2>1. /\ label' \in [Users -> Labels] /\ uses' \in [Users -> Scopes \cup {NoScope}]
          /\ \A v \in Users : v # u => label'[v] = label[v] /\ uses'[v] = uses[v]
          /\ label'[u] = then /\ uses'[u] = s
      BY <1>2 DEF LocksInv, LocksTypeOK, ScopeLock, CallOf, GoTo, Labels
    <2>2. InItsScope(u)' /\ Levels(u)' = Levels(u)
      BY <1>2, <2>1 DEF InItsScope, Levels, HeldScopes, ScopeLock
    <2>. QED
      BY <1>2, <2>1, <2>2, LabelsKeep DEF ScopeLock, LocksInv, LocksTypeOK
  <1>3. CASE LockReturns(u)
    <2>1. /\ uses[u] \in Scopes /\ scope[u][uses[u]] = "unlocked"
          /\ uses' \in [Users -> Scopes \cup {NoScope}]
          /\ \A v \in Users : v # u => uses'[v] = uses[v]
      BY <1>3 DEF LocksInv, LocksTypeOK, MutexInv, InItsScope, LockReturns, ReturnOf, CallOf
    <2>. QED
      BY <1>3, <2>1, AcquireKeeps DEF LockReturns, ReturnOf, CallOf, GoTo
  <1>4. CASE LockFails(u)
    <2>1. /\ label' \in [Users -> Labels] /\ uses' \in [Users -> Scopes \cup {NoScope}]
          /\ \A v \in Users : v # u => label'[v] = label[v] /\ uses'[v] = uses[v]
          /\ label'[u] = "idle"
      BY <1>4 DEF LocksInv, LocksTypeOK, LockFails, ReturnOf, CallOf, GoTo, Labels
    <2>2. InItsScope(u)' /\ Levels(u)' = Levels(u)
      BY <1>4, <2>1 DEF InItsScope, Levels, HeldScopes, LockFails
    <2>. QED
      BY <1>4, <2>1, <2>2, LabelsKeep DEF LockFails, LocksInv, LocksTypeOK
  <1>5. ASSUME NEW s \in Scopes, ScopeTrylock(u, s) PROVE LocksInv'
    <2>1. label' = [label EXCEPT ![u] = "idle"] /\ uses' \in [Users -> Scopes \cup {NoScope}]
      BY <1>5 DEF LocksInv, LocksTypeOK, ScopeTrylock
    <2>. QED
      BY <1>5, <2>1, AcquireKeeps DEF ScopeTrylock
  <1>6. ASSUME NEW s \in Scopes, ScopeUnlock(u, s) PROVE LocksInv'
    BY <1>6, ReleaseKeeps DEF ScopeUnlock
  <1>7. ASSUME NEW s \in Scopes, ScopeDestruct(u, s) PROVE LocksInv'
    <2>1. CASE scope[u][s] = "locked"
      BY <1>7, <2>1, ReleaseKeeps DEF ScopeDestruct
    <2>2. CASE scope[u][s] # "locked"
      BY <1>7, <2>2, UnlockedKeeps DEF ScopeDestruct
    <2>. QED
      BY <2>1, <2>2
  <1>8. ASSUME NEW s \in Scopes, ConditionWait(u, s) PROVE LocksInv'
    <2>1. /\ label' \in [Users -> Labels] /\ uses' \in [Users -> Scopes \cup {NoScope}]
          /\ \A v \in Users : v # u => label'[v] = label[v] /\ uses'[v] = uses[v]
          /\ label'[u] \in {"clear", "enter"} /\ uses'[u] = s /\ anyway' \in {0, 1}
      BY <1>8 DEF LocksInv, LocksTypeOK, ConditionWait, CallOf, GoTo, Labels, Cas
    <2>2. InItsScope(u)' /\ Levels(u)' = Levels(u)
      BY <1>8, <2>1 DEF InItsScope, Levels, HeldScopes, ConditionWait
    <2>. QED
      BY <1>8, <2>1, <2>2, LabelsKeep DEF ConditionWait
  <1>. QED
    BY <1>1, <1>2, <1>3, <1>4, <1>5, <1>6, <1>7, <1>8 DEF ScopeStep

LEMMA ConditionStepKeeps ==
    ASSUME LocksAssumption, LocksInv, NEW u \in Users, ConditionStep(u) PROVE LocksInv'
  <1>. USE DEF IsAt
  <1>1. CASE Probe(u)
    <2>1. mutex.owner \in {u, Nobody}
      BY <1>1 DEF Probe, Available
    <2>. QED
      BY <1>1, <2>1, TakesBehind DEF Probe
  <1>2. CASE ProbeUnlock(u) \/ WaitEnters(u)
    BY <1>2, GivesBehind DEF ProbeUnlock, WaitEnters
  <1>3. CASE WaitRelocks(u)
    <2>1. CASE mutex.owner = Gone
      <3>1. /\ label' \in [Users -> Labels]
            /\ \A v \in Users : v # u => label'[v] = label[v]
            /\ label'[u] = "clear"
        BY <1>3 DEF LocksInv, LocksTypeOK, WaitRelocks, GoTo, Labels
      <3>2. InItsScope(u)' /\ LevelsAgree(u)' /\ mutex' = mutex
        BY <1>3, <2>1, <3>1
           DEF LocksInv, MutexInv, InItsScope, LevelsAgree, HeldScopes, WaitRelocks
      <3>. QED
        BY <1>3, <2>1, <3>2, BehindKeeps, MutexFields
           DEF WaitRelocks, LocksInv, LocksTypeOK, MutexInv, Labels
    <2>2. CASE mutex.owner # Gone
      BY <1>3, <2>2, TakesBehind DEF WaitRelocks, Waits
    <2>. QED
      BY <2>1, <2>2
  <1>4. CASE WaitEnds(u) \/ WaitClears(u) \/ NotifyOne(u) \/ NotifyAnyway(u) \/ NotifyAll(u)
             \/ CancelAnyWayNotify(u)
    <2>1. /\ UNCHANGED <<scope, mutex, magic, state>> /\ anyway' \in {0, 1}
          /\ label' \in [Users -> Labels] /\ uses' \in [Users -> Scopes \cup {NoScope}]
      BY <1>4 DEF LocksInv, LocksTypeOK, Labels, GoTo, CallOf, ReturnOf, WaitEnds, WaitClears,
                  NotifyOne, NotifyAnyway, NotifyAll, CancelAnyWayNotify
    <2>2. \A v \in Users : v # u =>
              /\ uses'[v] = uses[v]
              /\ label'[v] = label[v] \/ (label[v] = "waiting" /\ label'[v] = "relock")
      BY <1>4 DEF LocksInv, LocksTypeOK, GoTo, CallOf, ReturnOf, WaitEnds, WaitClears,
                  NotifyOne, NotifyAnyway, NotifyAll, CancelAnyWayNotify
    <2>3. \/ label'[u] = label[u] /\ uses'[u] = uses[u]
          \/ label[u] = "waiting" /\ label'[u] = "relock" /\ uses'[u] = uses[u]
          \/ label[u] = "clear" /\ label'[u] = "idle"
          \/ {label[u], label'[u]} \subseteq {"idle", "broadcast"} /\ uses'[u] = uses[u]
      BY <1>4 DEF LocksInv, LocksTypeOK, GoTo, CallOf, ReturnOf, WaitEnds, WaitClears,
                  NotifyOne, NotifyAnyway, NotifyAll, CancelAnyWayNotify
    <2>4. HeldScopes(u, "mutex")' = HeldScopes(u, "mutex")
      BY <2>1 DEF HeldScopes
    <2>5. InItsScope(u)' /\ Levels(u)' = Levels(u)
      BY <2>1, <2>3, <2>4 DEF LocksInv, MutexInv, InItsScope, Levels
    <2>. QED
      BY <2>1, <2>2, <2>5, LabelsKeep
  <1>. QED
    BY <1>1, <1>2, <1>3, <1>4 DEF ConditionStep

\* HoldersAgree: whoever believes to hold the Mutex does, as often as he believes,
\* through time-outs, failed attempts, islocked() and the waits of a Condition
\* that let go of it, and at most one scope has the SpinLock (mutex.h, spinlock.h,
\* lock.h, condition.h).  LocksInv adds where each thread is in its scope.
THEOREM HoldersAlwaysAgree == LocksSpec => []HoldersAgree
  <1>. USE LocksAssumption
  <1>1. LocksInit => LocksInv
    <2>. SUFFICES ASSUME LocksInit PROVE LocksInv
      OBVIOUS
    <2>1. LocksTypeOK
      BY DEF LocksInit, LocksTypeOK, PthreadMutexes, Labels
    <2>2. \A l : \A u \in Users : HeldScopes(u, l) = {}
      BY DEF LocksInit, HeldScopes
    <2>3. mutex.owner = Nobody /\ mutex.count = 0 /\ Nobody \notin Users /\ Nobody # Gone
      BY DEF LocksInit, LocksAssumption
    <2>4. \A u \in Users : LevelsAgree(u) /\ InItsScope(u)
      BY <2>2, <2>3, FS_EmptySet DEF LocksInit, LevelsAgree, Levels, InItsScope
    <2>. QED
      BY <2>1, <2>2, <2>3, <2>4 DEF LocksInv, MutexInv, SpinAgrees
  <1>2. LocksInv /\ [LocksNext]_lockVars => LocksInv'
    <2>. SUFFICES ASSUME LocksInv, [LocksNext]_lockVars PROVE LocksInv'
      OBVIOUS
    <2>1. CASE UNCHANGED lockVars
      BY <2>1 DEF lockVars, LocksInv, LocksTypeOK, MutexInv, InItsScope, LevelsAgree, Levels,
                  SpinAgrees, HeldScopes
    <2>. QED
      BY <2>1, DestroyKeeps, ScopeStepKeeps, ConditionStepKeeps DEF LocksNext
  <1>3. LocksInv => HoldersAgree
    BY DEF LocksInv, LevelsAgree, SpinAgrees, HoldersAgree
  <1>. QED
    BY <1>1, <1>2, <1>3, PTL DEF LocksSpec

-----------------------------------------------------------------------------
(* Singleton: the inductive invariant                                      *)

Objects == 0..Len(count)
Pointers == [px : Objects, pn : Objects]
Doing == [at : {"idle", "copying", "slow", "has", "add", "create", "publish", "return",
                "find", "release", "reset"},
          type : Types, ret : Pointers, torn : BOOLEAN, todo : Seq(Types)]

SingletonTypeOK ==
    /\ count \in Seq(Nat) /\ deleted \subseteq 1..Len(count) /\ helpers \in Seq(Types)
    /\ shared \in [Types -> Pointers]
    /\ busy \in [Types -> {{}} \cup {{u} : u \in Threads}]
    /\ does \in [Threads -> Doing]

\* Everything that may count for an object: the static pointers and the threads,
\* whose pointer is their own or the one they are about to publish.
Sharers == ({1} \X Types) \cup ({2} \X Threads)
ObjectOf(x) ==
    IF x[1] = 1 THEN shared[x[2]].pn
    ELSE IF Is(x[2], "publish") THEN shared[does[x[2]].type].px ELSE does[x[2]].ret.pn
SharersOf(o) == {x \in Sharers : ObjectOf(x) = o}

CountOK(o) ==
    /\ IsFiniteSet(SharersOf(o)) /\ count[o] = Cardinality(SharersOf(o))
    /\ o \in deleted <=> count[o] = 0

\* What a thread that holds its type's mutex has found, and what others know
\* of the static pointer they copied without it.
Holding == {"add", "create", "publish", "return"}
DoesOK(u) ==
    LET d == does[u]
        s == shared[d.type]
    IN  /\ d.at \in {"release", "reset"} <=> d.todo # <<>>
        /\ d.at \notin {"slow", "has"} => d.ret.pn = 0
        /\ d.at = "copying" /\ ~d.torn => s.px = d.ret.px /\ s.pn = d.ret.px
        /\ d.at = "has" /\ ~d.torn => d.ret.px = d.ret.pn /\ d.ret.px # 0
        /\ d.at = "find" => d.ret.px # 0
        /\ d.at \in Holding => busy[d.type] = {u}
        /\ d.at \in {"add", "create"} => s.px = 0
        /\ d.at \in {"add", "create", "publish"} => s.pn = 0
        /\ d.at \in {"publish", "return"} => s.px # 0
        /\ d.at = "return" => s.px = s.pn
        /\ d.at = "reset" => busy[Head(d.todo)] = {u} /\ shared[Head(d.todo)].px = 0

\* Nobody has a type's mutex but the thread that says so, and the two halves of
\* the static pointer agree when nobody has it.
BusyOK(t) ==
    /\ busy[t] = {} => shared[t].px = shared[t].pn
    /\ \A u \in Threads :
         busy[t] = {u} => \/ does[u].at \in Holding /\ does[u].type = t
                          \/ does[u].at = "reset" /\ Head(does[u].todo) = t

\* There is a helper, unless there is no object and none is being made.
NoHelperYet(t) ==
    /\ shared[t].px = 0
    /\ busy[t] = {} \/ \E u \in Threads : busy[t] = {u} /\ Is(u, "add")

HelperAt(t, w, i) ==
    \/ w = {} /\ i \in DOMAIN helpers /\ helpers[i] = t
    \/ \E u \in Threads : w = {u} /\ i \in DOMAIN does[u].todo /\ does[u].todo[i] = t
NoHelper(t) == \A w, i : ~HelperAt(t, w, i)
OneHelper(t) ==
    \E w, i : HelperAt(t, w, i) /\ \A v, j : HelperAt(t, v, j) => v = w /\ j = i

HelperOK(t) == IF NoHelperYet(t) THEN NoHelper(t) ELSE OneHelper(t)

SingletonInv ==
    /\ SingletonTypeOK
    /\ \A o \in 1..Len(count) : CountOK(o)
    /\ \A u \in Threads : DoesOK(u)
    /\ \A t \in Types : BusyOK(t) /\ HelperOK(t)

-----------------------------------------------------------------------------
(* Counting                                                                *)

LEMMA DoesTypes ==
    ASSUME SingletonTypeOK
    PROVE  /\ Len(count) \in Nat /\ DOMAIN count = 1..Len(count)
           /\ \A o \in 1..Len(count) : count[o] \in Nat
           /\ \A t \in Types : shared[t] \in Pointers
           /\ \A u \in Threads : does[u] \in Doing /\ does[u].type \in Types
  BY LenProperties, ElementOfSeq DEF SingletonTypeOK, Doing

\* One that counts is moved from one object to another.
LEMMA SharerMoves ==
    ASSUME NEW y \in Sharers, \A x \in Sharers \ {y} : ObjectOf(x)' = ObjectOf(x), NEW o
    PROVE  SharersOf(o)' = IF ObjectOf(y)' = o THEN SharersOf(o) \cup {y} ELSE SharersOf(o) \ {y}
  BY DEF SharersOf, Sharers

LEMMA CountsStay ==
    ASSUME SingletonInv, UNCHANGED <<count, deleted>>,
           \A x \in Sharers : ObjectOf(x)' = ObjectOf(x)
    PROVE  \A o \in 1..Len(count)' : CountOK(o)'
  <1>1. \A o : SharersOf(o)' = SharersOf(o)
    BY DEF SharersOf, Sharers
  <1>. QED
    BY <1>1 DEF SingletonInv, CountOK

\* What is shared already gets one more.
LEMMA CountsShare ==
    ASSUME SingletonInv, NEW y \in Sharers, NEW p \in Objects, Shares(p), UNCHANGED deleted,
           ObjectOf(y) = 0, ObjectOf(y)' = p,
           p # 0 => \E x \in Sharers : ObjectOf(x) = p,
           \A x \in Sharers \ {y} : ObjectOf(x)' = ObjectOf(x)
    PROVE  /\ count' \in Seq(Nat) /\ Len(count)' = Len(count)
           /\ \A o \in 1..Len(count)' : CountOK(o)'
  <1>1. SingletonTypeOK /\ \A o \in 1..Len(count) : CountOK(o)
    BY DEF SingletonInv
  <1>2. /\ count' \in Seq(Nat) /\ Len(count') = Len(count)
        /\ \A o \in 1..Len(count) : count'[o] = IF o = p THEN count[o] + 1 ELSE count[o]
    <2>1. CASE p = 0
      BY <1>1, <2>1, DoesTypes DEF Shares, SingletonTypeOK
    <2>2. CASE p # 0
      <3>1. p \in 1..Len(count) /\ count[p] + 1 \in Nat
        BY <1>1, <2>2, DoesTypes DEF Objects
      <3>. QED
        BY <1>1, <2>2, <3>1, DoesTypes, ExceptSeq DEF Shares, SingletonTypeOK
    <2>. QED
      BY <2>1, <2>2
  <1>3. ASSUME NEW o \in 1..Len(count) PROVE CountOK(o)'
    <2>1. SharersOf(o)' = IF p = o THEN SharersOf(o) \cup {y} ELSE SharersOf(o) \ {y}
      BY SharerMoves
    <2>2. y \notin SharersOf(o)
      BY DEF SharersOf, Objects
    <2>3. IsFiniteSet(SharersOf(o)) /\ count[o] = Cardinality(SharersOf(o)) /\ count[o] \in Nat
      BY <1>1, DoesTypes DEF CountOK
    <2>4. CASE p = o
      <3>1. SharersOf(o) # {}
        BY <2>4 DEF SharersOf
      <3>2. count[o] # 0
        BY <2>3, <3>1, FS_EmptySet
      <3>3. o \notin deleted
        BY <1>1, <3>2 DEF CountOK
      <3>4. IsFiniteSet(SharersOf(o)') /\ Cardinality(SharersOf(o)') = count[o] + 1
        BY <2>1, <2>2, <2>3, <2>4, FS_AddElement
      <3>. QED
        BY <1>2, <2>3, <2>4, <3>3, <3>4 DEF CountOK
    <2>5. CASE p # o
      <3>1. SharersOf(o)' = SharersOf(o) /\ count'[o] = count[o] /\ deleted' = deleted
        BY <1>2, <2>1, <2>2, <2>5
      <3>. QED
        BY <1>1, <3>1 DEF CountOK
    <2>. QED
      BY <2>4, <2>5
  <1>. QED
    BY <1>2, <1>3

\* One lets go, and deletes the object if it was the last one.
LEMMA CountsLetGo ==
    ASSUME SingletonInv, NEW y \in Sharers, NEW p \in Objects, LetsGo(p),
           ObjectOf(y) = p, ObjectOf(y)' = 0,
           \A x \in Sharers \ {y} : ObjectOf(x)' = ObjectOf(x)
    PROVE  /\ count' \in Seq(Nat) /\ Len(count)' = Len(count) /\ deleted' \subseteq 1..Len(count)
           /\ \A o \in 1..Len(count)' : CountOK(o)'
  <1>1. SingletonTypeOK /\ \A o \in 1..Len(count) : CountOK(o)
    BY DEF SingletonInv
  <1>2. ASSUME p # 0
        PROVE  p \in 1..Len(count) /\ count[p] \in Nat /\ count[p] # 0
    <2>1. p \in 1..Len(count)
      BY <1>1, <1>2, DoesTypes DEF Objects
    <2>2. SharersOf(p) # {}
      BY DEF SharersOf
    <2>. QED
      BY <1>1, <2>1, <2>2, DoesTypes, FS_EmptySet DEF CountOK
  <1>3. /\ count' \in Seq(Nat) /\ Len(count') = Len(count) /\ deleted' \subseteq 1..Len(count)
        /\ \A o \in 1..Len(count) : count'[o] = IF o = p THEN count[o] - 1 ELSE count[o]
        /\ \A o \in 1..Len(count) :
              o \in deleted' <=> o \in deleted \/ (o = p /\ count[o] = 1)
    <2>1. CASE p = 0
      <3>1. count' = count /\ deleted' = deleted /\ \A o \in 1..Len(count) : o # p
        BY <1>1, <2>1, DoesTypes DEF LetsGo
      <3>. QED
        BY <1>1, <3>1 DEF SingletonTypeOK
    <2>2. CASE p # 0
      <3>1. count[p] - 1 \in Nat /\ p \in 1..Len(count)
        BY <1>2, <2>2
      <3>2. /\ count' = [count EXCEPT ![p] = count[p] - 1]
            /\ deleted' = IF count[p] = 1 THEN deleted \cup {p} ELSE deleted
        BY <2>2 DEF LetsGo
      <3>3. deleted \subseteq 1..Len(count) /\ count \in Seq(Nat)
        BY <1>1 DEF SingletonTypeOK
      <3>4. deleted' \subseteq 1..Len(count)
        BY <3>1, <3>2, <3>3
      <3>5. \A o \in 1..Len(count) : o \in deleted' <=> o \in deleted \/ (o = p /\ count[o] = 1)
        BY <3>2
      <3>. QED
        BY <3>1, <3>2, <3>3, <3>4, <3>5, ExceptSeq
    <2>. QED
      BY <2>1, <2>2
  <1>4. ASSUME NEW o \in 1..Len(count) PROVE CountOK(o)'
    <2>1. SharersOf(o)' = SharersOf(o) \ {y}
      BY SharerMoves, DoesTypes, <1>1
    <2>2. y \in SharersOf(o) <=> o = p
      BY DEF SharersOf
    <2>3. IsFiniteSet(SharersOf(o)) /\ count[o] = Cardinality(SharersOf(o)) /\ count[o] \in Nat
      BY <1>1, DoesTypes DEF CountOK
    <2>4. CASE p = o
      <3>1. IsFiniteSet(SharersOf(o)') /\ Cardinality(SharersOf(o)') = count[o] - 1
        BY <2>1, <2>2, <2>3, <2>4, FS_RemoveElement
      <3>2. count[o] # 0 /\ o \notin deleted
        BY <1>1, <1>2, <2>4 DEF CountOK
      <3>. QED
        BY <1>3, <2>3, <2>4, <3>1, <3>2 DEF CountOK
    <2>5. CASE p # o
      <3>1. /\ SharersOf(o)' = SharersOf(o) /\ count'[o] = count[o]
            /\ o \in deleted' <=> o \in deleted
        BY <1>3, <2>1, <2>2, <2>5
      <3>. QED
        BY <1>1, <3>1 DEF CountOK
    <2>. QED
      BY <2>4, <2>5
  <1>. QED
    BY <1>3, <1>4

-----------------------------------------------------------------------------
(* The other threads and the other types                                   *)

\* What u changes concerns only types whose mutex is free or its own.
Others(u) ==
    /\ \A t \in Types :
         busy'[t] # busy[t] \/ shared'[t] # shared[t] => busy[t] = {} \/ busy[t] = {u}
    /\ \A v \in Threads \ {u} :
         \/ does'[v] = does[v] /\ (Is(v, "copying") => shared'[does[v].type] = shared[does[v].type])
         \/ Is(v, "copying") /\ does'[v] = [does[v] EXCEPT !.torn = TRUE]

LEMMA OthersStay ==
    ASSUME SingletonInv, NEW u \in Threads, Others(u), NEW v \in Threads, v # u
    PROVE  DoesOK(v)' /\ does'[v] \in Doing /\ does'[v].at = does[v].at
           /\ does'[v].type = does[v].type /\ does'[v].todo = does[v].todo
           /\ does'[v].ret = does[v].ret
  <1>1. DoesOK(v) /\ does[v] \in Doing /\ does[v].type \in Types /\ {v} # {u} /\ {v} # {}
    BY DoesTypes DEF SingletonInv
  <1>2. CASE Is(v, "copying") /\ does'[v] = [does[v] EXCEPT !.torn = TRUE]
    BY <1>1, <1>2 DEF DoesOK, Doing, Is, Holding
  <1>3. CASE /\ does'[v] = does[v]
             /\ Is(v, "copying") => shared'[does[v].type] = shared[does[v].type]
    <2>1. does[v].at \in Holding => /\ busy'[does[v].type] = {v}
                                    /\ shared'[does[v].type] = shared[does[v].type]
      BY <1>1 DEF DoesOK, Others
    <2>2. does[v].at = "reset" => Head(does[v].todo) \in Types
      BY <1>1, HeadTailProperties DEF DoesOK, Doing
    <2>3. does[v].at = "reset" => /\ busy'[Head(does[v].todo)] = {v}
                                  /\ shared'[Head(does[v].todo)] = shared[Head(does[v].todo)]
      BY <1>1, <2>2 DEF DoesOK, Others
    <2>. QED
      BY <1>1, <1>3, <2>1, <2>3 DEF DoesOK, Is, Holding
  <1>. QED
    BY <1>2, <1>3 DEF Others

\* A type nothing happens to.
LEMMA TypeKeeps ==
    ASSUME SingletonInv, NEW u \in Threads, Others(u), NEW t \in Types,
           busy'[t] = busy[t], shared'[t] = shared[t], busy[t] # {u}
    PROVE  BusyOK(t)' /\ (NoHelperYet(t)' <=> NoHelperYet(t))
  <1>1. BusyOK(t)
    BY DEF SingletonInv
  <1>2. \A v \in Threads : busy[t] = {v} => /\ v # u /\ does'[v].at = does[v].at
                                            /\ does'[v].type = does[v].type
                                            /\ does'[v].todo = does[v].todo
    BY OthersStay
  <1>. QED
    BY <1>1, <1>2 DEF BusyOK, NoHelperYet, Is

LEMMA HelpersStay ==
    ASSUME SingletonInv, NEW t \in Types, UNCHANGED helpers,
           \A v \in Threads : does'[v].todo = does[v].todo,
           NoHelperYet(t)' <=> NoHelperYet(t)
    PROVE  HelperOK(t)'
  <1>1. \A w, i : HelperAt(t, w, i)' <=> HelperAt(t, w, i)
    BY DEF HelperAt
  <1>. QED
    BY <1>1 DEF SingletonInv, HelperOK, NoHelper, OneHelper

-----------------------------------------------------------------------------
(* What a step of thread u changes                                         *)

LEMMA RestsType ==
    ASSUME SingletonAssumption, SingletonTypeOK
    PROVE  /\ Rests \in Doing /\ Rests.at = "idle" /\ Rests.type \in Types /\ Rests.ret = NULL
           /\ Rests.ret.px = 0 /\ Rests.ret.pn = 0 /\ Rests.torn = FALSE /\ Rests.todo = <<>>
           /\ 0 \in Objects
  <1>1. 0 \in Objects /\ NULL \in Pointers /\ NULL.px = 0 /\ NULL.pn = 0
    BY DoesTypes DEF Objects, Pointers, NULL
  <1>2. (CHOOSE t \in Types : TRUE) \in Types
    BY DEF SingletonAssumption
  <1>3. <<>> \in Seq(Types)
    BY EmptySeq
  <1>. QED
    BY <1>1, <1>2, <1>3 DEF Rests, Doing

LEMMA ObjectOfOne ==
    ASSUME NEW z
    PROVE  /\ ObjectOf(<<1, z>>) = shared[z].pn /\ ObjectOf(<<1, z>>)' = shared'[z].pn
           /\ does[z].at # "publish" => ObjectOf(<<2, z>>) = does[z].ret.pn
           /\ does'[z].at # "publish" => ObjectOf(<<2, z>>)' = does'[z].ret.pn
           /\ does[z].at = "publish" => ObjectOf(<<2, z>>) = shared[does[z].type].px
           /\ does'[z].at = "publish" => ObjectOf(<<2, z>>)' = shared'[does'[z].type].px
  BY DEF ObjectOf, Is

LEMMA OthersShare ==
    ASSUME SingletonInv, NEW u \in Threads, Others(u), NEW v \in Threads, v # u
    PROVE  ObjectOf(<<2, v>>)' = ObjectOf(<<2, v>>)
  <1>1. DoesOK(v) /\ does[v].type \in Types
    BY DoesTypes DEF SingletonInv
  <1>2. does[v].at = "publish" => shared'[does[v].type] = shared[does[v].type]
    BY <1>1 DEF DoesOK, Holding, Others
  <1>3. /\ does'[v].at = does[v].at /\ does'[v].type = does[v].type
        /\ does'[v].ret = does[v].ret
    BY OthersStay
  <1>4. CASE does[v].at = "publish"
    BY <1>2, <1>3, <1>4 DEF ObjectOf, Is
  <1>5. CASE does[v].at # "publish"
    BY <1>3, <1>5 DEF ObjectOf, Is
  <1>. QED
    BY <1>4, <1>5

\* Only u's pointer changes: every other sharer keeps its object.
LEMMA OnlyOne ==
    ASSUME SingletonInv, NEW u \in Threads, Others(u),
           \A t \in Types : shared'[t].pn = shared[t].pn
    PROVE  /\ <<2, u>> \in Sharers
           /\ \A x \in Sharers \ {<<2, u>>} : ObjectOf(x)' = ObjectOf(x)
  <1>1. <<2, u>> \in Sharers
    BY DEF Sharers
  <1>2. ASSUME NEW x \in Sharers \ {<<2, u>>} PROVE ObjectOf(x)' = ObjectOf(x)
    <2>1. CASE x \in {1} \X Types
      <3>1. PICK t \in Types : x = <<1, t>>
        BY <2>1
      <3>. QED
        BY <3>1, ObjectOfOne
    <2>2. CASE x \in {2} \X Threads
      <3>1. PICK v \in Threads : x = <<2, v>>
        BY <2>2
      <3>. QED
        BY <3>1, OthersShare
    <2>. QED
      BY <2>1, <2>2 DEF Sharers
  <1>. QED
    BY <1>1, <1>2

LEMMA NothingShared ==
    ASSUME SingletonInv, NEW u \in Threads, Others(u), UNCHANGED <<count, deleted>>,
           \A t \in Types : shared'[t].pn = shared[t].pn,
           ObjectOf(<<2, u>>)' = ObjectOf(<<2, u>>)
    PROVE  \A o \in 1..Len(count)' : CountOK(o)'
  BY OnlyOne, CountsStay

-----------------------------------------------------------------------------

\* What is to be shown of a step of u.
LEMMA StepKeeps ==
    ASSUME SingletonInv, NEW u \in Threads, Others(u),
           count' \in Seq(Nat), Len(count)' >= Len(count), deleted' \subseteq 1..Len(count)',
           \A o \in 1..Len(count)' : CountOK(o)',
           helpers' \in Seq(Types), shared' \in [Types -> Pointers'],
           busy' \in [Types -> {{}} \cup {{v} : v \in Threads}],
           does' = [v \in Threads |-> does'[v]], does'[u] \in Doing', DoesOK(u)',
           \A t \in Types : BusyOK(t)' /\ HelperOK(t)'
    PROVE  SingletonInv'
  <1>1. Len(count) \in Nat /\ Len(count)' \in Nat
    BY DoesTypes, LenProperties DEF SingletonInv
  <1>2. Objects \subseteq Objects'
    BY <1>1 DEF Objects
  <1>3. Pointers \subseteq Pointers'
    BY <1>2 DEF Pointers
  <1>4. Doing \subseteq Doing'
    BY <1>3 DEF Doing
  <1>5. \A v \in Threads : DoesOK(v)' /\ does'[v] \in Doing'
    BY <1>4, OthersStay
  <1>6. SingletonTypeOK'
    BY <1>5 DEF SingletonTypeOK
  <1>. QED
    BY <1>5, <1>6 DEF SingletonInv

LEMMA SameObjects ==
    ASSUME SingletonInv, Len(count)' = Len(count)
    PROVE  /\ Objects' = Objects /\ Pointers' = Pointers /\ Doing' = Doing
           /\ Len(count)' >= Len(count) /\ 1..Len(count)' = 1..Len(count)
  BY DoesTypes DEF Objects, Pointers, Doing, SingletonInv

\* A step in which u has no mutex, gets none and moves no helper.
LEMMA QuietKeeps ==
    ASSUME SingletonInv, NEW u \in Threads, NEW r \in Doing, Goes(u, r),
           UNCHANGED <<shared, busy, helpers>>,
           count' \in Seq(Nat), Len(count)' = Len(count), deleted' \subseteq 1..Len(count),
           \A o \in 1..Len(count)' : CountOK(o)',
           DoesOK(u)', does[u].at \notin Holding \cup {"reset"}, r.at # "add",
           r.todo = does[u].todo
    PROVE  SingletonInv'
  <1>1. SingletonTypeOK /\ does'[u] = r /\ does' = [v \in Threads |-> does'[v]]
    BY DEF SingletonInv, SingletonTypeOK, Goes
  <1>2. Others(u) /\ \A v \in Threads \ {u} : does'[v] = does[v]
    BY <1>1 DEF Others, Goes, SingletonTypeOK
  <1>3. ASSUME NEW t \in Types PROVE BusyOK(t)' /\ HelperOK(t)'
    <2>1. busy[t] # {u}
      BY DEF SingletonInv, BusyOK
    <2>2. BusyOK(t)' /\ (NoHelperYet(t)' <=> NoHelperYet(t))
      BY <1>2, <2>1, TypeKeeps
    <2>. QED
      BY <1>1, <1>2, <2>2, HelpersStay
  <1>. QED
    BY <1>1, <1>2, <1>3, SameObjects, StepKeeps DEF SingletonTypeOK

LEMMA CopyPxKeeps ==
    ASSUME SingletonAssumption, SingletonInv, NEW u \in Threads, NEW t \in Types, CopyPx(u, t)
    PROVE  SingletonInv'
  <1> DEFINE r == [Rests EXCEPT !.at = "copying", !.type = t, !.ret.px = shared[t].px,
                                !.torn = shared[t].px # shared[t].pn]
  <1>1. SingletonTypeOK /\ DoesOK(u) /\ does[u].at = "idle" /\ shared[t] \in Pointers
    BY DoesTypes DEF SingletonInv, CopyPx, Is
  <1>2. /\ r \in Doing /\ r.at = "copying" /\ r.type = t /\ r.ret.px = shared[t].px /\ r.ret.pn = 0
        /\ r.torn = (shared[t].px # shared[t].pn) /\ r.todo = <<>>
    BY <1>1, RestsType DEF Doing, Pointers
  <1>3. Goes(u, r) /\ UNCHANGED <<shared, count, deleted, helpers, busy>> /\ does'[u] = r
    BY <1>1 DEF CopyPx, Goes, SingletonTypeOK
  <1> HIDE DEF r
  <1>4. DoesOK(u)'
    BY <1>2, <1>3 DEF DoesOK, Holding
  <1>5. does[u].ret.pn = 0 /\ does[u].todo = <<>>
    BY <1>1 DEF DoesOK
  <1>6. Others(u)
    BY <1>1, <1>3 DEF Others, Goes, SingletonTypeOK
  <1>7. ObjectOf(<<2, u>>)' = 0 /\ ObjectOf(<<2, u>>) = 0
    BY <1>1, <1>2, <1>3, <1>5 DEF ObjectOf, Is
  <1>8. \A o \in 1..Len(count)' : CountOK(o)'
    BY <1>3, <1>6, <1>7, NothingShared
  <1>. QED
    BY <1>1, <1>2, <1>3, <1>4, <1>5, <1>8, QuietKeeps DEF SingletonTypeOK, Holding

LEMMA AskReleaseKeeps ==
    ASSUME SingletonAssumption, SingletonInv, NEW u \in Threads, NEW t \in Types, AskRelease(u, t)
    PROVE  SingletonInv'
  <1> DEFINE r == [Rests EXCEPT !.at = "find", !.ret.px = shared[t].px]
  <1>1. SingletonTypeOK /\ DoesOK(u) /\ does[u].at = "idle" /\ shared[t] \in Pointers
        /\ shared[t].px # 0
    BY DoesTypes DEF SingletonInv, AskRelease, Is
  <1>2. r \in Doing /\ r.at = "find" /\ r.ret.px # 0 /\ r.ret.pn = 0 /\ r.todo = <<>>
    BY <1>1, RestsType DEF Doing, Pointers
  <1>3. Goes(u, r) /\ UNCHANGED <<shared, count, deleted, helpers, busy>> /\ does'[u] = r
    BY <1>1 DEF AskRelease, Goes, SingletonTypeOK
  <1> HIDE DEF r
  <1>4. DoesOK(u)'
    BY <1>2, <1>3 DEF DoesOK, Holding
  <1>5. does[u].ret.pn = 0 /\ does[u].todo = <<>>
    BY <1>1 DEF DoesOK
  <1>6. Others(u)
    BY <1>1, <1>3 DEF Others, Goes, SingletonTypeOK
  <1>7. ObjectOf(<<2, u>>)' = 0 /\ ObjectOf(<<2, u>>) = 0
    BY <1>1, <1>2, <1>3, <1>5 DEF ObjectOf, Is
  <1>8. \A o \in 1..Len(count)' : CountOK(o)'
    BY <1>3, <1>6, <1>7, NothingShared
  <1>. QED
    BY <1>1, <1>2, <1>3, <1>4, <1>5, <1>8, QuietKeeps DEF SingletonTypeOK, Holding

LEMMA CopyPnKeeps ==
    ASSUME SingletonInv, NEW u \in Threads, CopyPn(u)
    PROVE  SingletonInv'
  <1> DEFINE t == does[u].type
             pn == shared[t].pn
             r == [does[u] EXCEPT !.ret.pn = pn, !.at = IF does[u].ret.px # 0 THEN "has" ELSE "slow"]
  <1>1. SingletonTypeOK /\ DoesOK(u) /\ does[u].at = "copying" /\ does[u] \in Doing
        /\ t \in Types /\ pn \in Objects
    BY DoesTypes DEF SingletonInv, CopyPn, Is, Pointers
  <1>2. /\ r \in Doing /\ r.at = (IF does[u].ret.px # 0 THEN "has" ELSE "slow") /\ r.ret.pn = pn
        /\ r.ret.px = does[u].ret.px /\ r.torn = does[u].torn /\ r.todo = does[u].todo
    BY <1>1 DEF Doing, Pointers
  <1>3. Goes(u, r) /\ UNCHANGED <<shared, deleted, helpers, busy>> /\ does'[u] = r /\ Shares(pn)
    BY <1>1 DEF CopyPn, Goes, SingletonTypeOK
  <1> HIDE DEF r
  <1>4. DoesOK(u)'
    BY <1>1, <1>2, <1>3 DEF DoesOK, Holding
  <1>5. Others(u)
    BY <1>1, <1>3 DEF Others, Goes, SingletonTypeOK
  <1>6. ObjectOf(<<2, u>>) = 0 /\ ObjectOf(<<2, u>>)' = pn
    BY <1>1, <1>2, <1>3, ObjectOfOne DEF DoesOK
  <1>7. \E x \in Sharers : ObjectOf(x) = pn
    BY <1>1, ObjectOfOne DEF Sharers
  <1>8. /\ count' \in Seq(Nat) /\ Len(count)' = Len(count)
        /\ \A o \in 1..Len(count)' : CountOK(o)'
    BY <1>1, <1>3, <1>5, <1>6, <1>7, OnlyOne, CountsShare
  <1>. QED
    BY <1>1, <1>2, <1>3, <1>4, <1>8, QuietKeeps DEF SingletonTypeOK, Holding

LEMMA DropKeeps ==
    ASSUME SingletonAssumption, SingletonInv, NEW u \in Threads, Drop(u)
    PROVE  SingletonInv'
  <1>1. SingletonTypeOK /\ DoesOK(u) /\ does[u].at = "has" /\ does[u] \in Doing
    BY DoesTypes DEF SingletonInv, Drop, Is
  <1>2. does'[u] = Rests /\ Goes(u, Rests) /\ UNCHANGED <<shared, helpers, busy>>
        /\ LetsGo(does[u].ret.pn) /\ does[u].ret.pn \in Objects
    BY <1>1 DEF Drop, Goes, SingletonTypeOK, Doing, Pointers
  <1>3. DoesOK(u)' /\ Others(u)
    BY <1>1, <1>2, RestsType DEF DoesOK, Holding, Others, Goes, SingletonTypeOK
  <1>4. ObjectOf(<<2, u>>) = does[u].ret.pn /\ ObjectOf(<<2, u>>)' = 0
    BY <1>1, <1>2, RestsType, ObjectOfOne
  <1>5. /\ count' \in Seq(Nat) /\ Len(count)' = Len(count) /\ deleted' \subseteq 1..Len(count)
        /\ \A o \in 1..Len(count)' : CountOK(o)'
    BY <1>1, <1>2, <1>3, <1>4, OnlyOne, CountsLetGo
  <1>. QED
    BY <1>1, <1>2, <1>3, <1>5, RestsType, QuietKeeps DEF SingletonTypeOK, Holding, DoesOK

-----------------------------------------------------------------------------
(* Helpers that move                                                       *)

LEMMA WithoutOne ==
    ASSUME NEW S, NEW s \in Seq(S), NEW k \in 1..Len(s)
    PROVE  /\ RemoveAt(s, k) \in Seq(S) /\ Len(RemoveAt(s, k)) = Len(s) - 1
           /\ \A i \in 1..(Len(s) - 1) :
                 RemoveAt(s, k)[i] = IF i < k THEN s[i] ELSE s[i + 1]
  <1> DEFINE a == SubSeq(s, 1, k - 1)
             b == SubSeq(s, k + 1, Len(s))
  <1>1. Len(s) \in Nat /\ k \in Nat /\ k >= 1 /\ k <= Len(s)
    BY LenProperties
  <1>2. \A i \in 1..Len(s) : s[i] \in S
    BY ElementOfSeq
  <1>3. a \in Seq(S) /\ Len(a) = k - 1 /\ \A i \in 1..(k - 1) : a[i] = s[i]
    BY <1>1, <1>2, SubSeqProperties
  <1>4. b \in Seq(S) /\ Len(b) = Len(s) - k /\ \A i \in 1..(Len(s) - k) : b[i] = s[k + i]
    <2>1. ASSUME k < Len(s)
          PROVE  b \in Seq(S) /\ Len(b) = Len(s) - k /\ \A i \in 1..(Len(s) - k) : b[i] = s[k + i]
      BY <1>1, <1>2, <2>1, SubSeqProperties
    <2>2. ASSUME k = Len(s) PROVE b \in Seq(S) /\ Len(b) = 0
      BY <1>1, <1>2, <2>2, SubSeqProperties
    <2>. QED
      BY <1>1, <2>1, <2>2
  <1>5. RemoveAt(s, k) = a \o b
    BY DEF RemoveAt
  <1> HIDE DEF a, b
  <1>6. Len(a) + Len(b) = Len(s) - 1
    BY <1>1, <1>3, <1>4
  <1>7. a \o b \in Seq(S) /\ Len(a \o b) = Len(s) - 1
        /\ \A i \in 1..(Len(s) - 1) : (a \o b)[i] = IF i <= Len(a) THEN a[i] ELSE b[i - Len(a)]
    <2>1. a \in Seq(S) /\ b \in Seq(S)
      BY <1>3, <1>4
    <2>2. /\ a \o b \in Seq(S) /\ Len(a \o b) = Len(a) + Len(b)
          /\ \A i \in 1..(Len(a) + Len(b)) :
                (a \o b)[i] = IF i <= Len(a) THEN a[i] ELSE b[i - Len(a)]
      BY <2>1, ConcatProperties
    <2>. QED
      BY <1>6, <2>2
  <1>8. ASSUME NEW i \in 1..(Len(s) - 1)
        PROVE  RemoveAt(s, k)[i] = IF i < k THEN s[i] ELSE s[i + 1]
    <2>1. CASE i < k
      BY <1>1, <1>3, <1>5, <1>7, <2>1
    <2>2. CASE i >= k
      <3>1. i - (k - 1) \in 1..(Len(s) - k) /\ k + (i - (k - 1)) = i + 1
        BY <1>1, <2>2
      <3>. QED
        BY <1>1, <1>3, <1>4, <1>5, <1>7, <2>2, <3>1
    <2>. QED
      BY <1>1, <2>1, <2>2
  <1>. QED
    BY <1>5, <1>7, <1>8

LEMMA TurnedAround ==
    ASSUME NEW S, NEW s \in Seq(S)
    PROVE  /\ Reverse(s) \in Seq(S) /\ Len(Reverse(s)) = Len(s)
           /\ \A i \in 1..Len(s) : Reverse(s)[i] = s[Len(s) - i + 1]
  <1>1. Len(s) \in Nat /\ \A i \in 1..Len(s) : s[Len(s) - i + 1] \in S
    BY LenProperties, ElementOfSeq
  <1>. QED
    BY <1>1, IsASeq DEF Reverse

\* The helpers that u does not move.
Elsewhere(u, t, w, i) ==
    \E v \in Threads \ {u} : w = {v} /\ i \in DOMAIN does[v].todo /\ does[v].todo[i] = t

LEMMA HelperWhere ==
    ASSUME NEW u \in Threads, NEW t, NEW w, NEW i
    PROVE  /\ HelperAt(t, w, i) <=> \/ w = {} /\ i \in DOMAIN helpers /\ helpers[i] = t
                                    \/ w = {u} /\ i \in DOMAIN does[u].todo /\ does[u].todo[i] = t
                                    \/ Elsewhere(u, t, w, i)
           /\ Elsewhere(u, t, w, i) => w # {} /\ w # {u}
  BY DEF HelperAt, Elsewhere

LEMMA ListDomain ==
    ASSUME SingletonTypeOK
    PROVE  /\ Len(helpers) \in Nat /\ DOMAIN helpers = 1..Len(helpers)
           /\ \A i \in 1..Len(helpers) : helpers[i] \in Types
           /\ \A v \in Threads : /\ does[v].todo \in Seq(Types) /\ Len(does[v].todo) \in Nat
                                 /\ DOMAIN does[v].todo = 1..Len(does[v].todo)
  BY DoesTypes, LenProperties, ElementOfSeq DEF SingletonTypeOK, Doing

LEMMA ListTaken ==
    ASSUME SingletonTypeOK, NEW u \in Threads, does[u].todo = <<>>,
           helpers' = <<>>, does'[u].todo = Reverse(helpers),
           \A v \in Threads \ {u} : does'[v] = does[v], NEW t
    PROVE  (NoHelper(t) => NoHelper(t)') /\ (OneHelper(t) => OneHelper(t)')
  <1> DEFINE n == Len(helpers)
             Listed(i) == i \in 1..n /\ helpers[i] = t
  <1>1. n \in Nat /\ DOMAIN helpers = 1..n /\ helpers \in Seq(Types)
    BY ListDomain DEF SingletonTypeOK
  <1>2. DOMAIN Reverse(helpers) = 1..n /\ \A i \in 1..n : Reverse(helpers)[i] = helpers[n - i + 1]
    BY <1>1, TurnedAround, LenProperties
  <1>3. \A w, i : HelperAt(t, w, i) <=> (w = {} /\ Listed(i)) \/ Elsewhere(u, t, w, i)
    BY <1>1, HelperWhere
  <1>4. \A w, i : Elsewhere(u, t, w, i)' <=> Elsewhere(u, t, w, i)
    BY DEF Elsewhere
  <1>5. \A w, i : HelperAt(t, w, i)' <=> \/ w = {u} /\ i \in 1..n /\ Listed(n - i + 1)
                                         \/ Elsewhere(u, t, w, i)
    <2>. SUFFICES ASSUME NEW w, NEW i
                  PROVE  HelperAt(t, w, i)' <=> \/ w = {u} /\ i \in 1..n /\ Listed(n - i + 1)
                                                \/ Elsewhere(u, t, w, i)
      OBVIOUS
    <2>1. HelperAt(t, w, i)' <=> \/ w = {u} /\ i \in DOMAIN does'[u].todo /\ does'[u].todo[i] = t
                                 \/ Elsewhere(u, t, w, i)'
      BY DEF HelperAt, Elsewhere
    <2>2. i \in 1..n => n - i + 1 \in 1..n
      BY <1>1
    <2>. QED
      BY <1>2, <1>4, <2>1, <2>2
  <1>6. \A w, i : Elsewhere(u, t, w, i) => w # {} /\ w # {u}
    BY DEF Elsewhere
  <1>7. \A i \in 1..n : n - i + 1 \in 1..n /\ n - (n - i + 1) + 1 = i
    BY <1>1
  <1>8. \A i : Listed(i) => i \in 1..n
    OBVIOUS
  <1> HIDE DEF Listed, n
  <1>9. ASSUME NoHelper(t) PROVE NoHelper(t)'
    BY <1>3, <1>5, <1>9 DEF NoHelper
  <1>10. ASSUME OneHelper(t) PROVE OneHelper(t)'
    <2>1. PICK w, i : HelperAt(t, w, i) /\ \A v, j : HelperAt(t, v, j) => v = w /\ j = i
      BY <1>10 DEF OneHelper
    <2>2. CASE w = {} /\ Listed(i)
      <3>1. PICK x, m : x = {u} /\ m = n - i + 1
        OBVIOUS
      <3>2. m \in 1..n /\ n - m + 1 = i
        BY <1>7, <1>8, <2>2, <3>1
      <3>3. HelperAt(t, x, m)'
        BY <1>5, <2>2, <3>1, <3>2
      <3>4. ASSUME NEW v, NEW j, HelperAt(t, v, j)' PROVE v = x /\ j = m
        <4>1. ~Elsewhere(u, t, v, j)
          BY <1>3, <1>6, <2>1, <2>2
        <4>2. v = {u} /\ j \in 1..n /\ Listed(n - j + 1)
          BY <1>5, <3>4, <4>1
        <4>3. n - j + 1 = i
          BY <1>3, <2>1, <4>2
        <4>. QED
          BY <1>7, <3>1, <4>2, <4>3
      <3>. QED
        BY <3>3, <3>4 DEF OneHelper
    <2>3. CASE Elsewhere(u, t, w, i)
      <3>1. HelperAt(t, w, i)'
        BY <1>5, <2>3
      <3>2. ASSUME NEW v, NEW j, HelperAt(t, v, j)' PROVE v = w /\ j = i
        <4>1. \A k : ~Listed(k)
          BY <1>3, <1>6, <2>1, <2>3
        <4>. QED
          BY <1>3, <1>5, <2>1, <3>2, <4>1
      <3>. QED
        BY <3>1, <3>2 DEF OneHelper
    <2>. QED
      BY <1>3, <2>1, <2>2, <2>3
  <1>. QED
    BY <1>9, <1>10

LEMMA HelperTaken ==
    ASSUME SingletonTypeOK, NEW u \in Threads, does[u].todo = <<>>, NEW k \in DOMAIN helpers,
           helpers' = RemoveAt(helpers, k), does'[u].todo = <<helpers[k]>>,
           \A v \in Threads \ {u} : does'[v] = does[v], NEW t
    PROVE  (NoHelper(t) => NoHelper(t)') /\ (OneHelper(t) => OneHelper(t)')
  <1> DEFINE n == Len(helpers)
             Listed(i) == i \in 1..n /\ helpers[i] = t
             Old(i) == IF i < k THEN i ELSE i + 1
  <1>1. n \in Nat /\ DOMAIN helpers = 1..n /\ helpers \in Seq(Types) /\ k \in 1..n
    BY ListDomain DEF SingletonTypeOK
  <1>2. DOMAIN helpers' = 1..(n - 1) /\ \A i \in 1..(n - 1) : helpers'[i] = helpers[Old(i)]
    <2>1. /\ helpers' \in Seq(Types) /\ Len(helpers') = n - 1
          /\ \A i \in 1..(n - 1) : helpers'[i] = IF i < k THEN helpers[i] ELSE helpers[i + 1]
      BY <1>1, WithoutOne
    <2>2. DOMAIN helpers' = 1..(n - 1)
      BY <2>1, LenProperties
    <2>3. \A i \in 1..(n - 1) : helpers'[i] = helpers[Old(i)]
      BY <2>1
    <2>. QED
      BY <2>2, <2>3
  <1>3. \A w, i : HelperAt(t, w, i) <=> (w = {} /\ Listed(i)) \/ Elsewhere(u, t, w, i)
    BY <1>1, HelperWhere
  <1>4. \A w, i : Elsewhere(u, t, w, i)' <=> Elsewhere(u, t, w, i)
    BY DEF Elsewhere
  <1>5. \A w, i : HelperAt(t, w, i)' <=> \/ w = {} /\ i \in 1..(n - 1) /\ Listed(Old(i))
                                         \/ w = {u} /\ i = 1 /\ Listed(k)
                                         \/ Elsewhere(u, t, w, i)
    <2>. SUFFICES ASSUME NEW w, NEW i
                  PROVE  HelperAt(t, w, i)' <=> \/ w = {} /\ i \in 1..(n - 1) /\ Listed(Old(i))
                                                \/ w = {u} /\ i = 1 /\ Listed(k)
                                                \/ Elsewhere(u, t, w, i)
      OBVIOUS
    <2>1. HelperAt(t, w, i)' <=> \/ w = {} /\ i \in DOMAIN helpers' /\ helpers'[i] = t
                                 \/ w = {u} /\ i \in DOMAIN does'[u].todo /\ does'[u].todo[i] = t
                                 \/ Elsewhere(u, t, w, i)'
      BY DEF HelperAt, Elsewhere
    <2>2. i \in 1..(n - 1) => Old(i) \in 1..n
      BY <1>1
    <2>3. DOMAIN does'[u].todo = 1..1 /\ does'[u].todo[1] = helpers[k]
      OBVIOUS
    <2>4. i \in 1..1 <=> i = 1
      OBVIOUS
    <2>. QED
      BY <1>1, <1>2, <1>4, <2>1, <2>2, <2>3, <2>4
  <1>6. \A w, i : Elsewhere(u, t, w, i) => w # {} /\ w # {u}
    BY DEF Elsewhere
  <1>7. \A i \in 1..n \ {k} : \E j \in 1..(n - 1) : Old(j) = i
    <2>. SUFFICES ASSUME NEW i \in 1..n, i # k PROVE \E j \in 1..(n - 1) : Old(j) = i
      OBVIOUS
    <2>1. CASE i < k
      BY <1>1, <2>1
    <2>2. CASE i > k
      <3>1. i - 1 \in 1..(n - 1) /\ Old(i - 1) = i
        BY <1>1, <2>2
      <3>. QED
        BY <3>1
    <2>. QED
      BY <1>1, <2>1, <2>2
  <1>8. \A i \in 1..(n - 1) : Old(i) # k /\ \A j \in 1..(n - 1) : Old(i) = Old(j) => i = j
    BY <1>1
  <1>9. \A i : Listed(i) => i \in 1..n
    OBVIOUS
  <1> HIDE DEF Listed, Old, n
  <1>10. ASSUME NoHelper(t) PROVE NoHelper(t)'
    BY <1>3, <1>5, <1>10 DEF NoHelper
  <1>11. ASSUME OneHelper(t) PROVE OneHelper(t)'
    <2>1. PICK w, i : HelperAt(t, w, i) /\ \A v, j : HelperAt(t, v, j) => v = w /\ j = i
      BY <1>11 DEF OneHelper
    <2>2. CASE w = {} /\ Listed(i)
      <3>1. \A v, j : ~Elsewhere(u, t, v, j)
        BY <1>3, <1>6, <2>1, <2>2
      <3>2. \A j : Listed(j) => j = i
        BY <1>3, <2>1
      <3>3. CASE i = k
        <4>1. PICK x, m : x = {u} /\ m = 1
          OBVIOUS
        <4>2. HelperAt(t, x, m)'
          BY <1>5, <2>2, <3>3, <4>1
        <4>3. \A v, j : HelperAt(t, v, j)' => v = x /\ j = m
          BY <1>5, <1>8, <3>1, <3>2, <3>3, <4>1
        <4>. QED
          BY <4>2, <4>3 DEF OneHelper
      <3>4. CASE i # k
        <4>1. PICK j \in 1..(n - 1) : Old(j) = i
          BY <1>7, <1>9, <2>2, <3>4
        <4>2. HelperAt(t, w, j)'
          BY <1>5, <2>2, <4>1
        <4>3. \A v, m : HelperAt(t, v, m)' => v = w /\ m = j
          BY <1>5, <1>8, <2>2, <3>1, <3>2, <3>4, <4>1
        <4>. QED
          BY <4>2, <4>3 DEF OneHelper
      <3>. QED
        BY <3>3, <3>4
    <2>3. CASE Elsewhere(u, t, w, i)
      <3>1. HelperAt(t, w, i)'
        BY <1>5, <2>3
      <3>2. \A j : ~Listed(j)
        BY <1>3, <1>6, <2>1, <2>3
      <3>3. \A v, j : HelperAt(t, v, j)' => v = w /\ j = i
        BY <1>3, <1>5, <2>1, <3>2
      <3>. QED
        BY <3>1, <3>3 DEF OneHelper
    <2>. QED
      BY <1>3, <2>1, <2>2, <2>3
  <1>. QED
    BY <1>10, <1>11

-----------------------------------------------------------------------------
(* Steps that move helpers                                                 *)

\* Out of the list, into the hands of u.
LEMMA TakeKeeps ==
    ASSUME SingletonInv, NEW u \in Threads, NEW r \in Doing, Goes(u, r),
           UNCHANGED <<shared, busy, count, deleted>>, helpers' \in Seq(Types),
           does[u].at \in {"find", "idle"}, r.at = "release", r.todo # <<>>, r.ret.pn = 0,
           \A t \in Types : /\ NoHelper(t) => NoHelper(t)'
                            /\ OneHelper(t) => OneHelper(t)'
    PROVE  SingletonInv'
  <1>1. /\ SingletonTypeOK /\ DoesOK(u) /\ does'[u] = r /\ does' = [v \in Threads |-> does'[v]]
        /\ \A v \in Threads \ {u} : does'[v] = does[v]
    BY DEF SingletonInv, SingletonTypeOK, Goes
  <1>2. Others(u) /\ DoesOK(u)'
    BY <1>1 DEF Others, DoesOK, Holding
  <1>3. ObjectOf(<<2, u>>) = 0 /\ ObjectOf(<<2, u>>)' = 0
    BY <1>1 DEF ObjectOf, Is, DoesOK
  <1>4. \A o \in 1..Len(count)' : CountOK(o)'
    BY <1>2, <1>3, NothingShared
  <1>5. ASSUME NEW t \in Types PROVE BusyOK(t)' /\ HelperOK(t)'
    <2>1. busy[t] # {u}
      BY DEF SingletonInv, BusyOK, Holding
    <2>2. BusyOK(t)' /\ (NoHelperYet(t)' <=> NoHelperYet(t))
      BY <1>2, <2>1, TypeKeeps
    <2>3. HelperOK(t)
      BY DEF SingletonInv
    <2>. QED
      BY <2>2, <2>3 DEF HelperOK
  <1>. QED
    BY <1>1, <1>2, <1>4, <1>5, SameObjects, StepKeeps DEF SingletonTypeOK

LEMMA TakeAllKeeps ==
    ASSUME SingletonAssumption, SingletonInv, NEW u \in Threads, TakeAll(u)
    PROVE  SingletonInv'
  <1> DEFINE r == [Rests EXCEPT !.at = "release", !.todo = Reverse(helpers)]
  <1>1. /\ SingletonTypeOK /\ DoesOK(u) /\ does[u].at = "idle" /\ helpers \in Seq(Types)
        /\ helpers # <<>>
    BY DEF SingletonInv, SingletonTypeOK, TakeAll, Is
  <1>2. Reverse(helpers) \in Seq(Types) /\ Len(Reverse(helpers)) = Len(helpers) /\ Len(helpers) # 0
    BY <1>1, TurnedAround, EmptySeq
  <1>3. Reverse(helpers) # <<>>
    BY <1>2, EmptySeq
  <1>4. r \in Doing /\ r.at = "release" /\ r.todo = Reverse(helpers) /\ r.ret.pn = 0
    BY <1>1, <1>2, RestsType DEF Doing
  <1>5. /\ Goes(u, r) /\ UNCHANGED <<shared, count, deleted, busy>> /\ helpers' = <<>>
        /\ does'[u] = r /\ \A v \in Threads \ {u} : does'[v] = does[v]
    BY <1>1 DEF TakeAll, Goes, SingletonTypeOK
  <1> HIDE DEF r
  <1>6. does[u].todo = <<>>
    BY <1>1 DEF DoesOK
  <1>7. \A t \in Types : (NoHelper(t) => NoHelper(t)') /\ (OneHelper(t) => OneHelper(t)')
    BY <1>1, <1>4, <1>5, <1>6, ListTaken
  <1>8. helpers' \in Seq(Types)
    BY <1>5, EmptySeq
  <1>. QED
    BY <1>1, <1>3, <1>4, <1>5, <1>7, <1>8, TakeKeeps

LEMMA FindHelperKeeps ==
    ASSUME SingletonAssumption, SingletonInv, NEW u \in Threads, FindHelper(u)
    PROVE  SingletonInv'
  <1>1. /\ SingletonTypeOK /\ DoesOK(u) /\ does[u].at = "find" /\ helpers \in Seq(Types)
        /\ UNCHANGED <<shared, count, deleted, busy>>
    BY DEF SingletonInv, SingletonTypeOK, FindHelper, Is
  <1>2. does[u].todo = <<>>
    BY <1>1 DEF DoesOK
  <1>3. CASE Goes(u, Rests) /\ UNCHANGED helpers
    <2>1. does'[u] = Rests
      BY <1>1, <1>3 DEF Goes, SingletonTypeOK
    <2>2. DoesOK(u)' /\ Others(u)
      BY <1>1, <1>3, <2>1, RestsType DEF DoesOK, Holding, Others, Goes, SingletonTypeOK
    <2>3. ObjectOf(<<2, u>>) = 0 /\ ObjectOf(<<2, u>>)' = 0
      <3>1. does[u].ret.pn = 0 /\ does'[u].at = "idle" /\ does'[u].ret.pn = 0
        BY <1>1, <2>1, RestsType DEF DoesOK
      <3>. QED
        BY <1>1, <3>1 DEF ObjectOf, Is
    <2>4. \A o \in 1..Len(count)' : CountOK(o)'
      BY <1>1, <2>2, <2>3, NothingShared
    <2>. QED
      BY <1>1, <1>2, <1>3, <2>2, <2>4, RestsType, QuietKeeps DEF SingletonTypeOK, Holding
  <1>4. ASSUME NEW i \in DOMAIN helpers, helpers' = RemoveAt(helpers, i),
               Goes(u, [Rests EXCEPT !.at = "release", !.todo = <<helpers[i]>>])
        PROVE  SingletonInv'
    <2> DEFINE r == [Rests EXCEPT !.at = "release", !.todo = <<helpers[i]>>]
    <2>1. i \in 1..Len(helpers) /\ helpers[i] \in Types
      BY <1>1, ListDomain
    <2>2. <<helpers[i]>> \in Seq(Types) /\ <<helpers[i]>> # <<>>
      BY <2>1
    <2>3. r \in Doing /\ r.at = "release" /\ r.todo = <<helpers[i]>> /\ r.ret.pn = 0
      BY <1>1, <2>2, RestsType DEF Doing
    <2>4. does'[u] = r /\ \A v \in Threads \ {u} : does'[v] = does[v]
      BY <1>1, <1>4 DEF Goes, SingletonTypeOK
    <2>5. Goes(u, r)
      BY <1>4
    <2> HIDE DEF r
    <2>6. \A t \in Types : (NoHelper(t) => NoHelper(t)') /\ (OneHelper(t) => OneHelper(t)')
      BY <1>1, <1>2, <1>4, <2>3, <2>4, HelperTaken
    <2>7. helpers' \in Seq(Types)
      BY <1>1, <1>4, <2>1, WithoutOne
    <2>. QED
      BY <1>1, <2>2, <2>3, <2>5, <2>6, <2>7, TakeKeeps
  <1>. QED
    BY <1>3, <1>4 DEF FindHelper

LEMMA AddSingletonKeeps ==
    ASSUME SingletonInv, NEW u \in Threads, AddSingleton(u)
    PROVE  SingletonInv'
  <1> DEFINE r == [does[u] EXCEPT !.at = "create"]
  <1>0. PICK a \in Types : a = does[u].type
    BY DoesTypes DEF SingletonInv
  <1>1. SingletonTypeOK /\ DoesOK(u) /\ does[u].at = "add" /\ does[u] \in Doing
    BY DoesTypes DEF SingletonInv, AddSingleton, Is
  <1>2. /\ r \in Doing /\ r.at = "create" /\ r.type = does[u].type /\ r.ret = does[u].ret /\ r.todo = does[u].todo
    BY <1>1 DEF Doing
  <1>3. /\ helpers' = Append(helpers, a) /\ UNCHANGED <<shared, count, deleted, busy>>
        /\ does'[u] = r /\ does' = [v \in Threads |-> does'[v]]
        /\ \A v \in Threads \ {u} : does'[v] = does[v]
    BY <1>0, <1>1 DEF AddSingleton, Goes, SingletonTypeOK
  <1> HIDE DEF r
  <1>4. Others(u) /\ DoesOK(u)'
    BY <1>1, <1>2, <1>3 DEF Others, DoesOK, Holding
  <1>5. ObjectOf(<<2, u>>) = 0 /\ ObjectOf(<<2, u>>)' = 0
    BY <1>1, <1>2, <1>3 DEF ObjectOf, Is, DoesOK
  <1>6. \A o \in 1..Len(count)' : CountOK(o)'
    BY <1>3, <1>4, <1>5, NothingShared
  <1>7. /\ helpers' \in Seq(Types) /\ DOMAIN helpers' = 1..(Len(helpers) + 1)
        /\ helpers'[Len(helpers) + 1] = a
        /\ \A i \in 1..Len(helpers) : helpers'[i] = helpers[i]
    <2>1. helpers \in Seq(Types)
      BY <1>1 DEF SingletonTypeOK
    <2>. QED
      BY <1>1, <1>3, <2>1, AppendProperties, LenProperties
  <1>8. ASSUME NEW t \in Types, NEW w, NEW i
        PROVE  HelperAt(t, w, i)' <=> \/ HelperAt(t, w, i)
                                      \/ t = a /\ w = {} /\ i = Len(helpers) + 1
    <2>1. \A v \in Threads : does'[v].todo = does[v].todo
      BY <1>2, <1>3
    <2>2. i \in DOMAIN helpers' <=> i \in DOMAIN helpers \/ i = Len(helpers) + 1
      BY <1>1, <1>7, ListDomain
    <2>3. i \in DOMAIN helpers => i # Len(helpers) + 1 /\ helpers'[i] = helpers[i]
      BY <1>1, <1>7, ListDomain
    <2>. QED
      BY <1>7, <2>1, <2>2, <2>3 DEF HelperAt
  <1>9. busy[a] = {u} /\ shared[a].px = 0
    BY <1>0, <1>1 DEF DoesOK, Holding
  <1>10. BusyOK(a)' /\ HelperOK(a)'
    <2>1. BusyOK(a)'
      BY <1>0, <1>2, <1>3, <1>9 DEF BusyOK, Holding
    <2>2. ~NoHelperYet(a)'
      BY <1>2, <1>3, <1>9 DEF NoHelperYet, Is
    <2>3. NoHelperYet(a) /\ HelperOK(a)
      BY <1>1, <1>9 DEF NoHelperYet, Is, SingletonInv
    <2>4. \A w, i : ~HelperAt(a, w, i)
      BY <2>3 DEF HelperOK, NoHelper
    <2>5. PICK x, m : x = {} /\ m = Len(helpers) + 1
      OBVIOUS
    <2>6. HelperAt(a, x, m)' /\ \A v, j : HelperAt(a, v, j)' => v = x /\ j = m
      BY <1>1, <1>8, <2>4, <2>5
    <2>. QED
      BY <2>1, <2>2, <2>6 DEF HelperOK, OneHelper
  <1>11. ASSUME NEW t \in Types, t # a PROVE BusyOK(t)' /\ HelperOK(t)'
    <2>1. busy[t] # {u}
      BY <1>0, <1>1, <1>11 DEF SingletonInv, BusyOK
    <2>2. BusyOK(t)' /\ (NoHelperYet(t)' <=> NoHelperYet(t))
      BY <1>3, <1>4, <2>1, TypeKeeps
    <2>3. \A w, i : HelperAt(t, w, i)' <=> HelperAt(t, w, i)
      BY <1>8, <1>11
    <2>. QED
      BY <2>2, <2>3 DEF SingletonInv, HelperOK, NoHelper, OneHelper
  <1>. QED
    BY <1>1, <1>2, <1>3, <1>4, <1>6, <1>7, <1>10, <1>11, SameObjects, StepKeeps DEF SingletonTypeOK

-----------------------------------------------------------------------------
(* Steps with a type's mutex                                               *)

LEMMA LockTypeKeeps ==
    ASSUME SingletonAssumption, SingletonInv, NEW u \in Threads, LockType(u)
    PROVE  SingletonInv'
  <1> DEFINE r == [does[u] EXCEPT !.ret = NULL, !.torn = FALSE,
                                  !.at = IF shared[does[u].type].px = 0 THEN "add" ELSE "return"]
  <1>1. PICK a \in Types : a = does[u].type
    BY DoesTypes DEF SingletonInv
  <1>2. /\ SingletonTypeOK /\ DoesOK(u) /\ does[u].at = "slow" /\ does[u] \in Doing
        /\ busy[a] = {} /\ BusyOK(a) /\ HelperOK(a)
        /\ does[u].ret.pn \in Objects
    BY <1>1, DoesTypes DEF SingletonInv, LockType, Is, Doing, Pointers
  <1>3. NULL \in Pointers /\ NULL.px = 0 /\ NULL.pn = 0
    BY <1>2, DoesTypes DEF NULL, Pointers, Objects
  <1>4. /\ r \in Doing /\ r.at = (IF shared[a].px = 0 THEN "add" ELSE "return") /\ r.type = a
        /\ r.ret.pn = 0 /\ r.todo = does[u].todo
    BY <1>1, <1>2, <1>3 DEF Doing
  <1>5. /\ LetsGo(does[u].ret.pn) /\ UNCHANGED <<shared, helpers>>
        /\ busy' = [busy EXCEPT ![a] = {u}] /\ does'[u] = r
        /\ does' = [v \in Threads |-> does'[v]]
        /\ \A v \in Threads \ {u} : does'[v] = does[v]
    BY <1>1, <1>2 DEF LockType, Goes, SingletonTypeOK
  <1> HIDE DEF r
  <1>6. /\ busy' \in [Types -> {{}} \cup {{v} : v \in Threads}]
        /\ busy'[a] = {u} /\ \A t \in Types \ {a} : busy'[t] = busy[t]
    BY <1>2, <1>5 DEF SingletonTypeOK
  <1>7. Others(u)
    BY <1>2, <1>5, <1>6 DEF Others
  <1>8. DoesOK(u)'
    BY <1>2, <1>4, <1>5, <1>6 DEF DoesOK, Holding, BusyOK
  <1>9. ObjectOf(<<2, u>>) = does[u].ret.pn /\ ObjectOf(<<2, u>>)' = 0
    BY <1>2, <1>4, <1>5 DEF ObjectOf, Is
  <1>10. /\ count' \in Seq(Nat) /\ Len(count)' = Len(count) /\ deleted' \subseteq 1..Len(count)
         /\ \A o \in 1..Len(count)' : CountOK(o)'
    BY <1>2, <1>5, <1>7, <1>9, OnlyOne, CountsLetGo
  <1>11. \A v \in Threads : does'[v].todo = does[v].todo
    BY <1>4, <1>5
  <1>12. BusyOK(a)' /\ HelperOK(a)'
    <2>1. \A v \in Threads : busy'[a] = {v} => v = u
      BY <1>6
    <2>2. BusyOK(a)'
      BY <1>4, <1>5, <1>6, <2>1 DEF BusyOK, Holding
    <2>3. NoHelperYet(a)' <=> NoHelperYet(a)
      BY <1>2, <1>4, <1>5, <1>6, <2>1 DEF NoHelperYet, Is
    <2>. QED
      BY <1>5, <1>11, <2>2, <2>3, HelpersStay
  <1>13. ASSUME NEW t \in Types, t # a PROVE BusyOK(t)' /\ HelperOK(t)'
    <2>1. busy[t] # {u}
      BY <1>2 DEF SingletonInv, BusyOK, Holding
    <2>2. BusyOK(t)' /\ (NoHelperYet(t)' <=> NoHelperYet(t))
      BY <1>5, <1>6, <1>7, <1>13, <2>1, TypeKeeps
    <2>. QED
      BY <1>5, <1>11, <2>2, HelpersStay
  <1>. QED
    BY <1>2, <1>4, <1>5, <1>6, <1>7, <1>8, <1>10, <1>12, <1>13, SameObjects, StepKeeps
    DEF SingletonTypeOK

LEMMA ReturnSharedKeeps ==
    ASSUME SingletonInv, NEW u \in Threads, ReturnShared(u)
    PROVE  SingletonInv'
  <1> DEFINE r == [does[u] EXCEPT !.ret = shared[does[u].type], !.at = "has"]
  <1>1. PICK a \in Types : a = does[u].type
    BY DoesTypes DEF SingletonInv
  <1>2. /\ SingletonTypeOK /\ DoesOK(u) /\ does[u].at = "return" /\ does[u] \in Doing
        /\ HelperOK(a) /\ shared[a] \in Pointers /\ shared[a].pn \in Objects
    BY <1>1, DoesTypes DEF SingletonInv, ReturnShared, Is, Pointers
  <1>3. busy[a] = {u} /\ shared[a].px # 0 /\ shared[a].px = shared[a].pn /\ does[u].ret.pn = 0
    BY <1>1, <1>2 DEF DoesOK, Holding
  <1>4. r \in Doing /\ r.at = "has" /\ r.ret = shared[a] /\ r.todo = does[u].todo
    BY <1>1, <1>2 DEF Doing
  <1>5. /\ Shares(shared[a].pn) /\ UNCHANGED <<shared, helpers, deleted>>
        /\ busy' = [busy EXCEPT ![a] = {}] /\ does'[u] = r
        /\ does' = [v \in Threads |-> does'[v]]
        /\ \A v \in Threads \ {u} : does'[v] = does[v]
    BY <1>1, <1>2 DEF ReturnShared, Goes, SingletonTypeOK
  <1> HIDE DEF r
  <1>6. /\ busy' \in [Types -> {{}} \cup {{v} : v \in Threads}]
        /\ busy'[a] = {} /\ \A t \in Types \ {a} : busy'[t] = busy[t]
    BY <1>2, <1>5 DEF SingletonTypeOK
  <1>7. Others(u)
    BY <1>3, <1>5, <1>6 DEF Others
  <1>8. DoesOK(u)'
    BY <1>2, <1>3, <1>4, <1>5 DEF DoesOK, Holding
  <1>9. ObjectOf(<<2, u>>) = 0 /\ ObjectOf(<<2, u>>)' = shared[a].pn
    BY <1>2, <1>3, <1>4, <1>5 DEF ObjectOf, Is
  <1>10. \E x \in Sharers : ObjectOf(x) = shared[a].pn
    BY ObjectOfOne DEF Sharers
  <1>11. /\ count' \in Seq(Nat) /\ Len(count)' = Len(count)
         /\ \A o \in 1..Len(count)' : CountOK(o)'
    BY <1>2, <1>5, <1>7, <1>9, <1>10, OnlyOne, CountsShare
  <1>12. \A v \in Threads : does'[v].todo = does[v].todo
    BY <1>4, <1>5
  <1>13. BusyOK(a)' /\ HelperOK(a)'
    <2>1. BusyOK(a)' /\ ~NoHelperYet(a)' /\ ~NoHelperYet(a)
      BY <1>3, <1>5, <1>6 DEF BusyOK, NoHelperYet
    <2>. QED
      BY <1>5, <1>12, <2>1, HelpersStay
  <1>14. ASSUME NEW t \in Types, t # a PROVE BusyOK(t)' /\ HelperOK(t)'
    <2>1. busy[t] # {u}
      BY <1>1, <1>2, <1>14 DEF SingletonInv, BusyOK
    <2>2. BusyOK(t)' /\ (NoHelperYet(t)' <=> NoHelperYet(t))
      BY <1>5, <1>6, <1>7, <1>14, <2>1, TypeKeeps
    <2>. QED
      BY <1>5, <1>12, <2>2, HelpersStay
  <1>. QED
    BY <1>2, <1>4, <1>5, <1>6, <1>7, <1>8, <1>11, <1>13, <1>14, SameObjects, StepKeeps
    DEF SingletonTypeOK

-----------------------------------------------------------------------------
(* Steps that write the static pointer                                     *)

\* What Written does to others, when the mutex is free or u's.
LEMMA WrittenOthers ==
    ASSUME SingletonTypeOK, NEW u \in Threads, NEW a \in Types, NEW p, NEW r,
           Written(a, p, u, r), busy[a] \in {{}, {u}},
           \A t \in Types \ {a} : busy'[t] = busy[t]
    PROVE  /\ Others(u) /\ shared'[a] = p /\ (\A t \in Types \ {a} : shared'[t] = shared[t])
           /\ does'[u] = r /\ does' = [v \in Threads |-> does'[v]]
  <1>1. /\ shared'[a] = p /\ (\A t \in Types \ {a} : shared'[t] = shared[t])
        /\ does'[u] = r /\ does' = [v \in Threads |-> does'[v]]
    BY DEF Written, SingletonTypeOK
  <1>2. ASSUME NEW v \in Threads \ {u}
        PROVE  \/ does'[v] = does[v] /\ (Is(v, "copying") => shared'[does[v].type] = shared[does[v].type])
               \/ Is(v, "copying") /\ does'[v] = [does[v] EXCEPT !.torn = TRUE]
    BY <1>1, DoesTypes DEF Written
  <1>. QED
    BY <1>1, <1>2 DEF Others

LEMMA ObjectTypes ==
    ASSUME SingletonInv, NEW x \in Sharers
    PROVE  ObjectOf(x) \in Objects
  <1>1. \A t \in Types : shared[t].pn \in Objects /\ shared[t].px \in Objects
    BY DoesTypes DEF Pointers, SingletonInv
  <1>2. \A v \in Threads : does[v].ret.pn \in Objects /\ does[v].type \in Types
    BY DoesTypes DEF Doing, Pointers, SingletonInv
  <1>3. CASE x \in {1} \X Types
    BY <1>1, <1>3 DEF ObjectOf
  <1>4. CASE x \in {2} \X Threads
    BY <1>1, <1>2, <1>4 DEF ObjectOf
  <1>. QED
    BY <1>3, <1>4 DEF Sharers

LEMMA PublishPxKeeps ==
    ASSUME SingletonInv, NEW u \in Threads, PublishPx(u)
    PROVE  SingletonInv'
  <1> DEFINE r == [does[u] EXCEPT !.at = "publish"]
  <1>1. PICK a \in Types : a = does[u].type
    BY DoesTypes DEF SingletonInv
  <1>2. PICK n \in Nat : n = Len(count)
    <2>1. SingletonTypeOK
      BY DEF SingletonInv
    <2>2. Len(count) \in Nat
      BY <2>1, DoesTypes
    <2>. QED
      BY <2>2
  <1>3. /\ SingletonTypeOK /\ DoesOK(u) /\ does[u].at = "create" /\ does[u] \in Doing
        /\ HelperOK(a) /\ shared[a] \in Pointers /\ count \in Seq(Nat)
    BY <1>1, DoesTypes DEF SingletonInv, PublishPx, Is, SingletonTypeOK
  <1>4. busy[a] = {u} /\ shared[a].px = 0 /\ shared[a].pn = 0 /\ does[u].ret.pn = 0
    BY <1>1, <1>3 DEF DoesOK, Holding
  <1>5. /\ count' = Append(count, 1) /\ UNCHANGED <<deleted, helpers, busy>>
        /\ Written(a, [shared[a] EXCEPT !.px = n + 1], u, r)
    BY <1>1, <1>2 DEF PublishPx
  <1>6. /\ count' \in Seq(Nat) /\ Len(count') = n + 1 /\ count'[n + 1] = 1
        /\ \A o \in 1..n : count'[o] = count[o]
    BY <1>2, <1>3, <1>5, AppendProperties
  <1>7. Objects = 0..n /\ Objects' = 0..(n + 1) /\ Objects \subseteq Objects'
    BY <1>2, <1>6 DEF Objects
  <1>8. /\ Others(u) /\ (\A t \in Types \ {a} : shared'[t] = shared[t])
        /\ shared'[a].px = n + 1 /\ shared'[a].pn = 0 /\ shared'[a] \in Pointers'
        /\ does'[u] = r /\ does' = [v \in Threads |-> does'[v]]
    <2>1. /\ Others(u) /\ shared'[a] = [shared[a] EXCEPT !.px = n + 1]
          /\ (\A t \in Types \ {a} : shared'[t] = shared[t])
          /\ does'[u] = r /\ does' = [v \in Threads |-> does'[v]]
      BY <1>3, <1>4, <1>5, WrittenOthers
    <2>. QED
      BY <1>3, <1>4, <1>7, <2>1 DEF Pointers
  <1>9. shared' \in [Types -> Pointers']
    <2>1. \A t \in Types : shared'[t] \in Pointers'
      BY <1>3, <1>7, <1>8, DoesTypes DEF Pointers
    <2>. QED
      BY <1>5, <2>1 DEF Written, SingletonTypeOK, SingletonInv
  <1>10. /\ r \in Doing /\ r.at = "publish" /\ r.type = a /\ r.ret = does[u].ret
         /\ r.todo = does[u].todo
    BY <1>1, <1>3 DEF Doing
  <1>11. does'[u] \in Doing'
    BY <1>7, <1>8, <1>10 DEF Doing, Pointers
  <1> HIDE DEF r
  <1>12. DoesOK(u)'
    BY <1>2, <1>3, <1>4, <1>5, <1>8, <1>10 DEF DoesOK, Holding
  <1>13. /\ ObjectOf(<<2, u>>) = 0 /\ ObjectOf(<<2, u>>)' = n + 1
         /\ <<2, u>> \in Sharers
         /\ \A x \in Sharers \ {<<2, u>>} : ObjectOf(x)' = ObjectOf(x)
    <2>1. ObjectOf(<<2, u>>) = 0 /\ ObjectOf(<<2, u>>)' = n + 1
      BY <1>3, <1>4, <1>8, <1>10 DEF ObjectOf, Is
    <2>2. \A t \in Types : shared'[t].pn = shared[t].pn
      BY <1>4, <1>8
    <2>. QED
      BY <1>8, <2>1, <2>2, OnlyOne
  <1>14. ASSUME NEW o \in 1..(n + 1) PROVE CountOK(o)'
    <2>1. SharersOf(o)' = IF n + 1 = o THEN SharersOf(o) \cup {<<2, u>>}
                                       ELSE SharersOf(o) \ {<<2, u>>}
      BY <1>13, SharerMoves
    <2>2. CASE o = n + 1
      <3>1. SharersOf(o) = {}
        BY <1>7, <2>2, ObjectTypes DEF SharersOf
      <3>2. SharersOf(o)' = {<<2, u>>}
        BY <2>1, <2>2, <3>1
      <3>3. o \notin deleted
        BY <1>2, <1>3, <2>2 DEF SingletonTypeOK
      <3>4. IsFiniteSet(SharersOf(o)') /\ Cardinality(SharersOf(o)') = 1
        BY <3>2, FS_Singleton
      <3>5. count'[o] = 1 /\ o \notin deleted'
        BY <1>5, <1>6, <2>2, <3>3
      <3>. QED
        BY <3>4, <3>5 DEF CountOK
    <2>3. CASE o # n + 1
      <3>1. o \in 1..n /\ <<2, u>> \notin SharersOf(o)
        BY <1>13, <2>3 DEF SharersOf
      <3>2. CountOK(o)
        BY <1>2, <3>1 DEF SingletonInv
      <3>3. SharersOf(o)' = SharersOf(o) /\ count'[o] = count[o]
        BY <1>6, <2>1, <2>3, <3>1
      <3>. QED
        BY <1>5, <3>2, <3>3 DEF CountOK
    <2>. QED
      BY <2>2, <2>3
  <1>15. BusyOK(a)' /\ HelperOK(a)'
    <2>1. \A v \in Threads : busy[a] = {v} => v = u
      BY <1>4
    <2>2. BusyOK(a)'
      BY <1>4, <1>5, <1>8, <1>10, <2>1 DEF BusyOK, Holding
    <2>3. ~NoHelperYet(a)' /\ ~NoHelperYet(a)
      BY <1>2, <1>3, <1>4, <1>8, <2>1 DEF NoHelperYet, Is
    <2>4. \A v \in Threads : does'[v].todo = does[v].todo
      BY <1>8, <1>10, OthersStay
    <2>. QED
      BY <1>5, <2>2, <2>3, <2>4, HelpersStay
  <1>16. ASSUME NEW t \in Types, t # a PROVE BusyOK(t)' /\ HelperOK(t)'
    <2>1. busy[t] # {u}
      BY <1>1, <1>3, <1>16 DEF SingletonInv, BusyOK
    <2>2. BusyOK(t)' /\ (NoHelperYet(t)' <=> NoHelperYet(t))
      BY <1>5, <1>8, <1>16, <2>1, TypeKeeps
    <2>3. \A v \in Threads : does'[v].todo = does[v].todo
      BY <1>8, <1>10, OthersStay
    <2>. QED
      BY <1>5, <2>2, <2>3, HelpersStay
  <1>17. deleted' \subseteq 1..Len(count)' /\ Len(count)' >= Len(count)
    BY <1>2, <1>3, <1>5, <1>6 DEF SingletonTypeOK
  <1>. QED
    BY <1>3, <1>5, <1>6, <1>8, <1>9, <1>11, <1>12, <1>14, <1>15, <1>16, <1>17, StepKeeps
    DEF SingletonTypeOK

LEMMA PublishPnKeeps ==
    ASSUME SingletonInv, NEW u \in Threads, PublishPn(u)
    PROVE  SingletonInv'
  <1> DEFINE r == [does[u] EXCEPT !.at = "return"]
  <1>1. PICK a \in Types : a = does[u].type
    BY DoesTypes DEF SingletonInv
  <1>2. /\ SingletonTypeOK /\ DoesOK(u) /\ does[u].at = "publish" /\ does[u] \in Doing
        /\ HelperOK(a) /\ shared[a] \in Pointers
    BY <1>1, DoesTypes DEF SingletonInv, PublishPn, Is
  <1>3. PICK p \in Objects : p = shared[a].px
    BY <1>2 DEF Pointers
  <1>4. busy[a] = {u} /\ p # 0 /\ shared[a].pn = 0 /\ does[u].ret.pn = 0
    BY <1>1, <1>2, <1>3 DEF DoesOK, Holding
  <1>5. /\ UNCHANGED <<count, deleted, helpers, busy>>
        /\ Written(a, [shared[a] EXCEPT !.pn = p], u, r)
    BY <1>1, <1>3, <1>4 DEF PublishPn, LetsGo
  <1>6. /\ Others(u) /\ (\A t \in Types \ {a} : shared'[t] = shared[t])
        /\ shared'[a].px = p /\ shared'[a].pn = p /\ shared' \in [Types -> Pointers]
        /\ does'[u] = r /\ does' = [v \in Threads |-> does'[v]]
    <2>1. /\ Others(u) /\ shared'[a] = [shared[a] EXCEPT !.pn = p]
          /\ (\A t \in Types \ {a} : shared'[t] = shared[t])
          /\ does'[u] = r /\ does' = [v \in Threads |-> does'[v]]
      BY <1>2, <1>4, <1>5, WrittenOthers
    <2>2. shared'[a] \in Pointers /\ shared'[a].px = p /\ shared'[a].pn = p
      BY <1>2, <1>3, <2>1 DEF Pointers
    <2>3. \A t \in Types : shared'[t] \in Pointers
      BY <1>2, <2>1, <2>2, DoesTypes
    <2>. QED
      BY <1>2, <1>5, <2>1, <2>2, <2>3 DEF Written, SingletonTypeOK
  <1>7. /\ r \in Doing /\ r.at = "return" /\ r.type = a /\ r.ret = does[u].ret
        /\ r.todo = does[u].todo
    BY <1>1, <1>2 DEF Doing
  <1> HIDE DEF r
  <1>8. DoesOK(u)'
    BY <1>2, <1>4, <1>5, <1>6, <1>7 DEF DoesOK, Holding
  <1> DEFINE y == <<1, a>>
             z == <<2, u>>
  <1>9. /\ y \in Sharers /\ z \in Sharers /\ y # z
        /\ ObjectOf(y) = 0 /\ ObjectOf(y)' = p /\ ObjectOf(z) = p /\ ObjectOf(z)' = 0
    BY <1>1, <1>2, <1>3, <1>4, <1>6, <1>7 DEF ObjectOf, Is, Sharers
  <1>10. ASSUME NEW x \in Sharers \ {y, z} PROVE ObjectOf(x)' = ObjectOf(x)
    <2>1. CASE x \in {1} \X Types
      BY <1>6, <1>10, <2>1 DEF ObjectOf
    <2>2. CASE x \in {2} \X Threads
      <3>1. PICK v \in Threads : x = <<2, v>>
        BY <2>2
      <3>. QED
        BY <1>6, <1>10, <3>1, OthersShare
    <2>. QED
      BY <2>1, <2>2 DEF Sharers
  <1> HIDE DEF y, z
  <1>11. ASSUME NEW o \in 1..Len(count) PROVE CountOK(o)'
    <2>1. CountOK(o) /\ o # 0
      BY <1>2, DoesTypes DEF SingletonInv
    <2>2. SharersOf(o)' = IF o = p THEN (SharersOf(o) \ {z}) \cup {y} ELSE SharersOf(o)
      BY <1>9, <1>10, <2>1 DEF SharersOf, Sharers
    <2>3. /\ IsFiniteSet(SharersOf(o)')
          /\ Cardinality(SharersOf(o)') = Cardinality(SharersOf(o))
      <3>1. CASE o = p
        <4>1. z \in SharersOf(o) /\ y \notin SharersOf(o)
          BY <1>9, <2>1, <3>1 DEF SharersOf
        <4>2. IsFiniteSet(SharersOf(o)) /\ Cardinality(SharersOf(o)) \in Nat
          BY <2>1, FS_CardinalityType DEF CountOK
        <4>3. /\ IsFiniteSet(SharersOf(o) \ {z})
              /\ Cardinality(SharersOf(o) \ {z}) = Cardinality(SharersOf(o)) - 1
              /\ y \notin SharersOf(o) \ {z}
          BY <4>1, <4>2, FS_RemoveElement
        <4>4. /\ IsFiniteSet((SharersOf(o) \ {z}) \cup {y})
              /\ Cardinality((SharersOf(o) \ {z}) \cup {y}) = Cardinality(SharersOf(o) \ {z}) + 1
          BY <4>3, FS_AddElement
        <4>. QED
          BY <2>2, <3>1, <4>2, <4>3, <4>4
      <3>2. CASE o # p
        BY <2>1, <2>2, <3>2 DEF CountOK
      <3>. QED
        BY <3>1, <3>2
    <2>. QED
      BY <1>5, <2>1, <2>3 DEF CountOK
  <1>12. \A v \in Threads : does'[v].todo = does[v].todo
    BY <1>6, <1>7, OthersStay
  <1>13. BusyOK(a)' /\ HelperOK(a)'
    <2>1. \A v \in Threads : busy[a] = {v} => v = u
      BY <1>4
    <2>2. BusyOK(a)' /\ ~NoHelperYet(a)' /\ ~NoHelperYet(a)
      BY <1>3, <1>4, <1>5, <1>6, <1>7, <2>1 DEF BusyOK, Holding, NoHelperYet
    <2>. QED
      BY <1>5, <1>12, <2>2, HelpersStay
  <1>14. ASSUME NEW t \in Types, t # a PROVE BusyOK(t)' /\ HelperOK(t)'
    <2>1. busy[t] # {u}
      BY <1>1, <1>2, <1>14 DEF SingletonInv, BusyOK
    <2>2. BusyOK(t)' /\ (NoHelperYet(t)' <=> NoHelperYet(t))
      BY <1>5, <1>6, <1>14, <2>1, TypeKeeps
    <2>. QED
      BY <1>5, <1>12, <2>2, HelpersStay
  <1>. QED
    BY <1>2, <1>5, <1>6, <1>7, <1>8, <1>11, <1>13, <1>14, SameObjects, StepKeeps
    DEF SingletonTypeOK

\* The first helper in u's hands.
LEMMA HelperInHand ==
    ASSUME SingletonInv, NEW u \in Threads, does[u].at \in {"release", "reset"}
    PROVE  /\ Head(does[u].todo) \in Types /\ Tail(does[u].todo) \in Seq(Types)
           /\ 1 \in DOMAIN does[u].todo /\ does[u].todo[1] = Head(does[u].todo)
           /\ DOMAIN Tail(does[u].todo) = 1..(Len(does[u].todo) - 1) /\ Len(does[u].todo) \in Nat
           /\ \A i \in 1..(Len(does[u].todo) - 1) : Tail(does[u].todo)[i] = does[u].todo[i + 1]
           /\ HelperAt(Head(does[u].todo), {u}, 1)
  <1>1. does[u].todo \in Seq(Types) /\ does[u].todo # <<>>
    BY ListDomain DEF SingletonInv, DoesOK
  <1>2. /\ Len(does[u].todo) \in Nat /\ Len(does[u].todo) # 0
        /\ DOMAIN does[u].todo = 1..Len(does[u].todo)
    BY <1>1, LenProperties, EmptySeq
  <1>3. 1 \in DOMAIN does[u].todo /\ does[u].todo[1] = Head(does[u].todo)
    BY <1>1, <1>2
  <1>4. /\ Tail(does[u].todo) \in Seq(Types) /\ Head(does[u].todo) \in Types
        /\ Len(Tail(does[u].todo)) = Len(does[u].todo) - 1
        /\ \A i \in 1..(Len(does[u].todo) - 1) : Tail(does[u].todo)[i] = does[u].todo[i + 1]
    BY <1>1, <1>2, HeadTailProperties
  <1>5. DOMAIN Tail(does[u].todo) = 1..(Len(does[u].todo) - 1)
    BY <1>4, LenProperties
  <1>. QED
    BY <1>2, <1>3, <1>4, <1>5 DEF HelperAt

LEMMA ResetPxKeeps ==
    ASSUME SingletonInv, NEW u \in Threads, ResetPx(u)
    PROVE  SingletonInv'
  <1> DEFINE r == [does[u] EXCEPT !.at = "reset"]
  <1>1. /\ SingletonTypeOK /\ DoesOK(u) /\ does[u].at = "release" /\ does[u] \in Doing
    BY DoesTypes DEF SingletonInv, ResetPx, Is
  <1>2. PICK a \in Types : a = Head(does[u].todo)
    BY <1>1, HelperInHand
  <1>3. /\ busy[a] = {} /\ HelperOK(a) /\ shared[a] \in Pointers /\ 0 \in Objects
    BY <1>1, <1>2, DoesTypes DEF SingletonInv, ResetPx, Objects
  <1>4. /\ UNCHANGED <<count, deleted, helpers>> /\ busy' = [busy EXCEPT ![a] = {u}]
        /\ Written(a, [shared[a] EXCEPT !.px = 0], u, r)
    BY <1>2 DEF ResetPx
  <1>5. /\ busy' \in [Types -> {{}} \cup {{v} : v \in Threads}]
        /\ busy'[a] = {u} /\ \A t \in Types \ {a} : busy'[t] = busy[t]
    BY <1>1, <1>4 DEF SingletonTypeOK
  <1>6. /\ Others(u) /\ (\A t \in Types \ {a} : shared'[t] = shared[t])
        /\ shared'[a].px = 0 /\ shared'[a].pn = shared[a].pn /\ shared' \in [Types -> Pointers]
        /\ does'[u] = r /\ does' = [v \in Threads |-> does'[v]]
    <2>1. /\ Others(u) /\ shared'[a] = [shared[a] EXCEPT !.px = 0]
          /\ (\A t \in Types \ {a} : shared'[t] = shared[t])
          /\ does'[u] = r /\ does' = [v \in Threads |-> does'[v]]
      BY <1>1, <1>3, <1>4, <1>5, WrittenOthers
    <2>2. shared'[a] \in Pointers /\ shared'[a].px = 0 /\ shared'[a].pn = shared[a].pn
      BY <1>3, <2>1 DEF Pointers
    <2>3. \A t \in Types : shared'[t] \in Pointers
      BY <1>1, <2>1, <2>2, DoesTypes
    <2>. QED
      BY <1>1, <1>4, <2>1, <2>2, <2>3 DEF Written, SingletonTypeOK
  <1>7. /\ r \in Doing /\ r.at = "reset" /\ r.ret = does[u].ret /\ r.todo = does[u].todo
    BY <1>1 DEF Doing
  <1> HIDE DEF r
  <1>8. DoesOK(u)'
    BY <1>1, <1>2, <1>5, <1>6, <1>7 DEF DoesOK, Holding
  <1>9. ObjectOf(<<2, u>>) = 0 /\ ObjectOf(<<2, u>>)' = 0
    BY <1>1, <1>6, <1>7 DEF ObjectOf, Is, DoesOK
  <1>10. \A o \in 1..Len(count)' : CountOK(o)'
    BY <1>4, <1>6, <1>9, NothingShared
  <1>11. \A v \in Threads : does'[v].todo = does[v].todo
    BY <1>6, <1>7, OthersStay
  <1>12. BusyOK(a)' /\ HelperOK(a)'
    <2>1. \A v \in Threads : busy'[a] = {v} => v = u
      BY <1>5
    <2>2. BusyOK(a)' /\ ~NoHelperYet(a)'
      BY <1>2, <1>5, <1>6, <1>7, <2>1 DEF BusyOK, NoHelperYet, Is
    <2>3. ~NoHelperYet(a)
      BY <1>1, <1>2, <1>3, HelperInHand DEF HelperOK, NoHelper
    <2>. QED
      BY <1>4, <1>11, <2>2, <2>3, HelpersStay
  <1>13. ASSUME NEW t \in Types, t # a PROVE BusyOK(t)' /\ HelperOK(t)'
    <2>1. busy[t] # {u}
      BY <1>1, <1>13 DEF SingletonInv, BusyOK, Holding
    <2>2. BusyOK(t)' /\ (NoHelperYet(t)' <=> NoHelperYet(t))
      BY <1>5, <1>6, <1>13, <2>1, TypeKeeps
    <2>. QED
      BY <1>4, <1>11, <2>2, HelpersStay
  <1>. QED
    BY <1>1, <1>4, <1>5, <1>6, <1>7, <1>8, <1>10, <1>12, <1>13, SameObjects, StepKeeps
    DEF SingletonTypeOK

\* The helper in u's hands is deleted.
LEMMA HelperDeleted ==
    ASSUME SingletonInv, NEW u \in Threads, does[u].at = "reset",
           UNCHANGED helpers, does'[u].todo = Tail(does[u].todo),
           \A v \in Threads \ {u} : does'[v].todo = does[v].todo, NEW t
    PROVE  IF t = Head(does[u].todo) THEN OneHelper(t) => NoHelper(t)'
           ELSE (NoHelper(t) => NoHelper(t)') /\ (OneHelper(t) => OneHelper(t)')
  <1> DEFINE n == Len(does[u].todo)
             InHand(i) == i \in 1..n /\ does[u].todo[i] = t
             Listed(i) == i \in DOMAIN helpers /\ helpers[i] = t
  <1>0. PICK hand, list : hand = {u} /\ list = {} /\ hand # list
    <2>1. {u} # {}
      OBVIOUS
    <2>2. \E x, y : x = {u} /\ y = {}
      OBVIOUS
    <2>. QED
      BY <2>1, <2>2
  <1>1. /\ SingletonTypeOK /\ n \in Nat /\ DOMAIN does[u].todo = 1..n
        /\ does[u].todo[1] = Head(does[u].todo) /\ 1 \in 1..n
        /\ DOMAIN does'[u].todo = 1..(n - 1)
        /\ \A i \in 1..(n - 1) : does'[u].todo[i] = does[u].todo[i + 1]
    BY HelperInHand, ListDomain DEF SingletonInv
  <1>2. \A w, i : HelperAt(t, w, i) <=> \/ w = list /\ Listed(i)
                                        \/ w = hand /\ InHand(i)
                                        \/ Elsewhere(u, t, w, i)
    <2>. SUFFICES ASSUME NEW w, NEW i
                  PROVE  HelperAt(t, w, i) <=> \/ w = list /\ Listed(i)
                                               \/ w = hand /\ InHand(i)
                                               \/ Elsewhere(u, t, w, i)
      OBVIOUS
    <2>1. HelperAt(t, w, i) <=> \/ w = list /\ i \in DOMAIN helpers /\ helpers[i] = t
                                \/ w = hand /\ i \in DOMAIN does[u].todo /\ does[u].todo[i] = t
                                \/ Elsewhere(u, t, w, i)
      BY <1>0 DEF HelperAt, Elsewhere
    <2>. QED
      BY <1>1, <2>1
  <1>3. \A w, i : Elsewhere(u, t, w, i)' <=> Elsewhere(u, t, w, i)
    BY DEF Elsewhere
  <1>4. \A w, i : HelperAt(t, w, i)' <=> \/ w = list /\ Listed(i)
                                         \/ w = hand /\ i \in 1..(n - 1) /\ InHand(i + 1)
                                         \/ Elsewhere(u, t, w, i)
    <2>. SUFFICES ASSUME NEW w, NEW i
                  PROVE  HelperAt(t, w, i)' <=> \/ w = list /\ Listed(i)
                                                \/ w = hand /\ i \in 1..(n - 1) /\ InHand(i + 1)
                                                \/ Elsewhere(u, t, w, i)
      OBVIOUS
    <2>1. HelperAt(t, w, i)' <=> \/ w = list /\ Listed(i)
                                 \/ w = hand /\ i \in DOMAIN does'[u].todo /\ does'[u].todo[i] = t
                                 \/ Elsewhere(u, t, w, i)'
      BY <1>0 DEF HelperAt, Elsewhere
    <2>2. i \in 1..(n - 1) => i + 1 \in 1..n
      BY <1>1
    <2>. QED
      BY <1>1, <1>3, <2>1, <2>2
  <1>5. \A w, i : Elsewhere(u, t, w, i) => w # list /\ w # hand
    BY <1>0 DEF Elsewhere
  <1>6. t = Head(does[u].todo) <=> InHand(1)
    BY <1>1
  <1>7. \A i : InHand(i) => i \in 1..n
    OBVIOUS
  <1>8. \A i \in 1..n \ {1} : i - 1 \in 1..(n - 1) /\ (i - 1) + 1 = i
    BY <1>1
  <1>9. \A i, j \in 1..(n - 1) : i + 1 # 1 /\ (i + 1 = j + 1 => i = j)
    BY <1>1
  <1> HIDE DEF n, InHand, Listed
  <1>13. /\ \A j : Listed(j) => HelperAt(t, list, j)
         /\ \A j : InHand(j) => HelperAt(t, hand, j)
         /\ \A w, j : Elsewhere(u, t, w, j) => HelperAt(t, w, j)
    BY <1>2
  <1>10. ASSUME NoHelper(t) PROVE NoHelper(t)'
    BY <1>0, <1>2, <1>13, <1>4, <1>10 DEF NoHelper
  <1>11. ASSUME OneHelper(t), InHand(1) PROVE NoHelper(t)'
    <2>1. PICK w, i : HelperAt(t, w, i) /\ \A v, j : HelperAt(t, v, j) => v = w /\ j = i
      BY <1>11 DEF OneHelper
    <2>2. w = hand /\ i = 1
      BY <1>0, <1>2, <1>13, <1>11, <2>1
    <2>3. \A v, j : ~HelperAt(t, v, j)'
      <3>1. \A j : ~Listed(j)
        BY <1>0, <1>2, <1>13, <2>1, <2>2
      <3>2. \A v, j : ~Elsewhere(u, t, v, j)
        BY <1>0, <1>2, <1>13, <1>5, <2>1, <2>2
      <3>3. \A j : InHand(j) => j = 1
        BY <1>0, <1>2, <1>13, <2>1, <2>2
      <3>. QED
        BY <1>4, <1>9, <3>1, <3>2, <3>3
    <2>. QED
      BY <2>3 DEF NoHelper
  <1>12. ASSUME OneHelper(t), ~InHand(1) PROVE OneHelper(t)'
    <2>1. PICK w, i : HelperAt(t, w, i) /\ \A v, j : HelperAt(t, v, j) => v = w /\ j = i
      BY <1>12 DEF OneHelper
    <2>2. CASE w = hand /\ InHand(i)
      <3>1. PICK m : m = i - 1
        OBVIOUS
      <3>2. m \in 1..(n - 1) /\ m + 1 = i
        BY <1>7, <1>8, <1>12, <2>2, <3>1
      <3>3. HelperAt(t, w, m)'
        BY <1>4, <2>2, <3>2
      <3>4. ASSUME NEW v, NEW j, HelperAt(t, v, j)' PROVE v = w /\ j = m
        <4>1. ~Listed(j) /\ ~Elsewhere(u, t, v, j)
          BY <1>0, <1>2, <1>5, <1>13, <2>1, <2>2
        <4>2. v = hand /\ j \in 1..(n - 1) /\ InHand(j + 1)
          BY <1>4, <3>4, <4>1
        <4>3. j + 1 = i
          BY <1>0, <1>2, <1>13, <2>1, <4>2
        <4>. QED
          BY <1>9, <2>2, <3>2, <4>2, <4>3
      <3>. QED
        BY <3>3, <3>4 DEF OneHelper
    <2>3. CASE (w = list /\ Listed(i)) \/ Elsewhere(u, t, w, i)
      <3>1. HelperAt(t, w, i)'
        BY <1>4, <2>3
      <3>2. \A j : ~InHand(j)
        BY <1>0, <1>2, <1>5, <1>13, <2>1, <2>3
      <3>3. \A v, j : HelperAt(t, v, j)' => v = w /\ j = i
        BY <1>0, <1>2, <1>13, <1>4, <2>1, <3>2
      <3>. QED
        BY <3>1, <3>3 DEF OneHelper
    <2>. QED
      BY <1>0, <1>2, <1>13, <2>1, <2>2, <2>3
  <1>. QED
    BY <1>6, <1>10, <1>11, <1>12

LEMMA ResetPnKeeps ==
    ASSUME SingletonAssumption, SingletonInv, NEW u \in Threads, ResetPn(u)
    PROVE  SingletonInv'
  <1> DEFINE rest == Tail(does[u].todo)
             onward == IF rest = <<>> THEN Rests
                       ELSE [does[u] EXCEPT !.at = "release", !.todo = rest]
  <1>0. PICK r : r = onward
    OBVIOUS
  <1>1. /\ SingletonTypeOK /\ DoesOK(u) /\ does[u].at = "reset" /\ does[u] \in Doing
        /\ does[u].ret.pn = 0
    BY DoesTypes DEF SingletonInv, ResetPn, Is, DoesOK
  <1>2. PICK a \in Types : a = Head(does[u].todo)
    BY <1>1, HelperInHand
  <1>3. PICK p \in Objects : p = shared[a].pn
    BY <1>1, DoesTypes DEF Pointers
  <1>4. /\ busy[a] = {u} /\ HelperOK(a) /\ shared[a].px = 0
    BY <1>1, <1>2 DEF SingletonInv, DoesOK
  <1>5. /\ LetsGo(p) /\ UNCHANGED helpers /\ busy' = [busy EXCEPT ![a] = {}]
        /\ Written(a, NULL, u, r)
    BY <1>0, <1>2, <1>3 DEF ResetPn
  <1>6. /\ busy' \in [Types -> {{}} \cup {{v} : v \in Threads}]
        /\ busy'[a] = {} /\ \A t \in Types \ {a} : busy'[t] = busy[t]
    BY <1>1, <1>5 DEF SingletonTypeOK
  <1>7. NULL \in Pointers /\ NULL.px = 0 /\ NULL.pn = 0
    BY <1>1, DoesTypes DEF NULL, Pointers, Objects
  <1>8. /\ Others(u) /\ (\A t \in Types \ {a} : shared'[t] = shared[t])
        /\ shared'[a] = NULL /\ does'[u] = r /\ does' = [v \in Threads |-> does'[v]]
    BY <1>1, <1>4, <1>5, <1>6, WrittenOthers
  <1>9. shared' \in [Types -> Pointers]
    <2>1. \A t \in Types : shared'[t] \in Pointers
      BY <1>1, <1>7, <1>8, DoesTypes
    <2>. QED
      BY <1>1, <1>5, <2>1 DEF Written, SingletonTypeOK
  <1>10. rest \in Seq(Types)
    BY <1>1, HelperInHand
  <1>11. /\ r \in Doing /\ r.ret.pn = 0 /\ r.todo = rest
         /\ r.at = IF rest = <<>> THEN "idle" ELSE "release"
    BY <1>0, <1>1, <1>10, RestsType DEF Doing
  <1>12. DoesOK(u)'
    BY <1>8, <1>11 DEF DoesOK, Holding
  <1>13. \A v \in Threads \ {u} : does'[v].todo = does[v].todo
    BY <1>8, OthersStay
  <1> DEFINE y == <<1, a>>
  <1>14. y \in Sharers /\ ObjectOf(y) = p /\ ObjectOf(y)' = 0
    BY <1>3, <1>7, <1>8 DEF ObjectOf, Sharers
  <1>15. ASSUME NEW x \in Sharers \ {y} PROVE ObjectOf(x)' = ObjectOf(x)
    <2>1. CASE x \in {1} \X Types
      BY <1>8, <1>15, <2>1 DEF ObjectOf
    <2>2. CASE x \in {2} \X Threads
      <3>1. PICK v \in Threads : x = <<2, v>>
        BY <2>2
      <3>2. CASE v = u
        BY <1>1, <1>8, <1>11, <3>1, <3>2 DEF ObjectOf, Is
      <3>3. CASE v # u
        BY <1>8, <3>1, <3>3, OthersShare
      <3>. QED
        BY <3>2, <3>3
    <2>. QED
      BY <2>1, <2>2 DEF Sharers
  <1> HIDE DEF y
  <1>16. \A t \in Types :
            IF t = Head(does[u].todo) THEN OneHelper(t) => NoHelper(t)'
            ELSE (NoHelper(t) => NoHelper(t)') /\ (OneHelper(t) => OneHelper(t)')
    <2>1. does'[u].todo = Tail(does[u].todo)
      BY <1>8, <1>11
    <2>. QED
      BY <1>1, <1>5, <1>13, <2>1, HelperDeleted
  <1>17. /\ count' \in Seq(Nat) /\ Len(count)' = Len(count) /\ deleted' \subseteq 1..Len(count)
         /\ \A o \in 1..Len(count)' : CountOK(o)'
    BY <1>5, <1>14, <1>15, CountsLetGo
  <1>18. BusyOK(a)' /\ HelperOK(a)'
    <2>1. BusyOK(a)' /\ NoHelperYet(a)'
      BY <1>6, <1>7, <1>8 DEF BusyOK, NoHelperYet
    <2>2. ~NoHelperYet(a)
      BY <1>1, <1>4 DEF NoHelperYet, Is
    <2>3. OneHelper(a)
      BY <1>4, <2>2 DEF HelperOK
    <2>4. NoHelper(a)'
      BY <1>2, <1>16, <2>3
    <2>. QED
      BY <2>1, <2>4 DEF HelperOK
  <1>19. ASSUME NEW t \in Types, t # a PROVE BusyOK(t)' /\ HelperOK(t)'
    <2>1. busy[t] # {u}
      BY <1>1, <1>2, <1>19 DEF SingletonInv, BusyOK, Holding
    <2>2. BusyOK(t)' /\ (NoHelperYet(t)' <=> NoHelperYet(t))
      BY <1>6, <1>8, <1>19, <2>1, TypeKeeps
    <2>3. (NoHelper(t) => NoHelper(t)') /\ (OneHelper(t) => OneHelper(t)')
      BY <1>2, <1>16, <1>19
    <2>4. HelperOK(t)
      BY DEF SingletonInv
    <2>. QED
      BY <2>2, <2>3, <2>4 DEF HelperOK
  <1>. QED
    BY <1>1, <1>5, <1>6, <1>8, <1>9, <1>11, <1>12, <1>17, <1>18, <1>19, SameObjects, StepKeeps
    DEF SingletonTypeOK

-----------------------------------------------------------------------------

LEMMA SingletonInvInit ==
    ASSUME SingletonAssumption, SingletonInit
    PROVE  SingletonInv
  <1>1. Len(count) = 0 /\ count \in Seq(Nat) /\ helpers \in Seq(Types)
    BY EmptySeq DEF SingletonInit
  <1>2. NULL \in Pointers
    BY <1>1 DEF NULL, Pointers, Objects
  <1>3. Rests \in Doing
    BY <1>2, EmptySeq DEF Rests, Doing, SingletonAssumption
  <1>4. SingletonTypeOK
    BY <1>1, <1>2, <1>3 DEF SingletonInit, SingletonTypeOK
  <1>5. \A o \in 1..Len(count) : CountOK(o)
    BY <1>1
  <1>6. ASSUME NEW u \in Threads PROVE DoesOK(u)
    BY <1>4, RestsType DEF SingletonInit, DoesOK, Holding
  <1>7. ASSUME NEW t \in Types PROVE BusyOK(t) /\ HelperOK(t)
    <2>1. BusyOK(t) /\ NoHelperYet(t)
      BY DEF SingletonInit, BusyOK, NoHelperYet, NULL
    <2>2. \A v \in Threads : does[v].todo = <<>>
      BY <1>4, RestsType DEF SingletonInit
    <2>3. NoHelper(t)
      BY <2>2 DEF SingletonInit, NoHelper, HelperAt
    <2>. QED
      BY <2>1, <2>3 DEF HelperOK
  <1>. QED
    BY <1>4, <1>5, <1>6, <1>7 DEF SingletonInv

LEMMA SingletonInvNext ==
    ASSUME SingletonAssumption, SingletonInv, [SingletonNext]_singletonVars
    PROVE  SingletonInv'
  <1>1. ASSUME NEW u \in Threads, NEW t \in Types, CopyPx(u, t) PROVE SingletonInv'
    BY <1>1, CopyPxKeeps
  <1>2. ASSUME NEW u \in Threads, NEW t \in Types, AskRelease(u, t) PROVE SingletonInv'
    BY <1>2, AskReleaseKeeps
  <1>3. ASSUME NEW u \in Threads, CopyPn(u) \/ LockType(u) \/ AddSingleton(u) PROVE SingletonInv'
    BY <1>3, CopyPnKeeps, LockTypeKeeps, AddSingletonKeeps
  <1>4. ASSUME NEW u \in Threads, PublishPx(u) \/ PublishPn(u) PROVE SingletonInv'
    BY <1>4, PublishPxKeeps, PublishPnKeeps
  <1>5. ASSUME NEW u \in Threads, ReturnShared(u) \/ Drop(u) PROVE SingletonInv'
    BY <1>5, ReturnSharedKeeps, DropKeeps
  <1>6. ASSUME NEW u \in Threads, FindHelper(u) \/ TakeAll(u) PROVE SingletonInv'
    BY <1>6, FindHelperKeeps, TakeAllKeeps
  <1>7. ASSUME NEW u \in Threads, ResetPx(u) \/ ResetPn(u) PROVE SingletonInv'
    BY <1>7, ResetPxKeeps, ResetPnKeeps
  <1>8. ASSUME UNCHANGED singletonVars PROVE SingletonInv'
    <2>1. /\ UNCHANGED <<shared, count, deleted, helpers, busy, does>>
      BY <1>8 DEF singletonVars
    <2>2. SingletonTypeOK' /\ \A u \in Threads : DoesOK(u)'
      BY <2>1 DEF SingletonInv, SingletonTypeOK, DoesOK, Doing, Pointers, Objects
    <2>3. \A x \in Sharers : ObjectOf(x)' = ObjectOf(x)
      BY <2>1 DEF ObjectOf, Is
    <2>4. \A o \in 1..Len(count)' : CountOK(o)'
      BY <2>1, <2>3, CountsStay
    <2>5. ASSUME NEW t \in Types PROVE BusyOK(t)' /\ HelperOK(t)'
      <3>1. BusyOK(t)' /\ (NoHelperYet(t)' <=> NoHelperYet(t))
        BY <2>1 DEF SingletonInv, BusyOK, NoHelperYet, Is
      <3>. QED
        BY <2>1, <3>1, HelpersStay
    <2>. QED
      BY <2>2, <2>4, <2>5 DEF SingletonInv
  <1>. QED
    BY <1>1, <1>2, <1>3, <1>4, <1>5, <1>6, <1>7, <1>8 DEF SingletonNext

\* For any threads and types: with the mutex of its type free, an object that is
\* there has one helper to release it, and no helper is without an object; and
\* who was given a pointer that was not written while it was copied has an object
\* that is not deleted (Singleton::Instance, Release, ReleaseAll).
THEOREM HoldersAlwaysKeep == SingletonSpec => []HolderKeeps
  <1>1. SingletonInit => SingletonInv
    BY SingletonInvInit, SingletonAssumption
  <1>2. SingletonInv /\ [SingletonNext]_singletonVars => SingletonInv'
    BY SingletonInvNext, SingletonAssumption
  <1>3. ASSUME SingletonInv PROVE HolderKeeps
    <2>1. ASSUME NEW t \in Types, busy[t] = {}
          PROVE  Cardinality(HelpersOf(t)) = IF shared[t].px = 0 THEN 0 ELSE 1
      <3>1. \A x : x \in HelpersOf(t) <=> \E w, i : x = <<w, i>> /\ HelperAt(t, w, i)
        BY DEF HelpersOf, HelperAt
      <3>2. NoHelperYet(t) <=> shared[t].px = 0
        BY <2>1 DEF NoHelperYet
      <3>3. CASE shared[t].px = 0
        <4>1. HelpersOf(t) = {}
          BY <1>3, <3>1, <3>2, <3>3 DEF SingletonInv, HelperOK, NoHelper
        <4>. QED
          BY <3>3, <4>1, FS_EmptySet
      <3>4. CASE shared[t].px # 0
        <4>1. PICK w, i : HelperAt(t, w, i) /\ \A v, j : HelperAt(t, v, j) => v = w /\ j = i
          BY <1>3, <3>2, <3>4 DEF SingletonInv, HelperOK, OneHelper
        <4>2. HelpersOf(t) = {<<w, i>>}
          BY <3>1, <4>1
        <4>. QED
          BY <3>4, <4>2, FS_Singleton
      <3>. QED
        BY <3>3, <3>4
    <2>2. ASSUME NEW u \in Threads, Is(u, "has"), ~does[u].torn
          PROVE  does[u].ret.px \notin deleted
      <3>1. PICK o \in Objects : o = does[u].ret.px /\ o = does[u].ret.pn /\ o # 0
        BY <1>3, <2>2, DoesTypes DEF SingletonInv, DoesOK, Is, Doing, Pointers
      <3>2. <<2, u>> \in SharersOf(o)
        BY <2>2, <3>1, ObjectOfOne DEF SharersOf, Sharers, Is
      <3>3. o \in 1..Len(count)
        BY <1>3, <3>1, DoesTypes DEF Objects, SingletonInv
      <3>4. CountOK(o)
        BY <1>3, <3>3 DEF SingletonInv
      <3>5. count[o] # 0
        BY <3>2, <3>4, FS_EmptySet DEF CountOK
      <3>. QED
        BY <3>1, <3>4, <3>5 DEF CountOK
    <2>. QED
      BY <2>1, <2>2 DEF HolderKeeps
  <1>. QED
    BY <1>1, <1>2, <1>3, PTL DEF SingletonSpec
=============================================================================
