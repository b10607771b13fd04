------------------------------- MODULE Locks -------------------------------
(***************************************************************************)
(* The locks under everything native: Mutex (comm/unix/thread/mutex.h),    *)
(* SpinLock (comm/thread/spinlock.h), the scopes that hold them (lock.h)   *)
(* and Condition with the notification it keeps (condition.h).  One Mutex, *)
(* one SpinLock, one Condition on the Mutex, and threads with scopes on    *)
(* their stacks.  A pthread function that waits is a label: the thread has *)
(* called it, and its return is a step of its own.                         *)
(***************************************************************************)
EXTENDS Naturals, FiniteSets

CONSTANTS
    Users,      \* the threads
    Scopes,     \* the names of a thread's BaseScopedLock objects
    On,         \* On[s]: the lock that a scope s is for
    Nobody,     \* no thread,
    Gone,       \* a pthread_mutex_t that was destroyed,
    NoScope     \* and no scope

Labels == {"idle", "lock", "timedlock", "probe", "enter", "waiting", "relock", "clear",
           "broadcast"}

ASSUME LocksAssumption ==
    /\ On \in [Scopes -> {"mutex", "spin"}]
    /\ Nobody \notin Users /\ Gone \notin Users \cup {Nobody}
    /\ NoScope \notin Scopes /\ IsFiniteSet(Scopes)

VARIABLES
    scope,   \* scope[u][s]: not there, or its islocked_
    mutex,   \* the pthread_mutex_t: its type, its owner, how often it is locked
    magic,   \* magic_ is the Mutex's address: it has not been destroyed
    state,   \* the word of the SpinLock
    anyway,  \* anyway_notify_
    label,      \* where each thread is,
    uses     \* and the scope it has called a function of

lockVars == <<scope, mutex, magic, state, anyway, label, uses>>

LocksInit ==
    /\ scope = [u \in Users |-> [s \in Scopes |-> "none"]]
    /\ \E r \in BOOLEAN : mutex = [recursive |-> r, owner |-> Nobody, count |-> 0]
    /\ magic = TRUE
    /\ state = 0
    /\ anyway = 0
    /\ label = [u \in Users |-> "idle"]
    /\ uses = [u \in Users |-> NoScope]

\* atomic_cas32: the old value of the word, and the word afterwards.
Cas(old, with, cmp) == IF old = cmp THEN with ELSE old

-----------------------------------------------------------------------------
(* The pthread mutex, PTHREAD_MUTEX_ERRORCHECK unless it is recursive, and *)
(* the functions of Mutex and SpinLock                                     *)

\* pthread_mutex_lock would return 0, or wait.  Else it says EDEADLK.
Available(u) == mutex.owner = Nobody \/ (mutex.owner = u /\ mutex.recursive)
Waits(u) == mutex.owner \notin {u, Nobody, Gone}

Taken(u) == [mutex EXCEPT !.owner = u, !.count = @ + 1]
Given(u) ==
    IF mutex.owner # u THEN mutex          \* EPERM
    ELSE [mutex EXCEPT !.owner = IF mutex.count = 1 THEN Nobody ELSE u, !.count = @ - 1]

\* Whether trylock takes it; a SpinLock when the word was 0.
Trylock(u, l) == IF l = "mutex" THEN Available(u) ELSE state = 0

\* The lock once thread u has got it, and once u has let go of it.
Acquire(u, l) ==
    IF l = "mutex" THEN mutex' = Taken(u) /\ UNCHANGED state
    ELSE state' = Cas(state, 1, 0) /\ UNCHANGED mutex
Release(u, l) ==
    IF l = "mutex" THEN mutex' = Given(u) /\ UNCHANGED state
    ELSE state' = 0 /\ UNCHANGED mutex

-----------------------------------------------------------------------------
(* BaseScopedLock                                                          *)

IsAt(u, l) == label[u] = l
GoTo(u, l) == label' = [label EXCEPT ![u] = l]
CallOf(u, s, l) == GoTo(u, l) /\ uses' = [uses EXCEPT ![u] = s]
ReturnOf(u) == CallOf(u, NoScope, "idle")
SetScope(u, s, to) == scope' = [scope EXCEPT ![u][s] = to]

\* The constructors: unlocked, locked, locked within a time (only a Mutex has
\* timedlock).  magic_ is read before pthread is called.
ScopeConstruct(u, s, then) ==
    /\ IsAt(u, "idle") /\ scope[u][s] = "none"
    /\ then = "timedlock" => On[s] = "mutex"
    /\ SetScope(u, s, "unlocked")
    /\ IF then = "idle" \/ (On[s] = "mutex" /\ ~magic)
       THEN UNCHANGED <<label, uses>> ELSE CallOf(u, s, then)
    /\ UNCHANGED <<mutex, magic, state, anyway>>

\* lock and timedlock of a scope that is not locked.
ScopeLock(u, s, then) ==
    /\ IsAt(u, "idle") /\ scope[u][s] = "unlocked"
    /\ then = "timedlock" => On[s] = "mutex"
    /\ On[s] = "mutex" => magic
    /\ CallOf(u, s, then)
    /\ UNCHANGED <<scope, mutex, magic, state, anyway>>

\* pthread_mutex_lock returns 0, or the loop of SpinLock::lock ends.
LockReturns(u) ==
    /\ label[u] \in {"lock", "timedlock"}
    /\ Trylock(u, On[uses[u]])
    /\ Acquire(u, On[uses[u]])
    /\ SetScope(u, uses[u], "locked")
    /\ ReturnOf(u)
    /\ UNCHANGED <<magic, anyway>>

\* Mutant: whatever pthread_mutex_timedlock returns is taken for success.
LockFailsUnseen(u) ==
    /\ IsAt(u, "timedlock")
    /\ SetScope(u, uses[u], "locked") /\ ReturnOf(u)
    /\ UNCHANGED <<mutex, magic, state, anyway>>

\* It returns an error: EDEADLK of a thread that has it, ETIMEDOUT, or the one
\* of a mutex that was destroyed meanwhile.  islocked_ stays false.
LockFails(u) ==
    /\ \/ IsAt(u, "lock") /\ On[uses[u]] = "mutex" /\ ~Waits(u) /\ ~Trylock(u, "mutex")
       \/ IsAt(u, "timedlock") /\ ~Trylock(u, "mutex")
    /\ ReturnOf(u)
    /\ UNCHANGED <<scope, mutex, magic, state, anyway>>

\* BaseScopedLock::trylock.
ScopeTrylock(u, s) ==
    /\ IsAt(u, "idle") /\ scope[u][s] = "unlocked"
    /\ On[s] = "mutex" => magic
    /\ Trylock(u, On[s])
    /\ Acquire(u, On[s])
    /\ SetScope(u, s, "locked")
    /\ UNCHANGED <<magic, anyway, label, uses>>

\* unlock, and the destructor, which unlocks only what is locked.  Mutex::unlock
\* does not read magic_.
ScopeUnlock(u, s) ==
    /\ IsAt(u, "idle") /\ scope[u][s] = "locked"
    /\ Release(u, On[s])
    /\ SetScope(u, s, "unlocked")
    /\ UNCHANGED <<magic, anyway, label, uses>>

ScopeDestruct(u, s) ==
    /\ IsAt(u, "idle") /\ scope[u][s] # "none"
    /\ IF scope[u][s] = "locked" THEN Release(u, On[s]) ELSE UNCHANGED <<mutex, state>>
    /\ SetScope(u, s, "none")
    /\ UNCHANGED <<magic, anyway, label, uses>>

\* Mutex::islocked: trylock, and unlock when that took it.
Probe(u) ==
    /\ IsAt(u, "idle") /\ magic /\ Available(u)
    /\ mutex' = Taken(u) /\ GoTo(u, "probe")
    /\ UNCHANGED <<scope, magic, state, anyway, uses>>
ProbeUnlock(u) ==
    /\ IsAt(u, "probe")
    /\ mutex' = Given(u) /\ GoTo(u, "idle")
    /\ UNCHANGED <<scope, magic, state, anyway, uses>>

\* ~Mutex of a static object, while threads still run: pthread_mutex_destroy
\* refuses (EBUSY) a mutex that is locked.
DestroyMutex ==
    /\ magic /\ magic' = FALSE
    /\ mutex' = IF mutex.owner = Nobody THEN [mutex EXCEPT !.owner = Gone] ELSE mutex
    /\ UNCHANGED <<scope, state, anyway, label, uses>>

-----------------------------------------------------------------------------
(* Condition                                                               *)

\* wait: a notification that was kept makes it return at once.
ConditionWait(u, s) ==
    /\ IsAt(u, "idle") /\ On[s] = "mutex" /\ scope[u][s] = "locked"
    /\ anyway' = Cas(anyway, 0, 1)
    /\ CallOf(u, s, IF anyway = 1 THEN "clear" ELSE "enter")
    /\ UNCHANGED <<scope, mutex, magic, state>>

\* pthread_cond_wait lets go of the mutex once, and the scope still says locked.
WaitEnters(u) ==
    /\ IsAt(u, "enter")
    /\ mutex' = Given(u) /\ GoTo(u, "waiting")
    /\ UNCHANGED <<scope, magic, state, anyway, uses>>

\* A wait may end by itself, timed or not.
WaitEnds(u) ==
    /\ IsAt(u, "waiting") /\ GoTo(u, "relock")
    /\ UNCHANGED <<scope, mutex, magic, state, anyway, uses>>

WaitRelocks(u) ==
    /\ IsAt(u, "relock") /\ ~Waits(u)
    /\ mutex' = IF mutex.owner = Gone THEN mutex ELSE Taken(u)
    /\ GoTo(u, "clear")
    /\ UNCHANGED <<scope, magic, state, anyway, uses>>

WaitClears(u) ==
    /\ IsAt(u, "clear")
    /\ anyway' = 0 /\ ReturnOf(u)
    /\ UNCHANGED <<scope, mutex, magic, state>>

NotifyOne(u) ==
    /\ IsAt(u, "idle")
    /\ \E v \in Users : IsAt(v, "waiting") /\ GoTo(v, "relock")
    /\ UNCHANGED <<scope, mutex, magic, state, anyway, uses>>

\* notifyAll(true) and what remains of it, which is notifyAll().
NotifyAnyway(u) ==
    /\ IsAt(u, "idle")
    /\ anyway' = 1 /\ GoTo(u, "broadcast")
    /\ UNCHANGED <<scope, mutex, magic, state, uses>>

NotifyAll(u) ==
    /\ label[u] \in {"idle", "broadcast"}
    /\ label' = [v \in Users |-> IF v = u THEN "idle"
                              ELSE IF IsAt(v, "waiting") THEN "relock" ELSE label[v]]
    /\ UNCHANGED <<scope, mutex, magic, state, anyway, uses>>

CancelAnyWayNotify(u) ==
    /\ IsAt(u, "idle") /\ anyway' = 0
    /\ UNCHANGED <<scope, mutex, magic, state, label, uses>>

-----------------------------------------------------------------------------

ScopeStep(u) ==
    \/ \E s \in Scopes : ScopeConstruct(u, s, "idle") \/ ScopeTrylock(u, s) \/ ScopeUnlock(u, s)
                         \/ ScopeDestruct(u, s) \/ ConditionWait(u, s)
    \/ \E s \in Scopes, then \in {"lock", "timedlock"} :
           ScopeConstruct(u, s, then) \/ ScopeLock(u, s, then)
    \/ LockReturns(u) \/ LockFails(u)

ConditionStep(u) ==
    \/ Probe(u) \/ ProbeUnlock(u)
    \/ WaitEnters(u) \/ WaitEnds(u) \/ WaitRelocks(u) \/ WaitClears(u)
    \/ NotifyOne(u) \/ NotifyAnyway(u) \/ NotifyAll(u) \/ CancelAnyWayNotify(u)

LocksNext == DestroyMutex \/ \E u \in Users : ScopeStep(u) \/ ConditionStep(u)

LocksSpec == LocksInit /\ [][LocksNext]_lockVars

-----------------------------------------------------------------------------
(* Properties                                                              *)

HeldScopes(u, l) == {s \in Scopes : scope[u][s] = "locked" /\ On[s] = l}

\* How often thread u has the mutex: for each scope that says it is locked, for
\* islocked(), but not for the one with which it is in pthread_cond_wait.
Levels(u) ==
    IF label[u] = "probe" THEN Cardinality(HeldScopes(u, "mutex")) + 1
    ELSE IF label[u] \in {"waiting", "relock"} THEN Cardinality(HeldScopes(u, "mutex")) - 1
    ELSE Cardinality(HeldScopes(u, "mutex"))

\* Until the pthread mutex is destroyed, who believes to hold it does, as often as he believes,
\* and nobody else: after time-outs, failed and repeated attempts, and waits that
\* let go of it behind the scope's back.  At most one scope has the SpinLock.
HoldersAgree ==
    /\ mutex.owner # Gone =>
           \A u \in Users : Levels(u) = IF mutex.owner = u THEN mutex.count ELSE 0
    /\ \A u, v \in Users : \A r \in HeldScopes(u, "spin"), s \in HeldScopes(v, "spin") :
           state = 1 /\ u = v /\ r = s
=============================================================================
