------------------------------- MODULE Thread -------------------------------
(***************************************************************************)
(* The class Thread (comm/unix/thread/thread.h) with the part of Condition *)
(* that its delayed and periodic starts use (condition.h).  One object,    *)
(* the threads that call its functions, and the POSIX threads it creates,  *)
(* one per successful start.                                               *)
(*                                                                         *)
(* A function that holds `splock` throughout is one step.  join and kill   *)
(* release it before they use tid(), and the routine of a thread takes it  *)
(* in init and cleanup only.                                               *)
(***************************************************************************)
EXTENDS Naturals, Sequences

CONSTANTS
    Callers,    \* the threads that use the object
    Ops,        \* Ops[c]: the functions caller c uses
    Outside,    \* the outside_join of the constructor
    MaxStarts,  \* bounds: successful starts,
    MaxKills,   \* calls of kill,
    MaxFails    \* failures of pthread_create

Tids == 1..MaxStarts
NoTid == 0
Kinds == {"now", "after", "periodic"}

ASSUME ThreadAssumption ==
    /\ Ops \in [Callers -> SUBSET (Kinds \cup {"cancel", "join", "kill", "destroy"})]
    /\ Outside \in BOOLEAN
    /\ {MaxStarts, MaxKills, MaxFails} \subseteq Nat

VARIABLES
    object,  \* the Thread exists
    ref,     \* its RunnableReference
    posix,   \* the threads created: where each is, how it was started, ...
    pc,      \* where each caller is
    joins,   \* the tid each caller waits for in pthread_join
    counts   \* of kills and failures

vars == <<object, ref, posix, pc, joins, counts>>

\* No thread yet: the constructor, with the reference that the object holds.
Init ==
    /\ object = TRUE
    /\ ref = [alive |-> TRUE, count |-> 1, tid |-> NoTid, isjoined |-> FALSE,
              isended |-> TRUE, iscanceldelaystart |-> FALSE, anyway_notify |-> FALSE,
              isinthread |-> FALSE, killsig |-> FALSE]
    /\ posix = <<>>
    /\ pc = [c \in Callers |-> "idle"]
    /\ joins = [c \in Callers |-> NoTid]
    /\ counts = [kills |-> 0, fails |-> 0]

isruning == ~ref.isended
Removed(r) == [r EXCEPT !.count = @ - 1, !.alive = r.count > 1]

\* pthread_detach and the end of pthread_join, counted per thread.
Released(p, t) == IF t \in DOMAIN p THEN [p EXCEPT ![t].released = @ + 1] ELSE p

-----------------------------------------------------------------------------
(* The functions of the object                                             *)

Calls(c, op) == pc[c] = "idle" /\ op \in Ops[c] /\ object

\* What the starts set before pthread_create, given what they make of the
\* cancellation and of a notification that nobody heard.
PreparedFrom(r) ==
    [r EXCEPT !.isended = FALSE, !.isjoined = Outside, !.count = @ + 1]

\* Mutants: the new thread has no reference of its own; the notification of an
\* old cancellation stays.
PreparedUncounted(kind) == [PreparedFrom(ref) EXCEPT !.count = @ - 1]
PreparedNotified(kind) ==
    PreparedFrom([ref EXCEPT !.iscanceldelaystart = @ /\ kind = "now"])

\* Only the delayed starts reset the two.
Prepared(kind) ==
    PreparedFrom([ref EXCEPT !.iscanceldelaystart = @ /\ kind = "now",
                             !.anyway_notify = @ /\ kind = "now"])

\* Mutant: the old thread is detached, joined or not.
DetachAlways == Released(posix, ref.tid)

\* The thread of the run before that nobody has joined.
DetachOld == IF ref.tid # NoTid /\ ~ref.isjoined THEN Released(posix, ref.tid) ELSE posix

Created(kind) == [at |-> "created", kind |-> kind, ran |-> FALSE, cancelled |-> FALSE,
                  woke |-> "no", released |-> 0]

\* start, start(op), start_after, start_periodic; nothing when it is running.
Start(c, kind) ==
    /\ Calls(c, kind) /\ ~isruning
    /\ \/ /\ Len(posix) < MaxStarts
          /\ ref' = [Prepared(kind) EXCEPT !.tid = Len(posix) + 1]
          /\ posix' = Append(DetachOld, Created(kind))
          /\ UNCHANGED counts
       \/ /\ counts.fails < MaxFails
          /\ counts' = [counts EXCEPT !.fails = @ + 1]
          /\ ref' = Removed([Prepared(kind) EXCEPT !.isended = TRUE])
          /\ posix' = DetachOld
    /\ UNCHANGED <<object, pc, joins>>

\* A cancelled thread: a notification reaches it only when it waits.
Cancelled(x) == [x EXCEPT !.at = IF @ = "waiting" THEN "woken" ELSE @, !.cancelled = TRUE]

\* Mutant: the flag is not set, and nobody is told.
CancelQuietly(c) ==
    /\ Calls(c, "cancel") /\ isruning
    /\ posix' = [posix EXCEPT ![ref.tid].cancelled = TRUE]
    /\ UNCHANGED <<object, ref, pc, joins, counts>>

\* cancel_after and cancel_periodic: the flag, and a notification that counts
\* even when nobody waits yet (notifyAll(true)).
Cancel(c) ==
    /\ Calls(c, "cancel") /\ isruning
    /\ ref' = [ref EXCEPT !.iscanceldelaystart = TRUE, !.anyway_notify = TRUE]
    /\ posix' = [posix EXCEPT ![ref.tid] = Cancelled(@)]
    /\ UNCHANGED <<object, pc, joins, counts>>

\* join of a thread that runs; that isjoined is FALSE is asserted.
Join(c) ==
    /\ Calls(c, "join") /\ ~Outside
    /\ isruning /\ ~ref.isjoined
    /\ ref' = [ref EXCEPT !.isjoined = TRUE]
    /\ pc' = [pc EXCEPT ![c] = "join"]
    /\ UNCHANGED <<object, posix, joins, counts>>

\* pthread_join(tid(), 0): tid() is read after the unlock.
JoinTid(c) ==
    /\ pc[c] = "join"
    /\ joins' = [joins EXCEPT ![c] = ref.tid]
    /\ pc' = [pc EXCEPT ![c] = "joining"]
    /\ UNCHANGED <<object, ref, posix, counts>>

Joined(c) ==
    /\ pc[c] = "joining" /\ posix[joins[c]].at = "done"
    /\ posix' = Released(posix, joins[c])
    /\ pc' = [pc EXCEPT ![c] = "idle"] /\ joins' = [joins EXCEPT ![c] = NoTid]
    /\ UNCHANGED <<object, ref, counts>>

\* kill of a thread that runs: kept for init when it has not begun yet.
Kill(c) ==
    /\ Calls(c, "kill") /\ isruning /\ counts.kills < MaxKills
    /\ counts' = [counts EXCEPT !.kills = @ + 1]
    /\ IF ref.isinthread
       THEN pc' = [pc EXCEPT ![c] = "kill"] /\ UNCHANGED ref
       ELSE ref' = [ref EXCEPT !.killsig = TRUE] /\ UNCHANGED pc
    /\ UNCHANGED <<object, posix, joins>>

\* pthread_kill(tid(), sig), after the unlock.
KillTid(c) ==
    /\ pc[c] = "kill"
    /\ pc' = [pc EXCEPT ![c] = "idle"]
    /\ UNCHANGED <<object, ref, posix, joins, counts>>

\* ~Thread, by the owner when no other call is under way.
Destroy(c) ==
    /\ Calls(c, "destroy") /\ \A d \in Callers : pc[d] = "idle"
    /\ object' = FALSE
    /\ posix' = DetachOld
    /\ ref' = Removed(ref)
    /\ UNCHANGED <<pc, joins, counts>>

-----------------------------------------------------------------------------
(* The routine of a thread: start_routine, start_routine_after,            *)
(* start_routine_periodic                                                  *)

At(t, label) == t \in DOMAIN posix /\ posix[t].at = label
Goto(t, label) == posix' = [posix EXCEPT ![t].at = label]
CallersOnly == <<object, pc, joins, counts>>

BeginThread(t) ==
    /\ At(t, "created")
    /\ ref' = [ref EXCEPT !.isinthread = TRUE]
    /\ Goto(t, IF posix[t].kind = "now" THEN "run" ELSE "test")
    /\ UNCHANGED CallersOnly

\* if (!iscanceldelaystart), before the wait.
TestCancel(t) ==
    /\ At(t, "test")
    /\ Goto(t, IF ref.iscanceldelaystart THEN "cleanup" ELSE "cas")
    /\ UNCHANGED <<ref, CallersOnly>>

\* Condition::wait: a notification kept for it makes it return at once ...
WaitCas(t) ==
    /\ At(t, "cas")
    /\ ref' = [ref EXCEPT !.anyway_notify = FALSE]
    /\ posix' = [posix EXCEPT ![t] =
                   [@ EXCEPT !.at = IF ref.anyway_notify THEN "woken" ELSE "entering",
                             !.woke = "no"]]
    /\ UNCHANGED CallersOnly

\* ... and one that comes before it has entered the timed wait is not heard.
WaitEnter(t) ==
    /\ At(t, "entering")
    /\ Goto(t, "waiting") /\ UNCHANGED <<ref, CallersOnly>>

\* pthread_cond_timedwait also returns early, with the 0 of a notification: the
\* routines do not look at what the wait returns.
WaitEndsBy(t, how) ==
    /\ At(t, "waiting")
    /\ posix' = [posix EXCEPT ![t] = [@ EXCEPT !.at = "woken", !.woke = how]]
    /\ UNCHANGED <<ref, CallersOnly>>

WaitTimeout(t) == WaitEndsBy(t, "timeout")
WaitSpurious(t) == WaitEndsBy(t, "spurious")

\* anyway_notify_ = 0, then the test of iscanceldelaystart.
WaitReturn(t) ==
    /\ At(t, "woken")
    /\ ref' = [ref EXCEPT !.anyway_notify = FALSE]
    /\ Goto(t, IF ref.iscanceldelaystart THEN "cleanup" ELSE "run")
    /\ UNCHANGED CallersOnly

RunTarget(t) ==
    /\ At(t, "run")
    /\ posix' = [posix EXCEPT ![t] = [@ EXCEPT !.at = "running", !.ran = TRUE]]
    /\ UNCHANGED <<ref, CallersOnly>>

TargetReturns(t) ==
    /\ At(t, "running")
    /\ Goto(t, IF posix[t].kind = "periodic" THEN "test" ELSE "cleanup")
    /\ UNCHANGED <<ref, CallersOnly>>

Cleanup(t) ==
    /\ At(t, "cleanup")
    /\ ref' = Removed([ref EXCEPT !.isinthread = FALSE, !.killsig = FALSE, !.isended = TRUE])
    /\ Goto(t, "done") /\ UNCHANGED CallersOnly

-----------------------------------------------------------------------------

Routine(t) ==
    \/ BeginThread(t) \/ TestCancel(t) \/ WaitCas(t) \/ WaitEnter(t) \/ WaitTimeout(t)
    \/ WaitSpurious(t) \/ WaitReturn(t) \/ RunTarget(t) \/ TargetReturns(t) \/ Cleanup(t)

Returns(c) == JoinTid(c) \/ Joined(c) \/ KillTid(c)

Call(c) ==
    \/ \E kind \in Kinds : Start(c, kind)
    \/ Cancel(c) \/ Join(c) \/ Kill(c) \/ Destroy(c)

Next == \/ \E t \in Tids : Routine(t)
        \/ \E c \in Callers : Call(c) \/ Returns(c)

\* The scheduler runs every thread that can run, waits are timed, targets end.
Fairness == /\ \A t \in Tids : WF_vars(Routine(t))
            /\ \A c \in Callers : WF_vars(Returns(c))

Spec == Init /\ [][Next]_vars
FairSpec == Spec /\ Fairness

-----------------------------------------------------------------------------
(* Properties                                                              *)

Using == {t \in DOMAIN posix : posix[t].at # "done"}

Reference ==
    [alive : BOOLEAN, count : Nat, tid : Tids \cup {NoTid}, isjoined : BOOLEAN,
     isended : BOOLEAN, iscanceldelaystart : BOOLEAN, anyway_notify : BOOLEAN,
     isinthread : BOOLEAN, killsig : BOOLEAN]
PosixThread ==
    [at : {"created", "test", "cas", "entering", "waiting", "woken", "run", "running",
           "cleanup", "done"},
     kind : Kinds, ran : BOOLEAN, cancelled : BOOLEAN,
     woke : {"no", "timeout", "spurious"}, released : Nat]

\* The types of the variables.
TypeOK ==
    /\ object \in BOOLEAN
    /\ ref \in Reference
    /\ posix \in Seq(PosixThread) /\ Len(posix) <= MaxStarts
    /\ pc \in [Callers -> {"idle", "join", "joining", "kill"}]
    /\ joins \in [Callers -> Tids \cup {NoTid}]
    /\ counts \in [kills : Nat, fails : Nat]

\* One thread of the object at a time is between its creation and its end, the
\* one tid() names (isruning in the start functions, cleanup).
OneAtATime ==
    /\ \A t \in Using : t = ref.tid
    /\ isruning <=> Using # {}

\* The reference lives as long as the object or a thread uses it, and no longer,
\* whichever of them goes first (AddRef, RemoveRef, ~Thread, cleanup).
RefLives ==
    /\ ref.count = (IF object THEN 1 ELSE 0) + (IF Using # {} THEN 1 ELSE 0)
    /\ ref.alive = (ref.count > 0)

\* What keeps every use of the reference valid, inductive with the types: no
\* two threads of one object, and a count of those who use it.
Lifetimes == TypeOK /\ OneAtATime /\ RefLives /\ (ref.tid \in DOMAIN posix \cup {NoTid})

\* A POSIX thread is joined or detached once at most; when the object is gone,
\* every one has been (start, join, ~Thread), if pthread_create never failed:
\* a start that fails leaves the tid of the thread it has just detached.
ReleasedOnce ==
    counts.fails = 0 =>
        \A t \in DOMAIN posix :
            /\ posix[t].released <= 1
            /\ ~object /\ ~Outside /\ posix[t].at = "done" => posix[t].released = 1

\* A delayed or periodic start runs its target only when this very wait ended
\* by its time or, the routines ignore the difference, by an early return of
\* pthread_cond_timedwait; and it ends without running it only when it was
\* cancelled.  The flag and the notification that an earlier run's cancellation
\* left have no effect on this one (iscanceldelaystart, cancelAnyWayNotify).
DelayHonoured ==
    \A t \in DOMAIN posix :
        /\ posix[t].at = "running" /\ posix[t].kind # "now" => posix[t].woke # "no"
        /\ posix[t].at = "done" /\ ~posix[t].ran => posix[t].cancelled

\* A delayed or periodic run that is cancelled ends, although the notification
\* can come between the test of the flag and the wait (Condition::wait).
CancelEnds ==
    \A t \in Tids : (t \in DOMAIN posix /\ posix[t].cancelled) ~> At(t, "done")
=============================================================================
