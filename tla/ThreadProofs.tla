---------------------------- MODULE ThreadProofs ----------------------------
(* Theorems about Thread, for every set of callers, whatever functions     *)
(* each of them uses, and every bound.                                     *)
EXTENDS Thread, SequenceTheorems, TLAPS

-----------------------------------------------------------------------------
(* The threads as a sequence                                               *)

\* Who uses the object, for a sequence of threads p.
UsingOf(p) == {t \in DOMAIN p : p[t].at # "done"}

\* What Lifetimes needs of a step that creates no thread: it keeps the threads
\* and who uses the object.
SameUsers(p, q) ==
    /\ q \in Seq(PosixThread) /\ Len(q) = Len(p) /\ DOMAIN q = DOMAIN p
    /\ UsingOf(q) = UsingOf(p)

\* A change of one thread that leaves it on its side of "done".
LEMMA OneThread ==
    ASSUME NEW p \in Seq(PosixThread), NEW t \in DOMAIN p, NEW r \in PosixThread,
           (r.at = "done") = (p[t].at = "done")
    PROVE  SameUsers(p, [p EXCEPT ![t] = r])
  <1> DEFINE q == [p EXCEPT ![t] = r]
  <1>1. t \in 1..Len(p)
    BY LenProperties
  <1>2. q \in Seq(PosixThread) /\ Len(q) = Len(p)
    BY <1>1, ExceptSeq
  <1>3. DOMAIN q = DOMAIN p
    OBVIOUS
  <1>4. UsingOf(q) = UsingOf(p)
    BY <1>3 DEF UsingOf
  <1>. QED
    BY <1>2, <1>3, <1>4 DEF SameUsers

\* One release more, of a record that stands alone.
LEMMA OneMoreRelease ==
    ASSUME NEW x \in PosixThread
    PROVE  [x EXCEPT !.released = @ + 1] \in PosixThread /\ [x EXCEPT !.released = @ + 1].at = x.at
  BY DEF PosixThread

\* pthread_detach and pthread_join leave every thread where it is.
LEMMA ReleasedKeeps ==
    ASSUME NEW p \in Seq(PosixThread), NEW t PROVE SameUsers(p, Released(p, t))
  <1>1. CASE t \in DOMAIN p
    <2>1. p[t] \in PosixThread
      BY <1>1, ElementOfSeq, LenProperties
    <2> DEFINE r == [p[t] EXCEPT !.released = @ + 1]
    <2>2. r \in PosixThread /\ r.at = p[t].at
      BY <2>1, OneMoreRelease
    <2>3. Released(p, t) = [p EXCEPT ![t] = r]
      BY <1>1 DEF Released
    <2> HIDE DEF r
    <2>. QED
      BY <1>1, <2>2, <2>3, OneThread
  <1>2. CASE t \notin DOMAIN p
    BY <1>2 DEF Released, SameUsers
  <1>. QED
    BY <1>1, <1>2

LEMMA DetachKeeps == ASSUME TypeOK PROVE SameUsers(posix, DetachOld)
  <1>1. SameUsers(posix, posix)
    BY LenProperties DEF TypeOK, SameUsers
  <1>. QED
    BY <1>1, ReleasedKeeps DEF TypeOK, DetachOld

-----------------------------------------------------------------------------
(* Lifetimes is inductive                                                  *)

LEMMA LifetimesInit == Init => Lifetimes
  <1> SUFFICES ASSUME Init PROVE Lifetimes
    OBVIOUS
  <1>1. posix \in Seq(PosixThread) /\ Len(posix) = 0 /\ DOMAIN posix = {}
    BY EmptySeq DEF Init
  <1>2. Using = {}
    BY <1>1 DEF Using
  <1>3. TypeOK
    BY <1>1, ThreadAssumption DEF Init, TypeOK, Reference, NoTid, Kinds
  <1>4. OneAtATime
    BY <1>2, Zenon DEF Init, OneAtATime, isruning
  <1>5. RefLives
    <2>1. ref.count = 1 /\ object = TRUE /\ 1 > 0
      BY DEF Init
    <2>2. ref.alive = TRUE
      BY DEF Init
    <2>3. ref.count = (IF object THEN 1 ELSE 0) + (IF Using # {} THEN 1 ELSE 0)
      BY <1>2, <2>1
    <2>4. ref.alive = (ref.count > 0)
      BY <2>1, <2>2, Zenon
    <2>. QED
      BY <2>3, <2>4 DEF RefLives
  <1>6. ref.tid = NoTid
    BY DEF Init
  <1>. QED
    BY <1>3, <1>4, <1>5, <1>6 DEF Lifetimes

\* A step that keeps the object, the count of the reference, its tid and who
\* uses it.
LEMMA QuietStep ==
    ASSUME Lifetimes, UNCHANGED object, SameUsers(posix, posix'),
           ref' \in Reference,
           ref'.count = ref.count, ref'.alive = ref.alive,
           ref'.tid = ref.tid, ref'.isended = ref.isended,
           pc' \in [Callers -> {"idle", "join", "joining", "kill"}],
           joins' \in [Callers -> Tids \cup {NoTid}],
           counts' \in [kills : Nat, fails : Nat]
    PROVE  Lifetimes'
  <1>1. Using' = Using /\ DOMAIN posix' = DOMAIN posix
    BY DEF SameUsers, Using, UsingOf
  <1>2. TypeOK'
    BY DEF Lifetimes, TypeOK, SameUsers
  <1>3. OneAtATime'
    BY <1>1, Zenon DEF Lifetimes, OneAtATime, isruning
  <1>4. RefLives'
    BY <1>1 DEF Lifetimes, RefLives
  <1>. QED
    BY <1>1, <1>2, <1>3, <1>4 DEF Lifetimes

\* The variables that a routine leaves alone keep their types.
LEMMA CallersOnlyTypes ==
    ASSUME TypeOK, UNCHANGED CallersOnly
    PROVE  /\ UNCHANGED object
           /\ pc' \in [Callers -> {"idle", "join", "joining", "kill"}]
           /\ joins' \in [Callers -> Tids \cup {NoTid}]
           /\ counts' \in [kills : Nat, fails : Nat]
  BY DEF TypeOK, CallersOnly

\* Every sequence of threads has its own users.
LEMMA SameUsersReflexive == ASSUME TypeOK PROVE SameUsers(posix, posix)
  BY LenProperties DEF TypeOK, SameUsers

\* How the last wait of a thread ended; "no" also after a notification.
Wakes == {"no", "timeout", "spurious"}

\* A step of a routine: its thread gets another label and other flags.
Labels == {"test", "cas", "entering", "waiting", "woken", "run", "running", "cleanup", "done"}
Moved(x, label, ran, woke) ==
    [x EXCEPT !.at = label, !.ran = ran, !.woke = woke]

LEMMA MovedThread ==
    ASSUME NEW x \in PosixThread, NEW label \in Labels,
           NEW ran \in BOOLEAN, NEW woke \in Wakes
    PROVE  /\ Moved(x, label, ran, woke) \in PosixThread
           /\ Moved(x, label, ran, woke).at = label
  BY DEF PosixThread, Moved, Labels, Wakes

\* The two ways in which the actions write such a step.
LEMMA MovedLabel ==
    ASSUME NEW x \in PosixThread, NEW label
    PROVE  [x EXCEPT !.at = label] = Moved(x, label, x.ran, x.woke)
  BY DEF PosixThread, Moved

LEMMA MovedTimed ==
    ASSUME NEW x \in PosixThread, NEW label, NEW woke
    PROVE  [x EXCEPT !.at = label, !.woke = woke]
             = Moved(x, label, x.ran, woke)
  BY DEF PosixThread, Moved

LEMMA MovedRan ==
    ASSUME NEW x \in PosixThread, NEW label, NEW ran
    PROVE  [x EXCEPT !.at = label, !.ran = ran] = Moved(x, label, ran, x.woke)
  BY DEF PosixThread, Moved

\* The thread that moves is not at its end before the step, nor after it, and
\* the step touches only flags of the reference.
LEMMA RoutineStep ==
    ASSUME Lifetimes, UNCHANGED CallersOnly, NEW t \in DOMAIN posix,
           posix[t].at # "done",
           NEW label \in Labels \ {"done"}, NEW ran \in BOOLEAN, NEW woke \in Wakes,
           posix' = [posix EXCEPT ![t] = Moved(posix[t], label, ran, woke)],
           ref' \in Reference,
           ref'.count = ref.count, ref'.alive = ref.alive,
           ref'.tid = ref.tid, ref'.isended = ref.isended
    PROVE  Lifetimes'
  <1>1. TypeOK
    BY DEF Lifetimes
  <1>2. posix \in Seq(PosixThread) /\ posix[t] \in PosixThread
    BY <1>1, ElementOfSeq, LenProperties DEF TypeOK
  <1> DEFINE y == Moved(posix[t], label, ran, woke)
  <1>3. y \in PosixThread /\ y.at = label
    BY <1>2, MovedThread
  <1>4. posix' = [posix EXCEPT ![t] = y] /\ label # "done"
    BY DEF Labels
  <1> HIDE DEF y
  <1>5. SameUsers(posix, posix')
    <2>1. (y.at = "done") = (posix[t].at = "done")
      BY <1>3, <1>4
    <2>2. (y.at = "done") = (posix[t].at = "done") /\ y \in PosixThread
      BY <2>1, <1>3
    <2>3. SameUsers(posix, [posix EXCEPT ![t] = y])
      BY <2>2, <1>2, OneThread, Zenon
    <2>. QED
      BY <2>3, <1>4, Zenon
  <1>. QED
    BY <1>1, <1>5, CallersOnlyTypes, QuietStep

LEMMA ThreadType ==
    ASSUME Lifetimes, NEW t \in DOMAIN posix
    PROVE  /\ posix \in Seq(PosixThread) /\ posix[t] \in PosixThread
           /\ posix[t].ran \in BOOLEAN /\ posix[t].woke \in Wakes
  <1>1. posix \in Seq(PosixThread) /\ posix[t] \in PosixThread
    BY ElementOfSeq, LenProperties DEF Lifetimes, TypeOK
  <1>. QED
    BY <1>1 DEF PosixThread, Wakes

\* A step of a routine that only goes to another label.
LEMMA GotoStep ==
    ASSUME Lifetimes, UNCHANGED <<ref, CallersOnly>>, NEW t \in DOMAIN posix,
           posix[t].at # "done", NEW label \in Labels \ {"done"},
           posix' = [posix EXCEPT ![t].at = label]
    PROVE  Lifetimes'
  <1> DEFINE ran == posix[t].ran
             woke == posix[t].woke
  <1>1. UNCHANGED CallersOnly /\ ref' \in Reference /\ ref' = ref
    BY DEF CallersOnly, Lifetimes, TypeOK
  <1>2. posix' = [posix EXCEPT ![t] = Moved(posix[t], label, ran, woke)]
    BY ThreadType, MovedLabel
  <1>3. ran \in BOOLEAN /\ woke \in Wakes
    BY ThreadType
  <1>4. /\ ref'.count = ref.count /\ ref'.alive = ref.alive
        /\ ref'.tid = ref.tid /\ ref'.isended = ref.isended
    BY <1>1
  <1> HIDE DEF ran, woke
  <1>. QED
    BY ONLY Lifetimes, t \in DOMAIN posix, posix[t].at # "done",
       label \in Labels \ {"done"}, <1>1, <1>2, <1>3, <1>4, RoutineStep, ZenonT(40)

\* start_routine and the two others, up to the first test or the target.
LEMMA LifetimesBegin == ASSUME Lifetimes, NEW t, BeginThread(t) PROVE Lifetimes'
  <1>1. t \in DOMAIN posix /\ posix[t].at # "done" /\ UNCHANGED CallersOnly
    BY DEF BeginThread, At
  <1>2. ref' \in Reference /\ ref'.count = ref.count /\ ref'.alive = ref.alive
        /\ ref'.tid = ref.tid /\ ref'.isended = ref.isended
    BY DEF BeginThread, Lifetimes, TypeOK, Reference
  <1> DEFINE label == IF posix[t].kind = "now" THEN "run" ELSE "test"
  <1>3. label \in Labels \ {"done"}
    BY DEF Labels
  <1>4. posix' = [posix EXCEPT ![t].at = label]
    BY DEF BeginThread, Goto
  <1> HIDE DEF label
  <1>5. posix' = [posix EXCEPT ![t] = Moved(posix[t], label, posix[t].ran, posix[t].woke)]
    BY <1>1, <1>4, ThreadType, MovedLabel
  <1>. QED
    BY <1>1, <1>2, <1>3, <1>5, ThreadType, RoutineStep

\* The routine's other steps, one lemma each.
LEMMA LifetimesTestCancel == ASSUME Lifetimes, NEW t, TestCancel(t) PROVE Lifetimes'
  <1>1. t \in DOMAIN posix /\ posix[t].at # "done" /\ UNCHANGED <<ref, CallersOnly>>
    BY DEF TestCancel, At
  <1> DEFINE label == IF ref.iscanceldelaystart THEN "cleanup" ELSE "cas"
  <1>2. label \in Labels \ {"done"} /\ posix' = [posix EXCEPT ![t].at = label]
    BY DEF TestCancel, Goto, Labels
  <1> HIDE DEF label
  <1>. QED
    BY <1>1, <1>2, GotoStep

LEMMA LifetimesWaitCas == ASSUME Lifetimes, NEW t, WaitCas(t) PROVE Lifetimes'
  <1>1. t \in DOMAIN posix /\ posix[t].at # "done" /\ UNCHANGED CallersOnly
    BY DEF WaitCas, At
  <1>2. ref' \in Reference /\ ref'.count = ref.count /\ ref'.alive = ref.alive
        /\ ref'.tid = ref.tid /\ ref'.isended = ref.isended
    BY DEF WaitCas, Lifetimes, TypeOK, Reference
  <1> DEFINE label == IF ref.anyway_notify THEN "woken" ELSE "entering"
  <1>3. label \in Labels \ {"done"}
    BY DEF Labels
  <1>4. posix' = [posix EXCEPT ![t] = [posix[t] EXCEPT !.at = label, !.woke = "no"]]
    BY DEF WaitCas
  <1> HIDE DEF label
  <1>5. posix' = [posix EXCEPT ![t] = Moved(posix[t], label, posix[t].ran, "no")]
    <2> DEFINE x == posix[t]
    <2>1. posix' = [posix EXCEPT ![t] = [x EXCEPT !.at = label, !.woke = "no"]]
      BY <1>4
    <2>2. x \in PosixThread
      BY <1>1, ThreadType
    <2> HIDE DEF x
    <2>3. [x EXCEPT !.at = label, !.woke = "no"] = Moved(x, label, x.ran, "no")
      BY <2>2, MovedTimed
    <2>. QED
      BY <2>1, <2>3 DEF x
  <1>6. "no" \in Wakes /\ posix[t].ran \in BOOLEAN
    BY <1>1, ThreadType DEF Wakes
  <1>. QED
    BY <1>1, <1>2, <1>3, <1>5, <1>6, RoutineStep

LEMMA LifetimesWaitEnter == ASSUME Lifetimes, NEW t, WaitEnter(t) PROVE Lifetimes'
  <1>1. t \in DOMAIN posix /\ posix[t].at # "done" /\ UNCHANGED <<ref, CallersOnly>>
    BY DEF WaitEnter, At
  <1>2. "waiting" \in Labels \ {"done"} /\ posix' = [posix EXCEPT ![t].at = "waiting"]
    BY DEF WaitEnter, Goto, Labels
  <1>. QED
    BY <1>1, <1>2, GotoStep

LEMMA LifetimesWaitEnds ==
    ASSUME Lifetimes, NEW t, NEW how \in Wakes, WaitEndsBy(t, how) PROVE Lifetimes'
  <1>1. t \in DOMAIN posix /\ posix[t].at # "done" /\ UNCHANGED <<ref, CallersOnly>>
    BY DEF WaitEndsBy, At
  <1>2. UNCHANGED CallersOnly /\ ref' \in Reference /\ ref' = ref
    BY <1>1 DEF CallersOnly, Lifetimes, TypeOK
  <1>3. "woken" \in Labels \ {"done"}
    BY DEF Labels
  <1>4. posix' = [posix EXCEPT ![t] = [posix[t] EXCEPT !.at = "woken", !.woke = how]]
    BY DEF WaitEndsBy
  <1>5. posix' = [posix EXCEPT ![t] = Moved(posix[t], "woken", posix[t].ran, how)]
    <2> DEFINE x == posix[t]
    <2>1. posix' = [posix EXCEPT ![t] = [x EXCEPT !.at = "woken", !.woke = how]]
      BY <1>4
    <2>2. x \in PosixThread
      BY <1>1, ThreadType
    <2> HIDE DEF x
    <2>3. [x EXCEPT !.at = "woken", !.woke = how] = Moved(x, "woken", x.ran, how)
      BY <2>2, MovedTimed
    <2>. QED
      BY <2>1, <2>3 DEF x
  <1>. QED
    BY <1>1, <1>2, <1>3, <1>5, ThreadType, RoutineStep

LEMMA LifetimesWaitReturn == ASSUME Lifetimes, NEW t, WaitReturn(t) PROVE Lifetimes'
  <1>1. t \in DOMAIN posix /\ posix[t].at # "done" /\ UNCHANGED CallersOnly
    BY DEF WaitReturn, At
  <1>2. ref' \in Reference /\ ref'.count = ref.count /\ ref'.alive = ref.alive
        /\ ref'.tid = ref.tid /\ ref'.isended = ref.isended
    BY DEF WaitReturn, Lifetimes, TypeOK, Reference
  <1> DEFINE label == IF ref.iscanceldelaystart THEN "cleanup" ELSE "run"
  <1>3. label \in Labels \ {"done"} 
    BY DEF Labels
  <1>4. posix' = [posix EXCEPT ![t].at = label]
    BY DEF WaitReturn, Goto
  <1> HIDE DEF label
  <1>5. posix' = [posix EXCEPT ![t] = Moved(posix[t], label, posix[t].ran, posix[t].woke)]
    BY <1>1, <1>4, ThreadType, MovedLabel
  <1>. QED
    BY <1>1, <1>2, <1>3, <1>5, ThreadType, RoutineStep

LEMMA LifetimesRunTarget == ASSUME Lifetimes, NEW t, RunTarget(t) PROVE Lifetimes'
  <1>1. t \in DOMAIN posix /\ posix[t].at # "done" /\ UNCHANGED <<ref, CallersOnly>>
    BY DEF RunTarget, At
  <1>2. UNCHANGED CallersOnly /\ ref' \in Reference /\ ref' = ref
    BY <1>1 DEF CallersOnly, Lifetimes, TypeOK
  <1>3. "running" \in Labels \ {"done"}
    BY DEF Labels
  <1>4. posix' = [posix EXCEPT ![t] = [posix[t] EXCEPT !.at = "running", !.ran = TRUE]]
    BY DEF RunTarget
  <1>5. posix' = [posix EXCEPT ![t] = Moved(posix[t], "running", TRUE, posix[t].woke)]
    <2> DEFINE x == posix[t]
    <2>1. posix' = [posix EXCEPT ![t] = [x EXCEPT !.at = "running", !.ran = TRUE]]
      BY <1>4
    <2>2. x \in PosixThread
      BY <1>1, ThreadType
    <2> HIDE DEF x
    <2>3. [x EXCEPT !.at = "running", !.ran = TRUE] = Moved(x, "running", TRUE, x.woke)
      BY <2>2, MovedRan
    <2>. QED
      BY <2>1, <2>3 DEF x
  <1>. QED
    BY <1>1, <1>2, <1>3, <1>5, ThreadType, RoutineStep

LEMMA LifetimesTargetReturns == ASSUME Lifetimes, NEW t, TargetReturns(t) PROVE Lifetimes'
  <1>1. t \in DOMAIN posix /\ posix[t].at # "done" /\ UNCHANGED <<ref, CallersOnly>>
    BY DEF TargetReturns, At
  <1> DEFINE label == IF posix[t].kind = "periodic" THEN "test" ELSE "cleanup"
  <1>2. label \in Labels \ {"done"} /\ posix' = [posix EXCEPT ![t].at = label]
    BY DEF TargetReturns, Goto, Labels
  <1> HIDE DEF label
  <1>. QED
    BY <1>1, <1>2, GotoStep

\* The only thread that uses the object comes to its end.
LEMMA LastLeaves ==
    ASSUME NEW p \in Seq(PosixThread), NEW t \in DOMAIN p, NEW r \in PosixThread,
           UsingOf(p) = {t}, r.at = "done"
    PROVE  LET q == [p EXCEPT ![t] = r]
           IN  q \in Seq(PosixThread) /\ Len(q) = Len(p) /\ DOMAIN q = DOMAIN p
               /\ UsingOf(q) = {}
  <1> DEFINE q == [p EXCEPT ![t] = r]
  <1>1. q \in Seq(PosixThread) /\ Len(q) = Len(p)
    BY LenProperties, ExceptSeq
  <1>2. DOMAIN q = DOMAIN p
    OBVIOUS
  <1>3. UsingOf(q) = {}
    BY <1>2 DEF UsingOf
  <1>. QED
    BY <1>1, <1>2, <1>3

\* The count and the flag of a reference, changed together.
Recount(r, n, b) == [r EXCEPT !.count = n, !.alive = b]

LEMMA Recounted ==
    ASSUME NEW r \in Reference, NEW n \in Nat, NEW b \in BOOLEAN
    PROVE  /\ Recount(r, n, b) \in Reference
           /\ Recount(r, n, b).count = n
           /\ Recount(r, n, b).alive = b
           /\ Recount(r, n, b).tid = r.tid
           /\ Recount(r, n, b).isended = r.isended
  BY DEF Reference, Recount

\* RemoveRef.
LEMMA OneRefLess ==
    ASSUME NEW r \in Reference, r.count > 0
    PROVE  /\ Removed(r) \in Reference
           /\ Removed(r).count = r.count - 1
           /\ Removed(r).alive = (r.count > 1)
           /\ Removed(r).tid = r.tid /\ Removed(r).isended = r.isended
  <1> DEFINE b == r.count > 1
             n == r.count - 1
  <1>1. b \in BOOLEAN
    OBVIOUS
  <1>2. n \in Nat
    BY DEF Reference
  <1>3. Removed(r) = Recount(r, n, b)
    BY DEF Removed, Recount
  <1> HIDE DEF b, n
  <1>4. /\ Removed(r) \in Reference /\ Removed(r).count = n /\ Removed(r).alive = b
        /\ Removed(r).tid = r.tid /\ Removed(r).isended = r.isended
    BY <1>1, <1>2, <1>3, Recounted
  <1>. QED
    BY <1>4, Zenon DEF b, n

LEMMA LifetimesCleanup == ASSUME Lifetimes, NEW t, Cleanup(t) PROVE Lifetimes'
  <1>1. t \in DOMAIN posix /\ posix[t].at # "done" /\ UNCHANGED CallersOnly
    BY DEF Cleanup, At
  <1>2. posix \in Seq(PosixThread) /\ posix[t] \in PosixThread
        /\ posix[t].ran \in BOOLEAN /\ posix[t].woke \in Wakes
    BY <1>1, ThreadType
  <1> DEFINE y == Moved(posix[t], "done", posix[t].ran, posix[t].woke)
  <1>3. "done" \in Labels
    BY DEF Labels
  <1>4. y \in PosixThread /\ y.at = "done"
    BY <1>2, <1>3, MovedThread
  <1>5. posix' = [posix EXCEPT ![t] = y]
    BY <1>2, MovedLabel DEF Cleanup, Goto
  <1>6. UsingOf(posix) = {t} /\ t = ref.tid
    BY <1>1 DEF Lifetimes, OneAtATime, Using, UsingOf
  <1> HIDE DEF y
  <1>7. posix' \in Seq(PosixThread) /\ Len(posix') = Len(posix)
        /\ DOMAIN posix' = DOMAIN posix /\ UsingOf(posix') = {}
    BY <1>1, <1>2, <1>4, <1>5, <1>6, LastLeaves
  <1>8. Using = {t} /\ Using' = {}
    BY <1>6, <1>7 DEF Using, UsingOf
  <1>9. ref.count = (IF object THEN 1 ELSE 0) + 1 /\ object \in BOOLEAN
    BY <1>8 DEF Lifetimes, RefLives, TypeOK
  <1>10. ref' \in Reference /\ ref'.count = ref.count - 1 /\ ref'.alive = (ref.count > 1)
         /\ ref'.tid = ref.tid /\ ref'.isended = TRUE
    <2> DEFINE r == [ref EXCEPT !.isinthread = FALSE, !.killsig = FALSE, !.isended = TRUE]
    <2>1. r \in Reference /\ r.count = ref.count /\ r.tid = ref.tid /\ r.isended = TRUE
      BY DEF Lifetimes, TypeOK, Reference
    <2>2. r.count > 0
      BY <1>9, <2>1
    <2>3. ref' = Removed(r)
      BY DEF Cleanup
    <2> HIDE DEF r
    <2>. QED
      BY <2>1, <2>2, <2>3, OneRefLess
  <1>11. TypeOK'
    BY <1>1, <1>7, <1>10, CallersOnlyTypes DEF Lifetimes, TypeOK
  <1>12. OneAtATime'
    BY <1>8, <1>10, Zenon DEF OneAtATime, isruning
  <1>13. RefLives'
    <2>1. object' = object
      BY <1>1 DEF CallersOnly
    <2>2. ref'.count = (IF object' THEN 1 ELSE 0) + (IF Using' # {} THEN 1 ELSE 0)
      BY <1>8, <1>9, <1>10, <2>1
    <2>3. (ref'.count > 0) = (ref.count > 1)
      BY <1>9, <1>10
    <2>4. ref'.alive = (ref'.count > 0)
      BY <1>10, <2>3, Zenon
    <2>. QED
      BY <2>2, <2>4 DEF RefLives
  <1>. QED
    BY <1>7, <1>10, <1>11, <1>12, <1>13 DEF Lifetimes

-----------------------------------------------------------------------------
(* The functions of the object                                             *)

\* The two flags of a reference, as values, and what every start sets.
Flagged(r, cancel, notify) ==
    [r EXCEPT !.iscanceldelaystart = cancel, !.anyway_notify = notify]

LEMMA FlaggedType ==
    ASSUME NEW r \in Reference, NEW cancel \in BOOLEAN, NEW notify \in BOOLEAN
    PROVE  /\ Flagged(r, cancel, notify) \in Reference
           /\ Flagged(r, cancel, notify).count = r.count
           /\ Flagged(r, cancel, notify).alive = r.alive
           /\ Flagged(r, cancel, notify).tid = r.tid
  BY DEF Reference, Flagged

Begun(r, joined, n) == [r EXCEPT !.isended = FALSE, !.isjoined = joined, !.count = n]

LEMMA BegunType ==
    ASSUME NEW r \in Reference, NEW joined \in BOOLEAN, NEW n \in Nat
    PROVE  /\ Begun(r, joined, n) \in Reference
           /\ Begun(r, joined, n).count = n
           /\ Begun(r, joined, n).alive = r.alive
           /\ Begun(r, joined, n).tid = r.tid
           /\ ~Begun(r, joined, n).isended
  BY DEF Reference, Begun

LEMMA PreparedFromType ==
    ASSUME NEW r \in Reference
    PROVE  /\ PreparedFrom(r) \in Reference
           /\ PreparedFrom(r).count = r.count + 1
           /\ PreparedFrom(r).alive = r.alive
           /\ PreparedFrom(r).tid = r.tid
           /\ ~PreparedFrom(r).isended
  <1>1. Outside \in BOOLEAN
    BY ThreadAssumption
  <1> DEFINE n == r.count + 1
  <1>2. n \in Nat
    BY DEF Reference
  <1>3. PreparedFrom(r) = Begun(r, Outside, n)
    BY DEF PreparedFrom, Begun
  <1> HIDE DEF n
  <1>4. /\ PreparedFrom(r) \in Reference /\ PreparedFrom(r).count = n
        /\ PreparedFrom(r).alive = r.alive /\ PreparedFrom(r).tid = r.tid
        /\ ~PreparedFrom(r).isended
    BY <1>1, <1>2, <1>3, BegunType
  <1>. QED
    BY <1>4 DEF n

LEMMA PreparedType ==
    ASSUME ref \in Reference, NEW kind
    PROVE  /\ Prepared(kind) \in Reference
           /\ Prepared(kind).count = ref.count + 1
           /\ Prepared(kind).alive = ref.alive
           /\ Prepared(kind).tid = ref.tid
           /\ ~Prepared(kind).isended
  <1> DEFINE cancel == ref.iscanceldelaystart /\ kind = "now"
             notify == ref.anyway_notify /\ kind = "now"
  <1>1. cancel \in BOOLEAN /\ notify \in BOOLEAN
    OBVIOUS
  <1>2. Prepared(kind) = PreparedFrom(Flagged(ref, cancel, notify))
    BY DEF Prepared, Flagged
  <1> HIDE DEF cancel, notify
  <1> DEFINE flagged == Flagged(ref, cancel, notify)
  <1>3. flagged \in Reference /\ flagged.count = ref.count /\ flagged.alive = ref.alive
        /\ flagged.tid = ref.tid
    BY <1>1, FlaggedType
  <1>4. Prepared(kind) = PreparedFrom(flagged)
    BY <1>2
  <1> HIDE DEF flagged
  <1>. QED
    BY <1>3, <1>4, PreparedFromType

\* The tid that pthread_create stores, and the flag that its failure resets.
Renamed(r, t) == [r EXCEPT !.tid = t]
Ended(r) == [r EXCEPT !.isended = TRUE]

LEMMA RenamedType ==
    ASSUME NEW r \in Reference, NEW t \in Tids
    PROVE  /\ Renamed(r, t) \in Reference
           /\ Renamed(r, t).count = r.count /\ Renamed(r, t).alive = r.alive
           /\ Renamed(r, t).tid = t /\ Renamed(r, t).isended = r.isended
  BY DEF Reference, Renamed

LEMMA EndedType ==
    ASSUME NEW r \in Reference
    PROVE  /\ Ended(r) \in Reference
           /\ Ended(r).count = r.count /\ Ended(r).alive = r.alive
           /\ Ended(r).tid = r.tid /\ Ended(r).isended
  BY DEF Reference, Ended

\* A new thread is the only one that uses an object nobody used.
LEMMA FirstArrives ==
    ASSUME NEW p \in Seq(PosixThread), NEW r \in PosixThread,
           UsingOf(p) = {}, r.at # "done"
    PROVE  /\ Append(p, r) \in Seq(PosixThread)
           /\ Len(Append(p, r)) = Len(p) + 1
           /\ Len(p) + 1 \in DOMAIN Append(p, r)
           /\ UsingOf(Append(p, r)) = {Len(p) + 1}
  <1>1. /\ Append(p, r) \in Seq(PosixThread) /\ Len(Append(p, r)) = Len(p) + 1
        /\ \A i \in 1..Len(p) : Append(p, r)[i] = p[i]
        /\ Append(p, r)[Len(p) + 1] = r
    BY AppendProperties
  <1>2. /\ DOMAIN p = 1..Len(p) /\ DOMAIN Append(p, r) = 1..(Len(p) + 1) /\ Len(p) \in Nat
    BY <1>1, LenProperties
  <1>3. \A i \in DOMAIN p : p[i].at = "done"
    BY DEF UsingOf
  <1> DEFINE q == Append(p, r)
  <1>4. q[Len(p) + 1].at # "done" /\ \A i \in 1..Len(p) : q[i].at = "done"
    BY <1>1, <1>2, <1>3
  <1>5. DOMAIN q = 1..(Len(p) + 1)
    BY <1>2
  <1> HIDE DEF q
  <1>6. UsingOf(q) = {Len(p) + 1}
    BY <1>2, <1>4, <1>5 DEF UsingOf
  <1>7. Len(p) + 1 \in DOMAIN q
    BY <1>2, <1>5
  <1>8. q \in Seq(PosixThread) /\ Len(q) = Len(p) + 1
    BY <1>1 DEF q
  <1>. QED
    BY <1>6, <1>7, <1>8 DEF q

\* An object that is not running has no thread, and is the only one to hold its
\* reference.
LEMMA NobodyRuns ==
    ASSUME Lifetimes, object, ~isruning
    PROVE  Using = {} /\ ref.count = 1 /\ ref \in Reference
  <1>1. Using = {}
    BY Zenon DEF Lifetimes, OneAtATime
  <1>2. ref.count = 1
    BY <1>1 DEF Lifetimes, RefLives
  <1>. QED
    BY <1>1, <1>2 DEF Lifetimes, TypeOK

\* A start that has its thread.
LEMMA LifetimesStarted ==
    ASSUME Lifetimes, object, ~isruning, NEW kind \in Kinds,
           Len(posix) < MaxStarts,
           ref' = Renamed(Prepared(kind), Len(posix) + 1),
           posix' = Append(DetachOld, Created(kind)),
           UNCHANGED <<object, pc, joins, counts>>
    PROVE  Lifetimes'
  <1>1. Using = {} /\ ref.count = 1 /\ ref \in Reference
    BY NobodyRuns
  <1> DEFINE d == DetachOld
             n == Len(posix) + 1
  <1>2. d \in Seq(PosixThread) /\ Len(d) = Len(posix) /\ UsingOf(d) = {}
    BY <1>1, DetachKeeps DEF Lifetimes, SameUsers, Using, UsingOf
  <1>3. n \in Tids /\ Len(posix) \in Nat /\ MaxStarts \in Nat
    BY ThreadAssumption, LenProperties DEF Lifetimes, TypeOK, Tids
  <1>4. Created(kind) \in PosixThread /\ Created(kind).at # "done"
    BY DEF Created, PosixThread
  <1>5. posix' = Append(d, Created(kind)) /\ Len(d) + 1 = n
    BY <1>2
  <1>6. ref' = Renamed(Prepared(kind), n)
    OBVIOUS
  <1> HIDE DEF d, n
  <1>7. posix' \in Seq(PosixThread) /\ Len(posix') = n /\ n \in DOMAIN posix'
        /\ UsingOf(posix') = {n}
    BY <1>2, <1>4, <1>5, FirstArrives
  <1>8. /\ ref' \in Reference /\ ref'.count = 2 /\ ref'.alive = ref.alive
        /\ ref'.tid = n /\ ~ref'.isended
    BY <1>1, <1>3, <1>6, PreparedType, RenamedType
  <1>9. Using' = {n} /\ Using' # {}
    BY <1>7 DEF Using, UsingOf
  <1>10. TypeOK'
    BY <1>3, <1>7, <1>8 DEF n, Lifetimes, TypeOK
  <1>11. OneAtATime'
    BY <1>8, <1>9, Zenon DEF OneAtATime, isruning
  <1>12. RefLives'
    <2>1. ref'.count = (IF object' THEN 1 ELSE 0) + (IF Using' # {} THEN 1 ELSE 0)
      BY <1>8, <1>9
    <2>2. ref.count > 0 /\ ref'.count > 0
      BY <1>1, <1>8
    <2>3. ref.alive = (ref.count > 0)
      BY DEF Lifetimes, RefLives
    <2>4. ref'.alive = (ref'.count > 0)
      BY <1>8, <2>2, <2>3, Zenon
    <2>. QED
      BY <2>1, <2>4 DEF RefLives
  <1>. QED
    BY <1>7, <1>8, <1>10, <1>11, <1>12 DEF Lifetimes

\* A start whose pthread_create fails: the reference of the thread goes again.
LEMMA LifetimesNotStarted ==
    ASSUME Lifetimes, object, ~isruning, NEW kind \in Kinds,
           ref' = Removed(Ended(Prepared(kind))), posix' = DetachOld,
           counts' \in [kills : Nat, fails : Nat], UNCHANGED <<object, pc, joins>>
    PROVE  Lifetimes'
  <1>1. Using = {} /\ ref.count = 1 /\ ref \in Reference
    BY NobodyRuns
  <1>2. SameUsers(posix, posix')
    BY DetachKeeps DEF Lifetimes
  <1> DEFINE r == Ended(Prepared(kind))
  <1>3. r \in Reference /\ r.count = 2 /\ r.tid = ref.tid /\ r.isended
    BY <1>1, PreparedType, EndedType
  <1>4. ref' = Removed(r)
    OBVIOUS
  <1> HIDE DEF r
  <1>5. /\ ref' \in Reference /\ ref'.count = 1 /\ ref'.alive = (2 > 1)
        /\ ref'.tid = ref.tid /\ ref'.isended
    BY <1>3, <1>4, OneRefLess
  <1>6. Using' = {} /\ DOMAIN posix' = DOMAIN posix
    BY <1>1, <1>2 DEF SameUsers, Using, UsingOf
  <1>7. TypeOK'
    BY <1>2, <1>5 DEF Lifetimes, TypeOK, SameUsers
  <1>8. OneAtATime'
    BY <1>5, <1>6, Zenon DEF OneAtATime, isruning
  <1>9. RefLives'
    <2>1. ref'.count = (IF object' THEN 1 ELSE 0) + (IF Using' # {} THEN 1 ELSE 0)
      BY <1>5, <1>6
    <2>2. 2 > 1 /\ ref'.count > 0
      BY <1>5
    <2>3. ref'.alive = (ref'.count > 0)
      BY <1>5, <2>2, Zenon
    <2>. QED
      BY <2>1, <2>3 DEF RefLives
  <1>. QED
    BY <1>5, <1>6, <1>7, <1>8, <1>9 DEF Lifetimes

LEMMA LifetimesStart ==
    ASSUME Lifetimes, NEW c, NEW kind \in Kinds, Start(c, kind) PROVE Lifetimes'
  <1>1. object /\ ~isruning /\ UNCHANGED <<object, pc, joins>>
    BY DEF Start, Calls
  <1>2. CASE /\ Len(posix) < MaxStarts
             /\ ref' = [Prepared(kind) EXCEPT !.tid = Len(posix) + 1]
             /\ posix' = Append(DetachOld, Created(kind))
             /\ UNCHANGED counts
    <2>1. ref' = Renamed(Prepared(kind), Len(posix) + 1)
      BY <1>2 DEF Renamed
    <2>. QED
      BY <1>1, <1>2, <2>1, LifetimesStarted
  <1>3. CASE /\ counts' = [counts EXCEPT !.fails = @ + 1]
             /\ ref' = Removed([Prepared(kind) EXCEPT !.isended = TRUE])
             /\ posix' = DetachOld
    <2>1. ref' = Removed(Ended(Prepared(kind)))
      BY <1>3 DEF Ended
    <2>2. counts' \in [kills : Nat, fails : Nat]
      BY <1>3 DEF Lifetimes, TypeOK
    <2>. QED
      BY <1>1, <1>3, <2>1, <2>2, LifetimesNotStarted
  <1>. QED
    BY <1>2, <1>3 DEF Start

\* ~Thread, when nobody else is in a call: a thread may still run.
LEMMA LifetimesDestroy == ASSUME Lifetimes, NEW c, Destroy(c) PROVE Lifetimes'
  <1>1. object /\ ~object' /\ posix' = DetachOld /\ ref' = Removed(ref)
        /\ UNCHANGED <<pc, joins, counts>>
    BY DEF Destroy, Calls
  <1>2. SameUsers(posix, posix')
    BY <1>1, DetachKeeps DEF Lifetimes
  <1>3. Using' = Using /\ DOMAIN posix' = DOMAIN posix
    BY <1>2 DEF SameUsers, Using, UsingOf
  <1>4. ref \in Reference /\ ref.count = 1 + (IF Using # {} THEN 1 ELSE 0)
    BY <1>1 DEF Lifetimes, RefLives, TypeOK
  <1>5. /\ ref' \in Reference /\ ref'.count = ref.count - 1
        /\ ref'.alive = (ref.count > 1)
        /\ ref'.tid = ref.tid /\ ref'.isended = ref.isended
    BY <1>1, <1>4, OneRefLess
  <1>6. TypeOK'
    BY <1>1, <1>2, <1>5 DEF Destroy, Lifetimes, TypeOK, SameUsers
  <1>7. OneAtATime'
    BY <1>3, <1>5, Zenon DEF Lifetimes, OneAtATime, isruning
  <1>8. RefLives'
    <2>1. ref'.count = (IF object' THEN 1 ELSE 0) + (IF Using' # {} THEN 1 ELSE 0)
      BY <1>1, <1>3, <1>4, <1>5
    <2>2. (ref'.count > 0) = (ref.count > 1)
      BY <1>4, <1>5
    <2>3. ref'.alive = (ref'.count > 0)
      BY <1>5, <2>2, Zenon
    <2>. QED
      BY <2>1, <2>3 DEF RefLives
  <1>. QED
    BY <1>3, <1>5, <1>6, <1>7, <1>8 DEF Lifetimes

\* cancel_after and cancel_periodic: a thread that waits is woken, any other
\* stays where it is.
LEMMA CancelledType ==
    ASSUME NEW x \in PosixThread
    PROVE  Cancelled(x) \in PosixThread /\ ((Cancelled(x).at = "done") = (x.at = "done"))
  <1> DEFINE label == IF x.at = "waiting" THEN "woken" ELSE x.at
             y == [x EXCEPT !.at = label, !.cancelled = TRUE]
  <1>1. label \in Labels \cup {"created"} /\ ((label = "done") = (x.at = "done"))
    BY DEF PosixThread, Labels
  <1>2. Cancelled(x) = y
    BY DEF Cancelled
  <1> HIDE DEF label
  <1>3. y \in PosixThread /\ y.at = label
    BY <1>1 DEF PosixThread, Labels
  <1> HIDE DEF y
  <1>. QED
    BY <1>1, <1>2, <1>3

LEMMA LifetimesCancel == ASSUME Lifetimes, NEW c, Cancel(c) PROVE Lifetimes'
  <1>1. isruning /\ UNCHANGED <<object, pc, joins, counts>>
    BY DEF Cancel
  <1>2. ref.tid \in DOMAIN posix
    <2>1. Using # {}
      BY <1>1, Zenon DEF Lifetimes, OneAtATime
    <2>. QED
      BY <2>1 DEF Lifetimes, OneAtATime, Using
  <1> DEFINE t == ref.tid
             y == Cancelled(posix[t])
  <1>3. posix \in Seq(PosixThread) /\ posix[t] \in PosixThread
    BY <1>2, ThreadType
  <1>4. y \in PosixThread /\ ((y.at = "done") = (posix[t].at = "done"))
    BY <1>3, CancelledType
  <1>5. posix' = [posix EXCEPT ![t] = y]
    BY DEF Cancel
  <1>6. /\ ref' \in Reference /\ ref'.count = ref.count /\ ref'.alive = ref.alive
        /\ ref'.tid = ref.tid /\ ref'.isended = ref.isended
    BY DEF Cancel, Lifetimes, TypeOK, Reference
  <1> HIDE DEF t, y
  <1>7. SameUsers(posix, posix')
    <2>1. SameUsers(posix, [posix EXCEPT ![t] = y])
      BY <1>2, <1>3, <1>4, OneThread DEF t
    <2>. QED
      BY <2>1, <1>5, Zenon
  <1>. QED
    BY <1>1, <1>6, <1>7, QuietStep DEF Lifetimes, TypeOK

LEMMA LifetimesJoin == ASSUME Lifetimes, NEW c \in Callers, Join(c) PROVE Lifetimes'
  <1>1. /\ ref' \in Reference /\ ref'.count = ref.count /\ ref'.alive = ref.alive
        /\ ref'.tid = ref.tid /\ ref'.isended = ref.isended
    BY DEF Join, Lifetimes, TypeOK, Reference
  <1>2. UNCHANGED <<object, posix, joins, counts>>
        /\ pc' \in [Callers -> {"idle", "join", "joining", "kill"}]
    BY DEF Join, Lifetimes, TypeOK
  <1>3. SameUsers(posix, posix')
    BY <1>2, SameUsersReflexive DEF Lifetimes
  <1>. QED
    BY <1>1, <1>2, <1>3, QuietStep DEF Lifetimes, TypeOK

\* A step that leaves the reference and the threads alone.
LEMMA CallersStep ==
    ASSUME Lifetimes, UNCHANGED <<object, ref, counts>>, SameUsers(posix, posix'),
           pc' \in [Callers -> {"idle", "join", "joining", "kill"}],
           joins' \in [Callers -> Tids \cup {NoTid}]
    PROVE  Lifetimes'
  <1>1. ref' \in Reference /\ ref' = ref /\ counts' \in [kills : Nat, fails : Nat]
    BY DEF Lifetimes, TypeOK
  <1>. QED
    BY <1>1, QuietStep

LEMMA LifetimesReturns == ASSUME Lifetimes, NEW c \in Callers, Returns(c) PROVE Lifetimes'
  <1>1. SameUsers(posix, posix)
    BY SameUsersReflexive DEF Lifetimes
  <1>2. CASE JoinTid(c)
    <2>1. ref.tid \in Tids \cup {NoTid}
      BY DEF Lifetimes, TypeOK, Reference
    <2>. QED
      BY <1>1, <1>2, <2>1, CallersStep DEF JoinTid, Lifetimes, TypeOK
  <1>3. CASE Joined(c)
    <2>1. SameUsers(posix, posix')
      BY <1>3, ReleasedKeeps DEF Joined, Lifetimes, TypeOK
    <2>. QED
      BY <1>3, <2>1, CallersStep DEF Joined, Lifetimes, TypeOK
  <1>4. CASE KillTid(c)
    BY <1>1, <1>4, CallersStep DEF KillTid, Lifetimes, TypeOK
  <1>. QED
    BY <1>2, <1>3, <1>4 DEF Returns

LEMMA LifetimesKill == ASSUME Lifetimes, NEW c \in Callers, Kill(c) PROVE Lifetimes'
  <1>1. UNCHANGED <<object, posix, joins>> /\ counts' \in [kills : Nat, fails : Nat]
    BY DEF Kill, Lifetimes, TypeOK
  <1>2. /\ ref' \in Reference /\ ref'.count = ref.count /\ ref'.alive = ref.alive
        /\ ref'.tid = ref.tid /\ ref'.isended = ref.isended
    <2>1. CASE UNCHANGED ref
      BY <2>1 DEF Lifetimes, TypeOK
    <2>2. CASE ref' = [ref EXCEPT !.killsig = TRUE]
      BY <2>2 DEF Lifetimes, TypeOK, Reference
    <2>. QED
      BY <2>1, <2>2 DEF Kill
  <1>3. pc' \in [Callers -> {"idle", "join", "joining", "kill"}]
    BY DEF Kill, Lifetimes, TypeOK
  <1>4. SameUsers(posix, posix')
    BY <1>1, SameUsersReflexive DEF Lifetimes
  <1>. QED
    BY <1>1, <1>2, <1>3, <1>4, QuietStep DEF Lifetimes, TypeOK

-----------------------------------------------------------------------------
(* The theorem                                                             *)

LEMMA LifetimesNext == Lifetimes /\ [Next]_vars => Lifetimes'
  <1> SUFFICES ASSUME Lifetimes, [Next]_vars PROVE Lifetimes'
    OBVIOUS
  <1>1. ASSUME NEW t \in Tids, Routine(t) PROVE Lifetimes'
    BY <1>1, LifetimesBegin, LifetimesTestCancel, LifetimesWaitCas, LifetimesWaitEnter,
       LifetimesWaitEnds, LifetimesWaitReturn, LifetimesRunTarget,
       LifetimesTargetReturns, LifetimesCleanup
    DEF Routine, WaitTimeout, WaitSpurious, Wakes
  <1>2. ASSUME NEW c \in Callers, Call(c) PROVE Lifetimes'
    BY <1>2, LifetimesStart, LifetimesCancel, LifetimesJoin, LifetimesKill, LifetimesDestroy
    DEF Call
  <1>3. ASSUME NEW c \in Callers, Returns(c) PROVE Lifetimes'
    BY <1>3, LifetimesReturns
  <1>4. CASE UNCHANGED vars
    <2>1. UNCHANGED <<object, ref, posix, pc, joins, counts>>
      BY <1>4 DEF vars
    <2>. QED
      BY <2>1, SameUsersReflexive, CallersStep DEF Lifetimes, TypeOK
  <1>. QED
    BY <1>1, <1>2, <1>3, <1>4 DEF Next

\* At every moment at most one POSIX thread runs for an object, it is the one
\* its tid() names, and the reference it shares with the object is alive exactly
\* as long as one of the two uses it: whatever functions any number of threads
\* call, and also when the object is destroyed while its thread runs
\* (start, cleanup, AddRef, RemoveRef, ~Thread).
THEOREM LifetimesAlways == Spec => []Lifetimes
  <1>. QED
    BY LifetimesInit, LifetimesNext, PTL DEF Spec

-----------------------------------------------------------------------------
(* The delayed starts                                                      *)

\* What the flags of the reference r tell of its thread x, at every label.  An
\* ended thread keeps what it was, whatever the flags become for the next one.
Delayed(x, r) ==
    /\ x.at = "woken" => x.woke # "no" \/ r.iscanceldelaystart
    /\ x.at \in {"run", "running"} => x.woke # "no"
    /\ x.at \in {"cleanup", "done"} => x.ran \/ x.cancelled
    /\ x.at # "done" /\ r.iscanceldelaystart => x.cancelled
    /\ x.at # "done" /\ r.anyway_notify => r.iscanceldelaystart

Prompt(x) ==
    /\ x.at \in {"created", "run", "running", "cleanup", "done"}
    /\ x.at \in {"cleanup", "done"} => x.ran

DelayOf(x, r) ==
    /\ IF x.kind = "now" THEN Prompt(x) ELSE Delayed(x, r)
    /\ x.at = "running" => x.ran

DelayInv == \A t \in DOMAIN posix : DelayOf(posix[t], ref)

\* Two threads with the same past: only the count of releases may differ.
SameRun(x, y) ==
    /\ y.at = x.at /\ y.kind = x.kind /\ y.ran = x.ran
    /\ y.cancelled = x.cancelled /\ y.woke = x.woke

LEMMA SameRunDelay ==
    ASSUME NEW x, NEW y, NEW r, NEW s, SameRun(x, y), DelayOf(x, r),
           \/ x.at = "done"
           \/ /\ s.iscanceldelaystart = r.iscanceldelaystart
              /\ s.anyway_notify = r.anyway_notify
    PROVE  DelayOf(y, s)
  BY DEF SameRun, DelayOf, Prompt, Delayed

LEMMA ReleasedRun ==
    ASSUME NEW x \in PosixThread PROVE SameRun(x, [x EXCEPT !.released = @ + 1])
  BY DEF PosixThread, SameRun

LEMMA ReleasedRuns ==
    ASSUME NEW p \in Seq(PosixThread), NEW t, NEW s \in DOMAIN p
    PROVE  SameRun(p[s], Released(p, t)[s])
  <1>1. p[s] \in PosixThread
    BY ElementOfSeq, LenProperties
  <1> DEFINE x == p[s]
  <1>2. Released(p, t)[s] = IF s = t THEN [x EXCEPT !.released = @ + 1] ELSE x
    BY DEF Released
  <1>3. SameRun(x, x)
    BY DEF SameRun
  <1> HIDE DEF x
  <1>4. SameRun(x, Released(p, t)[s])
    BY <1>1, <1>2, <1>3, ReleasedRun DEF x
  <1>. QED
    BY <1>4 DEF x

LEMMA DetachRuns ==
    ASSUME TypeOK, NEW s \in DOMAIN posix PROVE SameRun(posix[s], DetachOld[s])
  <1>1. SameRun(posix[s], posix[s])
    BY DEF SameRun
  <1>. QED
    BY <1>1, ReleasedRuns DEF TypeOK, DetachOld

\* A step that moves nobody and leaves the two flags alone.
LEMMA DelayUnmoved ==
    ASSUME DelayInv, DOMAIN posix' = DOMAIN posix,
           \A s \in DOMAIN posix : SameRun(posix[s], posix'[s]),
           \/ \A s \in DOMAIN posix : posix[s].at = "done"
           \/ /\ ref'.iscanceldelaystart = ref.iscanceldelaystart
              /\ ref'.anyway_notify = ref.anyway_notify
    PROVE  DelayInv'
  <1> SUFFICES ASSUME NEW s \in DOMAIN posix PROVE DelayOf(posix'[s], ref')
    BY DEF DelayInv
  <1>1. SameRun(posix[s], posix'[s]) /\ DelayOf(posix[s], ref)
    BY DEF DelayInv
  <1>2. \/ posix[s].at = "done"
        \/ /\ ref'.iscanceldelaystart = ref.iscanceldelaystart
           /\ ref'.anyway_notify = ref.anyway_notify
    OBVIOUS
  <1>. QED
    BY <1>1, <1>2, SameRunDelay

\* A step of the thread that uses the object: the others have ended.
LEMMA DelayMoved ==
    ASSUME Lifetimes, DelayInv, NEW t \in DOMAIN posix, posix[t].at # "done",
           NEW y, posix' = [posix EXCEPT ![t] = y], DelayOf(y, ref')
    PROVE  DelayInv'
  <1> SUFFICES ASSUME NEW s \in DOMAIN posix PROVE DelayOf(posix'[s], ref')
    BY DEF DelayInv
  <1>1. CASE s = t
    BY <1>1
  <1>2. CASE s # t
    <2>1. posix'[s] = posix[s] /\ posix[s].at = "done"
      BY <1>2 DEF Lifetimes, OneAtATime, Using
    <2>2. SameRun(posix[s], posix'[s]) /\ DelayOf(posix[s], ref)
      BY <2>1 DEF SameRun, DelayInv
    <2>. QED
      BY <2>1, <2>2, SameRunDelay
  <1>. QED
    BY <1>1, <1>2

LEMMA MovedFields ==
    ASSUME NEW x \in PosixThread, NEW label, NEW ran, NEW woke
    PROVE  /\ Moved(x, label, ran, woke).at = label
           /\ Moved(x, label, ran, woke).ran = ran
           /\ Moved(x, label, ran, woke).woke = woke
           /\ Moved(x, label, ran, woke).kind = x.kind
           /\ Moved(x, label, ran, woke).cancelled = x.cancelled
  BY DEF PosixThread, Moved

\* What the record of a thread is after a step of its routine.
StepOf(x, y, label, ran, woke) ==
    /\ y.at = label /\ y.ran = ran /\ y.woke = woke
    /\ y.kind = x.kind /\ y.cancelled = x.cancelled

\* Every step of a routine has this form.
LEMMA DelayStep ==
    ASSUME Lifetimes, DelayInv, NEW t \in DOMAIN posix, posix[t].at # "done",
           NEW label, NEW ran, NEW woke,
           posix' = [posix EXCEPT ![t] = Moved(posix[t], label, ran, woke)],
           \A y : StepOf(posix[t], y, label, ran, woke) => DelayOf(y, ref')
    PROVE  DelayInv'
  <1> DEFINE y == Moved(posix[t], label, ran, woke)
  <1>1. StepOf(posix[t], y, label, ran, woke)
    BY ThreadType, MovedFields DEF StepOf
  <1>2. DelayOf(y, ref') /\ posix' = [posix EXCEPT ![t] = y]
    BY <1>1
  <1> HIDE DEF y
  <1>. QED
    BY <1>2, DelayMoved

LEMMA DelayGoto ==
    ASSUME Lifetimes, DelayInv, NEW t \in DOMAIN posix, posix[t].at # "done",
           NEW label, posix' = [posix EXCEPT ![t].at = label],
           \A y : StepOf(posix[t], y, label, posix[t].ran, posix[t].woke)
                    => DelayOf(y, ref')
    PROVE  DelayInv'
  <1> DEFINE ran == posix[t].ran
             woke == posix[t].woke
             y == Moved(posix[t], label, ran, woke)
  <1>1. posix' = [posix EXCEPT ![t] = y]
    BY ThreadType, MovedLabel
  <1>2. StepOf(posix[t], y, label, ran, woke)
    BY ThreadType, MovedFields DEF StepOf
  <1>3. DelayOf(y, ref')
    BY <1>2
  <1> HIDE DEF y
  <1>. QED
    BY <1>1, <1>3, DelayMoved

LEMMA DelayBegin ==
    ASSUME Lifetimes, DelayInv, NEW t, BeginThread(t) PROVE DelayInv'
  <1>1. t \in DOMAIN posix /\ posix[t].at = "created" /\ DelayOf(posix[t], ref)
    BY DEF BeginThread, At, DelayInv
  <1>2. /\ ref'.iscanceldelaystart = ref.iscanceldelaystart
        /\ ref'.anyway_notify = ref.anyway_notify
    BY DEF BeginThread, Lifetimes, TypeOK, Reference
  <1> DEFINE label == IF posix[t].kind = "now" THEN "run" ELSE "test"
  <1>3. posix' = [posix EXCEPT ![t].at = label]
    BY DEF BeginThread, Goto
  <1>4. ASSUME NEW y, StepOf(posix[t], y, label, posix[t].ran, posix[t].woke)
        PROVE  DelayOf(y, ref')
    BY <1>1, <1>2, <1>4 DEF StepOf, DelayOf, Prompt, Delayed
  <1> HIDE DEF label
  <1>. QED
    BY <1>1, <1>3, <1>4, DelayGoto

LEMMA DelayTestCancel ==
    ASSUME Lifetimes, DelayInv, NEW t, TestCancel(t) PROVE DelayInv'
  <1>1. t \in DOMAIN posix /\ posix[t].at = "test" /\ DelayOf(posix[t], ref) /\ ref' = ref
    BY DEF TestCancel, At, DelayInv
  <1> DEFINE label == IF ref.iscanceldelaystart THEN "cleanup" ELSE "cas"
  <1>2. posix' = [posix EXCEPT ![t].at = label]
    BY DEF TestCancel, Goto
  <1>3. ASSUME NEW y, StepOf(posix[t], y, label, posix[t].ran, posix[t].woke)
        PROVE  DelayOf(y, ref')
    BY <1>1, <1>3 DEF StepOf, DelayOf, Prompt, Delayed
  <1> HIDE DEF label
  <1>. QED
    BY <1>1, <1>2, <1>3, DelayGoto

LEMMA DelayWaitCas ==
    ASSUME Lifetimes, DelayInv, NEW t, WaitCas(t) PROVE DelayInv'
  <1>1. t \in DOMAIN posix /\ posix[t].at = "cas" /\ DelayOf(posix[t], ref)
    BY DEF WaitCas, At, DelayInv
  <1>2. ref'.iscanceldelaystart = ref.iscanceldelaystart /\ ref'.anyway_notify = FALSE
    BY DEF WaitCas, Lifetimes, TypeOK, Reference
  <1> DEFINE label == IF ref.anyway_notify THEN "woken" ELSE "entering"
             x == posix[t]
  <1>3. x \in PosixThread
    BY <1>1, ThreadType
  <1>4. posix' = [posix EXCEPT ![t] = [x EXCEPT !.at = label, !.woke = "no"]]
    BY DEF WaitCas
  <1>5. ASSUME NEW y, StepOf(x, y, label, x.ran, "no") PROVE DelayOf(y, ref')
    BY <1>1, <1>2, <1>5 DEF StepOf, DelayOf, Prompt, Delayed
  <1> HIDE DEF label, x
  <1>6. posix' = [posix EXCEPT ![t] = Moved(x, label, x.ran, "no")]
    <2>1. [x EXCEPT !.at = label, !.woke = "no"] = Moved(x, label, x.ran, "no")
      BY <1>3, MovedTimed
    <2>. QED
      BY <1>4, <2>1
  <1>7. DelayInv'
    BY <1>1, <1>5, <1>6, DelayStep DEF x
  <1>. QED
    BY <1>7

LEMMA DelayWaitEnter ==
    ASSUME Lifetimes, DelayInv, NEW t, WaitEnter(t) PROVE DelayInv'
  <1>1. t \in DOMAIN posix /\ posix[t].at = "entering" /\ DelayOf(posix[t], ref) /\ ref' = ref
    BY DEF WaitEnter, At, DelayInv
  <1>2. posix' = [posix EXCEPT ![t].at = "waiting"]
    BY DEF WaitEnter, Goto
  <1>3. ASSUME NEW y, StepOf(posix[t], y, "waiting", posix[t].ran, posix[t].woke)
        PROVE  DelayOf(y, ref')
    BY <1>1, <1>3 DEF StepOf, DelayOf, Prompt, Delayed
  <1>. QED
    BY <1>1, <1>2, <1>3, DelayGoto

LEMMA DelayWaitEnds ==
    ASSUME Lifetimes, DelayInv, NEW t, NEW how \in Wakes \ {"no"}, WaitEndsBy(t, how)
    PROVE  DelayInv'
  <1>1. t \in DOMAIN posix /\ posix[t].at = "waiting" /\ DelayOf(posix[t], ref) /\ ref' = ref
    BY DEF WaitEndsBy, At, DelayInv
  <1> DEFINE x == posix[t]
  <1>2. x \in PosixThread
    BY <1>1, ThreadType
  <1>3. posix' = [posix EXCEPT ![t] = [x EXCEPT !.at = "woken", !.woke = how]]
    BY DEF WaitEndsBy
  <1>4. ASSUME NEW y, StepOf(x, y, "woken", x.ran, how) PROVE DelayOf(y, ref')
    BY <1>1, <1>4 DEF StepOf, DelayOf, Prompt, Delayed
  <1> HIDE DEF x
  <1>5. posix' = [posix EXCEPT ![t] = Moved(x, "woken", x.ran, how)]
    <2>1. [x EXCEPT !.at = "woken", !.woke = how] = Moved(x, "woken", x.ran, how)
      BY <1>2, MovedTimed
    <2>. QED
      BY <1>3, <2>1
  <1>6. DelayInv'
    BY <1>1, <1>4, <1>5, DelayStep DEF x
  <1>. QED
    BY <1>6

LEMMA DelayWaitReturn ==
    ASSUME Lifetimes, DelayInv, NEW t, WaitReturn(t) PROVE DelayInv'
  <1>1. t \in DOMAIN posix /\ posix[t].at = "woken" /\ DelayOf(posix[t], ref)
    BY DEF WaitReturn, At, DelayInv
  <1>2. ref'.iscanceldelaystart = ref.iscanceldelaystart /\ ref'.anyway_notify = FALSE
    BY DEF WaitReturn, Lifetimes, TypeOK, Reference
  <1> DEFINE label == IF ref.iscanceldelaystart THEN "cleanup" ELSE "run"
  <1>3. posix' = [posix EXCEPT ![t].at = label]
    BY DEF WaitReturn, Goto
  <1>4. ASSUME NEW y, StepOf(posix[t], y, label, posix[t].ran, posix[t].woke)
        PROVE  DelayOf(y, ref')
    BY <1>1, <1>2, <1>4 DEF StepOf, DelayOf, Prompt, Delayed
  <1> HIDE DEF label
  <1>. QED
    BY <1>1, <1>3, <1>4, DelayGoto

LEMMA DelayRunTarget ==
    ASSUME Lifetimes, DelayInv, NEW t, RunTarget(t) PROVE DelayInv'
  <1>1. t \in DOMAIN posix /\ posix[t].at = "run" /\ DelayOf(posix[t], ref) /\ ref' = ref
    BY DEF RunTarget, At, DelayInv
  <1> DEFINE x == posix[t]
  <1>2. x \in PosixThread
    BY <1>1, ThreadType
  <1>3. posix' = [posix EXCEPT ![t] = [x EXCEPT !.at = "running", !.ran = TRUE]]
    BY DEF RunTarget
  <1>4. ASSUME NEW y, StepOf(x, y, "running", TRUE, x.woke) PROVE DelayOf(y, ref')
    BY <1>1, <1>4 DEF StepOf, DelayOf, Prompt, Delayed
  <1> HIDE DEF x
  <1>5. posix' = [posix EXCEPT ![t] = Moved(x, "running", TRUE, x.woke)]
    BY <1>2, <1>3, MovedRan
  <1>6. DelayInv'
    BY <1>1, <1>4, <1>5, DelayStep DEF x
  <1>. QED
    BY <1>6

LEMMA DelayTargetReturns ==
    ASSUME Lifetimes, DelayInv, NEW t, TargetReturns(t) PROVE DelayInv'
  <1>1. t \in DOMAIN posix /\ posix[t].at = "running" /\ DelayOf(posix[t], ref) /\ ref' = ref
    BY DEF TargetReturns, At, DelayInv
  <1> DEFINE label == IF posix[t].kind = "periodic" THEN "test" ELSE "cleanup"
  <1>2. posix' = [posix EXCEPT ![t].at = label]
    BY DEF TargetReturns, Goto
  <1>3. ASSUME NEW y, StepOf(posix[t], y, label, posix[t].ran, posix[t].woke)
        PROVE  DelayOf(y, ref')
    BY <1>1, <1>3 DEF StepOf, DelayOf, Prompt, Delayed
  <1> HIDE DEF label
  <1>. QED
    BY <1>1, <1>2, <1>3, DelayGoto

LEMMA DelayCleanup ==
    ASSUME Lifetimes, DelayInv, NEW t, Cleanup(t) PROVE DelayInv'
  <1>1. t \in DOMAIN posix /\ posix[t].at = "cleanup" /\ DelayOf(posix[t], ref)
    BY DEF Cleanup, At, DelayInv
  <1>2. posix' = [posix EXCEPT ![t].at = "done"]
    BY DEF Cleanup, Goto
  <1>3. ASSUME NEW y, StepOf(posix[t], y, "done", posix[t].ran, posix[t].woke)
        PROVE  DelayOf(y, ref')
    BY <1>1, <1>3 DEF StepOf, DelayOf, Prompt, Delayed
  <1>. QED
    BY <1>1, <1>2, <1>3, DelayGoto

\* The start functions: the threads before have ended, and a delayed start
\* begins with both flags down.
LEMMA PreparedFlags ==
    ASSUME ref \in Reference, NEW kind, NEW n \in Tids
    PROVE  /\ Renamed(Prepared(kind), n).iscanceldelaystart
                = (ref.iscanceldelaystart /\ kind = "now")
           /\ Renamed(Prepared(kind), n).anyway_notify = (ref.anyway_notify /\ kind = "now")
  <1> DEFINE cancel == ref.iscanceldelaystart /\ kind = "now"
             notify == ref.anyway_notify /\ kind = "now"
             r == Flagged(ref, cancel, notify)
  <1>1. r \in Reference /\ r.iscanceldelaystart = cancel /\ r.anyway_notify = notify
    BY DEF Flagged, Reference
  <1>2. Prepared(kind) = PreparedFrom(r)
    BY DEF Prepared, Flagged
  <1> HIDE DEF r, cancel, notify
  <1>3. PreparedFrom(r).iscanceldelaystart = cancel /\ PreparedFrom(r).anyway_notify = notify
        /\ PreparedFrom(r) \in Reference
    BY <1>1, PreparedFromType DEF PreparedFrom, Reference
  <1> DEFINE q == PreparedFrom(r)
  <1> HIDE DEF q
  <1>4. Renamed(q, n).iscanceldelaystart = q.iscanceldelaystart
        /\ Renamed(q, n).anyway_notify = q.anyway_notify
    BY <1>3 DEF Renamed, Reference, q
  <1>. QED
    BY <1>2, <1>3, <1>4, Zenon DEF q, cancel, notify

LEMMA DelayStart ==
    ASSUME Lifetimes, DelayInv, NEW c, NEW kind \in Kinds, Start(c, kind) PROVE DelayInv'
  <1>1. object /\ ~isruning
    BY DEF Start, Calls
  <1>2. ref \in Reference /\ \A s \in DOMAIN posix : posix[s].at = "done"
    BY <1>1, NobodyRuns DEF Using
  <1>3. DetachOld \in Seq(PosixThread) /\ Len(DetachOld) = Len(posix)
        /\ DOMAIN DetachOld = DOMAIN posix /\ TypeOK
    BY DetachKeeps DEF SameUsers, Lifetimes
  <1>4. \A s \in DOMAIN posix : SameRun(posix[s], DetachOld[s])
    BY <1>3, DetachRuns
  <1>5. CASE posix' = DetachOld
    BY <1>2, <1>3, <1>4, <1>5, DelayUnmoved
  <1>6. CASE /\ Len(posix) < MaxStarts
             /\ ref' = [Prepared(kind) EXCEPT !.tid = Len(posix) + 1]
             /\ posix' = Append(DetachOld, Created(kind))
    <2> DEFINE d == DetachOld
               n == Len(posix) + 1
    <2>1. n \in Tids /\ Len(posix) \in Nat
      BY <1>3, <1>6, ThreadAssumption, LenProperties DEF TypeOK, Tids
    <2>2. ref' = Renamed(Prepared(kind), n)
      BY <1>6 DEF Renamed
    <2>3. ref'.iscanceldelaystart = (ref.iscanceldelaystart /\ kind = "now")
          /\ ref'.anyway_notify = (ref.anyway_notify /\ kind = "now")
      BY <1>2, <2>1, <2>2, PreparedFlags
    <2>4. posix' = Append(d, Created(kind)) /\ d \in Seq(PosixThread) /\ Len(d) = Len(posix)
          /\ Created(kind) \in PosixThread
      BY <1>3, <1>6 DEF Created, PosixThread
    <2> HIDE DEF d, n
    <2>5. /\ DOMAIN posix' = 1..(Len(d) + 1) /\ DOMAIN d = 1..Len(d)
          /\ \A i \in 1..Len(d) : posix'[i] = d[i]
          /\ posix'[Len(d) + 1] = Created(kind)
      BY <2>4, AppendProperties, LenProperties
    <2> SUFFICES ASSUME NEW s \in DOMAIN posix' PROVE DelayOf(posix'[s], ref')
      BY DEF DelayInv
    <2>6. CASE s = Len(d) + 1
      <3>1. DelayOf(Created(kind), ref')
        BY <2>3 DEF DelayOf, Prompt, Delayed, Created
      <3>. QED
        BY <2>5, <2>6, <3>1
    <2>7. CASE s # Len(d) + 1
      <3>1. s \in DOMAIN d /\ posix'[s] = d[s]
        BY <2>1, <2>4, <2>5, <2>7
      <3>2. s \in DOMAIN posix /\ SameRun(posix[s], posix'[s])
        BY <1>3, <1>4, <3>1 DEF d
      <3>3. posix[s].at = "done" /\ DelayOf(posix[s], ref)
        BY <1>2, <3>2 DEF DelayInv
      <3>. QED
        BY <3>2, <3>3, SameRunDelay
    <2>. QED
      BY <2>6, <2>7
  <1>. QED
    BY <1>5, <1>6 DEF Start

LEMMA DelayCancel ==
    ASSUME Lifetimes, DelayInv, NEW c, Cancel(c) PROVE DelayInv'
  <1>1. Using # {}
    BY Zenon DEF Cancel, Lifetimes, OneAtATime
  <1> DEFINE t == ref.tid
             x == posix[t]
             y == Cancelled(x)
  <1>2. t \in DOMAIN posix /\ x.at # "done" /\ DelayOf(x, ref) /\ x \in PosixThread
    BY <1>1, ThreadType DEF Lifetimes, OneAtATime, Using, DelayInv
  <1>3. ref'.iscanceldelaystart = TRUE /\ ref'.anyway_notify = TRUE
    BY DEF Cancel, Lifetimes, TypeOK, Reference
  <1>4. posix' = [posix EXCEPT ![t] = y]
    BY DEF Cancel
  <1> HIDE DEF x
  <1>5. /\ y.at = (IF x.at = "waiting" THEN "woken" ELSE x.at) /\ y.cancelled = TRUE
        /\ y.kind = x.kind /\ y.ran = x.ran /\ y.woke = x.woke
    BY <1>2 DEF Cancelled, PosixThread
  <1> HIDE DEF y
  <1>6. DelayOf(y, ref')
    BY <1>2, <1>3, <1>5 DEF DelayOf, Prompt, Delayed
  <1>7. posix[t].at # "done"
    BY <1>2 DEF x
  <1> HIDE DEF t
  <1>. QED
    BY <1>2, <1>4, <1>6, <1>7, DelayMoved

\* The other functions move no thread and touch neither flag.
LEMMA DelayOthers ==
    ASSUME Lifetimes, DelayInv, NEW c,
           Join(c) \/ Kill(c) \/ Destroy(c) \/ Returns(c) \/ UNCHANGED vars
    PROVE  DelayInv'
  <1>1. TypeOK
    BY DEF Lifetimes
  <1>2. ref'.iscanceldelaystart = ref.iscanceldelaystart
        /\ ref'.anyway_notify = ref.anyway_notify
    <2>1. CASE ref' = ref
      BY <2>1
    <2>2. CASE ref' = [ref EXCEPT !.isjoined = TRUE] \/ ref' = [ref EXCEPT !.killsig = TRUE]
      BY <2>2, <1>1 DEF TypeOK, Reference
    <2>3. CASE ref' = Removed(ref)
      BY <2>3, <1>1 DEF TypeOK, Reference, Removed
    <2>. QED
      BY <2>1, <2>2, <2>3
      DEF Join, Kill, Destroy, Returns, JoinTid, Joined, KillTid, vars
  <1>3. \A s \in DOMAIN posix : SameRun(posix[s], posix[s])
    BY DEF SameRun
  <1>4. CASE UNCHANGED posix
    BY <1>2, <1>3, <1>4, DelayUnmoved
  <1>5. CASE posix' = DetachOld
    <2>1. DOMAIN posix' = DOMAIN posix
      BY <1>1, <1>5, DetachKeeps DEF SameUsers
    <2>2. \A s \in DOMAIN posix : SameRun(posix[s], posix'[s])
      BY <1>1, <1>5, DetachRuns
    <2>. QED
      BY <1>2, <2>1, <2>2, DelayUnmoved
  <1>6. CASE posix' = Released(posix, joins[c])
    <2>1. DOMAIN posix' = DOMAIN posix
      BY <1>1, <1>6, ReleasedKeeps DEF SameUsers, TypeOK
    <2>2. \A s \in DOMAIN posix : SameRun(posix[s], posix'[s])
      BY <1>1, <1>6, ReleasedRuns DEF TypeOK
    <2>. QED
      BY <1>2, <2>1, <2>2, DelayUnmoved
  <1>. QED
    BY <1>4, <1>5, <1>6 DEF Join, Kill, Destroy, Returns, JoinTid, Joined, KillTid, vars

LEMMA DelayNext == Lifetimes /\ DelayInv /\ [Next]_vars => DelayInv'
  <1> SUFFICES ASSUME Lifetimes, DelayInv, [Next]_vars PROVE DelayInv'
    OBVIOUS
  <1>1. ASSUME NEW t \in Tids, Routine(t) PROVE DelayInv'
    BY <1>1, DelayBegin, DelayTestCancel, DelayWaitCas, DelayWaitEnter, DelayWaitEnds,
       DelayWaitReturn, DelayRunTarget, DelayTargetReturns, DelayCleanup
    DEF Routine, WaitTimeout, WaitSpurious, Wakes
  <1>2. ASSUME NEW c \in Callers, Call(c) \/ Returns(c) PROVE DelayInv'
    BY <1>2, DelayStart, DelayCancel, DelayOthers DEF Call
  <1>3. CASE UNCHANGED vars
    BY <1>3, DelayOthers
  <1>. QED
    BY <1>1, <1>2, <1>3 DEF Next

LEMMA DelayInit == Init => DelayInv
  BY EmptySeq DEF Init, DelayInv

LEMMA DelayKept == DelayInv /\ Lifetimes => DelayHonoured
  <1> SUFFICES ASSUME DelayInv, Lifetimes, NEW t \in DOMAIN posix
      PROVE  /\ posix[t].at = "running" /\ posix[t].kind # "now" => posix[t].woke # "no"
             /\ posix[t].at = "done" /\ ~posix[t].ran => posix[t].cancelled
    BY DEF DelayHonoured
  <1>. QED
    BY DEF DelayInv, DelayOf, Prompt, Delayed

\* A delayed or periodic start runs its target only when its own wait ended by
\* its time or by an early return of pthread_cond_timedwait, and it ends
\* without running the target only when it was cancelled, whoever cancels it and whenever:
\* before the thread has begun, between its test of the flag and its wait, or
\* after an earlier run that was cancelled and left its flag and its notification
\* behind (start_after, start_periodic, cancel_after, Condition::wait).
THEOREM DelayAlwaysHonoured == Spec => []DelayHonoured
  <1>. QED
    BY LifetimesInit, LifetimesNext, DelayInit, DelayNext, DelayKept, PTL DEF Spec

-----------------------------------------------------------------------------
(* The release of the POSIX threads, for an object with one owner          *)

\* One caller starts, joins and destroys; the others cancel and kill.
OneOwner(w) == \A c \in Callers \ {w} : Ops[c] \subseteq {"cancel", "kill"}

InJoin(w) == pc[w] \in {"join", "joining"}

\* How often a thread has been released: one that is not the object's current
\* thread once, that one when it has been joined or the object is gone.
Expected(w, t) ==
    IF Outside THEN 0
    ELSE IF t # ref.tid \/ ~object \/ (ref.isjoined /\ ~InJoin(w)) THEN 1 ELSE 0

ReleaseInv(w) ==
    /\ counts.fails = 0 => \A t \in DOMAIN posix : posix[t].released = Expected(w, t)
    /\ \A c \in Callers \ {w} : pc[c] \in {"idle", "kill"}
    /\ InJoin(w) => object /\ ~Outside /\ ref.isjoined /\ ref.tid \in DOMAIN posix
    /\ pc[w] = "joining" => joins[w] = ref.tid
    /\ Outside /\ ref.tid # NoTid => ref.isjoined

LEMMA ReleaseInit == ASSUME NEW w \in Callers, Init PROVE ReleaseInv(w)
  BY EmptySeq DEF Init, ReleaseInv, InJoin

\* A step that releases nobody, and in which the owner neither enters nor
\* leaves join.
LEMMA ReleaseQuiet ==
    ASSUME NEW w \in Callers, ReleaseInv(w),
           UNCHANGED object, joins'[w] = joins[w],
           ref'.tid = ref.tid, ref'.isjoined = ref.isjoined,
           counts'.fails = counts.fails,
           pc'[w] = pc[w] \/ (pc[w] \in {"idle", "kill"} /\ pc'[w] \in {"idle", "kill"}),
           \A c \in Callers \ {w} : pc'[c] \in {"idle", "kill"},
           DOMAIN posix' = DOMAIN posix,
           \A t \in DOMAIN posix : posix'[t].released = posix[t].released
    PROVE  ReleaseInv(w)'
  <1>1. InJoin(w)' = InJoin(w)
    BY DEF InJoin
  <1>2. \A t : Expected(w, t)' = Expected(w, t)
    BY <1>1 DEF Expected
  <1>3. counts'.fails = 0 => \A t \in DOMAIN posix' : posix'[t].released = Expected(w, t)'
    BY <1>2 DEF ReleaseInv
  <1>4. pc'[w] = "joining" => joins'[w] = ref'.tid
    BY DEF ReleaseInv
  <1>. QED
    BY <1>1, <1>3, <1>4 DEF ReleaseInv

LEMMA MovedReleased ==
    ASSUME NEW x \in PosixThread, NEW label, NEW ran, NEW woke
    PROVE  Moved(x, label, ran, woke).released = x.released
  BY DEF PosixThread, Moved

\* A change of one record that keeps its count.
LEMMA SameReleases ==
    ASSUME NEW t \in DOMAIN posix, NEW y, y.released = posix[t].released,
           posix' = [posix EXCEPT ![t] = y]
    PROVE  /\ DOMAIN posix' = DOMAIN posix
           /\ \A s \in DOMAIN posix : posix'[s].released = posix[s].released
  OBVIOUS

LEMMA GotoReleases ==
    ASSUME Lifetimes, NEW t \in DOMAIN posix, NEW label, Goto(t, label)
    PROVE  /\ DOMAIN posix' = DOMAIN posix
           /\ \A s \in DOMAIN posix : posix'[s].released = posix[s].released
  <1> DEFINE x == posix[t]
             y == Moved(x, label, x.ran, x.woke)
  <1>1. x \in PosixThread
    BY ThreadType
  <1>2. posix' = [posix EXCEPT ![t] = y]
    BY <1>1, MovedLabel DEF Goto
  <1>3. y.released = x.released
    BY <1>1, MovedReleased
  <1> HIDE DEF y
  <1>. QED
    BY <1>2, <1>3, SameReleases

\* The routine of a thread neither joins nor detaches.
LEMMA RoutineReleases ==
    ASSUME Lifetimes, NEW t, Routine(t)
    PROVE  /\ DOMAIN posix' = DOMAIN posix
           /\ \A s \in DOMAIN posix : posix'[s].released = posix[s].released
  <1>1. t \in DOMAIN posix
    BY DEF Routine, At, BeginThread, TestCancel, WaitCas, WaitEnter, WaitTimeout,
           WaitSpurious, WaitEndsBy, WaitReturn, RunTarget, TargetReturns, Cleanup
  <1> DEFINE x == posix[t]
  <1>2. x \in PosixThread
    BY <1>1, ThreadType
  <1>3. CASE BeginThread(t) \/ TestCancel(t) \/ WaitEnter(t) \/ WaitReturn(t)
             \/ TargetReturns(t) \/ Cleanup(t)
    <2>1. \E label : Goto(t, label)
      BY <1>3 DEF BeginThread, TestCancel, WaitEnter, WaitReturn, TargetReturns, Cleanup
    <2>. QED
      BY <1>1, <2>1, GotoReleases
  <1>4. CASE WaitCas(t) \/ WaitTimeout(t) \/ WaitSpurious(t) \/ RunTarget(t)
    <2>1. \/ \E label, b : posix' = [posix EXCEPT ![t] = [x EXCEPT !.at = label, !.woke = b]]
          \/ posix' = [posix EXCEPT ![t] = [x EXCEPT !.at = "running", !.ran = TRUE]]
      BY <1>4 DEF WaitCas, WaitTimeout, WaitSpurious, WaitEndsBy, RunTarget
    <2> HIDE DEF x
    <2>2. ASSUME NEW label, NEW b,
                 posix' = [posix EXCEPT ![t] = [x EXCEPT !.at = label, !.woke = b]]
          PROVE  \E y : y.released = x.released /\ posix' = [posix EXCEPT ![t] = y]
      <3>1. [x EXCEPT !.at = label, !.woke = b].released = x.released
        BY <1>2 DEF PosixThread
      <3>. QED
        BY <2>2, <3>1, Zenon
    <2>3. ASSUME posix' = [posix EXCEPT ![t] = [x EXCEPT !.at = "running", !.ran = TRUE]]
          PROVE  \E y : y.released = x.released /\ posix' = [posix EXCEPT ![t] = y]
      <3>1. [x EXCEPT !.at = "running", !.ran = TRUE].released = x.released
        BY <1>2 DEF PosixThread
      <3>. QED
        BY <2>3, <3>1, Zenon
    <2>4. PICK y : y.released = x.released /\ posix' = [posix EXCEPT ![t] = y]
      BY <2>1, <2>2, <2>3
    <2>. QED
      BY <1>1, <2>4, SameReleases DEF x
  <1>. QED
    BY <1>3, <1>4 DEF Routine

LEMMA RoutineKeepsReference ==
    ASSUME Lifetimes, NEW t, Routine(t)
    PROVE  ref'.tid = ref.tid /\ ref'.isjoined = ref.isjoined /\ UNCHANGED CallersOnly
  <1>1. ref \in Reference
    BY DEF Lifetimes, TypeOK
  <1>2. CASE BeginThread(t) \/ WaitCas(t) \/ WaitReturn(t)
    BY <1>1, <1>2 DEF BeginThread, WaitCas, WaitReturn, Reference
  <1>3. CASE \/ TestCancel(t) \/ WaitEnter(t) \/ WaitTimeout(t)
             \/ WaitSpurious(t) \/ RunTarget(t) \/ TargetReturns(t)
    BY <1>3 DEF TestCancel, WaitEnter, WaitTimeout, WaitSpurious, WaitEndsBy, RunTarget, TargetReturns
  <1>4. CASE Cleanup(t)
    <2> DEFINE r == [ref EXCEPT !.isinthread = FALSE, !.killsig = FALSE, !.isended = TRUE]
    <2>1. r \in Reference /\ r.tid = ref.tid /\ r.isjoined = ref.isjoined
      BY <1>1 DEF Reference
    <2>2. ref' = Removed(r) /\ UNCHANGED CallersOnly
      BY <1>4 DEF Cleanup
    <2> HIDE DEF r
    <2>3. Removed(r).tid = r.tid /\ Removed(r).isjoined = r.isjoined
      BY <2>1 DEF Removed, Reference
    <2>. QED
      BY <2>1, <2>2, <2>3
  <1>. QED
    BY <1>2, <1>3, <1>4 DEF Routine

LEMMA ReleaseRoutine ==
    ASSUME Lifetimes, NEW w \in Callers, ReleaseInv(w), NEW t, Routine(t)
    PROVE  ReleaseInv(w)'
  <1>1. UNCHANGED <<object, pc, joins, counts>>
    BY RoutineKeepsReference DEF CallersOnly
  <1>. QED
    BY <1>1, RoutineReleases, RoutineKeepsReference, ReleaseQuiet DEF ReleaseInv

\* One more release of t, and of no other thread.
LEMMA ReleasedCount ==
    ASSUME NEW p \in Seq(PosixThread), NEW t, NEW s \in DOMAIN p
    PROVE  Released(p, t)[s].released = IF s = t THEN p[s].released + 1 ELSE p[s].released
  <1>1. p[s] \in PosixThread
    BY ElementOfSeq, LenProperties
  <1> DEFINE x == p[s]
  <1>2. Released(p, t)[s] = IF s = t THEN [x EXCEPT !.released = @ + 1] ELSE x
    BY DEF Released
  <1> HIDE DEF x
  <1>3. [x EXCEPT !.released = @ + 1].released = x.released + 1
    BY <1>1 DEF PosixThread, x
  <1>. QED
    BY <1>2, <1>3 DEF x

LEMMA DetachedCount ==
    ASSUME Lifetimes, NEW s \in DOMAIN posix
    PROVE  DetachOld[s].released = IF s = ref.tid /\ ~ref.isjoined
                                   THEN posix[s].released + 1 ELSE posix[s].released
  <1>1. posix \in Seq(PosixThread) /\ s # NoTid
    BY LenProperties DEF Lifetimes, TypeOK, NoTid
  <1>. QED
    BY <1>1, ReleasedCount DEF DetachOld

\* Every thread of the past has been released once its successor is started
\* or the object is destroyed, by join or by the detach.
LEMMA DetachedExpected ==
    ASSUME Lifetimes, NEW w \in Callers, ReleaseInv(w), counts.fails = 0,
           object, ~InJoin(w), NEW s \in DOMAIN posix
    PROVE  DetachOld[s].released = IF Outside THEN 0 ELSE 1
  <1>1. posix[s].released = Expected(w, s)
    BY DEF ReleaseInv
  <1>2. Outside /\ s = ref.tid => ref.isjoined
    BY LenProperties DEF ReleaseInv, NoTid, Lifetimes, TypeOK
  <1>. QED
    BY <1>1, <1>2, DetachedCount DEF Expected

\* Only the owner starts.
LEMMA ReleaseStart ==
    ASSUME Lifetimes, NEW w \in Callers, OneOwner(w), ReleaseInv(w),
           NEW c \in Callers, NEW kind \in Kinds, Start(c, kind)
    PROVE  ReleaseInv(w)'
  <1>1. c = w /\ object /\ ~isruning /\ pc[w] = "idle" /\ UNCHANGED <<object, pc, joins>>
    BY DEF Start, Calls, OneOwner, Kinds
  <1>2. ~InJoin(w) /\ ~InJoin(w)' /\ \A d \in Callers \ {w} : pc'[d] \in {"idle", "kill"}
    BY <1>1 DEF InJoin, ReleaseInv
  <1>3. ref \in Reference /\ Outside \in BOOLEAN
    BY ThreadAssumption DEF Lifetimes, TypeOK
  <1> DEFINE q == Prepared(kind)
  <1>4. q \in Reference /\ q.isjoined = Outside
    <2>1. q \in Reference
      BY <1>3, PreparedType
    <2> DEFINE r == Flagged(ref, ref.iscanceldelaystart /\ kind = "now",
                            ref.anyway_notify /\ kind = "now")
    <2>2. r \in Reference
      BY <1>3, FlaggedType
    <2>3. q = PreparedFrom(r)
      BY DEF Prepared, Flagged
    <2> HIDE DEF r, q
    <2>4. PreparedFrom(r).isjoined = Outside
      BY <1>3, <2>2 DEF PreparedFrom, Reference
    <2>. QED
      BY <2>1, <2>3, <2>4
  <1>5. CASE /\ counts' = [counts EXCEPT !.fails = @ + 1]
             /\ ref' = Removed([q EXCEPT !.isended = TRUE])
             /\ posix' = DetachOld
    <2> HIDE DEF q
    <2>1. counts'.fails # 0
      BY <1>5 DEF Lifetimes, TypeOK
    <2> DEFINE r == [q EXCEPT !.isended = TRUE]
    <2>2. r \in Reference /\ r.isjoined = Outside
      BY <1>4 DEF Reference
    <2>3. ref' = Removed(r)
      BY <1>5
    <2> HIDE DEF r
    <2>4. ref'.isjoined = Outside
      BY <2>2, <2>3 DEF Removed, Reference
    <2>. QED
      BY <1>1, <1>2, <2>1, <2>4 DEF ReleaseInv, InJoin
  <1>6. CASE /\ Len(posix) < MaxStarts
             /\ ref' = [q EXCEPT !.tid = Len(posix) + 1]
             /\ posix' = Append(DetachOld, Created(kind))
             /\ UNCHANGED counts
    <2> HIDE DEF q
    <2>1. ref'.isjoined = Outside /\ ref'.tid = Len(posix) + 1
      BY <1>4, <1>6 DEF Reference
    <2> DEFINE d == DetachOld
    <2>2. d \in Seq(PosixThread) /\ Len(d) = Len(posix) /\ DOMAIN d = DOMAIN posix
      BY DetachKeeps DEF SameUsers, Lifetimes
    <2>3. Created(kind) \in PosixThread /\ Created(kind).released = 0
      BY DEF Created, PosixThread
    <2>4. counts.fails = 0 => \A s \in DOMAIN d : d[s].released = IF Outside THEN 0 ELSE 1
      BY <1>1, <1>2, <2>2, DetachedExpected
    <2>5. posix' = Append(d, Created(kind))
      BY <1>6
    <2> HIDE DEF d
    <2>6. /\ DOMAIN posix' = 1..(Len(d) + 1) /\ DOMAIN d = 1..Len(d) /\ Len(d) \in Nat
          /\ \A i \in 1..Len(d) : posix'[i] = d[i]
          /\ posix'[Len(d) + 1] = Created(kind)
      BY <2>2, <2>3, <2>5, AppendProperties, LenProperties
    <2>7. ASSUME counts'.fails = 0, NEW s \in DOMAIN posix'
          PROVE  posix'[s].released = Expected(w, s)'
      <3>1. CASE s = Len(d) + 1
        BY <1>1, <1>2, <1>3, <2>1, <2>2, <2>3, <2>6, <3>1 DEF Expected
      <3>2. CASE s # Len(d) + 1
        <4>1. s \in DOMAIN d /\ s # ref'.tid /\ posix'[s] = d[s]
          BY <2>1, <2>2, <2>6, <3>2
        <4>2. posix'[s].released = IF Outside THEN 0 ELSE 1
          BY <1>6, <2>4, <2>7, <4>1
        <4>. QED
          BY <4>1, <4>2 DEF Expected
      <3>. QED
        BY <3>1, <3>2
    <2>. QED
      BY <1>1, <1>2, <2>1, <2>7 DEF ReleaseInv, InJoin
  <1>. QED
    BY <1>5, <1>6 DEF Start

LEMMA ReleaseDestroy ==
    ASSUME Lifetimes, NEW w \in Callers, OneOwner(w), ReleaseInv(w),
           NEW c \in Callers, Destroy(c)
    PROVE  ReleaseInv(w)'
  <1>1. /\ object /\ ~object' /\ pc[w] = "idle" /\ posix' = DetachOld /\ ref' = Removed(ref)
        /\ UNCHANGED <<pc, joins, counts>>
    BY DEF Destroy, Calls
  <1>2. ref'.tid = ref.tid /\ ref'.isjoined = ref.isjoined
    BY <1>1 DEF Removed, Lifetimes, TypeOK, Reference
  <1>3. DOMAIN posix' = DOMAIN posix
    BY <1>1, DetachKeeps DEF SameUsers, Lifetimes
  <1>4. ~InJoin(w) /\ ~InJoin(w)'
    BY <1>1 DEF InJoin
  <1>5. ASSUME counts'.fails = 0, NEW s \in DOMAIN posix'
        PROVE  posix'[s].released = Expected(w, s)'
    <2>1. posix'[s].released = IF Outside THEN 0 ELSE 1
      BY <1>1, <1>3, <1>4, <1>5, DetachedExpected
    <2>. QED
      BY <1>1, <2>1 DEF Expected
  <1>. QED
    BY <1>1, <1>2, <1>4, <1>5 DEF ReleaseInv, InJoin

LEMMA ReleaseCancel ==
    ASSUME Lifetimes, NEW w \in Callers, ReleaseInv(w), NEW c \in Callers, Cancel(c)
    PROVE  ReleaseInv(w)'
  <1>1. Using # {}
    BY Zenon DEF Cancel, Lifetimes, OneAtATime
  <1> DEFINE t == ref.tid
             x == posix[t]
             y == Cancelled(x)
  <1>2. t \in DOMAIN posix /\ x \in PosixThread
    BY <1>1, ThreadType DEF Lifetimes, OneAtATime, Using
  <1>3. ref'.tid = ref.tid /\ ref'.isjoined = ref.isjoined
    BY DEF Cancel, Lifetimes, TypeOK, Reference
  <1>4. posix' = [posix EXCEPT ![t] = y] /\ UNCHANGED <<object, pc, joins, counts>>
    BY DEF Cancel
  <1> HIDE DEF x
  <1>5. y.released = x.released
    BY <1>2 DEF Cancelled, PosixThread
  <1> HIDE DEF y
  <1>6. /\ DOMAIN posix' = DOMAIN posix
        /\ \A s \in DOMAIN posix : posix'[s].released = posix[s].released
    BY <1>2, <1>4, <1>5, SameReleases DEF x
  <1>. QED
    BY <1>3, <1>4, <1>6, ReleaseQuiet DEF ReleaseInv

LEMMA ReleaseKill ==
    ASSUME Lifetimes, NEW w \in Callers, ReleaseInv(w), NEW c \in Callers,
           Kill(c) \/ KillTid(c)
    PROVE  ReleaseInv(w)'
  <1>1. /\ pc[c] \in {"idle", "kill"} /\ UNCHANGED <<object, posix, joins>>
        /\ \/ pc' = pc
           \/ \E label \in {"idle", "kill"} : pc' = [pc EXCEPT ![c] = label]
    BY DEF Kill, KillTid, Calls
  <1>2. ref'.tid = ref.tid /\ ref'.isjoined = ref.isjoined /\ counts'.fails = counts.fails
    BY DEF Kill, KillTid, Lifetimes, TypeOK, Reference
  <1>3. pc \in [Callers -> {"idle", "join", "joining", "kill"}]
    BY DEF Lifetimes, TypeOK
  <1>4. pc'[w] = pc[w] \/ (pc[w] \in {"idle", "kill"} /\ pc'[w] \in {"idle", "kill"})
    BY <1>1, <1>3
  <1>5. \A d \in Callers \ {w} : pc'[d] \in {"idle", "kill"}
    BY <1>1, <1>3 DEF ReleaseInv
  <1>. QED
    BY <1>1, <1>2, <1>4, <1>5, ReleaseQuiet

LEMMA ReleaseJoin ==
    ASSUME Lifetimes, NEW w \in Callers, OneOwner(w), ReleaseInv(w),
           NEW c \in Callers, Join(c)
    PROVE  ReleaseInv(w)'
  <1>1. c = w /\ pc[w] = "idle" /\ object /\ ~Outside /\ isruning /\ ~ref.isjoined
        /\ UNCHANGED <<object, posix, joins, counts>>
    BY DEF Join, Calls, OneOwner
  <1>2. pc'[w] = "join" /\ \A d \in Callers \ {w} : pc'[d] = pc[d]
    BY <1>1 DEF Join, Lifetimes, TypeOK
  <1>3. ref'.tid = ref.tid /\ ref'.isjoined = TRUE
    BY DEF Join, Lifetimes, TypeOK, Reference
  <1>4. ref.tid \in DOMAIN posix
    <2>1. Using # {}
      BY <1>1, Zenon DEF Lifetimes, OneAtATime
    <2>. QED
      BY <2>1 DEF Lifetimes, OneAtATime, Using
  <1>5. \A t : Expected(w, t)' = Expected(w, t)
    BY <1>1, <1>2, <1>3 DEF Expected, InJoin
  <1>. QED
    BY <1>1, <1>2, <1>3, <1>4, <1>5 DEF ReleaseInv, InJoin

LEMMA ReleaseJoinTid ==
    ASSUME Lifetimes, NEW w \in Callers, ReleaseInv(w), NEW c \in Callers, JoinTid(c)
    PROVE  ReleaseInv(w)'
  <1>1. c = w /\ InJoin(w) /\ UNCHANGED <<object, ref, posix, counts>>
    BY DEF JoinTid, ReleaseInv, InJoin
  <1>2. pc'[w] = "joining" /\ joins'[w] = ref.tid /\ \A d \in Callers \ {w} : pc'[d] = pc[d]
    BY <1>1 DEF JoinTid, Lifetimes, TypeOK
  <1>3. \A t : Expected(w, t)' = Expected(w, t)
    BY <1>1, <1>2 DEF Expected, InJoin
  <1>. QED
    BY <1>1, <1>2, <1>3 DEF ReleaseInv, InJoin

LEMMA ReleaseJoined ==
    ASSUME Lifetimes, NEW w \in Callers, ReleaseInv(w), NEW c \in Callers, Joined(c)
    PROVE  ReleaseInv(w)'
  <1>1. c = w /\ InJoin(w) /\ joins[w] = ref.tid /\ UNCHANGED <<object, ref, counts>>
    BY DEF Joined, ReleaseInv, InJoin
  <1>2. posix' = Released(posix, ref.tid) /\ posix \in Seq(PosixThread)
    BY <1>1 DEF Joined, Lifetimes, TypeOK
  <1>3. pc'[w] = "idle" /\ \A d \in Callers \ {w} : pc'[d] = pc[d]
    BY <1>1 DEF Joined, Lifetimes, TypeOK
  <1>4. DOMAIN posix' = DOMAIN posix
    BY <1>2, ReleasedKeeps DEF SameUsers
  <1>5. ASSUME counts'.fails = 0, NEW s \in DOMAIN posix'
        PROVE  posix'[s].released = Expected(w, s)'
    <2>1. posix[s].released = Expected(w, s)
      BY <1>1, <1>4, <1>5 DEF ReleaseInv
    <2>2. posix'[s].released = IF s = ref.tid THEN posix[s].released + 1
                               ELSE posix[s].released
      BY <1>2, <1>4, <1>5, ReleasedCount
    <2>3. object /\ ~Outside /\ ref.isjoined
      BY <1>1 DEF ReleaseInv
    <2>. QED
      BY <1>1, <1>3, <2>1, <2>2, <2>3 DEF Expected, InJoin
  <1>. QED
    BY <1>1, <1>3, <1>5 DEF ReleaseInv, InJoin

LEMMA ReleaseNext ==
    ASSUME NEW w \in Callers, OneOwner(w)
    PROVE  Lifetimes /\ ReleaseInv(w) /\ [Next]_vars => ReleaseInv(w)'
  <1> SUFFICES ASSUME Lifetimes, ReleaseInv(w), [Next]_vars PROVE ReleaseInv(w)'
    OBVIOUS
  <1>1. ASSUME NEW t \in Tids, Routine(t) PROVE ReleaseInv(w)'
    BY <1>1, ReleaseRoutine
  <1>2. ASSUME NEW c \in Callers, Call(c) \/ Returns(c) PROVE ReleaseInv(w)'
    BY <1>2, ReleaseStart, ReleaseCancel, ReleaseJoin, ReleaseKill, ReleaseDestroy,
       ReleaseJoinTid, ReleaseJoined DEF Call, Returns
  <1>3. CASE UNCHANGED vars
    BY <1>3 DEF vars, ReleaseInv, InJoin, Expected
  <1>. QED
    BY <1>1, <1>2, <1>3 DEF Next

LEMMA ReleaseKept ==
    ASSUME NEW w \in Callers PROVE Lifetimes /\ ReleaseInv(w) => ReleasedOnce
  BY DEF ReleaseInv, ReleasedOnce, Expected

\* When one caller starts, joins and destroys the object, every POSIX thread is
\* joined or detached at most once, and exactly once when the object is gone,
\* whatever number of others cancel and kill: as long as pthread_create has
\* never failed (start, join, ~Thread and their tests of tid() and isjoined).
THEOREM ReleasedOnceAlways ==
    ASSUME NEW w \in Callers, OneOwner(w)
    PROVE  Spec => []ReleasedOnce
  <1>1. Init => ReleaseInv(w)
    BY ReleaseInit
  <1>2. Lifetimes /\ ReleaseInv(w) /\ [Next]_vars => ReleaseInv(w)'
    BY ReleaseNext
  <1>3. Lifetimes /\ ReleaseInv(w) => ReleasedOnce
    BY ReleaseKept
  <1>. QED
    BY <1>1, <1>2, <1>3, LifetimesInit, LifetimesNext, PTL DEF Spec

=============================================================================
