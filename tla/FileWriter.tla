----------------------------- MODULE FileWriter -----------------------------
(***************************************************************************)
(* The Java side of KLog's writing: threads post messages to a queue and   *)
(* signal a condition, one thread takes them and calls the native code     *)
(* (writer/FileWriter.kt), the message objects go through a pool           *)
(* (util/BundleMessage.kt), and a caller may wait for its flush            *)
(* (LogService.kt, flushBlocking).                                         *)
(*                                                                         *)
(* Of a message's fields the model keeps `what`, the callback of a flush,  *)
(* and `by`, which stands for all the fields a write or a setting fills.   *)
(***************************************************************************)
EXTENDS Integers, Sequences, FiniteSets

CONSTANTS
    Posters,       \* the threads that log and flush
    Ops,           \* Ops[t]: the functions thread t uses
    Writer,        \* the WriteLogThread
    None,          \* null
    Objects,       \* the BundleMessage objects the heap has room for
    MaxPool,       \* MAX_POOL_SIZE
    LoadOutcomes,  \* {TRUE}: the library loads; with FALSE: it may not
    MaxQueue,      \* bounds of the exploration: waiting messages,
    MaxCalls       \* and flushBlocking calls per thread

Threads == Posters \cup {Writer}
Callbacks == [thread : Posters, call : 1..MaxCalls]
Message == [what : {"none", "WRITE", "FLUSH", "SETTING"},
            by : Threads \cup {None},
            callback : Callbacks \cup {None}]

\* A new object, and what recycleUnchecked resets one to but for `what`.
Blank == [what |-> "none", by |-> None, callback |-> None]

ASSUME ConstantsAssumption ==
    /\ Writer \notin Posters
    /\ None \notin Objects \cup Threads \cup Callbacks
    /\ Ops \in [Posters -> SUBSET {"write", "set", "flush", "flushBlocking"}]
    /\ LoadOutcomes \subseteq BOOLEAN
    /\ {MaxPool, MaxQueue, MaxCalls} \subseteq Nat

VARIABLES
    inited,   \* mInited
    loaded,   \* System.loadLibrary succeeded
    queue,    \* mQueue
    pool,     \* the list sPool
    fields,   \* the fields of every object
    owner,    \* the thread that holds `lock`
    pc,       \* where each thread is
    hand,     \* the object a thread has obtained and not queued yet
    asked,    \* the message a thread wants to post
    current,  \* the message the writer handles
    call,     \* how often a thread has called flushBlocking
    locked,   \* the AtomicBoolean of its running call
    permit    \* the thread's LockSupport permit

poolVars == <<pool, fields, hand>>
callVars == <<call, locked, permit>>
vars == <<inited, loaded, queue, poolVars, owner, pc, asked, current, callVars>>

Init ==
    /\ inited = FALSE /\ loaded = FALSE
    /\ queue = <<>> /\ pool = <<>>
    /\ fields = [o \in Objects |-> Blank]
    /\ owner = None
    /\ pc = [t \in Threads |-> IF t = Writer THEN "off" ELSE "idle"]
    /\ hand = [t \in Threads |-> None]
    /\ asked = [t \in Threads |-> Blank]
    /\ current = None
    /\ call = [t \in Posters |-> 0]
    /\ locked = [t \in Posters |-> FALSE] /\ permit = [t \in Posters |-> FALSE]

\* Where a thread is inside of postMessage.
PostLabels == {"obtain", "fill", "add", "try", "signalled"}

Goto(t, label) == pc' = [pc EXCEPT ![t] = label]

Elements(s) == {s[i] : i \in DOMAIN s}

-----------------------------------------------------------------------------
(* FileWriter.init: the thread starts, then the library loads or does not. *)

InitThread ==
    /\ pc[Writer] = "off"
    /\ Goto(Writer, "run")
    /\ UNCHANGED <<inited, loaded, queue, poolVars, owner, asked, current, callVars>>

\* mInited is set after the try whatever the catch did.
InitLibrary ==
    /\ pc[Writer] # "off" /\ ~inited
    /\ loaded' \in LoadOutcomes
    /\ inited' = TRUE
    /\ UNCHANGED <<queue, poolVars, owner, pc, asked, current, callVars>>

-----------------------------------------------------------------------------
(* postMessage(BundleMessage.obtain().apply { ... })                       *)

\* The bound on the queue.  One post more is let in while the writer waits and
\* nobody posts, so that the bound is never what keeps it asleep.
Room ==
    \/ Len(queue) + Cardinality({t \in Posters : pc[t] \in {"obtain", "fill", "add"}})
         < MaxQueue
    \/ pc[Writer] = "waiting" /\ \A t \in Posters : pc[t] \notin PostLabels

Ask(t, op, m) ==
    /\ pc[t] = "idle" /\ op \in Ops[t]
    /\ inited /\ Room
    /\ asked' = [asked EXCEPT ![t] = m]
    /\ Goto(t, "obtain")
    /\ UNCHANGED <<inited, loaded, queue, poolVars, owner, current, callVars>>

\* v, d, i, w, e; setLogLevel and the other settings, open and close; flush().
Write(t) == Ask(t, "write", [what |-> "WRITE", by |-> t, callback |-> None])
Set(t) == Ask(t, "set", [what |-> "SETTING", by |-> t, callback |-> None])
Flush(t) == Ask(t, "flush", [what |-> "FLUSH", by |-> None, callback |-> None])

\* The heap's objects that nobody refers to.
Free == Objects \ (Elements(pool) \cup Elements(queue) \cup {current}
                   \cup {hand[t] : t \in Threads})

\* Mutant: the head of the pool is read and not taken off.
ObtainShared(t) ==
    /\ pc[t] = "obtain"
    /\ IF pool # <<>>
       THEN hand' = [hand EXCEPT ![t] = Head(pool)] /\ UNCHANGED fields
       ELSE /\ Free # {}
            /\ LET new == CHOOSE o \in Free : TRUE
               IN  /\ hand' = [hand EXCEPT ![t] = new]
                   /\ fields' = [fields EXCEPT ![new] = Blank]
    /\ Goto(t, "fill")
    /\ UNCHANGED <<inited, loaded, queue, pool, owner, asked, current, callVars>>

\* The object from the head of the pool, or a new one.
Obtain(t) ==
    /\ pc[t] = "obtain"
    /\ IF pool # <<>>
       THEN /\ hand' = [hand EXCEPT ![t] = Head(pool)]
            /\ pool' = Tail(pool)
            /\ UNCHANGED fields
       ELSE /\ Free # {}
            /\ LET new == CHOOSE o \in Free : TRUE
               IN  /\ hand' = [hand EXCEPT ![t] = new]
                   /\ fields' = [fields EXCEPT ![new] = Blank]
            /\ UNCHANGED pool
    /\ Goto(t, "fill")
    /\ UNCHANGED <<inited, loaded, queue, owner, asked, current, callVars>>

\* Only the fields the message needs are set: `what` always, the others when
\* it has them.
Fill(t) ==
    /\ pc[t] = "fill"
    /\ LET m == asked[t]
           o == fields[hand[t]]
       IN  fields' = [fields EXCEPT ![hand[t]] =
             [what |-> m.what,
              by |-> IF m.by # None THEN m.by ELSE o.by,
              callback |-> IF m.callback # None THEN m.callback ELSE o.callback]]
    /\ Goto(t, "add")
    /\ UNCHANGED <<inited, loaded, queue, pool, hand, owner, asked, current, callVars>>

Add(t) ==
    /\ pc[t] = "add"
    /\ queue' = Append(queue, hand[t])
    /\ hand' = [hand EXCEPT ![t] = None]
    /\ Goto(t, "try")
    /\ UNCHANGED <<inited, loaded, pool, fields, owner, asked, current, callVars>>

\* Where a thread goes on when postMessage returns.
AfterPost(t) ==
    /\ Goto(t, CASE t = Writer                -> "run"
                 [] asked[t].callback # None  -> "check"
                 [] OTHER                     -> "idle")
    /\ asked' = [asked EXCEPT ![t] = Blank]

\* Mutant: only the first message of the queue signals.
TryLockOnce(t) ==
    /\ pc[t] = "try"
    /\ IF owner = None /\ Len(queue) = 1
       THEN /\ owner' = t
            /\ pc' = [pc EXCEPT ![t] = "signalled",
                                ![Writer] = IF @ = "waiting" THEN "woken" ELSE @]
            /\ UNCHANGED asked
       ELSE AfterPost(t) /\ UNCHANGED owner
    /\ UNCHANGED <<inited, loaded, queue, poolVars, current, callVars>>

\* With the lock, the condition is signalled; without it, nothing is done.
TryLock(t) ==
    /\ pc[t] = "try"
    /\ IF owner = None
       THEN /\ owner' = t
            /\ pc' = [pc EXCEPT ![t] = "signalled",
                                ![Writer] = IF @ = "waiting" THEN "woken" ELSE @]
            /\ UNCHANGED asked
       ELSE AfterPost(t) /\ UNCHANGED owner
    /\ UNCHANGED <<inited, loaded, queue, poolVars, current, callVars>>

Unlock(t) ==
    /\ pc[t] = "signalled"
    /\ owner' = None
    /\ AfterPost(t)
    /\ UNCHANGED <<inited, loaded, queue, poolVars, current, callVars>>

-----------------------------------------------------------------------------
(* LogService.flushBlocking                                                *)

FlushBlocking(t) ==
    /\ pc[t] = "idle" /\ "flushBlocking" \in Ops[t]
    /\ call[t] < MaxCalls
    /\ inited => Room
    /\ call' = [call EXCEPT ![t] = @ + 1]
    /\ locked' = [locked EXCEPT ![t] = TRUE]
    /\ asked' = [asked EXCEPT ![t] =
         [what |-> "FLUSH", by |-> None,
          callback |-> [thread |-> t, call |-> call[t] + 1]]]
    /\ Goto(t, IF inited THEN "obtain" ELSE "check")
    /\ UNCHANGED <<inited, loaded, queue, poolVars, owner, current, permit>>

\* if (locked.get()) parkNanos(...)
CheckLocked(t) ==
    /\ pc[t] = "check"
    /\ Goto(t, IF locked[t] THEN "parked" ELSE "idle")
    /\ UNCHANGED <<inited, loaded, queue, poolVars, owner, asked, current, callVars>>

\* parkNanos returns at once when the permit is there, whoever left it.
ParkReturns(t) ==
    /\ pc[t] = "parked" /\ permit[t]
    /\ permit' = [permit EXCEPT ![t] = FALSE]
    /\ locked' = [locked EXCEPT ![t] = FALSE]
    /\ Goto(t, "idle")
    /\ UNCHANGED <<inited, loaded, queue, poolVars, owner, asked, current, call>>

\* Mutant: the timed park waits for its flush whatever the time.
ParkUntilDone(t) ==
    /\ pc[t] = "parked" /\ ~permit[t] /\ ~locked[t]
    /\ Goto(t, "idle")
    /\ UNCHANGED <<inited, loaded, queue, poolVars, owner, asked, current, callVars>>

ParkTimeout(t) ==
    /\ pc[t] = "parked" /\ ~permit[t]
    /\ locked' = [locked EXCEPT ![t] = FALSE]
    /\ Goto(t, "idle")
    /\ UNCHANGED <<inited, loaded, queue, poolVars, owner, asked, current, call, permit>>

-----------------------------------------------------------------------------
(* WriteLogThread.run and handleMessage                                    *)

WriterRun ==
    /\ pc[Writer] = "run"
    /\ IF queue = <<>>
       THEN Goto(Writer, "empty") /\ UNCHANGED <<queue, current>>
       ELSE /\ current' = Head(queue)
            /\ queue' = Tail(queue)
            /\ Goto(Writer, "handle")
    /\ UNCHANGED <<inited, loaded, poolVars, owner, asked, callVars>>

WriterTryLock ==
    /\ pc[Writer] = "empty"
    /\ IF owner = None
       THEN owner' = Writer /\ Goto(Writer, "await")
       ELSE Goto(Writer, "run") /\ UNCHANGED owner
    /\ UNCHANGED <<inited, loaded, queue, poolVars, asked, current, callVars>>

\* await() releases the lock; nothing looks at the queue again before it.
WriterAwait ==
    /\ pc[Writer] = "await"
    /\ owner' = None
    /\ Goto(Writer, "waiting")
    /\ UNCHANGED <<inited, loaded, queue, poolVars, asked, current, callVars>>

WriterSpurious ==
    /\ pc[Writer] = "waiting"
    /\ Goto(Writer, "woken")
    /\ UNCHANGED <<inited, loaded, queue, poolVars, owner, asked, current, callVars>>

WriterRelock ==
    /\ pc[Writer] = "woken" /\ owner = None
    /\ owner' = Writer
    /\ Goto(Writer, "unlock")
    /\ UNCHANGED <<inited, loaded, queue, poolVars, asked, current, callVars>>

WriterUnlock ==
    /\ pc[Writer] = "unlock"
    /\ owner' = None
    /\ Goto(Writer, "run")
    /\ UNCHANGED <<inited, loaded, queue, poolVars, asked, current, callVars>>

\* Mutant: the object goes to the pool before its callback runs.
WriterHandleRecycled ==
    /\ pc[Writer] = "handle" /\ loaded
    /\ pool' = IF Len(pool) < MaxPool THEN <<current>> \o pool ELSE pool
    /\ Goto(Writer, IF fields[current].what = "FLUSH"
                       /\ fields[current].callback # None
                    THEN "callback" ELSE "reset")
    /\ UNCHANGED <<inited, loaded, queue, fields, hand, owner, asked, current, callVars>>

\* The native call, then the callback of a flush.
WriterHandle ==
    /\ pc[Writer] = "handle" /\ loaded
    /\ Goto(Writer, IF fields[current].what = "FLUSH"
                       /\ fields[current].callback # None
                    THEN "callback" ELSE "reset")
    /\ UNCHANGED <<inited, loaded, queue, poolVars, owner, asked, current, callVars>>

\* The arguments of a write, or the callback an application gave to flush, may
\* throw: run catches it and the object is not recycled.
WriterThrows ==
    /\ pc[Writer] = "handle" /\ loaded
    /\ fields[current].what # "SETTING" /\ fields[current].callback = None
    /\ current' = None
    /\ Goto(Writer, "run")
    /\ UNCHANGED <<inited, loaded, queue, poolVars, owner, asked, callVars>>

\* UnsatisfiedLinkError: the object is not recycled and the error is logged,
\* which posts a message to this very queue.
WriterUnlinked ==
    /\ pc[Writer] = "handle" /\ ~loaded
    /\ current' = None
    /\ asked' = [asked EXCEPT ![Writer] =
                   [what |-> "WRITE", by |-> Writer, callback |-> None]]
    /\ Goto(Writer, "obtain")
    /\ UNCHANGED <<inited, loaded, queue, poolVars, owner, callVars>>

\* The callback of flushBlocking: its own AtomicBoolean, but the thread's
\* only permit.
WriterCallback ==
    /\ pc[Writer] = "callback"
    /\ LET c == fields[current].callback
       IN  /\ permit' = [permit EXCEPT ![c.thread] = TRUE]
           /\ locked' = [locked EXCEPT ![c.thread] = @ /\ c.call # call[c.thread]]
    /\ Goto(Writer, "reset")
    /\ UNCHANGED <<inited, loaded, queue, poolVars, owner, asked, current, call>>

\* Mutant: the callback is not among the fields that are reset.
WriterResetSome ==
    /\ pc[Writer] = "reset"
    /\ fields' = [fields EXCEPT ![current].by = None]
    /\ Goto(Writer, "recycle")
    /\ UNCHANGED <<inited, loaded, queue, pool, hand, owner, asked, current, callVars>>

\* recycleUnchecked: everything but `what` is reset, with no lock ...
WriterReset ==
    /\ pc[Writer] = "reset"
    /\ fields' = [fields EXCEPT ![current] = [Blank EXCEPT !.what = fields[current].what]]
    /\ Goto(Writer, "recycle")
    /\ UNCHANGED <<inited, loaded, queue, pool, hand, owner, asked, current, callVars>>

\* ... then the object goes to the pool, if the pool has room.
WriterRecycle ==
    /\ pc[Writer] = "recycle"
    /\ pool' = IF Len(pool) < MaxPool THEN <<current>> \o pool ELSE pool
    /\ current' = None
    /\ Goto(Writer, "run")
    /\ UNCHANGED <<inited, loaded, queue, fields, hand, owner, asked, callVars>>

-----------------------------------------------------------------------------

Post(t) == Obtain(t) \/ Fill(t) \/ Add(t) \/ TryLock(t) \/ Unlock(t)

Blocked(t) == CheckLocked(t) \/ ParkReturns(t)

WriterStep ==
    \/ WriterRun \/ WriterTryLock \/ WriterAwait \/ WriterRelock \/ WriterUnlock
    \/ WriterHandle \/ WriterUnlinked \/ WriterCallback
    \/ WriterReset \/ WriterRecycle

Request(t) == Write(t) \/ Set(t) \/ Flush(t) \/ FlushBlocking(t)

Next ==
    \/ InitThread \/ InitLibrary
    \/ \E t \in Posters : Request(t) \/ Blocked(t) \/ ParkTimeout(t)
    \/ \E t \in Threads : Post(t)
    \/ WriterStep \/ WriterThrows \/ WriterSpurious

Spec == Init /\ [][Next]_vars

\* Every thread that can run does; tryLock is not fair to anyone.  A park ends
\* with its timeout.  A spurious wakeup may never come.
Fairness ==
    /\ \A t \in Threads : WF_vars(Post(t))
    /\ \A t \in Posters : WF_vars(Blocked(t)) /\ WF_vars(ParkTimeout(t))
    /\ WF_vars(WriterStep)

FairSpec == Spec /\ Fairness

\* An application that goes on logging.
BusySpec == FairSpec /\ WF_vars(\E t \in Posters : Write(t))

-----------------------------------------------------------------------------
(* What FileWriter guarantees.                                             *)

\* A BundleMessage is in one place: in the pool, in one thread's hands, in the
\* queue or with the writer; so nobody fills an object another thread reads.
NoAliasing ==
    /\ \A i, j \in DOMAIN pool : pool[i] = pool[j] => i = j
    /\ \A i, j \in DOMAIN queue : queue[i] = queue[j] => i = j
    /\ Elements(pool) \cap Elements(queue) = {}
    /\ current \notin Elements(pool) \cup Elements(queue)
    /\ \A t \in Threads : hand[t] # None =>
         /\ hand[t] \notin Elements(pool) \cup Elements(queue) \cup {current}
         /\ \A u \in Threads : u # t => hand[u] # hand[t]

\* A message is posted with what its caller asked for and nothing of the
\* message its object carried before: a flush without a callback does not run
\* the callback of an earlier one.
PostedAsAsked ==
    \A t \in Threads : pc[t] = "add" => fields[hand[t]] = asked[t]

\* The queue, the pool and the writer implement the abstract mailbox: the
\* writer handles the messages one at a time, in order, as they were posted.
Box == INSTANCE Mailbox
    WITH Messages <- Message, Nothing <- None,
         box <- [i \in DOMAIN queue |-> fields[queue[i]]],
         out <- IF pc[Writer] \in {"handle", "callback", "reset"}
                THEN fields[current] ELSE None
ImplementsMailbox == Box!Spec

\* While somebody goes on logging, the queue is emptied or its head is handled
\* again and again, so that every message is handled in the end (the queue is
\* in order): a lost wakeup lasts until the next post.
MessagesLeave == []<>(queue = <<>> \/ pc[Writer] = "handle")

\* flushBlocking returns even when its flush is never handled.
FlushBlockingReturns ==
    \A t \in Posters : (pc[t] = "parked") ~> (pc[t] = "idle")

-----------------------------------------------------------------------------
(* What comments and documents say, and the code does not.                 *)

\* ILogService.kt:36: an asynchronous flush makes sure that all the cached log
\* is output: a flush that was posted is handled.
FlushIsHandled ==
    \A o \in Objects :
        (o \in Elements(queue) /\ fields[o].what = "FLUSH")
            ~> (o \notin Elements(queue))
=============================================================================
