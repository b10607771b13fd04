---------------------------- MODULE MessageQueue ----------------------------
(***************************************************************************)
(* The message queue of comm/messagequeue: one queue with the thread that  *)
(* runs its loop (and, inside a handler, nested loops), and the threads    *)
(* that post, cancel and wait.                                             *)
(*                                                                         *)
(* Every function takes sg_messagequeue_map_mutex for all it does, so a    *)
(* function is one step; CancelAndWait, Stop and ReleaseNewMessageQueue    *)
(* are several functions.                                                  *)
(* Handlers run without the mutex.  Delays have no length here: a delayed  *)
(* message becomes due at some moment, whatever the others do.  A wait of  *)
(* Condition is taken to end by a notification only.                       *)
(***************************************************************************)
EXTENDS Naturals, Sequences, SequencesExt

CONSTANTS
    Clients, Queue,  \* the threads that use the queue, its own thread
    Ops,             \* Ops[a]: the functions thread a uses
    Budget,          \* Budget[a]: how often; a bound of the exploration
    Handlers,
    Async,           \* the handler installed with the queue
    Receivers,       \* the handlers with recvbroadcast
    Everyone,        \* the receiver of a broadcast, seq 0
    Titles,
    Timings,         \* the timings of messages: kImmediately, kAfter, kPeriod
    MaxMessages, MaxLoops, MaxPeriods  \* bounds of the exploration

ASSUME MessageQueueAssumption ==
    /\ Queue \notin Clients
    /\ Async \in Handlers /\ Receivers \subseteq Handlers /\ Everyone \notin Handlers
    /\ Timings \subseteq {"now", "after", "periodic"}
    /\ {MaxMessages, MaxLoops, MaxPeriods} \subseteq Nat

VARIABLES
    thread,     \* the queue's thread: off, running or ended
    alive,      \* the queue is in sg_messagequeue_map
    breakflag,
    wraps,      \* every MessageWrapper created, freed or not
    list,       \* lst_message, as indices of wraps.  Messages are only added at
                \* its end, so it is in the order of the indices
    installed,  \* lst_handler, in the order of known,
    known,      \* the handlers that have ever been installed
    loops,      \* lst_runloop_info, with where each loop is
    pc, target, \* where each client is, and what it waits for
    calls,      \* how many functions each thread has called (history)
    stopped,    \* handlers whose CancelAndWait has returned (history)
    replaced    \* posts that another message took over (history)

handlerVars == <<installed, known, stopped>>
vars == <<thread, alive, breakflag, wraps, list, loops, pc, target, replaced, calls, handlerVars>>

NoPost == 0
\* What a client waits for, and where it goes on.
NoTarget == [cond |-> "none", at |-> 0, post |-> NoPost, handler |-> Everyone, then |-> "idle"]
NewLoop(post) ==
    [at |-> "top", wrap |-> 0, post |-> NoPost, running |-> {}, todo |-> {}, until |-> post]

Init ==
    /\ thread = "off" /\ alive = FALSE /\ breakflag = FALSE
    /\ wraps = <<>> /\ list = {} /\ installed = {} /\ known = <<>> /\ loops = <<>>
    /\ pc = [c \in Clients |-> "idle"] /\ target = [c \in Clients |-> NoTarget]
    /\ stopped = {} /\ replaced = {} /\ calls = [a \in Clients \cup {Queue} |-> 0]

First(i, S) == i \in S /\ \A j \in S : i <= j
Level == Len(loops)
TopIs(label) == loops # <<>> /\ loops[Level].at = label
SetTop(r) == loops' = [loops EXCEPT ![Level] = r]

-----------------------------------------------------------------------------
(* Pieces the functions share                                              *)

\* A client calls when it is idle, the queue's thread from inside a handler.
Calls(a, op) ==
    /\ op \in Ops[a] /\ calls[a] < Budget[a] /\ calls' = [calls EXCEPT ![a] = @ + 1]
    /\ IF a = Queue THEN TopIs("in") ELSE pc[a] = "idle"

\* breaker->Notify: the loop that waits goes on.
Notified == IF TopIs("waiting") THEN [loops EXCEPT ![Level].at = "top"] ELSE loops

\* Mutant: one condition for all.
WokenAll(cond, at) ==
    [c \in Clients |-> IF pc[c] = "blocked" /\ target[c].cond = cond THEN "woken" ELSE pc[c]]

\* The clients that wait on a condition when it is notified.
Woken(cond, at) ==
    [c \in Clients |-> IF pc[c] = "blocked" /\ target[c].cond = cond /\ target[c].at \in at
                       THEN "woken" ELSE pc[c]]

\* delete: ~MessageWrapper notifies wait_end_cond.
Deleted(ws, gone) ==
    [w \in DOMAIN ws |-> IF w \in gone THEN [ws[w] EXCEPT !.freed = TRUE] ELSE ws[w]]

\* Erase these messages of the list.
Erase(gone) ==
    /\ wraps' = Deleted(wraps, gone)
    /\ list' = list \ gone
    /\ pc' = Woken("end", gone)

\* Take these messages out and put a new one at the end.
Push(message, gone) ==
    /\ alive /\ Len(wraps) < MaxMessages
    /\ wraps' = Append(Deleted(wraps, gone), message)
    /\ list' = (list \ gone) \cup {Len(wraps) + 1}
    /\ pc' = Woken("end", gone)
    /\ loops' = Notified
    /\ UNCHANGED <<thread, alive, breakflag, target, handlerVars>>

NewPost == Len(wraps) + 1
Message(post, to, title, kind) ==
    [post |-> post, to |-> to, title |-> title, kind |-> kind, due |-> kind = "now",
     freed |-> FALSE, runs |-> 0]

\* The messages in the list with this handler and this title.
Same(h, title) == {w \in list : wraps[w].to = h /\ wraps[w].title = title}

-----------------------------------------------------------------------------
(* Posting                                                                 *)

PostMessage(a, h, title, kind) ==
    /\ Calls(a, "post") /\ Push(Message(NewPost, h, title, kind), {})
    /\ UNCHANGED replaced

BroadcastMessage(a, title, kind) ==
    /\ Calls(a, "broadcast") /\ Push(Message(NewPost, Everyone, title, kind), {})
    /\ UNCHANGED replaced

\* The new message takes over the post id of the old one.
Replace(old, h, title, kind) ==
    /\ Push(Message(wraps[old].post, h, title, kind), {old})
    /\ replaced' = replaced \cup {wraps[old].post}

SingletonMessage(a, h, title, kind) ==
    /\ Calls(a, "singleton")
    /\ \/ /\ Same(h, title) = {}
          /\ Push(Message(NewPost, h, title, kind), {}) /\ UNCHANGED replaced
       \/ \E old \in Same(h, title) :
             First(old, Same(h, title)) /\ Replace(old, h, title, kind)

\* The one of the two that waits less stays.  An immediate message waits for
\* nothing, and so does one that is due.
FasterMessage(a, h, title, kind) ==
    /\ Calls(a, "faster")
    /\ \/ /\ Same(h, title) = {}
          /\ Push(Message(NewPost, h, title, kind), {}) /\ UNCHANGED replaced
       \/ \E old \in Same(h, title) :
             /\ First(old, Same(h, title))
             /\ kind = "now" \/ ~wraps[old].due
             /\ Replace(old, h, title, kind)

Posting(a) ==
    \E title \in Titles, kind \in Timings :
        \/ BroadcastMessage(a, title, kind)
        \/ \E h \in ToSet(known) : \/ PostMessage(a, h, title, kind)
                                   \/ SingletonMessage(a, h, title, kind)
                                   \/ FasterMessage(a, h, title, kind)

-----------------------------------------------------------------------------
(* Cancelling, handlers, break                                             *)

CancelMessage(a, gone) ==
    /\ Calls(a, "cancel") /\ gone # {}
    /\ Erase(gone)
    /\ UNCHANGED <<thread, alive, breakflag, loops, target, replaced, handlerVars>>

\* CancelMessage by post, by handler, by handler and title; 0 as the handler
\* stands for the broadcasts.
Cancelling(a) ==
    \/ \E w \in list : CancelMessage(a, {w})
    \/ \E h \in ToSet(known) \cup {Everyone} :
         \/ CancelMessage(a, {w \in list : wraps[w].to = h})
         \/ \E t \in Titles : CancelMessage(a, {w \in list : wraps[w].to = h /\ wraps[w].title = t})

InstallMessageHandler(a, h) ==
    /\ Calls(a, "install") /\ alive /\ h \in Handlers \ ToSet(known)
    /\ installed' = installed \cup {h} /\ known' = Append(known, h)
    /\ UNCHANGED <<thread, alive, breakflag, wraps, list, loops, pc, target, stopped, replaced>>

UnInstall(h) == installed' = installed \ {h}

UnInstallMessageHandler(a, h) ==
    /\ Calls(a, "uninstall") /\ h \in installed
    /\ UnInstall(h)
    /\ UNCHANGED <<thread, alive, breakflag, wraps, list, loops, pc, target, known, stopped,
                   replaced>>

BreakMessageQueueRunloop(a) ==
    /\ Calls(a, "break") /\ alive /\ ~breakflag
    /\ breakflag' = TRUE /\ loops' = Notified
    /\ UNCHANGED <<thread, alive, wraps, list, pc, target, replaced, handlerVars>>

-----------------------------------------------------------------------------
(* Waiting                                                                 *)

Block(c, t) == pc' = [pc EXCEPT ![c] = "blocked"] /\ target' = [target EXCEPT ![c] = t]

\* The loops that handle this post, or have handled it last.
Running(post) == {i \in DOMAIN loops : loops[i].post = post}

\* It waits for the end of the iteration of the outermost of these loops.
BlockRun(c, at, t) ==
    \E i \in at : First(i, at) /\ Block(c, [t EXCEPT !.cond = "run", !.at = i])

\* The message with this post in the list; 0: none.
Pending(post) ==
    IF \E w \in list : wraps[w].post = post
    THEN CHOOSE w \in list : wraps[w].post = post ELSE 0

\* WaitMessage of another thread: for the end of the wrapper while it is in the
\* list, for the end of the iteration when it is running.
WaitMessage(c, post) ==
    /\ Calls(c, "wait") /\ alive
    /\ LET t == [NoTarget EXCEPT !.post = post]
       IN  IF Pending(post) # 0
           THEN Block(c, [t EXCEPT !.cond = "end", !.at = Pending(post)])
           ELSE BlockRun(c, Running(post), t)
    /\ UNCHANGED <<thread, alive, breakflag, wraps, list, loops, replaced, handlerVars>>

\* WaitMessage in a handler: a loop of its own, until the message is not in the
\* list any more.
WaitInQueue(post) ==
    /\ Calls(Queue, "wait") /\ Level < MaxLoops /\ Pending(post) # 0
    /\ loops' = Append(loops, NewLoop(post))
    /\ UNCHANGED <<thread, alive, breakflag, wraps, list, pc, target, replaced, handlerVars>>

\* Mutant: a handler of a broadcast is not looked for.
WaitForRunningMessage(c, h) ==
    LET at == {i \in DOMAIN loops : h \in loops[i].running /\ wraps[loops[i].wrap].to = h}
        t == [NoTarget EXCEPT !.handler = h]
    IN  IF at # {} THEN BlockRun(c, at, t)
        ELSE pc' = [pc EXCEPT ![c] = "woken"] /\ target' = [target EXCEPT ![c] = t]

\* WaitForRunningLockEnd(handler).
WaitForRunning(c, h) ==
    LET at == {i \in DOMAIN loops : h \in loops[i].running}
        t == [NoTarget EXCEPT !.handler = h]
    IN  IF at # {} THEN BlockRun(c, at, t)
        ELSE pc' = [pc EXCEPT ![c] = "woken"] /\ target' = [target EXCEPT ![c] = t]

\* WaitForRunningLockEnd(post): for a message that is being handled.
WaitForRunningPost(c, post) ==
    /\ Calls(c, "waitRunning")
    /\ BlockRun(c, Running(post), [NoTarget EXCEPT !.post = post])
    /\ UNCHANGED <<thread, alive, breakflag, wraps, list, loops, replaced, handlerVars>>

\* WaitForRunningLockEnd(queue): for the outermost loop, if it handles something.
WaitForRunningQueue(c, then) ==
    IF loops # <<>> /\ loops[1].post # NoPost
    THEN Block(c, [NoTarget EXCEPT !.cond = "run", !.at = 1, !.then = then])
    ELSE pc' = [pc EXCEPT ![c] = then] /\ UNCHANGED target

\* ScopeRegister::CancelAndWait, three functions one after the other.
CancelAndWait(c, h) ==
    /\ Calls(c, "cancelAndWait") /\ h \in ToSet(known)
    /\ UnInstall(h)
    /\ pc' = [pc EXCEPT ![c] = "cancel"]
    /\ target' = [target EXCEPT ![c] = [NoTarget EXCEPT !.handler = h]]
    /\ UNCHANGED <<thread, alive, breakflag, wraps, list, loops, known, stopped, replaced>>

CancelThenWait(c) ==
    \/ /\ pc[c] = "cancel"
       /\ LET gone == {w \in list : wraps[w].to = target[c].handler}
          IN  /\ wraps' = Deleted(wraps, gone) /\ list' = list \ gone
              /\ pc' = [Woken("end", gone) EXCEPT ![c] = "wait"]
       /\ UNCHANGED <<calls, thread, alive, breakflag, loops, target, replaced, handlerVars>>
    \/ /\ pc[c] = "wait"
       /\ WaitForRunning(c, target[c].handler)
       /\ UNCHANGED <<calls, thread, alive, breakflag, wraps, list, loops, replaced, handlerVars>>

\* A blocked function returns.
Return(c) ==
    /\ pc[c] = "woken"
    /\ pc' = [pc EXCEPT ![c] = target[c].then] /\ target' = [target EXCEPT ![c] = NoTarget]
    /\ stopped' = IF target[c].handler = Everyone THEN stopped
                  ELSE stopped \cup {target[c].handler}
    /\ UNCHANGED <<calls, thread, alive, breakflag, wraps, list, installed, known, loops, replaced>>

\* ReleaseNewMessageQueue breaks the queue off, waits for what it handles, and joins.
ReleaseNewMessageQueue(c) ==
    /\ Calls(c, "release") /\ alive /\ ~breakflag
    /\ breakflag' = TRUE /\ loops' = Notified
    /\ pc' = [pc EXCEPT ![c] = "release"]
    /\ UNCHANGED <<thread, alive, wraps, list, target, replaced, handlerVars>>

ReleaseThenWait(c) ==
    /\ pc[c] = "release"
    /\ WaitForRunningQueue(c, "join")
    /\ UNCHANGED <<calls, thread, alive, breakflag, wraps, list, loops, replaced, handlerVars>>

\* MessageQueueCreater::CancelAndWait.
Stop(c) ==
    /\ Calls(c, "stop") /\ alive /\ ~breakflag
    /\ breakflag' = TRUE /\ loops' = Notified
    /\ pc' = [pc EXCEPT ![c] = "join"]
    /\ UNCHANGED <<thread, alive, wraps, list, target, replaced, handlerVars>>

Join(c) ==
    /\ pc[c] = "join" /\ thread = "ended"
    /\ pc' = [pc EXCEPT ![c] = "idle"]
    /\ UNCHANGED <<calls, thread, alive, breakflag, wraps, list, loops, target, replaced, handlerVars>>

-----------------------------------------------------------------------------
(* The queue's thread: RunLoop::Run                                        *)

CreateMessageQueueInfo == alive' = TRUE /\ installed' = {Async} /\ known' = <<Async>>

\* CreateMessageQueue: the thread waits for messagequeue_mutex_ until the queue
\* is in the map with its first handler.
CreateMessageQueue(c) ==
    /\ Calls(c, "create") /\ thread = "off"
    /\ thread' = "running" /\ CreateMessageQueueInfo
    /\ UNCHANGED <<breakflag, wraps, list, loops, pc, target, stopped, replaced>>

RunLoop ==
    /\ thread = "running" /\ loops = <<>>
    /\ loops' = <<NewLoop(NoPost)>>
    /\ UNCHANGED <<calls, thread, alive, breakflag, wraps, list, pc, target, replaced, handlerVars>>

\* What ends the loop: the flag, or breaker_func_ of a nested one.
Breaks == breakflag \/ (loops[Level].until # NoPost /\ Pending(loops[Level].until) = 0)

\* Mutant: the messages left in the list let go of nobody.
LoopBreakSilently ==
    /\ TopIs("top") /\ Breaks
    /\ loops' = Front(loops)
    /\ pc' = Woken("run", {Level})
    /\ IF Level > 1 THEN UNCHANGED <<thread, alive, wraps, list, installed>>
       ELSE /\ wraps' = Deleted(wraps, list)
            /\ list' = {} /\ installed' = {} /\ alive' = FALSE /\ thread' = "ended"
    /\ UNCHANGED <<calls, breakflag, target, known, stopped, replaced>>

\* An iteration starts by notifying who waits for the end of the last one.
LoopBreak ==
    /\ TopIs("top") /\ Breaks
    /\ loops' = Front(loops)
    /\ IF Level > 1
       THEN /\ pc' = Woken("run", {Level})
            /\ UNCHANGED <<thread, alive, wraps, list, installed>>
       ELSE /\ wraps' = Deleted(wraps, list)
            /\ list' = {} /\ installed' = {} /\ alive' = FALSE /\ thread' = "ended"
            /\ pc' = [c \in Clients |->
                        IF "woken" \in {Woken("run", {1})[c], Woken("end", list)[c]}
                        THEN "woken" ELSE pc[c]]
    /\ UNCHANGED <<calls, breakflag, target, known, stopped, replaced>>

Due == {w \in list : wraps[w].due}

LoopWait ==
    /\ TopIs("top") /\ ~Breaks /\ Due = {}
    /\ SetTop([NewLoop(loops[Level].until) EXCEPT !.at = "waiting"])
    /\ pc' = Woken("run", {Level})
    /\ UNCHANGED <<calls, thread, alive, breakflag, wraps, list, target, replaced, handlerVars>>

\* The wait ends by its timeout: a message is due, or ten minutes are over.
LoopTimeout ==
    /\ TopIs("waiting")
    /\ SetTop([loops[Level] EXCEPT !.at = "top"])
    /\ UNCHANGED <<calls, thread, alive, breakflag, wraps, list, pc, target, replaced, handlerVars>>

Fits(w, h) == wraps[w].to = h \/ (wraps[w].to = Everyone /\ h \in Receivers)

\* fit_handler: the handlers that are there when the message is taken.
Handling(w) ==
    LET fit == {h \in installed : Fits(w, h)}
    IN  SetTop([loops[Level] EXCEPT !.at = "handle", !.wrap = w, !.post = wraps[w].post,
                  !.running = fit, !.todo = fit])

\* Mutant: the message stays in the list while it is handled.
LoopTakeStays ==
    /\ TopIs("top") /\ ~Breaks
    /\ \E w \in Due :
        /\ First(w, Due) /\ Handling(w)
        /\ wraps' = [wraps EXCEPT ![w].runs = @ + 1, ![w].due = FALSE]
    /\ pc' = Woken("run", {Level})
    /\ UNCHANGED <<calls, thread, alive, breakflag, list, target, replaced, handlerVars>>

\* The first message of the list that is due; a periodic one stays in the list.
LoopTake ==
    /\ TopIs("top") /\ ~Breaks
    /\ \E w \in Due :
        /\ First(w, Due) /\ Handling(w)
        /\ wraps' = [wraps EXCEPT ![w].runs = @ + 1, ![w].due = FALSE]
        /\ list' = IF wraps[w].kind = "periodic" THEN list ELSE list \ {w}
    /\ pc' = Woken("run", {Level})
    /\ UNCHANGED <<calls, thread, alive, breakflag, target, replaced, handlerVars>>

LoopInvoke ==
    /\ TopIs("handle") /\ loops[Level].todo # {}
    /\ SetTop([loops[Level] EXCEPT !.at = "in"])
    /\ UNCHANGED <<calls, thread, alive, breakflag, wraps, list, pc, target, replaced, handlerVars>>

\* They are called in the order in which they were installed.
HandlerReturns ==
    /\ TopIs("in")
    /\ \E i \in DOMAIN known :
         /\ First(i, {j \in DOMAIN known : known[j] \in loops[Level].todo})
         /\ SetTop([loops[Level] EXCEPT !.at = "handle", !.todo = @ \ {known[i]}])
    /\ UNCHANGED <<calls, thread, alive, breakflag, wraps, list, pc, target, replaced, handlerVars>>

\* delete messagewrapper, unless it is still in the list.
LoopDelete ==
    /\ TopIs("handle") /\ loops[Level].todo = {}
    /\ LET w == loops[Level].wrap
           gone == IF wraps[w].kind = "periodic" THEN {} ELSE {w}
       IN  wraps' = Deleted(wraps, gone) /\ pc' = Woken("end", gone)
    /\ SetTop([loops[Level] EXCEPT !.at = "top"])
    /\ UNCHANGED <<calls, thread, alive, breakflag, list, target, replaced, handlerVars>>

\* Time: a delayed message, or the next turn of a periodic one, becomes due.
Elapse(w) ==
    /\ w \in list /\ ~wraps[w].due
    /\ wraps[w].runs < MaxPeriods
    /\ wraps' = [wraps EXCEPT ![w].due = TRUE]
    /\ UNCHANGED <<calls, thread, alive, breakflag, list, loops, pc, target, replaced, handlerVars>>

-----------------------------------------------------------------------------

LoopStep ==
    \/ RunLoop \/ LoopBreak \/ LoopWait \/ LoopTimeout \/ LoopTake \/ LoopInvoke
    \/ HandlerReturns \/ LoopDelete

ClientStep(c) == CancelThenWait(c) \/ ReleaseThenWait(c) \/ Return(c) \/ Join(c)

Call(a) ==
    \/ Posting(a) \/ Cancelling(a) \/ BreakMessageQueueRunloop(a)
    \/ \E h \in Handlers : InstallMessageHandler(a, h) \/ UnInstallMessageHandler(a, h)

Blocking(c) ==
    \/ CreateMessageQueue(c) \/ Stop(c) \/ ReleaseNewMessageQueue(c)
    \/ \E w \in DOMAIN wraps : WaitMessage(c, wraps[w].post) \/ WaitForRunningPost(c, wraps[w].post)
    \/ \E h \in Handlers : CancelAndWait(c, h)

Next ==
    \/ \E a \in Clients \cup {Queue} : Call(a)
    \/ \E c \in Clients : Blocking(c) \/ ClientStep(c)
    \/ \E w \in DOMAIN wraps : WaitInQueue(wraps[w].post) \/ Elapse(w)
    \/ LoopStep

\* The threads run, handlers return, time passes.
Fairness ==
    /\ WF_vars(LoopStep)
    /\ \A c \in Clients : WF_vars(ClientStep(c))
    /\ \A w \in 1..MaxMessages : WF_vars(w \in DOMAIN wraps /\ Elapse(w))

Spec == Init /\ [][Next]_vars
FairSpec == Spec /\ Fairness

-----------------------------------------------------------------------------
(* Properties                                                              *)

\* The list holds messages that exist, one for each post id, also after one
\* message took over the id of another; and a message is not deleted while its
\* handlers run, and is handled once, unless it is periodic: that one stays in
\* the list, where every cancellation reaches it (RunLoop::Run, CancelMessage,
\* SingletonMessage).
HandledIsAlive ==
    /\ \A v, w \in list : wraps[v].post = wraps[w].post => v = w
    /\ \A w \in list : ~wraps[w].freed
    /\ \A i \in DOMAIN loops : loops[i].at \in {"handle", "in"} =>
         LET m == wraps[loops[i].wrap]
         IN  m.kind = "periodic" \/ (~m.freed /\ m.runs = 1)

\* When CancelAndWait has returned in another thread, the handler does not run
\* and is not going to, in any of the nested loops (ScopeRegister::CancelAndWait,
\* WaitForRunningLockEnd).
CancelAndWaitStops ==
    \A h \in stopped, i \in DOMAIN loops :
        loops[i].at \in {"handle", "in"} => h \notin loops[i].todo

\* When WaitMessage, or WaitForRunningLockEnd with a post, returns to another
\* thread, the message is neither in the list nor being handled, unless a new one
\* has taken over its id meanwhile, or it is periodic: it goes on after the turn
\* that was waited for, and cancelled while it is handled, it lets go of its
\* waiters.
WaitReturnsDone ==
    \A c \in Clients :
        (pc[c] = "woken" /\ target[c].post \notin replaced \cup {NoPost}) =>
            /\ \/ Pending(target[c].post) = 0
               \/ /\ target[c].cond = "run"
                  /\ wraps[Pending(target[c].post)].kind = "periodic"
            /\ \A i \in DOMAIN loops :
                 loops[i].at \in {"handle", "in"} =>
                     \/ loops[i].post # target[c].post
                     \/ wraps[loops[i].wrap].kind = "periodic"

\* Whoever waits returns in the end, except for a periodic message, or behind
\* a handler that waits for one: nested loops do not wait for each other, and a
\* queue that is broken off lets everybody go.
WaitersReturn ==
    \A c \in Clients :
        (pc[c] \in {"blocked", "join"}) ~>
            \/ pc[c] \notin {"blocked", "join"}
            \/ \E w \in DOMAIN wraps :
                 /\ wraps[w].kind = "periodic"
                 /\ \/ target[c].post = wraps[w].post
                    \/ \E i \in DOMAIN loops : loops[i].until = wraps[w].post
=============================================================================
