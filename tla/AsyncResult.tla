---------------------------- MODULE AsyncResult ----------------------------
(***************************************************************************)
(* Calls with a result (comm/messagequeue/message_queue.h): AsyncResult in *)
(* its specialisations, AsyncInvoke, AsyncInvokePeriod and WaitInvoke.     *)
(* The wrapper behind an AsyncResult is shared between the caller and the  *)
(* function in the message; who lets go of it last destroys it.  The queue *)
(* is what MessageQueue shows it to be: it takes a message, calls it, and  *)
(* deletes it, or it is cancelled, and a wait ends when it is neither      *)
(* pending nor running.                                                    *)
(***************************************************************************)
EXTENDS Naturals, Sequences, Functions

CONSTANTS
    Invokers,    \* the threads that call
    Insiders,    \* and which of them are the queue's own, in a handler
    Kinds,       \* specialisations: "value", "void", "reference"
    MaxResults,  \* bounds: results,
    MaxTurns     \* and turns of a periodic one

ASSUME AsyncResultAssumption ==
    /\ Insiders \subseteq Invokers
    /\ Kinds \subseteq {"value", "void", "reference"}
    /\ {MaxResults, MaxTurns} \subseteq Nat

VARIABLES
    results,  \* every AsyncResultWrapper
    queueUp,  \* the queue exists
    step      \* where each thread is, with the result it has

resultVars == <<results, queueUp, step>>

Idle == [at |-> "idle", of |-> 0]

ResultInit ==
    /\ results = <<>> /\ queueUp = TRUE
    /\ step = [c \in Invokers |-> Idle]

\* result_holder is there from the start, a reference only after the call.
\* runs and told are history: how often the function was called, what the
\* callback was told.
Wrapper(kind, callback) ==
    [kind |-> kind, callback |-> callback, result_valid |-> FALSE,
     result |-> (kind # "reference"), refs |-> {"caller"}, message |-> "none",
     crashed |-> FALSE, runs |-> 0, told |-> <<>>]

Tell(r, ok) == IF r.callback THEN [r EXCEPT !.told = Append(@, ok)] ELSE r

\* Mutant: the destructor does not look whether the function was called.
DestroyedAlways(r) == Tell(r, FALSE)

\* ~AsyncResultWrapper: nobody has called.  For a reference there is nothing to
\* give to the callback: *result is a NULL pointer.
Destroyed(r) ==
    IF r.result_valid THEN r
    ELSE IF r.callback /\ ~r.result THEN [r EXCEPT !.crashed = TRUE]
    ELSE Tell(r, FALSE)

LetGo(r, who) ==
    LET rest == [r EXCEPT !.refs = @ \ {who}]
    IN  IF rest.refs = {} /\ r.refs # {} THEN Destroyed(rest) ELSE rest

\* operator(): the function's result is stored before it is declared valid.
CalledFunction(r) == [r EXCEPT !.result = TRUE, !.runs = @ + 1]
Declared(r) == Tell([r EXCEPT !.result_valid = TRUE], TRUE)

SetResult(i, r) == results' = [results EXCEPT ![i] = r]
StepTo(c, at) == step' = [step EXCEPT ![c].at = at]
Posted(r, kind) == IF queueUp THEN [r EXCEPT !.message = kind, !.refs = @ \cup {"message"}] ELSE r

-----------------------------------------------------------------------------

\* The four constructors: with and without a callback (and the holder of a value).
ConstructResult(c, kind, callback) ==
    /\ step[c].at = "idle" /\ Len(results) < MaxResults
    /\ results' = Append(results, Wrapper(kind, callback))
    /\ step' = [step EXCEPT ![c] = [at |-> "has", of |-> Len(results) + 1]]
    /\ UNCHANGED queueUp

\* AsyncInvoke, AsyncInvokeAfter, AsyncInvokePeriod: a message with a copy.  To a
\* queue that is gone nothing is posted.
AsyncInvoke(c, kind) ==
    /\ step[c].at = "has" /\ results[step[c].of].message = "none"
    /\ SetResult(step[c].of, Posted(results[step[c].of], kind))
    /\ UNCHANGED <<queueUp, step>>

\* WaitInvoke: AsyncInvoke, and WaitMessage for the post id.
WaitInvoke(c) ==
    /\ c \notin Insiders
    /\ step[c].at = "has" /\ results[step[c].of].message = "none"
    /\ SetResult(step[c].of, Posted(results[step[c].of], "once"))
    /\ StepTo(c, "waits") /\ UNCHANGED queueUp

WaitReturns(c) ==
    /\ step[c].at = "waits"
    /\ results[step[c].of].message \in {"none", "cancelled", "deleted"}
    /\ StepTo(c, "returned") /\ UNCHANGED <<results, queueUp>>

\* WaitInvoke in the queue's own thread calls the function there and then.
WaitInvokeHere(c) ==
    /\ c \in Insiders
    /\ step[c].at = "has" /\ results[step[c].of].message = "none"
    /\ SetResult(step[c].of, CalledFunction(results[step[c].of]))
    /\ StepTo(c, "calls") /\ UNCHANGED queueUp

InvokedHere(c) ==
    /\ step[c].at = "calls"
    /\ SetResult(step[c].of, Declared(results[step[c].of]))
    /\ StepTo(c, "returned") /\ UNCHANGED queueUp

\* The caller's AsyncResult goes out of scope.
DropResult(c) ==
    /\ step[c].at \in {"has", "returned"}
    /\ SetResult(step[c].of, LetGo(results[step[c].of], "caller"))
    /\ step' = [step EXCEPT ![c] = Idle]
    /\ UNCHANGED queueUp

\* __AsyncInvokeHandler in the queue's thread.  A periodic message is in the
\* list meanwhile.
CallFunction(i) ==
    /\ results[i].message \in {"once", "periodic"} /\ queueUp
    /\ results[i].runs < MaxTurns
    /\ SetResult(i, [CalledFunction(results[i]) EXCEPT !.message = IF @ = "once" THEN "called" ELSE "turn"])
    /\ UNCHANGED <<queueUp, step>>

FunctionReturns(i) ==
    /\ \/ results[i].message = "called" /\ SetResult(i, [Declared(results[i]) EXCEPT !.message = "done"])
       \/ results[i].message = "turn" /\ SetResult(i, [Declared(results[i]) EXCEPT !.message = "periodic"])
    /\ UNCHANGED <<queueUp, step>>

\* The message is deleted after its handlers, by a cancellation, or with the queue.
DeleteMessage(i) ==
    /\ results[i].message = "done"
    /\ SetResult(i, [LetGo(results[i], "message") EXCEPT !.message = "deleted"])
    /\ UNCHANGED <<queueUp, step>>
LetGoOfMessage(r) ==
    IF r.message \in {"once", "periodic"}
    THEN [LetGo(r, "message") EXCEPT !.message = "cancelled"] ELSE r
CancelOne(i) ==
    /\ results[i].message \in {"once", "periodic"} /\ queueUp
    /\ SetResult(i, LetGoOfMessage(results[i]))
    /\ UNCHANGED <<queueUp, step>>
QueueEnds ==
    /\ queueUp /\ \A i \in DOMAIN results : results[i].message \notin {"called", "turn", "done"}
    /\ queueUp' = FALSE
    /\ results' = [i \in DOMAIN results |-> LetGoOfMessage(results[i])]
    /\ UNCHANGED step

ResultNext ==
    \/ \E c \in Invokers :
         \/ \E kind \in Kinds, callback \in BOOLEAN : ConstructResult(c, kind, callback)
         \/ \E kind \in {"once", "periodic"} : AsyncInvoke(c, kind)
         \/ WaitInvoke(c) \/ WaitInvokeHere(c) \/ InvokedHere(c) \/ WaitReturns(c) \/ DropResult(c)
    \/ \E i \in DOMAIN results : CallFunction(i) \/ FunctionReturns(i) \/ DeleteMessage(i) \/ CancelOne(i)
    \/ QueueEnds

ResultSpec == ResultInit /\ [][ResultNext]_resultVars

\* The callback is told of every call, and once of a function that is never
\* called, by whoever lets go last; a result that is declared valid is there, and
\* so is that of a WaitInvoke whose message nobody has cancelled.
ResultsAreTold ==
    /\ \A i \in DOMAIN results :
         LET r == results[i]
             now == r.message \in {"called", "turn"} \/ [at |-> "calls", of |-> i] \in Range(step)
             calls == IF now THEN r.runs - 1 ELSE r.runs
         IN  /\ r.result_valid => r.result
             /\ r.result_valid = (calls > 0)
             /\ r.callback /\ ~r.crashed =>
                  r.told = IF calls = 0 /\ r.refs = {} THEN <<FALSE>>
                           ELSE [n \in 1..calls |-> TRUE]
             /\ r.crashed => r.kind = "reference" /\ calls = 0
    /\ \A c \in Invokers :
         step[c].at = "returned" =>
             \/ results[step[c].of].result_valid
             \/ results[step[c].of].message \in {"none", "cancelled"}
=============================================================================
