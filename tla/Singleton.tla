----------------------------- MODULE Singleton -----------------------------
(***************************************************************************)
(* design_patterns::Singleton (comm/singleton.h, singleton.cc): for each   *)
(* type a static shared_ptr with a mutex, and for all of them the list of  *)
(* those that can be released.  Instance, Release and GetInstance read the *)
(* static pointer without its mutex, while it is written in two halves:    *)
(* px, the object, and pn, the count of those who share it.                *)
(***************************************************************************)
EXTENDS Naturals, Sequences, SequencesExt, FiniteSets

CONSTANTS
    Threads,     \* the threads that use the singletons
    Types,
    MaxObjects   \* bound of the exploration: the objects made

ASSUME SingletonAssumption == MaxObjects \in Nat /\ Types # {}

VARIABLES
    shared,   \* instance_shared_ptr of each type: [px, pn], 0 is NULL
    count,    \* use_count of each object, in the order they were made
    deleted,  \* the objects whose count has come down to 0
    helpers,  \* lst_singleton_releasehelper_, by their types
    busy,     \* who holds singleton_mutex of the type: {} or one thread
    does      \* where each thread is

singletonVars == <<shared, count, deleted, helpers, busy, does>>

NULL == [px |-> 0, pn |-> 0]

\* ret is the thread's own shared_ptr; torn: a half of the static one was written
\* while it was copied without the mutex (history).  todo: the helpers the
\* thread has taken out of the list and not deleted yet.
Rests == [at |-> "idle", type |-> CHOOSE t \in Types : TRUE, ret |-> NULL, torn |-> FALSE, todo |-> <<>>]

SingletonInit ==
    /\ shared = [t \in Types |-> NULL]
    /\ count = <<>> /\ deleted = {} /\ helpers = <<>>
    /\ busy = [t \in Types |-> {}]
    /\ does = [u \in Threads |-> Rests]

Is(u, label) == does[u].at = label
Goes(u, r) == does' = [does EXCEPT ![u] = r]

\* The static pointer of t is written while others copy it.
Written(t, pointer, u, r) ==
    /\ shared' = [shared EXCEPT ![t] = pointer]
    /\ does' = [v \in Threads |->
                  IF v = u THEN r
                  ELSE IF Is(v, "copying") /\ does[v].type = t
                       THEN [does[v] EXCEPT !.torn = TRUE] ELSE does[v]]

Shares(o) == count' = IF o = 0 THEN count ELSE [count EXCEPT ![o] = @ + 1]

\* ~shared_ptr, reset: who lets go last deletes the object.
LetsGo(o) ==
    IF o = 0 THEN UNCHANGED <<count, deleted>>
    ELSE /\ count' = [count EXCEPT ![o] = @ - 1]
         /\ deleted' = IF count[o] = 1 THEN deleted \cup {o} ELSE deleted

-----------------------------------------------------------------------------
(* Instance                                                                *)

\* ret = instance_shared_ptr(): px, then pn.
CopyPx(u, t) ==
    /\ Is(u, "idle")
    /\ Goes(u, [Rests EXCEPT !.at = "copying", !.type = t, !.ret.px = shared[t].px,
                             !.torn = shared[t].px # shared[t].pn])
    /\ UNCHANGED <<shared, count, deleted, helpers, busy>>

CopyPn(u) ==
    LET pn == shared[does[u].type].pn
    IN  /\ Is(u, "copying")
        /\ Shares(pn)
        /\ Goes(u, [does[u] EXCEPT !.ret.pn = pn,
                                   !.at = IF does[u].ret.px # 0 THEN "has" ELSE "slow"])
        /\ UNCHANGED <<shared, deleted, helpers, busy>>

\* Mutant: the pointer is not looked at again under the mutex.
LockTypeBlindly(u) ==
    LET t == does[u].type
    IN  /\ Is(u, "slow") /\ busy[t] = {}
        /\ LetsGo(does[u].ret.pn)
        /\ busy' = [busy EXCEPT ![t] = {u}]
        /\ Goes(u, [does[u] EXCEPT !.ret = NULL, !.torn = FALSE, !.at = "add"])
        /\ UNCHANGED <<shared, helpers>>

\* An empty ret lets go of what it counts when Instance returns; the model lets
\* go of it here.  Then the mutex.
LockType(u) ==
    LET t == does[u].type
    IN  /\ Is(u, "slow") /\ busy[t] = {}
        /\ LetsGo(does[u].ret.pn)
        /\ busy' = [busy EXCEPT ![t] = {u}]
        /\ Goes(u, [does[u] EXCEPT !.ret = NULL, !.torn = FALSE,
                                   !.at = IF shared[t].px = 0 THEN "add" ELSE "return"])
        /\ UNCHANGED <<shared, helpers>>

\* _AddSigleton: the helper is in the list before there is an object.
AddSingleton(u) ==
    /\ Is(u, "add") /\ Len(count) < MaxObjects
    /\ helpers' = Append(helpers, does[u].type)
    /\ Goes(u, [does[u] EXCEPT !.at = "create"])
    /\ UNCHANGED <<shared, count, deleted, busy>>

\* reset(_creater(), ...): the new pointer is swapped in, px first; what it takes
\* the place of is let go.
PublishPx(u) ==
    LET t == does[u].type
        new == Len(count) + 1
    IN  /\ Is(u, "create")
        /\ count' = Append(count, 1)
        /\ Written(t, [shared[t] EXCEPT !.px = new], u,
                   [does[u] EXCEPT !.at = "publish"])
        /\ UNCHANGED <<deleted, helpers, busy>>

PublishPn(u) ==
    LET t == does[u].type
    IN  /\ Is(u, "publish")
        /\ Written(t, [shared[t] EXCEPT !.pn = shared[t].px], u, [does[u] EXCEPT !.at = "return"])
        /\ LetsGo(shared[t].pn)
        /\ UNCHANGED <<helpers, busy>>

\* The copy that is returned is made under the mutex.
ReturnShared(u) ==
    LET t == does[u].type
    IN  /\ Is(u, "return")
        /\ Shares(shared[t].pn)
        /\ busy' = [busy EXCEPT ![t] = {}]
        /\ Goes(u, [does[u] EXCEPT !.ret = shared[t], !.at = "has"])
        /\ UNCHANGED <<shared, deleted, helpers>>

\* The caller's pointer goes out of scope.
Drop(u) ==
    /\ Is(u, "has")
    /\ LetsGo(does[u].ret.pn)
    /\ Goes(u, Rests)
    /\ UNCHANGED <<shared, helpers, busy>>

-----------------------------------------------------------------------------
(* Release and ReleaseAll                                                  *)

\* Release<T>: which object, without a mutex.
AskRelease(u, t) ==
    /\ Is(u, "idle") /\ shared[t].px # 0
    /\ Goes(u, [Rests EXCEPT !.at = "find", !.ret.px = shared[t].px])
    /\ UNCHANGED <<shared, count, deleted, helpers, busy>>

\* _ReleaseSigleton: the first helper whose object it is, if there is one.
FindHelper(u) ==
    LET found == {i \in DOMAIN helpers : shared[helpers[i]].px = does[u].ret.px}
    IN  /\ Is(u, "find")
        /\ \/ found = {} /\ Goes(u, Rests) /\ UNCHANGED helpers
           \/ \E i \in found :
                /\ \A j \in found : i <= j
                /\ Goes(u, [Rests EXCEPT !.at = "release", !.todo = <<helpers[i]>>])
                /\ helpers' = RemoveAt(helpers, i)
        /\ UNCHANGED <<shared, count, deleted, busy>>

\* ReleaseAll takes the whole list, and goes through it from its end.
TakeAll(u) ==
    /\ Is(u, "idle") /\ helpers # <<>>
    /\ Goes(u, [Rests EXCEPT !.at = "release", !.todo = Reverse(helpers)])
    /\ helpers' = <<>>
    /\ UNCHANGED <<shared, count, deleted, busy>>

\* DoRelease: under the type's mutex NULL is swapped in, px first.
ResetPx(u) ==
    LET t == Head(does[u].todo)
    IN  /\ Is(u, "release") /\ busy[t] = {}
        /\ busy' = [busy EXCEPT ![t] = {u}]
        /\ Written(t, [shared[t] EXCEPT !.px = 0], u, [does[u] EXCEPT !.at = "reset"])
        /\ UNCHANGED <<count, deleted, helpers>>

\* Then pn, what was there is let go, and the helper is deleted.
ResetPn(u) ==
    LET t == Head(does[u].todo)
        rest == Tail(does[u].todo)
    IN  /\ Is(u, "reset")
        /\ Written(t, NULL, u, IF rest = <<>> THEN Rests
                               ELSE [does[u] EXCEPT !.at = "release", !.todo = rest])
        /\ LetsGo(shared[t].pn)
        /\ busy' = [busy EXCEPT ![t] = {}]
        /\ UNCHANGED helpers

SingletonNext ==
    \E u \in Threads :
        \/ \E t \in Types : CopyPx(u, t) \/ AskRelease(u, t)
        \/ CopyPn(u) \/ LockType(u) \/ AddSingleton(u) \/ PublishPx(u) \/ PublishPn(u)
        \/ ReturnShared(u) \/ Drop(u)
        \/ FindHelper(u) \/ TakeAll(u) \/ ResetPx(u) \/ ResetPn(u)

SingletonSpec == SingletonInit /\ [][SingletonNext]_singletonVars

-----------------------------------------------------------------------------

\* Where the helpers of a type are: in the list or in the hands of a thread that
\* releases.
HelpersOf(t) ==
    {<<{}, i>> : i \in {j \in DOMAIN helpers : helpers[j] = t}}
    \cup UNION {{<<{u}, i>> : i \in {j \in DOMAIN does[u].todo : does[u].todo[j] = t}} : u \in Threads}

\* Whenever nobody holds the type's mutex, an object that is there has one helper
\* to release it, and no helper is without an object, although it is entered
\* first and both are looked for without the mutex; and who has been given a
\* pointer has an object that is not deleted, unless the static pointer was
\* written while it was copied (Singleton::Instance, Release, ReleaseAll).
HolderKeeps ==
    /\ \A t \in Types :
         busy[t] = {} => Cardinality(HelpersOf(t)) = IF shared[t].px = 0 THEN 0 ELSE 1
    /\ \A u \in Threads :
         Is(u, "has") /\ ~does[u].torn => does[u].ret.px \notin deleted
=============================================================================
