------------------------- MODULE MessageQueueProofs -------------------------
(* Theorems about MessageQueue, for any clients, handlers and functions    *)
(* they use, and any bounds; and about AsyncResult.                        *)
EXTENDS MessageQueue, AsyncResult, SequenceTheorems, TLAPS

-----------------------------------------------------------------------------
(* The inductive invariant                                                 *)

Wraps ==
    [post : Nat \ {0}, to : Handlers \cup {Everyone}, title : Titles, kind : Timings,
     due : BOOLEAN, freed : BOOLEAN, runs : Nat]
Loops ==
    [at : {"top", "waiting", "handle", "in"}, wrap : Nat, post : Nat,
     running : SUBSET Handlers, todo : SUBSET Handlers, until : Nat]
Targets ==
    [cond : {"none", "end", "run"}, at : Nat, post : Nat, handler : Handlers \cup {Everyone},
     then : {"idle", "join"}]
Places == {"idle", "blocked", "woken", "cancel", "wait", "release", "join"}

TypeOK ==
    /\ thread \in {"off", "running", "ended"}
    /\ alive \in BOOLEAN /\ breakflag \in BOOLEAN
    /\ wraps \in Seq(Wraps) /\ list \subseteq DOMAIN wraps
    /\ known \in Seq(Handlers) /\ installed \subseteq ToSet(known)
    /\ loops \in Seq(Loops)
    /\ pc \in [Clients -> Places] /\ target \in [Clients -> Targets]
    /\ stopped \subseteq Handlers /\ replaced \subseteq DOMAIN wraps

Periodic(w) == wraps[w].kind = "periodic"
Handles(i) == loops[i].at \in {"handle", "in"}

\* A post id is the number of the message, unless it was handed on; what is in
\* the list exists and, unless it is periodic, was not handled.
MessagesOK ==
    /\ \A w \in DOMAIN wraps : /\ wraps[w].post \in DOMAIN wraps
                               /\ wraps[w].post \in replaced \cup {w}
    /\ \A v, w \in list : wraps[v].post = wraps[w].post => v = w
    /\ \A w \in list : ~wraps[w].freed /\ (Periodic(w) \/ wraps[w].runs = 0)

\* What loop i handles, or has handled last, is there and was counted.
LoopOK(i) ==
    /\ loops[i].todo \subseteq loops[i].running
    /\ loops[i].post # NoPost =>
         /\ loops[i].wrap \in DOMAIN wraps
         /\ wraps[loops[i].wrap].post = loops[i].post /\ wraps[loops[i].wrap].runs > 0
    /\ Handles(i) =>
         /\ loops[i].post # NoPost
         /\ Periodic(loops[i].wrap)
            \/ (~wraps[loops[i].wrap].freed /\ wraps[loops[i].wrap].runs = 1)

\* No two of the nested loops handle the same message, unless it is periodic.
LoopsApart ==
    \A i, j \in DOMAIN loops :
        Handles(i) /\ Handles(j) /\ loops[i].wrap = loops[j].wrap => i = j \/ Periodic(loops[i].wrap)

\* A handler that somebody has uninstalled to wait for its end, or has waited for.
Uninstalled(h) == h \in ToSet(known) \ installed
RunsNowhere(h) == \A i \in DOMAIN loops : h \notin loops[i].running

HandlersOK ==
    /\ thread = "off" => known = <<>> /\ ~alive
    /\ \A h \in stopped : Uninstalled(h) /\ RunsNowhere(h)

\* Client c waits for the right thing, or it is done.
WaitsForHandler(c) ==
    target[c].handler # Everyone =>
        /\ Uninstalled(target[c].handler) /\ target[c].post = NoPost
        /\ pc[c] = "blocked" =>
             /\ target[c].cond = "run" /\ target[c].at \in DOMAIN loops
             /\ \A j \in DOMAIN loops :
                  j < target[c].at => target[c].handler \notin loops[j].running
        /\ pc[c] = "woken" => RunsNowhere(target[c].handler)

WaitsForPost(c) ==
    LET p == target[c].post
    IN  (p # NoPost /\ p \notin replaced) =>
          /\ p \in DOMAIN wraps /\ wraps[p].post = p
          /\ target[c].cond = "end" \/ target[c].cond = "run"
          /\ target[c].cond = "end" =>
               target[c].at = p /\ (pc[c] = "woken" => wraps[p].freed)
          /\ (target[c].cond = "run" /\ pc[c] = "blocked") =>
               /\ target[c].at \in DOMAIN loops /\ loops[target[c].at].post = p
               /\ \A j \in DOMAIN loops : j < target[c].at => loops[j].post # p
          /\ (target[c].cond = "run" /\ pc[c] = "woken") =>
               \/ Periodic(p)
               \/ p \notin list /\ \A i \in DOMAIN loops : Handles(i) => loops[i].post # p

ClientOK(c) ==
    /\ WaitsForHandler(c) /\ WaitsForPost(c)
    /\ pc[c] \in {"cancel", "wait"} => target[c].handler # Everyone

QueueInv ==
    /\ TypeOK /\ MessagesOK /\ (\A i \in DOMAIN loops : LoopOK(i)) /\ LoopsApart
    /\ HandlersOK /\ (\A c \in Clients : ClientOK(c))

-----------------------------------------------------------------------------
(* Sequences of messages and of loops                                      *)

LEMMA LoopsDomain == TypeOK => /\ Level \in Nat /\ DOMAIN loops = 1..Level
                               /\ (loops # <<>> <=> Level > 0)
                               /\ \A i \in DOMAIN loops : loops[i] \in Loops
  <1>. SUFFICES ASSUME TypeOK
                PROVE  /\ Level \in Nat /\ DOMAIN loops = 1..Level
                       /\ (loops # <<>> <=> Level > 0)
                       /\ \A i \in DOMAIN loops : loops[i] \in Loops
    OBVIOUS
  <1>. QED
    BY LenProperties, ElementOfSeq, EmptySeq DEF TypeOK, Level

LEMMA WrapsDomain == TypeOK => /\ Len(wraps) \in Nat /\ DOMAIN wraps = 1..Len(wraps)
                               /\ \A w \in DOMAIN wraps : wraps[w] \in Wraps
  BY LenProperties, ElementOfSeq DEF TypeOK

LEMMA TopIsSet ==
    ASSUME TypeOK, loops # <<>>, NEW r \in Loops, SetTop(r)
    PROVE  /\ Level \in DOMAIN loops /\ loops' \in Seq(Loops) /\ DOMAIN loops' = DOMAIN loops
           /\ loops'[Level] = r /\ \A i \in DOMAIN loops : i # Level => loops'[i] = loops[i]
  <1>1. Level \in 1..Len(loops) /\ Level \in DOMAIN loops
    BY LoopsDomain DEF Level
  <1>2. loops' \in Seq(Loops)
    BY <1>1, ExceptSeq DEF SetTop, TypeOK
  <1>. QED
    BY <1>1, <1>2 DEF SetTop

\* What most steps do to the messages: some are deleted, none of them is in the
\* list any more, and a new one may have come.
MessagesKept(gone) ==
    /\ wraps' \in Seq(Wraps) /\ DOMAIN wraps \subseteq DOMAIN wraps'
    /\ list' \cap DOMAIN wraps \subseteq list \ gone
    /\ \A w \in DOMAIN wraps :
         /\ wraps'[w].post = wraps[w].post /\ wraps'[w].kind = wraps[w].kind
         /\ wraps'[w].runs = wraps[w].runs
         /\ wraps'[w].freed <=> wraps[w].freed \/ w \in gone

\* And to the loops: each goes on with what it handles, or is done with it.
LoopsGoOn ==
    /\ loops' \in Seq(Loops) /\ DOMAIN loops' = DOMAIN loops
    /\ \A i \in DOMAIN loops :
         /\ loops'[i].wrap = loops[i].wrap /\ loops'[i].post = loops[i].post
         /\ loops'[i].running = loops[i].running /\ loops'[i].todo \subseteq loops[i].todo
         /\ Handles(i)' => Handles(i)

LEMMA DeletedFacts ==
    ASSUME TypeOK, NEW gone, NEW ws, ws = Deleted(wraps, gone)
    PROVE  /\ ws \in Seq(Wraps) /\ DOMAIN ws = DOMAIN wraps /\ Len(ws) = Len(wraps)
           /\ \A w \in DOMAIN wraps :
                /\ ws[w].post = wraps[w].post /\ ws[w].kind = wraps[w].kind
                /\ ws[w].runs = wraps[w].runs
                /\ ws[w].freed <=> wraps[w].freed \/ w \in gone
  <1>1. \A w \in DOMAIN wraps : ws[w] = IF w \in gone THEN [wraps[w] EXCEPT !.freed = TRUE]
                                        ELSE wraps[w]
    BY DEF Deleted
  <1>2. \A w \in DOMAIN wraps :
          /\ ws[w] \in Wraps
          /\ ws[w].post = wraps[w].post /\ ws[w].kind = wraps[w].kind
          /\ ws[w].runs = wraps[w].runs
          /\ ws[w].freed <=> wraps[w].freed \/ w \in gone
    BY <1>1, WrapsDomain DEF Wraps
  <1>3. Len(wraps) \in Nat /\ DOMAIN wraps = 1..Len(wraps)
    BY WrapsDomain
  <1>4. ws = [w \in 1..Len(wraps) |-> ws[w]]
    BY <1>3 DEF Deleted
  <1>5. ws \in Seq(Wraps) /\ Len(ws) = Len(wraps)
    <2>1. \A w \in 1..Len(wraps) : ws[w] \in Wraps
      BY <1>2, <1>3
    <2>2. [w \in 1..Len(wraps) |-> ws[w]] \in Seq(Wraps)
      BY <1>3, <2>1, IsASeq
    <2>3. ws \in Seq(Wraps)
      BY <1>4, <2>2
    <2>4. DOMAIN ws = 1..Len(wraps)
      BY <1>4
    <2>. QED
      BY <1>3, <2>3, <2>4, LenProperties
  <1>. QED
    BY <1>2, <1>3, <1>4, <1>5

LEMMA DeletedKept ==
    ASSUME TypeOK, NEW gone, wraps' = Deleted(wraps, gone), list' \subseteq list \ gone
    PROVE  MessagesKept(gone) /\ DOMAIN wraps' = DOMAIN wraps
  BY DeletedFacts DEF MessagesKept

LEMMA NothingGone ==
    ASSUME TypeOK, UNCHANGED wraps, list' \subseteq list PROVE MessagesKept({})
  BY DEF TypeOK, MessagesKept

LEMMA UnchangedGoOn == ASSUME TypeOK, UNCHANGED loops PROVE LoopsGoOn
  BY DEF TypeOK, LoopsGoOn, Handles

\* A change of where the innermost loop is, and of what is left to do.
LEMMA TopGoesOn ==
    ASSUME TypeOK, loops # <<>>, NEW r \in Loops, SetTop(r),
           r.wrap = loops[Level].wrap, r.post = loops[Level].post,
           r.running = loops[Level].running, r.todo \subseteq loops[Level].todo,
           r.at \in {"handle", "in"} => loops[Level].at \in {"handle", "in"}
    PROVE  LoopsGoOn
  BY TopIsSet DEF LoopsGoOn, Handles

\* A loop whose place changes, and one with less left to do.
LEMMA LoopMoves ==
    ASSUME NEW r \in Loops, NEW at \in {"top", "waiting", "handle", "in"}
    PROVE  LET q == [r EXCEPT !.at = at]
           IN  q \in Loops /\ q.at = at /\ q.wrap = r.wrap /\ q.post = r.post
               /\ q.running = r.running /\ q.todo = r.todo
  BY DEF Loops

LEMMA LoopDoes ==
    ASSUME NEW r \in Loops, NEW at \in {"top", "waiting", "handle", "in"},
           NEW todo \in SUBSET r.todo
    PROVE  LET q == [r EXCEPT !.at = at, !.todo = todo]
           IN  q \in Loops /\ q.at = at /\ q.wrap = r.wrap /\ q.post = r.post
               /\ q.running = r.running /\ q.todo = todo
  <1> DEFINE q == [r EXCEPT !.at = at]
             z == [q EXCEPT !.todo = todo]
  <1>1. q \in Loops /\ q.at = at /\ q.wrap = r.wrap /\ q.post = r.post
        /\ q.running = r.running /\ q.todo = r.todo
    BY LoopMoves
  <1>2. [r EXCEPT !.at = at, !.todo = todo] = z
    BY Zenon
  <1> HIDE DEF q
  <1>3. todo \subseteq Handlers
    BY DEF Loops
  <1>4. z \in Loops /\ z.at = q.at /\ z.wrap = q.wrap /\ z.post = q.post
        /\ z.running = q.running /\ z.todo = todo
    BY <1>1, <1>3 DEF Loops
  <1> HIDE DEF z
  <1>. QED
    BY <1>1, <1>2, <1>4

LEMMA NotifiedGoesOn == ASSUME TypeOK, loops' = Notified PROVE LoopsGoOn
  <1>1. CASE TopIs("waiting")
    <2>1. loops # <<>> /\ loops[Level] \in Loops
      BY <1>1, LoopsDomain DEF TopIs
    <2> DEFINE r == [loops[Level] EXCEPT !.at = "top"]
    <2>2. SetTop(r)
      BY <1>1 DEF Notified, SetTop
    <2>3. r \in Loops /\ r.at = "top" /\ r.wrap = loops[Level].wrap /\ r.post = loops[Level].post
          /\ r.running = loops[Level].running /\ r.todo = loops[Level].todo
      BY <2>1, LoopMoves
    <2> HIDE DEF r
    <2>. QED
      BY <2>1, <2>2, <2>3, TopGoesOn
  <1>2. CASE ~TopIs("waiting")
    BY <1>2, UnchangedGoOn DEF Notified
  <1>. QED
    BY <1>1, <1>2

-----------------------------------------------------------------------------
(* What such steps preserve                                                *)

\* Nobody deletes a message that is handled, unless it is periodic.
SparesHandled(gone) ==
    \A i \in DOMAIN loops : Handles(i)' => Periodic(loops[i].wrap) \/ loops[i].wrap \notin gone

LEMMA LoopsKept ==
    ASSUME QueueInv, NEW gone, MessagesKept(gone), LoopsGoOn, SparesHandled(gone)
    PROVE  (\A i \in DOMAIN loops : LoopOK(i))' /\ LoopsApart'
  <1>1. ASSUME NEW i \in DOMAIN loops PROVE LoopOK(i)'
    <2>1. LoopOK(i) /\ (Handles(i)' => Handles(i))
      BY DEF QueueInv, LoopsGoOn
    <2>2. loops'[i].todo \subseteq loops'[i].running
      BY <2>1 DEF LoopOK, LoopsGoOn
    <2>3. loops'[i].post # NoPost =>
            /\ loops'[i].wrap \in DOMAIN wraps'
            /\ wraps'[loops'[i].wrap].post = loops'[i].post /\ wraps'[loops'[i].wrap].runs > 0
      BY <2>1 DEF LoopOK, LoopsGoOn, MessagesKept
    <2>4. Handles(i)' =>
            /\ loops'[i].post # NoPost
            /\ wraps'[loops'[i].wrap].kind = "periodic"
               \/ (~wraps'[loops'[i].wrap].freed /\ wraps'[loops'[i].wrap].runs = 1)
      BY <2>1 DEF LoopOK, LoopsGoOn, MessagesKept, SparesHandled, Periodic
    <2>. QED
      BY <2>2, <2>3, <2>4 DEF LoopOK, Periodic
  <1>2. LoopsApart'
    <2>. SUFFICES ASSUME NEW i \in DOMAIN loops, NEW j \in DOMAIN loops, Handles(i)', Handles(j)',
                         loops'[i].wrap = loops'[j].wrap, i # j
                  PROVE  wraps'[loops'[i].wrap].kind = "periodic"
      BY DEF LoopsApart, LoopsGoOn, Periodic
    <2>1. Handles(i) /\ Handles(j) /\ loops[i].wrap = loops[j].wrap
      BY DEF LoopsGoOn
    <2>2. Periodic(loops[i].wrap) /\ loops[i].wrap \in DOMAIN wraps
      BY <2>1 DEF QueueInv, LoopsApart, LoopOK
    <2>. QED
      BY <2>2 DEF LoopsGoOn, MessagesKept, Periodic
  <1>. QED
    BY <1>1, <1>2 DEF LoopsGoOn

LEMMA NowhereKept == ASSUME LoopsGoOn, NEW h, RunsNowhere(h) PROVE RunsNowhere(h)'
  BY DEF LoopsGoOn, RunsNowhere

\* Messages that are only deleted and taken out of the list.
LEMMA MessagesStayOK ==
    ASSUME QueueInv, NEW gone, MessagesKept(gone), DOMAIN wraps' = DOMAIN wraps,
           list' \subseteq list, UNCHANGED replaced
    PROVE  MessagesOK'
  <1>1. list' \subseteq list \ gone /\ list \subseteq DOMAIN wraps
    BY DEF MessagesKept, QueueInv, TypeOK
  <1>2. \A w \in DOMAIN wraps' : wraps'[w].post \in DOMAIN wraps' /\ wraps'[w].post \in replaced' \cup {w}
    BY DEF MessagesKept, QueueInv, MessagesOK
  <1>3. \A v, w \in list' : wraps'[v].post = wraps'[w].post => v = w
    BY <1>1 DEF MessagesKept, QueueInv, MessagesOK
  <1>4. \A w \in list' : ~wraps'[w].freed /\ (Periodic(w)' \/ wraps'[w].runs = 0)
    BY <1>1 DEF MessagesKept, QueueInv, MessagesOK, Periodic
  <1>. QED
    BY <1>2, <1>3, <1>4 DEF MessagesOK

\* A client that goes on waiting, or whose message was deleted.
ClientStays(c, gone) ==
    /\ target'[c] = target[c]
    /\ \/ pc'[c] = pc[c]
       \/ pc[c] = "blocked" /\ pc'[c] = "woken" /\ target[c].cond = "end" /\ target[c].at \in gone

LEMMA StillWaits ==
    ASSUME QueueInv, NEW gone, MessagesKept(gone), LoopsGoOn, replaced \subseteq replaced',
           \A h : Uninstalled(h) => Uninstalled(h)',
           NEW c \in Clients, ClientStays(c, gone)
    PROVE  ClientOK(c)'
  <1>1. WaitsForHandler(c) /\ WaitsForPost(c) /\ target'[c] = target[c]
    BY DEF QueueInv, ClientOK, ClientStays
  <1>2. WaitsForHandler(c)'
    <2>. SUFFICES ASSUME NEW h, h = target[c].handler, h # Everyone
                  PROVE  /\ Uninstalled(h)' /\ target[c].post = NoPost
                         /\ pc'[c] = "blocked" =>
                              /\ target[c].cond = "run" /\ target[c].at \in DOMAIN loops'
                              /\ \A j \in DOMAIN loops' : j < target[c].at => h \notin loops'[j].running
                         /\ pc'[c] = "woken" => RunsNowhere(h)'
      BY <1>1 DEF WaitsForHandler, Uninstalled, RunsNowhere
    <2>1. Uninstalled(h) /\ target[c].post = NoPost /\ (pc[c] = "woken" => RunsNowhere(h))
      BY <1>1 DEF WaitsForHandler
    <2>2. pc'[c] = pc[c]
      BY <1>1 DEF WaitsForHandler, ClientStays
    <2>3. pc'[c] = "blocked" =>
            /\ target[c].cond = "run" /\ target[c].at \in DOMAIN loops'
            /\ \A j \in DOMAIN loops' : j < target[c].at => h \notin loops'[j].running
      BY <1>1, <2>2 DEF WaitsForHandler, LoopsGoOn
    <2>4. pc'[c] = "woken" => RunsNowhere(h)'
      BY <2>1, <2>2, NowhereKept
    <2>. QED
      BY <2>1, <2>3, <2>4
  <1>3. WaitsForPost(c)'
    <2>. SUFFICES ASSUME NEW p, p = target[c].post, p # NoPost, p \notin replaced'
                  PROVE  /\ p \in DOMAIN wraps' /\ wraps'[p].post = p
                         /\ target[c].cond = "end" \/ target[c].cond = "run"
                         /\ target[c].cond = "end" =>
                              target[c].at = p /\ (pc'[c] = "woken" => wraps'[p].freed)
                         /\ (target[c].cond = "run" /\ pc'[c] = "blocked") =>
                              /\ target[c].at \in DOMAIN loops' /\ loops'[target[c].at].post = p
                              /\ \A j \in DOMAIN loops' : j < target[c].at => loops'[j].post # p
                         /\ (target[c].cond = "run" /\ pc'[c] = "woken") =>
                              \/ Periodic(p)'
                              \/ p \notin list' /\ \A i \in DOMAIN loops' : Handles(i)' => loops'[i].post # p
      BY <1>1 DEF WaitsForPost, Periodic
    <2>1. p \notin replaced /\ p \in DOMAIN wraps /\ wraps[p].post = p
          /\ (target[c].cond = "end" \/ target[c].cond = "run")
      BY <1>1 DEF WaitsForPost
    <2>2. p \in DOMAIN wraps' /\ wraps'[p].post = p /\ (Periodic(p)' <=> Periodic(p))
      BY <2>1 DEF MessagesKept, Periodic
    <2>3. target[c].cond = "end" =>
            target[c].at = p /\ (pc'[c] = "woken" => wraps'[p].freed)
      BY <1>1, <2>1 DEF WaitsForPost, ClientStays, MessagesKept
    <2>4. (target[c].cond = "run" /\ pc'[c] = "blocked") =>
            /\ target[c].at \in DOMAIN loops' /\ loops'[target[c].at].post = p
            /\ \A j \in DOMAIN loops' : j < target[c].at => loops'[j].post # p
      BY <1>1, <2>1 DEF WaitsForPost, ClientStays, LoopsGoOn
    <2>5. (target[c].cond = "run" /\ pc'[c] = "woken") =>
            \/ Periodic(p)'
            \/ p \notin list' /\ \A i \in DOMAIN loops' : Handles(i)' => loops'[i].post # p
      <3>. SUFFICES ASSUME target[c].cond = "run", pc'[c] = "woken", ~Periodic(p)
                    PROVE  p \notin list' /\ \A i \in DOMAIN loops' : Handles(i)' => loops'[i].post # p
        BY <2>2
      <3>1. pc[c] = "woken"
        BY DEF ClientStays
      <3>2. p \notin list /\ \A i \in DOMAIN loops : Handles(i) => loops[i].post # p
        BY <1>1, <2>1, <3>1 DEF WaitsForPost
      <3>. QED
        BY <2>1, <3>2 DEF LoopsGoOn, MessagesKept
    <2>. QED
      BY <2>1, <2>2, <2>3, <2>4, <2>5
  <1>4. pc'[c] \in {"cancel", "wait"} => target'[c].handler # Everyone
    BY DEF QueueInv, ClientOK, ClientStays
  <1>. QED
    BY <1>2, <1>3, <1>4 DEF ClientOK

\* The messages on whose end somebody waits are told, nobody else moves.
LEMMA WokenStay ==
    ASSUME TypeOK, NEW gone, UNCHANGED target, pc' = Woken("end", gone)
    PROVE  pc' \in [Clients -> Places] /\ \A c \in Clients : ClientStays(c, gone)
  BY DEF TypeOK, Woken, ClientStays, Places

\* A step that deletes messages, notifies and moves loops on, and installs or
\* uninstalls handlers.
LEMMA StepKeeps ==
    ASSUME QueueInv, NEW gone, MessagesKept(gone), DOMAIN wraps' = DOMAIN wraps,
           list' \subseteq list, LoopsGoOn, SparesHandled(gone), UNCHANGED replaced,
           thread' \in {"off", "running", "ended"}, alive' \in BOOLEAN, breakflag' \in BOOLEAN,
           known' \in Seq(Handlers), installed' \subseteq ToSet(known'), stopped' \subseteq Handlers,
           \A h : Uninstalled(h) => Uninstalled(h)', HandlersOK',
           pc' \in [Clients -> Places], target' \in [Clients -> Targets],
           \A c \in Clients : ClientStays(c, gone) \/ ClientOK(c)'
    PROVE  QueueInv'
  <1>1. TypeOK'
    <2>1. wraps' \in Seq(Wraps) /\ list' \subseteq DOMAIN wraps' /\ loops' \in Seq(Loops)
      BY DEF QueueInv, TypeOK, MessagesKept, LoopsGoOn
    <2>. QED
      BY <2>1 DEF QueueInv, TypeOK
  <1>2. \A c \in Clients : ClientOK(c)'
    BY StillWaits
  <1>. QED
    BY <1>1, <1>2, LoopsKept, MessagesStayOK DEF QueueInv

LEMMA QuietKeeps ==
    ASSUME QueueInv, NEW gone, MessagesKept(gone), DOMAIN wraps' = DOMAIN wraps,
           list' \subseteq list, LoopsGoOn, SparesHandled(gone),
           UNCHANGED <<replaced, thread, known, stopped>>, breakflag' \in BOOLEAN,
           UNCHANGED alive, installed' \subseteq installed,
           pc' \in [Clients -> Places], target' \in [Clients -> Targets],
           \A c \in Clients : ClientStays(c, gone) \/ ClientOK(c)'
    PROVE  QueueInv'
  <1>1. \A h : Uninstalled(h) => Uninstalled(h)'
    BY DEF Uninstalled
  <1>2. HandlersOK'
    BY <1>1, NowhereKept DEF QueueInv, HandlersOK
  <1>. QED
    BY <1>1, <1>2, StepKeeps DEF QueueInv, TypeOK

LEMMA ListedSpared ==
    ASSUME QueueInv, LoopsGoOn, NEW gone, gone \subseteq list PROVE SparesHandled(gone)
  BY DEF QueueInv, LoopsGoOn, SparesHandled, LoopOK, MessagesOK, Periodic

LEMMA NothingSpared == SparesHandled({})
  BY DEF SparesHandled

-----------------------------------------------------------------------------
(* Posting                                                                 *)

LEMMA PushKeeps ==
    ASSUME QueueInv, NEW gone \in SUBSET list, NEW m \in Wraps, Push(m, gone),
           ~m.freed, m.runs = 0,
           \/ gone = {} /\ m.post = NewPost /\ replaced' = replaced
           \/ \E old \in list : /\ gone = {old} /\ m.post = wraps[old].post
                                /\ replaced' = replaced \cup {m.post}
    PROVE  QueueInv'
  <1> DEFINE ws == Deleted(wraps, gone)
             n == Len(wraps) + 1
  <1>1. TypeOK /\ LoopsGoOn
    BY NotifiedGoesOn DEF QueueInv, Push
  <1>2. Len(wraps) \in Nat /\ DOMAIN wraps = 1..Len(wraps) /\ n \in Nat /\ n \notin DOMAIN wraps
        /\ n > 0
    BY <1>1, WrapsDomain
  <1>3. /\ ws \in Seq(Wraps) /\ Len(ws) = Len(wraps) /\ DOMAIN ws = DOMAIN wraps
        /\ \A w \in DOMAIN wraps :
             /\ ws[w].post = wraps[w].post /\ ws[w].kind = wraps[w].kind
             /\ ws[w].runs = wraps[w].runs
             /\ ws[w].freed <=> wraps[w].freed \/ w \in gone
    BY <1>1, DeletedFacts
  <1>4. wraps' = Append(ws, m) /\ list' = (list \ gone) \cup {n}
    BY DEF Push
  <1> HIDE DEF ws, n
  <1>5. /\ wraps' \in Seq(Wraps) /\ DOMAIN wraps' = DOMAIN wraps \cup {n} /\ wraps'[n] = m
        /\ \A w \in DOMAIN wraps : wraps'[w] = ws[w]
    <2>1. /\ Append(ws, m) \in Seq(Wraps) /\ Len(Append(ws, m)) = Len(ws) + 1
          /\ \A i \in 1..Len(ws) : Append(ws, m)[i] = ws[i]
          /\ Append(ws, m)[Len(ws) + 1] = m
      BY <1>3, AppendProperties
    <2>2. DOMAIN wraps' = 1..(Len(wraps) + 1)
      BY <1>3, <1>4, <2>1, LenProperties
    <2>. QED
      BY <1>2, <1>3, <1>4, <2>1, <2>2 DEF n
  <1>6. MessagesKept(gone)
    BY <1>2, <1>3, <1>4, <1>5 DEF MessagesKept
  <1>7. /\ m.post \in DOMAIN wraps' /\ replaced \subseteq replaced' /\ replaced' \subseteq DOMAIN wraps'
        /\ m.post \in replaced' \cup {n}
        /\ \A w \in list \ gone : wraps[w].post # m.post
    BY <1>1, <1>2, <1>5 DEF QueueInv, TypeOK, MessagesOK, NewPost, n
  <1>8. MessagesOK'
    <2>1. \A w \in DOMAIN wraps' : wraps'[w].post \in DOMAIN wraps' /\ wraps'[w].post \in replaced' \cup {w}
      BY <1>3, <1>5, <1>7 DEF QueueInv, MessagesOK
    <2>2. \A w \in list \ gone : w \in DOMAIN wraps /\ w # n
      BY <1>1, <1>2 DEF TypeOK
    <2>3. \A v, w \in list' : wraps'[v].post = wraps'[w].post => v = w
      BY <1>3, <1>4, <1>5, <1>7, <2>2 DEF QueueInv, MessagesOK
    <2>4. \A w \in list' : ~wraps'[w].freed /\ (wraps'[w].kind = "periodic" \/ wraps'[w].runs = 0)
      BY <1>3, <1>4, <1>5, <2>2 DEF QueueInv, MessagesOK, Periodic
    <2>. QED
      BY <2>1, <2>3, <2>4 DEF MessagesOK, Periodic
  <1>9. UNCHANGED <<thread, alive, breakflag, target, installed, known, stopped>>
        /\ pc' = Woken("end", gone)
    BY DEF Push, handlerVars
  <1>10. TypeOK'
    <2>1. list' \subseteq DOMAIN wraps'
      BY <1>1, <1>4, <1>5 DEF TypeOK
    <2>2. pc' \in [Clients -> Places] /\ loops' \in Seq(Loops)
      BY <1>1, <1>9, WokenStay DEF LoopsGoOn
    <2>. QED
      BY <1>1, <1>5, <1>7, <1>9, <2>1, <2>2 DEF TypeOK
  <1>11. \A h : Uninstalled(h) => Uninstalled(h)'
    BY <1>9 DEF Uninstalled
  <1>12. HandlersOK'
    BY <1>1, <1>9, <1>11, NowhereKept DEF QueueInv, HandlersOK
  <1>13. \A c \in Clients : ClientOK(c)'
    BY <1>1, <1>6, <1>7, <1>9, <1>11, WokenStay, StillWaits
  <1>. QED
    BY <1>1, <1>6, <1>8, <1>10, <1>12, <1>13, ListedSpared, LoopsKept DEF QueueInv

LEMMA NewMessage ==
    ASSUME MessageQueueAssumption, QueueInv, NEW post \in Nat \ {0},
           NEW h \in Handlers \cup {Everyone}, NEW title \in Titles, NEW kind \in Timings
    PROVE  LET m == Message(post, h, title, kind)
           IN  m \in Wraps /\ m.post = post /\ ~m.freed /\ m.runs = 0
  BY DEF Message, Wraps

LEMMA PostingKeeps ==
    ASSUME MessageQueueAssumption, QueueInv, NEW a, Posting(a) PROVE QueueInv'
  <1>1. NewPost \in Nat \ {0} /\ TypeOK
    BY WrapsDomain DEF QueueInv, NewPost
  <1>2. ToSet(known) \subseteq Handlers
    BY ElementOfSeq, LenProperties DEF QueueInv, TypeOK, ToSet
  <1>3. ASSUME NEW h \in Handlers \cup {Everyone}, NEW title \in Titles, NEW kind \in Timings,
               Push(Message(NewPost, h, title, kind), {}), UNCHANGED replaced
        PROVE  QueueInv'
    <2> DEFINE m == Message(NewPost, h, title, kind)
    <2>1. m \in Wraps /\ m.post = NewPost /\ ~m.freed /\ m.runs = 0
      BY <1>1, NewMessage
    <2> HIDE DEF m
    <2>2. Push(m, {})
      BY <1>3 DEF m
    <2>. QED
      BY <1>3, <2>1, <2>2, PushKeeps
  <1>4. ASSUME NEW h \in Handlers, NEW title \in Titles, NEW kind \in Timings,
               NEW old \in Same(h, title), Replace(old, h, title, kind)
        PROVE  QueueInv'
    <2> DEFINE m == Message(wraps[old].post, h, title, kind)
    <2>1. old \in list /\ old \in DOMAIN wraps
      BY <1>1 DEF Same, TypeOK
    <2>2. wraps[old].post \in Nat \ {0}
      BY <1>1, <2>1, WrapsDomain DEF Wraps
    <2>3. m \in Wraps /\ m.post = wraps[old].post /\ ~m.freed /\ m.runs = 0
      BY <2>2, NewMessage
    <2> HIDE DEF m
    <2>4. Push(m, {old}) /\ replaced' = replaced \cup {m.post}
      BY <1>4, <2>3 DEF m, Replace
    <2>. QED
      BY <2>1, <2>3, <2>4, PushKeeps
  <1>. QED
    BY <1>2, <1>3, <1>4
       DEF Posting, PostMessage, BroadcastMessage, SingletonMessage, FasterMessage

-----------------------------------------------------------------------------
(* Cancelling, handlers, break                                             *)

LEMMA CancellingKeeps == ASSUME QueueInv, NEW a, Cancelling(a) PROVE QueueInv'
  <1>1. ASSUME NEW gone \in SUBSET list, CancelMessage(a, gone) PROVE QueueInv'
    <2>1. /\ TypeOK /\ wraps' = Deleted(wraps, gone) /\ list' = list \ gone
          /\ pc' = Woken("end", gone)
          /\ UNCHANGED <<thread, alive, breakflag, loops, target, replaced, installed, known, stopped>>
      BY <1>1 DEF QueueInv, CancelMessage, Erase, handlerVars
    <2>2. MessagesKept(gone) /\ DOMAIN wraps' = DOMAIN wraps /\ LoopsGoOn
      BY <2>1, DeletedKept, UnchangedGoOn
    <2>3. pc' \in [Clients -> Places] /\ \A c \in Clients : ClientStays(c, gone)
      BY <2>1, WokenStay
    <2>4. target' \in [Clients -> Targets] /\ breakflag' \in BOOLEAN
      BY <2>1 DEF TypeOK
    <2>. QED
      BY <2>1, <2>2, <2>3, <2>4, ListedSpared, QuietKeeps
  <1>. QED
    BY <1>1 DEF Cancelling

\* The steps that leave the messages and the list alone.
LEMMA AroundKeeps ==
    ASSUME QueueInv, UNCHANGED <<wraps, list, replaced, thread, alive, known, stopped>>,
           LoopsGoOn, breakflag' \in BOOLEAN, installed' \subseteq installed,
           pc' \in [Clients -> Places], target' \in [Clients -> Targets],
           \A c \in Clients : (target'[c] = target[c] /\ pc'[c] = pc[c]) \/ ClientOK(c)'
    PROVE  QueueInv'
  <1>1. MessagesKept({})
    BY NothingGone DEF QueueInv
  <1>2. \A c \in Clients : ClientStays(c, {}) \/ ClientOK(c)'
    BY DEF ClientStays
  <1>. QED
    BY <1>1, <1>2, NothingSpared, QuietKeeps

LEMMA InstallKeeps ==
    ASSUME QueueInv, NEW a, NEW h \in Handlers, InstallMessageHandler(a, h) PROVE QueueInv'
  <1>1. /\ TypeOK /\ h \notin ToSet(known) /\ alive
        /\ installed' = installed \cup {h} /\ known' = Append(known, h)
        /\ UNCHANGED <<thread, alive, breakflag, wraps, list, loops, pc, target, stopped, replaced>>
    BY DEF QueueInv, InstallMessageHandler
  <1>2. known' \in Seq(Handlers) /\ ToSet(known') = ToSet(known) \cup {h}
    <2>1. known \in Seq(Handlers)
      BY <1>1 DEF TypeOK
    <2>2. /\ Append(known, h) \in Seq(Handlers) /\ Len(Append(known, h)) = Len(known) + 1
          /\ \A i \in 1..Len(known) : Append(known, h)[i] = known[i]
          /\ Append(known, h)[Len(known) + 1] = h
      BY <2>1, AppendProperties
    <2>3. /\ DOMAIN known = 1..Len(known) /\ Len(known) \in Nat
          /\ DOMAIN known' = 1..(Len(known) + 1)
      BY <1>1, <2>1, <2>2, LenProperties
    <2>4. DOMAIN known' = DOMAIN known \cup {Len(known) + 1}
      BY <2>3
    <2>. QED
      BY <1>1, <2>2, <2>3, <2>4 DEF ToSet
  <1>3. \A g : Uninstalled(g) => Uninstalled(g)'
    BY <1>1, <1>2 DEF Uninstalled
  <1>4. LoopsGoOn /\ MessagesKept({})
    BY <1>1, UnchangedGoOn, NothingGone
  <1>5. HandlersOK'
    BY <1>1, <1>3, <1>4, NowhereKept DEF QueueInv, HandlersOK
  <1>6. \A c \in Clients : ClientStays(c, {})
    BY <1>1 DEF ClientStays
  <1>7. installed' \subseteq ToSet(known')
    BY <1>1, <1>2 DEF TypeOK
  <1>. QED
    BY <1>1, <1>2, <1>3, <1>4, <1>5, <1>6, <1>7, NothingSpared, StepKeeps DEF TypeOK

LEMMA UnInstallKeeps ==
    ASSUME QueueInv, NEW a, NEW h, UnInstallMessageHandler(a, h) PROVE QueueInv'
  <1>1. LoopsGoOn
    BY UnchangedGoOn DEF QueueInv, UnInstallMessageHandler
  <1>. QED
    BY <1>1, AroundKeeps DEF QueueInv, TypeOK, UnInstallMessageHandler, UnInstall

LEMMA BreakKeeps ==
    ASSUME QueueInv, NEW a, BreakMessageQueueRunloop(a) PROVE QueueInv'
  <1>1. LoopsGoOn
    BY NotifiedGoesOn DEF QueueInv, BreakMessageQueueRunloop
  <1>. QED
    BY <1>1, AroundKeeps DEF QueueInv, TypeOK, BreakMessageQueueRunloop, handlerVars

LEMMA CallKeeps ==
    ASSUME MessageQueueAssumption, QueueInv, NEW a, Call(a) PROVE QueueInv'
  BY PostingKeeps, CancellingKeeps, InstallKeeps, UnInstallKeeps, BreakKeeps DEF Call

-----------------------------------------------------------------------------
(* Waiting                                                                 *)

\* The targets of the functions that wait.
LEMMA NewTargets ==
    ASSUME NEW post \in Nat, NEW h \in Handlers \cup {Everyone}, NEW then \in {"idle", "join"}
    PROVE  /\ NoTarget \in Targets /\ NoTarget.handler = Everyone /\ NoTarget.post = NoPost
           /\ LET t == [NoTarget EXCEPT !.post = post]
              IN  t \in Targets /\ t.handler = Everyone /\ t.post = post
           /\ LET t == [NoTarget EXCEPT !.handler = h]
              IN  t \in Targets /\ t.handler = h /\ t.post = NoPost
  BY DEF NoTarget, Targets, NoPost

TargetWith(t, cond, at) == [t EXCEPT !.cond = cond, !.at = at]

LEMMA TargetSet ==
    ASSUME NEW t \in Targets, NEW cond \in {"end", "run"}, NEW at \in Nat
    PROVE  LET r == TargetWith(t, cond, at)
           IN  r \in Targets /\ r.cond = cond /\ r.at = at /\ r.post = t.post /\ r.handler = t.handler
  <1> DEFINE s == [t EXCEPT !.cond = cond]
             r == [s EXCEPT !.at = at]
  <1>1. s \in Targets /\ s.cond = cond /\ s.post = t.post /\ s.handler = t.handler
    BY DEF Targets
  <1>2. TargetWith(t, cond, at) = r
    BY Zenon DEF TargetWith
  <1> HIDE DEF s
  <1>3. r \in Targets /\ r.cond = s.cond /\ r.at = at /\ r.post = s.post /\ r.handler = s.handler
    BY <1>1 DEF Targets
  <1>. QED
    BY <1>1, <1>2, <1>3

\* A client that begins to wait, with everything else as it was.
LEMMA BlockKeeps ==
    ASSUME QueueInv, NEW c \in Clients, NEW r \in Targets, NEW at \in Places,
           pc' = [pc EXCEPT ![c] = at], target' = [target EXCEPT ![c] = r],
           UNCHANGED <<thread, alive, breakflag, wraps, list, loops, replaced, handlerVars>>,
           ClientOK(c)'
    PROVE  QueueInv'
  <1>1. LoopsGoOn
    BY UnchangedGoOn DEF QueueInv
  <1>2. pc' \in [Clients -> Places] /\ target' \in [Clients -> Targets]
    BY DEF QueueInv, TypeOK
  <1>3. \A d \in Clients : d = c \/ (pc'[d] = pc[d] /\ target'[d] = target[d])
    BY DEF QueueInv, TypeOK
  <1>. QED
    BY <1>1, <1>2, <1>3, AroundKeeps DEF QueueInv, TypeOK, handlerVars

\* WaitMessage and WaitForRunningLockEnd with a post id.
LEMMA BlockRunPostKeeps ==
    ASSUME QueueInv, NEW c \in Clients, NEW w \in DOMAIN wraps,
           BlockRun(c, Running(wraps[w].post), [NoTarget EXCEPT !.post = wraps[w].post]),
           UNCHANGED <<thread, alive, breakflag, wraps, list, loops, replaced, handlerVars>>
    PROVE  QueueInv'
  <1> DEFINE post == wraps[w].post
             t == [NoTarget EXCEPT !.post = post]
  <1>1. post \in Nat \ {0} /\ Everyone \in Handlers \cup {Everyone}
    BY WrapsDomain DEF QueueInv, Wraps
  <1>2. t \in Targets /\ t.handler = Everyone /\ t.post = post
    BY <1>1, NewTargets
  <1>3. PICK i \in DOMAIN loops : First(i, Running(post)) /\ Block(c, [t EXCEPT !.cond = "run", !.at = i])
    BY DEF BlockRun, Running
  <1>4. post \in replaced \cup {w}
    BY DEF QueueInv, MessagesOK
  <1> DEFINE r == TargetWith(t, "run", i)
  <1> HIDE DEF post, t
  <1>5. i \in Nat /\ DOMAIN loops \subseteq Nat
    BY LoopsDomain DEF QueueInv
  <1>6. r \in Targets /\ r.cond = "run" /\ r.at = i /\ r.post = post /\ r.handler = Everyone
    BY <1>2, <1>5, TargetSet
  <1>7. loops[i].post = post /\ \A j \in DOMAIN loops : j < i => loops[j].post # post
    BY <1>3, <1>5 DEF First, Running
  <1> HIDE DEF r
  <1>8. pc' = [pc EXCEPT ![c] = "blocked"] /\ target' = [target EXCEPT ![c] = r]
    BY <1>3 DEF Block, r, TargetWith
  <1>9. pc'[c] = "blocked" /\ target'[c] = r
    BY <1>8 DEF QueueInv, TypeOK
  <1>10. ClientOK(c)'
    BY <1>1, <1>4, <1>6, <1>7, <1>9 DEF ClientOK, WaitsForHandler, WaitsForPost, NoPost, post
  <1>. QED
    BY <1>6, <1>8, <1>10, BlockKeeps DEF Places

LEMMA WaitMessageKeeps ==
    ASSUME QueueInv, NEW c \in Clients, NEW w \in DOMAIN wraps, WaitMessage(c, wraps[w].post)
    PROVE  QueueInv'
  <1> DEFINE post == wraps[w].post
             t == [NoTarget EXCEPT !.post = post]
             v == Pending(post)
  <1>1. CASE v = 0
    BY <1>1, BlockRunPostKeeps DEF WaitMessage
  <1>2. CASE v # 0
    <2>1. v \in list /\ wraps[v].post = post
      BY <1>2 DEF Pending
    <2>2. v \in DOMAIN wraps /\ v \in Nat /\ post \in Nat \ {0} /\ post \in replaced \cup {v}
          /\ post \in DOMAIN wraps
      <3> HIDE DEF post, v
      <3>1. v \in DOMAIN wraps /\ DOMAIN wraps \subseteq Nat
        BY <2>1, WrapsDomain DEF QueueInv, TypeOK
      <3>2. post \in DOMAIN wraps /\ post \in replaced \cup {v}
        BY <2>1, <3>1 DEF QueueInv, MessagesOK
      <3>3. wraps[v] \in Wraps
        BY <3>1, WrapsDomain DEF QueueInv
      <3>4. post \in Nat \ {0}
        BY <2>1, <3>3 DEF Wraps
      <3>. QED
        BY <3>1, <3>2, <3>4
    <2>3. t \in Targets /\ t.handler = Everyone /\ t.post = post
      BY <2>2, NewTargets
    <2>4. Block(c, [t EXCEPT !.cond = "end", !.at = v])
      BY <1>2 DEF WaitMessage
    <2> DEFINE r == TargetWith(t, "end", v)
    <2> HIDE DEF post, t, v
    <2>5. r \in Targets /\ r.cond = "end" /\ r.at = v /\ r.post = post /\ r.handler = Everyone
      BY <2>2, <2>3, TargetSet
    <2> HIDE DEF r
    <2>6. /\ pc' = [pc EXCEPT ![c] = "blocked"] /\ target' = [target EXCEPT ![c] = r]
          /\ UNCHANGED <<thread, alive, breakflag, wraps, list, loops, replaced, handlerVars>>
      BY <2>4 DEF WaitMessage, Block, r, TargetWith
    <2>7. pc'[c] = "blocked" /\ target'[c] = r
      BY <2>6 DEF QueueInv, TypeOK
    <2>8. ClientOK(c)'
      BY <2>1, <2>2, <2>5, <2>6, <2>7 DEF ClientOK, WaitsForHandler, WaitsForPost, NoPost
    <2>. QED
      BY <2>5, <2>6, <2>8, BlockKeeps DEF Places
  <1>. QED
    BY <1>1, <1>2

LEMMA WaitForRunningPostKeeps ==
    ASSUME QueueInv, NEW c \in Clients, NEW w \in DOMAIN wraps,
           WaitForRunningPost(c, wraps[w].post)
    PROVE  QueueInv'
  BY BlockRunPostKeeps DEF WaitForRunningPost

\* ScopeRegister::CancelAndWait: uninstall, cancel, wait.
LEMMA CancelAndWaitKeeps ==
    ASSUME MessageQueueAssumption, QueueInv, NEW c \in Clients, NEW h \in Handlers,
           CancelAndWait(c, h)
    PROVE  QueueInv'
  <1> DEFINE r == [NoTarget EXCEPT !.handler = h]
  <1>1. r \in Targets /\ r.handler = h /\ r.post = NoPost
    BY NewTargets DEF NoPost
  <1>2. /\ pc' = [pc EXCEPT ![c] = "cancel"] /\ target' = [target EXCEPT ![c] = r]
        /\ installed' = installed \ {h} /\ h \in ToSet(known)
        /\ UNCHANGED <<thread, alive, breakflag, wraps, list, loops, known, stopped, replaced>>
    BY DEF CancelAndWait, UnInstall
  <1> HIDE DEF r
  <1>3. /\ pc' \in [Clients -> Places] /\ target' \in [Clients -> Targets]
        /\ pc'[c] = "cancel" /\ target'[c] = r
        /\ \A d \in Clients : d = c \/ (pc'[d] = pc[d] /\ target'[d] = target[d])
    BY <1>1, <1>2 DEF QueueInv, TypeOK, Places
  <1>4. h \in ToSet(known') \ installed'
    BY <1>2 DEF QueueInv, TypeOK
  <1>5. ClientOK(c)'
    BY <1>1, <1>3, <1>4
       DEF ClientOK, WaitsForHandler, WaitsForPost, Uninstalled, MessageQueueAssumption
  <1>6. LoopsGoOn /\ breakflag' \in BOOLEAN /\ installed' \subseteq installed
    BY <1>2, UnchangedGoOn DEF QueueInv, TypeOK
  <1>. QED
    BY <1>2, <1>3, <1>5, <1>6, AroundKeeps

\* WaitForRunningLockEnd with a handler that was uninstalled.
LEMMA WaitForRunningKeeps ==
    ASSUME QueueInv, NEW c \in Clients, NEW h \in Handlers, h # Everyone,
           Uninstalled(h), WaitForRunning(c, h),
           UNCHANGED <<thread, alive, breakflag, wraps, list, loops, replaced, handlerVars>>
    PROVE  QueueInv'
  <1> DEFINE t == [NoTarget EXCEPT !.handler = h]
             at == {i \in DOMAIN loops : h \in loops[i].running}
  <1>1. t \in Targets /\ t.handler = h /\ t.post = NoPost
    BY NewTargets DEF NoPost
  <1>2. Uninstalled(h)' /\ DOMAIN loops \subseteq Nat
    BY LoopsDomain DEF Uninstalled, handlerVars, QueueInv
  <1>3. CASE at # {}
    <2>1. PICK i \in at : First(i, at) /\ Block(c, [t EXCEPT !.cond = "run", !.at = i])
      BY <1>3 DEF WaitForRunning, BlockRun
    <2> DEFINE r == TargetWith(t, "run", i)
    <2>2. i \in DOMAIN loops /\ i \in Nat /\ \A j \in DOMAIN loops : j < i => h \notin loops[j].running
      BY <1>2, <2>1 DEF First
    <2> HIDE DEF t
    <2>3. r \in Targets /\ r.cond = "run" /\ r.at = i /\ r.post = NoPost /\ r.handler = h
      BY <1>1, <2>2, TargetSet
    <2> HIDE DEF r
    <2>4. pc' = [pc EXCEPT ![c] = "blocked"] /\ target' = [target EXCEPT ![c] = r]
      BY <2>1 DEF Block, r, TargetWith
    <2>5. pc'[c] = "blocked" /\ target'[c] = r
      BY <2>4 DEF QueueInv, TypeOK
    <2>6. WaitsForPost(c)'
      BY <2>3, <2>5 DEF WaitsForPost
    <2>7. WaitsForHandler(c)'
      BY <1>2, <2>2, <2>3, <2>5 DEF WaitsForHandler, Uninstalled
    <2>. QED
      BY <2>3, <2>4, <2>5, <2>6, <2>7, BlockKeeps DEF Places, ClientOK
  <1>4. CASE at = {}
    <2>1. pc' = [pc EXCEPT ![c] = "woken"] /\ target' = [target EXCEPT ![c] = t]
      BY <1>4 DEF WaitForRunning
    <2>2. \A i \in DOMAIN loops' : h \notin loops'[i].running
      BY <1>4
    <2> HIDE DEF t
    <2>3. pc'[c] = "woken" /\ target'[c] = t
      BY <2>1 DEF QueueInv, TypeOK
    <2>4. WaitsForPost(c)'
      BY <1>1, <2>3 DEF WaitsForPost
    <2>5. WaitsForHandler(c)'
      BY <1>1, <1>2, <2>2, <2>3 DEF WaitsForHandler, Uninstalled, RunsNowhere
    <2>. QED
      BY <1>1, <2>1, <2>3, <2>4, <2>5, BlockKeeps DEF Places, ClientOK
  <1>. QED
    BY <1>3, <1>4

\* A client goes to a place where it does not wait, with the target it has.
LEMMA ClientMovesOn ==
    ASSUME QueueInv, NEW c \in Clients, pc'[c] \notin {"blocked", "woken", "cancel", "wait"},
           target'[c] = target[c], LoopsGoOn, MessagesKept({}),
           replaced \subseteq replaced', \A h : Uninstalled(h) => Uninstalled(h)'
    PROVE  ClientOK(c)'
  <1>1. WaitsForHandler(c) /\ WaitsForPost(c)
    BY DEF QueueInv, ClientOK
  <1>2. WaitsForHandler(c)'
    <2>. SUFFICES ASSUME NEW h, h = target[c].handler, h # Everyone
                  PROVE  Uninstalled(h)' /\ target[c].post = NoPost
      BY DEF WaitsForHandler, Uninstalled
    <2>. QED
      BY <1>1 DEF WaitsForHandler
  <1>3. WaitsForPost(c)'
    BY <1>1 DEF WaitsForPost, MessagesKept
  <1>. QED
    BY <1>2, <1>3 DEF ClientOK

\* The steps of one client that change its place and at most notify the loop.
LEMMA PlaceKeeps ==
    ASSUME QueueInv, NEW c \in Clients, NEW at \in {"idle", "release", "join"},
           pc' = [pc EXCEPT ![c] = at],
           loops' = loops \/ loops' = Notified, breakflag' \in BOOLEAN,
           UNCHANGED <<thread, alive, wraps, list, target, replaced, handlerVars>>
    PROVE  QueueInv'
  <1>1. LoopsGoOn /\ MessagesKept({})
    BY UnchangedGoOn, NotifiedGoesOn, NothingGone DEF QueueInv
  <1>2. /\ pc' \in [Clients -> Places] /\ target' \in [Clients -> Targets] /\ pc'[c] = at
        /\ \A d \in Clients : d = c \/ (pc'[d] = pc[d] /\ target'[d] = target[d])
    BY DEF QueueInv, TypeOK, Places
  <1>3. \A h : Uninstalled(h) => Uninstalled(h)'
    BY DEF Uninstalled, handlerVars
  <1>4. ClientOK(c)'
    BY <1>1, <1>2, <1>3, ClientMovesOn
  <1>. QED
    BY <1>1, <1>2, <1>4, AroundKeeps DEF handlerVars

LEMMA CancelThenWaitKeeps ==
    ASSUME MessageQueueAssumption, QueueInv, NEW c \in Clients, CancelThenWait(c)
    PROVE  QueueInv'
  <1>0. pc[c] \in {"cancel", "wait"} => target[c].handler # Everyone
    BY DEF QueueInv, ClientOK
  <1>1. CASE pc[c] = "cancel"
    <2> DEFINE gone == {w \in list : wraps[w].to = target[c].handler}
    <2>1. /\ TypeOK /\ wraps' = Deleted(wraps, gone) /\ list' = list \ gone
          /\ pc' = [Woken("end", gone) EXCEPT ![c] = "wait"]
          /\ UNCHANGED <<thread, alive, breakflag, loops, target, replaced, installed, known, stopped>>
      BY <1>1 DEF QueueInv, CancelThenWait, handlerVars
    <2>2. gone \subseteq list
      OBVIOUS
    <2> HIDE DEF gone
    <2>3. MessagesKept(gone) /\ DOMAIN wraps' = DOMAIN wraps /\ LoopsGoOn
      BY <2>1, DeletedKept, UnchangedGoOn
    <2>4. /\ pc' \in [Clients -> Places] /\ pc'[c] = "wait"
          /\ \A d \in Clients \ {c} : ClientStays(d, gone)
      BY <2>1 DEF TypeOK, Woken, ClientStays, Places
    <2>5. ClientOK(c)'
      <3>1. WaitsForHandler(c)
        BY DEF QueueInv, ClientOK
      <3>2. target[c].handler \in ToSet(known') \ installed' /\ target[c].post = NoPost
        BY <1>0, <1>1, <2>1, <3>1 DEF WaitsForHandler, Uninstalled
      <3>. QED
        BY <1>0, <1>1, <2>1, <2>4, <3>2 DEF ClientOK, WaitsForHandler, WaitsForPost, Uninstalled
    <2>6. target' \in [Clients -> Targets] /\ breakflag' \in BOOLEAN
      BY <2>1 DEF TypeOK
    <2>. QED
      BY <2>1, <2>2, <2>3, <2>4, <2>5, <2>6, ListedSpared, QuietKeeps
  <1>2. CASE pc[c] = "wait"
    <2>1. Uninstalled(target[c].handler) /\ target[c].handler \in Handlers
      BY <1>0, <1>2 DEF QueueInv, ClientOK, WaitsForHandler, TypeOK, Targets
    <2>. QED
      BY <1>0, <1>2, <2>1, WaitForRunningKeeps DEF CancelThenWait
  <1>. QED
    BY <1>1, <1>2 DEF CancelThenWait

\* Return, and the functions that end the queue.
LEMMA ReturnKeeps == ASSUME QueueInv, NEW c \in Clients, Return(c) PROVE QueueInv'
  <1>1. /\ pc[c] = "woken" /\ pc' = [pc EXCEPT ![c] = target[c].then]
        /\ target' = [target EXCEPT ![c] = NoTarget]
        /\ stopped' = IF target[c].handler = Everyone THEN stopped
                      ELSE stopped \cup {target[c].handler}
        /\ UNCHANGED <<thread, alive, breakflag, wraps, list, installed, known, loops, replaced>>
    BY DEF Return
  <1>2. TypeOK /\ LoopsGoOn /\ MessagesKept({})
    BY <1>1, UnchangedGoOn, NothingGone DEF QueueInv
  <1>3. target[c] \in Targets /\ NoTarget \in Targets /\ NoTarget.handler = Everyone
        /\ NoTarget.post = NoPost
    BY <1>2 DEF TypeOK, NoTarget, Targets, NoPost
  <1>4. target[c].then \in {"idle", "join"} /\ target[c].handler \in Handlers \cup {Everyone}
    BY <1>3 DEF Targets
  <1>5. /\ pc' \in [Clients -> Places] /\ target' \in [Clients -> Targets]
        /\ pc'[c] \in {"idle", "join"} /\ target'[c] = NoTarget
        /\ \A d \in Clients : d = c \/ ClientStays(d, {})
    BY <1>1, <1>2, <1>3, <1>4 DEF TypeOK, Places, ClientStays
  <1>6. ClientOK(c)'
    BY <1>3, <1>5 DEF ClientOK, WaitsForHandler, WaitsForPost
  <1>7. \A h : Uninstalled(h) => Uninstalled(h)'
    BY <1>1 DEF Uninstalled
  <1>8. \A h \in stopped' : Uninstalled(h) /\ RunsNowhere(h)
    BY <1>1 DEF QueueInv, HandlersOK, ClientOK, WaitsForHandler
  <1>9. HandlersOK'
    BY <1>1, <1>2, <1>7, <1>8, NowhereKept DEF QueueInv, HandlersOK
  <1>10. stopped' \subseteq Handlers
    BY <1>1, <1>2, <1>4 DEF TypeOK
  <1>. QED
    BY <1>1, <1>2, <1>5, <1>6, <1>7, <1>9, <1>10, NothingSpared, StepKeeps DEF TypeOK

LEMMA ReleaseThenWaitKeeps ==
    ASSUME QueueInv, NEW c \in Clients, ReleaseThenWait(c) PROVE QueueInv'
  <1> DEFINE s == TargetWith(NoTarget, "run", 1)
             r == [s EXCEPT !.then = "join"]
  <1>1. UNCHANGED <<thread, alive, breakflag, wraps, list, loops, replaced, handlerVars>>
    BY DEF ReleaseThenWait
  <1>2. CASE Block(c, [NoTarget EXCEPT !.cond = "run", !.at = 1, !.then = "join"])
    <2>1. r = [NoTarget EXCEPT !.cond = "run", !.at = 1, !.then = "join"]
      BY Zenon DEF TargetWith
    <2>2. r \in Targets /\ r.handler = Everyone /\ r.post = NoPost
      <3>1. NoTarget \in Targets /\ NoTarget.handler = Everyone /\ NoTarget.post = NoPost
        BY DEF NoTarget, Targets, NoPost
      <3>2. s \in Targets /\ s.handler = Everyone /\ s.post = NoPost
        BY <3>1, TargetSet
      <3> HIDE DEF s
      <3>. QED
        BY <3>2 DEF Targets
    <2> HIDE DEF r
    <2>3. pc' = [pc EXCEPT ![c] = "blocked"] /\ target' = [target EXCEPT ![c] = r]
      BY <1>2, <2>1 DEF Block
    <2>4. target'[c] = r /\ pc'[c] = "blocked"
      BY <2>3 DEF QueueInv, TypeOK
    <2>5. ClientOK(c)'
      BY <2>2, <2>4 DEF ClientOK, WaitsForHandler, WaitsForPost
    <2>. QED
      BY <1>1, <2>2, <2>3, <2>5, BlockKeeps DEF Places
  <1>3. CASE pc' = [pc EXCEPT ![c] = "join"] /\ UNCHANGED target
    BY <1>1, <1>3, PlaceKeeps DEF QueueInv, TypeOK
  <1>. QED
    BY <1>2, <1>3 DEF ReleaseThenWait, WaitForRunningQueue

LEMMA EndingKeeps ==
    ASSUME QueueInv, NEW c \in Clients, Stop(c) \/ ReleaseNewMessageQueue(c) \/ Join(c)
    PROVE  QueueInv'
  <1>1. breakflag' \in BOOLEAN
    BY DEF QueueInv, TypeOK, Stop, ReleaseNewMessageQueue, Join
  <1>. QED
    BY <1>1, PlaceKeeps DEF Stop, ReleaseNewMessageQueue, Join

LEMMA CreateKeeps ==
    ASSUME MessageQueueAssumption, QueueInv, NEW c \in Clients, CreateMessageQueue(c)
    PROVE  QueueInv'
  <1>1. /\ TypeOK /\ thread = "off" /\ thread' = "running" /\ alive' = TRUE
        /\ installed' = {Async} /\ known' = <<Async>>
        /\ UNCHANGED <<breakflag, wraps, list, loops, pc, target, stopped, replaced>>
    BY DEF QueueInv, CreateMessageQueue, CreateMessageQueueInfo
  <1>2. known = <<>>
    BY <1>1 DEF QueueInv, HandlersOK
  <1>3. \A h : ~Uninstalled(h)
    BY <1>2 DEF Uninstalled, ToSet
  <1>4. known' \in Seq(Handlers) /\ ToSet(known') = {Async}
    BY <1>1 DEF MessageQueueAssumption, ToSet
  <1>5. LoopsGoOn /\ MessagesKept({})
    BY <1>1, UnchangedGoOn, NothingGone
  <1>6. stopped = {}
    BY <1>3 DEF QueueInv, HandlersOK
  <1>7. HandlersOK'
    BY <1>1, <1>6 DEF HandlersOK
  <1>8. \A d \in Clients : ClientStays(d, {})
    BY <1>1 DEF ClientStays
  <1>. QED
    BY <1>1, <1>3, <1>4, <1>5, <1>6, <1>7, <1>8, NothingSpared, StepKeeps DEF TypeOK

LEMMA ClientKeeps ==
    ASSUME MessageQueueAssumption, QueueInv, NEW c \in Clients, Blocking(c) \/ ClientStep(c)
    PROVE  QueueInv'
  BY CreateKeeps, EndingKeeps, WaitMessageKeeps, WaitForRunningPostKeeps, CancelAndWaitKeeps,
     CancelThenWaitKeeps, ReleaseThenWaitKeeps, ReturnKeeps
     DEF Blocking, ClientStep

-----------------------------------------------------------------------------
(* The loops                                                               *)

\* A new loop: Run, or a handler that waits for a message.
LEMMA NewLoopKeeps ==
    ASSUME QueueInv, NEW post \in Nat, loops' = Append(loops, NewLoop(post)),
           UNCHANGED <<thread, alive, breakflag, wraps, list, pc, target, replaced, handlerVars>>
    PROVE  QueueInv'
  <1> DEFINE r == NewLoop(post)
             n == Level + 1
  <1>1. r \in Loops /\ r.at = "top" /\ r.running = {} /\ r.todo = {} /\ r.post = NoPost
    BY DEF NewLoop, Loops, NoPost
  <1>2. Level \in Nat /\ DOMAIN loops = 1..Level /\ loops \in Seq(Loops)
    BY LoopsDomain DEF QueueInv, TypeOK
  <1> HIDE DEF r
  <1>3. /\ loops' \in Seq(Loops) /\ DOMAIN loops' = DOMAIN loops \cup {n} /\ loops'[n] = r
        /\ n \notin DOMAIN loops /\ \A i \in DOMAIN loops : loops'[i] = loops[i] /\ i < n
    <2>1. /\ loops' \in Seq(Loops) /\ Len(loops') = Len(loops) + 1
          /\ \A i \in 1..Len(loops) : loops'[i] = loops[i]
          /\ loops'[Len(loops) + 1] = r
      BY <1>1, <1>2, AppendProperties DEF r
    <2>2. DOMAIN loops' = 1..(Level + 1)
      BY <2>1, LenProperties DEF Level
    <2>. QED
      BY <1>2, <2>1, <2>2 DEF Level
  <1>4. UNCHANGED <<installed, known, stopped>>
    BY DEF handlerVars
  <1> HIDE DEF n
  <1>5. TypeOK' /\ MessagesOK'
    BY <1>3, <1>4 DEF QueueInv, TypeOK, MessagesOK, Periodic
  <1>6. \A i \in DOMAIN loops' : LoopOK(i)'
    BY <1>1, <1>3 DEF QueueInv, LoopOK, Handles, Periodic
  <1>7. LoopsApart'
    BY <1>1, <1>3 DEF QueueInv, LoopsApart, Handles, Periodic
  <1>8. \A h : RunsNowhere(h) => RunsNowhere(h)'
    BY <1>1, <1>3 DEF RunsNowhere
  <1>9. HandlersOK'
    BY <1>4, <1>8 DEF QueueInv, HandlersOK, Uninstalled
  <1>10. ASSUME NEW c \in Clients PROVE ClientOK(c)'
    <2>1. WaitsForHandler(c) /\ WaitsForPost(c) /\ (target[c].handler # Everyone \/ pc[c] \notin {"cancel", "wait"})
      BY DEF QueueInv, ClientOK
    <2>2. \A i \in DOMAIN loops : ~(n < i)
      BY <1>2 DEF n
    <2>3. WaitsForHandler(c)'
      BY <1>3, <1>4, <1>8, <2>1, <2>2 DEF WaitsForHandler, Uninstalled, RunsNowhere
    <2>4. WaitsForPost(c)'
      BY <1>1, <1>3, <2>1, <2>2 DEF WaitsForPost, Handles, Periodic
    <2>. QED
      BY <2>1, <2>3, <2>4 DEF ClientOK
  <1>. QED
    BY <1>5, <1>6, <1>7, <1>9, <1>10 DEF QueueInv

\* A step of the innermost loop between two iterations' beginnings.
LEMMA InvokeKeeps ==
    ASSUME QueueInv, LoopTimeout \/ LoopInvoke \/ HandlerReturns PROVE QueueInv'
  <1>1. loops # <<>> /\ TypeOK
    BY DEF QueueInv, LoopTimeout, LoopInvoke, HandlerReturns, TopIs
  <1>2. loops[Level] \in Loops
    BY <1>1, LoopsDomain
  <1>3. LoopsGoOn
    <2>1. ASSUME NEW at \in {"top", "in"}, SetTop([loops[Level] EXCEPT !.at = at]),
                 at = "in" => loops[Level].at = "handle"
          PROVE  LoopsGoOn
      <3> DEFINE r == [loops[Level] EXCEPT !.at = at]
      <3>1. r \in Loops /\ r.at = at /\ r.wrap = loops[Level].wrap /\ r.post = loops[Level].post
            /\ r.running = loops[Level].running /\ r.todo = loops[Level].todo
        <4> DEFINE q == loops[Level]
        <4>1. q \in Loops /\ at \in {"top", "waiting", "handle", "in"}
          BY <1>2
        <4> HIDE DEF q
        <4>2. LET z == [q EXCEPT !.at = at]
              IN  z \in Loops /\ z.at = at /\ z.wrap = q.wrap /\ z.post = q.post
                  /\ z.running = q.running /\ z.todo = q.todo
          BY <4>1, LoopMoves
        <4>. QED
          BY <4>2 DEF q
      <3>2. SetTop(r)
        BY <2>1
      <3> HIDE DEF r
      <3>. QED
        BY <1>1, <2>1, <3>1, <3>2, TopGoesOn
    <2>2. ASSUME NEW h, loops[Level].at = "in",
                 SetTop([loops[Level] EXCEPT !.at = "handle", !.todo = @ \ {h}])
          PROVE  LoopsGoOn
      <3> DEFINE todo == loops[Level].todo \ {h}
                 r == [loops[Level] EXCEPT !.at = "handle", !.todo = todo]
      <3>0. todo \in SUBSET loops[Level].todo
        OBVIOUS
      <3>1. r \in Loops /\ r.at = "handle" /\ r.wrap = loops[Level].wrap
            /\ r.post = loops[Level].post /\ r.running = loops[Level].running /\ r.todo = todo
        <4> DEFINE q == loops[Level]
        <4>1. q \in Loops
          BY <1>2
        <4> HIDE DEF todo, q
        <4>2. LET z == [q EXCEPT !.at = "handle", !.todo = todo]
              IN  z \in Loops /\ z.at = "handle" /\ z.wrap = q.wrap /\ z.post = q.post
                  /\ z.running = q.running /\ z.todo = todo
          BY <3>0, <4>1, LoopDoes DEF q
        <4>. QED
          BY <4>2 DEF q
      <3>2. SetTop(r)
        BY <2>2
      <3> HIDE DEF r, todo
      <3>. QED
        BY <1>1, <2>2, <3>0, <3>1, <3>2, TopGoesOn
    <2>. QED
      BY <2>1, <2>2 DEF LoopTimeout, LoopInvoke, HandlerReturns, TopIs
  <1>. QED
    BY <1>1, <1>3, AroundKeeps
       DEF TypeOK, LoopTimeout, LoopInvoke, HandlerReturns, handlerVars

LEMMA DeleteKeeps == ASSUME QueueInv, LoopDelete PROVE QueueInv'
  <1> DEFINE w == loops[Level].wrap
             gone == IF wraps[w].kind = "periodic" THEN {} ELSE {w}
             r == [loops[Level] EXCEPT !.at = "top"]
  <1>1. /\ TypeOK /\ loops # <<>> /\ Handles(Level) /\ SetTop(r)
        /\ wraps' = Deleted(wraps, gone) /\ pc' = Woken("end", gone)
        /\ UNCHANGED <<thread, alive, breakflag, list, target, replaced, installed, known, stopped>>
    BY DEF QueueInv, LoopDelete, TopIs, Handles, handlerVars
  <1>2. Level \in DOMAIN loops /\ loops[Level] \in Loops
    BY <1>1, LoopsDomain
  <1>3. r \in Loops /\ r.at = "top" /\ r.wrap = loops[Level].wrap /\ r.post = loops[Level].post
        /\ r.running = loops[Level].running /\ r.todo = loops[Level].todo
    BY <1>2, LoopMoves
  <1>4. Periodic(w) \/ wraps[w].runs = 1
    BY <1>1, <1>2 DEF QueueInv, LoopOK
  <1>5. list \cap gone = {}
    BY <1>4 DEF QueueInv, MessagesOK, Periodic
  <1>6. \A v \in gone : v = w /\ ~Periodic(w)
    BY DEF Periodic
  <1> HIDE DEF gone, r
  <1>7. LoopsGoOn /\ \A i \in DOMAIN loops : Handles(i)' => Handles(i) /\ i # Level
    <2>1. loops'[Level] = r /\ LoopsGoOn
      BY <1>1, <1>3, TopIsSet, TopGoesOn
    <2>. QED
      BY <1>3, <2>1 DEF LoopsGoOn, Handles
  <1>8. SparesHandled(gone)
    <2>. SUFFICES ASSUME NEW i \in DOMAIN loops, Handles(i)', loops[i].wrap \in gone
                  PROVE  FALSE
      BY DEF SparesHandled
    <2>1. Handles(i) /\ i # Level /\ loops[i].wrap = loops[Level].wrap /\ ~Periodic(loops[i].wrap)
      BY <1>6, <1>7
    <2>. QED
      BY <1>1, <1>2, <2>1 DEF QueueInv, LoopsApart
  <1>9. MessagesKept(gone) /\ DOMAIN wraps' = DOMAIN wraps
    BY <1>1, <1>5, DeletedKept
  <1>10. pc' \in [Clients -> Places] /\ \A c \in Clients : ClientStays(c, gone)
    BY <1>1, WokenStay
  <1>. QED
    BY <1>1, <1>7, <1>8, <1>9, <1>10, QuietKeeps DEF TypeOK

\* The beginning of an iteration: the innermost loop ends, waits, or takes a
\* message out of the list; the loops around it are where they were.
LoopsTurn ==
    /\ loops' \in Seq(Loops)
    /\ \A i \in DOMAIN loops : i # Level => i \in DOMAIN loops' /\ loops'[i] = loops[i]
    /\ \A i \in DOMAIN loops' : i \in DOMAIN loops
    /\ Level \in DOMAIN loops' =>
         /\ loops'[Level].running \subseteq installed
         /\ loops'[Level].at \in {"handle", "in"} =>
              \E v \in list : loops'[Level].post = wraps[v].post

MessagesTurn ==
    /\ wraps' \in Seq(Wraps) /\ DOMAIN wraps' = DOMAIN wraps /\ list' \subseteq list
    /\ \A w \in DOMAIN wraps :
         /\ wraps'[w].post = wraps[w].post /\ wraps'[w].kind = wraps[w].kind
         /\ wraps[w].freed => wraps'[w].freed

\* A client that waits for this loop is told; or its message is deleted.
ClientTurn(c) ==
    /\ target'[c] = target[c]
    /\ \/ /\ pc'[c] = pc[c]
          /\ ~(pc[c] = "blocked" /\ target[c].cond = "run" /\ target[c].at = Level)
       \/ /\ pc[c] = "blocked" /\ pc'[c] = "woken"
          /\ target[c].cond = "run" /\ target[c].at = Level
       \/ /\ pc[c] = "blocked" /\ pc'[c] = "woken"
          /\ target[c].cond = "end" /\ wraps'[target[c].at].freed

\* The first loop that ran h, or handled p, was the only one.
LEMMA TurnNowhere ==
    ASSUME QueueInv, loops # <<>>, LoopsTurn, NEW h, Uninstalled(h),
           \A j \in DOMAIN loops : j < Level => h \notin loops[j].running
    PROVE  RunsNowhere(h)'
  <1>1. \A i \in DOMAIN loops : i # Level => i < Level
    BY LoopsDomain DEF QueueInv
  <1>. QED
    BY <1>1 DEF LoopsTurn, RunsNowhere, Uninstalled

LEMMA TurnHandlesNot ==
    ASSUME QueueInv, loops # <<>>, LoopsTurn, NEW p, p \notin replaced, p \notin list,
           \A j \in DOMAIN loops : j < Level => ~Handles(j) \/ loops[j].post # p
    PROVE  \A i \in DOMAIN loops' : Handles(i)' => loops'[i].post # p
  <1>1. \A i \in DOMAIN loops : i # Level => i < Level
    BY LoopsDomain DEF QueueInv
  <1>2. \A v \in list : wraps[v].post # p
    BY DEF QueueInv, TypeOK, MessagesOK
  <1>. QED
    BY <1>1, <1>2 DEF LoopsTurn, Handles

LEMMA TurnTells ==
    ASSUME QueueInv, loops # <<>>, LoopsTurn, MessagesTurn, UNCHANGED <<replaced, known>>,
           installed' \subseteq installed, NEW c \in Clients, ClientTurn(c)
    PROVE  ClientOK(c)'
  <1>1. WaitsForHandler(c) /\ WaitsForPost(c) /\ target'[c] = target[c]
    BY DEF QueueInv, ClientOK, ClientTurn
  <1>2. \A h : Uninstalled(h) => Uninstalled(h)'
    BY DEF Uninstalled
  <1>3. /\ Level \in DOMAIN loops /\ DOMAIN loops \subseteq Nat
        /\ \A i \in DOMAIN loops : i # Level => i < Level
    BY LoopsDomain DEF QueueInv
  <1>4. WaitsForHandler(c)'
    <2>. SUFFICES ASSUME NEW h, h = target[c].handler, h # Everyone
                  PROVE  /\ Uninstalled(h)' /\ target[c].post = NoPost
                         /\ pc'[c] = "blocked" =>
                              /\ target[c].cond = "run" /\ target[c].at \in DOMAIN loops'
                              /\ \A j \in DOMAIN loops' : j < target[c].at => h \notin loops'[j].running
                         /\ pc'[c] = "woken" => RunsNowhere(h)'
      BY <1>1 DEF WaitsForHandler, Uninstalled, RunsNowhere
    <2>1. /\ Uninstalled(h) /\ target[c].post = NoPost /\ (pc[c] = "woken" => RunsNowhere(h))
          /\ pc[c] = "blocked" =>
               /\ target[c].cond = "run" /\ target[c].at \in DOMAIN loops
               /\ \A j \in DOMAIN loops : j < target[c].at => h \notin loops[j].running
      BY <1>1 DEF WaitsForHandler
    <2>2. ASSUME pc'[c] = "blocked"
          PROVE  /\ target[c].cond = "run" /\ target[c].at \in DOMAIN loops'
                 /\ \A j \in DOMAIN loops' : j < target[c].at => h \notin loops'[j].running
      <3>1. pc[c] = "blocked" /\ target[c].at < Level
        BY <1>3, <2>1, <2>2 DEF ClientTurn
      <3>2. \A j \in DOMAIN loops' : j < target[c].at => j \in DOMAIN loops /\ j # Level
        BY <1>3, <2>1, <3>1 DEF LoopsTurn
      <3>. QED
        BY <1>3, <2>1, <3>1, <3>2 DEF LoopsTurn
    <2>3. ASSUME pc'[c] = "woken" PROVE RunsNowhere(h)'
      <3>1. \A j \in DOMAIN loops : j < Level => h \notin loops[j].running
        BY <2>1, <2>3 DEF ClientTurn, RunsNowhere
      <3>. QED
        BY <2>1, <3>1, TurnNowhere
    <2>. QED
      BY <1>2, <2>1, <2>2, <2>3
  <1>5. WaitsForPost(c)'
    <2>. SUFFICES ASSUME NEW p, p = target[c].post, p # NoPost, p \notin replaced
                  PROVE  /\ p \in DOMAIN wraps' /\ wraps'[p].post = p
                         /\ target[c].cond = "end" \/ target[c].cond = "run"
                         /\ target[c].cond = "end" =>
                              target[c].at = p /\ (pc'[c] = "woken" => wraps'[p].freed)
                         /\ (target[c].cond = "run" /\ pc'[c] = "blocked") =>
                              /\ target[c].at \in DOMAIN loops' /\ loops'[target[c].at].post = p
                              /\ \A j \in DOMAIN loops' : j < target[c].at => loops'[j].post # p
                         /\ (target[c].cond = "run" /\ pc'[c] = "woken") =>
                              \/ Periodic(p)'
                              \/ p \notin list' /\ \A i \in DOMAIN loops' : Handles(i)' => loops'[i].post # p
      BY <1>1 DEF WaitsForPost, Periodic
    <2>1. /\ p \in DOMAIN wraps /\ wraps[p].post = p
          /\ target[c].cond = "end" \/ target[c].cond = "run"
          /\ target[c].cond = "end" => target[c].at = p /\ (pc[c] = "woken" => wraps[p].freed)
          /\ (target[c].cond = "run" /\ pc[c] = "blocked") =>
               /\ target[c].at \in DOMAIN loops /\ loops[target[c].at].post = p
               /\ \A j \in DOMAIN loops : j < target[c].at => loops[j].post # p
      BY <1>1 DEF WaitsForPost
    <2>2. p \in DOMAIN wraps' /\ wraps'[p].post = p /\ (Periodic(p)' <=> Periodic(p))
      BY <2>1 DEF MessagesTurn, Periodic
    <2>3. target[c].cond = "end" => target[c].at = p /\ (pc'[c] = "woken" => wraps'[p].freed)
      BY <2>1 DEF ClientTurn, MessagesTurn
    <2>4. ASSUME target[c].cond = "run", pc'[c] = "blocked"
          PROVE  /\ target[c].at \in DOMAIN loops' /\ loops'[target[c].at].post = p
                 /\ \A j \in DOMAIN loops' : j < target[c].at => loops'[j].post # p
      <3>1. pc[c] = "blocked" /\ target[c].at < Level
        BY <1>3, <2>1, <2>4 DEF ClientTurn
      <3>2. \A j \in DOMAIN loops' : j < target[c].at => j \in DOMAIN loops /\ j # Level
        BY <1>3, <2>1, <2>4, <3>1 DEF LoopsTurn
      <3>. QED
        BY <1>3, <2>1, <2>4, <3>1, <3>2 DEF LoopsTurn
    <2>5. ASSUME target[c].cond = "run", pc'[c] = "woken", ~Periodic(p)
          PROVE  p \notin list' /\ \A i \in DOMAIN loops' : Handles(i)' => loops'[i].post # p
      <3>1. p \notin list /\ \A j \in DOMAIN loops : j < Level => ~Handles(j) \/ loops[j].post # p
        <4>1. CASE pc[c] = "woken"
          BY <1>1, <2>5, <4>1 DEF WaitsForPost
        <4>2. CASE pc[c] = "blocked" /\ target[c].at = Level
          <5>1. loops[Level].post = p /\ \A j \in DOMAIN loops : j < Level => loops[j].post # p
            BY <2>1, <2>5, <4>2
          <5>2. LoopOK(Level)
            BY <1>3 DEF QueueInv
          <5>3. /\ loops[Level].wrap \in DOMAIN wraps /\ wraps[loops[Level].wrap].post = p
                /\ wraps[loops[Level].wrap].runs > 0
            BY <5>1, <5>2 DEF LoopOK
          <5>4. loops[Level].wrap = p
            BY <5>3 DEF QueueInv, MessagesOK
          <5>5. wraps[p].runs # 0
            BY <5>3, <5>4
          <5>. QED
            BY <2>5, <5>1, <5>5 DEF QueueInv, MessagesOK
        <4>. QED
          BY <2>5, <4>1, <4>2 DEF ClientTurn
      <3>. QED
        BY <3>1, TurnHandlesNot DEF MessagesTurn
    <2>. QED
      BY <2>1, <2>2, <2>3, <2>4, <2>5
  <1>6. pc'[c] \in {"cancel", "wait"} => target'[c].handler # Everyone
    BY DEF QueueInv, ClientOK, ClientTurn
  <1>. QED
    BY <1>4, <1>5, <1>6 DEF ClientOK

LEMMA TurnKeeps ==
    ASSUME QueueInv, loops # <<>>, LoopsTurn, MessagesTurn, MessagesOK',
           (\A i \in DOMAIN loops : LoopOK(i))', LoopsApart',
           thread' \in {thread, "ended"}, alive' \in {alive, FALSE}, installed' \subseteq installed,
           UNCHANGED <<breakflag, target, known, stopped, replaced>>,
           pc' \in [Clients -> Places], \A c \in Clients : ClientTurn(c)
    PROVE  QueueInv'
  <1>1. TypeOK'
    BY DEF QueueInv, TypeOK, LoopsTurn, MessagesTurn
  <1>2. ASSUME NEW h \in stopped PROVE Uninstalled(h)' /\ RunsNowhere(h)'
    <2>1. Uninstalled(h) /\ RunsNowhere(h)
      BY DEF QueueInv, HandlersOK
    <2>. QED
      BY <2>1, TurnNowhere DEF Uninstalled, RunsNowhere
  <1>3. HandlersOK'
    <2>1. thread' = "off" => known' = <<>> /\ ~alive'
      BY DEF QueueInv, HandlersOK
    <2>2. \A h \in stopped' : Uninstalled(h)' /\ RunsNowhere(h)'
      BY <1>2
    <2>. QED
      BY <2>1, <2>2 DEF HandlersOK, Uninstalled, RunsNowhere
  <1>4. \A c \in Clients : ClientOK(c)'
    BY TurnTells
  <1>. QED
    BY <1>1, <1>3, <1>4 DEF QueueInv

\* LoopBreak of a nested loop, and LoopWait: no message moves.
LEMMA QuietTurnKeeps ==
    ASSUME QueueInv, loops # <<>>, LoopsTurn,
           UNCHANGED <<thread, alive, breakflag, wraps, list, target, replaced, handlerVars>>,
           pc' = Woken("run", {Level}),
           Level \in DOMAIN loops' =>
               loops'[Level].post = NoPost /\ loops'[Level].todo = {} /\ ~Handles(Level)
               /\ loops'[Level].at = "waiting"
    PROVE  QueueInv'
  <1>1. MessagesTurn /\ MessagesOK'
    BY DEF QueueInv, TypeOK, MessagesTurn, MessagesOK, Periodic
  <1>2. \A i \in DOMAIN loops' : i \in DOMAIN loops /\ (i # Level => loops'[i] = loops[i])
    BY DEF LoopsTurn
  <1>3. \A i \in DOMAIN loops' : LoopOK(i)'
    BY <1>2 DEF QueueInv, LoopOK, Handles, Periodic
  <1>4. LoopsApart'
    BY <1>2 DEF QueueInv, LoopsApart, Handles, Periodic
  <1>5. pc' \in [Clients -> Places] /\ \A c \in Clients : ClientTurn(c)
    BY DEF QueueInv, TypeOK, Woken, ClientTurn, Places
  <1>. QED
    BY <1>1, <1>3, <1>4, <1>5, TurnKeeps DEF handlerVars

LEMMA WaitKeeps == ASSUME QueueInv, LoopWait PROVE QueueInv'
  <1> DEFINE s == NewLoop(loops[Level].until)
             r == [s EXCEPT !.at = "waiting"]
  <1>1. /\ loops # <<>> /\ loops[Level].at = "top" /\ SetTop(r) /\ pc' = Woken("run", {Level})
        /\ UNCHANGED <<thread, alive, breakflag, wraps, list, target, replaced, handlerVars>>
    BY DEF LoopWait, TopIs
  <1>2. loops[Level].until \in Nat /\ TypeOK
    BY <1>1, LoopsDomain DEF QueueInv, Loops
  <1>3. s \in Loops /\ s.running = {} /\ s.todo = {} /\ s.post = NoPost
    BY <1>2 DEF NewLoop, Loops, NoPost
  <1> HIDE DEF s
  <1>4. r \in Loops /\ r.at = "waiting" /\ r.running = {} /\ r.todo = {} /\ r.post = NoPost
    BY <1>3, LoopMoves
  <1> HIDE DEF r
  <1>5. loops'[Level] = r /\ LoopsTurn
    BY <1>1, <1>2, <1>4, TopIsSet DEF LoopsTurn
  <1>. QED
    BY <1>1, <1>4, <1>5, QuietTurnKeeps DEF Handles

\* The innermost loop ends.
LEMMA FrontIs ==
    ASSUME TypeOK, loops # <<>>, loops' = Front(loops)
    PROVE  /\ loops' \in Seq(Loops) /\ DOMAIN loops' = DOMAIN loops \ {Level}
           /\ \A i \in DOMAIN loops' : loops'[i] = loops[i]
  <1>1. Level \in Nat /\ Level > 0 /\ loops \in Seq(Loops) /\ DOMAIN loops = 1..Level
        /\ \A i \in DOMAIN loops : loops[i] \in Loops
    BY LoopsDomain DEF TypeOK
  <1>2. loops' = SubSeq(loops, 1, Level - 1)
    BY DEF Front, Level
  <1>3. loops' = [i \in 1..(Level - 1) |-> loops[i]]
    BY <1>1, <1>2
  <1>4. loops' \in Seq(Loops)
    <2>1. \A i \in 1..(Level - 1) : loops[i] \in Loops
      BY <1>1
    <2>2. Level - 1 \in Nat
      BY <1>1
    <2>. QED
      BY <1>3, <2>1, <2>2, IsASeq
  <1>. QED
    BY <1>1, <1>3, <1>4

LEMMA LoopBreakKeeps == ASSUME QueueInv, LoopBreak PROVE QueueInv'
  <1>1. loops # <<>> /\ loops[Level].at = "top" /\ loops' = Front(loops) /\ TypeOK
        /\ UNCHANGED <<breakflag, target, known, stopped, replaced>>
    BY DEF QueueInv, LoopBreak, TopIs
  <1>2. LoopsTurn /\ Level \notin DOMAIN loops'
    BY <1>1, FrontIs DEF LoopsTurn
  <1>3. CASE Level > 1
    BY <1>1, <1>2, <1>3, QuietTurnKeeps DEF LoopBreak, handlerVars
  <1>4. CASE ~(Level > 1)
    <2>1. /\ wraps' = Deleted(wraps, list) /\ list' = {} /\ installed' = {} /\ alive' = FALSE
          /\ thread' = "ended"
          /\ pc' = [c \in Clients |->
                        IF "woken" \in {Woken("run", {1})[c], Woken("end", list)[c]}
                        THEN "woken" ELSE pc[c]]
      BY <1>4 DEF LoopBreak
    <2>2. Level = 1 /\ DOMAIN loops' = {}
      <3>1. Level \in Nat /\ Level > 0 /\ DOMAIN loops = 1..Level
        BY <1>1, LoopsDomain
      <3>2. Level = 1
        BY <1>4, <3>1
      <3>3. DOMAIN loops' = DOMAIN loops \ {Level}
        BY <1>1, FrontIs
      <3>. QED
        BY <3>1, <3>2, <3>3
    <2>3. MessagesKept(list) /\ DOMAIN wraps' = DOMAIN wraps
      BY <1>1, <2>1, DeletedKept
    <2>4. MessagesTurn
      BY <2>1, <2>3 DEF MessagesKept, MessagesTurn
    <2>5. MessagesOK'
      BY <1>1, <2>1, <2>3, MessagesStayOK
    <2>6. (\A i \in DOMAIN loops : LoopOK(i))' /\ LoopsApart'
      BY <2>2 DEF LoopsApart
    <2>7. ASSUME NEW c \in Clients PROVE pc'[c] \in Places /\ ClientTurn(c)
      <3>1. pc[c] \in Places
        BY <1>1 DEF TypeOK
      <3>2. pc'[c] = IF \/ pc[c] = "woken"
                        \/ pc[c] = "blocked" /\ target[c].cond = "run" /\ target[c].at = 1
                        \/ pc[c] = "blocked" /\ target[c].cond = "end" /\ target[c].at \in list
                     THEN "woken" ELSE pc[c]
        BY <2>1 DEF Woken
      <3>3. \A w \in list : wraps'[w].freed
        BY <1>1, <2>3 DEF MessagesKept, TypeOK
      <3>. QED
        BY <1>1, <2>2, <3>1, <3>2, <3>3 DEF ClientTurn, Places
    <2>8. pc' \in [Clients -> Places]
      BY <2>1, <2>7
    <2>. QED
      BY <1>1, <1>2, <2>1, <2>4, <2>5, <2>6, <2>7, <2>8, TurnKeeps
  <1>. QED
    BY <1>3, <1>4

\* A message that is taken, as a record that stands alone.
LEMMA TakenFacts ==
    ASSUME NEW m \in Wraps
    PROVE  LET q == [[m EXCEPT !.runs = m.runs + 1] EXCEPT !.due = FALSE]
           IN  q \in Wraps /\ q.post = m.post /\ q.kind = m.kind /\ q.freed = m.freed
               /\ q.runs = m.runs + 1
  <1> DEFINE s == [m EXCEPT !.runs = m.runs + 1]
  <1>1. s \in Wraps /\ s.post = m.post /\ s.kind = m.kind /\ s.freed = m.freed
        /\ s.runs = m.runs + 1
    BY DEF Wraps
  <1> HIDE DEF s
  <1>2. LET q == [s EXCEPT !.due = FALSE]
        IN  q \in Wraps /\ q.post = s.post /\ q.kind = s.kind /\ q.freed = s.freed
            /\ q.runs = s.runs
    BY <1>1 DEF Wraps
  <1>. QED
    BY <1>1, <1>2 DEF s

LEMMA TakenIs ==
    ASSUME TypeOK, NEW w \in DOMAIN wraps,
           wraps' = [wraps EXCEPT ![w].runs = @ + 1, ![w].due = FALSE]
    PROVE  /\ wraps' \in Seq(Wraps) /\ DOMAIN wraps' = DOMAIN wraps
           /\ \A v \in DOMAIN wraps :
                /\ wraps'[v].post = wraps[v].post /\ wraps'[v].kind = wraps[v].kind
                /\ wraps'[v].freed = wraps[v].freed
                /\ wraps'[v].runs = IF v = w THEN wraps[w].runs + 1 ELSE wraps[v].runs
  <1> DEFINE m == wraps[w]
             q == [[m EXCEPT !.runs = m.runs + 1] EXCEPT !.due = FALSE]
  <1>1. m \in Wraps /\ Len(wraps) \in Nat /\ DOMAIN wraps = 1..Len(wraps) /\ wraps \in Seq(Wraps)
    BY WrapsDomain DEF TypeOK
  <1>2. wraps' = [wraps EXCEPT ![w] = q]
    <2> DEFINE ws == [wraps EXCEPT ![w].runs = @ + 1]
    <2>1. wraps' = [ws EXCEPT ![w].due = FALSE]
      BY Zenon
    <2>2. ws = [wraps EXCEPT ![w] = [m EXCEPT !.runs = m.runs + 1]]
      BY Zenon
    <2>3. DOMAIN ws = DOMAIN wraps /\ ws[w] = [m EXCEPT !.runs = m.runs + 1]
          /\ \A v \in DOMAIN wraps : v # w => ws[v] = wraps[v]
      BY <1>1, <2>2
    <2> HIDE DEF ws
    <2>4. wraps' = [ws EXCEPT ![w] = [ws[w] EXCEPT !.due = FALSE]]
      BY <2>1, Zenon
    <2>. QED
      BY <1>1, <2>2, <2>3, <2>4 DEF ws
  <1>3. q \in Wraps /\ q.post = m.post /\ q.kind = m.kind /\ q.freed = m.freed
        /\ q.runs = m.runs + 1
    BY <1>1, TakenFacts
  <1> HIDE DEF q
  <1>4. wraps' \in Seq(Wraps)
    <2>1. w \in 1..Len(wraps)
      BY <1>1
    <2>2. [wraps EXCEPT ![w] = q] \in Seq(Wraps)
      BY <1>1, <1>3, <2>1, ExceptSeq
    <2>. QED
      BY <1>2, <2>2, Zenon
  <1>5. DOMAIN wraps' = DOMAIN wraps /\ wraps'[w] = q
        /\ \A v \in DOMAIN wraps : v # w => wraps'[v] = wraps[v]
    BY <1>1, <1>2
  <1>. QED
    BY <1>1, <1>3, <1>4, <1>5

\* What LoopTake makes of the innermost loop.
LEMMA HandlingIs ==
    ASSUME TypeOK, loops # <<>>, NEW w \in DOMAIN wraps, Handling(w)
    PROVE  \E r \in Loops :
             /\ SetTop(r) /\ r.at = "handle" /\ r.wrap = w /\ r.post = wraps[w].post
             /\ r.running \subseteq installed /\ r.todo = r.running
  <1> DEFINE l == loops[Level]
             fit == {h \in installed : Fits(w, h)}
             post == wraps[w].post
             r1 == [l EXCEPT !.at = "handle"]
             r2 == [r1 EXCEPT !.wrap = w]
             r3 == [r2 EXCEPT !.post = post]
             r4 == [r3 EXCEPT !.running = fit]
             r == [r4 EXCEPT !.todo = fit]
  <1>1. l \in Loops /\ w \in Nat /\ post \in Nat
    BY LoopsDomain, WrapsDomain DEF Wraps
  <1>2. installed \subseteq Handlers
    BY ElementOfSeq, LenProperties DEF TypeOK, ToSet
  <1>3. fit \subseteq installed /\ fit \subseteq Handlers
    BY <1>2
  <1>4. r1 \in Loops /\ r1.at = "handle"
    BY <1>1, LoopMoves
  <1>5. r = [l EXCEPT !.at = "handle", !.wrap = w, !.post = post, !.running = fit, !.todo = fit]
    BY Zenon
  <1>6. SetTop(r)
    BY <1>5 DEF Handling
  <1> HIDE DEF r1, fit, post
  <1>7. r2 \in Loops /\ r2.at = "handle" /\ r2.wrap = w
    BY <1>1, <1>4 DEF Loops
  <1> HIDE DEF r2
  <1>8. r3 \in Loops /\ r3.at = "handle" /\ r3.wrap = w /\ r3.post = post
    BY <1>1, <1>7 DEF Loops
  <1> HIDE DEF r3
  <1>9. r4 \in Loops /\ r4.at = "handle" /\ r4.wrap = w /\ r4.post = post /\ r4.running = fit
    BY <1>3, <1>8 DEF Loops
  <1> HIDE DEF r4
  <1>10. r \in Loops /\ r.at = "handle" /\ r.wrap = w /\ r.post = post /\ r.running = fit
         /\ r.todo = fit
    BY <1>3, <1>9 DEF Loops
  <1> HIDE DEF r
  <1>. QED
    BY <1>3, <1>6, <1>10 DEF post

LEMMA TakeKeeps == ASSUME QueueInv, LoopTake PROVE QueueInv'
  <1>1. /\ TypeOK /\ loops # <<>> /\ loops[Level].at = "top" /\ pc' = Woken("run", {Level})
        /\ UNCHANGED <<thread, alive, breakflag, target, replaced, installed, known, stopped>>
    BY DEF QueueInv, LoopTake, TopIs, handlerVars
  <1>2. PICK w \in list :
          /\ Handling(w) /\ wraps' = [wraps EXCEPT ![w].runs = @ + 1, ![w].due = FALSE]
          /\ list' = IF wraps[w].kind = "periodic" THEN list ELSE list \ {w}
    BY DEF LoopTake, Due
  <1>3. w \in DOMAIN wraps /\ ~wraps[w].freed /\ (Periodic(w) \/ wraps[w].runs = 0)
        /\ wraps[w].post \in Nat \ {0} /\ wraps[w].runs \in Nat
    BY <1>1, <1>2, WrapsDomain DEF QueueInv, TypeOK, MessagesOK, Wraps
  <1>4. PICK r \in Loops :
          /\ SetTop(r) /\ r.at = "handle" /\ r.wrap = w /\ r.post = wraps[w].post
          /\ r.running \subseteq installed /\ r.todo = r.running
    BY <1>1, <1>2, <1>3, HandlingIs
  <1>5. /\ loops' \in Seq(Loops) /\ DOMAIN loops' = DOMAIN loops /\ loops'[Level] = r
        /\ Level \in DOMAIN loops /\ \A i \in DOMAIN loops : i # Level => loops'[i] = loops[i]
    BY <1>1, <1>4, TopIsSet
  <1>6. /\ wraps' \in Seq(Wraps) /\ DOMAIN wraps' = DOMAIN wraps
        /\ \A v \in DOMAIN wraps :
             /\ wraps'[v].post = wraps[v].post /\ wraps'[v].kind = wraps[v].kind
             /\ wraps'[v].freed = wraps[v].freed
             /\ wraps'[v].runs = IF v = w THEN wraps[w].runs + 1 ELSE wraps[v].runs
    BY <1>1, <1>2, <1>3, TakenIs
  <1>7. list' \subseteq list /\ (w \in list' => Periodic(w)) /\ list \subseteq DOMAIN wraps
    BY <1>1, <1>2 DEF Periodic, TypeOK
  <1>8. LoopsTurn
    BY <1>2, <1>4, <1>5 DEF LoopsTurn
  <1>9. MessagesTurn
    BY <1>6, <1>7 DEF MessagesTurn
  <1>10. MessagesOK'
    <2>1. \A v \in DOMAIN wraps' : wraps'[v].post \in DOMAIN wraps' /\ wraps'[v].post \in replaced' \cup {v}
      BY <1>1, <1>6 DEF QueueInv, MessagesOK
    <2>2. \A u, v \in list' : wraps'[u].post = wraps'[v].post => u = v
      BY <1>6, <1>7 DEF QueueInv, MessagesOK
    <2>3. \A v \in list' : ~wraps'[v].freed /\ (Periodic(v)' \/ wraps'[v].runs = 0)
      BY <1>6, <1>7 DEF QueueInv, MessagesOK, Periodic
    <2>. QED
      BY <2>1, <2>2, <2>3 DEF MessagesOK
  \* Nobody handles it already, unless it is periodic.
  <1>11. \A i \in DOMAIN loops : Handles(i) => Periodic(loops[i].wrap) \/ loops[i].wrap # w
    BY <1>3 DEF QueueInv, LoopOK
  <1>12. ASSUME NEW i \in DOMAIN loops PROVE LoopOK(i)'
    <2>1. CASE i = Level
      <3>1. loops'[i].todo \subseteq loops'[i].running
        BY <1>4, <1>5, <2>1
      <3>2. /\ loops'[i].post # NoPost /\ loops'[i].wrap \in DOMAIN wraps'
            /\ wraps'[loops'[i].wrap].post = loops'[i].post /\ wraps'[loops'[i].wrap].runs > 0
        BY <1>3, <1>4, <1>5, <1>6, <2>1 DEF NoPost
      <3>3. wraps'[loops'[i].wrap].kind = "periodic"
            \/ (~wraps'[loops'[i].wrap].freed /\ wraps'[loops'[i].wrap].runs = 1)
        BY <1>3, <1>4, <1>5, <1>6, <2>1 DEF Periodic
      <3>. QED
        BY <3>1, <3>2, <3>3 DEF LoopOK, Periodic
    <2>2. CASE i # Level
      <3>1. loops'[i] = loops[i] /\ LoopOK(i) /\ (Handles(i)' => Handles(i))
        BY <1>5, <2>2 DEF QueueInv, Handles
      <3>2. loops[i].post # NoPost =>
              /\ loops[i].wrap \in DOMAIN wraps
              /\ wraps'[loops[i].wrap].post = loops[i].post /\ wraps'[loops[i].wrap].runs > 0
        BY <1>3, <1>6, <3>1 DEF LoopOK
      <3>3. Handles(i) =>
              /\ loops[i].post # NoPost
              /\ wraps'[loops[i].wrap].kind = "periodic"
                 \/ (~wraps'[loops[i].wrap].freed /\ wraps'[loops[i].wrap].runs = 1)
        BY <1>6, <1>11, <3>1 DEF LoopOK, Periodic
      <3>. QED
        BY <1>6, <3>1, <3>2, <3>3 DEF LoopOK, Periodic
    <2>. QED
      BY <2>1, <2>2
  <1>13. LoopsApart'
    <2>. SUFFICES ASSUME NEW i \in DOMAIN loops, NEW j \in DOMAIN loops, Handles(i)', Handles(j)',
                         loops'[i].wrap = loops'[j].wrap, i # j
                  PROVE  wraps'[loops'[i].wrap].kind = "periodic"
      BY <1>5 DEF LoopsApart, Periodic
    <2>1. CASE i # Level /\ j # Level
      <3>1. Handles(i) /\ Handles(j) /\ loops[i].wrap = loops[j].wrap /\ loops'[i] = loops[i]
        BY <1>5, <2>1 DEF Handles
      <3>2. Periodic(loops[i].wrap) /\ loops[i].wrap \in DOMAIN wraps
        BY <3>1 DEF QueueInv, LoopsApart, LoopOK
      <3>. QED
        BY <1>6, <3>1, <3>2 DEF Periodic
    <2>2. CASE i = Level \/ j = Level
      <3>1. PICK k \in {i, j} : k # Level /\ Handles(k) /\ loops[k].wrap = w /\ loops'[i].wrap = w
        BY <1>4, <1>5, <2>2 DEF Handles
      <3>2. Periodic(w)
        BY <1>11, <3>1
      <3>. QED
        BY <1>3, <1>6, <3>1, <3>2 DEF Periodic
    <2>. QED
      BY <2>1, <2>2
  <1>14. pc' \in [Clients -> Places] /\ \A c \in Clients : ClientTurn(c)
    BY <1>1 DEF TypeOK, Woken, ClientTurn, Places
  <1>. QED
    BY <1>1, <1>5, <1>8, <1>9, <1>10, <1>12, <1>13, <1>14, TurnKeeps

LEMMA ElapseKeeps == ASSUME QueueInv, NEW w, Elapse(w) PROVE QueueInv'
  <1>1. /\ TypeOK /\ w \in DOMAIN wraps /\ wraps' = [wraps EXCEPT ![w].due = TRUE]
        /\ UNCHANGED <<thread, alive, breakflag, list, loops, pc, target, replaced,
                       installed, known, stopped>>
    BY DEF QueueInv, TypeOK, Elapse, handlerVars
  <1> DEFINE m == wraps[w]
             q == [m EXCEPT !.due = TRUE]
  <1>2. m \in Wraps /\ w \in 1..Len(wraps) /\ wraps \in Seq(Wraps)
    BY <1>1, WrapsDomain DEF TypeOK
  <1>3. wraps' = [wraps EXCEPT ![w] = q]
    BY <1>1, Zenon
  <1>4. q \in Wraps /\ q.post = m.post /\ q.kind = m.kind /\ q.freed = m.freed /\ q.runs = m.runs
    <2> HIDE DEF m
    <2>. QED
      BY <1>2 DEF Wraps
  <1> HIDE DEF q
  <1>5. [wraps EXCEPT ![w] = q] \in Seq(Wraps)
    BY <1>2, <1>4, ExceptSeq
  <1>6. DOMAIN wraps' = DOMAIN wraps /\ wraps'[w] = q
        /\ \A v \in DOMAIN wraps : v # w => wraps'[v] = wraps[v]
    BY <1>1, <1>3
  <1>7. wraps' \in Seq(Wraps)
    BY <1>3, <1>5, Zenon
  <1>8. MessagesKept({})
    BY <1>1, <1>4, <1>6, <1>7 DEF MessagesKept
  <1>9. LoopsGoOn /\ \A c \in Clients : ClientStays(c, {})
    BY <1>1, UnchangedGoOn DEF ClientStays
  <1>. QED
    BY <1>1, <1>6, <1>8, <1>9, NothingSpared, QuietKeeps DEF TypeOK

LEMMA LoopStepKeeps == ASSUME QueueInv, LoopStep PROVE QueueInv'
  <1>1. ASSUME RunLoop PROVE QueueInv'
    <2>1. NoPost \in Nat
      BY DEF NoPost
    <2>2. loops' = Append(loops, NewLoop(NoPost))
      BY <1>1 DEF RunLoop
    <2>. QED
      BY <1>1, <2>1, <2>2, NewLoopKeeps DEF RunLoop
  <1>. QED
    BY <1>1, LoopBreakKeeps, WaitKeeps, InvokeKeeps, TakeKeeps, DeleteKeeps DEF LoopStep

LEMMA WaitInQueueKeeps ==
    ASSUME QueueInv, NEW w \in DOMAIN wraps, WaitInQueue(wraps[w].post) PROVE QueueInv'
  <1>1. wraps[w].post \in Nat
    BY WrapsDomain DEF QueueInv, Wraps
  <1>. QED
    BY <1>1, NewLoopKeeps DEF WaitInQueue

-----------------------------------------------------------------------------
(* The theorems                                                            *)

LEMMA QueueInvInit == ASSUME MessageQueueAssumption, Init PROVE QueueInv
  <1>1. TypeOK
    <2>1. NoTarget \in Targets
      BY DEF NoTarget, Targets, NoPost
    <2>2. /\ thread = "off" /\ alive = FALSE /\ breakflag = FALSE /\ wraps = <<>> /\ list = {}
          /\ installed = {} /\ known = <<>> /\ loops = <<>> /\ stopped = {} /\ replaced = {}
      BY DEF Init
    <2>3. pc \in [Clients -> Places] /\ target \in [Clients -> Targets]
      BY <2>1 DEF Init, Places
    <2>4. wraps \in Seq(Wraps) /\ known \in Seq(Handlers) /\ loops \in Seq(Loops)
      BY <2>2
    <2>. QED
      BY <2>2, <2>3, <2>4 DEF TypeOK
  <1>2. MessagesOK /\ LoopsApart /\ \A i \in DOMAIN loops : LoopOK(i)
    BY DEF Init, MessagesOK, LoopsApart
  <1>3. HandlersOK
    BY DEF Init, HandlersOK
  <1>4. ASSUME NEW c \in Clients PROVE ClientOK(c)
    <2>1. target[c] = NoTarget /\ pc[c] = "idle" /\ NoTarget.handler = Everyone
          /\ NoTarget.post = NoPost
      BY DEF Init, NoTarget, NoPost
    <2>. QED
      BY <2>1 DEF ClientOK, WaitsForHandler, WaitsForPost
  <1>. QED
    BY <1>1, <1>2, <1>3, <1>4 DEF QueueInv

LEMMA QueueInvNext == ASSUME MessageQueueAssumption, QueueInv, [Next]_vars PROVE QueueInv'
  <1>1. CASE Next
    BY <1>1, CallKeeps, ClientKeeps, WaitInQueueKeeps, ElapseKeeps, LoopStepKeeps DEF Next
  <1>2. CASE UNCHANGED vars
    <2>1. UNCHANGED <<thread, alive, breakflag, wraps, list, loops, pc, target, replaced,
                      installed, known, stopped>>
      BY <1>2 DEF vars, handlerVars
    <2>2. LoopsGoOn
      BY <2>1, UnchangedGoOn DEF QueueInv
    <2>. QED
      BY <2>1, <2>2, AroundKeeps DEF QueueInv, TypeOK
  <1>. QED
    BY <1>1, <1>2

\* The inductive invariant (the queue of message_queue.cc).
THEOREM QueueInvariant == Spec => []QueueInv
  <1>1. Init => QueueInv
    BY MessageQueueAssumption, QueueInvInit
  <1>2. QueueInv /\ [Next]_vars => QueueInv'
    BY MessageQueueAssumption, QueueInvNext
  <1>. QED
    BY <1>1, <1>2, PTL DEF Spec

\* A message is handled at most once unless it is periodic, is not deleted while
\* its handlers run, and its post id is in the list once (RunLoop::Run,
\* SingletonMessage, CancelMessage).
THEOREM HandledAlwaysAlive == Spec => []HandledIsAlive
  <1>1. QueueInv => HandledIsAlive
    BY DEF QueueInv, MessagesOK, LoopOK, Handles, Periodic, HandledIsAlive
  <1>. QED
    BY <1>1, QueueInvariant, PTL

\* Once CancelAndWait has returned in another thread, none of the nested loops
\* runs the handler or is going to (ScopeRegister::CancelAndWait).
THEOREM CancelAndWaitAlwaysStops == Spec => []CancelAndWaitStops
  <1>1. QueueInv => CancelAndWaitStops
    BY DEF QueueInv, HandlersOK, RunsNowhere, LoopOK, CancelAndWaitStops
  <1>. QED
    BY <1>1, QueueInvariant, PTL

\* When a wait for a post id returns to another thread, the message is done
\* (WaitMessage, WaitForRunningLockEnd).
THEOREM WaitsReturnDone == Spec => []WaitReturnsDone
  <1>1. ASSUME QueueInv PROVE WaitReturnsDone
    <2>. SUFFICES ASSUME NEW c \in Clients, NEW p, p = target[c].post, pc[c] = "woken",
                         p \notin replaced, p # NoPost
                  PROVE  /\ \/ Pending(p) = 0
                            \/ target[c].cond = "run" /\ wraps[Pending(p)].kind = "periodic"
                         /\ \A i \in DOMAIN loops :
                              Handles(i) => loops[i].post # p \/ Periodic(loops[i].wrap)
      BY DEF WaitReturnsDone, Handles, Periodic
    <2>1. WaitsForPost(c)
      BY <1>1 DEF QueueInv, ClientOK
    \* Only the message p has this post id.
    <2>2. \A w \in DOMAIN wraps : wraps[w].post = p => w = p
      BY <1>1 DEF QueueInv, MessagesOK
    <2>3. list \subseteq DOMAIN wraps /\ p \in DOMAIN wraps /\ wraps[p].post = p
      BY <1>1, <2>1 DEF QueueInv, TypeOK, WaitsForPost
    <2>4. p \notin list => Pending(p) = 0
      BY <2>2, <2>3 DEF Pending
    <2>5. p \in list => Pending(p) = p
      BY <2>2, <2>3 DEF Pending
    <2>6. \A i \in DOMAIN loops : Handles(i) /\ loops[i].post = p =>
            loops[i].wrap = p /\ (Periodic(p) \/ ~wraps[p].freed)
      BY <1>1, <2>2 DEF QueueInv, LoopOK
    <2>7. CASE target[c].cond = "end"
      <3>1. wraps[p].freed
        BY <2>1, <2>7 DEF WaitsForPost
      <3>2. p \notin list
        BY <1>1, <3>1 DEF QueueInv, MessagesOK
      <3>. QED
        BY <2>4, <2>6, <3>1, <3>2
    <2>8. CASE target[c].cond = "run"
      <3>1. \/ Periodic(p)
            \/ p \notin list /\ \A i \in DOMAIN loops : Handles(i) => loops[i].post # p
        BY <2>1, <2>8 DEF WaitsForPost
      <3>2. CASE Periodic(p)
        BY <2>4, <2>5, <2>6, <2>8, <3>2 DEF Periodic
      <3>. QED
        BY <2>4, <3>1, <3>2
    <2>. QED
      BY <2>1, <2>7, <2>8 DEF WaitsForPost
  <1>. QED
    BY <1>1, QueueInvariant, PTL

-----------------------------------------------------------------------------
(* Calls with a result                                                     *)

Held == {"once", "periodic", "called", "turn", "done"}
Records ==
    [kind : Kinds, callback : BOOLEAN, result_valid : BOOLEAN, result : BOOLEAN,
     refs : SUBSET {"caller", "message"},
     message : Held \cup {"none", "cancelled", "deleted"},
     crashed : BOOLEAN, runs : Nat, told : Seq(BOOLEAN)]
Steps == [at : {"idle", "has", "waits", "calls", "returned"}, of : Nat]

ToldOf(n) == [k \in 1..n |-> TRUE]

\* What a wrapper whose function has returned n times has told.
Counted(r, n) ==
    /\ r.result_valid <=> n > 0
    /\ r.result_valid => r.result
    /\ ~r.result => r.kind = "reference"
    /\ (r.callback /\ ~r.crashed) =>
         r.told = IF n = 0 /\ r.refs = {} THEN <<FALSE>> ELSE ToldOf(n)
    /\ r.crashed => r.kind = "reference" /\ n = 0 /\ r.refs = {}

InCall(r) == r.message \in {"called", "turn"}
Count(r, calling) == IF InCall(r) \/ calling THEN r.runs - 1 ELSE r.runs

RecordOK(r, calling) ==
    /\ Count(r, calling) \in Nat /\ Counted(r, Count(r, calling))
    /\ InCall(r) \/ calling => r.result
    /\ calling => r.message = "none"
    /\ "message" \in r.refs <=> r.message \in Held
    /\ r.message \in {"done", "deleted"} => r.runs > 0

\* A thread calls the function itself (WaitInvoke in the queue's own thread).
CallsHere(i) == \E c \in Invokers : step[c].at = "calls" /\ step[c].of = i

Owns(c, i) == step[c].at # "idle" /\ step[c].of = i

StepsOK ==
    /\ \A c \in Invokers : step[c].at # "idle" =>
         step[c].of \in DOMAIN results /\ "caller" \in results[step[c].of].refs
    /\ \A c, d \in Invokers :
         step[c].at # "idle" /\ step[d].at # "idle" /\ step[c].of = step[d].of => c = d
    /\ \A c \in Invokers : step[c].at = "returned" =>
         \/ results[step[c].of].result_valid
         \/ results[step[c].of].message \in {"none", "cancelled"}

ResultInv ==
    /\ results \in Seq(Records) /\ queueUp \in BOOLEAN /\ step \in [Invokers -> Steps]
    /\ \A i \in DOMAIN results : RecordOK(results[i], CallsHere(i))
    /\ StepsOK

LEMMA OneMore ==
    ASSUME NEW S, NEW v \in S, NEW n \in Nat
    PROVE  LET of(m) == [k \in 1..m |-> v]
           IN  of(0) = <<>> /\ of(n) \in Seq(S) /\ Append(of(n), v) = of(n + 1)
  <1> DEFINE of(m) == [k \in 1..m |-> v]
             s == Append(of(n), v)
             t == of(n + 1)
  <1>1. of(n) \in Seq(S) /\ Len(of(n)) = n /\ \A k \in 1..n : of(n)[k] = v
    BY IsASeq
  <1>2. t \in Seq(S) /\ Len(t) = n + 1 /\ \A k \in 1..(n + 1) : t[k] = v
    BY IsASeq
  <1>3. of(0) = <<>>
    OBVIOUS
  <1> HIDE DEF of
  <1>4. /\ s \in Seq(S) /\ Len(s) = n + 1 /\ s[n + 1] = v
        /\ \A k \in 1..n : s[k] = of(n)[k]
    BY <1>1, AppendProperties
  <1>5. \A k \in 1..(n + 1) : s[k] = v
    <2>1. \A k \in 1..(n + 1) : k = n + 1 \/ k \in 1..n
      OBVIOUS
    <2>. QED
      BY <1>1, <1>4, <2>1
  <1> HIDE DEF s, t
  <1>6. s = t
    BY <1>2, <1>4, <1>5, SeqEqual
  <1>. QED
    BY <1>1, <1>3, <1>6 DEF s, t, of

LEMMA ToldMore ==
    ASSUME NEW n \in Nat
    PROVE  /\ ToldOf(0) = <<>> /\ ToldOf(n) \in Seq(BOOLEAN)
           /\ Append(ToldOf(n), TRUE) = ToldOf(n + 1)
  <1>1. TRUE \in BOOLEAN
    OBVIOUS
  <1>. QED
    BY <1>1, OneMore, Zenon DEF ToldOf

\* The pieces the functions are made of, one record at a time.
LEMMA TellIs ==
    ASSUME NEW r \in Records, NEW ok \in BOOLEAN
    PROVE  LET q == Tell(r, ok)
           IN  /\ q \in Records /\ q.told = IF r.callback THEN Append(r.told, ok) ELSE r.told
               /\ q.kind = r.kind /\ q.callback = r.callback /\ q.result_valid = r.result_valid
               /\ q.result = r.result /\ q.refs = r.refs /\ q.message = r.message
               /\ q.crashed = r.crashed /\ q.runs = r.runs
  <1>1. CASE r.callback
    <2>1. r.told \in Seq(BOOLEAN)
      BY DEF Records
    <2> DEFINE told == Append(r.told, ok)
    <2>2. told \in Seq(BOOLEAN)
      BY <2>1, AppendProperties
    <2> HIDE DEF told
    <2>3. LET q == [r EXCEPT !.told = told]
          IN  /\ q \in Records /\ q.told = told
              /\ q.kind = r.kind /\ q.callback = r.callback /\ q.result_valid = r.result_valid
              /\ q.result = r.result /\ q.refs = r.refs /\ q.message = r.message
              /\ q.crashed = r.crashed /\ q.runs = r.runs
      BY <2>2 DEF Records
    <2>. QED
      BY <1>1, <2>3 DEF Tell, told
  <1>2. CASE ~r.callback
    BY <1>2 DEF Tell
  <1>. QED
    BY <1>1, <1>2

LEMMA MessageIs ==
    ASSUME NEW r \in Records, NEW m \in Held \cup {"none", "cancelled", "deleted"}
    PROVE  LET q == [r EXCEPT !.message = m]
           IN  /\ q \in Records /\ q.message = m
               /\ q.kind = r.kind /\ q.callback = r.callback /\ q.result_valid = r.result_valid
               /\ q.result = r.result /\ q.refs = r.refs /\ q.crashed = r.crashed
               /\ q.runs = r.runs /\ q.told = r.told
  BY DEF Records

LEMMA CalledIs ==
    ASSUME NEW r \in Records
    PROVE  LET q == CalledFunction(r)
           IN  /\ q \in Records /\ q.result = TRUE /\ q.runs = r.runs + 1
               /\ q.kind = r.kind /\ q.callback = r.callback /\ q.result_valid = r.result_valid
               /\ q.refs = r.refs /\ q.message = r.message /\ q.crashed = r.crashed
               /\ q.told = r.told
  <1> DEFINE s == [r EXCEPT !.result = TRUE]
             n == r.runs + 1
  <1>1. /\ s \in Records /\ s.result = TRUE /\ s.runs = r.runs
        /\ s.kind = r.kind /\ s.callback = r.callback /\ s.result_valid = r.result_valid
        /\ s.refs = r.refs /\ s.message = r.message /\ s.crashed = r.crashed
        /\ s.told = r.told
    BY DEF Records
  <1>2. CalledFunction(r) = [s EXCEPT !.runs = n]
    BY Zenon DEF CalledFunction
  <1>3. n \in Nat
    BY DEF Records
  <1> HIDE DEF s, n
  <1>4. LET q == [s EXCEPT !.runs = n]
        IN  /\ q \in Records /\ q.result = s.result /\ q.runs = n
            /\ q.kind = s.kind /\ q.callback = s.callback /\ q.result_valid = s.result_valid
            /\ q.refs = s.refs /\ q.message = s.message /\ q.crashed = s.crashed
            /\ q.told = s.told
    BY <1>1, <1>3 DEF Records
  <1>. QED
    BY <1>1, <1>2, <1>4 DEF n

\* The function returns for the n+1st time.
LEMMA DeclaredIs ==
    ASSUME NEW r \in Records, NEW n \in Nat, Counted(r, n), r.result, r.refs # {}
    PROVE  LET q == Declared(r)
           IN  /\ q \in Records /\ Counted(q, n + 1) /\ q.result_valid /\ q.result
               /\ q.refs = r.refs /\ q.message = r.message /\ q.runs = r.runs
  <1> DEFINE s == [r EXCEPT !.result_valid = TRUE]
             q == Tell(s, TRUE)
  <1>1. /\ s \in Records /\ s.result = r.result /\ s.runs = r.runs
        /\ s.kind = r.kind /\ s.callback = r.callback /\ s.result_valid = TRUE
        /\ s.refs = r.refs /\ s.message = r.message /\ s.crashed = r.crashed
        /\ s.told = r.told
    BY DEF Records
  <1> HIDE DEF s
  <1>2. /\ q \in Records /\ q.told = IF s.callback THEN Append(s.told, TRUE) ELSE s.told
        /\ q.kind = s.kind /\ q.callback = s.callback /\ q.result_valid = s.result_valid
        /\ q.result = s.result /\ q.refs = s.refs /\ q.message = s.message
        /\ q.crashed = s.crashed /\ q.runs = s.runs
    BY <1>1, TellIs
  <1>3. Declared(r) = q
    BY DEF Declared, s
  <1> HIDE DEF q
  <1>4. q.callback /\ ~q.crashed => q.told = ToldOf(n + 1)
    BY <1>1, <1>2, ToldMore DEF Counted
  <1>5. ~q.crashed
    BY <1>1, <1>2 DEF Counted
  <1>6. Counted(q, n + 1)
    <2> DEFINE m == n + 1
    <2>1. m > 0
      OBVIOUS
    <2>2. q.result_valid /\ q.result /\ q.refs # {}
      BY <1>1, <1>2
    <2>3. q.callback => q.told = ToldOf(m)
      BY <1>4, <1>5
    <2> HIDE DEF m
    <2>4. Counted(q, m)
      BY <1>5, <2>1, <2>2, <2>3 DEF Counted
    <2>. QED
      BY <2>4 DEF m
  <1>. QED
    BY <1>1, <1>2, <1>3, <1>6

LEMMA LetGoIs ==
    ASSUME NEW r \in Records, NEW n \in Nat, Counted(r, n), NEW who \in {"caller", "message"}
    PROVE  LET q == LetGo(r, who)
           IN  /\ q \in Records /\ Counted(q, n) /\ q.result_valid = r.result_valid
               /\ q.refs = r.refs \ {who} /\ q.message = r.message /\ q.runs = r.runs
               /\ q.result = r.result
  <1> DEFINE refs == r.refs \ {who}
             s == [r EXCEPT !.refs = refs]
             q == LetGo(r, who)
  <1>0. refs \subseteq {"caller", "message"}
    BY DEF Records
  <1>1. q = IF s.refs = {} /\ r.refs # {} THEN Destroyed(s) ELSE s
    BY DEF LetGo
  <1> HIDE DEF q
  <1>2. /\ s \in Records /\ s.result = r.result /\ s.runs = r.runs
        /\ s.kind = r.kind /\ s.callback = r.callback /\ s.result_valid = r.result_valid
        /\ s.refs = refs /\ s.message = r.message /\ s.crashed = r.crashed
        /\ s.told = r.told
    <2> HIDE DEF refs
    <2>. QED
      BY <1>0 DEF Records
  <1> HIDE DEF s
  <1>3. CASE q = s /\ (r.result_valid \/ refs # {} \/ r.refs = {})
    <2>1. Counted(s, n)
      BY <1>2, <1>3 DEF Counted
    <2>. QED
      BY <1>2, <1>3, <2>1 DEF q
  <1>4. CASE refs = {} /\ r.refs # {} /\ ~r.result_valid /\ r.callback /\ ~r.result
             /\ q = [s EXCEPT !.crashed = TRUE]
    <2>1. /\ q \in Records /\ q.result = s.result /\ q.runs = s.runs
          /\ q.kind = s.kind /\ q.callback = s.callback /\ q.result_valid = s.result_valid
          /\ q.refs = s.refs /\ q.message = s.message /\ q.crashed = TRUE
      BY <1>2, <1>4 DEF Records
    <2>2. Counted(q, n)
      BY <1>2, <1>4, <2>1 DEF Counted
    <2>. QED
      BY <1>2, <2>1, <2>2 DEF q
  <1>5. CASE refs = {} /\ r.refs # {} /\ ~r.result_valid /\ (~r.callback \/ r.result)
             /\ q = Tell(s, FALSE)
    <2>1. /\ q \in Records /\ q.told = IF s.callback THEN Append(s.told, FALSE) ELSE s.told
          /\ q.kind = s.kind /\ q.callback = s.callback /\ q.result_valid = s.result_valid
          /\ q.result = s.result /\ q.refs = s.refs /\ q.message = s.message
          /\ q.crashed = s.crashed /\ q.runs = s.runs
      BY <1>2, <1>5, TellIs
    <2>2. n = 0 /\ ~r.crashed
      BY <1>5 DEF Counted
    <2>3. q.callback => q.told = <<FALSE>>
      <3>1. r.callback => r.told = ToldOf(0)
        BY <1>5, <2>2 DEF Counted
      <3>2. ToldOf(0) = <<>>
        BY ToldMore
      <3>3. q.callback => q.told = Append(<<>>, FALSE)
        BY <1>2, <2>1, <3>1, <3>2
      <3>4. \A v : Append(<<>>, v) = <<v>>
        OBVIOUS
      <3>. QED
        BY <3>3, <3>4, Zenon
    <2>4. Counted(q, n)
      BY <1>2, <1>5, <2>1, <2>2, <2>3 DEF Counted
    <2>. QED
      BY <1>2, <2>1, <2>4 DEF q
  <1>. QED
    BY <1>1, <1>2, <1>3, <1>4, <1>5 DEF Destroyed

LEMMA NewRecord ==
    ASSUME NEW kind \in Kinds, NEW callback \in BOOLEAN
    PROVE  LET q == Wrapper(kind, callback)
           IN  q \in Records /\ RecordOK(q, FALSE) /\ q.refs = {"caller"}
  <1> DEFINE q == Wrapper(kind, callback)
  <1>1. /\ q.kind = kind /\ q.callback = callback /\ q.result_valid = FALSE
        /\ q.result = (kind # "reference") /\ q.refs = {"caller"} /\ q.message = "none"
        /\ q.crashed = FALSE /\ q.runs = 0 /\ q.told = <<>>
    BY DEF Wrapper
  <1>2. q \in Records
    BY DEF Wrapper, Records
  <1> HIDE DEF q
  <1>3. ToldOf(0) = <<>>
    BY ToldMore
  <1>4. Counted(q, 0)
    <2>1. ~q.result_valid /\ ~q.crashed
      BY <1>1
    <2>2. ~q.result => q.kind = "reference"
      BY <1>1, Zenon
    <2>3. ~(0 > 0)
      OBVIOUS
    <2>4. q.refs # {} /\ q.told = ToldOf(0)
      BY <1>1, <1>3
    <2>. QED
      BY <2>1, <2>2, <2>3, <2>4, Zenon DEF Counted
  <1>5. ~InCall(q) /\ Count(q, FALSE) = 0
    BY <1>1 DEF InCall, Count
  <1>6. "message" \in q.refs <=> q.message \in Held
    BY <1>1 DEF Held
  <1>7. 0 \in Nat /\ q.message \notin {"done", "deleted"}
    BY <1>1
  <1>. QED
    BY <1>1, <1>2, <1>4, <1>5, <1>6, <1>7, Zenon DEF RecordOK, q

LEMMA PostedOK ==
    ASSUME NEW r \in Records, RecordOK(r, FALSE), r.message = "none", "caller" \in r.refs,
           NEW kind \in {"once", "periodic"}
    PROVE  LET q == Posted(r, kind)
           IN  q \in Records /\ RecordOK(q, FALSE) /\ "caller" \in q.refs
  <1>1. CASE queueUp
    <2> DEFINE refs == r.refs \cup {"message"}
               s == [r EXCEPT !.message = kind]
               q == [s EXCEPT !.refs = refs]
    <2>1. Posted(r, kind) = q
      BY <1>1, Zenon DEF Posted
    <2>2. /\ s \in Records /\ s.message = kind /\ s.kind = r.kind /\ s.callback = r.callback
          /\ s.result_valid = r.result_valid /\ s.result = r.result /\ s.refs = r.refs
          /\ s.crashed = r.crashed /\ s.runs = r.runs /\ s.told = r.told
      BY MessageIs DEF Held
    <2>3. refs \subseteq {"caller", "message"} /\ "caller" \in refs /\ "message" \in refs
      BY DEF Records
    <2> HIDE DEF s, refs
    <2>4. /\ q \in Records /\ q.message = s.message /\ q.kind = s.kind /\ q.callback = s.callback
          /\ q.result_valid = s.result_valid /\ q.result = s.result /\ q.refs = refs
          /\ q.crashed = s.crashed /\ q.runs = s.runs /\ q.told = s.told
      BY <2>2, <2>3 DEF Records
    <2> HIDE DEF q
    <2>5. Count(r, FALSE) = r.runs /\ Count(q, FALSE) = r.runs /\ ~InCall(q)
      BY <2>2, <2>4 DEF Count, InCall
    <2>6. Counted(q, r.runs) /\ r.runs \in Nat
      BY <2>2, <2>3, <2>4, <2>5 DEF Counted, RecordOK
    <2>. QED
      BY <2>1, <2>2, <2>3, <2>4, <2>5, <2>6 DEF RecordOK, Held
  <1>2. CASE ~queueUp
    BY <1>2 DEF Posted
  <1>. QED
    BY <1>1, <1>2

\* The function is called: by the queue, with the new place m of the message, or
\* by the thread that has the result.
LEMMA CallOK ==
    ASSUME NEW r \in Records, RecordOK(r, FALSE),
           NEW m \in {"called", "turn", "none"}, NEW calling \in BOOLEAN,
           \/ r.message \in {"once", "periodic"} /\ m # "none" /\ ~calling
           \/ r.message = "none" /\ m = "none" /\ calling
    PROVE  LET q == [CalledFunction(r) EXCEPT !.message = m]
           IN  q \in Records /\ RecordOK(q, calling) /\ q.refs = r.refs
               /\ q.result_valid = r.result_valid /\ q.message = m
  <1> DEFINE s == CalledFunction(r)
             q == [s EXCEPT !.message = m]
  <1>1. /\ s \in Records /\ s.result = TRUE /\ s.runs = r.runs + 1
        /\ s.kind = r.kind /\ s.callback = r.callback /\ s.result_valid = r.result_valid
        /\ s.refs = r.refs /\ s.message = r.message /\ s.crashed = r.crashed /\ s.told = r.told
    BY CalledIs
  <1> HIDE DEF s
  <1>2. /\ q \in Records /\ q.message = m /\ q.kind = s.kind /\ q.callback = s.callback
        /\ q.result_valid = s.result_valid /\ q.result = s.result /\ q.refs = s.refs
        /\ q.crashed = s.crashed /\ q.runs = s.runs /\ q.told = s.told
    BY <1>1, MessageIs DEF Held
  <1> HIDE DEF q
  <1>3. Count(r, FALSE) = r.runs /\ r.runs \in Nat
    BY DEF Count, InCall, Records
  <1>4. InCall(q) \/ calling
    BY <1>2 DEF InCall
  <1>5. Count(q, calling) = r.runs
    BY <1>1, <1>2, <1>3, <1>4 DEF Count
  <1>6. Counted(r, r.runs) /\ ("message" \in r.refs <=> r.message \in Held)
    BY <1>3 DEF RecordOK
  <1>7. Counted(q, r.runs)
    BY <1>1, <1>2, <1>6 DEF Counted
  <1>8. /\ calling => q.message = "none"
        /\ "message" \in q.refs <=> q.message \in Held
        /\ q.message \notin {"done", "deleted"}
    BY <1>1, <1>2, <1>6 DEF Held
  <1>. QED
    BY <1>1, <1>2, <1>3, <1>5, <1>7, <1>8 DEF RecordOK, q, s

\* The function returns.
LEMMA ReturnOK ==
    ASSUME NEW r \in Records, NEW calling \in BOOLEAN, RecordOK(r, calling),
           NEW m \in {"done", "periodic", "none"},
           \/ r.message \in {"called", "turn"} /\ m # "none"
           \/ r.message = "none" /\ m = "none" /\ calling /\ "caller" \in r.refs
    PROVE  LET q == [Declared(r) EXCEPT !.message = m]
           IN  q \in Records /\ RecordOK(q, FALSE) /\ q.refs = r.refs /\ q.result_valid
               /\ q.message = m
  <1> DEFINE n == r.runs - 1
             s == Declared(r)
             q == [s EXCEPT !.message = m]
  <1>1. Count(r, calling) = n /\ r.refs # {}
    BY DEF RecordOK, Count, InCall, Held
  <1>2. n \in Nat /\ Counted(r, n) /\ r.result /\ ("message" \in r.refs <=> r.message \in Held)
    BY <1>1 DEF RecordOK, InCall
  <1>3. n + 1 = r.runs /\ r.runs > 0 /\ r.runs \in Nat
    BY <1>2 DEF Records
  <1> HIDE DEF n
  <1>4. /\ s \in Records /\ Counted(s, n + 1) /\ s.result_valid /\ s.result
        /\ s.refs = r.refs /\ s.message = r.message /\ s.runs = r.runs
    BY <1>1, <1>2, DeclaredIs
  <1> HIDE DEF s
  <1>5. /\ q \in Records /\ q.message = m /\ q.kind = s.kind /\ q.callback = s.callback
        /\ q.result_valid = s.result_valid /\ q.result = s.result /\ q.refs = s.refs
        /\ q.crashed = s.crashed /\ q.runs = s.runs /\ q.told = s.told
    <2>1. s \in Records /\ m \in Held \cup {"none", "cancelled", "deleted"}
      BY <1>4 DEF Held
    <2>. QED
      BY <2>1, MessageIs
  <1> HIDE DEF q
  <1>6. Count(q, FALSE) = r.runs /\ ~InCall(q)
    BY <1>4, <1>5 DEF Count, InCall
  <1>7. Counted(q, r.runs)
    BY <1>3, <1>4, <1>5 DEF Counted
  <1>8. "message" \in q.refs <=> q.message \in Held
    BY <1>2, <1>4, <1>5 DEF Held
  <1>. QED
    BY <1>3, <1>4, <1>5, <1>6, <1>7, <1>8 DEF RecordOK, q, s

\* Somebody lets go of it: the caller, or the message, which is then at m.
LEMMA LetGoOK ==
    ASSUME NEW r \in Records, RecordOK(r, FALSE),
           NEW who \in {"caller", "message"}, NEW m \in Held \cup {"none", "cancelled", "deleted"},
           \/ who = "caller" /\ m = r.message
           \/ who = "message" /\ m = "deleted" /\ r.message = "done"
           \/ who = "message" /\ m = "cancelled" /\ r.message \in {"once", "periodic"}
    PROVE  LET q == [LetGo(r, who) EXCEPT !.message = m]
           IN  q \in Records /\ RecordOK(q, FALSE) /\ q.refs = r.refs \ {who}
               /\ q.result_valid = r.result_valid /\ q.message = m
  <1> DEFINE n == Count(r, FALSE)
             s == LetGo(r, who)
             q == [s EXCEPT !.message = m]
  <1>1. n \in Nat /\ Counted(r, n) /\ ("message" \in r.refs <=> r.message \in Held)
        /\ (InCall(r) => r.result) /\ (r.message \in {"done", "deleted"} => r.runs > 0)
    BY DEF RecordOK
  <1> HIDE DEF n
  <1>2. /\ s \in Records /\ Counted(s, n) /\ s.result_valid = r.result_valid
        /\ s.refs = r.refs \ {who} /\ s.message = r.message /\ s.runs = r.runs
        /\ s.result = r.result
    BY <1>1, LetGoIs
  <1> HIDE DEF s
  <1>3. /\ q \in Records /\ q.message = m /\ q.kind = s.kind /\ q.callback = s.callback
        /\ q.result_valid = s.result_valid /\ q.result = s.result /\ q.refs = s.refs
        /\ q.crashed = s.crashed /\ q.runs = s.runs /\ q.told = s.told
    BY <1>2, MessageIs
  <1> HIDE DEF q
  <1>4. Counted(q, n)
    BY <1>2, <1>3 DEF Counted
  <1>5. InCall(q) <=> InCall(r)
    BY <1>3 DEF InCall
  <1>6. Count(q, FALSE) = n
    BY <1>2, <1>3, <1>5 DEF Count, n
  <1>7. "message" \in q.refs <=> q.message \in Held
    BY <1>1, <1>2, <1>3 DEF Held
  <1>8. q.message \in {"done", "deleted"} => q.runs > 0
    BY <1>1, <1>2, <1>3
  <1>9. InCall(q) => q.result
    BY <1>1, <1>2, <1>3, <1>5
  <1>. QED
    BY <1>1, <1>2, <1>3, <1>4, <1>6, <1>7, <1>8, <1>9 DEF RecordOK, q, s

-----------------------------------------------------------------------------
(* The steps of AsyncResult                                                *)

\* A step that changes result i and the place of the thread that has it.
LEMMA ResultChanges ==
    ASSUME ResultInv, NEW i \in DOMAIN results, NEW q \in Records, SetResult(i, q),
           RecordOK(q, CallsHere(i)'), queueUp' \in BOOLEAN, step' \in [Invokers -> Steps],
           \A c \in Invokers :
               step'[c] = step[c] \/ (Owns(c, i) /\ (step'[c].at = "idle" \/ step'[c].of = i)),
           \A c \in Invokers : Owns(c, i)' =>
               /\ "caller" \in q.refs
               /\ step'[c].at = "returned" => q.result_valid \/ q.message \in {"none", "cancelled"}
    PROVE  ResultInv'
  <1>1. /\ results \in Seq(Records) /\ i \in 1..Len(results) /\ DOMAIN results = 1..Len(results)
    BY LenProperties DEF ResultInv
  <1>2. [results EXCEPT ![i] = q] \in Seq(Records)
    BY <1>1, ExceptSeq
  <1>3. /\ results' \in Seq(Records) /\ DOMAIN results' = DOMAIN results /\ results'[i] = q
        /\ \A j \in DOMAIN results : j # i => results'[j] = results[j]
    BY <1>1, <1>2 DEF SetResult
  <1>4. \A c \in Invokers : \A j : j # i => (Owns(c, j)' <=> Owns(c, j))
    BY DEF Owns
  <1>5. \A j : j # i => (CallsHere(j)' <=> CallsHere(j))
    BY DEF CallsHere, Owns
  <1>6. \A j \in DOMAIN results' : RecordOK(results'[j], CallsHere(j)')
    <2>. SUFFICES ASSUME NEW j \in DOMAIN results, j # i
                  PROVE  RecordOK(results[j], CallsHere(j)')
      BY <1>3
    <2>. QED
      BY <1>5 DEF ResultInv, RecordOK, Count
  <1>7. StepsOK'
    <2>1. ASSUME NEW c \in Invokers, step'[c].at # "idle"
          PROVE  step'[c].of \in DOMAIN results' /\ "caller" \in results'[step'[c].of].refs
      BY <1>3, <2>1 DEF ResultInv, StepsOK, Owns
    <2>2. ASSUME NEW c \in Invokers, NEW d \in Invokers, step'[c].at # "idle",
                 step'[d].at # "idle", step'[c].of = step'[d].of
          PROVE  c = d
      <3>1. step[c].at # "idle" /\ step[d].at # "idle" /\ step[c].of = step[d].of
        BY <2>2 DEF Owns
      <3>. QED
        BY <3>1 DEF ResultInv, StepsOK
    <2>3. ASSUME NEW c \in Invokers, step'[c].at = "returned"
          PROVE  \/ results'[step'[c].of].result_valid
                 \/ results'[step'[c].of].message \in {"none", "cancelled"}
      BY <1>3, <2>1, <2>3 DEF ResultInv, StepsOK, Owns
    <2>. QED
      BY <2>1, <2>2, <2>3 DEF StepsOK
  <1>. QED
    BY <1>3, <1>6, <1>7 DEF ResultInv

LEMMA OwnerFacts ==
    ASSUME ResultInv, NEW c \in Invokers, NEW i, Owns(c, i)
    PROVE  /\ i \in DOMAIN results /\ results[i] \in Records /\ "caller" \in results[i].refs
           /\ IF step[c].at = "calls" THEN RecordOK(results[i], TRUE) ELSE RecordOK(results[i], FALSE)
           /\ \A d \in Invokers : Owns(d, i) => d = c
  <1>1. i \in DOMAIN results /\ "caller" \in results[i].refs
        /\ \A d \in Invokers : Owns(d, i) => d = c
    BY DEF ResultInv, StepsOK, Owns
  <1>2. CallsHere(i) <=> step[c].at = "calls"
    BY <1>1 DEF CallsHere, Owns
  <1>3. RecordOK(results[i], CallsHere(i)) /\ results[i] \in Records
    BY <1>1, ElementOfSeq, LenProperties DEF ResultInv
  <1>4. IF step[c].at = "calls" THEN RecordOK(results[i], TRUE) ELSE RecordOK(results[i], FALSE)
    BY <1>2, <1>3 DEF RecordOK, Count
  <1>. QED
    BY <1>1, <1>3, <1>4

\* The thread that has result i goes to s and makes q of it.
LEMMA OwnerSteps ==
    ASSUME ResultInv, NEW c \in Invokers, NEW i, Owns(c, i),
           NEW q \in Records, SetResult(i, q), NEW s \in Steps, step' = [step EXCEPT ![c] = s],
           queueUp' = queueUp, s.at = "idle" \/ s.of = i,
           IF s.at = "calls" THEN RecordOK(q, TRUE) ELSE RecordOK(q, FALSE),
           s.at # "idle" => "caller" \in q.refs,
           s.at = "returned" => q.result_valid \/ q.message \in {"none", "cancelled"}
    PROVE  ResultInv'
  <1>1. step' \in [Invokers -> Steps] /\ step'[c] = s
        /\ \A d \in Invokers : d # c => step'[d] = step[d]
    BY DEF ResultInv
  <1>2. \A d \in Invokers : Owns(d, i)' => d = c
    BY <1>1, OwnerFacts DEF Owns
  <1>3. CallsHere(i)' <=> s.at = "calls"
    <2>1. s.at = "calls" => CallsHere(i)'
      BY <1>1 DEF CallsHere
    <2>2. CallsHere(i)' => s.at = "calls"
      BY <1>1, <1>2 DEF CallsHere, Owns
    <2>. QED
      BY <2>1, <2>2
  <1>4. RecordOK(q, CallsHere(i)')
    BY <1>3 DEF RecordOK, Count
  <1>5. i \in DOMAIN results
    BY OwnerFacts
  <1>6. \A d \in Invokers :
          step'[d] = step[d] \/ (Owns(d, i) /\ (step'[d].at = "idle" \/ step'[d].of = i))
    BY <1>1
  <1>7. \A d \in Invokers : Owns(d, i)' =>
          /\ "caller" \in q.refs
          /\ step'[d].at = "returned" => q.result_valid \/ q.message \in {"none", "cancelled"}
    BY <1>1, <1>2 DEF Owns
  <1>8. queueUp' \in BOOLEAN
    BY DEF ResultInv
  <1>. QED
    BY <1>1, <1>4, <1>5, <1>6, <1>7, <1>8, ResultChanges

\* The queue makes q of result i.
LEMMA QueueSteps ==
    ASSUME ResultInv, NEW i \in DOMAIN results, NEW q \in Records, SetResult(i, q),
           UNCHANGED <<queueUp, step>>, results[i].message # "none", RecordOK(q, FALSE),
           results[i].refs \ {"message"} \subseteq q.refs,
           results[i].result_valid => q.result_valid,
           results[i].message = "cancelled" => q.message = "cancelled"
    PROVE  ResultInv'
  <1>1. ~CallsHere(i)
    BY DEF ResultInv, RecordOK
  <1>2. RecordOK(q, CallsHere(i)')
    BY <1>1 DEF RecordOK, Count, CallsHere
  <1>3. \A d \in Invokers : Owns(d, i)' =>
          /\ "caller" \in q.refs
          /\ step'[d].at = "returned" => q.result_valid \/ q.message \in {"none", "cancelled"}
    BY DEF ResultInv, StepsOK, Owns
  <1>. QED
    BY <1>2, <1>3, ResultChanges DEF ResultInv

LEMMA StepIs ==
    ASSUME ResultInv, NEW c \in Invokers, NEW at \in {"has", "waits", "calls", "returned"},
           StepTo(c, at)
    PROVE  \E s \in Steps : step' = [step EXCEPT ![c] = s] /\ s.at = at /\ s.of = step[c].of
  <1> DEFINE r == step[c]
             s == [r EXCEPT !.at = at]
  <1>1. step' = [step EXCEPT ![c] = s]
    BY Zenon DEF StepTo
  <1>2. r \in Steps
    BY DEF ResultInv
  <1> HIDE DEF r
  <1>3. s \in Steps /\ s.at = at /\ s.of = r.of
    BY <1>2 DEF Steps
  <1>. QED
    BY <1>1, <1>3 DEF r

LEMMA InvokerKeeps ==
    ASSUME ResultInv, NEW c \in Invokers,
           \/ \E kind \in {"once", "periodic"} : AsyncInvoke(c, kind)
           \/ WaitInvoke(c) \/ WaitReturns(c) \/ WaitInvokeHere(c) \/ InvokedHere(c) \/ DropResult(c)
    PROVE  ResultInv'
  <1> DEFINE i == step[c].of
             r == results[i]
  <1>1. Owns(c, i)
    BY DEF Owns, AsyncInvoke, WaitInvoke, WaitReturns, WaitInvokeHere, InvokedHere, DropResult
  <1>2. /\ i \in DOMAIN results /\ r \in Records /\ "caller" \in r.refs
        /\ IF step[c].at = "calls" THEN RecordOK(r, TRUE) ELSE RecordOK(r, FALSE)
    BY <1>1, OwnerFacts
  <1> HIDE DEF r
  <1>3. ASSUME NEW kind \in {"once", "periodic"}, AsyncInvoke(c, kind) PROVE ResultInv'
    <2> DEFINE q == Posted(r, kind)
    <2>1. step[c].at = "has" /\ r.message = "none" /\ SetResult(i, q) /\ UNCHANGED <<queueUp, step>>
      BY <1>3 DEF AsyncInvoke, r
    <2>2. q \in Records /\ RecordOK(q, FALSE) /\ "caller" \in q.refs
      BY <1>2, <2>1, PostedOK
    <2>3. step[c] \in Steps /\ step' = [step EXCEPT ![c] = step[c]]
      BY <2>1 DEF ResultInv
    <2> HIDE DEF q, i
    <2>4. step[c].of = i
      BY DEF i
    <2>. QED
      BY <1>1, <2>1, <2>2, <2>3, <2>4, OwnerSteps
  <1>4. ASSUME WaitInvoke(c) PROVE ResultInv'
    <2> DEFINE q == Posted(r, "once")
    <2>1. /\ step[c].at = "has" /\ r.message = "none" /\ SetResult(i, q) /\ queueUp' = queueUp
          /\ StepTo(c, "waits")
      BY <1>4 DEF WaitInvoke, r
    <2>2. q \in Records /\ RecordOK(q, FALSE) /\ "caller" \in q.refs
      BY <1>2, <2>1, PostedOK
    <2>3. PICK s \in Steps : step' = [step EXCEPT ![c] = s] /\ s.at = "waits" /\ s.of = i
      BY <2>1, StepIs
    <2> HIDE DEF q, i
    <2>. QED
      BY <1>1, <2>1, <2>2, <2>3, OwnerSteps
  <1>5. ASSUME WaitReturns(c) PROVE ResultInv'
    <2>1. /\ step[c].at = "waits" /\ r.message \in {"none", "cancelled", "deleted"}
          /\ results' = results /\ queueUp' = queueUp /\ StepTo(c, "returned")
      BY <1>5 DEF WaitReturns, r
    <2>2. RecordOK(r, FALSE)
      BY <1>2, <2>1
    \* A message that was deleted after its turn has called the function.
    <2>3. r.result_valid \/ r.message \in {"none", "cancelled"}
      <3>1. r.message = "deleted" => Count(r, FALSE) = r.runs /\ r.runs > 0
        BY <2>2 DEF RecordOK, Count, InCall
      <3>. QED
        BY <2>1, <2>2, <3>1 DEF RecordOK, Counted
    <2>4. PICK s \in Steps : step' = [step EXCEPT ![c] = s] /\ s.at = "returned" /\ s.of = i
      BY <2>1, StepIs
    <2>5. SetResult(i, r)
      BY <1>2, <2>1 DEF SetResult, r, ResultInv
    <2> HIDE DEF i
    <2>. QED
      BY <1>1, <1>2, <2>1, <2>2, <2>3, <2>4, <2>5, OwnerSteps
  <1>6. ASSUME WaitInvokeHere(c) PROVE ResultInv'
    <2> DEFINE q == CalledFunction(r)
    <2>1. /\ step[c].at = "has" /\ r.message = "none" /\ SetResult(i, q) /\ queueUp' = queueUp
          /\ StepTo(c, "calls")
      BY <1>6 DEF WaitInvokeHere, r
    <2>2. q \in Records /\ RecordOK(q, TRUE) /\ q.refs = r.refs
      <3>0. q \in Records /\ q.message = "none"
        BY <1>2, <2>1, CalledIs
      <3>1. q = [q EXCEPT !.message = "none"]
        <4> HIDE DEF q
        <4>. QED
          BY <3>0 DEF Records
      <3>2. LET z == [q EXCEPT !.message = "none"]
            IN  z \in Records /\ RecordOK(z, TRUE) /\ z.refs = r.refs
        BY <1>2, <2>1, CallOK
      <3>. QED
        BY <3>1, <3>2
    <2>3. PICK s \in Steps : step' = [step EXCEPT ![c] = s] /\ s.at = "calls" /\ s.of = i
      BY <2>1, StepIs
    <2> HIDE DEF q, i
    <2>. QED
      BY <1>1, <1>2, <2>1, <2>2, <2>3, OwnerSteps
  <1>7. ASSUME InvokedHere(c) PROVE ResultInv'
    <2> DEFINE q == Declared(r)
    <2>1. /\ step[c].at = "calls" /\ SetResult(i, q) /\ queueUp' = queueUp
          /\ StepTo(c, "returned")
      BY <1>7 DEF InvokedHere, r
    <2>2. RecordOK(r, TRUE) /\ r.message = "none"
      BY <1>2, <2>1 DEF RecordOK
    <2>3. q \in Records /\ RecordOK(q, FALSE) /\ q.refs = r.refs /\ q.result_valid
      <3>1. q \in Records /\ q.message = "none"
        <4>1. Count(r, TRUE) \in Nat /\ Counted(r, Count(r, TRUE)) /\ r.result /\ r.refs # {}
          BY <1>2, <2>2 DEF RecordOK
        <4>. QED
          BY <1>2, <2>2, <4>1, DeclaredIs
      <3>2. q = [q EXCEPT !.message = "none"]
        <4> HIDE DEF q
        <4>. QED
          BY <3>1 DEF Records
      <3>3. LET z == [q EXCEPT !.message = "none"]
            IN  z \in Records /\ RecordOK(z, FALSE) /\ z.refs = r.refs /\ z.result_valid
        BY <1>2, <2>2, ReturnOK
      <3>. QED
        BY <3>2, <3>3
    <2>4. PICK s \in Steps : step' = [step EXCEPT ![c] = s] /\ s.at = "returned" /\ s.of = i
      BY <2>1, StepIs
    <2> HIDE DEF q, i
    <2>. QED
      BY <1>1, <1>2, <2>1, <2>3, <2>4, OwnerSteps
  <1>8. ASSUME DropResult(c) PROVE ResultInv'
    <2> DEFINE q == LetGo(r, "caller")
    <2>1. /\ step[c].at \in {"has", "returned"} /\ SetResult(i, q) /\ queueUp' = queueUp
          /\ step' = [step EXCEPT ![c] = Idle]
      BY <1>8 DEF DropResult, r
    <2>2. q \in Records /\ RecordOK(q, FALSE)
      <3>0. RecordOK(r, FALSE)
        BY <1>2, <2>1
      <3>1. q \in Records /\ q.message = r.message
        BY <1>2, <3>0, LetGoIs DEF RecordOK
      <3>2. q = [q EXCEPT !.message = r.message]
        <4> HIDE DEF q
        <4>. QED
          BY <3>1 DEF Records
      <3>3. r.message \in Held \cup {"none", "cancelled", "deleted"}
        BY <1>2 DEF Records
      <3>4. LET z == [q EXCEPT !.message = r.message]
            IN  z \in Records /\ RecordOK(z, FALSE)
        BY <1>2, <3>0, <3>3, LetGoOK
      <3>. QED
        BY <3>2, <3>4
    <2>3. Idle \in Steps /\ Idle.at = "idle"
      BY DEF Idle, Steps
    <2> HIDE DEF q, i
    <2>. QED
      BY <1>1, <2>1, <2>2, <2>3, OwnerSteps
  <1>. QED
    BY <1>3, <1>4, <1>5, <1>6, <1>7, <1>8

LEMMA ConstructKeeps ==
    ASSUME ResultInv, NEW c \in Invokers, NEW kind \in Kinds, NEW callback \in BOOLEAN,
           ConstructResult(c, kind, callback)
    PROVE  ResultInv'
  <1>0. PICK n : n = Len(results) + 1
    OBVIOUS
  <1> DEFINE q == Wrapper(kind, callback)
             s == [at |-> "has", of |-> n]
  <1>1. /\ step[c].at = "idle" /\ results' = Append(results, q) /\ queueUp' = queueUp
        /\ step' = [step EXCEPT ![c] = s]
    BY <1>0 DEF ConstructResult
  <1>2. q \in Records /\ RecordOK(q, FALSE) /\ q.refs = {"caller"}
    BY NewRecord
  <1>3. results \in Seq(Records) /\ Len(results) \in Nat /\ DOMAIN results = 1..Len(results)
    BY LenProperties DEF ResultInv
  <1> HIDE DEF q
  <1>4. /\ results' \in Seq(Records) /\ DOMAIN results' = DOMAIN results \cup {n}
        /\ n \notin DOMAIN results /\ n \in Nat
        /\ results'[n] = q /\ \A j \in DOMAIN results : results'[j] = results[j]
    <2>1. /\ Append(results, q) \in Seq(Records) /\ Len(Append(results, q)) = n
          /\ \A j \in 1..Len(results) : Append(results, q)[j] = results[j]
          /\ Append(results, q)[n] = q
      BY <1>0, <1>2, <1>3, AppendProperties
    <2>2. DOMAIN results' = 1..n
      BY <1>1, <2>1, LenProperties
    <2>. QED
      BY <1>0, <1>1, <1>3, <2>1, <2>2
  <1>5. /\ s \in Steps /\ s.at = "has" /\ s.of = n
        /\ step' \in [Invokers -> Steps] /\ step'[c] = s
        /\ \A d \in Invokers : d # c => step'[d] = step[d]
    BY <1>1, <1>4 DEF ResultInv, Steps
  <1> HIDE DEF s
  <1>6. \A d \in Invokers : step[d].at # "idle" => step[d].of \in DOMAIN results
    BY DEF ResultInv, StepsOK
  <1>7. \A j \in DOMAIN results : CallsHere(j)' <=> CallsHere(j)
    BY <1>1, <1>5 DEF CallsHere
  <1>8. ~CallsHere(n)'
    BY <1>4, <1>5, <1>6 DEF CallsHere
  <1>9. \A j \in DOMAIN results' : RecordOK(results'[j], CallsHere(j)')
    <2>1. RecordOK(q, CallsHere(n)')
      BY <1>2, <1>8 DEF RecordOK, Count
    <2>2. ASSUME NEW j \in DOMAIN results PROVE RecordOK(results[j], CallsHere(j)')
      BY <1>7 DEF ResultInv, RecordOK, Count
    <2>. QED
      BY <1>4, <2>1, <2>2
  <1>10. StepsOK'
    BY <1>1, <1>2, <1>4, <1>5, <1>6 DEF ResultInv, StepsOK
  <1>. QED
    BY <1>1, <1>4, <1>5, <1>9, <1>10 DEF ResultInv

LEMMA QueueKeeps ==
    ASSUME ResultInv, NEW i \in DOMAIN results,
           CallFunction(i) \/ FunctionReturns(i) \/ DeleteMessage(i) \/ CancelOne(i)
    PROVE  ResultInv'
  <1> DEFINE r == results[i]
  <1>1. r \in Records
    BY ElementOfSeq, LenProperties DEF ResultInv
  <1>2. r.message # "none" /\ UNCHANGED <<queueUp, step>>
    BY DEF CallFunction, FunctionReturns, DeleteMessage, CancelOne
  <1>3. RecordOK(r, FALSE)
    <2>1. RecordOK(r, CallsHere(i))
      BY DEF ResultInv
    <2>. QED
      BY <1>2, <2>1 DEF RecordOK, Count
  <1>4. ASSUME NEW q \in Records, SetResult(i, q), RecordOK(q, FALSE), r.message # "cancelled",
               r.refs \ {"message"} \subseteq q.refs, r.result_valid => q.result_valid
        PROVE  ResultInv'
    BY <1>2, <1>4, QueueSteps
  <1>5. ASSUME CallFunction(i) PROVE ResultInv'
    <2> DEFINE m == IF r.message = "once" THEN "called" ELSE "turn"
               q == [CalledFunction(r) EXCEPT !.message = m]
    <2>1. r.message \in {"once", "periodic"}
      BY <1>5 DEF CallFunction
    <2>2. CalledFunction(r).message = r.message
      BY <1>1, CalledIs
    <2>3. SetResult(i, q)
      <3>1. SetResult(i, [CalledFunction(r) EXCEPT !.message = IF @ = "once" THEN "called" ELSE "turn"])
        BY <1>5 DEF CallFunction
      <3>. QED
        BY <2>2, <3>1
    <2>4. m \in {"called", "turn"}
      OBVIOUS
    <2> HIDE DEF m, r
    <2>5. q \in Records /\ RecordOK(q, FALSE) /\ q.refs = r.refs /\ q.result_valid = r.result_valid
      BY <1>1, <1>3, <2>1, <2>4, CallOK
    <2> HIDE DEF q
    <2>. QED
      BY <1>4, <2>1, <2>3, <2>5
  <1>6. ASSUME FunctionReturns(i) PROVE ResultInv'
    <2>1. PICK m \in {"done", "periodic"} :
            r.message \in {"called", "turn"} /\ SetResult(i, [Declared(r) EXCEPT !.message = m])
      BY <1>6 DEF FunctionReturns
    <2> DEFINE q == [Declared(r) EXCEPT !.message = m]
    <2> HIDE DEF r
    <2>2. q \in Records /\ RecordOK(q, FALSE) /\ q.refs = r.refs /\ q.result_valid
      BY <1>1, <1>3, <2>1, ReturnOK
    <2>3. SetResult(i, q)
      BY <2>1
    <2> HIDE DEF q
    <2>. QED
      BY <1>4, <2>1, <2>2, <2>3
  <1>7. ASSUME DeleteMessage(i) \/ CancelOne(i) PROVE ResultInv'
    <2>1. PICK m \in {"deleted", "cancelled"} :
            /\ \/ m = "deleted" /\ r.message = "done"
               \/ m = "cancelled" /\ r.message \in {"once", "periodic"}
            /\ SetResult(i, [LetGo(r, "message") EXCEPT !.message = m])
      BY <1>7 DEF DeleteMessage, CancelOne, LetGoOfMessage
    <2> DEFINE q == [LetGo(r, "message") EXCEPT !.message = m]
    <2> HIDE DEF r
    <2>2. q \in Records /\ RecordOK(q, FALSE) /\ q.refs = r.refs \ {"message"}
          /\ q.result_valid = r.result_valid
      BY <1>1, <1>3, <2>1, LetGoOK
    <2>3. SetResult(i, q)
      BY <2>1
    <2> HIDE DEF q
    <2>. QED
      BY <1>4, <2>1, <2>2, <2>3
  <1>. QED
    BY <1>5, <1>6, <1>7

LEMMA QueueEndsKeeps == ASSUME ResultInv, QueueEnds PROVE ResultInv'
  <1>1. /\ queueUp' = FALSE /\ UNCHANGED step
        /\ results' = [i \in DOMAIN results |-> LetGoOfMessage(results[i])]
        /\ \A i \in DOMAIN results : results[i].message \notin {"called", "turn", "done"}
    BY DEF QueueEnds
  <1>2. results \in Seq(Records) /\ Len(results) \in Nat /\ DOMAIN results = 1..Len(results)
        /\ \A i \in DOMAIN results : results[i] \in Records
    BY LenProperties, ElementOfSeq DEF ResultInv
  <1>3. ASSUME NEW i \in DOMAIN results
        PROVE  LET r == results[i]
                   q == results'[i]
               IN  /\ q \in Records /\ RecordOK(q, CallsHere(i)')
                   /\ r.refs \ {"message"} \subseteq q.refs /\ q.result_valid = r.result_valid
                   /\ q.message \in {r.message, "cancelled"}
    <2> DEFINE r == results[i]
               z == [LetGo(r, "message") EXCEPT !.message = "cancelled"]
    <2>1. r \in Records /\ RecordOK(r, CallsHere(i)) /\ (CallsHere(i)' <=> CallsHere(i))
      BY <1>1, <1>2 DEF ResultInv, CallsHere
    <2>2. CASE r.message \in {"once", "periodic"}
      <3>1. RecordOK(r, FALSE) /\ ~CallsHere(i)
        BY <2>1, <2>2 DEF RecordOK, Count
      <3>2. results'[i] = z
        BY <1>1, <2>2 DEF LetGoOfMessage
      <3> HIDE DEF r
      <3>3. z \in Records /\ RecordOK(z, FALSE) /\ z.refs = r.refs \ {"message"}
            /\ z.result_valid = r.result_valid /\ z.message = "cancelled"
        BY <2>1, <2>2, <3>1, LetGoOK
      <3> HIDE DEF z
      <3>4. RecordOK(z, CallsHere(i)')
        BY <2>1, <3>1, <3>3 DEF RecordOK, Count
      <3>. QED
        BY <3>2, <3>3, <3>4 DEF r
    <2>3. CASE r.message \notin {"once", "periodic"}
      <3>1. results'[i] = r
        BY <1>1, <2>3 DEF LetGoOfMessage
      <3>2. RecordOK(r, CallsHere(i)')
        BY <2>1 DEF RecordOK, Count
      <3>. QED
        BY <2>1, <3>1, <3>2
    <2>. QED
      BY <2>2, <2>3
  <1>4. results' \in Seq(Records) /\ DOMAIN results' = DOMAIN results
    <2>1. \A i \in 1..Len(results) : LetGoOfMessage(results[i]) \in Records
      BY <1>1, <1>2, <1>3
    <2>2. [i \in 1..Len(results) |-> LetGoOfMessage(results[i])] \in Seq(Records)
      BY <1>2, <2>1, IsASeq
    <2>. QED
      BY <1>1, <1>2, <2>2
  <1>5. StepsOK'
    <2>1. ASSUME NEW c \in Invokers, step[c].at # "idle"
          PROVE  step[c].of \in DOMAIN results' /\ "caller" \in results'[step[c].of].refs
      BY <1>3, <1>4, <2>1 DEF ResultInv, StepsOK
    <2>2. ASSUME NEW c \in Invokers, step[c].at = "returned"
          PROVE  \/ results'[step[c].of].result_valid
                 \/ results'[step[c].of].message \in {"none", "cancelled"}
      <3>1. step[c].of \in DOMAIN results
            /\ \/ results[step[c].of].result_valid
               \/ results[step[c].of].message \in {"none", "cancelled"}
        BY <2>2 DEF ResultInv, StepsOK
      <3>. QED
        BY <1>3, <3>1
    <2>. QED
      BY <1>1, <2>1, <2>2 DEF ResultInv, StepsOK
  <1>. QED
    BY <1>1, <1>3, <1>4, <1>5 DEF ResultInv

\* The inductive invariant of the calls with a result (message_queue.h).
THEOREM ResultInvariant == ResultSpec => []ResultInv
  <1>1. ResultInit => ResultInv
    BY DEF ResultInit, ResultInv, StepsOK, Steps, Idle
  <1>2. ASSUME ResultInv, [ResultNext]_resultVars PROVE ResultInv'
    <2>1. CASE ResultNext
      BY <1>2, <2>1, InvokerKeeps, ConstructKeeps, QueueKeeps, QueueEndsKeeps DEF ResultNext
    <2>2. CASE UNCHANGED resultVars
      BY <1>2, <2>2 DEF resultVars, ResultInv, RecordOK, Count, CallsHere, StepsOK
    <2>. QED
      BY <1>2, <2>1, <2>2
  <1>. QED
    BY <1>1, <1>2, PTL DEF ResultSpec

\* The callback is told of every call of the function, once of a function that
\* is never called, and a WaitInvoke has its result unless its message was
\* cancelled (AsyncResultWrapper, AsyncInvoke, WaitInvoke).
THEOREM ResultsAlwaysTold == ResultSpec => []ResultsAreTold
  <1>1. ASSUME ResultInv PROVE ResultsAreTold
    <2>1. ASSUME NEW i \in DOMAIN results
          PROVE  LET r == results[i]
                     now == r.message \in {"called", "turn"} \/ [at |-> "calls", of |-> i] \in Range(step)
                     n == IF now THEN r.runs - 1 ELSE r.runs
                 IN  /\ r.result_valid => r.result
                     /\ r.result_valid = (n > 0)
                     /\ r.callback /\ ~r.crashed =>
                          r.told = IF n = 0 /\ r.refs = {} THEN <<FALSE>>
                                   ELSE [k \in 1..n |-> TRUE]
                     /\ r.crashed => r.kind = "reference" /\ n = 0
      <3> DEFINE r == results[i]
                 now == r.message \in {"called", "turn"} \/ [at |-> "calls", of |-> i] \in Range(step)
                 n == IF now THEN r.runs - 1 ELSE r.runs
      <3>1. [at |-> "calls", of |-> i] \in Range(step) <=> CallsHere(i)
        BY <1>1 DEF ResultInv, Steps, CallsHere, Range
      <3>2. r \in Records /\ RecordOK(r, CallsHere(i))
        BY <1>1, ElementOfSeq, LenProperties DEF ResultInv
      <3>3. n = Count(r, CallsHere(i))
        BY <3>1 DEF Count, InCall
      <3>4. Counted(r, n) /\ r.result_valid \in BOOLEAN
        BY <3>2, <3>3 DEF RecordOK, Records
      <3> HIDE DEF r, n
      <3>5. /\ r.result_valid => r.result
            /\ r.result_valid = (n > 0)
            /\ r.callback /\ ~r.crashed =>
                 r.told = IF n = 0 /\ r.refs = {} THEN <<FALSE>> ELSE [k \in 1..n |-> TRUE]
            /\ r.crashed => r.kind = "reference" /\ n = 0
        BY <3>4 DEF Counted, ToldOf
      <3>. QED
        BY <3>5 DEF r, n
    <2>2. \A c \in Invokers :
             step[c].at = "returned" =>
                 \/ results[step[c].of].result_valid
                 \/ results[step[c].of].message \in {"none", "cancelled"}
      BY <1>1 DEF ResultInv, StepsOK
    <2>. QED
      BY <2>1, <2>2 DEF ResultsAreTold
  <1>. QED
    BY <1>1, ResultInvariant, PTL
=============================================================================
