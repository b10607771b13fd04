-------------------------- MODULE FileWriterProofs --------------------------
(* Theorems about FileWriter, for any number of threads, any heap, any     *)
(* size of the pool and any bound.                                         *)
EXTENDS FileWriter, SequenceTheorems, TLAPS

-----------------------------------------------------------------------------
(* The invariant.                                                          *)

PosterLabels == {"idle", "check", "parked"}
WriterLabels == {"off", "run", "empty", "await", "waiting", "woken", "unlock",
                 "handle", "callback", "reset", "recycle"}
Labels == PosterLabels \cup WriterLabels \cup PostLabels

TypeOK ==
    /\ inited \in BOOLEAN /\ loaded \in BOOLEAN
    /\ queue \in Seq(Objects) /\ pool \in Seq(Objects)
    /\ fields \in [Objects -> Message]
    /\ pc \in [Threads -> Labels]
    /\ hand \in [Threads -> Objects \cup {None}]
    /\ asked \in [Threads -> Message]
    /\ current \in Objects \cup {None}
    /\ call \in [Posters -> Nat]

\* A thread has an object from obtain() to the add to the queue, the writer
\* from taking it to the end of recycle().
Holders ==
    /\ \A t \in Threads : hand[t] # None <=> pc[t] \in {"fill", "add"}
    /\ current # None <=> pc[Writer] \in {"handle", "callback", "reset", "recycle"}

\* Nothing of an earlier message is left in an object that may be filled.
Clean(o) == fields[o].by = None /\ fields[o].callback = None

Prepared ==
    /\ \A o \in Elements(pool) : Clean(o)
    /\ \A t \in Threads : pc[t] = "fill" => Clean(hand[t])
    /\ pc[Writer] = "recycle" => Clean(current)

ObjectsInv == TypeOK /\ Holders /\ NoAliasing /\ Prepared /\ PostedAsAsked

-----------------------------------------------------------------------------
(* Sequences without duplicates.                                           *)

Distinct(s) == \A i, j \in DOMAIN s : s[i] = s[j] => i = j

LEMMA ElementsType ==
    ASSUME NEW S, NEW s \in Seq(S) PROVE Elements(s) \subseteq S
  <1>1. \A i \in DOMAIN s : s[i] \in S
    BY ElementOfSeq, LenProperties
  <1>. QED
    BY <1>1 DEF Elements

LEMMA ElementsEmpty == Elements(<<>>) = {} /\ Distinct(<<>>)
  BY DEF Elements, Distinct

LEMMA ElementsAppend ==
    ASSUME NEW S, NEW s \in Seq(S), NEW x \in S, Distinct(s), x \notin Elements(s)
    PROVE  /\ Append(s, x) \in Seq(S)
           /\ Elements(Append(s, x)) = Elements(s) \cup {x}
           /\ Distinct(Append(s, x))
  <1>1. /\ Append(s, x) \in Seq(S) /\ Len(s) \in Nat
        /\ Len(Append(s, x)) = Len(s) + 1
        /\ \A i \in 1..Len(s) : Append(s, x)[i] = s[i]
        /\ Append(s, x)[Len(s) + 1] = x
    BY AppendProperties, LenProperties
  <1>2. DOMAIN s = 1..Len(s) /\ DOMAIN Append(s, x) = 1..(Len(s) + 1)
    BY <1>1, LenProperties
  <1>. QED
    BY <1>1, <1>2 DEF Elements, Distinct

LEMMA ElementsPush ==
    ASSUME NEW S, NEW s \in Seq(S), NEW x \in S, Distinct(s), x \notin Elements(s)
    PROVE  /\ <<x>> \o s \in Seq(S)
           /\ Elements(<<x>> \o s) = Elements(s) \cup {x}
           /\ Distinct(<<x>> \o s)
  <1> DEFINE p == <<x>> \o s
  <1>1. <<x>> \in Seq(S) /\ Len(<<x>>) = 1 /\ <<x>>[1] = x
    OBVIOUS
  <1>2. /\ p \in Seq(S) /\ Len(s) \in Nat /\ Len(p) = 1 + Len(s)
        /\ \A i \in 1..(1 + Len(s)) : p[i] = IF i <= 1 THEN x ELSE s[i - 1]
    BY <1>1, ConcatProperties, LenProperties
  <1>3. DOMAIN s = 1..Len(s) /\ DOMAIN p = 1..(1 + Len(s))
    BY <1>2, LenProperties
  <1> HIDE DEF p
  <1>4. p[1] = x /\ \A i \in 1..Len(s) : i + 1 \in DOMAIN p /\ p[i + 1] = s[i]
    BY <1>2, <1>3
  <1>5. Elements(p) \subseteq Elements(s) \cup {x}
    <2>. SUFFICES ASSUME NEW i \in DOMAIN p PROVE p[i] \in Elements(s) \cup {x}
      BY DEF Elements
    <2>1. i = 1 \/ i - 1 \in 1..Len(s)
      BY <1>2, <1>3
    <2>2. CASE i - 1 \in 1..Len(s)
      <3>1. p[i] = s[i - 1]
        BY <1>2, <1>3, <2>2
      <3>. QED
        BY <1>3, <2>2, <3>1 DEF Elements
    <2>. QED
      BY <1>4, <2>1, <2>2
  <1>6. Elements(s) \cup {x} \subseteq Elements(p)
    <2>1. x \in Elements(p)
      BY <1>2, <1>3, <1>4 DEF Elements
    <2>2. ASSUME NEW i \in DOMAIN s PROVE s[i] \in Elements(p)
      BY <1>3, <1>4 DEF Elements
    <2>. QED
      BY <2>1, <2>2 DEF Elements
  <1>7. Distinct(p)
    <2>. SUFFICES ASSUME NEW i \in DOMAIN p, NEW j \in DOMAIN p, p[i] = p[j]
                  PROVE  i = j
      BY DEF Distinct
    <2>1. \A k \in DOMAIN p : k = 1 \/ (k - 1 \in DOMAIN s /\ p[k] = s[k - 1])
      BY <1>2, <1>3
    <2>2. \A k \in DOMAIN s : s[k] # x
      BY DEF Elements
    <2>3. i = 1 <=> j = 1
      BY <1>4, <2>1, <2>2
    <2>4. i # 1 /\ j # 1 => i - 1 = j - 1
      BY <2>1 DEF Distinct
    <2>. QED
      BY <1>2, <1>3, <2>3, <2>4
  <1>. QED
    BY <1>2, <1>5, <1>6, <1>7 DEF p

LEMMA ElementsTail ==
    ASSUME NEW S, NEW s \in Seq(S), s # <<>>, Distinct(s)
    PROVE  /\ Head(s) \in S /\ Tail(s) \in Seq(S)
           /\ Elements(Tail(s)) = Elements(s) \ {Head(s)}
           /\ Head(s) \in Elements(s)
           /\ Distinct(Tail(s))
  <1>1. /\ Head(s) \in S /\ Tail(s) \in Seq(S) /\ Len(Tail(s)) = Len(s) - 1
        /\ \A i \in 1..Len(Tail(s)) : Tail(s)[i] = s[i + 1]
    BY HeadTailProperties
  <1>2. /\ Head(s) = s[1] /\ Len(s) \in Nat /\ Len(s) >= 1
        /\ DOMAIN s = 1..Len(s) /\ DOMAIN Tail(s) = 1..(Len(s) - 1)
    BY <1>1, LenProperties, EmptySeq
  <1>3. Elements(Tail(s)) \subseteq Elements(s) \ {Head(s)}
    <2>. SUFFICES ASSUME NEW i \in DOMAIN Tail(s)
                  PROVE  Tail(s)[i] \in Elements(s) \ {Head(s)}
      BY DEF Elements
    <2>1. i + 1 \in DOMAIN s /\ 1 \in DOMAIN s /\ i + 1 # 1 /\ Tail(s)[i] = s[i + 1]
      BY <1>1, <1>2
    <2>. QED
      BY <1>2, <2>1 DEF Elements, Distinct
  <1>4. Elements(s) \ {Head(s)} \subseteq Elements(Tail(s))
    <2>. SUFFICES ASSUME NEW i \in DOMAIN s, s[i] # Head(s)
                  PROVE  s[i] \in Elements(Tail(s))
      BY DEF Elements
    <2>1. i - 1 \in DOMAIN Tail(s) /\ Tail(s)[i - 1] = s[i]
      BY <1>1, <1>2
    <2>. QED
      BY <2>1 DEF Elements
  <1>5. Distinct(Tail(s))
    BY <1>1, <1>2 DEF Distinct
  <1>6. Head(s) \in Elements(s)
    BY <1>2 DEF Elements
  <1>. QED
    BY <1>1, <1>3, <1>4, <1>5, <1>6
-----------------------------------------------------------------------------
(* The steps keep the types.                                               *)

LEMMA MessageFacts ==
    /\ Blank \in Message
    /\ \A t \in Threads : [what |-> "WRITE", by |-> t, callback |-> None] \in Message
    /\ \A t \in Threads : [what |-> "SETTING", by |-> t, callback |-> None] \in Message
    /\ [what |-> "FLUSH", by |-> None, callback |-> None] \in Message
    /\ \A c \in Callbacks : [what |-> "FLUSH", by |-> None, callback |-> c] \in Message
  BY DEF Blank, Message

LEMMA TypeInit == Init => TypeOK
  <1>. SUFFICES ASSUME Init PROVE TypeOK
    OBVIOUS
  <1>1. queue \in Seq(Objects) /\ pool \in Seq(Objects)
    BY EmptySeq DEF Init
  <1>2. pc \in [Threads -> Labels]
    BY DEF Init, Labels, PosterLabels, WriterLabels
  <1>3. fields \in [Objects -> Message] /\ asked \in [Threads -> Message]
    BY MessageFacts DEF Init
  <1>. QED
    BY <1>1, <1>2, <1>3 DEF Init, TypeOK

LEMMA RequestType ==
    ASSUME ConstantsAssumption, TypeOK, NEW t \in Posters, Request(t) PROVE TypeOK'
  <1>. USE DEF TypeOK
  <1>1. t \in Threads /\ {"obtain", "check"} \subseteq Labels
    BY DEF Threads, Labels, PosterLabels, PostLabels
  <1>2. ASSUME NEW op, NEW m \in Message, Ask(t, op, m) PROVE TypeOK'
    BY <1>1, <1>2 DEF Ask, Goto, poolVars, callVars
  <1>3. CASE Write(t)
    BY <1>1, <1>2, <1>3, MessageFacts DEF Write
  <1>4. CASE Set(t)
    BY <1>1, <1>2, <1>4, MessageFacts DEF Set
  <1>5. CASE Flush(t)
    BY <1>2, <1>5, MessageFacts DEF Flush
  <1>6. CASE FlushBlocking(t)
    <2>1. [thread |-> t, call |-> call[t] + 1] \in Callbacks
      BY <1>6 DEF FlushBlocking, Callbacks, ConstantsAssumption
    <2>2. [what |-> "FLUSH", by |-> None,
           callback |-> [thread |-> t, call |-> call[t] + 1]] \in Message
      BY <2>1, MessageFacts
    <2>3. asked' \in [Threads -> Message]
      BY <1>6, <2>2 DEF FlushBlocking
    <2>4. call' \in [Posters -> Nat]
      BY <1>6 DEF FlushBlocking
    <2>5. pc' \in [Threads -> Labels]
      BY <1>1, <1>6 DEF FlushBlocking, Goto
    <2>. QED
      BY <1>6, <2>3, <2>4, <2>5 DEF FlushBlocking, poolVars
  <1>. QED
    BY <1>3, <1>4, <1>5, <1>6 DEF Request

LEMMA BlockedType ==
    ASSUME TypeOK, NEW t \in Posters, Blocked(t) \/ ParkTimeout(t) PROVE TypeOK'
  <1>1. t \in Threads /\ {"parked", "idle"} \subseteq Labels
    BY DEF Threads, Labels, PosterLabels
  <1>. QED
    BY <1>1 DEF TypeOK, Blocked, CheckLocked, ParkReturns, ParkTimeout, Goto, poolVars,
       callVars

\* What thread t takes is one of the heap's objects, with blank fields if new.
LEMMA ObtainTakes ==
    ASSUME TypeOK, NEW t \in Threads, Obtain(t)
    PROVE  \/ /\ pool # <<>> /\ hand' = [hand EXCEPT ![t] = Head(pool)]
              /\ pool' = Tail(pool) /\ fields' = fields
           \/ /\ pool' = pool
              /\ \E new \in Free : /\ hand' = [hand EXCEPT ![t] = new]
                                   /\ fields' = [fields EXCEPT ![new] = Blank]
  <1>1. CASE pool # <<>>
    BY <1>1 DEF Obtain
  <1>2. CASE pool = <<>>
    <2> DEFINE new == CHOOSE o \in Free : TRUE
    <2>1. new \in Free
      BY <1>2 DEF Obtain
    <2>2. /\ pool' = pool /\ hand' = [hand EXCEPT ![t] = new]
          /\ fields' = [fields EXCEPT ![new] = Blank]
      BY <1>2 DEF Obtain
    <2> HIDE DEF new
    <2>. QED
      BY <2>1, <2>2
  <1>. QED
    BY <1>1, <1>2

LEMMA PostType ==
    ASSUME ConstantsAssumption, TypeOK, Holders, NEW t \in Threads, Post(t) PROVE TypeOK'
  <1>. USE DEF TypeOK
  <1>1. {"fill", "add", "try", "signalled", "run", "check", "idle", "woken"} \subseteq Labels
    BY DEF Labels, PosterLabels, WriterLabels, PostLabels
  <1>2. CASE Obtain(t)
    <2>1. UNCHANGED <<inited, loaded, queue, asked, current, call>> /\ Goto(t, "fill")
      BY <1>2 DEF Obtain, callVars
    <2>2. pc' \in [Threads -> Labels]
      BY <1>1, <2>1 DEF Goto
    <2>3. CASE pool # <<>> /\ hand' = [hand EXCEPT ![t] = Head(pool)]
               /\ pool' = Tail(pool) /\ fields' = fields
      <3>1. Head(pool) \in Objects /\ Tail(pool) \in Seq(Objects)
        BY <2>3, HeadTailProperties
      <3>. QED
        BY <2>1, <2>2, <2>3, <3>1
    <2>4. ASSUME NEW new \in Free, hand' = [hand EXCEPT ![t] = new],
                 fields' = [fields EXCEPT ![new] = Blank], pool' = pool
          PROVE  TypeOK'
      BY <2>1, <2>2, <2>4, MessageFacts DEF Free
    <2>. QED
      BY <1>2, <2>3, <2>4, ObtainTakes
  <1>3. CASE Fill(t)
    <2>1. pc' \in [Threads -> Labels]
      BY <1>1, <1>3 DEF Fill, Goto
    <2>2. hand[t] \in Objects
      BY <1>3 DEF Fill, Holders
    <2>3. asked[t] \in Message /\ fields[hand[t]] \in Message
      BY <2>2
    <2> DEFINE m == asked[t]
               o == fields[hand[t]]
               f == [what |-> m.what,
                     by |-> IF m.by # None THEN m.by ELSE o.by,
                     callback |-> IF m.callback # None THEN m.callback ELSE o.callback]
    <2>4. f \in Message
      BY <2>3 DEF Message
    <2>5. fields' = [fields EXCEPT ![hand[t]] = f]
      BY <1>3 DEF Fill
    <2> HIDE DEF f
    <2>6. fields' \in [Objects -> Message]
      BY <2>4, <2>5
    <2>. QED
      BY <1>3, <2>1, <2>6 DEF Fill, callVars
  <1>4. CASE Add(t)
    <2>1. hand[t] \in Objects
      BY <1>4 DEF Add, Holders
    <2>2. queue' \in Seq(Objects)
      BY <1>4, <2>1, AppendProperties DEF Add
    <2>3. pc' \in [Threads -> Labels] /\ hand' \in [Threads -> Objects \cup {None}]
      BY <1>1, <1>4 DEF Add, Goto
    <2>. QED
      BY <1>4, <2>2, <2>3 DEF Add, callVars
  <1>5. ASSUME AfterPost(t)
        PROVE  pc' \in [Threads -> Labels] /\ asked' \in [Threads -> Message]
    BY <1>1, <1>5, MessageFacts DEF AfterPost, Goto
  <1>6. CASE TryLock(t)
    <2>1. pc' \in [Threads -> Labels] /\ asked' \in [Threads -> Message]
      BY <1>1, <1>5, <1>6 DEF TryLock
    <2>. QED
      BY <1>6, <2>1 DEF TryLock, poolVars, callVars
  <1>7. CASE Unlock(t)
    BY <1>5, <1>7 DEF Unlock, poolVars, callVars
  <1>. QED
    BY <1>2, <1>3, <1>4, <1>6, <1>7 DEF Post

LEMMA WriterType ==
    ASSUME ConstantsAssumption, TypeOK, Holders,
           WriterStep \/ WriterThrows \/ WriterSpurious \/ InitThread \/ InitLibrary
    PROVE  TypeOK'
  <1>. USE DEF TypeOK
  <1>1. /\ Writer \in Threads /\ WriterLabels \subseteq Labels /\ "obtain" \in Labels
    BY DEF Threads, Labels, PostLabels
  <1>2. ASSUME NEW label \in WriterLabels \cup {"obtain"}, Goto(Writer, label)
        PROVE  pc' \in [Threads -> Labels]
    BY <1>1, <1>2 DEF Goto
  <1>3. CASE InitThread \/ WriterSpurious
    BY <1>2, <1>3 DEF InitThread, WriterSpurious, WriterLabels, poolVars, callVars
  <1>4. CASE InitLibrary
    BY <1>4 DEF InitLibrary, ConstantsAssumption, poolVars, callVars
  <1>5. CASE WriterRun
    <2>1. CASE queue = <<>>
      BY <1>2, <1>5, <2>1 DEF WriterRun, WriterLabels, poolVars, callVars
    <2>2. CASE queue # <<>>
      <3>1. Head(queue) \in Objects /\ Tail(queue) \in Seq(Objects)
        BY <2>2, HeadTailProperties
      <3>2. pc' \in [Threads -> Labels]
        BY <1>2, <1>5, <2>2 DEF WriterRun, WriterLabels
      <3>. QED
        BY <1>5, <2>2, <3>1, <3>2 DEF WriterRun, poolVars, callVars
    <2>. QED
      BY <2>1, <2>2
  <1>6. CASE WriterTryLock \/ WriterAwait \/ WriterRelock \/ WriterUnlock
    BY <1>2, <1>6 DEF WriterTryLock, WriterAwait, WriterRelock, WriterUnlock,
       WriterLabels, poolVars, callVars
  <1>7. CASE WriterHandle
    BY <1>2, <1>7 DEF WriterHandle, WriterLabels, poolVars, callVars
  <1>8. CASE WriterThrows
    BY <1>2, <1>8 DEF WriterThrows, WriterLabels, poolVars, callVars
  <1>9. CASE WriterUnlinked
    <2>1. asked' \in [Threads -> Message]
      BY <1>1, <1>9, MessageFacts DEF WriterUnlinked
    <2>. QED
      BY <1>2, <1>9, <2>1 DEF WriterUnlinked, poolVars, callVars
  <1>10. CASE WriterCallback
    BY <1>2, <1>10 DEF WriterCallback, WriterLabels, poolVars
  <1>11. CASE WriterReset
    <2>1. current \in Objects
      BY <1>11 DEF WriterReset, Holders
    <2>2. [Blank EXCEPT !.what = fields[current].what] \in Message
      BY <2>1 DEF Message, Blank
    <2>3. fields' \in [Objects -> Message]
      BY <1>11, <2>2 DEF WriterReset
    <2>. QED
      BY <1>2, <1>11, <2>3 DEF WriterReset, WriterLabels, callVars
  <1>12. CASE WriterRecycle
    <2>1. current \in Objects
      BY <1>12 DEF WriterRecycle, Holders
    <2>2. <<current>> \o pool \in Seq(Objects)
      BY <2>1, ConcatProperties
    <2>3. pool' \in Seq(Objects)
      BY <1>12, <2>2 DEF WriterRecycle
    <2>. QED
      BY <1>2, <1>12, <2>3 DEF WriterRecycle, WriterLabels, callVars
  <1>. QED
    BY <1>3, <1>4, <1>5, <1>6, <1>7, <1>8, <1>9, <1>10, <1>11, <1>12 DEF WriterStep

-----------------------------------------------------------------------------
(* The steps keep the objects apart.                                       *)

Holding == {"fill", "add"}
Handling == {"handle", "callback", "reset", "recycle"}
InHand == {"handle", "callback", "reset"}

ObjectsApart == Holders /\ NoAliasing /\ Prepared /\ PostedAsAsked

LEMMA NoAliasingParts ==
    NoAliasing <=>
      /\ Distinct(pool) /\ Distinct(queue)
      /\ Elements(pool) \cap Elements(queue) = {}
      /\ current \notin Elements(pool) \cup Elements(queue)
      /\ \A t \in Threads : hand[t] # None =>
           /\ hand[t] \notin Elements(pool) \cup Elements(queue) \cup {current}
           /\ \A u \in Threads : u # t => hand[u] # hand[t]
  BY DEF NoAliasing, Distinct

\* Steps that leave the objects alone, and their holders where they hold them.
LEMMA CalmStep ==
    ASSUME ObjectsInv, UNCHANGED <<queue, pool, fields, hand, current>>,
           \A t \in Threads :
             \/ pc'[t] = pc[t] /\ asked'[t] = asked[t]
             \/ pc[t] \notin Holding \cup Handling /\ pc'[t] \notin Holding \cup Handling
             \/ pc[t] \in {"handle", "callback"} /\ pc'[t] \in {"callback", "reset"}
    PROVE  ObjectsApart'
  <1>. USE DEF ObjectsInv, ObjectsApart, Holding, Handling
  <1>1. Writer \in Threads
    BY DEF Threads
  <1>2. Holders'
    BY <1>1 DEF Holders
  <1>3. NoAliasing'
    BY DEF NoAliasing, Elements
  <1>4. Prepared'
    BY <1>1 DEF Prepared, Clean, Elements
  <1>5. PostedAsAsked'
    BY DEF PostedAsAsked
  <1>. QED
    BY <1>2, <1>3, <1>4, <1>5

LEMMA ObtainApart ==
    ASSUME ConstantsAssumption, ObjectsInv, NEW t \in Threads, Obtain(t)
    PROVE  ObjectsApart'
  <1>. USE DEF ObjectsInv
  <1>0. /\ UNCHANGED <<queue, current, asked>> /\ pc[t] = "obtain"
        /\ pc' = [pc EXCEPT ![t] = "fill"] /\ pc \in [Threads -> Labels]
        /\ hand \in [Threads -> Objects \cup {None}] /\ hand[t] = None
        /\ None \notin Objects /\ Writer \in Threads
        /\ Elements(pool) \subseteq Objects /\ Elements(queue) \subseteq Objects
    BY ElementsType DEF Obtain, Goto, TypeOK, Holders, ConstantsAssumption, Threads
  <1>1. PICK new \in Objects :
          /\ hand' = [hand EXCEPT ![t] = new]
          /\ new \notin Elements(queue) \cup {current} \cup {hand[u] : u \in Threads}
          /\ Distinct(pool') /\ Elements(pool') = Elements(pool) \ {new}
          /\ \A o \in Objects \ {new} : fields'[o] = fields[o]
          /\ fields'[new].by = None /\ fields'[new].callback = None
    <2>0. fields \in [Objects -> Message] /\ pool \in Seq(Objects) /\ Distinct(pool)
      BY NoAliasingParts DEF TypeOK
    <2>1. CASE pool # <<>> /\ hand' = [hand EXCEPT ![t] = Head(pool)]
               /\ pool' = Tail(pool) /\ fields' = fields
      <3>1. /\ Head(pool) \in Elements(pool) /\ Head(pool) \in Objects
            /\ Elements(pool') = Elements(pool) \ {Head(pool)} /\ Distinct(pool')
        BY <2>0, <2>1, ElementsTail
      <3>2. Head(pool) \notin Elements(queue) \cup {current} \cup {hand[u] : u \in Threads}
        BY <1>0, <3>1, NoAliasingParts
      <3>3. Clean(Head(pool))
        BY <3>1 DEF Prepared
      <3>. QED
        BY <2>1, <3>1, <3>2, <3>3 DEF Clean
    <2>2. ASSUME NEW new \in Free, hand' = [hand EXCEPT ![t] = new],
                 fields' = [fields EXCEPT ![new] = Blank], pool' = pool
          PROVE  /\ new \in Objects
                 /\ new \notin Elements(queue) \cup {current} \cup {hand[u] : u \in Threads}
                 /\ Distinct(pool') /\ Elements(pool') = Elements(pool) \ {new}
                 /\ \A o \in Objects \ {new} : fields'[o] = fields[o]
                 /\ fields'[new].by = None /\ fields'[new].callback = None
      BY <2>0, <2>2 DEF Free, Blank
    <2>. QED
      BY <2>1, <2>2, ObtainTakes
  <1>2. /\ hand'[t] = new /\ pc'[t] = "fill"
        /\ \A u \in Threads \ {t} : hand'[u] = hand[u] /\ pc'[u] = pc[u]
    BY <1>0, <1>1
  <1>3. Holders'
    BY <1>0, <1>1, <1>2 DEF Holders
  <1>4. Elements(queue') = Elements(queue) /\ Distinct(queue')
    BY <1>0, NoAliasingParts
  <1>5. NoAliasing'
    <2>1. \A u \in Threads \ {t} : hand[u] # new
      BY <1>1
    <2>. QED
      BY <1>0, <1>1, <1>2, <1>4, <2>1, NoAliasingParts DEF NoAliasing, Distinct
  <1>6. Prepared'
    <2>1. \A o \in Objects \ {new} : Clean(o) => Clean(o)'
      BY <1>1 DEF Clean
    <2>2. (Clean(hand[t]))'
      BY <1>1, <1>2 DEF Clean
    <2>3. \A o \in Elements(pool') : Clean(o)'
      BY <1>0, <1>1, <2>1 DEF Prepared
    <2>4. ASSUME NEW u \in Threads \ {t}, pc[u] = "fill" PROVE (Clean(hand[u]))'
      <3>1. hand[u] \in Objects \ {new} /\ hand'[u] = hand[u] /\ Clean(hand[u])
        BY <1>0, <1>1, <1>2, <2>4 DEF Holders, Prepared
      <3>. QED
        BY <1>1, <3>1 DEF Clean
    <2>5. pc[Writer] = "recycle" => (Clean(current))'
      <3>1. pc[Writer] = "recycle" => current \in Objects \ {new} /\ Clean(current)
        BY <1>1 DEF Holders, Prepared, TypeOK
      <3>. QED
        BY <1>0, <1>1, <3>1 DEF Clean
    <2>. QED
      BY <1>0, <1>2, <2>2, <2>3, <2>4, <2>5 DEF Prepared
  <1>7. PostedAsAsked'
    <2>. SUFFICES ASSUME NEW u \in Threads, pc'[u] = "add"
                  PROVE  fields'[hand'[u]] = asked'[u]
      BY DEF PostedAsAsked
    <2>1. u # t /\ pc[u] = "add" /\ hand'[u] = hand[u]
      BY <1>2
    <2>2. hand[u] \in Objects \ {new}
      BY <1>0, <1>1, <2>1 DEF Holders
    <2>. QED
      BY <1>0, <1>1, <2>1, <2>2 DEF PostedAsAsked
  <1>. QED
    BY <1>3, <1>5, <1>6, <1>7 DEF ObjectsApart

\* An object that one thread fills or resets is no other thread's.
LEMMA FillApart ==
    ASSUME ConstantsAssumption, ObjectsInv, NEW t \in Threads, Fill(t)
    PROVE  ObjectsApart'
  <1>. USE DEF ObjectsInv
  <1>0. /\ UNCHANGED <<queue, pool, hand, current, asked>> /\ pc[t] = "fill"
        /\ pc' = [pc EXCEPT ![t] = "add"] /\ pc \in [Threads -> Labels]
        /\ hand[t] \in Objects /\ Writer \in Threads
        /\ fields \in [Objects -> Message] /\ asked[t] \in Message
    BY DEF Fill, Goto, TypeOK, Holders, Threads
  <1>1. fields'[hand[t]] = asked[t]
    <2>1. Clean(hand[t])
      BY <1>0 DEF Prepared
    <2>2. fields'[hand[t]] = [what |-> asked[t].what, by |-> asked[t].by,
                              callback |-> asked[t].callback]
      BY <1>0, <2>1 DEF Fill, Clean
    <2>. QED
      BY <1>0, <2>2 DEF Message
  <1>2. \A o \in Objects \ {hand[t]} : fields'[o] = fields[o]
    BY <1>0 DEF Fill
  <1>3. Holders'
    BY <1>0 DEF Holders
  <1>4. NoAliasing'
    BY <1>0 DEF NoAliasing, Elements
  <1>5. hand[t] \notin Elements(pool) \cup {current}
    BY <1>0 DEF NoAliasing, ConstantsAssumption
  <1>6. \A u \in Threads \ {t} : pc[u] \in Holding => hand[u] \in Objects \ {hand[t]}
    BY <1>0 DEF NoAliasing, ConstantsAssumption, Holders, TypeOK, Holding
  <1>7. Prepared'
    <2>1. Elements(pool') = Elements(pool) /\ Elements(pool) \subseteq Objects
      BY <1>0, ElementsType DEF TypeOK
    <2>2. \A o \in Elements(pool) : Clean(o)'
      BY <1>2, <1>5, <2>1 DEF Prepared, Clean
    <2>3. \A u \in Threads : pc'[u] = "fill" => (Clean(hand[u]))'
      BY <1>0, <1>2, <1>6 DEF Prepared, Clean, Holding
    <2>4. pc'[Writer] = "recycle" => (Clean(current))'
      BY <1>0, <1>2, <1>5 DEF Prepared, Clean, Holders, TypeOK
    <2>. QED
      BY <2>1, <2>2, <2>3, <2>4 DEF Prepared
  <1>8. PostedAsAsked'
    BY <1>0, <1>1, <1>2, <1>6 DEF PostedAsAsked, Holding
  <1>. QED
    BY <1>3, <1>4, <1>7, <1>8 DEF ObjectsApart

LEMMA AddApart ==
    ASSUME ConstantsAssumption, ObjectsInv, NEW t \in Threads, Add(t)
    PROVE  /\ ObjectsApart'
           /\ hand[t] \in Objects \ Elements(queue)
  <1>. USE DEF ObjectsInv
  <1>0. /\ UNCHANGED <<pool, fields, current, asked>> /\ pc[t] = "add"
        /\ pc' = [pc EXCEPT ![t] = "try"] /\ pc \in [Threads -> Labels]
        /\ hand' = [hand EXCEPT ![t] = None] /\ queue' = Append(queue, hand[t])
        /\ hand \in [Threads -> Objects \cup {None}]
        /\ hand[t] \in Objects /\ Writer \in Threads /\ queue \in Seq(Objects)
    BY DEF Add, Goto, TypeOK, Holders, Threads
  <1>1. hand[t] \notin Elements(pool) \cup Elements(queue) \cup {current}
    BY <1>0 DEF NoAliasing, ConstantsAssumption
  <1>2. Elements(queue') = Elements(queue) \cup {hand[t]} /\ Distinct(queue')
    BY <1>0, <1>1, ElementsAppend, NoAliasingParts
  <1>3. /\ hand'[t] = None /\ pc'[t] = "try"
        /\ \A u \in Threads \ {t} : hand'[u] = hand[u] /\ pc'[u] = pc[u]
    BY <1>0
  <1>4. Holders'
    BY <1>0, <1>3 DEF Holders
  <1>5. NoAliasing'
    <2>1. \A u \in Threads \ {t} : hand[u] # hand[t]
      BY <1>0 DEF NoAliasing, ConstantsAssumption
    <2>2. Distinct(pool') /\ Elements(pool') = Elements(pool)
      BY <1>0, NoAliasingParts
    <2>. QED
      BY <1>0, <1>1, <1>2, <1>3, <2>1, <2>2, NoAliasingParts DEF NoAliasing, Distinct
  <1>6. Prepared'
    BY <1>0, <1>3 DEF Prepared, Clean, Elements
  <1>7. PostedAsAsked'
    BY <1>0, <1>3 DEF PostedAsAsked
  <1>. QED
    BY <1>0, <1>1, <1>4, <1>5, <1>6, <1>7 DEF ObjectsApart

LEMMA CalmActions ==
    ASSUME ObjectsInv,
           \/ InitThread \/ InitLibrary \/ WriterSpurious
           \/ \E t \in Posters : Request(t) \/ Blocked(t) \/ ParkTimeout(t)
           \/ \E t \in Threads : TryLock(t) \/ Unlock(t)
           \/ WriterRun /\ queue = <<>>
           \/ WriterTryLock \/ WriterAwait \/ WriterRelock \/ WriterUnlock
           \/ WriterHandle \/ WriterCallback
           \/ UNCHANGED vars
    PROVE  /\ ObjectsApart' /\ UNCHANGED <<queue, pool, fields, hand, current>>
           /\ pc[Writer] \in InHand <=> pc'[Writer] \in InHand
  <1> DEFINE Calm(t) ==
        \/ pc'[t] = pc[t] /\ asked'[t] = asked[t]
        \/ pc[t] \notin Holding \cup Handling /\ pc'[t] \notin Holding \cup Handling
        \/ pc[t] \in {"handle", "callback"} /\ pc'[t] \in {"callback", "reset"}
  <1>. USE DEF Holding, Handling
  <1>0. /\ pc \in [Threads -> Labels] /\ asked \in [Threads -> Message]
        /\ Writer \in Threads /\ Posters \subseteq Threads
    BY DEF ObjectsInv, TypeOK, Threads
  <1>1. (\A t \in Threads : Calm(t)) /\ UNCHANGED <<queue, pool, fields, hand, current>>
    <2>1. CASE InitThread \/ InitLibrary \/ WriterSpurious
      BY <1>0, <2>1 DEF InitThread, InitLibrary, WriterSpurious, Goto, poolVars
    <2>2. ASSUME NEW t \in Posters, Request(t)
          PROVE  (\A u \in Threads : Calm(u)) /\ UNCHANGED <<queue, pool, fields, hand, current>>
      <3>1. /\ UNCHANGED <<queue, pool, fields, hand, current>>
            /\ \E label \in {"obtain", "check"} : pc' = [pc EXCEPT ![t] = label]
            /\ pc[t] = "idle" /\ \E m : asked' = [asked EXCEPT ![t] = m]
        BY <2>2 DEF Request, Write, Set, Flush, FlushBlocking, Ask, Goto, poolVars
      <3>. QED
        BY <1>0, <3>1
    <2>3. ASSUME NEW t \in Posters, Blocked(t) \/ ParkTimeout(t)
          PROVE  (\A u \in Threads : Calm(u)) /\ UNCHANGED <<queue, pool, fields, hand, current>>
      BY <1>0, <2>3 DEF Blocked, CheckLocked, ParkReturns, ParkTimeout, Goto, poolVars
    <2>4. ASSUME NEW t \in Threads, TryLock(t) \/ Unlock(t)
          PROVE  (\A u \in Threads : Calm(u)) /\ UNCHANGED <<queue, pool, fields, hand, current>>
      <3>1. /\ UNCHANGED <<queue, pool, fields, hand, current>>
            /\ pc[t] \in {"try", "signalled"}
        BY <2>4 DEF TryLock, Unlock, poolVars
      <3>2. CASE AfterPost(t)
        BY <1>0, <3>1, <3>2 DEF AfterPost, Goto
      <3>3. CASE /\ pc' = [pc EXCEPT ![t] = "signalled",
                            ![Writer] = IF @ = "waiting" THEN "woken" ELSE @]
                 /\ asked' = asked
        BY <1>0, <3>1, <3>3
      <3>. QED
        BY <2>4, <3>1, <3>2, <3>3 DEF TryLock, Unlock
    <2>5. CASE WriterRun /\ queue = <<>>
      BY <1>0, <2>5 DEF WriterRun, Goto, poolVars
    <2>6. CASE WriterTryLock \/ WriterAwait \/ WriterRelock \/ WriterUnlock
      BY <1>0, <2>6 DEF WriterTryLock, WriterAwait, WriterRelock, WriterUnlock, Goto,
         poolVars
    <2>7. CASE WriterHandle \/ WriterCallback
      BY <1>0, <2>7 DEF WriterHandle, WriterCallback, Goto, poolVars
    <2>8. CASE UNCHANGED vars
      BY <2>8 DEF vars, poolVars
    <2>. QED
      BY <2>1, <2>2, <2>3, <2>4, <2>5, <2>6, <2>7, <2>8
  <1>2. pc[Writer] \in InHand <=> pc'[Writer] \in InHand
    BY <1>0, <1>1 DEF InHand
  <1>. QED
    BY <1>1, <1>2, CalmStep

\* The writer takes the head of the queue.
LEMMA WriterRunApart ==
    ASSUME ConstantsAssumption, ObjectsInv, WriterRun, queue # <<>>
    PROVE  ObjectsApart'
  <1>. USE DEF ObjectsInv
  <1>0. /\ UNCHANGED <<pool, fields, hand, asked>> /\ pc[Writer] = "run"
        /\ pc' = [pc EXCEPT ![Writer] = "handle"] /\ pc \in [Threads -> Labels]
        /\ queue' = Tail(queue) /\ current' = Head(queue)
        /\ Writer \in Threads /\ queue \in Seq(Objects) /\ current = None
    BY DEF WriterRun, Goto, TypeOK, Holders, Threads, poolVars
  <1>1. /\ Head(queue) \in Objects /\ Head(queue) \in Elements(queue)
        /\ Elements(queue') = Elements(queue) \ {Head(queue)} /\ Distinct(queue')
    BY <1>0, ElementsTail, NoAliasingParts
  <1>2. pc'[Writer] = "handle" /\ \A u \in Threads \ {Writer} : pc'[u] = pc[u]
    BY <1>0
  <1>3. Holders'
    BY <1>0, <1>1, <1>2 DEF Holders, ConstantsAssumption
  <1>4. NoAliasing'
    <2>1. Distinct(pool') /\ Elements(pool') = Elements(pool)
      BY <1>0, NoAliasingParts
    <2>2. Head(queue) \notin Elements(pool)
      BY <1>1 DEF NoAliasing
    <2>3. \A u \in Threads : hand[u] # None => hand[u] # Head(queue)
      BY <1>1 DEF NoAliasing
    <2>. QED
      BY <1>0, <1>1, <2>1, <2>2, <2>3 DEF NoAliasing, Distinct
  <1>5. Prepared'
    BY <1>0, <1>2 DEF Prepared, Clean, Elements
  <1>6. PostedAsAsked'
    BY <1>0, <1>2 DEF PostedAsAsked
  <1>. QED
    BY <1>3, <1>4, <1>5, <1>6 DEF ObjectsApart

\* An object whose handling threw is dropped.
LEMMA WriterDropApart ==
    ASSUME ConstantsAssumption, ObjectsInv, WriterThrows \/ WriterUnlinked
    PROVE  ObjectsApart'
  <1>. USE DEF ObjectsInv
  <1>0. /\ UNCHANGED <<queue, pool, fields, hand>> /\ pc[Writer] = "handle"
        /\ \E label \in {"run", "obtain"} : pc' = [pc EXCEPT ![Writer] = label]
        /\ \A u \in Threads \ {Writer} : asked'[u] = asked[u]
        /\ pc \in [Threads -> Labels] /\ asked \in [Threads -> Message]
        /\ current' = None /\ Writer \in Threads /\ queue \in Seq(Objects)
        /\ Elements(pool) \subseteq Objects /\ Elements(queue) \subseteq Objects
    BY ElementsType DEF WriterThrows, WriterUnlinked, Goto, TypeOK, Threads, poolVars
  <1>1. /\ pc'[Writer] \in {"run", "obtain"}
        /\ \A u \in Threads \ {Writer} : pc'[u] = pc[u]
    BY <1>0
  <1>2. Holders'
    BY <1>0, <1>1 DEF Holders
  <1>3. NoAliasing'
    <2>1. /\ Distinct(pool') /\ Distinct(queue')
          /\ Elements(pool') = Elements(pool) /\ Elements(queue') = Elements(queue)
      BY <1>0, NoAliasingParts
    <2>. QED
      BY <1>0, <2>1 DEF NoAliasing, Distinct, ConstantsAssumption
  <1>4. Prepared'
    BY <1>0, <1>1 DEF Prepared, Clean, Elements
  <1>5. PostedAsAsked'
    BY <1>0, <1>1 DEF PostedAsAsked
  <1>. QED
    BY <1>2, <1>3, <1>4, <1>5 DEF ObjectsApart

LEMMA WriterResetApart ==
    ASSUME ConstantsAssumption, ObjectsInv, WriterReset
    PROVE  ObjectsApart'
  <1>. USE DEF ObjectsInv
  <1>0. /\ UNCHANGED <<queue, pool, hand, current, asked>> /\ pc[Writer] = "reset"
        /\ pc' = [pc EXCEPT ![Writer] = "recycle"] /\ pc \in [Threads -> Labels]
        /\ current \in Objects /\ Writer \in Threads
        /\ fields \in [Objects -> Message]
    BY DEF WriterReset, Goto, TypeOK, Holders, Threads
  <1>1. /\ fields'[current].by = None /\ fields'[current].callback = None
        /\ \A o \in Objects \ {current} : fields'[o] = fields[o]
    BY <1>0 DEF WriterReset, Blank
  <1>2. pc'[Writer] = "recycle" /\ \A u \in Threads \ {Writer} : pc'[u] = pc[u]
    BY <1>0
  <1>3. Holders'
    BY <1>0, <1>2 DEF Holders
  <1>4. NoAliasing'
    BY <1>0 DEF NoAliasing, Elements
  <1>5. \A u \in Threads : pc[u] \in Holding => hand[u] \in Objects \ {current}
    BY <1>0 DEF NoAliasing, ConstantsAssumption, Holders, TypeOK, Holding
  <1>6. Prepared'
    <2>1. Elements(pool') = Elements(pool) /\ Elements(pool) \subseteq Objects \ {current}
      BY <1>0, ElementsType DEF TypeOK, NoAliasing
    <2>2. \A o \in Elements(pool) : Clean(o)'
      BY <1>1, <2>1 DEF Prepared, Clean
    <2>3. \A u \in Threads : pc'[u] = "fill" => (Clean(hand[u]))'
      BY <1>0, <1>1, <1>2, <1>5 DEF Prepared, Clean, Holding
    <2>4. (Clean(current))'
      BY <1>0, <1>1 DEF Clean
    <2>. QED
      BY <2>1, <2>2, <2>3, <2>4 DEF Prepared
  <1>7. PostedAsAsked'
    BY <1>0, <1>1, <1>2, <1>5 DEF PostedAsAsked, Holding
  <1>. QED
    BY <1>3, <1>4, <1>6, <1>7 DEF ObjectsApart

LEMMA WriterRecycleApart ==
    ASSUME ConstantsAssumption, ObjectsInv, WriterRecycle
    PROVE  ObjectsApart'
  <1>. USE DEF ObjectsInv
  <1>0. /\ UNCHANGED <<queue, fields, hand, asked>> /\ pc[Writer] = "recycle"
        /\ pc' = [pc EXCEPT ![Writer] = "run"] /\ pc \in [Threads -> Labels]
        /\ current \in Objects /\ current' = None /\ Writer \in Threads
        /\ Clean(current) /\ None \notin Objects
        /\ pool \in Seq(Objects) /\ Distinct(pool) /\ current \notin Elements(pool)
        /\ Elements(pool) \subseteq Objects /\ Elements(queue) \subseteq Objects
        /\ current \notin Elements(queue)
    BY ElementsType, NoAliasingParts
       DEF WriterRecycle, Goto, TypeOK, Holders, Prepared, Threads, ConstantsAssumption
  <1>1. /\ Distinct(pool') /\ Elements(pool') \subseteq Elements(pool) \cup {current}
    BY <1>0, ElementsPush DEF WriterRecycle
  <1>2. pc'[Writer] = "run" /\ \A u \in Threads \ {Writer} : pc'[u] = pc[u]
    BY <1>0
  <1>3. Holders'
    BY <1>0, <1>2 DEF Holders
  <1>4. NoAliasing'
    <2>1. Distinct(queue') /\ Elements(queue') = Elements(queue)
      BY <1>0, NoAliasingParts
    <2>2. \A u \in Threads : hand[u] # None =>
            hand[u] \notin Elements(pool) \cup Elements(queue) \cup {current}
      BY DEF NoAliasing
    <2>3. /\ current' \notin Elements(pool') \cup Elements(queue')
          /\ Elements(pool') \cap Elements(queue') = {}
      BY <1>0, <1>1, <2>1 DEF NoAliasing
    <2>4. \A u \in Threads : hand'[u] # None =>
            hand'[u] \notin Elements(pool') \cup Elements(queue') \cup {current'}
      BY <1>0, <1>1, <2>1, <2>2
    <2>5. \A u, w \in Threads : hand'[u] # None /\ u # w => hand'[w] # hand'[u]
      BY <1>0 DEF NoAliasing
    <2>. QED
      BY <1>1, <2>1, <2>3, <2>4, <2>5 DEF NoAliasing, Distinct
  <1>5. Prepared'
    <2>1. \A o : Clean(o) => Clean(o)'
      BY <1>0 DEF Clean
    <2>2. \A u \in Threads : pc'[u] = "fill" => (Clean(hand[u]))'
      BY <1>0, <1>2 DEF Prepared, Clean
    <2>. QED
      BY <1>0, <1>1, <1>2, <2>1, <2>2 DEF Prepared
  <1>6. PostedAsAsked'
    BY <1>0, <1>2 DEF PostedAsAsked
  <1>. QED
    BY <1>3, <1>4, <1>5, <1>6 DEF ObjectsApart

-----------------------------------------------------------------------------
(* The invariant holds.                                                    *)

LEMMA ObjectsInit == ASSUME ConstantsAssumption, Init PROVE ObjectsInv
  <1>1. TypeOK
    BY TypeInit
  <1>2. Holders /\ Prepared /\ PostedAsAsked
    BY ElementsEmpty DEF Init, Holders, Prepared, PostedAsAsked, Threads
  <1>3. NoAliasing
    BY ElementsEmpty DEF Init, NoAliasing
  <1>. QED
    BY <1>1, <1>2, <1>3 DEF ObjectsInv

LEMMA ObjectsStep ==
    ASSUME ConstantsAssumption, ObjectsInv, [Next]_vars PROVE ObjectsInv'
  <1>1. TypeOK'
    <2>1. CASE UNCHANGED vars
      BY <2>1 DEF ObjectsInv, TypeOK, vars, poolVars, callVars
    <2>. QED
      BY <2>1, RequestType, BlockedType, PostType, WriterType DEF ObjectsInv, Next
  <1>2. ObjectsApart'
    <2>1. WriterRun => queue = <<>> \/ queue # <<>>
      OBVIOUS
    <2>. QED
      BY <2>1, CalmActions, ObtainApart, FillApart, AddApart, WriterRunApart,
         WriterDropApart, WriterResetApart, WriterRecycleApart
      DEF Next, Post, WriterStep
  <1>. QED
    BY <1>1, <1>2 DEF ObjectsInv, ObjectsApart

\* The inductive invariant of the message objects.
THEOREM ObjectsInvariant == Spec => []ObjectsInv
  BY ObjectsInit, ObjectsStep, ConstantsAssumption, PTL DEF Spec

\* A BundleMessage is in one place at a time: in sPool, in the hands of one
\* thread, in mQueue or with the WriteLogThread, whatever the threads' steps.
THEOREM ObjectsAreInOnePlace == Spec => []NoAliasing
  <1>1. ObjectsInv => NoAliasing
    BY DEF ObjectsInv
  <1>. QED
    BY <1>1, ObjectsInvariant, PTL

\* recycleUnchecked cleans enough: a message that is posted has its caller's
\* values and nothing of the message its object carried before.
THEOREM MessagesArePostedAsAsked == Spec => []PostedAsAsked
  <1>1. ObjectsInv => PostedAsAsked
    BY DEF ObjectsInv
  <1>. QED
    BY <1>1, ObjectsInvariant, PTL

-----------------------------------------------------------------------------
(* The queue, the pool and the writer implement the mailbox.               *)

Contents(q, f) == [i \in DOMAIN q |-> f[q[i]]]

Out == IF pc[Writer] \in InHand THEN fields[current] ELSE None

LEMMA ContentsSame ==
    ASSUME NEW q, NEW f, NEW g, \A o \in Elements(q) : g[o] = f[o]
    PROVE  Contents(q, g) = Contents(q, f)
  BY DEF Contents, Elements

LEMMA ContentsAppend ==
    ASSUME NEW q \in Seq(Objects), NEW f, NEW x \in Objects
    PROVE  Contents(Append(q, x), f) = Append(Contents(q, f), f[x])
  <1> DEFINE a == Append(q, x)
             c == Contents(q, f)
             S == {f[o] : o \in Objects}
  <1>1. /\ DOMAIN q = 1..Len(q) /\ Len(q) \in Nat /\ a \in Seq(Objects)
        /\ Len(a) = Len(q) + 1 /\ DOMAIN a = 1..(Len(q) + 1)
        /\ (\A i \in 1..Len(q) : a[i] = q[i]) /\ a[Len(q) + 1] = x
    BY AppendProperties, LenProperties
  <1>2. \A i \in 1..Len(q) : q[i] \in Objects
    BY ElementOfSeq
  <1>3. c \in Seq(S) /\ Len(c) = Len(q) /\ f[x] \in S
        /\ \A i \in 1..Len(q) : c[i] = f[q[i]]
    <2>1. c \in [1..Len(q) -> S]
      BY <1>1, <1>2 DEF Contents
    <2>. QED
      BY <1>1, <2>1, LenProperties, IsASeq DEF Contents
  <1> HIDE DEF c, S
  <1>4. /\ DOMAIN Append(c, f[x]) = 1..(Len(q) + 1)
        /\ \A i \in 1..Len(q) : Append(c, f[x])[i] = c[i]
        /\ Append(c, f[x])[Len(q) + 1] = f[x]
        /\ Append(c, f[x]) = [i \in 1..(Len(q) + 1) |-> Append(c, f[x])[i]]
    BY <1>1, <1>3, AppendProperties, LenProperties
  <1>5. Contents(a, f) = [i \in 1..(Len(q) + 1) |-> f[a[i]]]
    BY <1>1 DEF Contents
  <1>6. \A i \in 1..(Len(q) + 1) : f[a[i]] = Append(c, f[x])[i]
    <2>1. \A i \in 1..(Len(q) + 1) : i \in 1..Len(q) \/ i = Len(q) + 1
      BY <1>1
    <2>. QED
      BY <1>1, <1>3, <1>4, <2>1
  <1>7. Contents(a, f) = Append(c, f[x])
    BY <1>4, <1>5, <1>6
  <1>. QED
    BY <1>7 DEF c

LEMMA ContentsTail ==
    ASSUME NEW q \in Seq(Objects), q # <<>>, NEW f
    PROVE  /\ Contents(q, f) # <<>>
           /\ Head(Contents(q, f)) = f[Head(q)]
           /\ Tail(Contents(q, f)) = Contents(Tail(q), f)
  <1> DEFINE c == Contents(q, f)
             S == {f[o] : o \in Objects}
             t == Tail(q)
  <1>1. /\ DOMAIN q = 1..Len(q) /\ Len(q) \in Nat /\ Len(q) >= 1
        /\ t \in Seq(Objects) /\ Len(t) = Len(q) - 1 /\ DOMAIN t = 1..(Len(q) - 1)
        /\ \A i \in 1..(Len(q) - 1) : t[i] = q[i + 1]
        /\ Head(q) = q[1]
    BY HeadTailProperties, LenProperties, EmptySeq
  <1>2. \A i \in 1..Len(q) : q[i] \in Objects
    BY ElementOfSeq
  <1>3. c \in Seq(S) /\ Len(c) = Len(q) /\ \A i \in 1..Len(q) : c[i] = f[q[i]]
    <2>1. c \in [1..Len(q) -> S]
      BY <1>1, <1>2 DEF Contents
    <2>. QED
      BY <1>1, <2>1, LenProperties, IsASeq DEF Contents
  <1> HIDE DEF c, S
  <1>4. c # <<>> /\ Head(c) = f[Head(q)]
    BY <1>1, <1>3, EmptySeq, LenProperties
  <1>5. /\ DOMAIN Tail(c) = 1..(Len(q) - 1)
        /\ \A i \in 1..(Len(q) - 1) : Tail(c)[i] = c[i + 1]
        /\ Tail(c) = [i \in 1..(Len(q) - 1) |-> Tail(c)[i]]
    <2>1. /\ Tail(c) \in Seq(S) /\ Len(Tail(c)) = Len(q) - 1
          /\ \A i \in 1..Len(Tail(c)) : Tail(c)[i] = c[i + 1]
      BY <1>3, <1>4, HeadTailProperties
    <2>2. /\ DOMAIN Tail(c) = 1..Len(Tail(c))
          /\ Tail(c) = [i \in 1..Len(Tail(c)) |-> Tail(c)[i]]
      BY <2>1, LenProperties
    <2>. QED
      BY <2>1, <2>2
  <1>6. Contents(t, f) = [i \in 1..(Len(q) - 1) |-> f[t[i]]]
    BY <1>1 DEF Contents
  <1>7. \A i \in 1..(Len(q) - 1) : f[t[i]] = Tail(c)[i]
    <2>1. \A i \in 1..(Len(q) - 1) : i + 1 \in 1..Len(q)
      BY <1>1
    <2>. QED
      BY <1>1, <1>3, <1>5, <2>1
  <1>8. Contents(t, f) = Tail(c)
    BY <1>5, <1>6, <1>7
  <1>. QED
    BY <1>4, <1>8 DEF c

BoxNow == Contents(queue, fields)

\* Steps that change neither the queued messages nor the one in hand.
LEMMA BoxStutters ==
    ASSUME ObjectsInv, UNCHANGED <<queue, current>>,
           pc[Writer] \in InHand <=> pc'[Writer] \in InHand,
           \A o \in (Elements(queue) \cup {current}) \ {None} : fields'[o] = fields[o]
    PROVE  UNCHANGED <<BoxNow, Out>>
  <1>1. None \notin Elements(queue)
    BY ElementsType, ConstantsAssumption DEF ObjectsInv, TypeOK
  <1>2. BoxNow' = BoxNow
    BY <1>1, ContentsSame DEF BoxNow
  <1>3. pc[Writer] \in InHand => current # None
    BY DEF InHand, ObjectsInv, Holders
  <1>. QED
    BY <1>2, <1>3 DEF Out

LEMMA BoxPost ==
    ASSUME ObjectsInv, NEW t \in Threads, Add(t)
    PROVE  (\E m \in Message : BoxNow' = Append(BoxNow, m)) /\ Out' = Out
  <1>1. /\ hand[t] \in Objects /\ queue \in Seq(Objects) /\ queue' = Append(queue, hand[t])
        /\ fields \in [Objects -> Message] /\ fields' = fields /\ current' = current
        /\ pc' = [pc EXCEPT ![t] = "try"] /\ pc \in [Threads -> Labels] /\ pc[t] = "add"
        /\ Writer \in Threads
    BY DEF Add, Goto, ObjectsInv, TypeOK, Holders, Threads
  <1>2. BoxNow' = Append(BoxNow, fields[hand[t]])
    BY <1>1, ContentsAppend DEF BoxNow
  <1>3. Out' = Out
    BY <1>1 DEF Out, InHand
  <1>. QED
    BY <1>1, <1>2, <1>3

LEMMA BoxTake ==
    ASSUME ObjectsInv, WriterRun, queue # <<>>
    PROVE  /\ BoxNow # <<>> /\ Out = None
           /\ Out' = Head(BoxNow) /\ BoxNow' = Tail(BoxNow)
  <1>1. /\ queue \in Seq(Objects) /\ queue' = Tail(queue) /\ current' = Head(queue)
        /\ fields' = fields /\ pc[Writer] = "run" /\ pc'[Writer] = "handle"
    BY DEF WriterRun, Goto, ObjectsInv, TypeOK, Threads, poolVars
  <1>. QED
    BY <1>1, ContentsTail DEF BoxNow, Out, InHand

LEMMA BoxDone ==
    ASSUME ObjectsInv, WriterThrows \/ WriterUnlinked \/ WriterReset
    PROVE  Out' = None /\ BoxNow' = BoxNow
  <1>1. /\ pc'[Writer] \in {"run", "obtain", "recycle"} /\ queue' = queue
        /\ pc[Writer] \in InHand
    BY DEF WriterThrows, WriterUnlinked, WriterReset, Goto, ObjectsInv, TypeOK, Threads,
       InHand
  <1>2. \A o \in Elements(queue) : fields'[o] = fields[o]
    <2>1. CASE WriterThrows \/ WriterUnlinked
      BY <2>1 DEF WriterThrows, WriterUnlinked, poolVars
    <2>2. CASE WriterReset
      <3>1. current \notin Elements(queue) /\ Elements(queue) \subseteq Objects
        BY ElementsType DEF ObjectsInv, TypeOK, NoAliasing
      <3>. QED
        BY <2>2, <3>1 DEF WriterReset, ObjectsInv, TypeOK
    <2>. QED
      BY <2>1, <2>2
  <1>. QED
    BY <1>1, <1>2, ContentsSame DEF BoxNow, Out, InHand

LEMMA BoxOtherwise ==
    ASSUME ObjectsInv,
           \/ InitThread \/ InitLibrary \/ WriterSpurious
           \/ \E t \in Posters : Request(t) \/ Blocked(t) \/ ParkTimeout(t)
           \/ \E t \in Threads : TryLock(t) \/ Unlock(t) \/ Obtain(t) \/ Fill(t)
           \/ WriterRun /\ queue = <<>>
           \/ WriterTryLock \/ WriterAwait \/ WriterRelock \/ WriterUnlock
           \/ WriterHandle \/ WriterCallback \/ WriterRecycle
           \/ UNCHANGED vars
    PROVE  UNCHANGED <<BoxNow, Out>>
  <1>. USE DEF ObjectsInv, InHand
  <1>0. /\ pc \in [Threads -> Labels] /\ fields \in [Objects -> Message]
        /\ Writer \in Threads /\ Posters \subseteq Threads /\ Writer \notin Posters
        /\ None \notin Objects /\ current \in Objects \cup {None}
        /\ Elements(queue) \subseteq Objects
    BY ConstantsAssumption, ElementsType DEF TypeOK, Threads
  <1>1. ASSUME NEW t \in Threads, Obtain(t) PROVE UNCHANGED <<BoxNow, Out>>
    <2>1. /\ UNCHANGED <<queue, current>> /\ pc[t] = "obtain" /\ pc' = [pc EXCEPT ![t] = "fill"]
      BY <1>1 DEF Obtain, Goto
    <2>2. ASSUME NEW new \in Free, fields' = [fields EXCEPT ![new] = Blank]
          PROVE  \A o \in (Elements(queue) \cup {current}) \ {None} : fields'[o] = fields[o]
      BY <1>0, <2>2 DEF Free
    <2>3. \A o \in (Elements(queue) \cup {current}) \ {None} : fields'[o] = fields[o]
      BY <1>1, <2>2, ObtainTakes
    <2>. QED
      BY <1>0, <2>1, <2>3, BoxStutters
  <1>2. ASSUME NEW t \in Threads, Fill(t) PROVE UNCHANGED <<BoxNow, Out>>
    <2>1. /\ UNCHANGED <<queue, current>> /\ pc[t] = "fill" /\ pc' = [pc EXCEPT ![t] = "add"]
          /\ \A o \in Objects \ {hand[t]} : fields'[o] = fields[o]
      BY <1>0, <1>2 DEF Fill, Goto
    <2>2. hand[t] \notin Elements(queue) \cup {current}
      BY <2>1 DEF Holders, NoAliasing
    <2>. QED
      BY <1>0, <2>1, <2>2, BoxStutters
  <1>3. CASE WriterRecycle
    <2>1. /\ UNCHANGED <<queue, fields>> /\ pc[Writer] = "recycle" /\ pc'[Writer] = "run"
      BY <1>0, <1>3 DEF WriterRecycle, Goto
    <2>. QED
      BY <2>1 DEF BoxNow, Out
  <1>. QED
    BY <1>1, <1>2, <1>3, CalmActions, BoxStutters

\* The messages are handled one at a time, in the order they were posted, each
\* as it was posted: the pool, the lock and the condition implement the mailbox.
THEOREM FileWriterIsMailbox == Spec => ImplementsMailbox
  <1>1. Init => Box!Init
    BY DEF Init, Box!Init, Threads
  <1>2. ASSUME ObjectsInv, [Next]_vars
        PROVE  [Box!Next]_<<BoxNow, Out>>
    <2>1. ASSUME NEW t \in Threads, Add(t) PROVE Box!Post
      BY <1>2, <2>1, BoxPost DEF Box!Post, BoxNow, Contents, Out, InHand
    <2>2. ASSUME WriterRun, queue # <<>> PROVE Box!Take
      BY <1>2, <2>2, BoxTake DEF Box!Take, BoxNow, Contents, Out, InHand
    <2>3. ASSUME WriterThrows \/ WriterUnlinked \/ WriterReset PROVE Box!Done
      BY <1>2, <2>3, BoxDone DEF Box!Done, BoxNow, Contents, Out, InHand
    <2>4. WriterRun => queue = <<>> \/ queue # <<>>
      OBVIOUS
    <2>. QED
      BY <1>2, <2>1, <2>2, <2>3, <2>4, BoxOtherwise
      DEF Next, Post, WriterStep, Box!Next
  <1>. QED
    BY <1>1, <1>2, ObjectsInvariant, PTL
    DEF Spec, ImplementsMailbox, Box!Spec, BoxNow, Contents, Out, InHand
=============================================================================
