---------------------------- MODULE SessionProofs ----------------------------
(* Theorems about Session, for any threads, any levels and sizes, any      *)
(* number of calls, failures and deaths of the process.                    *)
EXTENDS Session, SequenceTheorems, TLAPS

-----------------------------------------------------------------------------
(* The block and the map.                                                  *)

Opening == {"exists", "create", "size", "map", "mapnew", "alloc", "mapped", "heap"}

\* Where an open may be, and what it has made of the file and the map: only an
\* open under way may have a map without a buffer on it, and it goes on with the
\* map exactly when the map is whole and without an error.
MapInv ==
    /\ at \in Opening \cup {"idle", "level"}
    /\ at \in Opening => closed
    /\ at = "level" => ~closed
    /\ closed <=> buf = "none"
    /\ is_open => ~closed \/ at \in {"alloc", "mapped", "heap"}
    /\ at \in {"alloc", "mapped"} => IsMmapFileOpenSucc
    /\ at = "heap" => ~IsMmapFileOpenSucc
    /\ at = "map" => file # "none"
    /\ at \in {"mapnew", "alloc"} => file = "sized"
    /\ at = "mapped" => file \in {"sized", "backed"}
    /\ BufferMatchesMap

MapType ==
    /\ map \in [handle : BOOLEAN, data : BOOLEAN, error : BOOLEAN]
    /\ file \in {"none", "empty", "sized", "backed"}
    /\ closed \in BOOLEAN /\ buf \in {"none", "mapped", "heap"}

LEMMA MapInit == Init => MapType /\ MapInv
  BY DEF Init, MapType, MapInv, BufferMatchesMap, IsMmapFileOpenSucc, is_open, NoMap,
     Opening

\* Steps that touch neither the appender, its open nor the file.
LEMMA MapUntouched ==
    ASSUME MapType, MapInv, UNCHANGED <<at, closed, buf, map, file>>
    PROVE  (MapType /\ MapInv)'
  BY DEF MapType, MapInv, BufferMatchesMap, IsMmapFileOpenSucc, is_open

LEMMA MapThreadStep ==
    ASSUME MapType, MapInv, NEW t \in Threads, ThreadStep(t)
    PROVE  (MapType /\ MapInv)'
  <1>1. UNCHANGED <<open, disk>>
    BY DEF ThreadStep, Set, Check, Log, Apply, StartWriter, LoadLibrary, Read, PostSetting,
       CloseLog, OpenLog
  <1>. QED
    BY <1>1, MapUntouched DEF open, disk

\* The steps of an open, from the one call to the next.
LEMMA MapOpenStep ==
    ASSUME MapType, MapInv,
           \/ Open \/ MmapExists \/ CreateFile \/ SizeFile \/ MapFile \/ AllocFile
           \/ Attach \/ OpenLevel
    PROVE  (MapType /\ MapInv)'
  <1>. USE DEF MapType, MapInv, BufferMatchesMap, IsMmapFileOpenSucc, is_open, NoMap,
       Cleared, Unmapped, Opening
  <1>1. CASE Open
    BY <1>1 DEF Open, Takes, disk
  <1>2. CASE MmapExists
    BY <1>2 DEF MmapExists, disk
  <1>3. CASE CreateFile
    BY <1>3 DEF CreateFile
  <1>4. CASE SizeFile
    BY <1>4 DEF SizeFile
  <1>5. CASE MapFile
    BY <1>5 DEF MapFile, disk
  <1>6. CASE AllocFile
    BY <1>6 DEF AllocFile
  <1>7. CASE Attach
    BY <1>7 DEF Attach
  <1>8. CASE OpenLevel
    BY <1>8 DEF OpenLevel, disk
  <1>. QED
    BY <1>1, <1>2, <1>3, <1>4, <1>5, <1>6, <1>7, <1>8

LEMMA MapStep == MapType /\ MapInv /\ [Next]_vars => (MapType /\ MapInv)'
  <1>. SUFFICES ASSUME MapType, MapInv, [Next]_vars PROVE (MapType /\ MapInv)'
    OBVIOUS
  <1>1. CASE NoLibrary \/ Write \/ SetNative \/ Flush
    <2>1. UNCHANGED <<at, closed, buf, map, file>>
      BY <1>1 DEF NoLibrary, Write, SetNative, Flush, open, disk
    <2>. QED
      BY <2>1, MapUntouched
  <1>2. CASE Close
    BY <1>2 DEF Close, Takes, MapType, MapInv, BufferMatchesMap, IsMmapFileOpenSucc,
       is_open, NoMap, Cleared, Unmapped, Opening
  <1>3. CASE Crash
    BY <1>3 DEF Crash, MapType, MapInv, BufferMatchesMap, IsMmapFileOpenSucc, is_open,
       NoMap, Opening
  <1>4. CASE UNCHANGED vars
    BY <1>4, MapUntouched DEF vars, open, disk
  <1>. QED
    BY <1>1, <1>2, <1>3, <1>4, MapThreadStep, MapOpenStep DEF Next, WriterStep

\* appender_close can tell by the map alone whether the block under sg_log_buff
\* is the map's or the heap's, and a block is mapped only on a file of its size,
\* whatever failed in this or an earlier process.
THEOREM BufferAlwaysMatchesMap == Spec => []BufferMatchesMap
  <1>1. MapInv => BufferMatchesMap
    BY DEF MapInv
  <1>. QED
    BY <1>1, MapInit, MapStep, PTL DEF Spec

\* The open that maps the block has read it.
ReadInv == LeftoversSurvive /\ (buf = "mapped" => block # "leftover")

LEMMA ReadStep == MapType /\ MapInv /\ ReadInv /\ [Next]_vars => ReadInv'
  <1>. SUFFICES ASSUME MapType, MapInv, ReadInv, [Next]_vars PROVE ReadInv'
    OBVIOUS
  <1>. USE DEF ReadInv, LeftoversSurvive
  <1>1. ASSUME NEW t \in Threads, ThreadStep(t) PROVE ReadInv'
    <2>1. UNCHANGED <<open, disk>>
      BY <1>1 DEF ThreadStep, Set, Check, Log, Apply, StartWriter, LoadLibrary, Read,
         PostSetting, CloseLog, OpenLog
    <2>. QED
      BY <2>1 DEF open, disk
  <1>2. CASE Write \/ Flush
    BY <1>2 DEF Write, Flush, open
  <1>3. CASE NoLibrary \/ SetNative \/ Open \/ OpenLevel
    BY <1>3 DEF NoLibrary, SetNative, Open, OpenLevel, open, disk
  <1>4. CASE MmapExists \/ CreateFile \/ SizeFile \/ MapFile \/ AllocFile
    <2>1. buf' = buf /\ wiped' = wiped /\ block' \in {block, "clean"}
      BY <1>4 DEF MmapExists, CreateFile, SizeFile, MapFile, AllocFile, disk
    <2>. QED
      BY <2>1
  <1>5. CASE Attach
    BY <1>5 DEF Attach
  <1>6. CASE Close
    <2>1. ~closed /\ IsMmapFileOpenSucc => buf = "mapped"
      BY DEF MapType, MapInv, BufferMatchesMap
    <2>. QED
      BY <1>6, <2>1 DEF Close
  <1>7. CASE Crash
    BY <1>7 DEF Crash
  <1>8. CASE UNCHANGED vars
    BY <1>8 DEF vars, open, disk
  <1>. QED
    BY <1>1, <1>2, <1>3, <1>4, <1>5, <1>6, <1>7, <1>8 DEF Next, WriterStep

\* What a dead process left in the mmap file is read before anything zeroes it,
\* after any number of failed opens and of sessions on the heap.
THEOREM LeftoversAlwaysSurvive == Spec => []LeftoversSurvive
  <1>1. Init => ReadInv
    BY DEF Init, ReadInv, LeftoversSurvive
  <1>2. ReadInv => LeftoversSurvive
    BY DEF ReadInv
  <1>. QED
    BY <1>1, <1>2, MapInit, MapStep, ReadStep, PTL DEF Spec

-----------------------------------------------------------------------------
(* The settings on their way.                                              *)

Keys == {"level", "size"}
Values == Levels \cup FileSizes \cup {0, Verbose, Info}
Whats == Keys \cup {"open", "close", "write"}
Messages == [what : Whats, value : Values]

\* The messages that set this key: an open sets the level again.
For(k) == IF k = "level" THEN {"level", "open"} ELSE {"size"}

\* The lists of settings a thread may have before it.
KeyLists == {<<"level">>, <<"size">>, <<"open">>, <<"size", "open">>,
             <<"level", "size", "open">>}
First(t) == Head(job[t].keys)
Later(t) == {job[t].keys[i] : i \in DOMAIN job[t].keys}
Rest(t) == {job[t].keys[i] : i \in DOMAIN job[t].keys \ {1}}

\* Thread t is going to post the value it has for this key.
Holds(t, k) == pc[t] \in {"check", "post"} /\ First(t) \in For(k)

\* Thread t is going to read the key's field, and to post what it reads.
WillRead(t, k) ==
    \/ pc[t] \in {"init", "load"}
    \/ pc[t] = "read" /\ Later(t) \cap For(k) # {}
    \/ pc[t] = "post" /\ Rest(t) \cap For(k) # {}

\* The last message of q that sets this key sets it to one of vs; no message
\* sets it.
LastOf(q, k, vs) ==
    \E i \in DOMAIN q :
        /\ q[i].what \in For(k) /\ q[i].value \in vs
        /\ \A j \in DOMAIN q : j > i => q[j].what \notin For(k)
NoneOf(q, k) == \A i \in DOMAIN q : q[i].what \notin For(k)

\* What the native side has, or is about to have when an open is under way.
Arriving(k) == IF k = "level" /\ at # "idle" THEN asked.value ELSE native[k]

\* One of the values that are meant is with a thread, the last one in the queue,
\* or there.
OnItsWay(k) ==
    \/ \E t \in Threads : Holds(t, k) \/ WillRead(t, k)
    \/ LastOf(queue, k, meant[k])
    \/ NoneOf(queue, k) /\ Arriving(k) \in meant[k]

SettingsType ==
    /\ conf \in [Keys -> Values] /\ native \in [Keys -> Values]
    /\ consume \in BOOLEAN /\ inited \in BOOLEAN /\ lib \in BOOLEAN
    /\ meant \in [Keys -> SUBSET Values]
    /\ queue \in Seq(Messages)
    /\ pc \in [Threads -> {"idle", "check", "init", "load", "read", "post"}]
    /\ job \in [Threads -> [keys : KeyLists \cup {<<>>}, value : Values]]
    /\ \A t \in Threads : pc[t] \in {"check", "read", "post"} => job[t].keys \in KeyLists
    /\ \A t \in Threads : pc[t] = "check" => job[t].keys \in {<<"level">>, <<"size">>}
    /\ asked \in Messages \cup {Nothing}
    /\ at # "idle" => asked \in Messages

\* Until the library is tried, nobody's setting reaches the queue, and the
\* thread in apply is going to read them all.
StartInv ==
    /\ ~consume => ~inited /\ \A t \in Threads : pc[t] \in {"idle", "check"}
    /\ consume /\ ~inited => \E t \in Threads : pc[t] \in {"init", "load"}
    /\ ~inited => \A k \in Keys : NoneOf(queue, k)

SettingsInv ==
    /\ \A k \in Keys : conf[k] \in meant[k]
    /\ \A k \in Keys, t \in Threads : Holds(t, k) => job[t].value \in meant[k]
    /\ consume /\ (lib \/ ~inited) => \A k \in Keys : OnItsWay(k)

ConfigInv == SettingsType /\ StartInv /\ SettingsInv

-----------------------------------------------------------------------------
(* Facts about the lists and the queue.                                    *)

LEMMA KeyListFacts ==
    ASSUME NEW l \in KeyLists
    PROVE  /\ 1 \in DOMAIN l /\ Head(l) = l[1] /\ l # <<>>
           /\ Head(l) \in {"level", "size", "open"}
           /\ Tail(l) \in KeyLists \cup {<<>>}
           /\ {l[i] : i \in DOMAIN l \ {1}} = {Tail(l)[i] : i \in DOMAIN Tail(l)}
           /\ {l[i] : i \in DOMAIN l} = {Head(l)} \cup {l[i] : i \in DOMAIN l \ {1}}
  <1>1. CASE l \in {<<"level">>, <<"size">>, <<"open">>}
    <2>1. PICK x \in {"level", "size", "open"} : l = <<x>>
      BY <1>1
    <2>2. DOMAIN l = {1} /\ Tail(l) = <<>> /\ Head(l) = x /\ l[1] = x
      BY <2>1
    <2>3. DOMAIN Tail(l) = {} /\ DOMAIN l \ {1} = {}
      BY <2>2
    <2>4. {l[i] : i \in DOMAIN l \ {1}} = {} /\ {Tail(l)[i] : i \in DOMAIN Tail(l)} = {}
      BY <2>3
    <2>. QED
      BY <2>1, <2>2, <2>4
  <1>2. CASE l = <<"size", "open">>
    <2>1. Tail(l) = <<"open">> /\ DOMAIN l = {1, 2} /\ Head(l) = l[1]
      BY <1>2
    <2>2. DOMAIN Tail(l) = {1} /\ Tail(l)[1] = "open" /\ l[2] = "open" /\ l[1] = "size"
      BY <1>2, <2>1
    <2>. QED
      BY <1>2, <2>1, <2>2 DEF KeyLists
  <1>3. CASE l = <<"level", "size", "open">>
    <2>1. Tail(l) = <<"size", "open">> /\ DOMAIN l = {1, 2, 3} /\ Head(l) = l[1]
      BY <1>3
    <2>2. /\ DOMAIN Tail(l) = {1, 2} /\ Tail(l)[1] = "size" /\ Tail(l)[2] = "open"
          /\ l[1] = "level" /\ l[2] = "size" /\ l[3] = "open"
      BY <1>3, <2>1
    <2>. QED
      BY <1>3, <2>1, <2>2 DEF KeyLists
  <1>. QED
    BY <1>1, <1>2, <1>3 DEF KeyLists

LEMMA SettingFor ==
    \A x \in {"level", "size", "open"}, k \in Keys : Setting(x) = k <=> x \in For(k)
  BY DEF Setting, For, Keys

LEMMA QueueAppend ==
    ASSUME NEW q \in Seq(Messages), NEW m \in Messages, NEW k \in Keys, NEW vs
    PROVE  /\ Append(q, m) \in Seq(Messages)
           /\ m.what \in For(k) /\ m.value \in vs => LastOf(Append(q, m), k, vs)
           /\ m.what \notin For(k) =>
                /\ NoneOf(q, k) => NoneOf(Append(q, m), k)
                /\ LastOf(q, k, vs) => LastOf(Append(q, m), k, vs)
  <1>1. /\ Append(q, m) \in Seq(Messages) /\ Len(q) \in Nat
        /\ DOMAIN q = 1..Len(q) /\ DOMAIN Append(q, m) = 1..(Len(q) + 1)
        /\ (\A i \in 1..Len(q) : Append(q, m)[i] = q[i])
        /\ Append(q, m)[Len(q) + 1] = m
    BY AppendProperties, LenProperties
  <1>2. ASSUME m.what \in For(k), m.value \in vs PROVE LastOf(Append(q, m), k, vs)
    BY <1>1, <1>2 DEF LastOf
  <1>3. ASSUME m.what \notin For(k), NoneOf(q, k) PROVE NoneOf(Append(q, m), k)
    BY <1>1, <1>3 DEF NoneOf
  <1>4. ASSUME m.what \notin For(k), LastOf(q, k, vs) PROVE LastOf(Append(q, m), k, vs)
    BY <1>1, <1>4 DEF LastOf
  <1>. QED
    BY <1>1, <1>2, <1>3, <1>4

LEMMA QueueTail ==
    ASSUME NEW q \in Seq(Messages), q # <<>>, NEW k \in Keys, NEW vs
    PROVE  /\ Head(q) \in Messages /\ Tail(q) \in Seq(Messages)
           /\ NoneOf(q, k) => Head(q).what \notin For(k) /\ NoneOf(Tail(q), k)
           /\ LastOf(q, k, vs) =>
                \/ LastOf(Tail(q), k, vs)
                \/ Head(q).what \in For(k) /\ Head(q).value \in vs /\ NoneOf(Tail(q), k)
  <1>1. /\ Head(q) \in Messages /\ Tail(q) \in Seq(Messages) /\ Len(q) \in Nat
        /\ Len(q) >= 1 /\ Head(q) = q[1]
        /\ DOMAIN q = 1..Len(q) /\ DOMAIN Tail(q) = 1..(Len(q) - 1)
        /\ \A i \in 1..(Len(q) - 1) : Tail(q)[i] = q[i + 1]
    BY HeadTailProperties, LenProperties, EmptySeq
  <1>2. NoneOf(q, k) => Head(q).what \notin For(k) /\ NoneOf(Tail(q), k)
    BY <1>1 DEF NoneOf
  <1>3. ASSUME LastOf(q, k, vs)
        PROVE  \/ LastOf(Tail(q), k, vs)
               \/ Head(q).what \in For(k) /\ Head(q).value \in vs /\ NoneOf(Tail(q), k)
    <2>1. PICK i \in DOMAIN q : /\ q[i].what \in For(k) /\ q[i].value \in vs
                                /\ \A j \in DOMAIN q : j > i => q[j].what \notin For(k)
      BY <1>3 DEF LastOf
    <2>2. CASE i = 1
      <3>1. \A j \in DOMAIN Tail(q) : j + 1 \in DOMAIN q /\ j + 1 > i
        BY <1>1, <2>2
      <3>2. NoneOf(Tail(q), k)
        BY <1>1, <2>1, <3>1 DEF NoneOf
      <3>. QED
        BY <1>1, <2>1, <2>2, <3>2
    <2>3. CASE i # 1
      <3>1. i - 1 \in DOMAIN Tail(q) /\ Tail(q)[i - 1] = q[i]
        BY <1>1, <2>3
      <3>2. \A j \in DOMAIN Tail(q) : j > i - 1 => /\ j + 1 \in DOMAIN q /\ j + 1 > i
                                                   /\ Tail(q)[j] = q[j + 1]
        BY <1>1, <2>3
      <3>. QED
        BY <2>1, <3>1, <3>2 DEF LastOf
    <2>. QED
      BY <2>2, <2>3
  <1>. QED
    BY <1>1, <1>2, <1>3

-----------------------------------------------------------------------------
(* The steps keep the settings on their way.                               *)

LEMMA ValueFacts ==
    /\ Levels \subseteq Values /\ FileSizes \subseteq Values
    /\ 0 \in Values /\ Verbose \in Values /\ Info \in Values
  BY DEF Values

LEMMA EmptyQueue == <<>> \in Seq(Messages) /\ \A k \in Keys : NoneOf(<<>>, k)
  BY EmptySeq DEF NoneOf

\* A process has just started.
Started ==
    /\ conf = Fresh.conf /\ native = Fresh.native /\ pc = Fresh.pc /\ job = Fresh.job
    /\ ~consume /\ ~lib /\ ~inited
    /\ consume \in BOOLEAN /\ lib \in BOOLEAN /\ inited \in BOOLEAN /\ meant = Fresh.meant
    /\ queue = <<>> /\ at = "idle" /\ asked = Nothing

LEMMA StartedConfig == Started => ConfigInv
  <1>. SUFFICES ASSUME Started PROVE ConfigInv
    OBVIOUS
  <1>. USE DEF Started
  <1>1. conf \in [Keys -> Values] /\ native \in [Keys -> Values]
    BY ValueFacts DEF Fresh, Keys
  <1>meant. /\ meant \in [Keys -> SUBSET Values]
        /\ \A k \in Keys : conf[k] = 0 /\ meant[k] = {0}
    <2>1. meant = [level |-> {0}, size |-> {0}] /\ conf = [level |-> 0, size |-> 0]
      BY DEF Fresh
    <2>2. {0} \in SUBSET Values
      BY ValueFacts
    <2>. QED
      BY <2>1, <2>2 DEF Keys
  <1>2. /\ pc = [t \in Threads |-> "idle"]
        /\ job = [t \in Threads |-> [keys |-> <<>>, value |-> 0]]
    BY DEF Fresh, NoJob
  <1>3. SettingsType
    <2>1. job \in [Threads -> [keys : KeyLists \cup {<<>>}, value : Values]]
      <3>1. [keys |-> <<>>, value |-> 0] \in [keys : KeyLists \cup {<<>>}, value : Values]
        BY ValueFacts
      <3>. QED
        BY <1>2, <3>1
    <2>2. \A t \in Threads : pc[t] = "idle"
      BY <1>2
    <2>3. pc \in [Threads -> {"idle", "check", "init", "load", "read", "post"}]
      BY <1>2
    <2>4. queue \in Seq(Messages)
      BY EmptyQueue
    <2>. QED
      BY <1>1, <1>meant, <2>1, <2>2, <2>3, <2>4 DEF SettingsType
  <1>4. StartInv
    BY <1>2, EmptyQueue DEF StartInv
  <1>5. SettingsInv
    BY <1>2, <1>meant DEF SettingsInv, Holds
  <1>. QED
    BY <1>3, <1>4, <1>5 DEF ConfigInv

LEMMA RestartedConfig == Started' => ConfigInv'
  BY StartedConfig, PTL

LEMMA ConfigInit == Init => ConfigInv
  BY StartedConfig DEF Init, Started

\* What a step of thread t has to do for key k.
LEMMA StaysOnItsWay ==
    ASSUME SettingsType, NEW t \in Threads, NEW k \in Keys, OnItsWay(k),
           UNCHANGED <<native, at, asked>>, meant'[k] = meant[k],
           \A u \in Threads \ {t} : pc'[u] = pc[u] /\ job'[u] = job[u],
           \/ /\ queue' = queue
              /\ Holds(t, k) \/ WillRead(t, k) => (Holds(t, k) \/ WillRead(t, k))'
           \/ \E m \in Messages :
                /\ queue' = Append(queue, m)
                /\ \/ m.what \in For(k) /\ m.value \in meant[k]
                   \/ /\ m.what \notin For(k)
                      /\ Holds(t, k) \/ WillRead(t, k) => (Holds(t, k) \/ WillRead(t, k))'
    PROVE  OnItsWay(k)'
  <1>0. queue \in Seq(Messages)
    BY DEF SettingsType
  <1>1. \A u \in Threads \ {t} : Holds(u, k) \/ WillRead(u, k) => (Holds(u, k) \/ WillRead(u, k))'
    BY DEF Holds, WillRead, First, Later, Rest
  <1>2. CASE /\ queue' = queue
             /\ Holds(t, k) \/ WillRead(t, k) => (Holds(t, k) \/ WillRead(t, k))'
    BY <1>1, <1>2 DEF OnItsWay, Arriving
  <1>3. ASSUME NEW m \in Messages, queue' = Append(queue, m),
               m.what \in For(k), m.value \in meant[k]
        PROVE  OnItsWay(k)'
    <2>1. LastOf(Append(queue, m), k, meant[k])
      BY <1>0, <1>3, QueueAppend
    <2>. QED
      BY <1>3, <2>1 DEF OnItsWay
  <1>4. ASSUME NEW m \in Messages, queue' = Append(queue, m), m.what \notin For(k),
               Holds(t, k) \/ WillRead(t, k) => (Holds(t, k) \/ WillRead(t, k))'
        PROVE  OnItsWay(k)'
    <2>1. /\ NoneOf(queue, k) => NoneOf(Append(queue, m), k)
          /\ LastOf(queue, k, meant[k]) => LastOf(Append(queue, m), k, meant[k])
      BY <1>0, <1>4, QueueAppend
    <2>. QED
      BY <1>1, <1>4, <2>1 DEF OnItsWay, Arriving
  <1>. QED
    BY <1>2, <1>3, <1>4

\* A call that posts a message which sets nothing, or none, and leaves every
\* thread's settings as they are.
LEMMA PostsNoSetting ==
    ASSUME ConfigInv, NEW what \in {"write", "close"}, NEW value \in Values,
           Post(Msg(what, value)) \/ queue' = queue,
           UNCHANGED <<conf, consume, lib, inited, pc, job, native, meant, at, asked>>
    PROVE  ConfigInv'
  <1>. USE DEF ConfigInv
  <1>1. Msg(what, value) \in Messages /\ \A k \in Keys : Msg(what, value).what \notin For(k)
    BY DEF Msg, Messages, Whats, For, Keys
  <1>2. queue \in Seq(Messages)
    BY DEF SettingsType
  <1>3. queue' \in Seq(Messages)
    BY <1>1, <1>2, AppendProperties DEF Post
  <1>4. SettingsType'
    BY <1>3 DEF SettingsType
  <1>5. StartInv'
    <2>1. \A k \in Keys : NoneOf(queue, k) => NoneOf(queue', k)
      BY <1>1, <1>2, QueueAppend DEF Post
    <2>. QED
      BY <2>1 DEF StartInv
  <1>6. SettingsInv'
    <2>1. \A k \in Keys, t \in Threads : Holds(t, k)' => job'[t].value \in meant'[k]
      BY DEF SettingsInv, Holds, First
    <2>2. \A k \in Keys : OnItsWay(k) => OnItsWay(k)'
      <3>. SUFFICES ASSUME NEW k \in Keys, OnItsWay(k) PROVE OnItsWay(k)'
        OBVIOUS
      <3>1. /\ NoneOf(queue, k) => NoneOf(queue', k)
            /\ LastOf(queue, k, meant[k]) => LastOf(queue', k, meant[k])
        BY <1>1, <1>2, QueueAppend DEF Post
      <3>. QED
        BY <3>1 DEF OnItsWay, Arriving, Holds, WillRead, First, Later, Rest
    <2>. QED
      BY <2>1, <2>2 DEF SettingsInv
  <1>. QED
    BY <1>4, <1>5, <1>6

\* logLevel and singleLogMaxSize: the value is with the thread.
LEMMA SetSettings ==
    ASSUME ConfigInv, NEW t \in Threads, NEW key \in Keys, NEW value \in Values,
           Set(t, key, value)
    PROVE  ConfigInv'
  <1>. USE DEF ConfigInv
  <1>0. /\ pc[t] = "idle" /\ pc' = [pc EXCEPT ![t] = "check"]
        /\ job' = [job EXCEPT ![t] = [keys |-> <<key>>, value |-> value]]
        /\ conf' = [conf EXCEPT ![key] = value]
        /\ meant' = [meant EXCEPT ![key] =
                      {value} \cup (IF Contended(t, key) THEN meant[key] ELSE {})]
        /\ UNCHANGED <<consume, lib, inited, queue, native, at, asked>>
    BY DEF Set, Call, Goto, open
  <1>1. /\ pc \in [Threads -> {"idle", "check", "init", "load", "read", "post"}]
        /\ job \in [Threads -> [keys : KeyLists \cup {<<>>}, value : Values]]
        /\ conf \in [Keys -> Values] /\ meant \in [Keys -> SUBSET Values]
    BY DEF SettingsType
  <1>2. <<key>> \in {<<"level">>, <<"size">>} /\ <<key>> \in KeyLists /\ Head(<<key>>) = key
    BY DEF Keys, KeyLists
  <1>3. /\ pc'[t] = "check" /\ job'[t].keys = <<key>> /\ job'[t].value = value
        /\ \A u \in Threads \ {t} : pc'[u] = pc[u] /\ job'[u] = job[u]
    BY <1>0, <1>1
  <1>4. SettingsType'
    <2>0. meant[key] \in SUBSET Values
      BY <1>1
    <2>1. conf' \in [Keys -> Values] /\ meant' \in [Keys -> SUBSET Values]
      BY <1>0, <1>1, <2>0
    <2>2. pc' \in [Threads -> {"idle", "check", "init", "load", "read", "post"}]
      BY <1>0, <1>1
    <2>3. job' \in [Threads -> [keys : KeyLists \cup {<<>>}, value : Values]]
      BY <1>0, <1>1, <1>2
    <2>4. /\ \A u \in Threads : pc'[u] \in {"check", "read", "post"} => job'[u].keys \in KeyLists
          /\ \A u \in Threads : pc'[u] = "check" => job'[u].keys \in {<<"level">>, <<"size">>}
      BY <1>2, <1>3 DEF SettingsType
    <2>. QED
      BY <1>0, <2>1, <2>2, <2>3, <2>4 DEF SettingsType
  <1>5. StartInv'
    BY <1>0, <1>3 DEF StartInv
  <1>6. /\ value \in meant'[key] /\ conf'[key] = value
        /\ \A k \in Keys \ {key} : conf'[k] = conf[k] /\ meant'[k] = meant[k]
    BY <1>0, <1>1
  <1>7. \A k \in Keys : conf'[k] \in meant'[k]
    BY <1>6 DEF SettingsInv
  <1>8. ASSUME NEW k \in Keys, NEW u \in Threads, Holds(u, k)'
        PROVE  job'[u].value \in meant'[k]
    <2>1. CASE u = t
      <3>1. key \in For(k)
        BY <1>2, <1>3, <1>8, <2>1 DEF Holds, First
      <3>2. k = key
        BY <3>1 DEF For, Keys
      <3>. QED
        BY <1>3, <1>6, <2>1, <3>2
    <2>2. CASE u # t
      <3>1. Holds(u, k)
        BY <1>3, <1>8, <2>2 DEF Holds, First
      <3>2. job'[u].value \in meant[k]
        BY <1>3, <2>2, <3>1 DEF SettingsInv
      <3>3. CASE k = key
        <4>1. First(u) \in {"level", "size", "open"}
          BY <3>1, KeyListFacts DEF Holds, SettingsType, First
        <4>2. Setting(First(u)) = key
          BY <3>1, <3>3, <4>1, SettingFor DEF Holds
        <4>3. Contended(t, key)
          BY <2>2, <3>1, <4>2 DEF Contended, Holds, First
        <4>4. meant[key] \subseteq meant'[key]
          BY <1>0, <1>1, <4>3
        <4>. QED
          BY <3>2, <3>3, <4>4
      <3>. QED
        BY <1>6, <3>2, <3>3
    <2>. QED
      BY <2>1, <2>2
  <1>9. ASSUME consume', (lib \/ ~inited)', NEW k \in Keys PROVE OnItsWay(k)'
    <2>1. OnItsWay(k)
      BY <1>0, <1>9 DEF SettingsInv
    <2>2. CASE k = key
      BY <1>2, <1>3, <2>2 DEF OnItsWay, Holds, First, For, Keys
    <2>3. CASE k # key
      <3>1. ~Holds(t, k) /\ ~WillRead(t, k)
        BY <1>0 DEF Holds, WillRead
      <3>. QED
        BY <1>0, <1>3, <1>6, <2>1, <2>3, <3>1, StaysOnItsWay
    <2>. QED
      BY <2>2, <2>3
  <1>10. SettingsInv'
    BY <1>7, <1>8, <1>9 DEF SettingsInv
  <1>. QED
    BY <1>4, <1>5, <1>10

\* From the first log line of apply to the library, and a call of open: the
\* thread is going to read.
LEMMA ReaderSettings ==
    ASSUME ConfigInv, NEW t \in Threads,
           Apply(t) \/ StartWriter(t) \/ LoadLibrary(t) \/ OpenLog(t),
           LoadOutcomes \subseteq BOOLEAN
    PROVE  ConfigInv'
  <1>. USE DEF ConfigInv
  <1>0. /\ pc \in [Threads -> {"idle", "check", "init", "load", "read", "post"}]
        /\ job \in [Threads -> [keys : KeyLists \cup {<<>>}, value : Values]]
        /\ queue \in Seq(Messages)
    BY DEF SettingsType
  <1>1. ASSUME NEW label \in {"init", "load", "read"}, NEW l \in KeyLists \cup {<<>>},
               Goto(t, label, [keys |-> l, value |-> 0]),
               label = "read" => l \in KeyLists,
               queue' = queue \/ Post(Msg("write", Info)),
               consume' \in BOOLEAN, lib' \in BOOLEAN, inited' \in BOOLEAN,
               StartInv',
               UNCHANGED <<conf, native, meant, at, asked>>,
               consume' /\ (lib \/ ~inited)' =>
                 \A k \in Keys :
                   \/ label \in {"init", "load"}
                   \/ {l[i] : i \in DOMAIN l} \cap For(k) # {}
                   \/ /\ consume /\ (lib \/ ~inited) /\ pc[t] = "idle"
        PROVE  ConfigInv'
    <2>0. /\ pc' = [pc EXCEPT ![t] = label] /\ pc'[t] = label
          /\ job' = [job EXCEPT ![t] = [keys |-> l, value |-> 0]]
          /\ job'[t].keys = l
          /\ \A u \in Threads \ {t} : pc'[u] = pc[u] /\ job'[u] = job[u]
      BY <1>0, <1>1 DEF Goto
    <2>1. SettingsType'
      <3>1. job' \in [Threads -> [keys : KeyLists \cup {<<>>}, value : Values]]
        BY <1>0, <1>1, <2>0, ValueFacts
      <3>2. pc' \in [Threads -> {"idle", "check", "init", "load", "read", "post"}]
        BY <1>0, <1>1, <2>0
      <3>3. /\ \A u \in Threads : pc'[u] \in {"check", "read", "post"} => job'[u].keys \in KeyLists
            /\ \A u \in Threads : pc'[u] = "check" => job'[u].keys \in {<<"level">>, <<"size">>}
        BY <1>1, <2>0 DEF SettingsType
      <3>4. Msg("write", Info) \in Messages
        BY ValueFacts DEF Msg, Messages, Whats
      <3>5. queue' \in Seq(Messages)
        BY <1>0, <1>1, <3>4, AppendProperties DEF Post
      <3>. QED
        BY <1>1, <3>1, <3>2, <3>3, <3>5 DEF SettingsType
    <2>2. SettingsInv'
      <3>1. \A k \in Keys, u \in Threads : Holds(u, k)' => job'[u].value \in meant'[k]
        <4>1. \A k \in Keys, u \in Threads : Holds(u, k)' => u # t /\ Holds(u, k)
          BY <1>1, <2>0 DEF Holds, First
        <4>. QED
          BY <1>1, <2>0, <4>1 DEF SettingsInv
      <3>2. ASSUME consume', (lib \/ ~inited)', NEW k \in Keys PROVE OnItsWay(k)'
        <4>1. CASE label \in {"init", "load"} \/ {l[i] : i \in DOMAIN l} \cap For(k) # {}
          <5>1. label \in {"init", "load"} \/ (label = "read" /\ {l[i] : i \in DOMAIN l} \cap For(k) # {})
            BY <1>1, <4>1
          <5>2. WillRead(t, k)'
            BY <2>0, <5>1 DEF WillRead, Later
          <5>. QED
            BY <5>2 DEF OnItsWay
        <4>2. CASE consume /\ (lib \/ ~inited) /\ pc[t] = "idle"
          <5>1. OnItsWay(k)
            BY <4>2 DEF SettingsInv
          <5>2. ~Holds(t, k) /\ ~WillRead(t, k)
            BY <4>2 DEF Holds, WillRead
          <5>3. Msg("write", Info) \in Messages /\ Msg("write", Info).what \notin For(k)
            BY ValueFacts DEF Msg, Messages, Whats, For
          <5>. QED
            BY <1>1, <2>0, <5>1, <5>2, <5>3, StaysOnItsWay DEF Post
        <4>. QED
          BY <1>1, <3>2, <4>1, <4>2
      <3>. QED
        BY <1>1, <3>1, <3>2 DEF SettingsInv
    <2>. QED
      BY <1>1, <2>1, <2>2
  <1>2. \A k \in Keys : Msg("write", Info) \in Messages /\ Msg("write", Info).what \notin For(k)
    BY ValueFacts DEF Msg, Messages, Whats, For, Keys
  <1>3. CASE Apply(t)
    <2>1. /\ queue' = queue \/ Post(Msg("write", Info))
          /\ consume' = TRUE /\ pc[t] = "idle"
          /\ UNCHANGED <<conf, writer, lib, inited, native, meant, at, asked>>
      BY <1>3 DEF Apply, Call, open
    <2>2. \A k \in Keys : NoneOf(queue, k) => NoneOf(queue', k)
      BY <1>0, <1>2, <2>1, QueueAppend DEF Post
    <2>3. CASE consume
      <3>1. UNCHANGED <<pc, job, consume>>
        BY <1>3, <2>1, <2>3 DEF Apply, SettingsType
      <3>. QED
        BY <2>1, <3>1, ValueFacts, PostsNoSetting
    <2>4. CASE ~consume
      <3>1. Goto(t, "init", [keys |-> <<>>, value |-> 0])
        BY <1>3, <2>4 DEF Apply, NoJob
      <3>2. pc'[t] = "init"
        BY <1>0, <3>1 DEF Goto
      <3>3. StartInv'
        BY <2>1, <2>2, <2>4, <3>2 DEF StartInv
      <3>. QED
        BY <1>1, <2>1, <3>1, <3>3 DEF SettingsType
    <2>. QED
      BY <2>3, <2>4
  <1>4. CASE StartWriter(t)
    <2>1. /\ Goto(t, "load", [keys |-> <<>>, value |-> 0]) /\ pc[t] = "init"
          /\ UNCHANGED <<conf, consume, lib, inited, queue, native, meant, at, asked>>
      BY <1>4 DEF StartWriter, NoJob, open
    <2>2. pc'[t] = "load" /\ consume
      BY <1>0, <2>1 DEF Goto, StartInv, SettingsType
    <2>3. StartInv'
      BY <2>1, <2>2 DEF StartInv
    <2>. QED
      BY <1>1, <2>1, <2>3 DEF SettingsType
  <1>5. CASE LoadLibrary(t)
    <2> DEFINE l == <<"level", "size", "open">>
    <2>1. /\ Goto(t, "read", [keys |-> l, value |-> 0]) /\ pc[t] = "load"
          /\ lib' \in BOOLEAN /\ inited' = TRUE
          /\ UNCHANGED <<conf, consume, queue, native, meant, at, asked>>
      BY <1>5 DEF LoadLibrary, NoJob, SettingsOfApply, open
    <2>2. consume
      BY <2>1 DEF StartInv, SettingsType
    <2>3. StartInv'
      BY <2>1, <2>2 DEF StartInv
    <2>4. l \in KeyLists /\ 1 \in DOMAIN l /\ 2 \in DOMAIN l /\ l[1] = "level" /\ l[2] = "size"
      BY DEF KeyLists
    <2> HIDE DEF l
    <2>5. \A k \in Keys : {l[i] : i \in DOMAIN l} \cap For(k) # {}
      BY <2>4 DEF Keys, For
    <2>. QED
      BY <1>1, <2>1, <2>3, <2>4, <2>5 DEF SettingsType
  <1>6. CASE OpenLog(t)
    <2> DEFINE l == <<"open">>
    <2>1. /\ Goto(t, "read", [keys |-> l, value |-> 0]) /\ pc[t] = "idle" /\ inited
          /\ UNCHANGED <<conf, consume, lib, inited, queue, native, meant, at, asked>>
      BY <1>6 DEF OpenLog, Call, NoJob, open
    <2>2. consume
      BY <2>1 DEF StartInv, SettingsType
    <2>3. StartInv'
      BY <2>1, <2>2 DEF StartInv
    <2>4. l \in KeyLists
      BY DEF KeyLists
    <2> HIDE DEF l
    <2>. QED
      BY <1>1, <2>1, <2>2, <2>3, <2>4 DEF SettingsType
  <1>. QED
    BY <1>3, <1>4, <1>5, <1>6

\* A thread goes on with its own settings: what it holds or will read of a key
\* stays with it, or is posted.
LEMMA OwnSettings ==
    ASSUME ConfigInv, NEW t \in Threads, Read(t) \/ PostSetting(t) \/ Check(t)
    PROVE  ConfigInv'
  <1>. USE DEF ConfigInv
  <1>0. /\ pc \in [Threads -> {"idle", "check", "init", "load", "read", "post"}]
        /\ job \in [Threads -> [keys : KeyLists \cup {<<>>}, value : Values]]
        /\ queue \in Seq(Messages) /\ conf \in [Keys -> Values]
        /\ <<>> \notin KeyLists
    BY DEF SettingsType, KeyLists
  <1>1. ASSUME NEW label \in {"idle", "read", "post"}, NEW j,
               j \in [keys : KeyLists \cup {<<>>}, value : Values],
               Goto(t, label, j), label # "idle" => consume /\ j.keys \in KeyLists,
               pc[t] \in {"read", "post", "check"},
               queue' \in Seq(Messages), queue' # queue => inited,
               UNCHANGED <<conf, consume, lib, inited, native, meant, at, asked>>,
               \A k \in Keys :
                             label = "post" /\ Head(j.keys) \in For(k) => j.value \in meant[k],
               consume /\ (lib \/ ~inited) =>
                 \A k \in Keys : OnItsWay(k) => OnItsWay(k)'
        PROVE  ConfigInv'
    <2>0. /\ pc' = [pc EXCEPT ![t] = label] /\ pc'[t] = label
          /\ job' = [job EXCEPT ![t] = j] /\ job'[t] = j
          /\ \A u \in Threads \ {t} : pc'[u] = pc[u] /\ job'[u] = job[u]
      BY <1>0, <1>1 DEF Goto
    <2>1. SettingsType'
      <3>1. /\ job' \in [Threads -> [keys : KeyLists \cup {<<>>}, value : Values]]
            /\ pc' \in [Threads -> {"idle", "check", "init", "load", "read", "post"}]
        BY <1>0, <1>1, <2>0
      <3>2. /\ \A u \in Threads : pc'[u] \in {"check", "read", "post"} => job'[u].keys \in KeyLists
            /\ \A u \in Threads : pc'[u] = "check" => job'[u].keys \in {<<"level">>, <<"size">>}
        BY <1>1, <2>0 DEF SettingsType
      <3>. QED
        BY <1>1, <3>1, <3>2 DEF SettingsType
    <2>2. StartInv'
      <3>1. \A u \in Threads : pc[u] \in {"init", "load"} => pc'[u] = pc[u]
        BY <1>1, <2>0
      <3>2. ~consume => pc'[t] = "idle"
        BY <1>1, <2>0
      <3>. QED
        BY <1>1, <2>0, <3>1, <3>2 DEF StartInv
    <2>3. SettingsInv'
      <3>1. ASSUME NEW k \in Keys, NEW u \in Threads, Holds(u, k)'
            PROVE  job'[u].value \in meant'[k]
        <4>1. CASE u = t
          BY <1>1, <2>0, <3>1, <4>1 DEF Holds, First
        <4>2. CASE u # t
          <5>1. Holds(u, k)
            BY <2>0, <3>1, <4>2 DEF Holds, First
          <5>. QED
            BY <1>1, <2>0, <4>2, <5>1 DEF SettingsInv
        <4>. QED
          BY <4>1, <4>2
      <3>. QED
        BY <1>1, <3>1 DEF SettingsInv
    <2>. QED
      BY <2>1, <2>2, <2>3
  <1>2. CASE Check(t)
    <2>1. /\ pc[t] = "check" /\ job[t].keys \in {<<"level">>, <<"size">>}
          /\ job[t].keys \in KeyLists
          /\ UNCHANGED <<conf, consume, lib, inited, native, queue, meant, at, asked>>
      BY <1>2 DEF Check, SettingsType, open
    <2>2. CASE consume
      <3>1. Goto(t, "post", job[t])
        BY <1>2, <2>2 DEF Check
      <3>2. /\ pc'[t] = "post" /\ job'[t] = job[t]
            /\ \A u \in Threads \ {t} : pc'[u] = pc[u] /\ job'[u] = job[u]
        BY <1>0, <3>1 DEF Goto
      <3>3. \A k \in Keys : Holds(t, k) \/ WillRead(t, k) => (Holds(t, k) \/ WillRead(t, k))'
        BY <2>1, <3>2 DEF Holds, WillRead, First
      <3>4. \A k \in Keys : OnItsWay(k) => OnItsWay(k)'
        BY <2>1, <3>2, <3>3, StaysOnItsWay
      <3>5. \A k \in Keys : Head(job[t].keys) \in For(k) => job[t].value \in meant[k]
        BY <2>1 DEF SettingsInv, Holds, First
      <3>. QED
        BY <1>0, <1>1, <2>1, <2>2, <3>1, <3>4, <3>5
    <2>3. CASE ~consume
      <3>1. Goto(t, "idle", [keys |-> <<>>, value |-> 0])
        BY <1>2, <2>3 DEF Check, NoJob
      <3>2. [keys |-> <<>>, value |-> 0] \in [keys : KeyLists \cup {<<>>}, value : Values]
        BY ValueFacts
      <3>. QED
        BY <1>0, <1>1, <2>1, <2>3, <3>1, <3>2
    <2>. QED
      BY <2>2, <2>3
  <1>3. CASE Read(t)
    <2> DEFINE j == [job[t] EXCEPT !.value = conf[Setting(Head(job[t].keys))]]
    <2>1. /\ pc[t] = "read" /\ consume /\ job[t].keys \in KeyLists
          /\ job[t] \in [keys : KeyLists \cup {<<>>}, value : Values]
          /\ Goto(t, "post", j)
          /\ UNCHANGED <<conf, consume, lib, inited, native, queue, meant, at, asked>>
      BY <1>0, <1>3 DEF Read, SettingsType, StartInv, open
    <2>2. Head(job[t].keys) \in {"level", "size", "open"}
      BY <2>1, KeyListFacts
    <2>3. Setting(Head(job[t].keys)) \in Keys
      BY <2>2 DEF Setting, Keys
    <2>4. /\ j \in [keys : KeyLists \cup {<<>>}, value : Values] /\ j.keys = job[t].keys
          /\ j.value = conf[Setting(Head(job[t].keys))]
      BY <1>0, <2>1, <2>3
    <2> HIDE DEF j
    <2>5. /\ pc'[t] = "post" /\ job'[t] = j
          /\ \A u \in Threads \ {t} : pc'[u] = pc[u] /\ job'[u] = job[u]
      BY <1>0, <2>1 DEF Goto
    <2>6. \A k \in Keys : Head(j.keys) \in For(k) => j.value \in meant[k]
      BY <2>2, <2>4, SettingFor DEF SettingsInv
    <2>7. \A k \in Keys : WillRead(t, k) => (Holds(t, k) \/ WillRead(t, k))'
      <3>. SUFFICES ASSUME NEW k \in Keys, Later(t) \cap For(k) # {}
                    PROVE  (Holds(t, k) \/ WillRead(t, k))'
        BY <2>1 DEF WillRead
      <3>1. Later(t) = {Head(job[t].keys)} \cup Rest(t)
        BY <2>1, KeyListFacts DEF Later, Rest
      <3>2. Rest(t)' = Rest(t) /\ First(t)' = Head(job[t].keys)
        BY <2>4, <2>5 DEF Rest, First
      <3>. QED
        BY <2>5, <3>1, <3>2 DEF Holds, WillRead
    <2>8. \A k \in Keys : ~Holds(t, k)
      BY <2>1 DEF Holds
    <2>9. \A k \in Keys : OnItsWay(k) => OnItsWay(k)'
      BY <2>1, <2>5, <2>7, <2>8, StaysOnItsWay
    <2>. QED
      BY <1>0, <1>1, <2>1, <2>4, <2>6, <2>9
  <1>4. CASE PostSetting(t)
    <2> DEFINE m == Msg(Head(job[t].keys), job[t].value)
               rest == Tail(job[t].keys)
               j == IF rest = <<>> THEN NoJob ELSE [keys |-> rest, value |-> 0]
               label == IF rest = <<>> THEN "idle" ELSE "read"
    <2>1. /\ pc[t] = "post" /\ consume /\ job[t].keys \in KeyLists
          /\ job[t] \in [keys : KeyLists \cup {<<>>}, value : Values]
          /\ Goto(t, label, j)
          /\ UNCHANGED <<conf, consume, lib, inited, native, meant, at, asked>>
      BY <1>0, <1>4 DEF PostSetting, SettingsType, StartInv, open
    <2>2. IF inited THEN queue' = Append(queue, m) ELSE queue' = queue
      BY <1>4 DEF PostSetting, Post
    <2>3. /\ Head(job[t].keys) \in {"level", "size", "open"}
          /\ rest \in KeyLists \cup {<<>>}
          /\ Rest(t) = {rest[i] : i \in DOMAIN rest}
      BY <2>1, KeyListFacts DEF Rest
    <2>4. m \in Messages /\ m.what = Head(job[t].keys) /\ m.value = job[t].value
      BY <2>1, <2>3 DEF Msg, Messages, Whats, Keys
    <2>5. /\ j \in [keys : KeyLists \cup {<<>>}, value : Values] /\ j.keys = rest
      BY <2>3, ValueFacts DEF NoJob
    <2> HIDE DEF m, rest, j
    <2>6. /\ pc'[t] = label /\ job'[t] = j
          /\ \A u \in Threads \ {t} : pc'[u] = pc[u] /\ job'[u] = job[u]
      BY <1>0, <2>1 DEF Goto
    <2>7. \A k \in Keys : WillRead(t, k) => WillRead(t, k)'
      <3>. SUFFICES ASSUME NEW k \in Keys, Rest(t) \cap For(k) # {}
                    PROVE  WillRead(t, k)'
        BY <2>1 DEF WillRead
      <3>1. rest # <<>>
        BY <2>3
      <3>2. Later(t)' = Rest(t)
        BY <2>3, <2>5, <2>6 DEF Later
      <3>. QED
        BY <2>6, <3>1, <3>2 DEF WillRead
    <2>8. ASSUME NEW k \in Keys, OnItsWay(k) PROVE OnItsWay(k)'
      <3>1. CASE inited /\ Head(job[t].keys) \in For(k)
        <4>1. m.value \in meant[k]
          BY <2>1, <2>4, <2>8, <3>1 DEF SettingsInv, Holds, First
        <4>. QED
          BY <2>1, <2>2, <2>4, <2>6, <2>8, <3>1, <4>1, StaysOnItsWay
      <3>2. CASE inited /\ Head(job[t].keys) \notin For(k)
        <4>1. ~Holds(t, k)
          BY <3>2 DEF Holds, First
        <4>. QED
          BY <2>1, <2>2, <2>4, <2>6, <2>7, <2>8, <3>2, <4>1, StaysOnItsWay
      <3>3. CASE ~inited
        <4>1. PICK u \in Threads : pc[u] \in {"init", "load"}
          BY <2>1, <3>3 DEF StartInv
        <4>2. u # t /\ WillRead(u, k)'
          BY <2>1, <2>6, <4>1 DEF WillRead
        <4>. QED
          BY <4>2 DEF OnItsWay
      <3>. QED
        BY <3>1, <3>2, <3>3
    <2>9. queue' \in Seq(Messages) /\ (queue' # queue => inited)
      BY <1>0, <2>2, <2>4, AppendProperties
    <2>10. label \in {"idle", "read"} /\ (label # "idle" => rest \in KeyLists)
      BY <2>3
    <2> HIDE DEF label
    <2>. QED
      BY <1>1, <2>1, <2>5, <2>8, <2>9, <2>10
  <1>. QED
    BY <1>2, <1>3, <1>4

LEMMA ThreadSettings ==
    ASSUME ConfigInv, NEW t \in Threads, ThreadStep(t), LoadOutcomes \subseteq BOOLEAN
    PROVE  ConfigInv'
  <1>1. CASE Log(t) \/ CloseLog(t)
    <2>1. UNCHANGED <<conf, consume, lib, inited, pc, job, native, meant, at, asked>>
      BY <1>1 DEF Log, CloseLog, open
    <2>2. Post(Msg("write", Info)) \/ Post(Msg("close", 0))
      BY <1>1 DEF Log, CloseLog
    <2>. QED
      BY <2>1, <2>2, ValueFacts, PostsNoSetting
  <1>2. ASSUME NEW level \in Levels, Set(t, "level", level) PROVE ConfigInv'
    BY <1>2, ValueFacts, SetSettings DEF Keys
  <1>3. ASSUME NEW size \in FileSizes, Set(t, "size", size) PROVE ConfigInv'
    BY <1>3, ValueFacts, SetSettings DEF Keys
  <1>. QED
    BY <1>1, <1>2, <1>3, ReaderSettings, OwnSettings DEF ThreadStep

-----------------------------------------------------------------------------
(* The writer thread.                                                      *)

\* The threads' side of the invariant, for steps that leave the threads alone.
LEMMA WriterLeavesThreads ==
    ASSUME ConfigInv, UNCHANGED <<conf, consume, lib, inited, pc, job, meant>>,
           queue' \in Seq(Messages), native' \in [Keys -> Values],
           asked' \in Messages \cup {Nothing}, at' # "idle" => asked' \in Messages,
           ~inited => \A k \in Keys : NoneOf(queue, k) => NoneOf(queue', k),
           lib \/ ~inited => \A k \in Keys :
             LastOf(queue, k, meant[k]) \/ (NoneOf(queue, k) /\ Arriving(k) \in meant[k])
               => \/ LastOf(queue', k, meant[k])
                  \/ NoneOf(queue', k) /\ Arriving(k)' \in meant[k]
    PROVE  ConfigInv'
  <1>. USE DEF ConfigInv
  <1>1. SettingsType'
    BY DEF SettingsType
  <1>2. StartInv'
    BY DEF StartInv
  <1>3. SettingsInv'
    <2>1. \A k \in Keys, u \in Threads : Holds(u, k)' => job'[u].value \in meant'[k]
      BY DEF SettingsInv, Holds, First
    <2>2. ASSUME consume, lib \/ ~inited, NEW k \in Keys PROVE OnItsWay(k)'
      <3>1. OnItsWay(k)
        BY <2>2 DEF SettingsInv
      <3>. QED
        BY <2>2, <3>1 DEF OnItsWay, Holds, WillRead, First, Later, Rest
    <2>. QED
      BY <2>1, <2>2 DEF SettingsInv
  <1>. QED
    BY <1>1, <1>2, <1>3 DEF SettingsInv

\* The message the writer takes, and the queue behind it.
LEMMA TakesHead ==
    ASSUME ConfigInv, NEW what, Takes(what)
    PROVE  /\ Head(queue) \in Messages /\ queue' \in Seq(Messages)
           /\ Head(queue).what = what /\ lib /\ at = "idle"
           /\ \A k \in Keys : NoneOf(queue, k) => what \notin For(k) /\ NoneOf(queue', k)
           /\ \A k \in Keys, vs \in SUBSET Values : LastOf(queue, k, vs) =>
                \/ LastOf(queue', k, vs)
                \/ what \in For(k) /\ Value \in vs /\ NoneOf(queue', k)
  <1>1. queue \in Seq(Messages) /\ queue # <<>> /\ queue' = Tail(queue)
    BY DEF ConfigInv, SettingsType, Takes
  <1>2. Head(queue) \in Messages /\ queue' \in Seq(Messages)
    BY <1>1, HeadTailProperties
  <1>3. Head(queue).what = what /\ lib /\ at = "idle"
    BY DEF Takes
  <1>4. \A k \in Keys : NoneOf(queue, k) => what \notin For(k) /\ NoneOf(queue', k)
    BY <1>1, <1>3, QueueTail
  <1>5. \A k \in Keys, vs \in SUBSET Values : LastOf(queue, k, vs) =>
          \/ LastOf(queue', k, vs)
          \/ what \in For(k) /\ Value \in vs /\ NoneOf(queue', k)
    BY <1>1, <1>3, QueueTail DEF Value
  <1>. QED
    BY <1>2, <1>3, <1>4, <1>5

LEMMA WriterSettings ==
    ASSUME ConfigInv, WriterStep \/ Flush PROVE ConfigInv'
  <1>. USE DEF ConfigInv
  <1>0. /\ queue \in Seq(Messages) /\ conf \in [Keys -> Values] /\ native \in [Keys -> Values]
        /\ meant \in [Keys -> SUBSET Values]
        /\ asked \in Messages \cup {Nothing} /\ (at # "idle" => asked \in Messages)
    BY DEF SettingsType
  <1>1. CASE NoLibrary
    <2>1. /\ UNCHANGED <<conf, consume, lib, inited, pc, job, meant, native, at, asked>>
          /\ ~lib /\ queue # <<>>
          /\ queue' = Append(Tail(queue), Msg("write", Info)) \/ queue' = Tail(queue)
      BY <1>1 DEF NoLibrary, Untouched, open
    <2>2. Msg("write", Info) \in Messages /\ \A k \in Keys : Msg("write", Info).what \notin For(k)
      BY ValueFacts DEF Msg, Messages, Whats, For, Keys
    <2>3. /\ Tail(queue) \in Seq(Messages)
          /\ \A k \in Keys : NoneOf(queue, k) => NoneOf(Tail(queue), k)
      BY <1>0, <2>1, HeadTailProperties, QueueTail
    <2> DEFINE m == Msg("write", Info)
    <2> HIDE DEF m
    <2>4. queue' \in Seq(Messages) /\ \A k \in Keys : NoneOf(queue, k) => NoneOf(queue', k)
      <3>1. Append(Tail(queue), m) \in Seq(Messages)
        BY <2>2, <2>3, AppendProperties DEF m
      <3>2. \A k \in Keys : NoneOf(Tail(queue), k) => NoneOf(Append(Tail(queue), m), k)
        BY <2>2, <2>3, QueueAppend DEF m
      <3>. QED
        BY <2>1, <2>3, <3>1, <3>2 DEF m
    <2>5. ~inited => \A k \in Keys : NoneOf(queue, k) /\ ~LastOf(queue, k, meant[k])
      BY DEF StartInv, NoneOf, LastOf
    <2>. QED
      BY <1>0, <2>1, <2>4, <2>5, WriterLeavesThreads DEF Arriving
  <1>2. CASE Write \/ Close
    <2>1. /\ UNCHANGED <<conf, consume, lib, inited, pc, job, meant, native, at, asked>>
          /\ \E what \in {"write", "close"} : Takes(what)
      BY <1>2 DEF Write, Close, Untouched, open
    <2>2. \A k \in Keys : "write" \notin For(k) /\ "close" \notin For(k)
      BY DEF For
    <2>3. /\ queue' \in Seq(Messages)
          /\ \A k \in Keys : NoneOf(queue, k) => NoneOf(queue', k)
          /\ \A k \in Keys : LastOf(queue, k, meant[k]) => LastOf(queue', k, meant[k])
      BY <1>0, <2>1, <2>2, TakesHead
    <2>. QED
      BY <1>0, <2>1, <2>3, WriterLeavesThreads DEF Arriving
  <1>3. CASE SetNative
    <2>1. PICK key \in Keys : Takes(key) /\ native' = [native EXCEPT ![key] = Value]
      BY <1>3 DEF SetNative, Keys
    <2>2. UNCHANGED <<conf, consume, lib, inited, pc, job, meant, at, asked>>
      BY <1>3 DEF SetNative, Untouched, open
    <2>3. /\ Value \in Values /\ queue' \in Seq(Messages) /\ at = "idle"
          /\ \A k \in Keys : NoneOf(queue, k) => key \notin For(k) /\ NoneOf(queue', k)
          /\ \A k \in Keys : LastOf(queue, k, meant[k]) =>
               \/ LastOf(queue', k, meant[k])
               \/ key \in For(k) /\ Value \in meant[k] /\ NoneOf(queue', k)
      BY <1>0, <2>1, TakesHead DEF Value, Messages
    <2>4. \A k \in Keys : key \in For(k) <=> k = key
      BY DEF For, Keys
    <2>5. /\ native' \in [Keys -> Values]
          /\ \A k \in Keys : native'[k] = IF k = key THEN Value ELSE native[k]
      BY <1>0, <2>1, <2>3
    <2>. QED
      BY <1>0, <2>2, <2>3, <2>4, <2>5, WriterLeavesThreads DEF Arriving
  <1>4. CASE Open
    <2>1. /\ UNCHANGED <<conf, consume, lib, inited, pc, job, meant, native>>
          /\ Takes("open") /\ asked' = Head(queue) /\ at' \in {"exists", "level"}
      BY <1>4 DEF Open, Untouched
    <2>2. /\ Head(queue) \in Messages /\ queue' \in Seq(Messages) /\ at = "idle"
          /\ \A k \in Keys : NoneOf(queue, k) => "open" \notin For(k) /\ NoneOf(queue', k)
          /\ \A k \in Keys : LastOf(queue, k, meant[k]) =>
               \/ LastOf(queue', k, meant[k])
               \/ "open" \in For(k) /\ Value \in meant[k] /\ NoneOf(queue', k)
      BY <1>0, <2>1, TakesHead
    <2>3. \A k \in Keys : "open" \in For(k) <=> k = "level"
      BY DEF For, Keys
    <2>4. at' # "idle"
      BY <2>1
    <2>. QED
      BY <1>0, <2>1, <2>2, <2>3, <2>4, WriterLeavesThreads DEF Arriving, Value
  <1>5. CASE OpenLevel
    <2>1. /\ UNCHANGED <<conf, consume, lib, inited, pc, job, meant, queue>>
          /\ at = "level" /\ at' = "idle" /\ asked' = Nothing
          /\ native' = [native EXCEPT !["level"] = asked.value]
      BY <1>5 DEF OpenLevel, java
    <2>2. asked.value \in Values /\ "level" \in Keys
      BY <1>0, <2>1 DEF Messages, Keys
    <2>3. /\ native' \in [Keys -> Values]
          /\ \A k \in Keys : native'[k] = IF k = "level" THEN asked.value ELSE native[k]
      BY <1>0, <2>1, <2>2
    <2>. QED
      BY <1>0, <2>1, <2>3, WriterLeavesThreads DEF Arriving
  <1>6. CASE Flush \/ MmapExists \/ CreateFile \/ SizeFile \/ MapFile \/ AllocFile \/ Attach
    <2>1. UNCHANGED <<conf, consume, lib, inited, pc, job, meant, queue, native, asked>>
      BY <1>6 DEF Flush, MmapExists, CreateFile, SizeFile, MapFile, AllocFile, Attach, java,
         open
    <2>2. (at = "idle") = (at' = "idle")
      BY <1>6 DEF Flush, MmapExists, CreateFile, SizeFile, MapFile, AllocFile, Attach, open
    <2>. QED
      BY <1>0, <2>1, <2>2, WriterLeavesThreads DEF Arriving
  <1>. QED
    BY <1>1, <1>2, <1>3, <1>4, <1>5, <1>6 DEF WriterStep

LEMMA ConfigStep ==
    ASSUME ConfigInv, [Next]_vars, LoadOutcomes \subseteq BOOLEAN PROVE ConfigInv'
  <1>1. CASE Crash
    BY <1>1, RestartedConfig DEF Crash, Started, Fresh
  <1>2. CASE UNCHANGED vars
    <2>1. UNCHANGED <<conf, consume, lib, inited, pc, job, meant, queue, native, at, asked>>
      BY <1>2 DEF vars, java, open
    <2>. QED
      BY <2>1, WriterLeavesThreads DEF ConfigInv, SettingsType, Arriving
  <1>. QED
    BY <1>1, <1>2, ThreadSettings, WriterSettings DEF Next

\* The inductive invariant of the settings.
THEOREM ConfigInvariant == Spec => []ConfigInv
  <1>1. LoadOutcomes \subseteq BOOLEAN
    BY SessionAssumption
  <1>2. ConfigInv /\ [Next]_vars => ConfigInv'
    BY <1>1, ConfigStep
  <1>. QED
    BY <1>2, ConfigInit, PTL DEF Spec

\* When nothing is under way, the native side has the level and the size that
\* were set last, in whatever order the setters, apply, open and close came;
\* where threads set one of the two at once, what one of these set, until the
\* next undisturbed setter; also when the library came late.
THEOREM ConfigAlwaysAgrees == Spec => []ConfigAgrees
  <1>1. ConfigInv => ConfigAgrees
    <2>. SUFFICES ASSUME ConfigInv, consume, lib, queue = <<>>, at = "idle",
                         \A t \in Threads : pc[t] = "idle", NEW k \in Keys
                  PROVE  native[k] \in meant[k]
      BY DEF ConfigAgrees, Keys
    <2>1. OnItsWay(k)
      BY DEF ConfigInv, SettingsInv
    <2>2. \A t \in Threads : ~Holds(t, k) /\ ~WillRead(t, k)
      BY DEF Holds, WillRead
    <2>3. ~LastOf(queue, k, meant[k])
      BY DEF LastOf
    <2>. QED
      BY <2>1, <2>2, <2>3 DEF OnItsWay, Arriving
  <1>. QED
    BY <1>1, ConfigInvariant, PTL
=============================================================================
