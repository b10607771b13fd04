------------------------------ MODULE Session ------------------------------
(***************************************************************************)
(* One process of the application after another: LogConfig with its        *)
(* setters and its apply, the messages it posts, and the native side of    *)
(* them: the level filter, appender_open and appender_close with the       *)
(* mapped file (klogmapfile.cpp, mmap_util.cc) under the buffer.           *)
(*                                                                         *)
(* The queue is the mailbox that FileWriter implements; Appender and       *)
(* LogBuffer are about the records between open and close, which are only  *)
(* clean, dirty or left over here.  The process may die between any two    *)
(* steps; the mmap file stays.                                             *)
(***************************************************************************)
EXTENDS Naturals, Sequences

CONSTANTS
    Threads,
    Ops,            \* Ops[t]: what thread t calls
    Levels,         \* the levels in use, of 1 (verbose) to 5 (error)
    FileSizes,      \* the sizes singleLogMaxSize is given, 0 among them
    LoadOutcomes,   \* whether System.loadLibrary may succeed, may fail
    MaxCalls,       \* MaxCalls[t]: how often t calls something
    MaxCrashes, MaxFails   \* bounds of the exploration

Verbose == 1
Info == 3

ASSUME SessionAssumption ==
    /\ Levels \subseteq 0..5 /\ 0 \in Levels /\ 0 \in FileSizes
    /\ LoadOutcomes \subseteq BOOLEAN
    /\ MaxCalls \in [Threads -> Nat] /\ {MaxCrashes, MaxFails} \subseteq Nat

VARIABLES
    conf,     \* LogConfig: level and maxSize
    consume,  \* LogConfig.consume: apply has been called
    writer,   \* the thread writer_klog was started
    lib,      \* the native library is loaded
    inited,   \* FileWriter.mInited
    queue,    \* messages: what they ask for, with a value
    pc, job,  \* where each thread is, and what it still has to post
    native,   \* gs_level and sg_max_file_size
    closed,   \* sg_log_close
    buf,      \* the block under sg_log_buff: mapped, heap or none
    at, asked,\* where the writer thread is, and the message it handles
    map,      \* sg_mmmap_file: handle_, data_ and error_
    file,     \* the mmap file: none, empty, sized (a hole) or backed
    block,    \* its content: clean, dirty, or leftover from a dead process
    wiped,    \* leftovers were zeroed unread (history)
    meant,    \* the values each setting may end with: the last one chosen, and
              \* those of threads that chose one at the same time (history)
    used      \* how often what is bounded has happened

java == <<conf, consume, writer, lib, inited, queue, pc, job>>
open == <<at, asked, closed, buf, map>>
disk == <<file, block, wiped>>
vars == <<java, native, open, disk, meant, used>>

NoJob == [keys |-> <<>>, value |-> 0]
Nothing == [what |-> "nothing", value |-> 0]
NoMap == [handle |-> FALSE, data |-> FALSE, error |-> FALSE]

Fresh ==
    [conf |-> [level |-> 0, size |-> 0], native |-> [level |-> Verbose, size |-> 0],
     meant |-> [level |-> {0}, size |-> {0}],
     pc |-> [t \in Threads |-> "idle"], job |-> [t \in Threads |-> NoJob]]

Init ==
    /\ conf = Fresh.conf /\ native = Fresh.native /\ pc = Fresh.pc /\ job = Fresh.job
    /\ consume = FALSE /\ writer = FALSE /\ lib = FALSE /\ inited = FALSE
    /\ queue = <<>> /\ at = "idle" /\ asked = Nothing
    /\ closed = TRUE /\ buf = "none" /\ map = NoMap
    /\ file = "none" /\ block = "clean" /\ wiped = FALSE /\ meant = Fresh.meant
    /\ used = [calls |-> [t \in Threads |-> 0], crashes |-> 0, fails |-> 0]

Post(m) == queue' = Append(queue, m)
Msg(what, value) == [what |-> what, value |-> value]

-----------------------------------------------------------------------------
(* LogConfig, and the calls of FileWriter that are open to everybody       *)

Call(t, op) ==
    /\ op \in Ops[t] /\ pc[t] = "idle" /\ used.calls[t] < MaxCalls[t]
    /\ used' = [used EXCEPT !.calls[t] = @ + 1]

Goto(t, label, work) == pc' = [pc EXCEPT ![t] = label] /\ job' = [job EXCEPT ![t] = work]

Setting(key) == IF key = "open" THEN "level" ELSE key

\* Another thread has chosen a value for this key that it has not posted yet.
Contended(t, key) ==
    \E u \in Threads \ {t} :
        pc[u] \in {"check", "post"} /\ Setting(Head(job[u].keys)) = key

\* logLevel, singleLogMaxSize: the field first.
Set(t, key, value) ==
    /\ Call(t, key)
    /\ conf' = [conf EXCEPT ![key] = value]
    /\ meant' = [meant EXCEPT ![key] = {value} \cup (IF Contended(t, key) THEN @ ELSE {})]
    /\ Goto(t, "check", [keys |-> <<key>>, value |-> value])
    /\ UNCHANGED <<consume, writer, lib, inited, queue, native, open, disk>>

\* if (consume.get()) FileWriter.set...
Check(t) ==
    /\ pc[t] = "check"
    /\ IF consume THEN Goto(t, "post", job[t]) ELSE Goto(t, "idle", NoJob)
    /\ UNCHANGED <<conf, consume, writer, lib, inited, queue, native, open, disk, meant, used>>

\* KLog.i: LogImpl's filter, and FileWriter.i, which drops what comes before init.
Log(t) ==
    /\ Call(t, "log")
    /\ conf.level <= Info /\ inited /\ Post(Msg("write", Info))
    /\ UNCHANGED <<conf, consume, writer, lib, inited, pc, job, native, open, disk, meant>>

\* apply logs first: the first one before init, so in vain.
Apply(t) ==
    /\ Call(t, "apply")
    /\ IF conf.level <= Info /\ inited THEN Post(Msg("write", Info)) ELSE UNCHANGED queue
    /\ consume' = TRUE
    /\ IF consume THEN UNCHANGED <<pc, job>> ELSE Goto(t, "init", NoJob)
    /\ UNCHANGED <<conf, writer, lib, inited, native, open, disk, meant>>

\* Mutant: what apply posts, without the size.
SettingsOfApplyFew == <<"level", "open">>

SettingsOfApply == <<"level", "size", "open">>

\* FileWriter.init: the thread starts before the library is loaded.
StartWriter(t) ==
    /\ pc[t] = "init"
    /\ writer' = TRUE
    /\ Goto(t, "load", NoJob)
    /\ UNCHANGED <<conf, consume, lib, inited, queue, native, open, disk, meant, used>>

LoadLibrary(t) ==
    /\ pc[t] = "load"
    /\ lib' \in LoadOutcomes /\ inited' = TRUE
    /\ Goto(t, "read", [NoJob EXCEPT !.keys = SettingsOfApply])
    /\ UNCHANGED <<conf, consume, writer, queue, native, open, disk, meant, used>>

\* The argument of the next call is read ...
Read(t) ==
    /\ pc[t] = "read"
    /\ Goto(t, "post", [job[t] EXCEPT !.value = conf[Setting(Head(job[t].keys))]])
    /\ UNCHANGED <<conf, consume, writer, lib, inited, queue, native, open, disk, meant, used>>

\* ... and posted later: setLogLevel, setFileMaxSize, open, each with its guard.
PostSetting(t) ==
    /\ pc[t] = "post"
    /\ IF inited THEN Post(Msg(Head(job[t].keys), job[t].value)) ELSE UNCHANGED queue
    /\ LET rest == Tail(job[t].keys)
       IN  IF rest = <<>> THEN Goto(t, "idle", NoJob)
           ELSE Goto(t, "read", [keys |-> rest, value |-> 0])
    /\ UNCHANGED <<conf, consume, writer, lib, inited, native, open, disk, meant, used>>

\* FileWriter.close, FileWriter.open: public, with the configured level.
CloseLog(t) ==
    /\ Call(t, "close") /\ inited
    /\ Post(Msg("close", 0))
    /\ UNCHANGED <<conf, consume, writer, lib, inited, pc, job, native, open, disk, meant>>

OpenLog(t) ==
    /\ Call(t, "open") /\ inited
    /\ Goto(t, "read", [NoJob EXCEPT !.keys = <<"open">>])
    /\ UNCHANGED <<conf, consume, writer, lib, inited, queue, native, open, disk, meant>>

-----------------------------------------------------------------------------
(* The writer thread and the native functions                              *)

Takes(what) ==
    /\ writer /\ lib /\ at = "idle" /\ queue # <<>> /\ Head(queue).what = what
    /\ queue' = Tail(queue)
Value == Head(queue).value
Untouched == <<conf, consume, writer, lib, inited, pc, job, meant>>

\* UnsatisfiedLinkError: the message is gone, and KLog.i posts another.
NoLibrary ==
    /\ writer /\ ~lib /\ at = "idle" /\ queue # <<>>
    /\ queue' = IF conf.level <= Info THEN Append(Tail(queue), Msg("write", Info))
                ELSE Tail(queue)
    /\ UNCHANGED <<Untouched, native, open, disk, used>>

\* FileLog_logWrite, xlogger_Write: filtered again, and dropped when nothing is
\* open.
Write ==
    /\ Takes("write")
    /\ block' = IF native.level <= Value /\ ~closed /\ buf = "mapped" THEN "dirty" ELSE block
    /\ UNCHANGED <<Untouched, native, open, file, wiped, used>>

\* The asynchronous thread, or a flush.
Flush ==
    /\ block = "dirty" /\ block' = "clean"
    /\ UNCHANGED <<java, native, open, file, wiped, meant, used>>

SetNative ==
    /\ \E key \in {"level", "size"} : Takes(key) /\ native' = [native EXCEPT ![key] = Value]
    /\ UNCHANGED <<Untouched, open, disk, used>>

-----------------------------------------------------------------------------
(* klogmapfile                                                             *)

is_open == map.data /\ map.handle

\* Mutant: an error that was left is not looked at.
IsMmapFileOpen == is_open

IsMmapFileOpenSucc == ~map.error /\ is_open

Cleared(error) == [NoMap EXCEPT !.error = error]
Unmapped == IF is_open THEN Cleared(FALSE) ELSE map    \* CloseMmapFile
Fails == used.fails < MaxFails /\ used' = [used EXCEPT !.fails = @ + 1]
Works == UNCHANGED used

\* FileLog_open: an open appender only gets the level.
Open ==
    /\ Takes("open") /\ asked' = Head(queue)
    /\ at' = IF closed THEN "exists" ELSE "level"
    /\ UNCHANGED <<Untouched, native, closed, buf, map, disk, used>>

\* OpenMmapFile: a map that is there is closed, one with an error is a failure.
MmapExists ==
    /\ at = "exists"
    /\ map' = IF IsMmapFileOpenSucc THEN NoMap ELSE map
    /\ at' = IF is_open /\ map.error THEN "heap" ELSE IF file = "none" THEN "create" ELSE "map"
    /\ UNCHANGED <<java, native, asked, closed, buf, disk, meant, used>>

\* open_file for a new file: open(2), then ftruncate; both may fail.
CreateFile ==
    /\ at = "create"
    /\ \/ Works /\ file' = "empty" /\ at' = "size" /\ UNCHANGED map
       \/ Fails /\ map' = Cleared(TRUE) /\ at' = "heap" /\ UNCHANGED file
    /\ UNCHANGED <<java, native, asked, closed, buf, block, wiped, meant>>

SizeFile ==
    /\ at = "size"
    /\ \/ Works /\ file' = "sized" /\ block' = "clean" /\ at' = "mapnew" /\ UNCHANGED map
       \/ Fails /\ map' = Cleared(TRUE) /\ at' = "heap" /\ UNCHANGED <<file, block>>
    /\ UNCHANGED <<java, native, asked, closed, buf, wiped, meant>>

\* map_file: no empty file can be mapped.  error_ is not reset by success.
MapFile ==
    /\ at \in {"map", "mapnew"}
    /\ \/ /\ Works /\ file # "empty"
          /\ map' = [map EXCEPT !.handle = TRUE, !.data = TRUE]
          /\ at' = IF map.error THEN "heap" ELSE IF at = "mapnew" THEN "alloc" ELSE "mapped"
       \/ /\ IF file = "empty" THEN Works ELSE Fails
          /\ map' = Cleared(TRUE) /\ at' = "heap"
    /\ UNCHANGED <<java, native, asked, closed, buf, disk, meant>>

\* The zeroes written behind the hole; without them the file is removed.
AllocFile ==
    /\ at = "alloc"
    /\ \/ Works /\ file' = "backed" /\ at' = "mapped" /\ UNCHANGED map
       \/ Fails /\ file' = "none" /\ map' = Cleared(FALSE) /\ at' = "heap"
    /\ UNCHANGED <<java, native, asked, closed, buf, block, wiped, meant>>

\* appender_open goes on with the mapped block, whose leftovers it reads, or
\* with one of the heap.
Attach ==
    /\ at \in {"mapped", "heap"}
    /\ buf' = at /\ closed' = FALSE /\ at' = "level"
    /\ block' = IF at = "mapped" THEN "clean" ELSE block
    /\ UNCHANGED <<java, native, asked, map, file, wiped, meant, used>>

\* FileLog_open ends with xlogger_SetLevel.
OpenLevel ==
    /\ at = "level"
    /\ native' = [native EXCEPT !.level = asked.value]
    /\ at' = "idle" /\ asked' = Nothing
    /\ UNCHANGED <<java, closed, buf, map, disk, meant, used>>

\* Mutant: the block is zeroed whatever map it is.
CloseZeroes ==
    /\ Takes("close") /\ UNCHANGED <<Untouched, native, at, asked, file, used>>
    /\ IF closed THEN UNCHANGED <<closed, buf, map, block, wiped>>
       ELSE /\ closed' = TRUE /\ buf' = "none"
            /\ block' = IF is_open THEN "clean" ELSE block
            /\ wiped' = (wiped \/ (is_open /\ block = "leftover"))
            /\ map' = Unmapped

\* appender_close: the map is closed, and zeroed unless it has an error; without
\* a map the heap's block is deleted.
Close ==
    /\ Takes("close") /\ UNCHANGED <<Untouched, native, at, asked, file, used>>
    /\ IF closed THEN UNCHANGED <<closed, buf, map, block, wiped>>
       ELSE /\ closed' = TRUE /\ buf' = "none"
            /\ block' = IF IsMmapFileOpenSucc THEN "clean" ELSE block
            /\ wiped' = (wiped \/ (IsMmapFileOpenSucc /\ block = "leftover"))
            /\ map' = Unmapped

-----------------------------------------------------------------------------

\* The process dies and another one starts: the file is what is left.
Crash ==
    /\ used.crashes < MaxCrashes /\ used' = [used EXCEPT !.crashes = @ + 1]
    /\ conf' = Fresh.conf /\ native' = Fresh.native /\ pc' = Fresh.pc /\ job' = Fresh.job
    /\ consume' = FALSE /\ writer' = FALSE /\ lib' = FALSE /\ inited' = FALSE
    /\ queue' = <<>> /\ at' = "idle" /\ asked' = Nothing
    /\ closed' = TRUE /\ buf' = "none" /\ map' = NoMap /\ meant' = Fresh.meant
    /\ block' = IF block = "dirty" THEN "leftover" ELSE block
    /\ UNCHANGED <<file, wiped>>

ThreadStep(t) ==
    \/ Apply(t) \/ StartWriter(t) \/ LoadLibrary(t) \/ Read(t) \/ PostSetting(t) \/ Check(t)
    \/ Log(t) \/ CloseLog(t) \/ OpenLog(t)
    \/ \E level \in Levels : Set(t, "level", level)
    \/ \E size \in FileSizes : Set(t, "size", size)

WriterStep ==
    \/ NoLibrary \/ Write \/ SetNative \/ Open \/ Close
    \/ MmapExists \/ CreateFile \/ SizeFile \/ MapFile \/ AllocFile \/ Attach \/ OpenLevel

Next == (\E t \in Threads : ThreadStep(t)) \/ WriterStep \/ Flush \/ Crash

Spec == Init /\ [][Next]_vars

-----------------------------------------------------------------------------
(* Properties                                                              *)

\* When nothing is under way, the native side has the level and the size that
\* were set last, in whatever order the setters, apply, open and close came
\* (LogConfig: "after apply one can still set logLevel and singleLogMaxSize").
\* Where threads set one thing at once, apply and open among them, it has what
\* one of these set, and the next undisturbed setter puts it right.
ConfigAgrees ==
    (/\ consume /\ lib /\ queue = <<>> /\ at = "idle"
     /\ \A t \in Threads : pc[t] = "idle")
    => \A key \in {"level", "size"} : native[key] \in meant[key]

\* appender_close tells by the map whether the block is mapped or has to be
\* deleted; and a block is mapped only on a file of its size (a process may have
\* died after it created the file, or a first open may have failed).
BufferMatchesMap ==
    /\ buf = "mapped" => IsMmapFileOpenSucc /\ file \in {"sized", "backed"}
    /\ buf = "heap" => ~IsMmapFileOpenSucc
    /\ closed /\ at = "idle" => buf = "none" /\ ~is_open
    /\ ~closed => buf # "none"

\* What a dead process left in the mmap file is read before it is zeroed, also
\* after opens that failed and sessions that ran on the heap.
LeftoversSurvive == ~wiped
=============================================================================
