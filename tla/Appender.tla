------------------------------ MODULE Appender ------------------------------
(***************************************************************************)
(* The native appender of KLog (jni/log/appender.cc): callers append       *)
(* records to an mmap'd block, an asynchronous thread moves the block to   *)
(* the log file, and open, close, flush and mode changes run against both. *)
(*                                                                         *)
(* A critical section of sg_mutex_buffer_async or of sg_mutex_log_file is  *)
(* one atomic step: nothing inside it waits for another thread.  What the  *)
(* code does between two critical sections is a label of pc or worker.     *)
(* A record is its acceptance number and its kind; the buffer's bytes are  *)
(* the sequence of the records in it.                                      *)
(***************************************************************************)
EXTENDS Integers, Sequences

CONSTANTS
    Callers,       \* threads that call the exported functions
    Worker,        \* the thread sg_thread_async
    Ops,           \* Ops[t]: the functions caller t uses
    Modes,         \* the modes given to open and to setmode
    MapOutcomes,   \* {TRUE}: the mmap always opens; with FALSE: it may fail
    Crypt,         \* isCryptFlag: formatting a record reads *sg_log_buff
    NotifyAt,      \* kBufferBlockLength*1/3, in records
    WarnAt,        \* kBufferBlockLength*4/5, in records
    Capacity,      \* kBufferBlockLength, in records
    MaxLogs, MaxOpens, MaxCrashes, MaxFails   \* bounds of the exploration

Operations == {"log", "open", "close", "flush", "notify", "setmode"}

ASSUME ConstantsAssumption ==
    /\ Worker \notin Callers
    /\ Ops \in [Callers -> SUBSET Operations]
    /\ Modes \subseteq {"async", "sync"}
    /\ MapOutcomes \subseteq BOOLEAN
    /\ Crypt \in BOOLEAN
    /\ {NotifyAt, WarnAt, Capacity, MaxLogs, MaxOpens, MaxCrashes, MaxFails}
         \subseteq Nat

VARIABLES
    closed,   \* sg_log_close
    mode,     \* sg_mode
    ptr,      \* sg_log_buff is not NULL
    mapped,   \* the buffer is the mmap'd block (otherwise it is on the heap)
    buf,      \* the records in *sg_log_buff
    disk,     \* the records in the mmap file while it is not mapped
    file,     \* what the log files hold, in the order it was written
    worker,   \* where the asynchronous thread is; "off" when it has ended
    pc, job,  \* where each caller is, and in which function
    chunk,    \* per thread: the AutoBuffer it took and has not written yet
    \* History, read by the properties only:
    accepted, \* how many records were accepted; the next one gets the next id
    lost,     \* ids lost in close, in a crash, in a failed write
    owed,     \* per caller: the records accepted when it called flush_sync
              \* on an open log
    promised, \* flush_sync returned for every record up to this one
    together, \* the pairs <<new, old>> of ids that were in flight together
    segv,     \* some thread has dereferenced a NULL sg_log_buff
    used      \* how much of each bound is spent

program == <<closed, mode, ptr, mapped, worker, pc, job>>
records == <<buf, disk, file, chunk, accepted, lost>>
vars == <<program, records, owed, promised, together, segv, used>>

Threads == Callers \cup {Worker}

Kinds == {"log", "warn", "start", "stop"}
Marks == {"opened", "begin", "end", "error"}
Record == [id : Nat, kind : Kinds \cup Marks]

\* A mark is formatted straight into the file and is never buffered.
Mark(m) == [id |-> 0, kind |-> m]

\* The accepted records of a sequence.
Ids(s) == {s[i].id : i \in DOMAIN s} \ {0}

Labels == {"idle", "stop", "setClosed", "notify", "join", "joining", "wipe",
           "tip", "map", "drain", "live", "setMode", "begin", "recover", "end",
           "start", "mode", "async", "sync", "write", "flush"}
WorkerLabels == {"off", "lock", "write", "check", "prewait", "waiting", "exit"}

ControlOK ==
    /\ closed \in BOOLEAN /\ ptr \in BOOLEAN /\ mapped \in BOOLEAN
    /\ mode \in {"async", "sync"}
    /\ worker \in WorkerLabels
    /\ pc \in [Callers -> Labels]
    /\ job \in [Callers -> Operations \cup {"none"}]

RecordsOK ==
    /\ buf \in Seq(Record) /\ disk \in Seq(Record) /\ file \in Seq(Record)
    /\ chunk \in [Threads -> Seq(Record)]
    /\ accepted \in Nat
    /\ lost \in [close : SUBSET Nat, crash : SUBSET Nat, write : SUBSET Nat]

HistoryOK ==
    /\ owed \in [Callers -> Nat] /\ promised \in Nat
    /\ together \subseteq Nat \X Nat
    /\ segv \in BOOLEAN
    /\ used \in [logs : Nat, opens : Nat, crashes : Nat, fails : Nat]

TypeOK == ControlOK /\ RecordsOK /\ HistoryOK

Init ==
    /\ closed = TRUE /\ mode = "async" /\ ptr = FALSE /\ mapped = FALSE
    /\ buf = <<>> /\ disk = <<>> /\ file = <<>>
    /\ worker = "off"
    /\ pc = [t \in Callers |-> "idle"]
    /\ job = [t \in Callers |-> "none"]
    /\ chunk = [p \in Threads |-> <<>>]
    /\ accepted = 0
    /\ lost = [close |-> {}, crash |-> {}, write |-> {}]
    /\ owed = [t \in Callers |-> 0] /\ promised = 0
    /\ together = {} /\ segv = FALSE
    /\ used = [logs |-> 0, opens |-> 0, crashes |-> 0, fails |-> 0]

-----------------------------------------------------------------------------
(* Pieces the handlers share.                                              *)

\* An idle caller is in no function.
Goto(t, label) ==
    /\ pc' = [pc EXCEPT ![t] = label]
    /\ job' = [job EXCEPT ![t] = IF label = "idle" THEN "none" ELSE @]

Call(t, op, label) ==
    /\ pc[t] = "idle"
    /\ op \in Ops[t]
    /\ job' = [job EXCEPT ![t] = op]
    /\ pc' = [pc EXCEPT ![t] = label]

\* Where a caller goes on when xlogger_appender returns to it.
Resume(t) == IF job[t] = "close" THEN "setClosed" ELSE "idle"

\* sg_cond_buffer_async.notifyAll(): heard only by a thread that already waits.
Notified(w) == IF w = "waiting" THEN "lock" ELSE w

\* Mutant: the block is mapped privately.
MapFilePrivate == disk

\* What the mmap file holds.
MapFile == IF mapped THEN buf ELSE disk

\* The kind of record a function passes to xlogger_appender.
KindOf(t) == CASE job[t] = "close" -> "stop"
               [] job[t] = "open"  -> "start"
               [] OTHER            -> "log"

\* xlogger_appender begins with the unlocked test of sg_log_close.
EnterAppender(t, from) ==
    Goto(t, IF closed THEN from ELSE "mode")

\* __log2file: under sg_mutex_log_file the data is appended, or the file does
\* not open, or the write fails, is truncated away and replaced by a message.
LogToFile(data) ==
    \/ /\ file' = file \o data
       /\ UNCHANGED <<lost, used>>
    \/ /\ used.fails < MaxFails
       /\ used' = [used EXCEPT !.fails = @ + 1]
       /\ lost' = [lost EXCEPT !.write = @ \cup Ids(data)]
       /\ \/ file' = file
          \/ /\ ptr \/ ~Crypt
             /\ file' = Append(file, Mark("error"))

\* The records on their way from the buffer to the file.
InFlight == UNION {Ids(chunk[p]) : p \in Threads}

\* LogBuffer::Flush: the whole buffer moves to the caller's AutoBuffer and the
\* block is cleared.
TakeBuffer(p) ==
    /\ chunk' = [chunk EXCEPT ![p] = buf]
    /\ together' = together \cup (Ids(buf) \X InFlight)
    /\ buf' = <<>>

\* appender_flush_sync returns (FileWriter then runs the flush callback).
FlushReturns(t) ==
    /\ promised' = IF owed[t] > promised THEN owed[t] ELSE promised
    /\ owed' = [owed EXCEPT ![t] = 0]

-----------------------------------------------------------------------------
(* xlogger_appender, called by a logging thread, by open and by close.     *)

Log(t) ==
    /\ ~closed
    /\ used.logs < MaxLogs
    /\ Call(t, "log", "mode")
    /\ used' = [used EXCEPT !.logs = @ + 1]
    /\ UNCHANGED <<closed, mode, ptr, mapped, worker, records, owed, promised,
                   together, segv>>

\* The mode is read with no lock, some time after sg_log_close.
ChooseMode(t) ==
    /\ pc[t] = "mode"
    /\ Goto(t, mode)
    /\ UNCHANGED <<closed, mode, ptr, mapped, worker, records, owed, promised,
                   together, segv, used>>

\* __appender_async: a nearly full buffer gets a warning in place of the
\* record; a full one gets nothing.
AppendAsync(t) ==
    /\ pc[t] = "async"
    /\ Goto(t, Resume(t))
    /\ IF ptr /\ Len(buf) < Capacity
       THEN /\ buf' = Append(buf,
                 [id |-> accepted + 1,
                  kind |-> IF Len(buf) >= WarnAt THEN "warn" ELSE KindOf(t)])
            /\ accepted' = accepted + 1
            /\ worker' = IF Len(buf) + 1 >= NotifyAt THEN Notified(worker)
                         ELSE worker
       ELSE UNCHANGED <<buf, accepted, worker>>
    /\ UNCHANGED <<closed, mode, ptr, mapped, disk, file, chunk, lost, owed,
                   promised, together, segv, used>>

\* Mutant: the buffered records are written with the new one, and stay.
FormatSyncAll(t) ==
    /\ pc[t] = "sync"
    /\ ptr \/ ~Crypt
    /\ chunk' = [chunk EXCEPT ![t] =
                   Append(buf, [id |-> accepted + 1, kind |-> KindOf(t)])]
    /\ accepted' = accepted + 1
    /\ Goto(t, "write")
    /\ UNCHANGED <<closed, mode, ptr, mapped, worker, buf, disk, file, lost,
                   owed, promised, together, segv, used>>

\* __appender_sync up to __log2file: the record is formatted with no lock.
FormatSync(t) ==
    /\ pc[t] = "sync"
    /\ ptr \/ ~Crypt
    /\ chunk' = [chunk EXCEPT ![t] =
                   <<[id |-> accepted + 1, kind |-> KindOf(t)]>>]
    /\ accepted' = accepted + 1
    /\ Goto(t, "write")
    /\ UNCHANGED <<closed, mode, ptr, mapped, worker, buf, disk, file, lost,
                   owed, promised, together, segv, used>>

\* The last call of __appender_sync and of appender_flush_sync.
WriteChunk(t) ==
    /\ pc[t] = "write"
    /\ LogToFile(chunk[t])
    /\ chunk' = [chunk EXCEPT ![t] = <<>>]
    /\ Goto(t, Resume(t))
    /\ IF job[t] = "flush" THEN FlushReturns(t) ELSE UNCHANGED <<owed, promised>>
    /\ UNCHANGED <<closed, mode, ptr, mapped, worker, buf, disk, accepted,
                   together, segv>>

-----------------------------------------------------------------------------
(* appender_flush_sync, appender_flush, appender_setmode.                  *)

\* In the synchronous mode there is nothing to do and flush_sync returns.
FlushSyncSkip(t) ==
    /\ pc[t] = "idle" /\ "flush" \in Ops[t]
    /\ mode = "sync"
    /\ promised' = accepted
    /\ UNCHANGED <<program, records, owed, together, segv, used>>

FlushSync(t) ==
    /\ mode # "sync"
    /\ Call(t, "flush", "flush")
    /\ owed' = [owed EXCEPT ![t] = IF ptr THEN accepted ELSE 0]
    /\ UNCHANGED <<closed, mode, ptr, mapped, worker, records, promised,
                   together, segv, used>>

\* Mutant: a small buffer is left for the asynchronous thread.
FlushSyncTakeMuch(t) ==
    /\ pc[t] = "flush"
    /\ IF ptr /\ Len(buf) >= NotifyAt
       THEN TakeBuffer(t) /\ Goto(t, "write") /\ UNCHANGED <<owed, promised>>
       ELSE FlushReturns(t) /\ Goto(t, "idle") /\ UNCHANGED <<chunk, buf, together>>
    /\ UNCHANGED <<closed, mode, ptr, mapped, worker, disk, file, accepted,
                   lost, segv, used>>

FlushSyncTake(t) ==
    /\ pc[t] = "flush"
    /\ IF ptr /\ buf # <<>>
       THEN TakeBuffer(t) /\ Goto(t, "write") /\ UNCHANGED <<owed, promised>>
       ELSE FlushReturns(t) /\ Goto(t, "idle") /\ UNCHANGED <<chunk, buf, together>>
    /\ UNCHANGED <<closed, mode, ptr, mapped, worker, disk, file, accepted,
                   lost, segv, used>>

Flush(t) ==
    /\ pc[t] = "idle" /\ "notify" \in Ops[t]
    /\ worker' = Notified(worker)
    /\ UNCHANGED <<closed, mode, ptr, mapped, pc, job, records, owed, promised,
                   together, segv, used>>

\* sg_thread_async is started when the mode is asynchronous and it is off.
ModeEffect(m) ==
    /\ mode' = m
    /\ worker' = IF m = "async" /\ worker = "off" THEN "lock"
                 ELSE Notified(worker)

SetMode(t) ==
    /\ pc[t] = "idle" /\ "setmode" \in Ops[t]
    /\ \E m \in Modes : ModeEffect(m)
    /\ UNCHANGED <<closed, ptr, mapped, pc, job, records, owed, promised,
                   together, segv, used>>

-----------------------------------------------------------------------------
(* appender_open.                                                          *)

Open(t) ==
    /\ used.opens < MaxOpens
    /\ Call(t, "open", IF closed THEN "map" ELSE "tip")
    /\ used' = [used EXCEPT !.opens = @ + 1]
    /\ UNCHANGED <<closed, mode, ptr, mapped, worker, records, owed, promised,
                   together, segv>>

\* OpenMmapFile (which closes a mapping that is still open) and the LogBuffer
\* over the block, whose contents __Fix recovers, or over fresh heap memory.
OpenMap(t) ==
    /\ pc[t] = "map"
    /\ \E ok \in MapOutcomes :
         /\ mapped' = ok
         /\ buf' = IF ok THEN MapFile ELSE <<>>
         /\ disk' = IF ok THEN <<>> ELSE MapFile
    /\ lost' = [lost EXCEPT !.close = @ \cup (IF mapped THEN {} ELSE Ids(buf))]
    /\ ptr' = TRUE
    /\ Goto(t, "drain")
    /\ UNCHANGED <<closed, mode, worker, file, chunk, accepted, owed, promised,
                   together, segv, used>>

\* sg_log_buff->Flush(buffer), with no lock: the block is cleared before what
\* it held is in the file.
OpenDrain(t) ==
    /\ pc[t] = "drain"
    /\ ptr
    /\ TakeBuffer(t)
    /\ Goto(t, "live")
    /\ UNCHANGED <<closed, mode, ptr, mapped, worker, disk, file, accepted,
                   lost, owed, promised, segv, used>>

\* From here on other threads may log, ...
OpenLive(t) ==
    /\ pc[t] = "live"
    /\ closed' = FALSE
    /\ Goto(t, "setMode")
    /\ UNCHANGED <<mode, ptr, mapped, worker, records, owed, promised, together,
                   segv, used>>

\* ... and from here on the asynchronous thread may write what they log.
OpenMode(t) ==
    /\ pc[t] = "setMode"
    /\ \E m \in Modes : ModeEffect(m)
    /\ Goto(t, IF chunk[t] = <<>> THEN "start" ELSE "begin")
    /\ UNCHANGED <<closed, ptr, mapped, records, owed, promised, together, segv,
                   used>>

\* __writetips2file: formatted through sg_log_buff, then __log2file.
Tip(t, at, mark, next) ==
    /\ pc[t] = at
    /\ ptr \/ ~Crypt
    /\ LogToFile(<<Mark(mark)>>)
    /\ Goto(t, next)
    /\ UNCHANGED <<closed, mode, ptr, mapped, worker, buf, disk, chunk,
                   accepted, owed, promised, together, segv>>

OpenTips(t) ==
    \/ Tip(t, "tip", "opened", "idle")
    \/ Tip(t, "begin", "begin", "recover")
    \/ Tip(t, "end", "end", "start")

\* The block of the last session goes to the file between its two marks.
OpenRecover(t) ==
    /\ pc[t] = "recover"
    /\ LogToFile(chunk[t])
    /\ chunk' = [chunk EXCEPT ![t] = <<>>]
    /\ Goto(t, "end")
    /\ UNCHANGED <<closed, mode, ptr, mapped, worker, buf, disk, accepted, owed,
                   promised, together, segv>>

\* The three lines about the new session are one record.
OpenStart(t) ==
    /\ pc[t] = "start"
    /\ EnterAppender(t, "idle")
    /\ UNCHANGED <<closed, mode, ptr, mapped, worker, records, owed, promised,
                   together, segv, used>>

-----------------------------------------------------------------------------
(* appender_close.                                                         *)

Close(t) ==
    /\ ~closed
    /\ Call(t, "close", "stop")
    /\ UNCHANGED <<closed, mode, ptr, mapped, worker, records, owed, promised,
                   together, segv, used>>

CloseStop(t) ==
    /\ pc[t] = "stop"
    /\ EnterAppender(t, "setClosed")
    /\ UNCHANGED <<closed, mode, ptr, mapped, worker, records, owed, promised,
                   together, segv, used>>

CloseSet(t) ==
    /\ pc[t] = "setClosed"
    /\ closed' = TRUE
    /\ Goto(t, "notify")
    /\ UNCHANGED <<mode, ptr, mapped, worker, records, owed, promised, together,
                   segv, used>>

CloseNotify(t) ==
    /\ pc[t] = "notify"
    /\ worker' = Notified(worker)
    /\ Goto(t, "join")
    /\ UNCHANGED <<closed, mode, ptr, mapped, records, owed, promised, together,
                   segv, used>>

\* Mutant: close does not wait for the asynchronous thread.
CloseNoJoin(t) ==
    /\ pc[t] = "join"
    /\ Goto(t, "wipe")
    /\ UNCHANGED <<closed, mode, ptr, mapped, worker, records, owed, promised,
                   together, segv, used>>

\* if (isruning()) join(): the thread may end between the two.
CloseJoin(t) ==
    /\ pc[t] = "join"
    /\ Goto(t, IF worker = "off" THEN "wipe" ELSE "joining")
    /\ UNCHANGED <<closed, mode, ptr, mapped, worker, records, owed, promised,
                   together, segv, used>>

CloseJoined(t) ==
    /\ pc[t] = "joining"
    /\ worker = "off"
    /\ Goto(t, "wipe")
    /\ UNCHANGED <<closed, mode, ptr, mapped, worker, records, owed, promised,
                   together, segv, used>>

\* memset of the mmap'd block (or delete[] of the heap one) and of the object.
CloseWipe(t) ==
    /\ pc[t] = "wipe"
    /\ ptr
    /\ lost' = [lost EXCEPT !.close = @ \cup Ids(buf)]
    /\ buf' = <<>>
    /\ ptr' = FALSE /\ mapped' = FALSE
    /\ Goto(t, "idle")
    /\ UNCHANGED <<closed, mode, worker, disk, file, chunk, accepted, owed,
                   promised, together, segv, used>>

-----------------------------------------------------------------------------
(* __async_log_thread.                                                     *)

WorkerFlush ==
    /\ worker = "lock"
    /\ IF ptr
       THEN TakeBuffer(Worker) /\ worker' = IF buf = <<>> THEN "check" ELSE "write"
       ELSE worker' = "exit" /\ UNCHANGED <<buf, chunk, together>>
    /\ UNCHANGED <<closed, mode, ptr, mapped, pc, job, disk, file, accepted,
                   lost, owed, promised, segv, used>>

\* Mutant: what cannot be written goes back to the buffer.
WorkerWriteBack ==
    /\ worker = "write"
    /\ \/ file' = file \o chunk[Worker] /\ UNCHANGED buf
       \/ buf' = buf \o chunk[Worker] /\ UNCHANGED file
    /\ chunk' = [chunk EXCEPT ![Worker] = <<>>]
    /\ worker' = "check"
    /\ UNCHANGED <<closed, mode, ptr, mapped, pc, job, disk, accepted, lost,
                   owed, promised, together, segv, used>>

WorkerWrite ==
    /\ worker = "write"
    /\ LogToFile(chunk[Worker])
    /\ chunk' = [chunk EXCEPT ![Worker] = <<>>]
    /\ worker' = "check"
    /\ UNCHANGED <<closed, mode, ptr, mapped, pc, job, buf, disk, accepted,
                   owed, promised, together, segv>>

\* Mutant: the thread ends after one round.
WorkerCheckOnce ==
    /\ worker = "check"
    /\ worker' = "exit"
    /\ UNCHANGED <<closed, mode, ptr, mapped, pc, job, records, owed, promised,
                   together, segv, used>>

WorkerCheck ==
    /\ worker = "check"
    /\ worker' = IF closed THEN "exit" ELSE "prewait"
    /\ UNCHANGED <<closed, mode, ptr, mapped, pc, job, records, owed, promised,
                   together, segv, used>>

\* sg_cond_buffer_async.wait(15 * 60 * 1000)
WorkerWait ==
    /\ worker = "prewait"
    /\ worker' = "waiting"
    /\ UNCHANGED <<closed, mode, ptr, mapped, pc, job, records, owed, promised,
                   together, segv, used>>

\* Mutant: only a notification ends the wait.
WorkerNoTimeout == worker = "waiting" /\ FALSE /\ UNCHANGED vars

WorkerTimeout ==
    /\ worker = "waiting"
    /\ worker' = "lock"
    /\ UNCHANGED <<closed, mode, ptr, mapped, pc, job, records, owed, promised,
                   together, segv, used>>

\* Thread::cleanup sets isended.
WorkerExit ==
    /\ worker = "exit"
    /\ worker' = "off"
    /\ UNCHANGED <<closed, mode, ptr, mapped, pc, job, records, owed, promised,
                   together, segv, used>>

-----------------------------------------------------------------------------
(* The death of the process: the mmap file survives it, nothing else does. *)
(* One thread may have been in the middle of its fwrite.                   *)

Die ==
    /\ \E p \in Threads : \E n \in 0..Len(chunk[p]) :
         LET written == SubSeq(chunk[p], 1, n)
         IN  /\ file' = file \o written
             /\ lost' = [lost EXCEPT !.crash =
                  @ \cup (InFlight \ Ids(written))
                    \cup (IF mapped THEN {} ELSE Ids(buf))]
    /\ disk' = MapFile
    /\ buf' = <<>> /\ ptr' = FALSE /\ mapped' = FALSE
    /\ closed' = TRUE /\ mode' = "async" /\ worker' = "off"
    /\ pc' = [t \in Callers |-> "idle"]
    /\ job' = [t \in Callers |-> "none"]
    /\ chunk' = [p \in Threads |-> <<>>]
    /\ owed' = [t \in Callers |-> 0]
    /\ UNCHANGED <<accepted, promised, together>>

Crash ==
    /\ used.crashes < MaxCrashes
    /\ used' = [used EXCEPT !.crashes = @ + 1]
    /\ Die
    /\ UNCHANGED segv

\* __log2file is next for the thread: when the write fails, __writefile formats
\* its message through sg_log_buff.
AtFile(p) == IF p = Worker THEN worker = "write" ELSE pc[p] \in {"write", "recover"}

\* The steps that use sg_log_buff with no test and no lock.
UsesBuffer(p) ==
    \/ p # Worker /\ pc[p] \in {"drain", "wipe"}
    \/ p # Worker /\ Crypt /\ pc[p] \in {"sync", "tip", "begin", "end"}
    \/ Crypt /\ AtFile(p) /\ used.fails < MaxFails

Segfault(p) ==
    /\ ~ptr
    /\ UsesBuffer(p)
    /\ Die
    /\ segv' = TRUE
    /\ UNCHANGED used

-----------------------------------------------------------------------------

\* What a caller inside a function does next.
Step(t) ==
    \/ ChooseMode(t) \/ AppendAsync(t) \/ FormatSync(t) \/ WriteChunk(t)
    \/ FlushSyncTake(t)
    \/ OpenMap(t) \/ OpenDrain(t) \/ OpenLive(t) \/ OpenMode(t) \/ OpenTips(t)
    \/ OpenRecover(t) \/ OpenStart(t)
    \/ CloseStop(t) \/ CloseSet(t) \/ CloseNotify(t) \/ CloseJoin(t)
    \/ CloseJoined(t) \/ CloseWipe(t) \/ Segfault(t)

Request(t) ==
    \/ Log(t) \/ FlushSyncSkip(t) \/ FlushSync(t) \/ Flush(t) \/ SetMode(t)
    \/ Open(t) \/ Close(t)

WorkerStep ==
    \/ WorkerFlush \/ WorkerWrite \/ WorkerCheck \/ WorkerWait \/ WorkerExit
    \/ Segfault(Worker)

Next ==
    \/ \E t \in Callers : Request(t) \/ Step(t)
    \/ WorkerStep \/ WorkerTimeout
    \/ Crash

Spec == Init /\ [][Next]_vars

\* Every thread that can run does, and a wait ends after 15 minutes.
Fairness ==
    /\ \A t \in Callers : WF_vars(Step(t))
    /\ WF_vars(WorkerStep)
    /\ WF_vars(WorkerTimeout)

FairSpec == Spec /\ Fairness
-----------------------------------------------------------------------------
(* What the appender guarantees.                                           *)

Kept == Ids(buf) \cup Ids(disk)
Lost == lost.close \cup lost.crash \cup lost.write

Distinct(s) ==
    \A i, j \in DOMAIN s : s[i].id = s[j].id /\ s[i].id # 0 => i = j

NoDuplicate ==
    /\ Distinct(file) /\ Distinct(buf) /\ Distinct(disk)
    /\ \A p \in Threads : Distinct(chunk[p])

Separate ==
    /\ Ids(buf) \cap Ids(disk) = {}
    /\ \A p, q \in Threads : p # q => Ids(chunk[p]) \cap Ids(chunk[q]) = {}
    /\ \A p \in Threads : Ids(chunk[p]) \cap Kept = {}
    /\ Ids(file) \cap (Kept \cup InFlight) = {}
    /\ Lost \cap (Kept \cup InFlight \cup Ids(file)) = {}

AllAccounted == Kept \cup InFlight \cup Ids(file) \cup Lost = 1..accepted

\* Every accepted record is in one place only: in the buffer or the mmap file,
\* in one thread's chunk, in the log file (at most once, whatever crashes,
\* restarts and concurrent flushes there were), or lost in a way the code has.
OnePlace == NoDuplicate /\ Separate /\ AllAccounted

\* What makes OnePlace inductive.  A chunk is held only between the step that
\* takes it and the step that writes it, and a mapped file has its contents in
\* the buffer and nowhere else.
ChunkHolders ==
    /\ \A t \in Callers :
         pc[t] \notin {"live", "setMode", "begin", "recover", "write"} =>
             chunk[t] = <<>>
    /\ worker # "write" => chunk[Worker] = <<>>

OneMapFile == mapped => disk = <<>>

RecordsInv == OnePlace /\ ChunkHolders /\ OneMapFile

\* Both flushers take the whole buffer under its lock, so a record still
\* buffered is newer than every record that is in flight or in the file: the
\* only disorder the file can show is between chunks in flight together.
BufferIsNewest ==
    \A new \in Ids(buf), old \in InFlight \cup Ids(file) : old < new

\* When appender_flush_sync has returned, no record accepted before the call
\* is left in the buffer (the log being open: before that, flush_sync finds no
\* buffer and what a crash left waits for open).
FlushLeavesNothingBehind == \A r \in Ids(buf) : r > promised

\* sg_log_buff is never dereferenced while it is NULL: not by a call, and not by
\* the asynchronous thread, whose failed writes use it with no lock; close
\* deletes it only when that thread has ended.
NoSegfault == ~segv

\* The files keep the order of acceptance, across restarts and recoveries too,
\* but for records that were in flight together: two flushers write their chunks
\* in either order, and so do open, with the block of the last session, and the
\* asynchronous thread, which appender_open starts before it writes that block.
\* (Only while the mmap always opens: a session on the heap writes its records
\* before those an older mmap file still holds.)
FileInOrder ==
    \A i, j \in DOMAIN file :
        i < j /\ file[i].id # 0 /\ file[j].id # 0 =>
            file[i].id < file[j].id \/ <<file[i].id, file[j].id>> \in together

\* Under the fair scheduling of the threads, what is accepted is written (or
\* is lost in one of the known ways, or waits in the mmap file of a process
\* that died): nothing stays in the buffer or in a chunk for ever.
EveryRecordSettles ==
    \A r \in 1..(MaxLogs + 2 * MaxOpens) :
        (r \in Ids(buf) \cup InFlight) ~> (r \in Ids(file) \cup Lost \cup Ids(disk))

\* Every call returns (or its process dies): close waits for the asynchronous
\* thread, and the thread always ends.
CallsReturn == \A t \in Callers : (pc[t] # "idle") ~> (pc[t] = "idle")

\* The threads, the locks and the calls implement the abstract log: what a
\* crash takes is in flight, what is in the mmap file comes back, and no step
\* moves a record any other way.
Durable == INSTANCE DurableLog WITH kept <- Kept, flight <- InFlight,
                                    written <- Ids(file), lost <- Lost
ImplementsDurableLog == Durable!Spec

-----------------------------------------------------------------------------
(* What comments and documents say of the appender, and the code does not. *)

\* appender.cc:569, :578, :580: close records the end of the session, tells the
\* asynchronous thread to write and waits until it has: no record of the
\* session is zeroed with the buffer.
CloseWritesEverything == lost.close = {}

\* appender.cc:526, :528: what stands between the marks "begin of last log" and
\* "end of last log" is the log of the last session: between the first mark and
\* the recovered block nothing is written.
LastLogFollowsItsMark ==
    \A t \in Callers :
        pc[t] = "recover" /\ used.fails = 0 => file[Len(file)] = Mark("begin")
=============================================================================
