# KLog in TLA+

Models, model-checking configurations and proofs for KLog, an Android logging
library: a Kotlin front end that queues messages to one writer thread, and a
native appender (a descendant of Tencent's xlog) that keeps records in an
mmap'd block and moves them to log files. Paths are relative to `src/`;
`J/` is `klog/src/main/java/com/lzx/klog/` and `N/` is `klog/src/main/jni/`.

## The system

```
 application threads                         native threads (NLog)
   KLog / LogImpl / LogConfig                       |
        | v,d,i,w,e, setters, flush ...             | filelog.cc, logimpl.cc
        v                                           |
   FileWriter  --queue-->  WriteLogThread           |
   (BundleMessage pool)        | JNI                |
                               v                    v
              N/log/appender.cc: xlogger_appender, open, close, flush ...
                 LogBuffer over an mmap'd block   <--> sg_thread_async
                 (LogCrypt, micro-ecc)                    |
                               +------> log files <-------+
                                          ^
     thread "logkit" (cleaner), submitLog: compress, delete, send
```

| Component | State it keeps | Operations | What is hard | What makes it correct |
|---|---|---|---|---|
| Appender (`N/log/appender.cc`) | `sg_log_close`, `sg_mode`, `sg_log_buff`, the mmap'd block, `sg_logfile`, the asynchronous thread | open, close, append in two modes, flush, flush_sync, setmode | three locks, unlocked flags, chunks carried between two critical sections, crashes | no record duplicated or lost silently, order, no use of a buffer that is gone, close ends |
| Thread, Condition (`N/comm/unix/thread/`) | the shared RunnableReference: count, tid, flags | start, delayed and periodic start, cancel, join, kill, destructor | who frees the reference; flags that outlive a run | no use after the last release; every thread released once; a delay is a delay |
| Mutex, SpinLock, scopes, Condition, MutexVector (`N/comm/unix/thread/`, `N/comm/thread/`) | owner, count, `islocked_`, kept notification, `m_vec`, `m_count` | lock, trylock, timedlock, unlock, wait, notify, the lock shared by number | a wait lets go of a mutex whose scope says locked; failures; destruction under users | scopes and locks agree; nobody sleeps who may go in |
| Singleton (`N/comm/singleton.h`; not built) | a shared_ptr and a mutex for each type, the list of helpers | Instance, Release, ReleaseAll | reads without the mutex of a pointer written in two halves | one object, one helper; a holder's object lives |
| FileWriter, WriteLogThread (`J/writer/FileWriter.kt`) | `mInited`, `mQueue`, `lock`, `condition` | init, post, take, handle | tryLock on both sides, lost wakeups, a library that does not load | order; every message is handled |
| BundleMessage (`J/util/BundleMessage.kt`) | the free list `sPool`, the fields of each object | obtain, recycleUnchecked | objects reused across threads, partial resets | no object in two places; no stale field |
| LogService (`J/LogService.kt`) | a flag per call, the thread's permit | flush, flushBlocking, submitLog | stale permits, timeouts | returns |
| LogBuffer, LogCrypt (`N/log/`) | header, length field, bytes, unencrypted remainder | Write, Flush, recovery (`__Fix`), GetPeriodLogs | torn writes, capacity, hours that wrap | what is recovered is what was written |
| AutoBuffer, PtrBuffer (`N/comm/`) | memory, length, cursor, capacity | about thirty members | they combine freely | a string of bytes with a cursor |
| MmapFile (`N/comm/mmap_util.cc`, `klogmapfile.cpp`) | handle, data, `error_` | open, close | sticky error, a file without its size | a failure does not zero what an older process left |
| LogFile (`appender.cc` 110-190, 245-305) | current path, last time, size limit | choose name, open, rotate | clock that goes back, 100 files a minute, a file deleted while open | size, order, no silent loss |
| LogManager and archive (`J/util/`) | files on disk | clean up, compress, select, zip | deletion while the appender writes, two archivers | what was written stays readable |
| LogConfig, LogImpl, KLog (`J/impl/`, `J/api/`) | configuration, levels | apply, setters, log | two copies of the level, updated through a queue | both sides end with the same values |
| MessageQueue (`N/comm/messagequeue/`; not built) | messages, handlers, nested loops, results of calls | post, cancel, wait, run, break, create, end, invoke | reentrancy, freed messages, waits across loops, shared results | no message freed under its handlers; waits end; a callback is told once |
| micro-ecc (`N/micro-ecc-master/`) | words, points | make key, shared secret, sign, verify | carries, exceptional points, refused draws | the group's definition |
| JNI, formatting, console, helpers | - | - | little | - |

## Modules

| Module | Models | Extends / instances |
|---|---|---|
| `Appender` | the native appender with its asynchronous thread, callers and crashes | instances `DurableLog` |
| `DurableLog` | abstract: what the appender promises of records | |
| `FileWriter` | queue, writer thread, object pool and flushBlocking | instances `Mailbox` |
| `Mailbox` | abstract: an ordered mailbox with immutable messages | |
| `LogBuffer` | the block of memory behind the appender, cell by cell | |
| `AutoBuffer` | the members of AutoBuffer and PtrBuffer, as operators | |
| `Buffers` | a program that calls them | extends `AutoBuffer`, instances `ByteStrings` |
| `ByteStrings` | abstract: strings of bytes with a cursor | |
| `XlogFile` | blocks in a log file, deaths, and their reader | extends `AutoBuffer` |
| `Session` | configuration, its messages, the level filter, open and close with the mapped file | |
| `LogFiles` | the log directory with appender, cleaner and submitLog | |
| `Thread` | the class Thread with Condition | |
| `Locks` | Mutex, SpinLock, the scopes that hold them, Condition | |
| `MutexVector` | the lock that is shared by number | |
| `Singleton` | the singletons with their helpers | |
| `MessageQueue` | the message queue with nested loops | |
| `AsyncResult` | calls with a result through the queue | |
| `Ecc` | word arithmetic and the ladder | |
| `Handshake` | the constructor of LogCrypt, draw by draw | extends `Ecc` |
| `Signing` | public keys, signatures, verification | extends `Handshake` |
| `MCAppender`, `MCFileWriter`, `MCLogBuffer`, `MCSession`, `MCLogFiles`, `MCThread`, `MCMessageQueue` | who calls what, and the sets of values, in the instances TLC checks | extend the modules they check |
| `AppenderProofs`, `FileWriterProofs`, `LocksProofs`, `LogBufferProofs`, `LogFilesProofs`, `MessageQueueProofs`, `SessionProofs`, `ThreadProofs` | theorems | extend their module (`MessageQueueProofs` also `AsyncResult`, `LocksProofs` also `MutexVector` and `Singleton`, `LogBufferProofs` also `Buffers` and `XlogFile`) and `TLAPS` |

How they fit: `Session` takes the queue between Java and the writer thread as
the mailbox that `FileWriter` is shown to implement; `Appender` takes the block
as a sequence of records, which `LogBuffer` is about, and the log files as one
sequence, which `LogFiles` is about; `LogFiles` takes the block as one record;
`XlogFile` is what is inside of one file.

### Appender

State. `closed`, `mode`, `ptr` and `worker` are `sg_log_close`, `sg_mode`,
"`sg_log_buff` is not NULL" and where the asynchronous thread is. `buf` holds the
records in the block, `disk` those of an mmap file that is not mapped, `file`
the log files as one sequence, `chunk[p]` what thread `p` has taken from the
buffer and not written. `pc`/`job` say where each caller is and in which
exported function. The rest is history for the properties.

Granularity. A critical section of `sg_mutex_buffer_async` or
`sg_mutex_log_file` is one step, since nothing inside waits for another thread;
every unlocked read, and every point between two critical sections, is a label
of its own. So `sg_log_close` is tested in one step (403), `sg_mode` read in the
next (439) and acted on in a third; `sg_log_close` is cleared in one step (516)
and the mode set, which starts the thread, in another (517); and a chunk is taken
in one step and written in another. Actions follow the code's
order: `Open` / `OpenMap` / `OpenDrain` / `OpenLive` / `OpenMode` / `OpenTips` /
`OpenRecover` / `OpenStart` are the statements of `appender_open`; `Close...`
those of `appender_close`; `Worker...` those of `__async_log_thread`. A
notification reaches the thread only in state `waiting`.

Data. A record is an id (its place in the order of acceptance) and a kind; the
buffer's limits are counted in records. The three lines about a new session
are one record. A record that the warning replaces (line 386) is kept under its
id with kind `warn`. `LogToFile` covers a file that does not open and an
`fwrite` that fails, is truncated away and replaced by a message.
`Crypt` is the flag: with encryption the formatting of a record reads the
`LogBuffer` object, so a NULL pointer is a crash (`Segfault`). `UsesBuffer` lists
the steps that use the pointer with no test and no lock: those of callers, and
for the asynchronous thread as for callers the message after a failed `fwrite`
(233, reached from 356 and 560). `together` is history: which pairs of records were
ever in two chunks, or in a chunk and a buffer that was just taken, at once.

Crash. The mmap'd block survives the process; chunks and heap buffers do not.
One thread may have been in the middle of its `fwrite`, so a prefix of one
chunk may have reached the file.

### FileWriter

`queue`, `pool`, `fields`, `owner` (the `ReentrantLock`), `pc`, `hand` (the
object a thread has obtained) and `current` (the object being handled). One
action per step of `postMessage`, of the loop of `WriteLogThread.run` and of
`handleMessage`. `FlushBlocking` has the `AtomicBoolean` of the call (`locked`)
and the thread's `LockSupport` permit. A message is `what`, its callback, and
`by`, which stands for the fields only some messages set. `obtain` and the last
part of `recycleUnchecked` are atomic (they are synchronized on the class);
`Fill` and `WriterReset` are not under that lock and are steps of their own.

Left out: spurious returns of `parkNanos` and the parks of the queue's own lock
that might use up the permit (both make `flushBlocking` return early in more
ways than the model has, or not at all).

### LogBuffer

One thread uses the block at a time (the appender's lock), so what interleaves
here is the death of the process with every single write to memory. `header` and
`cells` are the mmap'd block and survive; `length`, `remain` and the record in
hand belong to the `LogBuffer` object and do not. `Reset`, `Copy`, one
`Rewrite` per cell and `Commit` are `LogBuffer::Write`; `FlushTake`,
`ClearHeader` and `ClearData` are `Flush`; `Open` is the constructor with
`__Fix`, after which `appender_open` flushes what was recovered.

Data. The unit is a cell; the header takes the first. A raw cell is the part of a
record `<<id, part, parts>>`; an encrypted one is the k-th of a group of `Block`
cells and can be read only when the whole group is there, as TEA's groups of 8
bytes. `Decoded` is the decoder of log files, which is not part of the
repository: it decrypts full groups and copies the remainder. `ReadBack` is a
reader of files as `GetPeriodLogs` is one: it goes by the length in the header,
not by the object's, and takes a block only when the end mark stands behind that.
`memset` is taken
to go upwards, so that the header is cleared first. A record that does not fit gets
no id: nothing is promised of it, and `cut` remembers that there was one. A size
stands for a record after compression.

Configuration. A valid public key (`key`, with the compression it implies) is
chosen by each session. `isCryptFlag` is another flag, which every
`appender_open` sets, also while the log is open; each flush picks its value.
Without it the header and the trailer are removed from the chunk, an encrypted
chunk cannot be decoded, and the record that ends a full block loses its end.
`ChunkDecodes` says so, and that a chunk with its header is passed over as a whole
when no cell was left for the end mark: after a record that was cut (the header
counts it whole), or in a block filled to its end.

### XlogFile

A file is a sequence of cells: a header (one cell with magic, both hours and the
length), data, and the end mark, which is a 0. The writer appends whole blocks of
the asynchronous format (hours set when the buffer is begun and when it is
flushed) and of the synchronous one (`CryptSyncLog`, through `AutoBuffer`), bare
data when `isCryptFlag` is off, and, when the process dies inside of its write, a
prefix of a block. A block that a dead process left in the mapped buffer is
written by the next one, maybe hours or a midnight later. A file stays open over
midnight; it is left when it is too large and by a new session that does not
begin in the minute of its name (here: not in its hour).

`GetPeriodLogs` is the reader: `BlocksFrom` is its loop over positions with the
search byte by byte after something that is no block, the rest its case
distinction on hours. `PeriodFound` compares its answer for every pair of hours
with the blocks that were written whole. Three things are excepted, each of which
the code does get wrong or cannot know: a cut off block whose length happens to
end on a 0 of a later one (`Misled`), a file that goes on after midnight, and
everything behind a block with a header and without a key, where `GetLogHour`
fails and the loop ends. Nothing in KLog calls `GetPeriodLogs`.

### AutoBuffer, Buffers, ByteStrings

A buffer is a record of its memory, cursor and length, a member function an
operator from the object before to the object after. `Buffers` calls them in any
order with arguments their assertions allow, on two AutoBuffers, also from one to
the other, or on one PtrBuffer. `ByteStrings` says what a call promises of the
content, without memory or capacity; the variable `call` tells it which call was
made. It promises nothing of a read from an offset other than the cursor: there
`Read` (autobuffer.cc:154-170, ptrbuffer.cc:77-86) computes its length from the
offset and copies from the cursor. `malloc` is taken to succeed. `BuffersAssumption` says only
that the block has a size, that what callers write are strings over the two bytes,
and that an AutoBuffer always has another one to be moved to or from.

### Session

Threads call apply, the setters of level and size, log, close and open; each
setter stores first and posts its message afterwards, and apply reads the values
one by one (`job` is what a thread has still to post). The writer thread handles
messages in order: level filter, `appender_open` with each step of
`OpenMmapFile` (create, size, map, fill) and its failure, `appender_close`. The
mmap file is `none`, `empty`, `sized` (a hole) or `backed`; its content clean,
dirty, or left over from a dead process. The process may die between any two
steps. A function of FileWriter posts only once `mInited` is set. `meant` is
history: for level and size the values the setting may end with, one unless a
thread stores a value while another holds one it has not posted.

### LogFiles

The directory is a function from names (kind, minute, index) to contents and
mtime. The appender chooses a name, opens, tests size and existence before each
chunk, writes, closes, with failures; the cleaner and submitLog go file by file,
reading, writing, renaming and deleting in separate steps. `handle` is
`ghost` while the appender has a file open that has no name any more. `fate`
records for every record where it went.

The cleaner's failures are those its code tells apart. An exception while the
archive is opened or closed is caught by `compressLog`, which keeps the source
(`CompressThrows`); one while reading or writing is swallowed
(`CompressBreaksOff`); deleting the old archive and `renameTo` are two steps, and
what `renameTo` returns is not looked at (`RenameToFails`). `cleaner.failed`
remembers the last two, after which the source is deleted like any other
(`fate` is then `botched`). A `File.delete` that fails leaves the directory that a
death in its place would, and is left out.

### Thread

`ref` is the RunnableReference, `posix` the threads created. Functions under
`splock` are one step; `join` and `kill` are two, because they release it
before they use `tid()`. A delayed run tests its flag, tries the kept
notification, waits with a timeout, and so on, each a step. The timed wait ends by a
notification, by its time or early (`WaitSpurious`: `pthread_cond_timedwait` may
return with neither). `anyway_notify` is the notification Condition keeps.

### Locks, MutexVector, Singleton

`Locks` has one Mutex, one SpinLock and a Condition on the Mutex, and threads
with scopes (`BaseScopedLock`) on their stacks. A pthread function that waits is
a label: the thread has called it, and its return, with or without success, is a
step of its own. So a Condition's wait is entering, waiting, locking again and
clearing the kept notification, and during it the scope says locked while
another thread has the mutex; `HoldersAgree` counts what each thread holds from
its scopes and its label. `islocked` takes the lock to look and lets go again. A
static mutex may be destroyed while threads use it; nothing is promised then.

`MutexVector` is built from those: every function holds `m_mutex` for all it
does but the wait, and is one step. `holds` is where a thread is, and `woken`
that it was notified and has yet to look at the number again.

`Singleton` writes each `boost::shared_ptr` in the two halves it consists of,
which is how an unlocked copy can meet it. `does` is where a thread is in
Instance, Release and ReleaseAll, with the pointer it copied and the helpers it
has taken out of the list.

### MessageQueue, AsyncResult

One queue, its loops as a stack (a handler may wait for another message in a
loop of its own), messages as wrappers that are created once and freed, handlers
that install, uninstall, post and break. Every function holds the one mutex, so a
function is a step; `CancelAndWait`, `ReleaseNewMessageQueue` and the end of a
queue are several. Messages are numbered in the order of their creation, which is
the order of the list, so the list is a set of numbers; the handlers that are
installed are a set in the order of the constant that names them.

`AsyncResult` is the wrapper shared by a caller and the function in its message:
who lets go last destroys it and, if nobody has called, tells the callback so.
The queue is reduced to what `MessageQueue` shows: it takes a message, calls it
and deletes it, or the message is cancelled. The three specialisations differ in
when there is a result to give.

### Ecc, Handshake, Signing

The word operations are written word by word with their carries; the curve is
y^2 = x^3 + 13 over the prime 241 with two words of four bits and 211 points,
which keeps what the code relies on for secp256k1 (prime 2^k - omega with omega
of one word, order as long as the words, no point with x = 0). Points are
multiplied with integers modulo p; `ArithmeticAgrees` is what justifies that.
`Handshake` makes each random draw a step that may fail or be refused. `Signing`
adds public keys, both ways to sign, and verification with Shamir's trick; the
hash that RFC 6979 iterates gives any number.

## Runs

All runs use `CHECK_DEADLOCK FALSE`: a process whose bounds are spent and whose
threads sleep is a legitimate end.

| Run | Instance | Shows |
|---|---|---|
| `appender_core` | two callers (the writer thread: log, open, close, flush; a native thread: log), 1 log each, 2 opens, 1 crash, 1 failed write | a flush leaves nothing older than itself in the buffer; the buffer is newest; the file is in order but for what was in flight together; implementation of `DurableLog` |
| `appender_live` | fair; one caller without flush_sync, the mmap may fail, 1 log, 2 opens, 1 crash, 1 failed write | no NULL dereference, the asynchronous thread's included; every record settles; every call returns |
| `appender_modes` | two callers, one of which changes the mode and closes at will; both modes; mmap may fail; 1 failed write | the inductive invariant of the proofs, outside what Java does |
| `appender_recovery` | the two callers of `appender_core`, 1 crash | violation, see below |
| `appender_close` | one caller, 2 logs | violation, see below |
| `buffer_block` | LogBuffer: 9 cells, warning at 7, groups of 3, records of 1, 2 and 4 cells, 5 records that fit, 1 that does not, 2 crashes. Buffers: contents up to 3 bytes, units of 2, 5 bytes of memory. XlogFile: hours 0 to 2, data of 2 cells, files of 6, 1 torn block | a flush hands out what was written; what a crash costs; header and object agree; the reader finds the hours asked for; the buffers implement `ByteStrings` |
| `writer_queue` | fair and busy; two posters, five objects, pool of 1, the library may not load | no aliasing; no stale field; every message is taken; flushBlocking returns; implementation of `Mailbox` |
| `writer_lostwakeup` | fair; one poster | violation, see below |
| `files` | 2 names a minute, minutes 0 to 2, 3 records, limit of 1 record, each of: a roll, a submit, a failure, a death, a clock set back, two of them together | compression keeps records through deaths and failures; size, order, losses with a cause; submitLog keeps the current file |
| `thread` | Thread: fair; an owner with every function, another thread that cancels and kills; 2 starts, 1 kill, 1 failed start. Locks: two threads with two scopes on the mutex and one on the spin lock. MutexVector: three threads, three numbers. Singleton: two threads, two types, two objects | lifetimes, releases, delays with early returns of the wait, cancellation; scopes and locks agree; the shared lock; one helper for one object |
| `messagequeue` | MessageQueue: fair; two threads and the handlers, 2 messages, 2 nested loops, two handlers. AsyncResult: a thread and a handler, 2 results, 2 turns. Signing with Handshake and Ecc: every private key, 8 second draws, 2 tries; 6 keys, 3 hashes and 2 masks to sign with | the list, freed messages, CancelAndWait, WaitMessage; waits end; callbacks and results; both sides compute one secret, words compute integers, signatures agree with their definition |
| `session` | one thread configures and logs, the other closes, opens and sets the level too; three calls each, 1 crash, 1 failure | level and size agree; the block is freed as it was obtained; leftovers are not zeroed unread |

In `buffer_block`, `thread` and `messagequeue` the modules do not interact;
`MCLogBuffer`, `MCThread` and `MCMessageQueue` let one of them move while the
others stay where they start. The type invariants of the modules with proofs are
parts of their inductive invariants and are not checked a second time.

Bounds. Appender: capacity 4, warning at 3 and notification at 2 records keep
the three thresholds apart, and the start and stop records of a session with a
restart reach all of them; two opens with one crash give a close followed by an
open, a crash followed by a recovery, and an open of an open log; failures do not
interact. FileWriter: five objects with a pool of 1 let the pool overflow while
two threads and the writer each hold an object; `MaxQueue` lets one more post in
while the writer sleeps and nobody posts, so that the bound is never what keeps
the writer asleep. LogBuffer: eight cells behind the header are two groups and a
remainder, sizes 1, 2 and 4 let records share a group, span two and fill the
block, and two crashes let the garbage of one session lie behind the data of the
next. XlogFile: two whole blocks, or a torn one before a whole one and bare data;
7 cells with 3 hours, and 8 with 2 hours and 2 torn blocks, were checked as well
and hold. Buffers: a write that grows, one that does not, overlapping moves and a
cut in the PtrBuffer all happen below 3 bytes. LogFiles: two names a minute reach
the last name with two records; two events are what it takes for one archiver to
meet one cause. Thread: two starts are what a stale flag needs. MessageQueue: two
loops are an outer and an inner one. Locks: a thread can hold the mutex twice,
once in each scope, while the other waits on the condition. MutexVector: two
threads inside with one number and a third that waits with another. Singleton:
an object that is released and made again while a third pointer to it is copied.
AsyncResult: two turns are a call and a call after it. Session: `RaceThenReopen`
lets the threads race in the first process, where the second has two calls, and
after a death leaves what remains of the calls with levels and sizes as they are:
a setter that races with apply, open or another setter, and a death and a reopening
at any step, but not every race twice. Ecc: the small curve has two words, so a
carry between words, and the keys 1, n-2, n-1 at which the ladder fails.

`NoSegfault` is checked in asynchronous mode, where only one thread opens and
closes: what Java does; that other threads may log meanwhile is in the proof. With
another thread closing, or in synchronous mode, the code does reach a NULL
`sg_log_buff` (lines 339, 371, 592), which `appender_modes` includes as `Segfault`.
`FileInOrder` is checked, and proved, for an mmap that always opens: a session on
the heap writes its records before those an older mmap file still holds. Two chunks
in flight may be written in either order, which the property says by `together`; in
`appender_core` both cases occur, two flushers and an open with the thread it has
started. `RecordsInv` is checked without crash and reopening; with both it
is proved, and `ImplementsDurableLog` says it of the abstract log in `appender_core`.

Fairness. Weak fairness of each thread's own steps: the scheduler runs every
thread that can run, and no lock here is held across a wait. `WorkerTimeout`,
`ParkTimeout` and `WaitTimeout` are fair because these waits are timed; in
`MessageQueue` delays elapse and handlers return. Crashes, requests, spurious
wakeups and exceptions are not fair. `BusySpec` adds that somebody goes on
logging, without which a lost wakeup is not repaired (`writer_lostwakeup`).

## Findings

1. `CloseWritesEverything`: close notifies the thread and waits for it, but the
   thread flushes before it tests `sg_log_close` (353, 358); records accepted in
   between, the stop record among them, are zeroed with the block (588).
2. `FlushIsHandled`: the wakeup of a last post can be lost, and its flush stays
   queued until somebody posts again. `MessagesLeave` shows that it is handled
   then.
3. `LastLogFollowsItsMark`: open writes what the last session left between the
   marks "begin of last log" and "end of last log" (526, 528), but has already
   cleared `sg_log_close` (516) and started the thread (517). A record of another
   thread can be written after the first mark and before the recovered block.

What else the models show, as exceptions in a property or in their actions:

Appender and FileWriter
- `appender_flush_sync` (560) returns while a chunk the asynchronous thread took
  earlier is not yet in the file (taken at 353, written at 356), although
  `ILogService.kt:36` promises that all cached log is output.
- The test at 358, the wait at 360 and the notification at 579 share no lock, so
  close can wait up to 15 minutes for a thread that sleeps; `CallsReturn` shows
  that it does return. The exit handler can close while the writer thread closes,
  and both join, which `thread.h:286` asserts never happens.
- A permit left by a timed-out `flushBlocking` (`LogService.kt:118`) lets the
  next one return before its flush (121), against `ILogService.kt:46`.
- Above four fifths of the block records become warnings but are still appended,
  and nothing stops at its end: the trailer does not fit (log_buffer.cc:175) and
  the assertion at ptrbuffer.cc:117 fails. Readers then find no end mark where the
  header says it is (log_crypt.cc:304-319) and pass over the whole block, all
  records in it included; so it is when the last record was cut.

LogFiles
- An exception while the cleaner copies a file into its archive is swallowed
  (`LogCompress.kt:47`), and the result of `renameTo` ignored (`:100`, after the old
  archive has been deleted at `:98`); `LogManager.kt:131` deletes the source all
  the same, and its records are lost (`botched` in `ArchivingKeeps`).
- The cleaner and submitLog at the same time can destroy each other's archive,
  which is why `ArchivingKeeps` takes them one at a time.
- So can two submitLogs in one minute: the first deletes the first file of the
  minute once it is archived, the appender takes the free name for the next
  records, and the second submitLog empties the archive of that name before it
  fills it again (`LogZipCompress.java:68`). The records of the first are on the
  server at most. `ArchivingKeeps` therefore speaks of the first submitLog. The
  cleaner only takes files of earlier minutes, whose names are not used again
  while the clock does not go back, and may run as often as it likes.
- A submitLog that is not the first of its minute can also delete the file that
  is being written. The first leaves gaps among the names of the minute; after a
  close the appender fills them, while a later name with room remains. The second
  submitLog takes the file in the gap for the current one and selects the later
  name for deletion, and the appender comes back to that name when the gap is full
  (`SubmitUtils.kt:54` says the file being edited is not compressed).
  `SubmitKeepsCurrent` speaks of the first submitLog.
- A record written between an archiver's read and its deletion is lost.
- A name is used again in its minute after its file was archived, and the second
  archive replaces the first.
- A clock set back after a close makes `__openlogfile` open an empty path; chunks
  are dropped until the clock has caught up.
- When the directory is too large, a newer large file is deleted and older small
  ones stay (`LogManager.kt:140` says the oldest goes).
- submitLog selects its files before it flushes (`LogService.kt:126`, `:128`).

Thread
- The routines do not look at what the timed wait returns, so that after an early
  return of it a delayed or periodic target runs before its time (thread.h:422,
  438). `DelayHonoured` excepts this and nothing else.
- kill tests `isinthread`, unlocks, and then reads the `tid()` of what may be a
  newer thread; join reads `tid()` after it unlocked.
- A `pthread_create` that fails leaves the tid of the thread just detached, which
  is then released twice (excepted in `ReleasedOnce`).

Locks, MutexVector, Singleton
- `Mutex::islocked` says false to the owner of a recursive mutex, whom trylock
  lets in again.
- `notifyAll(true)`, which takes no lock, is not heard by a wait that has tested
  the kept notification and not yet reached `pthread_cond_wait`.
- The `notifyAll` in MutexVector's Lock and TryLock wakes threads that cannot go
  in: with the new number held they find what they found before.
- A copy of a singleton's pointer while it is released, or while it is made, can
  be left with an object it has no share in, and that is deleted under it
  (`torn` in `HolderKeeps`).

MessageQueue
- `AsyncResult<R&>` with a callback whose message is cancelled before it is
  called gives `*result` of a NULL pointer to the callback (message_queue.h:421,
  477).
- A cancelled message's callback runs under the mutex of all queues, and deadlocks
  if it uses one.
- RunningMessageID reads the back of an empty list when the loop has not begun.
- A periodic message that is cancelled or replaced is freed while its handlers
  run, and lets go of its waiters.
- CancelMessage does not notify, so a nested WaitMessage sleeps up to ten minutes.
- The second of two concurrent CancelAndWait returns without waiting; a queue
  whose thread fails to start deletes a lock that is still held.

Session
- Messages handled before the native open, apply's own log among them, are
  dropped; so are those handled before the library is loaded.
- An mmap file of size 0, left by a death between its creation and its sizing, is
  never used and never removed.
- `error_` stays set after a failed open. The block then mapped is taken for a
  heap buffer and vice versa; leftovers are read only by a later session.
- Two threads that set the same value at once can leave the two sides different:
  the field has the one, the native side the other (`meant` in `ConfigAgrees`),
  until somebody sets it again.

Keys and signatures
- The private keys 1, n-2 and n-1 give no point and are drawn again.
- `vli_mmod_fast` loses a carry when p or more is in the words (`CarryLost`; on
  the real curve this takes one of 2^32 + 977 numbers out of 2^256).
- r is stored unreduced and s is not tested for 0 when signing; verification
  rejects both. An addition of two points with the same x in Shamir's trick loses
  the sum, and a valid signature is rejected.
- Synchronous blocks are never encrypted: the code that would is commented out.

## Proofs

What is proved holds for every value of the constants that satisfies the
module's named assumption, which says that they have their types and are not
empty where the code says so. A hypothesis beyond that is named in the theorem.

| Theorem | States | Hypotheses | Inductive invariant |
|---|---|---|---|
| `TypeCorrect`, `RecordsInvariant`, `OnePlaceAlways` (`AppenderProofs`) | every accepted record is in one place | | `RecordsInv` |
| `AppenderIsDurableLog` | `ImplementsDurableLog` | `MmapOpens` | `RecordsInv`, `MmapInv` |
| `BufferStaysNewest` | `BufferIsNewest` | `MmapOpens`, `NeverSync` | + `AsyncInv`, `NewestInv` |
| `FlushKeepsItsPromise` | `FlushLeavesNothingBehind` | `MmapOpens`, `NeverSync` | + `AsyncInv`, `FlushInv` |
| `BufferIsThereWhenUsed` | `NoSegfault` | `NeverSync`, `OneOwner` | `AsyncInv`, `OwnerInv` |
| `FileStaysInOrder` | `FileInOrder` | `MmapOpens`, `NeverSync` | + `NewestInv`, `OrderInv` |
| `LifetimesAlways` (`ThreadProofs`) | `Lifetimes` | | with `OneAtATime` |
| `DelayAlwaysHonoured` | `DelayHonoured` | | `DelayInv` |
| `ReleasedOnceAlways` | `ReleasedOnce` | `OneOwner` | `ReleaseInv` |
| `HeaderAgreesAlways` (`LogBufferProofs`) | `HeaderAgrees` | | `Agrees`, `OutFits` |
| `ChunkAlwaysDecodes`, `CrashAlwaysKeeps` | `ChunkDecodes`, `CrashKeeps` | | `DecodeInv` |
| `BuffersAlwaysAreStrings` | `BuffersAreStrings` | | `BuffersInv` |
| `PeriodAlwaysFound` | `PeriodFound` | | `XlogInv` |
| `ObjectsAreInOnePlace`, `MessagesArePostedAsAsked` (`FileWriterProofs`) | `NoAliasing`, `PostedAsAsked` | | `ObjectsInv` |
| `FileWriterIsMailbox` | `ImplementsMailbox` | | `ObjectsInv` |
| `BufferAlwaysMatchesMap`, `LeftoversAlwaysSurvive` (`SessionProofs`) | `BufferMatchesMap`, `LeftoversSurvive` | | `MapInv`, `ReadInv` |
| `ConfigAlwaysAgrees` | `ConfigAgrees` | | `ConfigInv` |
| `HoldersAlwaysAgree` (`LocksProofs`) | `HoldersAgree` | | `LocksInv` |
| `VectorAlwaysAgrees` | `VectorAgrees` | | with its types |
| `HoldersAlwaysKeep` | `HolderKeeps` | | `SingletonInv` |
| `HandledAlwaysAlive`, `CancelAndWaitAlwaysStops`, `WaitsReturnDone` (`MessageQueueProofs`) | `HandledIsAlive`, `CancelAndWaitStops`, `WaitReturnsDone` | | `QueueInv` |
| `ResultsAlwaysTold` | `ResultsAreTold` | | `ResultInv` |
| `LossesAlwaysHaveCauses`, `FilesAlwaysInOrder` (`LogFilesProofs`) | `LossesHaveCauses`, `FilesInOrder` | | `LogFilesInv` |
| `ArchivingAlwaysKeeps` | `ArchivingKeeps` | | + `ArchivingInv` |
| `SubmitAlwaysKeepsCurrent` | `SubmitKeepsCurrent` | | + `ArchivingInv`, `CurrentInv` |

The hypotheses. `MmapOpens`: OpenMmapFile succeeds; on the heap a crash takes
what is buffered and an older session may still wait in the mmap file, so the
order of the two is lost. `NeverSync`: asynchronous mode, the only one Java
opens the appender in; in synchronous mode records overtake the buffer by
design. `OneOwner` (of the appender): one thread opens, flushes, sets the mode and
closes and any number of others log or call appender_flush, which is what the queue
makes of the writer thread; another's setmode could start the asynchronous thread
again between the join and the deletion of the buffer. `OneOwner` (of a
Thread): one caller starts, joins and destroys, the others cancel and kill; two
threads that join at once release a thread twice.

`AppenderProofs`. `OnePlace` says that an accepted record is in exactly one
place: the buffer or the mmap file, one thread's chunk, the log file (once), or
one of the recorded losses. It is not inductive. A step that overwrites a chunk
would lose what is in it, so `ChunkHolders` says which labels may hold one;
mapping the file replaces the buffer by the file's contents, so `OneMapFile`
says that nothing is in both. `RecordsInv` is the conjunction, and
`appender_modes` checks it with TLC. The proof has a lemma per shape of step (a
record appended to the buffer or to a chunk, the buffer taken, a chunk written
or failed, the block remapped, wiped, a process that dies) that works on `Ids` of
sequences, and one case per action that cites the lemma of its shape.

The refinement. `Durable` is instantiated with what is buffered (block or
mmap file), what threads hold and what is in the files; each shape of step is
one of its actions. For the order of records `NewestInv` compares everything
that is still kept with everything that has left, and `FlushInv` follows one
flush_sync: what it promised at its call is still ahead of its take, or gone
from the buffer behind it. `OwnerInv` follows where the owner is between open and
close, against the others' labels that use the pointer, and says of the
asynchronous thread that it has a chunk only while there is a buffer and has ended
when close deletes it. `OrderInv` says that buffer and chunks are sorted, and that
what may still be written comes after all that is in the file, or was in flight
together with what it does not come after. Proving `BufferIsThereWhenUsed` showed
that `OpenDrain` and the `Flush` of appender_close use the pointer as well (505,
511, 592), which the model had not counted as uses, and that the owner has to be
the only one who sets the mode.

`ThreadProofs`. The reference lives as long as the object or a thread uses it,
and no longer. A start counts one more user, which is right only when no earlier
thread is still using the reference, so `OneAtATime` (the thread that runs is the
one `tid()` names, and `isended` says whether there is one) goes with it. One
lemma per action; those that only move a thread between labels share
`RoutineStep`. `DelayInv` says for each label of a delayed routine what the flag
and the kept notification of Condition can be: a notification left over from an
earlier run is gone when the next one begins to wait, or that run is cancelled.
`ReleaseInv` counts for each thread how often it must have been released by now,
from where the owner is in `join` and from what the reference says.

`LogBufferProofs`. For every size of the block, of its groups and of the
records, where TLC has one block of nine cells in groups of three. What holds
between two writes is not enough to assume at the next one: `Agrees` says the
same at every step of a write and adds that the magic goes with the key and that
the remainder lies in the block; `OutFits` says how long `out` is while it is
copied back, and that with a key it never exceeds the block, which deflate
guarantees. The rest is arithmetic: the remainder after a write is that of the
sum of the old one and what is added (`ModAdds`), proved from the uniqueness of
remainders for any size of a group.

That a flush takes, and a crash leaves, the records that were written is
`DecodeInv`: `IInv` with seven parts. Cells have their type; the header announces
the block's length, but for a record that was cut; the cells of the remainder are
raw (`RawRemainder`), so that they can be encrypted again; what `Recoverable`
finds is what was written, but while groups go back (`Recovered`). The part that
makes it inductive is `CopyingBack`: what is in `out`, how much of it is back in
the block, that the cells not yet overwritten show the same raw parts, and that
the text the block will have once all of it is back (`TextWith`) holds the records
of before. A commit then adds one record, or none when it was cut
(`JoinedIs`, `RecordsOneMore`); a crash meets a text that is the expected one up
to the last full group and may be unreadable behind it (`TornIs`), and unreadable
parts only take away records that end there (`RecordsTorn`). Below them are lemmas
about the decoder: what a cell reads depends on its own group only (`InGroup`,
`GroupsShift`, `TextBelow`, `TextBehind`), `CryptAsyncLog` undone gives back each
part (`CryptIs`), and the k-th of a set does not change when larger numbers join
it (`NthBelow`, `NthLast`). `Decoded` picks the records as the k-th cell in which
one ends, which says the same as a filter and can be reasoned about.

`Buffers` in the same module. That every call does to the content what
`ByteStrings` promises, for every unit of growth, size of the block and set of
strings. `BuffersInv` is what lets one call rely on the calls before it: cursor
within content, content within memory, on every object; an AutoBuffer not above
the bound and the PtrBuffer's memory the whole of its block. Each member function
has a lemma on what it leaves of bytes, cursor and length (`WriteAtPuts`,
`ResizedBegins`, ...), which for the functions that grow rests on a fact about units:
the memory that `FitSize` asks for covers what is to be written (`UnitsCover`).
Above them is one lemma per kind of call and one step per action.

`XlogFile` in the same module. That the reader finds what covers the hours, for any
number of blocks in a file, of hours in a day and of torn blocks. `XlogInv` is what
the writer keeps: beside the types, every block lies where it was written, whole and
behind the one before (`Apart`), and while the file is not older than a midnight the
hours of the blocks do not go back (`InTime`); the last needs that the hour of the
block in the buffer is replaced when it is flushed, since the block may be older
than its file. The reader's loop is a recursive function, so the proof first shows
that there is one: it looks only ahead (`LooksAhead`) and a file ends, hence by
induction from the end (`MetExists`, on the least element of a set of numbers,
`LeastOf`). `MetAll` says, again from the end of the file backwards, that a loop
that stands at no inner cell of a block meets every readable block behind it, in
order: at a rest or bare data it goes on cell by cell, at a block it jumps to its
end. What is left is the case distinction on hours, about sorted sequences of
numbers only (`AroundIs`, `FirstIsAround`, `EndIs`). `XlogAssumption` says that
there are hours, that data has a bound, and that no header is a byte of data.

`FileWriterProofs`. `ObjectsInv` says for every object which of pool, queue and
hands has it, that a thread's hand is full exactly at the labels between `obtain`
and `add`, and what `recycleUnchecked` has reset of an object that is free. The
mailbox is the queue with what is in the writer's hand; the two steps of a
failed handler are stutters.

`SessionProofs`. `MapInv` relates file, map and `error_` at every step of
`OpenMmapFile`; `ReadInv` adds that the open that maps leftovers has read them
before it may zero anything. `ConfigInv` is an argument about a value on its way:
LogConfig's value, or where threads set it at once one of theirs (`meant`), is with
a thread that will post it, or it is the last of its kind in the queue, or it has
arrived (`OnItsWay`); no thread holds another value (`SettingsInv`), and each step
of a setter, of apply and of the writer thread passes it on.

`LocksProofs`. How often a thread has the mutex is a count of its scopes that say
so, corrected by where the thread is (`Levels`), so the invariant has to know that
place: the scope a thread locks is not locked yet, the one it waits with stays
locked (`InItsScope`). One lemma per shape of step: a scope gets a lock or lets go
of one, the mutex is taken or given behind the scopes' back, only labels move.
`VectorAgrees` is inductive as it stands, but for its types.
`SingletonInv` counts for every object who has a share of it: the static pointers
and the threads, a thread that publishes an object being one (`SharersOf`,
`CountOK`). `DoesOK` says what a thread knows of the static pointer where it is:
who copies it without the mutex and was not torn so far has read a px that is still
there with its pn. `HelperOK` says that a helper is somewhere unless there is no
object and none is being made; it is moved between the list and the hands of
threads, one lemma per kind of move (`HelperTaken`, `ListTaken`, `HelperDeleted`).

`MessageQueueProofs`. `QueueInv` has four parts. `MessagesOK`: a post names its
own message unless that was taken over, and a message in the list that is not
periodic has not been handled. `LoopOK` and `LoopsApart`: what a loop handles
exists and was counted, and no two of the nested loops handle the same message
unless it is periodic. `HandlersOK`: a handler that was stopped is uninstalled
and runs nowhere. `ClientOK`: a client waits for the outermost loop that runs
what it asked about, or for the message to be deleted. A call may delete many
messages, so the lemmas are again one per shape: messages are deleted while the
loops go on (`StepKeeps`, `QuietKeeps`), a client begins to wait (`BlockKeeps`),
an iteration of a loop begins (`TurnKeeps`). `ResultInv` says that whether a
wrapper has told its callback, and whether its result is valid, follows from how
often its function has returned, and counts its references: the caller that has
it and the message.

`LogFilesProofs`. For all sizes and ages of files, numbers of names in a minute,
and any number of events, where TLC has one of each. `LogFilesInv` has
three arguments in it. What is in memory is newer than what is in any file
(`MemoryOK`), the file that is open has the latest minute of all names that are
there or that an archiver is still going to use (`TimesOK`, while the clock does
not go back), and so a chunk that is written keeps the files in order
(`OrderOK`). The archivers only rearrange: whatever they put into the directory
is empty or a copy of a file that is there, under another name of the same minute
(`Rearranged`); one lemma shows that every such step keeps order and sizes. And
a file that lost its name has lost one record or is about to (`GhostsOK`), which
is counted against the deletions that hit an open file. `OpenLogFile` has a
lemma for each way out of it (kept, chosen anew, failed, dropped), because a
record that goes to a name goes to one with room or to the last of its minute.
`ArchivingInv` follows the copy. While the cleaner compresses, its source stays,
and what had landed in the source is in the temporary file when it is renamed
and in the archive when the source is deleted, unless a swallowed exception or
`renameTo` came between (`CleanerCopies`). An archive that
is replaced must not hold anything else: while the clock does not go back it is a
copy of a source that is still there (`ArchivesAreCopies`), in the first run there
is none (`FirstRun`), nor is there for the first submitLog (`FirstSubmit`). That
the claim needs these conditions was found by failing to prove it without them:
TLC then gave the two submitLogs above. `SubmitKeepsCurrent` needed its condition
for the same reason. `CurrentInv` says what makes the first submitLog safe: before
it, the names of a minute are used in turn, each when the one before is full, so
that the first of the listing is the file that is open (`NamesInTurn`); from then
on, what it still deletes is there, is not open, and is neither of the names
`MakeLogfilename` can choose: one with room, a gap, or the last of the minute
(`DeletesOthers`, `MadeName`).

Only model-checked: what is about `Ecc`, `Handshake` and `Signing`
(`ArithmeticAgrees`, `SharedSecretAgrees`, `SignaturesAgree`), for which the constants
would have to be a group (a prime, a curve over it, the order of its base point) and
every recursive function over words, rounds and rungs its own induction, down to
nonlinear arithmetic; and all liveness, since temporal reasoning under fairness is
outside what the prover does.

## Not modelled

- Formatting, console, stack traces, JNI string conversion, printf wrappers:
  wording and layout, which no property depends on.
- The recursion guard of `xlogger_appender`. An assertion that fails inside
  `Flush` logs, and so enters it again under the buffer's lock, up to ten levels
  deep.
- The settings `apply` only copies (paths, keys, logcat), hooks, the chunking of
  long messages in KLog.
- fetchLatestLogFile and the listings of LogService, which only read; the feedback
  directory; decompression, which nobody calls.
- The sequence number in a header, which nobody reads; TEA and deflate beyond what
  they do to lengths.
- What a formatted write's arguments become when they change after the call
  (`FileWriter.kt:439`): the writer thread formats them.
- Spurious wakeups of the message queue's conditions, its ANR timer, several
  queues at once; `timedlock` beyond that it may fail; Singleton's intrusive
  variant and its weak pointers.
- Compressed points (their square root needs a prime that no small curve of this
  shape has), the other curves and the assembler variants of micro-ecc.
- Files that are not built (`appender_bk.cc`, `mmap_util_bk.cc`, `ifaddrs.c`, ...)
  and the empty demo application.

## Plan

Done: the modules and proofs above. What would come next:
the recursion guard with the chunking of KLog; a composition of
`Appender` with `LogFiles` instead of two abstractions of each other.
