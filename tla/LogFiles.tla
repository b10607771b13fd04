------------------------------ MODULE LogFiles ------------------------------
(***************************************************************************)
(* The log directory and the three parties that change it: the appender,   *)
(* which names, rotates and writes the .txt files (log/appender.cc), the   *)
(* thread "logkit", which deletes and compresses old files                 *)
(* (util/LogManager.kt, util/LogCompress.kt), and a caller of submitLog,   *)
(* which compresses every file but the current one and sends the latest    *)
(* (util/submit/SubmitUtils.kt, util/compress/LogZipCompress.java).        *)
(*                                                                         *)
(* Time is in minutes, the resolution of a file name.  The size of a file  *)
(* is its number of records; the block of memory before the files holds    *)
(* one record (module Appender is about that block).                       *)
(***************************************************************************)
EXTENDS Naturals, Sequences, FiniteSets, SequencesExt

CONSTANTS
    FilesPerMinute,  \* 100 in the code
    MaxFileSize,     \* sg_max_file_size, 0: no limit
    Gap,             \* timeCompressGap
    Expiry,          \* DAYS_DELETE
    CacheMax,        \* LogConfig.getLogCacheMaxSize
    UploadMax,       \* UPLOAD_FILE_SIZE
    Nums,            \* values of submitLog's fileNum
    MaxMinute, MaxRecords,  \* bounds of the exploration, also on what may
    Limits, MaxEvents       \* happen: of each kind of event, and together

ASSUME LogFilesAssumption ==
    /\ FilesPerMinute \in Nat \ {0} /\ Nums \subseteq Nat
    /\ {MaxFileSize, Gap, Expiry, CacheMax, UploadMax} \subseteq Nat
    /\ {MaxMinute, MaxRecords, MaxEvents} \subseteq Nat
    /\ Limits \in [{"rolls", "submits", "fails", "deaths", "backs"} -> Nat]

Minutes == 0..MaxMinute
Records == 1..MaxRecords
NoRecord == 0
Names == [kind : {"txt", "zip", "tmp"}, min : Minutes, idx : 0..(FilesPerMinute - 1)]
NoPath == [kind |-> "none", min |-> 0, idx |-> 0]
Txt(m, i) == [kind |-> "txt", min |-> m, idx |-> i]
As(f, kind) == [f EXCEPT !.kind = kind]

VARIABLES
    now,      \* the clock
    files,    \* the directory: from the names in use to contents and mtime
    logged,   \* how many records there have been
    buffer,   \* the record in memory
    chunk,    \* the record on its way to the file
    handle,   \* sg_logfile: NULL, open, or open on a file without a name
    lastPath, \* sg_last_file_path
    lastTime, \* s_last_time
    cleaner,  \* the run of rollCacheLogs
    submit,   \* the call of submitLog
    fate,     \* what became of every record
    count     \* of the bounded events

appenderVars == <<logged, buffer, chunk, handle, lastPath, lastTime>>
vars == <<now, files, appenderVars, cleaner, submit, fate, count>>

\* failed: the archive being made is not a copy of its file (history).
Resting == [pc |-> "idle", todo |-> {}, file |-> NoPath, sum |-> 0, failed |-> FALSE]
NoSubmit == [pc |-> "idle", todo |-> {}, file |-> NoPath, num |-> 0, sum |-> 0,
             mark |-> NoRecord, result |-> <<>>, report |-> {}]

Init ==
    /\ now = 0 /\ files = <<>> /\ logged = 0
    /\ buffer = NoRecord /\ chunk = NoRecord
    /\ handle = "closed" /\ lastPath = NoPath /\ lastTime = 0
    /\ cleaner = Resting /\ submit = NoSubmit
    /\ fate = [r \in Records |-> "none"]
    /\ count = [rolls |-> 0, submits |-> 0, fails |-> 0, deaths |-> 0, backs |-> 0,
                unlinks |-> 0]

Exists(f) == f \in DOMAIN files
Held(dir) == UNION {ToSet(dir[f].recs) : f \in {g \in DOMAIN dir : g.kind # "tmp"}}
OnDisk == Held(files)
Put(f, recs) == files' = [g \in DOMAIN files \cup {f} |->
                            IF g = f THEN [recs |-> recs, mtime |-> now] ELSE files[g]]
Counted(what) == count' = [count EXCEPT ![what] = @ + 1]
Allowed(what) ==
    /\ count[what] < Limits[what]
    /\ count.rolls + count.submits + count.fails + count.deaths + count.backs < MaxEvents

\* File.delete: the open file loses its name and stays open.
Unlink(f, why) ==
    /\ files' = [g \in DOMAIN files \ {f} |-> files[g]]
    /\ fate' = [r \in Records |->
                  IF why # "archived" /\ r \in OnDisk \ Held(files') THEN why ELSE fate[r]]
    /\ IF handle = "open" /\ f = lastPath /\ Exists(f)
       THEN handle' = "ghost" /\ Counted("unlinks")
       ELSE UNCHANGED <<handle, count>>
    /\ UNCHANGED <<now, logged, buffer, chunk, lastPath, lastTime>>

-----------------------------------------------------------------------------
(* The clock                                                               *)

Tick == /\ now < MaxMinute /\ now' = now + 1
        /\ UNCHANGED <<files, appenderVars, cleaner, submit, fate, count>>

SetBack == /\ Allowed("backs") /\ now > 0 /\ now' = now - 1
           /\ Counted("backs")
           /\ UNCHANGED <<files, appenderVars, cleaner, submit, fate>>

-----------------------------------------------------------------------------
(* The appender                                                            *)

Log == /\ logged < MaxRecords /\ buffer = NoRecord
       /\ logged' = logged + 1 /\ buffer' = logged'
       /\ UNCHANGED <<now, files, chunk, handle, lastPath, lastTime, cleaner, submit,
                      fate, count>>

\* Mutant: a missing file has no size.
FileTooLargeIfThere(f) ==
    Exists(f) /\ MaxFileSize > 0 /\ Len(files[f].recs) > MaxFileSize

\* A file that is not there counts as too large.
FileSizeTooLarge(f) ==
    \/ ~Exists(f)
    \/ MaxFileSize > 0 /\ Len(files[f].recs) > MaxFileSize

\* Mutant: the name does not say which of the hours it is.
MakeLogfilenameShort == Txt(now % 2, 0)

\* The first name of the minute that is free, or the one before it when that
\* file has room; the last name when none is free.
MakeLogfilename ==
    LET free == {i \in 0..(FilesPerMinute - 1) : ~Exists(Txt(now, i))}
        first == CHOOSE i \in free : \A j \in free : i <= j
    IN  IF free = {} THEN Txt(now, FilesPerMinute - 1)
        ELSE IF first > 0 /\ ~FileSizeTooLarge(Txt(now, first - 1))
             THEN Txt(now, first - 1) ELSE Txt(now, first)

\* The clock has gone back: the file used last, whatever the clock says.
PathToOpen == IF now < lastTime THEN lastPath ELSE MakeLogfilename

\* Log2File, first half: __openlogfile.  fopen("") fails; memcpy and s_last_time
\* do not ask whether fopen succeeded.
OpenLogFile ==
    /\ chunk = NoRecord /\ buffer # NoRecord
    /\ buffer' = NoRecord
    /\ IF handle # "closed" /\ (lastPath = NoPath \/ ~FileSizeTooLarge(lastPath))
       THEN chunk' = buffer /\ UNCHANGED <<files, handle, lastPath, lastTime, fate, count>>
       ELSE LET path == PathToOpen
            IN  /\ IF now < lastTime THEN UNCHANGED <<lastPath, lastTime>>
                   ELSE lastPath' = path /\ lastTime' = now
                /\ \/ /\ path # NoPath
                      /\ handle' = "open" /\ chunk' = buffer
                      /\ IF Exists(path) THEN UNCHANGED files ELSE Put(path, <<>>)
                      /\ UNCHANGED <<fate, count>>
                   \/ /\ path = NoPath \/ Allowed("fails")
                      /\ handle' = "closed" /\ chunk' = NoRecord
                      /\ fate' = [fate EXCEPT ![buffer] = "failed"]
                      /\ IF path = NoPath THEN UNCHANGED count ELSE Counted("fails")
                      /\ UNCHANGED files
    /\ UNCHANGED <<now, logged, cleaner, submit>>

\* An archiver has read the file and has not deleted it yet.
BeingArchived(f) ==
    \/ cleaner.file = f /\ cleaner.pc \in {"rename", "move", "delete"}
    \/ submit.file = f /\ submit.pc = "delete"

\* Log2File, second half: __writefile.
WriteFile ==
    /\ chunk # NoRecord
    /\ chunk' = NoRecord
    /\ \/ /\ handle = "open"
          /\ Put(lastPath, Append(files[lastPath].recs, chunk))
          /\ fate' = [fate EXCEPT ![chunk] =
                        IF BeingArchived(lastPath) THEN "late" ELSE "written"]
          /\ UNCHANGED count
       \/ /\ handle = "ghost"
          /\ fate' = [fate EXCEPT ![chunk] = "ghost"]
          /\ UNCHANGED <<files, count>>
       \/ /\ Allowed("fails") /\ Counted("fails")
          /\ fate' = [fate EXCEPT ![chunk] = "failed"]
          /\ UNCHANGED files
    /\ UNCHANGED <<now, logged, buffer, handle, lastPath, lastTime, cleaner, submit>>

\* appender_close; s_last_time keeps its value.
CloseLogFile ==
    /\ chunk = NoRecord /\ handle # "closed"
    /\ handle' = "closed" /\ lastPath' = NoPath
    /\ UNCHANGED <<now, files, logged, buffer, chunk, lastTime, cleaner, submit, fate, count>>

\* The process dies; the next one starts with fresh variables.  The record in
\* memory is in the mmap file and survives, the one being written does not.
Die ==
    /\ Allowed("deaths") /\ Counted("deaths")
    /\ handle' = "closed" /\ lastPath' = NoPath /\ lastTime' = 0
    /\ chunk' = NoRecord
    /\ fate' = IF chunk = NoRecord THEN fate ELSE [fate EXCEPT ![chunk] = "failed"]
    /\ cleaner' = Resting /\ submit' = NoSubmit
    /\ UNCHANGED <<now, files, logged, buffer>>

-----------------------------------------------------------------------------
(* LogManager.rollCacheLogs                                                *)

CleanerOnly == UNCHANGED <<now, files, appenderVars, submit, fate, count>>
CleanerAt(pc) == cleaner.pc = pc

RollCacheLogs ==
    /\ CleanerAt("idle") /\ Allowed("rolls") /\ Counted("rolls")
    /\ cleaner' = [cleaner EXCEPT !.pc = "roll", !.todo = DOMAIN files]
    /\ UNCHANGED <<now, files, appenderVars, submit, fate>>

\* lastModified is 0 when the file is gone; a .zip without a record in it is
\* smaller than 200 bytes.
Older(f, age) == Exists(f) => now > files[f].mtime + age
IsInvalidFile(f) ==
    Older(f, Expiry) \/ f.kind = "tmp" \/ (f.kind = "zip" /\ files[f].recs = <<>>)
ToCompress(f) == Older(f, Gap) /\ f.kind = "txt" /\ f.min # now

Done(f) == [cleaner EXCEPT !.pc = "roll", !.todo = @ \ {f}]

RollDelete(f) ==
    /\ CleanerAt("roll") /\ IsInvalidFile(f)
    /\ Unlink(f, "expired")
    /\ cleaner' = Done(f) /\ UNCHANGED submit

RollKeep(f) ==
    /\ CleanerAt("roll") /\ ~IsInvalidFile(f) /\ ~ToCompress(f)
    /\ cleaner' = Done(f) /\ CleanerOnly

RollCompress(f) ==
    /\ CleanerAt("roll") /\ ~IsInvalidFile(f) /\ ToCompress(f)
    /\ cleaner' = [cleaner EXCEPT !.pc = "read", !.file = f, !.failed = FALSE]
    /\ CleanerOnly

\* LogCompress.compress, first half: a copy under a temporary name.  A source
\* that has gone meanwhile is archived as an empty directory.
Source == IF Exists(cleaner.file) THEN files[cleaner.file].recs ELSE <<>>
PutTmp(recs) == Put(As(cleaner.file, "tmp"), recs)
CompressOnly == UNCHANGED <<now, appenderVars, submit, fate>>

CompressRead ==
    /\ CleanerAt("read")
    /\ PutTmp(Source)
    /\ cleaner' = [cleaner EXCEPT !.pc = "rename"]
    /\ CompressOnly /\ UNCHANGED count

\* An exception while reading or writing is swallowed: the archive has what was
\* copied before it, and nobody is told.
CompressBreaksOff ==
    /\ CleanerAt("read") /\ Allowed("fails") /\ Counted("fails")
    /\ \E n \in 0..Len(Source) : PutTmp(SubSeq(Source, 1, n))
    /\ cleaner' = [cleaner EXCEPT !.pc = "rename", !.failed = TRUE]
    /\ CompressOnly

\* Mutant: an exception while the archive is opened is swallowed as well.
CompressNeverThrows ==
    /\ CleanerAt("read") /\ Allowed("fails") /\ Counted("fails")
    /\ UNCHANGED files
    /\ cleaner' = [cleaner EXCEPT !.pc = "rename"]
    /\ CompressOnly

\* One while the archive is opened or closed is not: the source is kept.
CompressThrows ==
    /\ CleanerAt("read") /\ Allowed("fails") /\ Counted("fails")
    /\ \/ UNCHANGED files
       \/ \E n \in 0..Len(Source) : PutTmp(SubSeq(Source, 1, n))
    /\ cleaner' = [Done(cleaner.file) EXCEPT !.file = NoPath]
    /\ CompressOnly

\* renameZip: without a temporary file nothing, else the old archive is deleted ...
RenameZip ==
    /\ CleanerAt("rename")
    /\ IF Exists(As(cleaner.file, "tmp"))
       THEN /\ files' = [g \in DOMAIN files \ {As(cleaner.file, "zip")} |-> files[g]]
            /\ cleaner' = [cleaner EXCEPT !.pc = "move"]
       ELSE /\ cleaner' = [cleaner EXCEPT !.pc = "delete"]
            /\ UNCHANGED files
    /\ CompressOnly /\ UNCHANGED count

\* ... and the temporary file takes its name.
RenameTo ==
    /\ CleanerAt("move")
    /\ LET tmp == As(cleaner.file, "tmp")
           zip == As(cleaner.file, "zip")
       IN  /\ Exists(tmp)
           /\ files' = [g \in (DOMAIN files \ {tmp}) \cup {zip} |->
                          IF g = zip THEN files[tmp] ELSE files[g]]
    /\ cleaner' = [cleaner EXCEPT !.pc = "delete"]
    /\ CompressOnly /\ UNCHANGED count

\* What renameTo returns is not looked at.
RenameToFails ==
    /\ CleanerAt("move") /\ Allowed("fails") /\ Counted("fails")
    /\ cleaner' = [cleaner EXCEPT !.pc = "delete", !.failed = TRUE]
    /\ CompressOnly /\ UNCHANGED files

DeleteSource ==
    /\ CleanerAt("delete")
    /\ Unlink(cleaner.file, IF cleaner.failed THEN "botched" ELSE "archived")
    /\ cleaner' = [Done(cleaner.file) EXCEPT !.file = NoPath] /\ UNCHANGED submit

\* overflowCallback: the listing sorted by mtime, newest first.  What is kept
\* is the listing, so the order is that of the moment of the sort.
OverflowCallback ==
    /\ CleanerAt("roll") /\ cleaner.todo = {}
    /\ cleaner' = [cleaner EXCEPT !.pc = "overflow", !.sum = 0,
                   !.todo = {<<f, files[f].mtime>> : f \in DOMAIN files}]
    /\ CleanerOnly

Size(f) == IF Exists(f) THEN Len(files[f].recs) ELSE 0
Newest(todo) == {x \in todo : \A y \in todo : y[2] <= x[2]}
Overflows(f) == cleaner.sum + Size(f) > CacheMax

OverflowItem(x) ==
    /\ CleanerAt("overflow") /\ x \in Newest(cleaner.todo)
    /\ IF Overflows(x[1])
       THEN Unlink(x[1], "overflowed")
            /\ cleaner' = [cleaner EXCEPT !.todo = @ \ {x}]
            /\ UNCHANGED submit
       ELSE /\ cleaner' = [cleaner EXCEPT !.todo = @ \ {x}, !.sum = @ + Size(x[1])]
            /\ CleanerOnly

RollEnd ==
    /\ CleanerAt("overflow") /\ cleaner.todo = {}
    /\ cleaner' = Resting /\ CleanerOnly

Cleaner ==
    \/ RollCacheLogs \/ CompressRead \/ CompressBreaksOff \/ CompressThrows
    \/ RenameZip \/ RenameTo \/ RenameToFails \/ DeleteSource
    \/ OverflowCallback \/ RollEnd
    \/ CleanerAt("roll") /\ \E f \in cleaner.todo :
         RollDelete(f) \/ RollKeep(f) \/ RollCompress(f)
    \/ CleanerAt("overflow") /\ \E x \in cleaner.todo : OverflowItem(x)

-----------------------------------------------------------------------------
(* LogService.submitLog                                                    *)

SubmitAt(pc) == submit.pc = pc
SubmitOnly == UNCHANGED <<now, files, appenderVars, cleaner, fate, count>>

\* Of two files with the same minute the one written last comes first: the list
\* was sorted by mtime before, and a file just created is the newest.
Before(f, g) ==
    \/ f.min > g.min
    \/ /\ f.min = g.min
       /\ \/ files[f].mtime > files[g].mtime
          \/ /\ files[f].mtime = files[g].mtime
             /\ files[g].recs # <<>>
             /\ \/ files[f].recs = <<>>
                \/ Last(files[f].recs) > Last(files[g].recs)

TextFiles == {f \in DOMAIN files : f.kind = "txt"}
FirstText == {f \in TextFiles : \A g \in TextFiles \ {f} : ~Before(g, f)}

\* Mutant: the file that comes last is taken for the current one.
SubmitLogOldest(num) ==
    /\ SubmitAt("idle") /\ Allowed("submits") /\ Counted("submits")
    /\ \E skipped \in IF TextFiles = {} THEN {NoPath}
                      ELSE {f \in TextFiles : \A g \in TextFiles \ {f} : ~Before(f, g)} :
         submit' = [NoSubmit EXCEPT !.pc = "zip", !.num = num, !.mark = logged,
                    !.todo = TextFiles \ {skipped}]
    /\ UNCHANGED <<now, files, appenderVars, cleaner, fate>>

\* getLatestNLogsZip lists the files; the first text file is the current one.
SubmitLog(num) ==
    /\ SubmitAt("idle") /\ Allowed("submits") /\ Counted("submits")
    /\ \E skipped \in IF TextFiles = {} THEN {NoPath} ELSE FirstText :
         submit' = [NoSubmit EXCEPT !.pc = "zip", !.num = num, !.mark = logged,
                    !.todo = TextFiles \ {skipped}]
    /\ UNCHANGED <<now, files, appenderVars, cleaner, fate>>

\* LogZipCompress.compress: FileOutputStream empties the archive first ...
ZipOpen(f) ==
    /\ SubmitAt("zip") /\ Put(As(f, "zip"), <<>>)
    /\ submit' = [submit EXCEPT !.pc = "copy", !.file = f, !.todo = @ \ {f}]
    /\ UNCHANGED <<now, appenderVars, cleaner, fate, count>>

\* ... and an exception for a file that has gone leaves it empty.
ZipCopy ==
    /\ SubmitAt("copy")
    /\ IF Exists(submit.file)
       THEN /\ Put(As(submit.file, "zip"), files[submit.file].recs)
            /\ submit' = [submit EXCEPT !.pc = "delete"]
       ELSE /\ submit' = [submit EXCEPT !.pc = "zip", !.file = NoPath]
            /\ UNCHANGED files
    /\ UNCHANGED <<now, appenderVars, cleaner, fate, count>>

\* So does one while it is read or written, with what was copied before.
ZipBreaksOff ==
    /\ SubmitAt("copy") /\ Allowed("fails") /\ Counted("fails")
    /\ Exists(submit.file)
    /\ \E n \in 0..Len(files[submit.file].recs) :
          Put(As(submit.file, "zip"), SubSeq(files[submit.file].recs, 1, n))
    /\ submit' = [submit EXCEPT !.pc = "zip", !.file = NoPath]
    /\ UNCHANGED <<now, appenderVars, cleaner, fate>>

ZipDelete ==
    /\ SubmitAt("delete") /\ Unlink(submit.file, "archived")
    /\ submit' = [submit EXCEPT !.pc = "zip", !.file = NoPath]
    /\ UNCHANGED cleaner

\* The selection: the listing by name, newest first, until num files are taken
\* or the archives exceed the limit.
SelectList ==
    /\ SubmitAt("zip") /\ submit.todo = {}
    /\ submit' = [submit EXCEPT !.pc = "select", !.todo = DOMAIN files]
    /\ SubmitOnly

SelectItem(f) ==
    /\ SubmitAt("select") /\ submit.num > 0
    /\ f \in submit.todo /\ \A g \in submit.todo : g.min <= f.min
    /\ submit' =
         IF f.kind # "txt" /\ submit.sum + Size(f) > UploadMax
         THEN [submit EXCEPT !.pc = "flush", !.todo = {}]
         ELSE [submit EXCEPT !.todo = @ \ {f}, !.num = @ - 1,
                 !.result = Append(@, f),
                 !.sum = @ + (IF f.kind = "txt" THEN 0 ELSE Size(f))]
    /\ SubmitOnly

SelectEnd ==
    /\ SubmitAt("select") /\ (submit.num = 0 \/ submit.todo = {})
    /\ submit' = [submit EXCEPT !.pc = "flush", !.todo = {}, !.num = 0]
    /\ SubmitOnly

\* flushBlocking and the callback of the second flush: the buffer has been
\* flushed since.  Then submitFeedback, which skips what it cannot open.
Feedback ==
    FoldLeft(LAMBDA acc, f :
               IF Exists(f) /\ acc.size + Size(f) <= UploadMax
               THEN [size |-> acc.size + Size(f), recs |-> acc.recs \cup ToSet(files[f].recs)]
               ELSE acc,
             [size |-> 0, recs |-> {}], submit.result)

SubmitFeedback ==
    /\ SubmitAt("flush")
    /\ buffer = NoRecord \/ buffer > submit.mark
    /\ chunk = NoRecord \/ chunk > submit.mark
    /\ submit' = [submit EXCEPT !.pc = "done", !.report = Feedback.recs]
    /\ SubmitOnly

SubmitReturn == /\ SubmitAt("done") /\ submit' = NoSubmit /\ SubmitOnly

Submit ==
    \/ \E num \in Nums : SubmitLog(num)
    \/ ZipCopy \/ ZipBreaksOff \/ ZipDelete \/ SelectList \/ SelectEnd \/ SubmitFeedback \/ SubmitReturn
    \/ SubmitAt("zip") /\ \E f \in submit.todo : ZipOpen(f)
    \/ SubmitAt("select") /\ \E f \in submit.todo : SelectItem(f)

-----------------------------------------------------------------------------

Appender == Log \/ OpenLogFile \/ WriteFile \/ CloseLogFile
Next == Tick \/ SetBack \/ Appender \/ Die \/ Cleaner \/ Submit
Spec == Init /\ [][Next]_vars

-----------------------------------------------------------------------------
(* Properties                                                              *)

\* A record that reached a file is in a text file or an archive at every moment of
\* its compression, also when the process dies there or compression throws, unless
\* it was too old, beyond the limit of the directory, or in a file whose copy broke
\* off or whose archive could not be renamed: compressLog deletes such a file all
\* the same (fate "botched").  The cleaner fills a temporary file and renames it
\* (LogCompress.compress): it keeps the records however often it runs while the
\* clock does not go back, and its first run whatever the clock does.  submitLog
\* empties the archive before it fills it and frees names that the appender uses
\* again in the same minute (getLatestNLogsZip, LogZipCompress.compress): a second
\* one can empty the archive of the first.
ArchivingKeeps ==
    (\/ count.submits = 0 /\ (count.rolls <= 1 \/ count.backs = 0)
     \/ count.rolls = 0 /\ count.submits <= 1) =>
        \A r \in Records : fate[r] = "written" => r \in OnDisk

\* No record that is taken from memory is lost without a cause of its own: a
\* file that loses its name takes at most the one that was about to be written,
\* since the next one asks whether the file is there, and only a failed call, a
\* death or a clock that goes back drops one (__openlogfile, __log2file).
LossesHaveCauses ==
    /\ Cardinality({r \in Records : fate[r] = "ghost"}) <= count.unlinks
    /\ (count.fails + count.deaths + count.backs = 0) =>
           \A r \in Records : fate[r] # "failed"

\* While the clock does not go back, a file exceeds the limit by one record at
\* most, unless the names of the minute are used up, and a later record is in a
\* file of the same or a later minute: the order of names is the order of what is
\* in them (__openlogfile, __make_logfilename, compareFileTime).
FilesInOrder ==
    count.backs = 0 =>
        /\ MaxFileSize > 0 =>
               \A f \in TextFiles :
                   Len(files[f].recs) > MaxFileSize + 1 => f.idx = FilesPerMinute - 1
        /\ \A f, g \in DOMAIN files : f.min < g.min =>
               \A r \in ToSet(files[f].recs), s \in ToSet(files[g].recs) : r < s

\* submitLog does not take the file away that is being written ("the file being
\* edited is not compressed", SubmitUtils.kt:54), as long as the clock does not
\* go back, the cleaner has not run and submitLog has not been called before: its
\* deletions leave gaps among the names of the minute, which the appender fills
\* before it comes back to a later name.
SubmitKeepsCurrent ==
    [][(/\ SubmitAt("delete") /\ ~SubmitAt("delete")'
        /\ count.backs + count.rolls = 0 /\ count.submits <= 1)
         => ~(handle = "open" /\ handle' = "ghost")]_vars
=============================================================================
