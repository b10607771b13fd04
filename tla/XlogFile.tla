------------------------------ MODULE XlogFile ------------------------------
(***************************************************************************)
(* A log file and its reader (jni/log/crypt/log_crypt.cc).  What the       *)
(* appender hands over are blocks, |header|data|end|, whose header         *)
(* tells the hours they cover and the length of the data; without          *)
(* isCryptFlag it hands over the bare data.  A process may die inside of   *)
(* its write, and the next one goes on behind what is there.               *)
(* GetPeriodLogs looks for the part of a file that covers some hours.      *)
(*                                                                         *)
(* A header is one cell of the file here, and so is the end (kMagicEnd),   *)
(* Nul.  Data has no Nul here: it could only mislead the reader more.      *)
(* The clock is never set back.  Offsets count the cells in front.         *)
(***************************************************************************)
EXTENDS AutoBuffer

CONSTANTS LastHour,     \* 23
          MaxData,      \* a bound: the data of a block in the buffer
          MaxFile, MaxTorn   \* bounds: the cells of a file, torn blocks in it

VARIABLES hour,       \* the clock
          phase,      \* "up", "dead": no process, "recover": in appender_open
          crypted,    \* is_crypt_ of this process
          buffered,   \* the block in the mapped buffer: header and data
          logfile,    \* the file
          opened,     \* the hour in the file's name
          overnight,  \* the file is older than the last midnight
          \* History, read by the property only:
          wholes,     \* the offsets of the blocks that were written whole
          torn        \* how many were not

xlogVars == <<hour, phase, crypted, buffered, logfile, opened, overnight, wholes, torn>>
fileVars == <<logfile, opened, overnight, wholes, torn>>

Hours    == 0..LastHour
Data     == {<<Datum>>}
NoBlock  == [header |-> [magic |-> "none", begin |-> 0, end |-> 0, len |-> 0], data |-> <<>>]
IsHeader(cell) == cell # Nul /\ cell # Datum

\* The headers of blocks; none is a byte.
Headers == [magic : {"plain", "crypt"}, begin : Hours, end : Hours, len : 0..MaxData]

ASSUME XlogAssumption ==
  LastHour \in Nat /\ MaxData \in Nat \ {0} /\ \A h \in Headers : IsHeader(h)

\* SetHeaderInfo: the hours are the current one, and there is no data yet.
HeaderInfo == [magic |-> IF crypted THEN "crypt" ELSE "plain",
               begin |-> hour, end |-> hour, len |-> 0]

\* UpdateLogLen, UpdateLogHour.
LogLenUpdated(header, n) == [header EXCEPT !.len = @ + n]
LogHourUpdated(header)   == [header EXCEPT !.end = hour]

Laid(header, data) == <<header>> \o data \o <<Nul>>

\* What __Flush makes of the buffered block.
Flushed == Laid(LogHourUpdated(buffered.header), buffered.data)

\* CryptSyncLog: a synchronous record is a block of its own, in a fresh buffer.
CryptSyncLog(data) ==
  LET out == AllocWrite(Fresh, Len(data) + 2, TRUE)
  IN  Content([out EXCEPT !.parray =
                 Over(@, 0, Laid(LogLenUpdated(HeaderInfo, Len(data)), data))])

-----------------------------------------------------------------------------
(* The writer                                                              *)

XlogInit ==
  /\ hour = 0 /\ phase = "up" /\ crypted = TRUE /\ buffered = NoBlock
  /\ logfile = <<>> /\ opened = 0 /\ overnight = FALSE /\ wholes = {} /\ torn = 0

Tick ==
  /\ hour < LastHour /\ hour' = hour + 1
  /\ UNCHANGED <<phase, crypted, buffered, fileVars>>

\* An open file stays open at midnight.
Midnight ==
  /\ hour = LastHour /\ hour' = 0
  /\ overnight' = (logfile # <<>>)
  /\ UNCHANGED <<phase, crypted, buffered, logfile, opened, wholes, torn>>

OtherFile ==
  /\ logfile' = <<>> /\ wholes' = {} /\ torn' = 0 /\ overnight' = FALSE
  /\ UNCHANGED opened

\* The file has grown too large.
NewFile ==
  /\ phase = "up" /\ logfile # <<>> /\ OtherFile
  /\ UNCHANGED <<hour, phase, crypted, buffered>>

LogAsync(data) ==
  LET old == IF buffered = NoBlock THEN HeaderInfo ELSE buffered.header
  IN  /\ phase = "up" /\ Len(buffered.data) + Len(data) <= MaxData
      /\ buffered' = [header |-> LogLenUpdated(old, Len(data)), data |-> buffered.data \o data]
      /\ UNCHANGED <<hour, phase, crypted, fileVars>>

Put(cells) ==
  /\ logfile' = logfile \o cells /\ Len(logfile') <= MaxFile
  /\ opened' = IF logfile = <<>> THEN hour ELSE opened
  /\ UNCHANGED overnight
PutWhole(cells) == Put(cells) /\ wholes' = wholes \cup {Len(logfile)}

FlushBlock ==
  /\ phase # "dead" /\ buffered # NoBlock
  /\ PutWhole(Flushed)
  /\ buffered' = NoBlock /\ phase' = "up" /\ UNCHANGED <<hour, crypted, torn>>

\* isCryptFlag is FALSE: no header, no end.
FlushBare ==
  /\ phase # "dead" /\ buffered # NoBlock
  /\ Put(buffered.data)
  /\ buffered' = NoBlock /\ phase' = "up" /\ UNCHANGED <<hour, crypted, wholes, torn>>

LogSync(data) ==
  /\ phase = "up" /\ PutWhole(CryptSyncLog(data))
  /\ UNCHANGED <<hour, phase, crypted, buffered, torn>>

\* The process dies, with a block in the mapped buffer or inside of its write of
\* the block.  (A part of a header is, for a reader, like bare data.)
Die ==
  /\ phase = "up" /\ phase' = "dead"
  /\ UNCHANGED <<hour, crypted>>
  /\ \/ UNCHANGED <<buffered, fileVars>>
     \/ /\ buffered # NoBlock /\ buffered' = NoBlock
        /\ torn < MaxTorn /\ torn' = torn + 1 /\ UNCHANGED wholes
        /\ \E n \in 1..(Len(Flushed) - 1) : Put(SubSeq(Flushed, 1, n))

\* appender_open takes what is in the buffer.  It has the same file only in the
\* minute that the file is named after.
Restart ==
  /\ phase = "dead" /\ crypted' \in BOOLEAN
  /\ phase' = IF buffered = NoBlock THEN "up" ELSE "recover"
  /\ UNCHANGED <<hour, buffered>>
  /\ \/ OtherFile
     \/ hour = opened /\ ~overnight /\ UNCHANGED fileVars

XlogNext ==
  \/ Tick \/ Midnight \/ NewFile \/ FlushBlock \/ FlushBare \/ Die \/ Restart
  \/ \E data \in Data : LogAsync(data) \/ LogSync(data)

XlogSpec == XlogInit /\ [][XlogNext]_xlogVars

-----------------------------------------------------------------------------
(* The reader, GetPeriodLogs                                               *)

\* A header at offset p, and the end where its length says.
Accepted(p) ==
  /\ IsHeader(logfile[p + 1])
  /\ p + logfile[p + 1].len + 2 <= Len(logfile)
  /\ logfile[p + logfile[p + 1].len + 2] = Nul
After(p) == p + logfile[p + 1].len + 2

\* Mutant: what has no block is taken to be as long as it says.
NextAfter(p) == IF IsHeader(logfile[p + 1]) THEN After(p) ELSE p + 1

\* Where the search goes on after an offset with no block at it.
NextTry(p) == p + 1

\* The blocks met from offset p on.  GetLogHour fails for one that is not
\* encrypted, and the search ends.
BlocksFrom[p \in Nat] ==
  IF p + 2 > Len(logfile) THEN <<>>
  ELSE IF ~Accepted(p) THEN BlocksFrom[NextTry(p)]
  ELSE IF logfile[p + 1].magic # "crypt" THEN <<>>
  ELSE <<p>> \o BlocksFrom[After(p)]

BeginHour(p) == Least(logfile[p + 1].begin, logfile[p + 1].end)
EndHour(p)   == logfile[p + 1].end

\* The loop's results for hours in [from, to): begin and end offset.  NULL == 0.
GetPeriodLogs(from, to) ==
  LET met == BlocksFrom[0]
      LastEnd(i) == IF i = 1 THEN -1 ELSE EndHour(met[i - 1])
      Within(h, i) == h > BeginHour(met[i]) /\ h <= EndHour(met[i])
      Before(h, i) == h > LastEnd(i) /\ h <= BeginHour(met[i])
      begins == {i \in DOMAIN met : Within(from, i) \/ Before(from, i)}
      first  == CHOOSE i \in begins : \A j \in begins : i <= j
      ends   == {i \in DOMAIN met : i >= first /\ (Within(to, i) \/ Before(to, i))}
      last   == CHOOSE i \in ends : \A j \in ends : j <= i
  IN  IF begins = {} THEN [ok |-> FALSE, begin |-> 0, end |-> 0]
      ELSE LET begin == met[first]
               end == IF to > LastEnd(Len(met) + 1) THEN Len(logfile)
                      ELSE IF ends = {} THEN 0
                      ELSE IF Within(to, last) THEN After(met[last])
                      ELSE IF last = 1 THEN 0 ELSE After(met[last - 1])
           IN  [ok |-> end > begin, begin |-> begin, end |-> end]

-----------------------------------------------------------------------------

\* Something that was never written as a block looks like one: a block cut
\* off by a death whose length ends on a 0 of what was written after it.
Misled == \E p \in 0..(Len(logfile) - 1) : p \notin wholes /\ Accepted(p)

Readable == {p \in wholes : \A q \in wholes : q <= p => logfile[q + 1].magic = "crypt"}

\* Whatever hours are asked for, the part of the file that GetPeriodLogs
\* returns has every block that covers one of them, and it returns none only
\* when there is no such block: across blocks that began on an earlier day,
\* that a dead process left in the buffer or cut off in the file, and bare data
\* between them.  Except when what is left of a cut off block passes for a block,
\* when the file goes on after a midnight, and for what lies behind a block that
\* is not encrypted.
PeriodFound ==
  Misled \/ overnight \/
  \A from \in Hours : \A to \in (from + 1)..(LastHour + 1) :
    LET found  == GetPeriodLogs(from, to)
        wanted == {p \in Readable : EndHour(p) >= from /\ BeginHour(p) < to}
    IN  /\ Readable = wholes => (found.ok <=> wanted # {})
        /\ \A p \in wanted : found.ok /\ found.begin <= p /\ After(p) <= found.end
=============================================================================
