--------------------------- MODULE LogFilesProofs ---------------------------
(* Theorems about LogFiles: what becomes of records and the order of files, *)
(* for every limit, interval and number of files, and as many runs of the  *)
(* archivers, failures and deaths as one likes.                            *)
EXTENDS LogFiles, FiniteSetTheorems, SequenceTheorems, WellFoundedInduction, TLAPS

-----------------------------------------------------------------------------
(* The inductive invariant                                                 *)

TxtNames == {f \in Names : f.kind = "txt"}
Paths == Names \cup {NoPath}
File == [recs : Seq(Nat), mtime : Nat]

CountType == [rolls : Nat, submits : Nat, fails : Nat, deaths : Nat, backs : Nat,
              unlinks : Nat]
Fates == {"none", "written", "late", "ghost", "failed", "expired", "overflowed",
          "botched"}
CleanerTypeOK ==
    /\ cleaner \in [pc : {"idle", "roll", "read", "rename", "move", "delete", "overflow"},
                    todo : SUBSET (Names \cup Names \X Nat), file : Paths, sum : Nat,
                    failed : BOOLEAN]
    /\ IF cleaner.pc = "overflow" THEN cleaner.todo \subseteq Names \X Nat
                                  ELSE cleaner.todo \subseteq Names
\* What is reported is left open: no other part depends on it.
SubmitTypeOK ==
    submit \in [pc : {"idle", "zip", "copy", "delete", "select", "flush", "done"},
                todo : SUBSET Names, file : Paths, num : Nat, sum : Nat,
                mark : Nat, result : Seq(Names), report : {submit.report}]

LogFilesTypeOK ==
    /\ now \in Minutes /\ logged \in 0..MaxRecords /\ buffer \in Nat /\ chunk \in Nat
    /\ handle \in {"closed", "open", "ghost"}
    /\ lastPath \in TxtNames \cup {NoPath} /\ lastTime \in Nat
    /\ DOMAIN files \subseteq Names /\ \A f \in DOMAIN files : files[f] \in File
    /\ CleanerTypeOK /\ SubmitTypeOK
    /\ fate \in [Records -> Fates]
    /\ count \in CountType

\* An open file has its name, and a file that has lost it does not get it back:
\* only the appender makes text files.
HandleOK ==
    /\ handle = "open" => lastPath \in DOMAIN files
    /\ handle = "ghost" => lastPath \notin DOMAIN files
    /\ handle # "closed" => lastPath # NoPath

\* What is in memory is newer than what is in files.
MemoryOK ==
    /\ chunk <= logged /\ buffer <= logged
    /\ chunk # NoRecord /\ buffer # NoRecord => chunk < buffer
    /\ \A f \in DOMAIN files : \A i \in DOMAIN files[f].recs :
          /\ files[f].recs[i] <= logged
          /\ \A r \in {chunk, buffer} \ {NoRecord} : files[f].recs[i] < r

\* While the clock does not go back, the appender's file has the latest minute of
\* all names there are and that the archivers will use.
Wanted == submit.todo \cup {cleaner.file, submit.file}
          \cup (IF cleaner.pc = "overflow" THEN {} ELSE cleaner.todo)
InUse == DOMAIN files \cup Wanted
TimesOK ==
    count.backs = 0 =>
        /\ lastTime <= now /\ \A f \in InUse : f.min <= now
        /\ handle = "open" => \A f \in InUse : f.min <= lastPath.min

OrderOK ==
    count.backs = 0 =>
        \A f, g \in DOMAIN files : f.min < g.min =>
            \A i \in DOMAIN files[f].recs, j \in DOMAIN files[g].recs :
                files[f].recs[i] < files[g].recs[j]

\* A record is taken to a file that has room, or to the last one of the minute.
HasRoom(f) == Len(files[f].recs) <= MaxFileSize \/ f.idx = FilesPerMinute - 1
SizeOK ==
    (count.backs = 0 /\ MaxFileSize > 0) =>
        /\ handle = "open" /\ chunk # NoRecord => HasRoom(lastPath)
        /\ \A f \in TextFiles : Len(files[f].recs) > MaxFileSize + 1 => f.idx = FilesPerMinute - 1

\* A file that lost its name has lost one record, or is about to.
Ghosts == {r \in Records : fate[r] = "ghost"}
AboutToBeLost == IF handle = "ghost" /\ chunk # NoRecord THEN 1 ELSE 0
GhostsOK == Cardinality(Ghosts) + AboutToBeLost <= count.unlinks

FailedOK ==
    (count.fails + count.deaths + count.backs = 0) => \A r \in Records : fate[r] # "failed"

LogFilesInv ==
    /\ LogFilesTypeOK /\ HandleOK /\ MemoryOK /\ TimesOK /\ OrderOK /\ SizeOK
    /\ GhostsOK /\ FailedOK

-----------------------------------------------------------------------------
(* Archiving keeps what is written                                         *)

RecordsIn(dir, f) == IF f \in DOMAIN dir THEN ToSet(dir[f].recs) ELSE {}
Landed(dir, fates, f) == {r \in RecordsIn(dir, f) : r \in Records /\ fates[r] = "written"}
Compressing == cleaner.pc \in {"read", "rename", "move", "delete"}

\* The cleaner copies a text file that stays until its archive is complete, if
\* nothing fails.
CleanerCopies ==
    count.submits = 0 =>
        /\ submit.pc = "idle"
        /\ Compressing => cleaner.file \in DOMAIN files /\ cleaner.file.kind = "txt"
        /\ cleaner.pc \in {"rename", "move"} =>
              /\ As(cleaner.file, "tmp") \in DOMAIN files
              /\ \/ cleaner.failed
                 \/ Landed(files, fate, cleaner.file)
                      \subseteq RecordsIn(files, As(cleaner.file, "tmp"))
              /\ RecordsIn(files, As(cleaner.file, "tmp")) \subseteq RecordsIn(files, cleaner.file)
        /\ cleaner.pc = "delete" =>
              \/ cleaner.failed
              \/ Landed(files, fate, cleaner.file) \subseteq RecordsIn(files, As(cleaner.file, "zip"))

\* While the clock does not go back, names of earlier minutes are not given again:
\* an archive whose source is there holds a copy of it.
ArchivesAreCopies ==
    count.submits = 0 /\ count.backs = 0 =>
        /\ Compressing => cleaner.file.min < now
        /\ \A f \in TxtNames : As(f, "zip") \in DOMAIN files =>
              /\ f.min < now
              /\ f \in DOMAIN files => RecordsIn(files, As(f, "zip")) \subseteq RecordsIn(files, f)

\* The first run of the cleaner finds no archives, and compresses a file once.
FirstRun ==
    count.submits = 0 /\ count.rolls <= 1 =>
        /\ count.rolls = 0 => cleaner.pc = "idle" /\ DOMAIN files \subseteq TxtNames
        /\ Compressing => cleaner.file \in cleaner.todo
        /\ \A f \in TxtNames : As(f, "zip") \in DOMAIN files =>
              \/ cleaner.pc \in {"idle", "overflow"} \/ f \notin cleaner.todo
              \/ cleaner.pc = "delete" /\ f = cleaner.file

\* So does the first submitLog.
FirstSubmit ==
    count.rolls = 0 /\ count.submits <= 1 =>
        /\ cleaner.pc = "idle"
        /\ count.submits = 0 => submit.pc = "idle" /\ DOMAIN files \subseteq TxtNames
        /\ submit.pc \in {"zip", "copy", "delete"} =>
              /\ submit.todo \subseteq TxtNames
              /\ \A f \in submit.todo : As(f, "zip") \notin DOMAIN files
        /\ submit.pc \in {"copy", "delete"} =>
              submit.file \in TxtNames /\ submit.file \notin submit.todo
        /\ submit.pc = "copy" => RecordsIn(files, As(submit.file, "zip")) = {}
        /\ submit.pc = "delete" =>
              Landed(files, fate, submit.file) \subseteq RecordsIn(files, As(submit.file, "zip"))

ArchivingInv ==
    /\ CleanerCopies /\ ArchivesAreCopies /\ FirstRun /\ FirstSubmit /\ ArchivingKeeps

-----------------------------------------------------------------------------
(* Numbers, names and counters                                             *)

\* A set of natural numbers that is not empty has a least element.
LEMMA LeastNumber ==
    ASSUME NEW S \in SUBSET Nat, S # {}
    PROVE  \E i \in S : \A j \in S : i <= j
  <1>1. IsWellFoundedOn(OpToRel(<, Nat), Nat)
    BY NatLessThanWellFounded
  <1>2. PICK i \in S : \A j \in S : ~(<<j, i>> \in OpToRel(<, Nat))
    BY <1>1, WFMin, Zenon
  <1>3. ASSUME NEW j \in S PROVE i <= j
    <2>1. ~(<<j, i>> \in OpToRel(<, Nat))
      BY <1>2
    <2>2. i \in Nat /\ j \in Nat
      OBVIOUS
    <2>3. ~(j < i)
      BY <2>1, <2>2 DEF OpToRel
    <2>. QED
      BY <2>2, <2>3
  <1>. QED
    BY <1>3

\* The archivers' names of a file keep its minute.
LEMMA NameOfArchive ==
    ASSUME NEW f \in Paths, NEW kind \in {"zip", "tmp"}
    PROVE  /\ As(f, kind) \in Names /\ As(f, kind).kind = kind
           /\ As(f, kind).min = f.min
  <1>1. FilesPerMinute \in Nat \ {0} /\ 0 \in Minutes
    BY LogFilesAssumption DEF Minutes
  <1>. QED
    BY <1>1 DEF As, Paths, Names, NoPath

LEMMA PathFields ==
    ASSUME NEW f \in Paths
    PROVE  f.min \in Nat /\ f.min >= 0 /\ (f = NoPath => f.min = 0)
  BY LogFilesAssumption DEF Paths, Names, NoPath, Minutes

\* One counter goes up, the others stay.
LEMMA CountedOne ==
    ASSUME NEW what \in {"rolls", "submits", "fails", "deaths", "backs", "unlinks"},
           count \in CountType, Counted(what)
    PROVE  /\ count' \in CountType /\ count'[what] = count[what] + 1
           /\ what # "backs" => count'.backs = count.backs
           /\ what # "unlinks" => count'.unlinks = count.unlinks
           /\ count'.fails >= count.fails /\ count'.deaths >= count.deaths
           /\ count'.backs >= count.backs
  BY DEF Counted, CountType

\* At most a failure is counted.
AtMostAFailure == UNCHANGED count \/ Counted("fails")

LEMMA FailureCounts ==
    ASSUME count \in CountType, AtMostAFailure
    PROVE  /\ count' \in CountType /\ count'.unlinks = count.unlinks
           /\ count'.backs = count.backs /\ count'.rolls = count.rolls
           /\ count'.submits = count.submits
           /\ count'.fails >= count.fails /\ count'.deaths >= count.deaths
  <1>1. CASE UNCHANGED count
    BY <1>1 DEF CountType
  <1>2. CASE Counted("fails")
    BY <1>2 DEF Counted, CountType
  <1>. QED
    BY <1>1, <1>2 DEF AtMostAFailure

\* A sequence begins like another one.
BeginsLike(s, t) == DOMAIN s \subseteq DOMAIN t /\ \A i \in DOMAIN s : s[i] = t[i]

LEMMA Beginning ==
    ASSUME NEW t \in Seq(Nat), NEW n \in 0..Len(t)
    PROVE  SubSeq(t, 1, n) \in Seq(Nat) /\ BeginsLike(SubSeq(t, 1, n), t)
  <1>1. \A i \in 1..n : t[i] \in Nat
    OBVIOUS
  <1>2. n \in Int
    OBVIOUS
  <1>3. /\ SubSeq(t, 1, n) \in Seq(Nat)
        /\ Len(SubSeq(t, 1, n)) = IF 1 <= n THEN n - 1 + 1 ELSE 0
        /\ \A i \in 1..(n - 1 + 1) : SubSeq(t, 1, n)[i] = t[1 + i - 1]
    BY <1>1, <1>2, SubSeqProperties
  <1>4. PICK s : s = SubSeq(t, 1, n)
    OBVIOUS
  <1>5. s \in Seq(Nat) /\ Len(s) = n
    BY <1>3, <1>4
  <1>6. DOMAIN s = 1..n
    BY <1>5
  <1>7. \A i \in DOMAIN s : s[i] = t[i]
    BY <1>3, <1>4, <1>6
  <1>. QED
    BY <1>4, <1>5, <1>6, <1>7 DEF BeginsLike

\* Put writes one file and leaves the others alone.
LEMMA PutOne ==
    ASSUME LogFilesTypeOK, NEW f \in Names, NEW recs \in Seq(Nat), Put(f, recs)
    PROVE  /\ DOMAIN files' = DOMAIN files \cup {f} /\ DOMAIN files' \subseteq Names
           /\ \A g \in DOMAIN files' : files'[g] \in File
           /\ files'[f].recs = recs
           /\ \A g \in DOMAIN files' : g # f => g \in DOMAIN files /\ files'[g] = files[g]
  <1>1. now \in Nat
    BY LogFilesAssumption DEF LogFilesTypeOK, Minutes
  <1>2. [recs |-> recs, mtime |-> now] \in File
    BY <1>1 DEF File
  <1>3. DOMAIN files' = DOMAIN files \cup {f}
    BY DEF Put
  <1>4. files'[f] = [recs |-> recs, mtime |-> now]
    BY DEF Put
  <1>5. ASSUME NEW g \in DOMAIN files', g # f
        PROVE  g \in DOMAIN files /\ files'[g] = files[g]
    BY <1>3, <1>5 DEF Put
  <1>6. DOMAIN files' \subseteq Names
    BY <1>3 DEF LogFilesTypeOK
  <1>7. \A g \in DOMAIN files' : files'[g] \in File
    BY <1>2, <1>4, <1>5 DEF LogFilesTypeOK
  <1>8. files'[f].recs = recs
    BY <1>4
  <1>. QED
    BY <1>3, <1>5, <1>6, <1>7, <1>8

LEMMA TypeOfFile ==
    ASSUME LogFilesTypeOK, NEW f \in DOMAIN files
    PROVE  /\ f \in Names /\ files[f].recs \in Seq(Nat) /\ files[f].mtime \in Nat
           /\ Len(files[f].recs) \in Nat
  BY DEF LogFilesTypeOK, File

-----------------------------------------------------------------------------
(* The losses                                                              *)

LEMMA GhostsAreFinite ==
    ASSUME NEW S, S \subseteq Records
    PROVE  IsFiniteSet(S) /\ Cardinality(S) \in Nat
  <1>1. MaxRecords \in Nat
    BY LogFilesAssumption
  <1>2. IsFiniteSet(Records)
    BY <1>1, FS_Interval DEF Records
  <1>3. IsFiniteSet(S)
    BY <1>2, FS_Subset
  <1>. QED
    BY <1>3, FS_CardinalityType

\* Unlinking, and doing nothing to the records, loses none to a ghost and fails
\* none.
LEMMA NoNewLoss ==
    ASSUME LogFilesTypeOK, GhostsOK, FailedOK, count' \in CountType,
           chunk' = chunk,
           \A r \in Records : fate'[r] \in {fate[r], "expired", "overflowed", "botched"},
           \/ handle' = handle /\ count'.unlinks = count.unlinks
           \/ handle' = "closed" /\ count'.unlinks = count.unlinks
           \/ handle' = "ghost" /\ count'.unlinks = count.unlinks + 1,
           count'.fails >= count.fails, count'.deaths >= count.deaths,
           count'.backs >= count.backs
    PROVE  GhostsOK' /\ FailedOK'
  <1>0. count \in CountType
    BY DEF LogFilesTypeOK, CountType
  <1>1. Ghosts' \subseteq Ghosts /\ Ghosts \subseteq Records
    BY DEF Ghosts
  <1>2. Cardinality(Ghosts') <= Cardinality(Ghosts)
    BY <1>1, GhostsAreFinite, FS_Subset
  <1>3. Cardinality(Ghosts') \in Nat /\ Cardinality(Ghosts) \in Nat
    <2>1. Ghosts' \subseteq Records
      BY <1>1
    <2>. QED
      BY <1>1, <2>1, GhostsAreFinite
  <1>4. GhostsOK'
    BY <1>0, <1>2, <1>3 DEF GhostsOK, AboutToBeLost, CountType
  <1>5. count'.fails + count'.deaths + count'.backs = 0
          => count.fails + count.deaths + count.backs = 0
    <2>1. PICK a \in Nat, b \in Nat, c \in Nat :
              count.fails = a /\ count.deaths = b /\ count.backs = c
      BY <1>0 DEF CountType
    <2>2. PICK d \in Nat, e \in Nat, f \in Nat :
              count'.fails = d /\ count'.deaths = e /\ count'.backs = f
      BY DEF CountType
    <2>3. d >= a /\ e >= b /\ f >= c
      BY <2>1, <2>2
    <2>4. d + e + f = 0 => a + b + c = 0
      BY <2>3
    <2>. QED
      BY <2>1, <2>2, <2>4
  <1>6. \A r \in Records : fate[r] # "failed" => fate'[r] # "failed"
    <2>1. "expired" # "failed" /\ "overflowed" # "failed" /\ "botched" # "failed"
      OBVIOUS
    <2>. QED
      BY <2>1, Zenon
  <1>7. FailedOK'
    BY <1>5, <1>6, Zenon DEF FailedOK
  <1>. QED
    BY <1>4, <1>7

-----------------------------------------------------------------------------
(* The archivers only rearrange: what they put into the directory is a copy *)
(* of a file that is there, or of its beginning, under another name of the *)
(* same minute.                                                            *)

CopyOf(g) ==
    \E f \in DOMAIN files : f.min = g.min /\ BeginsLike(files'[g].recs, files[f].recs)
Rearranged ==
    /\ \A g \in DOMAIN files' :
          \/ g \in DOMAIN files /\ files'[g] = files[g]
          \/ g.kind # "txt" /\ (files'[g].recs = <<>> \/ CopyOf(g))
    /\ \A g \in InUse' : \E f \in InUse \cup {NoPath} : g.min = f.min
    /\ count.backs = 0 \/ count'.backs # 0
    /\ handle' = "open" => handle = "open"
    /\ UNCHANGED <<now, logged, buffer, chunk, lastPath, lastTime>>

LEMMA OldRecords ==
    ASSUME LogFilesInv, Rearranged, NEW g \in DOMAIN files', NEW i \in DOMAIN files'[g].recs
    PROVE  \E f \in DOMAIN files :
              /\ f.min = g.min /\ i \in DOMAIN files[f].recs
              /\ files[f].recs[i] = files'[g].recs[i]
  <1>1. files'[g].recs # <<>>
    OBVIOUS
  <1>2. CASE g \in DOMAIN files /\ files'[g] = files[g]
    BY <1>2
  <1>3. CASE CopyOf(g)
    BY <1>3 DEF CopyOf, BeginsLike
  <1>. QED
    BY <1>1, <1>2, <1>3 DEF Rearranged

LEMMA RearrangedKeeps ==
    ASSUME LogFilesInv, LogFilesTypeOK', HandleOK', Rearranged
    PROVE  MemoryOK' /\ TimesOK' /\ OrderOK' /\ SizeOK'
  <1>. LogFilesTypeOK /\ HandleOK /\ MemoryOK /\ TimesOK /\ OrderOK /\ SizeOK
    BY DEF LogFilesInv
  <1>1. UNCHANGED <<now, logged, buffer, chunk, lastPath, lastTime>>
    BY DEF Rearranged
  <1>2. MemoryOK'
    <2>1. ASSUME NEW g \in DOMAIN files', NEW i \in DOMAIN files'[g].recs
          PROVE  /\ files'[g].recs[i] <= logged
                 /\ \A r \in {chunk, buffer} \ {NoRecord} : files'[g].recs[i] < r
      BY OldRecords DEF MemoryOK
    <2>. QED
      BY <1>1, <2>1 DEF MemoryOK
  <1>3. ASSUME count'.backs = 0
        PROVE  count.backs = 0
    BY <1>3 DEF Rearranged
  <1>4. TimesOK'
    <2>. SUFFICES ASSUME count'.backs = 0
                  PROVE  /\ lastTime' <= now' /\ \A g \in InUse' : g.min <= now'
                         /\ handle' = "open" => \A g \in InUse' : g.min <= lastPath'.min
      BY DEF TimesOK
    <2>1. lastTime <= now /\ \A f \in InUse : f.min <= now
      BY <1>3 DEF TimesOK
    <2>2. NoPath.min = 0 /\ now \in Nat /\ lastPath.min \in Nat
      BY PathFields, LogFilesAssumption DEF LogFilesTypeOK, Paths, TxtNames, NoPath, Minutes
    <2>3. ASSUME NEW g \in InUse'
          PROVE  /\ g.min <= now
                 /\ handle' = "open" => g.min <= lastPath.min
      <3>1. PICK f \in InUse \cup {NoPath} : g.min = f.min
        BY <2>3 DEF Rearranged
      <3>2. handle' = "open" => handle = "open"
        BY DEF Rearranged
      <3>3. g.min <= now
        BY <2>1, <2>2, <3>1
      <3>4. handle = "open" => \A h \in InUse : h.min <= lastPath.min
        BY <1>3 DEF TimesOK
      <3>5. handle' = "open" => g.min <= lastPath.min
        BY <2>2, <3>1, <3>2, <3>4
      <3>. QED
        BY <3>3, <3>5
    <2>. QED
      BY <1>1, <2>1, <2>3
  <1>5. OrderOK'
    <2>. SUFFICES ASSUME count'.backs = 0, NEW g \in DOMAIN files', NEW h \in DOMAIN files',
                         g.min < h.min,
                         NEW i \in DOMAIN files'[g].recs, NEW j \in DOMAIN files'[h].recs
                  PROVE  files'[g].recs[i] < files'[h].recs[j]
      BY DEF OrderOK
    <2>1. PICK f \in DOMAIN files :
              /\ f.min = g.min /\ i \in DOMAIN files[f].recs
              /\ files[f].recs[i] = files'[g].recs[i]
      BY OldRecords
    <2>2. PICK k \in DOMAIN files :
              /\ k.min = h.min /\ j \in DOMAIN files[k].recs
              /\ files[k].recs[j] = files'[h].recs[j]
      BY OldRecords
    <2>3. files[f].recs[i] < files[k].recs[j]
      BY <1>3, <2>1, <2>2 DEF OrderOK
    <2>. QED
      BY <2>1, <2>2, <2>3
  <1>6. SizeOK'
    <2>. SUFFICES ASSUME count'.backs = 0, MaxFileSize > 0
                  PROVE  /\ handle' = "open" /\ chunk' # NoRecord => HasRoom(lastPath)'
                         /\ \A f \in TextFiles' : Len(files'[f].recs) > MaxFileSize + 1
                                                    => f.idx = FilesPerMinute - 1
      BY DEF SizeOK
    <2>1. \A f \in TextFiles' : f \in TextFiles /\ files'[f] = files[f]
      BY DEF Rearranged, TextFiles
    <2>2. \A f \in TextFiles : Len(files[f].recs) > MaxFileSize + 1
                                 => f.idx = FilesPerMinute - 1
      BY <1>3 DEF SizeOK
    <2>3. ASSUME handle' = "open", chunk' # NoRecord
          PROVE  HasRoom(lastPath)'
      <3>1. handle = "open" /\ chunk # NoRecord
        BY <1>1, <2>3 DEF Rearranged
      <3>2. HasRoom(lastPath)
        BY <1>3, <3>1 DEF SizeOK
      <3>3. lastPath' \in DOMAIN files' /\ lastPath' # NoPath
        BY <2>3 DEF HandleOK
      <3>4. lastPath'.kind = "txt"
        BY <3>3 DEF LogFilesTypeOK, TxtNames
      <3>5. files'[lastPath] = files[lastPath]
        BY <1>1, <2>1, <3>3, <3>4 DEF TextFiles
      <3>. QED
        BY <1>1, <3>2, <3>5 DEF HasRoom
    <2>. QED
      BY <2>1, <2>2, <2>3
  <1>. QED
    BY <1>2, <1>4, <1>5, <1>6

LEMMA ArchiverStep ==
    ASSUME LogFilesInv, LogFilesTypeOK', HandleOK', Rearranged, count' \in CountType,
           \A r \in Records : fate'[r] \in {fate[r], "expired", "overflowed", "botched"},
           \/ handle' = handle /\ count'.unlinks = count.unlinks
           \/ handle' = "ghost" /\ count'.unlinks = count.unlinks + 1,
           count'.fails >= count.fails, count'.deaths >= count.deaths,
           count'.backs >= count.backs
    PROVE  LogFilesInv'
  <1>1. MemoryOK' /\ TimesOK' /\ OrderOK' /\ SizeOK'
    BY RearrangedKeeps
  <1>2. GhostsOK' /\ FailedOK'
    <2>1. chunk' = chunk
      BY DEF Rearranged
    <2>2. LogFilesTypeOK /\ GhostsOK /\ FailedOK
      BY DEF LogFilesInv
    <2>. QED
      BY <2>1, <2>2, NoNewLoss
  <1>. QED
    BY <1>1, <1>2 DEF LogFilesInv

\* A step that leaves the directory and the appender alone.
LEMMA QuietStep ==
    ASSUME LogFilesInv, UNCHANGED <<now, files, appenderVars, fate>>,
           CleanerTypeOK', SubmitTypeOK', Wanted' \subseteq InUse \cup {NoPath},
           count' \in CountType, count'.backs = count.backs,
           count'.unlinks = count.unlinks, count'.fails >= count.fails,
           count'.deaths >= count.deaths
    PROVE  LogFilesInv'
  <1>. LogFilesTypeOK /\ HandleOK
    BY DEF LogFilesInv
  <1>1. LogFilesTypeOK'
    BY DEF LogFilesTypeOK, appenderVars, CountType
  <1>2. HandleOK'
    BY DEF HandleOK, appenderVars
  <1>3. Rearranged
    <2>1. \A g \in DOMAIN files' : g \in DOMAIN files /\ files'[g] = files[g]
      OBVIOUS
    <2>2. InUse' \subseteq InUse \cup {NoPath}
      BY DEF InUse
    <2>3. \A g \in InUse' : \E f \in InUse \cup {NoPath} : g.min = f.min
      BY <2>2
    <2>. QED
      BY <2>1, <2>3 DEF Rearranged, appenderVars
  <1>4. count.backs \in Nat
    BY DEF LogFilesTypeOK, CountType
  <1>. QED
    BY <1>1, <1>2, <1>3, <1>4, ArchiverStep DEF appenderVars

\* A file loses its name.
LEMMA UnlinkStep ==
    ASSUME LogFilesInv, NEW f \in Paths, 
           NEW why \in {"archived", "botched", "expired", "overflowed"},
           Unlink(f, why), CleanerTypeOK', SubmitTypeOK',
           Wanted' \subseteq InUse \cup {NoPath}
    PROVE  LogFilesInv'
  <1>. LogFilesTypeOK /\ HandleOK
    BY DEF LogFilesInv
  <1>1. /\ DOMAIN files' = DOMAIN files \ {f}
        /\ \A g \in DOMAIN files' : files'[g] = files[g]
    BY DEF Unlink
  <1>2. UNCHANGED <<now, logged, buffer, chunk, lastPath, lastTime>>
    BY DEF Unlink
  <1>3. /\ fate' \in [Records -> Fates]
        /\ \A r \in Records : fate'[r] \in {fate[r], "expired", "overflowed", "botched"}
    <2>1. fate' = [r \in Records |->
                     IF why # "archived" /\ r \in OnDisk \ Held(files') THEN why
                     ELSE fate[r]]
      BY DEF Unlink
    <2>2. \A r \in Records : fate[r] \in Fates
      BY DEF LogFilesTypeOK, CountType
    <2>4. why # "archived" => why \in Fates
      BY DEF Fates
    <2>3. ASSUME NEW r \in Records
          PROVE  /\ fate'[r] \in Fates
                 /\ fate'[r] \in {fate[r], "expired", "overflowed", "botched"}
      <3>1. fate'[r] = fate[r] \/ (fate'[r] = why /\ why # "archived")
        BY <2>1, Zenon
      <3>. QED
        BY <2>2, <2>4, <3>1
    <2>. QED
      BY <2>1, <2>3
  <1>4. count \in CountType
    BY DEF LogFilesTypeOK, CountType
  <1>5. /\ count' \in CountType /\ count'.backs = count.backs
        /\ \/ handle' = handle /\ count'.unlinks = count.unlinks
           \/ handle' = "ghost" /\ count'.unlinks = count.unlinks + 1
        /\ count'.fails >= count.fails /\ count'.deaths >= count.deaths
        /\ count'.backs >= count.backs
    <2>1. CASE handle = "open" /\ f = lastPath /\ Exists(f)
      <3>1. handle' = "ghost" /\ Counted("unlinks")
        BY <2>1 DEF Unlink
      <3>. QED
        BY <1>4, <3>1, CountedOne
    <2>2. CASE ~(handle = "open" /\ f = lastPath /\ Exists(f))
      <3>1. handle' = handle /\ count' = count
        BY <2>2 DEF Unlink
      <3>. QED
        BY <1>4, <3>1 DEF CountType
    <2>. QED
      BY <2>1, <2>2
  <1>6. LogFilesTypeOK'
    <2>1. handle' \in {"closed", "open", "ghost"}
      BY <1>5 DEF LogFilesTypeOK
    <2>2. DOMAIN files' \subseteq Names /\ \A g \in DOMAIN files' : files'[g] \in File
      BY <1>1 DEF LogFilesTypeOK
    <2>3. /\ now' \in Minutes /\ logged' \in 0..MaxRecords /\ buffer' \in Nat
          /\ chunk' \in Nat /\ lastPath' \in TxtNames \cup {NoPath} /\ lastTime' \in Nat
      BY <1>2 DEF LogFilesTypeOK
    <2>. QED
      BY <1>3, <1>5, <2>1, <2>2, <2>3 DEF LogFilesTypeOK, CountType
  <1>7. HandleOK'
    BY <1>1, <1>2 DEF HandleOK, Unlink, Exists
  <1>8. Rearranged
    <2>1. InUse' \subseteq InUse \cup {NoPath}
      BY <1>1 DEF InUse
    <2>2. \A g \in InUse' : \E h \in InUse \cup {NoPath} : g.min = h.min
      BY <2>1
    <2>3. handle' = "open" => handle = "open"
      BY <1>5
    <2>4. count.backs = 0 \/ count'.backs # 0
      BY <1>5
    <2>. QED
      BY <1>1, <1>2, <2>2, <2>3, <2>4 DEF Rearranged
  <1>. QED
    BY <1>3, <1>5, <1>6, <1>7, <1>8, ArchiverStep

\* An archive is emptied, or filled with the beginning of what is in a file.
LEMMA CopyStep ==
    ASSUME LogFilesInv, NEW f \in Paths, f \in InUse \cup {NoPath},
           NEW kind \in {"zip", "tmp"}, NEW recs \in Seq(Nat),
           recs = <<>> \/ (f \in DOMAIN files /\ BeginsLike(recs, files[f].recs)),
           Put(As(f, kind), recs), UNCHANGED <<now, appenderVars, fate>>, AtMostAFailure,
           CleanerTypeOK', SubmitTypeOK', Wanted' \subseteq InUse \cup {NoPath}
    PROVE  LogFilesInv'
  <1>. LogFilesTypeOK /\ HandleOK
    BY DEF LogFilesInv
  <1>1. PICK a \in Names : a = As(f, kind) /\ a.kind = kind /\ a.min = f.min
    BY NameOfArchive
  <1>2. count \in CountType
    BY DEF LogFilesTypeOK
  <1>3. /\ DOMAIN files' = DOMAIN files \cup {a} /\ DOMAIN files' \subseteq Names
        /\ \A g \in DOMAIN files' : files'[g] \in File
        /\ files'[a].recs = recs
        /\ \A g \in DOMAIN files' : g # a => g \in DOMAIN files /\ files'[g] = files[g]
    BY <1>1, PutOne
  <1>4. LogFilesTypeOK'
    BY <1>2, <1>3, FailureCounts DEF LogFilesTypeOK, appenderVars
  <1>5. HandleOK'
    <2>1. a # lastPath
      BY <1>1 DEF LogFilesTypeOK, TxtNames, NoPath
    <2>. QED
      BY <1>3, <2>1 DEF HandleOK, appenderVars
  <1>6. Rearranged
    <2>1. ASSUME NEW g \in DOMAIN files'
          PROVE  \/ g \in DOMAIN files /\ files'[g] = files[g]
                 \/ g.kind # "txt" /\ (files'[g].recs = <<>> \/ CopyOf(g))
      <3>1. CASE g = a
        BY <1>1, <1>3, <3>1 DEF CopyOf
      <3>2. CASE g # a
        BY <1>3, <3>2
      <3>. QED
        BY <3>1, <3>2
    <2>2. InUse' \subseteq InUse \cup {NoPath, a}
      BY <1>3 DEF InUse
    <2>3. \A g \in InUse' : \E h \in InUse \cup {NoPath} : g.min = h.min
      BY <1>1, <2>2
    <2>4. count.backs = 0 \/ count'.backs # 0
      BY <1>2, FailureCounts
    <2>. QED
      BY <2>1, <2>3, <2>4 DEF Rearranged, appenderVars
  <1>7. /\ count' \in CountType /\ count'.unlinks = count.unlinks
        /\ count'.fails >= count.fails /\ count'.deaths >= count.deaths
        /\ count'.backs >= count.backs
    BY <1>2, FailureCounts DEF CountType
  <1>. QED
    BY <1>4, <1>5, <1>6, <1>7, ArchiverStep DEF appenderVars

-----------------------------------------------------------------------------
(* The cleaner                                                             *)

\* The run's own steps: what they want of the directory is what was there, or
\* what they wanted before.
LEMMA CleanerFields ==
    ASSUME LogFilesTypeOK
    PROVE  /\ cleaner.file \in Paths /\ cleaner.sum \in Nat /\ cleaner.failed \in BOOLEAN
           /\ cleaner.pc # "overflow" => cleaner.todo \subseteq Names
           /\ cleaner.pc = "overflow" => cleaner.todo \subseteq Names \X Nat
           /\ submit.todo \subseteq Names /\ submit.file \in Paths
           /\ DOMAIN files \subseteq Names
  BY DEF LogFilesTypeOK, CleanerTypeOK, SubmitTypeOK

LEMMA CleanerMoves ==
    ASSUME LogFilesTypeOK,
           NEW pc \in {"idle", "roll", "read", "rename", "move", "delete"},
           NEW todo \in SUBSET Names, NEW file \in Paths, NEW sum \in Nat,
           NEW failed \in BOOLEAN, todo \subseteq InUse, file \in InUse \cup {NoPath},
           cleaner' = [pc |-> pc, todo |-> todo, file |-> file, sum |-> sum,
                       failed |-> failed],
           submit' = submit
    PROVE  CleanerTypeOK' /\ SubmitTypeOK' /\ Wanted' \subseteq InUse \cup {NoPath}
  <1>1. CleanerTypeOK'
    BY DEF CleanerTypeOK
  <1>2. SubmitTypeOK'
    BY DEF LogFilesTypeOK, SubmitTypeOK
  <1>3. Wanted' \subseteq InUse \cup {NoPath}
    BY DEF Wanted, InUse
  <1>. QED
    BY <1>1, <1>2, <1>3

LEMMA CleanerRecord ==
    ASSUME LogFilesTypeOK
    PROVE  cleaner = [pc |-> cleaner.pc, todo |-> cleaner.todo, file |-> cleaner.file,
                      sum |-> cleaner.sum, failed |-> cleaner.failed]
  BY DEF LogFilesTypeOK, CleanerTypeOK

LEMMA OverflowMoves ==
    ASSUME LogFilesTypeOK, NEW todo \in SUBSET (Names \X Nat), NEW sum \in Nat,
           cleaner' = [pc |-> "overflow", todo |-> todo, file |-> cleaner.file, sum |-> sum,
                       failed |-> cleaner.failed],
           submit' = submit
    PROVE  CleanerTypeOK' /\ SubmitTypeOK' /\ Wanted' \subseteq InUse \cup {NoPath}
  <1>1. CleanerTypeOK'
    BY CleanerFields DEF CleanerTypeOK
  <1>2. SubmitTypeOK'
    BY DEF LogFilesTypeOK, SubmitTypeOK
  <1>3. Wanted' \subseteq InUse \cup {NoPath}
    BY DEF Wanted, InUse
  <1>. QED
    BY <1>1, <1>2, <1>3

\* The directory, the appender and the counters are as they were.
LEMMA CleanerQuiet ==
    ASSUME LogFilesInv, CleanerOnly, CleanerTypeOK', SubmitTypeOK',
           Wanted' \subseteq InUse \cup {NoPath}
    PROVE  LogFilesInv'
  <1>1. count' \in CountType /\ count' = count /\ count.fails \in Nat /\ count.deaths \in Nat
    BY DEF LogFilesInv, LogFilesTypeOK, CountType, CleanerOnly
  <1>. QED
    BY <1>1, QuietStep DEF CleanerOnly

LEMMA RollCacheLogsStep ==
    ASSUME LogFilesInv, RollCacheLogs
    PROVE  LogFilesInv'
  <1>. LogFilesTypeOK
    BY DEF LogFilesInv
  <1>1. cleaner' = [pc |-> "roll", todo |-> DOMAIN files, file |-> cleaner.file,
                    sum |-> cleaner.sum, failed |-> cleaner.failed]
    BY CleanerRecord DEF RollCacheLogs
  <1>2. cleaner.file \in InUse
    BY DEF InUse, Wanted
  <1>3. CleanerTypeOK' /\ SubmitTypeOK' /\ Wanted' \subseteq InUse \cup {NoPath}
    <2>1. submit' = submit /\ DOMAIN files \subseteq InUse
      BY DEF RollCacheLogs, InUse
    <2>. QED
      BY <1>1, <1>2, <2>1, CleanerFields, CleanerMoves
  <1>4. Counted("rolls") /\ count \in CountType
    BY DEF RollCacheLogs, LogFilesTypeOK
  <1>5. UNCHANGED <<now, files, appenderVars, fate>>
    BY DEF RollCacheLogs
  <1>. QED
    BY <1>3, <1>4, <1>5, CountedOne, QuietStep

LEMMA RollItemStep ==
    ASSUME LogFilesInv, CleanerAt("roll"), NEW f \in cleaner.todo,
           RollDelete(f) \/ RollKeep(f) \/ RollCompress(f)
    PROVE  LogFilesInv'
  <1>. LogFilesTypeOK
    BY DEF LogFilesInv
  <1>1. f \in Names /\ f \in InUse /\ cleaner.todo \subseteq InUse /\ cleaner.file \in InUse
        /\ cleaner.todo \subseteq Names
    BY CleanerFields DEF CleanerAt, InUse, Wanted
  <1>2. CASE cleaner' = Done(f) /\ submit' = submit
    <2>1. cleaner' = [pc |-> "roll", todo |-> cleaner.todo \ {f}, file |-> cleaner.file,
                      sum |-> cleaner.sum, failed |-> cleaner.failed]
      BY <1>2, CleanerRecord DEF Done
    <2>2. CleanerTypeOK' /\ SubmitTypeOK' /\ Wanted' \subseteq InUse \cup {NoPath}
      BY <1>1, <1>2, <2>1, CleanerFields, CleanerMoves
    <2>3. CASE CleanerOnly
      BY <2>2, <2>3, CleanerQuiet
    <2>4. CASE Unlink(f, "expired")
      BY <1>1, <2>2, <2>4, UnlinkStep DEF Paths
    <2>. QED
      BY <1>2, <2>3, <2>4 DEF RollDelete, RollKeep, RollCompress
  <1>3. CASE RollCompress(f)
    <2>1. cleaner' = [pc |-> "read", todo |-> cleaner.todo, file |-> f, sum |-> cleaner.sum,
                      failed |-> FALSE]
      BY <1>3, CleanerRecord DEF RollCompress
    <2>2. CleanerOnly /\ submit' = submit
      BY <1>3 DEF RollCompress, CleanerOnly
    <2>3. f \in Paths
      BY <1>1 DEF Paths
    <2>4. CleanerTypeOK' /\ SubmitTypeOK' /\ Wanted' \subseteq InUse \cup {NoPath}
      BY <1>1, <2>1, <2>2, <2>3, CleanerFields, CleanerMoves
    <2>. QED
      BY <2>2, <2>4, CleanerQuiet
  <1>. QED
    BY <1>2, <1>3 DEF RollDelete, RollKeep, CleanerOnly

\* A temporary file gets the source or its beginning.
LEMMA PutTmpStep ==
    ASSUME LogFilesInv, cleaner.pc = "read", NEW n \in 0..Len(Source),
           PutTmp(SubSeq(Source, 1, n)), CompressOnly, AtMostAFailure,
           CleanerTypeOK', SubmitTypeOK', Wanted' \subseteq InUse \cup {NoPath}
    PROVE  LogFilesInv'
  <1>. LogFilesTypeOK
    BY DEF LogFilesInv
  <1>1. cleaner.file \in InUse /\ cleaner.file \in Paths
    BY CleanerFields DEF InUse, Wanted
  <1>2. Source \in Seq(Nat)
    BY TypeOfFile, EmptySeq DEF Source, Exists
  <1>3. PICK recs \in Seq(Nat) : recs = SubSeq(Source, 1, n) /\ BeginsLike(recs, Source)
    BY <1>2, Beginning
  <1>4. recs = <<>> \/ (cleaner.file \in DOMAIN files /\ BeginsLike(recs, files[cleaner.file].recs))
    <2>1. CASE cleaner.file \in DOMAIN files
      BY <1>3, <2>1 DEF Source, Exists
    <2>2. CASE cleaner.file \notin DOMAIN files
      <3>1. Source = <<>>
        BY <2>2 DEF Source, Exists
      <3>2. DOMAIN recs = {}
        BY <1>3, <3>1 DEF BeginsLike
      <3>. QED
        BY <1>3, <3>2
    <2>. QED
      BY <2>1, <2>2
  <1>5. Put(As(cleaner.file, "tmp"), recs) /\ UNCHANGED <<now, appenderVars, fate>>
    BY <1>3 DEF PutTmp, CompressOnly
  <1>. QED
    BY <1>1, <1>4, <1>5, CopyStep

\* Where the cleaner goes from the copy.
LEMMA FromRead ==
    ASSUME LogFilesInv, cleaner.pc = "read", submit' = submit,
           \/ cleaner' = [cleaner EXCEPT !.pc = "rename"]
           \/ cleaner' = [cleaner EXCEPT !.pc = "rename", !.failed = TRUE]
           \/ cleaner' = [Done(cleaner.file) EXCEPT !.file = NoPath]
    PROVE  CleanerTypeOK' /\ SubmitTypeOK' /\ Wanted' \subseteq InUse \cup {NoPath}
  <1>. LogFilesTypeOK
    BY DEF LogFilesInv
  <1>1. cleaner.file \in InUse /\ cleaner.todo \subseteq InUse /\ cleaner.todo \subseteq Names
    BY CleanerFields DEF InUse, Wanted
  <1>2. CASE \/ cleaner' = [cleaner EXCEPT !.pc = "rename"]
             \/ cleaner' = [cleaner EXCEPT !.pc = "rename", !.failed = TRUE]
    <2>1. PICK fails \in BOOLEAN :
            cleaner' = [pc |-> "rename", todo |-> cleaner.todo, file |-> cleaner.file,
                        sum |-> cleaner.sum, failed |-> fails]
      BY <1>2, CleanerRecord, CleanerFields
    <2>. QED
      BY <1>1, <2>1, CleanerFields, CleanerMoves
  <1>3. CASE cleaner' = [Done(cleaner.file) EXCEPT !.file = NoPath]
    <2>1. cleaner' = [pc |-> "roll", todo |-> cleaner.todo \ {cleaner.file}, file |-> NoPath,
                      sum |-> cleaner.sum, failed |-> cleaner.failed]
      BY <1>3, CleanerRecord DEF Done
    <2>2. NoPath \in Paths
      BY DEF Paths
    <2>. QED
      BY <1>1, <2>1, <2>2, CleanerFields, CleanerMoves
  <1>. QED
    BY <1>2, <1>3

LEMMA CompressStep ==
    ASSUME LogFilesInv, CompressRead \/ CompressBreaksOff \/ CompressThrows
    PROVE  LogFilesInv'
  <1>. LogFilesTypeOK
    BY DEF LogFilesInv
  <1>1. /\ cleaner.pc = "read" /\ CompressOnly /\ submit' = submit /\ AtMostAFailure
        /\ \/ cleaner' = [cleaner EXCEPT !.pc = "rename"]
           \/ cleaner' = [cleaner EXCEPT !.pc = "rename", !.failed = TRUE]
           \/ cleaner' = [Done(cleaner.file) EXCEPT !.file = NoPath]
    BY DEF CompressRead, CompressBreaksOff, CompressThrows, CleanerAt, CompressOnly,
           AtMostAFailure
  <1>2. CleanerTypeOK' /\ SubmitTypeOK' /\ Wanted' \subseteq InUse \cup {NoPath}
    BY <1>1, FromRead
  <1>3. CASE \E n \in 0..Len(Source) : PutTmp(SubSeq(Source, 1, n))
    BY <1>1, <1>2, <1>3, PutTmpStep
  <1>4. CASE PutTmp(Source)
    <2>1. Source \in Seq(Nat)
      BY TypeOfFile, EmptySeq DEF Source, Exists
    <2>2. SubSeq(Source, 1, Len(Source)) = Source
      BY <2>1, SubSeqFull
    <2>3. Len(Source) \in 0..Len(Source)
      BY <2>1
    <2>4. PutTmp(SubSeq(Source, 1, Len(Source)))
      BY <1>4, <2>2
    <2>. QED
      BY <1>1, <1>2, <2>3, <2>4, PutTmpStep
  <1>5. CASE UNCHANGED files
    <2>1. count \in CountType
      BY DEF LogFilesTypeOK
    <2>2. UNCHANGED <<now, files, appenderVars, fate>>
      BY <1>1, <1>5 DEF CompressOnly
    <2>. QED
      BY <1>1, <1>2, <2>1, <2>2, FailureCounts, QuietStep
  <1>. QED
    BY <1>3, <1>4, <1>5 DEF CompressRead, CompressBreaksOff, CompressThrows

\* An old archive is deleted.
LEMMA RenameZipStep ==
    ASSUME LogFilesInv, RenameZip
    PROVE  LogFilesInv'
  <1>. LogFilesTypeOK /\ HandleOK
    BY DEF LogFilesInv
  <1>1. cleaner.pc = "rename" /\ submit' = submit
    BY DEF RenameZip, CleanerAt, CompressOnly
  <1>2. PICK pc \in {"move", "delete"} :
           cleaner' = [pc |-> pc, todo |-> cleaner.todo, file |-> cleaner.file,
                       sum |-> cleaner.sum, failed |-> cleaner.failed]
    BY CleanerRecord DEF RenameZip
  <1>3. cleaner.file \in InUse /\ cleaner.todo \subseteq InUse
    BY <1>1 DEF InUse, Wanted
  <1>4. CleanerTypeOK' /\ SubmitTypeOK' /\ Wanted' \subseteq InUse \cup {NoPath}
    BY <1>1, <1>2, <1>3, CleanerFields, CleanerMoves
  <1>5. UNCHANGED <<now, appenderVars, fate, count>>
    BY DEF RenameZip, CompressOnly
  <1>6. PICK zip \in Names : zip = As(cleaner.file, "zip") /\ zip.kind = "zip"
    BY NameOfArchive, CleanerFields
  <1>7. /\ DOMAIN files' \subseteq DOMAIN files /\ DOMAIN files \subseteq DOMAIN files' \cup {zip}
        /\ \A g \in DOMAIN files' : files'[g] = files[g]
    BY <1>6 DEF RenameZip
  <1>8. LogFilesTypeOK'
    BY <1>4, <1>5, <1>7 DEF LogFilesTypeOK, appenderVars
  <1>9. HandleOK'
    <2>1. lastPath # zip
      BY <1>6 DEF LogFilesTypeOK, TxtNames, NoPath
    <2>. QED
      BY <1>5, <1>7, <2>1 DEF HandleOK, appenderVars
  <1>10. Rearranged
    <2>1. InUse' \subseteq InUse \cup {NoPath}
      BY <1>4, <1>7 DEF InUse
    <2>2. \A g \in InUse' : \E h \in InUse \cup {NoPath} : g.min = h.min
      BY <2>1
    <2>. QED
      BY <1>5, <1>7, <2>2 DEF Rearranged, appenderVars
  <1>11. /\ count' \in CountType /\ count'.unlinks = count.unlinks
         /\ count'.fails >= count.fails /\ count'.deaths >= count.deaths
         /\ count'.backs >= count.backs
    BY <1>5 DEF LogFilesTypeOK, CountType
  <1>. QED
    BY <1>5, <1>8, <1>9, <1>10, <1>11, ArchiverStep DEF appenderVars

\* The temporary file takes the archive's name.
LEMMA RenameToStep ==
    ASSUME LogFilesInv, RenameTo
    PROVE  LogFilesInv'
  <1>. LogFilesTypeOK /\ HandleOK
    BY DEF LogFilesInv
  <1>1. cleaner.pc = "move" /\ submit' = submit
    BY DEF RenameTo, CleanerAt, CompressOnly
  <1>2. cleaner' = [pc |-> "delete", todo |-> cleaner.todo, file |-> cleaner.file,
                    sum |-> cleaner.sum, failed |-> cleaner.failed]
    BY CleanerRecord DEF RenameTo
  <1>3. cleaner.file \in InUse /\ cleaner.todo \subseteq InUse
    BY <1>1 DEF InUse, Wanted
  <1>4. CleanerTypeOK' /\ SubmitTypeOK' /\ Wanted' \subseteq InUse \cup {NoPath}
    BY <1>1, <1>2, <1>3, CleanerFields, CleanerMoves
  <1>5. UNCHANGED <<now, appenderVars, fate, count>>
    BY DEF RenameTo, CompressOnly
  <1>6. PICK tmp \in Names : /\ tmp = As(cleaner.file, "tmp") /\ tmp.kind = "tmp"
                             /\ tmp.min = cleaner.file.min
    BY NameOfArchive, CleanerFields
  <1>7. PICK zip \in Names : /\ zip = As(cleaner.file, "zip") /\ zip.kind = "zip"
                             /\ zip.min = cleaner.file.min
    BY NameOfArchive, CleanerFields
  <1>8. tmp \in DOMAIN files
    BY <1>6 DEF RenameTo, Exists
  <1>9. files' = [g \in (DOMAIN files \ {tmp}) \cup {zip} |->
                    IF g = zip THEN files[tmp] ELSE files[g]]
    BY <1>6, <1>7, <1>8 DEF RenameTo, Exists
  <1>10. DOMAIN files' = (DOMAIN files \ {tmp}) \cup {zip}
    BY <1>9
  <1>11. files'[zip] = files[tmp]
    BY <1>9, <1>10
  <1>12. \A g \in DOMAIN files' : g # zip => g \in DOMAIN files /\ files'[g] = files[g]
    BY <1>9, <1>10
  <1>13. LogFilesTypeOK'
    <2>1. DOMAIN files' \subseteq Names
      BY <1>10 DEF LogFilesTypeOK
    <2>2. \A g \in DOMAIN files' : files'[g] \in File
      BY <1>8, <1>11, <1>12 DEF LogFilesTypeOK
    <2>. QED
      BY <1>4, <1>5, <2>1, <2>2 DEF LogFilesTypeOK, appenderVars
  <1>14. HandleOK'
    <2>1. lastPath \notin {zip, tmp}
      BY <1>6, <1>7 DEF LogFilesTypeOK, TxtNames, NoPath
    <2>. QED
      BY <1>5, <1>10, <2>1 DEF HandleOK, appenderVars
  <1>15. Rearranged
    <2>1. ASSUME NEW g \in DOMAIN files'
          PROVE  \/ g \in DOMAIN files /\ files'[g] = files[g]
                 \/ g.kind # "txt" /\ (files'[g].recs = <<>> \/ CopyOf(g))
      <3>1. CASE g = zip
        BY <1>6, <1>7, <1>8, <1>11, <3>1 DEF CopyOf, BeginsLike
      <3>2. CASE g # zip
        BY <1>12, <3>2
      <3>. QED
        BY <3>1, <3>2
    <2>2. InUse' \subseteq InUse \cup {NoPath, zip}
      BY <1>4, <1>10 DEF InUse
    <2>3. \A g \in InUse' : \E h \in InUse \cup {NoPath} : g.min = h.min
      BY <1>3, <1>7, <2>2
    <2>. QED
      BY <1>5, <2>1, <2>3 DEF Rearranged, appenderVars
  <1>16. /\ count' \in CountType /\ count'.unlinks = count.unlinks
        /\ count'.fails >= count.fails /\ count'.deaths >= count.deaths
        /\ count'.backs >= count.backs
    BY <1>5 DEF LogFilesTypeOK, CountType
  <1>. QED
    BY <1>5, <1>13, <1>14, <1>15, <1>16, ArchiverStep DEF appenderVars

LEMMA RenameToFailsStep ==
    ASSUME LogFilesInv, RenameToFails
    PROVE  LogFilesInv'
  <1>. LogFilesTypeOK
    BY DEF LogFilesInv
  <1>1. /\ cleaner.pc = "move" /\ submit' = submit /\ Counted("fails")
        /\ UNCHANGED <<now, files, appenderVars, fate>>
    BY DEF RenameToFails, CleanerAt, CompressOnly
  <1>2. cleaner' = [pc |-> "delete", todo |-> cleaner.todo, file |-> cleaner.file,
                    sum |-> cleaner.sum, failed |-> TRUE]
    BY CleanerRecord DEF RenameToFails
  <1>3. cleaner.file \in InUse /\ cleaner.todo \subseteq InUse
    BY <1>1 DEF InUse, Wanted
  <1>4. CleanerTypeOK' /\ SubmitTypeOK' /\ Wanted' \subseteq InUse \cup {NoPath}
    BY <1>1, <1>2, <1>3, CleanerFields, CleanerMoves
  <1>5. count \in CountType /\ AtMostAFailure
    BY <1>1 DEF LogFilesTypeOK, AtMostAFailure
  <1>. QED
    BY <1>1, <1>4, <1>5, FailureCounts, QuietStep

LEMMA DeleteSourceStep ==
    ASSUME LogFilesInv, DeleteSource
    PROVE  LogFilesInv'
  <1>. LogFilesTypeOK
    BY DEF LogFilesInv
  <1>1. /\ cleaner.pc = "delete" /\ submit' = submit
        /\ \E why \in {"archived", "botched"} : Unlink(cleaner.file, why)
    BY DEF DeleteSource, CleanerAt
  <1>2. cleaner' = [pc |-> "roll", todo |-> cleaner.todo \ {cleaner.file}, file |-> NoPath,
                    sum |-> cleaner.sum, failed |-> cleaner.failed]
    BY CleanerRecord DEF DeleteSource, Done
  <1>3. cleaner.todo \subseteq InUse /\ cleaner.todo \subseteq Names
    BY <1>1, CleanerFields DEF InUse, Wanted
  <1>4. NoPath \in Paths
    BY DEF Paths
  <1>5. CleanerTypeOK' /\ SubmitTypeOK' /\ Wanted' \subseteq InUse \cup {NoPath}
    BY <1>1, <1>2, <1>3, <1>4, CleanerFields, CleanerMoves
  <1>. QED
    BY <1>1, <1>5, CleanerFields, UnlinkStep

LEMMA OverflowCallbackStep ==
    ASSUME LogFilesInv, OverflowCallback
    PROVE  LogFilesInv'
  <1>. LogFilesTypeOK
    BY DEF LogFilesInv
  <1>1. CleanerOnly /\ submit' = submit
    BY DEF OverflowCallback, CleanerOnly
  <1>2. PICK todo : todo = {<<f, files[f].mtime>> : f \in DOMAIN files}
    OBVIOUS
  <1>3. todo \in SUBSET (Names \X Nat)
    BY <1>2, TypeOfFile
  <1>4. cleaner' = [pc |-> "overflow", todo |-> todo, file |-> cleaner.file, sum |-> 0,
                    failed |-> cleaner.failed]
    BY <1>2, CleanerRecord DEF OverflowCallback
  <1>5. CleanerTypeOK' /\ SubmitTypeOK' /\ Wanted' \subseteq InUse \cup {NoPath}
    BY <1>1, <1>3, <1>4, OverflowMoves
  <1>. QED
    BY <1>1, <1>5, CleanerQuiet

LEMMA SizeType ==
    ASSUME LogFilesTypeOK, NEW f
    PROVE  Size(f) \in Nat
  BY TypeOfFile DEF Size, Exists

LEMMA OverflowItemStep ==
    ASSUME LogFilesInv, CleanerAt("overflow"), NEW x \in cleaner.todo, OverflowItem(x)
    PROVE  LogFilesInv'
  <1>. LogFilesTypeOK
    BY DEF LogFilesInv
  <1>1. cleaner.pc = "overflow" /\ cleaner.todo \subseteq Names \X Nat /\ cleaner.sum \in Nat
    BY CleanerFields DEF CleanerAt
  <1>2. x[1] \in Names /\ x[1] \in Paths
    BY <1>1 DEF Paths
  <1>3. CASE Overflows(x[1])
    <2>1. Unlink(x[1], "overflowed") /\ submit' = submit
      BY <1>3 DEF OverflowItem
    <2>2. cleaner' = [pc |-> "overflow", todo |-> cleaner.todo \ {x}, file |-> cleaner.file,
                      sum |-> cleaner.sum, failed |-> cleaner.failed]
      BY <1>1, <1>3, CleanerRecord DEF OverflowItem
    <2>3. cleaner.todo \ {x} \in SUBSET (Names \X Nat)
      BY <1>1
    <2>4. CleanerTypeOK' /\ SubmitTypeOK' /\ Wanted' \subseteq InUse \cup {NoPath}
      BY <1>1, <2>1, <2>2, <2>3, OverflowMoves
    <2>. QED
      BY <1>2, <2>1, <2>4, UnlinkStep
  <1>4. CASE ~Overflows(x[1])
    <2>1. CleanerOnly /\ submit' = submit
      BY <1>4 DEF OverflowItem, CleanerOnly
    <2>2. PICK sum \in Nat : sum = cleaner.sum + Size(x[1])
      BY <1>1, SizeType
    <2>3. cleaner' = [pc |-> "overflow", todo |-> cleaner.todo \ {x}, file |-> cleaner.file,
                      sum |-> sum, failed |-> cleaner.failed]
      BY <1>1, <1>4, <2>2, CleanerRecord DEF OverflowItem
    <2>4. cleaner.todo \ {x} \in SUBSET (Names \X Nat)
      BY <1>1
    <2>5. CleanerTypeOK' /\ SubmitTypeOK' /\ Wanted' \subseteq InUse \cup {NoPath}
      BY <2>1, <2>3, <2>4, OverflowMoves
    <2>. QED
      BY <2>1, <2>5, CleanerQuiet
  <1>. QED
    BY <1>3, <1>4

LEMMA RollEndStep ==
    ASSUME LogFilesInv, RollEnd
    PROVE  LogFilesInv'
  <1>. LogFilesTypeOK
    BY DEF LogFilesInv
  <1>1. CleanerOnly /\ submit' = submit
    BY DEF RollEnd, CleanerOnly
  <1>2. cleaner' = [pc |-> "idle", todo |-> {}, file |-> NoPath, sum |-> 0, failed |-> FALSE]
    BY DEF RollEnd, Resting
  <1>3. NoPath \in Paths
    BY DEF Paths
  <1>4. CleanerTypeOK' /\ SubmitTypeOK' /\ Wanted' \subseteq InUse \cup {NoPath}
    BY <1>1, <1>2, <1>3, CleanerMoves
  <1>. QED
    BY <1>1, <1>4, CleanerQuiet

LEMMA CleanerStep ==
    ASSUME LogFilesInv, Cleaner
    PROVE  LogFilesInv'
  BY RollCacheLogsStep, CompressStep, RenameZipStep, RenameToStep, RenameToFailsStep,
     DeleteSourceStep, OverflowCallbackStep, RollEndStep, RollItemStep, OverflowItemStep DEF Cleaner

-----------------------------------------------------------------------------
(* The call of submitLog                                                   *)

LEMMA SubmitMoves ==
    ASSUME LogFilesTypeOK, cleaner' = cleaner, submit'.todo \subseteq InUse,
           submit'.file \in InUse \cup {NoPath}
    PROVE  CleanerTypeOK' /\ Wanted' \subseteq InUse \cup {NoPath}
  BY DEF LogFilesTypeOK, CleanerTypeOK, Wanted, InUse

LEMMA SubmitFields ==
    ASSUME LogFilesTypeOK
    PROVE  /\ submit.todo \subseteq Names /\ submit.file \in Paths
           /\ submit.num \in Nat /\ submit.sum \in Nat /\ submit.mark \in Nat
           /\ submit.result \in Seq(Names)
           /\ submit.todo \subseteq InUse /\ submit.file \in InUse
           /\ cleaner.file \in Paths /\ DOMAIN files \subseteq Names
  BY DEF LogFilesTypeOK, SubmitTypeOK, CleanerTypeOK, InUse, Wanted

LEMMA SubmitQuiet ==
    ASSUME LogFilesInv, SubmitOnly, SubmitTypeOK', submit'.todo \subseteq InUse,
           submit'.file \in InUse \cup {NoPath}
    PROVE  LogFilesInv'
  <1>1. count' \in CountType /\ count' = count /\ count.fails \in Nat /\ count.deaths \in Nat
    BY DEF LogFilesInv, LogFilesTypeOK, CountType, SubmitOnly
  <1>2. CleanerTypeOK' /\ Wanted' \subseteq InUse \cup {NoPath}
    BY SubmitMoves DEF SubmitOnly, LogFilesInv
  <1>. QED
    BY <1>1, <1>2, QuietStep DEF SubmitOnly

LEMMA SubmitLogStep ==
    ASSUME LogFilesInv, NEW num \in Nums, SubmitLog(num)
    PROVE  LogFilesInv'
  <1>. LogFilesTypeOK
    BY DEF LogFilesInv
  <1>1. PICK skipped : submit' = [NoSubmit EXCEPT !.pc = "zip", !.num = num,
                                  !.mark = logged, !.todo = TextFiles \ {skipped}]
    BY DEF SubmitLog
  <1>2. /\ submit'.todo = TextFiles \ {skipped} /\ submit'.file = NoPath
        /\ submit'.pc = "zip" /\ submit'.num = num /\ submit'.mark = logged
    BY <1>1 DEF NoSubmit
  <1>3. TextFiles \subseteq DOMAIN files
    BY DEF TextFiles
  <1>4. SubmitTypeOK'
    <2>1. num \in Nat /\ logged \in Nat
      BY LogFilesAssumption DEF LogFilesTypeOK
    <2>2. TextFiles \ {skipped} \in SUBSET Names
      BY <1>3 DEF LogFilesTypeOK
    <2>3. <<>> \in Seq(Names)
      BY EmptySeq
    <2>4. NoPath \in Paths
      BY DEF Paths
    <2>. QED
      BY <1>1, <2>1, <2>2, <2>3, <2>4 DEF SubmitTypeOK, NoSubmit
  <1>5. CleanerTypeOK' /\ Wanted' \subseteq InUse \cup {NoPath}
    <2>1. submit'.todo \subseteq InUse
      BY <1>2, <1>3 DEF InUse
    <2>. QED
      BY <1>2, <2>1, SubmitMoves DEF SubmitLog
  <1>6. Counted("submits") /\ count \in CountType
    BY DEF SubmitLog, LogFilesTypeOK
  <1>7. UNCHANGED <<now, files, appenderVars, fate>>
    BY DEF SubmitLog
  <1>. QED
    BY <1>4, <1>5, <1>6, <1>7, CountedOne, QuietStep

LEMMA ZipOpenStep ==
    ASSUME LogFilesInv, NEW f \in submit.todo, ZipOpen(f)
    PROVE  LogFilesInv'
  <1>. LogFilesTypeOK
    BY DEF LogFilesInv
  <1>1. f \in Paths /\ f \in InUse
    BY SubmitFields DEF Paths
  <1>2. submit' = [submit EXCEPT !.pc = "copy", !.file = f, !.todo = @ \ {f}]
    BY DEF ZipOpen
  <1>3. SubmitTypeOK' /\ submit'.todo \subseteq submit.todo /\ submit'.file = f
    BY <1>1, <1>2 DEF LogFilesTypeOK, SubmitTypeOK
  <1>4. CleanerTypeOK' /\ Wanted' \subseteq InUse \cup {NoPath}
    BY <1>1, <1>3, SubmitFields, SubmitMoves DEF ZipOpen
  <1>5. /\ Put(As(f, "zip"), <<>>) /\ UNCHANGED <<now, appenderVars, fate>>
        /\ AtMostAFailure
    BY DEF ZipOpen, AtMostAFailure
  <1>6. <<>> \in Seq(Nat)
    BY EmptySeq
  <1>. QED
    BY <1>1, <1>3, <1>4, <1>5, <1>6, CopyStep

LEMMA ZipCopyStep ==
    ASSUME LogFilesInv, ZipCopy
    PROVE  LogFilesInv'
  <1>. LogFilesTypeOK
    BY DEF LogFilesInv
  <1>1. UNCHANGED <<now, appenderVars, cleaner, fate, count>>
    BY DEF ZipCopy
  <1>2. CASE Exists(submit.file)
    <2>1. submit' = [submit EXCEPT !.pc = "delete"]
      BY <1>2 DEF ZipCopy
    <2>2. SubmitTypeOK' /\ submit'.todo = submit.todo /\ submit'.file = submit.file
      BY <2>1 DEF LogFilesTypeOK, SubmitTypeOK
    <2>3. CleanerTypeOK' /\ Wanted' \subseteq InUse \cup {NoPath}
      BY <1>1, <2>2, SubmitFields, SubmitMoves
    <2>4. submit.file \in DOMAIN files
      BY <1>2 DEF Exists
    <2>5. PICK recs \in Seq(Nat) : /\ recs = files[submit.file].recs
                                   /\ Put(As(submit.file, "zip"), recs)
      BY <1>2, <2>4, TypeOfFile DEF ZipCopy
    <2>6. BeginsLike(recs, files[submit.file].recs)
      BY <2>5 DEF BeginsLike
    <2>7. AtMostAFailure
      BY <1>1 DEF AtMostAFailure
    <2>. QED
      BY <1>1, <2>2, <2>3, <2>4, <2>5, <2>6, <2>7, SubmitFields, CopyStep
  <1>3. CASE ~Exists(submit.file)
    <2>1. submit' = [submit EXCEPT !.pc = "zip", !.file = NoPath] /\ UNCHANGED files
      BY <1>3 DEF ZipCopy
    <2>2. SubmitTypeOK' /\ submit'.todo = submit.todo /\ submit'.file = NoPath
      BY <2>1 DEF LogFilesTypeOK, SubmitTypeOK, Paths
    <2>. QED
      BY <1>1, <2>1, <2>2, SubmitFields, SubmitQuiet DEF SubmitOnly
  <1>. QED
    BY <1>2, <1>3

LEMMA ZipBreaksOffStep ==
    ASSUME LogFilesInv, ZipBreaksOff
    PROVE  LogFilesInv'
  <1>. LogFilesTypeOK
    BY DEF LogFilesInv
  <1>1. UNCHANGED <<now, appenderVars, cleaner, fate>> /\ AtMostAFailure
    BY DEF ZipBreaksOff, AtMostAFailure
  <1>2. SubmitTypeOK' /\ submit'.todo = submit.todo /\ submit'.file = NoPath
    BY DEF ZipBreaksOff, LogFilesTypeOK, SubmitTypeOK, Paths
  <1>3. CleanerTypeOK' /\ Wanted' \subseteq InUse \cup {NoPath}
    BY <1>1, <1>2, SubmitFields, SubmitMoves
  <1>4. submit.file \in DOMAIN files
    BY DEF ZipBreaksOff, Exists
  <1>5. PICK n \in 0..Len(files[submit.file].recs) :
           Put(As(submit.file, "zip"), SubSeq(files[submit.file].recs, 1, n))
    BY DEF ZipBreaksOff
  <1>6. PICK recs \in Seq(Nat) : /\ recs = SubSeq(files[submit.file].recs, 1, n)
                                 /\ BeginsLike(recs, files[submit.file].recs)
    BY <1>4, TypeOfFile, Beginning
  <1>. QED
    BY <1>1, <1>2, <1>3, <1>4, <1>5, <1>6, SubmitFields, CopyStep

LEMMA ZipDeleteStep ==
    ASSUME LogFilesInv, ZipDelete
    PROVE  LogFilesInv'
  <1>. LogFilesTypeOK
    BY DEF LogFilesInv
  <1>1. submit' = [submit EXCEPT !.pc = "zip", !.file = NoPath] /\ cleaner' = cleaner
    BY DEF ZipDelete
  <1>2. SubmitTypeOK' /\ submit'.todo = submit.todo /\ submit'.file = NoPath
    BY <1>1 DEF LogFilesTypeOK, SubmitTypeOK, Paths
  <1>3. CleanerTypeOK' /\ Wanted' \subseteq InUse \cup {NoPath}
    BY <1>1, <1>2, SubmitFields, SubmitMoves
  <1>4. Unlink(submit.file, "archived")
    BY DEF ZipDelete
  <1>. QED
    BY <1>2, <1>3, <1>4, SubmitFields, UnlinkStep

LEMMA SelectListStep ==
    ASSUME LogFilesInv, SelectList
    PROVE  LogFilesInv'
  <1>. LogFilesTypeOK
    BY DEF LogFilesInv
  <1>1. submit' = [submit EXCEPT !.pc = "select", !.todo = DOMAIN files] /\ SubmitOnly
    BY DEF SelectList
  <1>2. SubmitTypeOK' /\ submit'.todo = DOMAIN files /\ submit'.file = submit.file
    BY <1>1 DEF LogFilesTypeOK, SubmitTypeOK
  <1>3. DOMAIN files \subseteq InUse
    BY DEF InUse
  <1>. QED
    BY <1>1, <1>2, <1>3, SubmitFields, SubmitQuiet

LEMMA SelectItemStep ==
    ASSUME LogFilesInv, NEW f \in submit.todo, SelectItem(f)
    PROVE  LogFilesInv'
  <1>. LogFilesTypeOK
    BY DEF LogFilesInv
  <1>1. CASE submit' = [submit EXCEPT !.pc = "flush", !.todo = {}]
    <2>1. SubmitTypeOK' /\ submit'.todo = {} /\ submit'.file = submit.file
      BY <1>1 DEF LogFilesTypeOK, SubmitTypeOK
    <2>. QED
      BY <2>1, SubmitFields, SubmitQuiet DEF SelectItem
  <1>2. CASE submit' = [submit EXCEPT !.todo = @ \ {f}, !.num = @ - 1,
                          !.result = Append(@, f),
                          !.sum = @ + (IF f.kind = "txt" THEN 0 ELSE Size(f))]
    <2>1. PICK num \in Nat : num = submit.num - 1
      BY SubmitFields DEF SelectItem
    <2>2. PICK sum \in Nat : sum = submit.sum + (IF f.kind = "txt" THEN 0 ELSE Size(f))
      BY SubmitFields, SizeType
    <2>3. PICK result \in Seq(Names) : result = Append(submit.result, f)
      BY SubmitFields, AppendProperties
    <2>4. submit' = [submit EXCEPT !.todo = submit.todo \ {f}, !.num = num,
                       !.result = result, !.sum = sum]
      BY <1>2, <2>1, <2>2, <2>3
    <2>5. SubmitTypeOK' /\ submit'.todo \subseteq submit.todo /\ submit'.file = submit.file
      BY <2>4 DEF LogFilesTypeOK, SubmitTypeOK
    <2>. QED
      BY <2>5, SubmitFields, SubmitQuiet DEF SelectItem
  <1>. QED
    BY <1>1, <1>2 DEF SelectItem

\* The steps that want nothing more of the directory.
LEMMA SubmitEndStep ==
    ASSUME LogFilesInv, SelectEnd \/ SubmitFeedback \/ SubmitReturn
    PROVE  LogFilesInv'
  <1>. LogFilesTypeOK
    BY DEF LogFilesInv
  <1>1. SubmitOnly
    BY DEF SelectEnd, SubmitFeedback, SubmitReturn
  <1>2. CASE SelectEnd
    <2>1. submit' = [submit EXCEPT !.pc = "flush", !.todo = {}, !.num = 0]
      BY <1>2 DEF SelectEnd
    <2>2. SubmitTypeOK' /\ submit'.todo = {} /\ submit'.file = submit.file
      BY <2>1 DEF LogFilesTypeOK, SubmitTypeOK
    <2>. QED
      BY <1>1, <2>2, SubmitFields, SubmitQuiet
  <1>3. CASE SubmitFeedback
    <2>1. submit' = [submit EXCEPT !.pc = "done", !.report = Feedback.recs]
      BY <1>3 DEF SubmitFeedback
    <2>2. SubmitTypeOK' /\ submit'.todo = submit.todo /\ submit'.file = submit.file
      BY <2>1 DEF LogFilesTypeOK, SubmitTypeOK
    <2>. QED
      BY <1>1, <2>2, SubmitFields, SubmitQuiet
  <1>4. CASE SubmitReturn
    <2>1. submit' = NoSubmit
      BY <1>4 DEF SubmitReturn
    <2>2. <<>> \in Seq(Names) /\ NoPath \in Paths
      BY EmptySeq DEF Paths
    <2>3. SubmitTypeOK' /\ submit'.todo = {} /\ submit'.file = NoPath
      BY <2>1, <2>2 DEF NoSubmit, SubmitTypeOK, NoRecord
    <2>. QED
      BY <1>1, <2>3, SubmitQuiet
  <1>. QED
    BY <1>2, <1>3, <1>4

LEMMA SubmitStep ==
    ASSUME LogFilesInv, Submit
    PROVE  LogFilesInv'
  BY SubmitLogStep, ZipOpenStep, ZipCopyStep, ZipBreaksOffStep, ZipDeleteStep, SelectListStep,
     SelectItemStep, SubmitEndStep DEF Submit

-----------------------------------------------------------------------------
(* The appender                                                            *)

\* One record gets its fate.
LEMMA OneFate ==
    ASSUME LogFilesTypeOK, NEW r \in Records, NEW why \in Fates,
           fate' = [fate EXCEPT ![r] = why]
    PROVE  /\ fate' \in [Records -> Fates]
           /\ Cardinality(Ghosts) \in Nat /\ Cardinality(Ghosts') \in Nat
           /\ Cardinality(Ghosts') <= Cardinality(Ghosts) + 1
           /\ why # "ghost" => Cardinality(Ghosts') <= Cardinality(Ghosts)
           /\ \A s \in Records : s # r => fate'[s] = fate[s]
           /\ fate'[r] = why
  <1>1. /\ fate' \in [Records -> Fates] /\ fate'[r] = why
        /\ \A s \in Records : s # r => fate'[s] = fate[s]
    BY DEF LogFilesTypeOK
  <1>2. Ghosts \subseteq Records /\ Ghosts' \subseteq Records
    BY DEF Ghosts
  <1>3. IsFiniteSet(Ghosts) /\ Cardinality(Ghosts) \in Nat /\ Cardinality(Ghosts') \in Nat
    BY <1>2, GhostsAreFinite
  <1>4. Ghosts' \subseteq Ghosts \cup {r}
    BY <1>1 DEF Ghosts
  <1>5. IsFiniteSet(Ghosts \cup {r}) /\ Cardinality(Ghosts \cup {r}) \in Nat
        /\ Cardinality(Ghosts \cup {r}) <= Cardinality(Ghosts) + 1
    <2>1. /\ IsFiniteSet(Ghosts \cup {r})
          /\ Cardinality(Ghosts \cup {r}) = IF r \in Ghosts THEN Cardinality(Ghosts)
                                            ELSE Cardinality(Ghosts) + 1
      BY <1>3, FS_AddElement
    <2>. QED
      BY <1>3, <2>1
  <1>6. Cardinality(Ghosts') <= Cardinality(Ghosts \cup {r})
    BY <1>4, <1>5, FS_Subset
  <1>7. ASSUME why # "ghost"
        PROVE  Cardinality(Ghosts') <= Cardinality(Ghosts)
    <2>1. Ghosts' \subseteq Ghosts
      BY <1>1, <1>7 DEF Ghosts
    <2>. QED
      BY <1>3, <2>1, FS_Subset
  <1>8. Cardinality(Ghosts') <= Cardinality(Ghosts) + 1
    BY <1>3, <1>5, <1>6
  <1>. QED
    BY <1>1, <1>3, <1>7, <1>8

LEMMA InMemory ==
    ASSUME LogFilesTypeOK, MemoryOK, NEW r \in {chunk, buffer}, r # NoRecord
    PROVE  r \in Records /\ r \in Nat
  BY LogFilesAssumption DEF LogFilesTypeOK, MemoryOK, Records, NoRecord

LEMMA LogStep ==
    ASSUME LogFilesInv, Log
    PROVE  LogFilesInv'
  <1>. /\ LogFilesTypeOK /\ HandleOK /\ MemoryOK /\ TimesOK /\ OrderOK /\ SizeOK
       /\ GhostsOK /\ FailedOK
    BY DEF LogFilesInv
  <1>1. /\ logged' = logged + 1 /\ buffer' = logged + 1 /\ buffer = NoRecord
        /\ logged < MaxRecords
    BY DEF Log
  <1>2. UNCHANGED <<now, files, chunk, handle, lastPath, lastTime, cleaner, submit, fate, count>>
    BY DEF Log
  <1>3. MaxRecords \in Nat /\ logged \in Nat /\ chunk \in Nat
    BY LogFilesAssumption DEF LogFilesTypeOK
  <1>4. LogFilesTypeOK'
    <2>1. logged' \in 0..MaxRecords /\ buffer' \in Nat
      BY <1>1, <1>3
    <2>2. CleanerTypeOK' /\ SubmitTypeOK'
      BY <1>2 DEF LogFilesTypeOK, CleanerTypeOK, SubmitTypeOK
    <2>. QED
      BY <1>2, <2>1, <2>2 DEF LogFilesTypeOK
  <1>5. MemoryOK'
    <2>1. ASSUME NEW f \in DOMAIN files, NEW i \in DOMAIN files[f].recs
          PROVE  /\ files[f].recs[i] <= logged + 1
                 /\ \A r \in {chunk, logged + 1} \ {NoRecord} : files[f].recs[i] < r
      <3>1. files[f].recs[i] \in Nat
        BY TypeOfFile
      <3>2. /\ files[f].recs[i] <= logged
            /\ chunk # NoRecord => files[f].recs[i] < chunk
        BY DEF MemoryOK
      <3>. QED
        BY <1>3, <3>1, <3>2
    <2>2. chunk <= logged + 1 /\ chunk < logged + 1
      BY <1>3 DEF MemoryOK
    <2>3. logged + 1 <= logged + 1
      BY <1>3
    <2>. QED
      BY <1>1, <1>2, <2>1, <2>2, <2>3 DEF MemoryOK
  <1>6. HandleOK'
    BY <1>2 DEF HandleOK
  <1>7. TimesOK'
    BY <1>2 DEF TimesOK, InUse, Wanted
  <1>8. OrderOK'
    BY <1>2 DEF OrderOK
  <1>9. SizeOK'
    BY <1>2 DEF SizeOK, HasRoom, TextFiles
  <1>10. GhostsOK' /\ FailedOK'
    BY <1>2 DEF GhostsOK, FailedOK, Ghosts, AboutToBeLost
  <1>. QED
    BY <1>4, <1>5, <1>6, <1>7, <1>8, <1>9, <1>10 DEF LogFilesInv

\* appender_close and the death of the process: the file is closed.
LEMMA CloseLogFileStep ==
    ASSUME LogFilesInv, CloseLogFile
    PROVE  LogFilesInv'
  <1>. /\ LogFilesTypeOK /\ HandleOK /\ MemoryOK /\ TimesOK /\ OrderOK /\ SizeOK
       /\ GhostsOK /\ FailedOK
    BY DEF LogFilesInv
  <1>1. handle' = "closed" /\ lastPath' = NoPath /\ chunk = NoRecord
    BY DEF CloseLogFile
  <1>2. UNCHANGED <<now, files, logged, buffer, chunk, lastTime, cleaner, submit, fate, count>>
    BY DEF CloseLogFile
  <1>3. LogFilesTypeOK'
    BY <1>1, <1>2 DEF LogFilesTypeOK, CleanerTypeOK, SubmitTypeOK
  <1>4. HandleOK' /\ MemoryOK'
    BY <1>1, <1>2 DEF HandleOK, MemoryOK
  <1>5. TimesOK' /\ OrderOK'
    BY <1>1, <1>2 DEF TimesOK, InUse, Wanted, OrderOK
  <1>6. SizeOK'
    BY <1>1, <1>2 DEF SizeOK, TextFiles
  <1>7. GhostsOK' /\ FailedOK'
    BY <1>1, <1>2 DEF GhostsOK, FailedOK, Ghosts, AboutToBeLost
  <1>. QED
    BY <1>3, <1>4, <1>5, <1>6, <1>7 DEF LogFilesInv

LEMMA DieStep ==
    ASSUME LogFilesInv, Die
    PROVE  LogFilesInv'
  <1>. /\ LogFilesTypeOK /\ HandleOK /\ MemoryOK /\ TimesOK /\ OrderOK /\ SizeOK
       /\ GhostsOK /\ FailedOK
    BY DEF LogFilesInv
  <1>1. /\ handle' = "closed" /\ lastPath' = NoPath /\ lastTime' = 0 /\ chunk' = NoRecord
        /\ cleaner' = Resting /\ submit' = NoSubmit
        /\ UNCHANGED <<now, files, logged, buffer>>
    BY DEF Die
  <1>2. /\ Counted("deaths") /\ count \in CountType /\ count' \in CountType
        /\ count'.deaths = count.deaths + 1 /\ count'.backs = count.backs
        /\ count'.unlinks = count.unlinks
    BY CountedOne DEF Die, LogFilesTypeOK
  <1>3. /\ fate' \in [Records -> Fates]
        /\ Cardinality(Ghosts') \in Nat /\ Cardinality(Ghosts) \in Nat
        /\ Cardinality(Ghosts') <= Cardinality(Ghosts)
    <2>1. CASE chunk = NoRecord
      <3>1. fate' = fate
        BY <2>1 DEF Die
      <3>2. Ghosts' = Ghosts /\ Ghosts \subseteq Records
        BY <3>1 DEF Ghosts
      <3>3. Cardinality(Ghosts) \in Nat
        BY <3>2, GhostsAreFinite
      <3>. QED
        BY <3>1, <3>2, <3>3 DEF LogFilesTypeOK
    <2>2. CASE chunk # NoRecord
      <3>1. fate' = [fate EXCEPT ![chunk] = "failed"] /\ "failed" \in Fates
        BY <2>2 DEF Die, Fates
      <3>2. chunk \in Records
        BY <2>2, InMemory
      <3>. QED
        BY <3>1, <3>2, OneFate
    <2>. QED
      BY <2>1, <2>2
  <1>4. LogFilesTypeOK'
    <2>1. <<>> \in Seq(Names) /\ NoPath \in Paths
      BY EmptySeq DEF Paths
    <2>2. CleanerTypeOK' /\ SubmitTypeOK'
      BY <1>1, <2>1 DEF CleanerTypeOK, SubmitTypeOK, Resting, NoSubmit, NoRecord
    <2>. QED
      BY <1>1, <1>2, <1>3, <2>2 DEF LogFilesTypeOK, NoRecord
  <1>5. HandleOK' /\ MemoryOK'
    <2>1. logged \in Nat
      BY LogFilesAssumption DEF LogFilesTypeOK
    <2>. QED
      BY <1>1, <2>1 DEF HandleOK, MemoryOK, NoRecord
  <1>6. TimesOK'
    <2>1. InUse' = DOMAIN files \cup {NoPath}
      BY <1>1 DEF InUse, Wanted, Resting, NoSubmit
    <2>2. NoPath.min = 0 /\ now \in Nat
      BY LogFilesAssumption DEF LogFilesTypeOK, NoPath, Minutes
    <2>. QED
      BY <1>1, <1>2, <2>1, <2>2 DEF TimesOK, InUse
  <1>7. OrderOK' /\ SizeOK'
    BY <1>1, <1>2 DEF OrderOK, SizeOK, TextFiles
  <1>8. GhostsOK' /\ FailedOK'
    <2>1. count'.fails \in Nat /\ count'.backs \in Nat /\ count.unlinks \in Nat
          /\ count'.deaths \in Nat /\ count.deaths \in Nat
      BY <1>2 DEF CountType
    <2>2. GhostsOK'
      BY <1>1, <1>2, <1>3, <2>1 DEF GhostsOK, AboutToBeLost
    <2>3. PICK a \in Nat, b \in Nat, c \in Nat :
              count'.fails = a /\ count'.deaths = b + 1 /\ count'.backs = c
      BY <1>2, <2>1
    <2>4. count'.fails + count'.deaths + count'.backs # 0
      BY <2>3
    <2>. QED
      BY <2>2, <2>4 DEF FailedOK
  <1>. QED
    BY <1>4, <1>5, <1>6, <1>7, <1>8 DEF LogFilesInv

\* The clock; after it has gone back, order and sizes promise nothing.
LEMMA ClockStep ==
    ASSUME LogFilesInv, Tick \/ SetBack
    PROVE  LogFilesInv'
  <1>. /\ LogFilesTypeOK /\ HandleOK /\ MemoryOK /\ TimesOK /\ OrderOK /\ SizeOK
       /\ GhostsOK /\ FailedOK
    BY DEF LogFilesInv
  <1>0. now \in Nat /\ MaxMinute \in Nat /\ count \in CountType
    BY LogFilesAssumption DEF LogFilesTypeOK, Minutes
  <1>1. UNCHANGED <<files, logged, buffer, chunk, handle, lastPath, lastTime, cleaner,
                    submit, fate>>
    BY DEF Tick, SetBack, appenderVars
  <1>2. HandleOK' /\ MemoryOK'
    BY <1>1 DEF HandleOK, MemoryOK
  <1>3. now' \in Minutes
    BY <1>0 DEF Tick, SetBack, LogFilesTypeOK, Minutes
  <1>4. ASSUME count' \in CountType
        PROVE  LogFilesTypeOK'
    BY <1>1, <1>3, <1>4 DEF LogFilesTypeOK, CleanerTypeOK, SubmitTypeOK
  <1>5. CASE Tick
    <2>1. now' = now + 1 /\ count' = count
      BY <1>5 DEF Tick
    <2>2. LogFilesTypeOK'
      BY <1>0, <1>4, <2>1
    <2>3. TimesOK'
      <3>1. InUse' = InUse
        BY <1>1 DEF InUse, Wanted
      <3>2. \A f \in InUse : f.min \in Nat
        <4>1. InUse \subseteq Paths \cup Names
          BY CleanerFields DEF InUse, Wanted
        <4>. QED
          BY <4>1, PathFields DEF Paths
      <3>3. lastTime \in Nat
        BY DEF LogFilesTypeOK
      <3>4. ASSUME count.backs = 0
            PROVE  lastTime <= now + 1 /\ \A f \in InUse : f.min <= now + 1
        <4>1. lastTime <= now /\ \A f \in InUse : f.min <= now
          BY <3>4 DEF TimesOK
        <4>2. \A f \in InUse : f.min <= now + 1
          BY <1>0, <3>2, <4>1
        <4>. QED
          BY <1>0, <3>3, <4>1, <4>2
      <3>. QED
        BY <1>1, <2>1, <3>1, <3>4 DEF TimesOK
    <2>4. OrderOK' /\ SizeOK'
      BY <1>1, <2>1 DEF OrderOK, SizeOK, HasRoom, TextFiles
    <2>5. GhostsOK' /\ FailedOK'
      BY <1>1, <2>1 DEF GhostsOK, FailedOK, Ghosts, AboutToBeLost
    <2>. QED
      BY <1>2, <2>2, <2>3, <2>4, <2>5 DEF LogFilesInv
  <1>6. CASE SetBack
    <2>1. /\ count' \in CountType /\ count'.backs = count.backs + 1
          /\ count'.unlinks = count.unlinks
      BY <1>0, <1>6, CountedOne DEF SetBack
    <2>2. LogFilesTypeOK'
      BY <1>4, <2>1
    <2>3. PICK a \in Nat, b \in Nat, c \in Nat :
              count'.fails = a /\ count'.deaths = b /\ count'.backs = c + 1
      BY <1>0, <2>1 DEF CountType
    <2>4. count'.backs # 0 /\ count'.fails + count'.deaths + count'.backs # 0
      BY <2>3
    <2>5. TimesOK' /\ OrderOK' /\ SizeOK' /\ FailedOK'
      BY <2>4 DEF TimesOK, OrderOK, SizeOK, FailedOK
    <2>6. GhostsOK'
      BY <1>1, <2>1 DEF GhostsOK, Ghosts, AboutToBeLost
    <2>. QED
      BY <1>2, <2>2, <2>5, <2>6 DEF LogFilesInv
  <1>. QED
    BY <1>5, <1>6

\* The name that is made is of this minute and, if there is such a file, it has
\* room or is the last of the minute.
LEMMA NameToOpen ==
    ASSUME LogFilesTypeOK
    PROVE  /\ MakeLogfilename \in TxtNames /\ MakeLogfilename.min = now
           /\ MaxFileSize > 0 /\ MakeLogfilename \in DOMAIN files => HasRoom(MakeLogfilename)
  <1>. DEFINE indices == 0..(FilesPerMinute - 1)
              free == {i \in indices : ~Exists(Txt(now, i))}
              first == CHOOSE i \in free : \A j \in free : i <= j
  <1>1. /\ FilesPerMinute \in Nat /\ FilesPerMinute > 0 /\ MaxFileSize \in Nat
        /\ FilesPerMinute - 1 \in indices
    BY LogFilesAssumption
  <1>2. now \in Minutes
    BY DEF LogFilesTypeOK
  <1>3. ASSUME NEW i \in indices
        PROVE  /\ Txt(now, i) \in TxtNames /\ Txt(now, i).min = now /\ Txt(now, i).idx = i
    BY <1>2, <1>3 DEF Txt, TxtNames, Names
  <1>4. MakeLogfilename =
          IF free = {} THEN Txt(now, FilesPerMinute - 1)
          ELSE IF first > 0 /\ ~FileSizeTooLarge(Txt(now, first - 1))
               THEN Txt(now, first - 1) ELSE Txt(now, first)
    BY DEF MakeLogfilename
  <1>5. CASE free = {}
    <2>1. MakeLogfilename = Txt(now, FilesPerMinute - 1)
      BY <1>4, <1>5
    <2>. QED
      BY <1>1, <1>3, <2>1 DEF HasRoom
  <1>6. CASE free # {}
    <2>1. free \subseteq Nat /\ free \subseteq indices
      BY <1>1
    <2>2. \E i \in free : \A j \in free : i <= j
      BY <1>6, <2>1, LeastNumber
    <2>3. first \in free
      BY <2>2
    <2>4. PICK k \in indices : k = first /\ ~Exists(Txt(now, k))
      BY <2>3
    <2>5. CASE k > 0 /\ ~FileSizeTooLarge(Txt(now, k - 1))
      <3>1. k - 1 \in indices
        BY <1>1, <2>5
      <3>2. MakeLogfilename = Txt(now, k - 1)
        BY <1>4, <1>6, <2>4, <2>5
      <3>3. PICK f : f = Txt(now, k - 1)
        OBVIOUS
      <3>4. f \in TxtNames /\ f.min = now
        BY <1>3, <3>1, <3>3
      <3>5. MaxFileSize > 0 => HasRoom(f)
        <4>1. f \in DOMAIN files /\ ~(MaxFileSize > 0 /\ Len(files[f].recs) > MaxFileSize)
          BY <2>5, <3>3 DEF FileSizeTooLarge, Exists
        <4>2. Len(files[f].recs) \in Nat
          BY <4>1, TypeOfFile
        <4>. QED
          BY <1>1, <4>1, <4>2 DEF HasRoom
      <3>. QED
        BY <3>2, <3>3, <3>4, <3>5
    <2>6. CASE ~(k > 0 /\ ~FileSizeTooLarge(Txt(now, k - 1)))
      <3>1. MakeLogfilename = Txt(now, k)
        BY <1>4, <1>6, <2>4, <2>6
      <3>2. Txt(now, k) \notin DOMAIN files
        BY <2>4 DEF Exists
      <3>. QED
        BY <1>3, <3>1, <3>2
    <2>. QED
      BY <2>5, <2>6
  <1>. QED
    BY <1>5, <1>6

\* The open file is there and has room: the record goes to it.
LEMMA StayStep ==
    ASSUME LogFilesInv, OpenLogFile,
           handle # "closed", lastPath = NoPath \/ ~FileSizeTooLarge(lastPath)
    PROVE  LogFilesInv'
  <1>. /\ LogFilesTypeOK /\ HandleOK /\ MemoryOK /\ TimesOK /\ OrderOK /\ SizeOK
       /\ GhostsOK /\ FailedOK
    BY DEF LogFilesInv
  <1>1. /\ chunk = NoRecord /\ buffer # NoRecord /\ buffer' = NoRecord /\ chunk' = buffer
        /\ UNCHANGED <<now, files, logged, handle, lastPath, lastTime, cleaner, submit,
                       fate, count>>
    BY DEF OpenLogFile
  <1>2. lastPath # NoPath
    BY DEF HandleOK
  <1>3. lastPath \in DOMAIN files /\ ~(MaxFileSize > 0 /\ Len(files[lastPath].recs) > MaxFileSize)
    BY <1>2 DEF FileSizeTooLarge, Exists
  <1>4. handle = "open"
    BY <1>3 DEF HandleOK, LogFilesTypeOK
  <1>5. LogFilesTypeOK'
    BY <1>1 DEF LogFilesTypeOK, CleanerTypeOK, SubmitTypeOK, NoRecord
  <1>6. HandleOK' /\ TimesOK' /\ OrderOK'
    BY <1>1 DEF HandleOK, TimesOK, InUse, Wanted, OrderOK
  <1>7. MemoryOK'
    <2>1. logged \in Nat
      BY LogFilesAssumption DEF LogFilesTypeOK
    <2>2. /\ buffer <= logged
          /\ \A f \in DOMAIN files : \A i \in DOMAIN files[f].recs :
                files[f].recs[i] <= logged /\ files[f].recs[i] < buffer
      BY <1>1 DEF MemoryOK
    <2>. QED
      BY <1>1, <2>1, <2>2 DEF MemoryOK, NoRecord
  <1>8. SizeOK'
    <2>1. MaxFileSize \in Nat /\ Len(files[lastPath].recs) \in Nat
      BY <1>3, TypeOfFile, LogFilesAssumption
    <2>2. MaxFileSize > 0 => HasRoom(lastPath)
      BY <1>3, <2>1 DEF HasRoom
    <2>. QED
      BY <1>1, <2>2 DEF SizeOK, HasRoom, TextFiles
  <1>9. GhostsOK' /\ FailedOK'
    BY <1>1, <1>4 DEF GhostsOK, FailedOK, Ghosts, AboutToBeLost
  <1>. QED
    BY <1>5, <1>6, <1>7, <1>8, <1>9 DEF LogFilesInv

\* What the path is: unless the clock has gone back, the one that is made.
LEMMA WhichPath ==
    ASSUME LogFilesInv, NEW path, path = PathToOpen,
           IF now < lastTime THEN UNCHANGED <<lastPath, lastTime>>
           ELSE lastPath' = path /\ lastTime' = now
    PROVE  /\ path \in TxtNames \cup {NoPath} /\ lastPath' = path /\ lastTime' \in Nat
           /\ count.backs = 0 => /\ path = MakeLogfilename /\ lastTime' = now
                                 /\ path # NoPath
  <1>. LogFilesTypeOK
    BY DEF LogFilesInv
  <1>1. now \in Nat /\ lastTime \in Nat
    BY LogFilesAssumption DEF LogFilesTypeOK, Minutes
  <1>2. MakeLogfilename \in TxtNames
    BY NameToOpen
  <1>3. MakeLogfilename # NoPath
    BY <1>2 DEF TxtNames, NoPath
  <1>4. CASE now < lastTime
    <2>1. path = lastPath /\ lastPath' = lastPath /\ lastTime' = lastTime
      BY <1>4 DEF PathToOpen
    <2>2. count.backs # 0
      BY <1>1, <1>4 DEF LogFilesInv, TimesOK
    <2>. QED
      BY <1>1, <2>1, <2>2 DEF LogFilesTypeOK
  <1>5. CASE ~(now < lastTime)
    <2>1. path = MakeLogfilename /\ lastPath' = path /\ lastTime' = now
      BY <1>5 DEF PathToOpen
    <2>. QED
      BY <1>1, <1>2, <1>3, <2>1
  <1>. QED
    BY <1>4, <1>5

\* A file is opened, and made if it is not there.
LEMMA OpenStep ==
    ASSUME LogFilesInv, NEW path \in TxtNames, lastPath' = path, lastTime' \in Nat,
           count.backs = 0 => path = MakeLogfilename /\ lastTime' = now,
           chunk = NoRecord, buffer # NoRecord, buffer' = NoRecord,
           handle' = "open", chunk' = buffer,
           IF Exists(path) THEN UNCHANGED files ELSE Put(path, <<>>),
           UNCHANGED <<now, logged, cleaner, submit, fate, count>>
    PROVE  LogFilesInv'
  <1>. /\ LogFilesTypeOK /\ HandleOK /\ MemoryOK /\ TimesOK /\ OrderOK /\ SizeOK
       /\ GhostsOK /\ FailedOK
    BY DEF LogFilesInv
  <1>1. path \in Names /\ path # NoPath /\ now \in Nat
    BY LogFilesAssumption DEF TxtNames, NoPath, LogFilesTypeOK, Minutes
  <1>2. /\ DOMAIN files' = DOMAIN files \cup {path}
        /\ \A g \in DOMAIN files' : files'[g] \in File
        /\ \A g \in DOMAIN files : files'[g] = files[g]
        /\ path \notin DOMAIN files => files'[path].recs = <<>>
    <2>1. CASE Exists(path)
      BY <2>1 DEF LogFilesTypeOK, Exists
    <2>2. CASE ~Exists(path)
      <3>1. <<>> \in Seq(Nat) /\ Put(path, <<>>)
        BY <2>2, EmptySeq
      <3>. QED
        BY <1>1, <2>2, <3>1, PutOne DEF Exists
    <2>. QED
      BY <2>1, <2>2
  <1>3. ASSUME NEW g \in DOMAIN files', NEW i \in DOMAIN files'[g].recs
        PROVE  g \in DOMAIN files /\ files'[g] = files[g]
    <2>1. files'[g].recs # <<>>
      OBVIOUS
    <2>. QED
      BY <1>2, <2>1
  <1>4. LogFilesTypeOK'
    <2>1. CleanerTypeOK' /\ SubmitTypeOK'
      BY DEF LogFilesTypeOK, CleanerTypeOK, SubmitTypeOK
    <2>. QED
      BY <1>1, <1>2, <2>1 DEF LogFilesTypeOK, NoRecord
  <1>5. HandleOK'
    BY <1>1, <1>2 DEF HandleOK
  <1>6. MemoryOK'
    <2>1. logged \in Nat
      BY LogFilesAssumption DEF LogFilesTypeOK
    <2>2. /\ buffer <= logged
          /\ \A f \in DOMAIN files : \A i \in DOMAIN files[f].recs :
                files[f].recs[i] <= logged /\ files[f].recs[i] < buffer
      BY DEF MemoryOK
    <2>3. \A g \in DOMAIN files' : \A i \in DOMAIN files'[g].recs :
             files'[g].recs[i] <= logged /\ files'[g].recs[i] < buffer
      BY <1>3, <2>2
    <2>. QED
      BY <2>1, <2>2, <2>3 DEF MemoryOK, NoRecord
  <1>7. TimesOK'
    <2>. SUFFICES ASSUME count.backs = 0
                  PROVE  /\ lastTime' <= now /\ \A g \in InUse' : g.min <= now
                         /\ \A g \in InUse' : g.min <= lastPath'.min
      BY DEF TimesOK
    <2>1. lastPath'.min = now /\ lastTime' = now
      BY NameToOpen
    <2>2. InUse' = InUse \cup {path}
      BY <1>2 DEF InUse, Wanted
    <2>3. \A g \in InUse' : g.min <= now
      BY <1>1, <2>1, <2>2 DEF TimesOK
    <2>. QED
      BY <1>1, <2>1, <2>3
  <1>8. OrderOK'
    BY <1>3 DEF OrderOK
  <1>9. SizeOK'
    <2>. SUFFICES ASSUME count.backs = 0, MaxFileSize > 0
                  PROVE  /\ HasRoom(lastPath)'
                         /\ \A f \in TextFiles' : Len(files'[f].recs) > MaxFileSize + 1
                                                    => f.idx = FilesPerMinute - 1
      BY DEF SizeOK
    <2>1. MaxFileSize \in Nat /\ Len(<<>>) = 0
      BY LogFilesAssumption
    <2>2. HasRoom(lastPath)'
      <3>1. CASE path \in DOMAIN files
        <4>1. HasRoom(path)
          BY <3>1, NameToOpen
        <4>. QED
          BY <1>2, <3>1, <4>1 DEF HasRoom
      <3>2. CASE path \notin DOMAIN files
        <4>1. Len(files'[path].recs) = 0
          BY <1>2, <2>1, <3>2
        <4>. QED
          BY <2>1, <4>1 DEF HasRoom
      <3>. QED
        BY <3>1, <3>2
    <2>3. ASSUME NEW f \in TextFiles', Len(files'[f].recs) > MaxFileSize + 1
          PROVE  f.idx = FilesPerMinute - 1
      <3>1. f \in DOMAIN files' /\ f.kind = "txt"
        BY DEF TextFiles
      <3>2. f \in DOMAIN files
        <4>1. CASE f = path /\ path \notin DOMAIN files
          <5>1. Len(files'[f].recs) = 0
            BY <1>2, <2>1, <4>1
          <5>. QED
            BY <2>1, <2>3, <5>1
        <4>. QED
          BY <1>2, <3>1, <4>1
      <3>3. f \in TextFiles /\ Len(files[f].recs) > MaxFileSize + 1
        BY <1>2, <2>3, <3>1, <3>2 DEF TextFiles
      <3>. QED
        BY <3>3 DEF SizeOK
    <2>. QED
      BY <2>2, <2>3
  <1>10. GhostsOK' /\ FailedOK'
    <2>1. Ghosts' = Ghosts /\ Ghosts \subseteq Records
      BY DEF Ghosts
    <2>2. Cardinality(Ghosts) \in Nat
      BY <2>1, GhostsAreFinite
    <2>3. count.unlinks \in Nat
      BY DEF LogFilesTypeOK, CountType
    <2>4. GhostsOK'
      BY <2>1, <2>2, <2>3 DEF GhostsOK, AboutToBeLost
    <2>5. FailedOK'
      BY DEF FailedOK
    <2>. QED
      BY <2>4, <2>5
  <1>. QED
    BY <1>4, <1>5, <1>6, <1>7, <1>8, <1>9, <1>10 DEF LogFilesInv

\* A call fails and a record is lost; the directory is as it was.
LEMMA FailStep ==
    ASSUME LogFilesInv, NEW r \in {chunk, buffer}, r # NoRecord,
           fate' = [fate EXCEPT ![r] = "failed"], chunk' = NoRecord,
           buffer' \in {buffer, NoRecord}, lastTime' \in Nat,
           \/ handle' = "closed" /\ lastPath' \in TxtNames \cup {NoPath}
           \/ UNCHANGED <<handle, lastPath>>,
           count.backs = 0 => lastTime' = now \/ lastTime' = lastTime,
           \/ count.backs # 0 /\ UNCHANGED count
           \/ Counted("fails"),
           UNCHANGED <<now, files, logged, cleaner, submit>>
    PROVE  LogFilesInv'
  <1>. /\ LogFilesTypeOK /\ HandleOK /\ MemoryOK /\ TimesOK /\ OrderOK /\ SizeOK
       /\ GhostsOK /\ FailedOK
    BY DEF LogFilesInv
  <1>1. r \in Records /\ "failed" \in Fates
    BY InMemory DEF Fates
  <1>2. /\ fate' \in [Records -> Fates]
        /\ Cardinality(Ghosts') \in Nat /\ Cardinality(Ghosts) \in Nat
        /\ Cardinality(Ghosts') <= Cardinality(Ghosts)
    BY <1>1, OneFate
  <1>3. /\ count' \in CountType /\ count'.unlinks = count.unlinks
        /\ count'.backs = count.backs
        /\ count'.backs # 0 \/ count'.fails = count.fails + 1
    BY CountedOne DEF LogFilesTypeOK
  <1>4. LogFilesTypeOK'
    <2>1. CleanerTypeOK' /\ SubmitTypeOK'
      BY DEF LogFilesTypeOK, CleanerTypeOK, SubmitTypeOK
    <2>. QED
      BY <1>2, <1>3, <2>1 DEF LogFilesTypeOK, NoRecord
  <1>5. HandleOK'
    BY DEF HandleOK
  <1>6. MemoryOK'
    <2>1. logged \in Nat
      BY LogFilesAssumption DEF LogFilesTypeOK
    <2>. QED
      BY <2>1 DEF MemoryOK, NoRecord
  <1>7. TimesOK'
    <2>1. InUse' = InUse
      BY DEF InUse, Wanted
    <2>2. now <= now
      BY LogFilesAssumption DEF LogFilesTypeOK, Minutes
    <2>. QED
      BY <1>3, <2>1, <2>2 DEF TimesOK
  <1>8. OrderOK' /\ SizeOK'
    BY <1>3 DEF OrderOK, SizeOK, TextFiles
  <1>9. GhostsOK' /\ FailedOK'
    <2>1. count.unlinks \in Nat
      BY DEF LogFilesTypeOK, CountType
    <2>2. GhostsOK'
      BY <1>2, <1>3, <2>1 DEF GhostsOK, AboutToBeLost
    <2>3. PICK a \in Nat, b \in Nat, c \in Nat :
              count'.fails = a /\ count'.deaths = b /\ count'.backs = c
      BY <1>3 DEF CountType
    <2>4. a # 0 \/ c # 0
      <3>1. count.fails \in Nat
        BY DEF LogFilesTypeOK, CountType
      <3>. QED
        BY <1>3, <2>3, <3>1
    <2>5. count'.fails + count'.deaths + count'.backs # 0
      BY <2>3, <2>4
    <2>. QED
      BY <2>2, <2>5 DEF FailedOK
  <1>. QED
    BY <1>4, <1>5, <1>6, <1>7, <1>8, <1>9 DEF LogFilesInv

LEMMA OpenLogFileStep ==
    ASSUME LogFilesInv, OpenLogFile
    PROVE  LogFilesInv'
  <1>1. CASE handle # "closed" /\ (lastPath = NoPath \/ ~FileSizeTooLarge(lastPath))
    BY <1>1, StayStep
  <1>2. CASE ~(handle # "closed" /\ (lastPath = NoPath \/ ~FileSizeTooLarge(lastPath)))
    <2>1. PICK path : path = PathToOpen
      OBVIOUS
    <2>2. /\ IF now < lastTime THEN UNCHANGED <<lastPath, lastTime>>
             ELSE lastPath' = path /\ lastTime' = now
          /\ \/ /\ path # NoPath
                /\ handle' = "open" /\ chunk' = buffer
                /\ IF Exists(path) THEN UNCHANGED files ELSE Put(path, <<>>)
                /\ UNCHANGED <<fate, count>>
             \/ /\ path = NoPath \/ Allowed("fails")
                /\ handle' = "closed" /\ chunk' = NoRecord
                /\ fate' = [fate EXCEPT ![buffer] = "failed"]
                /\ IF path = NoPath THEN UNCHANGED count ELSE Counted("fails")
                /\ UNCHANGED files
      BY <1>2, <2>1 DEF OpenLogFile
    <2>3. /\ path \in TxtNames \cup {NoPath} /\ lastPath' = path /\ lastTime' \in Nat
          /\ count.backs = 0 => /\ path = MakeLogfilename /\ lastTime' = now
                                /\ path # NoPath
      BY <2>1, <2>2, WhichPath
    <2>4. /\ chunk = NoRecord /\ buffer # NoRecord /\ buffer' = NoRecord
          /\ UNCHANGED <<now, logged, cleaner, submit>>
      BY DEF OpenLogFile
    <2>5. CASE /\ path # NoPath /\ handle' = "open" /\ chunk' = buffer
               /\ IF Exists(path) THEN UNCHANGED files ELSE Put(path, <<>>)
               /\ UNCHANGED <<fate, count>>
      BY <2>3, <2>4, <2>5, OpenStep
    <2>6. CASE /\ handle' = "closed" /\ chunk' = NoRecord
               /\ fate' = [fate EXCEPT ![buffer] = "failed"]
               /\ IF path = NoPath THEN UNCHANGED count ELSE Counted("fails")
               /\ UNCHANGED files
      BY <2>3, <2>4, <2>6, FailStep
    <2>. QED
      BY <2>2, <2>5, <2>6
  <1>. QED
    BY <1>1, <1>2

\* The record is at the end of the file, which no file of a later minute follows.
LEMMA AppendStep ==
    ASSUME LogFilesInv, chunk # NoRecord, chunk' = NoRecord, handle = "open",
           Put(lastPath, Append(files[lastPath].recs, chunk)),
           NEW why \in {"late", "written"}, fate' = [fate EXCEPT ![chunk] = why],
           UNCHANGED <<now, logged, buffer, handle, lastPath, lastTime, cleaner, submit, count>>
    PROVE  LogFilesInv'
  <1>. /\ LogFilesTypeOK /\ HandleOK /\ MemoryOK /\ TimesOK /\ OrderOK /\ SizeOK
       /\ GhostsOK /\ FailedOK
    BY DEF LogFilesInv
  <1>1. lastPath \in DOMAIN files /\ lastPath \in Names /\ lastPath \in TxtNames
    <2>1. lastPath \in DOMAIN files /\ lastPath # NoPath
      BY DEF HandleOK
    <2>. QED
      BY <2>1 DEF LogFilesTypeOK, TxtNames
  <1>2. PICK old \in Seq(Nat) : old = files[lastPath].recs
    BY <1>1, TypeOfFile
  <1>3. chunk \in Nat /\ chunk \in Records /\ logged \in Nat /\ buffer \in Nat
    BY InMemory, LogFilesAssumption DEF LogFilesTypeOK
  <1>4. PICK new \in Seq(Nat) : new = Append(old, chunk)
    BY <1>2, <1>3, AppendProperties
  <1>5. /\ Len(new) = Len(old) + 1 /\ Len(old) \in Nat /\ DOMAIN new = 1..Len(new)
        /\ \A i \in DOMAIN new : \/ i \in DOMAIN old /\ new[i] = old[i]
                                 \/ new[i] = chunk
    <2>1. /\ Len(new) = Len(old) + 1 /\ Len(old) \in Nat
          /\ \A i \in 1..Len(old) : new[i] = old[i]
          /\ new[Len(old) + 1] = chunk
      BY <1>4, <1>3, AppendProperties
    <2>2. DOMAIN new = 1..Len(new) /\ DOMAIN old = 1..Len(old)
      OBVIOUS
    <2>3. ASSUME NEW i \in DOMAIN new
          PROVE  (i \in DOMAIN old /\ new[i] = old[i]) \/ new[i] = chunk
      BY <2>1, <2>2
    <2>. QED
      BY <2>1, <2>2, <2>3
  <1>6. /\ DOMAIN files' = DOMAIN files /\ files'[lastPath].recs = new
        /\ \A g \in DOMAIN files' : files'[g] \in File
        /\ \A g \in DOMAIN files : g # lastPath => files'[g] = files[g]
    <2>1. Put(lastPath, new)
      BY <1>2, <1>4
    <2>. QED
      BY <1>1, <2>1, PutOne
  <1>7. ASSUME NEW g \in DOMAIN files', NEW i \in DOMAIN files'[g].recs
        PROVE  \/ i \in DOMAIN files[g].recs /\ files'[g].recs[i] = files[g].recs[i]
               \/ g = lastPath /\ files'[g].recs[i] = chunk
    BY <1>2, <1>5, <1>6
  <1>8. fate' \in [Records -> Fates] /\ fate'[chunk] = why
        /\ \A s \in Records : s # chunk => fate'[s] = fate[s]
    BY <1>3, OneFate DEF Fates
  <1>9. LogFilesTypeOK'
    <2>1. CleanerTypeOK' /\ SubmitTypeOK'
      BY DEF LogFilesTypeOK, CleanerTypeOK, SubmitTypeOK
    <2>. QED
      BY <1>6, <1>8, <2>1 DEF LogFilesTypeOK, NoRecord
  <1>10. HandleOK'
    BY <1>6 DEF HandleOK
  <1>11. MemoryOK'
    <2>1. chunk <= logged /\ buffer <= logged /\ (buffer # NoRecord => chunk < buffer)
      BY DEF MemoryOK
    <2>2. ASSUME NEW g \in DOMAIN files', NEW i \in DOMAIN files'[g].recs
          PROVE  /\ files'[g].recs[i] <= logged
                 /\ buffer # NoRecord => files'[g].recs[i] < buffer
      BY <1>6, <1>7, <2>1 DEF MemoryOK
    <2>. QED
      BY <1>3, <2>1, <2>2 DEF MemoryOK, NoRecord
  <1>12. TimesOK'
    <2>1. InUse' = InUse
      BY <1>6 DEF InUse, Wanted
    <2>. QED
      BY <2>1 DEF TimesOK
  <1>13. OrderOK'
    <2>. SUFFICES ASSUME count.backs = 0, NEW f \in DOMAIN files', NEW g \in DOMAIN files',
                         f.min < g.min,
                         NEW i \in DOMAIN files'[f].recs, NEW j \in DOMAIN files'[g].recs
                  PROVE  files'[f].recs[i] < files'[g].recs[j]
      BY DEF OrderOK
    <2>1. f \in DOMAIN files /\ g \in DOMAIN files /\ f \in InUse /\ g \in InUse
      BY <1>6 DEF InUse
    <2>2. f # lastPath
      <3>1. g.min <= lastPath.min
        BY <2>1 DEF TimesOK
      <3>2. g.min \in Nat /\ lastPath.min \in Nat
        BY <1>1, <2>1, TypeOfFile, PathFields DEF Paths
      <3>. QED
        BY <3>1, <3>2
    <2>3. i \in DOMAIN files[f].recs /\ files'[f].recs[i] = files[f].recs[i]
      BY <1>7, <2>2
    <2>4. CASE j \in DOMAIN files[g].recs /\ files'[g].recs[j] = files[g].recs[j]
      BY <2>1, <2>3, <2>4 DEF OrderOK
    <2>5. CASE files'[g].recs[j] = chunk
      BY <2>1, <2>3, <2>5 DEF MemoryOK
    <2>. QED
      BY <1>7, <2>4, <2>5
  <1>14. SizeOK'
    <2>. SUFFICES ASSUME count.backs = 0, MaxFileSize > 0, NEW f \in TextFiles',
                         Len(files'[f].recs) > MaxFileSize + 1
                  PROVE  f.idx = FilesPerMinute - 1
      BY DEF SizeOK
    <2>1. f \in TextFiles
      BY <1>6 DEF TextFiles
    <2>2. CASE f = lastPath
      <3>1. HasRoom(lastPath)
        BY DEF SizeOK
      <3>2. MaxFileSize \in Nat
        BY LogFilesAssumption
      <3>. QED
        BY <1>2, <1>5, <1>6, <2>2, <3>1, <3>2 DEF HasRoom
    <2>3. CASE f # lastPath
      <3>1. files'[f] = files[f]
        BY <1>6, <2>1, <2>3 DEF TextFiles
      <3>. QED
        BY <2>1, <3>1 DEF SizeOK
    <2>. QED
      BY <2>2, <2>3
  <1>15. GhostsOK' /\ FailedOK'
    <2>1. /\ Cardinality(Ghosts') \in Nat /\ Cardinality(Ghosts) \in Nat
          /\ Cardinality(Ghosts') <= Cardinality(Ghosts)
      BY <1>3, OneFate DEF Fates
    <2>2. count.unlinks \in Nat
      BY DEF LogFilesTypeOK, CountType
    <2>3. GhostsOK'
      BY <2>1, <2>2 DEF GhostsOK, AboutToBeLost
    <2>4. FailedOK'
      BY <1>8 DEF FailedOK
    <2>. QED
      BY <2>3, <2>4
  <1>. QED
    BY <1>9, <1>10, <1>11, <1>12, <1>13, <1>14, <1>15 DEF LogFilesInv

LEMMA WriteFileStep ==
    ASSUME LogFilesInv, WriteFile
    PROVE  LogFilesInv'
  <1>. /\ LogFilesTypeOK /\ HandleOK /\ MemoryOK /\ TimesOK /\ OrderOK /\ SizeOK
       /\ GhostsOK /\ FailedOK
    BY DEF LogFilesInv
  <1>1. /\ chunk # NoRecord /\ chunk' = NoRecord
        /\ UNCHANGED <<now, logged, buffer, handle, lastPath, lastTime, cleaner, submit>>
    BY DEF WriteFile
  <1>2. CASE /\ handle = "open" /\ Put(lastPath, Append(files[lastPath].recs, chunk))
             /\ fate' = [fate EXCEPT ![chunk] =
                           IF BeingArchived(lastPath) THEN "late" ELSE "written"]
             /\ UNCHANGED count
    <2>1. PICK why \in {"late", "written"} : fate' = [fate EXCEPT ![chunk] = why]
      BY <1>2
    <2>. QED
      BY <1>1, <1>2, <2>1, AppendStep
  <1>3. CASE /\ handle = "ghost" /\ fate' = [fate EXCEPT ![chunk] = "ghost"]
             /\ UNCHANGED <<files, count>>
    <2>1. chunk \in Records /\ "ghost" \in Fates
      BY <1>1, InMemory DEF Fates
    <2>2. /\ fate' \in [Records -> Fates] /\ fate'[chunk] = "ghost"
          /\ \A s \in Records : s # chunk => fate'[s] = fate[s]
          /\ Cardinality(Ghosts') \in Nat /\ Cardinality(Ghosts) \in Nat
          /\ Cardinality(Ghosts') <= Cardinality(Ghosts) + 1
      BY <1>3, <2>1, OneFate
    <2>3. LogFilesTypeOK'
      <3>1. CleanerTypeOK' /\ SubmitTypeOK'
        BY <1>1 DEF LogFilesTypeOK, CleanerTypeOK, SubmitTypeOK
      <3>. QED
        BY <1>1, <1>3, <2>2, <3>1 DEF LogFilesTypeOK, NoRecord
    <2>4. HandleOK' /\ TimesOK' /\ OrderOK'
      BY <1>1, <1>3 DEF HandleOK, TimesOK, InUse, Wanted, OrderOK
    <2>5. MemoryOK'
      <3>1. logged \in Nat
        BY LogFilesAssumption DEF LogFilesTypeOK
      <3>. QED
        BY <1>1, <1>3, <3>1 DEF MemoryOK, NoRecord
    <2>6. SizeOK'
      BY <1>1, <1>3 DEF SizeOK, TextFiles
    <2>7. GhostsOK'
      <3>1. count.unlinks \in Nat
        BY DEF LogFilesTypeOK, CountType
      <3>2. Cardinality(Ghosts) + 1 <= count.unlinks
        BY <1>1, <1>3 DEF GhostsOK, AboutToBeLost
      <3>3. AboutToBeLost' = 0
        BY <1>1 DEF AboutToBeLost
      <3>. QED
        BY <1>3, <2>2, <3>1, <3>2, <3>3 DEF GhostsOK
    <2>8. FailedOK'
      BY <1>3, <2>2 DEF FailedOK
    <2>. QED
      BY <2>3, <2>4, <2>5, <2>6, <2>7, <2>8 DEF LogFilesInv
  <1>4. CASE Counted("fails") /\ fate' = [fate EXCEPT ![chunk] = "failed"] /\ UNCHANGED files
    <2>1. lastTime \in Nat
      BY DEF LogFilesTypeOK
    <2>. QED
      BY <1>1, <1>4, <2>1, FailStep
  <1>. QED
    BY <1>2, <1>3, <1>4 DEF WriteFile

-----------------------------------------------------------------------------
(* The theorems                                                            *)

LEMMA LogFilesInit ==
    ASSUME Init
    PROVE  LogFilesInv
  <1>1. /\ MaxRecords \in Nat /\ 0 \in Minutes /\ NoPath \in Paths /\ <<>> \in Seq(Names)
        /\ 0 \in Nat /\ NoRecord = 0 /\ NoPath.min = 0
    BY LogFilesAssumption, EmptySeq DEF Minutes, Paths, NoPath, NoRecord
  <1>2. DOMAIN files = {}
    BY DEF Init
  <1>3. LogFilesTypeOK
    <2>1. CleanerTypeOK /\ SubmitTypeOK
      BY <1>1 DEF Init, CleanerTypeOK, SubmitTypeOK, Resting, NoSubmit
    <2>2. fate \in [Records -> Fates] /\ count \in CountType
      BY DEF Init, Fates, CountType
    <2>. QED
      BY <1>1, <1>2, <2>1, <2>2 DEF Init, LogFilesTypeOK
  <1>4. HandleOK /\ MemoryOK /\ OrderOK
    BY <1>1, <1>2 DEF Init, HandleOK, MemoryOK, OrderOK
  <1>5. TimesOK
    <2>1. InUse = {NoPath}
      BY <1>2 DEF Init, InUse, Wanted, Resting, NoSubmit
    <2>. QED
      BY <1>1, <2>1 DEF Init, TimesOK
  <1>6. SizeOK
    BY <1>2 DEF Init, SizeOK, TextFiles
  <1>7. GhostsOK /\ FailedOK
    <2>1. Ghosts = {}
      BY DEF Init, Ghosts
    <2>2. Cardinality(Ghosts) = 0
      BY <2>1, FS_EmptySet
    <2>. QED
      BY <2>2 DEF Init, GhostsOK, AboutToBeLost, FailedOK
  <1>. QED
    BY <1>3, <1>4, <1>5, <1>6, <1>7 DEF LogFilesInv

LEMMA LogFilesNext ==
    ASSUME LogFilesInv, [Next]_vars
    PROVE  LogFilesInv'
  <1>1. CASE Next
    BY <1>1, ClockStep, LogStep, OpenLogFileStep, WriteFileStep, CloseLogFileStep, DieStep,
       CleanerStep, SubmitStep DEF Next, Appender
  <1>2. CASE UNCHANGED vars
    BY <1>2 DEF vars, appenderVars, LogFilesInv, LogFilesTypeOK, CleanerTypeOK, SubmitTypeOK,
                HandleOK, MemoryOK, TimesOK, InUse, Wanted, OrderOK, SizeOK, HasRoom,
                TextFiles, GhostsOK, Ghosts, AboutToBeLost, FailedOK
  <1>. QED
    BY <1>1, <1>2

LEMMA LogFilesInvariant == Spec => []LogFilesInv
  <1>1. Init => LogFilesInv
    BY LogFilesInit
  <1>2. LogFilesInv /\ [Next]_vars => LogFilesInv'
    BY LogFilesNext
  <1>. QED
    BY <1>1, <1>2, PTL DEF Spec

\* However often the archivers run, a file that loses its name under the appender
\* takes at most one record with it, and records fail only when a call fails, a
\* process dies or the clock goes back (__openlogfile, __log2file).
THEOREM LossesAlwaysHaveCauses == Spec => []LossesHaveCauses
  <1>1. LogFilesInv => LossesHaveCauses
    <2>. SUFFICES ASSUME LogFilesInv
                  PROVE  LossesHaveCauses
      OBVIOUS
    <2>1. Ghosts \subseteq Records
      BY DEF Ghosts
    <2>2. Cardinality(Ghosts) \in Nat
      BY <2>1, GhostsAreFinite
    <2>3. count.unlinks \in Nat
      BY DEF LogFilesInv, LogFilesTypeOK, CountType
    <2>4. Cardinality(Ghosts) <= count.unlinks
      BY <2>2, <2>3 DEF LogFilesInv, GhostsOK, AboutToBeLost
    <2>. QED
      BY <2>4 DEF LossesHaveCauses, LogFilesInv, FailedOK, Ghosts
  <1>. QED
    BY <1>1, LogFilesInvariant, PTL

\* However many files there are in a minute and whatever the archivers do to them,
\* while the clock does not go back the size limit is exceeded by one record at most
\* and later records are in later files (__openlogfile, __make_logfilename).
THEOREM FilesAlwaysInOrder == Spec => []FilesInOrder
  <1>1. LogFilesInv => FilesInOrder
    <2>. SUFFICES ASSUME LogFilesInv
                  PROVE  FilesInOrder
      OBVIOUS
    <2>1. \A f \in DOMAIN files : \A r \in ToSet(files[f].recs) :
             \E i \in DOMAIN files[f].recs : files[f].recs[i] = r
      BY DEF ToSet
    <2>2. count.backs = 0 =>
            \A f, g \in DOMAIN files : f.min < g.min =>
               \A r \in ToSet(files[f].recs), s \in ToSet(files[g].recs) : r < s
      BY <2>1 DEF LogFilesInv, OrderOK
    <2>. QED
      BY <2>2 DEF FilesInOrder, LogFilesInv, SizeOK
  <1>. QED
    BY <1>1, LogFilesInvariant, PTL

-----------------------------------------------------------------------------
(* Archives and their sources                                              *)

LEMMA ArchiveNames ==
    ASSUME NEW f \in TxtNames
    PROVE  /\ f \in Paths /\ f \in Names /\ f.kind = "txt" /\ f.min \in Nat
           /\ As(f, "zip") \in Names \ TxtNames /\ As(f, "tmp") \in Names \ TxtNames
           /\ As(f, "zip").kind = "zip" /\ As(f, "tmp").kind = "tmp"
           /\ As(f, "zip") # As(f, "tmp")
           /\ \A g \in TxtNames : /\ As(g, "zip") = As(f, "zip") => g = f
                                  /\ As(g, "tmp") # As(f, "zip") /\ As(g, "zip") # As(f, "tmp")
  <1>1. f \in Paths /\ f \in Names /\ f.kind = "txt" /\ f.min \in Nat
    BY PathFields DEF Paths, TxtNames
  <1>2. \A g \in TxtNames : g \in Paths
    BY DEF Paths, TxtNames
  <1>3. \A g \in TxtNames : /\ As(g, "zip") \in Names /\ As(g, "zip").kind = "zip"
                            /\ As(g, "tmp") \in Names /\ As(g, "tmp").kind = "tmp"
    BY <1>2, NameOfArchive
  <1>4. \A g \in TxtNames : As(g, "zip") = As(f, "zip") => g = f
    BY DEF As, TxtNames, Names
  <1>5. As(f, "zip") \notin TxtNames /\ As(f, "tmp") \notin TxtNames
    BY <1>3 DEF TxtNames
  <1>6. \A g \in TxtNames : As(g, "tmp") # As(f, "zip") /\ As(g, "zip") # As(f, "tmp")
    BY <1>3
  <1>. QED
    BY <1>1, <1>3, <1>4, <1>5, <1>6

LEMMA HeldIn ==
    ASSUME NEW dir, NEW r
    PROVE  r \in Held(dir) <=>
             \E g \in DOMAIN dir : g.kind # "tmp" /\ r \in RecordsIn(dir, g)
  BY DEF Held, RecordsIn

\* The counters only go up.
CountsGrow ==
    /\ count' \in CountType
    /\ count'.rolls >= count.rolls /\ count'.submits >= count.submits
    /\ count'.backs >= count.backs

LEMMA CountedGrow ==
    ASSUME NEW what \in {"rolls", "submits", "fails", "deaths", "backs", "unlinks"},
           count \in CountType, Counted(what)
    PROVE  CountsGrow
  BY DEF Counted, CountType, CountsGrow

LEMMA FailuresGrow ==
    ASSUME count \in CountType, AtMostAFailure
    PROVE  CountsGrow
  BY FailureCounts DEF CountsGrow, CountType

LEMMA EarlierCounts ==
    ASSUME count \in CountType, CountsGrow
    PROVE  /\ count'.submits = 0 => count.submits = 0
           /\ count'.submits <= 1 => count.submits <= 1
           /\ count'.rolls = 0 => count.rolls = 0
           /\ count'.rolls <= 1 => count.rolls <= 1
           /\ count'.backs = 0 => count.backs = 0
  <1>1. PICK a \in Nat, b \in Nat, c \in Nat :
            count.rolls = a /\ count.submits = b /\ count.backs = c
    BY DEF CountType
  <1>2. PICK d \in Nat, e \in Nat, f \in Nat :
            count'.rolls = d /\ count'.submits = e /\ count'.backs = f
    BY DEF CountsGrow, CountType
  <1>3. d >= a /\ e >= b /\ f >= c
    BY <1>1, <1>2 DEF CountsGrow
  <1>. QED
    BY <1>1, <1>2, <1>3

\* The histories ArchivingKeeps is about; a step cannot return to one.
OneArchiver ==
    \/ count.submits = 0 /\ (count.rolls <= 1 \/ count.backs = 0)
    \/ count.rolls = 0 /\ count.submits <= 1

LEMMA KeepsWhat == ArchivingKeeps <=>
                     (OneArchiver => \A r \in Records : fate[r] = "written" => r \in OnDisk)
  BY DEF ArchivingKeeps, OneArchiver

LEMMA OneArchiverBefore ==
    ASSUME count \in CountType, CountsGrow, OneArchiver'
    PROVE  OneArchiver
  BY EarlierCounts DEF OneArchiver

\* No record comes to be written.
FatesOnlyFall == \A r \in Records : fate'[r] = "written" => fate[r] = "written"

\* A step of the clock or the appender that leaves the directory alone.
LEMMA SameFiles ==
    ASSUME LogFilesInv, ArchivingInv, UNCHANGED <<files, cleaner, submit>>, CountsGrow,
           FatesOnlyFall, now' \in Nat, now' >= now \/ count'.backs # 0
    PROVE  ArchivingInv'
  <1>. count \in CountType /\ now \in Nat
    BY LogFilesAssumption DEF LogFilesInv, LogFilesTypeOK, Minutes
  <1>0. \A f : Landed(files, fate', f) \subseteq Landed(files, fate, f)
    BY DEF Landed, FatesOnlyFall
  <1>1. CleanerCopies'
    <2>. SUFFICES ASSUME count'.submits = 0
                  PROVE  CleanerCopies'
      BY DEF CleanerCopies
    <2>1. count.submits = 0
      BY EarlierCounts
    <2>. QED
      BY <1>0, <2>1 DEF ArchivingInv, CleanerCopies, Compressing
  <1>2. ArchivesAreCopies'
    <2>. SUFFICES ASSUME count'.submits = 0, count'.backs = 0
                  PROVE  ArchivesAreCopies'
      BY DEF ArchivesAreCopies
    <2>1. count.submits = 0 /\ count.backs = 0 /\ now' >= now
      BY EarlierCounts
    <2>2. Compressing => cleaner.file.min < now'
      <3>1. ASSUME Compressing PROVE cleaner.file.min < now /\ cleaner.file.min \in Nat
        BY <2>1, <3>1, PathFields, CleanerFields DEF ArchivingInv, ArchivesAreCopies, LogFilesInv
      <3>. QED
        BY <2>1, <3>1
    <2>3. ASSUME NEW f \in TxtNames, As(f, "zip") \in DOMAIN files
          PROVE  /\ f.min < now'
                 /\ f \in DOMAIN files =>
                       RecordsIn(files, As(f, "zip")) \subseteq RecordsIn(files, f)
      <3>1. /\ f.min < now
            /\ f \in DOMAIN files =>
                  RecordsIn(files, As(f, "zip")) \subseteq RecordsIn(files, f)
        BY <2>1, <2>3 DEF ArchivingInv, ArchivesAreCopies
      <3>2. f.min \in Nat
        BY ArchiveNames
      <3>. QED
        BY <2>1, <3>1, <3>2
    <2>. QED
      BY <2>2, <2>3 DEF ArchivesAreCopies, Compressing
  <1>3. FirstRun'
    <2>. SUFFICES ASSUME count'.submits = 0, count'.rolls <= 1
                  PROVE  FirstRun'
      BY DEF FirstRun
    <2>1. count.submits = 0 /\ count.rolls <= 1 /\ (count'.rolls = 0 => count.rolls = 0)
      BY EarlierCounts
    <2>. QED
      BY <2>1 DEF ArchivingInv, FirstRun, Compressing
  <1>4. FirstSubmit'
    <2>. SUFFICES ASSUME count'.rolls = 0, count'.submits <= 1
                  PROVE  FirstSubmit'
      BY DEF FirstSubmit
    <2>1. count.rolls = 0 /\ count.submits <= 1 /\ (count'.submits = 0 => count.submits = 0)
      BY EarlierCounts
    <2>. QED
      BY <1>0, <2>1 DEF ArchivingInv, FirstSubmit
  <1>5. ArchivingKeeps'
    <2>1. ASSUME OneArchiver', NEW r \in Records, fate'[r] = "written"
          PROVE  r \in OnDisk'
      BY <2>1, OneArchiverBefore, KeepsWhat DEF ArchivingInv, FatesOnlyFall, OnDisk
    <2>. QED
      BY <2>1 DEF ArchivingKeeps, OneArchiver
  <1>. QED
    BY <1>1, <1>2, <1>3, <1>4, <1>5 DEF ArchivingInv

\* A new file of this minute has nothing in it.
LEMMA NewFileKeeps ==
    ASSUME LogFilesInv, ArchivingInv, NEW path \in TxtNames, path \notin DOMAIN files,
           Put(path, <<>>), count.backs = 0 => path.min = now,
           UNCHANGED <<now, cleaner, submit, fate, count>>
    PROVE  ArchivingInv'
  <1>. LogFilesTypeOK /\ now \in Nat
    BY LogFilesAssumption DEF LogFilesInv, LogFilesTypeOK, Minutes
  <1>1. /\ DOMAIN files' = DOMAIN files \cup {path} /\ files'[path].recs = <<>>
        /\ \A g \in DOMAIN files : files'[g] = files[g]
    <2>1. <<>> \in Seq(Nat) /\ path \in Names
      BY EmptySeq, ArchiveNames
    <2>. QED
      BY <2>1, PutOne
  <1>2. \A g : RecordsIn(files', g) = RecordsIn(files, g)
    <2>1. ToSet(<<>>) = {}
      BY DEF ToSet
    <2>. QED
      BY <1>1, <2>1 DEF RecordsIn
  <1>3. \A g : Landed(files', fate', g) = Landed(files, fate, g)
    BY <1>2 DEF Landed
  <1>4. CleanerCopies'
    BY <1>1, <1>2, <1>3 DEF ArchivingInv, CleanerCopies, Compressing
  <1>5. ArchivesAreCopies'
    <2>1. ASSUME count.submits = 0, count.backs = 0, NEW f \in TxtNames,
                 As(f, "zip") \in DOMAIN files'
          PROVE  /\ f.min < now
                 /\ f \in DOMAIN files' =>
                       RecordsIn(files', As(f, "zip")) \subseteq RecordsIn(files', f)
      <3>1. As(f, "zip") \in DOMAIN files
        BY <1>1, <2>1, ArchiveNames
      <3>2. /\ f.min < now
            /\ f \in DOMAIN files =>
                  RecordsIn(files, As(f, "zip")) \subseteq RecordsIn(files, f)
        BY <2>1, <3>1 DEF ArchivingInv, ArchivesAreCopies
      <3>3. f # path
        BY <2>1, <3>2, ArchiveNames
      <3>. QED
        BY <1>1, <1>2, <3>2, <3>3
    <2>. QED
      BY <2>1 DEF ArchivingInv, ArchivesAreCopies, Compressing
  <1>6. FirstRun' /\ FirstSubmit'
    <2>1. \A f \in TxtNames : As(f, "zip") # path
      BY ArchiveNames
    <2>2. DOMAIN files \subseteq TxtNames => DOMAIN files' \subseteq TxtNames
      BY <1>1
    <2>3. FirstRun'
      BY <1>1, <2>1, <2>2 DEF ArchivingInv, FirstRun, Compressing
    <2>4. FirstSubmit'
      BY <1>1, <1>2, <1>3, <2>1, <2>2 DEF ArchivingInv, FirstSubmit
    <2>. QED
      BY <2>3, <2>4
  <1>7. ArchivingKeeps'
    <2>1. \A r : r \in Held(files) => r \in Held(files')
      BY <1>1, <1>2, HeldIn
    <2>. QED
      BY <2>1 DEF ArchivingInv, ArchivingKeeps, OnDisk
  <1>. QED
    BY <1>4, <1>5, <1>6, <1>7 DEF ArchivingInv

\* A record that comes to a file while it is archived counts as late, not as
\* written.
LEMMA AppendKeeps ==
    ASSUME LogFilesInv, ArchivingInv, chunk # NoRecord, handle = "open",
           Put(lastPath, Append(files[lastPath].recs, chunk)),
           NEW why, fate' = [fate EXCEPT ![chunk] = why],
           BeingArchived(lastPath) => why # "written",
           UNCHANGED <<now, cleaner, submit, count>>
    PROVE  ArchivingInv'
  <1>. LogFilesTypeOK /\ HandleOK /\ MemoryOK
    BY DEF LogFilesInv
  <1>1. lastPath \in DOMAIN files /\ lastPath \in Names /\ lastPath \in TxtNames
    <2>1. lastPath \in DOMAIN files /\ lastPath # NoPath
      BY DEF HandleOK
    <2>. QED
      BY <2>1 DEF LogFilesTypeOK, TxtNames
  <1>2. PICK old \in Seq(Nat) : old = files[lastPath].recs
    BY <1>1, TypeOfFile
  <1>3. chunk \in Nat /\ chunk \in Records
    BY InMemory
  <1>4. PICK new \in Seq(Nat) : new = Append(old, chunk)
    BY <1>2, <1>3, AppendProperties
  <1>5. ToSet(new) = ToSet(old) \cup {chunk}
    <2>1. /\ Len(new) = Len(old) + 1 /\ Len(old) \in Nat
          /\ \A i \in 1..Len(old) : new[i] = old[i]
          /\ new[Len(old) + 1] = chunk
      BY <1>4, <1>3, AppendProperties
    <2>2. DOMAIN new = 1..Len(new) /\ DOMAIN old = 1..Len(old)
      OBVIOUS
    <2>3. ASSUME NEW r \in ToSet(new) PROVE r \in ToSet(old) \cup {chunk}
      <3>1. PICK i \in DOMAIN new : new[i] = r
        BY DEF ToSet
      <3>2. CASE i \in DOMAIN old
        BY <2>1, <2>2, <3>1, <3>2 DEF ToSet
      <3>3. CASE i \notin DOMAIN old
        BY <2>1, <2>2, <3>1, <3>3
      <3>. QED
        BY <3>2, <3>3
    <2>4. ASSUME NEW r \in ToSet(old) PROVE r \in ToSet(new)
      <3>1. PICK i \in DOMAIN old : old[i] = r
        BY DEF ToSet
      <3>. QED
        BY <2>1, <2>2, <3>1 DEF ToSet
    <2>5. chunk \in ToSet(new)
      <3>1. Len(old) + 1 \in DOMAIN new
        BY <2>1, <2>2
      <3>. QED
        BY <2>1, <3>1 DEF ToSet
    <2>. QED
      BY <2>3, <2>4, <2>5
  <1>6. /\ DOMAIN files' = DOMAIN files /\ files'[lastPath].recs = new
        /\ \A g \in DOMAIN files : g # lastPath => files'[g] = files[g]
    <2>1. Put(lastPath, new)
      BY <1>2, <1>4
    <2>. QED
      BY <1>1, <2>1, PutOne
  <1>7. /\ RecordsIn(files', lastPath) = RecordsIn(files, lastPath) \cup {chunk}
        /\ \A g : g # lastPath => RecordsIn(files', g) = RecordsIn(files, g)
        /\ \A g : RecordsIn(files, g) \subseteq RecordsIn(files', g)
    BY <1>1, <1>2, <1>5, <1>6 DEF RecordsIn
  <1>8. \A g : chunk \notin RecordsIn(files, g)
    <2>1. ASSUME NEW g \in DOMAIN files, NEW i \in DOMAIN files[g].recs
          PROVE  files[g].recs[i] # chunk
      <3>1. files[g].recs[i] < chunk
        BY DEF MemoryOK
      <3>2. files[g].recs[i] \in Nat
        BY TypeOfFile
      <3>. QED
        BY <1>3, <3>1, <3>2
    <2>. QED
      BY <2>1 DEF RecordsIn, ToSet
  <1>9. /\ fate'[chunk] = why /\ \A s \in Records : s # chunk => fate'[s] = fate[s]
    BY <1>3 DEF LogFilesTypeOK
  <1>10. \A g : g # lastPath \/ why # "written" =>
                 Landed(files', fate', g) \subseteq Landed(files, fate, g)
    BY <1>7, <1>8, <1>9 DEF Landed
  <1>11. \A f \in TxtNames : As(f, "zip") # lastPath /\ As(f, "tmp") # lastPath
    BY <1>1, ArchiveNames
  <1>12. CleanerCopies'
    <2>1. cleaner.file = lastPath /\ cleaner.pc \in {"rename", "move", "delete"} => why # "written"
      BY DEF BeingArchived
    <2>2. Compressing /\ count.submits = 0 => cleaner.file \in TxtNames
      BY DEF ArchivingInv, CleanerCopies, LogFilesTypeOK, TxtNames
    <2>3. cleaner.pc \in {"rename", "move", "delete"} =>
             Landed(files', fate', cleaner.file) \subseteq Landed(files, fate, cleaner.file)
      BY <1>10, <2>1
    <2>. QED
      BY <1>6, <1>7, <1>11, <2>2, <2>3 DEF ArchivingInv, CleanerCopies, Compressing
  <1>13. ArchivesAreCopies'
    BY <1>6, <1>7, <1>11 DEF ArchivingInv, ArchivesAreCopies, Compressing
  <1>14. FirstRun'
    BY <1>6 DEF ArchivingInv, FirstRun, Compressing
  <1>15. FirstSubmit'
    <2>1. submit.file = lastPath /\ submit.pc = "delete" => why # "written"
      BY DEF BeingArchived
    <2>2. submit.pc = "delete" =>
             Landed(files', fate', submit.file) \subseteq Landed(files, fate, submit.file)
      BY <1>10, <2>1
    <2>. QED
      BY <1>6, <1>7, <1>11, <2>2 DEF ArchivingInv, FirstSubmit
  <1>16. ArchivingKeeps'
    <2>1. \A r : r \in Held(files) => r \in Held(files')
      BY <1>6, <1>7, HeldIn
    <2>2. chunk \in Held(files')
      <3>1. lastPath.kind # "tmp"
        BY <1>1 DEF TxtNames
      <3>. QED
        BY <1>1, <1>6, <1>7, <3>1, HeldIn
    <2>. QED
      BY <1>9, <2>1, <2>2 DEF ArchivingInv, ArchivingKeeps, OnDisk
  <1>. QED
    BY <1>12, <1>13, <1>14, <1>15, <1>16 DEF ArchivingInv

LEMMA NoneCounted ==
    ASSUME LogFilesInv, UNCHANGED count
    PROVE  CountsGrow
  BY DEF LogFilesInv, LogFilesTypeOK, CountType, CountsGrow

LEMMA FailureFalls ==
    ASSUME LogFilesInv, NEW r \in {chunk, buffer}, r # NoRecord,
           NEW why \in {"failed", "ghost"}, fate' = [fate EXCEPT ![r] = why]
    PROVE  FatesOnlyFall
  <1>1. r \in Records
    BY InMemory DEF LogFilesInv
  <1>2. fate'[r] # "written" /\ \A s \in Records : s # r => fate'[s] = fate[s]
    BY <1>1 DEF LogFilesInv, LogFilesTypeOK
  <1>. QED
    BY <1>2 DEF FatesOnlyFall

LEMMA AppenderArchiving ==
    ASSUME LogFilesInv, ArchivingInv, Tick \/ SetBack \/ Appender
    PROVE  ArchivingInv'
  <1>. LogFilesTypeOK /\ now \in Nat /\ count \in CountType
    BY LogFilesAssumption DEF LogFilesInv, LogFilesTypeOK, Minutes
  <1>1. CASE Tick
    <2>1. UNCHANGED <<files, cleaner, submit, fate, count>> /\ now' = now + 1
      BY <1>1 DEF Tick
    <2>2. FatesOnlyFall /\ CountsGrow
      BY <2>1, NoneCounted DEF FatesOnlyFall
    <2>. QED
      BY <2>1, <2>2, SameFiles
  <1>2. CASE SetBack
    <2>1. UNCHANGED <<files, cleaner, submit, fate>> /\ now' = now - 1 /\ now > 0
          /\ Counted("backs")
      BY <1>2 DEF SetBack
    <2>2. FatesOnlyFall /\ CountsGrow
      BY <2>1, CountedGrow DEF FatesOnlyFall
    <2>3. count'.backs # 0
      <3>1. count'.backs = count.backs + 1 /\ count.backs \in Nat
        BY <2>1, CountedOne DEF CountType
      <3>. QED
        BY <3>1
    <2>4. now' \in Nat
      BY <2>1
    <2>. QED
      BY <2>1, <2>2, <2>3, <2>4, SameFiles
  <1>3. CASE Log \/ CloseLogFile
    <2>1. UNCHANGED <<now, files, cleaner, submit, fate, count>>
      BY <1>3 DEF Log, CloseLogFile
    <2>2. FatesOnlyFall /\ CountsGrow
      BY <2>1, NoneCounted DEF FatesOnlyFall
    <2>. QED
      BY <2>1, <2>2, SameFiles
  <1>4. CASE OpenLogFile
    <2>1. UNCHANGED <<now, cleaner, submit>> /\ buffer # NoRecord
      BY <1>4 DEF OpenLogFile
    <2>2. CASE UNCHANGED <<files, fate, count>>
      <3>1. FatesOnlyFall /\ CountsGrow
        BY <2>2, NoneCounted DEF FatesOnlyFall
      <3>. QED
        BY <2>1, <2>2, <3>1, SameFiles
    <2>3. ASSUME NEW path, path = PathToOpen, path # NoPath,
                 IF now < lastTime THEN UNCHANGED <<lastPath, lastTime>>
                 ELSE lastPath' = path /\ lastTime' = now,
                 IF Exists(path) THEN UNCHANGED files ELSE Put(path, <<>>),
                 UNCHANGED <<fate, count>>
          PROVE  ArchivingInv'
      <3>1. /\ path \in TxtNames
            /\ count.backs = 0 => path = MakeLogfilename
        BY <2>3, WhichPath
      <3>2. count.backs = 0 => path.min = now
        BY <3>1, NameToOpen
      <3>3. CASE path \in DOMAIN files
        BY <2>2, <2>3, <3>3 DEF Exists
      <3>4. CASE path \notin DOMAIN files
        <4>1. Put(path, <<>>)
          BY <2>3, <3>4 DEF Exists
        <4>. QED
          BY <2>1, <2>3, <3>1, <3>2, <3>4, <4>1, NewFileKeeps
      <3>. QED
        BY <3>3, <3>4
    <2>4. CASE /\ fate' = [fate EXCEPT ![buffer] = "failed"] /\ UNCHANGED files
               /\ UNCHANGED count \/ Counted("fails")
      <3>1. FatesOnlyFall
        BY <2>1, <2>4, FailureFalls
      <3>2. CountsGrow
        BY <2>4, NoneCounted, CountedGrow
      <3>. QED
        BY <2>1, <2>4, <3>1, <3>2, SameFiles
    <2>5. PICK path : path = PathToOpen
      OBVIOUS
    <2>6. CASE handle # "closed" /\ (lastPath = NoPath \/ ~FileSizeTooLarge(lastPath))
      <3>1. UNCHANGED <<files, fate, count>>
        BY <1>4, <2>6 DEF OpenLogFile
      <3>. QED
        BY <2>2, <3>1
    <2>7. CASE ~(handle # "closed" /\ (lastPath = NoPath \/ ~FileSizeTooLarge(lastPath)))
      <3>1. /\ IF now < lastTime THEN UNCHANGED <<lastPath, lastTime>>
               ELSE lastPath' = path /\ lastTime' = now
            /\ \/ /\ path # NoPath
                  /\ IF Exists(path) THEN UNCHANGED files ELSE Put(path, <<>>)
                  /\ UNCHANGED <<fate, count>>
               \/ /\ fate' = [fate EXCEPT ![buffer] = "failed"] /\ UNCHANGED files
                  /\ UNCHANGED count \/ Counted("fails")
        BY <1>4, <2>5, <2>7 DEF OpenLogFile
      <3>. QED
        BY <2>3, <2>4, <2>5, <3>1
    <2>. QED
      BY <2>6, <2>7
  <1>5. CASE WriteFile
    <2>1. UNCHANGED <<now, cleaner, submit>> /\ chunk # NoRecord
      BY <1>5 DEF WriteFile
    <2>2. CASE /\ handle = "open" /\ Put(lastPath, Append(files[lastPath].recs, chunk))
               /\ fate' = [fate EXCEPT ![chunk] =
                             IF BeingArchived(lastPath) THEN "late" ELSE "written"]
               /\ UNCHANGED count
      <3>1. PICK why : /\ why = IF BeingArchived(lastPath) THEN "late" ELSE "written"
                       /\ fate' = [fate EXCEPT ![chunk] = why]
        BY <2>2
      <3>2. BeingArchived(lastPath) => why # "written"
        BY <3>1
      <3>. QED
        BY <2>1, <2>2, <3>1, <3>2, AppendKeeps
    <2>3. CASE /\ UNCHANGED files
               /\ UNCHANGED count \/ Counted("fails")
               /\ \E why \in {"failed", "ghost"} : fate' = [fate EXCEPT ![chunk] = why]
      <3>1. FatesOnlyFall
        BY <2>1, <2>3, FailureFalls
      <3>2. CountsGrow
        BY <2>3, NoneCounted, CountedGrow
      <3>. QED
        BY <2>1, <2>3, <3>1, <3>2, SameFiles
    <2>. QED
      BY <1>5, <2>2, <2>3 DEF WriteFile
  <1>. QED
    BY <1>1, <1>2, <1>3, <1>4, <1>5 DEF Appender

\* A process that starts finds the archivers at rest.
LEMMA DieArchiving ==
    ASSUME LogFilesInv, ArchivingInv, Die
    PROVE  ArchivingInv'
  <1>. LogFilesTypeOK /\ count \in CountType
    BY DEF LogFilesInv, LogFilesTypeOK
  <1>1. /\ UNCHANGED <<now, files>> /\ Counted("deaths")
        /\ cleaner'.pc = "idle" /\ submit'.pc = "idle"
    BY DEF Die, Resting, NoSubmit
  <1>2. CountsGrow
    BY <1>1, CountedGrow
  <1>3. FatesOnlyFall
    <2>1. CASE chunk = NoRecord
      BY <2>1 DEF Die, FatesOnlyFall
    <2>2. CASE chunk # NoRecord
      BY <2>2, FailureFalls DEF Die
    <2>. QED
      BY <2>1, <2>2
  <1>4. CleanerCopies'
    BY <1>1 DEF CleanerCopies, Compressing
  <1>5. ArchivesAreCopies'
    <2>. SUFFICES ASSUME count'.submits = 0, count'.backs = 0
                  PROVE  ArchivesAreCopies'
      BY DEF ArchivesAreCopies
    <2>1. count.submits = 0 /\ count.backs = 0
      BY <1>2, EarlierCounts
    <2>. QED
      BY <1>1, <2>1 DEF ArchivingInv, ArchivesAreCopies, Compressing
  <1>6. FirstRun'
    <2>. SUFFICES ASSUME count'.submits = 0, count'.rolls <= 1
                  PROVE  FirstRun'
      BY DEF FirstRun
    <2>1. count.submits = 0 /\ count.rolls <= 1 /\ (count'.rolls = 0 => count.rolls = 0)
      BY <1>2, EarlierCounts
    <2>. QED
      BY <1>1, <2>1 DEF ArchivingInv, FirstRun, Compressing
  <1>7. FirstSubmit'
    <2>. SUFFICES ASSUME count'.rolls = 0, count'.submits <= 1
                  PROVE  FirstSubmit'
      BY DEF FirstSubmit
    <2>1. count.rolls = 0 /\ count.submits <= 1 /\ (count'.submits = 0 => count.submits = 0)
      BY <1>2, EarlierCounts
    <2>. QED
      BY <1>1, <2>1 DEF ArchivingInv, FirstSubmit
  <1>8. ArchivingKeeps'
    <2>1. ASSUME OneArchiver', NEW r \in Records, fate'[r] = "written"
          PROVE  r \in OnDisk'
      BY <1>1, <1>2, <1>3, <2>1, OneArchiverBefore, KeepsWhat
      DEF ArchivingInv, FatesOnlyFall, OnDisk
    <2>. QED
      BY <2>1 DEF ArchivingKeeps, OneArchiver
  <1>. QED
    BY <1>4, <1>5, <1>6, <1>7, <1>8 DEF ArchivingInv

\* The submits' part is about histories without a run of the cleaner.
LEMMA CleanerIsRunning ==
    ASSUME LogFilesInv, ArchivingInv, cleaner.pc # "idle"
    PROVE  /\ OneArchiver => count.submits = 0
           /\ CountsGrow => FirstSubmit'
  <1>1. count \in CountType
    BY DEF LogFilesInv, LogFilesTypeOK
  <1>2. ~(count.rolls = 0 /\ count.submits <= 1)
    BY DEF ArchivingInv, FirstSubmit
  <1>3. CountsGrow => FirstSubmit'
    <2>. SUFFICES ASSUME CountsGrow, count'.rolls = 0, count'.submits <= 1
                  PROVE  FALSE
      BY DEF FirstSubmit
    <2>. QED
      BY <1>1, <1>2, EarlierCounts
  <1>. QED
    BY <1>2, <1>3 DEF OneArchiver

\* Steps of the run that change nothing outside it.
LEMMA CleanerQuietArchiving ==
    ASSUME LogFilesInv, ArchivingInv, CleanerOnly, submit' = submit, cleaner.pc # "idle",
           ~Compressing \/ cleaner' = cleaner,
           cleaner'.pc = "read" => /\ cleaner'.file \in TxtNames /\ cleaner'.file \in DOMAIN files
                                   /\ cleaner'.file \in cleaner'.todo
                                   /\ count.backs = 0 => cleaner'.file.min < now,
           cleaner'.pc \in {"idle", "roll", "read", "overflow"},
           \/ cleaner'.pc \in {"idle", "overflow"}
           \/ cleaner.pc = "roll" /\ cleaner'.todo \subseteq cleaner.todo
    PROVE  ArchivingInv'
  <1>1. UNCHANGED <<now, files, submit, fate, count>>
    BY DEF CleanerOnly
  <1>2. FirstSubmit'
    BY <1>1, NoneCounted, CleanerIsRunning
  <1>3. CleanerCopies'
    BY <1>1 DEF ArchivingInv, CleanerCopies, Compressing, TxtNames
  <1>4. ArchivesAreCopies'
    BY <1>1 DEF ArchivingInv, ArchivesAreCopies, Compressing
  <1>5. FirstRun'
    <2>. SUFFICES ASSUME count.submits = 0, count.rolls <= 1
                  PROVE  FirstRun'
      BY <1>1 DEF FirstRun
    <2>1. count.rolls # 0
      BY DEF ArchivingInv, FirstRun
    <2>2. Compressing' => cleaner'.file \in cleaner'.todo
      BY DEF Compressing
    <2>3. ASSUME NEW f \in TxtNames, As(f, "zip") \in DOMAIN files,
                 cleaner'.pc \notin {"idle", "overflow"}
          PROVE  f \notin cleaner'.todo
      BY <2>3 DEF ArchivingInv, FirstRun
    <2>. QED
      BY <1>1, <2>1, <2>2, <2>3 DEF FirstRun
  <1>6. ArchivingKeeps'
    BY <1>1 DEF ArchivingInv, ArchivingKeeps, OnDisk
  <1>. QED
    BY <1>2, <1>3, <1>4, <1>5, <1>6 DEF ArchivingInv

LEMMA RollCacheLogsArchiving ==
    ASSUME LogFilesInv, ArchivingInv, RollCacheLogs
    PROVE  ArchivingInv'
  <1>. count \in CountType
    BY DEF LogFilesInv, LogFilesTypeOK
  <1>1. /\ UNCHANGED <<now, files, submit, fate>> /\ Counted("rolls")
        /\ cleaner.pc = "idle"
    BY DEF RollCacheLogs, CleanerAt
  <1>2. cleaner'.pc = "roll"
    BY DEF RollCacheLogs, LogFilesInv, LogFilesTypeOK, CleanerTypeOK
  <1>3. CountsGrow /\ count'.rolls = count.rolls + 1
    BY <1>1, CountedGrow, CountedOne
  <1>4. count.rolls \in Nat
    BY DEF CountType
  <1>5. CleanerCopies'
    <2>. SUFFICES ASSUME count'.submits = 0
                  PROVE  CleanerCopies'
      BY DEF CleanerCopies
    <2>1. count.submits = 0
      BY <1>3, EarlierCounts
    <2>. QED
      BY <1>1, <1>2, <2>1 DEF ArchivingInv, CleanerCopies, Compressing
  <1>6. ArchivesAreCopies'
    <2>. SUFFICES ASSUME count'.submits = 0, count'.backs = 0
                  PROVE  ArchivesAreCopies'
      BY DEF ArchivesAreCopies
    <2>1. count.submits = 0 /\ count.backs = 0
      BY <1>3, EarlierCounts
    <2>. QED
      BY <1>1, <1>2, <2>1 DEF ArchivingInv, ArchivesAreCopies, Compressing
  <1>7. FirstRun'
    <2>. SUFFICES ASSUME count'.submits = 0, count'.rolls <= 1
                  PROVE  FirstRun'
      BY DEF FirstRun
    <2>1. count.submits = 0 /\ count.rolls = 0
      BY <1>3, <1>4, EarlierCounts
    <2>2. DOMAIN files \subseteq TxtNames
      BY <1>4, <2>1 DEF ArchivingInv, FirstRun
    <2>3. \A f \in TxtNames : As(f, "zip") \notin DOMAIN files
      BY <2>2, ArchiveNames
    <2>. QED
      BY <1>1, <1>2, <1>3, <1>4, <2>3 DEF FirstRun, Compressing
  <1>8. FirstSubmit'
    BY <1>3, <1>4 DEF FirstSubmit
  <1>9. ArchivingKeeps'
    <2>1. ASSUME OneArchiver', NEW r \in Records, fate'[r] = "written"
          PROVE  r \in OnDisk'
      BY <1>1, <1>3, <2>1, OneArchiverBefore, KeepsWhat DEF ArchivingInv, OnDisk
    <2>. QED
      BY <2>1 DEF ArchivingKeeps, OneArchiver
  <1>. QED
    BY <1>5, <1>6, <1>7, <1>8, <1>9 DEF ArchivingInv

\* What is left when a file is deleted.
LEMMA AfterUnlink ==
    ASSUME LogFilesInv, NEW f, NEW why, Unlink(f, why)
    PROVE  /\ DOMAIN files' = DOMAIN files \ {f} /\ now' = now
           /\ \A g : g # f => RecordsIn(files', g) = RecordsIn(files, g)
           /\ \A g : RecordsIn(files', g) \subseteq RecordsIn(files, g)
           /\ CountsGrow /\ count'.rolls = count.rolls /\ count'.submits = count.submits
           /\ count'.backs = count.backs
  <1>1. DOMAIN files' = DOMAIN files \ {f} /\ now' = now
    BY DEF Unlink
  <1>2. \A g \in DOMAIN files' : files'[g] = files[g]
    BY DEF Unlink
  <1>3. /\ \A g : g # f => RecordsIn(files', g) = RecordsIn(files, g)
        /\ \A g : RecordsIn(files', g) \subseteq RecordsIn(files, g)
    BY <1>1, <1>2 DEF RecordsIn
  <1>4. count \in CountType
    BY DEF LogFilesInv, LogFilesTypeOK
  <1>5. CountsGrow /\ count'.rolls = count.rolls /\ count'.submits = count.submits
        /\ count'.backs = count.backs
    <2>1. CASE Counted("unlinks")
      <3>1. CountsGrow
        BY <1>4, <2>1, CountedGrow
      <3>. QED
        BY <1>4, <2>1, <3>1 DEF Counted, CountType
    <2>2. CASE UNCHANGED count
      BY <2>2, NoneCounted
    <2>. QED
      BY <2>1, <2>2 DEF Unlink
  <1>. QED
    BY <1>1, <1>3, <1>5

\* Records that go with an old or an overflowing file, or one that was not copied,
\* are told apart.
LEMMA DeletedAreTold ==
    ASSUME LogFilesInv, ArchivingInv, NEW f, NEW why \in {"expired", "overflowed", "botched"},
           Unlink(f, why)
    PROVE  FatesOnlyFall /\ ArchivingKeeps'
  <1>1. fate' = [r \in Records |-> IF why # "archived" /\ r \in OnDisk \ Held(files')
                                   THEN why ELSE fate[r]]
    BY DEF Unlink
  <1>2. why # "archived" /\ why # "written"
    OBVIOUS
  <1>3. \A r \in Records : fate'[r] = "written" =>
           fate[r] = "written" /\ (r \in OnDisk => r \in Held(files'))
    BY <1>1, <1>2
  <1>4. ASSUME OneArchiver', NEW r \in Records, fate'[r] = "written"
        PROVE  r \in OnDisk'
    <2>1. OneArchiver
      BY <1>4, AfterUnlink, OneArchiverBefore DEF LogFilesInv, LogFilesTypeOK
    <2>2. r \in OnDisk
      BY <1>3, <1>4, <2>1, KeepsWhat DEF ArchivingInv
    <2>. QED
      BY <1>3, <1>4, <2>2 DEF OnDisk
  <1>. QED
    BY <1>3, <1>4 DEF FatesOnlyFall, ArchivingKeeps, OneArchiver

LEMMA CleanerDeletes ==
    ASSUME LogFilesInv, ArchivingInv, NEW f \in Names, NEW why,
           Unlink(f, why), submit' = submit, cleaner.pc # "idle", ArchivingKeeps',
           cleaner'.pc \in {"roll", "overflow"},
           cleaner'.pc = "roll" =>
              /\ cleaner.pc \in {"roll", "delete"}
              /\ cleaner'.todo \subseteq cleaner.todo
              /\ cleaner.pc = "delete" => cleaner.file \notin cleaner'.todo
    PROVE  ArchivingInv'
  <1>1. /\ DOMAIN files' = DOMAIN files \ {f} /\ now' = now
        /\ \A g : g # f => RecordsIn(files', g) = RecordsIn(files, g)
        /\ CountsGrow /\ count'.rolls = count.rolls /\ count'.submits = count.submits
        /\ count'.backs = count.backs
        /\ \A g : RecordsIn(files', g) \subseteq RecordsIn(files, g)
    BY AfterUnlink
  <1>2. FirstSubmit'
    BY <1>1, CleanerIsRunning
  <1>3. CleanerCopies'
    BY <1>1 DEF ArchivingInv, CleanerCopies, Compressing
  <1>4. ArchivesAreCopies'
    <2>1. ASSUME count.submits = 0, count.backs = 0, NEW g \in TxtNames,
                 As(g, "zip") \in DOMAIN files'
          PROVE  /\ g.min < now
                 /\ g \in DOMAIN files' =>
                       RecordsIn(files', As(g, "zip")) \subseteq RecordsIn(files', g)
      <3>1. /\ g.min < now
            /\ g \in DOMAIN files =>
                  RecordsIn(files, As(g, "zip")) \subseteq RecordsIn(files, g)
        BY <1>1, <2>1 DEF ArchivingInv, ArchivesAreCopies
      <3>. QED
        BY <1>1, <3>1
    <2>. QED
      BY <1>1, <2>1 DEF ArchivesAreCopies, Compressing
  <1>5. FirstRun'
    <2>. SUFFICES ASSUME count.submits = 0, count.rolls <= 1
                  PROVE  FirstRun'
      BY <1>1 DEF FirstRun
    <2>1. count.rolls # 0
      BY DEF ArchivingInv, FirstRun
    <2>2. ASSUME NEW g \in TxtNames, As(g, "zip") \in DOMAIN files', cleaner'.pc = "roll"
          PROVE  g \notin cleaner'.todo
      BY <1>1, <2>2 DEF ArchivingInv, FirstRun
    <2>. QED
      BY <1>1, <2>1, <2>2 DEF FirstRun, Compressing
  <1>. QED
    BY <1>2, <1>3, <1>4, <1>5 DEF ArchivingInv

LEMMA RollItemArchiving ==
    ASSUME LogFilesInv, ArchivingInv, CleanerAt("roll"), NEW f \in cleaner.todo,
           RollDelete(f) \/ RollKeep(f) \/ RollCompress(f)
    PROVE  ArchivingInv'
  <1>. LogFilesTypeOK
    BY DEF LogFilesInv
  <1>1. cleaner.pc = "roll" /\ f \in Names /\ f \in InUse
    BY CleanerFields DEF CleanerAt, InUse, Wanted
  <1>2. cleaner.pc # "idle" /\ ~Compressing
    BY <1>1 DEF Compressing
  <1>3. CASE RollDelete(f)
    <2>1. Unlink(f, "expired") /\ submit' = submit
      BY <1>3 DEF RollDelete
    <2>2. cleaner'.pc = "roll" /\ cleaner'.todo \subseteq cleaner.todo
      BY <1>3, CleanerRecord DEF RollDelete, Done
    <2>3. ArchivingKeeps'
      BY <2>1, DeletedAreTold
    <2>. QED
      BY <1>1, <1>2, <2>1, <2>2, <2>3, CleanerDeletes
  <1>4. CASE RollKeep(f)
    <2>1. CleanerOnly /\ submit' = submit
      BY <1>4 DEF RollKeep, CleanerOnly
    <2>2. cleaner'.pc = "roll" /\ cleaner'.todo \subseteq cleaner.todo
      BY <1>4, CleanerRecord DEF RollKeep, Done
    <2>. QED
      BY <1>1, <1>2, <2>1, <2>2, CleanerQuietArchiving
  <1>5. CASE RollCompress(f)
    <2>1. CleanerOnly /\ submit' = submit
      BY <1>5 DEF RollCompress, CleanerOnly
    <2>2. cleaner'.pc = "read" /\ cleaner'.todo = cleaner.todo /\ cleaner'.file = f
      BY <1>5, CleanerRecord DEF RollCompress
    <2>3. f \in DOMAIN files /\ f \in TxtNames /\ f.min # now
      BY <1>1, <1>5 DEF RollCompress, IsInvalidFile, Older, Exists, ToCompress, TxtNames
    <2>4. count.backs = 0 => f.min < now
      <3>1. f.min \in Nat /\ now \in Nat
        BY <2>3, ArchiveNames, LogFilesAssumption DEF LogFilesTypeOK, Minutes
      <3>2. count.backs = 0 => f.min <= now
        BY <1>1 DEF LogFilesInv, TimesOK
      <3>. QED
        BY <2>3, <3>1, <3>2
    <2>. QED
      BY <1>1, <1>2, <2>1, <2>2, <2>3, <2>4, CleanerQuietArchiving
  <1>. QED
    BY <1>3, <1>4, <1>5

LEMMA RollEndsArchiving ==
    ASSUME LogFilesInv, ArchivingInv, OverflowCallback \/ RollEnd
    PROVE  ArchivingInv'
  <1>. LogFilesTypeOK
    BY DEF LogFilesInv
  <1>1. CleanerOnly /\ submit' = submit /\ cleaner.pc \in {"roll", "overflow"}
    BY DEF OverflowCallback, RollEnd, CleanerOnly, CleanerAt
  <1>2. cleaner'.pc \in {"idle", "overflow"}
    <2>1. CASE OverflowCallback
      BY <2>1 DEF OverflowCallback, LogFilesTypeOK, CleanerTypeOK
    <2>2. CASE RollEnd
      BY <2>2 DEF RollEnd, Resting
    <2>. QED
      BY <2>1, <2>2
  <1>3. cleaner.pc # "idle" /\ ~Compressing /\ cleaner'.pc # "read"
    BY <1>1, <1>2 DEF Compressing
  <1>. QED
    BY <1>1, <1>2, <1>3, CleanerQuietArchiving

LEMMA OverflowItemArchiving ==
    ASSUME LogFilesInv, ArchivingInv, CleanerAt("overflow"), NEW x \in cleaner.todo,
           OverflowItem(x)
    PROVE  ArchivingInv'
  <1>. LogFilesTypeOK
    BY DEF LogFilesInv
  <1>1. cleaner.pc = "overflow" /\ cleaner.pc # "idle" /\ x[1] \in Names
    BY CleanerFields DEF CleanerAt
  <1>2. cleaner'.pc = "overflow" /\ submit' = submit
    BY <1>1, CleanerRecord DEF OverflowItem, CleanerOnly
  <1>3. CASE Unlink(x[1], "overflowed")
    BY <1>1, <1>2, <1>3, DeletedAreTold, CleanerDeletes
  <1>4. CASE CleanerOnly
    <2>1. ~Compressing /\ cleaner'.pc # "read"
      BY <1>1, <1>2 DEF Compressing
    <2>. QED
      BY <1>1, <1>2, <1>4, <2>1, CleanerQuietArchiving
  <1>. QED
    BY <1>3, <1>4 DEF OverflowItem

\* The histories without submitLog are all that is left to show while the cleaner
\* compresses.
LEMMA OnlyCleaner ==
    ASSUME LogFilesInv, ArchivingInv, cleaner.pc # "idle", CountsGrow,
           count'.submits = count.submits, count.submits # 0
    PROVE  ArchivingInv'
  <1>1. ~OneArchiver' /\ count'.submits # 0 /\ FirstSubmit'
    BY OneArchiverBefore, CleanerIsRunning DEF LogFilesInv, LogFilesTypeOK
  <1>. QED
    BY <1>1 DEF ArchivingInv, CleanerCopies, ArchivesAreCopies, FirstRun,
                ArchivingKeeps, OneArchiver

LEMMA BeingCompressed ==
    ASSUME LogFilesInv, ArchivingInv, Compressing, count.submits = 0
    PROVE  cleaner.file \in TxtNames /\ cleaner.file \in DOMAIN files
  <1>1. cleaner.file \in DOMAIN files /\ cleaner.file.kind = "txt"
    BY DEF ArchivingInv, CleanerCopies
  <1>. QED
    BY <1>1 DEF LogFilesInv, LogFilesTypeOK, TxtNames

\* A temporary file is made of the beginning of the source.
LEMMA PutTmpArchiving ==
    ASSUME LogFilesInv, ArchivingInv, cleaner.pc = "read", NEW n \in 0..Len(Source),
           PutTmp(SubSeq(Source, 1, n)), CompressOnly, AtMostAFailure,
           \/ /\ cleaner'.pc = "rename" /\ cleaner'.todo = cleaner.todo
              /\ cleaner'.file = cleaner.file /\ (cleaner'.failed \/ n = Len(Source))
           \/ cleaner'.pc = "roll" /\ cleaner'.todo \subseteq cleaner.todo
    PROVE  ArchivingInv'
  <1>. LogFilesTypeOK /\ count \in CountType
    BY DEF LogFilesInv, LogFilesTypeOK
  <1>1. UNCHANGED <<now, submit, fate>> /\ cleaner.pc # "idle" /\ Compressing
    BY DEF CompressOnly, Compressing
  <1>2. /\ CountsGrow /\ count'.rolls = count.rolls /\ count'.submits = count.submits
        /\ count'.backs = count.backs
    BY FailureCounts, FailuresGrow
  <1>3. FirstSubmit'
    BY <1>1, <1>2, CleanerIsRunning
  <1>4. CASE count.submits # 0
    BY <1>1, <1>2, <1>4, OnlyCleaner
  <1>5. CASE count.submits = 0
    <2>1. PICK f \in TxtNames : f = cleaner.file /\ f \in DOMAIN files
      BY <1>1, <1>5, BeingCompressed
    <2>2. PICK tmp \in Names \ TxtNames : /\ tmp = As(f, "tmp") /\ tmp # f /\ tmp.kind = "tmp"
                             /\ \A g \in TxtNames : tmp # g /\ tmp # As(g, "zip")
      BY ArchiveNames
    <2>3. Source = files[f].recs /\ Source \in Seq(Nat)
      BY <2>1, TypeOfFile DEF Source, Exists
    <2>4. PICK recs \in Seq(Nat) : /\ recs = SubSeq(Source, 1, n) /\ BeginsLike(recs, Source)
                                   /\ n = Len(Source) => recs = Source
      BY <2>3, Beginning, SubSeqFull
    <2>5. /\ DOMAIN files' = DOMAIN files \cup {tmp} /\ files'[tmp].recs = recs
          /\ \A g \in DOMAIN files : g # tmp => files'[g] = files[g]
      <3>1. Put(tmp, recs)
        BY <2>1, <2>2, <2>4 DEF PutTmp
      <3>. QED
        BY <3>1, PutOne
    <2>6. ToSet(recs) \subseteq ToSet(Source)
      BY <2>4 DEF BeginsLike, ToSet
    <2>7. /\ RecordsIn(files', tmp) \subseteq RecordsIn(files, f)
          /\ n = Len(Source) => RecordsIn(files', tmp) = RecordsIn(files, f)
          /\ \A g : g # tmp => RecordsIn(files', g) = RecordsIn(files, g)
      BY <2>1, <2>3, <2>4, <2>5, <2>6 DEF RecordsIn
    <2>8. CleanerCopies'
      <3>1. n = Len(Source) => Landed(files', fate', f) \subseteq RecordsIn(files', tmp)
        BY <2>2, <2>7 DEF Landed
      <3>2. RecordsIn(files', tmp) \subseteq RecordsIn(files', f)
        BY <2>2, <2>7
      <3>3. f \in DOMAIN files' /\ tmp \in DOMAIN files' /\ f.kind = "txt"
        BY <2>1, <2>5 DEF TxtNames
      <3>4. CASE cleaner'.pc = "rename"
        <4>1. cleaner'.file = f /\ As(cleaner'.file, "tmp") = tmp
          BY <2>1, <2>2, <3>4
        <4>2. cleaner'.failed \/ n = Len(Source)
          BY <3>4
        <4>. QED
          BY <1>1, <1>2, <1>5, <3>1, <3>2, <3>3, <3>4, <4>1, <4>2
          DEF ArchivingInv, CleanerCopies, Compressing
      <3>5. CASE cleaner'.pc = "roll"
        BY <1>1, <1>2, <1>5, <3>5 DEF ArchivingInv, CleanerCopies, Compressing
      <3>. QED
        BY <3>4, <3>5
    <2>9. ArchivesAreCopies'
      BY <1>1, <1>2, <2>2, <2>5, <2>7 DEF ArchivingInv, ArchivesAreCopies, Compressing
    <2>10. FirstRun'
      BY <1>1, <1>2, <2>2, <2>5 DEF ArchivingInv, FirstRun, Compressing
    <2>11. ArchivingKeeps'
      <3>1. \A r : r \in Held(files) => r \in Held(files')
        BY <2>2, <2>5, <2>7, HeldIn
      <3>. QED
        BY <1>1, <1>2, <3>1 DEF ArchivingInv, ArchivingKeeps, OnDisk
    <2>. QED
      BY <1>3, <2>8, <2>9, <2>10, <2>11 DEF ArchivingInv
  <1>. QED
    BY <1>4, <1>5

\* A step of the compression that leaves the directory alone.
LEMMA FailedArchiving ==
    ASSUME LogFilesInv, ArchivingInv, UNCHANGED files, CompressOnly, AtMostAFailure,
           \/ /\ cleaner.pc = "move" /\ cleaner'.pc = "delete" /\ cleaner'.todo = cleaner.todo
              /\ cleaner'.file = cleaner.file /\ cleaner'.failed
           \/ /\ cleaner.pc = "read" /\ cleaner'.pc = "roll"
              /\ cleaner'.todo \subseteq cleaner.todo
    PROVE  ArchivingInv'
  <1>. LogFilesTypeOK /\ count \in CountType
    BY DEF LogFilesInv, LogFilesTypeOK
  <1>1. UNCHANGED <<now, submit, fate, files>> /\ cleaner.pc # "idle" /\ Compressing
    BY DEF CompressOnly, Compressing
  <1>2. /\ CountsGrow /\ count'.rolls = count.rolls /\ count'.submits = count.submits
        /\ count'.backs = count.backs
    BY FailureCounts, FailuresGrow
  <1>3. FirstSubmit'
    BY <1>1, <1>2, CleanerIsRunning
  <1>4. CleanerCopies'
    BY <1>1, <1>2 DEF ArchivingInv, CleanerCopies, Compressing
  <1>5. ArchivesAreCopies'
    BY <1>1, <1>2 DEF ArchivingInv, ArchivesAreCopies, Compressing
  <1>6. FirstRun'
    BY <1>1, <1>2 DEF ArchivingInv, FirstRun, Compressing
  <1>7. ArchivingKeeps'
    BY <1>1, <1>2 DEF ArchivingInv, ArchivingKeeps, OnDisk
  <1>. QED
    BY <1>3, <1>4, <1>5, <1>6, <1>7 DEF ArchivingInv

LEMMA CompressArchiving ==
    ASSUME LogFilesInv, ArchivingInv, CompressRead \/ CompressBreaksOff \/ CompressThrows
    PROVE  ArchivingInv'
  <1>. LogFilesTypeOK
    BY DEF LogFilesInv
  <1>1. cleaner.pc = "read" /\ CompressOnly /\ AtMostAFailure
    BY DEF CompressRead, CompressBreaksOff, CompressThrows, CleanerAt, AtMostAFailure
  <1>2. CASE CompressRead
    <2>1. cleaner'.pc = "rename" /\ cleaner'.todo = cleaner.todo /\ cleaner'.file = cleaner.file
      BY <1>2, CleanerRecord DEF CompressRead
    <2>2. Source \in Seq(Nat)
      BY TypeOfFile, EmptySeq DEF Source, Exists
    <2>3. SubSeq(Source, 1, Len(Source)) = Source /\ Len(Source) \in 0..Len(Source)
      BY <2>2, SubSeqFull
    <2>4. PutTmp(SubSeq(Source, 1, Len(Source)))
      BY <1>2, <2>3 DEF CompressRead
    <2>. QED
      BY <1>1, <2>1, <2>3, <2>4, PutTmpArchiving
  <1>3. CASE CompressBreaksOff
    <2>1. /\ cleaner'.pc = "rename" /\ cleaner'.todo = cleaner.todo
          /\ cleaner'.file = cleaner.file /\ cleaner'.failed
      BY <1>3, CleanerRecord DEF CompressBreaksOff
    <2>2. PICK n \in 0..Len(Source) : PutTmp(SubSeq(Source, 1, n))
      BY <1>3 DEF CompressBreaksOff
    <2>. QED
      BY <1>1, <2>1, <2>2, PutTmpArchiving
  <1>4. CASE CompressThrows
    <2>1. cleaner'.pc = "roll" /\ cleaner'.todo \subseteq cleaner.todo
      BY <1>4, CleanerRecord DEF CompressThrows, Done
    <2>2. CASE UNCHANGED files
      BY <1>1, <2>1, <2>2, FailedArchiving
    <2>3. CASE \E n \in 0..Len(Source) : PutTmp(SubSeq(Source, 1, n))
      BY <1>1, <2>1, <2>3, PutTmpArchiving
    <2>. QED
      BY <1>4, <2>2, <2>3 DEF CompressThrows
  <1>. QED
    BY <1>2, <1>3, <1>4

\* What an old archive of the file being compressed holds is in the file.
LEMMA OldArchiveIsCopy ==
    ASSUME LogFilesInv, ArchivingInv, cleaner.pc \in {"rename", "move"}, OneArchiver,
           NEW r \in RecordsIn(files, As(cleaner.file, "zip"))
    PROVE  r \in RecordsIn(files, cleaner.file)
  <1>1. count.submits = 0 /\ Compressing /\ cleaner.pc # "delete"
    BY CleanerIsRunning DEF Compressing
  <1>2. PICK f \in TxtNames : f = cleaner.file /\ f \in DOMAIN files
    BY <1>1, BeingCompressed
  <1>3. As(f, "zip") \in DOMAIN files
    BY <1>2 DEF RecordsIn
  <1>4. CASE count.backs = 0
    <2>1. RecordsIn(files, As(f, "zip")) \subseteq RecordsIn(files, f)
      BY <1>1, <1>2, <1>3, <1>4 DEF ArchivingInv, ArchivesAreCopies
    <2>. QED
      BY <1>2, <2>1
  <1>5. CASE count.rolls <= 1
    <2>1. f \in cleaner.todo
      BY <1>1, <1>2, <1>5 DEF ArchivingInv, FirstRun
    <2>2. f \notin cleaner.todo
      BY <1>1, <1>3, <1>5 DEF ArchivingInv, FirstRun
    <2>. QED
      BY <2>1, <2>2
  <1>6. count.backs = 0 \/ count.rolls <= 1
    <2>1. count.rolls = 0 => count.rolls <= 1
      OBVIOUS
    <2>. QED
      BY <2>1 DEF OneArchiver
  <1>. QED
    BY <1>4, <1>5, <1>6

LEMMA RenameZipArchiving ==
    ASSUME LogFilesInv, ArchivingInv, RenameZip
    PROVE  ArchivingInv'
  <1>. LogFilesTypeOK
    BY DEF LogFilesInv
  <1>1. /\ UNCHANGED <<now, submit, fate, count>> /\ cleaner.pc = "rename"
        /\ cleaner.pc # "idle" /\ Compressing
    BY DEF RenameZip, CleanerAt, CompressOnly, Compressing
  <1>2. CASE count.submits # 0
    BY <1>1, <1>2, NoneCounted, OnlyCleaner
  <1>3. CASE count.submits = 0
    <2>1. PICK f \in TxtNames : f = cleaner.file /\ f \in DOMAIN files
      BY <1>1, <1>3, BeingCompressed
    <2>2. PICK tmp \in Names \ TxtNames : tmp = As(f, "tmp") /\ tmp.kind = "tmp"
      BY ArchiveNames
    <2>3. PICK zip \in Names \ TxtNames :
              /\ zip = As(f, "zip") /\ zip # f /\ zip.kind = "zip" /\ zip # tmp
              /\ \A g \in TxtNames : zip # g /\ (As(g, "zip") = zip => g = f)
      BY <2>2, ArchiveNames
    <2>4. /\ tmp \in DOMAIN files
          /\ cleaner.failed \/ Landed(files, fate, f) \subseteq RecordsIn(files, tmp)
          /\ RecordsIn(files, tmp) \subseteq RecordsIn(files, f)
      BY <1>1, <1>3, <2>1, <2>2 DEF ArchivingInv, CleanerCopies
    <2>5. /\ files' = [g \in DOMAIN files \ {zip} |-> files[g]]
          /\ cleaner' = [cleaner EXCEPT !.pc = "move"]
      BY <2>1, <2>2, <2>3, <2>4 DEF RenameZip, Exists
    <2>6. /\ DOMAIN files' = DOMAIN files \ {zip}
          /\ \A g : g # zip => RecordsIn(files', g) = RecordsIn(files, g)
      <3>1. DOMAIN files' = DOMAIN files \ {zip}
        BY <2>5
      <3>2. \A g \in DOMAIN files' : files'[g] = files[g]
        BY <2>5, <3>1
      <3>. QED
        BY <3>1, <3>2 DEF RecordsIn
    <2>7. /\ cleaner'.pc = "move" /\ cleaner'.todo = cleaner.todo
          /\ cleaner'.file = f /\ cleaner'.failed = cleaner.failed
      BY <2>1, <2>5, CleanerRecord
    <2>8. CleanerCopies'
      <3>1. /\ tmp \in DOMAIN files' /\ f \in DOMAIN files' /\ f.kind = "txt"
            /\ RecordsIn(files', tmp) = RecordsIn(files, tmp)
            /\ RecordsIn(files', f) = RecordsIn(files, f)
            /\ Landed(files', fate', f) = Landed(files, fate, f)
        BY <1>1, <2>1, <2>3, <2>4, <2>6 DEF Landed, TxtNames
      <3>2. As(cleaner'.file, "tmp") = tmp
        BY <2>2, <2>7
      <3>. QED
        BY <1>1, <1>3, <2>4, <2>7, <3>1, <3>2 DEF ArchivingInv, CleanerCopies, Compressing
    <2>9. ArchivesAreCopies'
      <3>. SUFFICES ASSUME count.backs = 0
                    PROVE  ArchivesAreCopies'
        BY <1>1 DEF ArchivesAreCopies
      <3>1. f.min < now
        BY <1>1, <1>3, <2>1 DEF ArchivingInv, ArchivesAreCopies
      <3>2. ASSUME NEW g \in TxtNames, As(g, "zip") \in DOMAIN files'
            PROVE  /\ g.min < now
                   /\ g \in DOMAIN files' =>
                         RecordsIn(files', As(g, "zip")) \subseteq RecordsIn(files', g)
        <4>1. As(g, "zip") # zip /\ As(g, "zip") \in DOMAIN files /\ g # zip
          BY <2>3, <2>6, <3>2
        <4>2. /\ g.min < now
              /\ g \in DOMAIN files =>
                    RecordsIn(files, As(g, "zip")) \subseteq RecordsIn(files, g)
          BY <1>3, <4>1 DEF ArchivingInv, ArchivesAreCopies
        <4>. QED
          BY <2>6, <4>1, <4>2
      <3>. QED
        BY <1>1, <2>7, <3>1, <3>2 DEF ArchivesAreCopies, Compressing
    <2>10. FirstRun'
      BY <1>1, <1>3, <2>1, <2>6, <2>7 DEF ArchivingInv, FirstRun, Compressing
    <2>11. ArchivingKeeps'
      <3>1. ASSUME OneArchiver', NEW r \in Records, fate'[r] = "written"
            PROVE  r \in OnDisk'
        <4>1. OneArchiver /\ fate[r] = "written"
          BY <1>1, <3>1 DEF OneArchiver
        <4>2. PICK g \in DOMAIN files : g.kind # "tmp" /\ r \in RecordsIn(files, g)
          BY <3>1, <4>1, KeepsWhat, HeldIn DEF ArchivingInv, OnDisk
        <4>3. CASE g = zip
          <5>1. r \in RecordsIn(files, f)
            BY <1>1, <2>1, <2>3, <4>1, <4>2, <4>3, OldArchiveIsCopy
          <5>2. f \in DOMAIN files' /\ r \in RecordsIn(files', f) /\ f.kind # "tmp"
            BY <2>1, <2>3, <2>6, <5>1 DEF TxtNames
          <5>. QED
            BY <5>2, HeldIn DEF OnDisk
        <4>4. CASE g # zip
          <5>1. g \in DOMAIN files' /\ r \in RecordsIn(files', g)
            BY <2>6, <4>2, <4>4
          <5>. QED
            BY <4>2, <5>1, HeldIn DEF OnDisk
        <4>. QED
          BY <4>3, <4>4
      <3>. QED
        BY <3>1 DEF ArchivingKeeps, OneArchiver
    <2>. QED
      BY <1>1, <2>8, <2>9, <2>10, <2>11, NoneCounted, CleanerIsRunning DEF ArchivingInv
  <1>. QED
    BY <1>2, <1>3

LEMMA RenameToArchiving ==
    ASSUME LogFilesInv, ArchivingInv, RenameTo
    PROVE  ArchivingInv'
  <1>. LogFilesTypeOK
    BY DEF LogFilesInv
  <1>1. /\ UNCHANGED <<now, submit, fate, count>> /\ cleaner.pc = "move"
        /\ cleaner.pc # "idle" /\ Compressing
    BY DEF RenameTo, CleanerAt, CompressOnly, Compressing
  <1>2. /\ cleaner'.pc = "delete" /\ cleaner'.todo = cleaner.todo
        /\ cleaner'.file = cleaner.file /\ cleaner'.failed = cleaner.failed
    BY CleanerRecord DEF RenameTo
  <1>3. FirstSubmit'
    BY <1>1, NoneCounted, CleanerIsRunning
  <1>4. CASE count.submits # 0
    BY <1>1, <1>4, NoneCounted, OnlyCleaner
  <1>5. CASE count.submits = 0
    <2>1. PICK f \in TxtNames : f = cleaner.file /\ f \in DOMAIN files
      BY <1>1, <1>5, BeingCompressed
    <2>2. PICK tmp \in Names \ TxtNames :
              /\ tmp = As(f, "tmp") /\ tmp # f /\ tmp.kind = "tmp"
              /\ \A g \in TxtNames : tmp # g /\ tmp # As(g, "zip")
      BY ArchiveNames
    <2>3. PICK zip \in Names \ TxtNames :
              /\ zip = As(f, "zip") /\ zip # f /\ zip.kind = "zip" /\ zip # tmp
              /\ \A g \in TxtNames : zip # g /\ (As(g, "zip") = zip => g = f)
      BY <2>2, ArchiveNames
    <2>4. /\ tmp \in DOMAIN files
          /\ cleaner.failed \/ Landed(files, fate, f) \subseteq RecordsIn(files, tmp)
          /\ RecordsIn(files, tmp) \subseteq RecordsIn(files, f)
      BY <1>1, <1>5, <2>1, <2>2 DEF ArchivingInv, CleanerCopies
    <2>5. files' = [g \in (DOMAIN files \ {tmp}) \cup {zip} |->
                      IF g = zip THEN files[tmp] ELSE files[g]]
      BY <2>1, <2>2, <2>3, <2>4 DEF RenameTo, Exists
    <2>6. /\ DOMAIN files' = (DOMAIN files \ {tmp}) \cup {zip}
          /\ RecordsIn(files', zip) = RecordsIn(files, tmp)
          /\ \A g : g \notin {zip, tmp} => RecordsIn(files', g) = RecordsIn(files, g)
      <3>1. DOMAIN files' = (DOMAIN files \ {tmp}) \cup {zip}
        BY <2>5
      <3>2. files'[zip] = files[tmp]
        BY <2>5, <3>1
      <3>3. \A g \in DOMAIN files : g \notin {zip, tmp} => files'[g] = files[g]
        BY <2>5, <3>1
      <3>. QED
        BY <2>4, <3>1, <3>2, <3>3 DEF RecordsIn
    <2>7. Landed(files', fate', f) = Landed(files, fate, f) /\ f \in DOMAIN files'
      BY <1>1, <2>1, <2>2, <2>3, <2>6 DEF Landed
    <2>8. CleanerCopies'
      <3>1. cleaner.failed \/ Landed(files', fate', f) \subseteq RecordsIn(files', zip)
        BY <2>4, <2>6, <2>7
      <3>2. f.kind = "txt" /\ cleaner'.file = f /\ As(cleaner'.file, "zip") = zip
        BY <1>2, <2>1, <2>3 DEF TxtNames
      <3>. QED
        BY <1>1, <1>2, <1>5, <2>7, <3>1, <3>2 DEF ArchivingInv, CleanerCopies, Compressing
    <2>9. ArchivesAreCopies'
      <3>. SUFFICES ASSUME count.backs = 0
                    PROVE  ArchivesAreCopies'
        BY <1>1 DEF ArchivesAreCopies
      <3>1. f.min < now
        BY <1>1, <1>5, <2>1 DEF ArchivingInv, ArchivesAreCopies, Compressing
      <3>2. ASSUME NEW g \in TxtNames, As(g, "zip") \in DOMAIN files'
            PROVE  /\ g.min < now
                   /\ g \in DOMAIN files' =>
                         RecordsIn(files', As(g, "zip")) \subseteq RecordsIn(files', g)
        <4>1. g # tmp /\ g # zip /\ As(g, "zip") # tmp
          BY <2>2, <2>3
        <4>2. CASE g = f
          BY <2>3, <2>4, <2>6, <3>1, <4>1, <4>2
        <4>3. CASE g # f
          <5>1. As(g, "zip") # zip /\ As(g, "zip") \in DOMAIN files
            BY <2>3, <2>6, <3>2, <4>1, <4>3
          <5>2. /\ g.min < now
                /\ g \in DOMAIN files =>
                      RecordsIn(files, As(g, "zip")) \subseteq RecordsIn(files, g)
            BY <1>5, <5>1 DEF ArchivingInv, ArchivesAreCopies
          <5>. QED
            BY <2>6, <4>1, <5>1, <5>2
        <4>. QED
          BY <4>2, <4>3
      <3>. QED
        BY <1>1, <1>2, <2>1, <3>1, <3>2 DEF ArchivesAreCopies, Compressing
    <2>10. FirstRun'
      <3>. SUFFICES ASSUME count.rolls <= 1
                    PROVE  FirstRun'
        BY <1>1 DEF FirstRun
      <3>1. count.rolls # 0 /\ cleaner.file \in cleaner.todo
        BY <1>1, <1>5 DEF ArchivingInv, FirstRun, Compressing
      <3>2. ASSUME NEW g \in TxtNames, As(g, "zip") \in DOMAIN files', g # f
            PROVE  g \notin cleaner.todo
        <4>1. As(g, "zip") \in DOMAIN files
          BY <2>3, <2>6, <3>2
        <4>. QED
          BY <1>1, <1>5, <4>1 DEF ArchivingInv, FirstRun
      <3>. QED
        BY <1>1, <1>2, <2>1, <3>1, <3>2 DEF FirstRun, Compressing
    <2>11. ArchivingKeeps'
      <3>2. ASSUME OneArchiver', NEW r \in Records, fate'[r] = "written"
            PROVE  r \in OnDisk'
        <4>1. OneArchiver /\ fate[r] = "written"
          BY <1>1, <3>2 DEF OneArchiver
        <4>2. PICK g \in DOMAIN files : g.kind # "tmp" /\ r \in RecordsIn(files, g)
          BY <3>2, <4>1, KeepsWhat, HeldIn DEF ArchivingInv, OnDisk
        <4>3. CASE g = zip
          <5>1. r \in RecordsIn(files, f)
            BY <1>1, <2>1, <2>3, <4>1, <4>2, <4>3, OldArchiveIsCopy
          <5>2. r \in RecordsIn(files', f) /\ f.kind # "tmp"
            BY <2>2, <2>3, <2>6, <5>1 DEF TxtNames
          <5>. QED
            BY <2>7, <5>2, HeldIn DEF OnDisk
        <4>4. CASE g # zip
          <5>1. g # tmp
            BY <2>2, <4>2
          <5>2. g \in DOMAIN files' /\ r \in RecordsIn(files', g)
            BY <2>6, <4>2, <4>4, <5>1
          <5>. QED
            BY <4>2, <5>2, HeldIn DEF OnDisk
        <4>. QED
          BY <4>3, <4>4
      <3>. QED
        BY <3>2 DEF ArchivingKeeps, OneArchiver
    <2>. QED
      BY <1>3, <2>8, <2>9, <2>10, <2>11 DEF ArchivingInv
  <1>. QED
    BY <1>4, <1>5

LEMMA RenameToFailsArchiving ==
    ASSUME LogFilesInv, ArchivingInv, RenameToFails
    PROVE  ArchivingInv'
  <1>. LogFilesTypeOK
    BY DEF LogFilesInv
  <1>1. /\ cleaner.pc = "move" /\ CompressOnly /\ AtMostAFailure /\ UNCHANGED files
    BY DEF RenameToFails, CleanerAt, AtMostAFailure
  <1>2. /\ cleaner'.pc = "delete" /\ cleaner'.todo = cleaner.todo
        /\ cleaner'.file = cleaner.file /\ cleaner'.failed
    BY CleanerRecord DEF RenameToFails
  <1>. QED
    BY <1>1, <1>2, FailedArchiving

\* What the source had is in the archive.
LEMMA ArchivedIsKept ==
    ASSUME LogFilesInv, ArchivingInv, NEW f \in TxtNames, Unlink(f, "archived"),
           OneArchiver => Landed(files, fate, f) \subseteq RecordsIn(files, As(f, "zip"))
    PROVE  ArchivingKeeps'
  <1>1. \A r \in Records : fate'[r] = fate[r]
    BY DEF Unlink
  <1>2. PICK zip : zip = As(f, "zip") /\ zip # f /\ zip.kind = "zip"
    BY ArchiveNames
  <1>3. /\ DOMAIN files' = DOMAIN files \ {f}
        /\ \A g : g # f => RecordsIn(files', g) = RecordsIn(files, g)
    BY AfterUnlink
  <1>4. OneArchiver' => OneArchiver
    BY AfterUnlink, OneArchiverBefore DEF LogFilesInv, LogFilesTypeOK
  <1>5. ASSUME OneArchiver', NEW r \in Records, fate'[r] = "written"
        PROVE  r \in OnDisk'
    <2>1. OneArchiver /\ fate[r] = "written"
      BY <1>1, <1>4, <1>5
    <2>2. PICK g \in DOMAIN files : g.kind # "tmp" /\ r \in RecordsIn(files, g)
      BY <1>5, <2>1, KeepsWhat, HeldIn DEF ArchivingInv, OnDisk
    <2>3. CASE g = f
      <3>1. r \in RecordsIn(files, zip)
        BY <1>2, <2>1, <2>2, <2>3 DEF Landed
      <3>2. zip \in DOMAIN files
        BY <3>1 DEF RecordsIn
      <3>. QED
        BY <1>2, <1>3, <3>1, <3>2, HeldIn DEF OnDisk
    <2>4. CASE g # f
      BY <1>3, <2>2, <2>4, HeldIn DEF OnDisk
    <2>. QED
      BY <2>3, <2>4
  <1>. QED
    BY <1>5 DEF ArchivingKeeps, OneArchiver

LEMMA DeleteSourceArchiving ==
    ASSUME LogFilesInv, ArchivingInv, DeleteSource
    PROVE  ArchivingInv'
  <1>. LogFilesTypeOK
    BY DEF LogFilesInv
  <1>1. /\ cleaner.pc = "delete" /\ submit' = submit /\ cleaner.pc # "idle" /\ Compressing
        /\ Unlink(cleaner.file, IF cleaner.failed THEN "botched" ELSE "archived")
    BY DEF DeleteSource, CleanerAt, Compressing
  <1>2. cleaner'.pc = "roll" /\ cleaner'.todo = cleaner.todo \ {cleaner.file}
    BY CleanerRecord DEF DeleteSource, Done
  <1>3. CASE count.submits # 0
    BY <1>1, <1>3, AfterUnlink, OnlyCleaner
  <1>4. CASE count.submits = 0
    <2>1. PICK f \in TxtNames : f = cleaner.file
      BY <1>1, <1>4, BeingCompressed
    <2>2. CASE cleaner.failed
      <3>1. Unlink(f, "botched")
        BY <1>1, <2>1, <2>2
      <3>2. ArchivingKeeps'
        BY <3>1, DeletedAreTold
      <3>. QED
        BY <1>1, <1>2, <2>1, <3>1, <3>2, ArchiveNames, CleanerDeletes
    <2>3. CASE ~cleaner.failed
      <3>1. Landed(files, fate, f) \subseteq RecordsIn(files, As(f, "zip"))
        BY <1>1, <1>4, <2>1, <2>3 DEF ArchivingInv, CleanerCopies
      <3>2. Unlink(f, "archived")
        BY <1>1, <2>1, <2>3
      <3>3. ArchivingKeeps'
        BY <3>1, <3>2, ArchivedIsKept
      <3>. QED
        BY <1>1, <1>2, <2>1, <3>2, <3>3, ArchiveNames, CleanerDeletes
    <2>. QED
      BY <2>2, <2>3
  <1>. QED
    BY <1>3, <1>4

LEMMA CleanerArchiving ==
    ASSUME LogFilesInv, ArchivingInv, Cleaner
    PROVE  ArchivingInv'
  BY RollCacheLogsArchiving, CompressArchiving, RenameZipArchiving, RenameToArchiving,
     RenameToFailsArchiving, DeleteSourceArchiving, RollEndsArchiving, RollItemArchiving, OverflowItemArchiving
  DEF Cleaner

-----------------------------------------------------------------------------
(* The first submitLog                                                     *)

LEMMA SubmitIsRunning ==
    ASSUME LogFilesInv, ArchivingInv, submit.pc # "idle"
    PROVE  /\ OneArchiver => count.rolls = 0 /\ count.submits <= 1
           /\ count'.submits = count.submits =>
                 CleanerCopies' /\ ArchivesAreCopies' /\ FirstRun'
  <1>1. count.submits # 0
    BY DEF ArchivingInv, CleanerCopies
  <1>. QED
    BY <1>1 DEF OneArchiver, CleanerCopies, ArchivesAreCopies, FirstRun

\* Steps that change nothing but the call.
LEMMA SubmitQuietArchiving ==
    ASSUME LogFilesInv, ArchivingInv, SubmitOnly, submit.pc # "idle",
           \/ submit'.pc \in {"idle", "select", "flush", "done"}
           \/ /\ submit.pc \in {"copy", "delete"} /\ submit'.pc = "zip"
              /\ submit'.todo = submit.todo
    PROVE  ArchivingInv'
  <1>1. UNCHANGED <<files, cleaner, fate, count>>
    BY DEF SubmitOnly
  <1>2. CleanerCopies' /\ ArchivesAreCopies' /\ FirstRun'
    BY <1>1, SubmitIsRunning
  <1>3. FirstSubmit'
    <2>. SUFFICES ASSUME count.rolls = 0, count.submits <= 1
                  PROVE  FirstSubmit'
      BY <1>1 DEF FirstSubmit
    <2>1. count.submits # 0 /\ cleaner.pc = "idle"
      BY DEF ArchivingInv, FirstSubmit
    <2>2. submit'.pc = "zip" =>
             /\ submit'.todo \subseteq TxtNames
             /\ \A f \in submit'.todo : As(f, "zip") \notin DOMAIN files
      BY DEF ArchivingInv, FirstSubmit
    <2>. QED
      BY <1>1, <2>1, <2>2 DEF FirstSubmit
  <1>4. ArchivingKeeps'
    BY <1>1 DEF ArchivingInv, ArchivingKeeps, OnDisk
  <1>. QED
    BY <1>2, <1>3, <1>4 DEF ArchivingInv

LEMMA SubmitLogArchiving ==
    ASSUME LogFilesInv, ArchivingInv, NEW num \in Nums, SubmitLog(num)
    PROVE  ArchivingInv'
  <1>. LogFilesTypeOK /\ count \in CountType
    BY DEF LogFilesInv, LogFilesTypeOK
  <1>1. /\ UNCHANGED <<now, files, cleaner, fate>> /\ Counted("submits")
        /\ submit.pc = "idle"
    BY DEF SubmitLog, SubmitAt
  <1>2. submit'.pc = "zip" /\ submit'.todo \subseteq TextFiles
    BY DEF SubmitLog, NoSubmit
  <1>3. /\ CountsGrow /\ count'.submits = count.submits + 1 /\ count.submits \in Nat
    BY <1>1, CountedGrow, CountedOne DEF CountType
  <1>4. count'.submits # 0
    BY <1>3
  <1>5. CleanerCopies' /\ ArchivesAreCopies' /\ FirstRun'
    BY <1>4 DEF CleanerCopies, ArchivesAreCopies, FirstRun
  <1>6. FirstSubmit'
    <2>. SUFFICES ASSUME count'.rolls = 0, count'.submits <= 1
                  PROVE  FirstSubmit'
      BY DEF FirstSubmit
    <2>1. count.rolls = 0 /\ count.submits = 0 /\ count.submits <= 1
      BY <1>3, EarlierCounts
    <2>2. cleaner.pc = "idle" /\ DOMAIN files \subseteq TxtNames
      BY <2>1 DEF ArchivingInv, FirstSubmit
    <2>3. \A f \in TxtNames : As(f, "zip") \notin DOMAIN files
      BY <2>2, ArchiveNames
    <2>4. submit'.todo \subseteq TxtNames
      BY <1>2, <2>2 DEF TextFiles
    <2>. QED
      BY <1>1, <1>2, <1>4, <2>2, <2>3, <2>4 DEF FirstSubmit
  <1>7. ArchivingKeeps'
    <2>1. ASSUME OneArchiver', NEW r \in Records, fate'[r] = "written"
          PROVE  r \in OnDisk'
      BY <1>1, <1>3, <2>1, OneArchiverBefore, KeepsWhat DEF ArchivingInv, OnDisk
    <2>. QED
      BY <2>1 DEF ArchivingKeeps, OneArchiver
  <1>. QED
    BY <1>5, <1>6, <1>7 DEF ArchivingInv

\* The archive of a file is written where no archive was.
LEMMA ZipArchiving ==
    ASSUME LogFilesInv, ArchivingInv, submit.pc # "idle",
           NEW f, NEW recs \in Seq(Nat), f \in Paths, Put(As(f, "zip"), recs),
           UNCHANGED <<cleaner, fate>>, AtMostAFailure, FirstSubmit',
           count.rolls = 0 /\ count.submits <= 1 => RecordsIn(files, As(f, "zip")) = {}
    PROVE  ArchivingInv'
  <1>0. /\ count'.rolls = count.rolls /\ count'.submits = count.submits
        /\ count'.backs = count.backs
    BY FailureCounts DEF LogFilesInv, LogFilesTypeOK
  <1>1. CleanerCopies' /\ ArchivesAreCopies' /\ FirstRun'
    BY <1>0, SubmitIsRunning
  <1>2. PICK zip \in Names : zip = As(f, "zip")
    BY NameOfArchive
  <1>3. /\ DOMAIN files' = DOMAIN files \cup {zip}
        /\ \A g \in DOMAIN files : g # zip => files'[g] = files[g]
    <2>1. Put(zip, recs) /\ LogFilesTypeOK
      BY <1>2 DEF LogFilesInv
    <2>. QED
      BY <2>1, PutOne
  <1>4. ASSUME OneArchiver', NEW r \in Records, fate'[r] = "written"
        PROVE  r \in OnDisk'
    <2>1. OneArchiver /\ fate[r] = "written"
      BY <1>0, <1>4 DEF OneArchiver
    <2>2. PICK g \in DOMAIN files : g.kind # "tmp" /\ r \in RecordsIn(files, g)
      BY <1>4, <2>1, KeepsWhat, HeldIn DEF ArchivingInv, OnDisk
    <2>3. g # zip
      BY <1>2, <2>1, <2>2, SubmitIsRunning
    <2>4. g \in DOMAIN files' /\ r \in RecordsIn(files', g)
      BY <1>3, <2>2, <2>3 DEF RecordsIn
    <2>. QED
      BY <2>2, <2>4, HeldIn DEF OnDisk
  <1>5. ArchivingKeeps'
    BY <1>4 DEF ArchivingKeeps, OneArchiver
  <1>. QED
    BY <1>1, <1>5 DEF ArchivingInv

LEMMA ZipOpenArchiving ==
    ASSUME LogFilesInv, ArchivingInv, NEW f \in submit.todo, ZipOpen(f)
    PROVE  ArchivingInv'
  <1>. LogFilesTypeOK
    BY DEF LogFilesInv
  <1>1. /\ submit.pc = "zip" /\ submit.pc # "idle" /\ Put(As(f, "zip"), <<>>)
        /\ UNCHANGED <<cleaner, fate, count>> /\ f \in Paths
        /\ <<>> \in Seq(Nat)
    BY SubmitFields, EmptySeq DEF ZipOpen, SubmitAt, Paths
  <1>2. /\ submit'.pc = "copy" /\ submit'.file = f /\ submit'.todo = submit.todo \ {f}
    BY DEF ZipOpen, LogFilesTypeOK, SubmitTypeOK
  <1>3. ASSUME count.rolls = 0, count.submits <= 1
        PROVE  FirstSubmit' /\ RecordsIn(files, As(f, "zip")) = {}
    <2>1. /\ submit.todo \subseteq TxtNames /\ f \in TxtNames
          /\ \A g \in submit.todo : As(g, "zip") \notin DOMAIN files
          /\ cleaner.pc = "idle" /\ count.submits # 0
      BY <1>1, <1>3 DEF ArchivingInv, FirstSubmit
    <2>2. PICK zip \in Names : /\ zip = As(f, "zip")
                               /\ \A g \in TxtNames : As(g, "zip") = zip => g = f
      BY <2>1, ArchiveNames
    <2>3. DOMAIN files' = DOMAIN files \cup {zip} /\ files'[zip].recs = <<>>
      BY <1>1, <2>2, PutOne
    <2>4. RecordsIn(files', zip) = {}
      <3>1. ToSet(<<>>) = {}
        BY DEF ToSet
      <3>. QED
        BY <2>3, <3>1 DEF RecordsIn
    <2>5. \A g \in submit'.todo : As(g, "zip") \notin DOMAIN files'
      BY <1>2, <2>1, <2>2, <2>3
    <2>6. FirstSubmit'
      BY <1>1, <1>2, <2>1, <2>2, <2>4, <2>5 DEF FirstSubmit
    <2>7. RecordsIn(files, As(f, "zip")) = {}
      BY <2>1 DEF RecordsIn
    <2>. QED
      BY <2>6, <2>7
  <1>4. FirstSubmit'
    BY <1>1, <1>3 DEF FirstSubmit
  <1>. QED
    BY <1>1, <1>3, <1>4, ZipArchiving DEF AtMostAFailure

LEMMA ZipCopyArchiving ==
    ASSUME LogFilesInv, ArchivingInv, ZipCopy
    PROVE  ArchivingInv'
  <1>. LogFilesTypeOK
    BY DEF LogFilesInv
  <1>1. /\ submit.pc = "copy" /\ submit.pc # "idle"
        /\ UNCHANGED <<now, appenderVars, cleaner, fate, count>>
    BY DEF ZipCopy, SubmitAt
  <1>2. CASE ~Exists(submit.file)
    <2>1. SubmitOnly /\ submit'.pc = "zip" /\ submit'.todo = submit.todo
      BY <1>1, <1>2 DEF ZipCopy, SubmitOnly, LogFilesTypeOK, SubmitTypeOK
    <2>. QED
      BY <1>1, <2>1, SubmitQuietArchiving
  <1>3. CASE Exists(submit.file)
    <2>1. PICK f \in Paths : f = submit.file /\ f \in DOMAIN files
      BY <1>3, SubmitFields DEF Exists
    <2>2. PICK recs \in Seq(Nat) : recs = files[f].recs
      BY <2>1, TypeOfFile
    <2>3. Put(As(f, "zip"), recs)
      BY <1>3, <2>1, <2>2 DEF ZipCopy
    <2>4. submit'.pc = "delete" /\ submit'.todo = submit.todo /\ submit'.file = f
      BY <1>3, <2>1 DEF ZipCopy, LogFilesTypeOK, SubmitTypeOK
    <2>5. ASSUME count.rolls = 0, count.submits <= 1
          PROVE  FirstSubmit' /\ RecordsIn(files, As(f, "zip")) = {}
      <3>1. /\ submit.todo \subseteq TxtNames /\ f \in TxtNames /\ f \notin submit.todo
            /\ \A g \in submit.todo : As(g, "zip") \notin DOMAIN files
            /\ cleaner.pc = "idle" /\ count.submits # 0
            /\ RecordsIn(files, As(f, "zip")) = {}
        BY <1>1, <2>1, <2>5 DEF ArchivingInv, FirstSubmit
      <3>2. PICK zip \in Names : /\ zip = As(f, "zip") /\ zip # f
                                 /\ \A g \in TxtNames : As(g, "zip") = zip => g = f
        BY <3>1, ArchiveNames
      <3>3. /\ DOMAIN files' = DOMAIN files \cup {zip} /\ files'[zip].recs = recs
            /\ \A g \in DOMAIN files : g # zip => files'[g] = files[g]
        BY <2>3, <3>2, PutOne
      <3>4. Landed(files', fate', f) \subseteq RecordsIn(files', zip)
        BY <2>1, <2>2, <3>2, <3>3 DEF Landed, RecordsIn
      <3>5. \A g \in submit.todo : As(g, "zip") \notin DOMAIN files'
        BY <3>1, <3>2, <3>3
      <3>6. FirstSubmit'
        BY <1>1, <2>4, <3>1, <3>2, <3>4, <3>5 DEF FirstSubmit
      <3>. QED
        BY <3>1, <3>6
    <2>6. FirstSubmit'
      BY <1>1, <2>5 DEF FirstSubmit
    <2>. QED
      BY <1>1, <2>3, <2>5, <2>6, ZipArchiving DEF AtMostAFailure
  <1>. QED
    BY <1>2, <1>3

\* The source is kept.
LEMMA ZipBreaksOffArchiving ==
    ASSUME LogFilesInv, ArchivingInv, ZipBreaksOff
    PROVE  ArchivingInv'
  <1>. LogFilesTypeOK /\ count \in CountType
    BY DEF LogFilesInv, LogFilesTypeOK
  <1>1. /\ submit.pc = "copy" /\ submit.pc # "idle" /\ AtMostAFailure
        /\ UNCHANGED <<now, appenderVars, cleaner, fate>>
    BY DEF ZipBreaksOff, SubmitAt, AtMostAFailure
  <1>2. /\ count'.rolls = count.rolls /\ count'.submits = count.submits
        /\ count'.backs = count.backs
    BY <1>1, FailureCounts
  <1>3. PICK f \in Paths : f = submit.file /\ f \in DOMAIN files
    BY SubmitFields DEF ZipBreaksOff, Exists
  <1>4. PICK n \in 0..Len(files[f].recs) : Put(As(f, "zip"), SubSeq(files[f].recs, 1, n))
    BY <1>3 DEF ZipBreaksOff
  <1>5. PICK recs \in Seq(Nat) : recs = SubSeq(files[f].recs, 1, n)
    BY <1>3, TypeOfFile, Beginning
  <1>6. Put(As(f, "zip"), recs)
    BY <1>4, <1>5
  <1>7. submit'.pc = "zip" /\ submit'.todo = submit.todo
    BY DEF ZipBreaksOff, LogFilesTypeOK, SubmitTypeOK
  <1>8. ASSUME count.rolls = 0, count.submits <= 1
        PROVE  FirstSubmit' /\ RecordsIn(files, As(f, "zip")) = {}
    <2>1. /\ submit.todo \subseteq TxtNames /\ f \in TxtNames /\ f \notin submit.todo
          /\ \A g \in submit.todo : As(g, "zip") \notin DOMAIN files
          /\ cleaner.pc = "idle" /\ count.submits # 0
          /\ RecordsIn(files, As(f, "zip")) = {}
      BY <1>1, <1>3, <1>8 DEF ArchivingInv, FirstSubmit
    <2>2. PICK zip \in Names : /\ zip = As(f, "zip") /\ zip # f
                               /\ \A g \in TxtNames : As(g, "zip") = zip => g = f
      BY <2>1, ArchiveNames
    <2>3. DOMAIN files' = DOMAIN files \cup {zip}
      BY <1>6, <2>2, PutOne
    <2>4. \A g \in submit.todo : As(g, "zip") \notin DOMAIN files'
      BY <2>1, <2>2, <2>3
    <2>5. FirstSubmit'
      BY <1>1, <1>2, <1>7, <2>1, <2>4 DEF FirstSubmit
    <2>. QED
      BY <2>1, <2>5
  <1>9. FirstSubmit'
    BY <1>2, <1>8 DEF FirstSubmit
  <1>. QED
    BY <1>1, <1>6, <1>8, <1>9, ZipArchiving

LEMMA ZipDeleteArchiving ==
    ASSUME LogFilesInv, ArchivingInv, ZipDelete
    PROVE  ArchivingInv'
  <1>. LogFilesTypeOK
    BY DEF LogFilesInv
  <1>1. /\ submit.pc = "delete" /\ submit.pc # "idle" /\ cleaner' = cleaner
        /\ Unlink(submit.file, "archived")
    BY DEF ZipDelete, SubmitAt
  <1>2. submit'.pc = "zip" /\ submit'.todo = submit.todo
    BY DEF ZipDelete, LogFilesTypeOK, SubmitTypeOK
  <1>3. /\ DOMAIN files' = DOMAIN files \ {submit.file} /\ CountsGrow
        /\ count'.rolls = count.rolls /\ count'.submits = count.submits
    BY <1>1, AfterUnlink
  <1>4. CleanerCopies' /\ ArchivesAreCopies' /\ FirstRun'
    BY <1>1, <1>3, SubmitIsRunning
  <1>5. CASE count.rolls = 0 /\ count.submits <= 1
    <2>1. /\ submit.todo \subseteq TxtNames /\ submit.file \in TxtNames
          /\ \A g \in submit.todo : As(g, "zip") \notin DOMAIN files
          /\ cleaner.pc = "idle" /\ count.submits # 0
          /\ Landed(files, fate, submit.file) \subseteq RecordsIn(files, As(submit.file, "zip"))
      BY <1>1, <1>5 DEF ArchivingInv, FirstSubmit
    <2>2. FirstSubmit'
      BY <1>1, <1>2, <1>3, <2>1 DEF FirstSubmit
    <2>3. PICK f \in TxtNames : f = submit.file
      BY <2>1
    <2>4. ArchivingKeeps'
      BY <1>1, <2>1, <2>3, ArchivedIsKept
    <2>. QED
      BY <1>4, <2>2, <2>4 DEF ArchivingInv
  <1>6. CASE ~(count.rolls = 0 /\ count.submits <= 1)
    <2>1. FirstSubmit'
      BY <1>3, <1>6 DEF FirstSubmit
    <2>2. ~OneArchiver'
      <3>1. ~OneArchiver
        BY <1>1, <1>6, SubmitIsRunning
      <3>. QED
        BY <1>3, <3>1, OneArchiverBefore DEF LogFilesTypeOK
    <2>. QED
      BY <1>4, <2>1, <2>2 DEF ArchivingInv, ArchivingKeeps, OneArchiver
  <1>. QED
    BY <1>5, <1>6

LEMMA SubmitArchiving ==
    ASSUME LogFilesInv, ArchivingInv, Submit
    PROVE  ArchivingInv'
  <1>. LogFilesTypeOK
    BY DEF LogFilesInv
  <1>1. CASE SelectList
    <2>1. SubmitOnly /\ submit.pc # "idle" /\ submit'.pc = "select"
      BY <1>1 DEF SelectList, SubmitAt, LogFilesTypeOK, SubmitTypeOK
    <2>. QED
      BY <2>1, SubmitQuietArchiving
  <1>2. CASE SelectEnd \/ SubmitFeedback
    <2>1. SubmitOnly /\ submit.pc # "idle" /\ submit'.pc \in {"flush", "done"}
      BY <1>2 DEF SelectEnd, SubmitFeedback, SubmitAt, LogFilesTypeOK, SubmitTypeOK
    <2>. QED
      BY <2>1, SubmitQuietArchiving
  <1>3. CASE SubmitReturn
    <2>1. SubmitOnly /\ submit.pc # "idle" /\ submit'.pc = "idle"
      BY <1>3 DEF SubmitReturn, SubmitAt, NoSubmit
    <2>. QED
      BY <2>1, SubmitQuietArchiving
  <1>4. ASSUME NEW f \in submit.todo, SelectItem(f)
        PROVE  ArchivingInv'
    <2>1. SubmitOnly /\ submit.pc = "select"
      BY <1>4 DEF SelectItem, SubmitAt
    <2>2. CASE submit' = [submit EXCEPT !.pc = "flush", !.todo = {}]
      <3>1. submit'.pc = "flush"
        BY <2>2 DEF LogFilesTypeOK, SubmitTypeOK
      <3>. QED
        BY <2>1, <3>1, SubmitQuietArchiving
    <2>3. CASE submit' = [submit EXCEPT !.todo = @ \ {f}, !.num = @ - 1,
                            !.result = Append(@, f),
                            !.sum = @ + (IF f.kind = "txt" THEN 0 ELSE Size(f))]
      <3>1. submit'.pc = "select"
        BY <2>1, <2>3 DEF LogFilesTypeOK, SubmitTypeOK
      <3>. QED
        BY <2>1, <3>1, SubmitQuietArchiving
    <2>. QED
      BY <1>4, <2>2, <2>3 DEF SelectItem
  <1>. QED
    BY <1>1, <1>2, <1>3, <1>4, SubmitLogArchiving, ZipOpenArchiving, ZipCopyArchiving,
       ZipBreaksOffArchiving, ZipDeleteArchiving DEF Submit

LEMMA ArchivingInit ==
    ASSUME Init
    PROVE  ArchivingInv
  <1>1. DOMAIN files = {}
    BY DEF Init
  <1>2. cleaner.pc = "idle" /\ submit.pc = "idle"
    BY DEF Init, Resting, NoSubmit
  <1>3. CleanerCopies /\ ArchivesAreCopies
    BY <1>1, <1>2 DEF CleanerCopies, ArchivesAreCopies, Compressing
  <1>4. FirstRun /\ FirstSubmit
    BY <1>1, <1>2 DEF FirstRun, FirstSubmit, Compressing
  <1>5. ArchivingKeeps
    BY DEF Init, ArchivingKeeps
  <1>. QED
    BY <1>3, <1>4, <1>5 DEF ArchivingInv

LEMMA ArchivingNext ==
    ASSUME LogFilesInv, ArchivingInv, [Next]_vars
    PROVE  ArchivingInv'
  <1>1. CASE Next
    BY <1>1, AppenderArchiving, DieArchiving, CleanerArchiving, SubmitArchiving DEF Next
  <1>2. CASE UNCHANGED vars
    <2>1. UNCHANGED <<now, files, cleaner, submit, fate, count>>
      BY <1>2 DEF vars
    <2>2. now' \in Nat /\ now' >= now
      BY <2>1, LogFilesAssumption DEF LogFilesInv, LogFilesTypeOK, Minutes
    <2>3. CountsGrow /\ FatesOnlyFall
      BY <2>1, NoneCounted DEF FatesOnlyFall
    <2>. QED
      BY <2>1, <2>2, <2>3, SameFiles
  <1>. QED
    BY <1>1, <1>2

\* A record that is written, unless behind an archiver that has read its file, stays
\* on the disk until it is too old or the directory too large, whatever the process
\* is in the middle of when it dies: for any number of runs of the cleaner while the
\* clock does not go back, for the first run whatever the clock does, and for the
\* first submitLog (LogCompress.compress, getLatestNLogsZip).
THEOREM ArchivingAlwaysKeeps == Spec => []ArchivingKeeps
  <1>1. Init => ArchivingInv
    BY ArchivingInit
  <1>2. LogFilesInv /\ ArchivingInv /\ [Next]_vars => ArchivingInv'
    BY ArchivingNext
  <1>3. ArchivingInv => ArchivingKeeps
    BY DEF ArchivingInv
  <1>. QED
    BY <1>1, <1>2, <1>3, LogFilesInvariant, PTL DEF Spec
-----------------------------------------------------------------------------
(* The current file                                                        *)

\* The first submitLog, while the cleaner and the clock leave the names alone.
Undisturbed == count.backs = 0 /\ count.rolls = 0
Full(f) == Exists(f) /\ FileSizeTooLarge(f)
WrittenBefore(f, g) ==
    /\ files[f].mtime <= files[g].mtime
    /\ \A i \in DOMAIN files[f].recs, j \in DOMAIN files[g].recs :
          files[f].recs[i] < files[g].recs[j]

\* Before it, the names of a minute are used in turn, each when the one before is
\* full, and the open file has the last.
NamesInTurn ==
    Undisturbed /\ count.submits = 0 =>
        /\ \A f \in DOMAIN files : files[f].mtime <= now
        /\ \A f \in DOMAIN files : \A i \in 0..(FilesPerMinute - 1) :
              i < f.idx => Full(Txt(f.min, i)) /\ WrittenBefore(Txt(f.min, i), f)
        /\ handle = "open" =>
              \A f \in DOMAIN files : f.min = lastPath.min => f.idx <= lastPath.idx

\* What it still deletes is not open, and not what the appender opens next: that
\* has room, or the last name of the minute.
Deleting == submit.todo \cup (IF submit.pc = "zip" THEN {} ELSE {submit.file})
DeletesOthers ==
    Undisturbed /\ count.submits <= 1 /\ submit.pc \in {"zip", "copy", "delete"} =>
        /\ Deleting \subseteq DOMAIN files
        /\ handle = "open" => lastPath \notin Deleting
        /\ \A f \in Deleting : f.min = now => Full(f) /\ f.idx < FilesPerMinute - 1

CurrentInv == NamesInTurn /\ DeletesOthers

LEMMA OneRunBefore ==
    ASSUME count \in CountType, CountsGrow
    PROVE  /\ Undisturbed' => Undisturbed
           /\ ~(count.rolls = 0 /\ count.submits <= 1) => CurrentInv'
  BY EarlierCounts DEF Undisturbed, CurrentInv, NamesInTurn, DeletesOthers, CountsGrow,
     CountType

LEMMA NobodyElse ==
    ASSUME ArchivingInv, Undisturbed, count.submits <= 1
    PROVE  /\ cleaner.pc = "idle"
           /\ count.submits = 0 => submit.pc = "idle" /\ DOMAIN files \subseteq TxtNames
  BY DEF ArchivingInv, FirstSubmit, Undisturbed

\* A text file is the name of its minute and index.
LEMMA TxtOf ==
    ASSUME NEW f \in TxtNames
    PROVE  /\ f = Txt(f.min, f.idx) /\ f.idx \in 0..(FilesPerMinute - 1) /\ f.idx \in Nat
           /\ \A i \in 0..(FilesPerMinute - 1) :
                 /\ Txt(f.min, i) \in TxtNames
                 /\ Txt(f.min, i).min = f.min /\ Txt(f.min, i).idx = i
  <1>1. FilesPerMinute \in Nat
    BY LogFilesAssumption
  <1>. QED
    BY <1>1 DEF TxtNames, Names, Txt

\* What MakeLogfilename chooses: the last name of the minute when there are files of
\* all names; otherwise the file before the first gap, if it has room; otherwise
\* the gap, after a file that is full.
LEMMA MadeName ==
    ASSUME LogFilesTypeOK
    PROVE  \E k \in 0..(FilesPerMinute - 1) :
              /\ MakeLogfilename = Txt(now, k)
              /\ \/ k = FilesPerMinute - 1 /\ Exists(Txt(now, k))
                 \/ /\ Exists(Txt(now, k)) /\ ~FileSizeTooLarge(Txt(now, k))
                    /\ k + 1 \in 0..(FilesPerMinute - 1) /\ ~Exists(Txt(now, k + 1))
                 \/ /\ ~Exists(Txt(now, k))
                    /\ \A i \in 0..(FilesPerMinute - 1) : i < k => Exists(Txt(now, i))
                    /\ k > 0 => FileSizeTooLarge(Txt(now, k - 1))
  <1>. DEFINE indices == 0..(FilesPerMinute - 1)
              free == {i \in indices : ~Exists(Txt(now, i))}
              first == CHOOSE i \in free : \A j \in free : i <= j
  <1>1. /\ FilesPerMinute \in Nat /\ FilesPerMinute > 0
        /\ FilesPerMinute - 1 \in indices
    BY LogFilesAssumption
  <1>4. MakeLogfilename =
          IF free = {} THEN Txt(now, FilesPerMinute - 1)
          ELSE IF first > 0 /\ ~FileSizeTooLarge(Txt(now, first - 1))
               THEN Txt(now, first - 1) ELSE Txt(now, first)
    BY DEF MakeLogfilename
  <1>5. CASE free = {}
    <2>1. MakeLogfilename = Txt(now, FilesPerMinute - 1)
      BY <1>4, <1>5
    <2>2. Exists(Txt(now, FilesPerMinute - 1))
      BY <1>1, <1>5
    <2>. QED
      BY <1>1, <2>1, <2>2
  <1>6. CASE free # {}
    <2>1. free \subseteq Nat /\ free \subseteq indices
      BY <1>1
    <2>2. \E i \in free : \A j \in free : i <= j
      BY <1>6, <2>1, LeastNumber
    <2>3. first \in free /\ \A j \in free : first <= j
      BY <2>2
    <2>4. PICK k \in indices : k = first /\ ~Exists(Txt(now, k))
      BY <2>3
    <2>5. ASSUME NEW i \in indices, i < k
          PROVE  Exists(Txt(now, i))
      <3>1. k \in Nat /\ i \in Nat
        BY <1>1
      <3>2. i \notin free
        BY <2>3, <2>4, <2>5, <3>1
      <3>. QED
        BY <3>2
    <2>6. CASE k > 0 /\ ~FileSizeTooLarge(Txt(now, k - 1))
      <3>1. PICK m \in indices : m = k - 1 /\ m + 1 = k /\ m < k
        BY <1>1, <2>6
      <3>2. MakeLogfilename = Txt(now, m) /\ ~FileSizeTooLarge(Txt(now, m))
        BY <1>4, <1>6, <2>4, <2>6, <3>1
      <3>3. Exists(Txt(now, m)) /\ m + 1 \in indices /\ ~Exists(Txt(now, m + 1))
        BY <2>4, <2>5, <3>1
      <3>. QED
        BY <3>2, <3>3
    <2>7. CASE ~(k > 0 /\ ~FileSizeTooLarge(Txt(now, k - 1)))
      <3>1. MakeLogfilename = Txt(now, k)
        BY <1>4, <1>6, <2>4, <2>7
      <3>. QED
        BY <2>4, <2>5, <2>7, <3>1
    <2>. QED
      BY <2>6, <2>7
  <1>. QED
    BY <1>5, <1>6

\* Steps that change no file and open none.
LEMMA SameNames ==
    ASSUME LogFilesInv, CurrentInv, files' = files, CountsGrow,
           submit' = submit \/ submit'.pc \notin {"zip", "copy", "delete"},
           now' \in Nat, now' >= now,
           handle' = "open" => handle = "open" /\ lastPath' = lastPath
    PROVE  CurrentInv'
  <1>. LogFilesTypeOK /\ count \in CountType /\ now \in Nat
    BY LogFilesAssumption DEF LogFilesInv, LogFilesTypeOK, Minutes
  <1>1. NamesInTurn'
    <2>. SUFFICES ASSUME Undisturbed', count'.submits = 0
                  PROVE  NamesInTurn'
      BY DEF NamesInTurn
    <2>1. Undisturbed /\ count.submits = 0
      BY OneRunBefore, EarlierCounts
    <2>2. \A f \in DOMAIN files : files[f].mtime <= now /\ files[f].mtime \in Nat
      BY <2>1, TypeOfFile DEF CurrentInv, NamesInTurn
    <2>3. \A f \in DOMAIN files : files[f].mtime <= now'
      BY <2>2
    <2>. QED
      BY <2>1, <2>3 DEF CurrentInv, NamesInTurn, Full, Exists, FileSizeTooLarge, WrittenBefore
  <1>2. DeletesOthers'
    <2>. SUFFICES ASSUME Undisturbed', count'.submits <= 1,
                         submit'.pc \in {"zip", "copy", "delete"}
                  PROVE  DeletesOthers'
      BY DEF DeletesOthers
    <2>1. Undisturbed /\ count.submits <= 1 /\ submit' = submit
      BY OneRunBefore, EarlierCounts
    <2>2. Deleting' = Deleting /\ Deleting \subseteq DOMAIN files /\ Deleting \subseteq InUse
      BY <2>1 DEF Deleting, CurrentInv, DeletesOthers, InUse
    <2>3. ASSUME NEW f \in Deleting, f.min = now'
          PROVE  f.min = now
      <3>1. f.min <= now
        BY <2>1, <2>2 DEF LogFilesInv, TimesOK, Undisturbed
      <3>. QED
        BY <2>3, <3>1
    <2>. QED
      BY <2>1, <2>2, <2>3 DEF CurrentInv, DeletesOthers, Full, Exists, FileSizeTooLarge
  <1>. QED
    BY <1>1, <1>2 DEF CurrentInv

\* Where the names were used in turn, the name that is made is the last of its
\* minute, and a new one comes after full ones.
LEMMA MadeInTurn ==
    ASSUME LogFilesInv, ArchivingInv, CurrentInv, Undisturbed, count.submits = 0
    PROVE  /\ \A f \in DOMAIN files : f.min = now => f.idx <= MakeLogfilename.idx
           /\ MakeLogfilename \notin DOMAIN files =>
                 \A i \in 0..(FilesPerMinute - 1) :
                    i < MakeLogfilename.idx => Full(Txt(now, i))
  <1>. LogFilesTypeOK /\ DOMAIN files \subseteq TxtNames
    BY NobodyElse DEF LogFilesInv
  <1>. DEFINE indices == 0..(FilesPerMinute - 1)
  <1>1. /\ FilesPerMinute \in Nat /\ FilesPerMinute > 0 /\ now \in Minutes
        /\ indices \subseteq Nat
    BY LogFilesAssumption DEF LogFilesTypeOK
  <1>2. PICK k \in indices :
           /\ MakeLogfilename = Txt(now, k)
           /\ \/ k = FilesPerMinute - 1 /\ Exists(Txt(now, k))
              \/ /\ Exists(Txt(now, k)) /\ ~FileSizeTooLarge(Txt(now, k))
                 /\ k + 1 \in indices /\ ~Exists(Txt(now, k + 1))
              \/ /\ ~Exists(Txt(now, k))
                 /\ \A i \in indices : i < k => Exists(Txt(now, i))
                 /\ k > 0 => FileSizeTooLarge(Txt(now, k - 1))
    BY MadeName
  <1>3. \A i \in indices : Txt(now, i).min = now /\ Txt(now, i).idx = i
    BY DEF Txt
  <1>4. \A f \in DOMAIN files : \A i \in indices : i < f.idx => Full(Txt(f.min, i))
    BY DEF CurrentInv, NamesInTurn
  <1>5. ASSUME NEW f \in DOMAIN files, f.min = now
        PROVE  f.idx <= MakeLogfilename.idx
    <2>1. f.idx \in indices /\ f = Txt(now, f.idx)
      BY <1>5, TxtOf
    <2>2. \A i \in indices : i < f.idx => Exists(Txt(now, i))
      BY <1>4, <1>5 DEF Full
    <2>3. MakeLogfilename.idx = k
      BY <1>2, <1>3
    <2>4. CASE k = FilesPerMinute - 1
      BY <1>1, <2>1, <2>3, <2>4
    <2>5. CASE k + 1 \in indices /\ ~Exists(Txt(now, k + 1))
      <3>1. PICK m \in indices : m = k + 1 /\ ~Exists(Txt(now, m))
        BY <2>5
      <3>2. f.idx # m /\ ~(m < f.idx)
        BY <2>1, <2>2, <3>1 DEF Exists
      <3>. QED
        BY <1>1, <2>1, <2>3, <3>1, <3>2
    <2>6. CASE ~Exists(Txt(now, k))
      <3>1. ~(k < f.idx)
        BY <2>2, <2>6
      <3>. QED
        BY <1>1, <2>1, <2>3, <3>1
    <2>. QED
      BY <1>2, <2>4, <2>5, <2>6
  <1>6. ASSUME MakeLogfilename \notin DOMAIN files, NEW i \in indices,
               i < MakeLogfilename.idx
        PROVE  Full(Txt(now, i))
    <2>1. MakeLogfilename.idx = k /\ ~Exists(Txt(now, k)) /\ i < k
      BY <1>2, <1>3, <1>6 DEF Exists
    <2>2. PICK m \in indices : m = k - 1
      BY <1>1, <2>1
    <2>3. Exists(Txt(now, m)) /\ FileSizeTooLarge(Txt(now, m))
      BY <1>1, <1>2, <2>1, <2>2
    <2>4. CASE i = m
      BY <2>3, <2>4 DEF Full
    <2>5. CASE i < m
      <3>1. PICK g \in DOMAIN files : g = Txt(now, m)
        BY <2>3 DEF Exists
      <3>2. g.min = now /\ g.idx = m
        BY <1>3, <3>1
      <3>. QED
        BY <1>4, <2>5, <3>2
    <2>. QED
      BY <1>1, <2>1, <2>2, <2>4, <2>5
  <1>. QED
    BY <1>5, <1>6

\* What a submitLog is about to delete is not what is opened next.
LEMMA MadeIsKept ==
    ASSUME LogFilesInv, DeletesOthers, Undisturbed, count.submits <= 1,
           submit.pc \in {"zip", "copy", "delete"}
    PROVE  MakeLogfilename \notin Deleting
  <1>. LogFilesTypeOK
    BY DEF LogFilesInv
  <1>1. FilesPerMinute \in Nat /\ FilesPerMinute > 0
    BY LogFilesAssumption
  <1>2. SUFFICES ASSUME MakeLogfilename \in Deleting
                 PROVE  FALSE
    OBVIOUS
  <1>3. PICK f : f = MakeLogfilename
    OBVIOUS
  <1>4. Exists(f) /\ (f.min = now => Full(f) /\ f.idx < FilesPerMinute - 1)
    BY <1>2, <1>3 DEF DeletesOthers, Exists
  <1>5. PICK k \in 0..(FilesPerMinute - 1) :
           /\ f = Txt(now, k)
           /\ \/ k = FilesPerMinute - 1
              \/ ~FileSizeTooLarge(Txt(now, k))
              \/ ~Exists(Txt(now, k))
    BY <1>3, MadeName
  <1>6. f.min = now /\ f.idx = k
    BY <1>5 DEF Txt
  <1>. QED
    BY <1>1, <1>4, <1>5, <1>6 DEF Full

LEMMA SameFile ==
    ASSUME NEW f, f \in DOMAIN files, f \in DOMAIN files', files'[f] = files[f]
    PROVE  /\ Full(f) <=> Full(f)'
           /\ \A g : (/\ g \in DOMAIN files /\ g \in DOMAIN files' /\ files'[g] = files[g]
                     /\ WrittenBefore(f, g)) => WrittenBefore(f, g)'
  <1>1. Full(f) <=> Full(f)'
    BY DEF Full, Exists, FileSizeTooLarge
  <1>2. ASSUME NEW g, files'[g] = files[g], WrittenBefore(f, g)
        PROVE  WrittenBefore(f, g)'
    BY <1>2 DEF WrittenBefore
  <1>. QED
    BY <1>1, <1>2

\* A file that is written is the last of its minute, and not one to be deleted.
LEMMA PutCurrent ==
    ASSUME LogFilesInv, LogFilesInv', CurrentInv, Undisturbed, count' = count, submit' = submit,
           now' = now, NEW path \in TxtNames, NEW recs \in Seq(Nat), Put(path, recs),
           count.submits = 0 =>
              /\ \A f \in DOMAIN files : f.min = path.min => f.idx <= path.idx
              /\ \A i \in 0..(FilesPerMinute - 1) : i < path.idx =>
                    /\ Full(Txt(path.min, i))
                    /\ \A a \in DOMAIN files[Txt(path.min, i)].recs, b \in DOMAIN recs :
                          files[Txt(path.min, i)].recs[a] < recs[b],
           path \notin Deleting \/ ~(count.submits <= 1 /\ submit.pc \in {"zip", "copy", "delete"}),
           handle' = "open" => lastPath' = path
    PROVE  CurrentInv'
  <1>. LogFilesTypeOK /\ path \in Names
    BY DEF LogFilesInv, TxtNames
  <1>1. /\ DOMAIN files' = DOMAIN files \cup {path} /\ files'[path].recs = recs
        /\ \A g \in DOMAIN files' : g # path => g \in DOMAIN files /\ files'[g] = files[g]
    BY PutOne
  <1>2. files'[path].mtime = now /\ now \in Nat
    BY LogFilesAssumption DEF Put, LogFilesTypeOK, Minutes
  <1>3. NamesInTurn'
    <2>. SUFFICES ASSUME count.submits = 0
                  PROVE  NamesInTurn'
      BY DEF NamesInTurn
    <2>1. /\ \A f \in DOMAIN files : files[f].mtime <= now
          /\ \A f \in DOMAIN files : \A i \in 0..(FilesPerMinute - 1) :
                i < f.idx => Full(Txt(f.min, i)) /\ WrittenBefore(Txt(f.min, i), f)
      BY DEF CurrentInv, NamesInTurn
    <2>2. \A f \in DOMAIN files' : files'[f].mtime <= now
      BY <1>1, <1>2, <2>1
    <2>3. ASSUME NEW f \in DOMAIN files', NEW i \in 0..(FilesPerMinute - 1), i < f.idx
          PROVE  Full(Txt(f.min, i))' /\ WrittenBefore(Txt(f.min, i), f)'
      <3>1. PICK g : g = Txt(f.min, i)
        OBVIOUS
      <3>2. g.idx = i /\ g.min = f.min
        BY <3>1 DEF Txt
      <3>3. CASE f = path
        <4>1. Full(g) /\ g \in DOMAIN files /\ g # path
          <5>1. path.idx \in Nat /\ i \in Nat
            BY TxtOf, LogFilesAssumption
          <5>2. Full(g)
            BY <2>3, <3>1, <3>3
          <5>. QED
            BY <2>3, <3>2, <3>3, <5>1, <5>2 DEF Full, Exists
        <4>2. files'[g] = files[g] /\ g \in DOMAIN files'
          BY <1>1, <4>1
        <4>3. \A a \in DOMAIN files[g].recs, b \in DOMAIN recs : files[g].recs[a] < recs[b]
          BY <2>3, <3>1, <3>3
        <4>4. WrittenBefore(g, f)'
          BY <1>1, <1>2, <2>1, <3>3, <4>1, <4>2, <4>3 DEF WrittenBefore
        <4>. QED
          BY <3>1, <4>1, <4>2, <4>4, SameFile
      <3>4. CASE f # path
        <4>1. f \in DOMAIN files /\ files'[f] = files[f]
          BY <1>1, <3>4
        <4>2. Full(g) /\ WrittenBefore(g, f) /\ g \in DOMAIN files
          BY <2>1, <2>3, <3>1, <4>1 DEF Full, Exists
        <4>3. g # path
          <5>1. f \in Names /\ path \in Names
            BY <4>1 DEF LogFilesTypeOK
          <5>2. f.idx \in Nat /\ i \in Nat
            BY <5>1, LogFilesAssumption DEF Names
          <5>. QED
            BY <2>3, <3>2, <4>1, <5>2
        <4>4. files'[g] = files[g] /\ g \in DOMAIN files'
          BY <1>1, <4>2, <4>3
        <4>. QED
          BY <3>1, <4>1, <4>2, <4>4, SameFile
      <3>. QED
        BY <3>3, <3>4
    <2>4. handle' = "open" =>
            \A f \in DOMAIN files' : f.min = lastPath'.min => f.idx <= lastPath'.idx
      <3>1. path.idx \in Nat
        BY TxtOf
      <3>. QED
        BY <1>1, <3>1
    <2>. QED
      BY <2>2, <2>3, <2>4 DEF NamesInTurn
  <1>4. DeletesOthers'
    <2>. SUFFICES ASSUME count.submits <= 1, submit.pc \in {"zip", "copy", "delete"}
                  PROVE  DeletesOthers'
      BY DEF DeletesOthers
    <2>1. /\ Deleting' = Deleting /\ Deleting \subseteq DOMAIN files
          /\ \A f \in Deleting : f.min = now => Full(f) /\ f.idx < FilesPerMinute - 1
      BY DEF Deleting, CurrentInv, DeletesOthers
    <2>2. \A f \in Deleting : f \in DOMAIN files' /\ files'[f] = files[f]
      BY <1>1, <2>1
    <2>3. \A f \in Deleting : Full(f) => Full(f)'
      BY <2>1, <2>2, SameFile
    <2>. QED
      BY <2>1, <2>2, <2>3 DEF DeletesOthers
  <1>. QED
    BY <1>3, <1>4 DEF CurrentInv

LEMMA OpenCurrent ==
    ASSUME LogFilesInv, LogFilesInv', ArchivingInv, CurrentInv, OpenLogFile
    PROVE  CurrentInv'
  <1>. LogFilesTypeOK /\ count \in CountType /\ now \in Nat
    BY LogFilesAssumption DEF LogFilesInv, LogFilesTypeOK, Minutes
  <1>0. now' = now /\ submit' = submit
    BY DEF OpenLogFile
  <1>1. CASE handle # "closed" /\ (lastPath = NoPath \/ ~FileSizeTooLarge(lastPath))
    <2>1. UNCHANGED <<files, handle, lastPath, count>>
      BY <1>1 DEF OpenLogFile
    <2>. QED
      BY <1>0, <2>1, NoneCounted, SameNames
  <1>2. CASE ~(handle # "closed" /\ (lastPath = NoPath \/ ~FileSizeTooLarge(lastPath)))
    <2>1. PICK path : path = PathToOpen
      OBVIOUS
    <2>2. /\ IF now < lastTime THEN UNCHANGED <<lastPath, lastTime>>
             ELSE lastPath' = path /\ lastTime' = now
          /\ \/ /\ path # NoPath /\ handle' = "open"
                /\ IF Exists(path) THEN UNCHANGED files ELSE Put(path, <<>>)
                /\ UNCHANGED count
             \/ /\ handle' = "closed" /\ UNCHANGED files
                /\ UNCHANGED count \/ Counted("fails")
      BY <1>2, <2>1 DEF OpenLogFile
    <2>3. /\ path \in TxtNames \cup {NoPath} /\ lastPath' = path
          /\ count.backs = 0 => path = MakeLogfilename /\ path # NoPath
      BY <2>1, <2>2, WhichPath
    <2>4. CASE /\ handle' = "closed" /\ UNCHANGED files
               /\ UNCHANGED count \/ Counted("fails")
      <3>1. CountsGrow
        BY <2>4, NoneCounted, CountedGrow
      <3>. QED
        BY <1>0, <2>4, <3>1, SameNames
    <2>5. CASE ~Undisturbed /\ count' = count
      BY <2>5 DEF CurrentInv, NamesInTurn, DeletesOthers, Undisturbed
    <2>6. CASE /\ Undisturbed /\ handle' = "open" /\ count' = count
               /\ IF Exists(path) THEN UNCHANGED files ELSE Put(path, <<>>)
      <3>1. path = MakeLogfilename /\ path \in TxtNames /\ path.min = now
        BY <2>3, <2>6, NameToOpen DEF Undisturbed
      <3>2. count.submits = 0 =>
               /\ \A f \in DOMAIN files : f.min = path.min => f.idx <= path.idx
               /\ ~Exists(path) => \A i \in 0..(FilesPerMinute - 1) :
                                      i < path.idx => Full(Txt(path.min, i))
        BY <2>6, <3>1, MadeInTurn DEF Exists
      <3>3. CASE ~Exists(path)
        <4>1. Put(path, <<>>) /\ <<>> \in Seq(Nat) /\ DOMAIN <<>> = {}
          BY <2>6, <3>3, EmptySeq
        <4>2. path \notin Deleting \/ ~(count.submits <= 1 /\ submit.pc \in {"zip", "copy", "delete"})
          BY <2>6, <3>1, MadeIsKept DEF CurrentInv
        <4>. QED
          BY <1>0, <2>3, <2>6, <3>1, <3>2, <3>3, <4>1, <4>2, PutCurrent
      <3>4. CASE Exists(path)
        <4>1. files' = files
          BY <2>6, <3>4
        <4>2. NamesInTurn'
          BY <1>0, <2>3, <2>6, <3>2, <4>1
             DEF CurrentInv, NamesInTurn, Undisturbed, Full, Exists, FileSizeTooLarge, WrittenBefore
        <4>3. DeletesOthers'
          <5>. SUFFICES ASSUME count.submits <= 1, submit.pc \in {"zip", "copy", "delete"}
                        PROVE  DeletesOthers'
            BY <1>0, <2>6 DEF DeletesOthers
          <5>1. path \notin Deleting /\ Deleting' = Deleting
            BY <1>0, <2>6, <3>1, MadeIsKept DEF CurrentInv, Deleting
          <5>. QED
            BY <1>0, <2>3, <2>6, <4>1, <5>1
               DEF CurrentInv, DeletesOthers, Full, Exists, FileSizeTooLarge
        <4>. QED
          BY <4>2, <4>3 DEF CurrentInv
      <3>. QED
        BY <3>3, <3>4
    <2>. QED
      BY <2>2, <2>4, <2>5, <2>6
  <1>. QED
    BY <1>1, <1>2

LEMMA WriteCurrent ==
    ASSUME LogFilesInv, LogFilesInv', ArchivingInv, CurrentInv, WriteFile
    PROVE  CurrentInv'
  <1>. LogFilesTypeOK /\ count \in CountType /\ now \in Nat
    BY LogFilesAssumption DEF LogFilesInv, LogFilesTypeOK, Minutes
  <1>1. /\ chunk # NoRecord
        /\ UNCHANGED <<now, handle, lastPath, submit>>
    BY DEF WriteFile
  <1>2. CASE UNCHANGED files /\ (UNCHANGED count \/ Counted("fails"))
    <2>1. CountsGrow
      BY <1>2, NoneCounted, CountedGrow
    <2>. QED
      BY <1>1, <1>2, <2>1, SameNames
  <1>3. CASE /\ handle = "open" /\ Put(lastPath, Append(files[lastPath].recs, chunk))
             /\ UNCHANGED count
    <2>1. CASE ~Undisturbed
      BY <1>3, <2>1 DEF CurrentInv, NamesInTurn, DeletesOthers, Undisturbed
    <2>2. CASE Undisturbed
      <3>1. lastPath \in DOMAIN files /\ lastPath \in TxtNames
        BY <1>3 DEF LogFilesInv, HandleOK, LogFilesTypeOK
      <3>2. PICK old \in Seq(Nat) : old = files[lastPath].recs
        BY <3>1, TypeOfFile
      <3>3. PICK recs \in Seq(Nat) : recs = Append(old, chunk)
        BY <3>2, AppendProperties DEF LogFilesTypeOK
      <3>4. /\ DOMAIN recs = 1..(Len(old) + 1) /\ Len(old) \in Nat /\ DOMAIN old = 1..Len(old)
            /\ recs[Len(old) + 1] = chunk /\ \A b \in 1..Len(old) : recs[b] = old[b]
        BY <3>2, <3>3, AppendProperties, LenProperties DEF LogFilesTypeOK
      <3>5. ASSUME count.submits = 0, NEW i \in 0..(FilesPerMinute - 1), i < lastPath.idx
            PROVE  LET g == Txt(lastPath.min, i)
                   IN  Full(g) /\ \A a \in DOMAIN files[g].recs, b \in DOMAIN recs :
                                     files[g].recs[a] < recs[b]
        <4>1. PICK g : g = Txt(lastPath.min, i)
          OBVIOUS
        <4>2. Full(g) /\ WrittenBefore(g, lastPath) /\ g \in DOMAIN files
          BY <2>2, <3>1, <3>5, <4>1 DEF CurrentInv, NamesInTurn, Full, Exists
        <4>3. ASSUME NEW a \in DOMAIN files[g].recs, NEW b \in DOMAIN recs
              PROVE  files[g].recs[a] < recs[b]
          <5>1. CASE b = Len(old) + 1
            BY <1>1, <3>4, <4>2, <5>1 DEF LogFilesInv, MemoryOK
          <5>2. CASE b \in 1..Len(old)
            BY <3>2, <3>4, <4>2, <5>2 DEF WrittenBefore
          <5>. QED
            BY <3>4, <5>1, <5>2
        <4>. QED
          BY <4>1, <4>2, <4>3
      <3>6. count.submits = 0 =>
              \A f \in DOMAIN files : f.min = lastPath.min => f.idx <= lastPath.idx
        BY <1>3, <2>2 DEF CurrentInv, NamesInTurn
      <3>7. lastPath \notin Deleting \/ ~(count.submits <= 1 /\ submit.pc \in {"zip", "copy", "delete"})
        BY <1>3, <2>2 DEF CurrentInv, DeletesOthers
      <3>8. Put(lastPath, recs)
        BY <1>3, <3>2, <3>3
      <3>. QED
        BY <1>1, <1>3, <2>2, <3>1, <3>5, <3>6, <3>7, <3>8, PutCurrent
    <2>. QED
      BY <2>1, <2>2
  <1>. QED
    BY <1>2, <1>3 DEF WriteFile

\* Of two files of a minute the later name comes first in the listing.
LEMMA LaterNameFirst ==
    ASSUME LogFilesInv, ArchivingInv, NamesInTurn, Undisturbed, count.submits = 0,
           NEW f \in DOMAIN files, NEW g \in DOMAIN files, f.min = g.min, f.idx < g.idx
    PROVE  Full(f) /\ Before(g, f)
  <1>. LogFilesTypeOK /\ DOMAIN files \subseteq TxtNames
    BY NobodyElse DEF LogFilesInv
  <1>1. Full(f) /\ WrittenBefore(f, g)
    BY TxtOf DEF NamesInTurn
  <1>2. PICK s \in Seq(Nat), t \in Seq(Nat) : s = files[f].recs /\ t = files[g].recs
    BY TypeOfFile
  <1>3. files[f].mtime \in Nat /\ files[g].mtime \in Nat
    BY TypeOfFile
  <1>4. s # <<>> /\ Len(s) \in DOMAIN s
    <2>1. Len(s) > MaxFileSize /\ MaxFileSize \in Nat
      BY <1>1, <1>2, LogFilesAssumption DEF Full, Exists, FileSizeTooLarge
    <2>2. Len(s) \in Nat /\ DOMAIN s = 1..Len(s) /\ (s = <<>> => Len(s) = 0)
      BY LenProperties
    <2>. QED
      BY <2>1, <2>2
  <1>5. t # <<>> => Last(t) > Last(s)
    <2>. SUFFICES ASSUME t # <<>>
                  PROVE  Last(t) > Last(s)
      OBVIOUS
    <2>1. Len(t) \in DOMAIN t
      <3>1. Len(t) \in Nat /\ DOMAIN t = 1..Len(t) /\ Len(t) # 0
        BY LenProperties, EmptySeq
      <3>. QED
        BY <3>1
    <2>2. s[Len(s)] < t[Len(t)]
      BY <1>1, <1>2, <1>4, <2>1 DEF WrittenBefore
    <2>3. s[Len(s)] \in Nat /\ t[Len(t)] \in Nat
      BY <1>4, <2>1, ElementOfSeq, LenProperties
    <2>. QED
      BY <2>2, <2>3 DEF Last
  <1>6. files[f].mtime < files[g].mtime \/ files[f].mtime = files[g].mtime
    BY <1>1, <1>3 DEF WrittenBefore
  <1>. QED
    BY <1>1, <1>2, <1>3, <1>4, <1>5, <1>6 DEF Before

LEMMA SubmitLogCurrent ==
    ASSUME LogFilesInv, ArchivingInv, CurrentInv, NEW num \in Nums, SubmitLog(num)
    PROVE  CurrentInv'
  <1>. LogFilesTypeOK /\ count \in CountType /\ now \in Nat
    BY LogFilesAssumption DEF LogFilesInv, LogFilesTypeOK, Minutes
  <1>1. /\ UNCHANGED <<now, files, handle, lastPath>> /\ Counted("submits")
    BY DEF SubmitLog, appenderVars
  <1>2. CountsGrow /\ count'.submits = count.submits + 1 /\ count.submits \in Nat
    BY <1>1, CountedGrow, CountedOne DEF CountType
  <1>3. NamesInTurn'
    BY <1>2 DEF NamesInTurn
  <1>4. DeletesOthers'
    <2>. SUFFICES ASSUME Undisturbed', count'.submits <= 1
                  PROVE  DeletesOthers'
      BY DEF DeletesOthers
    <2>1. Undisturbed /\ count.submits = 0 /\ count.submits <= 1
      BY <1>2, OneRunBefore
    <2>2. DOMAIN files \subseteq TxtNames /\ TextFiles = DOMAIN files
      BY <2>1, NobodyElse DEF TextFiles, TxtNames
    <2>3. PICK skipped :
             /\ skipped \in IF TextFiles = {} THEN {NoPath} ELSE FirstText
             /\ submit' = [NoSubmit EXCEPT !.pc = "zip", !.num = num, !.mark = logged,
                             !.todo = TextFiles \ {skipped}]
      BY DEF SubmitLog
    <2>4. Deleting' = DOMAIN files \ {skipped}
      BY <2>2, <2>3 DEF Deleting, NoSubmit
    <2>5. ASSUME NEW f \in Deleting'
          PROVE  /\ f \in DOMAIN files /\ skipped \in DOMAIN files
                 /\ f # skipped /\ ~Before(f, skipped)
                 /\ f.min \in Nat /\ skipped.min \in Nat /\ skipped.min <= now
                 /\ f.idx \in Nat /\ skipped.idx \in 0..(FilesPerMinute - 1)
                 /\ (f.min = skipped.min => f.idx # skipped.idx)
      <3>1. f \in DOMAIN files /\ f # skipped
        BY <2>4
      <3>2. skipped \in FirstText
        BY <2>2, <2>3, <3>1
      <3>3. skipped \in DOMAIN files /\ ~Before(f, skipped)
        BY <2>2, <3>1, <3>2 DEF FirstText
      <3>4. f \in TxtNames /\ skipped \in TxtNames
        BY <2>2, <3>1, <3>3
      <3>5. skipped.min <= now
        BY <2>1, <3>3 DEF LogFilesInv, TimesOK, InUse, Undisturbed
      <3>6. f.min \in Nat /\ skipped.min \in Nat
        BY <3>4, PathFields DEF TxtNames, Paths
      <3>. QED
        BY <3>1, <3>3, <3>4, <3>5, <3>6, TxtOf
    <2>6. ASSUME NEW f \in Deleting'
          PROVE  /\ f.min <= skipped.min
                 /\ f.min = skipped.min => Full(f) /\ f.idx < skipped.idx
      <3>1. f.min <= skipped.min
        BY <2>5 DEF Before
      <3>2. ASSUME f.min = skipped.min
            PROVE  Full(f) /\ f.idx < skipped.idx
        <4>1. CASE f.idx > skipped.idx
          BY <2>1, <2>5, <3>2, <4>1, LaterNameFirst DEF CurrentInv
        <4>2. CASE f.idx < skipped.idx
          BY <2>1, <2>5, <3>2, <4>2, LaterNameFirst DEF CurrentInv
        <4>. QED
          BY <2>5, <3>2, <4>1, <4>2
      <3>. QED
        BY <3>1, <3>2
    <2>7. ASSUME handle = "open"
          PROVE  lastPath \notin Deleting'
      <3>. SUFFICES ASSUME lastPath \in Deleting'
                    PROVE  FALSE
        OBVIOUS
      <3>1. skipped.min <= lastPath.min
        BY <2>1, <2>5, <2>7 DEF LogFilesInv, TimesOK, InUse, Undisturbed
      <3>2. lastPath.min = skipped.min
        BY <2>5, <2>6, <3>1
      <3>3. skipped.idx <= lastPath.idx
        BY <2>1, <2>5, <2>7, <3>2 DEF CurrentInv, NamesInTurn
      <3>. QED
        BY <2>5, <2>6, <3>2, <3>3
    <2>8. ASSUME NEW f \in Deleting', f.min = now
          PROVE  Full(f)' /\ f.idx < FilesPerMinute - 1
      <3>1. Full(f) /\ f.idx < skipped.idx
        BY <2>5, <2>6, <2>8
      <3>2. Full(f)'
        BY <1>1, <3>1 DEF Full, Exists, FileSizeTooLarge
      <3>. QED
        BY <2>5, <3>1, <3>2, LogFilesAssumption
    <2>. QED
      BY <1>1, <2>4, <2>7, <2>8 DEF DeletesOthers
  <1>. QED
    BY <1>3, <1>4 DEF CurrentInv

\* Of what it was to delete, some is left.
LEMMA DeletingShrinks ==
    ASSUME LogFilesInv, ArchivingInv, CurrentInv, submit.pc \in {"zip", "copy", "delete"},
           CountsGrow, count'.submits = count.submits,
           now' = now, lastPath' = lastPath, handle' = "open" => handle = "open",
           Undisturbed /\ count.submits <= 1 /\ submit'.pc \in {"zip", "copy", "delete"} =>
              /\ Deleting' \subseteq Deleting
              /\ \A f \in Deleting' : f \in DOMAIN files' /\ files'[f] = files[f]
    PROVE  CurrentInv'
  <1>. count \in CountType
    BY DEF LogFilesInv, LogFilesTypeOK
  <1>1. NamesInTurn'
    BY SubmitIsRunning DEF NamesInTurn, ArchivingInv, CleanerCopies
  <1>2. DeletesOthers'
    <2>. SUFFICES ASSUME Undisturbed', count.submits <= 1,
                         submit'.pc \in {"zip", "copy", "delete"}
                  PROVE  DeletesOthers'
      BY DEF DeletesOthers
    <2>1. Undisturbed
      BY OneRunBefore
    <2>2. /\ Deleting' \subseteq DOMAIN files' /\ Deleting' \subseteq Deleting
          /\ Deleting \subseteq DOMAIN files
      BY <2>1 DEF CurrentInv, DeletesOthers
    <2>3. \A f \in Deleting' : Full(f) => Full(f)'
      BY <2>1, <2>2, SameFile
    <2>. QED
      BY <2>1, <2>2, <2>3 DEF CurrentInv, DeletesOthers
  <1>. QED
    BY <1>1, <1>2 DEF CurrentInv

LEMMA ZipCurrent ==
    ASSUME LogFilesInv, ArchivingInv, CurrentInv, NEW f \in Paths, NEW recs \in Seq(Nat),
           Put(As(f, "zip"), recs), submit.pc \in {"zip", "copy", "delete"},
           Deleting' \subseteq Deleting,
           UNCHANGED <<now, appenderVars>>, AtMostAFailure
    PROVE  CurrentInv'
  <1>. LogFilesTypeOK /\ count \in CountType
    BY DEF LogFilesInv, LogFilesTypeOK
  <1>1. PICK zip \in Names : zip = As(f, "zip") /\ zip.kind = "zip"
    BY NameOfArchive
  <1>2. Put(zip, recs)
    BY <1>1
  <1>3. /\ DOMAIN files' = DOMAIN files \cup {zip}
        /\ \A g \in DOMAIN files' : g # zip => files'[g] = files[g]
    BY <1>2, PutOne
  <1>4. ASSUME Undisturbed, count.submits <= 1, NEW g \in Deleting'
        PROVE  g \in DOMAIN files' /\ files'[g] = files[g]
    <2>1. g \in DOMAIN files
      BY <1>4 DEF CurrentInv, DeletesOthers
    <2>2. g \in TxtNames
      BY <1>4 DEF Deleting, ArchivingInv, FirstSubmit, Undisturbed
    <2>. QED
      BY <1>1, <1>3, <2>1, <2>2 DEF TxtNames
  <1>5. CountsGrow /\ count'.submits = count.submits
    BY FailureCounts, FailuresGrow
  <1>. QED
    BY <1>4, <1>5, DeletingShrinks DEF appenderVars

LEMMA ZipOpenCurrent ==
    ASSUME LogFilesInv, ArchivingInv, CurrentInv, NEW f \in submit.todo, ZipOpen(f)
    PROVE  CurrentInv'
  <1>. LogFilesTypeOK
    BY DEF LogFilesInv
  <1>1. submit.pc = "zip" /\ f \in Paths /\ <<>> \in Seq(Nat)
    BY SubmitFields, EmptySeq DEF ZipOpen, SubmitAt, Paths
  <1>2. submit'.pc = "copy" /\ submit'.file = f /\ submit'.todo = submit.todo \ {f}
    BY DEF ZipOpen, LogFilesTypeOK, SubmitTypeOK
  <1>3. Deleting' \subseteq Deleting
    BY <1>1, <1>2 DEF Deleting
  <1>. QED
    BY <1>1, <1>3, ZipCurrent DEF ZipOpen, AtMostAFailure

LEMMA ZipCopyCurrent ==
    ASSUME LogFilesInv, ArchivingInv, CurrentInv, ZipCopy
    PROVE  CurrentInv'
  <1>. LogFilesTypeOK /\ count \in CountType
    BY DEF LogFilesInv, LogFilesTypeOK
  <1>1. submit.pc = "copy" /\ submit.file \in Paths /\ UNCHANGED <<now, appenderVars, count>>
    BY SubmitFields DEF ZipCopy, SubmitAt
  <1>2. CASE Exists(submit.file)
    <2>1. submit'.pc = "delete" /\ submit'.file = submit.file /\ submit'.todo = submit.todo
      BY <1>2 DEF ZipCopy, LogFilesTypeOK, SubmitTypeOK
    <2>2. Deleting' \subseteq Deleting
      BY <1>1, <2>1 DEF Deleting
    <2>3. files[submit.file].recs \in Seq(Nat)
      BY <1>2, TypeOfFile DEF Exists
    <2>. QED
      BY <1>1, <1>2, <2>2, <2>3, ZipCurrent DEF ZipCopy, AtMostAFailure
  <1>3. CASE ~Exists(submit.file)
    <2>1. submit'.pc = "zip" /\ submit'.todo = submit.todo /\ files' = files
      BY <1>3 DEF ZipCopy, LogFilesTypeOK, SubmitTypeOK
    <2>2. Deleting' \subseteq Deleting
      BY <1>1, <2>1 DEF Deleting
    <2>3. Undisturbed /\ count.submits <= 1 =>
             \A g \in Deleting' : g \in DOMAIN files' /\ files'[g] = files[g]
      BY <1>1, <2>1, <2>2 DEF CurrentInv, DeletesOthers
    <2>4. CountsGrow /\ count'.submits = count.submits
      BY <1>1, NoneCounted
    <2>. QED
      BY <1>1, <2>2, <2>3, <2>4, DeletingShrinks DEF appenderVars
  <1>. QED
    BY <1>2, <1>3

LEMMA ZipBreaksOffCurrent ==
    ASSUME LogFilesInv, ArchivingInv, CurrentInv, ZipBreaksOff
    PROVE  CurrentInv'
  <1>. LogFilesTypeOK
    BY DEF LogFilesInv
  <1>1. /\ submit.pc = "copy" /\ submit.file \in Paths /\ AtMostAFailure
        /\ UNCHANGED <<now, appenderVars>> /\ submit.file \in DOMAIN files
    BY SubmitFields DEF ZipBreaksOff, SubmitAt, AtMostAFailure, Exists
  <1>2. submit'.pc = "zip" /\ submit'.todo = submit.todo
    BY DEF ZipBreaksOff, LogFilesTypeOK, SubmitTypeOK
  <1>3. Deleting' \subseteq Deleting
    BY <1>1, <1>2 DEF Deleting
  <1>4. PICK n \in 0..Len(files[submit.file].recs) :
           Put(As(submit.file, "zip"), SubSeq(files[submit.file].recs, 1, n))
    BY DEF ZipBreaksOff
  <1>5. PICK recs \in Seq(Nat) : recs = SubSeq(files[submit.file].recs, 1, n)
    BY <1>1, TypeOfFile, Beginning
  <1>. QED
    BY <1>1, <1>3, <1>4, <1>5, ZipCurrent

LEMMA ZipDeleteCurrent ==
    ASSUME LogFilesInv, ArchivingInv, CurrentInv, ZipDelete
    PROVE  CurrentInv'
  <1>. LogFilesTypeOK /\ count \in CountType
    BY DEF LogFilesInv, LogFilesTypeOK
  <1>1. submit.pc = "delete" /\ Unlink(submit.file, "archived")
    BY DEF ZipDelete, SubmitAt
  <1>2. submit'.pc = "zip" /\ submit'.todo = submit.todo
    BY DEF ZipDelete, LogFilesTypeOK, SubmitTypeOK
  <1>3. /\ files' = [g \in DOMAIN files \ {submit.file} |-> files[g]]
        /\ now' = now /\ lastPath' = lastPath /\ (handle' = "open" => handle = "open")
        /\ UNCHANGED count \/ Counted("unlinks")
    BY <1>1 DEF Unlink
  <1>4. CountsGrow /\ count'.submits = count.submits
    BY <1>3, NoneCounted, CountedGrow DEF Counted, CountType
  <1>5. Deleting' \subseteq Deleting
    BY <1>1, <1>2 DEF Deleting
  <1>6. ASSUME Undisturbed, count.submits <= 1, NEW g \in Deleting'
        PROVE  g \in DOMAIN files' /\ files'[g] = files[g]
    <2>1. g \in DOMAIN files
      BY <1>1, <1>5, <1>6 DEF CurrentInv, DeletesOthers
    <2>2. g # submit.file
      BY <1>1, <1>2, <1>6 DEF Deleting, ArchivingInv, FirstSubmit, Undisturbed
    <2>. QED
      BY <1>3, <2>1, <2>2
  <1>. QED
    BY <1>1, <1>3, <1>4, <1>5, <1>6, DeletingShrinks

LEMMA SubmitCurrent ==
    ASSUME LogFilesInv, LogFilesInv', ArchivingInv, CurrentInv, Submit
    PROVE  CurrentInv'
  <1>. LogFilesTypeOK /\ count \in CountType /\ now \in Nat
    BY LogFilesAssumption DEF LogFilesInv, LogFilesTypeOK, Minutes
  <1>1. ASSUME SubmitOnly, submit'.pc \notin {"zip", "copy", "delete"}
        PROVE  CurrentInv'
    BY <1>1, NoneCounted, SameNames DEF SubmitOnly, appenderVars
  <1>2. CASE SelectList \/ SelectEnd \/ SubmitFeedback \/ SubmitReturn
    <2>1. submit'.pc \in {"select", "flush", "done", "idle"}
      <3>1. SelectList => submit'.pc = "select"
        BY DEF SelectList, LogFilesTypeOK, SubmitTypeOK
      <3>2. SelectEnd => submit'.pc = "flush"
        BY DEF SelectEnd, LogFilesTypeOK, SubmitTypeOK
      <3>3. SubmitFeedback => submit'.pc = "done"
        BY DEF SubmitFeedback, LogFilesTypeOK, SubmitTypeOK
      <3>4. SubmitReturn => submit'.pc = "idle"
        BY DEF SubmitReturn, NoSubmit
      <3>. QED
        BY <1>2, <3>1, <3>2, <3>3, <3>4
    <2>2. SubmitOnly
      BY <1>2 DEF SelectList, SelectEnd, SubmitFeedback, SubmitReturn
    <2>. QED
      BY <1>1, <2>1, <2>2
  <1>3. ASSUME NEW f \in submit.todo, SelectItem(f)
        PROVE  CurrentInv'
    <2>1. SubmitOnly /\ submit'.pc \notin {"zip", "copy", "delete"}
      BY <1>3 DEF SelectItem, SubmitAt, LogFilesTypeOK, SubmitTypeOK
    <2>. QED
      BY <1>1, <2>1
  <1>. QED
    BY <1>2, <1>3, SubmitLogCurrent, ZipOpenCurrent, ZipCopyCurrent, ZipBreaksOffCurrent,
       ZipDeleteCurrent DEF Submit

\* The cleaner has run when it does anything.
LEMMA CleanerCurrent ==
    ASSUME LogFilesInv, ArchivingInv, CurrentInv, Cleaner
    PROVE  CurrentInv'
  <1>. LogFilesTypeOK /\ count \in CountType
    BY DEF LogFilesInv, LogFilesTypeOK
  <1>1. CASE RollCacheLogs
    <2>1. Counted("rolls") /\ count'.rolls = count.rolls + 1 /\ count.rolls \in Nat
      BY <1>1, CountedOne DEF RollCacheLogs, CountType
    <2>. QED
      BY <2>1 DEF CurrentInv, NamesInTurn, DeletesOthers, Undisturbed
  <1>2. CASE ~RollCacheLogs
    <2>1. cleaner.pc # "idle"
      BY <1>2 DEF Cleaner, CleanerAt, CompressRead, CompressBreaksOff, CompressThrows,
                  RenameZip, RenameTo, RenameToFails, DeleteSource, OverflowCallback, RollEnd
    <2>2. UNCHANGED count \/ Counted("unlinks") \/ Counted("fails")
      BY <1>2 DEF Cleaner, CompressRead, CompressBreaksOff, CompressThrows, RenameZip,
                  RenameTo, RenameToFails, DeleteSource, OverflowCallback, RollEnd,
                  RollDelete, RollKeep, RollCompress, OverflowItem, Unlink, CleanerOnly
    <2>3. CountsGrow
      BY <2>2, NoneCounted, CountedGrow
    <2>4. ~(count.rolls = 0 /\ count.submits <= 1)
      BY <2>1 DEF ArchivingInv, FirstSubmit
    <2>. QED
      BY <2>3, <2>4, OneRunBefore
  <1>. QED
    BY <1>1, <1>2

LEMMA CurrentNext ==
    ASSUME LogFilesInv, LogFilesInv', ArchivingInv, CurrentInv, [Next]_vars
    PROVE  CurrentInv'
  <1>. LogFilesTypeOK /\ count \in CountType /\ now \in Nat
    BY LogFilesAssumption DEF LogFilesInv, LogFilesTypeOK, Minutes
  <1>1. CASE Tick
    <2>1. UNCHANGED <<files, handle, lastPath, submit, count>> /\ now' = now + 1
      BY <1>1 DEF Tick, appenderVars
    <2>2. now' \in Nat /\ now' >= now /\ CountsGrow
      BY <2>1, NoneCounted
    <2>. QED
      BY <2>1, <2>2, SameNames
  <1>2. CASE SetBack
    <2>1. Counted("backs") /\ count'.backs = count.backs + 1 /\ count.backs \in Nat
      BY <1>2, CountedOne DEF SetBack, CountType
    <2>. QED
      BY <2>1 DEF CurrentInv, NamesInTurn, DeletesOthers, Undisturbed
  <1>3. CASE Log \/ CloseLogFile
    <2>1. /\ UNCHANGED <<now, files, submit, count>>
          /\ handle' = "open" => handle = "open" /\ lastPath' = lastPath
      BY <1>3 DEF Log, CloseLogFile
    <2>. QED
      BY <2>1, NoneCounted, SameNames
  <1>4. CASE Die
    <2>1. /\ UNCHANGED <<now, files>> /\ Counted("deaths") /\ handle' # "open"
          /\ submit'.pc \notin {"zip", "copy", "delete"}
      BY <1>4 DEF Die, NoSubmit
    <2>. QED
      BY <2>1, CountedGrow, SameNames
  <1>5. CASE UNCHANGED vars
    <2>1. UNCHANGED <<now, files, handle, lastPath, submit, count>>
      BY <1>5 DEF vars, appenderVars
    <2>. QED
      BY <2>1, NoneCounted, SameNames
  <1>. QED
    BY <1>1, <1>2, <1>3, <1>4, <1>5, OpenCurrent, WriteCurrent, CleanerCurrent, SubmitCurrent
       DEF Next, Appender

LEMMA CurrentInit ==
    ASSUME Init
    PROVE  CurrentInv
  <1>1. DOMAIN files = {} /\ handle = "closed" /\ submit.pc = "idle"
    BY DEF Init, NoSubmit
  <1>. QED
    BY <1>1 DEF CurrentInv, NamesInTurn, DeletesOthers

\* Only a deletion takes the name from the open file.
LEMMA WhoUnlinks ==
    ASSUME LogFilesInv, ArchivingInv, [Next]_vars, handle = "open", handle' = "ghost",
           Undisturbed, count.submits <= 1
    PROVE  ZipDelete /\ submit.pc = "delete" /\ lastPath = submit.file
  <1>1. cleaner.pc = "idle"
    BY NobodyElse
  <1>2. ~Cleaner
    <2>1. CASE RollCacheLogs
      BY <2>1 DEF RollCacheLogs, appenderVars
    <2>. QED
      BY <1>1, <2>1 DEF Cleaner, CleanerAt, CompressRead, CompressBreaksOff, CompressThrows,
                  RenameZip, RenameTo, RenameToFails, DeleteSource, OverflowCallback, RollEnd
  <1>3. ~(Tick \/ SetBack \/ Appender \/ Die \/ UNCHANGED vars)
    BY DEF Tick, SetBack, Appender, Log, OpenLogFile, WriteFile, CloseLogFile, Die, vars,
           appenderVars
  <1>4. Submit
    BY <1>2, <1>3 DEF Next
  <1>5. ZipDelete
    BY <1>4 DEF Submit, SubmitLog, ZipOpen, ZipCopy, ZipBreaksOff, SelectList, SelectItem, SelectEnd,
                SubmitFeedback, SubmitReturn, SubmitOnly, appenderVars
  <1>. QED
    BY <1>5 DEF ZipDelete, SubmitAt, Unlink

\* Whatever the appender opens and closes meanwhile, and whenever the process died
\* before: the first submitLog does not delete the file that is being written
\* (getLatestNLogsZip).
THEOREM SubmitAlwaysKeepsCurrent == Spec => SubmitKeepsCurrent
  <1>1. Init => ArchivingInv /\ CurrentInv
    BY ArchivingInit, CurrentInit
  <1>2. LogFilesInv /\ LogFilesInv' /\ ArchivingInv /\ CurrentInv /\ [Next]_vars
          => ArchivingInv' /\ CurrentInv'
    BY ArchivingNext, CurrentNext
  <1>3. LogFilesInv /\ ArchivingInv /\ CurrentInv /\ [Next]_vars =>
          [(/\ SubmitAt("delete") /\ ~SubmitAt("delete")'
            /\ count.backs + count.rolls = 0 /\ count.submits <= 1)
             => ~(handle = "open" /\ handle' = "ghost")]_vars
    <2>. SUFFICES ASSUME LogFilesInv, ArchivingInv, CurrentInv, [Next]_vars,
                         count.backs + count.rolls = 0, count.submits <= 1,
                         handle = "open", handle' = "ghost"
                  PROVE  FALSE
      OBVIOUS
    <2>1. count.backs \in Nat /\ count.rolls \in Nat
      BY DEF LogFilesInv, LogFilesTypeOK, CountType
    <2>2. Undisturbed
      BY <2>1 DEF Undisturbed
    <2>3. submit.pc = "delete" /\ lastPath = submit.file
      BY <2>2, WhoUnlinks
    <2>. QED
      BY <2>2, <2>3 DEF CurrentInv, DeletesOthers, Deleting
  <1>. QED
    BY <1>1, <1>2, <1>3, LogFilesInvariant, PTL DEF Spec, SubmitKeepsCurrent
=============================================================================
