--------------------------- MODULE AppenderProofs ---------------------------
(* Theorems about Appender, for every set of callers, whatever they call,  *)
(* every capacity and every bound: its records are in one place, it        *)
(* implements DurableLog, and it keeps their order.                        *)
EXTENDS Appender, SequenceTheorems, TLAPS

-----------------------------------------------------------------------------
(* The variables keep their types.                                         *)

LEMMA RecordTypes ==
    /\ \A m \in Marks : Mark(m) \in Record
    /\ \A t : KindOf(t) \in Kinds
    /\ \A n \in Nat, k \in Kinds : [id |-> n, kind |-> k] \in Record
  BY DEF Mark, Marks, Record, KindOf, Kinds

LEMMA IdsType == ASSUME NEW s \in Seq(Record) PROVE Ids(s) \subseteq Nat
  <1>1. \A i \in DOMAIN s : s[i] \in Record
    BY ElementOfSeq, LenProperties
  <1>. QED
    BY <1>1 DEF Ids, Record

LEMMA InFlightType == ASSUME RecordsOK PROVE InFlight \subseteq Nat
  BY IdsType DEF RecordsOK, InFlight

LEMMA PrefixType ==
    ASSUME NEW s \in Seq(Record), NEW n \in 0..Len(s)
    PROVE  SubSeq(s, 1, n) \in Seq(Record)
  <1>1. \A i \in 1..n : s[i] \in Record
    BY ElementOfSeq, LenProperties
  <1>. QED
    BY <1>1, SubSeqProperties, LenProperties

LEMMA TypeInit == Init => TypeOK
  <1> SUFFICES ASSUME Init PROVE TypeOK
    OBVIOUS
  <1>1. ControlOK
    BY DEF Init, ControlOK, Labels, WorkerLabels
  <1>2. RecordsOK
    BY EmptySeq DEF Init, RecordsOK
  <1>3. HistoryOK
    BY DEF Init, HistoryOK
  <1>. QED
    BY <1>1, <1>2, <1>3 DEF TypeOK

LEMMA GotoType ==
    ASSUME NEW t \in Callers, NEW label \in Labels, ControlOK, Goto(t, label)
    PROVE  pc' \in [Callers -> Labels] /\ job' \in [Callers -> Operations \cup {"none"}]
  BY DEF ControlOK, Goto

LEMMA CallType ==
    ASSUME NEW t \in Callers, NEW op \in Operations, NEW label \in Labels, ControlOK,
           Call(t, op, label)
    PROVE  pc' \in [Callers -> Labels] /\ job' \in [Callers -> Operations \cup {"none"}]
  BY DEF ControlOK, Call

LEMMA LogToFileType ==
    ASSUME RecordsOK, HistoryOK, NEW data \in Seq(Record), LogToFile(data)
    PROVE  /\ file' \in Seq(Record)
           /\ lost' \in [close : SUBSET Nat, crash : SUBSET Nat, write : SUBSET Nat]
           /\ used' \in [logs : Nat, opens : Nat, crashes : Nat, fails : Nat]
  <1>1. CASE file' = file \o data /\ UNCHANGED <<lost, used>>
    BY <1>1, ConcatProperties DEF RecordsOK, HistoryOK
  <1>2. CASE /\ used' = [used EXCEPT !.fails = @ + 1]
             /\ lost' = [lost EXCEPT !.write = @ \cup Ids(data)]
             /\ file' = file \/ file' = Append(file, Mark("error"))
    <2>1. file' \in Seq(Record)
      <3>1. Mark("error") \in Record
        BY RecordTypes DEF Marks
      <3>2. file \in Seq(Record)
        BY DEF RecordsOK
      <3>3. Append(file, Mark("error")) \in Seq(Record)
        BY <3>1, <3>2, AppendProperties
      <3>. QED
        BY <1>2, <3>2, <3>3
    <2>2. lost' \in [close : SUBSET Nat, crash : SUBSET Nat, write : SUBSET Nat]
      BY <1>2, IdsType DEF RecordsOK
    <2>3. used' \in [logs : Nat, opens : Nat, crashes : Nat, fails : Nat]
      BY <1>2 DEF HistoryOK
    <2>. QED
      BY <2>1, <2>2, <2>3
  <1>. QED
    BY <1>1, <1>2 DEF LogToFile

LEMMA DieType ==
    ASSUME ControlOK, RecordsOK, HistoryOK, Die
    PROVE  /\ ControlOK' /\ RecordsOK'
           /\ owed' \in [Callers -> Nat] /\ promised' \in Nat
           /\ UNCHANGED together
  <1>1. ControlOK'
    BY DEF Die, ControlOK, Labels, WorkerLabels
  <1>2. file' \in Seq(Record)
        /\ lost' \in [close : SUBSET Nat, crash : SUBSET Nat, write : SUBSET Nat]
    <2>1. PICK p \in Threads : \E n \in 0..Len(chunk[p]) :
            /\ file' = file \o SubSeq(chunk[p], 1, n)
            /\ lost' = [lost EXCEPT !.crash =
                 @ \cup (InFlight \ Ids(SubSeq(chunk[p], 1, n)))
                   \cup (IF mapped THEN {} ELSE Ids(buf))]
      BY DEF Die
    <2>2. PICK n \in 0..Len(chunk[p]) :
            /\ file' = file \o SubSeq(chunk[p], 1, n)
            /\ lost' = [lost EXCEPT !.crash =
                 @ \cup (InFlight \ Ids(SubSeq(chunk[p], 1, n)))
                   \cup (IF mapped THEN {} ELSE Ids(buf))]
      BY <2>1
    <2>3. chunk[p] \in Seq(Record)
      BY DEF RecordsOK
    <2>4. SubSeq(chunk[p], 1, n) \in Seq(Record)
      BY <2>3, PrefixType
    <2>5. file' \in Seq(Record)
      BY <2>2, <2>4, ConcatProperties DEF RecordsOK
    <2>6. InFlight \subseteq Nat /\ Ids(buf) \subseteq Nat
      BY InFlightType, IdsType DEF RecordsOK
    <2>7. lost' \in [close : SUBSET Nat, crash : SUBSET Nat, write : SUBSET Nat]
      BY <2>2, <2>6 DEF RecordsOK
    <2>. QED
      BY <2>5, <2>7
  <1>3. /\ buf' \in Seq(Record) /\ disk' \in Seq(Record)
        /\ chunk' \in [Threads -> Seq(Record)]
    BY EmptySeq DEF Die, MapFile, RecordsOK
  <1>4. /\ accepted' \in Nat /\ owed' \in [Callers -> Nat] /\ promised' \in Nat
        /\ UNCHANGED together
    BY DEF Die, RecordsOK, HistoryOK
  <1>. QED
    BY <1>1, <1>2, <1>3, <1>4 DEF RecordsOK

\* The steps that leave a group of variables alone.
LEMMA Unchanged ==
    /\ ControlOK /\ UNCHANGED program => ControlOK'
    /\ RecordsOK /\ UNCHANGED records => RecordsOK'
    /\ HistoryOK /\ UNCHANGED <<owed, promised, together, segv, used>> => HistoryOK'
  BY DEF ControlOK, RecordsOK, HistoryOK, program, records

LEMMA ControlStep ==
    ASSUME ConstantsAssumption, TypeOK, Next PROVE ControlOK'
  <1>. ControlOK /\ RecordsOK /\ HistoryOK
    BY DEF TypeOK
  <1>1. ASSUME NEW t \in Callers, Log(t) PROVE ControlOK'
    <2>1. "mode" \in Labels /\ "log" \in Operations
      BY DEF Labels, Operations
    <2>. QED
      BY <1>1, <2>1, CallType DEF Log, ControlOK
  <1>2. ASSUME NEW t \in Callers, AppendAsync(t) PROVE ControlOK'
    <2>1. Resume(t) \in Labels
      BY DEF Resume, Labels
    <2>2. worker' \in WorkerLabels
      BY <1>2 DEF AppendAsync, ControlOK, Notified, WorkerLabels
    <2>. QED
      BY <1>2, <2>1, <2>2, GotoType DEF AppendAsync, ControlOK
  <1>3. ASSUME NEW t \in Callers, FormatSync(t) PROVE ControlOK'
    <2>1. "write" \in Labels
      BY DEF Labels
    <2>. QED
      BY <1>3, <2>1, GotoType DEF FormatSync, ControlOK
  <1>4. ASSUME NEW t \in Callers, WriteChunk(t) PROVE ControlOK'
    <2>1. Resume(t) \in Labels
      BY DEF Resume, Labels
    <2>. QED
      BY <1>4, <2>1, GotoType DEF WriteChunk, ControlOK
  <1>5. ASSUME NEW t \in Callers, FlushSyncSkip(t) PROVE ControlOK'
    BY <1>5, Unchanged DEF FlushSyncSkip
  <1>6. ASSUME NEW t \in Callers, FlushSync(t) PROVE ControlOK'
    <2>1. "flush" \in Labels /\ "flush" \in Operations
      BY DEF Labels, Operations
    <2>. QED
      BY <1>6, <2>1, CallType DEF FlushSync, ControlOK
  <1>7. ASSUME NEW t \in Callers, FlushSyncTake(t) PROVE ControlOK'
    <2>1. "write" \in Labels /\ "idle" \in Labels
      BY DEF Labels
    <2>2. pc' \in [Callers -> Labels] /\ job' \in [Callers -> Operations \cup {"none"}]
      BY <1>7, <2>1, GotoType DEF FlushSyncTake
    <2>. QED
      BY <1>7, <2>2 DEF FlushSyncTake, ControlOK
  <1>8. ASSUME NEW t \in Callers, Flush(t) PROVE ControlOK'
    BY <1>8 DEF Flush, ControlOK, Notified, WorkerLabels
  <1>9. ASSUME NEW t \in Callers, SetMode(t) PROVE ControlOK'
    BY <1>9 DEF SetMode, ModeEffect, ControlOK, Notified, WorkerLabels,
                ConstantsAssumption
  <1>10. ASSUME NEW t \in Callers, Open(t) PROVE ControlOK'
    <2>1. {"map", "tip"} \subseteq Labels /\ "open" \in Operations
      BY DEF Labels, Operations
    <2>. QED
      BY <1>10, <2>1, CallType DEF Open, ControlOK
  <1>11. ASSUME NEW t \in Callers, OpenMap(t) PROVE ControlOK'
    <2>1. "drain" \in Labels
      BY DEF Labels
    <2>2. mapped' \in BOOLEAN
      BY <1>11 DEF OpenMap, ConstantsAssumption
    <2>. QED
      BY <1>11, <2>1, <2>2, GotoType DEF OpenMap, ControlOK
  <1>12. ASSUME NEW t \in Callers, OpenDrain(t) PROVE ControlOK'
    <2>1. "live" \in Labels
      BY DEF Labels
    <2>. QED
      BY <1>12, <2>1, GotoType DEF OpenDrain, ControlOK
  <1>13. ASSUME NEW t \in Callers, OpenLive(t) PROVE ControlOK'
    <2>1. "setMode" \in Labels
      BY DEF Labels
    <2>. QED
      BY <1>13, <2>1, GotoType DEF OpenLive, ControlOK
  <1>25. ASSUME NEW t \in Callers, OpenMode(t) PROVE ControlOK'
    <2>1. {"start", "begin"} \subseteq Labels
      BY DEF Labels
    <2>2. mode' \in {"async", "sync"} /\ worker' \in WorkerLabels
      BY <1>25 DEF OpenMode, ModeEffect, ControlOK, Notified, WorkerLabels,
                   ConstantsAssumption
    <2>. QED
      BY <1>25, <2>1, <2>2, GotoType DEF OpenMode, ControlOK
  <1>26. ASSUME NEW t \in Callers, ChooseMode(t) PROVE ControlOK'
    <2>1. mode \in Labels
      BY DEF ControlOK, Labels
    <2>. QED
      BY <1>26, <2>1, GotoType DEF ChooseMode, ControlOK
  <1>14. ASSUME NEW t \in Callers, OpenTips(t) PROVE ControlOK'
    <2>1. ASSUME NEW at, NEW mark, NEW next \in Labels, Tip(t, at, mark, next)
          PROVE  ControlOK'
      BY <2>1, GotoType DEF Tip, ControlOK
    <2>2. {"idle", "recover", "start"} \subseteq Labels
      BY DEF Labels
    <2>. QED
      BY <1>14, <2>1, <2>2 DEF OpenTips
  <1>15. ASSUME NEW t \in Callers, OpenRecover(t) PROVE ControlOK'
    <2>1. "end" \in Labels
      BY DEF Labels
    <2>. QED
      BY <1>15, <2>1, GotoType DEF OpenRecover, ControlOK
  <1>16. ASSUME NEW t \in Callers, OpenStart(t) \/ CloseStop(t) PROVE ControlOK'
    <2>1. PICK from \in {"idle", "setClosed"} : EnterAppender(t, from)
      BY <1>16 DEF OpenStart, CloseStop
    <2>2. (IF closed THEN from ELSE "mode") \in Labels
      BY DEF Labels
    <2>. QED
      BY <1>16, <2>1, <2>2, GotoType DEF OpenStart, CloseStop, EnterAppender, ControlOK
  <1>17. ASSUME NEW t \in Callers, Close(t) PROVE ControlOK'
    <2>1. "stop" \in Labels /\ "close" \in Operations
      BY DEF Labels, Operations
    <2>. QED
      BY <1>17, <2>1, CallType DEF Close, ControlOK
  <1>18. ASSUME NEW t \in Callers,
                CloseSet(t) \/ CloseNotify(t) \/ CloseJoin(t) \/ CloseJoined(t)
         PROVE ControlOK'
    <2>1. {"notify", "join", "joining", "wipe"} \subseteq Labels
      BY DEF Labels
    <2>2. Notified(worker) \in WorkerLabels
      BY DEF Notified, WorkerLabels, ControlOK
    <2>3. PICK label \in {"notify", "join", "joining", "wipe"} : Goto(t, label)
      BY <1>18 DEF CloseSet, CloseNotify, CloseJoin, CloseJoined
    <2>4. pc' \in [Callers -> Labels] /\ job' \in [Callers -> Operations \cup {"none"}]
      BY <2>1, <2>3, GotoType
    <2>5. closed' \in BOOLEAN /\ worker' \in WorkerLabels
      BY <1>18, <2>2 DEF CloseSet, CloseNotify, CloseJoin, CloseJoined, ControlOK
    <2>. QED
      BY <1>18, <2>4, <2>5 DEF CloseSet, CloseNotify, CloseJoin, CloseJoined, ControlOK
  <1>19. ASSUME NEW t \in Callers, CloseWipe(t) PROVE ControlOK'
    <2>1. "idle" \in Labels
      BY DEF Labels
    <2>. QED
      BY <1>19, <2>1, GotoType DEF CloseWipe, ControlOK
  <1>20. ASSUME NEW p \in Threads, Segfault(p) PROVE ControlOK'
    BY <1>20, DieType DEF Segfault
  <1>21. CASE WorkerFlush
    BY <1>21 DEF WorkerFlush, ControlOK, WorkerLabels
  <1>22. CASE WorkerWrite
    BY <1>22 DEF WorkerWrite, ControlOK, WorkerLabels
  <1>23. CASE WorkerCheck \/ WorkerWait \/ WorkerTimeout \/ WorkerExit
    BY <1>23 DEF WorkerCheck, WorkerWait, WorkerTimeout, WorkerExit, ControlOK,
                 WorkerLabels
  <1>24. CASE Crash
    BY <1>24, DieType DEF Crash
  <1>. QED
    BY <1>1, <1>2, <1>3, <1>4, <1>5, <1>6, <1>7, <1>8, <1>9, <1>10, <1>11, <1>12,
       <1>13, <1>14, <1>15, <1>16, <1>17, <1>18, <1>19, <1>20, <1>21, <1>22, <1>23,
       <1>24, <1>25, <1>26
    DEF Next, Request, Step, WorkerStep, Threads

LEMMA RecordsStep ==
    ASSUME TypeOK, Next PROVE RecordsOK'
  <1>. ControlOK /\ RecordsOK /\ HistoryOK
    BY DEF TypeOK
  <1>1. ASSUME NEW t \in Callers,
               \/ Request(t) \/ ChooseMode(t) \/ OpenLive(t) \/ OpenMode(t)
               \/ OpenStart(t) \/ CloseStop(t)
               \/ CloseSet(t) \/ CloseNotify(t) \/ CloseJoin(t) \/ CloseJoined(t)
        PROVE RecordsOK'
    BY <1>1, Unchanged
    DEF Request, Log, FlushSyncSkip, FlushSync, Flush, SetMode, Open, Close,
        ChooseMode, OpenLive, OpenMode, OpenStart, CloseStop, CloseSet, CloseNotify, CloseJoin, CloseJoined
  <1>2. ASSUME NEW t \in Callers, AppendAsync(t) PROVE RecordsOK'
    <2>1. \A k \in Kinds : Append(buf, [id |-> accepted + 1, kind |-> k]) \in Seq(Record)
      <3>1. \A k \in Kinds : [id |-> accepted + 1, kind |-> k] \in Record
        BY RecordTypes DEF RecordsOK
      <3>2. buf \in Seq(Record)
        BY DEF RecordsOK
      <3>. QED
        BY <3>1, <3>2, AppendProperties
    <2>2. (IF Len(buf) >= WarnAt THEN "warn" ELSE KindOf(t)) \in Kinds
      BY RecordTypes DEF Kinds
    <2>3. Append(buf, [id |-> accepted + 1,
                       kind |-> IF Len(buf) >= WarnAt THEN "warn" ELSE KindOf(t)])
            \in Seq(Record)
      BY <2>1, <2>2
    <2>4. \/ /\ buf' = Append(buf, [id |-> accepted + 1,
                       kind |-> IF Len(buf) >= WarnAt THEN "warn" ELSE KindOf(t)])
             /\ accepted' = accepted + 1
          \/ UNCHANGED <<buf, accepted>>
      BY <1>2, Zenon DEF AppendAsync
    <2>5. buf' \in Seq(Record) /\ accepted' \in Nat
      <3>1. buf \in Seq(Record) /\ accepted \in Nat /\ accepted + 1 \in Nat
        BY DEF RecordsOK
      <3>. QED
        BY <2>3, <2>4, <3>1, Zenon
    <2>6. UNCHANGED <<disk, file, chunk, lost>>
      BY <1>2 DEF AppendAsync
    <2>. QED
      BY <2>5, <2>6 DEF RecordsOK
  <1>3. ASSUME NEW t \in Callers, FormatSync(t) PROVE RecordsOK'
    <2>1. [id |-> accepted + 1, kind |-> KindOf(t)] \in Record
      BY RecordTypes DEF RecordsOK
    <2>2. <<[id |-> accepted + 1, kind |-> KindOf(t)]>> \in Seq(Record)
      BY <2>1
    <2>3. chunk' \in [Threads -> Seq(Record)]
      BY <1>3, <2>2 DEF FormatSync, RecordsOK
    <2>. QED
      BY <1>3, <2>3 DEF FormatSync, RecordsOK
  <1>4. ASSUME NEW t \in Callers, WriteChunk(t) \/ OpenRecover(t) PROVE RecordsOK'
    <2>1. chunk[t] \in Seq(Record)
      BY DEF RecordsOK, Threads
    <2>2. LogToFile(chunk[t]) /\ UNCHANGED <<buf, disk, accepted>>
          /\ chunk' = [chunk EXCEPT ![t] = <<>>]
      BY <1>4 DEF WriteChunk, OpenRecover
    <2>3. /\ file' \in Seq(Record)
          /\ lost' \in [close : SUBSET Nat, crash : SUBSET Nat, write : SUBSET Nat]
      BY <2>1, <2>2, LogToFileType
    <2>4. chunk' \in [Threads -> Seq(Record)]
      BY <2>2, EmptySeq DEF RecordsOK
    <2>. QED
      BY <2>2, <2>3, <2>4 DEF RecordsOK
  <1>5. ASSUME NEW p \in Threads, TakeBuffer(p),
               UNCHANGED <<disk, file, accepted, lost>>
        PROVE  RecordsOK'
    BY <1>5, EmptySeq DEF TakeBuffer, RecordsOK
  <1>6. ASSUME NEW t \in Callers, FlushSyncTake(t) \/ OpenDrain(t) PROVE RecordsOK'
    <2>1. CASE TakeBuffer(t)
      BY <1>5, <1>6, <2>1 DEF FlushSyncTake, OpenDrain, Threads
    <2>2. CASE UNCHANGED <<chunk, buf>>
      BY <1>6, <2>2 DEF FlushSyncTake, OpenDrain, RecordsOK
    <2>. QED
      BY <1>6, <2>1, <2>2 DEF FlushSyncTake, OpenDrain
  <1>7. ASSUME NEW t \in Callers, OpenMap(t) PROVE RecordsOK'
    <2>1. buf' \in Seq(Record) /\ disk' \in Seq(Record)
      BY <1>7, EmptySeq DEF OpenMap, RecordsOK, MapFile
    <2>2. lost' \in [close : SUBSET Nat, crash : SUBSET Nat, write : SUBSET Nat]
      BY <1>7, IdsType DEF OpenMap, RecordsOK
    <2>. QED
      BY <1>7, <2>1, <2>2 DEF OpenMap, RecordsOK
  <1>8. ASSUME NEW t \in Callers, OpenTips(t) PROVE RecordsOK'
    <2>1. ASSUME NEW at, NEW mark \in Marks, NEW next, Tip(t, at, mark, next)
          PROVE  RecordsOK'
      <3>1. Mark(mark) \in Record
        BY RecordTypes
      <3>2. <<Mark(mark)>> \in Seq(Record)
        BY <3>1
      <3>. QED
        BY <2>1, <3>2, LogToFileType DEF Tip, RecordsOK
    <2>2. {"opened", "begin", "end"} \subseteq Marks
      BY DEF Marks
    <2>. QED
      BY <1>8, <2>1, <2>2 DEF OpenTips
  <1>9. ASSUME NEW t \in Callers, CloseWipe(t) PROVE RecordsOK'
    <2>1. lost' \in [close : SUBSET Nat, crash : SUBSET Nat, write : SUBSET Nat]
      BY <1>9, IdsType DEF CloseWipe, RecordsOK
    <2>. QED
      BY <1>9, <2>1, EmptySeq DEF CloseWipe, RecordsOK
  <1>10. ASSUME NEW p \in Threads, Segfault(p) PROVE RecordsOK'
    BY <1>10, DieType DEF Segfault
  <1>11. CASE WorkerFlush
    <2>1. CASE TakeBuffer(Worker)
      BY <1>5, <1>11, <2>1 DEF WorkerFlush, Threads
    <2>2. CASE UNCHANGED <<chunk, buf>>
      BY <1>11, <2>2 DEF WorkerFlush, RecordsOK
    <2>. QED
      BY <1>11, <2>1, <2>2 DEF WorkerFlush
  <1>12. CASE WorkerWrite
    <2>1. chunk[Worker] \in Seq(Record)
      BY DEF RecordsOK, Threads
    <2>. QED
      BY <1>12, <2>1, LogToFileType, EmptySeq DEF WorkerWrite, RecordsOK
  <1>13. CASE WorkerCheck \/ WorkerWait \/ WorkerTimeout \/ WorkerExit
    BY <1>13, Unchanged DEF WorkerCheck, WorkerWait, WorkerTimeout, WorkerExit
  <1>14. CASE Crash
    BY <1>14, DieType DEF Crash
  <1>. QED
    BY <1>1, <1>2, <1>3, <1>4, <1>6, <1>7, <1>8, <1>9, <1>10, <1>11, <1>12, <1>13, <1>14
    DEF Next, Step, WorkerStep, Threads

LEMMA HistoryStep ==
    ASSUME TypeOK, Next PROVE HistoryOK'
  <1>. ControlOK /\ RecordsOK /\ HistoryOK
    BY DEF TypeOK
  <1>1. ASSUME NEW t \in Callers, Request(t) PROVE HistoryOK'
    <2>1. accepted \in Nat
      BY DEF RecordsOK
    <2>. QED
      BY <1>1, <2>1 DEF Request, Log, FlushSyncSkip, FlushSync, Flush, SetMode, Open,
                        Close, HistoryOK
  <1>2. ASSUME NEW t \in Callers, FlushReturns(t), UNCHANGED <<together, segv, used>>
        PROVE  HistoryOK'
    BY <1>2 DEF FlushReturns, HistoryOK
  <1>3. ASSUME NEW data \in Seq(Record), LogToFile(data)
        PROVE  used' \in [logs : Nat, opens : Nat, crashes : Nat, fails : Nat]
    BY <1>3, LogToFileType
  <1>4. ASSUME NEW t \in Callers, WriteChunk(t) \/ OpenRecover(t) PROVE HistoryOK'
    <2>1. chunk[t] \in Seq(Record)
      BY DEF RecordsOK, Threads
    <2>2. used' \in [logs : Nat, opens : Nat, crashes : Nat, fails : Nat]
      BY <1>3, <1>4, <2>1 DEF WriteChunk, OpenRecover
    <2>. QED
      BY <1>4, <2>2 DEF WriteChunk, OpenRecover, FlushReturns, HistoryOK
  <1>12. ASSUME NEW p \in Threads, TakeBuffer(p), UNCHANGED <<owed, promised, segv, used>>
         PROVE  HistoryOK'
    <2>1. Ids(buf) \subseteq Nat /\ InFlight \subseteq Nat
      BY IdsType, InFlightType DEF RecordsOK
    <2>2. together' \subseteq Nat \X Nat
      BY <1>12, <2>1 DEF TakeBuffer, HistoryOK
    <2>. QED
      BY <1>12, <2>2 DEF HistoryOK
  <1>5. ASSUME NEW t \in Callers, FlushSyncTake(t) \/ OpenDrain(t) PROVE HistoryOK'
    <2>1. CASE TakeBuffer(t)
      BY <1>5, <1>12, <2>1 DEF FlushSyncTake, FlushReturns, OpenDrain, Threads, HistoryOK
    <2>2. CASE ~TakeBuffer(t)
      BY <1>2, <1>5, <2>2 DEF FlushSyncTake, OpenDrain
    <2>. QED
      BY <2>1, <2>2
  <1>6. ASSUME NEW t \in Callers, OpenTips(t) PROVE HistoryOK'
    <2>1. ASSUME NEW at, NEW mark \in Marks, NEW next, Tip(t, at, mark, next)
          PROVE  HistoryOK'
      <3>1. Mark(mark) \in Record
        BY RecordTypes
      <3>2. <<Mark(mark)>> \in Seq(Record)
        BY <3>1
      <3>. QED
        BY <1>3, <2>1, <3>2 DEF Tip, HistoryOK
    <2>2. {"opened", "begin", "end"} \subseteq Marks
      BY DEF Marks
    <2>. QED
      BY <1>6, <2>1, <2>2 DEF OpenTips
  <1>7. ASSUME NEW t \in Callers,
               \/ ChooseMode(t) \/ AppendAsync(t) \/ FormatSync(t) \/ OpenMap(t)
               \/ OpenLive(t) \/ OpenMode(t) \/ OpenStart(t) \/ CloseStop(t) \/ CloseSet(t)
               \/ CloseNotify(t) \/ CloseJoin(t) \/ CloseJoined(t) \/ CloseWipe(t)
        PROVE HistoryOK'
    BY <1>7, Unchanged
    DEF ChooseMode, AppendAsync, FormatSync, OpenMap, OpenLive, OpenMode, OpenStart,
        CloseStop, CloseSet, CloseNotify, CloseJoin, CloseJoined, CloseWipe
  <1>8. ASSUME NEW p \in Threads, Segfault(p) PROVE HistoryOK'
    BY <1>8, DieType DEF Segfault, HistoryOK
  <1>13. CASE WorkerFlush
    BY <1>12, <1>13, Unchanged DEF WorkerFlush, Threads
  <1>9. CASE WorkerCheck \/ WorkerWait \/ WorkerTimeout \/ WorkerExit
    BY <1>9, Unchanged
    DEF WorkerCheck, WorkerWait, WorkerTimeout, WorkerExit
  <1>10. CASE WorkerWrite
    <2>1. chunk[Worker] \in Seq(Record)
      BY DEF RecordsOK, Threads
    <2>. QED
      BY <1>3, <1>10, <2>1 DEF WorkerWrite, HistoryOK
  <1>11. CASE Crash
    BY <1>11, DieType DEF Crash, HistoryOK
  <1>. QED
    BY <1>1, <1>4, <1>5, <1>6, <1>7, <1>8, <1>9, <1>10, <1>11, <1>13
    DEF Next, Step, WorkerStep, Threads

LEMMA TypeStep == ConstantsAssumption /\ TypeOK /\ [Next]_vars => TypeOK'
  <1> SUFFICES ASSUME ConstantsAssumption, TypeOK, [Next]_vars PROVE TypeOK'
    OBVIOUS
  <1>1. CASE Next
    BY <1>1, ControlStep, RecordsStep, HistoryStep DEF TypeOK
  <1>2. CASE UNCHANGED vars
    BY <1>2, Unchanged DEF vars, TypeOK
  <1>. QED
    BY <1>1, <1>2

\* Whatever the threads do, every variable of the appender keeps its type.
THEOREM TypeCorrect == Spec => []TypeOK
  BY TypeInit, TypeStep, ConstantsAssumption, PTL DEF Spec

-----------------------------------------------------------------------------
(* Every accepted record is in one place.  First, the records of the       *)
(* sequences the steps build.                                              *)

LEMMA IdsMember ==
    ASSUME NEW s \in Seq(Record), NEW x
    PROVE  x \in Ids(s) <=> x # 0 /\ \E i \in 1..Len(s) : s[i].id = x
  BY LenProperties DEF Ids

LEMMA IdsEmpty == Ids(<<>>) = {} /\ Distinct(<<>>)
  BY DEF Ids, Distinct

LEMMA IdsSingle ==
    ASSUME NEW r \in Record
    PROVE  Ids(<<r>>) = {r.id} \ {0} /\ Distinct(<<r>>)
  BY DEF Ids, Distinct

LEMMA IdsConcat ==
    ASSUME NEW s \in Seq(Record), NEW u \in Seq(Record)
    PROVE  Ids(s \o u) = Ids(s) \cup Ids(u)
  <1>1. /\ s \o u \in Seq(Record)
        /\ Len(s \o u) = Len(s) + Len(u)
        /\ Len(s) \in Nat /\ Len(u) \in Nat
        /\ \A i \in 1..Len(s) + Len(u) :
             (s \o u)[i] = IF i <= Len(s) THEN s[i] ELSE u[i - Len(s)]
    BY ConcatProperties, LenProperties
  <1>2. ASSUME NEW x \in Ids(s \o u) PROVE x \in Ids(s) \cup Ids(u)
    <2>1. x # 0 /\ \E i \in 1..Len(s \o u) : (s \o u)[i].id = x
      <3> DEFINE w == s \o u
      <3>1. w \in Seq(Record) /\ x \in Ids(w)
        BY <1>1, <1>2
      <3> HIDE DEF w
      <3>2. x # 0 /\ \E i \in 1..Len(w) : w[i].id = x
        BY <3>1, IdsMember
      <3>. QED
        BY <3>2 DEF w
    <2>. PICK i \in 1..Len(s) + Len(u) : (s \o u)[i].id = x
      BY <1>1, <2>1
    <2>2. CASE i <= Len(s)
      BY <1>1, <2>1, <2>2, IdsMember
    <2>3. CASE i > Len(s)
      <3>1. i - Len(s) \in 1..Len(u) /\ u[i - Len(s)].id = x
        BY <1>1, <2>1, <2>3
      <3>. QED
        BY <2>1, <3>1, IdsMember
    <2>. QED
      BY <1>1, <2>2, <2>3
  <1>3. ASSUME NEW x \in Ids(s) PROVE x \in Ids(s \o u)
    <2>1. PICK i \in 1..Len(s) : s[i].id = x /\ x # 0
      BY IdsMember
    <2>2. i \in 1..Len(s \o u) /\ (s \o u)[i].id = x
      BY <1>1, <2>1
    <2>. QED
      BY <1>1, <2>1, <2>2, IdsMember
  <1>4. ASSUME NEW x \in Ids(u) PROVE x \in Ids(s \o u)
    <2>1. PICK i \in 1..Len(u) : u[i].id = x /\ x # 0
      BY IdsMember
    <2>2. i + Len(s) \in 1..Len(s \o u) /\ (s \o u)[i + Len(s)].id = x
      BY <1>1, <2>1
    <2>. QED
      BY <1>1, <2>1, <2>2, IdsMember
  <1>. QED
    BY <1>2, <1>3, <1>4

\* Sequences without a common record, each without duplicates.
LEMMA DistinctConcat ==
    ASSUME NEW s \in Seq(Record), NEW u \in Seq(Record),
           Distinct(s), Distinct(u), Ids(s) \cap Ids(u) = {}
    PROVE  Distinct(s \o u)
  <1>1. /\ DOMAIN (s \o u) = 1..Len(s) + Len(u)
        /\ DOMAIN s = 1..Len(s) /\ DOMAIN u = 1..Len(u)
        /\ Len(s) \in Nat /\ Len(u) \in Nat
        /\ \A i \in 1..Len(s) + Len(u) :
             (s \o u)[i] = IF i <= Len(s) THEN s[i] ELSE u[i - Len(s)]
    BY ConcatProperties, LenProperties
  <1>2. SUFFICES ASSUME NEW i \in DOMAIN (s \o u), NEW j \in DOMAIN (s \o u),
                        (s \o u)[i].id = (s \o u)[j].id, (s \o u)[i].id # 0
                 PROVE  i = j
    BY DEF Distinct
  <1>3. CASE i <= Len(s) /\ j <= Len(s)
    <2>1. i \in DOMAIN s /\ j \in DOMAIN s /\ s[i].id = s[j].id /\ s[i].id # 0
      BY <1>1, <1>2, <1>3
    <2>. QED
      BY <2>1 DEF Distinct
  <1>4. CASE i > Len(s) /\ j > Len(s)
    <2>1. /\ i - Len(s) \in DOMAIN u /\ j - Len(s) \in DOMAIN u
          /\ u[i - Len(s)].id = u[j - Len(s)].id /\ u[i - Len(s)].id # 0
      BY <1>1, <1>2, <1>4
    <2>2. i - Len(s) = j - Len(s)
      BY <2>1 DEF Distinct
    <2>. QED
      BY <1>1, <2>2
  <1>5. ASSUME NEW a \in 1..Len(s), NEW b \in 1..Len(u),
               s[a].id = u[b].id, s[a].id # 0
        PROVE  FALSE
    <2>1. s[a].id \in Ids(s) /\ s[a].id \in Ids(u)
      BY <1>5, IdsMember
    <2>. QED
      BY <2>1
  <1>6. CASE i <= Len(s) /\ j > Len(s)
    <2>1. /\ i \in 1..Len(s) /\ j - Len(s) \in 1..Len(u)
          /\ s[i].id = u[j - Len(s)].id /\ s[i].id # 0
      BY <1>1, <1>2, <1>6
    <2>. QED
      BY <1>5, <2>1
  <1>7. CASE i > Len(s) /\ j <= Len(s)
    <2>1. /\ j \in 1..Len(s) /\ i - Len(s) \in 1..Len(u)
          /\ s[j].id = u[i - Len(s)].id /\ s[j].id # 0
      BY <1>1, <1>2, <1>7
    <2>. QED
      BY <1>5, <2>1
  <1>. QED
    BY <1>1, <1>3, <1>4, <1>6, <1>7

LEMMA AppendRecord ==
    ASSUME NEW s \in Seq(Record), NEW r \in Record,
           Distinct(s), r.id \notin Ids(s)
    PROVE  /\ Ids(Append(s, r)) = Ids(s) \cup ({r.id} \ {0})
           /\ Distinct(Append(s, r))
  <1>1. Append(s, r) = s \o <<r>> /\ <<r>> \in Seq(Record)
    BY AppendIsConcat
  <1>2. Ids(s) \cap Ids(<<r>>) = {}
    BY IdsSingle
  <1>3. Ids(s \o <<r>>) = Ids(s) \cup Ids(<<r>>)
    BY <1>1, IdsConcat
  <1>4. Distinct(s \o <<r>>)
    BY <1>1, <1>2, IdsSingle, DistinctConcat
  <1>5. Ids(<<r>>) = {r.id} \ {0}
    BY IdsSingle
  <1>. QED
    BY <1>1, <1>3, <1>4, <1>5

LEMMA PrefixRecords ==
    ASSUME NEW s \in Seq(Record), NEW n \in 0..Len(s), Distinct(s)
    PROVE  Ids(SubSeq(s, 1, n)) \subseteq Ids(s) /\ Distinct(SubSeq(s, 1, n))
  <1>1. /\ SubSeq(s, 1, n) \in Seq(Record)
        /\ Len(SubSeq(s, 1, n)) = n
        /\ \A i \in 1..n : SubSeq(s, 1, n)[i] = s[i]
    <2>1. \A i \in 1..n : s[i] \in Record
      BY ElementOfSeq, LenProperties
    <2>2. Len(s) \in Nat
      BY LenProperties
    <2>. QED
      BY <2>1, <2>2, SubSeqProperties
  <1>2. DOMAIN SubSeq(s, 1, n) = 1..n /\ DOMAIN s = 1..Len(s) /\ Len(s) \in Nat
    BY <1>1, LenProperties
  <1>3. Ids(SubSeq(s, 1, n)) \subseteq Ids(s)
    BY <1>1, <1>2 DEF Ids
  <1>4. Distinct(SubSeq(s, 1, n))
    BY <1>1, <1>2 DEF Distinct
  <1>. QED
    BY <1>3, <1>4

-----------------------------------------------------------------------------
(* Then the ways in which a step moves records: each keeps OnePlace.       *)

\* A record is in flight when some thread holds it.
LEMMA InFlightMember ==
    /\ \A x : x \in InFlight <=> \E p \in Threads : x \in Ids(chunk[p])
    /\ \A x : x \in InFlight' <=> \E p \in Threads : x \in Ids(chunk'[p])
  BY DEF InFlight

LEMMA KeepsRecords == OnePlace /\ UNCHANGED records => OnePlace'
  BY DEF records, OnePlace, NoDuplicate, Separate, AllAccounted, Kept, Lost, InFlight

\* A flusher takes the buffer.
LEMMA TakeMove ==
    ASSUME RecordsOK, OnePlace, NEW p \in Threads, chunk[p] = <<>>, TakeBuffer(p),
           UNCHANGED <<disk, file, accepted, lost>>
    PROVE  /\ OnePlace'
           /\ Kept' = Ids(disk) /\ InFlight' = InFlight \cup Ids(buf)
           /\ Lost' = Lost /\ Ids(file') = Ids(file)
  <1>1. /\ buf' = <<>> /\ chunk'[p] = buf
        /\ \A q \in Threads : q # p => chunk'[q] = chunk[q]
    BY DEF TakeBuffer, RecordsOK
  <1>2. Ids(buf') = {} /\ Ids(chunk[p]) = {} /\ Distinct(buf')
    BY <1>1, IdsEmpty
  <1>3. NoDuplicate'
    BY <1>1, <1>2 DEF OnePlace, NoDuplicate
  <1>4. InFlight' = InFlight \cup Ids(buf)
    BY <1>1, <1>2, InFlightMember
  <1>5. Kept' = Ids(disk) /\ Lost' = Lost /\ Ids(file') = Ids(file)
    BY <1>2 DEF Kept, Lost
  <1>6. Separate'
    BY <1>1, <1>2, <1>4, <1>5 DEF OnePlace, Separate, Kept
  <1>7. AllAccounted'
    BY <1>4, <1>5 DEF OnePlace, AllAccounted, Kept
  <1>. QED
    BY <1>3, <1>4, <1>5, <1>6, <1>7 DEF OnePlace

\* The next record is fresh.
LEMMA FreshRecord ==
    ASSUME RecordsOK, OnePlace
    PROVE  /\ accepted + 1 \notin Kept \cup InFlight \cup Ids(file) \cup Lost
           /\ 1..(accepted + 1) = (1..accepted) \cup {accepted + 1}
           /\ \A p \in Threads : accepted + 1 \notin Ids(chunk[p])
           /\ accepted + 1 # 0
  <1>1. accepted + 1 \notin Kept \cup InFlight \cup Ids(file) \cup Lost
    BY DEF RecordsOK, OnePlace, AllAccounted
  <1>2. \A p \in Threads : accepted + 1 \notin Ids(chunk[p])
    BY <1>1, InFlightMember
  <1>3. 1..(accepted + 1) = (1..accepted) \cup {accepted + 1} /\ accepted + 1 # 0
    BY DEF RecordsOK
  <1>. QED
    BY <1>1, <1>2, <1>3

LEMMA AppendMove ==
    ASSUME RecordsOK, OnePlace, NEW k \in Kinds,
           buf' = Append(buf, [id |-> accepted + 1, kind |-> k]),
           accepted' = accepted + 1, UNCHANGED <<disk, file, chunk, lost>>
    PROVE  /\ OnePlace'
           /\ Kept' = Kept \cup {accepted + 1} /\ InFlight' = InFlight
           /\ Lost' = Lost /\ Ids(file') = Ids(file)
  <1> DEFINE r == [id |-> accepted + 1, kind |-> k]
  <1>1. r \in Record /\ r.id = accepted + 1 /\ buf \in Seq(Record)
    BY RecordTypes DEF RecordsOK
  <1>2. r.id \notin Ids(buf) /\ r.id # 0
    BY <1>1, FreshRecord DEF Kept
  <1>3. Ids(buf') = Ids(buf) \cup {accepted + 1} /\ Distinct(buf')
    BY <1>1, <1>2, AppendRecord DEF OnePlace, NoDuplicate
  <1>4. NoDuplicate'
    BY <1>3 DEF OnePlace, NoDuplicate
  <1>5. /\ InFlight' = InFlight /\ Lost' = Lost /\ Ids(file') = Ids(file)
        /\ Kept' = Kept \cup {accepted + 1}
    BY <1>3 DEF InFlight, Lost, Kept
  <1>6. Separate'
    <2>. UNCHANGED <<disk, file, chunk, lost>>
      OBVIOUS
    <2>1. Ids(buf') \cap Ids(disk') = {}
      BY <1>3, FreshRecord DEF OnePlace, Separate, Kept
    <2>2. \A p, q \in Threads : p # q => Ids(chunk'[p]) \cap Ids(chunk'[q]) = {}
      BY DEF OnePlace, Separate
    <2>3. ASSUME NEW p \in Threads PROVE Ids(chunk'[p]) \cap Kept' = {}
      <3>1. Ids(chunk[p]) \cap Kept = {} /\ accepted + 1 \notin Ids(chunk[p])
        BY FreshRecord DEF OnePlace, Separate
      <3>. QED
        BY <1>5, <3>1
    <2>4. Ids(file') \cap (Kept' \cup InFlight') = {}
      BY <1>5, FreshRecord DEF OnePlace, Separate
    <2>5. Lost' \cap (Kept' \cup InFlight' \cup Ids(file')) = {}
      BY <1>5, FreshRecord DEF OnePlace, Separate
    <2>. QED
      BY <2>1, <2>2, <2>3, <2>4, <2>5 DEF Separate
  <1>7. AllAccounted'
    BY <1>5, FreshRecord DEF OnePlace, AllAccounted
  <1>. QED
    BY <1>4, <1>5, <1>6, <1>7 DEF OnePlace

LEMMA FormatMove ==
    ASSUME RecordsOK, OnePlace, NEW t \in Threads, NEW k \in Kinds, chunk[t] = <<>>,
           chunk' = [chunk EXCEPT ![t] = <<[id |-> accepted + 1, kind |-> k]>>],
           accepted' = accepted + 1, UNCHANGED <<buf, disk, file, lost>>
    PROVE  /\ OnePlace'
           /\ Kept' = Kept /\ InFlight' = InFlight \cup {accepted + 1}
           /\ Lost' = Lost /\ Ids(file') = Ids(file)
  <1> DEFINE r == [id |-> accepted + 1, kind |-> k]
  <1>1. r \in Record /\ r.id = accepted + 1 /\ r.id # 0
    BY RecordTypes, FreshRecord DEF RecordsOK
  <1>2. Ids(<<r>>) = {accepted + 1} /\ Distinct(<<r>>)
    BY <1>1, IdsSingle
  <1>3. /\ chunk'[t] = <<r>>
        /\ \A q \in Threads : q # t => chunk'[q] = chunk[q]
    BY DEF RecordsOK
  <1>4. Ids(chunk[t]) = {}
    BY IdsEmpty
  <1> HIDE DEF r
  <1>5. NoDuplicate'
    BY <1>2, <1>3 DEF OnePlace, NoDuplicate
  <1>6. InFlight' = InFlight \cup {accepted + 1}
    BY <1>2, <1>3, <1>4, InFlightMember
  <1>7. Kept' = Kept /\ Lost' = Lost /\ Ids(file') = Ids(file)
    BY DEF Kept, Lost
  <1>8. Separate'
    <2>1. Ids(buf') \cap Ids(disk') = {}
      BY DEF OnePlace, Separate
    <2>2. ASSUME NEW p \in Threads, NEW q \in Threads, p # q
          PROVE  Ids(chunk'[p]) \cap Ids(chunk'[q]) = {}
      <3>1. /\ Ids(chunk[p]) \cap Ids(chunk[q]) = {}
            /\ accepted + 1 \notin Ids(chunk[p]) /\ accepted + 1 \notin Ids(chunk[q])
        BY <2>2, FreshRecord DEF OnePlace, Separate
      <3>. QED
        BY <1>2, <1>3, <2>2, <3>1
    <2>3. ASSUME NEW p \in Threads PROVE Ids(chunk'[p]) \cap Kept' = {}
      <3>1. Ids(chunk[p]) \cap Kept = {} /\ accepted + 1 \notin Kept
        BY FreshRecord DEF OnePlace, Separate
      <3>. QED
        BY <1>2, <1>3, <1>7, <3>1
    <2>4. Ids(file') \cap (Kept' \cup InFlight') = {}
      BY <1>6, <1>7, FreshRecord DEF OnePlace, Separate
    <2>5. Lost' \cap (Kept' \cup InFlight' \cup Ids(file')) = {}
      BY <1>6, <1>7, FreshRecord DEF OnePlace, Separate
    <2>. QED
      BY <2>1, <2>2, <2>3, <2>4, <2>5 DEF Separate
  <1>9. AllAccounted'
    BY <1>6, <1>7, FreshRecord DEF OnePlace, AllAccounted
  <1>. QED
    BY <1>5, <1>6, <1>7, <1>8, <1>9 DEF OnePlace

\* A write puts the records of its data in the file, or accounts them as lost.
LEMMA LogToFileRecords ==
    ASSUME RecordsOK, NEW data \in Seq(Record), LogToFile(data),
           Distinct(data), Distinct(file), Ids(data) \cap Ids(file) = {}
    PROVE  /\ Distinct(file')
           /\ \/ Ids(file') = Ids(file) \cup Ids(data) /\ Lost' = Lost
              \/ Ids(file') = Ids(file) /\ Lost' = Lost \cup Ids(data)
  <1>. file \in Seq(Record)
    BY DEF RecordsOK
  <1>1. CASE file' = file \o data /\ UNCHANGED <<lost, used>>
    BY <1>1, IdsConcat, DistinctConcat DEF Lost
  <1>2. CASE /\ lost' = [lost EXCEPT !.write = @ \cup Ids(data)]
             /\ file' = file \/ file' = Append(file, Mark("error"))
    <2>1. Lost' = Lost \cup Ids(data)
      BY <1>2 DEF Lost, RecordsOK
    <2>2. Mark("error") \in Record /\ Mark("error").id = 0
      BY RecordTypes DEF Mark, Marks
    <2>3. 0 \notin Ids(file)
      BY DEF Ids
    <2>4. /\ Ids(Append(file, Mark("error"))) = Ids(file)
          /\ Distinct(Append(file, Mark("error")))
      <3> DEFINE m == Mark("error")
      <3>1. m \in Record /\ m.id = 0 /\ m.id \notin Ids(file)
        BY <2>2, <2>3
      <3> HIDE DEF m
      <3>2. /\ Ids(Append(file, m)) = Ids(file) \cup ({m.id} \ {0})
            /\ Distinct(Append(file, m))
        BY <3>1, AppendRecord
      <3>3. {m.id} \ {0} = {}
        BY <3>1
      <3>4. Ids(Append(file, m)) = Ids(file) /\ Distinct(Append(file, m))
        BY <3>2, <3>3
      <3>. QED
        BY <3>4 DEF m
    <2>. QED
      BY <1>2, <2>1, <2>4
  <1>. QED
    BY <1>1, <1>2 DEF LogToFile

LEMMA WriteMove ==
    ASSUME RecordsOK, OnePlace, NEW p \in Threads, LogToFile(chunk[p]),
           chunk' = [chunk EXCEPT ![p] = <<>>], UNCHANGED <<buf, disk, accepted>>
    PROVE  /\ OnePlace'
           /\ Kept' = Kept /\ InFlight' = InFlight \ Ids(chunk[p]) /\ Ids(chunk[p]) \subseteq InFlight
           /\ \/ Ids(file') = Ids(file) \cup Ids(chunk[p]) /\ Lost' = Lost
              \/ Ids(file') = Ids(file) /\ Lost' = Lost \cup Ids(chunk[p])
  <1>1. /\ chunk'[p] = <<>> /\ chunk[p] \in Seq(Record)
        /\ \A q \in Threads : q # p => chunk'[q] = chunk[q]
    BY DEF RecordsOK
  <1>2. Ids(chunk'[p]) = {} /\ Distinct(chunk'[p])
    BY <1>1, IdsEmpty
  <1>3. Distinct(chunk[p]) /\ Distinct(file) /\ Ids(chunk[p]) \cap Ids(file) = {}
    BY InFlightMember DEF OnePlace, NoDuplicate, Separate
  <1>4. /\ Distinct(file')
        /\ \/ Ids(file') = Ids(file) \cup Ids(chunk[p]) /\ Lost' = Lost
           \/ Ids(file') = Ids(file) /\ Lost' = Lost \cup Ids(chunk[p])
    BY <1>1, <1>3, LogToFileRecords
  <1>5. NoDuplicate'
    BY <1>1, <1>2, <1>4 DEF OnePlace, NoDuplicate
  <1>6. InFlight' = InFlight \ Ids(chunk[p])
    <2>1. ASSUME NEW q \in Threads, q # p
          PROVE  Ids(chunk[q]) \cap Ids(chunk[p]) = {}
      BY <2>1 DEF OnePlace, Separate
    <2>. QED
      BY <1>1, <1>2, <2>1, InFlightMember
  <1>7. Ids(chunk[p]) \subseteq InFlight
    BY InFlightMember
  <1>8. Kept' = Kept
    BY DEF Kept
  <1>9. Separate'
    <2>1. Ids(buf') \cap Ids(disk') = {}
      BY DEF OnePlace, Separate
    <2>2. ASSUME NEW q \in Threads, NEW r \in Threads, q # r
          PROVE  Ids(chunk'[q]) \cap Ids(chunk'[r]) = {}
      BY <1>1, <1>2, <2>2 DEF OnePlace, Separate
    <2>3. ASSUME NEW q \in Threads PROVE Ids(chunk'[q]) \cap Kept' = {}
      BY <1>1, <1>2, <1>8 DEF OnePlace, Separate
    <2>4. /\ Ids(file) \cap (Kept \cup InFlight) = {}
          /\ Lost \cap (Kept \cup InFlight \cup Ids(file)) = {}
          /\ Ids(chunk[p]) \cap Kept = {}
      BY DEF OnePlace, Separate
    <2>5. Ids(file') \cap (Kept' \cup InFlight') = {}
      BY <1>4, <1>6, <1>7, <1>8, <2>4
    <2>6. Lost' \cap (Kept' \cup InFlight' \cup Ids(file')) = {}
      BY <1>4, <1>6, <1>7, <1>8, <2>4
    <2>. QED
      BY <2>1, <2>2, <2>3, <2>5, <2>6 DEF Separate
  <1>10. AllAccounted'
    <2>1. Kept \cup InFlight \cup Ids(file) \cup Lost = 1..accepted
      BY DEF OnePlace, AllAccounted
    <2>2. Kept' \cup InFlight' \cup Ids(file') \cup Lost' = 1..accepted
      BY <1>4, <1>6, <1>7, <1>8, <2>1
    <2>. QED
      BY <2>2 DEF AllAccounted
  <1>. QED
    BY <1>4, <1>5, <1>6, <1>7, <1>8, <1>9, <1>10 DEF OnePlace

LEMMA MarkMove ==
    ASSUME RecordsOK, OnePlace, NEW m \in Marks, LogToFile(<<Mark(m)>>),
           UNCHANGED <<buf, disk, chunk, accepted>>
    PROVE  /\ OnePlace'
           /\ Kept' = Kept /\ InFlight' = InFlight
           /\ Lost' = Lost /\ Ids(file') = Ids(file)
  <1>1. Mark(m) \in Record /\ Mark(m).id = 0
    BY RecordTypes DEF Mark
  <1>2. <<Mark(m)>> \in Seq(Record) /\ Ids(<<Mark(m)>>) = {} /\ Distinct(<<Mark(m)>>)
    BY <1>1, IdsSingle
  <1>3. Distinct(file') /\ Ids(file') = Ids(file) /\ Lost' = Lost
    BY <1>2, LogToFileRecords DEF OnePlace, NoDuplicate
  <1>4. Kept' = Kept /\ InFlight' = InFlight
    BY DEF Kept, InFlight
  <1>. QED
    BY <1>3, <1>4 DEF OnePlace, NoDuplicate, Separate, AllAccounted

\* What is kept is in the mmap file or in the heap buffer, not in both.
LEMMA MapSplit ==
    ASSUME RecordsOK, OnePlace, OneMapFile
    PROVE  /\ Kept = Ids(MapFile) \cup (IF mapped THEN {} ELSE Ids(buf))
           /\ Ids(MapFile) \cap (IF mapped THEN {} ELSE Ids(buf)) = {}
  <1>1. CASE mapped
    BY <1>1, IdsEmpty DEF OneMapFile, MapFile, Kept
  <1>2. CASE ~mapped
    BY <1>2 DEF MapFile, Kept, OnePlace, Separate
  <1>. QED
    BY <1>1, <1>2

\* open takes what the mmap file holds into a mapped buffer, or leaves it there.
LEMMA MapMove ==
    ASSUME RecordsOK, OnePlace, OneMapFile, NEW ok \in BOOLEAN,
           mapped \in BOOLEAN,
           buf' = IF ok THEN MapFile ELSE <<>>,
           disk' = IF ok THEN <<>> ELSE MapFile,
           lost' = [lost EXCEPT !.close = @ \cup (IF mapped THEN {} ELSE Ids(buf))],
           UNCHANGED <<chunk, file, accepted>>
    PROVE  /\ OnePlace'
           /\ Kept' = Ids(MapFile) /\ InFlight' = InFlight
           /\ Lost' = Lost \cup (IF mapped THEN {} ELSE Ids(buf))
  <1>1. /\ Distinct(buf') /\ Distinct(disk') /\ Ids(buf') \cap Ids(disk') = {}
        /\ Kept' = Ids(MapFile)
    BY IdsEmpty DEF MapFile, Kept, OnePlace, NoDuplicate
  <1>2. Lost' = Lost \cup (IF mapped THEN {} ELSE Ids(buf))
    BY DEF Lost, RecordsOK
  <1>3. /\ Kept = Ids(MapFile) \cup (IF mapped THEN {} ELSE Ids(buf))
        /\ Ids(MapFile) \cap (IF mapped THEN {} ELSE Ids(buf)) = {}
    BY MapSplit
  <1>4. InFlight' = InFlight
    BY DEF InFlight
  <1>5. NoDuplicate'
    BY <1>1 DEF OnePlace, NoDuplicate
  <1> DEFINE H == IF mapped THEN {} ELSE Ids(buf)
             M == Ids(MapFile)
  <1>6. Kept' = M /\ Kept = M \cup H /\ M \cap H = {} /\ Lost' = Lost \cup H
    BY <1>1, <1>2, <1>3
  <1> HIDE DEF H, M
  <1>7. Separate'
    <2>1. /\ Ids(file) \cap (Kept \cup InFlight) = {}
          /\ Lost \cap (Kept \cup InFlight \cup Ids(file)) = {}
          /\ Kept \cap InFlight = {}
      BY InFlightMember DEF OnePlace, Separate
    <2>2. \A p, q \in Threads : p # q => Ids(chunk'[p]) \cap Ids(chunk'[q]) = {}
      BY DEF OnePlace, Separate
    <2>3. ASSUME NEW p \in Threads PROVE Ids(chunk'[p]) \cap Kept' = {}
      BY <1>6 DEF OnePlace, Separate
    <2>4. Ids(file') \cap (Kept' \cup InFlight') = {}
      BY <1>4, <1>6, <2>1
    <2>5. Lost' \cap (Kept' \cup InFlight' \cup Ids(file')) = {}
      BY <1>4, <1>6, <2>1
    <2>. QED
      BY <1>1, <2>2, <2>3, <2>4, <2>5 DEF Separate
  <1>8. AllAccounted'
    BY <1>4, <1>6 DEF OnePlace, AllAccounted
  <1>. QED
    BY <1>1, <1>2, <1>4, <1>5, <1>7, <1>8 DEF OnePlace

\* close drops the buffer.
LEMMA WipeMove ==
    ASSUME RecordsOK, OnePlace, buf' = <<>>,
           lost' = [lost EXCEPT !.close = @ \cup Ids(buf)],
           UNCHANGED <<disk, chunk, file, accepted>>
    PROVE  /\ OnePlace'
           /\ Kept' = Ids(disk) /\ InFlight' = InFlight
           /\ Lost' = Lost \cup Ids(buf)
  <1>1. Ids(buf') = {} /\ Distinct(buf')
    BY IdsEmpty
  <1>2. /\ Lost' = Lost \cup Ids(buf) /\ Kept' = Ids(disk) /\ InFlight' = InFlight
        /\ Ids(file') = Ids(file)
    BY <1>1 DEF Lost, Kept, InFlight, RecordsOK
  <1>3. /\ Ids(buf) \cap Ids(disk) = {}
        /\ Ids(file) \cap (Kept \cup InFlight) = {}
        /\ Lost \cap (Kept \cup InFlight \cup Ids(file)) = {}
        /\ Kept \cap InFlight = {}
        /\ Kept = Ids(buf) \cup Ids(disk)
    BY InFlightMember DEF OnePlace, Separate, Kept
  <1>4. NoDuplicate'
    BY <1>1 DEF OnePlace, NoDuplicate
  <1>5. Separate'
    <2>1. \A p, q \in Threads : p # q => Ids(chunk'[p]) \cap Ids(chunk'[q]) = {}
      BY DEF OnePlace, Separate
    <2>2. ASSUME NEW p \in Threads PROVE Ids(chunk'[p]) \cap Kept' = {}
      BY <1>2, <1>3 DEF OnePlace, Separate
    <2>3. Ids(file') \cap (Kept' \cup InFlight') = {}
      BY <1>2, <1>3
    <2>4. Lost' \cap (Kept' \cup InFlight' \cup Ids(file')) = {}
      BY <1>2, <1>3
    <2>. QED
      BY <1>1, <2>1, <2>2, <2>3, <2>4 DEF Separate
  <1>6. AllAccounted'
    BY <1>2, <1>3 DEF OnePlace, AllAccounted
  <1>. QED
    BY <1>2, <1>4, <1>5, <1>6 DEF OnePlace

\* A death leaves the mmap file, and nothing in flight.
LEMMA DieMove ==
    ASSUME RecordsOK, OnePlace, OneMapFile, Die
    PROVE  /\ OnePlace'
           /\ Kept' = Ids(MapFile) /\ InFlight' = {}
           /\ \E done \in SUBSET InFlight :
                /\ Ids(file') = Ids(file) \cup done
                /\ Lost' = Lost \cup (InFlight \ done) \cup (IF mapped THEN {} ELSE Ids(buf))
  <1>1. PICK p \in Threads : \E n \in 0..Len(chunk[p]) :
            /\ file' = file \o SubSeq(chunk[p], 1, n)
            /\ lost' = [lost EXCEPT !.crash =
                 @ \cup (InFlight \ Ids(SubSeq(chunk[p], 1, n)))
                   \cup (IF mapped THEN {} ELSE Ids(buf))]
    BY DEF Die
  <1>2. PICK n \in 0..Len(chunk[p]) :
            /\ file' = file \o SubSeq(chunk[p], 1, n)
            /\ lost' = [lost EXCEPT !.crash =
                 @ \cup (InFlight \ Ids(SubSeq(chunk[p], 1, n)))
                   \cup (IF mapped THEN {} ELSE Ids(buf))]
    BY <1>1
  <1> DEFINE w == SubSeq(chunk[p], 1, n)
             H == IF mapped THEN {} ELSE Ids(buf)
             M == Ids(MapFile)
  <1>3. chunk[p] \in Seq(Record) /\ file \in Seq(Record) /\ Distinct(chunk[p])
    BY DEF RecordsOK, OnePlace, NoDuplicate
  <1>4. Ids(w) \subseteq Ids(chunk[p]) /\ Distinct(w) /\ w \in Seq(Record)
    <2>1. n \in 0..Len(chunk[p])
      BY <1>2
    <2>. QED
      BY <1>3, <2>1, PrefixRecords, PrefixType
  <1>5. file' = file \o w /\ lost' = [lost EXCEPT !.crash = @ \cup (InFlight \ Ids(w)) \cup H]
    BY <1>2
  <1>6. Kept = M \cup H /\ M \cap H = {}
    BY MapSplit
  <1>7. /\ Ids(chunk[p]) \subseteq InFlight
        /\ Ids(file) \cap (Kept \cup InFlight) = {}
        /\ Lost \cap (Kept \cup InFlight \cup Ids(file)) = {}
        /\ Kept \cap InFlight = {}
        /\ Kept \cup InFlight \cup Ids(file) \cup Lost = 1..accepted
    BY InFlightMember DEF OnePlace, Separate, AllAccounted
  <1>8. Ids(buf') = {} /\ Distinct(buf') /\ disk' = MapFile /\ accepted' = accepted
    BY IdsEmpty DEF Die
  <1>9. \A q \in Threads : Ids(chunk'[q]) = {} /\ Distinct(chunk'[q])
    BY IdsEmpty DEF Die
  <1>10. Kept' = M /\ InFlight' = {}
    <2>1. InFlight' = {}
      BY <1>9, InFlightMember
    <2>2. Ids(disk') = M
      BY <1>8
    <2>. QED
      BY <1>8, <2>1, <2>2 DEF Kept
  <1>11. Distinct(disk')
    BY <1>8 DEF MapFile, OnePlace, NoDuplicate
  <1> HIDE DEF w, H, M
  <1>12. Ids(file') = Ids(file) \cup Ids(w) /\ Distinct(file')
    <2>1. Ids(file) \cap Ids(w) = {} /\ Distinct(file)
      BY <1>4, <1>7 DEF OnePlace, NoDuplicate
    <2>. QED
      BY <1>3, <1>4, <1>5, <2>1, IdsConcat, DistinctConcat
  <1>13. Lost' = Lost \cup (InFlight \ Ids(w)) \cup H
    BY <1>5 DEF Lost, RecordsOK
  <1>14. NoDuplicate'
    BY <1>8, <1>9, <1>11, <1>12 DEF NoDuplicate
  <1>15. Separate'
    <2>1. Ids(file') \cap (Kept' \cup InFlight') = {}
      BY <1>4, <1>6, <1>7, <1>10, <1>12
    <2>2. Lost' \cap (Kept' \cup InFlight' \cup Ids(file')) = {}
      BY <1>4, <1>6, <1>7, <1>10, <1>12, <1>13
    <2>. QED
      BY <1>8, <1>9, <2>1, <2>2 DEF Separate
  <1>16. AllAccounted'
    <2>1. Kept' \cup InFlight' \cup Ids(file') \cup Lost' = 1..accepted
      BY <1>4, <1>6, <1>7, <1>10, <1>12, <1>13
    <2>. QED
      BY <1>8, <2>1 DEF AllAccounted
  <1>17. Ids(w) \in SUBSET InFlight
    BY <1>4, <1>7
  <1>. QED
    BY <1>10, <1>12, <1>13, <1>14, <1>15, <1>16, <1>17 DEF OnePlace, H, M

-----------------------------------------------------------------------------
(* The invariant, action by action.                                        *)

LEMMA RecordsInit == Init => RecordsInv
  <1>. SUFFICES ASSUME Init PROVE RecordsInv
    OBVIOUS
  <1>1. /\ Ids(buf) = {} /\ Ids(disk) = {} /\ Ids(file) = {}
        /\ \A p \in Threads : Ids(chunk[p]) = {} /\ Distinct(chunk[p])
        /\ Distinct(buf) /\ Distinct(disk) /\ Distinct(file)
    BY IdsEmpty DEF Init
  <1>2. InFlight = {} /\ Kept = {} /\ Lost = {}
    BY <1>1, InFlightMember DEF Kept, Lost, Init
  <1>3. 1..accepted = {}
    BY DEF Init
  <1>4. OnePlace
    BY <1>1, <1>2, <1>3 DEF OnePlace, NoDuplicate, Separate, AllAccounted
  <1>5. ChunkHolders /\ OneMapFile
    BY DEF Init, ChunkHolders, OneMapFile, Threads
  <1>. QED
    BY <1>4, <1>5 DEF RecordsInv

LEMMA MapFileStep ==
    ASSUME TypeOK, RecordsInv, [Next]_vars
    PROVE  OneMapFile'
  <1>. USE DEF RecordsInv, OneMapFile
  <1>1. CASE UNCHANGED <<mapped, disk>>
    BY <1>1
  <1>2. ASSUME NEW t \in Callers, OpenMap(t) PROVE OneMapFile'
    BY <1>2 DEF OpenMap
  <1>3. ASSUME NEW t \in Callers, CloseWipe(t) PROVE OneMapFile'
    BY <1>3 DEF CloseWipe
  <1>4. CASE Die
    BY <1>4 DEF Die
  <1>5. CASE UNCHANGED vars
    BY <1>1, <1>5 DEF vars, program, records
  <1>6. ASSUME NEW t \in Callers, Request(t) PROVE UNCHANGED <<mapped, disk>>
    BY <1>6 DEF Request, Log, FlushSyncSkip, FlushSync, Flush, SetMode, Open, Close,
       records, program
  <1>7. ASSUME NEW t \in Callers, Step(t)
        PROVE  OpenMap(t) \/ CloseWipe(t) \/ Die \/ UNCHANGED <<mapped, disk>>
    BY <1>7 DEF Step, ChooseMode, AppendAsync, FormatSync, WriteChunk, FlushSyncTake,
       OpenDrain, OpenLive, OpenMode, OpenTips, Tip, OpenRecover, OpenStart, CloseStop, CloseSet,
       CloseNotify, CloseJoin, CloseJoined, Segfault, records, program
  <1>8. CASE WorkerStep \/ WorkerTimeout
    BY <1>1, <1>4, <1>8 DEF WorkerStep, WorkerFlush, WorkerWrite, WorkerCheck, WorkerWait,
       WorkerTimeout, WorkerExit, Segfault, records, program
  <1>9. CASE Crash
    BY <1>4, <1>9 DEF Crash
  <1>. QED
    BY <1>1, <1>2, <1>3, <1>4, <1>5, <1>6, <1>7, <1>8, <1>9 DEF Next

LEMMA HoldersStep ==
    ASSUME ConstantsAssumption, TypeOK, ChunkHolders, [Next]_vars
    PROVE  ChunkHolders'
  <1> DEFINE Holds == {"live", "setMode", "begin", "recover", "write"}
             CallerPart == \A u \in Callers : pc[u] \notin Holds => chunk[u] = <<>>
             WorkerPart == worker # "write" => chunk[Worker] = <<>>
  <1>. SUFFICES CallerPart' /\ WorkerPart'
    BY DEF ChunkHolders
  <1>1. CallerPart /\ WorkerPart
    BY DEF ChunkHolders
  <1>2. /\ Callers \subseteq Threads /\ Worker \in Threads /\ Worker \notin Callers
        /\ pc \in [Callers -> Labels] /\ chunk \in [Threads -> Seq(Record)]
        /\ mode \in {"async", "sync"}
    BY DEF Threads, ConstantsAssumption, TypeOK, ControlOK, RecordsOK
  \* A caller that moves without a chunk, or gives one up, or takes one to hold.
  <1>3. ASSUME NEW t \in Callers, NEW label, pc' = [pc EXCEPT ![t] = label],
               \A u \in Callers : u # t => chunk'[u] = chunk[u],
               label \notin Holds => chunk'[t] = <<>>
        PROVE  CallerPart'
    <2>. SUFFICES ASSUME NEW u \in Callers, pc'[u] \notin Holds PROVE chunk'[u] = <<>>
      OBVIOUS
    <2>1. CASE u = t
      BY <1>2, <1>3, <2>1
    <2>2. CASE u # t
      BY <1>1, <1>2, <1>3, <2>2
    <2>. QED
      BY <2>1, <2>2
  <1>4. ASSUME UNCHANGED <<pc, chunk>> PROVE CallerPart'
    BY <1>1, <1>4
  <1>5. ASSUME chunk'[Worker] = chunk[Worker],
               worker' = worker \/ worker' = Notified(worker)
                 \/ (worker = "off" /\ worker' = "lock")
        PROVE  WorkerPart'
    BY <1>1, <1>5 DEF Notified
  <1>6. ASSUME Die PROVE CallerPart' /\ WorkerPart'
    BY <1>2, <1>6 DEF Die
  <1>7. ASSUME NEW t \in Callers, Request(t) PROVE CallerPart' /\ WorkerPart'
    <2>1. chunk' = chunk
      BY <1>7 DEF Request, Log, FlushSyncSkip, FlushSync, Flush, SetMode, Open, Close,
         records
    <2>2. WorkerPart'
      <3>1. CASE Flush(t)
        BY <1>5, <2>1, <3>1 DEF Flush
      <3>2. CASE SetMode(t)
        BY <1>5, <2>1, <3>2 DEF SetMode, ModeEffect
      <3>. QED
        BY <1>5, <1>7, <2>1, <3>1, <3>2
        DEF Request, Log, FlushSyncSkip, FlushSync, Open, Close, program
    <2>3. CASE UNCHANGED pc
      BY <1>4, <2>1, <2>2, <2>3
    <2>4. CASE \E op, label : Call(t, op, label)
      <3>1. PICK label : pc' = [pc EXCEPT ![t] = label]
        BY <2>4 DEF Call
      <3>2. chunk[t] = <<>>
        BY <1>1, <2>4 DEF Call
      <3>. QED
        BY <1>3, <2>1, <2>2, <3>1, <3>2
    <2>. QED
      BY <1>7, <2>3, <2>4 DEF Request, Log, FlushSyncSkip, FlushSync, Flush, SetMode,
         Open, Close, program
  <1>8. ASSUME NEW t \in Callers, Step(t) PROVE CallerPart' /\ WorkerPart'
    <2>1. CASE AppendAsync(t)
      <3>1. chunk' = chunk /\ chunk[t] = <<>> /\ \E l : pc' = [pc EXCEPT ![t] = l]
        BY <1>1, <2>1 DEF AppendAsync, Goto
      <3>2. worker' = worker \/ worker' = Notified(worker)
        BY <2>1 DEF AppendAsync
      <3>. QED
        BY <1>3, <1>5, <3>1, <3>2
    <2>2. CASE FormatSync(t)
      <3>1. /\ worker' = worker /\ pc' = [pc EXCEPT ![t] = "write"]
            /\ \A q \in Threads : q # t => chunk'[q] = chunk[q]
        BY <1>2, <2>2 DEF FormatSync, Goto
      <3>. QED
        BY <1>2, <1>3, <1>5, <3>1
    <2>3. CASE FlushSyncTake(t)
      <3>1. worker' = worker /\ chunk[t] = <<>>
        BY <1>1, <2>3 DEF FlushSyncTake
      <3>2. /\ \A q \in Threads : q # t => chunk'[q] = chunk[q]
            /\ \/ pc' = [pc EXCEPT ![t] = "write"]
               \/ chunk' = chunk /\ pc' = [pc EXCEPT ![t] = "idle"]
        BY <1>2, <2>3 DEF FlushSyncTake, TakeBuffer, Goto
      <3>. QED
        BY <1>2, <1>3, <1>5, <3>1, <3>2
    <2>4. CASE WriteChunk(t) \/ OpenRecover(t)
      <3>1. /\ worker' = worker /\ \E l : pc' = [pc EXCEPT ![t] = l]
            /\ chunk' = [chunk EXCEPT ![t] = <<>>]
        BY <2>4 DEF WriteChunk, OpenRecover, Goto
      <3>. QED
        BY <1>2, <1>3, <1>5, <3>1
    <2>5. CASE OpenDrain(t)
      <3>1. /\ worker' = worker /\ pc' = [pc EXCEPT ![t] = "live"]
            /\ chunk' = [chunk EXCEPT ![t] = buf]
        BY <2>5 DEF OpenDrain, Goto, TakeBuffer
      <3>. QED
        BY <1>2, <1>3, <1>5, <3>1
    <2>6. CASE OpenMode(t)
      <3>1. chunk' = chunk
        BY <2>6 DEF OpenMode, records
      <3>2. worker' = Notified(worker) \/ (worker = "off" /\ worker' = "lock")
        BY <2>6 DEF OpenMode, ModeEffect
      <3>3. pc' = [pc EXCEPT ![t] = IF chunk[t] = <<>> THEN "start" ELSE "begin"]
        BY <2>6 DEF OpenMode, Goto
      <3>. QED
        BY <1>3, <1>5, <3>1, <3>2, <3>3
    <2>10. CASE OpenLive(t)
      <3>1. chunk' = chunk /\ worker' = worker /\ pc' = [pc EXCEPT ![t] = "setMode"]
        BY <2>10 DEF OpenLive, Goto, records
      <3>. QED
        BY <1>3, <1>5, <3>1
    <2>7. CASE OpenTips(t)
      <3>1. chunk' = chunk /\ worker' = worker
        BY <2>7 DEF OpenTips, Tip
      <3>2. CASE pc[t] = "begin"
        <4>1. pc' = [pc EXCEPT ![t] = "recover"]
          BY <2>7, <3>2 DEF OpenTips, Tip, Goto
        <4>. QED
          BY <1>3, <1>5, <3>1, <4>1
      <3>3. CASE pc[t] # "begin"
        <4>1. chunk[t] = <<>> /\ \E l : pc' = [pc EXCEPT ![t] = l]
          BY <1>1, <2>7, <3>3 DEF OpenTips, Tip, Goto
        <4>. QED
          BY <1>3, <1>5, <3>1, <4>1
      <3>. QED
        BY <3>2, <3>3
    <2>8. CASE \/ ChooseMode(t) \/ OpenMap(t) \/ OpenStart(t) \/ CloseStop(t)
               \/ CloseSet(t) \/ CloseNotify(t) \/ CloseJoin(t) \/ CloseJoined(t)
               \/ CloseWipe(t)
      <3>1. chunk' = chunk /\ chunk[t] = <<>> /\ \E l : pc' = [pc EXCEPT ![t] = l]
        BY <1>1, <2>8 DEF ChooseMode, OpenMap, OpenStart, CloseStop, CloseSet, CloseNotify,
           CloseJoin, CloseJoined, CloseWipe, EnterAppender, Goto, records
      <3>2. worker' = worker \/ worker' = Notified(worker)
        BY <2>8 DEF ChooseMode, OpenMap, OpenStart, CloseStop, CloseSet, CloseNotify,
           CloseJoin, CloseJoined, CloseWipe
      <3>. QED
        BY <1>3, <1>5, <3>1, <3>2
    <2>9. CASE Segfault(t)
      BY <1>6, <2>9 DEF Segfault
    <2> HIDE DEF CallerPart, WorkerPart
    <2>. QED
      BY <1>8, <2>1, <2>2, <2>3, <2>4, <2>5, <2>6, <2>7, <2>8, <2>9, <2>10 DEF Step
  <1>9. CASE (WorkerStep \/ WorkerTimeout) /\ ~Segfault(Worker)
    <2>1. pc' = pc /\ \A u \in Callers : chunk'[u] = chunk[u]
      BY <1>2, <1>9 DEF WorkerStep, WorkerFlush, TakeBuffer, WorkerWrite, WorkerCheck,
         WorkerWait, WorkerTimeout, WorkerExit, records, program
    <2>2. CASE WorkerFlush
      BY <1>1, <1>2, <2>2 DEF WorkerFlush, TakeBuffer
    <2>3. CASE WorkerWrite
      BY <1>1, <1>2, <2>3 DEF WorkerWrite
    <2>4. CASE WorkerCheck \/ WorkerWait \/ WorkerTimeout \/ WorkerExit
      BY <1>1, <2>4 DEF WorkerCheck, WorkerWait, WorkerTimeout, WorkerExit, records
    <2>5. CallerPart'
      BY <1>1, <2>1
    <2>. QED
      BY <1>9, <2>2, <2>3, <2>4, <2>5 DEF WorkerStep
  <1>10. CASE Crash \/ Segfault(Worker)
    BY <1>6, <1>10 DEF Crash, Segfault
  <1>11. CASE UNCHANGED vars
    BY <1>4, <1>5, <1>11 DEF vars, program, records
  <1> HIDE DEF CallerPart, WorkerPart
  <1>. QED
    BY <1>7, <1>8, <1>9, <1>10, <1>11 DEF Next, WorkerStep

LEMMA OnePlaceStep ==
    ASSUME ConstantsAssumption, TypeOK, RecordsInv, [Next]_vars
    PROVE  OnePlace'
  <1>1. /\ RecordsOK /\ OnePlace /\ ChunkHolders /\ OneMapFile
        /\ Callers \subseteq Threads /\ Worker \in Threads
    BY DEF TypeOK, RecordsInv, Threads
  <1>2. ASSUME NEW t \in Callers, Request(t) PROVE OnePlace'
    BY <1>1, <1>2, KeepsRecords DEF Request, Log, FlushSyncSkip, FlushSync, Flush,
       SetMode, Open, Close
  <1>3. ASSUME NEW t \in Callers, Step(t) PROVE OnePlace'
    <2>1. CASE AppendAsync(t)
      <3>1. CASE ptr /\ Len(buf) < Capacity
        <4>1. PICK k \in Kinds : /\ buf' = Append(buf, [id |-> accepted + 1, kind |-> k])
                                 /\ accepted' = accepted + 1
          BY <2>1, <3>1 DEF AppendAsync, KindOf, Kinds
        <4>2. UNCHANGED <<disk, file, chunk, lost>>
          BY <2>1 DEF AppendAsync
        <4>. QED
          BY <1>1, <4>1, <4>2, AppendMove
      <3>2. CASE ~(ptr /\ Len(buf) < Capacity)
        BY <1>1, <2>1, <3>2, KeepsRecords DEF AppendAsync, records
      <3>. QED
        BY <3>1, <3>2
    <2>2. CASE FormatSync(t)
      <3>1. chunk[t] = <<>> /\ KindOf(t) \in Kinds
        BY <1>1, <2>2 DEF FormatSync, ChunkHolders, KindOf, Kinds
      <3>2. /\ chunk' = [chunk EXCEPT ![t] =
                           <<[id |-> accepted + 1, kind |-> KindOf(t)]>>]
            /\ accepted' = accepted + 1 /\ UNCHANGED <<buf, disk, file, lost>>
        BY <2>2 DEF FormatSync
      <3>. QED
        BY <1>1, <3>1, <3>2, FormatMove
    <2>3. CASE WriteChunk(t)
      BY <1>1, <2>3, WriteMove DEF WriteChunk
    <2>4. CASE FlushSyncTake(t)
      <3>1. chunk[t] = <<>>
        BY <1>1, <2>4 DEF FlushSyncTake, ChunkHolders
      <3>2. CASE ptr /\ buf # <<>>
        BY <1>1, <2>4, <3>1, <3>2, TakeMove DEF FlushSyncTake
      <3>3. CASE ~(ptr /\ buf # <<>>)
        BY <1>1, <2>4, <3>3, KeepsRecords DEF FlushSyncTake, records
      <3>. QED
        BY <3>2, <3>3
    <2>5. CASE OpenMap(t)
      <3>1. PICK ok \in BOOLEAN : /\ buf' = IF ok THEN MapFile ELSE <<>>
                                  /\ disk' = IF ok THEN <<>> ELSE MapFile
        BY <2>5 DEF OpenMap, ConstantsAssumption
      <3>2. /\ lost' = [lost EXCEPT !.close = @ \cup (IF mapped THEN {} ELSE Ids(buf))]
            /\ UNCHANGED <<chunk, file, accepted>>
        BY <2>5 DEF OpenMap
      <3>3. mapped \in BOOLEAN
        BY DEF TypeOK, ControlOK
      <3>. QED
        BY <1>1, <3>1, <3>2, <3>3, MapMove
    <2>6. CASE OpenDrain(t)
      <3>1. chunk[t] = <<>>
        BY <1>1, <2>6 DEF OpenDrain, ChunkHolders
      <3>. QED
        BY <1>1, <2>6, <3>1, TakeMove DEF OpenDrain
    <2>7. CASE ChooseMode(t) \/ OpenLive(t) \/ OpenMode(t) \/ OpenStart(t)
      BY <1>1, <2>7, KeepsRecords DEF ChooseMode, OpenLive, OpenMode, OpenStart
    <2>8. CASE OpenTips(t)
      <3>1. PICK m \in Marks : LogToFile(<<Mark(m)>>)
        BY <2>8 DEF OpenTips, Tip, Marks
      <3>2. UNCHANGED <<buf, disk, chunk, accepted>>
        BY <2>8 DEF OpenTips, Tip
      <3>. QED
        BY <1>1, <3>1, <3>2, MarkMove
    <2>9. CASE OpenRecover(t)
      BY <1>1, <2>9, WriteMove DEF OpenRecover
    <2>10. CASE CloseWipe(t)
      BY <1>1, <2>10, WipeMove DEF CloseWipe
    <2>11. CASE \/ CloseStop(t) \/ CloseSet(t) \/ CloseNotify(t) \/ CloseJoin(t)
                \/ CloseJoined(t)
      BY <1>1, <2>11, KeepsRecords DEF CloseStop, CloseSet, CloseNotify, CloseJoin,
         CloseJoined
    <2>12. CASE Segfault(t)
      BY <1>1, <2>12, DieMove DEF Segfault
    <2>. QED
      BY <1>3, <2>1, <2>2, <2>3, <2>4, <2>5, <2>6, <2>7, <2>8, <2>9, <2>10, <2>11,
         <2>12 DEF Step
  <1>4. CASE WorkerStep \/ WorkerTimeout
    <2>1. CASE WorkerFlush
      <3>1. chunk[Worker] = <<>>
        BY <1>1, <2>1 DEF WorkerFlush, ChunkHolders
      <3>2. CASE ptr
        BY <1>1, <2>1, <3>1, <3>2, TakeMove DEF WorkerFlush
      <3>3. CASE ~ptr
        BY <1>1, <2>1, <3>3, KeepsRecords DEF WorkerFlush, records
      <3>. QED
        BY <3>2, <3>3
    <2>2. CASE WorkerWrite
      BY <1>1, <2>2, WriteMove DEF WorkerWrite
    <2>3. CASE WorkerCheck \/ WorkerWait \/ WorkerTimeout \/ WorkerExit
      BY <1>1, <2>3, KeepsRecords DEF WorkerCheck, WorkerWait, WorkerTimeout, WorkerExit
    <2>4. CASE Segfault(Worker)
      BY <1>1, <2>4, DieMove DEF Segfault
    <2>. QED
      BY <1>4, <2>1, <2>2, <2>3, <2>4 DEF WorkerStep
  <1>5. CASE Crash
    BY <1>1, <1>5, DieMove DEF Crash
  <1>6. CASE UNCHANGED vars
    BY <1>1, <1>6, KeepsRecords DEF vars
  <1>. QED
    BY <1>2, <1>3, <1>4, <1>5, <1>6 DEF Next

\* The invariant the proof of OnePlace needs, for any number of callers, any
\* capacity and any bounds: appender.cc never has a record in two places, never
\* drops one silently, and never writes one twice.
THEOREM RecordsInvariant == Spec => []RecordsInv
  <1>1. ASSUME ConstantsAssumption, TypeOK, RecordsInv, [Next]_vars
        PROVE  RecordsInv'
    <2>1. ChunkHolders'
      BY <1>1, HoldersStep DEF RecordsInv
    <2>2. OnePlace' /\ OneMapFile'
      BY <1>1, OnePlaceStep, MapFileStep
    <2>. QED
      BY <2>1, <2>2 DEF RecordsInv
  <1>. QED
    BY <1>1, ConstantsAssumption, TypeCorrect, RecordsInit, PTL DEF Spec

\* Every record the appender accepted is in the buffer or the mmap file, in one
\* thread's hands, in the log file once, or in one of the known losses.
THEOREM OnePlaceAlways == Spec => []OnePlace
  <1>1. RecordsInv => OnePlace
    BY DEF RecordsInv
  <1>. QED
    BY <1>1, RecordsInvariant, PTL

-----------------------------------------------------------------------------
(* The appender whose mmap always opens implements the abstract log of     *)
(* DurableLog, and keeps the order of its records.                         *)

\* OpenMmapFile succeeds.  (On the heap a crash also takes what is buffered,
\* and an older session may still wait in the mmap file.)
MmapOpens == MapOutcomes \subseteq {TRUE}

\* Then *sg_log_buff is the mmap'd block, and a missing one buffers nothing.
MmapInv ==
    /\ mapped = ptr
    /\ ptr \/ buf = <<>>

LEMMA MmapInit == Init => MmapInv
  BY DEF Init, MmapInv

LEMMA MmapStep ==
    ASSUME MmapOpens, TypeOK, MmapInv, [Next]_vars
    PROVE  MmapInv'
  <1>. USE DEF MmapInv
  <1>1. CASE UNCHANGED <<ptr, mapped, buf>>
    BY <1>1
  <1>2. CASE UNCHANGED <<ptr, mapped>> /\ buf' = <<>>
    BY <1>2
  <1>3. ASSUME NEW t \in Callers, AppendAsync(t) PROVE MmapInv'
    BY <1>3 DEF AppendAsync
  <1>4. ASSUME NEW t \in Callers, OpenMap(t) PROVE MmapInv'
    BY <1>4 DEF OpenMap, MmapOpens
  <1>5. ASSUME NEW t \in Callers, CloseWipe(t) PROVE MmapInv'
    BY <1>5 DEF CloseWipe
  <1>6. CASE Die
    BY <1>6 DEF Die
  <1>7. ASSUME NEW t \in Callers, Request(t) PROVE UNCHANGED <<ptr, mapped, buf>>
    BY <1>7 DEF Request, Log, FlushSyncSkip, FlushSync, Flush, SetMode, Open, Close,
       records, program
  <1>8. ASSUME NEW t \in Callers, Step(t) PROVE MmapInv'
    <2>1. CASE FlushSyncTake(t) \/ OpenDrain(t)
      BY <1>1, <1>2, <2>1 DEF FlushSyncTake, OpenDrain, TakeBuffer
    <2>2. CASE \/ ChooseMode(t) \/ FormatSync(t) \/ WriteChunk(t) \/ OpenLive(t)
               \/ OpenMode(t) \/ OpenTips(t)
               \/ OpenRecover(t) \/ OpenStart(t) \/ CloseStop(t) \/ CloseSet(t)
               \/ CloseNotify(t) \/ CloseJoin(t) \/ CloseJoined(t)
      BY <1>1, <2>2 DEF ChooseMode, FormatSync, WriteChunk, OpenLive, OpenMode,
         OpenTips, Tip, OpenRecover, OpenStart, CloseStop, CloseSet, CloseNotify, CloseJoin, CloseJoined, records,
         program
    <2>. QED
      BY <1>3, <1>4, <1>5, <1>6, <1>8, <2>1, <2>2 DEF Step, Segfault
  <1>9. CASE WorkerStep \/ WorkerTimeout
    BY <1>1, <1>2, <1>6, <1>9 DEF WorkerStep, WorkerFlush, TakeBuffer, WorkerWrite,
       WorkerCheck, WorkerWait, WorkerTimeout, WorkerExit, Segfault, records, program
  <1>10. CASE Crash
    BY <1>6, <1>10 DEF Crash
  <1>. QED
    BY <1>1, <1>7, <1>8, <1>9, <1>10 DEF Next, vars, records, program

-----------------------------------------------------------------------------
(* Each step is a step of the abstract log, or does not touch a record.    *)

LogStep == [Durable!Next]_(Durable!logVars)

LEMMA KeepsLog == UNCHANGED records => LogStep
  BY DEF records, LogStep, Durable!logVars, Kept, InFlight, Lost

\* A flush of the mmap'd block takes all that is kept.
LEMMA TakeIsTake ==
    ASSUME TypeOK, RecordsInv, MmapInv, NEW p \in Threads, chunk[p] = <<>>,
           TakeBuffer(p), ptr, UNCHANGED <<disk, file, accepted, lost>>
    PROVE  LogStep
  <1>1. RecordsOK /\ OnePlace /\ disk = <<>>
    BY DEF TypeOK, RecordsInv, OneMapFile, MmapInv
  <1>2. Kept = Ids(buf) /\ Ids(disk) = {}
    BY <1>1, IdsEmpty DEF Kept
  <1>3. /\ Kept' = Ids(disk) /\ InFlight' = InFlight \cup Ids(buf)
        /\ Lost' = Lost /\ Ids(file') = Ids(file)
    BY <1>1, TakeMove
  <1>4. Durable!Take
    BY <1>2, <1>3 DEF Durable!Take
  <1>. QED
    BY <1>4 DEF LogStep, Durable!Next

\* A chunk reaches the file, or is lost in a failed write.
LEMMA WriteIsWrite ==
    ASSUME TypeOK, RecordsInv, NEW p \in Threads, LogToFile(chunk[p]),
           chunk' = [chunk EXCEPT ![p] = <<>>], UNCHANGED <<buf, disk, accepted>>
    PROVE  LogStep
  <1>1. RecordsOK /\ OnePlace
    BY DEF TypeOK, RecordsInv
  <1>2. /\ Kept' = Kept /\ InFlight' = InFlight \ Ids(chunk[p])
        /\ Ids(chunk[p]) \subseteq InFlight
        /\ \/ Ids(file') = Ids(file) \cup Ids(chunk[p]) /\ Lost' = Lost
           \/ Ids(file') = Ids(file) /\ Lost' = Lost \cup Ids(chunk[p])
    BY <1>1, WriteMove
  <1>3. Durable!Write
    BY <1>2 DEF Durable!Write
  <1>. QED
    BY <1>3 DEF LogStep, Durable!Next

\* A death loses what is in flight and was not just written, and nothing else.
LEMMA DieIsCrash ==
    ASSUME TypeOK, RecordsInv, MmapInv, Die
    PROVE  LogStep
  <1>1. RecordsOK /\ OnePlace /\ OneMapFile
    BY DEF TypeOK, RecordsInv
  <1>2. Kept = Ids(MapFile) /\ (IF mapped THEN {} ELSE Ids(buf)) = {}
    BY <1>1, MapSplit, IdsEmpty DEF MmapInv
  <1>3. /\ Kept' = Ids(MapFile) /\ InFlight' = {}
        /\ \E done \in SUBSET InFlight :
             /\ Ids(file') = Ids(file) \cup done
             /\ Lost' = Lost \cup (InFlight \ done) \cup (IF mapped THEN {} ELSE Ids(buf))
    BY <1>1, DieMove
  <1>4. accepted' = accepted
    BY DEF Die
  <1>5. Durable!Crash
    BY <1>2, <1>3, <1>4 DEF Durable!Crash
  <1>. QED
    BY <1>5 DEF LogStep, Durable!Next

LEMMA CallerLogStep ==
    ASSUME MmapOpens, ConstantsAssumption, TypeOK, RecordsInv, MmapInv,
           NEW t \in Callers, Step(t)
    PROVE  LogStep
  <1>1. /\ RecordsOK /\ OnePlace /\ OneMapFile /\ ChunkHolders /\ t \in Threads
    BY DEF TypeOK, RecordsInv, Threads
  <1>2. CASE AppendAsync(t)
    <2>1. CASE ptr /\ Len(buf) < Capacity
      <3>1. PICK k \in Kinds : /\ buf' = Append(buf, [id |-> accepted + 1, kind |-> k])
                               /\ accepted' = accepted + 1
        BY <1>2, <2>1 DEF AppendAsync, KindOf, Kinds
      <3>2. UNCHANGED <<disk, file, chunk, lost>>
        BY <1>2 DEF AppendAsync
      <3>3. Durable!Accept
        BY <1>1, <3>1, <3>2, AppendMove DEF Durable!Accept
      <3>. QED
        BY <3>3 DEF LogStep, Durable!Next
    <2>2. CASE ~(ptr /\ Len(buf) < Capacity)
      BY <1>2, <2>2, KeepsLog DEF AppendAsync, records
    <2>. QED
      BY <2>1, <2>2
  <1>3. CASE FormatSync(t)
    <2>1. chunk[t] = <<>> /\ KindOf(t) \in Kinds
      BY <1>1, <1>3 DEF FormatSync, ChunkHolders, KindOf, Kinds
    <2>2. /\ chunk' = [chunk EXCEPT ![t] =
                         <<[id |-> accepted + 1, kind |-> KindOf(t)]>>]
          /\ accepted' = accepted + 1 /\ UNCHANGED <<buf, disk, file, lost>>
      BY <1>3 DEF FormatSync
    <2>3. Durable!Accept
      BY <1>1, <2>1, <2>2, FormatMove DEF Durable!Accept
    <2>. QED
      BY <2>3 DEF LogStep, Durable!Next
  <1>4. CASE WriteChunk(t) \/ OpenRecover(t)
    BY <1>1, <1>4, WriteIsWrite DEF WriteChunk, OpenRecover
  <1>5. CASE FlushSyncTake(t)
    <2>1. chunk[t] = <<>>
      BY <1>1, <1>5 DEF FlushSyncTake, ChunkHolders
    <2>2. CASE ptr /\ buf # <<>>
      BY <1>1, <1>5, <2>1, <2>2, TakeIsTake DEF FlushSyncTake
    <2>3. CASE ~(ptr /\ buf # <<>>)
      BY <1>5, <2>3, KeepsLog DEF FlushSyncTake, records
    <2>. QED
      BY <2>2, <2>3
  <1>6. CASE OpenMap(t)
    <2>1. /\ buf' = MapFile /\ disk' = <<>>
          /\ lost' = [lost EXCEPT !.close = @ \cup (IF mapped THEN {} ELSE Ids(buf))]
          /\ UNCHANGED <<chunk, file, accepted>>
      BY <1>6 DEF OpenMap, MmapOpens
    <2>2. mapped \in BOOLEAN
      BY DEF TypeOK, ControlOK
    <2>3. /\ Kept' = Ids(MapFile) /\ InFlight' = InFlight
          /\ Lost' = Lost \cup (IF mapped THEN {} ELSE Ids(buf))
      BY <1>1, <2>1, <2>2, MapMove
    <2>4. Kept = Ids(MapFile) /\ (IF mapped THEN {} ELSE Ids(buf)) = {}
      BY <1>1, MapSplit, IdsEmpty DEF MmapInv
    <2>. QED
      BY <2>1, <2>3, <2>4 DEF LogStep, Durable!logVars
  <1>7. CASE OpenDrain(t)
    <2>1. chunk[t] = <<>>
      BY <1>1, <1>7 DEF OpenDrain, ChunkHolders
    <2>. QED
      BY <1>1, <1>7, <2>1, TakeIsTake DEF OpenDrain
  <1>8. CASE OpenTips(t)
    <2>1. PICK m \in Marks : LogToFile(<<Mark(m)>>)
      BY <1>8 DEF OpenTips, Tip, Marks
    <2>2. UNCHANGED <<buf, disk, chunk, accepted>>
      BY <1>8 DEF OpenTips, Tip
    <2>3. UNCHANGED <<accepted, Kept, InFlight, Lost>> /\ Ids(file') = Ids(file)
      BY <1>1, <2>1, <2>2, MarkMove
    <2>. QED
      BY <2>3 DEF LogStep, Durable!logVars
  <1>9. CASE CloseWipe(t)
    <2>1. Ids(disk) = {} /\ Kept = Ids(buf)
      BY <1>1, <1>9, IdsEmpty DEF CloseWipe, OneMapFile, MmapInv, Kept
    <2>2. /\ Kept' = Ids(disk) /\ InFlight' = InFlight /\ Lost' = Lost \cup Ids(buf)
          /\ UNCHANGED <<accepted, file>>
      BY <1>1, <1>9, WipeMove DEF CloseWipe
    <2>3. Durable!Close
      BY <2>1, <2>2 DEF Durable!Close
    <2>. QED
      BY <2>3 DEF LogStep, Durable!Next
  <1>10. CASE Segfault(t)
    BY <1>10, DieIsCrash DEF Segfault
  <1>11. CASE \/ ChooseMode(t) \/ OpenLive(t) \/ OpenMode(t) \/ OpenStart(t)
              \/ CloseStop(t) \/ CloseSet(t) \/ CloseNotify(t) \/ CloseJoin(t)
              \/ CloseJoined(t)
    BY <1>11, KeepsLog DEF ChooseMode, OpenLive, OpenMode, OpenStart, CloseStop, CloseSet, CloseNotify,
       CloseJoin, CloseJoined
  <1>. QED
    BY <1>2, <1>3, <1>4, <1>5, <1>6, <1>7, <1>8, <1>9, <1>10, <1>11 DEF Step

\* Every step of the appender maps to a step of the abstract log or to a stutter.
LEMMA RefinementStep ==
    ASSUME MmapOpens, ConstantsAssumption, TypeOK, RecordsInv, MmapInv, [Next]_vars
    PROVE  LogStep
  <1>1. ASSUME NEW t \in Callers, Request(t) PROVE LogStep
    BY <1>1, KeepsLog DEF Request, Log, FlushSyncSkip, FlushSync, Flush, SetMode, Open,
       Close
  <1>2. CASE WorkerFlush
    <2>1. chunk[Worker] = <<>> /\ Worker \in Threads
      BY <1>2 DEF WorkerFlush, RecordsInv, ChunkHolders, Threads
    <2>2. CASE ptr
      BY <1>2, <2>1, <2>2, TakeIsTake DEF WorkerFlush
    <2>3. CASE ~ptr
      BY <1>2, <2>3, KeepsLog DEF WorkerFlush, records
    <2>. QED
      BY <2>2, <2>3
  <1>3. CASE WorkerWrite
    <2>1. Worker \in Threads
      BY DEF Threads
    <2>. QED
      BY <1>3, <2>1, WriteIsWrite DEF WorkerWrite
  <1>4. CASE WorkerCheck \/ WorkerWait \/ WorkerTimeout \/ WorkerExit
    BY <1>4, KeepsLog DEF WorkerCheck, WorkerWait, WorkerTimeout, WorkerExit
  <1>5. CASE Crash \/ Segfault(Worker)
    BY <1>5, DieIsCrash DEF Crash, Segfault
  <1>6. CASE UNCHANGED vars
    BY <1>6, KeepsLog DEF vars
  <1>. QED
    BY <1>1, <1>2, <1>3, <1>4, <1>5, <1>6, CallerLogStep DEF Next, WorkerStep

LEMMA RefinementInit == Init => Durable!Init
  <1>. SUFFICES ASSUME Init PROVE Durable!Init
    OBVIOUS
  <1>1. InFlight = {}
    BY IdsEmpty, InFlightMember DEF Init
  <1>. QED
    BY <1>1, IdsEmpty DEF Init, Durable!Init, Kept, Lost

\* While the mmap opens, the block is mapped exactly when there is a log buffer.
THEOREM MmapInvariant == ASSUME MmapOpens PROVE Spec => []MmapInv
  BY MmapInit, MmapStep, TypeCorrect, PTL DEF Spec

\* For any callers, modes and crashes, appender.cc moves its records only as the
\* abstract log does: in particular a crash never takes a record that waits in
\* the mmap file, and a close never one that some thread has taken to write.
THEOREM AppenderIsDurableLog == ASSUME MmapOpens PROVE Spec => ImplementsDurableLog
  <1>1. ASSUME ConstantsAssumption, TypeOK, RecordsInv, MmapInv, [Next]_vars
        PROVE  [Durable!Next]_(Durable!logVars)
    BY <1>1, RefinementStep DEF LogStep
  <1>. QED
    BY <1>1, RefinementInit, MmapInvariant, RecordsInvariant, TypeCorrect,
       ConstantsAssumption, PTL DEF Spec, ImplementsDurableLog, Durable!Spec
-----------------------------------------------------------------------------
(* The order of the records, while the mode is kAppednerAsync: a record of  *)
(* the synchronous mode is formatted and written by its own thread, and     *)
(* overtakes those that are buffered.                                      *)

NeverSync == Modes \subseteq {"async"}

AsyncInv ==
    /\ mode = "async"
    /\ \A t \in Callers : pc[t] # "sync"

\* What makes BufferIsNewest inductive: it holds for the mmap file too.
NewestInv == \A new \in Kept, old \in InFlight \cup Ids(file) : old < new

\* What makes FlushLeavesNothingBehind inductive: what a flush that still
\* writes will promise has left the buffer, and no flush of a past process
\* (or of a session before the mmap file was filled) is owed anything.
FlushInv ==
    /\ promised <= accepted /\ \A t \in Callers : owed[t] <= accepted
    /\ \A r \in Kept : r > promised
    /\ \A t \in Callers : pc[t] = "write" /\ job[t] = "flush" =>
         \A r \in Kept : r > owed[t]
    /\ disk # <<>> => \A t \in Callers : owed[t] = 0

\* One thread, w, opens, flushes, closes and sets the mode; the others only log.
\* (A setmode of another thread could start the asynchronous thread again while w
\* closes, after the join.)
OneOwner(w) == \A t \in Callers \ {w} : Ops[t] \subseteq {"log", "notify"}

\* What makes NoSegfault inductive: the asynchronous thread has a chunk only
\* while there is a buffer, and it has ended when close deletes it.
OwnerInv(w) ==
    /\ ~segv
    /\ ~closed => ptr
    /\ pc[w] \notin {"idle", "map", "flush"} => ptr
    /\ pc[w] \in {"notify", "join", "joining", "wipe"} => closed
    /\ pc[w] = "wipe" => worker = "off"
    /\ worker = "write" => ptr
    /\ \A t \in Callers \ {w} : pc[t] \in {"idle", "mode", "async"} /\ job[t] # "close"

Sorted(s) ==
    \A i, j \in DOMAIN s :
        i < j /\ s[i].id # 0 /\ s[j].id # 0 => s[i].id < s[j].id

\* A record may come before another when it is older, or when both were in
\* flight together.
Before(T, a, b) == a < b \/ <<a, b>> \in T

Ordered(T, s) ==
    \A i, j \in DOMAIN s :
        i < j /\ s[i].id # 0 /\ s[j].id # 0 => Before(T, s[i].id, s[j].id)

\* What makes FileInOrder inductive: the buffer and the chunks are sorted, and
\* whatever may still be written may come after what is in the file and before
\* or after the other chunks.
OrderInv ==
    /\ Sorted(buf) /\ Sorted(disk) /\ \A p \in Threads : Sorted(chunk[p])
    /\ Ordered(together, file)
    /\ \A old \in Ids(file), new \in InFlight : Before(together, old, new)
    /\ \A p, q \in Threads : p # q =>
         \A a \in Ids(chunk[p]), b \in Ids(chunk[q]) : Before(together, a, b)

LEMMA AsyncStep ==
    ASSUME NeverSync, TypeOK, AsyncInv, [Next]_vars
    PROVE  AsyncInv'
  <1>. /\ mode = "async" /\ pc \in [Callers -> Labels]
       /\ \A u \in Callers : pc[u] # "sync"
    BY DEF TypeOK, ControlOK, AsyncInv
  <1>. USE DEF AsyncInv
  <1>1. CASE UNCHANGED <<mode, pc>>
    BY <1>1
  <1>2. ASSUME NEW t \in Callers, NEW label, label # "sync", mode' = "async",
               pc' = [pc EXCEPT ![t] = label]
        PROVE  AsyncInv'
    BY <1>2
  <1>3. CASE Die
    BY <1>3 DEF Die
  <1>4. ASSUME NEW m \in Modes PROVE m = "async"
    BY DEF NeverSync
  <1>5. ASSUME NEW t \in Callers, Request(t) PROVE AsyncInv'
    <2>1. CASE SetMode(t)
      BY <1>4, <2>1 DEF SetMode, ModeEffect
    <2>. QED
      BY <1>1, <1>2, <1>5, <2>1 DEF Request, Log, FlushSyncSkip, FlushSync, Flush, Open,
         Close, Call, program
  <1>6. ASSUME NEW t \in Callers, Step(t) PROVE AsyncInv'
    <2>1. CASE OpenMode(t)
      BY <1>2, <1>4, <2>1 DEF OpenMode, ModeEffect, Goto
    <2>2. CASE AppendAsync(t) \/ WriteChunk(t)
      BY <1>2, <2>2 DEF AppendAsync, WriteChunk, Goto, Resume
    <2>3. CASE \/ ChooseMode(t) \/ FlushSyncTake(t) \/ OpenMap(t) \/ OpenDrain(t)
               \/ OpenLive(t) \/ OpenTips(t) \/ OpenRecover(t) \/ OpenStart(t) \/ CloseStop(t) \/ CloseSet(t)
               \/ CloseNotify(t) \/ CloseJoin(t) \/ CloseJoined(t) \/ CloseWipe(t)
      BY <1>2, <2>3 DEF ChooseMode, FlushSyncTake, OpenMap, OpenDrain, OpenLive,
         OpenTips, Tip, OpenRecover,
         OpenStart, CloseStop, EnterAppender, CloseSet, CloseNotify, CloseJoin,
         CloseJoined, CloseWipe, Goto
    <2>4. ~FormatSync(t)
      BY DEF FormatSync
    <2>. QED
      BY <1>3, <1>6, <2>1, <2>2, <2>3, <2>4 DEF Step, Segfault
  <1>7. CASE WorkerStep \/ WorkerTimeout
    BY <1>1, <1>3, <1>7 DEF WorkerStep, WorkerFlush, WorkerWrite, WorkerCheck,
       WorkerWait, WorkerTimeout, WorkerExit, Segfault, program
  <1>8. CASE Crash
    BY <1>3, <1>8 DEF Crash
  <1>. QED
    BY <1>1, <1>5, <1>6, <1>7, <1>8 DEF Next, vars, program

\* The asynchronous appender accepts records into the buffer only.
LEMMA AcceptsIntoBuffer ==
    ASSUME AsyncInv, [Next]_vars
    PROVE  UNCHANGED accepted \/ UNCHANGED chunk
  <1>1. ASSUME NEW t \in Callers, Request(t) PROVE UNCHANGED accepted
    BY <1>1 DEF Request, Log, FlushSyncSkip, FlushSync, Flush, SetMode, Open, Close,
       records
  <1>2. ASSUME NEW t \in Callers, Step(t) PROVE UNCHANGED accepted \/ UNCHANGED chunk
    <2>1. ~FormatSync(t)
      BY DEF FormatSync, AsyncInv
    <2>. QED
      BY <1>2, <2>1 DEF Step, ChooseMode, AppendAsync, WriteChunk, FlushSyncTake,
         OpenMap, OpenDrain, OpenLive, OpenMode, OpenTips, Tip, OpenRecover, OpenStart, CloseStop,
         CloseSet, CloseNotify, CloseJoin, CloseJoined, CloseWipe, Segfault, Die, records
  <1>3. CASE WorkerStep \/ WorkerTimeout \/ Crash
    BY <1>3 DEF WorkerStep, WorkerFlush, WorkerWrite, WorkerCheck, WorkerWait,
       WorkerTimeout, WorkerExit, Crash, Segfault, Die, records
  <1>. QED
    BY <1>1, <1>2, <1>3 DEF Next, vars, records

\* So of the steps of the abstract log, an acceptance only adds to what is kept.
LEMMA AsyncLogStep ==
    ASSUME TypeOK, OnePlace, AsyncInv, [Next]_vars, LogStep
    PROVE  \/ /\ accepted' = accepted + 1 /\ Kept' = Kept \cup {accepted'}
              /\ UNCHANGED <<InFlight, Ids(file)>>
           \/ /\ accepted' = accepted /\ Kept' \subseteq Kept
              /\ InFlight' \cup Ids(file)' \subseteq InFlight \cup Ids(file) \cup Kept
              /\ \/ Kept' = {}
                 \/ InFlight' \cup Ids(file)' \subseteq InFlight \cup Ids(file)
  <1>1. CASE Durable!Accept
    <2>1. accepted' = accepted + 1 /\ accepted \in Nat
      BY <1>1 DEF Durable!Accept, TypeOK, RecordsOK
    <2>2. UNCHANGED InFlight
      BY <2>1, AcceptsIntoBuffer DEF InFlight
    <2>3. accepted + 1 \notin InFlight
      BY FreshRecord DEF TypeOK
    <2>. QED
      BY <1>1, <2>1, <2>2, <2>3 DEF Durable!Accept
  <1>2. CASE Durable!Take \/ Durable!Write \/ Durable!Close
    BY <1>2 DEF Durable!Take, Durable!Write, Durable!Close
  <1>3. CASE Durable!Crash
    BY <1>3 DEF Durable!Crash
  <1>4. CASE UNCHANGED Durable!logVars
    BY <1>4 DEF Durable!logVars
  <1>. QED
    BY <1>1, <1>2, <1>3, <1>4 DEF LogStep, Durable!Next

LEMMA NewestStep ==
    ASSUME TypeOK, OnePlace, AsyncInv, NewestInv, [Next]_vars, LogStep
    PROVE  NewestInv'
  <1>1. /\ accepted \in Nat
        /\ \A old \in InFlight \cup Ids(file) : old \in 1..accepted
    BY DEF TypeOK, RecordsOK, OnePlace, AllAccounted
  <1>. SUFFICES ASSUME NEW new \in Kept', NEW old \in InFlight' \cup Ids(file)'
                PROVE  old < new
    BY DEF NewestInv
  <1>. QED
    BY <1>1, AsyncLogStep DEF NewestInv
\* Whatever is kept after a step was kept before it, or was accepted by it.
LEMMA KeptGrows ==
    ASSUME TypeOK, OnePlace, AsyncInv, [Next]_vars, LogStep
    PROVE  /\ accepted' >= accepted
           /\ \A r \in Kept' : r \in Kept \/ r > accepted
  <1>1. accepted \in Nat
    BY DEF TypeOK, RecordsOK
  <1>. QED
    BY <1>1, AsyncLogStep

\* The steps that finish no flush and start none.
LEMMA NoFlushStep ==
    ASSUME TypeOK, OnePlace, AsyncInv, FlushInv, [Next]_vars, LogStep,
           UNCHANGED <<owed, promised>>, disk' # <<>> => disk # <<>>,
           \A u \in Callers : pc'[u] = "write" /\ job'[u] = "flush"
                                => pc[u] = "write" /\ job[u] = "flush"
    PROVE  FlushInv'
  <1>1. /\ accepted \in Nat /\ accepted' \in Nat /\ promised \in Nat
        /\ \A u \in Callers : owed[u] \in Nat
        /\ \A r \in Kept : r \in Nat
        /\ \A r \in Kept' : r \in Nat
    <2>1. \A r \in Kept : r \in Nat
      BY IdsType DEF TypeOK, RecordsOK, Kept
    <2>2. accepted \in Nat /\ accepted' \in Nat
      BY AsyncLogStep DEF TypeOK, RecordsOK
    <2>3. \A r \in Kept' : r \in Nat
      BY <2>1, <2>2, AsyncLogStep
    <2>. QED
      BY <2>1, <2>2, <2>3 DEF TypeOK, HistoryOK
  <1>2. promised' <= accepted' /\ \A u \in Callers : owed'[u] <= accepted'
    BY <1>1, KeptGrows DEF FlushInv
  <1>3. \A r \in Kept' : r > promised'
    BY <1>1, KeptGrows DEF FlushInv
  <1>4. ASSUME NEW u \in Callers, pc'[u] = "write" /\ job'[u] = "flush",
               NEW r \in Kept'
        PROVE  r > owed'[u]
    BY <1>1, <1>4, KeptGrows DEF FlushInv
  <1>5. disk' # <<>> => \A u \in Callers : owed'[u] = 0
    BY DEF FlushInv
  <1>. QED
    BY <1>2, <1>3, <1>4, <1>5 DEF FlushInv

LEMMA FlushStep ==
    ASSUME MmapOpens, ConstantsAssumption, TypeOK, RecordsInv, MmapInv, AsyncInv,
           FlushInv, [Next]_vars, LogStep
    PROVE  FlushInv'
  <1>1. /\ OnePlace /\ OneMapFile /\ pc \in [Callers -> Labels]
        /\ job \in [Callers -> Operations \cup {"none"}]
        /\ accepted \in Nat /\ promised \in Nat /\ owed \in [Callers -> Nat]
        /\ \A r \in Kept : r \in Nat
    BY IdsType DEF TypeOK, ControlOK, RecordsOK, HistoryOK, RecordsInv, Kept
  <1> DEFINE FlushWrites == \A u \in Callers : pc'[u] = "write" /\ job'[u] = "flush"
                                => pc[u] = "write" /\ job[u] = "flush"
  \* A caller that goes anywhere but to the write of a flush.
  <1>2. ASSUME NEW t \in Callers, NEW label, label # "write" \/ job[t] # "flush",
               Goto(t, label)
        PROVE  FlushWrites
    <2>. SUFFICES ASSUME NEW u \in Callers, pc'[u] = "write" /\ job'[u] = "flush"
                  PROVE  pc[u] = "write" /\ job[u] = "flush"
      OBVIOUS
    <2>1. CASE u = t
      BY <1>1, <1>2, <2>1 DEF Goto
    <2>2. CASE u # t
      BY <1>1, <1>2, <2>2 DEF Goto
    <2>. QED
      BY <2>1, <2>2
  <1>3. ASSUME NEW t \in Callers, NEW op, NEW label, label # "write", Call(t, op, label)
        PROVE  FlushWrites
    BY <1>1, <1>3 DEF Call
  <1>4. CASE UNCHANGED <<owed, promised, disk>> /\ FlushWrites
    BY <1>1, <1>4, NoFlushStep
  <1>5. CASE UNCHANGED <<owed, promised, disk, pc, job>>
    BY <1>4, <1>5
  <1>6. CASE Die
    <2>1. /\ owed' = [u \in Callers |-> 0] /\ pc' = [u \in Callers |-> "idle"]
          /\ UNCHANGED <<accepted, promised>>
      BY <1>6 DEF Die
    <2>2. Kept' \subseteq Kept
      BY <1>1, <2>1, AsyncLogStep
    <2>. QED
      BY <1>1, <2>1, <2>2 DEF FlushInv
  \* A flush returns: what it promises has left the buffer.
  <1>7. ASSUME NEW t \in Callers, NEW label, Goto(t, label), label # "write",
               FlushReturns(t), \A r \in Kept : r > owed[t],
               UNCHANGED <<accepted, disk>>
        PROVE  FlushInv'
    <2>1. Kept' \subseteq Kept
      BY <1>1, <1>7, AsyncLogStep
    <2>2. /\ promised' \in {promised, owed[t]} /\ owed'[t] = 0
          /\ \A u \in Callers : u # t => owed'[u] = owed[u]
      BY <1>1, <1>7 DEF FlushReturns
    <2>3. \A u \in Callers : owed'[u] = owed[u] \/ owed'[u] = 0
      BY <2>2
    <2>4. promised' <= accepted' /\ \A u \in Callers : owed'[u] <= accepted'
      BY <1>1, <1>7, <2>2, <2>3 DEF FlushInv
    <2>5. \A r \in Kept' : r > promised'
      BY <1>7, <2>1, <2>2 DEF FlushInv
    <2>6. ASSUME NEW u \in Callers, pc'[u] = "write" /\ job'[u] = "flush",
                 NEW r \in Kept'
          PROVE  r > owed'[u]
      <3>1. u # t
        BY <1>1, <1>7, <2>6 DEF Goto
      <3>2. pc[u] = "write" /\ job[u] = "flush"
        BY <1>2, <1>7, <2>6
      <3>. QED
        BY <2>1, <2>2, <3>1, <3>2 DEF FlushInv
    <2>7. disk' # <<>> => \A u \in Callers : owed'[u] = 0
      BY <1>7, <2>3 DEF FlushInv
    <2>. QED
      BY <2>4, <2>5, <2>6, <2>7 DEF FlushInv
  <1> HIDE DEF FlushWrites
  <1>8. ASSUME NEW t \in Callers, Request(t) PROVE FlushInv'
    <2>1. CASE FlushSync(t)
      <3>1. /\ pc[t] = "idle" /\ pc' = [pc EXCEPT ![t] = "flush"]
            /\ job' = [job EXCEPT ![t] = "flush"]
            /\ owed' = [owed EXCEPT ![t] = IF ptr THEN accepted ELSE 0]
            /\ UNCHANGED <<promised, records>>
        BY <2>1 DEF FlushSync, Call
      <3>2. accepted' = accepted /\ Kept' = Kept /\ disk' = disk
        BY <3>1 DEF records, Kept
      <3>3. disk # <<>> => ~ptr
        BY DEF RecordsInv, OneMapFile, MmapInv
      <3>4. \A u \in Callers : u # t => owed'[u] = owed[u] /\ pc'[u] = pc[u]
                                        /\ job'[u] = job[u]
        BY <1>1, <3>1
      <3>5. pc'[t] = "flush" /\ owed'[t] = IF ptr THEN accepted ELSE 0
        BY <1>1, <3>1
      <3>6. \A u \in Callers : owed'[u] <= accepted'
        BY <1>1, <3>2, <3>4, <3>5 DEF FlushInv
      <3>7. ASSUME NEW u \in Callers, pc'[u] = "write" /\ job'[u] = "flush",
                   NEW r \in Kept'
            PROVE  r > owed'[u]
        BY <3>2, <3>4, <3>5, <3>7 DEF FlushInv
      <3>8. disk' # <<>> => \A u \in Callers : owed'[u] = 0
        BY <3>2, <3>3, <3>4, <3>5 DEF FlushInv
      <3>. QED
        BY <3>1, <3>2, <3>6, <3>7, <3>8 DEF FlushInv
    <2>2. CASE FlushSyncSkip(t)
      BY <2>2 DEF FlushSyncSkip, AsyncInv
    <2>3. CASE Flush(t) \/ SetMode(t)
      BY <1>5, <2>3 DEF Flush, SetMode, records
    <2>4. CASE Log(t) \/ Open(t) \/ Close(t)
      <3>1. PICK op, label : Call(t, op, label) /\ label # "write"
        BY <2>4 DEF Log, Open, Close, AsyncInv
      <3>2. UNCHANGED <<owed, promised, disk>>
        BY <2>4 DEF Log, Open, Close, records
      <3>. QED
        BY <1>3, <1>4, <3>1, <3>2
    <2>. QED
      BY <1>8, <2>1, <2>2, <2>3, <2>4 DEF Request
  <1>9. ASSUME NEW t \in Callers, Step(t) PROVE FlushInv'
    <2>1. CASE FlushSyncTake(t)
      <3>1. CASE ptr /\ buf # <<>>
        <4>1. /\ Goto(t, "write") /\ buf' = <<>> /\ disk' = disk
              /\ UNCHANGED <<owed, promised, accepted>>
          BY <2>1, <3>1 DEF FlushSyncTake, TakeBuffer
        <4>2. disk = <<>>
          BY <3>1 DEF RecordsInv, OneMapFile, MmapInv
        <4>3. Kept' = {}
          BY <4>1, <4>2, IdsEmpty DEF Kept
        <4>. QED
          BY <4>1, <4>2, <4>3 DEF FlushInv
      <3>2. CASE ~(ptr /\ buf # <<>>)
        <4>1. /\ Goto(t, "idle") /\ FlushReturns(t) /\ UNCHANGED <<accepted, disk>>
          BY <2>1, <3>2 DEF FlushSyncTake
        <4>2. buf = <<>>
          BY <3>2 DEF MmapInv
        <4>3. \A r \in Kept : r > owed[t]
          <5>1. CASE disk = <<>>
            BY <4>2, <5>1, IdsEmpty DEF Kept
          <5>2. CASE disk # <<>>
            <6>1. owed[t] = 0 /\ \A r \in Kept : r > promised
              BY <5>2 DEF FlushInv
            <6>. QED
              BY <1>1, <6>1
          <5>. QED
            BY <5>1, <5>2
        <4>. QED
          BY <1>7, <4>1, <4>3
      <3>. QED
        BY <3>1, <3>2
    <2>2. CASE WriteChunk(t)
      <3>1. Goto(t, Resume(t)) /\ Resume(t) # "write" /\ UNCHANGED <<accepted, disk>>
        BY <2>2 DEF WriteChunk, Resume
      <3>2. CASE job[t] = "flush"
        <4>1. FlushReturns(t) /\ \A r \in Kept : r > owed[t]
          BY <2>2, <3>2 DEF WriteChunk, FlushInv
        <4>. QED
          BY <1>7, <3>1, <4>1
      <3>3. CASE job[t] # "flush"
        <4>1. UNCHANGED <<owed, promised, disk>>
          BY <2>2, <3>3 DEF WriteChunk
        <4>. QED
          BY <1>2, <1>4, <3>1, <4>1
      <3>. QED
        BY <3>2, <3>3
    <2>3. CASE OpenMap(t)
      <3>1. disk' = <<>> /\ Goto(t, "drain") /\ UNCHANGED <<owed, promised>>
        BY <2>3 DEF OpenMap, MmapOpens
      <3>2. FlushWrites
        BY <1>2, <3>1
      <3>. QED
        BY <1>1, <3>1, <3>2, NoFlushStep DEF FlushWrites
    <2>4. CASE \/ ChooseMode(t) \/ AppendAsync(t) \/ OpenDrain(t) \/ OpenLive(t)
               \/ OpenMode(t) \/ OpenTips(t) \/ OpenRecover(t) \/ OpenStart(t) \/ CloseStop(t) \/ CloseSet(t)
               \/ CloseNotify(t) \/ CloseJoin(t) \/ CloseJoined(t) \/ CloseWipe(t)
      <3>1. UNCHANGED <<owed, promised, disk>>
        BY <2>4 DEF ChooseMode, AppendAsync, OpenDrain, OpenLive, OpenMode, OpenTips,
           Tip, OpenRecover, OpenStart, CloseStop, CloseSet, CloseNotify, CloseJoin, CloseJoined,
           CloseWipe, records
      <3>2. \E label : Goto(t, label) /\ label # "write"
        BY <2>4 DEF ChooseMode, AppendAsync, Resume, OpenDrain, OpenLive, OpenMode,
           OpenTips, Tip, OpenRecover, OpenStart, CloseStop, EnterAppender, AsyncInv, CloseSet,
           CloseNotify, CloseJoin, CloseJoined, CloseWipe
      <3>. QED
        BY <1>2, <1>4, <3>1, <3>2
    <2>5. ~FormatSync(t)
      BY DEF FormatSync, AsyncInv
    <2>. QED
      BY <1>6, <1>9, <2>1, <2>2, <2>3, <2>4, <2>5 DEF Step, Segfault
  <1>10. CASE WorkerStep \/ WorkerTimeout
    <2>1. CASE WorkerFlush
      BY <1>5, <2>1 DEF WorkerFlush, TakeBuffer
    <2>. QED
      BY <1>5, <1>6, <1>10, <2>1 DEF WorkerStep, WorkerWrite, WorkerCheck, WorkerWait,
         WorkerTimeout, WorkerExit, Segfault, records, program
  <1>11. CASE Crash
    BY <1>6, <1>11 DEF Crash
  <1>12. CASE UNCHANGED vars
    BY <1>5, <1>12 DEF vars, records, program
  <1>. QED
    BY <1>8, <1>9, <1>10, <1>11, <1>12 DEF Next
-----------------------------------------------------------------------------
(* One thread owns the log: sg_log_buff is there whenever it is used.      *)

\* A thread that only logs neither opens, closes nor flushes.
LEMMA OthersStep ==
    ASSUME NEW w \in Callers, OneOwner(w), TypeOK, AsyncInv, OwnerInv(w),
           NEW t \in Callers \ {w}, Request(t) \/ Step(t), ConstantsAssumption
    PROVE  /\ UNCHANGED <<closed, ptr, segv>> /\ pc'[w] = pc[w]
           /\ worker' = worker \/ worker' = Notified(worker)
           /\ \A u \in Callers \ {w} : pc'[u] \in {"idle", "mode", "async"} /\ job'[u] # "close"
  <1>1. /\ pc \in [Callers -> Labels] /\ job \in [Callers -> Operations \cup {"none"}]
        /\ mode = "async" /\ pc[t] \in {"idle", "mode", "async"} /\ job[t] # "close"
        /\ \A u \in Callers \ {w} : pc[u] \in {"idle", "mode", "async"} /\ job[u] # "close"
        /\ Ops[t] \subseteq {"log", "notify"} /\ t # Worker
    BY DEF TypeOK, ControlOK, AsyncInv, OwnerInv, OneOwner, ConstantsAssumption
  <1>2. CASE Log(t)
    BY <1>1, <1>2 DEF Log, Call
  <1>3. CASE Flush(t)
    BY <1>1, <1>3 DEF Flush
  <1>4. CASE AppendAsync(t) \/ ChooseMode(t)
    BY <1>1, <1>4 DEF AppendAsync, ChooseMode, Goto, Resume
  <1>5. ~(FlushSync(t) \/ FlushSyncSkip(t) \/ SetMode(t) \/ Open(t) \/ Close(t))
    BY <1>1 DEF FlushSync, FlushSyncSkip, SetMode, Open, Close, Call
  <1>6. Step(t) => AppendAsync(t) \/ ChooseMode(t)
    BY <1>1 DEF Step, FormatSync, WriteChunk, FlushSyncTake, OpenMap, OpenDrain,
       OpenLive, OpenMode, OpenTips, Tip, OpenRecover, OpenStart, CloseStop, CloseSet,
       CloseNotify, CloseJoin, CloseJoined, CloseWipe, Segfault, UsesBuffer, AtFile
  <1>. QED
    BY <1>2, <1>3, <1>4, <1>5, <1>6 DEF Request

LEMMA OwnerStep ==
    ASSUME NEW w \in Callers, OneOwner(w), ConstantsAssumption, TypeOK, AsyncInv,
           OwnerInv(w), [Next]_vars
    PROVE  OwnerInv(w)'
  <1>1. /\ pc \in [Callers -> Labels] /\ job \in [Callers -> Operations \cup {"none"}]
        /\ mode = "async" /\ pc[w] # "sync" /\ w # Worker
    BY DEF TypeOK, ControlOK, AsyncInv, ConstantsAssumption
  <1> DEFINE Others == \A t \in Callers \ {w} : pc[t] \in {"idle", "mode", "async"} /\ job[t] # "close"
             Lone == /\ ~segv
                     /\ ~closed => ptr
                     /\ pc[w] \notin {"idle", "map", "flush"} => ptr
                     /\ pc[w] \in {"notify", "join", "joining", "wipe"} => closed
                     /\ pc[w] = "wipe" => worker = "off"
                     /\ worker = "write" => ptr
  <1>2. Lone /\ Others /\ (Lone' /\ Others' => OwnerInv(w)')
    BY DEF OwnerInv
  <1>3. CASE UNCHANGED <<closed, ptr, segv, pc, job, worker>>
    BY <1>2, <1>3
  \* What a notification or a start does to the asynchronous thread.
  <1>12. /\ Notified(worker) \in {worker, "lock"}
         /\ worker = "off" => Notified(worker) = "off"
    BY DEF Notified
  \* A step of the owner moves the owner only.
  <1>4. ASSUME NEW label, Goto(w, label) PROVE Others' /\ pc'[w] = label
    BY <1>1, <1>2, <1>4 DEF Goto
  <1>5. ASSUME NEW op, NEW label, Call(w, op, label)
        PROVE  Others' /\ pc'[w] = label /\ pc[w] = "idle"
    BY <1>1, <1>2, <1>5 DEF Call
  <1>6. ASSUME NEW t \in Callers \ {w}, Request(t) \/ Step(t) PROVE OwnerInv(w)'
    <2>1. /\ UNCHANGED <<closed, ptr, segv>> /\ pc'[w] = pc[w] /\ Others'
          /\ worker' = worker \/ worker' = Notified(worker)
      BY <1>6, OthersStep
    <2>. QED
      BY <1>2, <1>12, <2>1
  <1>7. CASE Request(w)
    <2>5. CASE Flush(w) \/ SetMode(w)
      <3>1. /\ UNCHANGED <<closed, ptr, segv, pc, job>> /\ pc[w] = "idle"
            /\ worker' \in {worker, "lock"}
        BY <1>12, <2>5 DEF Flush, SetMode, ModeEffect
      <3>. QED
        BY <1>2, <3>1
    <2>1. CASE FlushSyncSkip(w)
      BY <1>3, <2>1 DEF FlushSyncSkip, program
    <2>2. CASE Log(w) \/ Close(w)
      <3>1. ~closed /\ UNCHANGED <<closed, ptr, segv, worker>>
        BY <2>2 DEF Log, Close
      <3>2. PICK op, label : Call(w, op, label) /\ label \in {"mode", "stop"}
        BY <2>2 DEF Log, Close
      <3>3. Others' /\ pc'[w] \in {"mode", "stop"}
        BY <1>1, <1>5, <3>2
      <3>. QED
        BY <1>2, <3>1, <3>3
    <2>3. CASE FlushSync(w)
      <3>1. Others' /\ pc'[w] = "flush" /\ UNCHANGED <<closed, ptr, segv, worker>>
        BY <1>5, <2>3 DEF FlushSync
      <3>. QED
        BY <1>2, <3>1
    <2>4. CASE Open(w)
      <3>1. /\ Others' /\ pc'[w] = (IF closed THEN "map" ELSE "tip")
            /\ UNCHANGED <<closed, ptr, segv, worker>>
        BY <1>5, <2>4 DEF Open
      <3>. QED
        BY <1>2, <3>1
    <2>. QED
      BY <1>7, <2>1, <2>2, <2>3, <2>4, <2>5 DEF Request
  <1>8. CASE Step(w)
    <2>1. CASE AppendAsync(w)
      <3>1. /\ Others' /\ pc'[w] \in {"idle", "setClosed"} /\ pc[w] = "async"
            /\ UNCHANGED <<closed, ptr, segv>> /\ worker' \in {worker, "lock"}
        BY <1>4, <1>12, <2>1 DEF AppendAsync, Resume
      <3>. QED
        BY <1>2, <3>1
    <2>14. CASE ChooseMode(w)
      <3>1. /\ Others' /\ pc'[w] = "async" /\ pc[w] = "mode"
            /\ UNCHANGED <<closed, ptr, segv, worker>>
        BY <1>1, <1>4, <2>14 DEF ChooseMode
      <3>. QED
        BY <1>2, <3>1
    <2>2. CASE WriteChunk(w)
      <3>1. /\ Others' /\ pc'[w] \in {"idle", "setClosed"} /\ pc[w] = "write"
            /\ UNCHANGED <<closed, ptr, segv, worker>>
        BY <1>4, <2>2 DEF WriteChunk, Resume
      <3>. QED
        BY <1>2, <3>1
    <2>3. CASE FlushSyncTake(w)
      <3>1. /\ \/ pc'[w] = "idle"
               \/ ptr /\ pc'[w] = "write"
            /\ UNCHANGED <<closed, ptr, segv, worker>>
        BY <1>4, <2>3 DEF FlushSyncTake
      <3>2. Others'
        BY <1>4, <2>3 DEF FlushSyncTake
      <3>. QED
        BY <1>2, <3>1, <3>2
    <2>4. CASE OpenMap(w)
      <3>1. Others' /\ pc'[w] = "drain" /\ ptr' /\ UNCHANGED <<closed, segv, worker>>
        BY <1>4, <2>4 DEF OpenMap
      <3>. QED
        BY <1>2, <3>1
    <2>5. CASE OpenDrain(w)
      <3>1. Others' /\ pc'[w] = "live" /\ ptr /\ UNCHANGED <<closed, ptr, segv, worker>>
        BY <1>4, <2>5 DEF OpenDrain
      <3>. QED
        BY <1>2, <3>1
    <2>6. CASE OpenLive(w)
      <3>1. /\ Others' /\ pc'[w] = "setMode" /\ pc[w] = "live"
            /\ ~closed' /\ UNCHANGED <<ptr, segv, worker>>
        BY <1>4, <2>6 DEF OpenLive
      <3>. QED
        BY <1>2, <3>1
    <2>15. CASE OpenMode(w)
      <3>1. /\ Others' /\ pc'[w] \in {"start", "begin"} /\ pc[w] = "setMode"
            /\ UNCHANGED <<closed, ptr, segv>> /\ worker' \in {worker, "lock"}
        BY <1>4, <1>12, <2>15 DEF OpenMode, ModeEffect
      <3>. QED
        BY <1>2, <3>1
    <2>7. CASE OpenTips(w) \/ OpenRecover(w)
      <3>1. /\ Others' /\ pc'[w] \in {"idle", "recover", "end", "start"}
            /\ pc[w] \in {"tip", "begin", "recover", "end"}
            /\ UNCHANGED <<closed, ptr, segv, worker>>
        BY <1>4, <2>7 DEF OpenTips, Tip, OpenRecover
      <3>. QED
        BY <1>2, <3>1
    <2>8. CASE OpenStart(w) \/ CloseStop(w)
      <3>1. /\ Others' /\ pc'[w] \in {"idle", "setClosed", "mode"}
            /\ pc[w] \in {"start", "stop"} /\ UNCHANGED <<closed, ptr, segv, worker>>
        BY <1>1, <1>4, <2>8 DEF OpenStart, CloseStop, EnterAppender
      <3>. QED
        BY <1>2, <3>1
    <2>9. CASE CloseSet(w)
      <3>1. /\ Others' /\ pc'[w] = "notify" /\ pc[w] = "setClosed" /\ closed'
            /\ UNCHANGED <<ptr, segv, worker>>
        BY <1>4, <2>9 DEF CloseSet
      <3>. QED
        BY <1>2, <3>1
    <2>10. CASE CloseNotify(w) \/ CloseJoin(w) \/ CloseJoined(w)
      <3>1. /\ Others' /\ pc'[w] \in {"join", "joining", "wipe"}
            /\ pc[w] \in {"notify", "join", "joining"}
            /\ UNCHANGED <<closed, ptr, segv>> /\ worker' \in {worker, "lock"}
            /\ pc'[w] = "wipe" => worker' = "off"
        BY <1>4, <1>12, <2>10 DEF CloseNotify, CloseJoin, CloseJoined
      <3>. QED
        BY <1>2, <3>1
    <2>11. CASE CloseWipe(w)
      <3>1. /\ Others' /\ pc'[w] = "idle" /\ pc[w] = "wipe"
            /\ UNCHANGED <<closed, segv, worker>>
        BY <1>4, <2>11 DEF CloseWipe
      <3>. QED
        BY <1>2, <3>1
    <2>12. ~FormatSync(w)
      BY <1>1 DEF FormatSync
    <2>13. ~Segfault(w)
      BY <1>1, <1>2 DEF Segfault, UsesBuffer, AtFile
    <2>. QED
      BY <1>8, <2>1, <2>2, <2>3, <2>4, <2>5, <2>6, <2>7, <2>8, <2>9, <2>10, <2>11,
         <2>12, <2>13, <2>14, <2>15 DEF Step
  <1>9. CASE WorkerStep \/ WorkerTimeout
    <2>1. ~Segfault(Worker)
      BY <1>2 DEF Segfault, UsesBuffer, AtFile
    <2>2. /\ UNCHANGED <<closed, ptr, segv, pc, job>> /\ worker # "off"
          /\ worker' = "write" => ptr
      BY <1>9, <2>1 DEF WorkerStep, WorkerFlush, WorkerWrite, WorkerCheck, WorkerWait,
         WorkerTimeout, WorkerExit
    <2>. QED
      BY <1>2, <2>2
  <1>10. CASE Crash
    <2>1. /\ pc' = [u \in Callers |-> "idle"] /\ job' = [u \in Callers |-> "none"]
          /\ closed' = TRUE /\ segv' = segv /\ worker' = "off"
      BY <1>10 DEF Crash, Die
    <2>. QED
      BY <1>2, <2>1
  <1>11. CASE UNCHANGED vars
    BY <1>3, <1>11 DEF vars, program
  <1>. QED
    BY <1>6, <1>7, <1>8, <1>9, <1>10, <1>11 DEF Next
-----------------------------------------------------------------------------
(* Chunks that were not in flight together are in order in the file.        *)

LEMMA SortedShort ==
    /\ Sorted(<<>>)
    /\ \A r : Sorted(<<r>>)
  BY DEF Sorted

LEMMA SortedConcat ==
    ASSUME NEW s \in Seq(Record), NEW u \in Seq(Record), Sorted(s), Sorted(u),
           \A x \in Ids(s), y \in Ids(u) : x < y
    PROVE  Sorted(s \o u)
  <1>1. /\ DOMAIN (s \o u) = 1..Len(s) + Len(u)
        /\ DOMAIN s = 1..Len(s) /\ DOMAIN u = 1..Len(u)
        /\ Len(s) \in Nat /\ Len(u) \in Nat
        /\ \A i \in 1..Len(s) + Len(u) :
             (s \o u)[i] = IF i <= Len(s) THEN s[i] ELSE u[i - Len(s)]
    BY ConcatProperties, LenProperties
  <1>2. SUFFICES ASSUME NEW i \in DOMAIN (s \o u), NEW j \in DOMAIN (s \o u), i < j,
                        (s \o u)[i].id # 0, (s \o u)[j].id # 0
                 PROVE  (s \o u)[i].id < (s \o u)[j].id
    BY DEF Sorted
  <1>3. CASE j <= Len(s)
    <2>1. /\ i \in DOMAIN s /\ j \in DOMAIN s
          /\ (s \o u)[i] = s[i] /\ (s \o u)[j] = s[j]
      BY <1>1, <1>2, <1>3
    <2>. QED
      BY <1>2, <2>1 DEF Sorted
  <1>4. CASE i > Len(s)
    <2>1. /\ i - Len(s) \in DOMAIN u /\ j - Len(s) \in DOMAIN u
          /\ i - Len(s) < j - Len(s)
          /\ (s \o u)[i] = u[i - Len(s)] /\ (s \o u)[j] = u[j - Len(s)]
      BY <1>1, <1>2, <1>4
    <2>. QED
      BY <1>2, <2>1 DEF Sorted
  <1>5. CASE i <= Len(s) /\ j > Len(s)
    <2>1. /\ i \in 1..Len(s) /\ j - Len(s) \in 1..Len(u)
          /\ (s \o u)[i] = s[i] /\ (s \o u)[j] = u[j - Len(s)]
      BY <1>1, <1>2, <1>5
    <2>2. s[i].id \in Ids(s) /\ u[j - Len(s)].id \in Ids(u)
      BY <1>2, <2>1, IdsMember
    <2>. QED
      BY <2>1, <2>2
  <1>. QED
    BY <1>1, <1>2, <1>3, <1>4, <1>5

LEMMA SortedAppend ==
    ASSUME NEW s \in Seq(Record), NEW r \in Record, Sorted(s),
           r.id = 0 \/ \A x \in Ids(s) : x < r.id
    PROVE  Sorted(Append(s, r))
  <1>1. Append(s, r) = s \o <<r>> /\ <<r>> \in Seq(Record)
    BY AppendIsConcat
  <1>2. \A x \in Ids(s), y \in Ids(<<r>>) : x < y
    BY IdsSingle
  <1>. QED
    BY <1>1, <1>2, SortedShort, SortedConcat

LEMMA SortedPrefix ==
    ASSUME NEW s \in Seq(Record), NEW n \in 0..Len(s), Sorted(s)
    PROVE  Sorted(SubSeq(s, 1, n))
  <1>1. /\ Len(s) \in Nat /\ DOMAIN s = 1..Len(s)
        /\ \A i \in 1..n : s[i] \in Record
    BY ElementOfSeq, LenProperties
  <1>2. /\ SubSeq(s, 1, n) \in Seq(Record) /\ Len(SubSeq(s, 1, n)) = n
        /\ \A i \in 1..n : SubSeq(s, 1, n)[i] = s[i]
    BY <1>1, SubSeqProperties
  <1>3. DOMAIN SubSeq(s, 1, n) = 1..n
    BY <1>2, LenProperties
  <1>. QED
    BY <1>1, <1>2, <1>3 DEF Sorted

LEMMA SortedOrdered ==
    ASSUME NEW T, NEW s, Sorted(s) PROVE Ordered(T, s)
  BY DEF Sorted, Ordered, Before

LEMMA OrderedMore ==
    ASSUME NEW T, NEW U, T \subseteq U
    PROVE  /\ \A s : Ordered(T, s) => Ordered(U, s)
           /\ \A a, b : Before(T, a, b) => Before(U, a, b)
  BY DEF Ordered, Before

LEMMA OrderedConcat ==
    ASSUME NEW T, NEW s \in Seq(Record), NEW u \in Seq(Record), Ordered(T, s),
           Ordered(T, u), \A x \in Ids(s), y \in Ids(u) : Before(T, x, y)
    PROVE  Ordered(T, s \o u)
  <1>1. /\ DOMAIN (s \o u) = 1..Len(s) + Len(u)
        /\ DOMAIN s = 1..Len(s) /\ DOMAIN u = 1..Len(u)
        /\ Len(s) \in Nat /\ Len(u) \in Nat
        /\ \A i \in 1..Len(s) + Len(u) :
             (s \o u)[i] = IF i <= Len(s) THEN s[i] ELSE u[i - Len(s)]
    BY ConcatProperties, LenProperties
  <1>2. SUFFICES ASSUME NEW i \in DOMAIN (s \o u), NEW j \in DOMAIN (s \o u), i < j,
                        (s \o u)[i].id # 0, (s \o u)[j].id # 0
                 PROVE  Before(T, (s \o u)[i].id, (s \o u)[j].id)
    BY DEF Ordered
  <1>3. CASE j <= Len(s)
    <2>1. /\ i \in DOMAIN s /\ j \in DOMAIN s
          /\ (s \o u)[i] = s[i] /\ (s \o u)[j] = s[j]
      BY <1>1, <1>2, <1>3
    <2>. QED
      BY <1>2, <2>1 DEF Ordered
  <1>4. CASE i > Len(s)
    <2>1. /\ i - Len(s) \in DOMAIN u /\ j - Len(s) \in DOMAIN u
          /\ i - Len(s) < j - Len(s)
          /\ (s \o u)[i] = u[i - Len(s)] /\ (s \o u)[j] = u[j - Len(s)]
      BY <1>1, <1>2, <1>4
    <2>. QED
      BY <1>2, <2>1 DEF Ordered
  <1>5. CASE i <= Len(s) /\ j > Len(s)
    <2>1. /\ i \in 1..Len(s) /\ j - Len(s) \in 1..Len(u)
          /\ (s \o u)[i] = s[i] /\ (s \o u)[j] = u[j - Len(s)]
      BY <1>1, <1>2, <1>5
    <2>2. s[i].id \in Ids(s) /\ u[j - Len(s)].id \in Ids(u)
      BY <1>2, <2>1, IdsMember
    <2>. QED
      BY <2>1, <2>2
  <1>. QED
    BY <1>1, <1>3, <1>4, <1>5

\* A write of records that may follow those of the file, or a failed one, keeps
\* the file in order.
LEMMA OrderedWrite ==
    ASSUME RecordsOK, NEW T, NEW data \in Seq(Record), LogToFile(data),
           Ordered(T, file), Sorted(data),
           \A x \in Ids(file), y \in Ids(data) : Before(T, x, y)
    PROVE  Ordered(T, file')
  <1>1. file \in Seq(Record)
    BY DEF RecordsOK
  <1>2. CASE file' = file \o data
    BY <1>1, <1>2, SortedOrdered, OrderedConcat
  <1>3. CASE file' = Append(file, Mark("error"))
    <2> DEFINE m == Mark("error")
    <2>1. m \in Record /\ m.id = 0
      BY RecordTypes DEF Mark, Marks
    <2> HIDE DEF m
    <2>2. /\ <<m>> \in Seq(Record) /\ Ids(<<m>>) = {} /\ Ordered(T, <<m>>)
          /\ Append(file, m) = file \o <<m>>
      BY <1>1, <2>1, IdsSingle, SortedShort, SortedOrdered, AppendIsConcat
    <2>3. Ordered(T, file \o <<m>>)
      BY <1>1, <2>2, OrderedConcat
    <2>. QED
      BY <1>3, <2>2, <2>3 DEF m
  <1>. QED
    BY <1>2, <1>3 DEF LogToFile

LEMMA OrderStep ==
    ASSUME MmapOpens, ConstantsAssumption, TypeOK, RecordsInv, MmapInv, AsyncInv,
           NewestInv, OrderInv, [Next]_vars
    PROVE  OrderInv'
  <1>1. /\ RecordsOK /\ OnePlace /\ OneMapFile /\ ChunkHolders
        /\ Callers \subseteq Threads /\ Worker \in Threads
        /\ chunk \in [Threads -> Seq(Record)]
        /\ file \in Seq(Record) /\ buf \in Seq(Record)
        /\ accepted \in Nat /\ mapped \in BOOLEAN
    BY DEF TypeOK, ControlOK, RecordsOK, RecordsInv, Threads
  <1>2. /\ Sorted(buf) /\ Sorted(disk) /\ \A p \in Threads : Sorted(chunk[p])
        /\ Ordered(together, file)
        /\ \A old \in Ids(file), new \in InFlight : Before(together, old, new)
        /\ \A p, q \in Threads : p # q =>
             \A a \in Ids(chunk[p]), b \in Ids(chunk[q]) : Before(together, a, b)
    BY DEF OrderInv
  <1>3. CASE UNCHANGED <<records, together>>
    BY <1>2, <1>3 DEF OrderInv, records, InFlight
  \* A flusher takes records newer than those in flight: the pairs are noted.
  <1>4. ASSUME NEW p \in Threads, TakeBuffer(p), chunk[p] = <<>>,
               UNCHANGED <<disk, file, accepted, lost>>
        PROVE  OrderInv'
    <2>1. /\ Sorted(buf') /\ chunk'[p] = buf
          /\ \A q \in Threads : q # p => chunk'[q] = chunk[q]
          /\ together' = together \cup (Ids(buf) \X InFlight)
      BY <1>1, <1>4, SortedShort DEF TakeBuffer
    <2>2. InFlight' = InFlight \cup Ids(buf) /\ Ids(file') = Ids(file)
      BY <1>1, <1>4, TakeMove
    <2>3. /\ \A T : Ordered(together, T) => Ordered(together', T)
          /\ \A a, b : Before(together, a, b) => Before(together', a, b)
      BY <2>1, OrderedMore
    <2>4. \A new \in Ids(buf), old \in InFlight \cup Ids(file) : Before(together', old, new)
      BY DEF NewestInv, Kept, Before
    <2>5. \A old \in Ids(file'), new \in InFlight' : Before(together', old, new)
      BY <1>2, <2>2, <2>3, <2>4
    <2>6. ASSUME NEW q \in Threads, NEW r \in Threads, q # r,
                 NEW a \in Ids(chunk'[q]), NEW b \in Ids(chunk'[r])
          PROVE  Before(together', a, b)
      <3>1. CASE q = p
        <4>1. a \in Ids(buf) /\ b \in InFlight
          BY <2>1, <2>6, <3>1, InFlightMember
        <4>. QED
          BY <2>1, <4>1 DEF Before
      <3>2. CASE r = p
        <4>1. b \in Ids(buf) /\ a \in InFlight
          BY <2>1, <2>6, <3>2, InFlightMember
        <4>. QED
          BY <2>4, <4>1
      <3>3. CASE q # p /\ r # p
        BY <1>2, <2>1, <2>3, <2>6, <3>3
      <3>. QED
        BY <3>1, <3>2, <3>3
    <2>7. Ordered(together', file')
      BY <1>2, <1>4, <2>3
    <2>8. Sorted(disk') /\ \A q \in Threads : Sorted(chunk'[q])
      BY <1>2, <1>4, <2>1
    <2>. QED
      BY <2>1, <2>5, <2>6, <2>7, <2>8 DEF OrderInv
  \* What a write puts in the file may follow what is there, and the other chunks
  \* may follow it.
  <1>5. ASSUME NEW p \in Threads, LogToFile(chunk[p]),
               chunk' = [chunk EXCEPT ![p] = <<>>],
               UNCHANGED <<buf, disk, accepted, together>>
        PROVE  OrderInv'
    <2>1. /\ chunk'[p] = <<>> /\ Ids(chunk'[p]) = {} /\ chunk[p] \in Seq(Record)
          /\ \A q \in Threads : q # p => chunk'[q] = chunk[q]
      BY <1>1, <1>5, IdsEmpty
    <2>2. /\ InFlight' = InFlight \ Ids(chunk[p]) /\ Ids(chunk[p]) \subseteq InFlight
          /\ Ids(file') \subseteq Ids(file) \cup Ids(chunk[p])
      BY <1>1, <1>5, WriteMove
    <2>3. Ordered(together, file')
      BY <1>1, <1>2, <1>5, <2>1, <2>2, OrderedWrite
    <2>4. ASSUME NEW old \in Ids(file'), NEW new \in InFlight'
          PROVE  Before(together, old, new)
      <3>1. CASE old \in Ids(file)
        BY <1>2, <2>2, <2>4, <3>1
      <3>2. CASE old \in Ids(chunk[p])
        <4>1. PICK q \in Threads : new \in Ids(chunk'[q])
          BY <2>4, InFlightMember
        <4>2. q # p /\ new \in Ids(chunk[q])
          BY <2>1, <4>1
        <4>. QED
          BY <1>2, <3>2, <4>2
      <3>. QED
        BY <2>2, <2>4, <3>1, <3>2
    <2>5. /\ \A q \in Threads : Sorted(chunk'[q])
          /\ \A q, r \in Threads : q # r =>
               \A a \in Ids(chunk'[q]), b \in Ids(chunk'[r]) : Before(together, a, b)
      BY <1>2, <2>1, SortedShort
    <2>. QED
      BY <1>2, <1>5, <2>3, <2>4, <2>5 DEF OrderInv
  <1>6. ASSUME Die PROVE OrderInv'
    <2>. PICK p \in Threads : \E n \in 0..Len(chunk[p]) :
           file' = file \o SubSeq(chunk[p], 1, n)
      BY <1>6 DEF Die
    <2>1. PICK n \in 0..Len(chunk[p]) : file' = file \o SubSeq(chunk[p], 1, n)
      OBVIOUS
    <2>2. chunk[p] \in Seq(Record) /\ Sorted(chunk[p]) /\ Distinct(chunk[p])
      BY <1>1, <1>2 DEF OnePlace, NoDuplicate
    <2>3. /\ SubSeq(chunk[p], 1, n) \in Seq(Record) /\ Sorted(SubSeq(chunk[p], 1, n))
          /\ Ids(SubSeq(chunk[p], 1, n)) \subseteq Ids(chunk[p])
      BY <2>2, PrefixType, PrefixRecords, SortedPrefix
    <2>4. \A x \in Ids(file), y \in Ids(SubSeq(chunk[p], 1, n)) : Before(together, x, y)
      BY <1>2, <2>3, InFlightMember
    <2>5. Ordered(together, file')
      BY <1>1, <1>2, <2>1, <2>3, <2>4, SortedOrdered, OrderedConcat
    <2>6. /\ together' = together /\ Sorted(buf') /\ Sorted(disk')
          /\ \A q \in Threads : Sorted(chunk'[q]) /\ Ids(chunk'[q]) = {}
      BY <1>2, <1>6, SortedShort, IdsEmpty DEF Die, MapFile
    <2>7. InFlight' = {}
      BY <1>1, <1>6, DieMove
    <2>. QED
      BY <2>5, <2>6, <2>7 DEF OrderInv
  <1>7. ASSUME NEW t \in Callers, Request(t) PROVE OrderInv'
    BY <1>3, <1>7 DEF Request, Log, FlushSyncSkip, FlushSync, Flush, SetMode, Open, Close
  <1>8. ASSUME NEW t \in Callers, Step(t) PROVE OrderInv'
    <2>. t \in Threads
      BY <1>1
    <2>1. CASE AppendAsync(t)
      <3>1. CASE UNCHANGED <<buf, accepted>>
        BY <1>3, <2>1, <3>1 DEF AppendAsync, records
      <3>2. CASE ~UNCHANGED <<buf, accepted>>
        <4>1. PICK k \in Kinds : buf' = Append(buf, [id |-> accepted + 1, kind |-> k])
          BY <2>1, <3>2 DEF AppendAsync, KindOf, Kinds
        <4>2. UNCHANGED <<disk, file, chunk, lost, together>>
          BY <2>1 DEF AppendAsync
        <4>3. \A x \in Ids(buf) : x < accepted + 1
          BY <1>1 DEF OnePlace, AllAccounted, Kept
        <4> DEFINE r == [id |-> accepted + 1, kind |-> k]
        <4>4. r \in Record /\ r.id = accepted + 1 /\ buf' = Append(buf, r)
          <5>1. accepted + 1 \in Nat
            BY <1>1
          <5>. QED
            BY <4>1, <5>1, RecordTypes
        <4> HIDE DEF r
        <4>5. Sorted(buf')
          BY <1>1, <1>2, <4>3, <4>4, SortedAppend
        <4>6. InFlight' = InFlight
          BY <4>2 DEF InFlight
        <4>. QED
          BY <1>2, <4>2, <4>5, <4>6 DEF OrderInv
      <3>. QED
        BY <3>1, <3>2
    <2>2. CASE WriteChunk(t) \/ OpenRecover(t)
      BY <1>5, <2>2 DEF WriteChunk, OpenRecover
    <2>3. CASE OpenMap(t)
      <3>1. /\ buf' = MapFile /\ disk' = <<>> /\ UNCHANGED <<file, chunk, together>>
        BY <2>3 DEF OpenMap, MmapOpens
      <3>2. Sorted(buf') /\ Sorted(disk') /\ InFlight' = InFlight
        BY <1>2, <3>1, SortedShort DEF MapFile, InFlight
      <3>. QED
        BY <1>2, <3>1, <3>2 DEF OrderInv
    <2>4. CASE FlushSyncTake(t) \/ OpenDrain(t)
      <3>1. chunk[t] = <<>>
        BY <1>1, <2>4 DEF FlushSyncTake, OpenDrain, ChunkHolders
      <3>2. CASE TakeBuffer(t)
        BY <1>4, <2>4, <3>1, <3>2 DEF FlushSyncTake, OpenDrain
      <3>3. CASE ~TakeBuffer(t)
        BY <1>3, <2>4, <3>3 DEF FlushSyncTake, OpenDrain, records
      <3>. QED
        BY <3>2, <3>3
    <2>5. CASE OpenTips(t)
      <3>1. PICK m \in Marks : LogToFile(<<Mark(m)>>)
        BY <2>5 DEF OpenTips, Tip, Marks
      <3>2. UNCHANGED <<buf, disk, chunk, accepted, together>>
        BY <2>5 DEF OpenTips, Tip
      <3>3. InFlight' = InFlight /\ Ids(file') = Ids(file)
        BY <1>1, <3>1, <3>2, MarkMove
      <3> DEFINE r == Mark(m)
      <3>4. r \in Record /\ r.id = 0
        BY RecordTypes DEF Mark
      <3> HIDE DEF r
      <3>5. <<r>> \in Seq(Record) /\ Ids(<<r>>) = {} /\ Sorted(<<r>>)
        BY <3>4, IdsSingle, SortedShort
      <3>6. LogToFile(<<r>>)
        BY <3>1 DEF r
      <3>7. Ordered(together, file')
        BY <1>1, <1>2, <3>5, <3>6, OrderedWrite
      <3>. QED
        BY <1>2, <3>2, <3>3, <3>7 DEF OrderInv
    <2>6. CASE CloseWipe(t)
      <3>1. buf' = <<>> /\ UNCHANGED <<file, disk, chunk, together>>
        BY <2>6 DEF CloseWipe
      <3>2. InFlight' = InFlight
        BY <3>1 DEF InFlight
      <3>. QED
        BY <1>2, <3>1, <3>2, SortedShort DEF OrderInv
    <2>7. CASE \/ ChooseMode(t) \/ OpenLive(t) \/ OpenMode(t) \/ OpenStart(t)
               \/ CloseStop(t) \/ CloseSet(t) \/ CloseNotify(t) \/ CloseJoin(t)
               \/ CloseJoined(t)
      BY <1>3, <2>7 DEF ChooseMode, OpenLive, OpenMode, OpenStart, CloseStop, CloseSet,
         CloseNotify, CloseJoin, CloseJoined
    <2>8. ~FormatSync(t)
      BY DEF FormatSync, AsyncInv
    <2>. QED
      BY <1>6, <1>8, <2>1, <2>2, <2>3, <2>4, <2>5, <2>6, <2>7, <2>8 DEF Step, Segfault
  <1>9. CASE WorkerStep \/ WorkerTimeout
    <2>1. CASE WorkerFlush
      <3>1. chunk[Worker] = <<>>
        BY <1>1, <2>1 DEF WorkerFlush, ChunkHolders
      <3>2. CASE ptr
        BY <1>1, <1>4, <2>1, <3>1, <3>2 DEF WorkerFlush
      <3>3. CASE ~ptr
        BY <1>3, <2>1, <3>3 DEF WorkerFlush, records
      <3>. QED
        BY <3>2, <3>3
    <2>2. CASE WorkerWrite
      BY <1>1, <1>5, <2>2 DEF WorkerWrite
    <2>3. CASE WorkerCheck \/ WorkerWait \/ WorkerTimeout \/ WorkerExit
      BY <1>3, <2>3 DEF WorkerCheck, WorkerWait, WorkerTimeout, WorkerExit
    <2>4. CASE Segfault(Worker)
      BY <1>6, <2>4 DEF Segfault
    <2>. QED
      BY <1>9, <2>1, <2>2, <2>3, <2>4 DEF WorkerStep
  <1>10. CASE Crash
    BY <1>6, <1>10 DEF Crash
  <1>11. CASE UNCHANGED vars
    BY <1>3, <1>11 DEF vars
  <1>. QED
    BY <1>7, <1>8, <1>9, <1>10, <1>11 DEF Next

-----------------------------------------------------------------------------
(* The theorems.                                                           *)

LEMMA OrderInit ==
    Init => AsyncInv /\ NewestInv /\ FlushInv /\ OrderInv
  <1>. SUFFICES ASSUME Init PROVE AsyncInv /\ NewestInv /\ FlushInv /\ OrderInv
    OBVIOUS
  <1>1. Kept = {} /\ InFlight = {} /\ Ids(file) = {}
    BY IdsEmpty, InFlightMember DEF Init, Kept
  <1>2. AsyncInv /\ NewestInv /\ FlushInv
    BY <1>1 DEF Init, AsyncInv, NewestInv, FlushInv
  <1>3. OrderInv
    BY <1>1, SortedShort, SortedOrdered, IdsEmpty DEF Init, OrderInv
  <1>. QED
    BY <1>2, <1>3

\* An appender that is only opened in asynchronous mode stays in it, and no caller is
\* ever at the labels of the synchronous one (setmode, xlogger_appender).
THEOREM AsyncInvariant == ASSUME NeverSync PROVE Spec => []AsyncInv
  BY OrderInit, AsyncStep, TypeCorrect, PTL DEF Spec

\* In asynchronous mode a record that is still buffered is newer than all that
\* was taken from the buffer: the two flushers each take the whole of it.
THEOREM BufferStaysNewest ==
    ASSUME MmapOpens, NeverSync PROVE Spec => []BufferIsNewest
  <1>1. ASSUME ConstantsAssumption, TypeOK, RecordsInv, MmapInv, AsyncInv, NewestInv,
               [Next]_vars
        PROVE  NewestInv'
    BY <1>1, RefinementStep, NewestStep DEF RecordsInv
  <1>2. NewestInv => BufferIsNewest
    BY DEF NewestInv, BufferIsNewest, Kept
  <1>. QED
    BY <1>1, <1>2, OrderInit, AsyncInvariant, MmapInvariant, RecordsInvariant,
       TypeCorrect, ConstantsAssumption, PTL DEF Spec

\* When appender_flush_sync returns, whatever runs beside it and whatever the
\* process went through, nothing accepted before the call is left buffered.
THEOREM FlushKeepsItsPromise ==
    ASSUME MmapOpens, NeverSync PROVE Spec => []FlushLeavesNothingBehind
  <1>1. ASSUME ConstantsAssumption, TypeOK, RecordsInv, MmapInv, AsyncInv, FlushInv,
               [Next]_vars
        PROVE  FlushInv'
    BY <1>1, RefinementStep, FlushStep
  <1>2. FlushInv => FlushLeavesNothingBehind
    BY DEF FlushInv, FlushLeavesNothingBehind, Kept
  <1>. QED
    BY <1>1, <1>2, OrderInit, AsyncInvariant, MmapInvariant, RecordsInvariant,
       TypeCorrect, ConstantsAssumption, PTL DEF Spec

\* While one thread opens, flushes, sets the mode and closes and the others log,
\* nothing uses sg_log_buff while it is NULL: no call, and not the message of a
\* failed write of the asynchronous thread, for which close waits.
THEOREM BufferIsThereWhenUsed ==
    ASSUME NeverSync, NEW w \in Callers, OneOwner(w) PROVE Spec => []NoSegfault
  <1>1. Init => OwnerInv(w)
    BY DEF Init, OwnerInv
  <1>2. ASSUME ConstantsAssumption, TypeOK, AsyncInv, OwnerInv(w), [Next]_vars
        PROVE  OwnerInv(w)'
    BY <1>2, OwnerStep
  <1>3. OwnerInv(w) => NoSegfault
    BY DEF OwnerInv, NoSegfault
  <1>. QED
    BY <1>1, <1>2, <1>3, AsyncInvariant, TypeCorrect, ConstantsAssumption, PTL DEF Spec

\* Whoever opens, logs, flushes and closes, and whatever crashes, a record comes
\* before an older one in the log file only if the two were in flight together:
\* appender_open's block of the last session may then come after what the
\* asynchronous thread wrote of the new one.
THEOREM FileStaysInOrder ==
    ASSUME MmapOpens, NeverSync PROVE Spec => []FileInOrder
  <1>1. ASSUME ConstantsAssumption, TypeOK, RecordsInv, MmapInv, AsyncInv, NewestInv,
               [Next]_vars
        PROVE  NewestInv'
    BY <1>1, RefinementStep, NewestStep DEF RecordsInv
  <1>2. ASSUME ConstantsAssumption, TypeOK, RecordsInv, MmapInv, AsyncInv, NewestInv,
               OrderInv, [Next]_vars
        PROVE  OrderInv'
    BY <1>2, OrderStep
  <1>3. OrderInv => FileInOrder
    BY DEF OrderInv, Ordered, Before, FileInOrder
  <1>. QED
    BY <1>1, <1>2, <1>3, OrderInit, AsyncInvariant, MmapInvariant, RecordsInvariant,
       TypeCorrect, ConstantsAssumption, PTL DEF Spec
=============================================================================
