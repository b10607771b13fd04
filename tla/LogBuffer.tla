----------------------------- MODULE LogBuffer -----------------------------
(***************************************************************************)
(* The block of memory behind the appender (jni/log/log_buffer.cc, with    *)
(* crypt/log_crypt.cc and comm/ptrbuffer.cc): a header with the length of  *)
(* the data, then the data, encrypted in place in groups of Block cells.   *)
(* The block is an mmap'd file.  Between any two writes to it the process  *)
(* may die, and the next one recovers what the header announces.           *)
(*                                                                         *)
(* The unit is a cell; the header takes the first one.  A raw cell is a    *)
(* part of a record, <<id, part, parts>>.  An encrypted cell is the k-th   *)
(* of a group and depends on the whole group's text.                       *)
(***************************************************************************)
EXTENDS Integers, Sequences, FiniteSets

CONSTANTS
    Cap,       \* kBufferBlockLength, in cells
    WarnAt,    \* kBufferBlockLength*4/5: above it, only warnings are appended
    Block,     \* TEA_BLOCK_LEN
    Sizes,     \* the sizes of records
    Keys,      \* {FALSE}: no valid public key; with TRUE: also one
    MaxLogs, MaxCuts, MaxCrashes   \* bounds of the exploration

ASSUME ConstantsAssumption ==
    /\ {Cap, WarnAt, Block, MaxLogs, MaxCuts, MaxCrashes} \subseteq Nat \ {0}
    /\ Cap > 1 /\ Block > 1
    /\ Sizes \subseteq Nat \ {0} /\ Sizes # {}
    /\ Keys \subseteq BOOLEAN

VARIABLES
    header,   \* magic and length field of the block; "none": no valid magic
    cells,    \* the cells behind the header
    pc,       \* where the thread that uses the block is; "off": no process
    key,      \* is_crypt_ (and with it is_compress_)
    length,   \* buff_.Length()
    remain,   \* remain_nocrypt_len_
    rec,      \* the record being written
    out, at,  \* out_buffer, and how much of it is back in the block
    chunk,    \* what the last Flush gave to its caller
    \* History, read by the properties only:
    held,     \* the ids of the records written and not flushed yet
    cut,      \* a record did not fit since the block was cleared
    used      \* how much of each bound is spent

memory == <<header, cells>>
object == <<key, length, remain>>
writing == <<rec, out, at>>
history == <<held, cut, used>>
vars == <<memory, pc, object, writing, chunk, history>>

Zero == [text |-> <<>>, k |-> 0]
Raw(r, p) == [text |-> <<<<r.id, p, r.size>>>>, k |-> 1]
NoHeader == [magic |-> "none", len |-> 0]
NoRecord == [id |-> 0, size |-> 0]
NoChunk == [headed |-> FALSE, records |-> <<>>]
Lower(a, b) == IF a < b THEN a ELSE b

Init ==
    /\ header = NoHeader
    /\ cells = [i \in 2..Cap |-> Zero]
    /\ pc = "off"
    /\ key = FALSE /\ length = 0 /\ remain = 0
    /\ rec = NoRecord /\ out = <<>> /\ at = 0
    /\ chunk = NoChunk
    /\ held = <<>> /\ cut = FALSE
    /\ used = [logs |-> 0, cuts |-> 0, crashes |-> 0]

\* PtrBuffer::Length asserts that n fits, and goes on with what does.
SetLength(n) == length' = Lower(n, Cap)

-----------------------------------------------------------------------------
(* What is in a block, for those who read it: the recovery of the next     *)
(* process and the decoder of log files.                                   *)

\* How many of n cells are in full groups, and where the group of cell i starts.
Grouped(n) == n - (n % Block)
FirstOf(i) == i - ((i - 1) % Block)

\* The text of cell i of s: of an encrypted group when it is all there.
Text(s, crypted, i) ==
    LET Whole(j) == s[FirstOf(i) + j - 1] = [text |-> s[i].text, k |-> j]
    IN  IF crypted /\ i <= Grouped(Len(s))
        THEN IF Len(s[i].text) = Block /\ \A j \in 1..Block : Whole(j)
             THEN s[i].text[s[i].k] ELSE <<0, 0, 0>>
        ELSE IF Len(s[i].text) = 1 THEN s[i].text[1] ELSE <<0, 0, 0>>

\* The cells of a text that a record ends in, with all its parts before.
Ends(text) ==
    {i \in DOMAIN text :
        LET t == text[i] IN
        /\ t[1] # 0 /\ t[2] = t[3] /\ t[3] <= i
        /\ \A p \in 1..t[3] : text[i - t[3] + p] = <<t[1], p, t[3]>>}

\* The k-th of a set of numbers.
Nth(S, k) == CHOOSE i \in S : Cardinality({h \in S : h <= i}) = k

\* The records that are whole in a text, in order.
RecordsIn(text) ==
    LET ends == Ends(text)
    IN  [k \in 1..Cardinality(ends) |-> text[Nth(ends, k)][1]]

Decoded(s, crypted) == RecordsIn([i \in DOMAIN s |-> Text(s, crypted, i)])

Body(n) == [i \in 1..(n - 1) |-> cells[i + 1]]

\* What a reader of log files takes of a chunk with a header: it goes by the
\* length there, and passes over a chunk without the end mark behind that.
ReadBack(h, s) ==
    IF h.len + 1 \in DOMAIN s /\ s[h.len + 1] = Zero
    THEN Decoded(SubSeq(s, 1, h.len), h.magic = "crypt")
    ELSE <<>>

\* What open would recover if the process died now.
Recoverable ==
    IF header.magic = "none" \/ header.len = 0 THEN <<>>
    ELSE Decoded(Body(Lower(header.len + 1, Cap)), header.magic = "crypt")

-----------------------------------------------------------------------------
(* LogBuffer::LogBuffer and __Fix, in appender_open.                       *)

Open ==
    /\ pc = "off"
    /\ key' \in Keys
    /\ IF header.magic # "none" THEN SetLength(header.len + 1)
       ELSE length' = 0
    /\ remain' = 0
    /\ pc' = "recover"
    /\ UNCHANGED <<memory, writing, chunk, held, cut, used>>

-----------------------------------------------------------------------------
(* LogBuffer::Write.                                                       *)

Room == Cap - (IF length = 0 THEN 1 ELSE length)

\* A record that does not fit gets no id of its own.
Write(n) ==
    /\ pc = "idle"
    /\ IF n <= Room
       THEN used.logs < MaxLogs /\ used' = [used EXCEPT !.logs = @ + 1]
       ELSE used.cuts < MaxCuts /\ used' = [used EXCEPT !.cuts = @ + 1]
    /\ rec' = [id |-> IF n <= Room THEN used.logs + 1 ELSE 0, size |-> n]
    /\ pc' = IF length = 0 THEN "reset" ELSE "copy"
    /\ UNCHANGED <<memory, object, out, at, chunk, held, cut>>

\* __Reset, when the buffer is empty.
Reset ==
    /\ pc = "reset"
    /\ header' = [magic |-> IF key THEN "crypt" ELSE "plain", len |-> 0]
    /\ length' = 1 /\ remain' = 0
    /\ pc' = "copy"
    /\ UNCHANGED <<cells, key, writing, chunk, history>>

\* CryptAsyncLog: the full groups are encrypted, the remainder is copied.
CryptAsyncLog(s) ==
    [i \in DOMAIN s |->
        IF key /\ i <= Grouped(Len(s))
        THEN [text |-> [j \in 1..Block |-> s[FirstOf(i) + j - 1].text[1]],
              k |-> 1 + i - FirstOf(i)]
        ELSE s[i]]

\* The data goes behind the buffer's end, as far as the block reaches.  With a
\* key it comes from deflate, which stops at the block's end and fails when
\* there is no room at all; without one the length is not corrected.
Copy ==
    /\ pc = "copy"
    /\ LET room   == Cap - length
           stored == Lower(rec.size, room)
           total  == IF key THEN stored ELSE rec.size
           new    == [p \in 1..total |-> Raw(rec, p)]
           rest   == SubSeq(Body(length), length - remain, length - 1)
       IN  IF key /\ room = 0
           THEN /\ pc' = "idle" /\ rec' = NoRecord
                /\ UNCHANGED <<cells, out, at, cut>>
           ELSE /\ cells' = [i \in DOMAIN cells |->
                     IF i \in length + 1 .. length + stored
                     THEN new[i - length] ELSE cells[i]]
                /\ out' = CryptAsyncLog(rest \o new)
                /\ at' = 0
                /\ cut' = (cut \/ stored < rec.size)
                /\ pc' = "crypt" /\ UNCHANGED rec
    /\ UNCHANGED <<header, object, chunk, held, used>>

\* buff_.Write(out_buffer, before_len): over the data and over what was left
\* unencrypted before it.
Rewrite ==
    /\ pc = "crypt" /\ at < Len(out)
    /\ at' = at + 1
    /\ LET i == length - remain + at'
       IN  cells' = IF i <= Cap THEN [cells EXCEPT ![i] = out[at']] ELSE cells
    /\ UNCHANGED <<header, pc, object, rec, out, chunk, history>>

\* Mutant: the cells that were rewritten are counted again.
AddedLenAll == Len(out)

\* What UpdateLogLen adds.
AddedLen == Len(out) - remain

\* Mutant: the remainder of the new record alone.
RemainderAlone == IF key THEN rec.size % Block ELSE 0

\* What CryptAsyncLog makes of remain_nocrypt_len_.
Remainder == IF key THEN Len(out) % Block ELSE 0

\* The record counts when UpdateLogLen has run.
Commit ==
    /\ pc = "crypt" /\ at = Len(out)
    /\ SetLength(length - remain + Len(out))
    /\ header' = [header EXCEPT !.len = @ + AddedLen]
    /\ remain' = Remainder
    /\ held' = IF rec.id # 0 THEN Append(held, rec.id) ELSE held
    /\ pc' = "idle" /\ rec' = NoRecord /\ out' = <<>> /\ at' = 0
    /\ UNCHANGED <<cells, key, chunk, cut, used>>

-----------------------------------------------------------------------------
(* LogBuffer::Flush.                                                       *)

\* Mutant: only the data is cleared.
HeaderKept == header

\* What __Clear's memset makes of the header.
ClearedHeader == NoHeader

\* GetLogLen is 0: there is nothing to take.
FlushEmpty ==
    /\ pc \in {"idle", "recover"}
    /\ length = 0 \/ header.magic = "none" \/ header.len = 0
    /\ header' = IF length = 0 THEN header ELSE ClearedHeader
    /\ cells' = [i \in DOMAIN cells |-> IF i <= length THEN Zero ELSE cells[i]]
    /\ length' = 0 /\ remain' = 0
    /\ pc' = "idle"
    /\ chunk' = NoChunk
    /\ UNCHANGED <<key, writing, history>>

\* __Flush puts the trailer behind the data, which may be behind the block;
\* then the whole is copied out, as far as the block reaches, or with
\* isCryptFlag FALSE that without the header and a trailer's length.  The flag
\* is set by every appender_open, also while the log is open.
FlushTake ==
    /\ pc \in {"idle", "recover"}
    /\ length > 0 /\ header.magic # "none" /\ header.len > 0
    /\ cells' = [i \in DOMAIN cells |-> IF i = length + 1 THEN Zero ELSE cells[i]]
    /\ SetLength(length + 1)
    /\ \E isCryptFlag \in BOOLEAN : chunk' =
          [headed  |-> isCryptFlag,
           records |-> IF isCryptFlag
                       THEN ReadBack(header, [i \in 1..(length' - 1) |-> cells'[i + 1]])
                       ELSE Decoded(Body(length' - 1), FALSE)]
    /\ pc' = "clear"
    /\ UNCHANGED <<header, key, remain, writing, held, cut, used>>

\* __Clear: memset goes upwards, the header first.
ClearHeader ==
    /\ pc = "clear"
    /\ header' = ClearedHeader
    /\ held' = <<>> /\ cut' = FALSE
    /\ pc' = "clearData"
    /\ UNCHANGED <<cells, object, writing, chunk, used>>

ClearData ==
    /\ pc = "clearData"
    /\ cells' = [i \in DOMAIN cells |-> IF i <= length THEN Zero ELSE cells[i]]
    /\ length' = 0 /\ remain' = 0
    /\ pc' = "idle"
    /\ UNCHANGED <<header, key, writing, chunk, history>>

-----------------------------------------------------------------------------
(* The process dies: what is not in the block is gone.                     *)

Crash ==
    /\ pc # "off"
    /\ used.crashes < MaxCrashes
    /\ used' = [used EXCEPT !.crashes = @ + 1]
    /\ pc' = "off"
    /\ key' = FALSE /\ length' = 0 /\ remain' = 0
    /\ rec' = NoRecord /\ out' = <<>> /\ at' = 0 /\ chunk' = NoChunk
    /\ held' = Recoverable
    /\ UNCHANGED <<memory, cut>>

\* appender_close zeroes the block and deletes the object.
Close ==
    /\ pc = "idle"
    /\ header' = NoHeader
    /\ cells' = [i \in DOMAIN cells |-> Zero]
    /\ pc' = "off"
    /\ key' = FALSE /\ length' = 0 /\ remain' = 0
    /\ chunk' = NoChunk /\ held' = <<>> /\ cut' = FALSE
    /\ UNCHANGED <<writing, used>>

Flush == FlushEmpty \/ FlushTake \/ ClearHeader \/ ClearData

WriteStep ==
    \/ \E n \in IF length < WarnAt THEN Sizes ELSE {1} : Write(n)
    \/ Reset \/ Copy \/ Rewrite \/ Commit

Next == Open \/ WriteStep \/ Flush \/ Crash \/ Close

Spec == Init /\ [][Next]_vars

-----------------------------------------------------------------------------
(* What the block guarantees.                                              *)

\* A flush hands out exactly the records written since the one before, in
\* order and as the readers take them, whatever the sizes, the groups they
\* share, the crashes in between and the garbage those left behind the data.
\* Not so if no cell is left behind the data for the end mark: a reader that
\* goes by the header takes nothing then, and without the header the last
\* record can lose its end.  Encrypted data without its header is lost anyway.
ChunkDecodes ==
    LET ended == header.len + 1 < Cap
    IN  pc = "clear" =>
            IF chunk.headed THEN chunk.records = IF ended THEN held ELSE <<>>
            ELSE header.magic # "crypt" =>
                     \/ chunk.records = held
                     \/ ~ended /\ chunk.records = SubSeq(held, 1, Len(held) - 1)

\* Wherever the process dies, what the next one recovers is what had been
\* written: all of it, but for the records in the last group of cells while a
\* write encrypts that group with what follows it.
CrashKeeps ==
    /\ header.magic # "crypt" \/ pc # "crypt" => Recoverable = held
    /\ \A i \in 1..Len(held) - (Block - 1) : Recoverable[i] = held[i]
    /\ \A i \in DOMAIN Recoverable : \E j \in DOMAIN held : held[j] = Recoverable[i]

\* Between two writes the header announces what the buffer holds, and the
\* unencrypted remainder is what the decoder takes for one: a cut record is
\* all that can part them.
HeaderAgrees ==
    pc = "idle" /\ length > 0 =>
        /\ ~cut => header.len = length - 1
        /\ header.len >= length - 1
        /\ header.magic = "crypt" => remain = (length - 1) % Block
=============================================================================
