--------------------------- MODULE LogBufferProofs ---------------------------
(* Theorems about LogBuffer, for every size of the block, of its groups and *)
(* of the records, and every bound: that header and block agree, and, in    *)
(* the middle part, that what is taken or recovered from the block is the   *)
(* records that were written; about Buffers, whose objects the bytes go     *)
(* through; and, in the last part, about XlogFile: that the reader of a     *)
(* log file finds what covers the hours it is asked for.                    *)
EXTENDS LogBuffer, Buffers, XlogFile, SequenceTheorems, FiniteSetTheorems,
        WellFoundedInduction, TLAPS

-----------------------------------------------------------------------------
(* Remainders                                                              *)

\* No multiple of B lies strictly between -B and B, but 0.
LEMMA Multiple ==
    ASSUME NEW k \in Int, NEW B \in Nat \ {0}, k * B < B, -B < k * B
    PROVE  k = 0
  <1>1. ~(k >= 1)
    <2>1. k >= 1 => (k - 1) * B >= 0
      BY SMT
    <2>2. (k - 1) * B = k * B - B
      BY SMT
    <2>. QED
      BY <2>1, <2>2
  <1>2. ~(k <= -1)
    <2>1. k <= -1 => (-1 - k) * B >= 0
      BY SMT
    <2>2. (-1 - k) * B = -B - k * B
      BY SMT
    <2>. QED
      BY <2>1, <2>2
  <1>. QED
    BY <1>1, <1>2

\* Quotient and remainder.
LEMMA ModIs ==
    ASSUME NEW a \in Nat, NEW B \in Nat \ {0}
    PROVE  /\ a % B \in 0..(B - 1)
           /\ a = ((a \div B) * B) + (a % B)
           /\ a \div B \in Int
  BY SMT

\* A remainder is at most what is divided.
LEMMA ModBound ==
    ASSUME NEW a \in Nat, NEW B \in Nat \ {0}
    PROVE  a % B \in Nat /\ a % B <= a
  BY SMT

\* There is one remainder.
LEMMA ModUnique ==
    ASSUME NEW a \in Nat, NEW B \in Nat \ {0}, NEW q \in Int, NEW r \in 0..(B - 1),
           a = (q * B) + r
    PROVE  a % B = r
  <1> DEFINE m == a % B
             d == a \div B
             k == d - q
  <1>1. m \in 0..(B - 1) /\ d \in Int /\ a = (d * B) + m
    BY ModIs
  <1> HIDE DEF m, d
  <1>2. k \in Int /\ k * B = (d * B) - (q * B)
    BY <1>1
  <1>3. d * B \in Int /\ q * B \in Int
    BY <1>1
  <1> HIDE DEF k
  <1>4. k * B = r - m
    BY <1>1, <1>2, <1>3
  <1>5. k * B < B /\ -B < k * B
    BY <1>1, <1>4
  <1>6. k = 0
    BY <1>2, <1>5, Multiple
  <1>7. 0 = r - m
    BY <1>4, <1>6
  <1>. QED
    BY <1>1, <1>7 DEF m

\* The remainder of a sum needs of the first term its remainder only: what
\* CryptAsyncLog counts on when it takes the remainder up again.
LEMMA ModAdds ==
    ASSUME NEW a \in Nat, NEW b \in Nat, NEW B \in Nat \ {0}
    PROVE  (a + b) % B = ((a % B) + b) % B
  <1> DEFINE m == a % B
             d == a \div B
             n == (m + b) % B
             e == (m + b) \div B
  <1>1. m \in 0..(B - 1) /\ d \in Int /\ a = (d * B) + m
    BY ModIs
  <1> HIDE DEF m, d
  <1>2. n \in 0..(B - 1) /\ e \in Int /\ m + b = (e * B) + n
    BY <1>1, ModIs
  <1> HIDE DEF n, e
  <1>3. (d + e) * B = (d * B) + (e * B) /\ d * B \in Int /\ e * B \in Int
    BY <1>1, <1>2
  <1>4. a + b = ((d + e) * B) + n
    BY <1>1, <1>2, <1>3
  <1>5. a + b \in Nat /\ d + e \in Int
    BY <1>1, <1>2
  <1>6. (a + b) % B = n
    BY <1>2, <1>4, <1>5, ModUnique, Zenon
  <1>. QED
    BY <1>6 DEF n, m

-----------------------------------------------------------------------------
(* The inductive invariant                                                 *)

Pcs == {"off", "recover", "idle", "reset", "copy", "crypt", "clear", "clearData"}

Types ==
    /\ header \in [magic : {"none", "plain", "crypt"}, len : Nat]
    /\ pc \in Pcs
    /\ key \in BOOLEAN
    /\ cut \in BOOLEAN
    /\ length \in 0..Cap
    /\ remain \in Nat
    /\ rec.size \in Nat

\* What HeaderAgrees says, at every step of a write: the magic and the key go
\* together, and the remainder is in the block.
Agrees ==
    /\ ~cut => header.len = length - 1
    /\ header.len >= length - 1
    /\ (header.magic = "crypt") = key
    /\ remain = IF key THEN (length - 1) % Block ELSE 0
    /\ remain <= length - 1

InWrite == pc \in {"idle", "copy", "crypt"} /\ length > 0 => Agrees

\* What Rewrite copies: the remainder and what the write adds, of which a key
\* leaves no more than the block has room for.
OutFits ==
    /\ AddedLen \in Nat /\ Len(out) \in Nat
    /\ key \/ ~cut => length + AddedLen <= Cap

IInv ==
    /\ Types
    /\ InWrite
    /\ pc \in {"copy", "crypt"} => length > 0
    /\ pc = "crypt" => OutFits

-----------------------------------------------------------------------------
(* The steps                                                               *)

\* ConstantsAssumption, one constant at a time.
LEMMA Constants ==
    /\ Cap \in Nat /\ Cap > 1
    /\ Block \in Nat \ {0}
    /\ \A n \in Sizes : n \in Nat
    /\ \A k \in Keys : k \in BOOLEAN
  <1>1. Cap \in Nat /\ Block \in Nat \ {0}
    BY ConstantsAssumption, Zenon
  <1>. QED
    BY <1>1, ConstantsAssumption

\* No process, no data.
LEMMA InitIInv == Init => IInv
  <1> SUFFICES ASSUME Init PROVE IInv
    OBVIOUS
  <1>1. header \in [magic : {"none", "plain", "crypt"}, len : Nat]
    BY DEF Init, NoHeader
  <1>2. pc = "off" /\ key \in BOOLEAN /\ cut \in BOOLEAN
    BY Zenon DEF Init
  <1>3. length \in 0..Cap /\ remain \in Nat /\ rec.size \in Nat
    BY Constants DEF Init, NoRecord
  <1>. QED
    BY <1>1, <1>2, <1>3 DEF IInv, Types, Pcs, InWrite

\* The next process trusts the header, up to the block's end.
LEMMA OpenKeeps == IInv /\ Open => IInv'
  <1> SUFFICES ASSUME IInv, Open PROVE IInv'
    OBVIOUS
  <1>1. header' = header /\ cut' = cut /\ rec' = rec
    BY DEF Open, memory, writing
  <1>2. pc' = "recover" /\ remain' = 0 /\ key' \in BOOLEAN
    BY Constants, Zenon DEF Open
  <1>3. length' \in 0..Cap
    BY Constants DEF IInv, Types, Open, SetLength, Lower
  <1>. QED
    BY <1>1, <1>2, <1>3 DEF IInv, Types, Pcs, InWrite

\* A write looks at the block and begins.
LEMMA WriteKeeps == ASSUME IInv, NEW n \in Nat, Write(n) PROVE IInv'
  <1>1. /\ header' = header /\ cut' = cut /\ key' = key
        /\ length' = length /\ remain' = remain
    BY DEF Write, memory, object
  <1>2. pc = "idle" /\ pc' = IF length = 0 THEN "reset" ELSE "copy"
    BY DEF Write
  <1>3. rec'.size \in Nat
    BY DEF Write
  <1>4. Types'
    BY <1>1, <1>2, <1>3 DEF IInv, Types, Pcs
  <1>5. Agrees => Agrees'
    BY <1>1 DEF Agrees
  <1>. QED
    BY <1>1, <1>2, <1>4, <1>5 DEF IInv, Types, InWrite

\* An empty block is given a header of its own.
LEMMA ResetKeeps == IInv /\ Reset => IInv'
  <1> SUFFICES ASSUME IInv, Reset PROVE IInv'
    OBVIOUS
  <1>1. /\ header' = [magic |-> IF key THEN "crypt" ELSE "plain", len |-> 0]
        /\ length' = 1 /\ remain' = 0 /\ pc' = "copy"
        /\ key' = key /\ cut' = cut /\ rec' = rec
    BY DEF Reset, writing, history
  <1>2. header' \in [magic : {"none", "plain", "crypt"}, len : Nat]
    BY <1>1
  <1>3. Types'
    BY <1>1, <1>2, Constants DEF IInv, Types, Pcs
  <1>4. 0 = 0 * Block + 0 /\ 0 \in 0..(Block - 1)
    BY Constants
  <1>5. 0 % Block = 0
    BY <1>4, Constants, ModUnique
  <1>6. (header'.magic = "crypt") = key'
    BY <1>1 DEF IInv, Types
  <1>7. Agrees'
    BY <1>1, <1>5, <1>6 DEF Agrees
  <1>. QED
    BY <1>1, <1>3, <1>7 DEF IInv, InWrite

\* A function on 1..n is a sequence of length n.
LEMMA LengthOf ==
    ASSUME NEW f, NEW n \in Nat, f = [i \in 1..n |-> f[i]]
    PROVE  f \in Seq({f[i] : i \in 1..n}) /\ Len(f) = n
  OBVIOUS

\* The length of a concatenation, whatever is in the sequences.
LEMMA LengthOfConcat ==
    ASSUME NEW S, NEW T, NEW s \in Seq(S), NEW t \in Seq(T)
    PROVE  s \o t \in Seq(S \cup T) /\ Len(s \o t) = Len(s) + Len(t)
  <1>1. s \in Seq(S \cup T) /\ t \in Seq(S \cup T)
    OBVIOUS
  <1>. QED
    BY <1>1, ConcatProperties

\* Encryption keeps the length.
LEMMA CryptLength ==
    ASSUME NEW S, NEW s \in Seq(S) PROVE Len(CryptAsyncLog(s)) = Len(s)
  <1> DEFINE c == CryptAsyncLog(s)
  <1>1. Len(s) \in Nat /\ DOMAIN s = 1..Len(s)
    BY LenProperties
  <1>2. c = [i \in 1..Len(s) |-> c[i]]
    BY <1>1 DEF CryptAsyncLog
  <1> HIDE DEF c
  <1>3. Len(c) = Len(s)
    BY <1>1, <1>2, LengthOf
  <1>. QED
    BY <1>3 DEF c

\* What Copy leaves in out: the remainder, and what the write adds.
LEMMA OutLength ==
    ASSUME NEW k \in Nat, k <= length - 1, length \in Nat, NEW total \in Nat
    PROVE  LET new  == [p \in 1..total |-> Raw(rec, p)]
               rest == SubSeq(Body(length), length - k, length - 1)
           IN  Len(CryptAsyncLog(rest \o new)) = k + total
  <1> DEFINE new  == [p \in 1..total |-> Raw(rec, p)]
             body == Body(length)
             m == length - k
             n == length - 1
             S == {body[i] : i \in m..n}
             T == {new[i] : i \in 1..total}
             rest == SubSeq(body, m, n)
  <1>1. new \in Seq(T) /\ Len(new) = total
    BY LengthOf
  <1>2. m \in Int /\ n \in Int /\ \A i \in m..n : body[i] \in S
    OBVIOUS
  <1> HIDE DEF body, S
  <1>3. rest \in Seq(S) /\ Len(rest) = IF m <= n THEN n - m + 1 ELSE 0
    BY <1>2, SubSeqProperties
  <1>4. Len(rest) = k
    BY <1>3
  <1> HIDE DEF new, rest, T
  <1>5. rest \o new \in Seq(S \cup T) /\ Len(rest \o new) = k + total
    BY <1>1, <1>3, <1>4, LengthOfConcat
  <1>6. Len(CryptAsyncLog(rest \o new)) = k + total
    BY <1>5, CryptLength
  <1>. QED
    BY <1>6 DEF rest, new, body

\* The data is behind the block's end, and out is what goes back.
LEMMA CopyKeeps == IInv /\ Copy => IInv'
  <1> SUFFICES ASSUME IInv, Copy PROVE IInv'
    OBVIOUS
  <1> DEFINE room   == Cap - length
             stored == Lower(rec.size, room)
             total  == IF key THEN stored ELSE rec.size
             full   == key /\ room = 0
             new    == [p \in 1..total |-> Raw(rec, p)]
             rest   == SubSeq(Body(length), length - remain, length - 1)
  <1>1. /\ header' = header /\ length' = length /\ remain' = remain
        /\ key' = key /\ pc = "copy"
    BY DEF Copy, object
  <1>2. /\ header \in [magic : {"none", "plain", "crypt"}, len : Nat]
        /\ length \in 1..Cap /\ remain \in Nat /\ key \in BOOLEAN /\ cut \in BOOLEAN
        /\ rec.size \in Nat /\ Agrees
    BY <1>1, Constants DEF IInv, Types, InWrite
  <1>3. stored \in Nat /\ total \in Nat /\ stored <= room /\ remain <= length - 1
    BY <1>2, Constants DEF Lower, Agrees
  <1>4. CASE full
    <2>1. pc' = "idle" /\ rec' = NoRecord /\ cut' = cut
      BY <1>4 DEF Copy
    <2>2. Types'
      BY <1>1, <1>2, <2>1 DEF Types, Pcs, NoRecord
    <2>3. Agrees'
      BY <1>1, <1>2, <2>1 DEF Agrees
    <2>. QED
      BY <2>1, <2>2, <2>3 DEF IInv, InWrite
  <1>5. CASE ~full
    <2>1. /\ pc' = "crypt" /\ rec' = rec /\ cut' = (cut \/ stored < rec.size)
          /\ out' = CryptAsyncLog(rest \o new)
      BY <1>5 DEF Copy
    <2>2. Len(out') = remain + total
      BY <1>2, <1>3, <2>1, OutLength
    <2>3. cut' \in BOOLEAN
      BY <2>1
    <2>4. Types'
      BY <1>1, <1>2, <2>1, <2>3 DEF Types, Pcs
    <2>5. ~cut' => ~cut
      BY <2>1
    <2>6. Agrees'
      BY <1>1, <1>2, <2>5 DEF Agrees
    <2>7. AddedLen' = total /\ Len(out)' \in Nat
      BY <1>1, <1>2, <1>3, <2>2 DEF AddedLen
    <2>8. key \/ ~cut' => length + total <= Cap
      <3>1. key => total <= room
        BY <1>3
      <3>2. ~cut' => ~(stored < rec.size)
        BY <2>1
      <3>3. ~(stored < rec.size) => total <= room
        BY <1>2, <1>3, Constants
      <3>. QED
        BY <1>2, <1>3, <3>1, <3>2, <3>3, Constants
    <2>9. OutFits'
      BY <1>1, <1>3, <2>7, <2>8 DEF OutFits
    <2>. QED
      BY <1>1, <1>2, <2>1, <2>4, <2>6, <2>9 DEF IInv, InWrite
  <1>. QED
    BY <1>4, <1>5

\* Cells are no part of the invariant.
LEMMA RewriteKeeps == IInv /\ Rewrite => IInv'
  <1> SUFFICES ASSUME IInv, Rewrite PROVE IInv'
    OBVIOUS
  <1>1. /\ header' = header /\ pc' = pc /\ key' = key /\ length' = length
        /\ remain' = remain /\ rec' = rec /\ out' = out /\ cut' = cut
    BY DEF Rewrite, object, history
  <1>. QED
    BY <1>1 DEF IInv, Types, InWrite, Agrees, OutFits, AddedLen

\* UpdateLogLen, on a header that stands alone.
LEMMA MoreInHeader ==
    ASSUME NEW h \in [magic : {"none", "plain", "crypt"}, len : Nat], NEW n \in Nat
    PROVE  LET more == [h EXCEPT !.len = @ + n]
           IN  /\ more \in [magic : {"none", "plain", "crypt"}, len : Nat]
               /\ more.magic = h.magic /\ more.len = h.len + n
  OBVIOUS

\* Length and header grow by the same, and the remainder follows.
LEMMA CommitKeeps == IInv /\ Commit => IInv'
  <1> SUFFICES ASSUME IInv, Commit PROVE IInv'
    OBVIOUS
  <1> DEFINE added == Len(out) - remain
  <1>1. /\ pc = "crypt" /\ pc' = "idle" /\ key' = key /\ cut' = cut
        /\ header' = [header EXCEPT !.len = @ + added]
        /\ length' = Lower(length - remain + Len(out), Cap)
        /\ remain' = Remainder /\ rec' = NoRecord
    BY DEF Commit, SetLength, AddedLen
  <1>2. /\ header \in [magic : {"none", "plain", "crypt"}, len : Nat]
        /\ length \in 1..Cap /\ remain \in Nat /\ key \in BOOLEAN /\ cut \in BOOLEAN
        /\ Agrees /\ OutFits
    BY <1>1, Constants DEF IInv, Types, InWrite
  <1>3. added \in Nat /\ Len(out) \in Nat /\ Len(out) = remain + added
    BY <1>2 DEF OutFits, AddedLen
  <1>4. key \/ ~cut => length + added <= Cap
    BY <1>2 DEF OutFits, AddedLen
  <1> HIDE DEF added
  <1>5. length' = Lower(length + added, Cap)
    BY <1>1, <1>2, <1>3
  <1>6. length' \in 1..Cap /\ length' - 1 \in Nat /\ length' <= length + added
    BY <1>2, <1>3, <1>5, Constants DEF Lower
  <1>7. key \/ ~cut => length' = length + added
    BY <1>2, <1>3, <1>4, <1>5, Constants DEF Lower
  <1>8. header'.magic = header.magic /\ header'.len = header.len + added
        /\ header' \in [magic : {"none", "plain", "crypt"}, len : Nat]
    BY <1>1, <1>2, <1>3, MoreInHeader
  <1>9. key => remain' = (length' - 1) % Block
    <2> SUFFICES ASSUME key PROVE remain' = (length' - 1) % Block
      OBVIOUS
    <2>1. remain' = (remain + added) % Block
      BY <1>1, <1>3 DEF Remainder
    <2>2. remain = (length - 1) % Block
      BY <1>2 DEF Agrees
    <2>3. length - 1 \in Nat /\ length' - 1 = (length - 1) + added
      BY <1>2, <1>3, <1>7
    <2>4. ((length - 1) + added) % Block = (((length - 1) % Block) + added) % Block
      BY <1>3, <2>3, Constants, ModAdds
    <2>. QED
      BY <2>1, <2>2, <2>3, <2>4, Zenon
  <1>10. ~key => remain' = 0
    BY <1>1 DEF Remainder
  <1>11. remain' \in Nat /\ remain' <= length' - 1
    <2>1. (length' - 1) % Block \in Nat /\ (length' - 1) % Block <= length' - 1
      BY <1>6, Constants, ModBound
    <2>. QED
      BY <1>2, <1>6, <1>9, <1>10, <2>1
  <1>12. ~cut => header'.len = length' - 1
    BY <1>2, <1>3, <1>7, <1>8 DEF Agrees
  <1>13. header'.len >= length' - 1
    BY <1>2, <1>3, <1>6, <1>8 DEF Agrees
  <1>14. Agrees'
    BY <1>1, <1>2, <1>8, <1>9, <1>10, <1>11, <1>12, <1>13 DEF Agrees
  <1>15. Types'
    BY <1>1, <1>2, <1>6, <1>8, <1>11 DEF Types, Pcs, NoRecord
  <1>. QED
    BY <1>1, <1>14, <1>15 DEF IInv, InWrite

\* A flush empties the block.
LEMMA FlushKeeps == IInv /\ Flush => IInv'
  <1> SUFFICES ASSUME IInv, Flush PROVE IInv'
    OBVIOUS
  <1>1. ClearedHeader \in [magic : {"none", "plain", "crypt"}, len : Nat]
    BY DEF ClearedHeader, NoHeader
  <1>2. CASE FlushEmpty
    <2>1. header' \in {header, ClearedHeader} /\ length' = 0 /\ remain' = 0
          /\ pc' = "idle" /\ key' = key /\ rec' = rec /\ cut' = cut
      BY <1>2 DEF FlushEmpty, writing, history
    <2>. QED
      BY <1>1, <2>1, Constants DEF IInv, Types, Pcs, InWrite
  <1>3. CASE FlushTake
    <2>1. header' = header /\ remain' = remain /\ pc' = "clear"
          /\ key' = key /\ rec' = rec /\ cut' = cut
      BY <1>3 DEF FlushTake, writing
    <2>2. length' \in 0..Cap
      BY <1>3, Constants DEF IInv, Types, FlushTake, SetLength, Lower
    <2>. QED
      BY <2>1, <2>2 DEF IInv, Types, Pcs, InWrite
  <1>4. CASE ClearHeader
    <2>1. header' = ClearedHeader /\ length' = length /\ remain' = remain
          /\ pc' = "clearData" /\ key' = key /\ rec' = rec /\ cut' = FALSE
      BY <1>4 DEF ClearHeader, object, writing
    <2>2. cut' \in BOOLEAN
      BY <2>1, Zenon
    <2>. QED
      BY <1>1, <2>1, <2>2 DEF IInv, Types, Pcs, InWrite
  <1>5. CASE ClearData
    <2>1. header' = header /\ length' = 0 /\ remain' = 0
          /\ pc' = "idle" /\ key' = key /\ rec' = rec /\ cut' = cut
      BY <1>5 DEF ClearData, writing, history
    <2>. QED
      BY <2>1, Constants DEF IInv, Types, Pcs, InWrite
  <1>. QED
    BY <1>2, <1>3, <1>4, <1>5 DEF Flush

\* A process that ends leaves header and cut to the one after it.
LEMMA EndKeeps == IInv /\ (Crash \/ Close) => IInv'
  <1> SUFFICES ASSUME IInv, Crash \/ Close PROVE IInv'
    OBVIOUS
  <1>1. pc' = "off" /\ length' = 0 /\ remain' = 0 /\ header' \in {header, NoHeader}
    BY DEF Crash, Close, memory
  <1>2. key' \in BOOLEAN
    BY Zenon DEF Crash, Close
  <1>3. cut' \in BOOLEAN
    <2>1. CASE Crash
      BY <2>1 DEF Crash, IInv, Types
    <2>2. CASE Close
      BY <2>2, Zenon DEF Close
    <2>. QED
      BY <2>1, <2>2
  <1>4. rec'.size \in Nat
    BY DEF Crash, Close, NoRecord, writing, IInv, Types
  <1>. QED
    BY <1>1, <1>2, <1>3, <1>4, Constants DEF IInv, Types, Pcs, InWrite, NoHeader

\* Every step keeps the invariant.
LEMMA StepIInv == IInv /\ [Next]_vars => IInv'
  <1> SUFFICES ASSUME IInv, [Next]_vars PROVE IInv'
    OBVIOUS
  <1>1. CASE Open
    BY <1>1, OpenKeeps
  <1>2. CASE WriteStep
    <2>1. ASSUME NEW n \in IF length < WarnAt THEN Sizes ELSE {1}, Write(n) PROVE IInv'
      <3>1. n \in Nat
        BY Constants
      <3>. QED
        BY <2>1, <3>1, WriteKeeps
    <2>. QED
      BY <1>2, <2>1, ResetKeeps, CopyKeeps, RewriteKeeps, CommitKeeps DEF WriteStep
  <1>3. CASE Flush
    BY <1>3, FlushKeeps
  <1>4. CASE Crash \/ Close
    BY <1>4, EndKeeps
  <1>5. CASE UNCHANGED vars
    BY <1>5 DEF vars, memory, object, writing, history, IInv, Types, InWrite, Agrees,
                OutFits, AddedLen
  <1>. QED
    BY <1>1, <1>2, <1>3, <1>4, <1>5 DEF Next

-----------------------------------------------------------------------------
(* The theorem                                                             *)

\* Between two writes the header announces what the buffer holds and the
\* remainder is the decoder's (LogBuffer::Write and __Fix), for every size of
\* the block, of its groups and of the records, with and without a key, and
\* whatever crashes and flushes came before.
THEOREM HeaderAgreesAlways == Spec => []HeaderAgrees
  <1>1. IInv => HeaderAgrees
    BY Constants DEF IInv, Types, InWrite, Agrees, HeaderAgrees
  <1>. QED
    BY <1>1, InitIInv, StepIInv, PTL DEF Spec

-----------------------------------------------------------------------------
(* Buffers: the objects, and what the member functions do to the bytes.    *)

BufferObjects == [parray : Seq(Bytes), pos : Nat, length : Nat]

\* The cursor lies in the content and the content in the memory.
SoundObject(b) ==
  b \in BufferObjects /\ b.pos <= b.length /\ b.length <= Len(b.parray)

\* Every object is sound; an AutoBuffer holds at most MaxBytes bytes, and the
\* PtrBuffer's block has MaxBytes, if it has one.
BuffersInv ==
  /\ autos \in [Autos -> BufferObjects]
  /\ \A n \in Autos : SoundObject(autos[n]) /\ autos[n].length <= MaxBytes
  /\ SoundObject(ptr)
  /\ ptr = NoPtr \/ Len(ptr.parray) = MaxBytes

\* The content, byte by byte.
LEMMA ContentIs ==
    ASSUME NEW b, SoundObject(b)
    PROVE  /\ Content(b) \in Seq(Bytes)
           /\ Len(Content(b)) = b.length
           /\ \A i \in 1..b.length : Content(b)[i] = b.parray[i]
  <1>1. b.parray \in Seq(Bytes) /\ b.length \in 0..Len(b.parray)
    BY DEF SoundObject, BufferObjects
  <1>2. \A i \in 1..b.length : b.parray[i] \in Bytes
    BY <1>1, ElementOfSeq
  <1>. QED
    BY <1>1, <1>2, SubSeqProperties DEF Content

\* A unit of memory more than enough is enough.
LEMMA UnitsCover ==
    ASSUME NEW n \in Nat
    PROVE  /\ ((n + UnitSize - 1) \div UnitSize) * UnitSize \in Nat
           /\ ((n + UnitSize - 1) \div UnitSize) * UnitSize >= n
  <1> DEFINE a == n + UnitSize - 1
             q == a \div UnitSize
  <1>1. UnitSize \in Nat \ {0}
    BY UnitSizeAssumption
  <1>2. a \in Nat
    BY <1>1
  <1> HIDE DEF a
  <1>3. a % UnitSize \in 0..(UnitSize - 1) /\ a = (q * UnitSize) + (a % UnitSize) /\ q \in Int
    BY <1>1, <1>2, ModIs
  <1> HIDE DEF q
  <1>4. q * UnitSize \in Int
    BY <1>1, <1>3
  <1>5. q * UnitSize >= n
    <2> DEFINE p == q * UnitSize
               m == a % UnitSize
    <2>1. p \in Int /\ m \in 0..(UnitSize - 1) /\ a = p + m
      BY <1>3, <1>4
    <2> HIDE DEF p, m
    <2>2. p >= n
      BY <2>1, <1>1 DEF a
    <2>. QED
      BY <2>2 DEF p
  <1>. QED
    BY <1>4, <1>5 DEF q, a

\* Zeros is a string of zeros.
LEMMA ZerosAre ==
    ASSUME NEW n \in Nat
    PROVE  Zeros(n) \in Seq(Bytes) /\ Len(Zeros(n)) = n /\ \A i \in 1..n : Zeros(n)[i] = Nul
  <1>1. Zeros(n) \in [1..n -> Bytes]
    BY DEF Zeros, Bytes
  <1>. QED
    BY <1>1 DEF Zeros

\* FitSize makes the memory large enough and keeps what is in it.
LEMMA FitSizeKeeps ==
    ASSUME NEW b, SoundObject(b), NEW n \in Nat
    PROVE  /\ SoundObject(FitSize(b, n))
           /\ FitSize(b, n).pos = b.pos /\ FitSize(b, n).length = b.length
           /\ Len(FitSize(b, n).parray) >= n
           /\ Len(FitSize(b, n).parray) >= Len(b.parray)
           /\ \A i \in 1..Len(b.parray) : FitSize(b, n).parray[i] = b.parray[i]
  <1> DEFINE mallocsize == ((n + UnitSize - 1) \div UnitSize) * UnitSize
  <1>1. b \in BufferObjects /\ b.parray \in Seq(Bytes) /\ Len(b.parray) \in Nat
    BY DEF SoundObject, BufferObjects
  <1>2. CASE n <= Capacity(b)
    BY <1>1, <1>2 DEF FitSize, Capacity, SoundObject
  <1>3. CASE ~(n <= Capacity(b))
    <2> DEFINE z == Zeros(mallocsize - Capacity(b))
    <2>1. mallocsize \in Nat /\ mallocsize >= n
      BY UnitsCover
    <2>2. FitSize(b, n) = [b EXCEPT !.parray = @ \o z]
      BY <1>3 DEF FitSize
    <2> HIDE DEF mallocsize
    <2>3. mallocsize - Capacity(b) \in Nat /\ mallocsize - Capacity(b) >= n - Len(b.parray)
      BY <1>1, <1>3, <2>1 DEF Capacity
    <2>4. z \in Seq(Bytes) /\ Len(z) >= n - Len(b.parray) /\ Len(z) \in Nat
      BY <2>3, ZerosAre
    <2> HIDE DEF z
    <2>5. /\ b.parray \o z \in Seq(Bytes)
          /\ Len(b.parray \o z) = Len(b.parray) + Len(z)
          /\ \A i \in 1..Len(b.parray) : (b.parray \o z)[i] = b.parray[i]
      BY <1>1, <2>4, ConcatProperties
    <2>6. FitSize(b, n) = [parray |-> b.parray \o z, pos |-> b.pos, length |-> b.length]
      BY <2>2, <1>1 DEF BufferObjects
    <2>. QED
      BY <2>4, <2>5, <2>6, <1>1 DEF SoundObject, BufferObjects
  <1>. QED
    BY <1>2, <1>3

\* Over changes what lies under the second string, and nothing else.
LEMMA OverIs ==
    ASSUME NEW s \in Seq(Bytes), NEW t \in Seq(Bytes), NEW place \in Nat
    PROVE  /\ Over(s, place, t) \in Seq(Bytes)
           /\ Len(Over(s, place, t)) = Len(s)
           /\ \A i \in 1..Len(s) : Over(s, place, t)[i] =
                IF i > place /\ i <= place + Len(t) THEN t[i - place] ELSE s[i]
  <1>1. Len(s) \in Nat /\ DOMAIN s = 1..Len(s) /\ Len(t) \in Nat /\ DOMAIN t = 1..Len(t)
    BY LenProperties
  <1>2. \A i \in 1..Len(s) : (i - place \in DOMAIN t) <=> (i > place /\ i <= place + Len(t))
    BY <1>1
  <1>3. \A i \in 1..Len(s) :
          (IF i > place /\ i <= place + Len(t) THEN t[i - place] ELSE s[i]) \in Bytes
    BY <1>1, ElementOfSeq
  <1>4. Over(s, place, t) = [i \in 1..Len(s) |->
            IF i > place /\ i <= place + Len(t) THEN t[i - place] ELSE s[i]]
    BY <1>1, <1>2 DEF Over
  <1>5. Over(s, place, t) \in [1..Len(s) -> Bytes]
    BY <1>3, <1>4
  <1>. QED
    BY <1>1, <1>4, <1>5

\* Where Seek counts from.
From(b, origin) ==
  IF origin = "start" THEN 0 ELSE IF origin = "cur" THEN b.pos ELSE b.length

\* Seek goes to the offset, or to the end of the content that is next to it.
LEMMA SeekIs ==
    ASSUME NEW b \in BufferObjects, b.length <= Len(b.parray),
           NEW offset \in Int, NEW origin \in {"start", "cur", "end"}
    PROVE  /\ Seek(b, offset, origin).pos =
                TheStrings!Within(From(b, origin) + offset, b.length)
           /\ Seek(b, offset, origin).length = b.length
           /\ Seek(b, offset, origin).parray = b.parray
           /\ SoundObject(Seek(b, offset, origin))
           /\ Content(Seek(b, offset, origin)) = Content(b)
  <1>1. b \in BufferObjects /\ b.pos \in Nat /\ b.length \in Nat
    BY DEF BufferObjects
  <1> DEFINE from == From(b, origin)
             to == TheStrings!Within(from + offset, b.length)
  <1>2. from \in Nat /\ offset + from = from + offset
    BY <1>1 DEF From
  <1>3. to \in Nat /\ to <= b.length
    BY <1>1, <1>2 DEF TheStrings!Within
  <1>4. Seek(b, offset, origin) = [b EXCEPT !.pos = Least(Most(offset + from, 0), b.length)]
    BY DEF Seek, From
  <1>5. Least(Most(offset + from, 0), b.length) = to
    BY <1>1, <1>2 DEF Least, Most, TheStrings!Within
  <1>6. Seek(b, offset, origin) = [parray |-> b.parray, pos |-> to, length |-> b.length]
    BY <1>1, <1>4, <1>5 DEF BufferObjects
  <1> HIDE DEF to
  <1>7. SoundObject(Seek(b, offset, origin))
    BY <1>1, <1>3, <1>6 DEF SoundObject, BufferObjects
  <1>8. Content(Seek(b, offset, origin)) = Content(b)
    <2>1. Seek(b, offset, origin).parray = b.parray /\ Seek(b, offset, origin).length = b.length
      BY <1>6
    <2>. QED
      BY <2>1 DEF Content
  <1>. QED
    BY <1>6, <1>7, <1>8 DEF to

-----------------------------------------------------------------------------
(* Buffers: writes.                                                        *)

\* A string with s over it from at on and up to limit: what Put makes.
Putting(old, place, s, limit) ==
  LET end == IF place + Len(s) > limit THEN limit ELSE place + Len(s)
  IN  [i \in 1..(IF end > Len(old) THEN end ELSE Len(old)) |->
         IF i > place /\ i <= end THEN s[i - place] ELSE old[i]]

\* A new length and a new memory make a new object with the old cursor.
LEMMA TwoFields ==
    ASSUME NEW b \in BufferObjects, NEW len, NEW mem
    PROVE  [b EXCEPT !.length = len, !.parray = mem] =
             [parray |-> mem, pos |-> b.pos, length |-> len]
  <1> DEFINE r == [b EXCEPT !.length = len]
  <1>1. r = [parray |-> b.parray, pos |-> b.pos, length |-> len]
    BY DEF BufferObjects
  <1>2. [b EXCEPT !.length = len, !.parray = mem] = [r EXCEPT !.parray = mem]
    OBVIOUS
  <1> HIDE DEF r
  <1>3. [r EXCEPT !.parray = mem] = [parray |-> mem, pos |-> b.pos, length |-> len]
    BY <1>1
  <1>. QED
    BY <1>2, <1>3, Zenon

\* Bytes written over memory that is large enough are put into the content.
LEMMA OverPuts ==
    ASSUME NEW b, SoundObject(b), NEW s \in Seq(Bytes), NEW place \in 0..b.length,
           place + Len(s) <= Len(b.parray), NEW limit \in Nat, place + Len(s) <= limit,
           NEW c, c = [parray |-> Over(b.parray, place, s), pos |-> b.pos,
                       length |-> Most(place + Len(s), b.length)]
    PROVE  /\ SoundObject(c)
           /\ c.pos = b.pos /\ c.length = Most(place + Len(s), b.length)
           /\ Len(c.parray) = Len(b.parray)
           /\ Content(c) = Putting(Content(b), place, s, limit)
  <1> DEFINE o == Over(b.parray, place, s)
             len == Most(place + Len(s), b.length)
             e == [i \in 1..len |->
                     IF i > place /\ i <= place + Len(s) THEN s[i - place] ELSE Content(b)[i]]
  <1>1. b \in BufferObjects /\ b.parray \in Seq(Bytes) /\ b.pos \in Nat /\ b.length \in Nat
        /\ b.length <= Len(b.parray) /\ b.pos <= b.length
    BY DEF SoundObject, BufferObjects
  <1>2. Len(s) \in Nat /\ Len(b.parray) \in Nat
    BY <1>1, LenProperties
  <1>3. /\ o \in Seq(Bytes) /\ Len(o) = Len(b.parray)
        /\ \A i \in 1..Len(b.parray) : o[i] =
             IF i > place /\ i <= place + Len(s) THEN s[i - place] ELSE b.parray[i]
    BY <1>1, OverIs
  <1>4. c = [parray |-> o, pos |-> b.pos, length |-> len]
    OBVIOUS
  <1>5. len \in Nat /\ b.length <= len /\ place + Len(s) <= len /\ len <= Len(b.parray)
        /\ (len = place + Len(s) \/ len = b.length)
    BY <1>1, <1>2 DEF Most
  <1> HIDE DEF o, len
  <1>6. c.parray = o /\ c.pos = b.pos /\ c.length = len
    BY <1>4
  <1>7. c \in BufferObjects
    BY <1>1, <1>3, <1>4, <1>5 DEF BufferObjects
  <1>8. SoundObject(c)
    BY <1>1, <1>3, <1>5, <1>6, <1>7 DEF SoundObject
  <1>9. \A i \in 1..len : o[i] = e[i]
    <2> TAKE i \in 1..len
    <2>1. i \in 1..Len(b.parray)
      BY <1>2, <1>5
    <2>2. CASE i > place /\ i <= place + Len(s)
      BY <2>1, <2>2, <1>3
    <2>3. CASE ~(i > place /\ i <= place + Len(s))
      <3>1. i \in 1..b.length
        BY <2>3, <1>1, <1>2, <1>5
      <3>2. Content(b)[i] = b.parray[i]
        BY <3>1, ContentIs
      <3>. QED
        BY <2>1, <2>3, <3>2, <1>3
    <2>. QED
      BY <2>2, <2>3
  <1>10. Content(c) = e
    <2>1. Content(c) \in Seq(Bytes) /\ Len(Content(c)) = len
          /\ \A i \in 1..len : Content(c)[i] = o[i]
      BY <1>6, <1>8, ContentIs
    <2>2. Content(c) \in [1..len -> Bytes]
      BY <2>1, LenProperties
    <2>3. \A i \in 1..len : Content(c)[i] = e[i]
      BY <2>1, <1>9
    <2>4. e = [i \in 1..len |-> e[i]]
      OBVIOUS
    <2> HIDE DEF e
    <2>. QED
      BY <2>2, <2>3, <2>4
  <1>11. Putting(Content(b), place, s, limit) = e
    <2>1. Len(Content(b)) = b.length
      BY ContentIs
    <2>2. ~(place + Len(s) > limit)
      BY <1>2
    <2>3. (IF place + Len(s) > b.length THEN place + Len(s) ELSE b.length) = len
      BY <1>1, <1>2 DEF Most, len
    <2>. QED
      BY <2>1, <2>2, <2>3 DEF Putting
  <1>. QED
    BY <1>3, <1>6, <1>8, <1>10, <1>11 DEF len

\* Memory that only grows has the same content.
LEMMA FitSizeContent ==
    ASSUME NEW b, SoundObject(b), NEW n \in Nat
    PROVE  Content(FitSize(b, n)) = Content(b)
  <1> DEFINE f == FitSize(b, n)
  <1>1. /\ SoundObject(f) /\ f.length = b.length
        /\ \A i \in 1..Len(b.parray) : f.parray[i] = b.parray[i]
    BY FitSizeKeeps
  <1>2. b.length \in 0..Len(b.parray)
    BY DEF SoundObject, BufferObjects
  <1> HIDE DEF f
  <1>3. \A i \in 1..b.length : Content(f)[i] = Content(b)[i]
    BY <1>1, <1>2, ContentIs
  <1>. QED
    BY <1>1, <1>3, ContentIs, SeqEqual DEF f

\* AutoBuffer::Write puts the bytes where it was told to.
LEMMA WriteAtPuts ==
    ASSUME NEW b, SoundObject(b), NEW s \in Seq(Bytes), NEW place \in 0..b.length,
           NEW limit \in Nat, place + Len(s) <= limit
    PROVE  /\ SoundObject(WriteAt(b, place, s))
           /\ WriteAt(b, place, s).pos = b.pos
           /\ WriteAt(b, place, s).length = Most(place + Len(s), b.length)
           /\ Content(WriteAt(b, place, s)) = Putting(Content(b), place, s, limit)
  <1> DEFINE f == FitSize(b, place + Len(s))
  <1>1. b.length \in Nat /\ b.pos \in Nat /\ Len(s) \in Nat
    BY LenProperties DEF SoundObject, BufferObjects
  <1>0. place + Len(s) \in Nat
    BY <1>1
  <1>2. /\ SoundObject(f) /\ f.pos = b.pos /\ f.length = b.length
        /\ Len(f.parray) >= place + Len(s) /\ Content(f) = Content(b)
    BY <1>0, <1>1, FitSizeKeeps, FitSizeContent
  <1>3. WriteAt(b, place, s) = [f EXCEPT !.length = Most(place + Len(s), f.length),
                                   !.parray = Over(f.parray, place, s)]
    BY DEF WriteAt
  <1> HIDE DEF f
  <1>4. Len(f.parray) \in Nat
    BY <1>2, LenProperties DEF SoundObject, BufferObjects
  <1>5. WriteAt(b, place, s) = [parray |-> Over(f.parray, place, s), pos |-> f.pos,
                          length |-> Most(place + Len(s), f.length)]
    <2>1. f \in BufferObjects
      BY <1>2 DEF SoundObject
    <2>. QED
      BY <1>3, <2>1, TwoFields, Zenon
  <1>. QED
    BY <1>1, <1>2, <1>4, <1>5, OverPuts

\* AutoBuffer::Write from the cursor puts the bytes there and goes behind them.
LEMMA WriteCurPuts ==
    ASSUME NEW b, SoundObject(b), NEW s \in Seq(Bytes),
           NEW limit \in Nat, b.pos + Len(s) <= limit
    PROVE  /\ SoundObject(WriteCur(b, s))
           /\ WriteCur(b, s).pos = b.pos + Len(s)
           /\ WriteCur(b, s).length = Most(b.pos + Len(s), b.length)
           /\ Content(WriteCur(b, s)) = Putting(Content(b), b.pos, s, limit)
  <1> DEFINE w == WriteAt(b, b.pos, s)
  <1>1. b.length \in Nat /\ b.pos \in 0..b.length /\ Len(s) \in Nat
    BY LenProperties DEF SoundObject, BufferObjects
  <1>2. /\ SoundObject(w) /\ w.pos = b.pos /\ w.length = Most(b.pos + Len(s), b.length)
        /\ Content(w) = Putting(Content(b), b.pos, s, limit)
    BY <1>1, WriteAtPuts
  <1>3. WriteCur(b, s) = Seek(w, Len(s), "cur")
    BY DEF WriteCur
  <1> HIDE DEF w
  <1>4. /\ SoundObject(WriteCur(b, s))
        /\ WriteCur(b, s).pos = TheStrings!Within(w.pos + Len(s), w.length)
        /\ WriteCur(b, s).length = w.length
        /\ Content(WriteCur(b, s)) = Content(w)
    <2>1. "cur" \in {"start", "cur", "end"} /\ Len(s) \in Int
      BY <1>1
    <2>2. From(w, "cur") = w.pos
      BY DEF From
    <2>. QED
      BY <1>2, <1>3, <2>1, <2>2, SeekIs DEF SoundObject
  <1>5. TheStrings!Within(w.pos + Len(s), w.length) = b.pos + Len(s)
    BY <1>1, <1>2 DEF TheStrings!Within, Most
  <1>. QED
    BY <1>2, <1>4, <1>5

\* AutoBuffer::Write at the end puts the bytes behind the content.
LEMMA WriteEndPuts ==
    ASSUME NEW b, SoundObject(b), NEW s \in Seq(Bytes),
           NEW limit \in Nat, b.length + Len(s) <= limit
    PROVE  /\ SoundObject(WriteSeek(b, "end", s))
           /\ WriteSeek(b, "end", s).pos = b.pos
           /\ WriteSeek(b, "end", s).length = Most(b.length + Len(s), b.length)
           /\ Content(WriteSeek(b, "end", s)) = Putting(Content(b), b.length, s, limit)
  <1>1. b.length \in Nat
    BY DEF SoundObject, BufferObjects
  <1>2. Seek(b, 0, "end").pos = TheStrings!Within(b.length + 0, b.length)
    <2>1. From(b, "end") = b.length
      BY DEF From
    <2>. QED
      BY <2>1, SeekIs DEF SoundObject
  <1>3. TheStrings!Within(b.length + 0, b.length) = b.length
    BY <1>1 DEF TheStrings!Within
  <1>4. WriteSeek(b, "end", s) = WriteAt(b, b.length, s)
    BY <1>2, <1>3 DEF WriteSeek
  <1>. QED
    BY <1>1, <1>4, WriteAtPuts

-----------------------------------------------------------------------------
(* Buffers: lengths.                                                       *)

\* A string of that length that begins like the old one: what Resize allows.
BeginsLike(new, old, len) ==
  /\ Len(new) = len
  /\ \A i \in 1..len : i <= Len(old) => new[i] = old[i]

\* Objects with the same memory, as far as the old content reaches, have
\* contents that begin alike.
LEMMA SameMemory ==
    ASSUME NEW b, SoundObject(b), NEW c, SoundObject(c),
           \A i \in 1..b.length : i <= c.length => c.parray[i] = b.parray[i]
    PROVE  BeginsLike(Content(c), Content(b), c.length)
  <1>1. b.length \in Nat /\ c.length \in Nat
    BY DEF SoundObject, BufferObjects
  <1>2. Len(Content(b)) = b.length /\ Len(Content(c)) = c.length
        /\ (\A i \in 1..b.length : Content(b)[i] = b.parray[i])
        /\ (\A i \in 1..c.length : Content(c)[i] = c.parray[i])
    BY ContentIs
  <1>3. \A i \in 1..c.length : i <= b.length => Content(c)[i] = Content(b)[i]
    <2> SUFFICES ASSUME NEW i \in 1..c.length, i <= b.length
                 PROVE  Content(c)[i] = Content(b)[i]
      OBVIOUS
    <2>1. i \in 1..b.length
      BY <1>1
    <2>. QED
      BY <1>2, <2>1
  <1>. QED
    BY <1>2, <1>3 DEF BeginsLike

\* AllocWrite makes room behind the cursor, which the caller is to fill.
LEMMA AllocWriteBegins ==
    ASSUME NEW b, SoundObject(b), NEW k \in Nat
    PROVE  /\ SoundObject(AllocWrite(b, k, TRUE))
           /\ AllocWrite(b, k, TRUE).pos = b.pos
           /\ AllocWrite(b, k, TRUE).length = Most(b.pos + k, b.length)
           /\ BeginsLike(Content(AllocWrite(b, k, TRUE)), Content(b), Most(b.pos + k, b.length))
           /\ AllocWrite(b, k, FALSE) = FitSize(b, b.pos + k)
  <1> DEFINE f == FitSize(b, b.pos + k)
             w == AllocWrite(b, k, TRUE)
  <1>1. b.length \in Nat /\ b.pos \in Nat /\ b.length <= Len(b.parray) /\ Len(b.parray) \in Nat
        /\ b.pos + k \in Nat /\ b.pos <= b.length
    BY LenProperties DEF SoundObject, BufferObjects
  <1>2. /\ SoundObject(f) /\ f.pos = b.pos /\ f.length = b.length
        /\ Len(f.parray) >= b.pos + k /\ Len(f.parray) >= Len(b.parray)
        /\ \A i \in 1..Len(b.parray) : f.parray[i] = b.parray[i]
    BY <1>1, FitSizeKeeps
  <1>3. w = [f EXCEPT !.length = Most(b.pos + k, f.length)] /\ AllocWrite(b, k, FALSE) = f
    BY DEF AllocWrite
  <1> HIDE DEF f, w
  <1>4. f \in BufferObjects /\ Len(f.parray) \in Nat
    BY <1>2, LenProperties DEF SoundObject, BufferObjects
  <1>5. w = [parray |-> f.parray, pos |-> b.pos, length |-> Most(b.pos + k, b.length)]
    BY <1>2, <1>3, <1>4 DEF BufferObjects
  <1>6. Most(b.pos + k, b.length) \in Nat /\ Most(b.pos + k, b.length) >= b.length
        /\ Most(b.pos + k, b.length) <= Len(f.parray)
    BY <1>1, <1>2, <1>4 DEF Most
  <1>7. SoundObject(w)
    BY <1>1, <1>4, <1>5, <1>6 DEF SoundObject, BufferObjects
  <1>8. \A i \in 1..b.length : i <= w.length => w.parray[i] = b.parray[i]
    BY <1>1, <1>2, <1>5
  <1>9. w.length = Most(b.pos + k, b.length) /\ w.pos = b.pos
    BY <1>5
  <1>10. BeginsLike(Content(w), Content(b), Most(b.pos + k, b.length))
    BY <1>7, <1>8, <1>9, SameMemory
  <1>. QED
    BY <1>3, <1>7, <1>9, <1>10 DEF w, f

\* Length cuts the content or takes in what the memory holds behind it, and
\* brings the cursor into it.
LEMMA ResizedBegins ==
    ASSUME NEW b, SoundObject(b), NEW place \in Nat, NEW len \in 0..Len(b.parray)
    PROVE  /\ SoundObject(Resized(b, place, len))
           /\ Resized(b, place, len).pos = TheStrings!Within(place, len)
           /\ Resized(b, place, len).length = len
           /\ Resized(b, place, len).parray = b.parray
           /\ BeginsLike(Content(Resized(b, place, len)), Content(b), len)
  <1> DEFINE c == [b EXCEPT !.length = len]
             r == Resized(b, place, len)
  <1>1. b \in BufferObjects /\ len \in Nat /\ Len(b.parray) \in Nat /\ b.length \in Nat
        /\ b.length <= Len(b.parray)
    BY LenProperties DEF SoundObject, BufferObjects
  <1>2. c = [parray |-> b.parray, pos |-> b.pos, length |-> len]
    BY <1>1 DEF BufferObjects
  <1>3. r = Seek(c, place, "start")
    BY DEF Resized
  <1> HIDE DEF c, r
  <1>4. c \in BufferObjects /\ c.length <= Len(c.parray) /\ c.length = len /\ c.parray = b.parray
    BY <1>1, <1>2 DEF BufferObjects
  <1>5. /\ SoundObject(r) /\ r.pos = TheStrings!Within(0 + place, len)
        /\ r.length = len /\ r.parray = b.parray
    <2>1. From(c, "start") = 0 /\ "start" \in {"start", "cur", "end"} /\ place \in Int
      BY DEF From
    <2>. QED
      BY <1>3, <1>4, <2>1, SeekIs
  <1>6. BeginsLike(Content(r), Content(b), len)
    BY <1>1, <1>5, SameMemory
  <1>7. 0 + place = place
    OBVIOUS
  <1>. QED
    BY <1>5, <1>6, <1>7 DEF r

\* PtrBuffer's Length is cut where the block ends.
LEMMA PtrResizedIs ==
    ASSUME NEW b, NEW place, NEW len
    PROVE  PtrResized(b, place, len) = Resized(b, place, Least(Capacity(b), len))
  BY DEF PtrResized, Resized

-----------------------------------------------------------------------------
(* Buffers: moves, other memory, reads.                                    *)

\* An object without content.
LEMMA EmptyIsSound ==
    /\ SoundObject(Fresh) /\ Content(Fresh) = <<>> /\ Fresh.pos = 0 /\ Fresh.length = 0
    /\ SoundObject(NoPtr) /\ Content(NoPtr) = <<>> /\ NoPtr.pos = 0 /\ NoPtr.length = 0
  <1>1. <<>> \in Seq(Bytes) /\ Len(<<>>) = 0
    OBVIOUS
  <1>2. SubSeq(<<>>, 1, 0) = <<>>
    BY SubSeqEmpty
  <1>. QED
    BY <1>1, <1>2 DEF Fresh, NoPtr, PtrAttach, SoundObject, BufferObjects, Content

\* Attach: the content is the beginning of the memory.
LEMMA AttachIs ==
    ASSUME NEW s \in Seq(Bytes)
    PROVE  /\ SoundObject(AttachMemory(s))
           /\ AttachMemory(s).pos = 0 /\ AttachMemory(s).length = Len(s)
           /\ Content(AttachMemory(s)) = s
  <1>1. Len(s) \in Nat
    BY LenProperties
  <1>2. SubSeq(s, 1, Len(s)) = s
    BY SubSeqFull
  <1>. QED
    BY <1>1, <1>2 DEF AttachMemory, SoundObject, BufferObjects, Content

\* PtrBuffer's Attach to a block of zeros, of which some are content.
LEMMA PtrAttachIs ==
    ASSUME NEW len \in Lengths
    PROVE  /\ SoundObject(PtrAttach(Zeros(MaxBytes), len))
           /\ PtrAttach(Zeros(MaxBytes), len).pos = 0
           /\ Len(PtrAttach(Zeros(MaxBytes), len).parray) = MaxBytes
           /\ Content(PtrAttach(Zeros(MaxBytes), len)) = Zeros(len)
  <1> DEFINE z == Zeros(MaxBytes)
             c == PtrAttach(z, len)
  <1>1. MaxBytes \in Nat /\ len \in Nat /\ len <= MaxBytes
    BY BuffersAssumption DEF Lengths
  <1>2. z \in Seq(Bytes) /\ Len(z) = MaxBytes /\ \A i \in 1..MaxBytes : z[i] = Nul
    BY <1>1, ZerosAre
  <1>3. Zeros(len) \in Seq(Bytes) /\ Len(Zeros(len)) = len /\ \A i \in 1..len : Zeros(len)[i] = Nul
    BY <1>1, ZerosAre
  <1> HIDE DEF z
  <1>4. c.parray = z /\ c.pos = 0 /\ c.length = len /\ SoundObject(c)
    BY <1>1, <1>2 DEF PtrAttach, SoundObject, BufferObjects
  <1> HIDE DEF c
  <1>5. Content(c) \in Seq(Bytes) /\ Len(Content(c)) = len
        /\ \A i \in 1..len : Content(c)[i] = z[i]
    BY <1>4, ContentIs
  <1>6. \A i \in 1..len : Content(c)[i] = Zeros(len)[i]
    BY <1>1, <1>2, <1>3, <1>5
  <1>7. Content(c) = Zeros(len)
    BY <1>3, <1>5, <1>6, SeqEqual
  <1>. QED
    BY <1>2, <1>4, <1>7 DEF c, z

\* How much a read of k bytes from at on gets.
LEMMA ReadLength ==
    ASSUME NEW b, SoundObject(b), NEW place \in 0..b.length, NEW k \in Nat
    PROVE  /\ Least(b.length - place, k) = TheStrings!Within(k, b.length - place)
           /\ Least(b.length - place, k) \in 0..(b.length - place)
           /\ Least(b.length - place, k) <= k
  <1>1. b.length \in Nat
    BY DEF SoundObject, BufferObjects
  <1>. QED
    BY <1>1 DEF Least, TheStrings!Within

\* A piece of a string, byte by byte.
LEMMA PieceIs ==
    ASSUME NEW s, NEW place \in Nat, NEW size \in Nat,
           \A i \in 1..size : s[place + i] \in Bytes
    PROVE  /\ SubSeq(s, place + 1, place + size) \in Seq(Bytes)
           /\ Len(SubSeq(s, place + 1, place + size)) = size
           /\ \A i \in 1..size : SubSeq(s, place + 1, place + size)[i] = s[place + i]
  <1> DEFINE t == SubSeq(s, place + 1, place + size)
  <1>1. \A i \in (place + 1)..(place + size) : s[i] \in Bytes
    <2> TAKE i \in (place + 1)..(place + size)
    <2>1. i - place \in 1..size /\ place + (i - place) = i
      OBVIOUS
    <2>. QED
      BY <2>1
  <1>2. /\ t \in Seq(Bytes)
        /\ Len(t) = IF place + 1 <= place + size THEN (place + size) - (place + 1) + 1 ELSE 0
        /\ \A i \in 1..((place + size) - (place + 1) + 1) : t[i] = s[(place + 1) + i - 1]
    BY <1>1, SubSeqProperties
  <1> HIDE DEF t
  <1>3. Len(t) = size
    BY <1>2
  <1>4. \A i \in 1..size : t[i] = s[place + i]
    <2> TAKE i \in 1..size
    <2>1. i \in 1..((place + size) - (place + 1) + 1) /\ (place + 1) + i - 1 = place + i
      OBVIOUS
    <2>. QED
      BY <1>2, <2>1
  <1>. QED
    BY <1>2, <1>3, <1>4 DEF t

\* Read from the cursor on gives the bytes of the content there.
LEMMA ReadCurIs ==
    ASSUME NEW b, SoundObject(b), NEW k \in Nat
    PROVE  LET size == TheStrings!Within(k, b.length - b.pos) IN
           /\ ReadCur(b, k) \in Seq(Bytes) /\ Len(ReadCur(b, k)) = size
           /\ ReadCur(b, k) = SubSeq(Content(b), b.pos + 1, b.pos + size)
           /\ SoundObject(PastRead(b, k))
           /\ PastRead(b, k).pos = b.pos + size
           /\ PastRead(b, k).parray = b.parray /\ PastRead(b, k).length = b.length
           /\ Content(PastRead(b, k)) = Content(b)
  <1> DEFINE size == TheStrings!Within(k, b.length - b.pos)
             r == ReadCur(b, k)
             t == SubSeq(Content(b), b.pos + 1, b.pos + size)
  <1>1. b \in BufferObjects /\ b.parray \in Seq(Bytes) /\ b.length \in Nat /\ b.pos \in Nat
        /\ b.pos <= b.length /\ b.length <= Len(b.parray) /\ Len(b.parray) \in Nat
    BY LenProperties DEF SoundObject, BufferObjects
  <1>2. r = SubSeq(b.parray, b.pos + 1, b.pos + size) /\ size \in 0..(b.length - b.pos)
    <2>1. b.pos \in 0..b.length
      BY <1>1
    <2>. QED
      BY <2>1, ReadLength DEF ReadCur
  <1> HIDE DEF r, size, t
  <1>10. size \in Nat
    BY <1>1, <1>2
  <1>3. \A i \in 1..size : /\ b.parray[b.pos + i] \in Bytes
                          /\ Content(b)[b.pos + i] = b.parray[b.pos + i]
    <2> TAKE i \in 1..size
    <2>1. b.pos + i \in 1..b.length /\ b.pos + i \in 1..Len(b.parray)
      BY <1>1, <1>2, SMTT(30)
    <2>. QED
      BY <1>1, <2>1, ElementOfSeq, ContentIs
  <1>4. /\ r \in Seq(Bytes) /\ Len(r) = size
        /\ \A i \in 1..size : r[i] = b.parray[b.pos + i]
    <2>1. \A i \in 1..size : b.parray[b.pos + i] \in Bytes
      BY <1>3
    <2> DEFINE q == SubSeq(b.parray, b.pos + 1, b.pos + size)
    <2>2. /\ q \in Seq(Bytes) /\ Len(q) = size
          /\ \A i \in 1..size : q[i] = b.parray[b.pos + i]
      BY <1>1, <1>10, <2>1, PieceIs, ZenonT(40)
    <2> HIDE DEF q
    <2>3. r = q
      BY <1>2 DEF q
    <2>. QED
      BY <2>2, <2>3
  <1>6. /\ t \in Seq(Bytes) /\ Len(t) = size
        /\ \A i \in 1..size : t[i] = b.parray[b.pos + i]
    <2>1. \A i \in 1..size : Content(b)[b.pos + i] \in Bytes
      BY <1>3
    <2>2. /\ t \in Seq(Bytes) /\ Len(t) = size
          /\ \A i \in 1..size : t[i] = Content(b)[b.pos + i]
      BY <1>1, <1>10, <2>1, PieceIs, ZenonT(40) DEF t
    <2>. QED
      BY <1>3, <2>2
  <1>7. r = t
    BY <1>4, <1>6, SeqEqual
  <1>8. /\ SoundObject(PastRead(b, k))
        /\ PastRead(b, k).pos = TheStrings!Within(b.pos + size, b.length)
        /\ PastRead(b, k).parray = b.parray /\ PastRead(b, k).length = b.length
        /\ Content(PastRead(b, k)) = Content(b)
    <2>1. PastRead(b, k) = Seek(b, size, "cur")
      BY <1>4 DEF PastRead, r
    <2>2. From(b, "cur") = b.pos /\ "cur" \in {"start", "cur", "end"} /\ size \in Int
      BY <1>2 DEF From
    <2>. QED
      BY <1>1, <2>1, <2>2, SeekIs, ZenonT(40)
  <1>9. TheStrings!Within(b.pos + size, b.length) = b.pos + size
    BY <1>1, <1>2 DEF TheStrings!Within
  <1>. QED
    BY <1>4, <1>7, <1>8, <1>9 DEF r, t, size

\* Read from another offset gives as many bytes as there are behind it; from the
\* offset of the cursor those of the content.
LEMMA ReadAtIs ==
    ASSUME NEW b, SoundObject(b), NEW place \in 0..b.length, NEW k \in Nat,
           NEW s \in ReadAt(b, place, k, Bytes)
    PROVE  /\ s \in Seq(Bytes) /\ Len(s) = TheStrings!Within(k, b.length - place)
           /\ place = b.pos => s = ReadCur(b, k)
  <1> DEFINE size == Least(b.length - place, k)
  <1>1. b.length \in Nat /\ b.pos \in Nat /\ b.length <= Len(b.parray) /\ Len(b.parray) \in Nat
        /\ b.pos <= b.length
    BY LenProperties DEF SoundObject, BufferObjects
  <1>2. size = TheStrings!Within(k, b.length - place) /\ size \in 0..(b.length - place)
    BY ReadLength
  <1>3. s \in [1..size -> Bytes]
        /\ \A i \in 1..size : b.pos + i <= Capacity(b) => s[i] = b.parray[b.pos + i]
    BY DEF ReadAt
  <1> HIDE DEF size
  <1>4. s \in Seq(Bytes) /\ Len(s) = size
    <2>1. size \in Nat
      BY <1>1, <1>2
    <2>. QED
      BY <1>3, <2>1
  <1>5. ASSUME place = b.pos  PROVE  s = ReadCur(b, k)
    <2> DEFINE r == ReadCur(b, k)
    <2>1. r \in Seq(Bytes) /\ Len(r) = TheStrings!Within(k, b.length - b.pos)
      BY ReadCurIs
    <2>2. r = SubSeq(b.parray, b.pos + 1, b.pos + size)
      BY <1>5 DEF ReadCur, size
    <2> HIDE DEF r
    <2>3. \A i \in 1..size : /\ b.pos + i \in 1..Len(b.parray)
                             /\ b.pos + i <= Capacity(b)
      BY <1>1, <1>2, <1>5, SMTT(30) DEF Capacity
    <2>4. b.parray \in Seq(Bytes) /\ size \in Nat
      BY <1>1, <1>2 DEF SoundObject, BufferObjects
    <2>5. \A i \in 1..size : b.parray[b.pos + i] \in Bytes
      BY <2>3, <2>4, ElementOfSeq
    <2>6. \A i \in 1..size : r[i] = b.parray[b.pos + i]
      <3> DEFINE q == SubSeq(b.parray, b.pos + 1, b.pos + size)
      <3>1. \A i \in 1..size : q[i] = b.parray[b.pos + i]
        BY <1>1, <2>4, <2>5, PieceIs, ZenonT(40)
      <3> HIDE DEF q
      <3>2. r = q
        BY <2>2 DEF q
      <3>. QED
        BY <3>1, <3>2
    <2>7. Len(s) = Len(r)
      BY <1>2, <1>4, <1>5, <2>1
    <2>8. \A i \in 1..Len(s) : s[i] = r[i]
      BY <1>3, <1>4, <2>3, <2>6
    <2>9. s = r
      BY <1>4, <2>1, <2>7, <2>8, SeqEqual
    <2>. QED
      BY <2>9 DEF r
  <1>. QED
    BY <1>2, <1>4, <1>5

\* Move puts zeros in front, and the cursor stays at its byte.
LEMMA MoveUpIs ==
    ASSUME NEW b, SoundObject(b), NEW n \in Nat
    PROVE  /\ SoundObject(MoveUp(b, n))
           /\ MoveUp(b, n).pos = b.pos + n
           /\ MoveUp(b, n).length = b.length + n
           /\ Content(MoveUp(b, n)) = Zeros(n) \o Content(b)
  <1> DEFINE f == FitSize(b, b.length + n)
             z == Zeros(n) \o Content(b)
             o == Over(f.parray, 0, z)
             c == [f EXCEPT !.parray = o]
             m == MoveUp(b, n)
  <1>1. b.length \in Nat /\ b.pos \in Nat /\ b.pos <= b.length /\ b.length + n \in Nat
    BY DEF SoundObject, BufferObjects
  <1>2. /\ SoundObject(f) /\ f.pos = b.pos /\ f.length = b.length
        /\ Len(f.parray) >= b.length + n
    BY <1>1, FitSizeKeeps
  <1>3. Content(b) \in Seq(Bytes) /\ Len(Content(b)) = b.length
    BY ContentIs
  <1>4. Zeros(n) \in Seq(Bytes) /\ Len(Zeros(n)) = n
    BY ZerosAre
  <1>5. z \in Seq(Bytes) /\ Len(z) = b.length + n
    <2>1. z \in Seq(Bytes) /\ Len(z) = Len(Zeros(n)) + Len(Content(b))
      BY <1>3, <1>4, ConcatProperties
    <2>. QED
      BY <1>1, <1>3, <1>4, <2>1
  <1>6. m = Resized(c, b.pos + n, b.length + n)
    BY DEF MoveUp
  <1> HIDE DEF f, z, m
  <1>7. f \in BufferObjects /\ f.parray \in Seq(Bytes) /\ Len(f.parray) \in Nat
    BY <1>2, LenProperties DEF SoundObject, BufferObjects
  <1>8. /\ o \in Seq(Bytes) /\ Len(o) = Len(f.parray)
        /\ \A i \in 1..Len(f.parray) : o[i] =
             IF i > 0 /\ i <= 0 + Len(z) THEN z[i - 0] ELSE f.parray[i]
    BY <1>5, <1>7, OverIs
  <1>9. \A i \in 1..(b.length + n) : o[i] = z[i]
    <2> TAKE i \in 1..(b.length + n)
    <2>1. i \in 1..Len(f.parray) /\ i > 0 /\ i <= 0 + Len(z) /\ i - 0 = i
      BY <1>1, <1>2, <1>5, <1>7
    <2>. QED
      BY <1>8, <2>1
  <1> HIDE DEF o
  <1>10. c = [parray |-> o, pos |-> b.pos, length |-> b.length]
    BY <1>2, <1>7 DEF BufferObjects
  <1> HIDE DEF c
  <1>11. c.parray = o /\ SoundObject(c)
    BY <1>1, <1>2, <1>7, <1>8, <1>10 DEF SoundObject, BufferObjects
  <1>12. b.length + n \in 0..Len(c.parray) /\ b.pos + n \in Nat
    BY <1>1, <1>2, <1>7, <1>8, <1>11
  <1>13. /\ SoundObject(m) /\ m.pos = TheStrings!Within(b.pos + n, b.length + n)
         /\ m.length = b.length + n /\ m.parray = o
    BY <1>6, <1>11, <1>12, ResizedBegins
  <1>14. m.pos = b.pos + n
    BY <1>1, <1>13 DEF TheStrings!Within
  <1>15. Content(m) = z
    <2>1. Content(m) \in Seq(Bytes) /\ Len(Content(m)) = b.length + n
          /\ \A i \in 1..(b.length + n) : Content(m)[i] = o[i]
      BY <1>13, ContentIs
    <2>. QED
      BY <1>5, <1>9, <2>1, SeqEqual
  <1>. QED
    BY <1>13, <1>14, <1>15 DEF m, z

\* Move takes bytes away in front, and the cursor stays at its byte or goes to the
\* first that is left.
LEMMA MoveDownIs ==
    ASSUME NEW b, SoundObject(b), NEW n \in Nat
    PROVE  LET less == Least(n, b.length) IN
           /\ SoundObject(MoveDown(b, n))
           /\ MoveDown(b, n).pos = TheStrings!Within(b.pos - less, b.length - less)
           /\ MoveDown(b, n).length = b.length - less
           /\ Content(MoveDown(b, n)) = SubSeq(Content(b), less + 1, b.length)
  <1> DEFINE less == Least(n, b.length)
             rest == b.length - less
             t == SubSeq(b.parray, less + 1, b.length)
             u == SubSeq(Content(b), less + 1, b.length)
             o == Over(b.parray, 0, t)
             c == [b EXCEPT !.parray = o]
             place == IF less < b.pos THEN b.pos - less ELSE 0
             m == MoveDown(b, n)
  <1>1. /\ b \in BufferObjects /\ b.parray \in Seq(Bytes) /\ Len(b.parray) \in Nat
        /\ b.length \in Nat /\ b.pos \in Nat /\ b.pos <= b.length /\ b.length <= Len(b.parray)
    BY LenProperties DEF SoundObject, BufferObjects
  <1>2. less \in Nat /\ less <= b.length
    BY <1>1 DEF Least
  <1>3. m = Resized(c, place, rest)
    BY DEF MoveDown
  <1> HIDE DEF less, t, u, m
  <1>4. rest \in Nat /\ less + rest = b.length /\ place \in Nat /\ rest <= b.length
        /\ TheStrings!Within(place, rest) = TheStrings!Within(b.pos - less, rest)
    BY <1>1, <1>2 DEF TheStrings!Within
  <1> HIDE DEF rest, place
  <1>5. \A i \in 1..rest : /\ b.parray[less + i] \in Bytes
                           /\ Content(b)[less + i] = b.parray[less + i]
    <2> TAKE i \in 1..rest
    <2>1. less + i \in 1..b.length /\ less + i \in 1..Len(b.parray)
      BY <1>1, <1>2, <1>4
    <2>. QED
      BY <1>1, <2>1, ElementOfSeq, ContentIs
  <1>6. /\ t \in Seq(Bytes) /\ Len(t) = rest
        /\ \A i \in 1..rest : t[i] = b.parray[less + i]
    <2>1. \A i \in 1..rest : b.parray[less + i] \in Bytes
      BY <1>5
    <2> DEFINE q == SubSeq(b.parray, less + 1, less + rest)
    <2>2. /\ q \in Seq(Bytes) /\ Len(q) = rest
          /\ \A i \in 1..rest : q[i] = b.parray[less + i]
      BY <1>2, <1>4, <2>1, PieceIs, ZenonT(40)
    <2>3. t = q
      BY <1>4 DEF t
    <2> HIDE DEF q
    <2>. QED
      BY <2>2, <2>3
  <1>7. /\ u \in Seq(Bytes) /\ Len(u) = rest
        /\ \A i \in 1..rest : u[i] = b.parray[less + i]
    <2>1. \A i \in 1..rest : Content(b)[less + i] \in Bytes
      BY <1>5
    <2> DEFINE q == SubSeq(Content(b), less + 1, less + rest)
    <2>2. /\ q \in Seq(Bytes) /\ Len(q) = rest
          /\ \A i \in 1..rest : q[i] = Content(b)[less + i]
      BY <1>2, <1>4, <2>1, PieceIs, ZenonT(40)
    <2>3. u = q
      BY <1>4 DEF u
    <2> HIDE DEF q
    <2>. QED
      BY <1>5, <2>2, <2>3
  <1>8. /\ o \in Seq(Bytes) /\ Len(o) = Len(b.parray)
        /\ \A i \in 1..Len(b.parray) : o[i] =
             IF i > 0 /\ i <= 0 + Len(t) THEN t[i - 0] ELSE b.parray[i]
    BY <1>1, <1>6, OverIs
  <1>9. \A i \in 1..rest : o[i] = u[i]
    <2> TAKE i \in 1..rest
    <2>1. i \in 1..Len(b.parray) /\ i > 0 /\ i <= 0 + Len(t) /\ i - 0 = i
      BY <1>1, <1>4, <1>6
    <2>. QED
      BY <1>6, <1>7, <1>8, <2>1
  <1> HIDE DEF o
  <1>10. c = [parray |-> o, pos |-> b.pos, length |-> b.length]
    BY <1>1 DEF BufferObjects
  <1> HIDE DEF c
  <1>11. c.parray = o /\ SoundObject(c)
    BY <1>1, <1>8, <1>10 DEF SoundObject, BufferObjects
  <1>12. rest \in 0..Len(c.parray)
    BY <1>1, <1>4, <1>8, <1>11
  <1>13. /\ SoundObject(m) /\ m.pos = TheStrings!Within(place, rest)
         /\ m.length = rest /\ m.parray = o
    BY <1>3, <1>4, <1>11, <1>12, ResizedBegins
  <1>14. Content(m) = u
    <2>1. Content(m) \in Seq(Bytes) /\ Len(Content(m)) = rest
          /\ \A i \in 1..rest : Content(m)[i] = o[i]
      BY <1>13, ContentIs
    <2>. QED
      BY <1>7, <1>9, <2>1, SeqEqual
  <1>. QED
    BY <1>4, <1>13, <1>14 DEF m, u, rest, less

-----------------------------------------------------------------------------
(* Buffers: the PtrBuffer.                                                 *)

\* A write beyond the block is cut: what does not fit is not put anywhere.
LEMMA PtrWriteAtPuts ==
    ASSUME NEW b, SoundObject(b), Len(b.parray) = MaxBytes,
           NEW s \in Seq(Bytes), NEW place \in 0..b.length
    PROVE  /\ SoundObject(PtrWriteAt(b, place, s))
           /\ PtrWriteAt(b, place, s).pos = b.pos
           /\ Len(PtrWriteAt(b, place, s).parray) = MaxBytes
           /\ Content(PtrWriteAt(b, place, s)) = Putting(Content(b), place, s, MaxBytes)
           /\ PtrWriteAt(b, place, s).length = Most(Least(place + Len(s), MaxBytes), b.length)
  <1> DEFINE copylen == Least(Len(s), Capacity(b) - place)
             fitting == SubSeq(s, 1, copylen)
             w == PtrWriteAt(b, place, s)
  <1>1. /\ b \in BufferObjects /\ b.parray \in Seq(Bytes) /\ MaxBytes \in Nat
        /\ b.length \in Nat /\ b.pos \in Nat /\ b.pos <= b.length /\ b.length <= MaxBytes
        /\ Len(s) \in Nat /\ place \in Nat /\ place <= MaxBytes
    BY BuffersAssumption, LenProperties DEF SoundObject, BufferObjects
  <1>2. copylen \in Nat /\ copylen <= Len(s) /\ place + copylen <= MaxBytes
        /\ place + copylen = Least(place + Len(s), MaxBytes)
    BY <1>1 DEF Least, Capacity
  <1>3. w = [b EXCEPT !.length = Most(b.length, copylen + place),
                      !.parray = Over(b.parray, place, fitting)]
    BY DEF PtrWriteAt
  <1> HIDE DEF copylen, fitting, w
  <1>4. fitting \in Seq(Bytes) /\ Len(fitting) = copylen /\ \A i \in 1..copylen : fitting[i] = s[i]
    <2>1. \A i \in 1..copylen : s[0 + i] \in Bytes /\ s[0 + i] = s[i]
      <3> TAKE i \in 1..copylen
      <3>1. 0 + i = i /\ i \in 1..Len(s)
        BY <1>1, <1>2
      <3>. QED
        BY <3>1, ElementOfSeq
    <2> DEFINE q == SubSeq(s, 0 + 1, 0 + copylen)
    <2>2. \A i \in 1..copylen : s[0 + i] \in Bytes
      BY <2>1
    <2>3. q \in Seq(Bytes) /\ Len(q) = copylen /\ \A i \in 1..copylen : q[i] = s[0 + i]
      BY <1>2, <2>2, PieceIs
    <2>4. fitting = q
      <3>1. 0 + 1 = 1 /\ 0 + copylen = copylen
        BY <1>2
      <3>. QED
        BY <3>1 DEF fitting
    <2> HIDE DEF q
    <2>. QED
      BY <2>1, <2>3, <2>4
  <1>5. w = [parray |-> Over(b.parray, place, fitting), pos |-> b.pos,
             length |-> Most(place + Len(fitting), b.length)]
    <2>1. w = [parray |-> Over(b.parray, place, fitting), pos |-> b.pos,
               length |-> Most(b.length, copylen + place)]
      BY <1>1, <1>3, TwoFields, Zenon
    <2>2. Most(b.length, copylen + place) = Most(place + Len(fitting), b.length)
      <3>1. b.length \in Nat /\ copylen \in Nat /\ place \in Nat /\ Len(fitting) = copylen
        BY <1>1, <1>2, <1>4
      <3>. QED
        BY <3>1 DEF Most
    <2>. QED
      BY <2>1, <2>2
  <1>6. place + Len(fitting) <= Len(b.parray) /\ place + Len(fitting) <= MaxBytes
    BY <1>1, <1>2, <1>4
  <1>7. /\ SoundObject(w) /\ w.pos = b.pos
        /\ w.length = Most(place + Len(fitting), b.length)
        /\ Len(w.parray) = Len(b.parray)
        /\ Content(w) = Putting(Content(b), place, fitting, MaxBytes)
    <2>1. fitting \in Seq(Bytes) /\ MaxBytes \in Nat
      BY <1>1, <1>4
    <2>. QED
      BY <1>5, <1>6, <2>1, OverPuts
  <1>8. w.length = Most(Least(place + Len(s), MaxBytes), b.length)
    BY <1>2, <1>4, <1>7
  <1>9. Putting(Content(b), place, fitting, MaxBytes) = Putting(Content(b), place, s, MaxBytes)
    <2> DEFINE end == place + copylen
               old == Content(b)
               last == IF end > Len(old) THEN end ELSE Len(old)
    <2>0. Len(old) = b.length
      BY ContentIs
    <2>1. (IF place + Len(fitting) > MaxBytes THEN MaxBytes ELSE place + Len(fitting)) = end
      BY <1>1, <1>2, <1>4
    <2>2. (IF place + Len(s) > MaxBytes THEN MaxBytes ELSE place + Len(s)) = end
      BY <1>1, <1>2 DEF Least
    <2> HIDE DEF old
    <2>3. Putting(old, place, fitting, MaxBytes) =
            [i \in 1..last |-> IF i > place /\ i <= end THEN fitting[i - place] ELSE old[i]]
      BY <2>1, Zenon DEF Putting
    <2>4. Putting(old, place, s, MaxBytes) =
            [i \in 1..last |-> IF i > place /\ i <= end THEN s[i - place] ELSE old[i]]
      BY <2>2, Zenon DEF Putting
    <2>5. \A i \in 1..last : i > place /\ i <= end => fitting[i - place] = s[i - place]
      <3> SUFFICES ASSUME NEW i \in 1..last, i > place, i <= end
                   PROVE  fitting[i - place] = s[i - place]
        OBVIOUS
      <3>0. last \in Nat
        BY <1>1, <1>2, <2>0
      <3>1. i - place \in 1..copylen
        BY <1>1, <1>2, <3>0
      <3>. QED
        BY <1>4, <3>1
    <2>6. [i \in 1..last |-> IF i > place /\ i <= end THEN fitting[i - place] ELSE old[i]]
            = [i \in 1..last |-> IF i > place /\ i <= end THEN s[i - place] ELSE old[i]]
      <3> HIDE DEF last, end
      <3>1. \A i \in 1..last : (IF i > place /\ i <= end THEN fitting[i - place] ELSE old[i])
                               = (IF i > place /\ i <= end THEN s[i - place] ELSE old[i])
        BY <2>5
      <3>. QED
        BY <3>1
    <2>. QED
      BY <2>3, <2>4, <2>6 DEF old
  <1>. QED
    BY <1>1, <1>7, <1>8, <1>9 DEF w

\* From the cursor, which goes behind what was written, or to the end.
LEMMA PtrWriteCurPuts ==
    ASSUME NEW b, SoundObject(b), Len(b.parray) = MaxBytes, NEW s \in Seq(Bytes)
    PROVE  /\ SoundObject(PtrWriteCur(b, s))
           /\ Len(PtrWriteCur(b, s).parray) = MaxBytes
           /\ PtrWriteCur(b, s).pos =
                TheStrings!Within(b.pos + Len(s), Len(Content(PtrWriteCur(b, s))))
           /\ Content(PtrWriteCur(b, s)) = Putting(Content(b), b.pos, s, MaxBytes)
  <1> DEFINE w == PtrWriteAt(b, b.pos, s)
             p == PtrWriteCur(b, s)
  <1>1. b.pos \in 0..b.length /\ Len(s) \in Int
    BY LenProperties DEF SoundObject, BufferObjects
  <1>2. /\ SoundObject(w) /\ w.pos = b.pos /\ Len(w.parray) = MaxBytes
        /\ Content(w) = Putting(Content(b), b.pos, s, MaxBytes)
    BY <1>1, PtrWriteAtPuts
  <1>3. p = Seek(w, Len(s), "cur")
    BY DEF PtrWriteCur
  <1> HIDE DEF w, p
  <1>4. From(w, "cur") = b.pos /\ "cur" \in {"start", "cur", "end"}
    BY <1>2 DEF From
  <1>5. /\ SoundObject(p) /\ p.parray = w.parray /\ p.length = w.length
        /\ p.pos = TheStrings!Within(b.pos + Len(s), w.length)
        /\ Content(p) = Content(w)
    BY <1>1, <1>2, <1>3, <1>4, SeekIs DEF SoundObject
  <1>6. Len(Content(p)) = w.length
    BY <1>5, ContentIs
  <1>. QED
    BY <1>2, <1>5, <1>6 DEF p

-----------------------------------------------------------------------------
(* Buffers: what is to be shown of a step, for each kind of call.          *)

Buffered == Autos \cup {Ptr}

\* The buffers that a call does not name have the same bytes and cursor.
LEMMA OthersStay ==
    ASSUME NEW ns, \A m \in Buffered \ ns : Object(m)' = Object(m)
    PROVE  TheStrings!Others(ns)
  <1>1. \A m \in Buffered \ ns : /\ Content(Object(m))' = Content(Object(m))
                                 /\ (Object(m).pos)' = Object(m).pos
    OBVIOUS
  <1>. QED
    BY <1>1 DEF TheStrings!Others, TheStrings!Keeps, Buffered

\* A write.
LEMMA WriteCallStep ==
    ASSUME NEW n \in Buffered, NEW place, NEW s, NEW moves \in BOOLEAN, NEW b, Object(n)' = b,
           call' = [op |-> "write", n |-> n, at |-> place, bytes |-> s, moves |-> moves],
           Content(b) = Putting(Content(Object(n)), place, s, Bound(n)),
           moves => b.pos = TheStrings!Within(place + Len(s), Len(Content(b))),
           ~moves => b.pos = Object(n).pos,
           \A m \in Buffered \ {n} : Object(m)' = Object(m)
    PROVE  TheStrings!Next
  <1>1. TheStrings!Others({n})
    BY OthersStay
  <1>2. TheStrings!Put(n, place, s)
    BY DEF TheStrings!Put, Putting, Buffered
  <1>3. IF moves THEN TheStrings!Goes(n, place + Len(s)) ELSE TheStrings!Keeps(n)
    BY DEF TheStrings!Goes, TheStrings!Keeps, Buffered
  <1>4. TheStrings!Write(call')
    BY <1>1, <1>2, <1>3 DEF TheStrings!Write
  <1>5. (call').op = "write"
    OBVIOUS
  <1>. QED
    BY <1>4, <1>5 DEF TheStrings!Next

\* An AllocWrite that changes the length.
LEMMA AllocCallStep ==
    ASSUME NEW n \in Buffered, NEW len, NEW b, Object(n)' = b,
           call' = [op |-> "alloc", n |-> n, len |-> len],
           BeginsLike(Content(b), Content(Object(n)), len),
           b.pos = Object(n).pos,
           \A m \in Buffered \ {n} : Object(m)' = Object(m)
    PROVE  TheStrings!Next
  <1>1. TheStrings!Others({n})
    BY OthersStay
  <1>2. TheStrings!Resize(n, len)
    BY DEF TheStrings!Resize, BeginsLike, Buffered
  <1>3. TheStrings!Keeps(n)
    BY DEF TheStrings!Keeps, Buffered
  <1>4. TheStrings!Alloc(call')
    BY <1>1, <1>2, <1>3 DEF TheStrings!Alloc
  <1>5. (call').op = "alloc"
    OBVIOUS
  <1>. QED
    BY <1>4, <1>5 DEF TheStrings!Next

\* A new length.
LEMMA LengthCallStep ==
    ASSUME NEW n \in Buffered, NEW place, NEW len, NEW b, Object(n)' = b,
           call' = [op |-> "length", n |-> n, at |-> place, len |-> len],
           BeginsLike(Content(b), Content(Object(n)), IF len > Bound(n) THEN Bound(n) ELSE len),
           b.pos = TheStrings!Within(place, Len(Content(b))),
           \A m \in Buffered \ {n} : Object(m)' = Object(m)
    PROVE  TheStrings!Next
  <1>1. TheStrings!Others({n})
    BY OthersStay
  <1>2. TheStrings!Resize(n, IF len > Bound(n) THEN Bound(n) ELSE len)
    BY DEF TheStrings!Resize, BeginsLike, Buffered
  <1>3. TheStrings!Goes(n, place)
    BY DEF TheStrings!Goes, Buffered
  <1>4. TheStrings!SetLength(call')
    BY <1>1, <1>2, <1>3 DEF TheStrings!SetLength
  <1>5. (call').op = "length"
    OBVIOUS
  <1>. QED
    BY <1>4, <1>5 DEF TheStrings!Next

\* All buffers have the same bytes.
LEMMA SameText ==
    ASSUME \A m \in Buffered : Content(Object(m))' = Content(Object(m))
    PROVE  [m \in Buffered |-> Content(Object(m))]' = [m \in Buffered |-> Content(Object(m))]
  BY DEF Buffered

\* A move of the cursor.
LEMMA SeekCallStep ==
    ASSUME NEW n \in Buffered, NEW place, NEW b, Object(n)' = b,
           call' = [op |-> "seek", n |-> n, at |-> place],
           Content(b) = Content(Object(n)),
           b.pos = TheStrings!Within(place, Len(Content(b))),
           \A m \in Buffered \ {n} : Object(m)' = Object(m)
    PROVE  TheStrings!Next
  <1>1. TheStrings!Others({n})
    BY OthersStay
  <1>2. \A m \in Buffered : Content(Object(m))' = Content(Object(m))
    OBVIOUS
  <1>3. TheStrings!Goes(n, place)
    BY DEF TheStrings!Goes, Buffered
  <1>4. TheStrings!Seek(call')
    BY <1>1, <1>2, <1>3, SameText DEF TheStrings!Seek, Buffered
  <1>5. (call').op = "seek"
    OBVIOUS
  <1>. QED
    BY <1>4, <1>5 DEF TheStrings!Next

\* Bytes that come or go in front.
LEMMA MoveCallStep ==
    ASSUME NEW n \in Buffered, NEW by, NEW b, Object(n)' = b,
           call' = [op |-> "move", n |-> n, by |-> by],
           Content(b) = IF by > 0 THEN Zeros(by) \o Content(Object(n))
                        ELSE SubSeq(Content(Object(n)), 1 - by, Len(Content(Object(n)))),
           b.pos = TheStrings!Within(Object(n).pos + by, Len(Content(b))),
           \A m \in Buffered \ {n} : Object(m)' = Object(m)
    PROVE  TheStrings!Next
  <1>1. TheStrings!Others({n})
    BY OthersStay
  <1>2. Content(Object(n))' = IF by > 0 THEN [i \in 1..by |-> Nul] \o Content(Object(n))
                              ELSE SubSeq(Content(Object(n)), 1 - by, Len(Content(Object(n))))
    BY DEF Zeros
  <1>3. TheStrings!Goes(n, Object(n).pos + by)
    BY DEF TheStrings!Goes, Buffered
  <1>4. TheStrings!Move(call')
    BY <1>1, <1>2, <1>3 DEF TheStrings!Move, Buffered
  <1>5. (call').op = "move"
    OBVIOUS
  <1>. QED
    BY <1>4, <1>5 DEF TheStrings!Next

\* Other memory, or none.
LEMMA AttachCallStep ==
    ASSUME NEW n \in Buffered, NEW s \in Seq(Bytes), NEW b, Object(n)' = b,
           call' = [op |-> "attach", n |-> n, bytes |-> s],
           Content(b) = s, b.pos = 0,
           \A m \in Buffered \ {n} : Object(m)' = Object(m)
    PROVE  TheStrings!Next
  <1>1. TheStrings!Others({n})
    BY OthersStay
  <1>2. Content(Object(n))' = s
    OBVIOUS
  <1>3. TheStrings!Goes(n, 0)
    <2>1. Len(Content(b)) \in Nat
      BY LenProperties
    <2>2. TheStrings!Within(0, Len(Content(b))) = 0
      BY <2>1 DEF TheStrings!Within
    <2>. QED
      BY <2>2 DEF TheStrings!Goes, Buffered
  <1>4. TheStrings!Attach(call')
    BY <1>1, <1>2, <1>3 DEF TheStrings!Attach, Buffered
  <1>5. (call').op = "attach"
    OBVIOUS
  <1>. QED
    BY <1>4, <1>5 DEF TheStrings!Next

\* Another buffer's memory, which is left empty.
LEMMA TakeCallStep ==
    ASSUME NEW n \in Buffered, NEW from \in Buffered, n # from,
           call' = [op |-> "take", n |-> n, from |-> from],
           Object(n)' = Object(from), Object(from)' = Fresh,
           \A m \in Buffered \ {n, from} : Object(m)' = Object(m)
    PROVE  TheStrings!Next
  <1>1. TheStrings!Others({n, from})
    BY OthersStay
  <1>2. /\ Content(Object(n))' = Content(Object(from)) /\ (Object(n).pos)' = Object(from).pos
        /\ Content(Object(from))' = <<>> /\ (Object(from).pos)' = 0
    BY EmptyIsSound
  <1>4. TheStrings!Take(call')
    BY <1>1, <1>2 DEF TheStrings!Take, Buffered
  <1>5. (call').op = "take"
    OBVIOUS
  <1>. QED
    BY <1>4, <1>5 DEF TheStrings!Next

\* A call that changes the memory only.
LEMMA ReserveCallStep ==
    ASSUME call' = [op |-> "reserve"],
           \A m \in Buffered : /\ Content(Object(m))' = Content(Object(m))
                               /\ (Object(m).pos)' = Object(m).pos
    PROVE  TheStrings!Next
  <1>1. TheStrings!Nothing
    BY DEF TheStrings!Nothing, Buffered
  <1>2. (call').op = "reserve"
    OBVIOUS
  <1>. QED
    BY <1>1, <1>2 DEF TheStrings!Next

\* A read into the caller's memory.
LEMMA GetCallStep ==
    ASSUME NEW n \in Buffered, NEW k, NEW b, Object(n)' = b, NEW place, NEW s,
           call' = [op |-> "get", n |-> n, at |-> place, len |-> k, bytes |-> s],
           Content(b) = Content(Object(n)),
           NEW size, size = TheStrings!Within(k, Len(Content(Object(n))) - place),
           s = SubSeq(Content(Object(n)), place + 1, place + size),
           b.pos = TheStrings!Within(place + size, Len(Content(b))),
           \A m \in Buffered \ {n} : Object(m)' = Object(m)
    PROVE  TheStrings!Next
  <1>1. TheStrings!Others({n})
    BY OthersStay
  <1>2. \A m \in Buffered : Content(Object(m))' = Content(Object(m))
    OBVIOUS
  <1>3. TheStrings!Goes(n, place + size)
    BY DEF TheStrings!Goes, Buffered
  <1>4. TheStrings!Get(call')
    BY <1>1, <1>2, <1>3, SameText DEF TheStrings!Get, Buffered
  <1>5. (call').op = "get"
    OBVIOUS
  <1>. QED
    BY <1>4, <1>5 DEF TheStrings!Next

-----------------------------------------------------------------------------
(* Buffers: the steps of the program.                                      *)

\* A step of two AutoBuffers leaves all objects sound, and the others alone.
LEMMA SetBothFrame ==
    ASSUME BuffersInv, NEW n \in Autos, NEW m \in Autos, n # m,
           NEW b, SoundObject(b), NEW c, SoundObject(c), SetBoth(n, b, m, c)
    PROVE  /\ BuffersInv'
           /\ n \in Buffered /\ m \in Buffered
           /\ Object(n) = autos[n] /\ Object(m) = autos[m]
           /\ Object(n)' = b /\ Object(m)' = c
           /\ \A o \in Buffered \ {n, m} : Object(o)' = Object(o)
           /\ b.length <= MaxBytes /\ c.length <= MaxBytes
  <1>1. /\ autos' = [autos EXCEPT ![n] = b, ![m] = c] /\ ptr' = ptr
        /\ b.length <= MaxBytes /\ c.length <= MaxBytes
    BY DEF SetBoth, Bounded
  <1>2. autos \in [Autos -> BufferObjects] /\ b \in BufferObjects /\ c \in BufferObjects
    BY DEF BuffersInv, SoundObject
  <1>3. autos' \in [Autos -> BufferObjects] /\ autos'[n] = b /\ autos'[m] = c
        /\ \A o \in Autos \ {n, m} : autos'[o] = autos[o]
    <2> DEFINE a == [autos EXCEPT ![n] = b]
    <2>1. a \in [Autos -> BufferObjects] /\ a[n] = b /\ \A o \in Autos \ {n} : a[o] = autos[o]
      BY <1>2
    <2>2. autos' = [a EXCEPT ![m] = c]
      BY <1>1
    <2> HIDE DEF a
    <2>. QED
      BY <1>2, <2>1, <2>2
  <1>4. n # Ptr /\ m # Ptr
    BY BuffersAssumption
  <1>5. BuffersInv'
    <2>1. \A o \in Autos : SoundObject(autos'[o]) /\ autos'[o].length <= MaxBytes
      <3> TAKE o \in Autos
      <3>1. CASE o = n
        BY <1>1, <1>3, <3>1
      <3>2. CASE o = m
        BY <1>1, <1>3, <3>2
      <3>3. CASE o \notin {n, m}
        BY <1>3, <3>3 DEF BuffersInv
      <3>. QED
        BY <3>1, <3>2, <3>3
    <2>2. SoundObject(ptr') /\ (ptr' = NoPtr \/ Len(ptr'.parray) = MaxBytes)
      BY <1>1 DEF BuffersInv
    <2>. QED
      BY <1>3, <2>1, <2>2 DEF BuffersInv
  <1>6. Object(n) = autos[n] /\ Object(m) = autos[m] /\ Object(n)' = b /\ Object(m)' = c
    BY <1>3, <1>4 DEF Object
  <1>7. \A o \in Buffered \ {n, m} : Object(o)' = Object(o)
    BY <1>1, <1>3 DEF Object, Buffered
  <1>. QED
    BY <1>1, <1>5, <1>6, <1>7 DEF Buffered

\* A step of one AutoBuffer: there is another one, which stays.
LEMMA SetFrame ==
    ASSUME BuffersInv, NEW n \in Autos, NEW b, SoundObject(b), Set(n, b)
    PROVE  /\ BuffersInv'
           /\ n \in Buffered /\ Object(n) = autos[n] /\ Object(n)' = b
           /\ \A o \in Buffered \ {n} : Object(o)' = Object(o)
           /\ b.length <= MaxBytes
  <1>1. PICK m \in Autos \ {n} : SetBoth(n, b, m, autos[m])
    BY BuffersAssumption DEF Set
  <1>2. SoundObject(autos[m])
    BY <1>1 DEF BuffersInv
  <1>3. /\ BuffersInv'
        /\ n \in Buffered /\ m \in Buffered
        /\ Object(n) = autos[n] /\ Object(m) = autos[m]
        /\ Object(n)' = b /\ Object(m)' = autos[m]
        /\ \A o \in Buffered \ {n, m} : Object(o)' = Object(o)
        /\ b.length <= MaxBytes
    BY <1>1, <1>2, SetBothFrame
  <1>4. \A o \in Buffered \ {n} : Object(o)' = Object(o)
    <2> TAKE o \in Buffered \ {n}
    <2>1. CASE o = m
      BY <1>3, <2>1
    <2>2. CASE o # m
      BY <1>3, <2>2
    <2>. QED
      BY <2>1, <2>2
  <1>. QED
    BY <1>3, <1>4

\* What is known of an AutoBuffer.
LEMMA AutoIs ==
    ASSUME BuffersInv, NEW n \in Autos
    PROVE  /\ SoundObject(autos[n]) /\ autos[n] \in BufferObjects
           /\ autos[n].pos \in Nat /\ autos[n].length \in Nat /\ autos[n].pos <= autos[n].length
           /\ autos[n].length <= MaxBytes /\ MaxBytes \in Nat
           /\ autos[n].length <= Len(autos[n].parray) /\ Len(autos[n].parray) \in Nat
           /\ Len(Content(autos[n])) = autos[n].length
           /\ Bound(n) \in Nat /\ MaxBytes <= Bound(n)
  <1>1. SoundObject(autos[n]) /\ autos[n].length <= MaxBytes
    BY DEF BuffersInv
  <1>2. /\ autos[n] \in BufferObjects /\ autos[n].pos \in Nat /\ autos[n].length \in Nat
        /\ autos[n].parray \in Seq(Bytes) /\ autos[n].pos <= autos[n].length
        /\ autos[n].length <= Len(autos[n].parray)
    BY <1>1 DEF SoundObject, BufferObjects
  <1>3. MaxBytes \in Nat /\ UnitSize \in Nat
    BY BuffersAssumption, UnitSizeAssumption
  <1>4. Bound(n) = 2 * MaxBytes + UnitSize
    BY BuffersAssumption DEF Bound
  <1>5. Len(Content(autos[n])) = autos[n].length
    BY <1>1, ContentIs
  <1>6. Len(autos[n].parray) \in Nat
    BY <1>2, LenProperties
  <1>7. Bound(n) \in Nat /\ MaxBytes <= Bound(n)
    BY <1>3, <1>4
  <1>. QED
    BY <1>1, <1>2, <1>3, <1>5, <1>6, <1>7

\* What the program writes are bytes.
LEMMA StringsAre ==
    ASSUME NEW s \in Strings
    PROVE  s \in Seq(Bytes) /\ Len(s) \in Nat
  <1>1. s \in Seq(Bytes)
    BY BuffersAssumption DEF Bytes
  <1>. QED
    BY <1>1, LenProperties

\* The calls on an AutoBuffer, one by one.  Write, at the cursor or at a place.
LEMMA WriteAutoStep ==
    ASSUME BuffersInv, NEW n \in Autos, WriteAuto(n)
    PROVE  BuffersInv' /\ TheStrings!Next
  <1> DEFINE a == autos[n]
  <1>1. PICK s \in Strings :
          \/ Set(n, WriteCur(a, s))
             /\ Called([op |-> "write", n |-> n, at |-> a.pos, bytes |-> s, moves |-> TRUE])
          \/ \E place \in 0..a.length :
               /\ Set(n, WriteAt(a, place, s))
               /\ Called([op |-> "write", n |-> n, at |-> place, bytes |-> s, moves |-> FALSE])
          \/ /\ Set(n, WriteSeek(a, "end", s))
             /\ Called([op |-> "write", n |-> n, at |-> a.length, bytes |-> s, moves |-> FALSE])
    BY DEF WriteAuto
  <1>2. s \in Seq(Bytes) /\ Len(s) \in Nat
    BY StringsAre
  <1>3. /\ SoundObject(a) /\ a.pos \in Nat /\ a.length \in Nat /\ a.pos <= a.length
        /\ MaxBytes \in Nat /\ Bound(n) \in Nat /\ MaxBytes <= Bound(n) /\ a.length <= MaxBytes
    BY AutoIs
  <1> HIDE DEF a
  <1>4. ASSUME NEW b, SoundObject(b), Set(n, b), NEW place \in 0..a.length, NEW moves \in BOOLEAN,
               Called([op |-> "write", n |-> n, at |-> place, bytes |-> s, moves |-> moves]),
               b.length = Most(place + Len(s), a.length),
               \A limit \in Nat : place + Len(s) <= limit =>
                 Content(b) = Putting(Content(a), place, s, limit),
               b.pos = IF moves THEN place + Len(s) ELSE a.pos
        PROVE  BuffersInv' /\ TheStrings!Next
    <2>1. /\ BuffersInv'
          /\ n \in Buffered /\ Object(n) = a /\ Object(n)' = b
          /\ \A o \in Buffered \ {n} : Object(o)' = Object(o)
          /\ b.length <= MaxBytes
      BY <1>4, SetFrame DEF a
    <2>2. place + Len(s) <= Bound(n)
      BY <1>2, <1>3, <1>4, <2>1 DEF Most
    <2>3. Content(b) = Putting(Content(Object(n)), place, s, Bound(n))
      BY <1>3, <1>4, <2>1, <2>2
    <2>4. Len(Content(b)) = Most(place + Len(s), a.length)
      BY <1>4, ContentIs
    <2>5. TheStrings!Within(place + Len(s), Len(Content(b))) = place + Len(s)
      BY <1>2, <1>3, <2>4 DEF Most, TheStrings!Within
    <2>6. call' = [op |-> "write", n |-> n, at |-> place, bytes |-> s, moves |-> moves]
      BY <1>4 DEF Called
    <2>7. (moves => b.pos = TheStrings!Within(place + Len(s), Len(Content(b))))
          /\ (~moves => b.pos = Object(n).pos)
      BY <1>4, <2>1, <2>5
    <2>8. TheStrings!Next
      BY <2>1, <2>3, <2>6, <2>7, WriteCallStep
    <2>. QED
      BY <2>1, <2>8
  <1>5. CASE Set(n, WriteCur(a, s))
             /\ Called([op |-> "write", n |-> n, at |-> a.pos, bytes |-> s, moves |-> TRUE])
    <2> DEFINE b == WriteCur(a, s)
    <2>1. \A limit \in Nat : a.pos + Len(s) <= limit =>
            /\ SoundObject(b) /\ b.pos = a.pos + Len(s)
            /\ b.length = Most(a.pos + Len(s), a.length)
            /\ Content(b) = Putting(Content(a), a.pos, s, limit)
      BY <1>2, <1>3, WriteCurPuts
    <2>2. a.pos + Len(s) \in Nat /\ a.pos + Len(s) <= a.pos + Len(s) /\ a.pos \in 0..a.length
      BY <1>2, <1>3
    <2> HIDE DEF b
    <2>3. SoundObject(b) /\ b.pos = a.pos + Len(s) /\ b.length = Most(a.pos + Len(s), a.length)
      BY <2>1, <2>2
    <2>4. Set(n, b)
      BY <1>5 DEF b
    <2>. QED
      BY <1>4, <1>5, <2>1, <2>2, <2>3, <2>4
  <1>6. CASE \E place \in 0..a.length :
               /\ Set(n, WriteAt(a, place, s))
               /\ Called([op |-> "write", n |-> n, at |-> place, bytes |-> s, moves |-> FALSE])
    <2>0. PICK place \in 0..a.length :
               /\ Set(n, WriteAt(a, place, s))
               /\ Called([op |-> "write", n |-> n, at |-> place, bytes |-> s, moves |-> FALSE])
      BY <1>6
    <2> DEFINE b == WriteAt(a, place, s)
    <2>1. \A limit \in Nat : place + Len(s) <= limit =>
            /\ SoundObject(b) /\ b.pos = a.pos
            /\ b.length = Most(place + Len(s), a.length)
            /\ Content(b) = Putting(Content(a), place, s, limit)
      BY <1>2, <1>3, WriteAtPuts
    <2>2. place + Len(s) \in Nat /\ place + Len(s) <= place + Len(s)
      BY <1>2, <1>3
    <2> HIDE DEF b
    <2>3. SoundObject(b) /\ b.pos = a.pos /\ b.length = Most(place + Len(s), a.length)
      BY <2>1, <2>2
    <2>4. Set(n, b)
      BY <2>0 DEF b
    <2>. QED
      BY <1>4, <2>0, <2>1, <2>3, <2>4
  <1>7. CASE /\ Set(n, WriteSeek(a, "end", s))
             /\ Called([op |-> "write", n |-> n, at |-> a.length, bytes |-> s, moves |-> FALSE])
    <2> DEFINE b == WriteSeek(a, "end", s)
    <2>1. \A limit \in Nat : a.length + Len(s) <= limit =>
            /\ SoundObject(b) /\ b.pos = a.pos
            /\ b.length = Most(a.length + Len(s), a.length)
            /\ Content(b) = Putting(Content(a), a.length, s, limit)
      BY <1>2, <1>3, WriteEndPuts
    <2>2. a.length + Len(s) \in Nat /\ a.length + Len(s) <= a.length + Len(s)
          /\ a.length \in 0..a.length
      BY <1>2, <1>3
    <2> HIDE DEF b
    <2>3. SoundObject(b) /\ b.pos = a.pos /\ b.length = Most(a.length + Len(s), a.length)
      BY <2>1, <2>2
    <2>4. Set(n, b)
      BY <1>7 DEF b
    <2>. QED
      BY <1>4, <1>7, <2>1, <2>2, <2>3, <2>4
  <1>. QED
    BY <1>1, <1>5, <1>6, <1>7 DEF a

\* AllocWrite.
LEMMA AllocateStep ==
    ASSUME BuffersInv, NEW n \in Autos, Allocate(n)
    PROVE  BuffersInv' /\ TheStrings!Next
  <1> DEFINE a == autos[n]
  <1>1. PICK k \in Lengths, changes \in BOOLEAN :
          /\ Set(n, AllocWrite(a, k, changes))
          /\ Called(IF changes
                    THEN [op |-> "alloc", n |-> n, len |-> Most(a.pos + k, a.length)]
                    ELSE [op |-> "reserve"])
    BY DEF Allocate
  <1>2. k \in Nat
    BY BuffersAssumption DEF Lengths
  <1>3. SoundObject(a) /\ a.pos \in Nat
    BY AutoIs
  <1> HIDE DEF a
  <1>4. CASE changes = TRUE
    <2> DEFINE b == AllocWrite(a, k, TRUE)
    <2>1. /\ SoundObject(b) /\ b.pos = a.pos
          /\ BeginsLike(Content(b), Content(a), Most(a.pos + k, a.length))
      BY <1>2, <1>3, AllocWriteBegins
    <2>2. Set(n, b) /\ call' = [op |-> "alloc", n |-> n, len |-> Most(a.pos + k, a.length)]
      BY <1>1, <1>4 DEF Called
    <2> HIDE DEF b
    <2>3. /\ BuffersInv'
          /\ n \in Buffered /\ Object(n) = a /\ Object(n)' = b
          /\ \A o \in Buffered \ {n} : Object(o)' = Object(o)
      BY <2>1, <2>2, SetFrame DEF a
    <2>. QED
      BY <2>1, <2>2, <2>3, AllocCallStep
  <1>5. CASE changes = FALSE
    <2> DEFINE b == FitSize(a, a.pos + k)
    <2>1. SoundObject(b) /\ b.pos = a.pos /\ Content(b) = Content(a)
      <3>1. a.pos + k \in Nat
        BY <1>2, <1>3
      <3>. QED
        BY <1>3, <3>1, FitSizeKeeps, FitSizeContent
    <2>2. Set(n, b) /\ call' = [op |-> "reserve"]
      BY <1>1, <1>2, <1>3, <1>5, AllocWriteBegins DEF Called
    <2> HIDE DEF b
    <2>3. /\ BuffersInv'
          /\ n \in Buffered /\ Object(n) = a /\ Object(n)' = b
          /\ \A o \in Buffered \ {n} : Object(o)' = Object(o)
      BY <2>1, <2>2, SetFrame DEF a
    <2>4. \A m \in Buffered : /\ Content(Object(m))' = Content(Object(m))
                              /\ (Object(m).pos)' = Object(m).pos
      BY <2>1, <2>3
    <2>. QED
      BY <2>2, <2>3, <2>4, ReserveCallStep
  <1>. QED
    BY <1>4, <1>5

\* AddCapacity.
LEMMA ReserveAutoStep ==
    ASSUME BuffersInv, NEW n \in Autos, Reserve(n)
    PROVE  BuffersInv' /\ TheStrings!Next
  <1> DEFINE a == autos[n]
  <1>1. PICK k \in 1..2 : Set(n, AddCapacity(a, k)) /\ Called([op |-> "reserve"])
    BY DEF Reserve
  <1>3. SoundObject(a) /\ Len(a.parray) \in Nat
    BY AutoIs
  <1> HIDE DEF a
  <1> DEFINE b == AddCapacity(a, k)
  <1>4. SoundObject(b) /\ b.pos = a.pos /\ Content(b) = Content(a)
    <2>1. Capacity(a) + k \in Nat
      BY <1>3 DEF Capacity
    <2>. QED
      BY <1>3, <2>1, FitSizeKeeps, FitSizeContent DEF AddCapacity
  <1>5. Set(n, b) /\ call' = [op |-> "reserve"]
    BY <1>1 DEF Called
  <1> HIDE DEF b
  <1>6. /\ BuffersInv'
        /\ n \in Buffered /\ Object(n) = a /\ Object(n)' = b
        /\ \A o \in Buffered \ {n} : Object(o)' = Object(o)
    BY <1>4, <1>5, SetFrame DEF a
  <1>7. \A m \in Buffered : /\ Content(Object(m))' = Content(Object(m))
                            /\ (Object(m).pos)' = Object(m).pos
    BY <1>4, <1>6
  <1>. QED
    BY <1>5, <1>6, <1>7, ReserveCallStep

\* Seek.
LEMMA SeekAutoStep ==
    ASSUME BuffersInv, NEW n \in Autos, SeekAuto(n)
    PROVE  BuffersInv' /\ TheStrings!Next
  <1> DEFINE a == autos[n]
  <1>1. PICK offset \in -1..1, origin \in {"start", "cur", "end"} :
          /\ Set(n, Seek(a, offset, origin))
          /\ Called([op |-> "seek", n |-> n, at |-> Seek(a, 0, origin).pos + offset])
    BY DEF SeekAuto
  <1>2. /\ SoundObject(a) /\ a \in BufferObjects /\ a.length <= Len(a.parray)
        /\ a.pos \in Nat /\ a.length \in Nat /\ a.pos <= a.length
    BY AutoIs
  <1> HIDE DEF a
  <1>3. From(a, origin) \in 0..a.length
    BY <1>2 DEF From
  <1>4. Seek(a, 0, origin).pos = From(a, origin)
    <2>1. Seek(a, 0, origin).pos = TheStrings!Within(From(a, origin) + 0, a.length)
      BY <1>2, SeekIs
    <2>2. TheStrings!Within(From(a, origin) + 0, a.length) = From(a, origin)
      BY <1>2, <1>3 DEF TheStrings!Within
    <2>. QED
      BY <2>1, <2>2
  <1> DEFINE b == Seek(a, offset, origin)
             place == From(a, origin) + offset
  <1>5. SoundObject(b) /\ b.pos = TheStrings!Within(place, a.length)
        /\ Content(b) = Content(a) /\ b.length = a.length
    BY <1>2, SeekIs
  <1>6. Set(n, b) /\ call' = [op |-> "seek", n |-> n, at |-> place]
    BY <1>1, <1>4 DEF Called
  <1> HIDE DEF b, place
  <1>7. /\ BuffersInv'
        /\ n \in Buffered /\ Object(n) = a /\ Object(n)' = b
        /\ \A o \in Buffered \ {n} : Object(o)' = Object(o)
    BY <1>5, <1>6, SetFrame DEF a
  <1>8. b.pos = TheStrings!Within(place, Len(Content(b)))
    BY <1>5, ContentIs
  <1>9. Content(b) = Content(Object(n))
    BY <1>5, <1>7
  <1>. QED
    BY <1>6, <1>7, <1>8, <1>9, SeekCallStep

\* Length.
LEMMA ResizeStep ==
    ASSUME BuffersInv, NEW n \in Autos, Resize(n)
    PROVE  BuffersInv' /\ TheStrings!Next
  <1> DEFINE a == autos[n]
  <1>0. PICK len \in 0..Capacity(a) : \E place \in 0..len :
          /\ Set(n, Resized(a, place, len))
          /\ Called([op |-> "length", n |-> n, at |-> place, len |-> len])
    BY DEF Resize
  <1>1. PICK place \in 0..len :
          /\ Set(n, Resized(a, place, len))
          /\ Called([op |-> "length", n |-> n, at |-> place, len |-> len])
    BY <1>0
  <1>2. /\ SoundObject(a) /\ Len(a.parray) \in Nat
        /\ MaxBytes \in Nat /\ Bound(n) \in Nat /\ MaxBytes <= Bound(n)
    BY AutoIs
  <1> HIDE DEF a
  <1>3. len \in 0..Len(a.parray) /\ len \in Nat /\ place \in Nat
    BY <1>1, <1>2 DEF Capacity
  <1> DEFINE b == Resized(a, place, len)
  <1>4. /\ SoundObject(b) /\ b.pos = TheStrings!Within(place, len) /\ b.length = len
        /\ BeginsLike(Content(b), Content(a), len)
    BY <1>2, <1>3, ResizedBegins
  <1>5. Set(n, b) /\ call' = [op |-> "length", n |-> n, at |-> place, len |-> len]
    BY <1>1 DEF Called
  <1> HIDE DEF b
  <1>6. /\ BuffersInv'
        /\ n \in Buffered /\ Object(n) = a /\ Object(n)' = b
        /\ \A o \in Buffered \ {n} : Object(o)' = Object(o)
        /\ b.length <= MaxBytes
    BY <1>4, <1>5, SetFrame DEF a
  <1>7. (IF len > Bound(n) THEN Bound(n) ELSE len) = len
    BY <1>2, <1>3, <1>4, <1>6
  <1>8. b.pos = TheStrings!Within(place, Len(Content(b)))
    BY <1>4, ContentIs
  <1>9. BeginsLike(Content(b), Content(Object(n)), IF len > Bound(n) THEN Bound(n) ELSE len)
    BY <1>4, <1>6, <1>7
  <1>. QED
    BY <1>5, <1>6, <1>8, <1>9, LengthCallStep

\* Move.
LEMMA MoveAutoStep ==
    ASSUME BuffersInv, NEW n \in Autos, MoveAuto(n)
    PROVE  BuffersInv' /\ TheStrings!Next
  <1> DEFINE a == autos[n]
  <1>1. PICK k \in 1..2 :
          \/ Set(n, MoveUp(a, k)) /\ Called([op |-> "move", n |-> n, by |-> k])
          \/ Set(n, MoveDown(a, k))
             /\ Called([op |-> "move", n |-> n, by |-> -Least(k, a.length)])
    BY DEF MoveAuto
  <1>2. /\ SoundObject(a) /\ a.pos \in Nat /\ a.length \in Nat /\ a.pos <= a.length
        /\ Len(Content(a)) = a.length
    BY AutoIs
  <1>3. k \in Nat /\ k > 0
    OBVIOUS
  <1> HIDE DEF a
  <1>4. CASE Set(n, MoveUp(a, k)) /\ Called([op |-> "move", n |-> n, by |-> k])
    <2> DEFINE b == MoveUp(a, k)
    <2>1. /\ SoundObject(b) /\ b.pos = a.pos + k /\ b.length = a.length + k
          /\ Content(b) = Zeros(k) \o Content(a)
      BY <1>2, <1>3, MoveUpIs
    <2>2. Set(n, b) /\ call' = [op |-> "move", n |-> n, by |-> k]
      BY <1>4 DEF Called
    <2> HIDE DEF b
    <2>3. /\ BuffersInv'
          /\ n \in Buffered /\ Object(n) = a /\ Object(n)' = b
          /\ \A o \in Buffered \ {n} : Object(o)' = Object(o)
      BY <2>1, <2>2, SetFrame DEF a
    <2>4. Len(Content(b)) = a.length + k
      BY <2>1, ContentIs
    <2>5. b.pos = TheStrings!Within(a.pos + k, Len(Content(b)))
      BY <1>2, <1>3, <2>1, <2>4 DEF TheStrings!Within
    <2>6. Content(b) = IF k > 0 THEN Zeros(k) \o Content(Object(n))
                       ELSE SubSeq(Content(Object(n)), 1 - k, Len(Content(Object(n))))
      BY <1>3, <2>1, <2>3
    <2>7. b.pos = TheStrings!Within(Object(n).pos + k, Len(Content(b)))
      BY <2>3, <2>5
    <2>. QED
      BY <2>2, <2>3, <2>6, <2>7, MoveCallStep
  <1>5. CASE Set(n, MoveDown(a, k))
             /\ Called([op |-> "move", n |-> n, by |-> -Least(k, a.length)])
    <2> DEFINE b == MoveDown(a, k)
               less == Least(k, a.length)
               by == -less
    <2>1. /\ SoundObject(b) /\ b.pos = TheStrings!Within(a.pos - less, a.length - less)
          /\ b.length = a.length - less
          /\ Content(b) = SubSeq(Content(a), less + 1, a.length)
      BY <1>2, <1>3, MoveDownIs
    <2>2. Set(n, b) /\ call' = [op |-> "move", n |-> n, by |-> by]
      BY <1>5 DEF Called
    <2>3. less \in Nat
      BY <1>2, <1>3 DEF Least
    <2> HIDE DEF b, less
    <2>4. ~(by > 0) /\ less + 1 = 1 - by /\ a.pos - less = a.pos + by
      BY <1>2, <2>3
    <2> HIDE DEF by
    <2>5. /\ BuffersInv'
          /\ n \in Buffered /\ Object(n) = a /\ Object(n)' = b
          /\ \A o \in Buffered \ {n} : Object(o)' = Object(o)
      BY <2>1, <2>2, SetFrame DEF a
    <2>6. Len(Content(b)) = a.length - less
      BY <2>1, ContentIs
    <2>7. Content(b) = IF by > 0 THEN Zeros(by) \o Content(Object(n))
                       ELSE SubSeq(Content(Object(n)), 1 - by, Len(Content(Object(n))))
      BY <1>2, <2>1, <2>4, <2>5
    <2>8. b.pos = TheStrings!Within(Object(n).pos + by, Len(Content(b)))
      BY <2>1, <2>4, <2>5, <2>6
    <2>. QED
      BY <2>2, <2>5, <2>7, <2>8, MoveCallStep
  <1>. QED
    BY <1>1, <1>4, <1>5

\* Attach, to memory.
LEMMA AttachAnyStep ==
    ASSUME BuffersInv, NEW n \in Autos, Attach(n)
    PROVE  BuffersInv' /\ TheStrings!Next
  <1>1. PICK s \in Strings :
          Set(n, AttachMemory(s)) /\ call' = [op |-> "attach", n |-> n, bytes |-> s]
    BY DEF Attach, Called
  <1>2. s \in Seq(Bytes)
    BY StringsAre
  <1> DEFINE b == AttachMemory(s)
  <1>3. SoundObject(b) /\ b.pos = 0 /\ Content(b) = s /\ Set(n, b)
    BY <1>1, <1>2, AttachIs
  <1> HIDE DEF b
  <1>4. /\ BuffersInv'
        /\ n \in Buffered /\ Object(n)' = b
        /\ \A o \in Buffered \ {n} : Object(o)' = Object(o)
    BY <1>3, SetFrame
  <1>. QED
    BY <1>1, <1>2, <1>3, <1>4, AttachCallStep

\* Detach.
LEMMA DetachStep ==
    ASSUME BuffersInv, NEW n \in Autos, Detach(n)
    PROVE  BuffersInv' /\ TheStrings!Next
  <1>1. Set(n, Fresh) /\ call' = [op |-> "attach", n |-> n, bytes |-> <<>>]
    BY DEF Detach, Called
  <1>2. <<>> \in Seq(Bytes)
    OBVIOUS
  <1>3. SoundObject(Fresh) /\ Fresh.pos = 0 /\ Content(Fresh) = <<>>
    BY EmptyIsSound
  <1>4. /\ BuffersInv'
        /\ n \in Buffered /\ Object(n)' = Fresh
        /\ \A o \in Buffered \ {n} : Object(o)' = Object(o)
    BY <1>1, <1>3, SetFrame
  <1>. QED
    BY <1>1, <1>2, <1>3, <1>4, AttachCallStep

\* Attach, to another buffer.
LEMMA AttachAutoStep ==
    ASSUME BuffersInv, NEW n \in Autos, NEW from \in Autos \ {n}, AttachAuto(n, from)
    PROVE  BuffersInv' /\ TheStrings!Next
  <1>1. SetBoth(n, autos[from], from, Fresh)
        /\ call' = [op |-> "take", n |-> n, from |-> from]
    BY DEF AttachAuto, Called
  <1>2. SoundObject(autos[from]) /\ SoundObject(Fresh)
    BY AutoIs, EmptyIsSound
  <1>3. /\ BuffersInv'
        /\ n \in Buffered /\ from \in Buffered
        /\ Object(n) = autos[n] /\ Object(from) = autos[from]
        /\ Object(n)' = autos[from] /\ Object(from)' = Fresh
        /\ \A o \in Buffered \ {n, from} : Object(o)' = Object(o)
    BY <1>1, <1>2, SetBothFrame
  <1>. QED
    BY <1>1, <1>3, TakeCallStep

\* What was put there is there.
LEMMA PuttingGives ==
    ASSUME NEW old \in Seq(Bytes), NEW s \in Seq(Bytes), NEW place \in Nat,
           NEW limit \in Nat, place + Len(s) <= limit
    PROVE  SubSeq(Putting(old, place, s, limit), place + 1, place + Len(s)) = s
  <1> DEFINE p == Putting(old, place, s, limit)
             t == SubSeq(p, place + 1, place + Len(s))
             end == place + Len(s)
             last == IF end > Len(old) THEN end ELSE Len(old)
  <1>1. Len(s) \in Nat /\ Len(old) \in Nat
    BY LenProperties
  <1>2. p = [i \in 1..last |-> IF i > place /\ i <= end THEN s[i - place] ELSE old[i]]
    <2>1. (IF place + Len(s) > limit THEN limit ELSE place + Len(s)) = end
      BY <1>1
    <2>. QED
      BY <2>1, Zenon DEF Putting
  <1> HIDE DEF p
  <1>3. \A i \in 1..Len(s) : p[place + i] = s[i]
    <2> TAKE i \in 1..Len(s)
    <2>1. place + i \in 1..last /\ place + i > place /\ place + i <= end /\ (place + i) - place = i
      BY <1>1
    <2> HIDE DEF last, end
    <2>. QED
      BY <1>2, <2>1
  <1>4. \A i \in 1..Len(s) : p[place + i] \in Bytes
    BY <1>3, ElementOfSeq
  <1>5. /\ t \in Seq(Bytes) /\ Len(t) = Len(s)
        /\ \A i \in 1..Len(s) : t[i] = p[place + i]
    BY <1>1, <1>4, PieceIs
  <1> HIDE DEF t
  <1>6. t = s
    BY <1>3, <1>5, SeqEqual
  <1>. QED
    BY <1>6 DEF t, p

\* Bytes read from one buffer are written into the other at its cursor.
LEMMA ReadIntoStep ==
    ASSUME BuffersInv, NEW n \in Autos, NEW to \in Autos \ {n}, NEW k \in Nat,
           NEW place \in 0..autos[n].length, NEW s \in Seq(Bytes), NEW moves \in BOOLEAN,
           NEW b, SoundObject(b), Content(b) = Content(autos[n]),
           Len(s) = TheStrings!Within(k, autos[n].length - place),
           b.pos = IF moves THEN place + Len(s) ELSE autos[n].pos,
           moves => place = autos[n].pos,
           place = autos[n].pos => s = SubSeq(Content(autos[n]), place + 1, place + Len(s)),
           SetBoth(n, b, to, WriteCur(autos[to], s)),
           Called([op |-> "read", n |-> n, to |-> to, at |-> place, len |-> k, moves |-> moves])
    PROVE  BuffersInv' /\ TheStrings!Next
  <1> DEFINE a == autos[n]
             d == autos[to]
             c == WriteCur(d, s)
             size == Len(s)
  <1>1. /\ SoundObject(a) /\ a.pos \in Nat /\ a.length \in Nat /\ a.pos <= a.length
        /\ Len(Content(a)) = a.length
        /\ SoundObject(d) /\ d.pos \in Nat /\ d.length \in Nat /\ d.pos <= d.length
        /\ MaxBytes \in Nat /\ Bound(to) \in Nat /\ MaxBytes <= Bound(to)
    BY AutoIs
  <1>2. size \in Nat
    BY LenProperties
  <1>3. \A limit \in Nat : d.pos + size <= limit =>
          /\ SoundObject(c) /\ c.pos = d.pos + size
          /\ c.length = Most(d.pos + size, d.length)
          /\ Content(c) = Putting(Content(d), d.pos, s, limit)
    BY <1>1, <1>2, WriteCurPuts
  <1>4. SetBoth(n, b, to, c)
    OBVIOUS
  <1>5. /\ size = TheStrings!Within(k, a.length - place)
        /\ moves => b.pos = place + size
        /\ ~moves => b.pos = a.pos
        /\ place = a.pos => s = SubSeq(Content(a), place + 1, place + size)
        /\ place \in Nat /\ place <= a.length
    BY <1>1
  <1>6. size <= a.length - place
    BY <1>1, <1>2, <1>5 DEF TheStrings!Within
  <1> HIDE DEF a, d, c, size
  <1>7. SoundObject(c) /\ c.pos = d.pos + size /\ c.length = Most(d.pos + size, d.length)
    <2>1. d.pos + size \in Nat /\ d.pos + size <= d.pos + size
      BY <1>1, <1>2
    <2>. QED
      BY <1>3, <2>1
  <1>8. /\ BuffersInv'
        /\ n \in Buffered /\ to \in Buffered /\ n # to
        /\ Object(n) = a /\ Object(to) = d
        /\ Object(n)' = b /\ Object(to)' = c
        /\ \A o \in Buffered \ {n, to} : Object(o)' = Object(o)
        /\ c.length <= MaxBytes
    BY <1>4, <1>7, SetBothFrame DEF a, d
  <1>9. d.pos + size <= Bound(to)
    BY <1>1, <1>2, <1>7, <1>8 DEF Most
  <1>10. Content(c) = Putting(Content(d), d.pos, s, Bound(to))
    BY <1>1, <1>3, <1>9
  <1>11. s = SubSeq(Content(c), d.pos + 1, d.pos + size)
    <2>1. Content(d) \in Seq(Bytes)
      BY <1>1, ContentIs
    <2>2. d.pos + Len(s) <= Bound(to)
      BY <1>9 DEF size
    <2>3. d.pos \in Nat /\ Bound(to) \in Nat
      BY <1>1
    <2>4. SubSeq(Putting(Content(d), d.pos, s, Bound(to)), d.pos + 1, d.pos + Len(s)) = s
      BY <2>1, <2>2, <2>3, PuttingGives
    <2>. QED
      BY <1>10, <2>4 DEF size
  <1>12. Len(Content(c)) = Most(d.pos + size, d.length)
    BY <1>7, ContentIs
  <1>13. c.pos = TheStrings!Within(d.pos + size, Len(Content(c)))
    BY <1>1, <1>2, <1>7, <1>12 DEF Most, TheStrings!Within
  <1>14. Content(b) = Content(a) /\ Len(Content(b)) = a.length
    BY <1>1 DEF a
  <1>15. /\ moves => b.pos = TheStrings!Within(place + size, Len(Content(b)))
         /\ ~moves => b.pos = a.pos
    <2>1. TheStrings!Within(place + size, a.length) = place + size
      BY <1>1, <1>2, <1>5, <1>6 DEF TheStrings!Within
    <2>. QED
      BY <1>5, <1>14, <2>1, Zenon
  <1>16. call' = [op |-> "read", n |-> n, to |-> to, at |-> place, len |-> k, moves |-> moves]
    BY DEF Called
  <1>17. size = TheStrings!Within(k, Len(Content(Object(n))) - place) /\ Len(s) = size
    BY <1>1, <1>5, <1>8 DEF size
  <1>18. /\ Content(c) = Putting(Content(Object(to)), Object(to).pos, s, Bound(to))
         /\ s = SubSeq(Content(c), Object(to).pos + 1, Object(to).pos + size)
         /\ place = Object(n).pos => s = SubSeq(Content(Object(n)), place + 1, place + size)
         /\ c.pos = TheStrings!Within(Object(to).pos + size, Len(Content(c)))
         /\ Content(b) = Content(Object(n))
         /\ ~moves => b.pos = Object(n).pos
    BY <1>5, <1>8, <1>10, <1>11, <1>13, <1>14, <1>15, ZenonT(40)
  <1>19. TheStrings!Next
    <2>1. TheStrings!Others({n, to})
      BY <1>8, OthersStay, SMTT(30)
    <2>2. TheStrings!Put(to, Object(to).pos, s)
      BY <1>8, <1>18 DEF TheStrings!Put, Putting, Buffered
    <2>3. TheStrings!Goes(to, Object(to).pos + size)
      BY <1>8, <1>18 DEF TheStrings!Goes, Buffered
    <2>4. Content(Object(n))' = Content(Object(n))
      BY <1>8, <1>18
    <2>5. IF moves THEN TheStrings!Goes(n, place + size) ELSE TheStrings!Keeps(n)
      BY <1>8, <1>15, <1>18 DEF TheStrings!Goes, TheStrings!Keeps, Buffered
    <2>6. s \in {SubSeq(Content(Object(to))', Object(to).pos + 1, Object(to).pos + size)}
      BY <1>8, <1>18
    <2>7. TheStrings!Read(call')
      BY <1>8, <1>16, <1>17, <1>18, <2>1, <2>2, <2>3, <2>4, <2>5, <2>6
         DEF TheStrings!Read, Buffered
    <2>8. (call').op = "read"
      BY <1>16
    <2>. QED
      BY <2>7, <2>8, SMTT(30) DEF TheStrings!Next
  <1>. QED
    BY <1>8, <1>19

\* Read, into another buffer.
LEMMA ReadAutoStep ==
    ASSUME BuffersInv, NEW n \in Autos, NEW to \in Autos \ {n}, ReadAuto(n, to)
    PROVE  BuffersInv' /\ TheStrings!Next
  <1> DEFINE a == autos[n]
  <1>1. PICK k \in 1..2 :
          \/ /\ SetBoth(n, PastRead(a, k), to, WriteCur(autos[to], ReadCur(a, k)))
             /\ Called([op |-> "read", n |-> n, to |-> to, at |-> a.pos, len |-> k,
                        moves |-> TRUE])
          \/ \E place \in 0..a.length : \E s \in ReadAt(a, place, k, Bytes) :
               /\ SetBoth(n, a, to, WriteCur(autos[to], s))
               /\ Called([op |-> "read", n |-> n, to |-> to, at |-> place, len |-> k,
                          moves |-> FALSE])
    BY DEF ReadAuto
  <1>2. SoundObject(a) /\ a.pos \in 0..a.length /\ k \in Nat
    BY AutoIs
  <1> DEFINE r == ReadCur(a, k)
             p == PastRead(a, k)
  <1>3. /\ r \in Seq(Bytes) /\ Len(r) = TheStrings!Within(k, a.length - a.pos)
        /\ r = SubSeq(Content(a), a.pos + 1, a.pos + Len(r))
        /\ SoundObject(p) /\ p.pos = a.pos + Len(r) /\ Content(p) = Content(a)
    BY <1>2, ReadCurIs
  <1> HIDE DEF r, p
  <1>4. CASE /\ SetBoth(n, p, to, WriteCur(autos[to], r))
             /\ Called([op |-> "read", n |-> n, to |-> to, at |-> a.pos, len |-> k,
                        moves |-> TRUE])
    BY <1>2, <1>3, <1>4, ReadIntoStep
  <1>5. CASE \E place \in 0..a.length : \E s \in ReadAt(a, place, k, Bytes) :
               /\ SetBoth(n, a, to, WriteCur(autos[to], s))
               /\ Called([op |-> "read", n |-> n, to |-> to, at |-> place, len |-> k,
                          moves |-> FALSE])
    <2>0. PICK place \in 0..a.length : \E s \in ReadAt(a, place, k, Bytes) :
            /\ SetBoth(n, a, to, WriteCur(autos[to], s))
            /\ Called([op |-> "read", n |-> n, to |-> to, at |-> place, len |-> k,
                          moves |-> FALSE])
      BY <1>5
    <2>1. PICK s \in ReadAt(a, place, k, Bytes) :
            /\ SetBoth(n, a, to, WriteCur(autos[to], s))
            /\ Called([op |-> "read", n |-> n, to |-> to, at |-> place, len |-> k,
                          moves |-> FALSE])
      BY <2>0
    <2>2. s \in Seq(Bytes) /\ Len(s) = TheStrings!Within(k, a.length - place)
          /\ (place = a.pos => s = r)
      BY <1>2, ReadAtIs DEF r
    <2>3. place = a.pos => s = SubSeq(Content(a), place + 1, place + Len(s))
      BY <1>3, <2>2
    <2>. QED
      BY <1>2, <2>1, <2>2, <2>3, ReadIntoStep
  <1>. QED
    BY <1>1, <1>4, <1>5 DEF r, p

\* A step of the PtrBuffer that leaves it sound leaves the others alone.
LEMMA PtrFrame ==
    ASSUME BuffersInv, PtrStep, NEW b, SoundObject(b), ptr' = b,
           b = NoPtr \/ Len(b.parray) = MaxBytes
    PROVE  /\ BuffersInv'
           /\ Ptr \in Buffered /\ Object(Ptr) = ptr /\ Object(Ptr)' = b
           /\ \A o \in Buffered \ {Ptr} : Object(o)' = Object(o)
           /\ Bound(Ptr) = MaxBytes /\ MaxBytes \in Nat
  <1>1. autos' = autos
    BY DEF PtrStep
  <1>2. BuffersInv'
    BY <1>1 DEF BuffersInv
  <1>3. \A o \in Buffered \ {Ptr} : Object(o)' = Object(o)
    BY <1>1 DEF Object, Buffered
  <1>. QED
    BY <1>2, <1>3, BuffersAssumption DEF Object, Buffered, Bound

\* What is known of the PtrBuffer when it has a block.
LEMMA PtrIs ==
    ASSUME BuffersInv, ptr # NoPtr
    PROVE  /\ SoundObject(ptr) /\ ptr \in BufferObjects /\ Len(ptr.parray) = MaxBytes
           /\ ptr.pos \in 0..ptr.length /\ ptr.pos \in Nat /\ ptr.length \in Nat
           /\ ptr.length <= Len(ptr.parray) /\ MaxBytes \in Nat
           /\ Len(Content(ptr)) = ptr.length
  <1>1. SoundObject(ptr) /\ Len(ptr.parray) = MaxBytes
    BY DEF BuffersInv
  <1>2. Len(Content(ptr)) = ptr.length
    BY <1>1, ContentIs
  <1>. QED
    BY <1>1, <1>2, BuffersAssumption DEF SoundObject, BufferObjects

\* The calls on a PtrBuffer.  Write.
LEMMA PtrWriteStep ==
    ASSUME BuffersInv, PtrStep, ptr # NoPtr, PtrWrite
    PROVE  BuffersInv' /\ TheStrings!Next
  <1>1. PICK s \in Strings :
          \/ PtrSet(PtrWriteCur(ptr, s),
                    [op |-> "write", n |-> Ptr, at |-> ptr.pos, bytes |-> s, moves |-> TRUE])
          \/ \E place \in 0..ptr.length :
               PtrSet(PtrWriteAt(ptr, place, s),
                      [op |-> "write", n |-> Ptr, at |-> place, bytes |-> s, moves |-> FALSE])
    BY DEF PtrWrite
  <1>2. SoundObject(ptr) /\ Len(ptr.parray) = MaxBytes
    BY PtrIs
  <1>3. s \in Seq(Bytes)
    BY StringsAre
  <1>4. CASE PtrSet(PtrWriteCur(ptr, s),
                    [op |-> "write", n |-> Ptr, at |-> ptr.pos, bytes |-> s, moves |-> TRUE])
    <2> DEFINE b == PtrWriteCur(ptr, s)
    <2>1. /\ SoundObject(b) /\ Len(b.parray) = MaxBytes
          /\ b.pos = TheStrings!Within(ptr.pos + Len(s), Len(Content(b)))
          /\ Content(b) = Putting(Content(ptr), ptr.pos, s, MaxBytes)
      BY <1>2, <1>3, PtrWriteCurPuts
    <2>2. ptr' = b /\ call' =
            [op |-> "write", n |-> Ptr, at |-> ptr.pos, bytes |-> s, moves |-> TRUE]
      BY <1>4 DEF PtrSet, Called
    <2> HIDE DEF b
    <2>3. /\ BuffersInv'
          /\ Ptr \in Buffered /\ Object(Ptr) = ptr /\ Object(Ptr)' = b
          /\ \A o \in Buffered \ {Ptr} : Object(o)' = Object(o)
          /\ Bound(Ptr) = MaxBytes
      BY <2>1, <2>2, PtrFrame
    <2>4. Content(b) = Putting(Content(Object(Ptr)), ptr.pos, s, Bound(Ptr))
      BY <2>1, <2>3
    <2>. QED
      BY <2>1, <2>2, <2>3, <2>4, WriteCallStep
  <1>5. CASE \E place \in 0..ptr.length :
               PtrSet(PtrWriteAt(ptr, place, s),
                      [op |-> "write", n |-> Ptr, at |-> place, bytes |-> s, moves |-> FALSE])
    <2>0. PICK place \in 0..ptr.length :
            PtrSet(PtrWriteAt(ptr, place, s),
                   [op |-> "write", n |-> Ptr, at |-> place, bytes |-> s, moves |-> FALSE])
      BY <1>5
    <2> DEFINE b == PtrWriteAt(ptr, place, s)
    <2>1. /\ SoundObject(b) /\ Len(b.parray) = MaxBytes /\ b.pos = ptr.pos
          /\ Content(b) = Putting(Content(ptr), place, s, MaxBytes)
      BY <1>2, <1>3, PtrWriteAtPuts
    <2>2. ptr' = b /\ call' =
            [op |-> "write", n |-> Ptr, at |-> place, bytes |-> s, moves |-> FALSE]
      BY <2>0 DEF PtrSet, Called
    <2> HIDE DEF b
    <2>3. /\ BuffersInv'
          /\ Ptr \in Buffered /\ Object(Ptr) = ptr /\ Object(Ptr)' = b
          /\ \A o \in Buffered \ {Ptr} : Object(o)' = Object(o)
          /\ Bound(Ptr) = MaxBytes
      BY <2>1, <2>2, PtrFrame
    <2>4. Content(b) = Putting(Content(Object(Ptr)), place, s, Bound(Ptr))
          /\ b.pos = Object(Ptr).pos
      BY <2>1, <2>3
    <2>. QED
      BY <2>1, <2>2, <2>3, <2>4, WriteCallStep
  <1>. QED
    BY <1>1, <1>4, <1>5

\* Read.
LEMMA PtrReadStep ==
    ASSUME BuffersInv, PtrStep, ptr # NoPtr, PtrRead
    PROVE  BuffersInv' /\ TheStrings!Next
  <1>1. PICK k \in 1..2 :
          PtrSet(PastRead(ptr, k),
                 [op |-> "get", n |-> Ptr, at |-> ptr.pos, len |-> k, bytes |-> ReadCur(ptr, k)])
    BY DEF PtrRead
  <1>2. /\ SoundObject(ptr) /\ Len(ptr.parray) = MaxBytes /\ ptr.pos \in Nat
        /\ ptr.length \in Nat /\ ptr.pos <= ptr.length /\ Len(Content(ptr)) = ptr.length
    BY PtrIs
  <1> DEFINE b == PastRead(ptr, k)
             s == ReadCur(ptr, k)
             size == TheStrings!Within(k, ptr.length - ptr.pos)
  <1>3. /\ SoundObject(b) /\ b.pos = ptr.pos + size /\ b.parray = ptr.parray
        /\ b.length = ptr.length /\ Content(b) = Content(ptr)
        /\ s = SubSeq(Content(ptr), ptr.pos + 1, ptr.pos + size)
    <2>1. k \in Nat
      OBVIOUS
    <2>. QED
      BY <1>2, <2>1, ReadCurIs
  <1>4. ptr.pos + size <= ptr.length /\ size \in Nat
    BY <1>2 DEF TheStrings!Within
  <1>5. ptr' = b
        /\ call' = [op |-> "get", n |-> Ptr, at |-> ptr.pos, len |-> k, bytes |-> s]
    BY <1>1 DEF PtrSet, Called
  <1>6. size = TheStrings!Within(k, Len(Content(ptr)) - ptr.pos)
    BY <1>2
  <1> HIDE DEF b, s, size
  <1>7. /\ BuffersInv'
        /\ Ptr \in Buffered /\ Object(Ptr) = ptr /\ Object(Ptr)' = b
        /\ \A o \in Buffered \ {Ptr} : Object(o)' = Object(o)
    <2>1. Len(b.parray) = MaxBytes
      BY <1>2, <1>3
    <2>. QED
      BY <1>3, <1>5, <2>1, PtrFrame
  <1>8. b.pos = TheStrings!Within(ptr.pos + size, Len(Content(b)))
    BY <1>2, <1>3, <1>4 DEF TheStrings!Within
  <1>9. /\ Content(b) = Content(Object(Ptr))
        /\ size = TheStrings!Within(k, Len(Content(Object(Ptr))) - ptr.pos)
        /\ s = SubSeq(Content(Object(Ptr)), ptr.pos + 1, ptr.pos + size)
    BY <1>3, <1>6, <1>7
  <1>. QED
    BY <1>5, <1>7, <1>8, <1>9, GetCallStep

\* Length.
LEMMA PtrResizeStep ==
    ASSUME BuffersInv, PtrStep, ptr # NoPtr, PtrResize
    PROVE  BuffersInv' /\ TheStrings!Next
  <1>0. PICK len \in 0..(MaxBytes + 1) : \E place \in 0..len :
          PtrSet(PtrResized(ptr, place, len),
                 [op |-> "length", n |-> Ptr, at |-> place, len |-> len])
    BY DEF PtrResize
  <1>1. PICK place \in 0..len :
          PtrSet(PtrResized(ptr, place, len),
                 [op |-> "length", n |-> Ptr, at |-> place, len |-> len])
    BY <1>0
  <1>2. SoundObject(ptr) /\ Len(ptr.parray) = MaxBytes /\ MaxBytes \in Nat
    BY PtrIs
  <1> DEFINE fits == Least(Capacity(ptr), len)
             b == PtrResized(ptr, place, len)
  <1>3. fits \in 0..Len(ptr.parray) /\ place \in Nat
        /\ fits = IF len > MaxBytes THEN MaxBytes ELSE len
    BY <1>2 DEF Least, Capacity
  <1> HIDE DEF fits
  <1>4. b = Resized(ptr, place, fits)
    BY PtrResizedIs DEF fits
  <1>5. ptr' = b /\ call' = [op |-> "length", n |-> Ptr, at |-> place, len |-> len]
    BY <1>1 DEF PtrSet, Called
  <1> HIDE DEF b
  <1>6. /\ SoundObject(b) /\ b.pos = TheStrings!Within(place, fits) /\ b.length = fits
        /\ b.parray = ptr.parray /\ BeginsLike(Content(b), Content(ptr), fits)
    BY <1>2, <1>3, <1>4, ResizedBegins
  <1>7. /\ BuffersInv'
        /\ Ptr \in Buffered /\ Object(Ptr) = ptr /\ Object(Ptr)' = b
        /\ \A o \in Buffered \ {Ptr} : Object(o)' = Object(o)
        /\ Bound(Ptr) = MaxBytes
    BY <1>2, <1>5, <1>6, PtrFrame
  <1>8. b.pos = TheStrings!Within(place, Len(Content(b)))
    BY <1>6, ContentIs
  <1>9. BeginsLike(Content(b), Content(Object(Ptr)), IF len > Bound(Ptr) THEN Bound(Ptr) ELSE len)
    BY <1>3, <1>6, <1>7
  <1>. QED
    BY <1>5, <1>7, <1>8, <1>9, LengthCallStep

\* Seek.
LEMMA PtrSeekStep ==
    ASSUME BuffersInv, PtrStep, ptr # NoPtr, PtrSeek
    PROVE  BuffersInv' /\ TheStrings!Next
  <1>1. PICK offset \in -1..1 :
          PtrSet(Seek(ptr, offset, "cur"), [op |-> "seek", n |-> Ptr, at |-> ptr.pos + offset])
    BY DEF PtrSeek
  <1>2. /\ SoundObject(ptr) /\ ptr \in BufferObjects /\ Len(ptr.parray) = MaxBytes
        /\ ptr.length <= Len(ptr.parray)
    BY PtrIs
  <1> DEFINE b == Seek(ptr, offset, "cur")
  <1>3. /\ SoundObject(b) /\ b.pos = TheStrings!Within(ptr.pos + offset, ptr.length)
        /\ b.length = ptr.length /\ b.parray = ptr.parray /\ Content(b) = Content(ptr)
    <2>1. From(ptr, "cur") = ptr.pos /\ "cur" \in {"start", "cur", "end"} /\ offset \in Int
      BY DEF From
    <2>. QED
      BY <1>2, <2>1, SeekIs
  <1>4. ptr' = b /\ call' = [op |-> "seek", n |-> Ptr, at |-> ptr.pos + offset]
    BY <1>1 DEF PtrSet, Called
  <1> HIDE DEF b
  <1>5. /\ BuffersInv'
        /\ Ptr \in Buffered /\ Object(Ptr) = ptr /\ Object(Ptr)' = b
        /\ \A o \in Buffered \ {Ptr} : Object(o)' = Object(o)
    BY <1>2, <1>3, <1>4, PtrFrame
  <1>6. b.pos = TheStrings!Within(ptr.pos + offset, Len(Content(b)))
    BY <1>3, ContentIs
  <1>7. Content(b) = Content(Object(Ptr))
    BY <1>3, <1>5
  <1>. QED
    BY <1>4, <1>5, <1>6, <1>7, SeekCallStep

\* Attach.
LEMMA PtrAttachedStep ==
    ASSUME BuffersInv, PtrStep, PtrAttached
    PROVE  BuffersInv' /\ TheStrings!Next
  <1>1. PICK len \in Lengths :
          PtrSet(PtrAttach(Zeros(MaxBytes), len),
                 [op |-> "attach", n |-> Ptr, bytes |-> Zeros(len)])
    BY DEF PtrAttached
  <1> DEFINE b == PtrAttach(Zeros(MaxBytes), len)
  <1>2. /\ SoundObject(b) /\ b.pos = 0 /\ Len(b.parray) = MaxBytes
        /\ Content(b) = Zeros(len)
    BY PtrAttachIs
  <1>3. ptr' = b /\ call' = [op |-> "attach", n |-> Ptr, bytes |-> Zeros(len)]
    BY <1>1 DEF PtrSet, Called
  <1> HIDE DEF b
  <1>4. /\ BuffersInv'
        /\ Ptr \in Buffered /\ Object(Ptr)' = b
        /\ \A o \in Buffered \ {Ptr} : Object(o)' = Object(o)
    BY <1>2, <1>3, PtrFrame
  <1>5. Zeros(len) \in Seq(Bytes)
    <2>1. len \in Nat
      BY BuffersAssumption DEF Lengths
    <2>. QED
      BY <2>1, ZerosAre
  <1>. QED
    BY <1>2, <1>3, <1>4, <1>5, AttachCallStep

\* Reset.
LEMMA PtrResetStep ==
    ASSUME BuffersInv, PtrStep, PtrReset
    PROVE  BuffersInv' /\ TheStrings!Next
  <1>1. ptr' = NoPtr /\ call' = [op |-> "attach", n |-> Ptr, bytes |-> <<>>]
    BY DEF PtrReset, PtrSet, Called
  <1>2. SoundObject(NoPtr) /\ NoPtr.pos = 0 /\ Content(NoPtr) = <<>> /\ <<>> \in Seq(Bytes)
    BY EmptyIsSound
  <1>3. /\ BuffersInv'
        /\ Ptr \in Buffered /\ Object(Ptr)' = NoPtr
        /\ \A o \in Buffered \ {Ptr} : Object(o)' = Object(o)
    BY <1>1, <1>2, PtrFrame
  <1>. QED
    BY <1>1, <1>2, <1>3, AttachCallStep

-----------------------------------------------------------------------------
(* Buffers: the promise.                                                   *)

\* The inductive invariant holds at first.
LEMMA BuffersInitInv == BuffersInit => BuffersInv
  <1> SUFFICES ASSUME BuffersInit  PROVE  BuffersInv
    OBVIOUS
  <1>1. SoundObject(Fresh) /\ Fresh.length = 0 /\ SoundObject(NoPtr)
    BY EmptyIsSound
  <1>2. Fresh \in BufferObjects /\ MaxBytes \in Nat /\ 0 <= MaxBytes
    BY <1>1, BuffersAssumption DEF SoundObject
  <1> HIDE DEF Fresh
  <1>. QED
    BY <1>1, <1>2 DEF BuffersInit, BuffersInv

\* Every step keeps it and is one of the strings', or changes nothing.
LEMMA BuffersStep ==
    ASSUME BuffersInv, [BuffersNext]_bufferVars
    PROVE  BuffersInv' /\ (TheStrings!Next \/ UNCHANGED TheStrings!vars)
  <1>1. CASE \E n \in Autos :
               \/ WriteAuto(n) \/ Allocate(n) \/ Reserve(n) \/ SeekAuto(n) \/ Resize(n)
               \/ MoveAuto(n) \/ Attach(n) \/ Detach(n)
               \/ \E m \in Autos \ {n} : AttachAuto(n, m) \/ ReadAuto(n, m)
    BY <1>1, WriteAutoStep, AllocateStep, ReserveAutoStep, SeekAutoStep, ResizeStep,
       MoveAutoStep, AttachAnyStep, DetachStep, AttachAutoStep, ReadAutoStep
  <1>2. CASE PtrStep
    <2>1. CASE ptr = NoPtr
      <3>1. PtrAttached
        BY <1>2, <2>1 DEF PtrStep
      <3>. QED
        BY <1>2, <3>1, PtrAttachedStep
    <2>2. CASE ptr # NoPtr
      <3>1. PtrReset \/ PtrWrite \/ PtrRead \/ PtrResize \/ PtrSeek
        BY <1>2, <2>2 DEF PtrStep
      <3>. QED
        BY <1>2, <2>2, <3>1, PtrResetStep, PtrWriteStep, PtrReadStep, PtrResizeStep, PtrSeekStep
    <2>. QED
      BY <2>1, <2>2
  <1>3. CASE UNCHANGED bufferVars
    <2>1. autos' = autos /\ ptr' = ptr /\ call' = call
      BY <1>3 DEF bufferVars
    <2>2. BuffersInv'
      BY <2>1 DEF BuffersInv
    <2>3. \A m \in Buffered : Object(m)' = Object(m)
      BY <2>1 DEF Object
    <2>4. UNCHANGED TheStrings!vars
      BY <2>1, <2>3 DEF TheStrings!vars, Buffered
    <2>. QED
      BY <2>2, <2>4
  <1>. QED
    BY <1>1, <1>2, <1>3 DEF BuffersNext

\* AutoBuffer and PtrBuffer do what a string of bytes with a cursor does: every
\* call of theirs, on whatever memory the calls before it left, has the effect
\* on the bytes and on the cursor that the call says, and on no other byte or
\* buffer (BuffersAreStrings), for every unit of growth, every size of the block
\* and every string that is written.
THEOREM BuffersAlwaysAreStrings == BuffersSpec => BuffersAreStrings
  <1>1. BuffersInit => TheStrings!Init
    <2> SUFFICES ASSUME BuffersInit  PROVE  TheStrings!Init
      OBVIOUS
    <2>1. \A m \in Buffered : Content(Object(m)) = <<>> /\ Object(m).pos = 0
      <3> TAKE m \in Buffered
      <3>1. Object(m) = Fresh \/ Object(m) = NoPtr
        BY DEF BuffersInit, Object, Buffered
      <3>. QED
        BY <3>1, EmptyIsSound
    <2>. QED
      BY <2>1 DEF BuffersInit, TheStrings!Init, TheStrings!Idle, Buffered
  <1>2. BuffersInv /\ [BuffersNext]_bufferVars => BuffersInv'
    BY BuffersStep
  <1>3. BuffersInv /\ [BuffersNext]_bufferVars => [TheStrings!Next]_(TheStrings!vars)
    BY BuffersStep
  <1>. QED
    BY <1>1, <1>2, <1>3, BuffersInitInv, PTL DEF BuffersSpec, BuffersAreStrings, TheStrings!Spec

-----------------------------------------------------------------------------
(* The k-th of a set                                                       *)

\* How many of S are at most i.
Rank(S, i) == Cardinality({h \in S : h <= i})

\* Ranks count up with the numbers.
LEMMA RankIs ==
    ASSUME NEW S \in SUBSET Nat, IsFiniteSet(S)
    PROVE  /\ Cardinality(S) \in Nat
           /\ \A i \in S : Rank(S, i) \in 1..Cardinality(S)
           /\ \A i, j \in S : i < j => Rank(S, i) < Rank(S, j)
  <1> DEFINE Below(i) == {h \in S : h <= i}
  <1>1. Cardinality(S) \in Nat
    BY FS_CardinalityType
  <1>2. ASSUME NEW i \in S
        PROVE  IsFiniteSet(Below(i)) /\ Cardinality(Below(i)) \in Nat
               /\ Cardinality(Below(i)) <= Cardinality(S)
    <2>1. Below(i) \in SUBSET S
      OBVIOUS
    <2>. QED
      BY <2>1, FS_Subset, FS_CardinalityType
  <1>3. ASSUME NEW i \in S PROVE Cardinality(Below(i)) # 0
    <2>1. i \in Below(i)
      OBVIOUS
    <2>. QED
      BY <1>2, <2>1, FS_EmptySet
  <1>4. ASSUME NEW i \in S, NEW j \in S, i < j
        PROVE  Cardinality(Below(i)) < Cardinality(Below(j))
    <2>1. \A h \in S : h <= i => h <= j
      BY <1>4
    <2>5. Below(i) \in SUBSET Below(j)
      BY <2>1
    <2>2. j \in Below(j) /\ j \notin Below(i)
      BY <1>4
    <2>3. Below(i) # Below(j)
      BY <2>2
    <2> HIDE DEF Below
    <2>4. /\ Cardinality(Below(i)) <= Cardinality(Below(j))
          /\ Cardinality(Below(j)) = Cardinality(Below(i)) => Below(j) = Below(i)
      BY <1>2, <2>5, FS_Subset
    <2>. QED
      BY <1>2, <2>3, <2>4
  <1> HIDE DEF Below
  <1>5. \A i : Rank(S, i) = Cardinality(Below(i))
    BY DEF Rank, Below
  <1>. QED
    BY <1>1, <1>2, <1>3, <1>4, <1>5

\* There is one of each rank.
LEMMA NthIs ==
    ASSUME NEW S \in SUBSET Nat, IsFiniteSet(S), NEW k \in 1..Cardinality(S)
    PROVE  Nth(S, k) \in S /\ Rank(S, Nth(S, k)) = k
  <1> DEFINE n == Cardinality(S)
             f == [i \in S |-> Rank(S, i)]
  <1>1. n \in Nat /\ f \in [S -> 1..n]
    BY RankIs
  <1>2. \A i, j \in S : f[i] = f[j] => i = j
    <2> SUFFICES ASSUME NEW i \in S, NEW j \in S, f[i] = f[j] PROVE i = j
      OBVIOUS
    <2>1. ~(i < j) /\ ~(j < i)
      BY RankIs
    <2>. QED
      BY <2>1
  <1>3. IsFiniteSet(1..n) /\ Cardinality(1..n) = n
    BY <1>1, FS_Interval
  <1> HIDE DEF f, n
  <1>4. f \in Injection(S, 1..n)
    BY <1>1, <1>2 DEF Injection, IsInjective
  <1>5. f \in Surjection(S, 1..n)
    BY <1>3, <1>4, FS_Injection DEF n
  <1>6. \E i \in S : f[i] = k
    BY <1>5 DEF Surjection, n
  <1>7. \E i \in S : Cardinality({h \in S : h <= i}) = k
    BY <1>6 DEF f, Rank
  <1>. QED
    BY <1>7 DEF Nth, Rank

\* What is in S is the k-th for its rank k.
LEMMA NthOfRank ==
    ASSUME NEW S \in SUBSET Nat, IsFiniteSet(S), NEW i \in S
    PROVE  Nth(S, Rank(S, i)) = i
  <1> DEFINE j == Nth(S, Rank(S, i))
  <1>1. Rank(S, i) \in 1..Cardinality(S)
    BY RankIs
  <1>2. j \in S /\ Rank(S, j) = Rank(S, i)
    BY <1>1, NthIs
  <1> HIDE DEF j
  <1>3. ~(i < j) /\ ~(j < i) /\ i \in Nat /\ j \in Nat
    BY <1>2, RankIs
  <1>. QED
    BY <1>3 DEF j

\* Two sets that agree up to b have the same k-th there.
LEMMA NthBelow ==
    ASSUME NEW S \in SUBSET Nat, IsFiniteSet(S), NEW b \in Nat,
           NEW k \in 1..Cardinality({i \in S : i <= b})
    PROVE  Nth({i \in S : i <= b}, k) = Nth(S, k)
  <1> DEFINE T == {i \in S : i <= b}
             i == Nth(T, k)
  <1>1. T \in SUBSET Nat /\ T \in SUBSET S
    OBVIOUS
  <1>2. IsFiniteSet(T)
    BY <1>1, FS_Subset
  <1>3. i \in T /\ Rank(T, i) = k
    BY <1>1, <1>2, NthIs
  <1>4. {h \in T : h <= i} = {h \in S : h <= i}
    <2>1. i \in Nat /\ i <= b
      BY <1>3
    <2>2. \A h \in S : h <= i => h <= b
      BY <2>1
    <2>. QED
      BY <2>2
  <1>5. Rank(S, i) = k /\ i \in S
    BY <1>3, <1>4 DEF Rank
  <1> HIDE DEF i
  <1>6. Nth(S, k) = i
    BY <1>5, NthOfRank
  <1>. QED
    BY <1>6 DEF i

\* The last one.
LEMMA NthLast ==
    ASSUME NEW S \in SUBSET Nat, IsFiniteSet(S), NEW m \in S, \A h \in S : h <= m
    PROVE  Nth(S, Cardinality(S)) = m
  <1>1. {h \in S : h <= m} = S
    OBVIOUS
  <1>2. Rank(S, m) = Cardinality(S)
    BY <1>1 DEF Rank
  <1>. QED
    BY <1>2, NthOfRank

-----------------------------------------------------------------------------
(* The records in a text                                                   *)

Part == Nat \X Nat \X Nat

\* Whether a record ends somewhere shows in what is before.
LEMMA EndsBelow ==
    ASSUME NEW n \in Nat, NEW m \in 0..n,
           NEW T \in [1..n -> Part], NEW U \in [1..m -> Part],
           \A i \in 1..m : U[i] = T[i]
    PROVE  Ends(U) = {i \in Ends(T) : i <= m}
  <1> DEFINE E(t, V, i) == /\ t[1] # 0 /\ t[2] = t[3] /\ t[3] <= i
                           /\ \A p \in 1..t[3] : V[i - t[3] + p] = <<t[1], p, t[3]>>
  <1>1. Ends(T) = {i \in 1..n : E(T[i], T, i)}
    BY DEF Ends
  <1>2. Ends(U) = {i \in 1..m : E(U[i], U, i)}
    BY DEF Ends
  <1>3. ASSUME NEW i \in 1..m PROVE E(U[i], U, i) <=> E(T[i], T, i)
    <2> DEFINE t == T[i]
    <2>1. U[i] = t /\ t[3] \in Nat
      BY DEF Part
    <2>2. ASSUME NEW p \in 1..t[3], t[3] <= i
          PROVE  U[i - t[3] + p] = T[i - t[3] + p]
      <3>1. i - t[3] + p \in 1..m
        BY <2>1, <2>2
      <3>. QED
        BY <3>1
    <2>. QED
      BY <2>1, <2>2
  <1> HIDE DEF E
  <1>. QED
    BY <1>1, <1>2, <1>3

\* Records end in a finite number of cells.
LEMMA EndsAre ==
    ASSUME NEW n \in Nat, NEW T \in [1..n -> Part]
    PROVE  /\ Ends(T) \in SUBSET (1..n)
           /\ Ends(T) \in SUBSET Nat
           /\ IsFiniteSet(Ends(T))
           /\ Cardinality(Ends(T)) \in Nat
  <1>1. Ends(T) \in SUBSET (1..n)
    BY DEF Ends
  <1>2. IsFiniteSet(1..n)
    BY FS_Interval
  <1>. QED
    BY <1>1, <1>2, FS_Subset, FS_CardinalityType

\* There is one record for each.
LEMMA RecordsAre ==
    ASSUME NEW n \in Nat, NEW T \in [1..n -> Part]
    PROVE  /\ RecordsIn(T) \in Seq(Nat)
           /\ Len(RecordsIn(T)) = Cardinality(Ends(T))
           /\ \A k \in 1..Cardinality(Ends(T)) :
                /\ Nth(Ends(T), k) \in Ends(T)
                /\ RecordsIn(T)[k] = T[Nth(Ends(T), k)][1]
  <1> DEFINE E == Ends(T)
             c == Cardinality(E)
             f == [k \in 1..c |-> T[Nth(E, k)][1]]
  <1>1. E \in SUBSET (1..n) /\ E \in SUBSET Nat /\ IsFiniteSet(E) /\ c \in Nat
    BY EndsAre
  <1>2. RecordsIn(T) = f
    BY DEF RecordsIn
  <1> HIDE DEF E
  <1>3. ASSUME NEW k \in 1..c PROVE Nth(E, k) \in E
    BY <1>1, <1>3, NthIs
  <1>4. ASSUME NEW i \in E PROVE T[i][1] \in Nat
    <2>1. T[i] \in Part
      BY <1>1
    <2>. QED
      BY <2>1 DEF Part
  <1>5. f \in [1..c -> Nat]
    BY <1>3, <1>4
  <1> HIDE DEF c
  <1>6. f \in Seq(Nat) /\ Len(f) = c
    BY <1>1, <1>5
  <1>. QED
    BY <1>2, <1>3, <1>6 DEF c, E

\* No records end behind what T and U have in common.
LEMMA RecordsSame ==
    ASSUME NEW n \in Nat, NEW m \in 0..n,
           NEW T \in [1..n -> Part], NEW U \in [1..m -> Part],
           \A i \in 1..m : U[i] = T[i],
           \A i \in Ends(T) : i <= m
    PROVE  RecordsIn(U) = RecordsIn(T)
  <1> DEFINE E == Ends(T)
             c == Cardinality(E)
  <1>1. Ends(U) = E
    <2>1. Ends(U) = {i \in Ends(T) : i <= m}
      BY EndsBelow
    <2>. QED
      BY <2>1
  <1>2. m \in Nat /\ E \in SUBSET (1..m)
    BY <1>1, EndsAre
  <1>3. RecordsIn(T) = [k \in 1..c |-> T[Nth(E, k)][1]]
    BY DEF RecordsIn
  <1>4. RecordsIn(U) = [k \in 1..c |-> U[Nth(E, k)][1]]
    BY <1>1 DEF RecordsIn
  <1>5. ASSUME NEW k \in 1..c PROVE U[Nth(E, k)] = T[Nth(E, k)]
    <2>1. Nth(E, k) \in E
      BY RecordsAre
    <2>. QED
      BY <1>2, <2>1
  <1> HIDE DEF E, c
  <1>. QED
    BY <1>3, <1>4, <1>5

\* One record ends at the end.
LEMMA RecordsOneMore ==
    ASSUME NEW n \in Nat, NEW m \in 0..(n - 1),
           NEW T \in [1..n -> Part], NEW U \in [1..m -> Part],
           \A i \in 1..m : U[i] = T[i],
           n \in Ends(T), \A i \in Ends(T) : i <= m \/ i = n
    PROVE  RecordsIn(T) = Append(RecordsIn(U), T[n][1])
  <1> DEFINE E == Ends(T)
             F == Ends(U)
             c == Cardinality(F)
             R == RecordsIn(T)
             Q == RecordsIn(U)
  <1>1. m \in Nat /\ m \in 0..n
    OBVIOUS
  <1>2. F = {i \in E : i <= m}
    BY <1>1, EndsBelow
  <1>3. /\ E \in SUBSET Nat /\ IsFiniteSet(E)
        /\ F \in SUBSET Nat /\ IsFiniteSet(F) /\ c \in Nat /\ F \in SUBSET (1..m)
    BY <1>1, EndsAre
  <1>4. E = F \cup {n} /\ n \notin F /\ n \in E /\ \A i \in E : i <= n
    BY <1>1, <1>2, <1>3
  <1>5. /\ Q \in Seq(Nat) /\ Len(Q) = c
        /\ \A k \in 1..c : Nth(F, k) \in F /\ Q[k] = U[Nth(F, k)][1]
    BY <1>1, RecordsAre
  <1>6. /\ R \in Seq(Nat) /\ Len(R) = Cardinality(E)
        /\ \A k \in 1..Cardinality(E) : R[k] = T[Nth(E, k)][1]
    BY <1>1, RecordsAre
  <1> HIDE DEF E, F, R, Q
  <1>7. Cardinality(E) = c + 1
    BY <1>3, <1>4, FS_AddElement
  <1>8. Nth(E, c + 1) = n
    BY <1>3, <1>4, <1>7, NthLast
  <1>9. ASSUME NEW k \in 1..c PROVE R[k] = Q[k]
    <2>1. Nth(F, k) = Nth(E, k)
      BY <1>1, <1>2, <1>3, NthBelow
    <2>2. Nth(F, k) \in 1..m
      BY <1>3, <1>5
    <2>3. U[Nth(F, k)] = T[Nth(F, k)]
      BY <2>2
    <2>4. k \in 1..Cardinality(E)
      BY <1>3, <1>7
    <2>5. R[k] = T[Nth(E, k)][1]
      BY <1>6, <2>4
    <2>6. Q[k] = U[Nth(F, k)][1]
      BY <1>5
    <2>. QED
      BY <2>1, <2>3, <2>5, <2>6, Zenon
  <1>10. R[c + 1] = T[n][1]
    BY <1>3, <1>6, <1>7, <1>8
  <1>11. T[n][1] \in Nat
    <2>1. T[n] \in Part
      BY <1>1
    <2>. QED
      BY <2>1 DEF Part
  <1> HIDE DEF c
  <1>12. R = Append(Q, T[n][1])
    BY <1>3, <1>5, <1>6, <1>7, <1>9, <1>10, <1>11
  <1>. QED
    BY <1>12 DEF R, Q

\* Up to b as it was, behind it unreadable in places.
LEMMA RecordsTorn ==
    ASSUME NEW n \in Nat, NEW b \in 0..n, NEW B \in Nat, n - b <= B,
           NEW T \in [1..n -> Part], NEW U \in [1..n -> Part],
           \A i \in 1..n : U[i] = T[i] \/ U[i] = <<0, 0, 0>>,
           \A i \in 1..b : U[i] = T[i]
    PROVE  /\ \A i \in 1..(Len(RecordsIn(T)) - B) : RecordsIn(U)[i] = RecordsIn(T)[i]
           /\ \A i \in DOMAIN RecordsIn(U) : \E j \in DOMAIN RecordsIn(T) :
                RecordsIn(T)[j] = RecordsIn(U)[i]
  <1> DEFINE S == Ends(T)
             R == Ends(U)
             C == {i \in S : i <= b}
             V == [i \in 1..b |-> T[i]]
             P == RecordsIn(T)
             Q == RecordsIn(U)
  <1>1. b \in Nat /\ V \in [1..b -> Part] /\ \A i \in 1..b : V[i] = T[i] /\ V[i] = U[i]
    OBVIOUS
  <1> HIDE DEF V
  <1>2. Ends(V) = C
    BY <1>1, EndsBelow
  <1>3. Ends(V) = {i \in R : i <= b}
    BY <1>1, EndsBelow
  <1>4. /\ S \in SUBSET (1..n) /\ S \in SUBSET Nat /\ IsFiniteSet(S) /\ Cardinality(S) \in Nat
        /\ R \in SUBSET (1..n) /\ R \in SUBSET Nat /\ IsFiniteSet(R) /\ Cardinality(R) \in Nat
        /\ IsFiniteSet(C) /\ Cardinality(C) \in Nat
    BY <1>1, <1>2, EndsAre
  <1>5. ASSUME NEW i \in R PROVE U[i] = T[i] /\ i \in S
    <2> DEFINE t == U[i]
    <2>1. /\ i \in 1..n /\ t[1] # 0 /\ t[2] = t[3] /\ t[3] <= i
          /\ \A p \in 1..t[3] : U[i - t[3] + p] = <<t[1], p, t[3]>>
      BY <1>5 DEF Ends
    <2>2. t = T[i]
      <3>1. t = T[i] \/ t = <<0, 0, 0>>
        BY <2>1
      <3>. QED
        BY <2>1, <3>1
    <2>3. t[3] \in Nat /\ t[1] \in Nat
      <3>1. t \in Part
        BY <2>1
      <3>. QED
        BY <3>1 DEF Part
    <2>4. ASSUME NEW p \in 1..t[3] PROVE T[i - t[3] + p] = <<t[1], p, t[3]>>
      <3>1. i - t[3] + p \in 1..n
        BY <2>1, <2>3
      <3>2. U[i - t[3] + p] = T[i - t[3] + p] \/ U[i - t[3] + p] = <<0, 0, 0>>
        BY <3>1
      <3>3. U[i - t[3] + p] = <<t[1], p, t[3]>>
        BY <2>1
      <3> HIDE DEF t
      <3>4. <<t[1], p, t[3]>> # <<0, 0, 0>>
        BY <2>1
      <3>. QED
        BY <3>2, <3>3, <3>4
    <2>. QED
      BY <2>1, <2>2, <2>4 DEF Ends
  <1>6. /\ \A k \in 1..Cardinality(S) : P[k] = T[Nth(S, k)][1]
        /\ P \in Seq(Nat) /\ Len(P) = Cardinality(S)
    BY RecordsAre
  <1>7. /\ \A k \in 1..Cardinality(R) : Nth(R, k) \in R /\ Q[k] = U[Nth(R, k)][1]
        /\ Q \in Seq(Nat) /\ Len(Q) = Cardinality(R)
    BY RecordsAre
  <1> HIDE DEF S, R, P, Q
  <1>8. Cardinality(S) - B <= Cardinality(C)
    <2>1. IsFiniteSet((b + 1)..n) /\ Cardinality((b + 1)..n) <= B
          /\ Cardinality((b + 1)..n) \in Nat
      <3>1. b + 1 \in Int /\ n \in Int
        BY <1>1
      <3>2. IsFiniteSet((b + 1)..n)
            /\ Cardinality((b + 1)..n) = IF b + 1 > n THEN 0 ELSE n - (b + 1) + 1
        BY <3>1, FS_Interval
      <3>. QED
        BY <1>1, <3>1, <3>2
    <2>2. S \in SUBSET (C \cup ((b + 1)..n))
      BY <1>1, <1>4
    <2>3. /\ IsFiniteSet(C \cup ((b + 1)..n))
          /\ Cardinality(C \cup ((b + 1)..n)) = Cardinality(C) + Cardinality((b + 1)..n)
                                           - Cardinality(C \cap ((b + 1)..n))
      BY <1>4, <2>1, FS_Union
    <2>4. C \cap ((b + 1)..n) = {}
      BY <1>1
    <2>5. Cardinality(C \cup ((b + 1)..n)) = Cardinality(C) + Cardinality((b + 1)..n)
      <3>1. Cardinality(C \cap ((b + 1)..n)) = 0
        BY <2>4, FS_EmptySet
      <3> HIDE DEF C
      <3>. QED
        BY <1>4, <2>1, <2>3, <3>1
    <2>6. Cardinality(S) <= Cardinality(C \cup ((b + 1)..n))
      BY <2>2, <2>3, FS_Subset
    <2>. QED
      BY <1>4, <2>1, <2>5, <2>6
  <1>9. Cardinality(C) <= Cardinality(R) /\ Cardinality(C) <= Cardinality(S)
    <2>1. C \in SUBSET R /\ C \in SUBSET S
      BY <1>2, <1>3
    <2>. QED
      BY <1>4, <2>1, FS_Subset
  <1>10. ASSUME NEW i \in 1..(Len(P) - B) PROVE Q[i] = P[i]
    <2>1. /\ i \in 1..Cardinality(C) /\ i \in 1..Cardinality(R)
          /\ i \in 1..Cardinality(S)
      BY <1>4, <1>6, <1>8, <1>9
    <2>2. Nth(C, i) = Nth(S, i)
      BY <1>1, <1>4, <2>1, NthBelow
    <2>3. Nth(C, i) = Nth(R, i)
      <3>1. C = {h \in R : h <= b}
        BY <1>2, <1>3
      <3> HIDE DEF C
      <3>. QED
        BY <1>1, <1>4, <2>1, <3>1, NthBelow
    <2>5. P[i] = T[Nth(S, i)][1]
      BY <1>6, <2>1
    <2>6. Q[i] = U[Nth(R, i)][1] /\ Nth(R, i) \in R
      BY <1>7, <2>1
    <2>7. U[Nth(R, i)] = T[Nth(R, i)]
      BY <1>5, <2>6
    <2>. QED
      BY <2>2, <2>3, <2>5, <2>6, <2>7, Zenon
  <1>11. ASSUME NEW i \in DOMAIN Q PROVE \E j \in DOMAIN P : P[j] = Q[i]
    <2>1. i \in 1..Cardinality(R)
      BY <1>7
    <2> DEFINE x == Nth(R, i)
               j == Rank(S, x)
    <2>2. x \in R /\ x \in S /\ Q[i] = T[x][1]
      BY <1>5, <1>7, <2>1
    <2>3. j \in 1..Cardinality(S) /\ Nth(S, j) = x
      BY <1>4, <2>2, RankIs, NthOfRank
    <2> HIDE DEF x, j
    <2>4. P[j] = Q[i] /\ j \in DOMAIN P
      BY <1>6, <2>2, <2>3
    <2>. QED
      BY <2>4
  <1>. QED
    BY <1>10, <1>11 DEF P, Q

-----------------------------------------------------------------------------
(* Groups of cells                                                         *)

\* Full groups end at a multiple of Block.
LEMMA GroupedIs ==
    ASSUME NEW n \in Nat
    PROVE  /\ Grouped(n) \in 0..n
           /\ n - Grouped(n) = n % Block
           /\ n - Grouped(n) < Block
           /\ \E q \in Nat : Grouped(n) = q * Block
  <1> DEFINE q == n \div Block
             r == n % Block
  <1>1. Block \in Nat \ {0}
    BY Constants
  <1>2. r \in 0..(Block - 1) /\ n = (q * Block) + r /\ q \in Int
    BY <1>1, ModIs
  <1>3. Grouped(n) = n - r
    BY DEF Grouped
  <1> HIDE DEF q, r
  <1>4. ~(q <= -1)
    <2>1. q <= -1 => (-1 - q) * Block >= 0
      BY <1>1, <1>2
    <2>2. (-1 - q) * Block = -Block - q * Block
      BY <1>1, <1>2
    <2>3. q * Block \in Int
      BY <1>1, <1>2
    <2>. QED
      BY <1>1, <1>2, <2>1, <2>2, <2>3
  <1>5. q * Block \in Int
    BY <1>1, <1>2
  <1>6. Grouped(n) = q * Block /\ q \in Nat
    BY <1>2, <1>3, <1>4, <1>5
  <1>7. r <= n
    BY <1>1, ModBound DEF r
  <1>8. Grouped(n) \in 0..n /\ n - Grouped(n) = r /\ n - Grouped(n) < Block
    BY <1>1, <1>2, <1>3, <1>7
  <1>9. \E p \in Nat : Grouped(n) = p * Block
    BY <1>6
  <1>. QED
    BY <1>8, <1>9 DEF r

\* Where a group starts.
LEMMA FirstIs ==
    ASSUME NEW i \in Nat \ {0}
    PROVE  \E q \in Nat : FirstOf(i) = q * Block + 1 /\ i - FirstOf(i) \in 0..(Block - 1)
  <1> DEFINE n == i - 1
  <1>1. n \in Nat /\ FirstOf(i) = Grouped(n) + 1
    BY GroupedIs DEF FirstOf, Grouped
  <1>2. PICK q \in Nat : Grouped(n) = q * Block
    BY <1>1, GroupedIs
  <1>3. Grouped(n) \in 0..n /\ n - Grouped(n) < Block
    BY <1>1, GroupedIs
  <1>4. Block \in Nat
    BY Constants
  <1>5. i - FirstOf(i) = n - Grouped(n)
    BY <1>1, <1>3
  <1> HIDE DEF n
  <1>6. FirstOf(i) = q * Block + 1
    BY <1>1, <1>2
  <1>7. i - FirstOf(i) \in 0..(Block - 1)
    BY <1>1, <1>3, <1>4, <1>5
  <1>. QED
    BY <1>6, <1>7

\* There is one group for a cell.
LEMMA FirstUnique ==
    ASSUME NEW i \in Nat \ {0}, NEW q \in Nat, i - 1 - q * Block \in 0..(Block - 1)
    PROVE  FirstOf(i) = q * Block + 1
  <1>1. Block \in Nat \ {0} /\ q * Block \in Int
    BY Constants
  <1> DEFINE r == i - 1 - q * Block
  <1>2. i - 1 \in Nat /\ i - 1 = (q * Block) + r /\ r \in 0..(Block - 1) /\ q \in Int
    BY <1>1
  <1>3. (i - 1) % Block = r
    BY <1>1, <1>2, ModUnique
  <1>. QED
    BY <1>1, <1>2, <1>3 DEF FirstOf

\* A cell up to Grouped(n) is in a full group, with all the others of it.
LEMMA InGroup ==
    ASSUME NEW n \in Nat, NEW i \in 1..n, i <= Grouped(n)
    PROVE  /\ FirstOf(i) \in 1..i
           /\ i - FirstOf(i) + 1 \in 1..Block
           /\ FirstOf(i) + Block - 1 <= Grouped(n)
           /\ \A j \in 1..Block :
                /\ FirstOf(i) + j - 1 \in 1..n
                /\ FirstOf(i) + j - 1 <= Grouped(n)
                /\ FirstOf(FirstOf(i) + j - 1) = FirstOf(i)
  <1>1. Block \in Nat \ {0}
    BY Constants
  <1>2. PICK q \in Nat : FirstOf(i) = q * Block + 1 /\ i - FirstOf(i) \in 0..(Block - 1)
    BY FirstIs
  <1>3. PICK p \in Nat : Grouped(n) = p * Block
    BY GroupedIs
  <1>4. Grouped(n) \in 0..n
    BY GroupedIs
  <1>5. q * Block \in Nat /\ p * Block \in Nat
    BY <1>1
  <1>6. q + 1 <= p
    <2>1. SUFFICES ASSUME p <= q PROVE FALSE
      OBVIOUS
    <2>2. (q - p) * Block >= 0
      BY <1>1, <2>1
    <2>3. (q - p) * Block = q * Block - p * Block
      BY <1>1
    <2>. QED
      BY <1>1, <1>2, <1>3, <1>5, <2>2, <2>3
  <1>7. q * Block + Block <= p * Block
    <2>1. (p - (q + 1)) * Block >= 0
      BY <1>1, <1>6
    <2>2. (p - (q + 1)) * Block = p * Block - (q * Block + Block)
      BY <1>1
    <2>. QED
      BY <1>1, <1>5, <2>1, <2>2
  <1>8. ASSUME NEW j \in 1..Block
        PROVE  /\ FirstOf(i) + j - 1 \in 1..n
               /\ FirstOf(i) + j - 1 <= Grouped(n)
               /\ FirstOf(FirstOf(i) + j - 1) = FirstOf(i)
    <2> DEFINE x == FirstOf(i) + j - 1
    <2>1. x \in 1..n /\ x <= Grouped(n) /\ x - 1 - q * Block \in 0..(Block - 1)
      BY <1>1, <1>2, <1>3, <1>4, <1>5, <1>7
    <2> HIDE DEF x
    <2>2. FirstOf(x) = q * Block + 1
      BY <2>1, FirstUnique
    <2>. QED
      BY <1>2, <2>1, <2>2 DEF x
  <1>9. FirstOf(i) \in 1..i /\ i - FirstOf(i) + 1 \in 1..Block
        /\ FirstOf(i) + Block - 1 <= Grouped(n)
    BY <1>1, <1>2, <1>3, <1>5, <1>7
  <1>. QED
    BY <1>8, <1>9

\* Groups that come behind full groups stay groups.
LEMMA GroupsShift ==
    ASSUME NEW b \in Nat, Grouped(b) = b, NEW n \in Nat
    PROVE  /\ Grouped(b + n) = b + Grouped(n)
           /\ \A i \in 1..n : FirstOf(b + i) = b + FirstOf(i)
  <1>1. Block \in Nat \ {0}
    BY Constants
  <1>2. PICK p \in Nat : b = p * Block
    BY GroupedIs
  <1>3. PICK q \in Nat : Grouped(n) = q * Block
    BY GroupedIs
  <1>4. Grouped(n) \in 0..n /\ n - Grouped(n) < Block
    BY GroupedIs
  <1>5. p * Block \in Nat /\ q * Block \in Nat /\ (p + q) * Block = p * Block + q * Block
    BY <1>1
  <1>6. (b + n) % Block = n - Grouped(n)
    <2> DEFINE r == n - Grouped(n)
    <2>1. r \in 0..(Block - 1) /\ p + q \in Int /\ b + n \in Nat
      BY <1>1, <1>4
    <2>2. b + n = ((p + q) * Block) + r
      BY <1>1, <1>2, <1>3, <1>4, <1>5
    <2> HIDE DEF r
    <2>3. (b + n) % Block = r
      BY <1>1, <2>1, <2>2, ModUnique
    <2>. QED
      BY <2>3 DEF r
  <1>7. Grouped(b + n) = b + Grouped(n)
    BY <1>4, <1>6 DEF Grouped
  <1>8. ASSUME NEW i \in 1..n PROVE FirstOf(b + i) = b + FirstOf(i)
    <2>1. PICK u \in Nat : FirstOf(i) = u * Block + 1 /\ i - FirstOf(i) \in 0..(Block - 1)
      BY FirstIs
    <2>2. u * Block \in Nat /\ (p + u) * Block = p * Block + u * Block
      BY <1>1
    <2>3. p + u \in Nat /\ b + i \in Nat \ {0}
      BY <1>2
    <2>4. (b + i) - 1 - (p + u) * Block \in 0..(Block - 1)
      BY <1>1, <1>2, <1>5, <2>1, <2>2
    <2>5. FirstOf(b + i) = (p + u) * Block + 1
      BY <2>3, <2>4, FirstUnique
    <2>. QED
      BY <1>2, <1>5, <2>1, <2>2, <2>5
  <1>. QED
    BY <1>7, <1>8

-----------------------------------------------------------------------------
(* Texts                                                                   *)

Cell == [text : Seq(Part), k : Nat]

\* The group of cell i is there.
WholeGroup(s, i) ==
    /\ Len(s[i].text) = Block
    /\ \A j \in 1..Block : s[FirstOf(i) + j - 1] = [text |-> s[i].text, k |-> j]

\* Text, with its two cases named.
LEMMA TextOf ==
    ASSUME NEW s, NEW c, NEW i
    PROVE  /\ c /\ i <= Grouped(Len(s)) =>
                Text(s, c, i) = IF WholeGroup(s, i) THEN s[i].text[s[i].k] ELSE <<0, 0, 0>>
           /\ ~(c /\ i <= Grouped(Len(s))) =>
                Text(s, c, i) = IF Len(s[i].text) = 1 THEN s[i].text[1] ELSE <<0, 0, 0>>
  BY Zenon DEF Text, WholeGroup

\* A text is made of parts.
LEMMA TextIs ==
    ASSUME NEW s \in Seq(Cell), NEW c, NEW i \in 1..Len(s)
    PROVE  Text(s, c, i) \in Part
  <1>1. s[i] \in Cell /\ Len(s) \in Nat
    OBVIOUS
  <1>2. s[i].text \in Seq(Part)
    BY <1>1 DEF Cell
  <1>3. <<0, 0, 0>> \in Part
    BY DEF Part
  <1>4. CASE c /\ i <= Grouped(Len(s))
    <2>1. ASSUME WholeGroup(s, i) PROVE s[i].text[s[i].k] \in Part
      <3> DEFINE j == i - FirstOf(i) + 1
      <3>1. j \in 1..Block /\ FirstOf(i) \in 1..i
        BY <1>1, <1>4, InGroup
      <3>2. FirstOf(i) + j - 1 = i
        BY <3>1
      <3> HIDE DEF j
      <3>3. s[i] = [text |-> s[i].text, k |-> j] /\ Len(s[i].text) = Block
        BY <2>1, <3>1, <3>2 DEF WholeGroup
      <3>4. s[i].k = j
        BY <3>3
      <3> DEFINE t == s[i].text
      <3>5. t \in Seq(Part) /\ j \in 1..Len(t)
        BY <1>2, <3>1, <3>3
      <3> HIDE DEF t
      <3>6. t[j] \in Part
        BY <3>5
      <3>. QED
        BY <3>4, <3>6 DEF t
    <2>2. Text(s, c, i) = IF WholeGroup(s, i) THEN s[i].text[s[i].k] ELSE <<0, 0, 0>>
      BY <1>4, TextOf
    <2>. QED
      BY <1>3, <2>1, <2>2, Zenon
  <1>5. CASE ~(c /\ i <= Grouped(Len(s)))
    <2>1. Text(s, c, i) = IF Len(s[i].text) = 1 THEN s[i].text[1] ELSE <<0, 0, 0>>
      BY <1>5, TextOf
    <2> DEFINE t == s[i].text
    <2>2. t \in Seq(Part)
      BY <1>2
    <2> HIDE DEF t
    <2>3. Len(t) = 1 => t[1] \in Part
      BY <2>2
    <2>. QED
      BY <1>3, <2>1, <2>3, Zenon DEF t
  <1>. QED
    BY <1>4, <1>5

\* Two blocks have their first b cells in common.
SameBelow(s, u, c, b) ==
    /\ Len(s) \in Nat /\ Len(u) \in Nat /\ b \in Nat
    /\ c => Grouped(b) = b
    /\ b <= Len(s) /\ b <= Len(u)
    /\ \A j \in 1..b : s[j] = u[j]

\* The first is the second behind b cells.
SameBehind(s, u, c, b) ==
    /\ Len(s) \in Nat /\ Len(u) \in Nat /\ b \in Nat
    /\ c => Grouped(b) = b /\ Len(s) = b + Len(u)
    /\ \A j \in 1..(Len(s) - b) : s[b + j] = u[j]

\* What two blocks have in common, up to the end of a group, reads the same.
LEMMA TextBelow ==
    ASSUME NEW s, NEW u, NEW c, NEW b, SameBelow(s, u, c, b), NEW i \in 1..b
    PROVE  Text(s, c, i) = Text(u, c, i)
  <1>. USE DEF SameBelow
  <1>1. s[i] = u[i]
    OBVIOUS
  <1>2. CASE c
    <2> DEFINE m == Len(s) - b
               n == Len(u) - b
    <2>1. m \in Nat /\ n \in Nat /\ Len(s) = b + m /\ Len(u) = b + n
      OBVIOUS
    <2> HIDE DEF m, n
    <2>2. Grouped(b + m) = b + Grouped(m) /\ Grouped(b + n) = b + Grouped(n)
      BY <1>2, <2>1, GroupsShift
    <2>3. Grouped(m) \in Nat /\ Grouped(n) \in Nat
      <3>1. Grouped(m) \in 0..m /\ Grouped(n) \in 0..n
        BY <2>1, GroupedIs
      <3>. QED
        BY <2>1, <3>1
    <2>4. i <= Grouped(Len(s)) /\ i <= Grouped(Len(u))
      BY <2>1, <2>2, <2>3
    <2>5. i <= Grouped(b)
      BY <1>2
    <2>6. \A j \in 1..Block : FirstOf(i) + j - 1 \in 1..b
      BY <2>5, InGroup
    <2>7. \A j \in 1..Block : s[FirstOf(i) + j - 1] = u[FirstOf(i) + j - 1]
      BY <2>6
    <2>8. WholeGroup(s, i) <=> WholeGroup(u, i)
      BY <1>1, <2>7, Zenon DEF WholeGroup
    <2>9. Text(s, c, i) = IF WholeGroup(s, i) THEN s[i].text[s[i].k] ELSE <<0, 0, 0>>
      BY <1>2, <2>4, TextOf
    <2>10. Text(u, c, i) = IF WholeGroup(u, i) THEN u[i].text[u[i].k] ELSE <<0, 0, 0>>
      BY <1>2, <2>4, TextOf
    <2>. QED
      BY <1>1, <2>8, <2>9, <2>10
  <1>3. CASE ~c
    BY <1>1, <1>3, TextOf
  <1>. QED
    BY <1>2, <1>3

\* Behind full groups, a block reads as if it began there.
LEMMA TextBehind ==
    ASSUME NEW s, NEW u, NEW c, NEW b, SameBehind(s, u, c, b),
           NEW i \in 1..(Len(s) - b)
    PROVE  Text(s, c, b + i) = Text(u, c, i)
  <1>. USE DEF SameBehind
  <1>1. s[b + i] = u[i]
    OBVIOUS
  <1>2. CASE c
    <2> DEFINE n == Len(u)
    <2>1. n \in Nat /\ Len(s) = b + n /\ i \in 1..n /\ Grouped(b) = b
      BY <1>2
    <2> HIDE DEF n
    <2>2. Grouped(b + n) = b + Grouped(n) /\ FirstOf(b + i) = b + FirstOf(i)
      BY <2>1, GroupsShift
    <2>3. Grouped(n) \in Nat
      <3>1. Grouped(n) \in 0..n
        BY <2>1, GroupedIs
      <3>. QED
        BY <2>1, <3>1
    <2>4. b + i <= Grouped(Len(s)) <=> i <= Grouped(n)
      BY <2>1, <2>2, <2>3
    <2>5. ASSUME i <= Grouped(n) PROVE WholeGroup(s, b + i) <=> WholeGroup(u, i)
      <3>1. \A j \in 1..Block : FirstOf(i) + j - 1 \in 1..n
        BY <2>1, <2>5, InGroup
      <3>2. FirstOf(i) \in Int
        BY <2>1, <2>5, InGroup
      <3>3. ASSUME NEW j \in 1..Block
            PROVE  s[FirstOf(b + i) + j - 1] = u[FirstOf(i) + j - 1]
        <4>1. FirstOf(b + i) + j - 1 = b + (FirstOf(i) + j - 1)
          BY <2>2, <3>2
        <4>2. FirstOf(i) + j - 1 \in 1..(Len(s) - b)
          BY <2>1, <3>1
        <4>. QED
          BY <4>1, <4>2
      <3>. QED
        BY <1>1, <3>3, Zenon DEF WholeGroup
    <2>6. CASE i <= Grouped(n)
      <3>1. Text(s, c, b + i) = IF WholeGroup(s, b + i) THEN s[b + i].text[s[b + i].k]
                                ELSE <<0, 0, 0>>
        BY <1>2, <2>4, <2>6, TextOf
      <3>2. Text(u, c, i) = IF WholeGroup(u, i) THEN u[i].text[u[i].k] ELSE <<0, 0, 0>>
        BY <1>2, <2>6, TextOf DEF n
      <3>. QED
        BY <1>1, <2>5, <2>6, <3>1, <3>2
    <2>7. CASE ~(i <= Grouped(n))
      <3>1. Text(s, c, b + i) = IF Len(s[b + i].text) = 1 THEN s[b + i].text[1]
                                ELSE <<0, 0, 0>>
        BY <2>4, <2>7, TextOf, Zenon
      <3>2. Text(u, c, i) = IF Len(u[i].text) = 1 THEN u[i].text[1] ELSE <<0, 0, 0>>
        BY <2>7, TextOf, Zenon DEF n
      <3>. QED
        BY <1>1, <3>1, <3>2
    <2>. QED
      BY <2>6, <2>7
  <1>3. CASE ~c
    <2>1. Text(s, c, b + i) = IF Len(s[b + i].text) = 1 THEN s[b + i].text[1] ELSE <<0, 0, 0>>
      BY <1>3, TextOf, Zenon
    <2>2. Text(u, c, i) = IF Len(u[i].text) = 1 THEN u[i].text[1] ELSE <<0, 0, 0>>
      BY <1>3, TextOf, Zenon
    <2>. QED
      BY <1>1, <2>1, <2>2
  <1>. QED
    BY <1>2, <1>3

-----------------------------------------------------------------------------
(* Encryption                                                              *)

\* Encrypted or not, raw cells keep their texts; the full groups are encrypted.
LEMMA CryptIs ==
    ASSUME key \in BOOLEAN, NEW r \in Seq(Cell), \A i \in 1..Len(r) : Len(r[i].text) = 1
    PROVE  LET o == CryptAsyncLog(r) IN
           /\ o \in Seq(Cell) /\ Len(o) = Len(r)
           /\ \A i \in 1..Len(r) :
                /\ Text(o, key, i) = r[i].text[1]
                /\ Len(o[i].text) = IF key /\ i <= Grouped(Len(r)) THEN Block ELSE 1
  <1> DEFINE n == Len(r)
             G(i) == [j \in 1..Block |-> r[FirstOf(i) + j - 1].text[1]]
             full(i) == key /\ i <= Grouped(n)
             o == CryptAsyncLog(r)
  <1>1. n \in Nat /\ Block \in Nat \ {0} /\ DOMAIN r = 1..n
    BY Constants
  <1>2. o = [i \in 1..n |-> IF full(i) THEN [text |-> G(i), k |-> 1 + i - FirstOf(i)]
                            ELSE r[i]]
    BY <1>1 DEF CryptAsyncLog
  <1>3. ASSUME NEW i \in 1..n PROVE r[i].text[1] \in Part /\ r[i] \in Cell
    <2>1. r[i] \in Cell
      OBVIOUS
    <2> DEFINE t == r[i].text
    <2>2. t \in Seq(Part) /\ Len(t) = 1
      BY <2>1 DEF Cell
    <2> HIDE DEF t
    <2>3. t[1] \in Part
      BY <2>2, SMTT(30)
    <2>. QED
      BY <2>1, <2>3 DEF t
  <1>4. ASSUME NEW i \in 1..n, full(i)
        PROVE  /\ G(i) \in Seq(Part) /\ Len(G(i)) = Block
               /\ 1 + i - FirstOf(i) \in 1..Block
               /\ G(i)[1 + i - FirstOf(i)] = r[i].text[1]
               /\ \A j \in 1..Block :
                    /\ FirstOf(i) + j - 1 \in 1..n
                    /\ FirstOf(FirstOf(i) + j - 1) = FirstOf(i)
                    /\ full(FirstOf(i) + j - 1)
    <2>1. /\ FirstOf(i) \in 1..i /\ i - FirstOf(i) + 1 \in 1..Block
          /\ \A j \in 1..Block :
                /\ FirstOf(i) + j - 1 \in 1..n
                /\ FirstOf(i) + j - 1 <= Grouped(n)
                /\ FirstOf(FirstOf(i) + j - 1) = FirstOf(i)
      BY <1>1, <1>4, InGroup
    <2> DEFINE g == G(i)
    <2>2. g \in [1..Block -> Part]
      BY <1>3, <2>1
    <2> HIDE DEF g
    <2>3. g \in Seq(Part) /\ Len(g) = Block
      BY <1>1, <2>2
    <2> USE DEF g
    <2>4. 1 + i - FirstOf(i) \in 1..Block /\ FirstOf(i) + (1 + i - FirstOf(i)) - 1 = i
      BY <1>1, <2>1
    <2>5. G(i)[1 + i - FirstOf(i)] = r[i].text[1]
      BY <2>4
    <2>. QED
      BY <1>4, <2>1, <2>3, <2>4, <2>5
  <1> HIDE DEF G, o, n
  <1>5. ASSUME NEW i \in 1..n PROVE o[i] \in Cell
    <2>1. CASE full(i)
      <3>1. o[i] = [text |-> G(i), k |-> 1 + i - FirstOf(i)]
        BY <1>2, <2>1
      <3>2. 1 + i - FirstOf(i) \in Nat /\ G(i) \in Seq(Part)
        BY <1>1, <1>4, <2>1
      <3>. QED
        BY <3>1, <3>2 DEF Cell
    <2>2. CASE ~full(i)
      BY <1>2, <1>3, <2>2
    <2>. QED
      BY <2>1, <2>2
  <1>6. o \in Seq(Cell) /\ Len(o) = n
    <2>1. o \in [1..n -> Cell]
      BY <1>2, <1>5
    <2>. QED
      BY <1>1, <2>1
  <1>7. ASSUME NEW i \in 1..n
        PROVE  /\ Text(o, key, i) = r[i].text[1]
               /\ Len(o[i].text) = IF full(i) THEN Block ELSE 1
    <2>1. CASE full(i)
      <3>1. o[i] = [text |-> G(i), k |-> 1 + i - FirstOf(i)]
        BY <1>2, <2>1
      <3>2. o[i].text = G(i) /\ o[i].k = 1 + i - FirstOf(i) /\ Len(G(i)) = Block
        BY <1>4, <2>1, <3>1
      <3>3. ASSUME NEW j \in 1..Block
            PROVE  o[FirstOf(i) + j - 1] = [text |-> o[i].text, k |-> j]
        <4> DEFINE x == FirstOf(i) + j - 1
        <4>1. x \in 1..n /\ FirstOf(x) = FirstOf(i) /\ full(x)
          BY <1>4, <2>1
        <4>2. FirstOf(i) \in Int
          <5>1. i <= Grouped(n) /\ i \in 1..n
            BY <2>1
          <5>. QED
            BY <1>1, <5>1, InGroup
        <4>3. 1 + x - FirstOf(i) = j
          BY <4>2
        <4> HIDE DEF x
        <4>4. G(x) = G(i)
          BY <4>1, Zenon DEF G
        <4>5. o[x] = [text |-> G(x), k |-> 1 + x - FirstOf(x)]
          BY <1>2, <4>1
        <4>. QED
          BY <3>2, <4>1, <4>3, <4>4, <4>5, Zenon DEF x
      <3>4. WholeGroup(o, i)
        BY <3>2, <3>3, Zenon DEF WholeGroup
      <3>5. Text(o, key, i) = IF WholeGroup(o, i) THEN o[i].text[o[i].k] ELSE <<0, 0, 0>>
        BY <1>6, <2>1, TextOf
      <3>6. Text(o, key, i) = G(i)[1 + i - FirstOf(i)]
        BY <3>2, <3>4, <3>5, Zenon
      <3>7. G(i)[1 + i - FirstOf(i)] = r[i].text[1]
        BY <1>4, <2>1
      <3>. QED
        BY <2>1, <3>2, <3>6, <3>7, Zenon
    <2>2. CASE ~full(i)
      <3>1. o[i] = r[i] /\ Len(r[i].text) = 1
        BY <1>2, <2>2 DEF n
      <3>2. Text(o, key, i) = IF Len(o[i].text) = 1 THEN o[i].text[1] ELSE <<0, 0, 0>>
        BY <1>6, <2>2, TextOf, Zenon
      <3>. QED
        BY <2>2, <3>1, <3>2, Zenon
    <2>. QED
      BY <2>1, <2>2
  <1>. QED
    BY <1>6, <1>7 DEF n, o

-----------------------------------------------------------------------------
(* What is found in a block                                                *)

\* Body and Recoverable, of any cells and header.
BodyOf(c, n) == [i \in 1..(n - 1) |-> c[i + 1]]

TextsOf(s, withKey) == [i \in 1..Len(s) |-> Text(s, withKey, i)]

Found(h, c) ==
    IF h.magic = "none" \/ h.len = 0 THEN <<>>
    ELSE Decoded(BodyOf(c, Lower(h.len + 1, Cap)), h.magic = "crypt")

\* The body is a sequence of cells.
LEMMA BodyIs ==
    ASSUME NEW c \in [2..Cap -> Cell], NEW n \in 1..Cap
    PROVE  /\ BodyOf(c, n) \in Seq(Cell) /\ Len(BodyOf(c, n)) = n - 1
           /\ \A i \in 1..(n - 1) : BodyOf(c, n)[i] = c[i + 1]
  <1> DEFINE m == n - 1
  <1>1. m \in Nat /\ Cap \in Nat /\ \A i \in 1..m : i + 1 \in 2..Cap
    BY Constants
  <1>2. BodyOf(c, n) = [i \in 1..m |-> c[i + 1]]
    BY DEF BodyOf
  <1> HIDE DEF m
  <1>3. [i \in 1..m |-> c[i + 1]] \in [1..m -> Cell]
    BY <1>1
  <1>4. BodyOf(c, n) \in Seq(Cell) /\ Len(BodyOf(c, n)) = m
    BY <1>1, <1>2, <1>3
  <1>. QED
    BY <1>2, <1>4 DEF m

\* Its texts are parts of records.
LEMMA TextsAre ==
    ASSUME NEW s \in Seq(Cell), NEW c
    PROVE  /\ TextsOf(s, c) \in [1..Len(s) -> Part]
           /\ Decoded(s, c) = RecordsIn(TextsOf(s, c))
  <1>1. DOMAIN s = 1..Len(s)
    OBVIOUS
  <1>2. Decoded(s, c) = RecordsIn(TextsOf(s, c))
    BY <1>1 DEF Decoded, TextsOf
  <1>3. TextsOf(s, c) \in [1..Len(s) -> Part]
    BY TextIs DEF TextsOf
  <1>. QED
    BY <1>2, <1>3

\* There are no records in no cells.
LEMMA NoRecords ==
    ASSUME NEW T \in [1..0 -> Part] PROVE RecordsIn(T) = <<>>
  <1>1. Ends(T) \in SUBSET (1..0)
    BY EndsAre
  <1>2. Ends(T) = {}
    BY <1>1
  <1>3. RecordsIn(T) \in Seq(Nat) /\ Len(RecordsIn(T)) = Cardinality(Ends(T))
    BY RecordsAre
  <1>4. Cardinality(Ends(T)) = 0
    BY <1>2, FS_EmptySet
  <1>. QED
    BY <1>3, <1>4

\* A header that announces nothing is no exception.
LEMMA FoundIs ==
    ASSUME NEW h \in [magic : {"none", "plain", "crypt"}, len : Nat],
           NEW c \in [2..Cap -> Cell], h.magic # "none"
    PROVE  Found(h, c) = Decoded(BodyOf(c, Lower(h.len + 1, Cap)), h.magic = "crypt")
  <1>1. CASE h.len = 0
    <2>1. Lower(h.len + 1, Cap) = 1 /\ 1 \in 1..Cap
      BY <1>1, Constants DEF Lower
    <2> DEFINE s == BodyOf(c, 1)
    <2>2. s \in Seq(Cell) /\ Len(s) = 0
      BY <2>1, BodyIs
    <2> HIDE DEF s
    <2>3. Decoded(s, h.magic = "crypt") = <<>>
      BY <2>2, TextsAre, NoRecords
    <2>4. Found(h, c) = <<>>
      BY <1>1 DEF Found
    <2>. QED
      BY <2>1, <2>3, <2>4 DEF s
  <1>2. CASE h.len # 0
    BY <1>2 DEF Found
  <1>. QED
    BY <1>1, <1>2

\* Only the cells that the header announces count.
LEMMA FoundSame ==
    ASSUME NEW h, NEW c, NEW d,
           h.magic # "none" /\ h.len # 0 =>
             \A i \in 1..(Lower(h.len + 1, Cap) - 1) : c[i + 1] = d[i + 1]
    PROVE  Found(h, c) = Found(h, d)
  <1>1. CASE h.magic # "none" /\ h.len # 0
    <2>1. BodyOf(c, Lower(h.len + 1, Cap)) = BodyOf(d, Lower(h.len + 1, Cap))
      BY <1>1 DEF BodyOf
    <2>. QED
      BY <2>1 DEF Found
  <1>2. CASE ~(h.magic # "none" /\ h.len # 0)
    BY <1>2, Zenon DEF Found
  <1>. QED
    BY <1>1, <1>2

\* The text that a block of n cells will have when out is back in it from
\* behind cell b on.
TextWith(c, o, n, b, k) ==
    [i \in 1..n |-> IF i <= b THEN Text(BodyOf(c, n + 1), k, i) ELSE Text(o, k, i - b)]

\* It is a text.
LEMMA TextWithIs ==
    ASSUME NEW c \in [2..Cap -> Cell], NEW o \in Seq(Cell), NEW k \in BOOLEAN,
           NEW b \in Nat, NEW n \in Nat, n + 1 <= Cap, n - b <= Len(o)
    PROVE  TextWith(c, o, n, b, k) \in [1..n -> Part]
  <1> DEFINE s == BodyOf(c, n + 1)
  <1>1. n + 1 \in 1..Cap /\ (n + 1) - 1 = n
    BY Constants
  <1>2. s \in Seq(Cell) /\ Len(s) = n
    BY <1>1, BodyIs
  <1>3. Len(o) \in Nat
    OBVIOUS
  <1> HIDE DEF s
  <1>4. ASSUME NEW i \in 1..n
        PROVE  (IF i <= b THEN Text(s, k, i) ELSE Text(o, k, i - b)) \in Part
    <2>1. Text(s, k, i) \in Part
      BY <1>2, TextIs
    <2>2. ASSUME ~(i <= b) PROVE Text(o, k, i - b) \in Part
      <3>1. i - b \in 1..Len(o)
        BY <1>3, <2>2
      <3>. QED
        BY <3>1, TextIs
    <2>. QED
      BY <2>1, <2>2
  <1>. QED
    BY <1>4 DEF TextWith, s

\* In the block c behind cell b is out, o, up to cell m: r cells of the remainder
\* and the record id or, when id is 0, the beginning of one.
Joined(c, o, k, b, r, m, id, size) ==
    /\ k => Grouped(b) = b /\ m = b + Len(o)
    /\ m + 1 <= Cap /\ b + r <= m /\ m <= b + Len(o)
    /\ \A i \in 1..(m - b) : c[b + 1 + i] = o[i]
    /\ \A p \in 1..(m - (b + r)) : Text(o, k, r + p) = <<id, p, size>>
    /\ id # 0 => m = b + r + size

\* When out is back, the block reads as it should: the old records, and the
\* new one if all of it is there.
LEMMA JoinedIs ==
    ASSUME NEW c \in [2..Cap -> Cell], NEW o \in Seq(Cell), NEW k \in BOOLEAN,
           NEW b \in Nat, NEW r \in Nat, NEW m \in Nat,
           NEW id \in Nat, NEW size \in Nat \ {0}, Joined(c, o, k, b, r, m, id, size)
    PROVE  LET old == RecordsIn(TextWith(c, o, b + r, b, k))
           IN  Decoded(BodyOf(c, m + 1), k) = IF id # 0 THEN Append(old, id) ELSE old
  <1> USE DEF Joined
  <1> DEFINE n == b + r
             s == BodyOf(c, m + 1)
             u == BodyOf(c, n + 1)
             T == TextsOf(s, k)
             U == TextWith(c, o, n, b, k)
  <1>1. n \in Nat /\ n + 1 \in 1..Cap /\ m + 1 \in 1..Cap /\ Cap \in Nat /\ Len(o) \in Nat
        /\ (n + 1) - 1 = n /\ (m + 1) - 1 = m /\ n <= m /\ n - b = r /\ b <= n
    BY Constants
  <1>2. s \in Seq(Cell) /\ Len(s) = m /\ \A i \in 1..m : s[i] = c[i + 1]
    BY <1>1, BodyIs, ZenonT(40)
  <1>3. u \in Seq(Cell) /\ Len(u) = n /\ \A i \in 1..n : u[i] = c[i + 1]
    BY <1>1, BodyIs, ZenonT(40)
  <1> HIDE DEF s, u
  <1>4. T \in [1..m -> Part] /\ Decoded(s, k) = RecordsIn(T)
    BY <1>2, TextsAre
  <1>5. U \in [1..n -> Part]
    BY <1>1, TextWithIs
  <1>6. ASSUME NEW i \in 1..b PROVE T[i] = U[i]
    <2>1. i \in 1..n /\ i \in 1..m
      BY <1>1
    <2>2. \A j \in 1..b : s[j] = u[j]
      <3> SUFFICES ASSUME NEW j \in 1..b PROVE s[j] = u[j]
        OBVIOUS
      <3>1. j \in 1..n /\ j \in 1..m
        BY <1>1
      <3>. QED
        BY <1>2, <1>3, <3>1
    <2>3. Text(s, k, i) = Text(u, k, i)
      <3>1. Len(s) \in Nat /\ Len(u) \in Nat /\ b <= Len(s) /\ b <= Len(u)
        BY <1>1, <1>2, <1>3
      <3>2. SameBelow(s, u, k, b)
        BY <2>2, <3>1 DEF SameBelow
      <3>. QED
        BY <3>2, TextBelow
    <2>. QED
      BY <1>2, <2>1, <2>3 DEF TextsOf, TextWith, u
  <1>7. ASSUME NEW i \in 1..(m - b) PROVE T[b + i] = Text(o, k, i)
    <2>1. \A j \in 1..(Len(s) - b) : s[b + j] = o[j]
      <3> SUFFICES ASSUME NEW j \in 1..(Len(s) - b) PROVE s[b + j] = o[j]
        OBVIOUS
      <3>1. j \in 1..(m - b) /\ b + j \in 1..m /\ (b + j) + 1 = b + 1 + j
        BY <1>1, <1>2
      <3>2. s[b + j] = c[(b + j) + 1]
        BY <1>2, <3>1
      <3>. QED
        BY <3>1, <3>2
    <2>2. Text(s, k, b + i) = Text(o, k, i)
      <3>1. k => Grouped(b) = b /\ Len(s) = b + Len(o)
        BY <1>2
      <3>2. i \in 1..(Len(s) - b) /\ Len(s) \in Nat
        BY <1>2
      <3>3. SameBehind(s, o, k, b)
        BY <1>1, <2>1, <3>1, <3>2 DEF SameBehind
      <3>. QED
        BY <3>2, <3>3, TextBehind, SMTT(30)
    <2>3. b + i \in 1..m
      BY <1>1
    <2>. QED
      BY <1>2, <2>2, <2>3 DEF TextsOf
  <1>8. ASSUME NEW i \in 1..n PROVE U[i] = T[i]
    <2>1. CASE i <= b
      BY <1>6, <2>1
    <2>2. CASE ~(i <= b)
      <3>1. i - b \in 1..(m - b) /\ b + (i - b) = i
        BY <1>1, <2>2
      <3>2. T[i] = Text(o, k, i - b)
        BY <1>7, <3>1
      <3>. QED
        BY <2>2, <3>2 DEF TextWith
    <2>. QED
      BY <2>1, <2>2
  <1>9. ASSUME NEW p \in 1..(m - n) PROVE T[n + p] = <<id, p, size>>
    <2>1. r + p \in 1..(m - b) /\ b + (r + p) = n + p
      BY <1>1
    <2>2. T[n + p] = Text(o, k, r + p)
      BY <1>7, <2>1
    <2>. QED
      BY <2>2
  <1> HIDE DEF T, U
  <1>10. ASSUME NEW i \in Ends(T) PROVE i <= n \/ (id # 0 /\ i = m)
    <2> DEFINE p == i - n
    <2>1. SUFFICES ASSUME ~(i <= n) PROVE id # 0 /\ i = m
      OBVIOUS
    <2>2. i \in 1..m /\ T[i][1] # 0 /\ T[i][2] = T[i][3]
      BY <1>4 DEF Ends
    <2>6. i \in 1..m /\ ~(i <= n) /\ n \in Nat /\ m \in Nat
      BY <1>1, <2>1, <2>2
    <2>3. p \in 1..(m - n) /\ n + p = i
      BY <2>6
    <2> HIDE DEF p
    <2>4. T[i] = <<id, p, size>>
      BY <1>9, <2>3
    <2>5. id # 0 /\ p = size
      BY <2>2, <2>4
    <2>. QED
      BY <1>1, <2>3, <2>5
  <1>11. ASSUME id # 0 PROVE m \in Ends(T) /\ T[m][1] = id /\ n \in 0..(m - 1)
    <2>1. m = n + size /\ size \in 1..(m - n) /\ n \in 0..(m - 1)
      BY <1>1, <1>11
    <2>2. T[m] = <<id, size, size>>
      BY <1>9, <2>1
    <2>3. ASSUME NEW p \in 1..size PROVE T[m - size + p] = <<id, p, size>>
      <3>1. p \in 1..(m - n) /\ m - size + p = n + p
        BY <1>1, <2>1
      <3>. QED
        BY <1>9, <3>1
    <2>4. m \in 1..m /\ size <= m /\ DOMAIN T = 1..m
      BY <1>1, <1>4, <2>1
    <2> DEFINE t == T[m]
    <2>5. t[1] = id /\ t[2] = size /\ t[3] = size
      BY <2>2
    <2> HIDE DEF t
    <2>6. /\ t[1] # 0 /\ t[2] = t[3] /\ t[3] <= m
          /\ \A p \in 1..t[3] : T[m - t[3] + p] = <<t[1], p, t[3]>>
      BY <1>11, <2>3, <2>4, <2>5
    <2>7. m \in Ends(T)
      BY <2>4, <2>6 DEF Ends, t
    <2>. QED
      BY <2>1, <2>5, <2>7 DEF t
  <1>12. CASE id = 0
    <2>1. \A i \in Ends(T) : i <= n
      BY <1>10, <1>12
    <2>2. n \in 0..m
      BY <1>1
    <2>3. RecordsIn(U) = RecordsIn(T)
      BY <1>4, <1>5, <1>8, <2>1, <2>2, RecordsSame, ZenonT(40)
    <2>. QED
      BY <1>4, <1>12, <2>3 DEF U, s
  <1>13. CASE id # 0
    <2>1. m \in Ends(T) /\ T[m][1] = id /\ n \in 0..(m - 1)
      BY <1>11, <1>13
    <2>2. \A i \in Ends(T) : i <= n \/ i = m
      BY <1>10
    <2>3. RecordsIn(T) = Append(RecordsIn(U), T[m][1])
      BY <1>4, <1>5, <1>8, <2>1, <2>2, RecordsOneMore
    <2>. QED
      BY <1>4, <1>13, <2>1, <2>3 DEF U, s
  <1>. QED
    BY <1>12, <1>13

\* Full groups are full groups.
LEMMA GroupedTwice ==
    ASSUME NEW n \in Nat PROVE Grouped(Grouped(n)) = Grouped(n)
  <1>1. PICK q \in Nat : Grouped(n) = q * Block
    BY GroupedIs
  <1>2. Grouped(n) \in Nat
    BY GroupedIs
  <1>3. Block \in Nat \ {0} /\ Block > 1
    BY ConstantsAssumption
  <1> DEFINE g == Grouped(n)
  <1>4. g \in Nat /\ g = (q * Block) + 0 /\ 0 \in 0..(Block - 1) /\ q \in Int
    BY <1>1, <1>2, <1>3
  <1> HIDE DEF g
  <1>5. g % Block = 0
    BY <1>3, <1>4, ModUnique
  <1>6. Grouped(g) = g
    BY <1>4, <1>5 DEF Grouped
  <1>. QED
    BY <1>6 DEF g

\* Of out, o, which goes back in the block c of n cells behind cell b, a cells are
\* there; the others are as they were written.
Torn(c, o, k, b, n, a) ==
    /\ b <= n /\ n + 1 <= Cap /\ n - b <= Len(o)
    /\ k => Grouped(n) = b
    /\ ~k => n = b
    /\ \A i \in 1..Len(o) :
          Len(o[i].text) = IF k /\ i <= Grouped(Len(o)) THEN Block ELSE 1
    /\ \A i \in 1..(n - b) :
          IF i <= a THEN c[b + 1 + i] = o[i] ELSE c[b + 1 + i].text = <<Text(o, k, i)>>

\* U is the text T of n parts, with parts behind b unreadable.
Unreadable(T, U, n, b) ==
    /\ T \in [1..n -> Part] /\ U \in [1..n -> Part]
    /\ \A i \in 1..n : U[i] = T[i] \/ U[i] = <<0, 0, 0>>
    /\ \A i \in 1..b : U[i] = T[i]

\* While out goes back, the block reads up to the last full group as it will,
\* and behind it cells may be unreadable.
LEMMA TornIs ==
    ASSUME NEW c \in [2..Cap -> Cell], NEW o \in Seq(Cell), NEW k \in BOOLEAN,
           NEW b \in Nat, NEW n \in Nat, NEW a \in Nat, Torn(c, o, k, b, n, a)
    PROVE  Unreadable(TextWith(c, o, n, b, k), TextsOf(BodyOf(c, n + 1), k), n, b)
  <1> USE DEF Torn
  <1> DEFINE s == BodyOf(c, n + 1)
             T == TextWith(c, o, n, b, k)
             U == TextsOf(s, k)
  <1>1. n + 1 \in 1..Cap /\ (n + 1) - 1 = n /\ Len(o) \in Nat /\ Cap \in Nat
        /\ Block \in Nat /\ Block > 1
    BY Constants, ConstantsAssumption
  <1>2. s \in Seq(Cell) /\ Len(s) = n /\ \A i \in 1..n : s[i] = c[i + 1]
    BY <1>1, BodyIs
  <1>3. T \in [1..n -> Part] /\ U \in [1..n -> Part]
    BY <1>1, <1>2, TextWithIs, TextsAre
  <1>4. ASSUME NEW i \in 1..n, i <= b PROVE U[i] = T[i]
    BY <1>2, <1>4 DEF TextsOf, TextWith
  <1>5. ASSUME NEW i \in 1..n, ~(i <= b) PROVE U[i] = T[i] \/ U[i] = <<0, 0, 0>>
    <2> DEFINE j == i - b
               t == s[i].text
               v == o[j].text
    <2>1. j \in 1..(n - b) /\ j \in 1..Len(o) /\ b + 1 + j = i + 1
      BY <1>1, <1>5
    <2>2. s[i] = c[b + 1 + j]
      BY <1>2, <2>1
    <2>3. ~(k /\ i <= Grouped(Len(s)))
      BY <1>2, <1>5
    <2>4. Text(s, k, i) = IF Len(t) = 1 THEN t[1] ELSE <<0, 0, 0>>
      BY <2>3, TextOf, Zenon
    <2>5. U[i] = Text(s, k, i) /\ T[i] = Text(o, k, j)
      BY <1>2, <1>5 DEF TextsOf, TextWith
    <2>6. CASE j <= a
      <3>1. t = v
        BY <2>1, <2>2, <2>6
      <3>2. CASE k /\ j <= Grouped(Len(o))
        <4>1. Len(v) = Block
          BY <2>1, <3>2
        <4>2. Block # 1
          BY <1>1
        <4>3. Len(t) # 1
          BY <3>1, <4>1, <4>2, Zenon
        <4>. QED
          BY <2>4, <2>5, <4>3
      <3>3. CASE ~(k /\ j <= Grouped(Len(o)))
        <4>1. Len(v) = 1
          BY <2>1, <3>3
        <4>2. Text(o, k, j) = IF Len(v) = 1 THEN v[1] ELSE <<0, 0, 0>>
          BY <3>3, TextOf, Zenon
        <4>. QED
          BY <2>4, <2>5, <3>1, <4>1, <4>2, Zenon
      <3>. QED
        BY <3>2, <3>3
    <2>7. CASE ~(j <= a)
      <3>1. t = <<Text(o, k, j)>>
        BY <2>1, <2>2, <2>7
      <3> HIDE DEF t
      <3>2. Len(t) = 1 /\ t[1] = Text(o, k, j)
        BY <3>1
      <3>. QED
        BY <2>4, <2>5, <3>2
    <2>. QED
      BY <2>6, <2>7
  <1> HIDE DEF s, T, U
  <1>6. \A i \in 1..n : U[i] = T[i] \/ U[i] = <<0, 0, 0>>
    BY <1>4, <1>5
  <1>7. \A i \in 1..b : U[i] = T[i]
    <2> SUFFICES ASSUME NEW i \in 1..b PROVE U[i] = T[i]
      OBVIOUS
    <2>1. i \in 1..n /\ i <= b
      BY <1>1
    <2>. QED
      BY <1>4, <2>1
  <1>8. Unreadable(T, U, n, b)
    BY <1>3, <1>6, <1>7 DEF Unreadable
  <1>. QED
    BY <1>8 DEF s, T, U

-----------------------------------------------------------------------------
(* The invariant                                                           *)

CellTypes ==
    /\ cells \in [2..Cap -> Cell]
    /\ rec.id \in Nat
    /\ used \in [logs : Nat, cuts : Nat, crashes : Nat]

\* The header announces what the buffer holds, as far as the block reaches.
Announced ==
    /\ pc \in {"recover", "idle", "copy", "crypt"} /\ length > 0 =>
          header.magic # "none" /\ length = Lower(header.len + 1, Cap)
    /\ pc \in {"recover", "idle", "reset"} /\ length = 0 => header.magic = "none"
    /\ pc = "clearData" => header.magic = "none"

\* The record has an id if there is room for it.
Fits ==
    /\ pc \in {"reset", "copy", "crypt"} => rec.size # 0
    /\ pc = "reset" => length = 0 /\ (rec.id # 0 <=> rec.size <= Cap - 1)
    /\ pc \in {"copy", "crypt"} => (rec.id # 0 <=> rec.size <= Cap - length)

\* The remainder is not encrypted.
RawRemainder ==
    pc \in {"idle", "copy"} /\ length > 0 =>
        \A i \in (length - remain + 1)..length : Len(cells[i].text) = 1

\* Where out goes: the cells of the body before it stay.
Start == length - 1 - remain

\* What is in out, and how much of it is in the block: the remainder that was
\* written before, and the parts of the record.
CopyingBack ==
    pc = "crypt" =>
        /\ out \in Seq(Cell) /\ at \in 0..Len(out)
        /\ \A i \in 1..Len(out) :
              Len(out[i].text) = IF key /\ i <= Grouped(Len(out)) THEN Block ELSE 1
        /\ \A i \in 1..Len(out) : Start + 1 + i <= Cap =>
              IF i <= at THEN cells[Start + 1 + i] = out[i]
              ELSE cells[Start + 1 + i].text = <<Text(out, key, i)>>
        /\ \A p \in 1..AddedLen : Text(out, key, remain + p) = <<rec.id, p, rec.size>>
        /\ rec.id # 0 => AddedLen = rec.size
        /\ RecordsIn(TextWith(cells, out, length - 1, Start, key)) = held

\* What would be recovered is what was written, but while groups are encrypted.
Recovered == ~(pc = "crypt" /\ header.magic = "crypt") => Recoverable = held

BlockOK ==
    /\ CellTypes /\ Announced /\ Fits /\ RawRemainder
    /\ CopyingBack /\ Recovered /\ ChunkDecodes

DecodeInv == IInv /\ BlockOK

\* Recoverable depends on header and cells only.
LEMMA RecoverableIs == Recoverable = Found(header, cells)
  BY Zenon DEF Recoverable, Found, Body, BodyOf

\* And in the next state.
LEMMA RecoverableIsNext == Recoverable' = Found(header', cells')
  BY Zenon DEF Recoverable, Found, Body, BodyOf, Lower, Decoded, RecordsIn, Ends, Nth, Text,
               Grouped, FirstOf

\* The sizes of records.
LEMMA SizesAre ==
    \A n \in IF length < WarnAt THEN Sizes ELSE {1} : n \in Nat \ {0}
  BY ConstantsAssumption

\* What Agrees says of a write, as far as groups are concerned.
LEMMA WriteFacts ==
    ASSUME IInv, pc \in {"idle", "copy", "crypt"}, length > 0
    PROVE  /\ length \in 1..Cap /\ remain \in Nat /\ key \in BOOLEAN /\ Start \in Nat
           /\ Start + remain = length - 1 /\ length - 1 \in Nat
           /\ key => Grouped(length - 1) = Start /\ Grouped(Start) = Start
           /\ ~key => remain = 0
           /\ remain <= Block - 1
           /\ (header.magic = "crypt") = key
           /\ header \in [magic : {"none", "plain", "crypt"}, len : Nat]
  <1>1. /\ length \in 1..Cap /\ remain \in Nat /\ key \in BOOLEAN /\ Agrees
        /\ header \in [magic : {"none", "plain", "crypt"}, len : Nat]
    BY Constants DEF IInv, Types, InWrite
  <1>2. remain <= length - 1 /\ remain = (IF key THEN (length - 1) % Block ELSE 0)
        /\ (header.magic = "crypt") = key
    BY <1>1 DEF Agrees
  <1>3. Start \in Nat /\ Start + remain = length - 1 /\ length - 1 \in Nat
    BY <1>1, <1>2, Constants DEF Start
  <1>4. ASSUME key PROVE Grouped(length - 1) = Start /\ Grouped(Start) = Start
    <2>1. Grouped(length - 1) = Start
      BY <1>2, <1>4 DEF Grouped, Start
    <2>. QED
      BY <1>3, <2>1, GroupedTwice
  <1>5. remain <= Block - 1
    <2>1. Block \in Nat \ {0}
      BY Constants
    <2>2. (length - 1) % Block \in 0..(Block - 1)
      BY <1>3, <2>1, ModIs
    <2>. QED
      BY <1>2, <2>1, <2>2
  <1>. QED
    BY <1>1, <1>2, <1>3, <1>4, <1>5

-----------------------------------------------------------------------------
(* The steps that neither write nor take                                   *)

\* A cell of zeros.
LEMMA ZeroIs == Zero \in Cell
  <1>1. <<>> \in Seq(Part) /\ 0 \in Nat
    OBVIOUS
  <1>. QED
    BY <1>1 DEF Zero, Cell

\* Nothing is written, nothing is found.
LEMMA InitBlockOK == Init => BlockOK
  <1> SUFFICES ASSUME Init PROVE BlockOK
    OBVIOUS
  <1>1. pc = "off" /\ header = NoHeader /\ held = <<>> /\ rec = NoRecord
        /\ cells = [i \in 2..Cap |-> Zero] /\ used = [logs |-> 0, cuts |-> 0, crashes |-> 0]
    BY DEF Init
  <1>2. CellTypes
    BY <1>1, ZeroIs DEF CellTypes, NoRecord
  <1>3. Recoverable = <<>>
    BY <1>1, Zenon DEF Recoverable, NoHeader
  <1>. QED
    BY <1>1, <1>2, <1>3 DEF BlockOK, Announced, Fits, RawRemainder, CopyingBack, Recovered,
       ChunkDecodes

\* The next process takes the length from the header.
LEMMA OpenBlockOK == DecodeInv /\ Open => BlockOK'
  <1> SUFFICES ASSUME DecodeInv, Open PROVE BlockOK'
    OBVIOUS
  <1>1. /\ pc = "off" /\ pc' = "recover" /\ header' = header /\ cells' = cells
        /\ rec' = rec /\ held' = held /\ used' = used
        /\ IF header.magic # "none" THEN length' = Lower(header.len + 1, Cap) ELSE length' = 0
    BY DEF Open, memory, writing, SetLength
  <1>2. header \in [magic : {"none", "plain", "crypt"}, len : Nat] /\ Cap \in Nat
    BY Constants DEF DecodeInv, IInv, Types
  <1>3. header.magic # "none" => length' # 0
    BY <1>1, <1>2, Constants DEF Lower
  <1>4. Announced'
    BY <1>1, <1>3 DEF Announced, Lower
  <1>5. Recovered'
    BY <1>1, RecoverableIs, RecoverableIsNext DEF DecodeInv, BlockOK, Recovered
  <1>6. CellTypes'
    BY <1>1 DEF DecodeInv, BlockOK, CellTypes
  <1>. QED
    BY <1>1, <1>4, <1>5, <1>6 DEF BlockOK, Fits, RawRemainder, CopyingBack, ChunkDecodes

\* A record that fits gets an id.
LEMMA WriteBlockOK ==
    ASSUME DecodeInv, NEW n \in Nat \ {0}, Write(n) PROVE BlockOK'
  <1>1. /\ header' = header /\ cells' = cells /\ key' = key /\ length' = length
        /\ remain' = remain /\ held' = held /\ pc = "idle"
        /\ pc' = IF length = 0 THEN "reset" ELSE "copy"
        /\ rec' = [id |-> IF n <= Room THEN used.logs + 1 ELSE 0, size |-> n]
    BY DEF Write, memory, object
  <1>2. used \in [logs : Nat, cuts : Nat, crashes : Nat]
    BY DEF DecodeInv, BlockOK, CellTypes
  <1>3. used' \in [logs : Nat, cuts : Nat, crashes : Nat]
    BY <1>2 DEF Write
  <1>4. length \in 0..Cap /\ Cap \in Nat
    BY Constants DEF DecodeInv, IInv, Types
  <1>5. rec'.size = n /\ (rec'.id # 0 <=> n <= Room) /\ rec'.id \in Nat
    BY <1>1, <1>2
  <1>6. Room = Cap - (IF length = 0 THEN 1 ELSE length)
    BY DEF Room
  <1>7. CellTypes'
    BY <1>1, <1>3, <1>5 DEF DecodeInv, BlockOK, CellTypes
  <1>8. Fits'
    BY <1>1, <1>4, <1>5, <1>6 DEF Fits
  <1>9. Announced'
    BY <1>1, <1>4 DEF DecodeInv, BlockOK, Announced, Lower
  <1>10. RawRemainder'
    BY <1>1 DEF DecodeInv, BlockOK, RawRemainder
  <1>11. Recovered'
    BY <1>1, RecoverableIs, RecoverableIsNext DEF DecodeInv, BlockOK, Recovered
  <1>. QED
    BY <1>1, <1>7, <1>8, <1>9, <1>10, <1>11 DEF BlockOK, CopyingBack, ChunkDecodes

\* A new header announces nothing.
LEMMA ResetBlockOK == DecodeInv /\ Reset => BlockOK'
  <1> SUFFICES ASSUME DecodeInv, Reset PROVE BlockOK'
    OBVIOUS
  <1>1. /\ header' = [magic |-> IF key THEN "crypt" ELSE "plain", len |-> 0]
        /\ length' = 1 /\ remain' = 0 /\ pc' = "copy" /\ pc = "reset"
        /\ key' = key /\ rec' = rec /\ cells' = cells /\ held' = held /\ used' = used
    BY DEF Reset, writing, history
  <1>2. rec.size # 0 /\ (rec.id # 0 <=> rec.size <= Cap - 1) /\ length = 0
    BY <1>1 DEF DecodeInv, BlockOK, Fits
  <1>3. Recoverable = <<>> /\ Recoverable = held
    <2>1. header.magic = "none"
      BY <1>1, <1>2 DEF DecodeInv, BlockOK, Announced
    <2>2. Recoverable = <<>>
      BY <2>1, Zenon DEF Recoverable
    <2>3. Recoverable = held
      BY <1>1 DEF DecodeInv, BlockOK, Recovered
    <2>. QED
      BY <2>2, <2>3
  <1>4. Recoverable' = <<>>
    <2>1. header'.len = 0
      BY <1>1
    <2>2. Found(header', cells') = <<>>
      BY <2>1, Zenon DEF Found
    <2>. QED
      BY <2>2, RecoverableIsNext
  <1>5. header'.magic # "none" /\ header'.len = 0 /\ Lower(1, Cap) = 1 /\ Cap \in Nat
    BY <1>1, Constants DEF Lower
  <1>6. CellTypes'
    BY <1>1 DEF DecodeInv, BlockOK, CellTypes
  <1>7. Announced'
    BY <1>1, <1>5 DEF Announced, Lower
  <1>8. Fits'
    BY <1>1, <1>2 DEF Fits
  <1>9. RawRemainder'
    BY <1>1 DEF RawRemainder
  <1>10. Recovered'
    BY <1>1, <1>3, <1>4 DEF Recovered
  <1>. QED
    BY <1>1, <1>6, <1>7, <1>8, <1>9, <1>10 DEF BlockOK, CopyingBack, ChunkDecodes

\* An empty block is cleared.
LEMMA FlushEmptyBlockOK == DecodeInv /\ FlushEmpty => BlockOK'
  <1> SUFFICES ASSUME DecodeInv, FlushEmpty PROVE BlockOK'
    OBVIOUS
  <1>1. /\ pc \in {"idle", "recover"} /\ pc' = "idle" /\ length' = 0
        /\ length = 0 \/ header.magic = "none" \/ header.len = 0
        /\ header' = IF length = 0 THEN header ELSE ClearedHeader
        /\ cells' = [i \in DOMAIN cells |-> IF i <= length THEN Zero ELSE cells[i]]
        /\ rec' = rec /\ held' = held /\ used' = used
    BY DEF FlushEmpty, writing, history
  <1>2. cells \in [2..Cap -> Cell]
    BY DEF DecodeInv, BlockOK, CellTypes
  <1>3. cells' \in [2..Cap -> Cell]
    BY <1>1, <1>2, ZeroIs
  <1>4. length = 0 => header.magic = "none"
    BY <1>1 DEF DecodeInv, BlockOK, Announced
  <1>5. header'.magic = "none"
    BY <1>1, <1>4 DEF ClearedHeader, NoHeader
  <1>6. Recoverable = <<>>
    BY <1>1, <1>4, Zenon DEF Recoverable
  <1>7. Recoverable = held
    BY <1>1 DEF DecodeInv, BlockOK, Recovered
  <1>8. Recoverable' = <<>>
    BY <1>5, RecoverableIsNext DEF Found
  <1>9. CellTypes'
    BY <1>1, <1>3 DEF DecodeInv, BlockOK, CellTypes
  <1>. QED
    BY <1>1, <1>5, <1>6, <1>7, <1>8, <1>9 DEF BlockOK, Announced, Fits, RawRemainder,
       CopyingBack, Recovered, ChunkDecodes

\* The header goes first, and with it what would be recovered.
LEMMA ClearHeaderBlockOK == DecodeInv /\ ClearHeader => BlockOK'
  <1> SUFFICES ASSUME DecodeInv, ClearHeader PROVE BlockOK'
    OBVIOUS
  <1>1. /\ pc' = "clearData" /\ header' = ClearedHeader /\ cells' = cells
        /\ rec' = rec /\ held' = <<>> /\ used' = used
    BY DEF ClearHeader, writing
  <1>2. header'.magic = "none"
    BY <1>1 DEF ClearedHeader, NoHeader
  <1>3. Recoverable' = <<>>
    BY <1>2, RecoverableIsNext DEF Found
  <1>4. CellTypes'
    BY <1>1 DEF DecodeInv, BlockOK, CellTypes
  <1>. QED
    BY <1>1, <1>2, <1>3, <1>4 DEF BlockOK, Announced, Fits, RawRemainder,
       CopyingBack, Recovered, ChunkDecodes

\* Then the data.
LEMMA ClearDataBlockOK == DecodeInv /\ ClearData => BlockOK'
  <1> SUFFICES ASSUME DecodeInv, ClearData PROVE BlockOK'
    OBVIOUS
  <1>1. /\ pc = "clearData" /\ pc' = "idle" /\ header' = header /\ length' = 0
        /\ cells' = [i \in DOMAIN cells |-> IF i <= length THEN Zero ELSE cells[i]]
        /\ rec' = rec /\ held' = held /\ used' = used
    BY DEF ClearData, writing, history
  <1>2. cells \in [2..Cap -> Cell]
    BY DEF DecodeInv, BlockOK, CellTypes
  <1>3. cells' \in [2..Cap -> Cell]
    BY <1>1, <1>2, ZeroIs
  <1>4. header.magic = "none" /\ Recoverable = held
    BY <1>1 DEF DecodeInv, BlockOK, Announced, Recovered
  <1>5. Recoverable = <<>> /\ Recoverable' = <<>>
    BY <1>1, <1>4, RecoverableIs, RecoverableIsNext DEF Found
  <1>6. CellTypes'
    BY <1>1, <1>3 DEF DecodeInv, BlockOK, CellTypes
  <1>. QED
    BY <1>1, <1>4, <1>5, <1>6 DEF BlockOK, Announced, Fits, RawRemainder,
       CopyingBack, Recovered, ChunkDecodes

\* What is in the block stays when the process dies.
LEMMA CrashBlockOK == DecodeInv /\ Crash => BlockOK'
  <1> SUFFICES ASSUME DecodeInv, Crash PROVE BlockOK'
    OBVIOUS
  <1>1. /\ pc' = "off" /\ header' = header /\ cells' = cells
        /\ rec' = NoRecord /\ held' = Recoverable
        /\ used' = [used EXCEPT !.crashes = @ + 1]
    BY DEF Crash, memory
  <1>2. used \in [logs : Nat, cuts : Nat, crashes : Nat] /\ cells \in [2..Cap -> Cell]
    BY DEF DecodeInv, BlockOK, CellTypes
  <1>3. used' \in [logs : Nat, cuts : Nat, crashes : Nat]
    BY <1>1, <1>2
  <1>4. CellTypes'
    BY <1>1, <1>2, <1>3 DEF CellTypes, NoRecord
  <1>5. Recoverable' = held'
    BY <1>1, RecoverableIs, RecoverableIsNext
  <1>. QED
    BY <1>1, <1>4, <1>5 DEF BlockOK, Announced, Fits, RawRemainder,
       CopyingBack, Recovered, ChunkDecodes

\* Nothing is left behind by a process that closes.
LEMMA CloseBlockOK == DecodeInv /\ Close => BlockOK'
  <1> SUFFICES ASSUME DecodeInv, Close PROVE BlockOK'
    OBVIOUS
  <1>1. /\ pc' = "off" /\ header' = NoHeader /\ cells' = [i \in DOMAIN cells |-> Zero]
        /\ rec' = rec /\ held' = <<>> /\ used' = used
    BY DEF Close, writing
  <1>2. cells' \in [2..Cap -> Cell]
    BY <1>1, ZeroIs DEF DecodeInv, BlockOK, CellTypes
  <1>3. Recoverable' = <<>>
    BY <1>1, RecoverableIsNext DEF Found, NoHeader
  <1>4. CellTypes'
    BY <1>1, <1>2 DEF DecodeInv, BlockOK, CellTypes
  <1>. QED
    BY <1>1, <1>3, <1>4 DEF BlockOK, Announced, Fits, RawRemainder,
       CopyingBack, Recovered, ChunkDecodes

-----------------------------------------------------------------------------
(* Taking                                                                  *)

\* A plain block without its last cell lacks at most its last record.
LEMMA DropLast ==
    ASSUME NEW c \in [2..Cap -> Cell], NEW n \in 2..Cap, NEW k, ~k
    PROVE  LET all  == Decoded(BodyOf(c, n), k)
               most == Decoded(BodyOf(c, n - 1), k)
           IN  most = all \/ most = SubSeq(all, 1, Len(all) - 1)
  <1> DEFINE s == BodyOf(c, n)
             u == BodyOf(c, n - 1)
             T == TextsOf(s, k)
             U == TextsOf(u, k)
             m == n - 1
             l == n - 2
  <1>1. n \in 1..Cap /\ n - 1 \in 1..Cap /\ m \in Nat \ {0} /\ l \in Nat /\ l \in 0..m
        /\ l \in 0..(m - 1) /\ (n - 1) - 1 = l
    BY Constants
  <1>2. s \in Seq(Cell) /\ Len(s) = m /\ \A i \in 1..m : s[i] = c[i + 1]
    BY <1>1, BodyIs
  <1>3. u \in Seq(Cell) /\ Len(u) = l /\ \A i \in 1..l : u[i] = c[i + 1]
    BY <1>1, BodyIs
  <1> HIDE DEF s, u, m, l
  <1>4. T \in [1..m -> Part] /\ Decoded(s, k) = RecordsIn(T)
    BY <1>2, TextsAre
  <1>5. U \in [1..l -> Part] /\ Decoded(u, k) = RecordsIn(U)
    BY <1>3, TextsAre
  <1>6. ASSUME NEW i \in 1..l PROVE U[i] = T[i]
    <2>1. i \in 1..m
      BY <1>1
    <2>2. \A j \in 1..l : s[j] = u[j]
      <3> SUFFICES ASSUME NEW j \in 1..l PROVE s[j] = u[j]
        OBVIOUS
      <3>1. j \in 1..m
        BY <1>1
      <3>. QED
        BY <1>2, <1>3, <3>1
    <2>3. s[i] = u[i]
      BY <2>2
    <2>4. Text(s, k, i) = Text(u, k, i)
      <3>1. Text(s, k, i) = IF Len(s[i].text) = 1 THEN s[i].text[1] ELSE <<0, 0, 0>>
        BY TextOf, Zenon
      <3>2. Text(u, k, i) = IF Len(u[i].text) = 1 THEN u[i].text[1] ELSE <<0, 0, 0>>
        BY TextOf, Zenon
      <3>. QED
        BY <2>3, <3>1, <3>2
    <2>. QED
      BY <1>2, <1>3, <2>1, <2>4 DEF TextsOf
  <1> HIDE DEF T, U
  <1>7. RecordsIn(U) \in Seq(Nat)
    BY <1>1, <1>5, RecordsAre
  <1>8. ASSUME NEW i \in Ends(T) PROVE i <= l \/ i = m
    <2>1. i \in 1..m
      BY <1>1, <1>4, EndsAre
    <2>. QED
      BY <1>1, <2>1 DEF m, l
  <1>9. CASE m \in Ends(T)
    <2>1. RecordsIn(T) = Append(RecordsIn(U), T[m][1])
      BY <1>1, <1>4, <1>5, <1>6, <1>8, <1>9, RecordsOneMore
    <2>2. T[m][1] \in Nat
      <3>1. T[m] \in Part
        BY <1>1, <1>4
      <3>. QED
        BY <3>1 DEF Part
    <2> DEFINE Q == RecordsIn(U)
               x == T[m][1]
    <2>3. Q \in Seq(Nat) /\ x \in Nat
      BY <1>7, <2>2
    <2> HIDE DEF Q, x
    <2>4. SubSeq(Append(Q, x), 1, Len(Append(Q, x)) - 1) = Q
      BY <2>3
    <2>. QED
      BY <1>4, <1>5, <2>1, <2>4 DEF Q, x, s, u
  <1>10. CASE m \notin Ends(T)
    <2>1. \A i \in Ends(T) : i <= l
      BY <1>8, <1>10
    <2>2. RecordsIn(U) = RecordsIn(T)
      BY <1>1, <1>4, <1>5, <1>6, <2>1, RecordsSame
    <2>. QED
      BY <1>4, <1>5, <2>2 DEF s, u
  <1>. QED
    BY <1>9, <1>10

\* The first n elements.
LEMMA SubSeqIs ==
    ASSUME NEW s, NEW n \in Nat
    PROVE  SubSeq(s, 1, n) = [i \in 1..n |-> s[i]]
  OBVIOUS

\* A reader finds the end mark behind the data, if the block reaches that far.
LEMMA ReadBackIs ==
    ASSUME cells \in [2..Cap -> Cell],
           header \in [magic : {"none", "plain", "crypt"}, len : Nat],
           length \in 1..Cap, length = Lower(header.len + 1, Cap),
           cells' = [i \in DOMAIN cells |-> IF i = length + 1 THEN Zero ELSE cells[i]],
           length' = Lower(length + 1, Cap)
    PROVE  ReadBack(header, [i \in 1..(length' - 1) |-> cells'[i + 1]])
              = IF header.len + 1 < Cap
                THEN Decoded(BodyOf(cells, length), header.magic = "crypt") ELSE <<>>
  <1> DEFINE s == [i \in 1..(length' - 1) |-> cells'[i + 1]]
  <1>1. Cap \in Nat /\ Cap > 1 /\ header.len \in Nat
    BY Constants
  <1>2. DOMAIN s = 1..(length' - 1)
    OBVIOUS
  <1>3. CASE header.len + 1 < Cap
    <2>1. /\ length = header.len + 1 /\ length' = length + 1 /\ length + 1 \in 2..Cap
          /\ length' - 1 = length /\ length - 1 = header.len
      BY <1>1, <1>3 DEF Lower
    <2>2. s[header.len + 1] = Zero
      <3>1. length \in 1..(length' - 1)
        BY <2>1
      <3>2. s[length] = cells'[length + 1]
        BY <3>1
      <3>3. cells'[length + 1] = Zero
        BY <2>1
      <3>. QED
        BY <2>1, <3>2, <3>3
    <2>3. \A i \in 1..(length - 1) : s[i] = cells[i + 1]
      <3> SUFFICES ASSUME NEW i \in 1..(length - 1) PROVE s[i] = cells[i + 1]
        OBVIOUS
      <3>1. i \in 1..(length' - 1) /\ i + 1 \in 2..Cap /\ i + 1 # length + 1
        BY <1>1, <2>1
      <3>2. s[i] = cells'[i + 1]
        BY <3>1
      <3>3. cells'[i + 1] = cells[i + 1]
        BY <3>1
      <3>. QED
        BY <3>2, <3>3
    <2> HIDE DEF s
    <2>4. SubSeq(s, 1, header.len) = [i \in 1..header.len |-> s[i]]
      BY <1>1, SubSeqIs
    <2>5. SubSeq(s, 1, header.len) = BodyOf(cells, length)
      BY <2>1, <2>3, <2>4 DEF BodyOf
    <2>6. header.len + 1 \in DOMAIN s
      BY <1>1, <1>2, <2>1
    <2>. QED
      BY <1>3, <2>2, <2>5, <2>6 DEF ReadBack, s
  <1>4. CASE ~(header.len + 1 < Cap)
    <2>1. length' - 1 = Cap - 1
      BY <1>1, <1>4 DEF Lower
    <2>2. header.len + 1 \notin DOMAIN s
      BY <1>1, <1>2, <1>4, <2>1
    <2> HIDE DEF s
    <2>. QED
      BY <1>4, <2>2 DEF ReadBack, s
  <1>. QED
    BY <1>3, <1>4

\* What is taken is what was written.
LEMMA FlushTakeBlockOK == DecodeInv /\ FlushTake => BlockOK'
  <1> SUFFICES ASSUME DecodeInv, FlushTake PROVE BlockOK'
    OBVIOUS
  <1>1. /\ pc \in {"idle", "recover"} /\ pc' = "clear" /\ length > 0
        /\ header.magic # "none" /\ header' = header
        /\ cells' = [i \in DOMAIN cells |-> IF i = length + 1 THEN Zero ELSE cells[i]]
        /\ length' = Lower(length + 1, Cap)
        /\ rec' = rec /\ held' = held /\ used' = used
    BY DEF FlushTake, SetLength, writing
  <1> DEFINE Copied == [i \in 1..(length' - 1) |-> cells'[i + 1]]
  <1>2. PICK f \in BOOLEAN : chunk' =
          [headed  |-> f,
           records |-> IF f THEN ReadBack(header, Copied)
                       ELSE Decoded(Body(length' - 1), FALSE)]
    BY DEF FlushTake
  <1>3. cells \in [2..Cap -> Cell]
    BY DEF DecodeInv, BlockOK, CellTypes
  <1>4. length \in 1..Cap /\ Cap \in Nat /\ Cap > 1
        /\ header \in [magic : {"none", "plain", "crypt"}, len : Nat]
    BY <1>1, Constants DEF DecodeInv, IInv, Types
  <1>5. length = Lower(header.len + 1, Cap)
    BY <1>1 DEF DecodeInv, BlockOK, Announced
  <1>6. Recoverable = held
    BY <1>1 DEF DecodeInv, BlockOK, Recovered
  <1>7. held = Decoded(BodyOf(cells, length), header.magic = "crypt")
    BY <1>1, <1>3, <1>4, <1>5, <1>6, FoundIs, RecoverableIs
  <1>8. cells' \in [2..Cap -> Cell]
    BY <1>1, <1>3, ZeroIs
  <1>9. Recoverable' = held'
    <2>1. \A i \in 1..(length - 1) : cells[i + 1] = cells'[i + 1]
      BY <1>1, <1>3, <1>4
    <2>2. Found(header, cells) = Found(header, cells')
      BY <1>5, <2>1, FoundSame
    <2>. QED
      BY <1>1, <1>6, <2>2, RecoverableIs, RecoverableIsNext
  <1>10. \A n : Body(n) = BodyOf(cells, n)
    BY DEF Body, BodyOf
  <1>11. ChunkDecodes'
    <2>1. CASE f
      <3>1. ReadBack(header, Copied)
               = IF header.len + 1 < Cap THEN Decoded(BodyOf(cells, length), header.magic = "crypt")
                 ELSE <<>>
        BY <1>1, <1>3, <1>4, <1>5, ReadBackIs, Zenon
      <3>2. chunk'.headed /\ chunk'.records = ReadBack(header, Copied)
        BY <1>2, <2>1
      <3>3. chunk'.records = IF header'.len + 1 < Cap THEN held' ELSE <<>>
        BY <1>1, <1>7, <3>1, <3>2
      <3>. QED
        BY <3>2, <3>3 DEF ChunkDecodes
    <2>2. CASE ~f /\ header.magic = "crypt"
      <3>1. ~chunk'.headed /\ header'.magic = "crypt"
        BY <1>1, <1>2, <2>2
      <3>. QED
        BY <3>1 DEF ChunkDecodes
    <2>3. CASE ~f /\ header.magic # "crypt"
      <3>1. chunk'.records = Decoded(BodyOf(cells, length' - 1), FALSE) /\ ~chunk'.headed
        BY <1>2, <1>10, <2>3
      <3>2. (header.magic = "crypt") = FALSE
        BY <2>3
      <3>3. held = Decoded(BodyOf(cells, length), FALSE)
        BY <1>7, <3>2
      <3>4. CASE length + 1 <= Cap
        <4>1. length' - 1 = length
          BY <1>1, <1>4, <3>4 DEF Lower
        <4>2. chunk'.records = held'
          BY <1>1, <3>1, <3>3, <4>1
        <4>. QED
          BY <3>1, <4>2 DEF ChunkDecodes
      <3>5. CASE length + 1 > Cap
        <4>1. length' - 1 = length - 1 /\ length \in 2..Cap
          BY <1>1, <1>4, <3>5 DEF Lower
        <4>2. chunk'.records = held \/ chunk'.records = SubSeq(held, 1, Len(held) - 1)
          BY <1>3, <3>1, <3>3, <4>1, DropLast
        <4>3. ~(header'.len + 1 < Cap)
          BY <1>1, <1>4, <1>5, <3>5 DEF Lower
        <4>. QED
          BY <1>1, <3>1, <4>2, <4>3 DEF ChunkDecodes
      <3>. QED
        BY <1>4, <3>4, <3>5
    <2>. QED
      BY <2>1, <2>2, <2>3
  <1>12. CellTypes'
    BY <1>1, <1>8 DEF DecodeInv, BlockOK, CellTypes
  <1>. QED
    BY <1>1, <1>9, <1>11, <1>12 DEF BlockOK, Announced, Fits, RawRemainder,
       CopyingBack, Recovered

-----------------------------------------------------------------------------
(* Writing                                                                 *)

\* A part that goes back changes no text but in its own group.
LEMMA RewriteBlockOK == DecodeInv /\ Rewrite => BlockOK'
  <1> SUFFICES ASSUME DecodeInv, Rewrite PROVE BlockOK'
    OBVIOUS
  <1> DEFINE n == length - 1
             x == Start + 1 + at'
  <1>1. /\ pc = "crypt" /\ pc' = "crypt" /\ at < Len(out) /\ at' = at + 1
        /\ header' = header /\ key' = key /\ length' = length /\ remain' = remain
        /\ rec' = rec /\ out' = out /\ held' = held /\ used' = used
    BY DEF Rewrite, object, history
  <1>2. IInv /\ length > 0 /\ Cap \in Nat
    BY <1>1, Constants DEF DecodeInv, IInv
  <1>3. /\ length \in 1..Cap /\ remain \in Nat /\ key \in BOOLEAN /\ Start \in Nat
        /\ Start + remain = n /\ n \in Nat
        /\ key => Grouped(n) = Start /\ Grouped(Start) = Start
        /\ ~key => remain = 0
        /\ (header.magic = "crypt") = key
        /\ header \in [magic : {"none", "plain", "crypt"}, len : Nat]
    BY <1>1, <1>2, WriteFacts
  <1>4. /\ out \in Seq(Cell) /\ at \in 0..Len(out) /\ Len(out) \in Nat
        /\ \A i \in 1..Len(out) :
              Len(out[i].text) = IF key /\ i <= Grouped(Len(out)) THEN Block ELSE 1
        /\ \A i \in 1..Len(out) : Start + 1 + i <= Cap =>
              IF i <= at THEN cells[Start + 1 + i] = out[i]
              ELSE cells[Start + 1 + i].text = <<Text(out, key, i)>>
        /\ \A p \in 1..AddedLen : Text(out, key, remain + p) = <<rec.id, p, rec.size>>
        /\ rec.id # 0 => AddedLen = rec.size
        /\ RecordsIn(TextWith(cells, out, n, Start, key)) = held
    BY <1>1 DEF DecodeInv, BlockOK, CopyingBack
  <1>5. cells \in [2..Cap -> Cell]
    BY DEF DecodeInv, BlockOK, CellTypes
  <1>6. length - remain + at' = x /\ x \in Nat /\ at' \in 1..Len(out) /\ x > Start + 1
    BY <1>1, <1>3, <1>4 DEF Start
  <1>7. cells' = IF x <= Cap THEN [cells EXCEPT ![x] = out[at']] ELSE cells
    BY <1>6 DEF Rewrite
  <1>16. x = Start + 1 + at'
    OBVIOUS
  <1> HIDE DEF x
  <1>8. out[at'] \in Cell
    BY <1>4, <1>6
  <1>9. /\ cells' \in [2..Cap -> Cell]
        /\ \A y \in 2..Cap : y # x => cells'[y] = cells[y]
        /\ x <= Cap => cells'[x] = out[at']
    BY <1>2, <1>3, <1>5, <1>6, <1>7, <1>8
  <1>10. ASSUME NEW i \in 1..Len(out), Start + 1 + i <= Cap
         PROVE  IF i <= at' THEN cells'[Start + 1 + i] = out[i]
                ELSE cells'[Start + 1 + i].text = <<Text(out, key, i)>>
    <2>1. CASE i = at'
      BY <1>9, <1>10, <2>1 DEF x
    <2>2. CASE i # at'
      <3>4. Start \in Nat /\ Cap \in Nat /\ at' \in Nat /\ i \in Nat \ {0}
        BY <1>2, <1>3, <1>6
      <3>5. Start + 1 + i # x
        <4>1. \A S, j, a \in Nat : j # a => S + 1 + j # S + 1 + a
          OBVIOUS
        <4>. QED
          BY <1>16, <2>2, <3>4, <4>1, Zenon
      <3>6. Start + 1 + i \in 2..Cap
        BY <1>10, <3>4
      <3>1. Start + 1 + i # x /\ Start + 1 + i \in 2..Cap
        BY <3>5, <3>6
      <3>2. cells'[Start + 1 + i] = cells[Start + 1 + i]
        BY <1>9, <3>1
      <3>3. i <= at' <=> i <= at
        BY <1>1, <1>4, <2>2
      <3>. QED
        BY <1>4, <1>10, <3>2, <3>3
    <2>. QED
      BY <2>1, <2>2
  <1>11. TextWith(cells', out, n, Start, key) = TextWith(cells, out, n, Start, key)
    <2> DEFINE s == BodyOf(cells', n + 1)
               u == BodyOf(cells, n + 1)
    <2>1. n + 1 \in 1..Cap /\ (n + 1) - 1 = n
      BY <1>3
    <2>2. Len(s) = n /\ \A i \in 1..n : s[i] = cells'[i + 1]
      BY <1>9, <2>1, BodyIs
    <2>3. Len(u) = n /\ \A i \in 1..n : u[i] = cells[i + 1]
      BY <1>5, <2>1, BodyIs
    <2> HIDE DEF s, u
    <2>4. ASSUME NEW j \in 1..Start PROVE s[j] = u[j]
      <3>1. j \in 1..n /\ j + 1 \in 2..Cap /\ j + 1 # x
        BY <1>2, <1>3, <1>6
      <3>. QED
        BY <1>9, <2>2, <2>3, <3>1
    <2>5. SameBelow(s, u, key, Start)
      BY <1>3, <2>2, <2>3, <2>4 DEF SameBelow
    <2>6. \A i \in 1..n : i <= Start => Text(s, key, i) = Text(u, key, i)
      <3> SUFFICES ASSUME NEW i \in 1..n, i <= Start PROVE Text(s, key, i) = Text(u, key, i)
        OBVIOUS
      <3>1. i \in 1..Start
        BY <1>3, SMTT(30)
      <3>. QED
        BY <2>5, <3>1, TextBelow
    <2>. QED
      BY <2>6 DEF TextWith, s, u
  <1>12. CopyingBack'
    <2>1. Start' = Start /\ AddedLen' = AddedLen /\ at' \in 0..Len(out)
      BY <1>1, <1>4, <1>6 DEF Start, AddedLen
    <2>2. /\ out' \in Seq(Cell) /\ at' \in 0..Len(out')
          /\ \A i \in 1..Len(out') :
                Len(out'[i].text) = IF key' /\ i <= Grouped(Len(out')) THEN Block ELSE 1
      BY <1>1, <1>4, <2>1
    <2>3. \A i \in 1..Len(out') : Start' + 1 + i <= Cap =>
              IF i <= at' THEN cells'[Start' + 1 + i] = out'[i]
              ELSE cells'[Start' + 1 + i].text = <<Text(out', key', i)>>
      BY <1>1, <1>10, <2>1
    <2>4. /\ \A p \in 1..AddedLen' : Text(out', key', remain' + p) = <<rec'.id, p, rec'.size>>
          /\ rec'.id # 0 => AddedLen' = rec'.size
      BY <1>1, <1>4, <2>1
    <2>5. RecordsIn(TextWith(cells', out', length' - 1, Start', key')) = held'
      BY <1>1, <1>4, <1>11, <2>1
    <2>. QED
      BY <2>2, <2>3, <2>4, <2>5 DEF CopyingBack, Grouped, Text, TextWith, FirstOf, BodyOf,
         RecordsIn, Ends, Nth
  <1>13. Recovered'
    <2> SUFFICES ASSUME header.magic # "crypt" PROVE Recoverable' = held'
      BY <1>1 DEF Recovered
    <2>1. Recoverable = held
      BY DEF DecodeInv, BlockOK, Recovered
    <2>2. length = Lower(header.len + 1, Cap)
      BY <1>1, <1>2 DEF DecodeInv, BlockOK, Announced
    <2>3. Start + remain = length - 1 /\ remain = 0
      BY <1>3
    <2>4. \A i \in 1..(length - 1) : cells[i + 1] = cells'[i + 1]
      <3> SUFFICES ASSUME NEW i \in 1..(length - 1) PROVE cells[i + 1] = cells'[i + 1]
        OBVIOUS
      <3>1. i + 1 \in 2..Cap /\ i + 1 # x
        BY <1>2, <1>3, <1>6, <2>3
      <3>. QED
        BY <1>9, <3>1
    <2>5. Found(header, cells) = Found(header, cells')
      BY <2>2, <2>4, FoundSame
    <2>. QED
      BY <1>1, <2>1, <2>5, RecoverableIs, RecoverableIsNext
  <1>14. CellTypes'
    BY <1>1, <1>9 DEF DecodeInv, BlockOK, CellTypes
  <1>15. Announced' /\ Fits'
    BY <1>1 DEF DecodeInv, BlockOK, Announced, Fits, Lower
  <1>. QED
    BY <1>1, <1>12, <1>13, <1>14, <1>15 DEF BlockOK, RawRemainder, ChunkDecodes

\* The remainder, as it is in the block.
LEMMA RestIs ==
    ASSUME NEW c \in [2..Cap -> Cell], NEW l \in 1..Cap, NEW r \in 0..(l - 1)
    PROVE  LET rest == SubSeq(BodyOf(c, l), l - r, l - 1)
           IN  /\ rest \in Seq(Cell) /\ Len(rest) = r
               /\ \A i \in 1..r : rest[i] = c[(l - r) + i] /\ (l - r) + i \in 2..Cap
  <1> DEFINE s == BodyOf(c, l)
             m == l - r
             n == l - 1
             rest == SubSeq(s, m, n)
  <1>1. Cap \in Nat /\ m \in 1..(n + 1) /\ n \in Nat /\ r \in Nat /\ n - m + 1 = r
    BY Constants
  <1>2. s \in Seq(Cell) /\ Len(s) = n /\ \A i \in 1..n : s[i] = c[i + 1]
    BY BodyIs
  <1> HIDE DEF s
  <1>3. m \in Int /\ n \in Int /\ \A i \in m..n : s[i] \in Cell
    BY <1>1, <1>2
  <1>4. /\ rest \in Seq(Cell)
        /\ Len(rest) = IF m <= n THEN n - m + 1 ELSE 0
        /\ \A i \in 1..(n - m + 1) : rest[i] = s[m + i - 1]
    BY <1>3, SubSeqProperties
  <1>5. Len(rest) = r
    BY <1>1, <1>4
  <1>6. ASSUME NEW i \in 1..r PROVE rest[i] = c[m + i] /\ m + i \in 2..Cap
    <2>1. m + i - 1 \in 1..n /\ (m + i - 1) + 1 = m + i
      BY <1>1
    <2>2. rest[i] = s[m + i - 1]
      BY <1>1, <1>4
    <2>3. s[m + i - 1] = c[m + i]
      BY <1>2, <2>1
    <2>. QED
      BY <1>1, <2>1, <2>2, <2>3
  <1>. QED
    BY <1>4, <1>5, <1>6 DEF s

\* The parts of a record are raw cells.
LEMMA RawIs ==
    ASSUME NEW r, r.id \in Nat, r.size \in Nat, NEW p \in Nat
    PROVE  /\ Raw(r, p) \in Cell
           /\ Raw(r, p).text = <<<<r.id, p, r.size>>>>
           /\ Len(Raw(r, p).text) = 1 /\ Raw(r, p).text[1] = <<r.id, p, r.size>>
  <1> DEFINE t == <<r.id, p, r.size>>
  <1>1. t \in Part
    BY DEF Part
  <1>2. Raw(r, p) = [text |-> <<t>>, k |-> 1]
    BY DEF Raw
  <1> HIDE DEF t
  <1>3. <<t>> \in Seq(Part) /\ Len(<<t>>) = 1 /\ <<t>>[1] = t /\ 1 \in Nat
    BY <1>1
  <1>. QED
    BY <1>2, <1>3 DEF Cell, t

\* A raw cell's text is one part.
LEMMA OnePart ==
    ASSUME NEW x \in Cell, Len(x.text) = 1 PROVE x.text = <<x.text[1]>>
  <1> DEFINE t == x.text
  <1>1. t \in Seq(Part) /\ Len(t) = 1
    BY DEF Cell
  <1> HIDE DEF t
  <1>2. t = <<t[1]>>
    BY <1>1
  <1>. QED
    BY <1>2 DEF t

\* The record is behind the data, and what will be encrypted is in out.
LEMMA CopyBlockOK == DecodeInv /\ Copy => BlockOK'
  <1> SUFFICES ASSUME DecodeInv, Copy PROVE BlockOK'
    OBVIOUS
  <1> DEFINE room   == Cap - length
             stored == Lower(rec.size, room)
             total  == IF key THEN stored ELSE rec.size
             full   == key /\ room = 0
             new    == [p \in 1..total |-> Raw(rec, p)]
             rest   == SubSeq(Body(length), length - remain, length - 1)
             n      == length - 1
  <1>1. /\ header' = header /\ length' = length /\ remain' = remain /\ key' = key
        /\ held' = held /\ used' = used /\ pc = "copy"
    BY DEF Copy, object
  <1>2. IInv /\ length > 0 /\ Cap \in Nat /\ rec.size \in Nat
    BY <1>1, Constants DEF DecodeInv, IInv, Types
  <1>3. /\ length \in 1..Cap /\ remain \in Nat /\ key \in BOOLEAN /\ Start \in Nat
        /\ Start + remain = n /\ n \in Nat
        /\ key => Grouped(n) = Start /\ Grouped(Start) = Start
        /\ ~key => remain = 0
        /\ (header.magic = "crypt") = key
        /\ header \in [magic : {"none", "plain", "crypt"}, len : Nat]
    BY <1>1, <1>2, WriteFacts
  <1>4. cells \in [2..Cap -> Cell] /\ rec.id \in Nat
    BY DEF DecodeInv, BlockOK, CellTypes
  <1>5. /\ rec.size # 0 /\ (rec.id # 0 <=> rec.size <= room)
        /\ header.magic # "none" /\ length = Lower(header.len + 1, Cap)
        /\ \A i \in (length - remain + 1)..length : Len(cells[i].text) = 1
        /\ Recoverable = held
    BY <1>1, <1>2 DEF DecodeInv, BlockOK, Fits, Announced, RawRemainder, Recovered
  <1>6. CASE full
    <2>1. pc' = "idle" /\ rec' = NoRecord /\ cells' = cells
      BY <1>6 DEF Copy
    <2>2. CellTypes'
      BY <1>1, <1>4, <2>1 DEF DecodeInv, BlockOK, CellTypes, NoRecord
    <2>3. Announced' /\ RawRemainder'
      BY <1>1, <1>2, <1>5, <2>1 DEF Announced, RawRemainder, Lower
    <2>4. Recovered'
      BY <1>1, <1>5, <2>1, RecoverableIs, RecoverableIsNext DEF Recovered
    <2>. QED
      BY <2>1, <2>2, <2>3, <2>4 DEF BlockOK, Fits, CopyingBack, ChunkDecodes
  <1>7. CASE ~full
    <2> DEFINE r == rest \o new
    <2>1. /\ pc' = "crypt" /\ rec' = rec /\ at' = 0
          /\ out' = CryptAsyncLog(r)
          /\ cells' = [i \in DOMAIN cells |->
                IF i \in length + 1 .. length + stored THEN new[i - length] ELSE cells[i]]
      BY <1>7 DEF Copy
    <2>2. room \in Nat /\ stored \in Nat /\ stored <= room /\ stored <= total
          /\ total \in Nat /\ (rec.size <= room => stored = rec.size)
          /\ (stored = rec.size \/ stored = room) /\ total <= rec.size
          /\ (key => total = stored) /\ (~key => total = rec.size)
      BY <1>2, <1>3 DEF Lower
    <2>3. /\ new \in Seq(Cell) /\ Len(new) = total
          /\ \A p \in 1..total : new[p] = Raw(rec, p)
      <3>1. \A p \in 1..total : Raw(rec, p) \in Cell
        BY <1>2, <1>4, RawIs
      <3> HIDE DEF total
      <3>. QED
        BY <2>2, <3>1
    <2>4. /\ rest \in Seq(Cell) /\ Len(rest) = remain
          /\ \A i \in 1..remain : rest[i] = cells[(Start + 1) + i] /\ (Start + 1) + i \in 2..Cap
      <3>1. Body(length) = BodyOf(cells, length) /\ length - remain = Start + 1
        BY <1>3 DEF Body, BodyOf, Start
      <3>2. remain \in 0..(length - 1)
        BY <1>3
      <3> DEFINE q == SubSeq(BodyOf(cells, length), length - remain, length - 1)
      <3>3. /\ q \in Seq(Cell) /\ Len(q) = remain
            /\ \A i \in 1..remain : q[i] = cells[(length - remain) + i]
                                  /\ (length - remain) + i \in 2..Cap
        BY <1>3, <1>4, <3>2, RestIs
      <3>4. rest = q
        BY <3>1
      <3> HIDE DEF q, rest
      <3>. QED
        BY <3>1, <3>3, <3>4
    <2> HIDE DEF new, rest, stored, total, room
    <2>5. /\ r \in Seq(Cell) /\ Len(r) = remain + total
          /\ \A i \in 1..remain : r[i] = cells[(Start + 1) + i]
          /\ \A p \in 1..total : r[remain + p] = Raw(rec, p)
      <3>1. r \in Seq(Cell) /\ Len(r) = remain + total
        BY <2>3, <2>4, ConcatProperties
      <3>2. \A i \in 1..remain : r[i] = rest[i]
        BY <1>3, <2>2, <2>3, <2>4
      <3>3. \A p \in 1..total : r[remain + p] = new[p]
        BY <1>3, <2>2, <2>3, <2>4, SMTT(30)
      <3>. QED
        BY <2>3, <2>4, <3>1, <3>2, <3>3
    <2> HIDE DEF r
    <2>6. ASSUME NEW i \in 1..Len(r)
          PROVE  i \in 1..remain \/ (i - remain \in 1..total /\ remain + (i - remain) = i)
      BY <1>3, <2>2, <2>5
    <2>7. \A i \in 1..remain : /\ Len(cells[(Start + 1) + i].text) = 1
                               /\ cells[(Start + 1) + i] \in Cell
      <3> SUFFICES ASSUME NEW i \in 1..remain
                   PROVE  Len(cells[(Start + 1) + i].text) = 1
                          /\ cells[(Start + 1) + i] \in Cell
        OBVIOUS
      <3>1. (Start + 1) + i \in (length - remain + 1)..length
        BY <1>3 DEF Start
      <3>. QED
        BY <1>4, <1>5, <2>4, <3>1
    <2>8. \A i \in 1..Len(r) : Len(r[i].text) = 1
      <3> SUFFICES ASSUME NEW i \in 1..Len(r) PROVE Len(r[i].text) = 1
        OBVIOUS
      <3>1. CASE i \in 1..remain
        BY <2>5, <2>7, <3>1
      <3>2. CASE i - remain \in 1..total /\ remain + (i - remain) = i
        <4>1. r[i] = Raw(rec, i - remain) /\ i - remain \in Nat
          BY <2>5, <3>2
        <4>. QED
          BY <1>2, <1>4, <4>1, RawIs
      <3>. QED
        BY <2>6, <3>1, <3>2
    <2>9. /\ out' \in Seq(Cell) /\ Len(out') = remain + total
          /\ \A i \in 1..Len(out') :
                /\ Text(out', key, i) = r[i].text[1]
                /\ Len(out'[i].text) = IF key /\ i <= Grouped(Len(out')) THEN Block ELSE 1
      BY <1>3, <2>1, <2>5, <2>8, CryptIs
    <2>10. \A p \in 1..total : Text(out', key, remain + p) = <<rec.id, p, rec.size>>
      <3> SUFFICES ASSUME NEW p \in 1..total
                   PROVE  Text(out', key, remain + p) = <<rec.id, p, rec.size>>
        OBVIOUS
      <3>1. remain + p \in 1..Len(out') /\ p \in Nat
        BY <1>3, <2>2, <2>9
      <3>2. r[remain + p] = Raw(rec, p)
        BY <2>5
      <3>3. Raw(rec, p).text[1] = <<rec.id, p, rec.size>>
        BY <1>2, <1>4, <3>1, RawIs
      <3>. QED
        BY <2>9, <3>1, <3>2, <3>3
    <2>11. \A i \in 1..remain : /\ Text(out', key, i) = cells[(Start + 1) + i].text[1]
                                /\ cells[(Start + 1) + i].text = <<Text(out', key, i)>>
      <3> SUFFICES ASSUME NEW i \in 1..remain
                   PROVE  /\ Text(out', key, i) = cells[(Start + 1) + i].text[1]
                          /\ cells[(Start + 1) + i].text = <<Text(out', key, i)>>
        OBVIOUS
      <3>1. i \in 1..Len(out')
        BY <1>3, <2>2, <2>9
      <3>2. Text(out', key, i) = cells[(Start + 1) + i].text[1]
        BY <2>5, <2>9, <3>1
      <3>. QED
        BY <2>7, <3>2, OnePart
    <2>12. /\ cells' \in [2..Cap -> Cell]
           /\ \A y \in 2..Cap : y <= length => cells'[y] = cells[y]
           /\ \A p \in 1..stored : length + p <= Cap => cells'[length + p] = Raw(rec, p)
      <3>1. \A y \in 2..Cap : cells'[y] = IF y \in length + 1 .. length + stored
                                          THEN new[y - length] ELSE cells[y]
        BY <1>4, <2>1
      <3>2. \A y \in 2..Cap : y \in length + 1 .. length + stored => new[y - length] \in Cell
        <4> SUFFICES ASSUME NEW y \in length + 1 .. length + stored
                     PROVE  new[y - length] \in Cell
          OBVIOUS
        <4>1. y - length \in 1..total
          BY <1>3, <2>2
        <4>. QED
          BY <2>3, <4>1
      <3>3. cells' \in [2..Cap -> Cell]
        BY <1>4, <2>1, <3>2
      <3>4. ASSUME NEW y \in 2..Cap, y <= length PROVE cells'[y] = cells[y]
        <4>1. y \notin length + 1 .. length + stored
          BY <1>2, <1>3, <2>2, <3>4
        <4>. QED
          BY <3>1, <4>1
      <3>5. ASSUME NEW p \in 1..stored, length + p <= Cap
            PROVE  cells'[length + p] = Raw(rec, p)
        <4>1. length + p \in 2..Cap /\ length + p \in length + 1 .. length + stored
              /\ (length + p) - length = p /\ p \in 1..total
          BY <1>2, <1>3, <2>2, <3>5
        <4>. QED
          BY <2>3, <3>1, <4>1
      <3>. QED
        BY <3>3, <3>4, <3>5
    <2>13. ASSUME NEW i \in 1..Len(out'), Start + 1 + i <= Cap
           PROVE  cells'[Start + 1 + i].text = <<Text(out', key, i)>>
      <3>1. CASE i \in 1..remain
        <4>1. Start + 1 + i \in 2..Cap /\ Start + 1 + i <= length
          BY <1>2, <1>3, <2>13, <3>1
        <4>2. cells'[Start + 1 + i] = cells[(Start + 1) + i]
          BY <2>12, <4>1
        <4>. QED
          BY <2>11, <3>1, <4>2
      <3>2. CASE i - remain \in 1..total /\ remain + (i - remain) = i
        <4> DEFINE p == i - remain
        <4>1. p \in 1..total /\ remain + p = i /\ length + p = Start + 1 + i
          BY <1>3, <3>2
        <4> HIDE DEF p
        <4>2. p \in Nat /\ p <= room /\ length + p <= Cap
          <5>1. p \in Nat /\ length + p <= Cap
            BY <2>2, <2>13, <4>1
          <5>. QED
            BY <1>2, <1>3, <5>1 DEF room
        <4>3. p \in 1..stored
          BY <2>2, <4>1, <4>2
        <4>4. cells'[Start + 1 + i] = Raw(rec, p)
          BY <2>12, <4>1, <4>2, <4>3
        <4>5. Raw(rec, p).text = <<<<rec.id, p, rec.size>>>>
          BY <1>2, <1>4, <4>2, RawIs
        <4>6. Text(out', key, i) = <<rec.id, p, rec.size>>
          BY <2>10, <4>1
        <4>. QED
          BY <4>4, <4>5, <4>6
      <3>. QED
        BY <2>5, <2>6, <2>9, <3>1, <3>2
    <2>14. TextWith(cells', out', n, Start, key) = TextsOf(BodyOf(cells, length), key)
      <3> DEFINE s == BodyOf(cells, length)
      <3>1. length = n + 1
        BY <1>3
      <3>2. s \in Seq(Cell) /\ Len(s) = n /\ \A i \in 1..n : s[i] = cells[i + 1]
        BY <1>3, <1>4, BodyIs
      <3>3. BodyOf(cells', n + 1) = s
        <4>1. \A i \in 1..n : cells'[i + 1] = cells[i + 1]
          <5> SUFFICES ASSUME NEW i \in 1..n PROVE cells'[i + 1] = cells[i + 1]
            OBVIOUS
          <5>1. i + 1 \in 2..Cap /\ i + 1 <= length
            BY <1>2, <1>3
          <5>. QED
            BY <2>12, <5>1
        <4>. QED
          BY <3>1, <4>1 DEF BodyOf
      <3> HIDE DEF s
      <3>4. ASSUME NEW i \in 1..n, ~(i <= Start) PROVE Text(out', key, i - Start) = Text(s, key, i)
        <4>1. i - Start \in 1..remain /\ (Start + 1) + (i - Start) = i + 1
          BY <1>3, <3>4
        <4>2. s[i] = cells[(Start + 1) + (i - Start)]
          BY <3>2, <4>1
        <4>3. Len(s[i].text) = 1
          BY <2>7, <4>1, <4>2
        <4>4. ~(key /\ i <= Grouped(Len(s)))
          BY <1>3, <3>2, <3>4
        <4>5. Text(s, key, i) = IF Len(s[i].text) = 1 THEN s[i].text[1] ELSE <<0, 0, 0>>
          BY <4>4, TextOf, Zenon
        <4>6. Text(s, key, i) = s[i].text[1]
          BY <4>3, <4>5
        <4>. QED
          BY <2>11, <4>1, <4>2, <4>6
      <3>5. \A i \in 1..n : (IF i <= Start THEN Text(s, key, i) ELSE Text(out', key, i - Start))
                            = Text(s, key, i)
        BY <3>4
      <3>6. TextWith(cells', out', n, Start, key) =
              [i \in 1..n |-> IF i <= Start THEN Text(s, key, i) ELSE Text(out', key, i - Start)]
        BY <3>3 DEF TextWith
      <3>7. TextsOf(s, key) = [i \in 1..n |-> Text(s, key, i)]
        BY <3>2 DEF TextsOf
      <3>. QED
        BY <3>5, <3>6, <3>7 DEF s
    <2>15. RecordsIn(TextWith(cells', out', n, Start, key)) = held
      <3>1. BodyOf(cells, length) \in Seq(Cell)
        BY <1>3, <1>4, BodyIs
      <3>2. Found(header, cells) = Decoded(BodyOf(cells, length), header.magic = "crypt")
        BY <1>3, <1>4, <1>5, FoundIs, SMTT(30)
      <3>3. Decoded(BodyOf(cells, length), key) = held
        BY <1>3, <1>5, <3>2, RecoverableIs, SMTT(30)
      <3>. QED
        BY <2>14, <3>1, <3>3, TextsAre
    <2>16. CopyingBack'
      <3>1. Start' = Start /\ AddedLen' = total /\ at' \in 0..Len(out')
        BY <1>1, <1>3, <2>1, <2>2, <2>9 DEF Start, AddedLen
      <3>2. /\ out' \in Seq(Cell) /\ at' \in 0..Len(out')
            /\ \A i \in 1..Len(out') :
                  Len(out'[i].text) = IF key' /\ i <= Grouped(Len(out')) THEN Block ELSE 1
        BY <1>1, <2>9, <3>1
      <3>3. \A i \in 1..Len(out') : Start' + 1 + i <= Cap =>
                IF i <= at' THEN cells'[Start' + 1 + i] = out'[i]
                ELSE cells'[Start' + 1 + i].text = <<Text(out', key', i)>>
        <4>1. \A i \in 1..Len(out') : ~(i <= at')
          BY <2>1
        <4>. QED
          BY <1>1, <2>13, <3>1, <4>1
      <3>4. \A p \in 1..AddedLen' : Text(out', key', remain' + p) = <<rec'.id, p, rec'.size>>
        BY <1>1, <2>1, <2>10, <3>1
      <3>5. rec'.id # 0 => AddedLen' = rec'.size
        BY <1>5, <2>1, <2>2, <3>1
      <3>6. RecordsIn(TextWith(cells', out', length' - 1, Start', key')) = held'
        BY <1>1, <2>15, <3>1
      <3>. QED
        BY <3>2, <3>3, <3>4, <3>5, <3>6 DEF CopyingBack, Grouped, Text, TextWith, FirstOf,
           BodyOf, RecordsIn, Ends, Nth
    <2>17. Recovered'
      <3>1. \A i \in 1..(length - 1) : cells[i + 1] = cells'[i + 1]
        <4> SUFFICES ASSUME NEW i \in 1..(length - 1) PROVE cells[i + 1] = cells'[i + 1]
          OBVIOUS
        <4>1. i + 1 \in 2..Cap /\ i + 1 <= length
          BY <1>2, <1>3
        <4>. QED
          BY <2>12, <4>1
      <3>2. Found(header, cells) = Found(header, cells')
        BY <1>5, <3>1, FoundSame
      <3>3. Recoverable' = held'
        BY <1>1, <1>5, <3>2, RecoverableIs, RecoverableIsNext
      <3>. QED
        BY <3>3 DEF Recovered
    <2>18. CellTypes'
      BY <1>1, <1>4, <2>1, <2>12 DEF DecodeInv, BlockOK, CellTypes
    <2>19. Announced' /\ Fits'
      BY <1>1, <1>2, <1>5, <2>1 DEF Announced, Fits, Lower, room
    <2>. QED
      BY <2>1, <2>16, <2>17, <2>18, <2>19 DEF BlockOK, RawRemainder, ChunkDecodes
  <1>. QED
    BY <1>6, <1>7

\* The record counts, and it is there.
LEMMA CommitBlockOK == DecodeInv /\ Commit => BlockOK'
  <1> SUFFICES ASSUME DecodeInv, Commit PROVE BlockOK'
    OBVIOUS
  <1> DEFINE n == length - 1
             m == length' - 1
             added == Len(out) - remain
  <1>1. /\ pc = "crypt" /\ pc' = "idle" /\ at = Len(out) /\ key' = key /\ cells' = cells
        /\ header' = [header EXCEPT !.len = @ + added]
        /\ length' = Lower(length - remain + Len(out), Cap)
        /\ remain' = (IF key THEN Len(out) % Block ELSE 0) /\ rec' = NoRecord
        /\ held' = IF rec.id # 0 THEN Append(held, rec.id) ELSE held
        /\ used' = used
    BY DEF Commit, SetLength, AddedLen, Remainder
  <1>2. IInv /\ length > 0 /\ Cap \in Nat /\ rec.size \in Nat /\ cut \in BOOLEAN
    BY <1>1, Constants DEF DecodeInv, IInv, Types
  <1>3. /\ length \in 1..Cap /\ remain \in Nat /\ key \in BOOLEAN /\ Start \in Nat
        /\ Start + remain = n /\ n \in Nat
        /\ key => Grouped(n) = Start /\ Grouped(Start) = Start
        /\ ~key => remain = 0
        /\ (header.magic = "crypt") = key
        /\ header \in [magic : {"none", "plain", "crypt"}, len : Nat]
    BY <1>1, <1>2, WriteFacts
  <1>4. cells \in [2..Cap -> Cell] /\ rec.id \in Nat
    BY DEF DecodeInv, BlockOK, CellTypes
  <1>5. /\ rec.size # 0 /\ (rec.id # 0 <=> rec.size <= Cap - length)
        /\ header.magic # "none" /\ length = Lower(header.len + 1, Cap)
    BY <1>1, <1>2 DEF DecodeInv, BlockOK, Fits, Announced
  <1>6. /\ out \in Seq(Cell) /\ Len(out) \in Nat
        /\ \A i \in 1..Len(out) :
              Len(out[i].text) = IF key /\ i <= Grouped(Len(out)) THEN Block ELSE 1
        /\ \A i \in 1..Len(out) : Start + 1 + i <= Cap =>
              IF i <= at THEN cells[Start + 1 + i] = out[i]
              ELSE cells[Start + 1 + i].text = <<Text(out, key, i)>>
        /\ \A p \in 1..added : Text(out, key, remain + p) = <<rec.id, p, rec.size>>
        /\ rec.id # 0 => added = rec.size
        /\ RecordsIn(TextWith(cells, out, n, Start, key)) = held
    BY <1>1 DEF DecodeInv, BlockOK, CopyingBack, AddedLen
  <1>7. added \in Nat /\ Len(out) = remain + added /\ (key => length + added <= Cap)
    <2>1. OutFits
      BY <1>1, <1>2 DEF IInv
    <2>2. added \in Nat /\ (key => length + added <= Cap)
      BY <2>1 DEF OutFits, AddedLen
    <2>3. Len(out) \in Nat /\ remain \in Nat
      BY <1>3, <1>6
    <2>. QED
      BY <2>2, <2>3
  <1>8. \A i \in 1..Len(out) : Start + 1 + i <= Cap => cells[Start + 1 + i] = out[i]
    BY <1>1, <1>6
  <1> HIDE DEF added
  <1>9. length' = Lower(length + added, Cap)
    BY <1>1, <1>3, <1>7
  <1>10. /\ length' \in 1..Cap /\ length' >= length /\ length' <= length + added
         /\ key => length' = length + added
         /\ length + added <= Cap => length' = length + added
    BY <1>2, <1>3, <1>7, <1>9 DEF Lower
  <1>11. /\ m \in Nat /\ m + 1 = length' /\ m + 1 <= Cap /\ n <= m
         /\ m <= Start + Len(out)
         /\ key => m = Start + Len(out)
    <2>1. length \in Nat /\ length' \in Nat /\ Cap \in Nat /\ n = length - 1 /\ m = length' - 1
          /\ Len(out) \in Nat /\ Start + Len(out) = n + added
      <3>1. Len(out) \in Nat /\ Len(out) = remain + added /\ Start + remain = n
            /\ Start \in Nat /\ remain \in Nat /\ added \in Nat
        BY <1>3, <1>6, <1>7
      <3>. QED
        BY <1>2, <1>3, <1>10, <3>1
    <2> HIDE DEF m, n
    <2>2. m \in Nat /\ m + 1 = length' /\ m + 1 <= Cap /\ n <= m /\ m <= n + added
      <3>1. \A l, q, C, a \in Nat : q \in 1..C /\ q >= l /\ q <= l + a =>
               /\ q - 1 \in Nat /\ (q - 1) + 1 = q /\ (q - 1) + 1 <= C
               /\ l - 1 <= q - 1 /\ q - 1 <= (l - 1) + a
        OBVIOUS
      <3>. QED
        BY <1>7, <1>10, <2>1, <3>1, Zenon
    <2>4. ASSUME key PROVE m = n + added
      <3>1. length' = length + added
        BY <1>10, <2>4
      <3>. QED
        BY <1>7, <2>1, <3>1
    <2>. QED
      BY <2>1, <2>2, <2>4
  <1>12. rec.id # 0 => m = Start + remain + rec.size
    <2> SUFFICES ASSUME rec.id # 0 PROVE m = Start + remain + rec.size
      OBVIOUS
    <2>1. added = rec.size /\ rec.size <= Cap - length
      BY <1>5, <1>6
    <2>2. length + added <= Cap
      BY <1>2, <1>3, <2>1
    <2>. QED
      BY <1>2, <1>3, <1>10, <2>1, <2>2
  <1> HIDE DEF m
  <1>13. Decoded(BodyOf(cells, length'), key) = held'
    <2> DEFINE old == RecordsIn(TextWith(cells, out, Start + remain, Start, key))
    <2>1. Start + remain <= m /\ rec.size \in Nat \ {0} /\ (key => Grouped(Start) = Start)
      BY <1>2, <1>3, <1>5, <1>11
    <2>2. \A i \in 1..(m - Start) : cells[Start + 1 + i] = out[i]
      <3> SUFFICES ASSUME NEW i \in 1..(m - Start) PROVE cells[Start + 1 + i] = out[i]
        OBVIOUS
      <3>1. i \in 1..Len(out) /\ Start + 1 + i <= Cap
        BY <1>2, <1>3, <1>6, <1>11
      <3>. QED
        BY <1>8, <3>1
    <2>3. \A p \in 1..(m - (Start + remain)) : Text(out, key, remain + p) = <<rec.id, p, rec.size>>
      <3> SUFFICES ASSUME NEW p \in 1..(m - (Start + remain))
                   PROVE  Text(out, key, remain + p) = <<rec.id, p, rec.size>>
        OBVIOUS
      <3>1. p \in 1..added
        BY <1>3, <1>7, <1>11
      <3>. QED
        BY <1>6, <3>1
    <2>4. Decoded(BodyOf(cells, m + 1), key) = IF rec.id # 0 THEN Append(old, rec.id) ELSE old
      <3>1. Joined(cells, out, key, Start, remain, m, rec.id, rec.size)
        BY <1>3, <1>11, <1>12, <2>1, <2>2, <2>3 DEF Joined
      <3>2. out \in Seq(Cell) /\ cells \in [2..Cap -> Cell] /\ key \in BOOLEAN
        BY <1>3, <1>4, <1>6
      <3>3. Start \in Nat /\ remain \in Nat /\ m \in Nat /\ rec.id \in Nat
            /\ rec.size \in Nat \ {0}
        BY <1>3, <1>4, <1>11, <2>1
      <3> HIDE DEF old
      <3> DEFINE id == rec.id
                 size == rec.size
      <3>4. Decoded(BodyOf(cells, m + 1), key) =
              IF rec.id # 0
              THEN Append(RecordsIn(TextWith(cells, out, Start + remain, Start, key)), rec.id)
              ELSE RecordsIn(TextWith(cells, out, Start + remain, Start, key))
        <4> HIDE DEF id, size
        <4>1. Decoded(BodyOf(cells, m + 1), key) =
                IF id # 0
                THEN Append(RecordsIn(TextWith(cells, out, Start + remain, Start, key)), id)
                ELSE RecordsIn(TextWith(cells, out, Start + remain, Start, key))
          <5>1. Joined(cells, out, key, Start, remain, m, id, size)
            BY <3>1 DEF id, size
          <5>2. id \in Nat /\ size \in Nat \ {0}
            BY <3>3 DEF id, size
          <5>. QED
            BY <3>2, <3>3, <5>1, <5>2, JoinedIs
        <4>. QED
          BY <4>1 DEF id
      <3>. QED
        BY <3>4 DEF old
    <2>5. old = held
      BY <1>3, <1>6
    <2>. QED
      BY <1>1, <1>11, <2>4, <2>5
  <1>14. /\ header'.magic = header.magic /\ header'.len = header.len + added
         /\ header' \in [magic : {"none", "plain", "crypt"}, len : Nat]
    BY <1>1, <1>3, <1>7, MoreInHeader
  <1>15. length' = Lower(header'.len + 1, Cap)
    <2>1. header.len \in Nat
      BY <1>3
    <2>. QED
      BY <1>2, <1>5, <1>7, <1>9, <1>14, <2>1, SMTT(30) DEF Lower
  <1>16. Recoverable' = held'
    <2>1. Found(header', cells) = Decoded(BodyOf(cells, length'), header'.magic = "crypt")
      BY <1>4, <1>5, <1>14, <1>15, FoundIs
    <2>2. (header'.magic = "crypt") = key
      BY <1>3, <1>14
    <2>. QED
      BY <1>1, <1>13, <2>1, <2>2, RecoverableIsNext
  <1>17. RawRemainder'
    <2> SUFFICES ASSUME NEW i \in (length' - remain' + 1)..length'
                 PROVE  Len(cells[i].text) = 1
      BY <1>1 DEF RawRemainder
    <2>1. key
      BY <1>1, <1>10
    <2>2. Len(out) - Grouped(Len(out)) = remain' /\ Grouped(Len(out)) \in Nat
      <3>1. Grouped(Len(out)) \in 0..Len(out)
            /\ Len(out) - Grouped(Len(out)) = Len(out) % Block
        BY <1>6, GroupedIs
      <3>. QED
        BY <1>1, <2>1, <3>1
    <2>3. length' = Start + 1 + Len(out)
      BY <1>3, <1>11, <2>1
    <2> DEFINE j == i - (Start + 1)
    <2>4. j \in 1..Len(out) /\ ~(j <= Grouped(Len(out))) /\ Start + 1 + j = i /\ i <= Cap
      BY <1>2, <1>3, <1>6, <1>10, <2>2, <2>3
    <2> HIDE DEF j
    <2>5. cells[i] = out[j]
      BY <1>8, <2>4
    <2>6. Len(out[j].text) = 1
      BY <1>6, <2>4
    <2>. QED
      BY <2>5, <2>6
  <1>18. Announced'
    BY <1>1, <1>5, <1>10, <1>14, <1>15 DEF Announced, Lower
  <1>19. CellTypes'
    BY <1>1, <1>4 DEF DecodeInv, BlockOK, CellTypes, NoRecord
  <1>. QED
    BY <1>1, <1>16, <1>17, <1>18, <1>19 DEF BlockOK, Fits, CopyingBack, Recovered,
       ChunkDecodes

-----------------------------------------------------------------------------
(* The theorems                                                            *)

\* Every step keeps the invariant.
LEMMA StepBlockOK == DecodeInv /\ [Next]_vars => BlockOK'
  <1> SUFFICES ASSUME DecodeInv, [Next]_vars PROVE BlockOK'
    OBVIOUS
  <1>1. CASE Open
    BY <1>1, OpenBlockOK
  <1>2. CASE WriteStep
    <2>1. ASSUME NEW n \in IF length < WarnAt THEN Sizes ELSE {1}, Write(n) PROVE BlockOK'
      <3>1. n \in Nat \ {0}
        BY SizesAre
      <3>. QED
        BY <2>1, <3>1, WriteBlockOK
    <2>. QED
      BY <1>2, <2>1, ResetBlockOK, CopyBlockOK, RewriteBlockOK, CommitBlockOK DEF WriteStep
  <1>3. CASE Flush
    BY <1>3, FlushEmptyBlockOK, FlushTakeBlockOK, ClearHeaderBlockOK, ClearDataBlockOK
       DEF Flush
  <1>4. CASE Crash \/ Close
    BY <1>4, CrashBlockOK, CloseBlockOK
  <1>5. CASE UNCHANGED vars
    <2>1. /\ header' = header /\ cells' = cells /\ pc' = pc /\ key' = key /\ length' = length
          /\ remain' = remain /\ rec' = rec /\ out' = out /\ at' = at /\ chunk' = chunk
          /\ held' = held /\ used' = used
      BY <1>5 DEF vars, memory, object, writing, history
    <2>2. Recovered'
      BY <2>1, RecoverableIs, RecoverableIsNext DEF DecodeInv, BlockOK, Recovered
    <2>3. CellTypes' /\ Announced' /\ Fits' /\ RawRemainder' /\ ChunkDecodes'
      BY <2>1 DEF DecodeInv, BlockOK, CellTypes, Announced, Fits, RawRemainder, ChunkDecodes,
              Lower
    <2>4. CopyingBack'
      <3>1. CASE pc # "crypt"
        BY <2>1, <3>1, SMTT(30) DEF CopyingBack
      <3>2. CASE pc = "crypt"
        <4>1. Start' = Start /\ AddedLen' = AddedLen
          BY <2>1 DEF Start, AddedLen
        <4>2. /\ out \in Seq(Cell) /\ at \in 0..Len(out)
              /\ \A i \in 1..Len(out) :
                    Len(out[i].text) = IF key /\ i <= Grouped(Len(out)) THEN Block ELSE 1
              /\ \A i \in 1..Len(out) : Start + 1 + i <= Cap =>
                    IF i <= at THEN cells[Start + 1 + i] = out[i]
                    ELSE cells[Start + 1 + i].text = <<Text(out, key, i)>>
              /\ \A p \in 1..AddedLen : Text(out, key, remain + p) = <<rec.id, p, rec.size>>
              /\ rec.id # 0 => AddedLen = rec.size
              /\ RecordsIn(TextWith(cells, out, length - 1, Start, key)) = held
          BY <3>2 DEF DecodeInv, BlockOK, CopyingBack
        <4>3. /\ out' \in Seq(Cell) /\ at' \in 0..Len(out')
              /\ \A i \in 1..Len(out') :
                    Len(out'[i].text) = IF key' /\ i <= Grouped(Len(out')) THEN Block ELSE 1
          BY <2>1, <4>2
        <4>4. \A i \in 1..Len(out') : Start' + 1 + i <= Cap =>
                  IF i <= at' THEN cells'[Start' + 1 + i] = out'[i]
                  ELSE cells'[Start' + 1 + i].text = <<Text(out', key', i)>>
          BY <2>1, <4>1, <4>2
        <4>5. /\ \A p \in 1..AddedLen' : Text(out', key', remain' + p) = <<rec'.id, p, rec'.size>>
              /\ rec'.id # 0 => AddedLen' = rec'.size
          BY <2>1, <4>1, <4>2
        <4>6. RecordsIn(TextWith(cells', out', length' - 1, Start', key')) = held'
          BY <2>1, <4>1, <4>2
        <4>. QED
          BY <4>3, <4>4, <4>5, <4>6 DEF CopyingBack, Grouped, Text, TextWith, FirstOf, BodyOf,
             RecordsIn, Ends, Nth
      <3>. QED
        BY <3>1, <3>2
    <2>. QED
      BY <2>2, <2>3, <2>4 DEF BlockOK
  <1>. QED
    BY <1>1, <1>2, <1>3, <1>4, <1>5 DEF Next

\* The invariant holds.
LEMMA AlwaysDecodes == Spec => []DecodeInv
  <1>1. Init => DecodeInv
    BY InitIInv, InitBlockOK DEF DecodeInv
  <1>2. DecodeInv /\ [Next]_vars => DecodeInv'
    BY StepIInv, StepBlockOK DEF DecodeInv
  <1>. QED
    BY <1>1, <1>2, PTL DEF Spec

\* A flush hands out exactly the records written since the one before, in
\* order and decodable (LogBuffer::Flush after Write, with the groups of
\* LogCrypt::CryptAsyncLog): whatever the sizes of block, groups and records,
\* and whatever crashes and leftovers came before.
THEOREM ChunkAlwaysDecodes == Spec => []ChunkDecodes
  <1>1. DecodeInv => ChunkDecodes
    BY DEF DecodeInv, BlockOK
  <1>. QED
    BY <1>1, AlwaysDecodes, PTL

\* While groups are encrypted, the records in full groups and those before are
\* there, and nothing else.
LEMMA CrashKeepsIs == DecodeInv => CrashKeeps
  <1> SUFFICES ASSUME DecodeInv PROVE CrashKeeps
    OBVIOUS
  <1>1. CASE ~(pc = "crypt" /\ header.magic = "crypt")
    <2>1. Recoverable = held
      BY <1>1 DEF DecodeInv, BlockOK, Recovered
    <2>2. /\ \A i \in 1..Len(held) - (Block - 1) : Recoverable[i] = held[i]
          /\ \A i \in DOMAIN Recoverable : \E j \in DOMAIN held : held[j] = Recoverable[i]
      BY <2>1
    <2>. QED
      BY <1>1, <2>1, <2>2, Zenon DEF CrashKeeps
  <1>2. CASE pc = "crypt" /\ header.magic = "crypt"
    <2> DEFINE n == length - 1
               T == TextWith(cells, out, n, Start, key)
               U == TextsOf(BodyOf(cells, n + 1), key)
    <2>1. IInv /\ length > 0 /\ Cap \in Nat
      BY <1>2, Constants DEF DecodeInv, IInv
    <2>2. /\ length \in 1..Cap /\ remain \in Nat /\ key \in BOOLEAN /\ Start \in Nat
          /\ Start + remain = n /\ n \in Nat
          /\ key => Grouped(n) = Start
          /\ ~key => remain = 0
          /\ remain <= Block - 1
          /\ (header.magic = "crypt") = key
          /\ header \in [magic : {"none", "plain", "crypt"}, len : Nat]
      BY <1>2, <2>1, WriteFacts
    <2>3. /\ out \in Seq(Cell) /\ at \in 0..Len(out) /\ Len(out) \in Nat
          /\ \A i \in 1..Len(out) :
                Len(out[i].text) = IF key /\ i <= Grouped(Len(out)) THEN Block ELSE 1
          /\ \A i \in 1..Len(out) : Start + 1 + i <= Cap =>
                IF i <= at THEN cells[Start + 1 + i] = out[i]
                ELSE cells[Start + 1 + i].text = <<Text(out, key, i)>>
          /\ RecordsIn(T) = held
      BY <1>2 DEF DecodeInv, BlockOK, CopyingBack
    <2>4. cells \in [2..Cap -> Cell] /\ header.magic # "none"
          /\ length = Lower(header.len + 1, Cap)
      BY <1>2, <2>1 DEF DecodeInv, BlockOK, CellTypes, Announced
    <2>5. remain <= Len(out) /\ Block - 1 \in Nat
      BY <1>2, <2>2, <2>3, Constants, SMTT(30) DEF DecodeInv, IInv, OutFits, AddedLen
    <2>6. Recoverable = RecordsIn(U)
      <3>1. Found(header, cells) = Decoded(BodyOf(cells, length), header.magic = "crypt")
        BY <2>2, <2>4, FoundIs
      <3>2. length = n + 1 /\ BodyOf(cells, length) \in Seq(Cell)
        BY <2>2, <2>4, BodyIs
      <3>. QED
        BY <2>2, <3>1, <3>2, RecoverableIs, TextsAre
    <2>7. \A i \in 1..(n - Start) :
             IF i <= at THEN cells[Start + 1 + i] = out[i]
             ELSE cells[Start + 1 + i].text = <<Text(out, key, i)>>
      <3> SUFFICES ASSUME NEW i \in 1..(n - Start)
                   PROVE  IF i <= at THEN cells[Start + 1 + i] = out[i]
                          ELSE cells[Start + 1 + i].text = <<Text(out, key, i)>>
        OBVIOUS
      <3>1. i \in 1..Len(out) /\ Start + 1 + i <= Cap
        BY <2>1, <2>2, <2>3, <2>5
      <3>. QED
        BY <2>3, <3>1
    <2>8. Start <= n /\ n + 1 <= Cap /\ n - Start <= Len(out) /\ (~key => n = Start)
          /\ at \in Nat /\ Start \in 0..n /\ n - Start <= Block - 1
      BY <2>1, <2>2, <2>3, <2>5
    <2>9. /\ T \in [1..n -> Part] /\ U \in [1..n -> Part]
          /\ \A i \in 1..n : U[i] = T[i] \/ U[i] = <<0, 0, 0>>
          /\ \A i \in 1..Start : U[i] = T[i]
      <3>1. Torn(cells, out, key, Start, n, at)
        BY <2>2, <2>3, <2>7, <2>8 DEF Torn
      <3>2. out \in Seq(Cell) /\ cells \in [2..Cap -> Cell] /\ key \in BOOLEAN
        BY <2>2, <2>3, <2>4
      <3>3. Start \in Nat /\ n \in Nat /\ at \in Nat
        BY <2>2, <2>8
      <3> HIDE DEF n, T, U
      <3>4. Unreadable(TextWith(cells, out, n, Start, key), TextsOf(BodyOf(cells, n + 1), key),
                       n, Start)
        BY <3>1, <3>2, <3>3, TornIs, Zenon
      <3>5. Unreadable(T, U, n, Start)
        BY <3>4 DEF T, U
      <3>. QED
        BY <3>5 DEF Unreadable
    <2> HIDE DEF T, U, n
    <2>10. /\ \A i \in 1..(Len(RecordsIn(T)) - (Block - 1)) : RecordsIn(U)[i] = RecordsIn(T)[i]
           /\ \A i \in DOMAIN RecordsIn(U) : \E j \in DOMAIN RecordsIn(T) :
                RecordsIn(T)[j] = RecordsIn(U)[i]
      <3> DEFINE b == Start
                 B == Block - 1
      <3>1. n \in Nat /\ b \in 0..n /\ B \in Nat /\ n - b <= B
        BY <2>2, <2>5, <2>8
      <3>2. \A i \in 1..b : U[i] = T[i]
        BY <2>9
      <3> HIDE DEF b, B
      <3>3. /\ \A i \in 1..(Len(RecordsIn(T)) - B) : RecordsIn(U)[i] = RecordsIn(T)[i]
            /\ \A i \in DOMAIN RecordsIn(U) : \E j \in DOMAIN RecordsIn(T) :
                 RecordsIn(T)[j] = RecordsIn(U)[i]
        BY <2>9, <3>1, <3>2, RecordsTorn
      <3>. QED
        BY <3>3 DEF B
    <2>. QED
      BY <1>2, <2>3, <2>6, <2>10, Zenon DEF CrashKeeps
  <1>. QED
    BY <1>1, <1>2

\* Wherever the process dies, LogBuffer's __Fix in the next one recovers all
\* that was written, but for what a write is encrypting: at most what is in the
\* last group of cells, and never a record that was not written.
THEOREM CrashAlwaysKeeps == Spec => []CrashKeeps
  BY AlwaysDecodes, CrashKeepsIs, PTL

-----------------------------------------------------------------------------
(* Log files: the loop of the reader                                       *)

\* What a file consists of.
FileCells == Headers \cup {Nul, Datum}

XTypes ==
    /\ hour \in Hours /\ crypted \in BOOLEAN /\ overnight \in BOOLEAN
    /\ logfile \in Seq(FileCells) /\ wholes \in SUBSET Nat
    /\ buffered.data \in Seq({Datum})
    /\ buffered = [header |-> buffered.header, data |-> buffered.data]
    /\ buffered.header \in [magic : {"none", "plain", "crypt"}, begin : Hours, end : Hours,
                            len : 0..MaxData]
    /\ buffered.header.len = Len(buffered.data)
    /\ buffered # NoBlock => buffered.header.magic # "none"

\* A set of natural numbers that is not empty has a least element.
LEMMA LeastOf ==
    ASSUME NEW S \in SUBSET Nat, S # {}
    PROVE  \E i \in S : \A j \in S : i <= j
  <1>1. IsWellFoundedOn(OpToRel(<, Nat), Nat)
    BY NatLessThanWellFounded
  <1>2. PICK i \in S : \A j \in S : ~(<<j, i>> \in OpToRel(<, Nat))
    BY <1>1, WFMin, Zenon
  <1>3. ASSUME NEW j \in S PROVE i <= j
    <2>1. ~(<<j, i>> \in OpToRel(<, Nat))
      BY <1>2
    <2>2. i \in Nat /\ j \in Nat
      OBVIOUS
    <2>3. ~(j < i)
      BY <2>1, <2>2 DEF OpToRel
    <2>. QED
      BY <2>2, <2>3
  <1>. QED
    BY <1>3

\* Every set of natural numbers with 0 and the successors of its members is Nat.
LEMMA AllNumbers ==
    ASSUME NEW S, 0 \in S, \A k \in Nat : k \in S => k + 1 \in S, NEW n \in Nat
    PROVE  n \in S
  <1> DEFINE Bad == {k \in Nat : k \notin S}
  <1> SUFFICES ASSUME n \notin S PROVE FALSE
    OBVIOUS
  <1>1. Bad \in SUBSET Nat /\ Bad # {}
    OBVIOUS
  <1>2. PICK k \in Bad : \A j \in Bad : k <= j
    BY <1>1, LeastOf
  <1>3. k \in Nat /\ k # 0 /\ k \notin S
    OBVIOUS
  <1>4. k - 1 \in Nat /\ ~(k <= k - 1)
    BY <1>3
  <1>5. k - 1 \in S
    BY <1>2, <1>4
  <1>6. (k - 1) + 1 = k
    BY <1>3
  <1>. QED
    BY <1>3, <1>4, <1>5, <1>6

\* What a header says of the block's length is a number.
LEMMA AcceptedIs ==
    ASSUME XTypes, NEW p \in Nat, p + 2 <= Len(logfile), Accepted(p)
    PROVE  /\ logfile[p + 1] \in Headers /\ logfile[p + 1].len \in Nat
           /\ After(p) \in Nat /\ After(p) >= p + 2 /\ After(p) <= Len(logfile)
  <1>1. logfile \in Seq(FileCells) /\ Len(logfile) \in Nat
    BY DEF XTypes
  <1>2. p + 1 \in 1..Len(logfile)
    BY <1>1
  <1>3. logfile[p + 1] \in FileCells
    BY <1>1, <1>2
  <1>4. logfile[p + 1] \in Headers
    BY <1>3 DEF FileCells, Accepted, IsHeader
  <1>5. logfile[p + 1].len \in Nat
    BY <1>4, XlogAssumption DEF Headers
  <1>. QED
    BY <1>1, <1>4, <1>5 DEF Accepted, After

\* What the loop does at an offset, f being what it does behind.
MetBody(f, p) ==
    IF p + 2 > Len(logfile) THEN <<>>
    ELSE IF ~Accepted(p) THEN f[NextTry(p)]
    ELSE IF logfile[p + 1].magic # "crypt" THEN <<>>
    ELSE <<p>> \o f[After(p)]

\* It never looks back.
LEMMA LooksAhead ==
    ASSUME XTypes, NEW f, NEW g, NEW p \in Nat, \A q \in Nat : q > p => f[q] = g[q]
    PROVE  MetBody(f, p) = MetBody(g, p)
  <1>1. CASE p + 2 > Len(logfile)
    BY <1>1 DEF MetBody
  <1>2. CASE ~(p + 2 > Len(logfile)) /\ ~Accepted(p)
    <2>1. f[NextTry(p)] = g[NextTry(p)]
      BY DEF NextTry
    <2>. QED
      BY <1>2, <2>1 DEF MetBody
  <1>3. CASE ~(p + 2 > Len(logfile)) /\ Accepted(p)
    <2>1. p + 2 <= Len(logfile)
      BY <1>3 DEF XTypes
    <2>2. After(p) \in Nat /\ After(p) > p
      BY <1>3, <2>1, AcceptedIs
    <2>3. f[After(p)] = g[After(p)]
      BY <2>2
    <2>. QED
      BY <1>3, <2>3 DEF MetBody
  <1>. QED
    BY <1>1, <1>2, <1>3

\* There is such a function: the file ends.
LEMMA MetExists ==
    ASSUME XTypes PROVE \E f : f = [p \in Nat |-> MetBody(f, p)]
  <1> DEFINE n == Len(logfile)
             Good(f, k) == \A p \in Nat : n < p + k => f[p] = MetBody(f, p)
             Fine == {k \in Nat : \E f \in [Nat -> Seq(Nat)] : Good(f, k)}
  <1>1. n \in Nat
    BY DEF XTypes
  <1>2. 0 \in Fine
    <2> DEFINE f == [p \in Nat |-> <<>>]
    <2>1. f \in [Nat -> Seq(Nat)]
      OBVIOUS
    <2>2. ASSUME NEW p \in Nat, n < p + 0 PROVE f[p] = MetBody(f, p)
      <3>1. p + 2 > Len(logfile)
        BY <1>1, <2>2
      <3>. QED
        BY <3>1 DEF MetBody
    <2>. QED
      BY <2>1, <2>2
  <1>3. ASSUME NEW k \in Nat, k \in Fine PROVE k + 1 \in Fine
    <2>1. PICK f \in [Nat -> Seq(Nat)] : Good(f, k)
      BY <1>3
    <2>2. CASE k > n
      <3>1. Good(f, k + 1)
        <4> SUFFICES ASSUME NEW p \in Nat, n < p + (k + 1) PROVE f[p] = MetBody(f, p)
          OBVIOUS
        <4>1. n < p + k
          BY <1>1, <2>2
        <4>. QED
          BY <2>1, <4>1
      <3>. QED
        BY <3>1
    <2>3. CASE ~(k > n)
      <3> DEFINE m == n - k
                 b == MetBody(f, m)
                 g == [f EXCEPT ![m] = b]
      <3>1. m \in Nat /\ m + k = n
        BY <1>1, <2>3
      <3> HIDE DEF m
      <3>2. b \in Seq(Nat)
        <4>1. CASE m + 2 > Len(logfile)
          BY <4>1 DEF MetBody
        <4>2. CASE ~(m + 2 > Len(logfile)) /\ ~Accepted(m)
          <5>1. f[NextTry(m)] \in Seq(Nat)
            BY <3>1 DEF NextTry
          <5>. QED
            BY <4>2, <5>1 DEF MetBody
        <4>3. CASE ~(m + 2 > Len(logfile)) /\ Accepted(m)
          <5>1. m + 2 <= Len(logfile)
            BY <1>1, <3>1, <4>3
          <5>2. After(m) \in Nat
            BY <3>1, <4>3, <5>1, AcceptedIs
          <5>3. f[After(m)] \in Seq(Nat) /\ <<m>> \in Seq(Nat)
            BY <3>1, <5>2
          <5>4. <<m>> \o f[After(m)] \in Seq(Nat) /\ <<>> \in Seq(Nat)
            BY <5>3, ConcatProperties
          <5>. QED
            BY <4>3, <5>4 DEF MetBody
        <4>. QED
          BY <4>1, <4>2, <4>3
      <3> HIDE DEF b
      <3>3. g \in [Nat -> Seq(Nat)] /\ g[m] = b /\ \A q \in Nat : q # m => g[q] = f[q]
        BY <3>1, <3>2
      <3> HIDE DEF g
      <3>4. ASSUME NEW p \in Nat, n < p + (k + 1) PROVE g[p] = MetBody(g, p)
        <4>1. p >= m
          BY <1>1, <3>1, <3>4
        <4>2. \A q \in Nat : q > p => g[q] = f[q]
          BY <3>1, <3>3, <4>1
        <4>3. MetBody(g, p) = MetBody(f, p)
          BY <4>2, LooksAhead
        <4>4. CASE p = m
          BY <3>3, <4>3, <4>4 DEF b
        <4>5. CASE p # m
          <5>1. n < p + k
            BY <1>1, <3>1, <4>1, <4>5
          <5>2. f[p] = MetBody(f, p)
            BY <2>1, <5>1
          <5>. QED
            BY <3>3, <4>3, <4>5, <5>2
        <4>. QED
          BY <4>4, <4>5
      <3>5. Good(g, k + 1)
        BY <3>4, Zenon
      <3>6. \E e \in [Nat -> Seq(Nat)] : Good(e, k + 1)
        BY <3>3, <3>5, Zenon
      <3>7. k + 1 \in Nat
        OBVIOUS
      <3>. QED
        BY <3>6, <3>7, Zenon
    <2>. QED
      BY <2>2, <2>3
  <1> HIDE DEF Fine
  <1>4. n + 1 \in Fine
    BY <1>1, <1>2, <1>3, AllNumbers
  <1>5. PICK f \in [Nat -> Seq(Nat)] : Good(f, n + 1)
    BY <1>4 DEF Fine
  <1>6. \A p \in Nat : f[p] = MetBody(f, p)
    <2> SUFFICES ASSUME NEW p \in Nat PROVE f[p] = MetBody(f, p)
      OBVIOUS
    <2>1. n < p + (n + 1)
      BY <1>1
    <2>. QED
      BY <1>5, <2>1
  <1>7. f = [p \in Nat |-> MetBody(f, p)]
    BY <1>6
  <1>. QED
    BY <1>7

\* The loop, step by step.
LEMMA MetIs ==
    ASSUME XTypes, NEW p \in Nat
    PROVE  BlocksFrom[p] = MetBody(BlocksFrom, p)
  <1>1. BlocksFrom = CHOOSE f : f = [q \in Nat |-> MetBody(f, q)]
    BY DEF BlocksFrom, MetBody
  <1>2. BlocksFrom = [q \in Nat |-> MetBody(BlocksFrom, q)]
    <2>1. \E f : f = [q \in Nat |-> MetBody(f, q)]
      BY MetExists
    <2>. QED
      BY <1>1, <2>1, Zenon
  <1> DEFINE h == BlocksFrom
  <1> HIDE DEF h
  <1>3. h = [q \in Nat |-> MetBody(h, q)]
    BY <1>2 DEF h
  <1>4. h[p] = MetBody(h, p)
    BY <1>3
  <1>. QED
    BY <1>4 DEF h

-----------------------------------------------------------------------------
(* Log files: what the writer keeps                                        *)

\* Blocks are where they were written, one behind another.
Apart ==
    /\ \A p \in wholes : p + 1 <= Len(logfile) /\ Accepted(p)
    /\ \A p, q \in wholes : p < q => After(p) <= q

\* The hours in which blocks were written do not go back, but over midnight.
InTime ==
    ~overnight =>
        /\ \A p \in wholes : EndHour(p) <= hour
        /\ \A p, q \in wholes : p <= q => EndHour(p) <= EndHour(q)

XlogInv == XTypes /\ Apart /\ InTime

\* Accepted, After and EndHour, of any file.
AcceptedIn(file, p) ==
    /\ IsHeader(file[p + 1])
    /\ p + file[p + 1].len + 2 <= Len(file)
    /\ file[p + file[p + 1].len + 2] = Nul
ApartIn(file, blocks) ==
    /\ \A p \in blocks : p + 1 <= Len(file) /\ AcceptedIn(file, p)
    /\ \A p, q \in blocks : p < q => p + file[p + 1].len + 2 <= q
InTimeIn(file, blocks, h) ==
    /\ \A p \in blocks : file[p + 1].end <= h
    /\ \A p, q \in blocks : p <= q => file[p + 1].end <= file[q + 1].end

\* The blocks lie apart, of a file and its blocks as parameters.
LEMMA ApartIs == (Apart <=> ApartIn(logfile, wholes)) /\ (Apart' <=> ApartIn(logfile', wholes'))
  BY DEF Apart, ApartIn, Accepted, AcceptedIn, After, IsHeader

\* Their hours are in order, likewise.
LEMMA InTimeIs ==
    /\ InTime <=> (~overnight => InTimeIn(logfile, wholes, hour))
    /\ InTime' <=> (~overnight' => InTimeIn(logfile', wholes', hour'))
  BY DEF InTime, InTimeIn, EndHour

\* A block stays a block when the file goes on.
LEMMA Grows ==
    ASSUME NEW file \in Seq(FileCells), NEW more \in Seq(FileCells), NEW p \in Nat,
           p + 1 <= Len(file), AcceptedIn(file, p)
    PROVE  /\ (file \o more)[p + 1] = file[p + 1] /\ AcceptedIn(file \o more, p)
           /\ file[p + 1] \in Headers
           /\ p + file[p + 1].len + 2 <= Len(file)
  <1> DEFINE l == file[p + 1].len
             e == p + l + 2
  <1>1. Len(file) \in Nat /\ Len(more) \in Nat /\ p + 1 \in 1..Len(file)
    OBVIOUS
  <1>2. file[p + 1] \in FileCells
    BY <1>1
  <1>3. file[p + 1] \in Headers
    BY <1>2 DEF FileCells, AcceptedIn, IsHeader
  <1>4. l \in Nat
    BY <1>3, XlogAssumption DEF Headers
  <1>5. e <= Len(file) /\ file[e] = Nul /\ IsHeader(file[p + 1])
    BY DEF AcceptedIn
  <1> HIDE DEF l
  <1>6. e \in 1..Len(file)
    BY <1>1, <1>4, <1>5
  <1>7. /\ Len(file \o more) = Len(file) + Len(more)
        /\ \A i \in 1..Len(file) : (file \o more)[i] = file[i]
    BY <1>1, ConcatProperties
  <1>8. (file \o more)[p + 1] = file[p + 1] /\ (file \o more)[e] = Nul
        /\ e <= Len(file \o more)
    BY <1>1, <1>5, <1>6, <1>7
  <1>. QED
    BY <1>3, <1>5, <1>8 DEF AcceptedIn, l

\* The cells of a block.
LEMMA LaidIs ==
    ASSUME NEW h \in Headers, NEW data \in Seq({Datum}), h.len = Len(data)
    PROVE  /\ Laid(h, data) \in Seq(FileCells)
           /\ Len(Laid(h, data)) = Len(data) + 2
           /\ Laid(h, data)[1] = h
           /\ Laid(h, data)[Len(data) + 2] = Nul
           /\ \A i \in 1..Len(data) : Laid(h, data)[i + 1] = data[i]
  <1> DEFINE a == <<h>> \o data
             b == <<Nul>>
  <1>1. <<h>> \in Seq(FileCells) /\ Len(<<h>>) = 1 /\ <<h>>[1] = h
    BY DEF FileCells
  <1>2. data \in Seq(FileCells) /\ Len(data) \in Nat
    BY DEF FileCells
  <1>3. b \in Seq(FileCells) /\ Len(b) = 1 /\ b[1] = Nul
    BY DEF FileCells
  <1>4. /\ a \in Seq(FileCells) /\ Len(a) = 1 + Len(data)
        /\ a[1] = h /\ \A i \in 1..Len(data) : a[1 + i] = data[i]
    BY <1>1, <1>2, ConcatProperties
  <1> HIDE DEF a, b
  <1> DEFINE c == a \o b
  <1>5. /\ c \in Seq(FileCells) /\ Len(c) = Len(a) + Len(b)
        /\ \A i \in 1..(Len(a) + Len(b)) : c[i] = IF i <= Len(a) THEN a[i] ELSE b[i - Len(a)]
    BY <1>3, <1>4, ConcatProperties
  <1>6. Laid(h, data) = c
    BY DEF Laid, a, b
  <1> HIDE DEF c
  <1> DEFINE n == Len(data) + 1
  <1>7. n \in Nat /\ Len(a) = n /\ Len(b) = 1 /\ b[1] = Nul
    BY <1>2, <1>3, <1>4
  <1>8. \A i \in 1..Len(data) : 1 + i \in 1..n /\ i + 1 = 1 + i
    BY <1>2
  <1>9. 1 \in 1..n /\ n + 1 = Len(data) + 2
    BY <1>2
  <1> HIDE DEF n
  <1>10. \A i \in 1..n : c[i] = a[i]
    <2> SUFFICES ASSUME NEW i \in 1..n PROVE c[i] = a[i]
      OBVIOUS
    <2>1. i \in 1..(n + 1) /\ i <= n
      BY <1>7
    <2>. QED
      BY <1>5, <1>7, <2>1
  <1>11. c[n + 1] = Nul
    <2> DEFINE k == n + 1
    <2>1. k \in 1..(n + 1) /\ ~(k <= n) /\ k - n = 1
      BY <1>7
    <2> HIDE DEF k
    <2>2. c[k] = b[k - n]
      BY <1>5, <1>7, <2>1
    <2>. QED
      BY <1>7, <2>1, <2>2 DEF k
  <1>12. Len(c) = Len(data) + 2
    BY <1>5, <1>7, <1>9
  <1>. QED
    BY <1>4, <1>5, <1>6, <1>8, <1>9, <1>10, <1>11, <1>12

\* A synchronous block is laid out as the others.
LEMMA SyncIs ==
    ASSUME NEW data \in Seq({Datum}), NEW h \in Headers, h.len = Len(data),
           h = LogLenUpdated(HeaderInfo, Len(data))
    PROVE  CryptSyncLog(data) = Laid(h, data)
  <1> DEFINE n == Len(data) + 2
             block == Laid(h, data)
             q == ((n + UnitSize - 1) \div UnitSize) * UnitSize
             fit == FitSize(Fresh, 0 + n)
             made == AllocWrite(Fresh, n, TRUE)
             z == Zeros(q)
             mem == Over(z, 0, block)
  <1>1. n \in Nat /\ n > 0
    OBVIOUS
  <1>2. block \in Seq(FileCells) /\ Len(block) = n
    BY LaidIs
  <1> HIDE DEF n, block
  <1>3. q \in Nat /\ q >= n
    BY <1>1, UnitsCover
  <1> HIDE DEF q
  <1>4. z \in Seq(Bytes) /\ Len(z) = q
    BY <1>3, ZerosAre
  <1> HIDE DEF z
  <1>5. fit = [parray |-> z, pos |-> 0, length |-> 0]
    <2>1. 0 + n = n /\ ~(n <= Capacity(Fresh)) /\ q - Capacity(Fresh) = q
      BY <1>1, <1>3 DEF Fresh, Capacity
    <2>2. fit = [Fresh EXCEPT !.parray = <<>> \o z]
      BY <2>1 DEF FitSize, Fresh, q, z
    <2>3. <<>> \o z = z
      BY <1>4
    <2>. QED
      BY <2>2, <2>3 DEF Fresh
  <1> HIDE DEF fit
  <1>6. made = [parray |-> z, pos |-> 0, length |-> n]
    <2>1. made = [fit EXCEPT !.length = Most(0 + n, fit.length)]
      BY DEF AllocWrite, Fresh, fit
    <2>2. Most(0 + n, 0) = n
      BY <1>1 DEF Most
    <2>. QED
      BY <1>5, <2>1, <2>2
  <1> HIDE DEF made
  <1>7. CryptSyncLog(data) = SubSeq(mem, 1, n)
    <2>1. CryptSyncLog(data) = Content([made EXCEPT !.parray = Over(@, 0, block)])
      BY DEF CryptSyncLog, made, n, block
    <2>2. [made EXCEPT !.parray = Over(@, 0, block)] = [parray |-> mem, pos |-> 0, length |-> n]
      BY <1>6
    <2> HIDE DEF mem
    <2>. QED
      BY <2>1, <2>2 DEF Content
  <1>8. mem \in [1..q -> FileCells] /\ \A i \in 1..n : mem[i] = block[i]
    <2>1. DOMAIN z = 1..q /\ DOMAIN block = 1..n
      BY <1>2, <1>4
    <2>2. \A i \in 1..q : z[i] \in FileCells
      BY <1>4 DEF Bytes, FileCells
    <2>3. \A i \in 1..n : block[i] \in FileCells
      BY <1>2
    <2>4. mem = [i \in 1..q |-> IF i \in 1..n THEN block[i] ELSE z[i]]
      <3>1. \A i \in 1..q : i - 0 = i
        BY <1>3
      <3>. QED
        BY <2>1, <3>1 DEF Over
    <2> HIDE DEF mem
    <2>5. \A i \in 1..q : (IF i \in 1..n THEN block[i] ELSE z[i]) \in FileCells
      BY <2>2, <2>3
    <2>6. \A i \in 1..n : i \in 1..q
      BY <1>1, <1>3
    <2>. QED
      BY <2>4, <2>5, <2>6
  <1> HIDE DEF mem
  <1>9. mem \in Seq(FileCells) /\ Len(mem) = q
    BY <1>3, <1>8
  <1>10. /\ SubSeq(mem, 1, n) \in Seq(FileCells) /\ Len(SubSeq(mem, 1, n)) = n
         /\ \A i \in 1..n : SubSeq(mem, 1, n)[i] = mem[i]
    <2>1. \A i \in 1..n : mem[i] \in FileCells
      BY <1>2, <1>8
    <2>2. 1 <= n /\ n - 1 + 1 = n /\ \A i \in 1..n : 1 + i - 1 = i
      BY <1>1
    <2>3. /\ SubSeq(mem, 1, n) \in Seq(FileCells)
          /\ Len(SubSeq(mem, 1, n)) = IF 1 <= n THEN n - 1 + 1 ELSE 0
          /\ \A i \in 1..(n - 1 + 1) : SubSeq(mem, 1, n)[i] = mem[1 + i - 1]
      BY <1>1, <2>1, SubSeqProperties
    <2>. QED
      BY <2>2, <2>3
  <1> DEFINE s == SubSeq(mem, 1, n)
  <1> HIDE DEF s
  <1>11. s = block
    <2>1. s \in Seq(FileCells) /\ Len(s) = n /\ \A i \in 1..n : s[i] = block[i]
      BY <1>8, <1>10 DEF s
    <2>. QED
      BY <1>1, <1>2, <2>1
  <1>. QED
    BY <1>7, <1>11 DEF s, block

\* What is written goes behind what is there.
LEMMA PutKeeps ==
    ASSUME XlogInv, NEW written \in Seq(FileCells), logfile' = logfile \o written,
           wholes' = wholes, overnight' = overnight, hour' = hour
    PROVE  /\ logfile' \in Seq(FileCells) /\ wholes' \in SUBSET Nat
           /\ Apart' /\ InTime'
  <1> DEFINE file == logfile
             next == logfile \o written
  <1>1. file \in Seq(FileCells) /\ wholes \in SUBSET Nat
    BY DEF XlogInv, XTypes
  <1>2. ApartIn(file, wholes)
    BY ApartIs DEF XlogInv
  <1>3. ~overnight => InTimeIn(file, wholes, hour)
    BY InTimeIs DEF XlogInv
  <1>4. /\ next \in Seq(FileCells) /\ Len(next) = Len(file) + Len(written)
        /\ Len(file) \in Nat /\ Len(written) \in Nat
    BY <1>1, ConcatProperties
  <1>5. \A p \in wholes : next[p + 1] = file[p + 1] /\ AcceptedIn(next, p) /\ p + 1 <= Len(file)
    <2> SUFFICES ASSUME NEW p \in wholes
                 PROVE  next[p + 1] = file[p + 1] /\ AcceptedIn(next, p) /\ p + 1 <= Len(file)
      OBVIOUS
    <2>1. p \in Nat /\ p + 1 <= Len(file) /\ AcceptedIn(file, p)
      BY <1>1, <1>2 DEF ApartIn
    <2>. QED
      BY <1>1, <2>1, Grows
  <1> HIDE DEF file, next
  <1>6. ApartIn(next, wholes)
    <2>1. \A p \in wholes : p + 1 <= Len(next)
      BY <1>1, <1>4, <1>5
    <2>. QED
      BY <1>2, <1>5, <2>1 DEF ApartIn
  <1>7. ~overnight => InTimeIn(next, wholes, hour)
    BY <1>3, <1>5 DEF InTimeIn
  <1>8. logfile' = next
    BY DEF next
  <1>9. Apart'
    BY <1>6, <1>8, ApartIs
  <1>10. InTime'
    BY <1>7, <1>8, InTimeIs
  <1>. QED
    BY <1>1, <1>4, <1>8, <1>9, <1>10

\* So does a whole block.
LEMMA PutWholeKeeps ==
    ASSUME XlogInv, NEW h \in Headers, NEW data \in Seq({Datum}), h.len = Len(data), h.end = hour,
           logfile' = logfile \o Laid(h, data),
           wholes' = wholes \cup {Len(logfile)}, overnight' = overnight, hour' = hour
    PROVE  /\ logfile' \in Seq(FileCells) /\ wholes' \in SUBSET Nat
           /\ Apart' /\ InTime'
  <1> DEFINE file == logfile
             block == Laid(h, data)
             next == file \o block
             n == Len(file)
             d == Len(data)
             more == wholes \cup {n}
  <1>1. file \in Seq(FileCells) /\ wholes \in SUBSET Nat /\ n \in Nat /\ hour \in Hours /\ d \in Nat
    BY DEF XlogInv, XTypes
  <1>2. ApartIn(file, wholes)
    BY ApartIs DEF XlogInv
  <1>3. ~overnight => InTimeIn(file, wholes, hour)
    BY InTimeIs DEF XlogInv
  <1>4. /\ block \in Seq(FileCells) /\ Len(block) = d + 2
        /\ block[1] = h /\ block[d + 2] = Nul
    BY LaidIs
  <1> HIDE DEF block
  <1>5. /\ next \in Seq(FileCells) /\ Len(next) = n + (d + 2)
        /\ \A i \in 1..(d + 2) : next[n + i] = block[i]
    <2>1. /\ next \in Seq(FileCells) /\ Len(next) = Len(file) + Len(block)
          /\ \A i \in 1..Len(block) : next[Len(file) + i] = block[i]
      <3> HIDE DEF file
      <3>1. file \in Seq(FileCells) /\ block \in Seq(FileCells)
        BY <1>1, <1>4
      <3>. QED
        BY <3>1, ConcatProperties
    <2>. QED
      BY <1>4, <2>1
  <1>6. \A p \in wholes : /\ next[p + 1] = file[p + 1] /\ AcceptedIn(next, p)
                          /\ p \in Nat /\ file[p + 1] \in Headers
                          /\ p + file[p + 1].len + 2 <= n
    <2> SUFFICES ASSUME NEW p \in wholes
                 PROVE  /\ next[p + 1] = file[p + 1] /\ AcceptedIn(next, p)
                        /\ p \in Nat /\ file[p + 1] \in Headers
                        /\ p + file[p + 1].len + 2 <= n
      OBVIOUS
    <2>1. p \in Nat /\ p + 1 <= Len(file) /\ AcceptedIn(file, p)
      BY <1>1, <1>2 DEF ApartIn
    <2>. QED
      BY <1>1, <1>4, <2>1, Grows
  <1> HIDE DEF file, next, n
  <1>7. next[n + 1] = h /\ AcceptedIn(next, n)
    <2>1. next[n + 1] = h
      <3>1. 1 \in 1..(d + 2)
        BY <1>1
      <3>. QED
        BY <1>4, <1>5, <3>1
    <2>2. next[n + d + 2] = Nul
      <3>1. d + 2 \in 1..(d + 2) /\ n + (d + 2) = n + d + 2
        BY <1>1
      <3>2. next[n + (d + 2)] = block[d + 2]
        BY <1>5, <3>1
      <3>. QED
        BY <1>4, <3>1, <3>2
    <2>3. n + d + 2 <= Len(next)
      BY <1>1, <1>5
    <2>4. IsHeader(h)
      BY XlogAssumption
    <2>. QED
      BY <2>1, <2>2, <2>3, <2>4 DEF AcceptedIn
  <1> HIDE DEF d
  <1>8. \A p \in wholes : p < n /\ p + 1 <= n /\ next[p + 1].len \in Nat
    <2> SUFFICES ASSUME NEW p \in wholes PROVE p < n /\ p + 1 <= n /\ next[p + 1].len \in Nat
      OBVIOUS
    <2>1. file[p + 1].len \in Nat
      BY <1>6, XlogAssumption DEF Headers
    <2>. QED
      BY <1>1, <1>6, <2>1, SMTT(30)
  <1>9. ApartIn(next, more)
    <2>1. \A p \in more : p + 1 <= Len(next) /\ AcceptedIn(next, p)
      <3>1. \A p \in wholes : p + 1 <= Len(next)
        BY <1>1, <1>5, <1>6, <1>8
      <3>2. n + 1 <= Len(next)
        BY <1>1, <1>5
      <3>. QED
        BY <1>6, <1>7, <3>1, <3>2
    <2>2. ASSUME NEW p \in more, NEW q \in more, p < q
          PROVE  p + next[p + 1].len + 2 <= q
      <3>1. CASE q = n
        <4>1. p \in wholes
          BY <1>1, <2>2, <3>1
        <4>. QED
          BY <1>6, <3>1, <4>1
      <3>2. CASE q \in wholes
        <4>1. p # n
          BY <1>1, <1>6, <1>8, <2>2, <3>2
        <4>2. p \in wholes
          BY <4>1
        <4>3. p + file[p + 1].len + 2 <= q
          BY <1>2, <2>2, <3>2, <4>2 DEF ApartIn
        <4>. QED
          BY <1>6, <4>2, <4>3
      <3>. QED
        BY <3>1, <3>2
    <2>. QED
      BY <2>1, <2>2 DEF ApartIn
  <1>10. ASSUME ~overnight PROVE InTimeIn(next, more, hour)
    <2>1. InTimeIn(file, wholes, hour) /\ hour \in Nat
      BY <1>1, <1>3, <1>10, XlogAssumption DEF Hours
    <2>2. \A p \in more : next[p + 1].end <= hour
      <3>1. \A p \in wholes : next[p + 1].end <= hour
        BY <1>6, <2>1 DEF InTimeIn
      <3>2. next[n + 1].end <= hour
        BY <1>7, <2>1
      <3>. QED
        BY <3>1, <3>2
    <2>3. ASSUME NEW p \in more, NEW q \in more, p <= q
          PROVE  next[p + 1].end <= next[q + 1].end
      <3>1. CASE q = n
        <4>1. next[q + 1].end = hour
          BY <1>7, <3>1
        <4>. QED
          BY <2>2, <4>1
      <3>2. CASE q \in wholes
        <4>1. p # n
          BY <1>1, <1>6, <1>8, <2>3, <3>2
        <4>2. p \in wholes
          BY <4>1
        <4>. QED
          BY <1>6, <2>1, <2>3, <3>2, <4>2 DEF InTimeIn
      <3>. QED
        BY <3>1, <3>2
    <2>. QED
      BY <2>2, <2>3 DEF InTimeIn
  <1>11. logfile' = next /\ wholes' = more
    BY DEF next, n, file, block
  <1> HIDE DEF more
  <1>12. Apart'
    BY <1>9, <1>11, ApartIs
  <1>13. InTime'
    BY <1>10, <1>11, InTimeIs
  <1>14. more \in SUBSET Nat
    BY <1>1 DEF more
  <1>. QED
    BY <1>5, <1>11, <1>12, <1>13, <1>14

\* A new file has none.
LEMMA OtherFileKeeps ==
    ASSUME OtherFile
    PROVE  logfile' \in Seq(FileCells) /\ wholes' \in SUBSET Nat /\ Apart' /\ InTime'
           /\ overnight' \in BOOLEAN
  <1>1. logfile' = <<>> /\ wholes' = {} /\ overnight' = FALSE
    BY DEF OtherFile
  <1>2. ApartIn(logfile', wholes') /\ InTimeIn(logfile', wholes', hour')
    BY <1>1 DEF ApartIn, InTimeIn
  <1>3. Apart'
    BY <1>2, ApartIs
  <1>4. InTime'
    BY <1>2, InTimeIs
  <1>5. logfile' \in Seq(FileCells) /\ wholes' \in SUBSET Nat
    BY <1>1
  <1>6. overnight' \in BOOLEAN
    BY <1>1
  <1>. QED
    BY <1>3, <1>4, <1>5, <1>6

\* The headers and blocks there are.
LEMMA FlushedIs ==
    ASSUME XTypes, buffered # NoBlock
    PROVE  /\ LogHourUpdated(buffered.header) \in Headers
           /\ LogHourUpdated(buffered.header).len = Len(buffered.data)
           /\ LogHourUpdated(buffered.header).end = hour
           /\ Flushed \in Seq(FileCells)
           /\ Len(Flushed) \in Nat /\ Len(Flushed) = Len(buffered.data) + 2
  <1> DEFINE h == LogHourUpdated(buffered.header)
             b == buffered.header
  <1>1. /\ b \in [magic : {"none", "plain", "crypt"}, begin : Hours, end : Hours, len : 0..MaxData]
        /\ b.magic # "none" /\ b.len = Len(buffered.data) /\ hour \in Hours
        /\ buffered.data \in Seq({Datum})
    BY DEF XTypes
  <1>2. h = [b EXCEPT !.end = hour]
    BY DEF LogHourUpdated
  <1> HIDE DEF b, h
  <1>3. h = [magic |-> b.magic, begin |-> b.begin, end |-> hour, len |-> b.len]
    BY <1>1, <1>2
  <1>4. h \in Headers /\ h.len = Len(buffered.data) /\ h.end = hour
    BY <1>1, <1>3 DEF Headers
  <1>5. Flushed = Laid(h, buffered.data)
    BY DEF Flushed, h
  <1>6. Flushed \in Seq(FileCells) /\ Len(Flushed) = Len(buffered.data) + 2
    BY <1>1, <1>4, <1>5, LaidIs
  <1>. QED
    BY <1>1, <1>4, <1>6 DEF h

\* No block, as a value of the mapped buffer.
LEMMA NoBlockIs ==
    /\ NoBlock = [header |-> NoBlock.header, data |-> NoBlock.data]
    /\ NoBlock.header \in [magic : {"none", "plain", "crypt"}, begin : Hours, end : Hours,
                           len : 0..MaxData]
    /\ NoBlock.header.len = Len(NoBlock.data) /\ NoBlock.data \in Seq({Datum})
  <1>1. NoBlock.data = <<>> /\ NoBlock = [header |-> NoBlock.header, data |-> NoBlock.data]
        /\ NoBlock.header = [magic |-> "none", begin |-> 0, end |-> 0, len |-> 0]
    BY DEF NoBlock
  <1>2. 0 \in Hours /\ 0 \in 0..MaxData
    BY XlogAssumption DEF Hours
  <1>. QED
    BY <1>1, <1>2

\* A step that keeps or clears the mapped buffer keeps the types.
LEMMA BufferedSame ==
    ASSUME XTypes, buffered' = buffered \/ buffered' = NoBlock, hour' \in Hours,
           crypted' \in BOOLEAN, overnight' \in BOOLEAN, logfile' \in Seq(FileCells),
           wholes' \in SUBSET Nat
    PROVE  XTypes'
  <1>1. CASE buffered' = buffered
    BY <1>1 DEF XTypes
  <1>2. CASE buffered' = NoBlock
    BY <1>2, NoBlockIs DEF XTypes
  <1>. QED
    BY <1>1, <1>2

\* Every step keeps the invariant.
LEMMA XlogStep == XlogInv /\ [XlogNext]_xlogVars => XlogInv'
  <1> SUFFICES ASSUME XlogInv, [XlogNext]_xlogVars PROVE XlogInv'
    OBVIOUS
  <1>0. XTypes /\ Apart /\ InTime
    BY DEF XlogInv
  <1>1. hour \in Hours /\ hour \in Nat /\ crypted \in BOOLEAN /\ overnight \in BOOLEAN
        /\ logfile \in Seq(FileCells) /\ wholes \in SUBSET Nat
        /\ LastHour \in Nat
    BY <1>0, XlogAssumption DEF XTypes, Hours
  <1>2. ASSUME logfile' = logfile, wholes' = wholes, overnight' = overnight,
               hour' = hour \/ hour' = hour + 1
        PROVE  Apart' /\ InTime'
    <2>1. Apart'
      BY <1>0, <1>2, ApartIs
    <2>2. InTimeIn(logfile, wholes, hour) => InTimeIn(logfile, wholes, hour')
      <3>1. \A p \in wholes : logfile[p + 1].end \in Nat
        <4> SUFFICES ASSUME NEW p \in wholes PROVE logfile[p + 1].end \in Nat
          OBVIOUS
        <4>1. p \in Nat /\ p + 1 <= Len(logfile) /\ AcceptedIn(logfile, p)
          BY <1>0, <1>1, ApartIs DEF ApartIn
        <4>2. logfile[p + 1] \in Headers
          BY <1>1, <4>1, Grows
        <4>. QED
          BY <4>2, XlogAssumption DEF Headers, Hours
      <3>2. hour' \in Nat /\ hour <= hour'
        BY <1>1, <1>2
      <3>3. ASSUME NEW p \in wholes, logfile[p + 1].end <= hour
            PROVE  logfile[p + 1].end <= hour'
        BY <1>1, <3>1, <3>2, <3>3
      <3>. QED
        BY <3>3 DEF InTimeIn
    <2>3. InTime'
      BY <1>0, <1>2, <2>2, InTimeIs
    <2>. QED
      BY <2>1, <2>3
  <1>3. CASE Tick
    <2>1. hour' = hour + 1 /\ hour' \in Hours /\ crypted' = crypted /\ buffered' = buffered
          /\ logfile' = logfile /\ wholes' = wholes /\ overnight' = overnight
      BY <1>1, <1>3 DEF Tick, Hours, fileVars
    <2>2. XTypes'
      BY <1>0, <1>1, <2>1, BufferedSame
    <2>. QED
      BY <1>2, <2>1, <2>2 DEF XlogInv
  <1>4. CASE Midnight
    <2>1. hour' = 0 /\ 0 \in Hours /\ crypted' = crypted /\ buffered' = buffered
          /\ logfile' = logfile /\ wholes' = wholes
      BY <1>1, <1>4 DEF Midnight, Hours
    <2>2. (overnight' <=> logfile # <<>>) /\ overnight' \in BOOLEAN
      BY <1>4 DEF Midnight
    <2>3. XTypes'
      BY <1>0, <1>1, <2>1, <2>2, BufferedSame
    <2>4. Apart'
      BY <1>0, <2>1, ApartIs
    <2>5. logfile = <<>> => wholes = {}
      <3> SUFFICES ASSUME logfile = <<>>, NEW p \in wholes PROVE FALSE
        OBVIOUS
      <3>1. p \in Nat /\ p + 1 <= Len(logfile)
        BY <1>0, <1>1 DEF Apart
      <3>. QED
        BY <3>1
    <2>6. ~overnight' => InTimeIn(logfile', wholes', hour')
      BY <2>1, <2>2, <2>5 DEF InTimeIn
    <2>7. InTime'
      BY <2>6, InTimeIs
    <2>. QED
      BY <2>3, <2>4, <2>7 DEF XlogInv
  <1>5. CASE NewFile
    <2>1. OtherFile /\ hour' = hour /\ crypted' = crypted /\ buffered' = buffered
      BY <1>5 DEF NewFile
    <2>2. logfile' \in Seq(FileCells) /\ wholes' \in SUBSET Nat /\ Apart' /\ InTime'
          /\ overnight' \in BOOLEAN
      BY <2>1, OtherFileKeeps
    <2>3. XTypes'
      BY <1>0, <1>1, <2>1, <2>2, BufferedSame
    <2>. QED
      BY <2>2, <2>3 DEF XlogInv
  <1>6. CASE FlushBlock
    <2>1. buffered # NoBlock /\ PutWhole(Flushed) /\ buffered' = NoBlock
          /\ hour' = hour /\ crypted' = crypted
      BY <1>6 DEF FlushBlock
    <2> DEFINE h == LogHourUpdated(buffered.header)
               d == buffered.data
    <2>2. h \in Headers /\ h.len = Len(d) /\ h.end = hour
      BY <1>0, <2>1, FlushedIs
    <2>3. d \in Seq({Datum})
      BY <1>0 DEF XTypes
    <2>4. Flushed = Laid(h, d)
      BY DEF Flushed
    <2>5. logfile' = logfile \o Laid(h, d) /\ wholes' = wholes \cup {Len(logfile)}
          /\ overnight' = overnight
      BY <2>1, <2>4 DEF PutWhole, Put
    <2> HIDE DEF h, d
    <2>6. logfile' \in Seq(FileCells) /\ wholes' \in SUBSET Nat /\ Apart' /\ InTime'
      BY <2>1, <2>2, <2>3, <2>5, PutWholeKeeps
    <2>7. XTypes'
      BY <1>0, <1>1, <2>1, <2>5, <2>6, BufferedSame
    <2>. QED
      BY <2>6, <2>7 DEF XlogInv
  <1>7. CASE FlushBare
    <2>1. Put(buffered.data) /\ buffered' = NoBlock /\ wholes' = wholes
          /\ hour' = hour /\ crypted' = crypted
      BY <1>7 DEF FlushBare
    <2>2. buffered.data \in Seq(FileCells)
      BY <1>0 DEF XTypes, FileCells
    <2>3. logfile' = logfile \o buffered.data /\ overnight' = overnight
      BY <2>1 DEF Put
    <2>4. logfile' \in Seq(FileCells) /\ wholes' \in SUBSET Nat /\ Apart' /\ InTime'
      BY <2>1, <2>2, <2>3, PutKeeps
    <2>5. XTypes'
      BY <1>0, <1>1, <2>1, <2>3, <2>4, BufferedSame
    <2>. QED
      BY <2>4, <2>5 DEF XlogInv
  <1>8. CASE Die
    <2>1. hour' = hour /\ crypted' = crypted
      BY <1>8 DEF Die
    <2>2. CASE UNCHANGED <<buffered, fileVars>>
      <3>1. buffered' = buffered /\ logfile' = logfile /\ wholes' = wholes
            /\ overnight' = overnight
        BY <2>2 DEF fileVars
      <3>2. XTypes'
        BY <1>0, <1>1, <2>1, <3>1, BufferedSame
      <3>. QED
        BY <1>2, <2>1, <3>1, <3>2 DEF XlogInv
    <2>3. CASE buffered # NoBlock /\ buffered' = NoBlock /\ wholes' = wholes
               /\ \E n \in 1..(Len(Flushed) - 1) : Put(SubSeq(Flushed, 1, n))
      <3>1. PICK n \in 1..(Len(Flushed) - 1) : Put(SubSeq(Flushed, 1, n))
        BY <2>3
      <3> DEFINE s == SubSeq(Flushed, 1, n)
      <3>2. Flushed \in Seq(FileCells) /\ Len(Flushed) \in Nat
        BY <1>0, <2>3, FlushedIs
      <3>3. s \in Seq(FileCells)
        <4>1. n \in Int /\ \A i \in 1..n : Flushed[i] \in FileCells
          BY <3>2
        <4>. QED
          BY <4>1, SubSeqProperties
      <3>4. logfile' = logfile \o s /\ overnight' = overnight
        BY <3>1 DEF Put
      <3> HIDE DEF s
      <3>5. logfile' \in Seq(FileCells) /\ wholes' \in SUBSET Nat /\ Apart' /\ InTime'
        BY <2>1, <2>3, <3>3, <3>4, PutKeeps
      <3>6. XTypes'
        BY <1>0, <1>1, <2>1, <2>3, <3>4, <3>5, BufferedSame
      <3>. QED
        BY <3>5, <3>6 DEF XlogInv
    <2>. QED
      BY <1>8, <2>2, <2>3 DEF Die
  <1>9. CASE Restart
    <2>1. hour' = hour /\ crypted' \in BOOLEAN /\ buffered' = buffered
      BY <1>9 DEF Restart
    <2>2. CASE OtherFile
      <3>1. logfile' \in Seq(FileCells) /\ wholes' \in SUBSET Nat /\ Apart' /\ InTime'
            /\ overnight' \in BOOLEAN
        BY <2>2, OtherFileKeeps
      <3>2. XTypes'
        BY <1>0, <1>1, <2>1, <3>1, BufferedSame
      <3>. QED
        BY <3>1, <3>2 DEF XlogInv
    <2>3. CASE UNCHANGED fileVars
      <3>1. logfile' = logfile /\ wholes' = wholes /\ overnight' = overnight
        BY <2>3 DEF fileVars
      <3>2. XTypes'
        BY <1>0, <1>1, <2>1, <3>1, BufferedSame
      <3>. QED
        BY <1>2, <2>1, <3>1, <3>2 DEF XlogInv
    <2>. QED
      BY <1>9, <2>2, <2>3 DEF Restart
  <1>10. ASSUME NEW data \in Data, LogAsync(data) PROVE XlogInv'
    <2> DEFINE old  == IF buffered = NoBlock THEN HeaderInfo ELSE buffered.header
               next == LogLenUpdated(old, Len(data))
               both == buffered.data \o data
               Any  == [magic : {"none", "plain", "crypt"}, begin : Hours, end : Hours,
                        len : 0..MaxData]
    <2>1. /\ Len(buffered.data) + Len(data) <= MaxData
          /\ buffered' = [header |-> next, data |-> both]
          /\ hour' = hour /\ crypted' = crypted /\ logfile' = logfile /\ wholes' = wholes
          /\ overnight' = overnight
      BY <1>10 DEF LogAsync, fileVars
    <2>2. data \in Seq({Datum}) /\ Len(data) \in Nat
      <3>1. data = <<Datum>>
        BY DEF Data
      <3>. QED
        BY <3>1
    <2>3. buffered.data \in Seq({Datum}) /\ Len(buffered.data) \in Nat
      BY <1>0 DEF XTypes
    <2>4. both \in Seq({Datum}) /\ Len(both) = Len(buffered.data) + Len(data)
      BY <2>2, <2>3, ConcatProperties
    <2>5. old \in Any /\ old.magic # "none" /\ old.len = Len(buffered.data)
      <3>1. CASE buffered = NoBlock
        <4>1. old = HeaderInfo /\ Len(buffered.data) = 0
          BY <3>1 DEF NoBlock
        <4>2. 0 \in 0..MaxData
          BY XlogAssumption
        <4>. QED
          BY <1>1, <4>1, <4>2 DEF HeaderInfo
      <3>2. CASE buffered # NoBlock
        BY <1>0, <3>2 DEF XTypes
      <3>. QED
        BY <3>1, <3>2
    <2> HIDE DEF old, both
    <2>6. next = [magic |-> old.magic, begin |-> old.begin, end |-> old.end,
                  len |-> old.len + Len(data)]
      BY <2>5 DEF LogLenUpdated
    <2> HIDE DEF next
    <2>7. next \in Any /\ next.magic # "none" /\ next.len = Len(both)
      <3>1. old.len + Len(data) \in 0..MaxData
        BY <2>1, <2>2, <2>3, <2>5, XlogAssumption
      <3>. QED
        BY <2>4, <2>5, <2>6, <3>1
    <2>8. XTypes'
      <3>1. buffered'.header = next /\ buffered'.data = both
        BY <2>1
      <3>2. /\ buffered'.data \in Seq({Datum})
            /\ buffered' = [header |-> buffered'.header, data |-> buffered'.data]
            /\ buffered'.header \in Any /\ buffered'.header.len = Len(buffered'.data)
            /\ buffered'.header.magic # "none"
        BY <2>1, <2>4, <2>7, <3>1
      <3>. QED
        BY <1>1, <2>1, <3>2 DEF XTypes
    <2>. QED
      BY <1>2, <2>1, <2>8 DEF XlogInv
  <1>11. ASSUME NEW data \in Data, LogSync(data) PROVE XlogInv'
    <2>1. PutWhole(CryptSyncLog(data)) /\ buffered' = buffered
          /\ hour' = hour /\ crypted' = crypted
      BY <1>11 DEF LogSync
    <2> DEFINE h == LogLenUpdated(HeaderInfo, Len(data))
    <2>2. data \in Seq({Datum}) /\ Len(data) = 1
      BY DEF Data
    <2>3. h \in Headers /\ h.len = Len(data) /\ h.end = hour
      <3>1. h = [magic |-> IF crypted THEN "crypt" ELSE "plain", begin |-> hour, end |-> hour,
                 len |-> 1]
        BY <2>2 DEF LogLenUpdated, HeaderInfo
      <3>. QED
        BY <1>1, <2>2, <3>1, XlogAssumption DEF Headers
    <2>4. CryptSyncLog(data) = Laid(h, data)
      BY <2>2, <2>3, SyncIs
    <2>5. logfile' = logfile \o Laid(h, data) /\ wholes' = wholes \cup {Len(logfile)}
          /\ overnight' = overnight
      BY <2>1, <2>4 DEF PutWhole, Put
    <2> HIDE DEF h
    <2>6. logfile' \in Seq(FileCells) /\ wholes' \in SUBSET Nat /\ Apart' /\ InTime'
      BY <2>1, <2>2, <2>3, <2>5, PutWholeKeeps
    <2>7. XTypes'
      BY <1>0, <1>1, <2>1, <2>5, <2>6, BufferedSame
    <2>. QED
      BY <2>6, <2>7 DEF XlogInv
  <1>12. CASE UNCHANGED xlogVars
    <2>1. hour' = hour /\ crypted' = crypted /\ buffered' = buffered /\ logfile' = logfile
          /\ wholes' = wholes /\ overnight' = overnight
      BY <1>12 DEF xlogVars
    <2>2. XTypes'
      BY <1>0, <1>1, <2>1, BufferedSame
    <2>. QED
      BY <1>2, <2>1, <2>2 DEF XlogInv
  <1>. QED
    BY <1>3, <1>4, <1>5, <1>6, <1>7, <1>8, <1>9, <1>10, <1>11, <1>12 DEF XlogNext

\* There is nothing in a file at first.
LEMMA XlogBegins == XlogInit => XlogInv
  <1> SUFFICES ASSUME XlogInit PROVE XlogInv
    OBVIOUS
  <1>1. hour = 0 /\ crypted = TRUE /\ buffered = NoBlock /\ logfile = <<>> /\ overnight = FALSE
        /\ wholes = {}
    BY DEF XlogInit
  <1>2. 0 \in Hours /\ 0 \in 0..MaxData
    BY XlogAssumption DEF Hours
  <1>3. XTypes
    <2>1. hour \in Hours /\ logfile \in Seq(FileCells) /\ wholes \in SUBSET Nat
      BY <1>1, <1>2
    <2>2. crypted \in BOOLEAN /\ overnight \in BOOLEAN
      BY <1>1
    <2>. QED
      BY <1>1, <2>1, <2>2, NoBlockIs DEF XTypes
  <1>4. ApartIn(logfile, wholes) /\ InTimeIn(logfile, wholes, hour)
    BY <1>1 DEF ApartIn, InTimeIn
  <1>5. Apart
    BY <1>4, ApartIs
  <1>6. InTime
    BY <1>4, InTimeIs
  <1>. QED
    BY <1>3, <1>5, <1>6 DEF XlogInv

-----------------------------------------------------------------------------
(* Log files: what the reader meets                                        *)

\* Offset p is not inside of a block.
Outside(p) == \A q \in wholes : p <= q \/ After(q) <= p

\* From p on the loop meets blocks, one behind another, and misses none before
\* one that is not encrypted.
MetOK(p) ==
    /\ BlocksFrom[p] \in Seq(wholes)
    /\ \A i \in 1..Len(BlocksFrom[p]) : p <= BlocksFrom[p][i]
    /\ \A i, j \in 1..Len(BlocksFrom[p]) : i < j => After(BlocksFrom[p][i]) <= BlocksFrom[p][j]
    /\ \A q \in wholes :
          p <= q /\ (\A r \in wholes : p <= r /\ r <= q => logfile[r + 1].magic = "crypt") =>
             \E i \in 1..Len(BlocksFrom[p]) : BlocksFrom[p][i] = q

\* What the invariant says of one block.
LEMMA WholesAre ==
    ASSUME XlogInv, NEW p \in wholes
    PROVE  /\ p \in Nat /\ p + 2 <= Len(logfile) /\ Accepted(p) /\ Len(logfile) \in Nat
           /\ logfile[p + 1] \in Headers
           /\ After(p) \in Nat /\ After(p) >= p + 2 /\ After(p) <= Len(logfile)
  <1>1. XTypes /\ p \in Nat /\ p + 1 <= Len(logfile) /\ Accepted(p) /\ Len(logfile) \in Nat
    BY DEF XlogInv, XTypes, Apart
  <1>2. logfile \in Seq(FileCells)
    BY <1>1 DEF XTypes
  <1>3. AcceptedIn(logfile, p)
    BY ApartIs DEF XlogInv, ApartIn
  <1>4. logfile[p + 1] \in Headers /\ p + logfile[p + 1].len + 2 <= Len(logfile)
    BY <1>1, <1>2, <1>3, Grows
  <1>5. logfile[p + 1].len \in Nat
    BY <1>4, XlogAssumption DEF Headers
  <1>6. p + 2 <= Len(logfile)
    BY <1>1, <1>4, <1>5
  <1>. QED
    BY <1>1, <1>4, <1>6, AcceptedIs

\* At a block that is encrypted the loop takes it and goes on behind it.
LEMMA MetBlock ==
    ASSUME XlogInv, NEW p \in wholes, logfile[p + 1].magic = "crypt",
           Outside(After(p)) => MetOK(After(p))
    PROVE  MetOK(p)
  <1> DEFINE a == After(p)
             t == BlocksFrom[a]
             s == BlocksFrom[p]
  <1>1. XTypes /\ wholes \in SUBSET Nat
    BY DEF XlogInv, XTypes
  <1>2. p \in Nat /\ p + 2 <= Len(logfile) /\ Accepted(p) /\ Len(logfile) \in Nat
        /\ a \in Nat /\ a >= p + 2
    BY WholesAre
  <1>3. Outside(a)
    <2> SUFFICES ASSUME NEW q \in wholes PROVE a <= q \/ After(q) <= a
      BY DEF Outside
    <2>1. q \in Nat /\ After(q) \in Nat
      BY WholesAre
    <2>2. CASE q < p
      <3>1. After(q) <= p
        BY <2>2 DEF XlogInv, Apart
      <3>. QED
        BY <1>2, <2>1, <3>1
    <2>3. CASE q = p
      BY <1>2, <2>3
    <2>4. CASE p < q
      BY <2>4 DEF XlogInv, Apart
    <2>. QED
      BY <1>2, <2>1, <2>2, <2>3, <2>4
  <1>4. MetOK(a)
    BY <1>3
  <1>5. s = <<p>> \o t
    <2>1. ~(p + 2 > Len(logfile))
      BY <1>2
    <2>. QED
      BY <1>1, <1>2, <2>1, MetIs DEF MetBody
  <1>6. /\ t \in Seq(wholes) /\ \A i \in 1..Len(t) : a <= t[i]
        /\ \A i, j \in 1..Len(t) : i < j => After(t[i]) <= t[j]
        /\ \A q \in wholes :
              a <= q /\ (\A r \in wholes : a <= r /\ r <= q => logfile[r + 1].magic = "crypt") =>
                 \E i \in 1..Len(t) : t[i] = q
    BY <1>4 DEF MetOK
  <1> HIDE DEF s, t, a
  <1>7. /\ s \in Seq(wholes) /\ Len(s) = 1 + Len(t) /\ Len(t) \in Nat
        /\ s[1] = p /\ \A i \in 1..Len(t) : s[1 + i] = t[i]
    <2>1. <<p>> \in Seq(wholes) /\ Len(<<p>>) = 1 /\ <<p>>[1] = p /\ 1 \in 1..Len(<<p>>)
      OBVIOUS
    <2>2. /\ <<p>> \o t \in Seq(wholes) /\ Len(<<p>> \o t) = Len(<<p>>) + Len(t)
          /\ \A i \in 1..Len(<<p>>) : (<<p>> \o t)[i] = <<p>>[i]
          /\ \A i \in 1..Len(t) : (<<p>> \o t)[Len(<<p>>) + i] = t[i]
      BY <1>6, <2>1, ConcatProperties
    <2>. QED
      BY <1>5, <1>6, <2>1, <2>2
  <1>8. ASSUME NEW i \in 1..Len(s)
        PROVE  \/ i = 1 /\ s[i] = p
               \/ i - 1 \in 1..Len(t) /\ s[i] = t[i - 1] /\ a <= s[i] /\ i # 1
    <2>1. CASE i = 1
      BY <1>7, <2>1
    <2>2. CASE i # 1
      <3>1. i - 1 \in 1..Len(t) /\ 1 + (i - 1) = i
        BY <1>7, <2>2
      <3>2. s[i] = t[i - 1]
        BY <1>7, <3>1
      <3>. QED
        BY <1>6, <2>2, <3>1, <3>2
    <2>. QED
      BY <2>1, <2>2
  <1>9. \A i \in 1..Len(s) : p <= s[i]
    <2> SUFFICES ASSUME NEW i \in 1..Len(s) PROVE p <= s[i]
      OBVIOUS
    <2>1. s[i] \in wholes /\ s[i] \in Nat
      <3>1. s[i] \in wholes
        BY <1>7, ElementOfSeq
      <3>. QED
        BY <1>1, <3>1
    <2>. QED
      BY <1>2, <1>8, <2>1
  <1>10. ASSUME NEW i \in 1..Len(s), NEW j \in 1..Len(s), i < j PROVE After(s[i]) <= s[j]
    <2>1. j # 1 /\ j - 1 \in 1..Len(t) /\ s[j] = t[j - 1] /\ a <= s[j]
      BY <1>8, <1>10
    <2>2. CASE i = 1
      BY <1>7, <2>1, <2>2 DEF a
    <2>3. CASE i # 1
      <3>1. i - 1 \in 1..Len(t) /\ s[i] = t[i - 1] /\ i - 1 < j - 1
        BY <1>8, <1>10, <2>3
      <3>. QED
        BY <1>6, <2>1, <3>1
    <2>. QED
      BY <2>2, <2>3
  <1>11. ASSUME NEW q \in wholes, p <= q,
                \A r \in wholes : p <= r /\ r <= q => logfile[r + 1].magic = "crypt"
         PROVE  \E i \in 1..Len(s) : s[i] = q
    <2>1. q \in Nat
      BY <1>1
    <2>2. CASE q = p
      <3>1. 1 \in 1..Len(s)
        BY <1>7
      <3>. QED
        BY <1>7, <2>2, <3>1
    <2>3. CASE q # p
      <3>1. p < q
        BY <1>2, <1>11, <2>1, <2>3
      <3>2. a <= q
        BY <3>1 DEF XlogInv, Apart, a
      <3>3. \A r \in wholes : a <= r /\ r <= q => logfile[r + 1].magic = "crypt"
        BY <1>1, <1>2, <1>11
      <3>4. PICK i \in 1..Len(t) : t[i] = q
        BY <1>6, <3>2, <3>3
      <3>5. 1 + i \in 1..Len(s) /\ s[1 + i] = q
        BY <1>7, <3>4
      <3>. QED
        BY <3>5
    <2>. QED
      BY <2>2, <2>3
  <1>. QED
    BY <1>7, <1>9, <1>10, <1>11 DEF MetOK, s

\* Between blocks it goes on with the next offset.
LEMMA MetNone ==
    ASSUME XlogInv, NEW p \in Nat, p \notin wholes, p + 2 <= Len(logfile), ~Accepted(p),
           Outside(p), Outside(p + 1) => MetOK(p + 1)
    PROVE  MetOK(p)
  <1>1. XTypes /\ wholes \in SUBSET Nat
    BY DEF XlogInv, XTypes
  <1>2. \A q \in wholes : q \in Nat /\ After(q) \in Nat
    BY WholesAre
  <1>3. Outside(p + 1)
    BY <1>2 DEF Outside
  <1>4. MetOK(p + 1)
    BY <1>3
  <1>5. BlocksFrom[p] = BlocksFrom[p + 1]
    <2>1. ~(p + 2 > Len(logfile)) /\ NextTry(p) = p + 1
      BY <1>1 DEF XTypes, NextTry
    <2>. QED
      BY <1>1, <2>1, MetIs DEF MetBody
  <1> DEFINE s == BlocksFrom[p]
  <1>6. /\ s \in Seq(wholes)
        /\ \A i \in 1..Len(s) : p + 1 <= s[i]
        /\ \A i, j \in 1..Len(s) : i < j => After(s[i]) <= s[j]
        /\ \A q \in wholes :
              p + 1 <= q /\ (\A r \in wholes : p + 1 <= r /\ r <= q =>
                                                  logfile[r + 1].magic = "crypt") =>
                 \E i \in 1..Len(s) : s[i] = q
    BY <1>4, <1>5 DEF MetOK
  <1> HIDE DEF s
  <1>7. \A i \in 1..Len(s) : p <= s[i]
    <2> SUFFICES ASSUME NEW i \in 1..Len(s) PROVE p <= s[i]
      OBVIOUS
    <2>1. s[i] \in Nat /\ p + 1 <= s[i]
      <3>1. s[i] \in wholes
        BY <1>6, ElementOfSeq
      <3>. QED
        BY <1>1, <1>6, <3>1
    <2>. QED
      BY <2>1
  <1>8. ASSUME NEW q \in wholes, p <= q,
               \A r \in wholes : p <= r /\ r <= q => logfile[r + 1].magic = "crypt"
        PROVE  \E i \in 1..Len(s) : s[i] = q
    <2>1. q \in Nat /\ q # p /\ p + 1 <= q
      BY <1>1, <1>8
    <2>2. \A r \in wholes : p + 1 <= r /\ r <= q => logfile[r + 1].magic = "crypt"
      BY <1>1, <1>8
    <2>. QED
      BY <1>6, <2>1, <2>2
  <1>. QED
    BY <1>6, <1>7, <1>8 DEF MetOK, s

\* So the loop, from the beginning of the file on, meets all that it can read,
\* unless something that is no block misleads it.
LEMMA MetAll ==
    ASSUME XlogInv, ~Misled PROVE MetOK(0)
  <1> DEFINE n == Len(logfile)
             S == {k \in Nat : \A p \in Nat : n < p + k /\ Outside(p) => MetOK(p)}
  <1>1. n \in Nat /\ XTypes /\ wholes \in SUBSET Nat
    BY DEF XlogInv, XTypes
  <1>2. ASSUME NEW p \in Nat, p + 2 > n PROVE MetOK(p)
    <2>1. BlocksFrom[p] = <<>>
      BY <1>1, <1>2, MetIs DEF MetBody
    <2>2. \A q \in wholes : ~(p <= q)
      <3> SUFFICES ASSUME NEW q \in wholes PROVE ~(p <= q)
        OBVIOUS
      <3>1. q \in Nat /\ q + 2 <= n
        BY WholesAre
      <3>. QED
        BY <1>1, <1>2, <3>1
    <2>3. /\ <<>> \in Seq(wholes) /\ Len(<<>>) = 0 /\ \A i \in 1..0 : FALSE
      OBVIOUS
    <2>. QED
      BY <2>1, <2>2, <2>3 DEF MetOK
  <1>3. 0 \in S
    <2>1. \A p \in Nat : n < p + 0 => p + 2 > n
      BY <1>1
    <2>. QED
      BY <1>2, <2>1
  <1>4. ASSUME NEW k \in Nat, k \in S PROVE k + 1 \in S
    <2> SUFFICES ASSUME NEW p \in Nat, n < p + (k + 1), Outside(p) PROVE MetOK(p)
      OBVIOUS
    <2>0. \A q \in Nat : q > p /\ Outside(q) => MetOK(q)
      <3> SUFFICES ASSUME NEW q \in Nat, q > p, Outside(q) PROVE MetOK(q)
        OBVIOUS
      <3>1. n < q + k
        BY <1>1
      <3>. QED
        BY <1>4, <3>1
    <2> HIDE DEF S
    <2>1. CASE p + 2 > n
      BY <1>2, <2>1
    <2>2. CASE ~(p + 2 > n) /\ p \notin wholes
      <3>1. p + 2 <= n /\ p \in 0..(n - 1)
        BY <1>1, <2>2
      <3>2. ~Accepted(p)
        BY <2>2, <3>1 DEF Misled
      <3>3. Outside(p + 1) => MetOK(p + 1)
        BY <2>0
      <3>. QED
        BY <2>2, <3>1, <3>2, <3>3, MetNone
    <2>3. CASE ~(p + 2 > n) /\ p \in wholes
      <3>1. Accepted(p) /\ After(p) \in Nat /\ After(p) > p /\ p + 2 <= n
        BY <2>3, WholesAre
      <3>2. CASE logfile[p + 1].magic = "crypt"
        BY <2>0, <2>3, <3>1, <3>2, MetBlock
      <3>3. CASE logfile[p + 1].magic # "crypt"
        <4>1. BlocksFrom[p] = <<>>
          BY <1>1, <2>3, <3>1, <3>3, MetIs DEF MetBody
        <4>2. \A q \in wholes : p <= q => ~(\A r \in wholes : p <= r /\ r <= q =>
                                                logfile[r + 1].magic = "crypt")
          BY <2>3, <3>3
        <4>3. /\ <<>> \in Seq(wholes) /\ Len(<<>>) = 0 /\ \A i \in 1..0 : FALSE
          OBVIOUS
        <4>. QED
          BY <4>1, <4>2, <4>3 DEF MetOK
      <3>. QED
        BY <3>2, <3>3
    <2>. QED
      BY <2>1, <2>2, <2>3
  <1> HIDE DEF S
  <1>5. n + 1 \in S
    BY <1>1, <1>3, <1>4, AllNumbers
  <1>6. \A p \in Nat : n < p + (n + 1) /\ Outside(p) => MetOK(p)
    BY <1>5 DEF S
  <1>7. n < 0 + (n + 1)
    BY <1>1
  <1>8. Outside(0)
    BY <1>1 DEF Outside
  <1>. QED
    BY <1>6, <1>7, <1>8

-----------------------------------------------------------------------------
(* Log files: the reader's case distinction on hours                       *)

\* An hour lies in block i, or between the end of the one before and its begin,
\* when the blocks' hours are B and E.
InBlock(B, E, h, i) == h > B[i] /\ h <= E[i]
InFront(B, E, h, i) == h > (IF i = 1 THEN -1 ELSE E[i - 1]) /\ h <= B[i]
Around(B, E, n, h) == {i \in 1..n : InBlock(B, E, h, i) \/ InFront(B, E, h, i)}

SortedHours(B, E, n) ==
    /\ B \in [1..n -> Nat] /\ E \in [1..n -> Nat]
    /\ \A i \in 1..n : B[i] <= E[i]
    /\ \A i, j \in 1..n : i <= j => E[i] <= E[j]

\* An hour is not behind the blocks it belongs to, and up to a block that ends
\* after it there is one.
LEMMA AroundIs ==
    ASSUME NEW n \in Nat, NEW B, NEW E, SortedHours(B, E, n), NEW h \in Nat
    PROVE  /\ \A i \in Around(B, E, n, h) : E[i] >= h
           /\ \A j \in 1..n : E[j] >= h => \E i \in Around(B, E, n, h) : i <= j
  <1>1. B \in [1..n -> Nat] /\ E \in [1..n -> Nat] /\ \A i \in 1..n : B[i] <= E[i]
    BY DEF SortedHours
  <1>2. ASSUME NEW i \in Around(B, E, n, h) PROVE E[i] >= h
    <2>1. i \in 1..n /\ B[i] \in Nat /\ E[i] \in Nat /\ B[i] <= E[i]
      BY <1>1 DEF Around
    <2>2. h <= E[i] \/ h <= B[i]
      BY DEF Around, InBlock, InFront
    <2>. QED
      BY <2>1, <2>2
  <1>3. ASSUME NEW j \in 1..n, E[j] >= h PROVE \E i \in Around(B, E, n, h) : i <= j
    <2> DEFINE S == {i \in 1..n : E[i] >= h}
    <2>1. S \in SUBSET Nat /\ j \in S
      BY <1>3
    <2>2. PICK i \in S : \A k \in S : i <= k
      BY <2>1, LeastOf
    <2>3. i \in 1..n /\ E[i] >= h /\ i <= j /\ E[i] \in Nat /\ B[i] \in Nat
      BY <1>1, <2>1, <2>2
    <2>4. h > (IF i = 1 THEN -1 ELSE E[i - 1])
      <3>1. CASE i = 1
        BY <3>1
      <3>2. CASE i # 1
        <4>1. i - 1 \in 1..n /\ ~(i <= i - 1)
          BY <2>3, <3>2
        <4>2. i - 1 \notin S
          BY <2>2, <4>1
        <4>3. ~(E[i - 1] >= h) /\ E[i - 1] \in Nat
          BY <1>1, <4>1, <4>2
        <4>. QED
          BY <3>2, <4>3
      <3>. QED
        BY <3>1, <3>2
    <2>5. InBlock(B, E, h, i) \/ InFront(B, E, h, i)
      BY <2>3, <2>4 DEF InBlock, InFront
    <2>6. i \in Around(B, E, n, h)
      BY <2>3, <2>5 DEF Around
    <2>. QED
      BY <2>3, <2>6
  <1>. QED
    BY <1>2, <1>3

\* A set of numbers up to n that is not empty has a greatest element.
LEMMA GreatestOf ==
    ASSUME NEW n \in Nat, NEW S \in SUBSET (1..n), S # {}
    PROVE  \E i \in S : \A j \in S : j <= i
  <1> DEFINE T == {n - i : i \in S}
  <1>1. T \in SUBSET Nat /\ T # {}
    <2>1. \A i \in S : n - i \in Nat
      OBVIOUS
    <2>2. PICK i \in S : TRUE
      OBVIOUS
    <2>3. n - i \in T
      OBVIOUS
    <2>. QED
      BY <2>1, <2>3
  <1>2. PICK t \in T : \A u \in T : t <= u
    BY <1>1, LeastOf
  <1>3. PICK i \in S : t = n - i
    OBVIOUS
  <1>4. ASSUME NEW j \in S PROVE j <= i
    <2>1. n - i <= n - j
      BY <1>2, <1>3
    <2>. QED
      BY <2>1
  <1>. QED
    BY <1>4

\* What the reader returns of blocks at offsets P, with ends A behind them, in a
\* file of size bytes.
FirstAround(B, E, n, from) ==
    CHOOSE i \in Around(B, E, n, from) : \A j \in Around(B, E, n, from) : i <= j
EndsFrom(B, E, n, from, to) ==
    {i \in 1..n : i >= FirstAround(B, E, n, from)
                  /\ (InBlock(B, E, to, i) \/ InFront(B, E, to, i))}
LastOf(S) == CHOOSE i \in S : \A j \in S : j <= i
EndOf(P, A, B, E, n, size, from, to) ==
    LET ends == EndsFrom(B, E, n, from, to)
        last == LastOf(ends)
    IN  IF to > (IF n + 1 = 1 THEN -1 ELSE E[n]) THEN size
        ELSE IF ends = {} THEN 0
        ELSE IF InBlock(B, E, to, last) THEN A[last]
        ELSE IF last = 1 THEN 0 ELSE A[last - 1]

\* Blocks one behind another in a file.
Placed(P, A, n, size) ==
    /\ P \in [1..n -> Nat] /\ A \in [1..n -> Nat] /\ size \in Nat
    /\ \A i \in 1..n : P[i] < A[i] /\ A[i] <= size
    /\ \A i, j \in 1..n : i < j => A[i] <= P[j]

\* Where the answer begins: not behind a block that ends after from.
LEMMA FirstIsAround ==
    ASSUME NEW n \in Nat, NEW B, NEW E, SortedHours(B, E, n), NEW from \in Nat,
           Around(B, E, n, from) # {}
    PROVE  /\ FirstAround(B, E, n, from) \in 1..n
           /\ E[FirstAround(B, E, n, from)] >= from
           /\ \A j \in 1..n : E[j] >= from => FirstAround(B, E, n, from) <= j
  <1> DEFINE S == Around(B, E, n, from)
             f == FirstAround(B, E, n, from)
  <1>1. S \in SUBSET (1..n) /\ S \in SUBSET Nat
    BY DEF Around
  <1>2. \E i \in S : \A j \in S : i <= j
    BY <1>1, LeastOf
  <1>3. f \in S /\ \A j \in S : f <= j
    BY <1>2 DEF FirstAround
  <1> HIDE DEF f
  <1>4. E[f] >= from
    BY <1>3, AroundIs
  <1>5. ASSUME NEW j \in 1..n, E[j] >= from PROVE f <= j
    <2>1. PICK i \in S : i <= j
      BY <1>5, AroundIs
    <2>2. f <= i /\ i \in Nat /\ f \in Nat
      BY <1>1, <1>3
    <2>. QED
      BY <2>1, <2>2
  <1> HIDE DEF S
  <1>. QED
    BY <1>1, <1>3, <1>4, <1>5 DEF f

\* Where it ends: behind every block from the first on that begins before to and
\* ends at from or later; and if it is not empty, there is one.
LEMMA EndIs ==
    ASSUME NEW n \in Nat, NEW B, NEW E, SortedHours(B, E, n), NEW P, NEW A, NEW size,
           Placed(P, A, n, size), NEW from \in Nat, NEW to \in Nat, from < to,
           Around(B, E, n, from) # {}
    PROVE  /\ \A j \in 1..n : E[j] >= from /\ B[j] < to =>
                 A[j] <= EndOf(P, A, B, E, n, size, from, to)
           /\ EndOf(P, A, B, E, n, size, from, to) > P[FirstAround(B, E, n, from)] =>
                 \E j \in 1..n : E[j] >= from /\ B[j] < to
  <1> DEFINE f    == FirstAround(B, E, n, from)
             ends == EndsFrom(B, E, n, from, to)
             l    == LastOf(ends)
             e    == EndOf(P, A, B, E, n, size, from, to)
  <1>1. /\ \A i \in 1..n : B[i] \in Nat /\ E[i] \in Nat /\ B[i] <= E[i]
        /\ \A i, j \in 1..n : i <= j => E[i] <= E[j]
    BY DEF SortedHours
  <1>2. /\ \A i \in 1..n : P[i] \in Nat /\ A[i] \in Nat /\ P[i] < A[i] /\ A[i] <= size
        /\ \A i, j \in 1..n : i < j => A[i] <= P[j]
        /\ size \in Nat
    BY DEF Placed
  <1>3. f \in 1..n /\ E[f] >= from /\ \A j \in 1..n : E[j] >= from => f <= j
    BY FirstIsAround
  <1>4. n + 1 # 1 /\ n \in 1..n /\ E[n] \in Nat
    BY <1>1, <1>3
  <1>5. ends = {i \in 1..n : i >= f /\ (InBlock(B, E, to, i) \/ InFront(B, E, to, i))}
    BY DEF EndsFrom
  <1>6. e = IF to > E[n] THEN size
            ELSE IF ends = {} THEN 0
            ELSE IF InBlock(B, E, to, l) THEN A[l]
            ELSE IF l = 1 THEN 0 ELSE A[l - 1]
    BY <1>4 DEF EndOf
  <1> HIDE DEF e, ends, f
  <1>7. CASE to > E[n]
    <2>1. e = size
      BY <1>6, <1>7
    <2>2. \A j \in 1..n : A[j] <= e
      BY <1>2, <2>1
    <2>3. E[f] >= from /\ B[f] < to
      <3>1. E[f] <= E[n] /\ B[f] <= E[f]
        BY <1>1, <1>3, <1>4
      <3>. QED
        BY <1>1, <1>3, <1>4, <1>7, <3>1
    <2>. QED
      BY <1>3, <2>2, <2>3 DEF e, f
  <1>8. CASE ~(to > E[n])
    <2>1. ends # {}
      <3>1. E[n] >= to
        BY <1>4, <1>8
      <3>2. PICK i \in Around(B, E, n, to) : i <= n
        BY <1>4, <3>1, AroundIs
      <3>3. i \in 1..n /\ E[i] >= to
        BY <3>2, AroundIs DEF Around
      <3>4. E[i] >= from
        BY <1>1, <3>3
      <3>5. i >= f
        BY <1>3, <3>3, <3>4
      <3>. QED
        BY <1>5, <3>2, <3>3, <3>5 DEF Around
    <2>2. l \in ends /\ \A j \in ends : j <= l
      <3>1. ends \in SUBSET (1..n)
        BY <1>5
      <3>2. \E i \in ends : \A j \in ends : j <= i
        BY <2>1, <3>1, GreatestOf
      <3>. QED
        BY <3>2 DEF LastOf
    <2> HIDE DEF l
    <2>3. l \in 1..n /\ l >= f /\ (InBlock(B, E, to, l) \/ InFront(B, E, to, l))
      BY <1>5, <2>2
    <2>4. E[l] >= to
      <3>1. l \in Around(B, E, n, to)
        BY <2>3 DEF Around
      <3>. QED
        BY <3>1, AroundIs
    <2>5. ASSUME NEW j \in 1..n, E[j] >= from, B[j] < to PROVE j <= l
      <3> SUFFICES ASSUME ~(j <= l) PROVE FALSE
        OBVIOUS
      <3>1. E[j] >= to
        <4>1. E[l] <= E[j]
          BY <1>1, <2>3
        <4>. QED
          BY <1>1, <2>3, <2>4, <4>1
      <3>2. InBlock(B, E, to, j)
        BY <1>1, <2>5, <3>1 DEF InBlock
      <3>3. j >= f
        BY <1>3, <2>5
      <3>4. j \in ends
        BY <1>5, <3>2, <3>3
      <3>. QED
        BY <2>2, <3>4
    <2>6. CASE InBlock(B, E, to, l)
      <3>1. e = A[l]
        BY <1>6, <1>8, <2>1, <2>6
      <3>2. ASSUME NEW j \in 1..n, E[j] >= from, B[j] < to PROVE A[j] <= e
        <4>1. j <= l
          BY <2>5, <3>2
        <4>2. CASE j = l
          BY <1>2, <3>1, <4>2
        <4>3. CASE j < l
          <5>1. A[j] <= P[l] /\ P[l] < A[l]
            BY <1>2, <2>3, <4>3
          <5>. QED
            BY <1>2, <2>3, <3>1, <5>1
        <4>. QED
          BY <2>3, <4>1, <4>2, <4>3
      <3>3. E[l] >= from /\ B[l] < to
        BY <1>1, <2>3, <2>4, <2>6 DEF InBlock
      <3>. QED
        BY <2>3, <3>2, <3>3 DEF e
    <2>7. CASE ~InBlock(B, E, to, l)
      <3>1. e = IF l = 1 THEN 0 ELSE A[l - 1]
        BY <1>6, <1>8, <2>1, <2>7
      <3>2. to <= B[l] /\ to > (IF l = 1 THEN -1 ELSE E[l - 1])
        BY <2>3, <2>7 DEF InFront
      <3>3. ASSUME NEW j \in 1..n, E[j] >= from, B[j] < to PROVE A[j] <= e
        <4>1. j # l /\ j <= l
          BY <1>1, <2>3, <2>5, <3>2, <3>3
        <4>2. l - 1 \in 1..n /\ l # 1 /\ j <= l - 1
          BY <2>3, <4>1
        <4>3. e = A[l - 1]
          BY <3>1, <4>2
        <4>4. CASE j = l - 1
          BY <1>2, <4>3, <4>4
        <4>5. CASE j < l - 1
          <5>1. A[j] <= P[l - 1] /\ P[l - 1] < A[l - 1]
            BY <1>2, <4>2, <4>5
          <5>. QED
            BY <1>2, <4>2, <4>3, <5>1
        <4>. QED
          BY <4>2, <4>4, <4>5
      <3>4. ASSUME e > P[f] PROVE E[f] >= from /\ B[f] < to
        <4>1. l # 1
          BY <1>2, <1>3, <3>1, <3>4
        <4>2. l - 1 \in 1..n /\ e = A[l - 1] /\ to > E[l - 1]
          BY <2>3, <3>1, <3>2, <4>1
        <4>3. l # f
          <5> SUFFICES ASSUME l = f PROVE FALSE
            OBVIOUS
          <5>1. A[l - 1] <= P[l]
            BY <1>2, <2>3, <4>2
          <5>. QED
            BY <1>2, <1>3, <3>4, <4>2, <5>1
        <4>4. f <= l - 1
          BY <1>3, <2>3, <4>3
        <4>5. E[f] <= E[l - 1] /\ B[f] <= E[f]
          BY <1>1, <1>3, <4>2, <4>4
        <4>. QED
          BY <1>1, <1>3, <4>2, <4>5
      <3>. QED
        BY <1>3, <3>3, <3>4 DEF e, f
    <2>. QED
      BY <2>6, <2>7
  <1>. QED
    BY <1>7, <1>8

\* The blocks that the loop meets: their offsets, the ends behind them, their hours.
Met(P, A, B, E, n, size) ==
    /\ BlocksFrom[0] = P /\ P \in Seq(Nat) /\ n \in Nat /\ n = Len(P) /\ size = Len(logfile)
    /\ A = [i \in 1..n |-> After(P[i])]
    /\ B = [i \in 1..n |-> BeginHour(P[i])]
    /\ E = [i \in 1..n |-> EndHour(P[i])]

\* What the reader answers, of these.
Answer(P, A, B, E, n, size, from, to) ==
    IF Around(B, E, n, from) = {} THEN [ok |-> FALSE, begin |-> 0, end |-> 0]
    ELSE LET begin == P[FirstAround(B, E, n, from)]
             end   == EndOf(P, A, B, E, n, size, from, to)
         IN  [ok |-> end > begin, begin |-> begin, end |-> end]

\* GetPeriodLogs, of the blocks that the loop has met.
LEMMA PeriodIs ==
    ASSUME NEW from \in Nat, NEW to \in Nat,
           NEW P, NEW A, NEW B, NEW E, NEW n, NEW size, Met(P, A, B, E, n, size)
    PROVE  GetPeriodLogs(from, to) = Answer(P, A, B, E, n, size, from, to)
  <1>a. /\ BlocksFrom[0] = P /\ P \in Seq(Nat) /\ n \in Nat /\ n = Len(P) /\ size = Len(logfile)
        /\ A = [i \in 1..n |-> After(P[i])]
        /\ B = [i \in 1..n |-> BeginHour(P[i])]
        /\ E = [i \in 1..n |-> EndHour(P[i])]
    BY DEF Met
  <1> DEFINE met == BlocksFrom[0]
             LastEnd(i) == IF i = 1 THEN -1 ELSE EndHour(met[i - 1])
             Within(h, i) == h > BeginHour(met[i]) /\ h <= EndHour(met[i])
             Before(h, i) == h > LastEnd(i) /\ h <= BeginHour(met[i])
             begins == {i \in DOMAIN met : Within(from, i) \/ Before(from, i)}
             first  == CHOOSE i \in begins : \A j \in begins : i <= j
             ends   == {i \in DOMAIN met : i >= first /\ (Within(to, i) \/ Before(to, i))}
             last   == CHOOSE i \in ends : \A j \in ends : j <= i
             begin  == met[first]
             end    == IF to > LastEnd(Len(met) + 1) THEN Len(logfile)
                       ELSE IF ends = {} THEN 0
                       ELSE IF Within(to, last) THEN After(met[last])
                       ELSE IF last = 1 THEN 0 ELSE After(met[last - 1])
  <1>1. GetPeriodLogs(from, to) =
          IF begins = {} THEN [ok |-> FALSE, begin |-> 0, end |-> 0]
          ELSE [ok |-> end > begin, begin |-> begin, end |-> end]
    BY DEF GetPeriodLogs
  <1>2. met = P /\ DOMAIN met = 1..n /\ Len(met) = n /\ n \in Nat
    BY <1>a
  <1> HIDE DEF met
  <1>3. ASSUME NEW h \in Nat, NEW i \in 1..n
        PROVE  /\ Within(h, i) <=> InBlock(B, E, h, i)
               /\ Before(h, i) <=> InFront(B, E, h, i)
    <2>1. B[i] = BeginHour(met[i]) /\ E[i] = EndHour(met[i])
      BY <1>a, <1>2
    <2>2. i # 1 => i - 1 \in 1..n
      BY <1>2
    <2>3. i # 1 => E[i - 1] = EndHour(met[i - 1])
      BY <1>a, <1>2, <2>2
    <2>4. LastEnd(i) = IF i = 1 THEN -1 ELSE E[i - 1]
      BY <2>3
    <2> HIDE DEF LastEnd
    <2>. QED
      BY <2>1, <2>4 DEF InBlock, InFront
  <1>4. LastEnd(Len(met) + 1) = IF n + 1 = 1 THEN -1 ELSE E[n]
    <2>1. n + 1 # 1 => n \in 1..n /\ (n + 1) - 1 = n
      BY <1>2
    <2>2. n + 1 # 1 => E[n] = EndHour(met[n])
      BY <1>a, <1>2, <2>1
    <2>. QED
      BY <1>2, <2>1, <2>2
  <1> HIDE DEF Within, Before, LastEnd
  <1>5. begins = Around(B, E, n, from)
    BY <1>2, <1>3 DEF Around
  <1>6. first = FirstAround(B, E, n, from)
    <2> HIDE DEF begins
    <2>. QED
      BY <1>5 DEF FirstAround
  <1> HIDE DEF first
  <1>7. ends = EndsFrom(B, E, n, from, to)
    BY <1>2, <1>3, <1>6 DEF EndsFrom
  <1>8. last = LastOf(ends)
    <2> HIDE DEF ends
    <2>. QED
      BY DEF LastOf
  <1>9. ends # {} => last \in ends
    <2> HIDE DEF last
    <2>1. ends \in SUBSET (1..n)
      BY <1>2
    <2> HIDE DEF ends
    <2>2. ASSUME ends # {} PROVE \E i \in ends : \A j \in ends : j <= i
      BY <1>2, <2>1, <2>2, GreatestOf
    <2>. QED
      BY <2>2 DEF last
  <1>10. ends # {} => last \in 1..n
    BY <1>2, <1>9
  <1> HIDE DEF ends, last
  <1>11. end = EndOf(P, A, B, E, n, size, from, to)
    <2>1. ends # {} => (Within(to, last) <=> InBlock(B, E, to, last))
      BY <1>3, <1>10
    <2>2. ends # {} => A[last] = After(met[last])
      BY <1>a, <1>2, <1>10
    <2>3. ends # {} /\ last # 1 => A[last - 1] = After(met[last - 1])
      <3>1. ends # {} /\ last # 1 => last - 1 \in 1..n
        BY <1>2, <1>10
      <3>. QED
        BY <1>a, <1>2, <3>1
    <2>4. EndOf(P, A, B, E, n, size, from, to) =
            IF to > (IF n + 1 = 1 THEN -1 ELSE E[n]) THEN size
            ELSE IF ends = {} THEN 0
            ELSE IF InBlock(B, E, to, last) THEN A[last]
            ELSE IF last = 1 THEN 0 ELSE A[last - 1]
      BY <1>7, <1>8 DEF EndOf
    <2>5. size = Len(logfile)
      BY <1>a
    <2>. QED
      BY <1>4, <2>1, <2>2, <2>3, <2>4, <2>5, Zenon
  <1>12. begin = P[FirstAround(B, E, n, from)]
    BY <1>2, <1>6
  <1> HIDE DEF begins, begin, end
  <1>. QED
    BY <1>1, <1>5, <1>11, <1>12 DEF Answer

\* It ends at an offset.
LEMMA EndIsNat ==
    ASSUME NEW n \in Nat, NEW B, NEW E, SortedHours(B, E, n), NEW P, NEW A, NEW size,
           Placed(P, A, n, size), NEW from \in Nat, NEW to \in Nat
    PROVE  EndOf(P, A, B, E, n, size, from, to) \in Nat
  <1> DEFINE ends == EndsFrom(B, E, n, from, to)
             l    == LastOf(ends)
  <1>1. size \in Nat /\ \A i \in 1..n : A[i] \in Nat
    BY DEF Placed
  <1>2. ends \in SUBSET (1..n)
    BY DEF EndsFrom
  <1>3. ends # {} => l \in 1..n
    <2> HIDE DEF ends
    <2>1. ASSUME ends # {} PROVE \E i \in ends : \A j \in ends : j <= i
      BY <1>2, <2>1, GreatestOf
    <2>. QED
      BY <1>2, <2>1 DEF LastOf
  <1> HIDE DEF l, ends
  <1>4. ends # {} => A[l] \in Nat /\ (l # 1 => A[l - 1] \in Nat)
    <2>1. ends # {} /\ l # 1 => l - 1 \in 1..n
      BY <1>3
    <2>. QED
      BY <1>1, <1>3, <2>1
  <1>5. EndOf(P, A, B, E, n, size, from, to) =
          IF to > (IF n + 1 = 1 THEN -1 ELSE E[n]) THEN size
          ELSE IF ends = {} THEN 0
          ELSE IF InBlock(B, E, to, l) THEN A[l]
          ELSE IF l = 1 THEN 0 ELSE A[l - 1]
    BY DEF EndOf, ends, l
  <1>. QED
    BY <1>1, <1>4, <1>5

\* The property, from the invariant.
LEMMA InvFinds == XlogInv => PeriodFound
  <1> SUFFICES ASSUME XlogInv, ~Misled, ~overnight,
                      NEW from \in Hours, NEW to \in (from + 1)..(LastHour + 1)
               PROVE  LET found  == GetPeriodLogs(from, to)
                          wanted == {p \in Readable : EndHour(p) >= from /\ BeginHour(p) < to}
                      IN  /\ Readable = wholes => (found.ok <=> wanted # {})
                          /\ \A p \in wanted : found.ok /\ found.begin <= p /\ After(p) <= found.end
    BY DEF PeriodFound
  <1>a. PICK P, n, size : P = BlocksFrom[0] /\ n = Len(P) /\ size = Len(logfile)
    OBVIOUS
  <1>b. PICK A, B, E : /\ A = [i \in 1..n |-> After(P[i])]
                       /\ B = [i \in 1..n |-> BeginHour(P[i])]
                       /\ E = [i \in 1..n |-> EndHour(P[i])]
    OBVIOUS
  <1> DEFINE begin == P[FirstAround(B, E, n, from)]
             end == EndOf(P, A, B, E, n, size, from, to)
             found == GetPeriodLogs(from, to)
             wanted == {p \in Readable : EndHour(p) >= from /\ BeginHour(p) < to}
  <1>1. from \in Nat /\ to \in Nat /\ from < to
    BY XlogAssumption DEF Hours
  <1>2. MetOK(0) /\ wholes \in SUBSET Nat
    BY MetAll DEF XlogInv, XTypes
  <1>3. /\ P \in Seq(wholes) /\ n \in Nat
        /\ \A i, j \in 1..n : i < j => After(P[i]) <= P[j]
        /\ \A q \in wholes :
              0 <= q /\ (\A r \in wholes : 0 <= r /\ r <= q => logfile[r + 1].magic = "crypt") =>
                 \E i \in 1..n : P[i] = q
    BY <1>2, <1>a DEF MetOK
  <1>4. P \in Seq(Nat) /\ \A i \in 1..n : P[i] \in wholes
    <2>1. \A i \in 1..n : P[i] \in wholes
      BY <1>3, <1>a, ElementOfSeq
    <2>2. P \in [1..n -> wholes]
      BY <1>3, <1>a
    <2>3. P \in [1..n -> Nat]
      BY <1>2, <2>2
    <2>4. P \in Seq(Nat)
      BY <1>3, <2>3
    <2>. QED
      BY <2>1, <2>4
  <1>5. ASSUME NEW p \in wholes
        PROVE  /\ p \in Nat /\ After(p) \in Nat /\ p < After(p) /\ After(p) <= size /\ size \in Nat
               /\ EndHour(p) \in Nat /\ BeginHour(p) \in Nat /\ BeginHour(p) <= EndHour(p)
    <2>1. logfile[p + 1] \in Headers /\ p \in Nat /\ After(p) \in Nat /\ After(p) >= p + 2
          /\ After(p) <= Len(logfile) /\ Len(logfile) \in Nat
      BY <1>a, WholesAre
    <2>2. logfile[p + 1].begin \in Nat /\ logfile[p + 1].end \in Nat
      BY <2>1, XlogAssumption DEF Headers, Hours
    <2>. QED
      BY <1>a, <2>1, <2>2 DEF EndHour, BeginHour, Least
  <1>6. \A p, q \in wholes : p <= q => EndHour(p) <= EndHour(q)
    BY DEF XlogInv, InTime
  <1>7. ASSUME NEW q \in Readable PROVE q \in wholes /\ \E i \in 1..n : P[i] = q
    <2>1. q \in wholes /\ q \in Nat /\ \A r \in wholes : r <= q => logfile[r + 1].magic = "crypt"
      BY <1>2 DEF Readable
    <2>2. 0 <= q /\ (\A r \in wholes : 0 <= r /\ r <= q => logfile[r + 1].magic = "crypt")
      BY <2>1
    <2>3. \E i \in 1..n : P[i] = q
      BY <1>3, <2>1, <2>2, Zenon
    <2>. QED
      BY <2>1, <2>3
  <1>8. found = IF Around(B, E, n, from) = {} THEN [ok |-> FALSE, begin |-> 0, end |-> 0]
                ELSE [ok |-> end > begin, begin |-> begin, end |-> end]
    <2>1. Met(P, A, B, E, n, size)
      BY <1>3, <1>4, <1>a, <1>b DEF Met
    <2>2. from \in Nat /\ to \in Nat
      BY <1>1
    <2>3. GetPeriodLogs(from, to) = Answer(P, A, B, E, n, size, from, to)
      BY <2>1, <2>2, PeriodIs
    <2>. QED
      BY <2>3 DEF Answer
  <1>9. \A i \in 1..n : A[i] = After(P[i]) /\ B[i] = BeginHour(P[i]) /\ E[i] = EndHour(P[i])
    BY <1>b
  <1>10. SortedHours(B, E, n)
    <2>1. B \in [1..n -> Nat] /\ E \in [1..n -> Nat]
      BY <1>4, <1>5, <1>b
    <2>2. \A i \in 1..n : B[i] <= E[i]
      BY <1>4, <1>5, <1>9
    <2>3. ASSUME NEW i \in 1..n, NEW j \in 1..n, i <= j PROVE E[i] <= E[j]
      <3>1. P[i] <= P[j]
        <4>1. CASE i = j
          BY <1>4, <1>5, <4>1
        <4>2. CASE i < j
          <5>1. After(P[i]) <= P[j]
            BY <1>3, <4>2
          <5>. QED
            BY <1>4, <1>5, <5>1, SMTT(30)
        <4>. QED
          BY <1>3, <2>3, <4>1, <4>2
      <3>. QED
        BY <1>4, <1>6, <1>9, <3>1
    <2>. QED
      BY <2>1, <2>2, <2>3 DEF SortedHours
  <1>11. Around(B, E, n, from) # {} => Placed(P, A, n, size)
    <2>1. A \in [1..n -> Nat]
      BY <1>4, <1>5, <1>b
    <2>2. P \in [1..n -> Nat]
      BY <1>4, <1>a
    <2>3. \A i \in 1..n : P[i] < A[i] /\ A[i] <= size
      BY <1>4, <1>5, <1>9
    <2>4. \A i, j \in 1..n : i < j => A[i] <= P[j]
      BY <1>3, <1>9
    <2>5. size \in Nat
      BY <1>a DEF XlogInv, XTypes
    <2>. QED
      BY <2>1, <2>2, <2>3, <2>4, <2>5 DEF Placed
  <1> HIDE DEF begin, end, found
  <1>12. ASSUME NEW p \in wanted PROVE found.ok /\ found.begin <= p /\ After(p) <= found.end
    <2>1. p \in Readable /\ EndHour(p) >= from /\ BeginHour(p) < to
      OBVIOUS
    <2>2. PICK i \in 1..n : P[i] = p
      BY <1>7, <2>1
    <2>3. E[i] >= from /\ B[i] < to /\ A[i] = After(p) /\ p \in wholes
      BY <1>7, <1>9, <2>1, <2>2
    <2>4. Around(B, E, n, from) # {}
      BY <1>1, <1>3, <1>10, <2>3, AroundIs
    <2>5. Placed(P, A, n, size)
      BY <1>11, <2>4
    <2>6. A[i] <= end
      BY <1>1, <1>3, <1>10, <2>3, <2>4, <2>5, EndIs DEF end
    <2>7. begin <= p
      <3> DEFINE f == FirstAround(B, E, n, from)
      <3>1. f \in 1..n /\ f <= i
        BY <1>1, <1>3, <1>10, <2>3, <2>4, FirstIsAround
      <3> HIDE DEF f
      <3>2. CASE f = i
        BY <1>5, <2>2, <2>3, <3>2 DEF begin, f
      <3>3. CASE f < i
        <4>1. After(P[f]) <= P[i] /\ P[f] \in wholes
          BY <1>3, <1>4, <3>1, <3>3
        <4>2. P[f] < After(P[f]) /\ P[f] \in Nat /\ After(P[f]) \in Nat
          BY <1>5, <4>1
        <4>3. P[f] <= p
          BY <1>5, <2>2, <2>3, <4>1, <4>2
        <4>. QED
          BY <4>3 DEF begin, f
      <3>. QED
        BY <1>3, <3>1, <3>2, <3>3
    <2>8. end > begin
      <3>1. begin \in Nat
        BY <1>1, <1>3, <1>4, <1>5, <1>10, <2>4, FirstIsAround DEF begin
      <3>2. end \in Nat /\ After(p) <= end
        BY <1>1, <1>3, <1>10, <2>3, <2>4, <2>5, <2>6, EndIsNat DEF end
      <3>. QED
        BY <1>5, <2>3, <2>7, <3>1, <3>2
    <2>9. found = [ok |-> end > begin, begin |-> begin, end |-> end]
      BY <1>8, <2>4
    <2>. QED
      BY <2>3, <2>6, <2>7, <2>8, <2>9
  <1>13. ASSUME Readable = wholes PROVE found.ok <=> wanted # {}
    <2>1. ASSUME found.ok PROVE wanted # {}
      <3>1. Around(B, E, n, from) # {} /\ end > begin
        <4>1. CASE Around(B, E, n, from) = {}
          BY <1>8, <2>1, <4>1
        <4>2. CASE Around(B, E, n, from) # {}
          BY <1>8, <2>1, <4>2
        <4>. QED
          BY <4>1, <4>2
      <3>2. Placed(P, A, n, size)
        BY <1>11, <3>1
      <3>3. PICK j \in 1..n : E[j] >= from /\ B[j] < to
        BY <1>1, <1>3, <1>10, <3>1, <3>2, EndIs DEF end, begin
      <3>4. P[j] \in wholes /\ EndHour(P[j]) >= from /\ BeginHour(P[j]) < to
        BY <1>4, <1>9, <3>3
      <3>5. P[j] \in wanted
        BY <1>13, <3>4
      <3>. QED
        BY <3>5
    <2>2. ASSUME wanted # {} PROVE found.ok
      <3>1. PICK p \in wanted : TRUE
        BY <2>2
      <3>. QED
        BY <1>12, <3>1
    <2>. QED
      BY <2>1, <2>2
  <1>. QED
    BY <1>12, <1>13 DEF found

\* Whatever hours are asked for, the part of the file that GetPeriodLogs returns
\* has every block that covers one of them: for any number of blocks, hours in a
\* day, deaths inside of a write and leftovers, in a file that no midnight parted
\* and with nothing in it that passes for a block.
THEOREM PeriodAlwaysFound == XlogSpec => []PeriodFound
  BY XlogBegins, XlogStep, InvFinds, PTL DEF XlogSpec
=============================================================================
