----------------------------- MODULE AutoBuffer -----------------------------
(***************************************************************************)
(* The two buffers of jni/comm that every record goes through on its way   *)
(* to a file: AutoBuffer, which grows, and PtrBuffer, which works on a     *)
(* block it was given.  Each is a record, each member function an operator *)
(* from the object before the call to the object after it.                 *)
(*                                                                         *)
(* parray is the whole memory of the object, so its length is the          *)
(* capacity, and <<>> is NULL.  malloc is taken to succeed: when it fails  *)
(* the process dies in the memset behind it.                               *)
(***************************************************************************)
EXTENDS Integers, Sequences

CONSTANTS Nul,        \* the byte 0
          Datum,      \* another byte
          UnitSize    \* malloc_unitsize_

ASSUME UnitSizeAssumption == UnitSize \in Nat \ {0}

Least(a, b) == IF a < b THEN a ELSE b
Most(a, b)  == IF a > b THEN a ELSE b
Zeros(n)    == [i \in 1..n |-> Nul]

\* s with t over it from offset at on, as far as s reaches.
Over(s, at, t) ==
  [i \in DOMAIN s |-> IF i - at \in DOMAIN t THEN t[i - at] ELSE s[i]]

Fresh == [parray |-> <<>>, pos |-> 0, length |-> 0]

Capacity(b) == Len(b.parray)
Content(b)  == SubSeq(b.parray, 1, b.length)

-----------------------------------------------------------------------------
(* AutoBuffer                                                              *)

\* __FitSize: in whole units, zeros behind what was there.
FitSize(b, n) ==
  LET mallocsize == ((n + UnitSize - 1) \div UnitSize) * UnitSize
  IN  IF n <= Capacity(b) THEN b
      ELSE [b EXCEPT !.parray = @ \o Zeros(mallocsize - Capacity(b))]

\* Seek never leaves the content.
Seek(b, offset, origin) ==
  LET wanted == offset + CASE origin = "start" -> 0
                           [] origin = "cur"   -> b.pos
                           [] origin = "end"   -> b.length
  IN  [b EXCEPT !.pos = Least(Most(wanted, 0), b.length)]

\* Length(pos, len).
Resized(b, pos, len) == Seek([b EXCEPT !.length = len], pos, "start")

AllocWrite(b, n, changelength) ==
  LET fit == FitSize(b, b.pos + n)
  IN  IF changelength THEN [fit EXCEPT !.length = Most(b.pos + n, @)] ELSE fit

AddCapacity(b, n) == FitSize(b, Capacity(b) + n)

\* Mutant: what lies behind the written bytes is given up.
WriteAtShort(b, pos, s) ==
  LET fit == FitSize(b, pos + Len(s))
  IN  [fit EXCEPT !.length = pos + Len(s), !.parray = Over(@, pos, s)]

\* Write(const off_t&, ...), to which the others come down; Write from the
\* cursor moves it.
WriteAt(b, pos, s) ==
  LET fit == FitSize(b, pos + Len(s))
  IN  [fit EXCEPT !.length = Most(pos + Len(s), @), !.parray = Over(@, pos, s)]

WriteCur(b, s) == Seek(WriteAt(b, b.pos, s), Len(s), "cur")
WriteSeek(b, origin, s) == WriteAt(b, Seek(b, 0, origin).pos, s)

\* What Read(const off_t&, ...) may hand out: as many bytes as there are behind
\* pos, but those behind the cursor; outside of the memory anything.
ReadAt(b, pos, n, AnyByte) ==
  LET readlen == Least(b.length - pos, n)
      Inside(i) == b.pos + i <= Capacity(b)
  IN  {s \in [1..readlen -> AnyByte] :
         \A i \in 1..readlen : Inside(i) => s[i] = b.parray[b.pos + i]}

\* Read from the cursor on, and where it leaves the cursor.
ReadCur(b, n)  == SubSeq(b.parray, b.pos + 1, b.pos + Least(b.length - b.pos, n))
PastRead(b, n) == Seek(b, Len(ReadCur(b, n)), "cur")

\* Move: zeros in front, or so many bytes less in front.
MoveUp(b, n) ==
  LET fit == FitSize(b, b.length + n)
  IN  Resized([fit EXCEPT !.parray = Over(@, 0, Zeros(n) \o Content(b))],
              b.pos + n, b.length + n)
MoveDown(b, n) ==
  LET less == Least(n, b.length)
  IN  Resized([b EXCEPT !.parray = Over(@, 0, SubSeq(@, less + 1, b.length))],
              IF less < b.pos THEN b.pos - less ELSE 0, b.length - less)

\* Attach(pointer, length): the memory is taken over.  Attach(AutoBuffer&) takes
\* over another object, which is reset, and Detach resets the object.
AttachMemory(s) == [parray |-> s, pos |-> 0, length |-> Len(s)]

-----------------------------------------------------------------------------
(* PtrBuffer: a write is cut where the block ends.                         *)

PtrWriteAt(b, pos, s) ==
  LET copylen == Least(Len(s), Capacity(b) - pos)
  IN  [b EXCEPT !.length = Most(@, copylen + pos),
                !.parray = Over(@, pos, SubSeq(s, 1, copylen))]
PtrWriteCur(b, s) == Seek(PtrWriteAt(b, b.pos, s), Len(s), "cur")

\* Length(pos, len), which asserts that len fits and goes on with what does.
PtrResized(b, pos, len) ==
  Seek([b EXCEPT !.length = Least(Capacity(b), len)], pos, "start")

PtrAttach(s, len) == [parray |-> s, pos |-> 0, length |-> len]
=============================================================================
