------------------------------ MODULE Buffers ------------------------------
(***************************************************************************)
(* A program that uses two AutoBuffers and a PtrBuffer, with every member  *)
(* function of theirs, and the promise that they are strings of bytes.     *)
(***************************************************************************)
EXTENDS AutoBuffer

CONSTANTS Autos,       \* names of the AutoBuffers
          Ptr,         \* name of the PtrBuffer
          Strings,     \* what the program writes
          MaxBytes, MaxMemory   \* bounds: the bytes of a buffer, and of all of them

ASSUME BuffersAssumption ==
  /\ MaxBytes \in Nat /\ Strings \subseteq Seq({Nul, Datum})
  /\ Ptr \notin Autos
  /\ \A n \in Autos : Autos \ {n} # {}    \* there is another one to move from or to

VARIABLES autos, ptr,
          call         \* the last call, for ByteStrings

bufferVars == <<autos, ptr, call>>

Bytes      == {Nul, Datum}
Lengths    == 0..MaxBytes
NoPtr      == PtrAttach(<<>>, 0)

BuffersInit ==
  /\ autos = [n \in Autos |-> Fresh] /\ ptr = NoPtr
  /\ call = [op |-> "none"]

Called(c) == call' = c

\* The bounds; and the PtrBuffer is used before the AutoBuffers or not at all.
Bounded(b, c) ==
  /\ ptr = NoPtr
  /\ b.length <= MaxBytes /\ c.length <= MaxBytes
  /\ Capacity(b) + Capacity(c) <= MaxMemory
SetBoth(n, b, m, c) ==
  /\ Bounded(b, c)
  /\ autos' = [autos EXCEPT ![n] = b, ![m] = c] /\ UNCHANGED ptr
Set(n, b) ==
  \A m \in Autos \ {n} : SetBoth(n, b, m, autos[m])

-----------------------------------------------------------------------------

WriteAuto(n) ==
  \E s \in Strings :
    \/ Set(n, WriteCur(autos[n], s))
       /\ Called([op |-> "write", n |-> n, at |-> autos[n].pos, bytes |-> s, moves |-> TRUE])
    \/ \E at \in 0..autos[n].length :
         /\ Set(n, WriteAt(autos[n], at, s))
         /\ Called([op |-> "write", n |-> n, at |-> at, bytes |-> s, moves |-> FALSE])
    \/ /\ Set(n, WriteSeek(autos[n], "end", s))
       /\ Called([op |-> "write", n |-> n, at |-> autos[n].length, bytes |-> s, moves |-> FALSE])

Allocate(n) ==
  \E k \in Lengths, changes \in BOOLEAN :
    /\ Set(n, AllocWrite(autos[n], k, changes))
    /\ Called(IF changes
              THEN [op |-> "alloc", n |-> n, len |-> Most(autos[n].pos + k, autos[n].length)]
              ELSE [op |-> "reserve"])

Reserve(n) ==
  \E k \in 1..2 :
    /\ Set(n, AddCapacity(autos[n], k)) /\ Called([op |-> "reserve"])

SeekAuto(n) ==
  \E offset \in -1..1, origin \in {"start", "cur", "end"} :
    LET from == Seek(autos[n], 0, origin).pos
    IN  /\ Set(n, Seek(autos[n], offset, origin))
        /\ Called([op |-> "seek", n |-> n, at |-> from + offset])

Resize(n) ==
  \E len \in 0..Capacity(autos[n]) : \E at \in 0..len :
    /\ Set(n, Resized(autos[n], at, len))
    /\ Called([op |-> "length", n |-> n, at |-> at, len |-> len])

MoveAuto(n) ==
  \E k \in 1..2 :
    \/ Set(n, MoveUp(autos[n], k)) /\ Called([op |-> "move", n |-> n, by |-> k])
    \/ Set(n, MoveDown(autos[n], k))
       /\ Called([op |-> "move", n |-> n, by |-> -Least(k, autos[n].length)])

Attach(n) ==
  \E s \in Strings :
    Set(n, AttachMemory(s)) /\ Called([op |-> "attach", n |-> n, bytes |-> s])

Detach(n) ==
  Set(n, Fresh) /\ Called([op |-> "attach", n |-> n, bytes |-> <<>>])

AttachAuto(n, from) ==
  /\ SetBoth(n, autos[from], from, Fresh)
  /\ Called([op |-> "take", n |-> n, from |-> from])

\* Reads into the other buffer, at its cursor.
ReadAuto(n, to) ==
  \E k \in 1..2 :
    \/ /\ SetBoth(n, PastRead(autos[n], k), to, WriteCur(autos[to], ReadCur(autos[n], k)))
       /\ Called([op |-> "read", n |-> n, to |-> to, at |-> autos[n].pos, len |-> k, moves |-> TRUE])
    \/ \E at \in 0..autos[n].length : \E s \in ReadAt(autos[n], at, k, Bytes) :
         /\ SetBoth(n, autos[n], to, WriteCur(autos[to], s))
         /\ Called([op |-> "read", n |-> n, to |-> to, at |-> at, len |-> k, moves |-> FALSE])

\* The PtrBuffer: on a block of MaxBytes, of which some bytes are content.
PtrSet(b, c) == ptr' = b /\ Called(c)

PtrWrite ==
  \E s \in Strings :
    \/ PtrSet(PtrWriteCur(ptr, s),
              [op |-> "write", n |-> Ptr, at |-> ptr.pos, bytes |-> s, moves |-> TRUE])
    \/ \E at \in 0..ptr.length :
         PtrSet(PtrWriteAt(ptr, at, s),
                [op |-> "write", n |-> Ptr, at |-> at, bytes |-> s, moves |-> FALSE])

\* There has to be something to read: the code asserts it.
PtrRead ==
  /\ ptr.pos < ptr.length
  /\ \E k \in 1..2 :
       PtrSet(PastRead(ptr, k),
              [op |-> "get", n |-> Ptr, at |-> ptr.pos, len |-> k, bytes |-> ReadCur(ptr, k)])

PtrResize ==
  \E len \in 0..(MaxBytes + 1) : \E at \in 0..len :
    PtrSet(PtrResized(ptr, at, len), [op |-> "length", n |-> Ptr, at |-> at, len |-> len])

PtrSeek ==
  \E offset \in -1..1 :
    PtrSet(Seek(ptr, offset, "cur"), [op |-> "seek", n |-> Ptr, at |-> ptr.pos + offset])

PtrAttached ==
  \E len \in Lengths :
    PtrSet(PtrAttach(Zeros(MaxBytes), len), [op |-> "attach", n |-> Ptr, bytes |-> Zeros(len)])

PtrReset == PtrSet(NoPtr, [op |-> "attach", n |-> Ptr, bytes |-> <<>>])

PtrStep ==
  /\ autos = [n \in Autos |-> Fresh] /\ UNCHANGED autos
  /\ IF ptr = NoPtr THEN PtrAttached
     ELSE PtrReset \/ PtrWrite \/ PtrRead \/ PtrResize \/ PtrSeek

BuffersNext ==
  \/ \E n \in Autos :
       \/ WriteAuto(n) \/ Allocate(n) \/ Reserve(n) \/ SeekAuto(n) \/ Resize(n)
       \/ MoveAuto(n) \/ Attach(n) \/ Detach(n)
       \/ \E m \in Autos \ {n} : AttachAuto(n, m) \/ ReadAuto(n, m)
  \/ PtrStep

BuffersSpec == BuffersInit /\ [][BuffersNext]_bufferVars

-----------------------------------------------------------------------------

Object(n) == IF n = Ptr THEN ptr ELSE autos[n]
Bound(n)  == IF n = Ptr THEN MaxBytes ELSE 2 * MaxBytes + UnitSize

TheStrings == INSTANCE ByteStrings WITH
  Names  <- Autos \cup {Ptr},
  Null   <- Nul,
  Limit  <- Bound,
  text   <- [n \in Autos \cup {Ptr} |-> Content(Object(n))],
  cursor <- [n \in Autos \cup {Ptr} |-> Object(n).pos]

\* The buffers are strings of bytes with a cursor: growing, reserving, moving
\* and taking over memory neither loses nor changes a byte that the call does
\* not name, a length or a write beyond a PtrBuffer's block is cut, and the
\* cursor stays inside the content.  (AutoBuffer::Read and PtrBuffer::Read from
\* an offset other than the cursor are not promised anything.)
BuffersAreStrings == TheStrings!Spec
=============================================================================
