---------------------------- MODULE ByteStrings ----------------------------
(***************************************************************************)
(* What a buffer promises: a string of bytes with a cursor in it, and no   *)
(* memory.  A call changes what it names and nothing else, nothing is      *)
(* forgotten when the memory grows, and two buffers share nothing.         *)
(***************************************************************************)
EXTENDS Integers, Sequences

CONSTANTS Names,
          Null,        \* the byte 0
          Limit(_)     \* how many bytes a buffer may hold

VARIABLES text, cursor,
          call         \* the last call, which says what the step has to do

vars == <<text, cursor, call>>

Idle == [op |-> "none"]

Init == text = [n \in Names |-> <<>>] /\ cursor = [n \in Names |-> 0] /\ call = Idle

Within(i, max) == IF i < 0 THEN 0 ELSE IF i > max THEN max ELSE i

\* The bytes s are at offset at, as far as there is room; the rest is as before.
Put(n, at, s) ==
  LET end == IF at + Len(s) > Limit(n) THEN Limit(n) ELSE at + Len(s)
      old == Len(text[n])
  IN  text'[n] = [i \in 1..(IF end > old THEN end ELSE old) |->
                    IF i > at /\ i <= end THEN s[i - at] ELSE text[n][i]]

\* A string of that length begins like the old one.
Resize(n, len) ==
  /\ Len(text'[n]) = len
  /\ \A i \in 1..len : i <= Len(text[n]) => text'[n][i] = text[n][i]

Keeps(n)   == cursor'[n] = cursor[n]
Goes(n, i) == cursor'[n] = Within(i, Len(text'[n]))
Others(ns) == \A n \in Names \ ns : text'[n] = text[n] /\ Keeps(n)

Write(c) == Put(c.n, c.at, c.bytes) /\ Others({c.n})
            /\ IF c.moves THEN Goes(c.n, c.at + Len(c.bytes)) ELSE Keeps(c.n)

Alloc(c) == Resize(c.n, c.len) /\ Keeps(c.n) /\ Others({c.n})

SetLength(c) ==
  /\ Resize(c.n, IF c.len > Limit(c.n) THEN Limit(c.n) ELSE c.len)
  /\ Goes(c.n, c.at) /\ Others({c.n})

Seek(c) == text' = text /\ Goes(c.n, c.at) /\ Others({c.n})

\* Bytes in front come or go; the cursor stays at its byte.
Move(c) ==
  /\ text'[c.n] = IF c.by > 0 THEN [i \in 1..c.by |-> Null] \o text[c.n]
                  ELSE SubSeq(text[c.n], 1 - c.by, Len(text[c.n]))
  /\ Goes(c.n, cursor[c.n] + c.by) /\ Others({c.n})

Attach(c) == text'[c.n] = c.bytes /\ Goes(c.n, 0) /\ Others({c.n})

Take(c) ==
  /\ text'[c.n] = text[c.from] /\ cursor'[c.n] = cursor[c.from]
  /\ text'[c.from] = <<>> /\ cursor'[c.from] = 0
  /\ Others({c.n, c.from})

\* A read into another buffer, from an offset that is not the cursor, may give
\* any bytes: the code takes the ones behind the cursor.
Read(c) ==
  LET size == Within(c.len, Len(text[c.n]) - c.at)
  IN  /\ \E s \in {SubSeq(text'[c.to], cursor[c.to] + 1, cursor[c.to] + size)} :
           /\ Len(s) = size /\ Put(c.to, cursor[c.to], s)
           /\ c.at = cursor[c.n] => s = SubSeq(text[c.n], c.at + 1, c.at + size)
      /\ Goes(c.to, cursor[c.to] + size)
      /\ text'[c.n] = text[c.n]
      /\ IF c.moves THEN Goes(c.n, c.at + size) ELSE Keeps(c.n)
      /\ Others({c.n, c.to})

\* A read into the caller's memory.
Get(c) ==
  LET size == Within(c.len, Len(text[c.n]) - c.at)
  IN  /\ c.bytes = SubSeq(text[c.n], c.at + 1, c.at + size)
      /\ text' = text /\ Goes(c.n, c.at + size) /\ Others({c.n})

Nothing == text' = text /\ cursor' = cursor

Next ==
  LET c == call' IN
  \/ c.op = "write"    /\ Write(c)
  \/ c.op = "alloc"    /\ Alloc(c)
  \/ c.op = "length"   /\ SetLength(c)
  \/ c.op = "seek"     /\ Seek(c)
  \/ c.op = "move"     /\ Move(c)
  \/ c.op = "attach"   /\ Attach(c)
  \/ c.op = "take"     /\ Take(c)
  \/ c.op = "read"     /\ Read(c)
  \/ c.op = "get"      /\ Get(c)
  \/ c.op = "reserve"  /\ Nothing

Spec == Init /\ [][Next]_vars
=============================================================================
