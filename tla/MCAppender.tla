----------------------------- MODULE MCAppender -----------------------------
(* Instances of Appender for TLC: who calls what.                          *)
EXTENDS Appender, TLC

CONSTANTS W, N   \* the writer_klog thread, a native thread

\* The writer thread of FileWriter.kt makes every call Java makes; another
\* thread logs through NLog (filelog/logimpl.cc).
TwoCallers == {W, N}
WriterOps == (W :> {"log", "open", "close", "flush"}) @@ (N :> {"log"})

OneCaller == {W}
NoFlushOps == W :> {"log", "open", "close", "notify"}
AllOps == W :> {"log", "open", "close", "flush", "notify"}

\* FileLog's functions are exported: another thread may change the mode, and
\* close besides the writer, as the exit handler of appender_open does.
ModeOps == (W :> {"open", "close", "flush"})
           @@ (N :> {"setmode", "close", "flush"})

AsyncOnly == {"async"}
BothModes == {"async", "sync"}
MapOK == {TRUE}
MapMayFail == {TRUE, FALSE}
=============================================================================
