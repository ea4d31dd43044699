---------------------------- MODULE RequestLog ----------------------------
(***************************************************************************)
(* The request log of the admin UI: an in-memory buffer that Middleware    *)
(* appends to when a request has ended, behind a mutex.                    *)
(***************************************************************************)
EXTENDS Naturals, Sequences

CONSTANTS
    Entry,   \* what is noted of a request
    MaxLog   \* Log.max: the entries the buffer holds (200 in the server)

\* New replaces a size that is not positive.
ASSUME MaxLogAssumption == MaxLog \in Nat \ {0}

VARIABLES
    buf,   \* Log.buf
    ended  \* ghost: every entry since the process started

logVars == <<buf, ended>>

LogInit == buf = <<>> /\ ended = <<>>

\* Mutant: the buffer is cut back to one entry less than it may hold.
AddOneShort(e) ==
    LET b == Append(buf, e) IN
      /\ buf' = IF Len(b) > MaxLog THEN SubSeq(b, Len(b) - MaxLog + 2, Len(b)) ELSE b
      /\ ended' = Append(ended, e)

\* Mutant: one entry more than Log.max stays.
AddOneLong(e) ==
    LET b == Append(buf, e) IN
      /\ buf' = IF Len(b) > MaxLog + 1 THEN SubSeq(b, Len(b) - MaxLog, Len(b)) ELSE b
      /\ ended' = Append(ended, e)

\* add: append, then keep the last MaxLog entries
Add(e) ==
    LET b == Append(buf, e) IN
      /\ buf' = IF Len(b) > MaxLog THEN SubSeq(b, Len(b) - MaxLog + 1, Len(b)) ELSE b
      /\ ended' = Append(ended, e)

\* Entries: a copy, the newest entry first
Entries == [k \in 1..Len(buf) |-> buf[Len(buf) + 1 - k]]

\* The buffer is lost with the process.
LogRestart == buf' = <<>> /\ ended' = <<>>

LogNext == LogRestart \/ \E e \in Entry : Add(e)

LogSpec == LogInit /\ [][LogNext]_logVars

-----------------------------------------------------------------------------
Recent == INSTANCE RecentRequests WITH shown <- Entries

(* At any time the log page shows the requests that ended last, in the order *)
(* in which they ended, however long ago they began, and no more than the    *)
(* buffer may hold (add, Entries, Middleware).                               *)
LogShowsRecent == Recent!Spec
=============================================================================
