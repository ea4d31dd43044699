-------------------------- MODULE RecentRequests --------------------------
(***************************************************************************)
(* What the admin's log page promises: of all the requests that have ended *)
(* since the process started, it shows the last MaxLog ones, the last to   *)
(* end first.                                                              *)
(***************************************************************************)
EXTENDS Naturals, Sequences

CONSTANTS Entry, MaxLog

VARIABLES
    ended,  \* the requests that have ended since the process started, in order
    shown   \* what the page shows

Shown(s) == [k \in 1..(IF Len(s) < MaxLog THEN Len(s) ELSE MaxLog) |-> s[Len(s) + 1 - k]]

Init == ended = <<>> /\ shown = <<>>

End(e) == ended' = Append(ended, e) /\ shown' = Shown(ended')

Restart == ended' = <<>> /\ shown' = <<>>

Next == Restart \/ \E e \in Entry : End(e)

Spec == Init /\ [][Next]_<<ended, shown>>
=============================================================================
