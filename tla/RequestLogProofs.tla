------------------------- MODULE RequestLogProofs -------------------------
(***************************************************************************)
(* The request log shows what RecentRequests promises: the buffer always   *)
(* holds the tail of the history, and the log page reads it backwards.     *)
(***************************************************************************)
EXTENDS RequestLog, TLAPS

\* The buffer is the tail of the history.
TailInv ==
    /\ buf \in Seq(Entry) /\ ended \in Seq(Entry)
    /\ Len(buf) = IF Len(ended) < MaxLog THEN Len(ended) ELSE MaxLog
    /\ \A k \in 1..Len(buf) : buf[k] = ended[Len(ended) - Len(buf) + k]

(* An append that cuts the front of the buffer keeps it the tail (add). *)
LEMMA AddKeepsTail ==
    ASSUME TailInv, NEW e \in Entry, Add(e)
    PROVE  TailInv'
<1> DEFINE b == Append(buf, e)
<1>1. /\ b \in Seq(Entry) /\ Len(b) = Len(buf) + 1
      /\ \A k \in 1..Len(buf) : b[k] = buf[k]
      /\ b[Len(buf) + 1] = e
  BY DEF TailInv
<1>2. /\ ended' \in Seq(Entry) /\ Len(ended') = Len(ended) + 1
      /\ \A k \in 1..Len(ended) : ended'[k] = ended[k]
      /\ ended'[Len(ended) + 1] = e
  BY DEF TailInv, Add
<1>3. Len(buf) \in Nat /\ Len(ended) \in Nat /\ MaxLog \in Nat \ {0}
  BY MaxLogAssumption DEF TailInv
<1>4. \A k \in 1..Len(b) : b[k] = ended'[Len(ended') - Len(b) + k]
  <2> HIDE DEF b
  <2> SUFFICES ASSUME NEW k \in 1..Len(b)
               PROVE  b[k] = ended'[Len(ended') - Len(b) + k]
    OBVIOUS
  <2>1. Len(ended') - Len(b) + k = Len(ended) - Len(buf) + k
    BY <1>1, <1>2, <1>3
  <2>2. CASE k = Len(buf) + 1
    <3>1. Len(ended) - Len(buf) + k = Len(ended) + 1
      BY <1>3, <2>2
    <3> QED BY <1>1, <1>2, <2>1, <2>2, <3>1
  <2>3. CASE k # Len(buf) + 1
    <3>1. k \in 1..Len(buf)
      BY <1>1, <1>3, <2>3
    <3>2. Len(ended) - Len(buf) + k \in 1..Len(ended) /\ Len(buf) <= Len(ended)
      BY <1>3, <3>1 DEF TailInv
    <3> QED BY <1>1, <1>2, <2>1, <3>1, <3>2 DEF TailInv
  <2> QED BY <2>2, <2>3
<1>5. CASE Len(b) > MaxLog
  <2>1. buf' = SubSeq(b, 2, Len(b)) /\ Len(b) = MaxLog + 1
    BY <1>1, <1>3, <1>5 DEF TailInv, Add
  <2>2. buf' \in Seq(Entry) /\ Len(buf') = MaxLog
    BY <1>1, <1>3, <2>1
  <2>3. \A k \in 1..MaxLog : buf'[k] = b[k + 1]
    BY <1>1, <1>3, <2>1
  <2> HIDE DEF b
  <2>4. Len(ended') >= MaxLog /\ Len(ended') \in Nat
    BY <1>1, <1>2, <1>3, <2>1 DEF TailInv
  <2>5. ASSUME NEW k \in 1..Len(buf')
        PROVE  buf'[k] = ended'[Len(ended') - Len(buf') + k]
    <3>1. k + 1 \in 1..Len(b) /\ buf'[k] = b[k + 1]
      BY <1>3, <2>1, <2>2, <2>3
    <3>2. Len(ended') - Len(b) + (k + 1) = Len(ended') - Len(buf') + k
      BY <1>3, <2>1, <2>2, <2>4
    <3> QED BY <1>4, <3>1, <3>2
  <2> QED BY <1>2, <1>3, <2>2, <2>4, <2>5 DEF TailInv
<1>6. CASE ~(Len(b) > MaxLog)
  <2>1. buf' = b
    BY <1>6 DEF Add
  <2> HIDE DEF b
  <2>2. Len(b) = IF Len(ended') < MaxLog THEN Len(ended') ELSE MaxLog
    BY <1>1, <1>2, <1>3, <1>6 DEF TailInv
  <2>3. b \in Seq(Entry) /\ ended' \in Seq(Entry)
    BY <1>1, <1>2
  <2> QED BY <1>4, <2>1, <2>2, <2>3 DEF TailInv
<1> QED BY <1>5, <1>6

LEMMA TailInvariant == LogSpec => []TailInv
<1>1. LogInit => TailInv
  BY MaxLogAssumption DEF LogInit, TailInv
<1>2. TailInv /\ [LogNext]_logVars => TailInv'
  <2> SUFFICES ASSUME TailInv, [LogNext]_logVars PROVE TailInv'
    OBVIOUS
  <2>1. CASE LogRestart
    BY <2>1, MaxLogAssumption DEF LogRestart, TailInv
  <2>2. ASSUME NEW e \in Entry, Add(e) PROVE TailInv'
    BY <2>2, AddKeepsTail
  <2>3. CASE UNCHANGED logVars
    BY <2>3 DEF logVars, TailInv
  <2> QED BY <2>1, <2>2, <2>3 DEF LogNext
<1> QED BY <1>1, <1>2, PTL DEF LogSpec

(* The page shows the last entries of the history, backwards. *)
LEMMA EntriesAreShown == TailInv => Entries = Recent!Shown(ended)
<1> SUFFICES ASSUME TailInv PROVE Entries = Recent!Shown(ended)
  OBVIOUS
<1>1. Len(buf) \in Nat /\ Len(ended) \in Nat /\ MaxLog \in Nat
  BY MaxLogAssumption DEF TailInv
<1>2. Len(buf) = IF Len(ended) < MaxLog THEN Len(ended) ELSE MaxLog
  BY DEF TailInv
<1>3. ASSUME NEW k \in 1..Len(buf)
      PROVE  buf[Len(buf) + 1 - k] = ended[Len(ended) + 1 - k]
  <2>1. Len(buf) + 1 - k \in 1..Len(buf)
    BY <1>1
  <2>2. Len(ended) - Len(buf) + (Len(buf) + 1 - k) = Len(ended) + 1 - k
    BY <1>1
  <2> QED BY <2>1, <2>2 DEF TailInv
<1> QED BY <1>1, <1>2, <1>3 DEF Entries, Recent!Shown

(* The ring buffer implements the promise of the log page: of the requests   *)
(* that have ended since the start, the last MaxLog, newest first.           *)
THEOREM LogImplemented == LogSpec => LogShowsRecent
<1>1. LogInit => Recent!Init
  BY DEF LogInit, Recent!Init, Entries
<1>2. TailInv' => (Entries = Recent!Shown(ended))'
  BY EntriesAreShown, PTL
<1>3. TailInv /\ TailInv' /\ [LogNext]_logVars => [Recent!Next]_(<<ended, Entries>>)
  <2> SUFFICES ASSUME TailInv, TailInv', [LogNext]_logVars
               PROVE  [Recent!Next]_(<<ended, Entries>>)
    OBVIOUS
  <2>1. CASE LogRestart
    BY <2>1 DEF LogRestart, Recent!Next, Recent!Restart, Entries
  <2>2. ASSUME NEW e \in Entry, Add(e) PROVE Recent!Next
    <3>1. ended' = Append(ended, e)
      BY <2>2 DEF Add
    <3>2. Entries' = Recent!Shown(ended)'
      BY <1>2
    <3> QED BY <3>1, <3>2 DEF Recent!Next, Recent!End, Recent!Shown
  <2>3. CASE UNCHANGED logVars
    BY <2>3 DEF logVars, Entries
  <2> QED BY <2>1, <2>2, <2>3 DEF LogNext
<1> QED BY <1>1, <1>3, TailInvariant, PTL DEF LogSpec, LogShowsRecent, Recent!Spec
=============================================================================
