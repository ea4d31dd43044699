-------------------------- MODULE DeviceFlowProofs --------------------------
(***************************************************************************)
(* Proofs about DeviceFlow, for any number of devices, codes and subjects, *)
(* any lifetime and any bound of the clock.  One lemma per action.         *)
(***************************************************************************)
EXTENDS DeviceFlow, TLAPS

-----------------------------------------------------------------------------
(* The inductive invariant.                                                *)

\* A device that has asked shows a code.
CodeInv == \A d \in Device : pc[d] # "none" => code[d] \in UserCode

\* The unique index: a user code has one row.
UniqueCodes == \A q, r \in deviceCodes : q.code = r.code => q = r

(* A row belongs to a device that polls or is being answered, and that shows *)
(* the row's code; an approved row names an approved subject, and the row of *)
(* a denied code is denied.                                                  *)
RowOf(r) ==
    /\ pc[r.device] \in Asking \cup {"issue"} /\ code[r.device] = r.code
    /\ r.done => r.subject \in Subject /\ <<r.code, r.subject>> \in approved
    /\ r.code \in deniedCodes => r.denied
RowsInv == \A r \in deviceCodes : RowOf(r)

\* No row ever goes away: denied codes and tokens keep theirs.
HasRow(d, x) == \E r \in deviceCodes : r.device = d /\ r.code = x
KeptInv ==
    /\ \A x \in deniedCodes : HasCode(x)
    /\ \A i \in issued : HasRow(i.device, i.code)

\* A device about to get tokens has a row, and the subject it has read was approved.
IssueInv ==
    \A d \in Device : pc[d] = "issue" =>
        /\ HasRow(d, code[d])
        /\ subject[d] \in Subject /\ <<code[d], subject[d]>> \in approved

IndInv == /\ TypeOK /\ CodeInv /\ UniqueCodes /\ RowsInv /\ KeptInv /\ IssueInv
          /\ TokenSubjectApproved

-----------------------------------------------------------------------------
(* The invariant holds of the empty table. *)
LEMMA InitInv == Init => IndInv
BY SubjectAssumption, ClockAssumption
DEF Init, IndInv, TypeOK, CodeInv, UniqueCodes, RowsInv, KeptInv, IssueInv,
    TokenSubjectApproved, Location

(* A device asks: it has no row yet, and it draws a code. *)
LEMMA CountStep ==
    ASSUME IndInv, NEW d \in Device, CountUserCode(d)
    PROVE  IndInv'
<1> USE ClockAssumption DEF IndInv, CountUserCode, Goto
<1>1. TypeOK' /\ CodeInv'
  BY DEF TypeOK, CodeInv, Location
<1>2. \A r \in deviceCodes : r.device # d
  BY DEF RowsInv, RowOf, Asking, TypeOK, Row
<1>3. UniqueCodes'
  BY DEF UniqueCodes
<1>4. RowsInv'
  BY <1>2 DEF RowsInv, RowOf, TypeOK, Row
<1>5. KeptInv' /\ IssueInv' /\ TokenSubjectApproved'
  BY DEF KeptInv, IssueInv, TokenSubjectApproved, HasCode, HasRow, TypeOK
<1> QED BY <1>1, <1>3, <1>4, <1>5

(* A row is added for a code that no row has, so that it is not denied; or   *)
(* the device is back where it began.                                        *)
LEMMA InsertStep ==
    ASSUME IndInv, NEW d \in Device, InsertDeviceCode(d)
    PROVE  IndInv'
<1> USE DEF IndInv, InsertDeviceCode, Goto
<1>1. \A r \in deviceCodes : r.device # d
  BY DEF RowsInv, RowOf, Asking, TypeOK, Row
<1>2. ASSUME ~HasCode(code[d]), deviceCodes' = deviceCodes \cup {NewRow(d)},
             Goto(d, "polling"), UNCHANGED code
      PROVE  IndInv'
  <2>1. NewRow(d) \in Row
    BY <1>2 DEF NewRow, Row, TypeOK, CodeInv
  <2>2. TypeOK' /\ CodeInv'
    BY <1>2, <2>1 DEF TypeOK, CodeInv, Location
  <2>3. UniqueCodes'
    <3>1. NewRow(d).code = code[d] /\ \A r \in deviceCodes : r.code # code[d]
      BY <1>2 DEF HasCode, NewRow
    <3> QED BY <1>2, <3>1 DEF UniqueCodes
  <2>4. code[d] \notin deniedCodes
    BY <1>2 DEF KeptInv
  <2>5. ASSUME NEW r, r = NewRow(d) PROVE RowOf(r)'
    BY <2>5, <1>2, <2>4 DEF RowOf, NewRow, Asking, TypeOK
  <2>6. \A r \in deviceCodes : RowOf(r)'
    BY <1>1, <1>2 DEF RowsInv, RowOf, TypeOK, Row
  <2>7. KeptInv' /\ IssueInv' /\ TokenSubjectApproved'
    BY <1>2 DEF KeptInv, IssueInv, TokenSubjectApproved, HasCode, HasRow, TypeOK
  <2>8. RowsInv'
    BY <1>2, <2>5, <2>6 DEF RowsInv
  <2> QED BY <2>2, <2>3, <2>7, <2>8
<1>3. ASSUME code' = [code EXCEPT ![d] = NoCode], Goto(d, "none"), UNCHANGED deviceCodes
      PROVE  IndInv'
  <2>1. TypeOK' /\ CodeInv'
    BY <1>3 DEF TypeOK, CodeInv, Location
  <2>2. UniqueCodes' /\ RowsInv'
    BY <1>1, <1>3 DEF UniqueCodes, RowsInv, RowOf, TypeOK, Row
  <2>3. KeptInv' /\ IssueInv' /\ TokenSubjectApproved'
    BY <1>3 DEF KeptInv, IssueInv, TokenSubjectApproved, HasCode, HasRow, TypeOK
  <2> QED BY <2>1, <2>2, <2>3
<1>4. \/ /\ ~HasCode(code[d]) /\ deviceCodes' = deviceCodes \cup {NewRow(d)}
         /\ Goto(d, "polling") /\ UNCHANGED code
      \/ code' = [code EXCEPT ![d] = NoCode] /\ Goto(d, "none") /\ UNCHANGED deviceCodes
  OBVIOUS
<1> HIDE DEF IndInv, InsertDeviceCode, Goto
<1> QED BY <1>2, <1>3, <1>4

(* An approval changes the subject of one row, and records it. *)
LEMMA ApproveStep ==
    ASSUME IndInv, NEW x \in UserCode, NEW s \in Subject, Approve(x, s)
    PROVE  IndInv'
<1> DEFINE After(r) == IF r.code = x THEN [r EXCEPT !.subject = s, !.done = TRUE] ELSE r
<1> USE DEF IndInv
<1>1. /\ deviceCodes' = {After(r) : r \in deviceCodes}
      /\ approved' = IF HasCode(x) THEN approved \cup {<<x, s>>} ELSE approved
      /\ UNCHANGED <<clock, pc, code, deadline, subject, issued, deniedCodes>>
  BY DEF Approve, device
<1>2. \A r \in deviceCodes :
          /\ After(r) \in Row /\ After(r).device = r.device /\ After(r).code = r.code
          /\ After(r).denied = r.denied
          /\ r.code = x => After(r).subject = s
          /\ r.code # x => After(r) = r
  BY DEF TypeOK, Row
<1> HIDE DEF After
<1>3. TypeOK' /\ CodeInv'
  BY <1>1, <1>2 DEF TypeOK, CodeInv
<1>4. UniqueCodes'
  BY <1>1, <1>2 DEF UniqueCodes
<1>5. ASSUME NEW r \in deviceCodes PROVE RowOf(After(r))'
  <2> HIDE DEF IndInv
  <2>1. RowOf(r) /\ approved \subseteq approved' /\ UNCHANGED <<pc, code, deniedCodes>>
    BY <1>1 DEF IndInv, RowsInv
  <2>2. CASE r.code = x
    <3>1. <<x, s>> \in approved'
      BY <1>1, <2>2 DEF HasCode
    <3>2. After(r).subject = s /\ After(r).code = x
      BY <1>2, <2>2
    <3> QED BY <1>2, <2>1, <3>1, <3>2 DEF RowOf
  <2>3. CASE r.code # x
    <3>1. After(r) = r
      BY <1>2, <2>3
    <3> QED BY <2>1, <3>1 DEF RowOf
  <2> QED BY <2>2, <2>3
<1>6. KeptInv' /\ IssueInv' /\ TokenSubjectApproved'
  BY <1>1, <1>2 DEF KeptInv, IssueInv, TokenSubjectApproved, HasCode, HasRow
<1> QED BY <1>1, <1>3, <1>4, <1>5, <1>6 DEF RowsInv

(* A denial denies the row of its code. *)
LEMMA DenyStep ==
    ASSUME IndInv, NEW x \in UserCode, Deny(x)
    PROVE  IndInv'
<1> DEFINE After(r) == IF r.code = x THEN [r EXCEPT !.denied = TRUE] ELSE r
<1> USE DEF IndInv
<1>1. /\ deviceCodes' = {After(r) : r \in deviceCodes}
      /\ deniedCodes' = IF HasCode(x) THEN deniedCodes \cup {x} ELSE deniedCodes
      /\ UNCHANGED <<clock, pc, code, deadline, subject, issued, approved>>
  BY DEF Deny, device
<1>2. \A r \in deviceCodes :
          /\ After(r) \in Row /\ After(r).device = r.device /\ After(r).code = r.code
          /\ After(r).done = r.done /\ After(r).subject = r.subject
          /\ r.code = x => After(r).denied
          /\ r.code # x => After(r) = r
  BY DEF TypeOK, Row
<1> HIDE DEF After
<1>3. TypeOK' /\ CodeInv'
  BY <1>1, <1>2 DEF TypeOK, CodeInv
<1>4. UniqueCodes'
  BY <1>1, <1>2 DEF UniqueCodes
<1>5. ASSUME NEW r \in deviceCodes PROVE RowOf(After(r))'
  BY <1>1, <1>2 DEF RowsInv, RowOf
<1>6. KeptInv' /\ IssueInv' /\ TokenSubjectApproved'
  BY <1>1, <1>2 DEF KeptInv, IssueInv, TokenSubjectApproved, HasCode, HasRow
<1> QED BY <1>1, <1>3, <1>4, <1>5, <1>6 DEF RowsInv

(* A poll reads the row of the device, which shows its code. *)
LEMMA PollStep ==
    ASSUME IndInv, NEW d \in Device, Poll(d)
    PROVE  IndInv'
<1> USE DEF IndInv
<1>1. PICK r \in deviceCodes :
          /\ r.device = d
          /\ subject' = [subject EXCEPT ![d] = IF r.done THEN r.subject ELSE NoSubject]
          /\ Goto(d, CASE r.denied -> "refused"
                       [] ~r.denied /\ r.done -> "issue"
                       [] ~r.denied /\ ~r.done /\ Expired(r) -> "refused"
                       [] OTHER -> "polling")
  BY DEF Poll
<1>2. UNCHANGED <<deviceCodes, clock, code, deadline, issued, approved, deniedCodes>>
  BY DEF Poll
<1>3. pc[d] # "none" /\ pc[d] # "insert"
  BY DEF Poll, Asking
<1>4. r \in Row /\ RowOf(r) /\ r.code = code[d]
  BY <1>1 DEF TypeOK, RowsInv, RowOf
<1> DEFINE l == CASE r.denied -> "refused"
                  [] ~r.denied /\ r.done -> "issue"
                  [] ~r.denied /\ ~r.done /\ Expired(r) -> "refused"
                  [] OTHER -> "polling"
<1>5. l \in {"refused", "issue", "polling"} /\ (l = "issue" => r.done)
  BY <1>4 DEF Row
<1>6. pc' = [pc EXCEPT ![d] = l]
  BY <1>1 DEF Goto
<1> HIDE DEF l
<1>7. TypeOK'
  BY <1>1, <1>2, <1>4, <1>5, <1>6 DEF TypeOK, Location, Row
<1>8. CodeInv' /\ UniqueCodes'
  BY <1>2, <1>3, <1>6 DEF CodeInv, UniqueCodes, TypeOK
<1>9. RowsInv'
  BY <1>2, <1>5, <1>6 DEF RowsInv, RowOf, Asking, TypeOK, Row
<1>10. IssueInv'
  BY <1>1, <1>2, <1>4, <1>5, <1>6 DEF IssueInv, HasRow, RowOf, TypeOK
<1>11. KeptInv' /\ TokenSubjectApproved'
  BY <1>2 DEF KeptInv, TokenSubjectApproved, HasCode, HasRow
<1> QED BY <1>7, <1>8, <1>9, <1>10, <1>11

(* A refused poll leaves the tables alone. *)
LEMMA PollFailsStep ==
    ASSUME IndInv, NEW d \in Device, PollFails(d)
    PROVE  IndInv'
<1> USE DEF IndInv, PollFails, Goto
<1>1. TypeOK' /\ CodeInv' /\ UniqueCodes'
  BY DEF TypeOK, Location, CodeInv, UniqueCodes, Asking
<1>2. RowsInv'
  BY DEF RowsInv, RowOf, Asking, TypeOK, Row
<1>3. KeptInv' /\ IssueInv' /\ TokenSubjectApproved'
  BY DEF KeptInv, IssueInv, TokenSubjectApproved, HasCode, HasRow, TypeOK
<1> QED BY <1>1, <1>2, <1>3

(* The tokens are for the subject that was read, on the code of the device's row. *)
LEMMA IssueStep ==
    ASSUME IndInv, NEW d \in Device, Issue(d)
    PROVE  IndInv'
<1> DEFINE i == [device |-> d, code |-> code[d], subject |-> subject[d]]
<1> USE DEF IndInv
<1>1. /\ pc[d] = "issue" /\ pc' = [pc EXCEPT ![d] = "done"]
      /\ issued' = issued \cup {i}
      /\ UNCHANGED <<deviceCodes, clock, code, deadline, subject, approved, deniedCodes>>
  BY DEF Issue, Goto
<1>2. /\ code[d] \in UserCode /\ subject[d] \in Subject
      /\ HasRow(d, code[d]) /\ <<code[d], subject[d]>> \in approved
  BY <1>1 DEF CodeInv, IssueInv
<1>3. TypeOK' /\ CodeInv' /\ UniqueCodes'
  BY <1>1, <1>2 DEF TypeOK, Location, CodeInv, UniqueCodes
<1>4. RowsInv'
  BY <1>1 DEF RowsInv, RowOf, Asking, TypeOK, Row
<1>5. KeptInv'
  BY <1>1, <1>2 DEF KeptInv, HasCode, HasRow
<1>6. IssueInv'
  BY <1>1 DEF IssueInv, HasRow, TypeOK
<1>7. TokenSubjectApproved'
  <2>1. i.code = code[d] /\ i.subject = subject[d]
    OBVIOUS
  <2> HIDE DEF i
  <2> QED BY <1>1, <1>2, <2>1 DEF TokenSubjectApproved
<1> QED BY <1>3, <1>4, <1>5, <1>6, <1>7

(* Time and stuttering change nothing that the invariant is about. *)
LEMMA TickStep == IndInv /\ (Tick \/ UNCHANGED vars) => IndInv'
BY ClockAssumption
DEF IndInv, Tick, vars, device, TypeOK, CodeInv, UniqueCodes, RowsInv, RowOf, KeptInv, IssueInv,
    TokenSubjectApproved, HasCode, HasRow

LEMMA NextStep == IndInv /\ [Next]_vars => IndInv'
BY CountStep, InsertStep, ApproveStep, DenyStep, PollStep, PollFailsStep, IssueStep, TickStep
DEF Next

LEMMA Inductive == Spec => []IndInv
<1>1. Init => IndInv
  BY InitInv
<1>2. IndInv /\ [Next]_vars => IndInv'
  BY NextStep
<1> QED BY <1>1, <1>2, PTL DEF Spec

-----------------------------------------------------------------------------
(* Every variable keeps its type; tokens in particular always have a subject *)
(* (GetDeviceAuthorizatonState).                                             *)
THEOREM TypeCorrect == Spec => []TypeOK
<1>1. IndInv => TypeOK
  BY DEF IndInv
<1> QED BY Inductive, <1>1, PTL

(* The unique index makes one device per code, although the COUNT before it  *)
(* races or fails (StoreDeviceAuthorization).                                *)
THEOREM OneDeviceForEveryCode == Spec => []OneDevicePerCode
<1>1. IndInv => OneDevicePerCode
  BY DEF IndInv, KeptInv, HasRow, UniqueCodes, OneDevicePerCode
<1> QED BY Inductive, <1>1, PTL

(* Tokens are for approved subjects only (CompleteDeviceAuthorization). *)
THEOREM SubjectAlwaysApproved == Spec => []TokenSubjectApproved
<1>1. IndInv => TokenSubjectApproved
  BY DEF IndInv
<1> QED BY Inductive, <1>1, PTL

(* A denied code stays denied, and a poll after a denial is refused          *)
(* (DenyDeviceAuthorization, GetDeviceAuthorizatonState).                    *)
THEOREM DenialIsFinal == Spec => DeniedIsFinal
<1> DEFINE P == \A d \in Device :
                    pc[d] \in Asking /\ code[d] \in deniedCodes => pc'[d] # "issue"
<1>1. ASSUME IndInv, [Next]_vars PROVE P
  <2> SUFFICES ASSUME NEW d \in Device, pc[d] \in Asking, code[d] \in deniedCodes
               PROVE  pc'[d] # "issue"
    OBVIOUS
  <2>1. CASE Poll(d)
    <3>1. PICK r \in deviceCodes :
              /\ r.device = d
              /\ Goto(d, CASE r.denied -> "refused"
                           [] ~r.denied /\ r.done -> "issue"
                           [] ~r.denied /\ ~r.done /\ Expired(r) -> "refused"
                           [] OTHER -> "polling")
      BY <2>1 DEF Poll
    <3>2. r.denied
      BY <1>1, <3>1 DEF IndInv, RowsInv, RowOf
    <3>3. pc' = [pc EXCEPT ![d] = "refused"]
      BY <3>1, <3>2 DEF Goto
    <3> QED BY <1>1, <3>3 DEF IndInv, TypeOK
  <2>2. CASE ~Poll(d)
    BY <1>1, <2>2
    DEF Next, CountUserCode, InsertDeviceCode, Poll, PollFails, Issue, Approve, Deny, Tick,
        vars, device, Goto, Asking, IndInv, TypeOK
  <2> QED BY <2>1, <2>2
<1>2. IndInv /\ [Next]_vars => [P]_vars
  BY <1>1
<1> QED BY Inductive, <1>2, PTL DEF Spec, DeniedIsFinal
=============================================================================
