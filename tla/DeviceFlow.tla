---------------------------- MODULE DeviceFlow ----------------------------
(***************************************************************************)
(* Device authorization: the device_codes table, the devices that ask for  *)
(* a code and poll for tokens, and the people who approve or deny on the   *)
(* /device page.  Storing a code takes two statements and polling a read   *)
(* and a later answer; approvals and denials land in between.              *)
(***************************************************************************)
EXTENDS Integers

CONSTANTS
    Device,      \* device codes, one per device that asks
    UserCode,    \* the short codes people type, drawn at random and so repeated
    Subject,     \* subjects of the users on the approval page
    NoSubject,   \* the empty subject column
    NoCode,      \* a device that holds no user code
    Lifetime,    \* how long a code is valid (provider.go: five minutes)
    MaxClock     \* bound: the clock; codes are given out while they can still expire

ASSUME SubjectAssumption == NoSubject \notin Subject /\ NoCode \notin UserCode
ASSUME ClockAssumption == Lifetime \in Nat /\ MaxClock \in Nat

Row == [device : Device, code : UserCode, expires : Nat,
        subject : Subject \cup {NoSubject}, done : BOOLEAN, denied : BOOLEAN]

VARIABLES
    deviceCodes,  \* table device_codes, with a unique index on the user code
    clock,        \* time.Now
    pc,           \* where a device is
    code,         \* the user code it was given
    deadline,     \* when its code expires
    subject,      \* the subject it read with its last poll
    issued,       \* tokens handed out: device, user code, subject
    approved,     \* <<x, s>>: someone approved user code x as subject s
    deniedCodes   \* user codes somebody denied while a device held them

device == <<pc, code, deadline, subject>>
vars == <<deviceCodes, clock, device, issued, approved, deniedCodes>>

Location == {"none", "insert", "polling", "issue", "done", "refused"}

-----------------------------------------------------------------------------
HasCode(x) == \E r \in deviceCodes : r.code = x
Expired(r) == clock > r.expires

\* No answer stops a device from polling again: the row is never consumed.
Asking == {"polling", "done", "refused"}
Goto(d, l) == pc' = [pc EXCEPT ![d] = l]

Init ==
    /\ deviceCodes = {} /\ clock = 0
    /\ pc = [d \in Device |-> "none"] /\ code = [d \in Device |-> NoCode]
    /\ deadline = [d \in Device |-> 0]
    /\ subject = [d \in Device |-> NoSubject]
    /\ issued = {} /\ approved = {} /\ deniedCodes = {}

(* StoreDeviceAuthorization: SELECT COUNT of the user code.  A code in use   *)
(* is reported as a duplicate, and the library draws another; but an error   *)
(* of the SELECT reads as a count of zero, so any code may come through.     *)
CountUserCode(d) ==
    /\ pc[d] = "none" /\ clock + Lifetime < MaxClock
    /\ deadline' = [deadline EXCEPT ![d] = clock + Lifetime]
    /\ \E x \in UserCode : code' = [code EXCEPT ![d] = x]
    /\ Goto(d, "insert")
    /\ UNCHANGED <<deviceCodes, clock, subject, issued, approved, deniedCodes>>

NewRow(d) == [device |-> d, code |-> code[d], expires |-> deadline[d],
              subject |-> NoSubject, done |-> FALSE, denied |-> FALSE]

\* Mutant: user_code has no unique index.
InsertDeviceCodeNoIndex(d) ==
    /\ pc[d] = "insert"
    /\ deviceCodes' = deviceCodes \cup {NewRow(d)} /\ Goto(d, "polling")
    /\ UNCHANGED <<clock, code, deadline, subject, issued, approved, deniedCodes>>

(* StoreDeviceAuthorization: INSERT.  If the code is taken the unique index  *)
(* refuses it; it may fail otherwise, too, and the device has to ask again.  *)
InsertDeviceCode(d) ==
    /\ pc[d] = "insert"
    /\ \/ /\ ~HasCode(code[d])
          /\ deviceCodes' = deviceCodes \cup {NewRow(d)} /\ Goto(d, "polling")
          /\ UNCHANGED code
       \/ /\ code' = [code EXCEPT ![d] = NoCode] /\ Goto(d, "none")
          /\ UNCHANGED deviceCodes
    /\ UNCHANGED <<clock, deadline, subject, issued, approved, deniedCodes>>

\* Mutant: an approval takes back an earlier denial.
ApproveClearsDenial(x, s) ==
    /\ deviceCodes' = {IF r.code = x
                       THEN [r EXCEPT !.subject = s, !.done = TRUE, !.denied = FALSE]
                       ELSE r : r \in deviceCodes}
    /\ approved' = IF HasCode(x) THEN approved \cup {<<x, s>>} ELSE approved
    /\ UNCHANGED <<clock, device, issued, deniedCodes>>

\* Mutant: the UPDATE has no WHERE clause.
ApproveEveryCode(x, s) ==
    /\ deviceCodes' = {[r EXCEPT !.subject = s, !.done = TRUE] : r \in deviceCodes}
    /\ approved' = IF HasCode(x) THEN approved \cup {<<x, s>>} ELSE approved
    /\ UNCHANGED <<clock, device, issued, deniedCodes>>

(* deviceApprove: CompleteDeviceAuthorization, one UPDATE by user code.  It  *)
(* asks neither whether the code exists nor whether it has expired, and the  *)
(* page that leads to it (deviceUserCode) does not look at the expiry either. *)
Approve(x, s) ==
    /\ deviceCodes' = {IF r.code = x THEN [r EXCEPT !.subject = s, !.done = TRUE] ELSE r :
                       r \in deviceCodes}
    /\ approved' = IF HasCode(x) THEN approved \cup {<<x, s>>} ELSE approved
    /\ UNCHANGED <<clock, device, issued, deniedCodes>>

\* deviceApprove: DenyDeviceAuthorization, if it does not fail; the page says "denied" all the same.
Deny(x) ==
    /\ deviceCodes' = {IF r.code = x THEN [r EXCEPT !.denied = TRUE] ELSE r :
                       r \in deviceCodes}
    /\ deniedCodes' = IF HasCode(x) THEN deniedCodes \cup {x} ELSE deniedCodes
    /\ UNCHANGED <<clock, device, issued, approved>>

\* Mutant: an expired code is still pending.
PollNeverExpires(d) ==
    /\ pc[d] \in Asking
    /\ \E r \in deviceCodes :
          /\ r.device = d
          /\ subject' = [subject EXCEPT ![d] = IF r.done THEN r.subject ELSE NoSubject]
          /\ Goto(d, CASE r.denied -> "refused"
                       [] ~r.denied /\ r.done -> "issue"
                       [] OTHER -> "polling")
    /\ UNCHANGED <<deviceCodes, clock, code, deadline, issued, approved, deniedCodes>>

\* Mutant: whatever is not denied and not expired is taken for approved.
PollPendingIsDone(d) ==
    /\ pc[d] \in Asking
    /\ \E r \in deviceCodes :
          /\ r.device = d
          /\ subject' = [subject EXCEPT ![d] = IF r.done THEN r.subject ELSE NoSubject]
          /\ Goto(d, IF r.denied \/ Expired(r) THEN "refused" ELSE "issue")
    /\ UNCHANGED <<deviceCodes, clock, code, deadline, issued, approved, deniedCodes>>

(* The library's token endpoint reads the state with                         *)
(* GetDeviceAuthorizatonState: denied comes before done, done before expired, *)
(* and anything else is "authorization_pending".                             *)
Poll(d) ==
    /\ pc[d] \in Asking
    /\ \E r \in deviceCodes :
          /\ r.device = d
          /\ subject' = [subject EXCEPT ![d] = IF r.done THEN r.subject ELSE NoSubject]
          /\ Goto(d, CASE r.denied -> "refused"
                       [] ~r.denied /\ r.done -> "issue"
                       [] ~r.denied /\ ~r.done /\ Expired(r) -> "refused"
                       [] OTHER -> "polling")
    /\ UNCHANGED <<deviceCodes, clock, code, deadline, issued, approved, deniedCodes>>

\* GetDeviceAuthorizatonState fails, and the library refuses.
PollFails(d) ==
    /\ pc[d] \in Asking /\ Goto(d, "refused")
    /\ UNCHANGED <<deviceCodes, clock, code, deadline, subject, issued, approved, deniedCodes>>

\* Tokens for the subject that was read.
Issue(d) ==
    /\ pc[d] = "issue" /\ Goto(d, "done")
    /\ issued' = issued \cup {[device |-> d, code |-> code[d], subject |-> subject[d]]}
    /\ UNCHANGED <<deviceCodes, clock, code, deadline, subject, approved, deniedCodes>>

Tick ==
    /\ clock < MaxClock /\ clock' = clock + 1
    /\ UNCHANGED <<deviceCodes, device, issued, approved, deniedCodes>>

Next ==
    \/ \E d \in Device :
          CountUserCode(d) \/ InsertDeviceCode(d) \/ Poll(d) \/ PollFails(d) \/ Issue(d)
    \/ \E x \in UserCode :
          Deny(x) \/ \E s \in Subject : Approve(x, s)
    \/ Tick

Spec == Init /\ [][Next]_vars

(* Devices keep polling, the server answers and time passes; nobody has to   *)
(* approve or deny.                                                          *)
Fairness ==
    /\ \A d \in Device : WF_vars(InsertDeviceCode(d)) /\ WF_vars(Poll(d)) /\ WF_vars(Issue(d))
    /\ WF_vars(Tick)
FairSpec == Spec /\ Fairness

-----------------------------------------------------------------------------
(* The values every variable may take. *)
TypeOK ==
    /\ deviceCodes \subseteq Row /\ clock \in Nat
    /\ pc \in [Device -> Location]
    /\ code \in [Device -> UserCode \cup {NoCode}]
    /\ deadline \in [Device -> Nat]
    /\ subject \in [Device -> Subject \cup {NoSubject}]
    /\ issued \subseteq [device : Device, code : UserCode, subject : Subject]
    /\ approved \subseteq UserCode \X Subject
    /\ deniedCodes \subseteq UserCode

(* An approval serves one device: no two devices ever hold tokens for one    *)
(* user code, although codes are drawn at random and the COUNT of            *)
(* StoreDeviceAuthorization races other inserts.                             *)
OneDevicePerCode ==
    \A i, j \in issued : i.code = j.code => i.device = j.device

(* A device's tokens are for a subject whom somebody chose when approving    *)
(* the code that this very device showed (CompleteDeviceAuthorization).      *)
TokenSubjectApproved == \A i \in issued : <<i.code, i.subject>> \in approved

(* A denial is final: a poll that comes after it gets no token, not even     *)
(* after an earlier answer with tokens or a later approval of the same code  *)
(* (DenyDeviceAuthorization).                                                *)
DeniedIsFinal ==
    [][\A d \in Device :
          pc[d] \in Asking /\ code[d] \in deniedCodes => pc'[d] # "issue"]_vars

(* Waiting ends: a device that is told to wait gets tokens, a refusal or an  *)
(* expired code at last, even if nobody ever opens the /device page.         *)
PollingEnds ==
    \A d \in Device : pc[d] = "polling" ~> pc[d] \in {"done", "refused"}
=============================================================================
