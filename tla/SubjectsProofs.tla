--------------------------- MODULE SubjectsProofs ---------------------------
(***************************************************************************)
(* Proofs about Subjects, for any users, tokens and pinned subjects: an    *)
(* answer for a token speaks for its user or for nobody; and about Claims, *)
(* for any claims objects and any number of rules: every claim of an       *)
(* answer comes from the most specific source.                             *)
(***************************************************************************)
EXTENDS Subjects, Claims, TLAPS

-----------------------------------------------------------------------------
(* The inductive invariant.                                                *)

\* The handler works for a token of the table, which keeps what it stores.
JobInv ==
    /\ pc = "idle" => job = NoJob
    /\ pc # "idle" => /\ job.id \in TokenId /\ job.token \in Token
                      /\ tokens[job.id] = job.token
    /\ pc # "answer" => job.user = NoUser

\* An owner who is away now has been seen to be away.
BlindInv ==
    pc # "idle" /\ job.token.owner # NoUser /\ ~job.blind => Exists(job.token.owner)

(* A token whose subject is its owner's no longer, or another's, is known to *)
(* be; also when the owner was away while the handler searched.              *)
Lost(t, away) ==
    LET o == tokens[t].owner IN
      \/ o # NoUser /\ Exists(o) /\ SubjectOrID(o) # tokens[t].subject
      \/ \E u \in UserId \ {o} : /\ Exists(u)
                                 /\ users[u] = tokens[t].subject \/ (u = tokens[t].subject /\ away)
Away(t) == ~(tokens[t].owner # NoUser /\ Exists(tokens[t].owner))
StrayInv ==
    /\ \A t \in TokenId : tokens[t] # NoToken /\ Lost(t, Away(t)) => t \in strayed
    /\ pc \in {"bySubject", "byId"} /\ job.blind /\ Lost(job.id, TRUE) => job.id \in strayed

\* The first SELECT did not find the owner: the subject is the row id.
ByIdInv ==
    pc = "byId" /\ job.id \notin strayed /\ ~job.blind /\ job.token.owner # NoUser =>
        job.token.subject = job.token.owner

IndInv == TypeOK /\ JobInv /\ BlindInv /\ StrayInv /\ ByIdInv /\ TokenSpeaksForItsUser

-----------------------------------------------------------------------------
(* The invariant holds of the empty tables. *)
LEMMA InitInv == Init => IndInv
BY DEF Init, IndInv, TypeOK, JobInv, BlindInv, StrayInv, ByIdInv, TokenSpeaksForItsUser, NoJob, Job

(* Astray is what Lost says, of the owner being away now or before. *)
LEMMA AstrayIsLost ==
    ASSUME NEW t \in TokenId
    PROVE  Astray(t) <=> Lost(t, Away(t) \/ (job.id = t /\ job.blind))
BY DEF Astray, Lost, Away

LEMMA AstrayIsLostNext ==
    ASSUME NEW t \in TokenId
    PROVE  Astray(t)' <=> Lost(t, Away(t) \/ (job.id = t /\ job.blind))'
BY DEF Astray, Lost, Away

(* While the admin edits, or a token is issued, the handler keeps what it    *)
(* has, except that it may find its owner away.                              *)
LEMMA WatchStep ==
    ASSUME IndInv, Watch, UNCHANGED pc,
           users' \in [UserId -> Pinned \cup {NoSubject, NoUser}],
           tokens' \in [TokenId -> Token \cup {NoToken}],
           \A t \in TokenId : tokens[t] # NoToken => tokens'[t] = tokens[t]
    PROVE  IndInv'
<1> USE DEF IndInv
<1> DEFINE seen == job.blind \/ (pc # "idle" /\ job.token.owner # NoUser
                                  /\ users'[job.token.owner] = NoUser)
<1>1. /\ job' = [job EXCEPT !.blind = seen]
      /\ strayed' = strayed \cup {t \in TokenId : (tokens[t] # NoToken /\ Astray(t))'}
  BY DEF Watch
<1>2. /\ job'.token = job.token /\ job'.id = job.id /\ job'.user = job.user /\ job'.sub = job.sub
      /\ job'.blind = seen /\ job' \in Job
  BY <1>1 DEF TypeOK, Job
<1>3. TypeOK'
  BY <1>1, <1>2 DEF TypeOK
<1>4. JobInv'
  <2>1. CASE pc = "idle"
    <3>1. job = NoJob /\ job.blind = FALSE
      BY <2>1 DEF JobInv, NoJob
    <3>2. seen = FALSE
      BY <2>1, <3>1
    <3>3. job' = [NoJob EXCEPT !.blind = FALSE]
      BY <1>1, <3>1, <3>2
    <3> QED BY <2>1, <3>3 DEF JobInv, NoJob
  <2>2. CASE pc # "idle"
    BY <1>2, <2>2, TokenAssumption DEF JobInv
  <2> QED BY <2>1, <2>2
<1>5. BlindInv'
  BY <1>2 DEF BlindInv, Exists
<1>6. \A t \in TokenId : tokens'[t] # NoToken
                         /\ Lost(t, Away(t) \/ (job.id = t /\ job.blind))' => t \in strayed'
  BY <1>1, AstrayIsLostNext
<1>7. \A t \in TokenId : /\ (Lost(t, Away(t)) => Lost(t, Away(t) \/ (job.id = t /\ job.blind)))'
                         /\ (job.id = t /\ job.blind /\ Lost(t, TRUE) =>
                                Lost(t, Away(t) \/ (job.id = t /\ job.blind)))'
  BY DEF Lost
<1>8. StrayInv'
  BY <1>4, <1>6, <1>7, TokenAssumption DEF StrayInv, JobInv
<1>9. (job.blind => job'.blind) /\ strayed \subseteq strayed'
  BY <1>1, <1>2
<1> HIDE DEF seen
<1>10. ByIdInv' /\ TokenSpeaksForItsUser'
  BY <1>2, <1>9 DEF ByIdInv, TokenSpeaksForItsUser
<1> QED BY <1>3, <1>4, <1>5, <1>8, <1>10

LEMMA AdminStep ==
    ASSUME IndInv,
           \/ \E t \in TokenId : \/ \E u \in UserId : Issue(t, u)
                                 \/ \E c \in ClientId : IssueToClient(t, c)
           \/ \E u \in UserId : \/ \E s \in Pinned \cup {NoSubject} : SaveUser(u, s)
                                \/ DeleteUser(u)
    PROVE  IndInv'
<1> USE DEF IndInv
<1>1. ASSUME NEW t \in TokenId, NEW u \in UserId, Issue(t, u) PROVE IndInv'
  <2>1. SubjectOrID(u) \in Subject
    BY <1>1 DEF Issue, Exists, SubjectOrID, Subject, TypeOK
  <2>2. [subject |-> SubjectOrID(u), owner |-> u] \in Token
    BY <2>1 DEF Token
  <2> QED BY <1>1, <2>2, WatchStep DEF Issue, TypeOK
<1>2. ASSUME NEW t \in TokenId, NEW c \in ClientId, IssueToClient(t, c) PROVE IndInv'
  <2>1. [subject |-> c, owner |-> NoUser] \in Token
    BY DEF Token, Subject
  <2> QED BY <1>2, <2>1, WatchStep DEF IssueToClient, TypeOK
<1>3. ASSUME NEW u \in UserId, NEW s \in Pinned \cup {NoSubject}, SaveUser(u, s) PROVE IndInv'
  BY <1>3, WatchStep DEF SaveUser, TypeOK
<1>4. ASSUME NEW u \in UserId, DeleteUser(u) PROVE IndInv'
  BY <1>4, WatchStep DEF DeleteUser, TypeOK
<1> QED BY <1>1, <1>2, <1>3, <1>4

LEMMA LoadStep ==
    ASSUME IndInv, NEW t \in TokenId, LoadToken(t)
    PROVE  IndInv'
<1> USE DEF IndInv
<1> DEFINE gone == tokens[t].owner # NoUser /\ ~Exists(tokens[t].owner)
<1>1. /\ tokens[t] \in Token /\ pc' = "bySubject" /\ UNCHANGED <<users, tokens, strayed>>
      /\ job' = [NoJob EXCEPT !.token = tokens[t], !.id = t, !.blind = gone]
  BY DEF LoadToken, TypeOK
<1>2. /\ job' \in Job /\ job'.token = tokens[t] /\ job'.id = t /\ job'.blind = gone
      /\ job'.user = NoUser
  BY <1>1 DEF NoJob, Job
<1>3. TypeOK' /\ JobInv' /\ ByIdInv' /\ TokenSpeaksForItsUser'
  BY <1>1, <1>2 DEF TypeOK, JobInv, ByIdInv, TokenSpeaksForItsUser
<1>4. BlindInv'
  BY <1>1, <1>2 DEF BlindInv, Exists
<1>5. StrayInv'
  <2>1. \A x \in TokenId : Lost(x, Away(x))' <=> Lost(x, Away(x))
    BY <1>1 DEF Lost, Away, Exists, SubjectOrID
  <2>2. gone /\ Lost(t, TRUE)' => Lost(t, Away(t))
    BY <1>1 DEF Lost, Away, Exists, SubjectOrID
  <2>3. tokens[t] # NoToken
    BY DEF LoadToken
  <2> HIDE DEF gone
  <2> QED BY <1>1, <1>2, <2>1, <2>2, <2>3 DEF StrayInv
<1> QED BY <1>3, <1>4, <1>5

(* An answer that fits the token: the tables are as they were. *)
LEMMA AnswerStep ==
    ASSUME IndInv, pc \in {"bySubject", "byId"}, pc' = "answer",
           UNCHANGED <<users, tokens, strayed>>,
           NEW u \in UserId \cup {NoUser}, NEW s \in Subject \cup {NoSubject}, NEW b \in BOOLEAN,
           job' = [job EXCEPT !.user = u, !.sub = s, !.blind = job.blind \/ b],
           job.id \notin strayed =>
               /\ s = job.token.subject
               /\ u = job.token.owner \/ (u = NoUser /\ (job.blind \/ b))
    PROVE  IndInv'
<1> USE DEF IndInv
<1>1. /\ job'.token = job.token /\ job'.id = job.id /\ job'.user = u /\ job'.sub = s
      /\ job'.blind = (job.blind \/ b) /\ job' \in Job
  BY DEF TypeOK, Job
<1>2. TypeOK' /\ JobInv' /\ ByIdInv'
  BY <1>1 DEF TypeOK, JobInv, ByIdInv
<1>3. BlindInv'
  BY <1>1 DEF BlindInv, Exists
<1>4. StrayInv'
  BY DEF StrayInv, Lost, Away, Exists, SubjectOrID
<1>5. job.blind \/ b => job'.blind
  BY <1>1
<1>6. TokenSpeaksForItsUser'
  BY <1>1, <1>5 DEF TokenSpeaksForItsUser
<1> QED BY <1>2, <1>3, <1>4, <1>6
(* The first SELECT finds nobody but the owner, if the token's subject is    *)
(* its owner's alone; if it does not find the owner, who is there, the       *)
(* subject is the row id.                                                    *)
LEMMA BySubjectStep ==
    ASSUME IndInv, BySubject
    PROVE  IndInv'
<1> USE DEF IndInv
<1> DEFINE s == job.token.subject
           o == job.token.owner
           t == job.id
<1>1. /\ pc = "bySubject" /\ UNCHANGED <<users, tokens, strayed>>
      /\ job.id \in TokenId /\ job.token \in Token /\ tokens[t] = job.token
      /\ tokens[t] # NoToken
  BY TokenAssumption DEF BySubject, JobInv
<1>2. s \in Subject /\ o \in UserId \cup {NoUser} /\ job \in Job
  BY <1>1 DEF Token, TypeOK
<1>3. t \notin strayed => ~Lost(t, Away(t))
  BY <1>1 DEF StrayInv
<1>4. ASSUME NEW u \in UserId, Exists(u), users[u] = s, Found(u) PROVE IndInv'
  <2>1. s # NoSubject /\ SubjectOrID(u) = s
    BY <1>2, <1>4, NameAssumption DEF SubjectOrID, Subject
  <2>2. t \notin strayed => u = o
    BY <1>1, <1>3, <1>4 DEF Lost
  <2>3. job' = [job EXCEPT !.user = u, !.sub = s, !.blind = job.blind \/ FALSE]
    BY <1>2, <1>4, <2>1 DEF Found, Job
  <2>4. pc' = "answer"
    BY <1>4 DEF Found
  <2> QED BY <1>1, <1>2, <2>2, <2>3, <2>4, AnswerStep
<1>5. ASSUME \A u \in UserId : ~(Exists(u) /\ users[u] = s), pc' = "byId", UNCHANGED job
      PROVE  IndInv'
  <2>1. TypeOK' /\ JobInv' /\ BlindInv' /\ StrayInv' /\ TokenSpeaksForItsUser'
    BY <1>1, <1>5 DEF TypeOK, JobInv, BlindInv, StrayInv, TokenSpeaksForItsUser, Lost, Away,
                      Exists, SubjectOrID
  <2>2. ASSUME t \notin strayed, ~job.blind, o # NoUser PROVE s = o
    <3>1. Exists(o)
      BY <1>1, <2>2 DEF BlindInv
    <3>2. SubjectOrID(o) = s
      BY <1>1, <1>3, <2>2, <3>1 DEF Lost
    <3>3. users[o] # s
      BY <1>2, <1>5, <2>2, <3>1
    <3> QED BY <3>2, <3>3 DEF SubjectOrID
  <2>3. ByIdInv'
    BY <1>1, <1>5, <2>2 DEF ByIdInv
  <2> QED BY <2>1, <2>3
<1>6. ASSUME NotFound(TRUE) PROVE IndInv'
  <2>1. pc' = "answer" /\ job' = [job EXCEPT !.sub = s, !.blind = job.blind \/ TRUE]
    BY <1>6 DEF NotFound
  <2>2. job' = [job EXCEPT !.user = NoUser, !.sub = s, !.blind = job.blind \/ TRUE]
    BY <1>1, <1>2, <2>1 DEF JobInv, Job
  <2> QED BY <1>1, <1>2, <2>1, <2>2, AnswerStep
<1> QED BY <1>4, <1>5, <1>6 DEF BySubject

(* The second SELECT finds the owner, or somebody whose row id is the        *)
(* subject; and an owner who is there all along is found.                    *)
LEMMA ByIdStep ==
    ASSUME IndInv, ById
    PROVE  IndInv'
<1> USE DEF IndInv
<1> DEFINE s == job.token.subject
           o == job.token.owner
           t == job.id
<1>1. /\ pc = "byId" /\ UNCHANGED <<users, tokens, strayed>>
      /\ job.id \in TokenId /\ job.token \in Token /\ tokens[t] = job.token
      /\ tokens[t] # NoToken /\ job.user = NoUser
  BY TokenAssumption DEF ById, JobInv
<1>2. s \in Subject /\ o \in UserId \cup {NoUser} /\ job \in Job
  BY <1>1 DEF Token, TypeOK
<1>3. t \notin strayed => ~Lost(t, Away(t)) /\ (job.blind => ~Lost(t, TRUE))
  BY <1>1 DEF StrayInv
<1>4. ASSUME s \in UserId, Exists(s), Found(s) PROVE IndInv'
  <2>1. pc' = "answer" /\ SubjectOrID(s) \in Subject
    BY <1>4 DEF Found, SubjectOrID, Subject, Exists, TypeOK
  <2>2. job' = [job EXCEPT !.user = s, !.sub = SubjectOrID(s), !.blind = job.blind \/ FALSE]
    BY <1>2, <1>4 DEF Found, Job
  <2>3. ASSUME t \notin strayed PROVE s = o
    <3>1. CASE job.blind \/ Away(t)
      BY <1>1, <1>3, <1>4, <2>3, <3>1 DEF Lost
    <3>2. CASE ~job.blind /\ ~Away(t)
      BY <1>1, <2>3, <3>2 DEF ByIdInv, Away
    <3> QED BY <3>1, <3>2
  <2>4. t \notin strayed => SubjectOrID(s) = s
    BY <1>1, <1>2, <1>3, <1>4, <2>3, AbsentAssumption DEF Lost
  <2> HIDE DEF IndInv
  <2> QED BY <1>1, <1>2, <1>4, <2>1, <2>2, <2>3, <2>4, AnswerStep
<1>5. ASSUME NotFound(TRUE) PROVE IndInv'
  <2>1. pc' = "answer" /\ job' = [job EXCEPT !.user = NoUser, !.sub = s, !.blind = job.blind \/ TRUE]
    BY <1>1, <1>2, <1>5 DEF NotFound, Job
  <2> QED BY <1>1, <1>2, <2>1, AnswerStep
<1>6. ASSUME NotFound(FALSE), ~(s \in UserId /\ Exists(s)) PROVE IndInv'
  <2>1. pc' = "answer" /\ job' = [job EXCEPT !.user = NoUser, !.sub = s, !.blind = job.blind \/ FALSE]
    BY <1>1, <1>2, <1>6 DEF NotFound, Job
  <2>2. t \notin strayed => NoUser = o \/ job.blind
    BY <1>1, <1>2, <1>6 DEF ByIdInv, BlindInv
  <2> HIDE DEF IndInv
  <2> QED BY <1>1, <1>2, <2>1, <2>2, AnswerStep
<1> QED BY <1>4, <1>5, <1>6 DEF ById

(* An answer that is sent, and stuttering. *)
LEMMA SendStep == IndInv /\ (Send \/ UNCHANGED vars) => IndInv'
<1> SUFFICES ASSUME IndInv, Send \/ UNCHANGED vars PROVE IndInv'
  OBVIOUS
<1> USE DEF IndInv
<1>1. CASE Send
  <2>1. NoJob \in Job /\ NoJob.user = NoUser
    BY DEF NoJob, Job
  <2>2. TypeOK' /\ JobInv' /\ BlindInv' /\ ByIdInv' /\ TokenSpeaksForItsUser'
    BY <1>1, <2>1 DEF Send, TypeOK, JobInv, BlindInv, ByIdInv, TokenSpeaksForItsUser
  <2>3. StrayInv'
    BY <1>1 DEF Send, StrayInv, Lost, Away, Exists, SubjectOrID
  <2> QED BY <2>2, <2>3
<1>2. CASE UNCHANGED vars
  <2>1. TypeOK' /\ JobInv' /\ BlindInv' /\ ByIdInv' /\ TokenSpeaksForItsUser'
    BY <1>2 DEF vars, TypeOK, JobInv, BlindInv, ByIdInv, TokenSpeaksForItsUser, Exists
  <2>2. StrayInv'
    BY <1>2 DEF vars, StrayInv, Lost, Away, Exists, SubjectOrID
  <2> QED BY <2>1, <2>2
<1> QED BY <1>1, <1>2

LEMMA NextStep == IndInv /\ [Next]_vars => IndInv'
BY AdminStep, LoadStep, BySubjectStep, ByIdStep, SendStep DEF Next

LEMMA Inductive == Spec => []IndInv
<1>1. Init => IndInv
  BY InitInv
<1>2. IndInv /\ [Next]_vars => IndInv'
  BY NextStep
<1> QED BY <1>1, <1>2, PTL DEF Spec

-----------------------------------------------------------------------------
(* Every variable keeps its type. *)
THEOREM TypeCorrect == Spec => []TypeOK
<1>1. IndInv => TypeOK
  BY DEF IndInv
<1> QED BY Inductive, <1>1, PTL

(* A token stays with its user: an answer for it carries its own subject and *)
(* its owner's claims, or nobody's, until the admin gives its subject away   *)
(* (GetUserBySubject, setUserinfo, saveUser, deleteUser).                    *)
THEOREM TokenAlwaysSpeaksForItsUser == Spec => []TokenSpeaksForItsUser
<1>1. IndInv => TokenSpeaksForItsUser
  BY DEF IndInv
<1> QED BY Inductive, <1>1, PTL

-----------------------------------------------------------------------------
(* The loop over the rules of a user.                                      *)

\* The rules passed so far that say something of claim k.
Told(k) == {n \in Telling(k, asked.rules, asked.client, asked.scopes) : n <= passed}

\* Claim k is what the last of them says, and missing if there is none.
Latest(k) ==
    IF Told(k) = {} THEN k \notin DOMAIN out
    ELSE \E m \in Told(k) : /\ \A n \in Told(k) : n <= m
                            /\ k \in DOMAIN out /\ out[k] = asked.rules[m].claims[k]

\* The loop has passed the first rules of the user.
Begun == \E len \in 0..MaxRules : DOMAIN asked.rules = 1..len /\ passed \in 0..len

LoopInv ==
    /\ asked = NoQuestion => passed = 0 /\ out = None
    /\ asked # NoQuestion => Begun /\ \A k : Latest(k)

\* A question has finitely many rules, and none has been passed when it is asked.
LEMMA AskStep == ASSUME LoopInv, Ask PROVE LoopInv'
<1>1. asked = NoQuestion /\ asked' \in Question /\ passed' = 0 /\ out' = None
  BY DEF Ask, LoopInv
<1>2. asked' # NoQuestion
  BY <1>1, QuestionAssumption
<1>3. Begun'
  <2>1. asked'.rules \in BoundedSeq(Condition, MaxRules)
    BY <1>1 DEF Question
  <2>2. PICK len \in 0..MaxRules : asked'.rules \in [1..len -> Condition]
    BY <2>1 DEF BoundedSeq, SeqOf
  <2> QED BY <1>1, <2>2 DEF Begun
<1>4. ASSUME NEW k PROVE Latest(k)'
  <2>1. Told(k)' = {}
    BY <1>1, <1>3 DEF Told, Telling, Begun
  <2>2. k \notin DOMAIN out'
    BY <1>1 DEF None
  <2> QED BY <2>1, <2>2 DEF Latest
<1> QED BY <1>2, <1>3, <1>4 DEF LoopInv

\* A rule that matches is copied over what the rules before it said.
LEMMA RuleStep == ASSUME LoopInv, EvaluateConditionalClaims PROVE LoopInv'
<1> PICK n, rule : n = passed + 1 /\ rule = asked.rules[n]
  OBVIOUS
<1>1. /\ asked # NoQuestion /\ n \in DOMAIN asked.rules /\ passed' = n /\ UNCHANGED asked
      /\ out' = IF Matches(rule, asked.client, asked.scopes) THEN Over(rule.claims, out) ELSE out
  BY DEF EvaluateConditionalClaims, More
<1>2. Begun /\ \A k : Latest(k)
  BY <1>1 DEF LoopInv
<1>3. passed \in Nat /\ DOMAIN asked.rules \subseteq Nat
  BY <1>2 DEF Begun
<1>4. Begun'
  BY <1>1, <1>2, <1>3 DEF Begun
<1>5. ASSUME NEW k PROVE Latest(k)'
  <2>1. Told(k) \subseteq 1..passed
    BY <1>2, <1>3 DEF Told, Telling, Begun
  <2>2. CASE Matches(rule, asked.client, asked.scopes) /\ k \in DOMAIN rule.claims
    <3>1. n \in Told(k)' /\ \A i \in Told(k)' : i <= n
      BY <1>1, <1>3, <2>2 DEF Told, Telling
    <3>2. k \in DOMAIN out' /\ out'[k] = rule.claims[k]
      BY <1>1, <2>2 DEF Over
    <3> QED BY <1>1, <3>1, <3>2 DEF Latest
  <2>3. CASE ~(Matches(rule, asked.client, asked.scopes) /\ k \in DOMAIN rule.claims)
    <3>1. Told(k)' = Told(k)
      <4>1. \A i \in DOMAIN asked.rules : i <= n <=> i <= passed \/ i = n
        BY <1>3
      <4>2. n \notin Telling(k, asked.rules, asked.client, asked.scopes)
        BY <2>3 DEF Telling
      <4> QED BY <1>1, <4>1, <4>2 DEF Told, Telling
    <3>2. /\ k \in DOMAIN out' <=> k \in DOMAIN out
          /\ k \in DOMAIN out => out'[k] = out[k]
      BY <1>1, <2>3 DEF Over
    <3>3. Latest(k)
      BY <1>2
    <3> QED BY <1>1, <3>1, <3>2, <3>3 DEF Latest
  <2> QED BY <2>2, <2>3
<1> QED BY <1>1, <1>4, <1>5 DEF LoopInv

\* After the loop, a claim is what the last rule says that says something of it.
LEMMA LastRuleWins ==
    ASSUME LoopInv, asked # NoQuestion, ~More, NEW k
    PROVE  LET T == Telling(k, asked.rules, asked.client, asked.scopes) IN
             IF T = {} THEN k \notin DOMAIN out
             ELSE /\ k \in DOMAIN asked.rules[Max(T)].claims
                  /\ k \in DOMAIN out /\ out[k] = asked.rules[Max(T)].claims[k]
<1> PICK T : T = Telling(k, asked.rules, asked.client, asked.scopes)
  OBVIOUS
<1>1. Begun /\ Latest(k)
  BY DEF LoopInv
<1>2. PICK len \in 0..MaxRules : DOMAIN asked.rules = 1..len /\ passed \in 0..len
  BY <1>1 DEF Begun
<1>3. passed = len
  BY <1>2 DEF More
<1>4. Told(k) = T /\ T \subseteq 1..len
  BY <1>2, <1>3 DEF Told, Telling
<1>5. CASE T = {}
  BY <1>1, <1>4, <1>5 DEF Latest
<1>6. CASE T # {}
  <2>1. PICK m \in T : /\ \A n \in T : n <= m
                       /\ k \in DOMAIN out /\ out[k] = asked.rules[m].claims[k]
    BY <1>1, <1>4, <1>6 DEF Latest
  <2>2. Max(T) = m
    <3>1. \A x \in T : (\A y \in T : x >= y) => x = m
      BY <1>4, <2>1
    <3>2. \A y \in T : m >= y
      BY <1>4, <2>1
    <3> QED BY <3>1, <3>2 DEF Max
  <2>3. k \in DOMAIN asked.rules[m].claims
    BY DEF Telling
  <2> QED BY <1>6, <2>1, <2>2, <2>3
<1> QED BY <1>5, <1>6

(* What is copied last decides: the client's claims, then the rules', then   *)
(* the static ones.                                                          *)
LEMMA CopiesAgree ==
    ASSUME NEW custom, NEW conditional, NEW static, NEW k
    PROVE  LET all == Over(custom, Over(conditional, static)) IN
             /\ k \in DOMAIN custom => Agree(all, custom, k)
             /\ k \notin DOMAIN custom /\ k \in DOMAIN conditional => Agree(all, conditional, k)
             /\ k \notin DOMAIN custom /\ k \notin DOMAIN conditional => Agree(all, static, k)
<1> PICK two : two = Over(conditional, static)
  OBVIOUS
<1>1. /\ DOMAIN two = DOMAIN conditional \cup DOMAIN static
      /\ k \in DOMAIN conditional => two[k] = conditional[k]
      /\ k \in DOMAIN static /\ k \notin DOMAIN conditional => two[k] = static[k]
  BY DEF Over
<1> PICK all : all = Over(custom, two)
  OBVIOUS
<1>2. /\ DOMAIN all = DOMAIN custom \cup DOMAIN two
      /\ k \in DOMAIN custom => all[k] = custom[k]
      /\ k \in DOMAIN two /\ k \notin DOMAIN custom => all[k] = two[k]
  BY DEF Over
<1> QED BY <1>1, <1>2 DEF Agree

LEMMA PrecedenceFollows == LoopInv => ClaimPrecedence
<1> DEFINE q == asked
           Source(k, own) ==
              LET telling == Telling(k, q.rules, q.client, q.scopes) IN
              CASE k \in DOMAIN q.custom -> q.custom
                [] k \notin DOMAIN q.custom /\ telling # {} -> q.rules[Max(telling)].claims
                [] OTHER -> own
           shown == [n \in DOMAIN q.static \ {"address"} |-> q.static[n]]
           address == UserinfoClaims(q, out).address
<1> SUFFICES ASSUME LoopInv, asked # NoQuestion, ~More
             PROVE  /\ \A k \in Names :
                         /\ Agree(PrivateClaims(q, out), Source(k, q.static), k)
                         /\ Agree(UserinfoClaims(q, out).appended, Source(k, shown), k)
                    /\ address # NoAddress <=> "address" \in q.scopes /\ HasAddress(q.static)
                    /\ address # NoAddress => address = ToAddress[q.static["address"]]
  BY DEF ClaimPrecedence
<1>1. ASSUME NEW k \in Names, NEW own
      PROVE  Agree(Over(q.custom, Over(out, own)), Source(k, own), k)
  <2> PICK T, all : /\ T = Telling(k, q.rules, q.client, q.scopes)
                    /\ all = Over(q.custom, Over(out, own))
    OBVIOUS
  <2>1. CASE k \in DOMAIN q.custom
    BY <2>1, CopiesAgree
  <2>2. CASE k \notin DOMAIN q.custom /\ T = {}
    <3>1. k \notin DOMAIN out
      BY <2>2, LastRuleWins
    <3>2. Agree(all, own, k) /\ Source(k, own) = own
      BY <2>2, <3>1, CopiesAgree
    <3> QED BY <3>2
  <2>3. CASE k \notin DOMAIN q.custom /\ T # {}
    <3> PICK last : last = q.rules[Max(T)].claims
      OBVIOUS
    <3>1. k \in DOMAIN last /\ k \in DOMAIN out /\ out[k] = last[k]
      BY <2>3, LastRuleWins
    <3>2. Agree(all, out, k)
      BY <2>3, <3>1, CopiesAgree
    <3>3. Agree(all, last, k)
      BY <3>1, <3>2 DEF Agree
    <3>4. Source(k, own) = last
      BY <2>3
    <3> QED BY <3>3, <3>4
  <2> QED BY <2>1, <2>2, <2>3
<1>2. PrivateClaims(q, out) = Over(q.custom, Over(out, q.static))
  BY DEF PrivateClaims
<1>3. UserinfoClaims(q, out).appended = Over(q.custom, Over(out, shown))
  BY DEF UserinfoClaims, Without
<1>4. /\ address # NoAddress <=> "address" \in q.scopes /\ HasAddress(q.static)
      /\ address # NoAddress => address = ToAddress[q.static["address"]]
  <2>1. address = IF "address" \in q.scopes /\ HasAddress(q.static)
                  THEN ToAddress[q.static["address"]] ELSE NoAddress
    BY DEF UserinfoClaims
  <2>2. HasAddress(q.static) => ToAddress[q.static["address"]] # NoAddress
    BY AddressAssumption DEF HasAddress
  <2> QED BY <2>1, <2>2
<1> HIDE DEF Source, shown, address
<1> QED BY <1>1, <1>2, <1>3, <1>4

(* Whatever rules a user has, and whatever claims the user, the rules and    *)
(* the client carry, each claim of a JWT access token, and each one appended *)
(* to a userinfo, is that of the most specific source: the client, else the  *)
(* last rule that matches, else the user.  The user's static address is not  *)
(* appended; it alone makes the field Address, when the scope asks for it    *)
(* (EvaluateConditionalClaims, setUserinfo, GetPrivateClaimsFromScopes).     *)
THEOREM ClaimsAlwaysMostSpecific == ClaimsSpec => []ClaimPrecedence
<1>1. ClaimsInit => LoopInv
  BY DEF ClaimsInit, LoopInv
<1>2. LoopInv /\ [ClaimsNext]_claimsVars => LoopInv'
  <2> SUFFICES ASSUME LoopInv, [ClaimsNext]_claimsVars PROVE LoopInv'
    OBVIOUS
  <2>1. CASE UNCHANGED claimsVars
    BY <2>1 DEF claimsVars, LoopInv, Begun, Latest, Told
  <2> QED BY <2>1, AskStep, RuleStep DEF ClaimsNext
<1>3. LoopInv => ClaimPrecedence
  BY PrecedenceFollows
<1> QED BY <1>1, <1>2, <1>3, PTL DEF ClaimsSpec
=============================================================================
