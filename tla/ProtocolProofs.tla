--------------------------- MODULE ProtocolProofs ---------------------------
(***************************************************************************)
(* Proofs about Protocol and the Clients it is built on, for any clients,  *)
(* configurations, browser tabs, requests and sizes of the log: a client   *)
(* keeps one row, every answer follows what was configured while its       *)
(* request ran, and the log shows the requests that ended last.            *)
(***************************************************************************)
EXTENDS Protocol, RequestLogProofs, FiniteSetTheorems

-----------------------------------------------------------------------------
(* The inductive invariant of the admin's forms.                           *)

\* The clients there have been so far; the next new one gets another number.
Known == ClientId \cup 1..opened

Row(l, i) == Occupied(i) /\ line[i] = l
Active(t) == form[t].at # "closed"
Moving(f) == f.at = "save" /\ Renames(f)

KnownInv ==
    /\ saved \cup removed \cup excused \subseteq Known
    /\ \A t \in Tab : Active(t) => form[t].line \in Known
    /\ \A i \in ClientId : Occupied(i) => line[i] \in saved

\* What is about to be saved is a client.
PostInv == \A t \in Tab : form[t].at = "save" => form[t].id \in ClientId /\ form[t].config \in Config

(* A form whose client is not excused is alone with it: it shows the id of   *)
(* its only row, which is gone while it is being renamed, or it is for a     *)
(* client that has never been saved.                                         *)
FormOf(t) ==
    LET f == form[t] IN
      Active(t) /\ f.line \notin excused =>
        /\ \A u \in Tab \ {t} : Active(u) => form[u].line # f.line
        /\ f.line \in saved <=> f.orig # NoClient
        /\ f.line \notin removed
        /\ \A i \in ClientId : Row(f.line, i) <=> f.orig = i /\ ~Moving(f)
FormInv == \A t \in Tab : FormOf(t)

\* A client that no form is open for has one row, or none once it is removed.
Untouched(l) == \A t \in Tab : Active(t) => form[t].line # l
OnceOf(l) ==
    Untouched(l) => IF l \in removed THEN \A i \in ClientId : ~Row(l, i)
                    ELSE \E i \in ClientId : \A k \in ClientId : Row(l, k) <=> k = i
OnceInv == \A l \in saved \ excused : OnceOf(l)

AdminInv == AdminTypeOK /\ KnownInv /\ PostInv /\ FormInv /\ OnceInv

-----------------------------------------------------------------------------
(* The inductive invariant of the requests.                                *)

(* What a version must have been for a request to pass the forced error, to  *)
(* be signed so, to be served, and to be given the password grant.           *)
Passing(v) == v.named # NoClient => ~v.named.error
AlgOf(v) == IF v.named = NoClient THEN NoAlg ELSE v.named.alg
Exists(v) == v.served # NoClient
Grants(v) == Exists(v) /\ v.served.password

\* The client named was passing at some time, and had the algorithm then or later.
Pinned(s, alg) ==
    \E a, b \in DOMAIN s : a <= b /\ Passing(s[a]) /\ alg = AlgOf(s[b])

\* And then or later the client served existed with the password grant.
Granted(s, alg) ==
    \E a, b, d \in DOMAIN s : /\ a <= b /\ b <= d /\ Passing(s[a]) /\ alg = AlgOf(s[b])
                              /\ Grants(s[d])

\* And then or later it existed.
Served(j) ==
    LET s == j.seen IN
    \E a, b, c \in DOMAIN s :
        /\ a <= b /\ b <= c /\ Passing(s[a]) /\ j.alg = AlgOf(s[b]) /\ Exists(s[c])
        /\ j.kind = "password" => \E d \in b..c : Grants(s[d])

\* What the middlewares read of a client, and of the override, was so at some time.
SeesClient(s, c) == \E a \in DOMAIN s : s[a].named = c
SeesOverride(s, o) == \E a \in DOMAIN s : s[a].override = o

\* Requests that read a client.
Reading == {"covered", "password"}

Explained(j) ==
    /\ j.outcome = "forced" => \E c \in Config : c.error /\ SeesClient(j.seen, c)
    /\ j.outcome = "served" => Served(j)
    /\ j.outcome = "document" => SeesOverride(j.seen, j.override)

\* What a request has learnt at location l.
Learnt(l, j) ==
    /\ l \in {"load", "forceError", "signingAlg"} => j.kind \in Reading
    /\ l \in {"password", "passwordClient"} => j.kind = "password"
    /\ l = "override" => j.kind = "discovery"
    /\ l = "provider" => j.kind # "password"
    /\ l = "forceError" => j.loaded \in Config /\ SeesClient(j.seen, j.loaded)
    /\ l = "signingAlg" => \E a \in DOMAIN j.seen : Passing(j.seen[a])
    /\ l \in {"password", "provider"} /\ j.kind \in Reading => Pinned(j.seen, j.alg)
    /\ l = "passwordClient" => Granted(j.seen, j.alg)
    /\ l = "provider" /\ j.kind = "discovery" => SeesOverride(j.seen, j.override)
    /\ l = "end" /\ j.kind # "callback" => Explained(j)

\* A request in flight has seen what its clients are now, unless it has its answer.
JobOf(l, j) ==
    l # "idle" =>
        /\ j.req \in 1..MaxRequests
        /\ j.seen # <<>>
        /\ l # "end" => j.seen[Len(j.seen)] = Now(j)
        /\ Learnt(l, j)
JobInv == \A w \in Worker : JobOf(pc[w], job[w])

IndInv == TypeOK /\ AdminInv /\ JobInv

-----------------------------------------------------------------------------
(* The admin's steps.                                                      *)

\* Before the first form every seeded client has its row.
LEMMA AdminInitInv == AdminInit => AdminInv
<1> SUFFICES ASSUME AdminInit PROVE AdminInv
  OBVIOUS
<1> USE InitialAssumption, FormAssumption DEF AdminInit
<1>1. NoForm \in Form
  BY DEF NoForm, Form, Line
<1>2. AdminTypeOK
  BY <1>1 DEF AdminTypeOK, Line
<1>3. \A t \in Tab : ~Active(t) /\ form[t].at # "save"
  BY DEF Active, NoForm
<1>4. KnownInv
  BY <1>3 DEF KnownInv, Known
<1>5. PostInv /\ FormInv
  BY <1>3 DEF PostInv, FormInv, FormOf
<1>6. OnceInv
  BY DEF OnceInv, OnceOf, Row, Occupied
<1> QED BY <1>2, <1>4, <1>5, <1>6 DEF AdminInv

\* A number that no form has had yet belongs to no client.
LEMMA FreshLine ==
    ASSUME AdminInv
    PROVE  opened + 1 \notin Known /\ \A i \in ClientId : ~Row(opened + 1, i)
<1>1. opened \in Nat
  BY FormAssumption DEF AdminInv, AdminTypeOK
<1>2. opened + 1 \notin Known
  BY <1>1, LineAssumption DEF Known
<1> QED BY <1>2 DEF AdminInv, KnownInv, Row

(* What follows of the type of a form that a step leaves for tab t. *)
LEMMA FormSet ==
    ASSUME AdminInv, NEW t \in Tab, NEW g \in Form, form' = [form EXCEPT ![t] = g]
    PROVE  /\ form' \in [Tab -> Form] /\ form'[t] = g
           /\ \A u \in Tab \ {t} : form'[u] = form[u]
           /\ \A u \in Tab \ {t} : Active(u)' <=> Active(u)
BY DEF AdminInv, AdminTypeOK, Active

\* A client with a row and no form on it has that row alone, and was not removed.
LEMMA OnlyRow ==
    ASSUME AdminInv, NEW i \in ClientId, Occupied(i), line[i] \notin excused,
           Untouched(line[i])
    PROVE  line[i] \notin removed /\ \A k \in ClientId : Row(line[i], k) <=> k = i
BY DEF AdminInv, KnownInv, OnceInv, OnceOf, Row

\* A page is opened for a new client, or for a row as it is.
LEMMA OpenStep ==
    ASSUME AdminInv, NEW t \in Tab, OpenForm(t) PROVE AdminInv'
<1>1. /\ form[t].at = "closed" /\ opened' = opened + 1 /\ opened' \in 0..MaxForms
      /\ opened \in Nat /\ opened + 1 \in Nat
      /\ UNCHANGED <<clients, line, saved, removed>>
  <2>1. /\ form[t].at = "closed" /\ opened < MaxForms /\ opened' = opened + 1
        /\ UNCHANGED <<clients, line, saved, removed>>
    BY DEF OpenForm
  <2>2. opened \in 0..MaxForms
    BY DEF AdminInv, AdminTypeOK
  <2> QED BY <2>1, <2>2, FormAssumption
<1>2. /\ \A l, i : Row(l, i)' <=> Row(l, i)
      /\ Known \subseteq Known'
      /\ opened + 1 \in Known'
  BY <1>1, FormAssumption DEF Row, Occupied, Known, AdminInv, AdminTypeOK
<1>3. ASSUME form' = [form EXCEPT ![t] = [NoForm EXCEPT !.at = "open", !.line = opened + 1]],
             UNCHANGED excused
      PROVE  AdminInv'
  <2> DEFINE g == [NoForm EXCEPT !.at = "open", !.line = opened + 1]
  <2>1. g \in Form /\ g.at = "open" /\ g.orig = NoClient /\ g.line = opened + 1
    <3>1. opened + 1 \in Line
      BY <1>1 DEF Line
    <3>2. NoForm \in Form /\ NoForm.orig = NoClient
      BY DEF NoForm, Form, Line
    <3> HIDE DEF NoForm
    <3> QED BY <3>1, <3>2 DEF Form
  <2> HIDE DEF g
  <2>2. /\ form' \in [Tab -> Form] /\ form'[t] = g
        /\ \A u \in Tab \ {t} : form'[u] = form[u]
        /\ \A u \in Tab \ {t} : Active(u)' <=> Active(u)
    BY <1>3, <2>1, FormSet DEF g
  <2>3. AdminTypeOK' /\ PostInv'
    BY <1>1, <1>3, <2>1, <2>2 DEF AdminInv, AdminTypeOK, PostInv
  <2>4. KnownInv'
    BY <1>1, <1>2, <1>3, <2>1, <2>2 DEF AdminInv, KnownInv, Occupied
  <2>5. FormOf(t)'
    <3>1. \A u \in Tab \ {t} : Active(u)' => form'[u].line # opened + 1
      BY <2>2, FreshLine DEF AdminInv, KnownInv
    <3>2. opened + 1 \notin saved /\ opened + 1 \notin removed
      BY FreshLine DEF AdminInv, KnownInv
    <3>3. \A i \in ClientId : ~Row(opened + 1, i) /\ NoClient # i
      BY FreshLine, AbsentAssumption
    <3> QED BY <1>1, <1>2, <2>1, <2>2, <3>1, <3>2, <3>3 DEF FormOf
  <2>6. ASSUME NEW u \in Tab \ {t} PROVE FormOf(u)'
    <3>1. Active(u) => form[u].line # opened + 1
      BY FreshLine DEF AdminInv, KnownInv
    <3>2. FormOf(u)
      BY DEF AdminInv, FormInv
    <3> QED BY <1>1, <1>2, <1>3, <2>1, <2>2, <3>1, <3>2 DEF FormOf
  <2>7. OnceInv'
    <3> SUFFICES ASSUME NEW l \in saved \ excused, Untouched(l)' PROVE OnceOf(l)'
      BY <1>1, <1>3 DEF OnceInv, OnceOf
    <3>1. Untouched(l)
      BY <1>1, <2>2 DEF Untouched, Active
    <3> QED BY <3>1, <1>1, <1>2 DEF AdminInv, OnceInv, OnceOf
  <2> QED BY <2>3, <2>4, <2>5, <2>6, <2>7 DEF AdminInv, FormInv
<1>4. ASSUME NEW i \in ClientId, Occupied(i),
             form' = [form EXCEPT ![t] = [NoForm EXCEPT !.at = "open", !.orig = i, !.line = line[i]]],
             Excuse(IF OnForm(line[i]) = {} THEN {} ELSE {line[i]})
      PROVE  AdminInv'
  <2> DEFINE g == [NoForm EXCEPT !.at = "open", !.orig = i, !.line = line[i]]
  <2>1. g \in Form /\ g.at = "open" /\ g.orig = i /\ g.line = line[i] /\ i # NoClient
    BY AbsentAssumption DEF NoForm, Form, AdminInv, AdminTypeOK
  <2> HIDE DEF g
  <2>2. /\ form' \in [Tab -> Form] /\ form'[t] = g
        /\ \A u \in Tab \ {t} : form'[u] = form[u]
        /\ \A u \in Tab \ {t} : Active(u)' <=> Active(u)
    BY <1>4, <2>1, FormSet DEF g
  <2>3. /\ line[i] \in saved /\ line[i] \in Known /\ line[i] \in Line
        /\ excused \subseteq excused' /\ excused' \subseteq excused \cup {line[i]}
        /\ line[i] \notin excused' => Untouched(line[i])
    BY <1>4 DEF AdminInv, AdminTypeOK, KnownInv, Excuse, OnForm, Untouched, Active
  <2>4. AdminTypeOK' /\ PostInv'
    BY <1>1, <2>1, <2>2, <2>3 DEF AdminInv, AdminTypeOK, PostInv
  <2>5. KnownInv'
    BY <1>1, <1>2, <2>1, <2>2, <2>3 DEF AdminInv, KnownInv, Occupied
  <2>6. FormOf(t)'
    <3> SUFFICES ASSUME line[i] \notin excused' PROVE FormOf(t)'
      BY <2>1, <2>2 DEF FormOf
    <3>1. line[i] \notin removed /\ \A k \in ClientId : Row(line[i], k) <=> k = i
      BY <1>4, <2>3, OnlyRow
    <3> QED BY <1>1, <1>2, <2>1, <2>2, <2>3, <3>1 DEF FormOf, Untouched, Moving
  <2>7. ASSUME NEW u \in Tab \ {t} PROVE FormOf(u)'
    <3>1. FormOf(u)
      BY DEF AdminInv, FormInv
    <3> QED BY <1>1, <1>2, <2>1, <2>2, <2>3, <3>1 DEF FormOf, Untouched
  <2>8. OnceInv'
    <3> SUFFICES ASSUME NEW l \in saved \ excused, Untouched(l)' PROVE OnceOf(l)'
      BY <1>1, <2>3 DEF OnceInv, OnceOf
    <3>1. Untouched(l)
      BY <1>1, <2>2 DEF Untouched, Active
    <3> QED BY <3>1, <1>1, <1>2 DEF AdminInv, OnceInv, OnceOf
  <2> QED BY <2>4, <2>5, <2>6, <2>7, <2>8 DEF AdminInv, FormInv
<1> QED BY <1>3, <1>4 DEF OpenForm

(* The client of a form that is not renaming it has the row that the form    *)
(* was opened for, and no other.                                             *)
LEMMA FormRow ==
    ASSUME AdminInv, NEW t \in Tab, Active(t), form[t].line \in saved \ excused, ~Moving(form[t])
    PROVE  /\ form[t].line \notin removed
           /\ \E i \in ClientId : \A k \in ClientId : Row(form[t].line, k) <=> k = i
<1>1. FormOf(t) /\ form[t].orig \in ClientId \cup {NoClient}
  BY DEF AdminInv, AdminTypeOK, FormInv, Form
<1>2. form[t].orig \in ClientId
  BY <1>1 DEF FormOf
<1> QED BY <1>1, <1>2 DEF FormOf

\* Forms that are closed without a trace, unless they are renaming a client.
LEMMA CloseStep ==
    ASSUME AdminInv, UNCHANGED <<clients, opened, line, saved, removed>>,
           form' \in [Tab -> Form], excused \subseteq excused', excused' \subseteq Known,
           \A t \in Tab : \/ form'[t] = form[t]
                          \/ form'[t] = NoForm /\ (Moving(form[t]) => form[t].line \in excused')
    PROVE  AdminInv'
<1>1. /\ \A l, i : Row(l, i)' <=> Row(l, i)
      /\ Known' = Known
  BY DEF Row, Occupied, Known
<1>2. \A t \in Tab : Active(t)' \/ form'[t].at = "save" => form'[t] = form[t]
  BY DEF Active, NoForm
<1>3. \A t \in Tab : Active(t)' => Active(t)
  BY <1>2 DEF Active
<1>4. AdminTypeOK'
  BY LineAssumption DEF AdminInv, AdminTypeOK, Known, Line
<1>5. KnownInv' /\ PostInv'
  BY <1>1, <1>2, <1>3 DEF AdminInv, KnownInv, PostInv, Occupied
<1>6. ASSUME NEW t \in Tab PROVE FormOf(t)'
  <2> SUFFICES ASSUME Active(t)', form'[t].line \notin excused' PROVE FormOf(t)'
    BY DEF FormOf
  <2>1. form'[t] = form[t] /\ FormOf(t)
    BY <1>2 DEF AdminInv, FormInv
  <2>2. \A u \in Tab \ {t} : Active(u)' => form'[u].line # form[t].line
    BY <1>2, <1>3, <2>1 DEF FormOf
  <2> QED BY <1>1, <1>3, <2>1, <2>2 DEF FormOf
<1>7. ASSUME NEW l \in saved \ excused', Untouched(l)' PROVE OnceOf(l)'
  <2>1. CASE Untouched(l)
    <3>1. OnceOf(l)
      BY DEF AdminInv, OnceInv
    <3> QED BY <1>1, <2>1, <3>1 DEF OnceOf
  <2>2. ASSUME NEW t \in Tab, Active(t), form[t].line = l PROVE OnceOf(l)'
    <3>1. ~Moving(form[t])
      BY <1>7, <2>2 DEF Untouched, Active
    <3>2. /\ l \notin removed
          /\ \E i \in ClientId : \A k \in ClientId : Row(l, k) <=> k = i
      BY <2>2, <3>1, FormRow
    <3> QED BY <1>1, <3>2 DEF OnceOf
  <2> QED BY <2>1, <2>2 DEF Untouched
<1>8. OnceInv'
  BY <1>7 DEF OnceInv, OnceOf
<1> QED BY <1>4, <1>5, <1>6, <1>8 DEF AdminInv, FormInv

\* A form is refused, before or after its DELETE.
LEMMA RefuseStep ==
    ASSUME AdminInv, NEW t \in Tab, RefuseForm(t) \/ RefuseSave(t) PROVE AdminInv'
<1>1. NoForm \in Form
  BY DEF NoForm, Form, Line
<1>2. /\ form' = [form EXCEPT ![t] = NoForm] /\ form[t].at \in {"open", "save"}
      /\ UNCHANGED <<clients, opened, line, saved, removed>>
      /\ excused \subseteq excused' /\ excused' \subseteq excused \cup {form[t].line}
      /\ Moving(form[t]) => form[t].line \in excused'
  BY DEF RefuseForm, RefuseSave, CloseForm, Excuse, Moving
<1>3. excused' \subseteq Known
  BY <1>2 DEF AdminInv, KnownInv, Active
<1>4. /\ form' \in [Tab -> Form] /\ form'[t] = NoForm
      /\ \A u \in Tab \ {t} : form'[u] = form[u]
  BY <1>1, <1>2, FormSet
<1> QED BY <1>2, <1>3, <1>4, CloseStep

\* The process stops while forms are being posted.
LEMMA CrashStep == ASSUME AdminInv, AdminCrash PROVE AdminInv'
<1>1. NoForm \in Form
  BY DEF NoForm, Form, Line
<1>2. form' \in [Tab -> Form]
  BY <1>1 DEF AdminCrash, AdminInv, AdminTypeOK
<1>3. \A t \in Tab : \/ form'[t] = form[t]
                     \/ form'[t] = NoForm /\ (Moving(form[t]) => form[t].line \in excused')
  BY DEF AdminCrash, Excuse, Moving
<1>4. excused \subseteq excused' /\ excused' \subseteq Known
  BY DEF AdminCrash, Excuse, AdminInv, KnownInv, Active
<1>5. UNCHANGED <<clients, opened, line, saved, removed>>
  BY DEF AdminCrash
<1> QED BY <1>2, <1>3, <1>4, <1>5, CloseStep

(* What a step does to the rows and forms of client l, and to clients that   *)
(* it excuses, leaves what is promised of every other client as it was.      *)
OnlyTouches(l) ==
    /\ excused \subseteq excused'
    /\ \A u \in Tab : \/ form'[u] = form[u]
                      \/ Active(u) /\ form[u].line = l /\ (Active(u)' => form'[u].line = l)
    /\ \A m : m # l /\ m \notin excused' =>
          /\ m \in saved' <=> m \in saved
          /\ m \in removed' <=> m \in removed
          /\ \A k \in ClientId : Row(m, k)' <=> Row(m, k)

LEMMA Elsewhere ==
    ASSUME AdminInv, NEW l, OnlyTouches(l)
    PROVE  /\ \A u \in Tab : form[u].line # l => FormOf(u)'
           /\ \A m \in saved' \ excused' : m # l => OnceOf(m)'
<1>1. ASSUME NEW u \in Tab, form[u].line # l PROVE FormOf(u)'
  <2> SUFFICES ASSUME Active(u)', form'[u].line \notin excused' PROVE FormOf(u)'
    BY DEF FormOf
  <2>1. form'[u] = form[u] /\ FormOf(u) /\ Active(u)
    BY <1>1 DEF OnlyTouches, AdminInv, FormInv, Active
  <2>2. \A v \in Tab \ {u} : Active(v)' => form'[v].line # form[u].line
    BY <1>1, <2>1 DEF FormOf, OnlyTouches, Active
  <2> QED BY <1>1, <2>1, <2>2 DEF FormOf, OnlyTouches
<1>2. ASSUME NEW m \in saved' \ excused', m # l, Untouched(m)' PROVE OnceOf(m)'
  <2>1. Untouched(m)
    BY <1>2 DEF Untouched, OnlyTouches, Active
  <2>2. m \in saved \ excused
    BY <1>2 DEF OnlyTouches
  <2>3. OnceOf(m)
    BY <2>2 DEF AdminInv, OnceInv
  <2>4. /\ m \in removed' <=> m \in removed
        /\ \A k \in ClientId : Row(m, k)' <=> Row(m, k)
    BY <1>2 DEF OnlyTouches
  <2> QED BY <2>1, <2>3, <2>4 DEF OnceOf
<1> QED BY <1>1, <1>2 DEF OnceOf

\* A row that is deleted or overwritten belongs to l, or to a client that is excused for it.
LEMMA Displaced ==
    ASSUME NEW l, NEW i \in ClientId, Excuse(LinesAt({i}) \ {l})
    PROVE  \A m : m # l /\ m \notin excused' => ~Row(m, i)
BY DEF Excuse, LinesAt, Row

\* The clients that lose their rows to a form were saved.
LEMMA Excusing ==
    ASSUME AdminInv, NEW I \in SUBSET ClientId
    PROVE  LinesAt(I) \subseteq saved
BY DEF AdminInv, KnownInv, LinesAt

\* A form is posted: a changed id deletes the row that had the old one.
LEMMA PostStep ==
    ASSUME AdminInv, NEW t \in Tab, NEW i \in ClientId, NEW c \in Config, PostForm(t, i, c)
    PROVE  AdminInv'
<1> PICK l, g : l = form[t].line /\ g = [form[t] EXCEPT !.at = "save", !.id = i, !.config = c]
  OBVIOUS
<1>1. /\ g \in Form /\ g.at = "save" /\ g.id = i /\ g.config = c
      /\ g.orig = form[t].orig /\ g.line = l
  BY DEF AdminInv, AdminTypeOK, Form
<1>2. /\ form[t].at = "open" /\ form' = [form EXCEPT ![t] = g]
      /\ UNCHANGED <<opened, line, saved, removed>>
  BY DEF PostForm
<1>3. \/ /\ Renames(g) /\ clients' = [clients EXCEPT ![g.orig] = NoClient]
         /\ Excuse(LinesAt({g.orig}) \ {l})
      \/ ~Renames(g) /\ UNCHANGED <<clients, excused>>
      \/ Renames(g) /\ UNCHANGED clients /\ Excuse({l})
  BY <1>1 DEF PostForm, Excuse
<1>4. /\ form' \in [Tab -> Form] /\ form'[t] = g
      /\ \A u \in Tab \ {t} : form'[u] = form[u]
      /\ \A u \in Tab \ {t} : Active(u)' <=> Active(u)
  BY <1>1, <1>2, FormSet
<1>5. Active(t) /\ Active(t)' /\ ~Moving(form[t])
  BY <1>1, <1>2, <1>4 DEF Active, Moving
<1>6. Renames(g) => g.orig \in ClientId
  BY <1>1 DEF Renames, Form
<1>7. /\ clients' \in [ClientId -> Config \cup {NoClient}]
      /\ \A k \in ClientId : Occupied(k)' => Occupied(k)
      /\ \A m : \A k \in ClientId : Row(m, k)' => Row(m, k)
  BY <1>2, <1>3, <1>6 DEF AdminInv, AdminTypeOK, Occupied, Row
<1>8. excused \subseteq excused' /\ excused' \subseteq Known /\ Known' = Known
  <2>1. l \in Known
    BY <1>5 DEF AdminInv, KnownInv
  <2>2. Renames(g) => LinesAt({g.orig}) \subseteq Known
    BY <1>6, Excusing DEF AdminInv, KnownInv
  <2> QED BY <1>2, <1>3, <2>1, <2>2 DEF AdminInv, KnownInv, Excuse, Known
<1>9. AdminTypeOK'
  BY <1>2, <1>4, <1>7, <1>8, LineAssumption DEF AdminInv, AdminTypeOK, Known, Line
<1>10. KnownInv' /\ PostInv'
  BY <1>1, <1>2, <1>4, <1>5, <1>7, <1>8 DEF AdminInv, KnownInv, PostInv
<1>11. ASSUME NEW m, m # l, m \notin excused', NEW k \in ClientId
       PROVE  Row(m, k)' <=> Row(m, k)
  <2>1. CASE Renames(g) /\ clients' = [clients EXCEPT ![g.orig] = NoClient]
             /\ Excuse(LinesAt({g.orig}) \ {l})
    <3>1. ~Row(m, g.orig)
      BY <1>6, <1>11, <2>1, Displaced
    <3> QED BY <1>2, <1>6, <2>1, <3>1 DEF Row, Occupied, AdminInv, AdminTypeOK
  <2>2. CASE UNCHANGED clients
    BY <1>2, <2>2 DEF Row, Occupied
  <2> QED BY <1>3, <2>1, <2>2
<1>12. OnlyTouches(l)
  BY <1>1, <1>2, <1>4, <1>5, <1>8, <1>11 DEF OnlyTouches
<1>13. FormOf(t)'
  <2> SUFFICES ASSUME l \notin excused' PROVE FormOf(t)'
    BY <1>1, <1>4 DEF FormOf
  <2>1. /\ \A u \in Tab \ {t} : Active(u) => form[u].line # l
        /\ l \in saved <=> form[t].orig # NoClient
        /\ l \notin removed
        /\ \A k \in ClientId : Row(l, k) <=> form[t].orig = k
    BY <1>5, <1>8 DEF AdminInv, FormInv, FormOf
  <2>2. ASSUME NEW k \in ClientId
        PROVE  Row(l, k)' <=> g.orig = k /\ ~Moving(g)
    <3>1. CASE ~Renames(g)
      BY <1>1, <1>2, <1>3, <2>1, <3>1 DEF Row, Occupied, Moving
    <3>2. CASE Renames(g)
      <4>1. clients' = [clients EXCEPT ![g.orig] = NoClient] /\ Moving(g)
        BY <1>1, <1>3, <3>2 DEF Excuse, Moving
      <4>2. Row(l, k)' => g.orig = k
        BY <1>1, <1>7, <2>1
      <4>3. ~Occupied(g.orig)'
        BY <1>6, <3>2, <4>1 DEF Occupied, AdminInv, AdminTypeOK
      <4> QED BY <4>1, <4>2, <4>3 DEF Row
    <3> QED BY <3>1, <3>2
  <2> QED BY <1>1, <1>2, <1>4, <2>1, <2>2 DEF FormOf
<1>14. ASSUME NEW u \in Tab \ {t} PROVE FormOf(u)'
  <2>1. CASE form[u].line # l
    BY <1>12, <2>1, Elsewhere
  <2>2. CASE form[u].line = l
    \* Two forms for one client: it is excused already.
    <3>1. Active(u) => l \in excused
      BY <1>5, <2>2 DEF AdminInv, FormInv, FormOf
    <3> QED BY <1>4, <1>8, <2>2, <3>1 DEF FormOf
  <2> QED BY <2>1, <2>2
<1>15. OnceInv'
  <2>1. ~Untouched(l)'
    BY <1>1, <1>4, <1>5 DEF Untouched
  <2>2. \A m \in saved' \ excused' : m # l => OnceOf(m)'
    BY <1>12, Elsewhere
  <2> QED BY <2>1, <2>2 DEF OnceInv, OnceOf
<1> QED BY <1>9, <1>10, <1>13, <1>14, <1>15 DEF AdminInv, FormInv

\* The row of a form is written, whoever's row had its id.
LEMMA SaveStep ==
    ASSUME AdminInv, NEW t \in Tab, SaveClient(t) PROVE AdminInv'
<1> PICK f, l : f = form[t] /\ l = f.line
  OBVIOUS
<1>1. /\ f.at = "save" /\ form' = [form EXCEPT ![t] = NoForm]
      /\ clients' = [clients EXCEPT ![f.id] = f.config]
      /\ line' = [line EXCEPT ![f.id] = l]
      /\ saved' = saved \cup {l} /\ Excuse(LinesAt({f.id}) \ {l})
      /\ UNCHANGED <<opened, removed>>
  BY DEF SaveClient, CloseForm
<1>2. /\ f.id \in ClientId /\ f.config \in Config /\ f.config # NoClient
      /\ f.orig \in ClientId \cup {NoClient} /\ l \in Line
  BY <1>1, AbsentAssumption DEF AdminInv, AdminTypeOK, PostInv, Form
<1>3. NoForm \in Form /\ NoForm.at = "closed"
  BY DEF NoForm, Form, Line
<1>4. /\ form' \in [Tab -> Form] /\ form'[t] = NoForm
      /\ \A u \in Tab \ {t} : form'[u] = form[u]
      /\ \A u \in Tab \ {t} : Active(u)' <=> Active(u)
  BY <1>1, <1>3, FormSet
<1>5. Active(t) /\ ~Active(t)' /\ form'[t].at # "save"
  BY <1>1, <1>3, <1>4 DEF Active
<1>6. l \in Known /\ Known' = Known
  BY <1>1, <1>5 DEF AdminInv, KnownInv, Known
<1>7. excused \subseteq excused' /\ excused' \subseteq Known
  BY <1>1, <1>2, Excusing DEF Excuse, AdminInv, KnownInv
<1>8. AdminTypeOK'
  BY <1>1, <1>2, <1>4, <1>6, <1>7, LineAssumption DEF AdminInv, AdminTypeOK, Known, Line
<1>9. \A k \in ClientId : IF k = f.id THEN Occupied(k)' /\ line'[k] = l
                          ELSE (Occupied(k)' <=> Occupied(k)) /\ line'[k] = line[k]
  BY <1>1, <1>2 DEF Occupied, AdminInv, AdminTypeOK
<1>10. KnownInv' /\ PostInv'
  BY <1>1, <1>4, <1>5, <1>6, <1>7, <1>9 DEF AdminInv, KnownInv, PostInv
<1>11. ASSUME NEW m, m # l, m \notin excused', NEW k \in ClientId
       PROVE  Row(m, k)' <=> Row(m, k)
  <2>1. ~Row(m, f.id)
    BY <1>1, <1>2, <1>11, Displaced
  <2> QED BY <1>9, <1>11, <2>1 DEF Row
<1>12. OnlyTouches(l)
  BY <1>1, <1>4, <1>5, <1>7, <1>11 DEF OnlyTouches
<1>13. ASSUME NEW u \in Tab PROVE FormOf(u)'
  <2>1. CASE u = t
    BY <1>5, <2>1 DEF FormOf
  <2>2. CASE form[u].line # l
    BY <1>12, <2>2, Elsewhere
  <2>3. CASE u # t /\ form[u].line = l
    <3>1. Active(u) => l \in excused
      BY <1>5, <2>3 DEF AdminInv, FormInv, FormOf
    <3> QED BY <1>4, <1>7, <2>3, <3>1 DEF FormOf
  <2> QED BY <2>1, <2>2, <2>3
<1>14. ASSUME l \notin excused' PROVE OnceOf(l)'
  <2>1. /\ l \notin removed
        /\ \A k \in ClientId : Row(l, k) <=> f.orig = k /\ ~Moving(f)
    BY <1>5, <1>7, <1>14 DEF AdminInv, FormInv, FormOf
  <2>2. \A k \in ClientId : Row(l, k) => k = f.id
    BY <1>1, <2>1, AbsentAssumption DEF Moving, Renames
  <2>3. \A k \in ClientId : Row(l, k)' <=> k = f.id
    BY <1>9, <2>2 DEF Row
  <2> QED BY <1>1, <1>2, <2>1, <2>3 DEF OnceOf
<1>15. OnceInv'
  <2>1. \A m \in saved' \ excused' : m # l => OnceOf(m)'
    BY <1>12, Elsewhere
  <2> QED BY <1>14, <2>1 DEF OnceInv
<1> QED BY <1>8, <1>10, <1>13, <1>15 DEF AdminInv, FormInv

\* The button deletes a row; the forms on its client are excused.
LEMMA DeleteStep ==
    ASSUME AdminInv, NEW i \in ClientId, DeleteClient(i) PROVE AdminInv'
<1> PICK l : l = line[i]
  OBVIOUS
<1>1. /\ Occupied(i) /\ clients' = [clients EXCEPT ![i] = NoClient]
      /\ removed' = removed \cup {l}
      /\ UNCHANGED <<form, opened, line, saved>>
      /\ excused \subseteq excused' /\ excused' \subseteq excused \cup {l}
      /\ l \notin excused' => Untouched(l)
  BY DEF DeleteClient, Excuse, OnForm, Untouched, Active
<1>2. l \in saved /\ l \in Known /\ Known' = Known
  BY <1>1 DEF AdminInv, KnownInv, Known
<1>3. /\ \A k \in ClientId : Occupied(k)' <=> Occupied(k) /\ k # i
      /\ \A m : \A k \in ClientId : Row(m, k)' <=> Row(m, k) /\ k # i
  BY <1>1 DEF Occupied, Row, AdminInv, AdminTypeOK
<1>4. AdminTypeOK'
  BY <1>1, <1>2, LineAssumption DEF AdminInv, AdminTypeOK, KnownInv, Known, Line
<1>5. KnownInv' /\ PostInv'
  BY <1>1, <1>2, <1>3 DEF AdminInv, KnownInv, PostInv, Active
<1>6. OnlyTouches(l)
  BY <1>1, <1>3 DEF OnlyTouches, Row
<1>7. ASSUME NEW u \in Tab PROVE FormOf(u)'
  <2>1. CASE form[u].line # l
    BY <1>6, <2>1, Elsewhere
  <2>2. CASE form[u].line = l
    BY <1>1, <2>2 DEF FormOf, Untouched, Active
  <2> QED BY <2>1, <2>2
<1>8. ASSUME l \notin excused' PROVE OnceOf(l)'
  <2>1. \A k \in ClientId : Row(l, k) <=> k = i
    BY <1>1, <1>8, OnlyRow
  <2> QED BY <1>1, <1>3, <2>1 DEF OnceOf
<1>9. OnceInv'
  <2>1. \A m \in saved' \ excused' : m # l => OnceOf(m)'
    BY <1>6, Elsewhere
  <2> QED BY <1>8, <2>1 DEF OnceInv
<1> QED BY <1>4, <1>5, <1>7, <1>9 DEF AdminInv, FormInv

\* A step of the admin keeps the invariant; a stop of the process is CrashStep.
LEMMA AdminStep == AdminInv /\ AdminNext => AdminInv'
BY OpenStep, RefuseStep, PostStep, SaveStep, DeleteStep DEF AdminNext

\* It speaks of the admin's variables only.
LEMMA AdminStays == AdminInv /\ UNCHANGED adminVars => AdminInv'
<1> SUFFICES ASSUME AdminInv, UNCHANGED adminVars PROVE AdminInv'
  OBVIOUS
<1>1. UNCHANGED <<clients, form, opened, line, saved, removed, excused>>
  BY DEF adminVars
<1>2. form' \in [Tab -> Form] /\ excused' \subseteq Known
  BY <1>1 DEF AdminInv, AdminTypeOK, KnownInv
<1> QED BY <1>1, <1>2, CloseStep

\* The promise of the client form follows from its invariant.
LEMMA OnceFollows == AdminInv => EveryClientOnce
<1> SUFFICES ASSUME AdminInv, NEW l \in saved \ excused
             PROVE  LET rows == {i \in ClientId : Row(l, i)}
                        moving == \E t \in OnForm(l) : Moving(form[t])
                    IN  Cardinality(rows) = IF l \in removed \/ moving THEN 0 ELSE 1
  BY DEF EveryClientOnce, Row, Moving
<1> DEFINE rows == {i \in ClientId : Row(l, i)}
           moving == \E t \in OnForm(l) : Moving(form[t])
<1>1. \A t \in OnForm(l) : /\ Active(t) /\ l \notin removed
                           /\ \A i \in ClientId : Row(l, i) <=> form[t].orig = i /\ ~Moving(form[t])
  BY DEF AdminInv, FormInv, FormOf, OnForm, Active
<1>2. OnForm(l) = {} => IF l \in removed THEN \A i \in ClientId : ~Row(l, i)
                        ELSE \E i \in ClientId : \A k \in ClientId : Row(l, k) <=> k = i
  BY DEF AdminInv, OnceInv, OnceOf, OnForm, Untouched, Active
<1>3. CASE l \in removed \/ moving
  <2>1. rows = {}
    BY <1>1, <1>2, <1>3
  <2> QED BY <1>3, <2>1, FS_EmptySet
<1>4. CASE ~(l \in removed \/ moving)
  <2>1. \E i \in ClientId : \A k \in ClientId : Row(l, k) <=> k = i
    <3>1. CASE OnForm(l) = {}
      BY <1>2, <1>4, <3>1
    <3>2. ASSUME NEW t \in OnForm(l)
          PROVE  \E i \in ClientId : \A k \in ClientId : Row(l, k) <=> k = i
      <4>1. t \in Tab /\ Active(t) /\ form[t].line = l /\ ~Moving(form[t])
        BY <1>4, <3>2 DEF OnForm, Active
      <4> QED BY <4>1, FormRow
    <3> QED BY <3>1, <3>2
  <2>2. \E i \in ClientId : rows = {i}
    BY <2>1
  <2> QED BY <1>4, <2>2, FS_Singleton
<1> QED BY <1>3, <1>4

-----------------------------------------------------------------------------
(* Everything that a request has seen.                                     *)

Extends(t, s) == \A a \in DOMAIN s : a \in DOMAIN t /\ t[a] = s[a]

\* What was once true of a client or an override stays true of the past.
LEMMA PastStays ==
    ASSUME NEW s, NEW t, Extends(t, s)
    PROVE  /\ \A c : SeesClient(s, c) => SeesClient(t, c)
           /\ \A o : SeesOverride(s, o) => SeesOverride(t, o)
           /\ (\E a \in DOMAIN s : Passing(s[a])) => \E a \in DOMAIN t : Passing(t[a])
           /\ \A alg : Pinned(s, alg) => Pinned(t, alg)
           /\ \A alg : Granted(s, alg) => Granted(t, alg)
<1> USE DEF Extends
<1>1. \A c : SeesClient(s, c) => SeesClient(t, c)
  BY DEF SeesClient
<1>2. \A o : SeesOverride(s, o) => SeesOverride(t, o)
  BY DEF SeesOverride
<1>3. (\E a \in DOMAIN s : Passing(s[a])) => \E a \in DOMAIN t : Passing(t[a])
  OBVIOUS
<1>4. ASSUME NEW alg, Pinned(s, alg) PROVE Pinned(t, alg)
  BY <1>4 DEF Pinned
<1>5. ASSUME NEW alg, Granted(s, alg) PROVE Granted(t, alg)
  BY <1>5 DEF Granted
<1> QED BY <1>1, <1>2, <1>3, <1>4, <1>5

\* A version is made of clients that the table has, and of an override.
LEMMA VersionTyped ==
    ASSUME NEW cs \in [ClientId -> Config \cup {NoClient}], NEW o \in Override \cup {NoOverride},
           NEW j \in Job
    PROVE  Watched(j, cs, o) \in Version
<1>1. j.named \in ClientId \cup {NoClient} /\ j.client \in ClientId \cup {NoClient}
  BY DEF Job
<1>2. /\ FoundIn(j.named, cs) \in Config \cup {NoClient}
      /\ FoundIn(j.client, cs) \in Config \cup {NoClient}
  BY <1>1 DEF FoundIn
<1> QED BY <1>2 DEF Watched, Version

\* What a read can find: the present, or a present in which nothing could be read.
LEMMA NowTyped ==
    ASSUME AdminTypeOK, override \in Override \cup {NoOverride}, NEW j \in Job
    PROVE  /\ Now(j) \in Version /\ Unread(j) \in Version
           /\ Now(j).served = FoundIn(j.client, clients)
<1>1. Now(j) \in Version
  BY VersionTyped DEF Now, AdminTypeOK
<1>2. Unread(j) \in Version
  BY <1>1 DEF Unread, Version
<1>3. Now(j).served = FoundIn(j.client, clients)
  BY DEF Now, Watched
<1> QED BY <1>1, <1>2, <1>3

\* A request sees one more version of its clients.
LEMMA SeenMore ==
    ASSUME NEW s \in Seq(Version), NEW v \in Version
    PROVE  /\ Append(s, v) \in Seq(Version) /\ Append(s, v) # <<>>
           /\ Len(Append(s, v)) = Len(s) + 1 /\ Append(s, v)[Len(s) + 1] = v
           /\ Extends(Append(s, v), s)
BY DEF Extends

(* The answer of GetClient or GetSetting is what the request saw last, or    *)
(* what it then sees for a moment.                                           *)
LEMMA SeeFound ==
    ASSUME NEW j \in Job, Now(j) \in Version, Unread(j) \in Version, j.seen # <<>>,
           j.seen[Len(j.seen)] = Now(j), NEW v \in Results(j)
    PROVE  /\ See(j, v) = [j EXCEPT !.seen = See(j, v).seen]
           /\ See(j, v) \in Job
           /\ See(j, v).seen # <<>>
           /\ See(j, v).seen[Len(See(j, v).seen)] = Now(j)
           /\ Extends(See(j, v).seen, j.seen)
           /\ \E b \in DOMAIN See(j, v).seen :
                 See(j, v).seen[b] = v /\ \A a \in DOMAIN j.seen : a <= b
<1>1. j.seen \in Seq(Version)
  BY DEF Job
<1>2. CASE v = Now(j)
  <2>1. See(j, v) = j /\ j = [j EXCEPT !.seen = j.seen]
    BY <1>2 DEF See, Job
  <2>2. Len(j.seen) \in DOMAIN j.seen /\ \A a \in DOMAIN j.seen : a <= Len(j.seen)
    BY <1>1
  <2> QED BY <1>2, <2>1, <2>2 DEF Extends
<1>3. CASE v # Now(j)
  <2> DEFINE t == j.seen \o <<Unread(j), Now(j)>>
  <2>1. v = Unread(j)
    BY <1>3 DEF Results
  <2>2. See(j, v) = [j EXCEPT !.seen = t]
    BY <1>3, <2>1 DEF See
  <2>3. /\ t \in Seq(Version) /\ t # <<>> /\ Len(t) = Len(j.seen) + 2
        /\ Extends(t, j.seen)
        /\ t[Len(j.seen) + 1] = Unread(j) /\ t[Len(j.seen) + 2] = Now(j)
    BY <1>1 DEF Extends
  <2> HIDE DEF t
  <2>4. See(j, v) \in Job /\ See(j, v).seen = t
    BY <2>2, <2>3 DEF Job
  <2>5. Len(j.seen) + 1 \in DOMAIN t /\ \A a \in DOMAIN j.seen : a <= Len(j.seen) + 1
    BY <1>1, <2>3
  <2> QED BY <2>1, <2>2, <2>3, <2>4, <2>5
<1> QED BY <1>2, <1>3

-----------------------------------------------------------------------------
(* The steps of a request.                                                 *)

LogTyped == buf \in Seq(Entry) /\ Len(buf) <= MaxLog

\* The buffer keeps its size.
LEMMA LogStep ==
    ASSUME LogTyped, \/ UNCHANGED logVars \/ LogRestart \/ \E e \in Entry : Add(e)
    PROVE  LogTyped'
<1>1. CASE UNCHANGED logVars
  BY <1>1 DEF LogTyped, logVars
<1>2. CASE LogRestart
  BY <1>2, MaxLogAssumption DEF LogRestart, LogTyped
<1>3. ASSUME NEW e \in Entry, Add(e) PROVE LogTyped'
  <2> PICK b : b = Append(buf, e)
    OBVIOUS
  <2>1. b \in Seq(Entry) /\ Len(b) \in Nat
    BY DEF LogTyped
  <2>2. CASE Len(b) > MaxLog
    <3>1. buf' = SubSeq(b, Len(b) - MaxLog + 1, Len(b))
      BY <1>3, <2>2 DEF Add
    <3>2. Len(b) - MaxLog + 1 \in 1..Len(b)
      BY <2>1, <2>2, MaxLogAssumption
    <3> QED BY <2>1, <3>1, <3>2, MaxLogAssumption DEF LogTyped
  <2>3. CASE ~(Len(b) > MaxLog)
    BY <1>3, <2>1, <2>3, MaxLogAssumption DEF Add, LogTyped
  <2> QED BY <2>2, <2>3
<1> QED BY <1>1, <1>2, <1>3

\* One request takes a step, and the tables stay.
LEMMA RequestStep ==
    ASSUME IndInv, NEW w \in Worker, NEW l \in Location, NEW j \in Job, JobOf(l, j),
           pc' = [pc EXCEPT ![w] = l], job' = [job EXCEPT ![w] = j],
           UNCHANGED <<adminVars, settings>>, arrived' \in 0..MaxRequests, LogTyped'
    PROVE  IndInv'
<1>1. AdminInv' /\ AdminTypeOK'
  BY AdminStays DEF IndInv, AdminInv
<1>2. TypeOK'
  BY <1>1 DEF IndInv, TypeOK, settings, LogTyped
<1>3. UNCHANGED <<clients, override>>
  BY DEF adminVars, settings
<1>4. \A k : Now(k)' = Now(k)
  BY <1>3 DEF Now, Watched
<1>5. ASSUME NEW v \in Worker PROVE JobOf(pc[v], job[v])'
  <2>1. JobOf(pc'[v], job'[v])
    BY DEF IndInv, TypeOK, JobInv
  <2>2. \A k, m : JobOf(m, k) => JobOf(m, k)'
    BY <1>4 DEF JobOf
  <2> QED BY <2>1, <2>2
<1> QED BY <1>1, <1>2, <1>5 DEF IndInv, JobInv

\* What is known of a request in flight.
LEMMA InFlight ==
    ASSUME IndInv, NEW w \in Worker, pc[w] # "idle"
    PROVE  /\ job[w] \in Job /\ JobOf(pc[w], job[w]) /\ LogTyped
           /\ AdminTypeOK /\ override \in Override \cup {NoOverride}
           /\ arrived \in 0..MaxRequests /\ job[w].seen \in Seq(Version)
BY DEF IndInv, TypeOK, JobInv, LogTyped, Job

\* A request gets an answer that what it has seen explains.
LEMMA AnswerStep ==
    ASSUME IndInv, NEW w \in Worker, pc[w] # "idle", NEW o \in Outcome, Answer(w, o),
           job[w].kind # "callback" => Explained([job[w] EXCEPT !.outcome = o]),
           UNCHANGED <<adminVars, logVars, settings, arrived>>
    PROVE  IndInv'
<1> PICK i, j : i = job[w] /\ j = [i EXCEPT !.outcome = o]
  OBVIOUS
<1>1. i \in Job /\ JobOf(pc[w], i) /\ LogTyped /\ arrived \in 0..MaxRequests
  BY InFlight
<1>2. j \in Job /\ j.req = i.req /\ j.kind = i.kind /\ j.seen = i.seen
  BY <1>1 DEF Job
<1>3. pc' = [pc EXCEPT ![w] = "end"] /\ job' = [job EXCEPT ![w] = j]
  BY <1>2 DEF Answer, Goto, IndInv, TypeOK
<1>4. Learnt("end", j)
  BY <1>2 DEF Learnt
<1>5. JobOf("end", j)
  BY <1>1, <1>2, <1>4 DEF JobOf
<1>6. LogTyped'
  BY <1>1, LogStep
<1> QED BY <1>1, <1>2, <1>3, <1>5, <1>6, RequestStep DEF Location

\* The job of a goroutine that is idle.
LEMMA NoJobTyped == NoJob \in Job
<1>1. 0 \in 0..MaxRequests /\ NoAlg \in Alg
  BY BoundAssumption DEF Alg
<1>2. <<>> \in Seq(Version)
  OBVIOUS
<1> QED BY <1>1, <1>2 DEF NoJob, Job, Kind, Outcome

\* A request has two clients among those asked for, or none.
LEMMA IdsTyped ==
    ASSUME NEW kind \in Kind, NEW ids \in Ids(kind)
    PROVE  ids[1] \in ClientId \cup {NoClient} /\ ids[2] \in ClientId \cup {NoClient}
<1>1. \A r \in Request, p \in Part : r[p] \in ClientId \cup {NoClient}
  BY AskedAssumption DEF Request
<1>2. \A r \in Request : /\ RequestClientID(r) \in ClientId \cup {NoClient}
                         /\ ClientCredentials(r) \in ClientId \cup {NoClient}
  BY <1>1 DEF RequestClientID, ClientCredentials, FirstOf, Part
<1>3. CASE kind = "password"
  BY <1>2, <1>3 DEF Ids, PasswordIds
<1>4. CASE kind = "covered"
  BY <1>1, <1>2, <1>4 DEF Ids, LibraryIds
<1>5. CASE kind \notin {"password", "covered"}
  BY <1>5 DEF Ids
<1> QED BY <1>3, <1>4, <1>5

\* A request arrives, and sees its clients or the override.
LEMMA ArriveStep ==
    ASSUME IndInv, NEW w \in Worker, NEW kind \in Kind, NEW ids \in Ids(kind),
           Arrive(w, kind, ids)
    PROVE  IndInv'
<1> PICK j : j = [NoJob EXCEPT !.req = arrived + 1, !.kind = kind,
                               !.named = ids[1], !.client = ids[2]]
  OBVIOUS
<1> PICK k : k = [j EXCEPT !.seen = <<Now(j)>>]
  OBVIOUS
<1>1. LogTyped /\ AdminTypeOK /\ arrived \in 0..MaxRequests /\ override \in Override \cup {NoOverride}
  BY DEF IndInv, TypeOK, LogTyped
<1>2. arrived + 1 \in 1..MaxRequests
  BY <1>1, BoundAssumption DEF Arrive
<1>3. j \in Job /\ j.req = arrived + 1 /\ j.kind = kind
  <2>1. ids[1] \in ClientId \cup {NoClient} /\ ids[2] \in ClientId \cup {NoClient}
    BY IdsTyped
  <2>2. arrived + 1 \in 0..MaxRequests
    BY <1>2
  <2> QED BY <2>1, <2>2, NoJobTyped DEF Job
<1>4. Now(j) \in Version
  BY <1>1, <1>3, NowTyped
<1>5. /\ <<Now(j)>> \in Seq(Version) /\ <<Now(j)>> # <<>>
      /\ Len(<<Now(j)>>) = 1 /\ <<Now(j)>>[1] = Now(j)
  BY <1>4
<1>6. /\ k \in Job /\ k.req = j.req /\ k.kind = kind /\ k.seen = <<Now(j)>>
      /\ k.named = j.named /\ k.client = j.client
  BY <1>3, <1>5 DEF Job
<1>7. Now(k) = Now(j)
  BY <1>3, <1>6 DEF Now, Watched
<1>8. Entrance(kind) \in Location /\ Learnt(Entrance(kind), k)
  BY <1>6 DEF Entrance, Learnt, Kind, Reading, Location
<1>9. JobOf(Entrance(kind), k)
  BY <1>2, <1>3, <1>5, <1>6, <1>7, <1>8 DEF JobOf
<1>10. /\ pc' = [pc EXCEPT ![w] = Entrance(kind)] /\ job' = [job EXCEPT ![w] = k]
       /\ UNCHANGED <<adminVars, logVars, settings>> /\ arrived' = arrived + 1
  BY DEF Arrive, Goto
<1>11. LogTyped' /\ arrived' \in 0..MaxRequests
  BY <1>1, <1>2, <1>10, LogStep
<1> QED BY <1>6, <1>8, <1>9, <1>10, <1>11, RequestStep

(* A middleware reads: the request goes on with what it has seen until now.  *)
LEMMA Reads ==
    ASSUME IndInv, NEW w \in Worker, pc[w] \notin {"idle", "end"}, NEW v \in Results(job[w])
    PROVE  LET j == job[w]
               k == See(j, v)
           IN  /\ v \in Version /\ k \in Job
               /\ k.req = j.req /\ k.kind = j.kind /\ k.named = j.named /\ k.client = j.client
               /\ k.alg = j.alg
               /\ k.seen # <<>> /\ k.seen[Len(k.seen)] = Now(j)
               /\ Extends(k.seen, j.seen)
               /\ \E b \in DOMAIN k.seen : k.seen[b] = v /\ \A a \in DOMAIN j.seen : a <= b
<1> PICK j, k : j = job[w] /\ k = See(j, v)
  OBVIOUS
<1>1. /\ j \in Job /\ JobOf(pc[w], j)
      /\ AdminTypeOK /\ override \in Override \cup {NoOverride}
  BY InFlight
<1>2. Now(j) \in Version /\ Unread(j) \in Version /\ v \in Version
  BY <1>1, NowTyped DEF Results
<1>3. j.seen # <<>> /\ j.seen[Len(j.seen)] = Now(j)
  BY <1>1 DEF JobOf
<1>4. /\ k = [j EXCEPT !.seen = k.seen] /\ k \in Job
      /\ k.seen # <<>> /\ k.seen[Len(k.seen)] = Now(j)
      /\ Extends(k.seen, j.seen)
      /\ \E b \in DOMAIN k.seen : k.seen[b] = v /\ \A a \in DOMAIN j.seen : a <= b
  BY <1>1, <1>2, <1>3, SeeFound
<1>5. /\ k.req = j.req /\ k.kind = j.kind /\ k.named = j.named /\ k.client = j.client
      /\ k.alg = j.alg
  BY <1>1, <1>4 DEF Job
<1> QED BY <1>2, <1>4, <1>5

\* Two jobs of the same request watch the same clients.
LEMMA SameNow ==
    ASSUME NEW j, NEW k, k.kind = j.kind, k.named = j.named, k.client = j.client
    PROVE  Now(k) = Now(j)
BY DEF Now, Watched

\* behavior.Middleware reads the client.
LEMMA LoadStep ==
    ASSUME IndInv, NEW w \in Worker, LoadClient(w) PROVE IndInv'
<1> PICK v \in Results(job[w]) :
      /\ pc[w] = "load"
      /\ Goto(w, IF v.named = NoClient THEN "signingAlg" ELSE "forceError")
      /\ job' = [job EXCEPT ![w] = [See(@, v) EXCEPT !.loaded = v.named]]
      /\ UNCHANGED <<adminVars, logVars, settings, arrived>>
  BY DEF LoadClient
<1> PICK j, k, i, l : /\ j = job[w] /\ k = See(j, v) /\ i = [k EXCEPT !.loaded = v.named]
                      /\ l = IF v.named = NoClient THEN "signingAlg" ELSE "forceError"
  OBVIOUS
<1>1. j \in Job /\ JobOf("load", j) /\ LogTyped /\ arrived \in 0..MaxRequests
  BY InFlight
<1>2. j.kind \in Reading
  BY <1>1 DEF JobOf, Learnt
<1>3. /\ v \in Version /\ k \in Job /\ k.req = j.req /\ k.kind = j.kind
      /\ k.named = j.named /\ k.client = j.client
      /\ k.seen # <<>> /\ k.seen[Len(k.seen)] = Now(j)
      /\ \E b \in DOMAIN k.seen : k.seen[b] = v /\ \A a \in DOMAIN j.seen : a <= b
  <2>1. pc[w] \notin {"idle", "end"} /\ v \in Results(job[w])
    OBVIOUS
  <2> QED BY <2>1, Reads
<1>4. /\ i \in Job /\ i.req = k.req /\ i.kind = k.kind
      /\ i.named = k.named /\ i.client = k.client
      /\ i.seen = k.seen /\ i.loaded = v.named /\ v.named \in Config \cup {NoClient}
  BY <1>3 DEF Job, Version
<1>5. /\ SeesClient(i.seen, v.named)
      /\ v.named = NoClient => \E a \in DOMAIN i.seen : Passing(i.seen[a])
  BY <1>3, <1>4 DEF SeesClient, Passing
<1>6. Learnt(l, i)
  BY <1>2, <1>3, <1>4, <1>5 DEF Learnt
<1>7. JobOf(l, i)
  <2>1. i.kind = j.kind /\ i.named = j.named /\ i.client = j.client
    BY <1>3, <1>4
  <2>2. Now(i) = Now(j)
    BY <2>1, SameNow
  <2> QED BY <1>1, <1>3, <1>4, <1>6, <2>2 DEF JobOf
<1>8. pc' = [pc EXCEPT ![w] = l] /\ job' = [job EXCEPT ![w] = i]
  BY DEF Goto
<1>9. LogTyped' /\ l \in Location
  BY <1>1, LogStep DEF Location
<1> QED BY <1>1, <1>4, <1>7, <1>8, <1>9, RequestStep

\* behavior.Middleware answers with the error it read, or goes on.
LEMMA ForceStep ==
    ASSUME IndInv, NEW w \in Worker, ForceError(w) PROVE IndInv'
<1>1. pc[w] = "forceError" /\ UNCHANGED <<adminVars, logVars, settings, arrived>>
  BY DEF ForceError
<1> PICK j : j = job[w]
  OBVIOUS
<1>2. j \in Job /\ JobOf("forceError", j) /\ LogTyped /\ arrived \in 0..MaxRequests
  BY <1>1, InFlight
<1>3. j.kind \in Reading /\ j.loaded \in Config /\ SeesClient(j.seen, j.loaded)
  BY <1>2 DEF JobOf, Learnt
<1>4. CASE j.loaded.error
  <2>1. Answer(w, "forced")
    BY <1>4 DEF ForceError
  <2>2. Explained([j EXCEPT !.outcome = "forced"])
    BY <1>2, <1>3, <1>4 DEF Explained, Job
  <2> QED BY <1>1, <2>1, <2>2, AnswerStep DEF Outcome
<1>5. CASE ~j.loaded.error
  <2> PICK i : i = [j EXCEPT !.loaded = NoClient]
    OBVIOUS
  <2>1. pc' = [pc EXCEPT ![w] = "signingAlg"] /\ job' = [job EXCEPT ![w] = i]
    BY <1>2, <1>5 DEF ForceError, Proceed, Goto, IndInv, TypeOK
  <2>2. /\ i \in Job /\ i.req = j.req /\ i.kind = j.kind
        /\ i.named = j.named /\ i.client = j.client /\ i.seen = j.seen
    BY <1>2 DEF Job
  <2>3. \E a \in DOMAIN i.seen : Passing(i.seen[a])
    BY <1>3, <1>5, <2>2 DEF SeesClient, Passing
  <2>4. Learnt("signingAlg", i)
    BY <1>3, <2>2, <2>3 DEF Learnt
  <2>5. JobOf("signingAlg", i)
    <3>1. Now(i) = Now(j)
      BY <2>2, SameNow
    <3> QED BY <1>2, <2>2, <2>4, <3>1 DEF JobOf
  <2>6. LogTyped' /\ "signingAlg" \in Location
    BY <1>1, <1>2, LogStep DEF Location
  <2> QED BY <1>1, <1>2, <2>1, <2>2, <2>5, <2>6, RequestStep
<1> QED BY <1>4, <1>5

\* SigningAlgMiddleware reads the client again.
LEMMA AlgStep ==
    ASSUME IndInv, NEW w \in Worker, SigningAlg(w) PROVE IndInv'
<1> PICK v \in Results(job[w]) :
      /\ pc[w] = "signingAlg"
      /\ job' = [job EXCEPT ![w] =
            [See(@, v) EXCEPT !.alg = IF v.named = NoClient THEN NoAlg ELSE v.named.alg]]
      /\ Goto(w, IF job[w].kind = "password" THEN "password" ELSE "provider")
      /\ UNCHANGED <<adminVars, logVars, settings, arrived>>
  BY DEF SigningAlg
<1> PICK j, k, i, l : /\ j = job[w] /\ k = See(j, v) /\ i = [k EXCEPT !.alg = AlgOf(v)]
                      /\ l = IF j.kind = "password" THEN "password" ELSE "provider"
  OBVIOUS
<1>1. j \in Job /\ JobOf("signingAlg", j) /\ LogTyped /\ arrived \in 0..MaxRequests
  BY InFlight
<1>2. j.kind \in Reading /\ \E a \in DOMAIN j.seen : Passing(j.seen[a])
  BY <1>1 DEF JobOf, Learnt
<1>3. /\ v \in Version /\ k \in Job /\ k.req = j.req /\ k.kind = j.kind
      /\ k.named = j.named /\ k.client = j.client
      /\ k.seen # <<>> /\ k.seen[Len(k.seen)] = Now(j)
      /\ Extends(k.seen, j.seen)
      /\ \E b \in DOMAIN k.seen : k.seen[b] = v /\ \A a \in DOMAIN j.seen : a <= b
  <2>1. pc[w] \notin {"idle", "end"} /\ v \in Results(job[w])
    OBVIOUS
  <2> QED BY <2>1, Reads
<1>4. /\ i \in Job /\ i.req = k.req /\ i.kind = k.kind
      /\ i.named = k.named /\ i.client = k.client
      /\ i.seen = k.seen /\ i.alg = AlgOf(v)
  <2>1. AlgOf(v) \in Alg
    BY <1>3 DEF AlgOf, Alg, Version
  <2> QED BY <1>3, <2>1 DEF Job
<1>5. Pinned(i.seen, i.alg)
  BY <1>2, <1>3, <1>4 DEF Extends, Pinned
<1>6. Learnt(l, i)
  BY <1>2, <1>3, <1>4, <1>5 DEF Learnt, Reading
<1>7. JobOf(l, i)
  <2>1. i.kind = j.kind /\ i.named = j.named /\ i.client = j.client
    BY <1>3, <1>4
  <2>2. Now(i) = Now(j)
    BY <2>1, SameNow
  <2> QED BY <1>1, <1>3, <1>4, <1>6, <2>2 DEF JobOf
<1>8. pc' = [pc EXCEPT ![w] = l] /\ job' = [job EXCEPT ![w] = i]
  BY DEF Goto, AlgOf
<1>9. LogTyped' /\ l \in Location
  BY <1>1, LogStep DEF Location
<1> QED BY <1>1, <1>4, <1>7, <1>8, <1>9, RequestStep

\* The client that is served is found now as the request has seen it last.
LEMMA FoundNow ==
    ASSUME IndInv, NEW w \in Worker, pc[w] \notin {"idle", "end"}
    PROVE  LET s == job[w].seen IN
             /\ Len(s) \in DOMAIN s /\ s[Len(s)].served = FoundIn(job[w].client, clients)
             /\ \A a \in DOMAIN s : a <= Len(s)
<1> PICK j, s : j = job[w] /\ s = j.seen
  OBVIOUS
<1>1. /\ j \in Job /\ JobOf(pc[w], j) /\ AdminTypeOK
      /\ override \in Override \cup {NoOverride} /\ s \in Seq(Version)
  BY InFlight
<1>2. s # <<>> /\ s[Len(s)] = Now(j)
  BY <1>1 DEF JobOf
<1>3. Now(j).served = FoundIn(j.client, clients)
  BY <1>1, NowTyped
<1> QED BY <1>1, <1>2, <1>3

\* ropcExchange finds the grant enabled.
LEMMA GrantStep ==
    ASSUME IndInv, NEW w \in Worker, PasswordGrant(w) PROVE IndInv'
<1>1. pc[w] = "password" /\ UNCHANGED <<adminVars, logVars, settings, arrived>>
  BY DEF PasswordGrant
<1> PICK j : j = job[w]
  OBVIOUS
<1>2. j \in Job /\ JobOf("password", j) /\ LogTyped /\ arrived \in 0..MaxRequests
  BY <1>1, InFlight
<1>3. j.kind = "password" /\ Pinned(j.seen, j.alg)
  BY <1>2 DEF JobOf, Learnt, Reading
<1>4. CASE Answer(w, "error")
  <2>1. Explained([j EXCEPT !.outcome = "error"])
    BY <1>2 DEF Explained, Job
  <2> QED BY <1>1, <1>4, <2>1, AnswerStep DEF Outcome
<1>5. CASE LET found == FoundIn(j.client, clients) IN
             /\ found # NoClient /\ found.password
             /\ Goto(w, "passwordClient") /\ UNCHANGED job
  <2>1. /\ Len(j.seen) \in DOMAIN j.seen
        /\ j.seen[Len(j.seen)].served = FoundIn(j.client, clients)
        /\ \A a \in DOMAIN j.seen : a <= Len(j.seen)
    BY <1>1, FoundNow
  <2>2. Granted(j.seen, j.alg)
    BY <1>3, <1>5, <2>1 DEF Pinned, Granted, Grants, Exists
  <2>3. Learnt("passwordClient", j)
    BY <1>3, <2>2 DEF Learnt
  <2>4. JobOf("passwordClient", j)
    BY <1>2, <2>3 DEF JobOf
  <2>5. pc' = [pc EXCEPT ![w] = "passwordClient"] /\ job' = [job EXCEPT ![w] = j]
    BY <1>5 DEF Goto, IndInv, TypeOK
  <2>6. LogTyped' /\ "passwordClient" \in Location
    BY <1>1, <1>2, LogStep DEF Location
  <2> QED BY <1>1, <1>2, <2>4, <2>5, <2>6, RequestStep
<1> QED BY <1>4, <1>5 DEF PasswordGrant

\* ropcExchange makes the tokens.
LEMMA TokensStep ==
    ASSUME IndInv, NEW w \in Worker, PasswordTokens(w) PROVE IndInv'
<1>1. pc[w] = "passwordClient" /\ UNCHANGED <<adminVars, logVars, settings, arrived>>
  BY DEF PasswordTokens
<1> PICK j : j = job[w]
  OBVIOUS
<1>2. j \in Job /\ JobOf("passwordClient", j) /\ j.seen \in Seq(Version)
  BY <1>1, InFlight
<1>3. j.kind = "password" /\ Granted(j.seen, j.alg)
  BY <1>2 DEF JobOf, Learnt
<1>4. CASE Answer(w, "error")
  <2>1. Explained([j EXCEPT !.outcome = "error"])
    BY <1>2 DEF Explained, Job
  <2> QED BY <1>1, <1>4, <2>1, AnswerStep DEF Outcome
<1>5. CASE Answer(w, "served")
  <2> PICK i : i = [j EXCEPT !.outcome = "served"]
    OBVIOUS
  <2>1. i.outcome = "served" /\ i.kind = "password" /\ i.seen = j.seen /\ i.alg = j.alg
    BY <1>2, <1>3 DEF Job
  <2>2. PICK a, b, d \in DOMAIN j.seen :
            /\ a <= b /\ b <= d /\ Passing(j.seen[a]) /\ j.alg = AlgOf(j.seen[b])
            /\ Grants(j.seen[d])
    BY <1>3 DEF Granted
  <2>3. d <= d /\ d \in b..d
    BY <1>2, <2>2
  <2>4. Served(i)
    <3>1. \E e \in b..d : Grants(j.seen[e])
      BY <2>2, <2>3
    <3>2. /\ a <= b /\ b <= d /\ Passing(j.seen[a]) /\ j.alg = AlgOf(j.seen[b])
          /\ Exists(j.seen[d])
      BY <2>2 DEF Grants
    <3> QED BY <2>1, <3>1, <3>2 DEF Served
  <2>5. Explained(i)
    BY <2>1, <2>4 DEF Explained
  <2> QED BY <1>1, <1>5, <2>5, AnswerStep DEF Outcome
<1> QED BY <1>4, <1>5 DEF PasswordTokens

\* The library serves a request.
LEMMA ProviderStep ==
    ASSUME IndInv, NEW w \in Worker, Provider(w) PROVE IndInv'
<1>1. /\ pc[w] = "provider" /\ job[w].kind # "discovery"
      /\ UNCHANGED <<adminVars, logVars, settings, arrived>>
  BY DEF Provider
<1> PICK j : j = job[w]
  OBVIOUS
<1>2. j \in Job /\ JobOf("provider", j) /\ j.seen \in Seq(Version)
  BY <1>1, InFlight
<1>3. j.kind # "callback" => j.kind = "covered" /\ Pinned(j.seen, j.alg)
  <2>1. j.kind \in {"covered", "password", "discovery", "callback"}
    BY <1>2 DEF Job, Kind
  <2>2. Learnt("provider", j)
    BY <1>2 DEF JobOf
  <2> QED BY <1>1, <2>1, <2>2 DEF Learnt, Reading
<1>4. CASE Answer(w, "error")
  <2>1. Explained([j EXCEPT !.outcome = "error"])
    BY <1>2 DEF Explained, Job
  <2> QED BY <1>1, <1>4, <2>1, AnswerStep DEF Outcome
<1>5. CASE /\ j.kind = "callback" \/ FoundIn(j.client, clients) # NoClient
           /\ Answer(w, "served")
  <2> PICK i : i = [j EXCEPT !.outcome = "served"]
    OBVIOUS
  <2>1. i.outcome = "served" /\ i.kind = j.kind /\ i.seen = j.seen /\ i.alg = j.alg
    BY <1>2 DEF Job
  <2>2. ASSUME j.kind # "callback" PROVE Explained(i)
    <3>1. /\ Len(j.seen) \in DOMAIN j.seen
          /\ j.seen[Len(j.seen)].served = FoundIn(j.client, clients)
          /\ \A a \in DOMAIN j.seen : a <= Len(j.seen)
      BY <1>1, FoundNow
    <3>2. Exists(j.seen[Len(j.seen)]) /\ i.kind # "password"
      BY <1>3, <1>5, <2>1, <2>2, <3>1 DEF Exists
    <3>3. Served(i)
      BY <1>3, <2>1, <2>2, <3>1, <3>2 DEF Pinned, Served
    <3> QED BY <2>1, <3>3 DEF Explained
  <2> QED BY <1>1, <1>5, <2>2, AnswerStep DEF Outcome
<1> QED BY <1>4, <1>5 DEF Provider

\* DiscoveryOverride reads the setting.
LEMMA OverrideStep ==
    ASSUME IndInv, NEW w \in Worker, ReadOverride(w) PROVE IndInv'
<1> PICK v \in Results(job[w]) :
      /\ pc[w] = "override" /\ Goto(w, "provider")
      /\ job' = [job EXCEPT ![w] = [See(@, v) EXCEPT !.override = v.override]]
      /\ UNCHANGED <<adminVars, logVars, settings, arrived>>
  BY DEF ReadOverride
<1> PICK j, k, i : j = job[w] /\ k = See(j, v) /\ i = [k EXCEPT !.override = v.override]
  OBVIOUS
<1>1. j \in Job /\ JobOf("override", j) /\ LogTyped /\ arrived \in 0..MaxRequests
  BY InFlight
<1>2. j.kind = "discovery"
  BY <1>1 DEF JobOf, Learnt
<1>3. /\ v \in Version /\ k \in Job /\ k.req = j.req /\ k.kind = j.kind
      /\ k.named = j.named /\ k.client = j.client
      /\ k.seen # <<>> /\ k.seen[Len(k.seen)] = Now(j)
      /\ \E b \in DOMAIN k.seen : k.seen[b] = v /\ \A a \in DOMAIN j.seen : a <= b
  <2>1. pc[w] \notin {"idle", "end"} /\ v \in Results(job[w])
    OBVIOUS
  <2> QED BY <2>1, Reads
<1>4. /\ i \in Job /\ i.req = k.req /\ i.kind = k.kind
      /\ i.named = k.named /\ i.client = k.client
      /\ i.seen = k.seen /\ i.override = v.override
  BY <1>3 DEF Job, Version
<1>5. SeesOverride(i.seen, i.override)
  BY <1>3, <1>4 DEF SeesOverride
<1>6. Learnt("provider", i)
  BY <1>2, <1>3, <1>4, <1>5 DEF Learnt, Reading
<1>7. JobOf("provider", i)
  <2>1. i.kind = j.kind /\ i.named = j.named /\ i.client = j.client
    BY <1>3, <1>4
  <2>2. Now(i) = Now(j)
    BY <2>1, SameNow
  <2> QED BY <1>1, <1>3, <1>4, <1>6, <2>2 DEF JobOf
<1>8. pc' = [pc EXCEPT ![w] = "provider"] /\ job' = [job EXCEPT ![w] = i]
  BY DEF Goto
<1>9. LogTyped' /\ "provider" \in Location
  BY <1>1, LogStep DEF Location
<1> QED BY <1>1, <1>4, <1>7, <1>8, <1>9, RequestStep

\* The document is written.
LEMMA DocumentStep ==
    ASSUME IndInv, NEW w \in Worker, Document(w) PROVE IndInv'
<1>1. /\ pc[w] = "provider" /\ job[w].kind = "discovery" /\ Answer(w, "document")
      /\ UNCHANGED <<adminVars, logVars, settings, arrived>>
  BY DEF Document
<1> PICK j, i : j = job[w] /\ i = [j EXCEPT !.outcome = "document"]
  OBVIOUS
<1>2. j \in Job /\ JobOf("provider", j)
  BY <1>1, InFlight
<1>3. SeesOverride(j.seen, j.override)
  BY <1>1, <1>2 DEF JobOf, Learnt
<1>4. i.outcome = "document" /\ i.seen = j.seen /\ i.override = j.override
  BY <1>2 DEF Job
<1>5. Explained(i)
  BY <1>3, <1>4 DEF Explained
<1> QED BY <1>1, <1>5, AnswerStep DEF Outcome

\* The log notes the request.
LEMMA EndStep ==
    ASSUME IndInv, NEW w \in Worker, End(w) PROVE IndInv'
<1>1. /\ pc[w] = "end" /\ Add(job[w].req)
      /\ pc' = [pc EXCEPT ![w] = "idle"] /\ job' = [job EXCEPT ![w] = NoJob]
      /\ UNCHANGED <<adminVars, settings, arrived>>
  BY DEF End, Goto
<1>2. job[w].req \in Entry /\ LogTyped /\ arrived \in 0..MaxRequests
  BY <1>1, InFlight, EntryAssumption DEF JobOf
<1>3. LogTyped'
  BY <1>1, <1>2, LogStep
<1>4. JobOf("idle", NoJob) /\ "idle" \in Location
  BY DEF JobOf, Location
<1> QED BY <1>1, <1>2, <1>3, <1>4, NoJobTyped, RequestStep

-----------------------------------------------------------------------------
(* The admin's steps, as the requests in flight see them.                  *)

\* What a request has learnt stays so when it sees one more version.
LEMMA LearntStays ==
    ASSUME NEW l \in Location \ {"end"}, NEW j \in Job, NEW s, Extends(s, j.seen), Learnt(l, j)
    PROVE  Learnt(l, [j EXCEPT !.seen = s])
<1> PICK i : i = [j EXCEPT !.seen = s]
  OBVIOUS
<1>1. /\ i.seen = s /\ i.kind = j.kind /\ i.loaded = j.loaded /\ i.alg = j.alg
      /\ i.override = j.override
  BY DEF Job
<1>2. /\ \A c : SeesClient(j.seen, c) => SeesClient(s, c)
      /\ \A o : SeesOverride(j.seen, o) => SeesOverride(s, o)
      /\ (\E a \in DOMAIN j.seen : Passing(j.seen[a])) => \E a \in DOMAIN s : Passing(s[a])
      /\ \A alg : Pinned(j.seen, alg) => Pinned(s, alg)
      /\ \A alg : Granted(j.seen, alg) => Granted(s, alg)
  BY PastStays
<1> QED BY <1>1, <1>2 DEF Learnt

\* Every request in flight sees what the admin's step made of its clients.
LEMMA ObserveStep ==
    ASSUME IndInv, Observe, UNCHANGED <<pc, arrived>>, AdminInv',
           override' \in Override \cup {NoOverride}, saves' \in 0..MaxSaves, LogTyped'
    PROVE  IndInv'
<1>1. ASSUME NEW w \in Worker
      PROVE  job'[w] \in Job /\ JobOf(pc[w], job[w])'
  <2> PICK j, now, l : j = job[w] /\ l = pc[w] /\ now = Watched(j, clients', override')
    OBVIOUS
  <2>1. j \in Job /\ l \in Location /\ JobOf(l, j) /\ pc'[w] = l
    BY DEF IndInv, TypeOK, JobInv
  <2>2. now \in Version
    <3>1. clients' \in [ClientId -> Config \cup {NoClient}]
      BY DEF AdminInv, AdminTypeOK
    <3> QED BY <2>1, <3>1, VersionTyped
  <2>3. job'[w] = IF l \in {"idle", "end"} \/ now = j.seen[Len(j.seen)] THEN j
                  ELSE [j EXCEPT !.seen = Append(j.seen, now)]
    BY DEF Observe
  <2>4. CASE l \in {"idle", "end"}
    <3>1. job'[w] = j
      BY <2>3, <2>4
    <3>2. JobOf(l, j)'
      BY <2>1, <2>4 DEF JobOf
    <3> QED BY <2>1, <3>1, <3>2
  <2>5. CASE l \notin {"idle", "end"} /\ now = j.seen[Len(j.seen)]
    <3>1. job'[w] = j
      BY <2>3, <2>5
    <3>2. Now(j)' = now
      BY DEF Now
    <3>3. JobOf(l, j)'
      BY <2>1, <2>5, <3>2 DEF JobOf
    <3> QED BY <2>1, <3>1, <3>3
  <2>6. CASE l \notin {"idle", "end"} /\ now # j.seen[Len(j.seen)]
    <3> PICK s, i : s = Append(j.seen, now) /\ i = [j EXCEPT !.seen = s]
      OBVIOUS
    <3>1. job'[w] = i
      BY <2>3, <2>6
    <3>2. j.seen \in Seq(Version)
      BY <2>1 DEF Job
    <3>3. s \in Seq(Version) /\ s # <<>> /\ s[Len(s)] = now /\ Extends(s, j.seen)
      BY <2>2, <3>2, SeenMore
    <3>4. /\ i \in Job /\ i.seen = s /\ i.req = j.req /\ i.kind = j.kind
          /\ i.named = j.named /\ i.client = j.client
      BY <2>1, <3>3 DEF Job
    <3>5. Learnt(l, i)
      BY <2>1, <2>6, <3>3, LearntStays DEF JobOf
    <3>6. Now(i)' = now
      BY <3>4 DEF Now, Watched
    <3>7. JobOf(l, i)'
      BY <2>1, <2>6, <3>3, <3>4, <3>5, <3>6 DEF JobOf
    <3> QED BY <2>1, <3>1, <3>4, <3>7
  <2> QED BY <2>4, <2>5, <2>6
<1>2. job' \in [Worker -> Job]
  BY <1>1 DEF Observe
<1>3. TypeOK'
  BY <1>2 DEF IndInv, TypeOK, AdminInv, LogTyped
<1>4. JobInv'
  BY <1>1 DEF JobInv
<1> QED BY <1>3, <1>4 DEF IndInv

\* The admin saves an override.
LEMMA SettingsStep ==
    ASSUME IndInv, NEW o \in Override \cup {NoOverride}, SaveSettings(o) PROVE IndInv'
<1>1. AdminInv' /\ LogTyped'
  BY AdminStays, LogStep DEF SaveSettings, IndInv, TypeOK, LogTyped
<1>2. saves' \in 0..MaxSaves /\ override' \in Override \cup {NoOverride}
  BY BoundAssumption DEF SaveSettings, IndInv, TypeOK
<1> QED BY <1>1, <1>2, ObserveStep DEF SaveSettings

\* The admin edits a client.
LEMMA EditStep == ASSUME IndInv, Admin PROVE IndInv'
<1>1. AdminInv' /\ LogTyped'
  BY AdminStep, LogStep DEF Admin, IndInv, TypeOK, LogTyped
<1>2. saves' \in 0..MaxSaves /\ override' \in Override \cup {NoOverride}
  BY DEF Admin, settings, IndInv, TypeOK
<1> QED BY <1>1, <1>2, ObserveStep DEF Admin

\* The process stops: nothing of the requests in flight is left.
LEMMA RestartStep == ASSUME IndInv, Restart PROVE IndInv'
<1>1. AdminInv' /\ LogTyped'
  BY CrashStep, LogStep DEF Restart, IndInv, TypeOK, LogTyped
<1>2. pc' \in [Worker -> Location] /\ job' \in [Worker -> Job]
  BY NoJobTyped DEF Restart, Location
<1>3. TypeOK'
  BY <1>1, <1>2 DEF Restart, settings, IndInv, TypeOK, AdminInv, LogTyped
<1>4. JobInv'
  BY DEF Restart, JobInv, JobOf
<1> QED BY <1>1, <1>3, <1>4 DEF IndInv

\* The invariant is inductive.
LEMMA StepKeepsInv == IndInv /\ [Next]_vars => IndInv'
<1> SUFFICES ASSUME IndInv, [Next]_vars PROVE IndInv'
  OBVIOUS
<1>1. ASSUME NEW w \in Worker, NEW k \in Kind, NEW ids \in Ids(k), Arrive(w, k, ids)
      PROVE  IndInv'
  BY <1>1, ArriveStep
<1>2. ASSUME NEW w \in Worker,
             \/ LoadClient(w) \/ ForceError(w) \/ SigningAlg(w)
             \/ PasswordGrant(w) \/ PasswordTokens(w) \/ Provider(w)
             \/ ReadOverride(w) \/ Document(w) \/ End(w)
      PROVE  IndInv'
  BY <1>2, LoadStep, ForceStep, AlgStep, GrantStep, TokensStep, ProviderStep,
     OverrideStep, DocumentStep, EndStep
<1>3. CASE Admin \/ (\E o \in Override \cup {NoOverride} : SaveSettings(o)) \/ Restart
  BY <1>3, EditStep, SettingsStep, RestartStep
<1>4. CASE UNCHANGED vars
  <2>1. /\ UNCHANGED <<adminVars, logVars>> /\ UNCHANGED <<override, saves, pc, job, arrived>>
    BY <1>4 DEF vars, settings, requestVars
  <2>2. AdminInv' /\ LogTyped' /\ UNCHANGED clients
    BY <2>1, AdminStays, LogStep DEF IndInv, TypeOK, LogTyped, adminVars
  <2>3. TypeOK'
    BY <2>1, <2>2 DEF IndInv, TypeOK, AdminInv, LogTyped
  <2>4. JobInv'
    BY <2>1, <2>2 DEF IndInv, JobInv, JobOf, Now, Watched
  <2> QED BY <2>2, <2>3, <2>4 DEF IndInv
<1> QED BY <1>1, <1>2, <1>3, <1>4 DEF Next

\* The invariant holds of a server that has just started.
LEMMA InitInd == Init => IndInv
<1> SUFFICES ASSUME Init PROVE IndInv
  OBVIOUS
<1>1. AdminInv
  BY AdminInitInv DEF Init
<1>2. buf \in Seq(Entry) /\ Len(buf) <= MaxLog
  BY MaxLogAssumption DEF Init, LogInit
<1>3. pc \in [Worker -> Location] /\ job \in [Worker -> Job]
  BY NoJobTyped DEF Init, Location
<1>4. override = NoOverride /\ saves \in 0..MaxSaves /\ arrived \in 0..MaxRequests
  BY BoundAssumption DEF Init
<1>5. TypeOK
  BY <1>1, <1>2, <1>3, <1>4 DEF TypeOK, AdminInv
<1>6. JobInv
  BY DEF Init, JobInv, JobOf
<1> QED BY <1>1, <1>5, <1>6 DEF IndInv

LEMMA Inductive == Spec => []IndInv
BY InitInd, StepKeepsInv, PTL DEF Spec

\* What a request has seen by its end explains its answer.
LEMMA AnswerFollows == IndInv => AnswerFollowsConfiguration
<1> SUFFICES ASSUME IndInv, NEW w \in Worker, pc[w] = "end", job[w].kind # "callback"
             PROVE  LET j == job[w]
                        s == j.seen
                    IN  /\ j.outcome = "forced" =>
                              \E a \in DOMAIN s : s[a].named # NoClient /\ s[a].named.error
                        /\ j.outcome = "served" => \E a, b, c \in DOMAIN s :
                              /\ a <= b /\ b <= c
                              /\ s[a].named # NoClient => ~s[a].named.error
                              /\ j.alg = IF s[b].named = NoClient THEN NoAlg
                                                                  ELSE s[b].named.alg
                              /\ s[c].served # NoClient
                              /\ j.kind = "password" => \E d \in b..c :
                                    s[d].served # NoClient /\ s[d].served.password
                        /\ j.outcome = "document" => \E a \in DOMAIN s :
                              s[a].override = j.override
  BY DEF AnswerFollowsConfiguration
<1> PICK j : j = job[w]
  OBVIOUS
<1>1. Explained(j)
  BY DEF IndInv, JobInv, JobOf, Learnt
<1>2. j.outcome = "forced" =>
          \E a \in DOMAIN j.seen : j.seen[a].named # NoClient /\ j.seen[a].named.error
  BY <1>1, AbsentAssumption DEF Explained, SeesClient
<1>3. j.outcome = "served" => Served(j)
  BY <1>1 DEF Explained
<1>4. j.outcome = "document" => \E a \in DOMAIN j.seen : j.seen[a].override = j.override
  BY <1>1 DEF Explained, SeesOverride
<1> QED BY <1>2, <1>3, <1>4 DEF Served, Passing, AlgOf, Exists, Grants

(* Every variable keeps its type, whatever the admin and the requests do     *)
(* (saveClient, deleteClient, saveSettings, the handlers of server.New).     *)
THEOREM TypeCorrect == Spec => []TypeOK
BY Inductive, PTL DEF IndInv

(* However many tabs edit, rename and delete however many clients, a client  *)
(* has one row, none while it is being renamed and none once it is deleted,  *)
(* unless two forms overlapped or a rename was cut short (saveClient,        *)
(* SaveClient, deleteClient).                                                *)
THEOREM ClientAlwaysOnce == Spec => []EveryClientOnce
<1>1. IndInv => EveryClientOnce
  BY OnceFollows DEF IndInv
<1> QED BY <1>1, Inductive, PTL

(* However the steps of any number of requests and of the admin interleave,  *)
(* an answer follows what was configured while its request ran for the       *)
(* client that the middlewares take it to name and for the one it is served  *)
(* as, read by read and in this order (behavior.Middleware,                  *)
(* SigningAlgMiddleware, ropcExchange, DiscoveryOverride).                   *)
THEOREM AnswerAlwaysFollows == Spec => []AnswerFollowsConfiguration
BY Inductive, AnswerFollows, PTL

(* The server uses the log as its module says: requests add their entry when *)
(* their handlers have returned, a restart empties it, nothing else touches  *)
(* it; so the log page shows the requests that ended last (Log.Middleware).  *)
THEOREM ServerShowsRecent == Spec => LogShowsRecent
<1>1. Init => LogInit
  BY DEF Init
<1>2. IndInv /\ [Next]_vars => [LogNext]_logVars
  <2> SUFFICES ASSUME IndInv, [Next]_vars PROVE [LogNext]_logVars
    OBVIOUS
  <2>1. ASSUME NEW w \in Worker, End(w) PROVE LogNext
    <3>1. Add(job[w].req) /\ pc[w] = "end"
      BY <2>1 DEF End
    <3>2. job[w].req \in Entry
      BY <3>1, InFlight, EntryAssumption DEF JobOf
    <3> QED BY <3>1, <3>2 DEF LogNext
  <2>2. CASE Restart
    BY <2>2 DEF Restart, LogNext
  <2>3. CASE ~Restart /\ ~\E w \in Worker : End(w)
    BY <2>3 DEF Next, Arrive, LoadClient, ForceError, SigningAlg, PasswordGrant, PasswordTokens,
                Provider, ReadOverride, Document, Admin, SaveSettings, vars
  <2> QED BY <2>1, <2>2, <2>3
<1>3. Spec => LogSpec
  BY <1>1, <1>2, Inductive, PTL DEF Spec, LogSpec
<1> QED BY <1>3, LogImplemented
=============================================================================
