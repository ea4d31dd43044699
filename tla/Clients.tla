------------------------------ MODULE Clients ------------------------------
(***************************************************************************)
(* The clients table and the admin's client form: one POST handler that    *)
(* creates, edits and renames, and a delete button.  A rename is a DELETE  *)
(* of the old row, then the validation of the form, then an UPSERT; a form *)
(* shows the row as it was when the page was opened.                       *)
(***************************************************************************)
EXTENDS Naturals, FiniteSets

CONSTANTS
    ClientId,
    Config,         \* configurations that pass the form's validation
    InitialClients, \* the seeded clients: ClientId -> Config \cup {NoClient}
    Tab,            \* browser tabs with the admin's client page
    NoClient,       \* no row, or no id
    MaxForms        \* bound: forms ever opened

ASSUME AbsentAssumption == NoClient \notin ClientId \cup Config
ASSUME InitialAssumption == InitialClients \in [ClientId -> Config \cup {NoClient}]
ASSUME LineAssumption == ClientId \cap Nat = {}   \* ids are no numbers of forms
ASSUME FormAssumption == MaxForms \in Nat

VARIABLES
    clients,  \* table clients: a configuration, or NoClient
    form,     \* what a tab shows, and where its POST is
    opened,   \* forms opened so far
    line,     \* ghost: which client, as the admin knows it, a row is (a Line)
    saved,    \* ghost: the clients that were ever saved
    removed,  \* ghost: the clients deleted with the button
    excused   \* ghost: see Excuse

adminVars == <<clients, form, opened, line, saved, removed, excused>>

\* A seeded client, or the number of the form that a new one was entered in.
Line == ClientId \cup Nat

(* A form knows the id it was opened for (orig_id), NoClient for a new       *)
(* client; once posted, the id and configuration it asks for.                *)
NoForm == [at |-> "closed", orig |-> NoClient, id |-> NoClient, config |-> NoClient, line |-> 0]
Form == [at : {"closed", "open", "save"}, orig : ClientId \cup {NoClient},
         id : ClientId \cup {NoClient}, config : Config \cup {NoClient}, line : Line]

Occupied(i) == clients[i] # NoClient
Renames(f) == f.orig # NoClient /\ f.orig # f.id
OnForm(l) == {t \in Tab : form[t].at # "closed" /\ form[t].line = l}

AdminInit ==
    /\ clients = InitialClients
    /\ form = [t \in Tab |-> NoForm]
    /\ opened = 0
    /\ line = [i \in ClientId |-> i]
    /\ saved = {i \in ClientId : Occupied(i)}
    /\ removed = {} /\ excused = {}

(* The clients of which nothing is promised: two forms, or a form and a      *)
(* deletion, worked on one of them at the same time; another was saved under *)
(* its id, or deleted it as its own; or its rename was cut short.            *)
Excuse(ls) == excused' = excused \cup ls

LinesAt(is) == {line[i] : i \in {j \in is : Occupied(j)}}

\* clients: the empty form, or ?edit= with the row as it is now.
OpenForm(t) ==
    /\ form[t].at = "closed" /\ opened < MaxForms
    /\ opened' = opened + 1
    /\ \/ form' = [form EXCEPT ![t] = [NoForm EXCEPT !.at = "open", !.line = opened + 1]]
          /\ UNCHANGED excused
       \/ \E i \in ClientId :
            /\ Occupied(i)
            /\ form' = [form EXCEPT ![t] =
                  [NoForm EXCEPT !.at = "open", !.orig = i, !.line = line[i]]]
            /\ Excuse(IF OnForm(line[i]) = {} THEN {} ELSE {line[i]})
    /\ UNCHANGED <<clients, line, saved, removed>>

CloseForm(t) == form' = [form EXCEPT ![t] = NoForm]

\* saveClient: custom claims that are not JSON, or no id, are refused first.
RefuseForm(t) ==
    /\ form[t].at = "open" /\ CloseForm(t)
    /\ UNCHANGED <<clients, opened, line, saved, removed, excused>>

\* Mutant: the row of the old id is left behind.
PostFormKeepsOld(t, i, c) ==
    LET f == [form[t] EXCEPT !.at = "save", !.id = i, !.config = c] IN
      /\ form[t].at = "open" /\ form' = [form EXCEPT ![t] = f]
      /\ UNCHANGED <<clients, opened, line, saved, removed, excused>>

(* saveClient: a changed id deletes the old row, whoever's row it is by now. *)
(* An error of the DELETE is ignored.                                        *)
PostForm(t, i, c) ==
    LET f == [form[t] EXCEPT !.at = "save", !.id = i, !.config = c]
    IN  /\ form[t].at = "open" /\ form' = [form EXCEPT ![t] = f]
        /\ \/ /\ Renames(f) => clients' = [clients EXCEPT ![f.orig] = NoClient]
              /\ ~Renames(f) => UNCHANGED clients
              /\ Excuse((IF Renames(f) THEN LinesAt({f.orig}) ELSE {}) \ {f.line})
           \/ Renames(f) /\ UNCHANGED clients /\ Excuse({f.line})
        /\ UNCHANGED <<opened, line, saved, removed>>

(* saveClient: an unsupported algorithm or a JWKS that is not JSON is refused, *)
(* or SaveClient fails - after the DELETE.                                     *)
RefuseSave(t) ==
    /\ form[t].at = "save" /\ CloseForm(t)
    /\ Excuse(IF Renames(form[t]) THEN {form[t].line} ELSE {})
    /\ UNCHANGED <<clients, opened, line, saved, removed>>

\* SaveClient: an UPSERT, also over a row that another client has by now.
SaveClient(t) ==
    LET f == form[t] IN
      /\ f.at = "save" /\ CloseForm(t)
      /\ clients' = [clients EXCEPT ![f.id] = f.config]
      /\ line' = [line EXCEPT ![f.id] = f.line]
      /\ saved' = saved \cup {f.line}
      /\ Excuse(LinesAt({f.id}) \ {f.line})
      /\ UNCHANGED <<opened, removed>>

\* deleteClient: an error is ignored, and the page shows the client still.
DeleteClient(i) ==
    /\ Occupied(i)
    /\ clients' = [clients EXCEPT ![i] = NoClient]
    /\ removed' = removed \cup {line[i]}
    /\ Excuse(IF OnForm(line[i]) = {} THEN {} ELSE {line[i]})
    /\ UNCHANGED <<form, opened, line, saved>>

\* The process stops: a POST is cut short, a page that is open stays open.
AdminCrash ==
    /\ form' = [t \in Tab |-> IF form[t].at = "save" THEN NoForm ELSE form[t]]
    /\ Excuse({form[t].line : t \in {u \in Tab : form[u].at = "save" /\ Renames(form[u])}})
    /\ UNCHANGED <<clients, opened, line, saved, removed>>

AdminNext ==
    \/ \E t \in Tab : \/ OpenForm(t) \/ RefuseForm(t) \/ RefuseSave(t) \/ SaveClient(t)
                      \/ \E i \in ClientId, c \in Config : PostForm(t, i, c)
    \/ \E i \in ClientId : DeleteClient(i)

-----------------------------------------------------------------------------
AdminTypeOK ==
    /\ clients \in [ClientId -> Config \cup {NoClient}]
    /\ form \in [Tab -> Form] /\ opened \in 0..MaxForms
    /\ line \in [ClientId -> Line]
    /\ saved \cup removed \cup excused \subseteq Line

(* A client has one row, whatever its id has been, until it is deleted, and  *)
(* none after; only while it is being renamed has it none.  Not so where two *)
(* forms overlap or a rename is cut short by a refusal, a failed statement   *)
(* or a stop (saveClient, SaveClient, deleteClient).                         *)
EveryClientOnce ==
    \A l \in saved \ excused :
        LET rows == {i \in ClientId : Occupied(i) /\ line[i] = l}
            moving == \E t \in OnForm(l) : form[t].at = "save" /\ Renames(form[t])
        IN  Cardinality(rows) = IF l \in removed \/ moving THEN 0 ELSE 1
=============================================================================
