------------------------------ MODULE Claims ------------------------------
(***************************************************************************)
(* What an answer claims about a user: the user's static claims, the       *)
(* user's conditional claims that fit the client and the scopes, and the   *)
(* client's custom claims, merged into one object.  A claims object is a   *)
(* function from claim names to values.  The loop over the rules is a step *)
(* per rule; the copies before and after it are operators.  A subject that *)
(* no user has is answered as a user without claims and rules.             *)
(***************************************************************************)
EXTENDS Naturals, SequencesExt

CONSTANTS
    ClaimsObject,  \* claims objects that an admin enters
    Condition,     \* rules of a user: [client, scopes, claims]
    MaxRules,      \* bound: rules of a user
    RequestClient, \* clients that ask
    Scope,         \* scopes they ask for
    AnyClient,     \* the empty client_id of a rule
    ToAddress,     \* what toAddress makes of a claim that is a JSON object: its six
                   \* texts; the domain holds the values that are objects
    NoAddress,     \* the field Address of a userinfo is not set
    NoQuestion     \* nothing has been asked

VARIABLES
    asked,  \* the inputs of the answer at hand, or NoQuestion
    passed, \* EvaluateConditionalClaims: the rules that the loop has passed
    out     \* EvaluateConditionalClaims: the claims merged so far

claimsVars == <<asked, passed, out>>

None == [k \in {} |-> 0]

\* The entries of f, and those of g that f does not have: f is copied over g.
Over(f, g) == [k \in DOMAIN f \cup DOMAIN g |-> IF k \in DOMAIN f THEN f[k] ELSE g[k]]
Without(f, k) == [n \in DOMAIN f \ {k} |-> f[n]]

\* EvaluateConditionalClaims: the rule is for this client, and all its scopes are asked for.
Matches(rule, client, scopes) ==
    rule.client \in {AnyClient, client} /\ rule.scopes \subseteq scopes

\* The user's static address is one that the field Address can hold.
HasAddress(static) == "address" \in DOMAIN static /\ static["address"] \in DOMAIN ToAddress

(* setUserinfo: the field Address, which takes the user's static address for *)
(* the address scope, and the appended claims, which leave that one out.     *)
UserinfoClaims(q, conditional) ==
    [address |-> IF "address" \in q.scopes /\ HasAddress(q.static)
                 THEN ToAddress[q.static["address"]] ELSE NoAddress,
     appended |-> Over(q.custom, Over(conditional, Without(q.static, "address")))]

\* GetPrivateClaimsFromScopes: the claims of a JWT access token
PrivateClaims(q, conditional) == Over(q.custom, Over(conditional, q.static))

Question == [static : ClaimsObject, rules : BoundedSeq(Condition, MaxRules),
             client : RequestClient, scopes : SUBSET Scope, custom : ClaimsObject]

ASSUME QuestionAssumption == NoQuestion \notin Question
ASSUME AddressAssumption == \A v \in DOMAIN ToAddress : ToAddress[v] # NoAddress

ClaimsInit == asked = NoQuestion /\ passed = 0 /\ out = None

\* An answer is a function of its inputs: any of them, once.
Ask == asked = NoQuestion /\ asked' \in Question /\ UNCHANGED <<passed, out>>

More == passed + 1 \in DOMAIN asked.rules

\* Mutant: a claim keeps the value of the first rule that sets it.
ConditionalFirstWins ==
    LET rule == asked.rules[passed + 1] IN
      /\ asked # NoQuestion /\ More
      /\ passed' = passed + 1 /\ UNCHANGED asked
      /\ out' = IF Matches(rule, asked.client, asked.scopes) THEN Over(out, rule.claims) ELSE out

\* EvaluateConditionalClaims: the loop over the rules
EvaluateConditionalClaims ==
    LET rule == asked.rules[passed + 1] IN
      /\ asked # NoQuestion /\ More
      /\ passed' = passed + 1 /\ UNCHANGED asked
      /\ out' = IF Matches(rule, asked.client, asked.scopes) THEN Over(rule.claims, out) ELSE out

ClaimsNext == Ask \/ EvaluateConditionalClaims

ClaimsSpec == ClaimsInit /\ [][ClaimsNext]_claimsVars

-----------------------------------------------------------------------------
(* The rules that say something of claim k. *)
Telling(k, rules, client, scopes) ==
    {n \in DOMAIN rules : Matches(rules[n], client, scopes) /\ k \in DOMAIN rules[n].claims}

\* An object and a source agree on claim k.
Agree(object, source, k) ==
    /\ k \in DOMAIN object <=> k \in DOMAIN source
    /\ k \in DOMAIN object => object[k] = source[k]

Names == UNION {DOMAIN o : o \in ClaimsObject}

(* Every claim of a JWT access token, and every claim appended to a         *)
(* userinfo, comes from the most specific source that has it: the client,    *)
(* else the last of the user's rules that match, else the user, whose static *)
(* address is not appended.  It is the field Address of the userinfo, with   *)
(* the address scope and if it is an object, whatever address the rules or   *)
(* the client claim (storage.setUserinfo, toAddress,                         *)
(* GetPrivateClaimsFromScopes, User.EvaluateConditionalClaims).              *)
ClaimPrecedence ==
    asked # NoQuestion /\ ~More =>
        LET q == asked
            private == PrivateClaims(q, out)
            userinfo == UserinfoClaims(q, out)
            Source(k, own) ==
                LET telling == Telling(k, q.rules, q.client, q.scopes) IN
                CASE k \in DOMAIN q.custom -> q.custom
                  [] k \notin DOMAIN q.custom /\ telling # {} -> q.rules[Max(telling)].claims
                  [] OTHER -> own
            shown == [n \in DOMAIN q.static \ {"address"} |-> q.static[n]]
        IN  /\ \A k \in Names : /\ Agree(private, Source(k, q.static), k)
                                /\ Agree(userinfo.appended, Source(k, shown), k)
            /\ userinfo.address # NoAddress <=> "address" \in q.scopes /\ HasAddress(q.static)
            /\ userinfo.address # NoAddress =>
                  userinfo.address = ToAddress[q.static["address"]]
=============================================================================
