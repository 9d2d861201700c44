------------------------------ MODULE Accounts ------------------------------
(***************************************************************************)
(* Accounts and sessions: POST /auth/register, /login and /refresh, and    *)
(* GET /auth/me.                                                           *)
(* Registration looks the email up and then inserts, with nothing but the  *)
(* unique constraint between two requests; the row is committed by get_db  *)
(* after the handler has returned.  A session is the pair of tokens a      *)
(* client holds: nothing about it is stored, a token ends by expiring      *)
(* only, and an account is looked up again where the code does so.         *)
(* Passwords are right: a wrong one is a login that changes nothing.       *)
(***************************************************************************)
EXTENDS Naturals

CONSTANTS
    Clients,
    Emails,
    MaxAccounts     \* bound: rows inserted in a behaviour

ASSUME AccountsAssumption == MaxAccounts \in Nat

NoEmail == "no email"

VARIABLES
    email,      \* users.email of every id
    account,    \* users.is_active of every id, or why there is no row
    next,       \* the next id
    request,    \* the registration each client has in progress
    told,       \* how the client's last register or me was answered, and for whom
    access,     \* the access token each client holds
    refresh     \* the refresh token of the same pair

rowVars == <<email, account, next>>
vars == <<rowVars, request, told, access, refresh>>

Ids == 1..MaxAccounts

Idle == [pc |-> "idle", email |-> NoEmail, id |-> 0]

\* The sub claim of a token, and whether it has expired.
NoToken == [id |-> 0, live |-> FALSE]
TokenOf(a) == [id |-> a, live |-> TRUE]

\* A row that is flushed and not committed belongs to a request in progress.
TypeOK ==
    /\ email \in [Ids -> Emails \cup {NoEmail}]
    /\ account \in [Ids -> {"none", "flushed", "active", "inactive", "removed"}]
    /\ next \in 1..(MaxAccounts + 1)
    /\ request \in [Clients -> [pc : {"idle", "insert", "commit"},
                                email : Emails \cup {NoEmail}, id : Ids \cup {0}]]
    /\ told \in [Clients -> [what : {"nothing", "created", "exists", "conflict", "error",
                                     "profile", "nobody"},
                             email : Emails \cup {NoEmail}]]
    /\ \A a \in Ids : account[a] = "flushed" <=>
          \E c \in Clients : request[c].pc = "commit" /\ request[c].id = a
    /\ access \in [Clients -> [id : Ids \cup {0}, live : BOOLEAN]]
    /\ refresh \in [Clients -> [id : Ids \cup {0}, live : BOOLEAN]]

Init ==
    /\ email = [a \in Ids |-> NoEmail]
    /\ account = [a \in Ids |-> "none"]
    /\ next = 1
    /\ request = [c \in Clients |-> Idle]
    /\ told = [c \in Clients |-> [what |-> "nothing", email |-> NoEmail]]
    /\ access = [c \in Clients |-> NoToken]
    /\ refresh = [c \in Clients |-> NoToken]

\* get_by_id and get_by_email, in a transaction of their own.
Exists(a) == a \in Ids /\ account[a] \in {"active", "inactive"}

\* Mutant: one session for all requests, which shows what they flushed.
HasEmailFlushed(a, e) == email[a] = e /\ (Exists(a) \/ account[a] = "flushed")

HasEmail(a, e) == email[a] = e /\ Exists(a)

-----------------------------------------------------------------------------
(***************************************************************************)
(* Registration                                                            *)
(***************************************************************************)

Answer(c, what, e) == told' = [told EXCEPT ![c] = [what |-> what, email |-> e]]
Ends(c) == request' = [request EXCEPT ![c] = Idle]

\* register_user's exists_by_email: the email is taken (409), or the
\* password is hashed.
RegisterChecks(c, e) ==
    /\ request[c] = Idle
    /\ IF \E a \in Ids : HasEmail(a, e)
         THEN Answer(c, "exists", e) /\ UNCHANGED request
         ELSE /\ Answer(c, "nothing", NoEmail)
              /\ request' = [request EXCEPT ![c] = [Idle EXCEPT !.pc = "insert", !.email = e]]
    /\ UNCHANGED <<rowVars, access, refresh>>

\* The unique index makes an INSERT wait for a transaction that has inserted
\* the same email, until that commits or rolls back.
Blocked(e) == \E a \in Ids : email[a] = e /\ account[a] = "flushed"

\* Mutant: no unique constraint.
InsertsUnchecked(c) ==
    /\ request[c].pc = "insert"
    /\ next \in Ids
    /\ email' = [email EXCEPT ![next] = request[c].email]
    /\ account' = [account EXCEPT ![next] = "flushed"]
    /\ next' = next + 1
    /\ request' = [request EXCEPT ![c].pc = "commit", ![c].id = next]
    /\ Answer(c, "created", request[c].email)
    /\ UNCHANGED <<access, refresh>>

\* create_user flushes the row and the handler returns 201.
RegisterInserts(c) ==
    /\ request[c].pc = "insert"
    /\ ~Blocked(request[c].email)
    /\ \A a \in Ids : ~HasEmail(a, request[c].email)
    /\ next \in Ids
    /\ email' = [email EXCEPT ![next] = request[c].email]
    /\ account' = [account EXCEPT ![next] = "flushed"]
    /\ next' = next + 1
    /\ request' = [request EXCEPT ![c].pc = "commit", ![c].id = next]
    /\ Answer(c, "created", request[c].email)
    /\ UNCHANGED <<access, refresh>>

\* An IntegrityError is no ValueError: the client gets a 500, not a 409.
RegisterConflicts(c) ==
    /\ request[c].pc = "insert"
    /\ ~Blocked(request[c].email)
    /\ \E a \in Ids : HasEmail(a, request[c].email)
    /\ Ends(c)
    /\ Answer(c, "conflict", request[c].email)
    /\ UNCHANGED <<rowVars, access, refresh>>

\* get_db commits.
Commits(c) ==
    /\ request[c].pc = "commit"
    /\ account' = [account EXCEPT ![request[c].id] = "active"]
    /\ Ends(c)
    /\ UNCHANGED <<email, next, told, access, refresh>>

\* Mutant: the transaction of a failed request stays open.
RegisterFailsOpen(c) ==
    /\ request[c].pc # "idle"
    /\ IF request[c].pc = "commit" THEN UNCHANGED told ELSE Answer(c, "error", request[c].email)
    /\ Ends(c)
    /\ UNCHANGED <<rowVars, access, refresh>>

\* A database error: get_db rolls back.  If it is the commit that fails, the
\* client has its answer already.
RegisterFails(c) ==
    /\ request[c].pc # "idle"
    /\ IF request[c].pc = "commit"
         THEN /\ account' = [account EXCEPT ![request[c].id] = "none"]
              /\ UNCHANGED told
         ELSE Answer(c, "error", request[c].email) /\ UNCHANGED account
    /\ Ends(c)
    /\ UNCHANGED <<email, next, access, refresh>>

-----------------------------------------------------------------------------
(***************************************************************************)
(* Sessions                                                                *)
(***************************************************************************)

\* decode_token_payload: the signature is right, so a token is good for as long
\* as it lives; whether its account still exists is not asked.
Decodes(token) == token.live

\* decode_refresh_token.
DecodesRefresh(c) == Decodes(refresh[c])

\* get_subject_for_token_type: an access token, not a refresh token.
DecodesAccess(c) == Decodes(access[c])

\* create_token_pair.
Holds(c, a) ==
    /\ access' = [access EXCEPT ![c] = TokenOf(a)]
    /\ refresh' = [refresh EXCEPT ![c] = TokenOf(a)]
    /\ UNCHANGED <<rowVars, request, told>>

\* authenticate_user: by email; is_active is not looked at.
Login(c, e) ==
    /\ request[c] = Idle
    /\ \E a \in Ids : HasEmail(a, e) /\ Holds(c, a)

\* Mutant: the claims of the token are trusted.
RefreshesUnseen(c) ==
    /\ request[c] = Idle
    /\ DecodesRefresh(c)
    /\ Holds(c, refresh[c].id)

\* UserService.refresh: by id, and only for an active account.
Refreshes(c) ==
    /\ request[c] = Idle
    /\ DecodesRefresh(c)
    /\ Exists(refresh[c].id) /\ account[refresh[c].id] = "active"
    /\ Holds(c, refresh[c].id)

\* get_current_user_email: the email claim of an access token, which is the
\* account's when the token was issued.  An email is never changed.
CurrentUserEmail(c) == email[access[c].id]

\* get_user_by_email: not by the id that the token also names.
Profile(e) == IF \E a \in Ids : HasEmail(a, e) THEN "profile" ELSE "nobody"

\* GET /auth/me.  Nobody is answered 200 with null.
Me(c) ==
    /\ request[c] = Idle
    /\ DecodesAccess(c)
    /\ Answer(c, Profile(CurrentUserEmail(c)), CurrentUserEmail(c))
    /\ UNCHANGED <<rowVars, request, access, refresh>>

\* exp: an access token lives minutes, a refresh token days.
AccessExpires(c) ==
    /\ access[c].live
    /\ access' = [access EXCEPT ![c].live = FALSE]
    /\ UNCHANGED <<rowVars, request, told, refresh>>

RefreshExpires(c) ==
    /\ refresh[c].live /\ ~access[c].live
    /\ refresh' = [refresh EXCEPT ![c].live = FALSE]
    /\ UNCHANGED <<rowVars, request, told, access>>

\* An operator deactivates or deletes an account.
Administers(a, state) ==
    /\ Exists(a)
    /\ account' = [account EXCEPT ![a] = state]
    /\ UNCHANGED <<email, next, request, told, access, refresh>>

ClientStep(c) ==
    \/ \E e \in Emails : RegisterChecks(c, e) \/ Login(c, e)
    \/ RegisterInserts(c) \/ RegisterConflicts(c) \/ Commits(c) \/ RegisterFails(c)
    \/ Refreshes(c) \/ Me(c) \/ AccessExpires(c) \/ RefreshExpires(c)

Next ==
    \/ \E c \in Clients : ClientStep(c)
    \/ \E a \in Ids : Administers(a, "inactive") \/ Administers(a, "removed")

Spec == Init /\ [][Next]_vars

\* Handlers end, and time passes for every token.
FairSpec ==
    /\ Spec
    /\ \A c \in Clients :
          /\ WF_vars(RegisterInserts(c) \/ RegisterConflicts(c)) /\ WF_vars(Commits(c))
          /\ WF_vars(AccessExpires(c)) /\ WF_vars(RefreshExpires(c))

-----------------------------------------------------------------------------
(***************************************************************************)
(* Properties                                                              *)
(***************************************************************************)

\* Every account is the one its email finds: two registrations that both
\* found the email free do not both get an account, and the email and the id
\* in a token name the same one.
OneAccountPerEmail ==
    \A a, b \in Ids : Exists(a) /\ HasEmail(b, email[a]) => a = b

\* Nobody is refused or forgotten for an account that never came to be: behind
\* every 409 and every constraint violation there is a committed account, and a
\* client with a good token is told that it is nobody only if an account of its
\* email was removed, since no token is issued for a row that is rolled back.
AnswersAreTrue ==
    \A c \in Clients : told[c].what \in {"exists", "conflict", "nobody"} =>
        \E a \in Ids : /\ email[a] = told[c].email
                       /\ account[a] \in {"active", "inactive", "removed"}
                       /\ told[c].what = "nobody" => account[a] = "removed"

\* A registration that waits for another one's INSERT is answered, whether
\* that one commits or fails.
RegistrationsEnd ==
    \A c \in Clients :
        (request[c].pc = "insert" /\ next \in Ids) ~> (request[c].pc # "insert" \/ next \notin Ids)

\* The sessions of a removed account end although no token is revoked: its
\* refresh tokens buy no new pair.
SessionsEnd ==
    \A c \in Clients, a \in Ids :
        account[a] = "removed" ~> ~(refresh[c].id = a /\ refresh[c].live)
=============================================================================
