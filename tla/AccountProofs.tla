--------------------------- MODULE AccountProofs ---------------------------
(***************************************************************************)
(* Two registrations never get an account for one email, and every answer  *)
(* that names an account is about one that was committed; for any number   *)
(* of clients, emails and accounts.                                        *)
(***************************************************************************)
EXTENDS Accounts, TLAPS

Answers == [what : {"nothing", "created", "exists", "conflict", "error", "profile", "nobody"},
            email : Emails \cup {NoEmail}]
RequestState == [pc : {"idle", "insert", "commit"},
                 email : Emails \cup {NoEmail}, id : Ids \cup {0}]

\* The row takes part in the unique index.
Indexed(a) == account[a] \in {"flushed", "active", "inactive"}

Unique ==
    \A a, b \in Ids : Indexed(a) /\ Indexed(b) /\ email[a] = email[b] => a = b

\* Ids that were not drawn have no row.
NextIsFresh == \A a \in Ids : a >= next => account[a] = "none"

\* A flushed row is committed or rolled back by the one request that inserted it.
OwnRow ==
    \A c \in Clients : request[c].pc = "commit" =>
        /\ request[c].id \in Ids /\ account[request[c].id] = "flushed"
        /\ \A d \in Clients :
              request[d].pc = "commit" /\ request[d].id = request[c].id => d = c

\* A row that was committed, and may be removed since.
Settled(a) == account[a] \in {"active", "inactive", "removed"}

\* Tokens are issued for committed rows only.
TokensNameAccounts ==
    \A c \in Clients :
        access[c].live => access[c].id \in Ids /\ Settled(access[c].id)

RowRules == Unique /\ NextIsFresh /\ OwnRow

AccountInv == TypeOK /\ RowRules /\ TokensNameAccounts /\ AnswersAreTrue

(***************************************************************************)
(* Rows                                                                    *)
(***************************************************************************)

\* What a step may do with rows, for what was said of them to stay true.
KeepsSettled ==
    \A a \in Ids : Settled(a) =>
        /\ Settled(a)' /\ email'[a] = email[a]
        /\ account[a] = "removed" => account'[a] = "removed"

LEMMA AccountInitType == Init => TypeOK
<1> SUFFICES ASSUME Init PROVE TypeOK
    OBVIOUS
<1>1. next \in 1..(MaxAccounts + 1)
    BY AccountsAssumption DEF Init
<1>2. \A a \in Ids : account[a] # "flushed"
    BY DEF Init
<1>3. \A c \in Clients : request[c].pc # "commit"
    BY DEF Init, Idle
<1> QED BY <1>1, <1>2, <1>3 DEF Init, TypeOK, Answers, RequestState, Idle, NoToken

LEMMA InsertsKeeps ==
    ASSUME AccountInv, NEW c \in Clients, RegisterInserts(c)
    PROVE  TypeOK' /\ RowRules' /\ KeepsSettled
<1> USE DEF AccountInv, RowRules
<1>type. /\ email \in [Ids -> Emails \cup {NoEmail}]
         /\ account \in [Ids -> {"none", "flushed", "active", "inactive", "removed"}]
         /\ request \in [Clients -> RequestState]
    BY DEF TypeOK, Answers, RequestState
<1> PICK n \in Ids : n = next
    BY DEF RegisterInserts
<1>1. /\ account[n] = "none" /\ n \in Nat /\ MaxAccounts \in Nat
    BY AccountsAssumption DEF NextIsFresh, Ids
<1>2. /\ account' = [account EXCEPT ![n] = "flushed"]
      /\ email' = [email EXCEPT ![n] = request[c].email]
      /\ request[c].pc = "insert"
      /\ request'[c].pc = "commit" /\ request'[c].id = n
      /\ \A d \in Clients : d # c => request'[d] = request[d]
      /\ next' = n + 1
    BY <1>type DEF RegisterInserts
<1>3. TypeOK'
  <2>1. n + 1 \in 1..(MaxAccounts + 1)
      BY <1>1 DEF Ids
  <2>2. request' \in [Clients -> RequestState]
      BY <1>type DEF RequestState, RegisterInserts
  <2>3. \A a \in Ids : account'[a] = "flushed" <=>
            \E d \in Clients : request'[d].pc = "commit" /\ request'[d].id = a
    <3>1. \A a \in Ids : a # n =>
              (account'[a] = "flushed" <=>
                 \E d \in Clients : request[d].pc = "commit" /\ request[d].id = a)
        BY <1>type, <1>2 DEF TypeOK, Answers, RequestState
    <3>2. \A d \in Clients : d # c => /\ request'[d].pc = request[d].pc
                                      /\ request'[d].id = request[d].id
        BY <1>2
    <3>3. account'[n] = "flushed"
        BY <1>type, <1>2
    <3> QED BY <1>2, <3>1, <3>2, <3>3
  <2> QED BY <1>type, <1>2, <2>1, <2>2, <2>3 DEF TypeOK, Answers, RequestState,
          RegisterInserts, Answer
<1>4. Unique'
  <2>1. \A a \in Ids : Indexed(a) => email[a] # request[c].email
      BY DEF RegisterInserts, Blocked, HasEmail, Exists, Indexed
  <2> QED BY <1>type, <1>2, <2>1 DEF Unique, Indexed
<1>5. NextIsFresh'
    BY <1>type, <1>1, <1>2 DEF NextIsFresh, Ids
<1>6. OwnRow'
    BY <1>type, <1>1, <1>2 DEF OwnRow
<1>7. KeepsSettled
    BY <1>type, <1>1, <1>2 DEF KeepsSettled, Settled
<1> QED BY <1>3, <1>4, <1>5, <1>6, <1>7

\* Ends of a request that has no row.
LEMMA RequestsKeep ==
    ASSUME AccountInv, UNCHANGED rowVars, NEW c \in Clients, request[c].pc # "commit",
           NEW r \in [pc : {"idle", "insert"}, email : Emails \cup {NoEmail}, id : Ids \cup {0}],
           request' = [request EXCEPT ![c] = r],
           told' \in [Clients -> Answers],
           UNCHANGED <<access, refresh>>
    PROVE  TypeOK' /\ RowRules' /\ KeepsSettled
<1> USE DEF AccountInv, RowRules, rowVars
<1>1. request' \in [Clients -> RequestState]
    BY DEF TypeOK, Answers, RequestState
<1>2. \A d \in Clients : /\ request'[d].pc = "commit" <=> request[d].pc = "commit"
                         /\ request[d].pc = "commit" => request'[d] = request[d]
    BY DEF TypeOK, Answers, RequestState
<1>3. TypeOK'
    BY <1>1, <1>2 DEF TypeOK, Answers, RequestState
<1>4. RowRules'
    BY <1>2 DEF Unique, Indexed, NextIsFresh, OwnRow
<1> QED BY <1>3, <1>4 DEF KeepsSettled, Settled

LEMMA CommitEndsKeep ==
    ASSUME AccountInv, NEW c \in Clients, request[c].pc = "commit",
           NEW s \in {"active", "none"},
           account' = [account EXCEPT ![request[c].id] = s],
           Ends(c), UNCHANGED <<email, next, told, access, refresh>>
    PROVE  TypeOK' /\ RowRules' /\ KeepsSettled
<1> USE DEF AccountInv, RowRules
<1>type. /\ account \in [Ids -> {"none", "flushed", "active", "inactive", "removed"}]
         /\ request \in [Clients -> RequestState]
    BY DEF TypeOK, Answers, RequestState
<1>1. request[c].id \in Ids /\ account[request[c].id] = "flushed"
    BY DEF OwnRow
<1>2. /\ request'[c].pc = "idle" /\ request'[c] = Idle
      /\ \A d \in Clients : d # c => request'[d] = request[d]
    BY <1>type DEF Ends, Idle
<1>3. TypeOK'
  <2>1. request' \in [Clients -> RequestState]
      BY <1>type DEF RequestState, Ends, Idle
  <2>2. \A a \in Ids : account'[a] = "flushed" <=>
            \E d \in Clients : request'[d].pc = "commit" /\ request'[d].id = a
    <3>1. \A a \in Ids : a # request[c].id =>
              (account'[a] = "flushed" <=>
                 \E d \in Clients : request[d].pc = "commit" /\ request[d].id = a)
        BY <1>type DEF TypeOK, Answers, RequestState
    <3>2. \A d \in Clients : d # c => /\ request'[d].pc = request[d].pc
                                      /\ request'[d].id = request[d].id
        BY <1>2
    <3>3. account'[request[c].id] # "flushed"
        BY <1>type, <1>1
    <3>4. \A d \in Clients : request[d].pc = "commit" /\ request[d].id = request[c].id => d = c
        BY DEF OwnRow
    <3> QED BY <1>2, <3>1, <3>2, <3>3, <3>4
  <2> QED BY <1>type, <2>1, <2>2 DEF TypeOK, Answers, RequestState
<1>4. Unique' /\ NextIsFresh'
    BY <1>type, <1>1 DEF Unique, Indexed, NextIsFresh
<1>5. OwnRow'
    BY <1>type, <1>1, <1>2 DEF OwnRow
<1>6. KeepsSettled
    BY <1>type, <1>1 DEF KeepsSettled, Settled
<1> QED BY <1>3, <1>4, <1>5, <1>6

LEMMA AdministersKeeps ==
    ASSUME AccountInv, NEW a \in Ids, NEW s \in {"inactive", "removed"}, Administers(a, s)
    PROVE  TypeOK' /\ RowRules' /\ KeepsSettled
<1> USE DEF AccountInv, RowRules, Administers, Exists
<1>type. account \in [Ids -> {"none", "flushed", "active", "inactive", "removed"}]
    BY DEF TypeOK, Answers, RequestState
<1>1. TypeOK'
  <2>1. \A b \in Ids : account'[b] = "flushed" <=> account[b] = "flushed"
      BY <1>type
  <2> QED BY <1>type, <2>1 DEF TypeOK, Answers, RequestState
<1>2. Unique' /\ NextIsFresh' /\ OwnRow'
    BY <1>type DEF Unique, Indexed, NextIsFresh, OwnRow
<1>3. KeepsSettled
    BY <1>type DEF KeepsSettled, Settled
<1> QED BY <1>1, <1>2, <1>3

(***************************************************************************)
(* Answers and tokens                                                      *)
(***************************************************************************)

\* An answer about an account names one that was committed.
True(c) ==
    told[c].what \in {"exists", "conflict", "nobody"} =>
        \E a \in Ids : /\ email[a] = told[c].email /\ Settled(a)
                       /\ told[c].what = "nobody" => account[a] = "removed"

LEMMA TrueStays ==
    ASSUME KeepsSettled, NEW c \in Clients, told'[c] = told[c], True(c)
    PROVE  True(c)'
BY DEF True, KeepsSettled, Settled

\* A step that changes the answer of one client at most, and no token but by
\* letting it expire.
LEMMA AnswersKeep ==
    ASSUME AccountInv, KeepsSettled, NEW c \in Clients,
           \A d \in Clients : d # c => told'[d] = told[d],
           told'[c] = told[c] \/ True(c)',
           \A d \in Clients : /\ access'[d].live => access[d].live
                              /\ access'[d].id = access[d].id
    PROVE  TokensNameAccounts' /\ AnswersAreTrue'
<1>1. \A d \in Clients : True(d)
    BY DEF AccountInv, AnswersAreTrue, True, Settled
<1>2. \A d \in Clients : True(d)'
    BY <1>1, TrueStays
<1>3. AnswersAreTrue'
    BY <1>2 DEF AnswersAreTrue, True, Settled
<1>4. TokensNameAccounts'
    BY DEF AccountInv, TokensNameAccounts, KeepsSettled
<1> QED BY <1>3, <1>4

\* A new pair of tokens.
LEMMA HoldsKeeps ==
    ASSUME AccountInv, NEW c \in Clients, NEW a \in Ids, Exists(a), Holds(c, a)
    PROVE  AccountInv'
<1> USE DEF AccountInv, Holds, rowVars
<1>1. TypeOK'
    BY DEF TypeOK, Answers, RequestState, TokenOf
<1>2. RowRules'
    BY DEF RowRules, Unique, Indexed, NextIsFresh, OwnRow
<1>3. TokensNameAccounts'
    BY DEF TypeOK, Answers, RequestState, TokensNameAccounts, TokenOf, Exists, Settled
<1> QED BY <1>1, <1>2, <1>3 DEF AnswersAreTrue

\* Claims of a token.
Token == [id : Ids \cup {0}, live : BOOLEAN]

LEMMA Expired ==
    ASSUME NEW f \in [Clients -> Token], NEW c \in Clients,
           NEW g, g = [f EXCEPT ![c].live = FALSE]
    PROVE  /\ g \in [Clients -> Token]
           /\ \A d \in Clients : (g[d].live => f[d].live) /\ g[d].id = f[d].id
<1>1. PICK t \in Token : t = [f[c] EXCEPT !.live = FALSE] /\ ~t.live /\ t.id = f[c].id
  <2>1. f[c] \in [id : Ids \cup {0}, live : BOOLEAN]
      BY DEF Token
  <2>2. /\ [f[c] EXCEPT !.live = FALSE] \in [id : Ids \cup {0}, live : BOOLEAN]
        /\ ~[f[c] EXCEPT !.live = FALSE].live
        /\ [f[c] EXCEPT !.live = FALSE].id = f[c].id
      BY <2>1
  <2> QED BY <2>2 DEF Token
<1>2. g = [f EXCEPT ![c] = t]
    BY <1>1
<1>3. g \in [Clients -> Token]
    BY <1>2
<1>4. ASSUME NEW d \in Clients PROVE (g[d].live => f[d].live) /\ g[d].id = f[d].id
  <2>1. CASE d = c
    <3>1. g[d] = t
        BY <1>2, <2>1
    <3> QED BY <1>1, <2>1, <3>1
  <2>2. CASE d # c
    <3>1. g[d] = f[d]
        BY <1>2, <2>2
    <3> QED BY <3>1
  <2> QED BY <2>1, <2>2
<1> QED BY <1>3, <1>4

LEMMA ExpiresKeeps ==
    ASSUME AccountInv, NEW c \in Clients, AccessExpires(c) \/ RefreshExpires(c)
    PROVE  AccountInv'
<1> USE DEF AccountInv, rowVars
<1>1. UNCHANGED <<rowVars, request, told>>
    BY DEF AccessExpires, RefreshExpires
<1>2. TypeOK'
  <2>1. CASE AccessExpires(c)
    <3>1. access \in [Clients -> Token]
        BY DEF TypeOK, Answers, RequestState, Token
    <3>2. /\ access' = [access EXCEPT ![c].live = FALSE]
          /\ UNCHANGED <<rowVars, request, told, refresh>>
        BY <2>1 DEF AccessExpires
    <3>3. access' \in [Clients -> Token]
        BY <3>1, <3>2, Expired
    <3> QED BY <3>2, <3>3 DEF TypeOK, Answers, RequestState, Token
  <2>2. CASE RefreshExpires(c)
    <3>1. refresh \in [Clients -> Token]
        BY DEF TypeOK, Answers, RequestState, Token
    <3>2. /\ refresh' = [refresh EXCEPT ![c].live = FALSE]
          /\ UNCHANGED <<rowVars, request, told, access>>
        BY <2>2 DEF RefreshExpires
    <3>3. refresh' \in [Clients -> Token]
        BY <3>1, <3>2, Expired
    <3> QED BY <3>2, <3>3 DEF TypeOK, Answers, RequestState, Token
  <2> QED BY <2>1, <2>2
<1>3. RowRules' /\ KeepsSettled
    BY <1>1 DEF RowRules, Unique, Indexed, NextIsFresh, OwnRow, KeepsSettled, Settled
<1>4. \A d \in Clients : /\ access'[d].live => access[d].live
                         /\ access'[d].id = access[d].id
  <2>1. access \in [Clients -> Token]
      BY DEF TypeOK, Answers, RequestState, Token
  <2>2. access' = [access EXCEPT ![c].live = FALSE] \/ access' = access
      BY DEF AccessExpires, RefreshExpires
  <2> QED BY <2>1, <2>2, Expired
<1> QED BY <1>1, <1>2, <1>3, <1>4, AnswersKeep

LEMMA ClientStepKeeps ==
    ASSUME AccountInv, NEW c \in Clients, ClientStep(c)
    PROVE  AccountInv'
<1>type. /\ told \in [Clients -> Answers]
         /\ request \in [Clients -> RequestState]
         /\ email \in [Ids -> Emails \cup {NoEmail}]
    BY DEF AccountInv, TypeOK, Answers, RequestState
<1>idle. /\ Idle \in [pc : {"idle", "insert"}, email : Emails \cup {NoEmail}, id : Ids \cup {0}]
         /\ Idle.pc # "commit"
    BY DEF Idle
<1>answers. ASSUME TypeOK', RowRules', KeepsSettled, UNCHANGED <<access, refresh>>,
                   \A d \in Clients : d # c => told'[d] = told[d],
                   told'[c] = told[c] \/ True(c)'
            PROVE  AccountInv'
    BY <1>answers, AnswersKeep DEF AccountInv
<1>1. ASSUME NEW e \in Emails, RegisterChecks(c, e) PROVE AccountInv'
  <2>0. UNCHANGED <<rowVars, access, refresh>> /\ request[c] = Idle
      BY <1>1 DEF RegisterChecks
  <2>1. CASE \E a \in Ids : HasEmail(a, e)
    <3>1. told' = [told EXCEPT ![c] = [what |-> "exists", email |-> e]] /\ request' = request
        BY <1>1, <2>1 DEF RegisterChecks, Answer
    <3>2. request' = [request EXCEPT ![c] = Idle]
        BY <2>0, <3>1, <1>type
    <3>3. told' \in [Clients -> Answers]
        BY <3>1, <1>type DEF Answers
    <3>4. True(c)'
        BY <2>0, <2>1, <3>1, <1>type DEF True, HasEmail, Exists, Settled, rowVars
    <3>5. \A d \in Clients : d # c => told'[d] = told[d]
        BY <3>1, <1>type
    <3>6. TypeOK' /\ RowRules' /\ KeepsSettled
        BY <2>0, <3>2, <3>3, <1>idle, RequestsKeep
    <3> QED BY <2>0, <3>4, <3>5, <3>6, <1>answers
  <2>2. CASE ~\E a \in Ids : HasEmail(a, e)
    <3>1. /\ told' = [told EXCEPT ![c] = [what |-> "nothing", email |-> NoEmail]]
          /\ request' = [request EXCEPT ![c] = [Idle EXCEPT !.pc = "insert", !.email = e]]
        BY <1>1, <2>2 DEF RegisterChecks, Answer
    <3>2. told' \in [Clients -> Answers]
        BY <3>1, <1>type DEF Answers
    <3>3. True(c)' /\ \A d \in Clients : d # c => told'[d] = told[d]
        BY <3>1, <1>type DEF True
    <3>4. [Idle EXCEPT !.pc = "insert", !.email = e]
              \in [pc : {"idle", "insert"}, email : Emails \cup {NoEmail}, id : Ids \cup {0}]
        BY DEF Idle
    <3>5. TypeOK' /\ RowRules' /\ KeepsSettled
        BY <2>0, <3>1, <3>2, <3>4, <1>idle, RequestsKeep
    <3> QED BY <2>0, <3>3, <3>5, <1>answers
  <2> QED BY <2>1, <2>2
<1>2. ASSUME NEW e \in Emails, Login(c, e) PROVE AccountInv'
    BY <1>2, HoldsKeeps DEF Login, HasEmail
<1>3. CASE RegisterInserts(c)
  <2>1. told' = [told EXCEPT ![c] = [what |-> "created", email |-> request[c].email]]
      BY <1>3 DEF RegisterInserts, Answer
  <2>2. True(c)' /\ \A d \in Clients : d # c => told'[d] = told[d]
      BY <2>1, <1>type DEF True
  <2>3. UNCHANGED <<access, refresh>>
      BY <1>3 DEF RegisterInserts
  <2> QED BY <1>3, <2>2, <2>3, <1>answers, InsertsKeeps
<1>4. CASE RegisterConflicts(c)
  <2>1. /\ request[c].pc = "insert" /\ UNCHANGED <<rowVars, access, refresh>>
        /\ \E a \in Ids : HasEmail(a, request[c].email)
        /\ request' = [request EXCEPT ![c] = Idle]
        /\ told' = [told EXCEPT ![c] = [what |-> "conflict", email |-> request[c].email]]
      BY <1>4 DEF RegisterConflicts, Ends, Answer
  <2>2. told' \in [Clients -> Answers]
      BY <2>1, <1>type DEF Answers, RequestState
  <2>3. True(c)'
      BY <2>1, <1>type DEF True, HasEmail, Exists, Settled, rowVars
  <2>4. \A d \in Clients : d # c => told'[d] = told[d]
      BY <2>1, <1>type
  <2> QED BY <2>1, <2>2, <2>3, <2>4, <1>answers, RequestsKeep DEF Idle
<1>5. CASE Commits(c)
    BY <1>5, <1>answers, CommitEndsKeep DEF Commits
<1>6. CASE RegisterFails(c)
  <2>1. CASE request[c].pc = "commit"
      BY <1>6, <2>1, <1>answers, CommitEndsKeep DEF RegisterFails
  <2>2. CASE request[c].pc # "commit"
    <3>1. /\ UNCHANGED <<rowVars, access, refresh>>
          /\ request' = [request EXCEPT ![c] = Idle]
          /\ told' = [told EXCEPT ![c] = [what |-> "error", email |-> request[c].email]]
        BY <1>6, <2>2 DEF RegisterFails, Ends, Answer, rowVars
    <3>2. told' \in [Clients -> Answers]
        BY <3>1, <1>type DEF Answers, RequestState
    <3>3. True(c)' /\ \A d \in Clients : d # c => told'[d] = told[d]
        BY <3>1, <1>type DEF True
    <3> QED BY <2>2, <3>1, <3>2, <3>3, <1>answers, RequestsKeep DEF Idle
  <2> QED BY <2>1, <2>2
<1>7. CASE Refreshes(c)
    BY <1>7, HoldsKeeps DEF Refreshes, Exists
<1>8. CASE Me(c)
  <2> PICK e \in Emails \cup {NoEmail} : e = email[access[c].id] /\ access[c].id \in Ids
                                         /\ Settled(access[c].id)
      BY <1>8, <1>type DEF Me, DecodesAccess, Decodes, AccountInv, TokensNameAccounts
  <2>1. /\ told' = [told EXCEPT ![c] = [what |-> Profile(e), email |-> e]]
        /\ request[c] = Idle /\ UNCHANGED <<rowVars, request, access, refresh>>
      BY <1>8 DEF Me, Answer, CurrentUserEmail
  <2>2. request' = [request EXCEPT ![c] = Idle]
      BY <2>1, <1>type
  <2>3. told' \in [Clients -> Answers]
      BY <2>1, <1>type DEF Profile, Answers
  <2>4. True(c)'
    <3>1. Profile(e) = "nobody" => account[access[c].id] = "removed"
        BY DEF Profile, HasEmail, Exists, Settled
    <3>2. told'[c].what = Profile(e) /\ told'[c].email = e
        BY <2>1, <1>type
    <3>3. Profile(e) \in {"profile", "nobody"}
        BY DEF Profile
    <3> QED BY <2>1, <3>1, <3>2, <3>3 DEF True, Settled, rowVars
  <2>5. \A d \in Clients : d # c => told'[d] = told[d]
      BY <2>1, <1>type
  <2>6. TypeOK' /\ RowRules' /\ KeepsSettled
      BY <2>1, <2>2, <2>3, <1>idle, RequestsKeep
  <2> QED BY <2>1, <2>4, <2>5, <2>6, <1>answers
<1>9. CASE AccessExpires(c) \/ RefreshExpires(c)
    BY <1>9, ExpiresKeeps
<1> QED BY <1>1, <1>2, <1>3, <1>4, <1>5, <1>6, <1>7, <1>8, <1>9 DEF ClientStep

LEMMA AccountInvInit == Init => AccountInv
<1> SUFFICES ASSUME Init PROVE AccountInv
    OBVIOUS
<1>1. RowRules
    BY DEF Init, RowRules, Unique, Indexed, NextIsFresh, OwnRow, Idle
<1>2. TokensNameAccounts /\ AnswersAreTrue
    BY DEF Init, TokensNameAccounts, AnswersAreTrue, NoToken
<1> QED BY <1>1, <1>2, AccountInitType DEF AccountInv

LEMMA AccountInvStep == AccountInv /\ [Next]_vars => AccountInv'
<1> SUFFICES ASSUME AccountInv, [Next]_vars PROVE AccountInv'
    OBVIOUS
<1>1. ASSUME NEW a \in Ids, NEW s \in {"inactive", "removed"}, Administers(a, s)
      PROVE  AccountInv'
  <2>1. UNCHANGED <<told, access>>
      BY <1>1 DEF Administers
  <2>2. \A c \in Clients : True(c)
      BY DEF AccountInv, AnswersAreTrue, True, Settled
  <2>3. TypeOK' /\ RowRules' /\ KeepsSettled
      BY <1>1, AdministersKeeps
  <2>4. AnswersAreTrue'
      BY <2>1, <2>2, <2>3, TrueStays DEF AnswersAreTrue, True, Settled
  <2>5. TokensNameAccounts'
      BY <2>1, <2>3 DEF AccountInv, TokensNameAccounts, KeepsSettled
  <2> QED BY <2>3, <2>4, <2>5 DEF AccountInv
<1>2. CASE UNCHANGED vars
    BY <1>2 DEF vars, rowVars, AccountInv, TypeOK, RowRules, Unique, Indexed, NextIsFresh,
       OwnRow, TokensNameAccounts, Settled, AnswersAreTrue
<1> QED BY <1>1, <1>2, ClientStepKeeps DEF Next

LEMMA AccountInvCorrect == Spec => []AccountInv
BY AccountInvInit, AccountInvStep, PTL DEF Spec

\* Two registrations that both found the email free do not both get an account:
\* every account is the one its email finds.
THEOREM OneAccountPerEmailCorrect == Spec => []OneAccountPerEmail
<1>1. AccountInv => OneAccountPerEmail
    BY DEF AccountInv, RowRules, Unique, Indexed, OneAccountPerEmail, HasEmail, Exists
<1> QED BY <1>1, AccountInvCorrect, PTL

\* Behind every 409 and every constraint violation there is an account that was
\* committed, and a client with a good token is nobody only after a removal.
THEOREM AnswersAreTrueCorrect == Spec => []AnswersAreTrue
BY AccountInvCorrect, PTL DEF AccountInv
=============================================================================
