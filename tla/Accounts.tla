------------------------------ MODULE Accounts ------------------------------
(***************************************************************************)
(* The accounts of the users: signup, UserService, AdminUserService, and   *)
(* the look-up of the account by signin and refreshToken.  The e-mail has  *)
(* a unique index over all rows, deleted ones included, while every        *)
(* look-up is confined to live rows.  Withdrawal ends no session.          *)
(***************************************************************************)
EXTENDS Calls

CONSTANTS
    Accounts,
    Emails

Statuses == {"ACTIVE", "INACTIVE", "WITHDRAWN"}
NoEmail == "no email"

VARIABLES
    accLive,  \* accounts with isDeleted = false
    accGone,  \* accounts with isDeleted = true
    email,    \* column email
    status,   \* column status
    accCall,  \* per call, what it does and what it has found
    accLate   \* per account, what calls wrote to it, or signed in, after its deletion

accVars == <<accLive, accGone, email, status, accCall, accLate>>

Held(e, except) == \E a \in (accLive \cup accGone) \ except : email[a] = e

AccountsInit ==
    /\ accLive = {}
    /\ accGone = {}
    /\ email = [a \in Accounts |-> NoEmail]
    /\ status = [a \in Accounts |-> "ACTIVE"]
    /\ accCall = [q \in Calls |-> Idle]
    /\ accLate = [a \in Accounts |-> 0]

AccountCall(q, c) == accCall' = [accCall EXCEPT ![q] = c]
LateFor(a) == accLate' = IF a \in accGone THEN [accLate EXCEPT ![a] = @ + 1] ELSE accLate

-----------------------------------------------------------------------------
(* signup *)

\* existsByEmail looks at live rows only; with one the answer is
\* ALREADY_EXISTS_EMAIL.  The password is hashed before the insert.
ExistsByEmail(q) ==
    /\ accCall[q] = Idle
    /\ \E e \in Emails :
         /\ ~ \E a \in accLive : email[a] = e
         /\ AccountCall(q, [op |-> "create", to |-> e])
    /\ UNCHANGED <<accLive, accGone, email, status, accLate>>

\* The unique index rejects the e-mail of any other row, deleted or not: the
\* caller is answered a server error (AbandonAccount).
CreateUser(q) ==
    /\ accCall[q].op = "create"
    /\ ~ Held(accCall[q].to, {})
    /\ \E a \in Accounts \ (accLive \cup accGone) :
         /\ accLive' = accLive \cup {a}
         /\ email' = [email EXCEPT ![a] = accCall[q].to]
    /\ AccountCall(q, Idle)
    /\ UNCHANGED <<accGone, status, accLate>>

-----------------------------------------------------------------------------
(* Handlers that find a live account and act on its id later *)

Intents ==
    {<<"signin", "">>, <<"withdraw", "">>, <<"updatePassword", "">>} \cup
    ({"update"} \X Emails) \cup ({"updateStatus"} \X Statuses)

\* Mutant: the look-up by id does not leave deleted accounts out.
FindAccountDeletedToo(q) ==
    /\ accCall[q] = Idle
    /\ \E a \in accLive \cup accGone, i \in Intents :
         AccountCall(q, [op |-> i[1], account |-> a, to |-> i[2]])
    /\ UNCHANGED <<accLive, accGone, email, status, accLate>>

\* findById, findByEmail; without a row the answer is NOT_FOUND.
FindAccount(q) ==
    /\ accCall[q] = Idle
    /\ \E a \in accLive, i \in Intents :
         AccountCall(q, [op |-> i[1], account |-> a, to |-> i[2]])
    /\ UNCHANGED <<accLive, accGone, email, status, accLate>>

ActOnAccount(q, op) ==
    /\ accCall[q].op = op
    /\ AccountCall(q, Idle)
    /\ LateFor(accCall[q].account)

\* A session of signin or refreshToken; Sessions says what becomes of it.
IssueTokens(q) ==
    /\ ActOnAccount(q, "signin")
    /\ UNCHANGED <<accLive, accGone, email, status>>

UpdatePassword(q) ==
    /\ ActOnAccount(q, "updatePassword")
    /\ UNCHANGED <<accLive, accGone, email, status>>

\* updateMe writes the e-mail of the dto; the index rejects that of another row.
UpdateEmail(q) ==
    LET c == accCall[q] IN
    /\ ActOnAccount(q, "update")
    /\ ~ Held(c.to, {c.account})
    /\ email' = [email EXCEPT ![c.account] = c.to]
    /\ UNCHANGED <<accLive, accGone, status>>

\* updateUserStatus of the admin application: any status of the enum.
UpdateStatus(q) ==
    LET c == accCall[q] IN
    /\ ActOnAccount(q, "updateStatus")
    /\ status' = [status EXCEPT ![c.account] = c.to]
    /\ UNCHANGED <<accLive, accGone, email>>

\* Mutant: the status is left as it was.
SoftDeleteKeepsStatus(q) ==
    LET c == accCall[q] IN
    /\ ActOnAccount(q, "withdraw")
    /\ accLive' = accLive \ {c.account}
    /\ accGone' = accGone \cup {c.account}
    /\ UNCHANGED <<email, status>>

\* withdraw, and deleteUser of the admin application.
SoftDeleteAccount(q) ==
    LET c == accCall[q] IN
    /\ ActOnAccount(q, "withdraw")
    /\ accLive' = accLive \ {c.account}
    /\ accGone' = accGone \cup {c.account}
    /\ status' = [status EXCEPT ![c.account] = "WITHDRAWN"]
    /\ UNCHANGED <<email>>

\* A query rejects, or the process dies.
AbandonAccount(q) ==
    /\ accCall[q] # Idle
    /\ AccountCall(q, Idle)
    /\ UNCHANGED <<accLive, accGone, email, status, accLate>>

AccountsNext ==
    \E q \in Calls :
      \/ ExistsByEmail(q) \/ CreateUser(q) \/ FindAccount(q)
      \/ IssueTokens(q) \/ UpdatePassword(q) \/ UpdateEmail(q) \/ UpdateStatus(q)
      \/ SoftDeleteAccount(q) \/ AbandonAccount(q)

AccountsSpec == AccountsInit /\ [][AccountsNext]_accVars

-----------------------------------------------------------------------------
(* Properties *)

AccountRows == INSTANCE SoftDeleted WITH
    Rows <- Accounts, MaxLate <- Others,
    live <- accLive, gone <- accGone, late <- accLate

\* The accounts are soft-deleted rows: after a withdrawal only calls that had
\* found the account before still write to it or get tokens for it.
AccountsAreSoftDeleted == AccountRows!Spec

\* A deleted account is WITHDRAWN, unless a call that had found it before wrote to it
\* after the deletion (of the late writes only updateUserStatus sets a status).
WithdrawnUnlessLate ==
    \A a \in accGone : status[a] # "WITHDRAWN" => accLate[a] > 0

=============================================================================
