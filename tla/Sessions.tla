------------------------------- MODULE Sessions -------------------------------
(***************************************************************************)
(* The sessions of one account: AuthService over TokenService.  Accounts   *)
(* share no key and no row, so one account stands for all; an account of   *)
(* the admin application only signs in, refreshes and signs out.           *)
(*                                                                         *)
(* A session is known by its jti, and a request mints at most one: the     *)
(* name of the request stands for the jti it mints, and for the reset      *)
(* token it mints.  The access tokens are stateless and left out.          *)
(***************************************************************************)
EXTENDS Integers, FiniteSets

CONSTANTS
    Requests,
    Guarded,     \* whether refreshToken is reached through JwtRefreshGuard
    SessionTtl,  \* jwtRefreshTokenTtl
    ResetTtl,    \* PASSWORD_RESET_TOKEN_TTL
    MaxTime,     \* bound: the clock stops here
    MaxFaults    \* bound: failed commands and restarts

ASSUME SessionAssumption ==
    /\ Guarded \in BOOLEAN
    /\ SessionTtl \in Nat \ {0}
    /\ ResetTtl \in Nat \ {0}
    /\ MaxTime \in Nat
    /\ MaxFaults \in Nat

VARIABLES
    now,
    keyExpiry,   \* per session, when its key rt:<owner>:<id>:<jti> expires
    tokens,      \* the set <owner>:<id>:tokens
    listExpiry,  \* when that set expires
    rows,        \* the sessions with a row in the table token
    resetExpiry, \* per reset token, when its key expires
    op,          \* per request, the handler
    pc,          \* per request, the await it is at
    arg,         \* per request, the refresh or reset token it presents
    jwtExpiry,   \* per session, the exp claim of its refresh token
    jtis,        \* per request, the result of smembers
    todo,        \* per request, the commands it has sent and awaits
    changedBy,   \* the reset tokens that have changed the password
    earlier,     \* per reset, the sessions that had been answered when it read the set
    overlapped,  \* the sessions saved while a deleteAllRefreshTokens was under way
    undeleted,   \* the sessions whose key a failed or lost del has left
    faults

redisVars == <<keyExpiry, tokens, listExpiry, resetExpiry>>
requestVars == <<op, arg, jwtExpiry, jtis>>
localVars == <<requestVars, pc, todo>>
historyVars == <<changedBy, earlier, overlapped, undeleted>>
vars == <<now, redisVars, rows, localVars, historyVars, faults>>

Operations == {"signin", "signout", "refreshToken", "requestPasswordReset", "resetPassword"}
None == "none"
Forever == MaxTime + SessionTtl + 1
Ended == {"ok", "error", "refused", "lost"}
Awaits == {"create", "save", "saveError", "getToken", "endOne", "delResetToken",
           "updatePassword", "smembers", "endAll"}

Live == {j \in Requests : keyExpiry[j] > now}
Members == IF listExpiry > now THEN tokens ELSE {}
Answered == {j \in Requests : op[j] \in {"signin", "refreshToken"} /\ pc[j] = "ok"}

TypeOK ==
    /\ now \in 0..MaxTime
    /\ keyExpiry \in [Requests -> 0..MaxTime + SessionTtl]
    /\ tokens \subseteq Requests
    /\ listExpiry \in 0..Forever
    /\ rows \subseteq Requests
    /\ resetExpiry \in [Requests -> 0..MaxTime + ResetTtl]
    /\ op \in [Requests -> Operations \cup {None}]
    /\ pc \in [Requests -> Awaits \cup Ended \cup {"new"}]
    /\ arg \in [Requests -> Requests \cup {None}]
    /\ jwtExpiry \in [Requests -> 0..MaxTime + SessionTtl]
    /\ jtis \in [Requests -> SUBSET Requests]
    /\ todo \in [Requests -> SUBSET {"key", "list", "expire", "row"}]
    /\ changedBy \subseteq Requests
    /\ earlier \in [Requests -> SUBSET Requests]
    /\ overlapped \subseteq Requests
    /\ undeleted \subseteq Requests
    /\ faults \in 0..MaxFaults

Init ==
    /\ now = 0
    /\ keyExpiry = [j \in Requests |-> 0]
    /\ tokens = {}
    /\ listExpiry = 0
    /\ rows = {}
    /\ resetExpiry = [t \in Requests |-> 0]
    /\ op = [r \in Requests |-> None]
    /\ pc = [r \in Requests |-> "new"]
    /\ arg = [r \in Requests |-> None]
    /\ jwtExpiry = [j \in Requests |-> 0]
    /\ jtis = [r \in Requests |-> {}]
    /\ todo = [r \in Requests |-> {}]
    /\ changedBy = {}
    /\ earlier = [r \in Requests |-> {}]
    /\ overlapped = {}
    /\ undeleted = {}
    /\ faults = 0

-----------------------------------------------------------------------------
(* What the handlers begin with *)

Begin(r, handler, presented, await) ==
    /\ pc[r] = "new"
    /\ op' = [op EXCEPT ![r] = handler]
    /\ arg' = [arg EXCEPT ![r] = presented]
    /\ pc' = [pc EXCEPT ![r] = await]

\* The user is found and the password matches; otherwise nothing happens.
SignIn(r) ==
    /\ Begin(r, "signin", None, "create")
    /\ UNCHANGED <<now, redisVars, rows, jwtExpiry, jtis, todo, historyVars, faults>>

\* verify refuses a token that has expired; deleteRefreshToken sends its three
\* commands at once.
SignOut(r) ==
    \E t \in Answered :
      /\ Begin(r, "signout", t, IF jwtExpiry[t] > now THEN "endOne" ELSE "refused")
      /\ todo' = [todo EXCEPT ![r] = IF jwtExpiry[t] > now THEN {"key", "list", "row"} ELSE {}]
      /\ UNCHANGED <<now, redisVars, rows, jwtExpiry, jtis, historyVars, faults>>

\* JwtRefreshStrategy asks for rt:<jti>, the service for rt:<owner>:<id>:<jti>.
StoredKeys == {<<"rt", "owner", "id", j>> : j \in Live}
GuardAdmits(t) == Guarded => <<"rt", t>> \in StoredKeys

Refresh(r) ==
    \E t \in Answered :
      /\ Begin(r, "refreshToken", t,
               IF GuardAdmits(t) /\ jwtExpiry[t] > now THEN "getToken" ELSE "refused")
      /\ UNCHANGED <<now, redisVars, rows, jwtExpiry, jtis, todo, historyVars, faults>>

\* The rate limits let the request through and the user exists.
RequestPasswordReset(r) ==
    /\ Begin(r, "requestPasswordReset", None, "ok")
    /\ resetExpiry' = [resetExpiry EXCEPT ![r] = now + ResetTtl]
    /\ UNCHANGED <<now, keyExpiry, tokens, listExpiry, rows, jwtExpiry, jtis, todo,
                   historyVars, faults>>

\* A token of a mail; get finds its key or the request is refused.
ResetPassword(r) ==
    \E t \in Requests :
      /\ op[t] = "requestPasswordReset" /\ pc[t] = "ok"
      /\ Begin(r, "resetPassword", t, IF resetExpiry[t] > now THEN "delResetToken" ELSE "refused")
      /\ UNCHANGED <<now, redisVars, rows, jwtExpiry, jtis, todo, historyVars, faults>>

-----------------------------------------------------------------------------
(* saveRefreshToken *)

\* Mutant: a refresh keeps the jti of the token it was given.
MintedFromPayload(r) == IF op[r] = "refreshToken" THEN arg[r] ELSE r

\* The jti that the request mints: a new UUID.
Minted(r) == r

\* The tokens are signed, then createRefreshTokenInDB commits.
CreateRow(r) ==
    /\ pc[r] = "create"
    /\ rows' = rows \cup {Minted(r)}
    /\ jwtExpiry' = [jwtExpiry EXCEPT ![Minted(r)] = now + SessionTtl]
    /\ pc' = [pc EXCEPT ![r] = "save"]
    /\ todo' = [todo EXCEPT ![r] = {"key", "list"}]
    /\ overlapped' = IF \E x \in Requests : pc[x] = "endAll"
                     THEN overlapped \cup {Minted(r)} ELSE overlapped
    /\ UNCHANGED <<now, redisVars, op, arg, jtis, changedBy, earlier, undeleted, faults>>

Saving(r) == pc[r] \in {"save", "saveError"}

\* Mutant: the time to live is counted in another unit.
SetKeyUnits(r) ==
    /\ Saving(r)
    /\ "key" \in todo[r]
    /\ keyExpiry' = [keyExpiry EXCEPT ![Minted(r)] = now + 2 * SessionTtl]
    /\ todo' = [todo EXCEPT ![r] = @ \ {"key"}]
    /\ UNCHANGED <<now, tokens, listExpiry, rows, resetExpiry, requestVars, pc, historyVars,
                   faults>>

SetKey(r) ==
    /\ Saving(r)
    /\ "key" \in todo[r]
    /\ keyExpiry' = [keyExpiry EXCEPT ![Minted(r)] = now + SessionTtl]
    /\ todo' = [todo EXCEPT ![r] = @ \ {"key"}]
    /\ UNCHANGED <<now, tokens, listExpiry, rows, resetExpiry, requestVars, pc, historyVars,
                   faults>>

\* sadd, on the same connection after the key; pexpire follows for a new member.  A
\* set that sadd creates has no expiry.
AddToken(r) ==
    /\ Saving(r)
    /\ "list" \in todo[r] /\ "key" \notin todo[r]
    /\ tokens' = Members \cup {Minted(r)}
    /\ listExpiry' = IF Members = {} THEN Forever ELSE listExpiry
    /\ todo' = [todo EXCEPT ![r] = IF Minted(r) \in Members THEN @ \ {"list"}
                                   ELSE (@ \ {"list"}) \cup {"expire"}]
    /\ UNCHANGED <<now, keyExpiry, rows, resetExpiry, requestVars, pc, historyVars, faults>>

\* Mutant: the expiry is set once, when the set is created.
ExpireTokensOnce(r) ==
    /\ Saving(r)
    /\ "expire" \in todo[r]
    /\ listExpiry' = IF listExpiry = Forever THEN now + SessionTtl ELSE listExpiry
    /\ todo' = [todo EXCEPT ![r] = @ \ {"expire"}]
    /\ UNCHANGED <<now, keyExpiry, tokens, rows, resetExpiry, requestVars, pc, historyVars,
                   faults>>

\* pexpire of a set that is gone does nothing.
ExpireTokens(r) ==
    /\ Saving(r)
    /\ "expire" \in todo[r]
    /\ listExpiry' = IF Members = {} THEN listExpiry ELSE now + SessionTtl
    /\ todo' = [todo EXCEPT ![r] = @ \ {"expire"}]
    /\ UNCHANGED <<now, keyExpiry, tokens, rows, resetExpiry, requestVars, pc, historyVars,
                   faults>>

\* Promise.all: the client gets its tokens when every command has succeeded.
AnswerSave(r) ==
    /\ Saving(r)
    /\ todo[r] = {}
    /\ pc' = [pc EXCEPT ![r] = IF pc[r] = "save" THEN "ok" ELSE "error"]
    /\ UNCHANGED <<now, redisVars, rows, requestVars, todo, historyVars, faults>>

-----------------------------------------------------------------------------
(* refreshToken and deleteRefreshToken *)

GetToken(r) ==
    /\ pc[r] = "getToken"
    /\ IF arg[r] \in Live
       THEN /\ pc' = [pc EXCEPT ![r] = "endOne"]
            /\ todo' = [todo EXCEPT ![r] = {"key", "list", "row"}]
       ELSE /\ pc' = [pc EXCEPT ![r] = "refused"]
            /\ UNCHANGED todo
    /\ UNCHANGED <<now, redisVars, rows, requestVars, historyVars, faults>>

DeleteKey(r) ==
    /\ pc[r] = "endOne"
    /\ "key" \in todo[r]
    /\ keyExpiry' = [keyExpiry EXCEPT ![arg[r]] = 0]
    /\ todo' = [todo EXCEPT ![r] = @ \ {"key"}]
    /\ UNCHANGED <<now, tokens, listExpiry, rows, resetExpiry, requestVars, pc, historyVars,
                   faults>>

\* srem, on the same connection after del.
RemoveToken(r) ==
    /\ pc[r] = "endOne"
    /\ "list" \in todo[r] /\ "key" \notin todo[r]
    /\ tokens' = tokens \ {arg[r]}
    /\ todo' = [todo EXCEPT ![r] = @ \ {"list"}]
    /\ UNCHANGED <<now, keyExpiry, listExpiry, rows, resetExpiry, requestVars, pc,
                   historyVars, faults>>

DeleteRow(r) ==
    /\ pc[r] = "endOne"
    /\ "row" \in todo[r]
    /\ rows' = rows \ {arg[r]}
    /\ todo' = [todo EXCEPT ![r] = @ \ {"row"}]
    /\ UNCHANGED <<now, redisVars, requestVars, pc, historyVars, faults>>

\* Promise.allSettled: whatever became of the three commands.
SettleOne(r) ==
    /\ pc[r] = "endOne"
    /\ todo[r] = {}
    /\ pc' = [pc EXCEPT ![r] = IF op[r] = "signout" THEN "ok" ELSE "create"]
    /\ UNCHANGED <<now, redisVars, rows, requestVars, todo, historyVars, faults>>

-----------------------------------------------------------------------------
(* resetPassword and deleteAllRefreshTokens *)

\* Mutant: the command is sent and its failure ignored.
DeleteResetTokenUnsafe(r) ==
    /\ pc[r] = "delResetToken"
    /\ \E fails \in BOOLEAN :
         /\ fails => faults < MaxFaults
         /\ faults' = IF fails THEN faults + 1 ELSE faults
         /\ resetExpiry' = IF fails THEN resetExpiry ELSE [resetExpiry EXCEPT ![arg[r]] = 0]
    /\ pc' = [pc EXCEPT ![r] = "updatePassword"]
    /\ UNCHANGED <<now, keyExpiry, tokens, listExpiry, rows, requestVars, todo,
                   historyVars>>

DeleteResetToken(r) ==
    /\ pc[r] = "delResetToken"
    /\ resetExpiry' = [resetExpiry EXCEPT ![arg[r]] = 0]
    /\ pc' = [pc EXCEPT ![r] = "updatePassword"]
    /\ UNCHANGED <<now, keyExpiry, tokens, listExpiry, rows, requestVars, todo, historyVars,
                   faults>>

UpdatePassword(r) ==
    /\ pc[r] = "updatePassword"
    /\ changedBy' = changedBy \cup {arg[r]}
    /\ pc' = [pc EXCEPT ![r] = "smembers"]
    /\ UNCHANGED <<now, redisVars, rows, requestVars, todo, earlier, overlapped, undeleted,
                   faults>>

\* Mutant: the set is deleted before it is read.
ReadDeletedTokens(r) ==
    /\ pc[r] = "smembers"
    /\ tokens' = {}
    /\ todo' = [todo EXCEPT ![r] = {"key", "row"}]
    /\ pc' = [pc EXCEPT ![r] = "endAll"]
    /\ earlier' = [earlier EXCEPT ![r] = Answered]
    /\ overlapped' = overlapped \cup {x \in Requests : Saving(x)}
    /\ UNCHANGED <<now, keyExpiry, listExpiry, resetExpiry, rows, requestVars, changedBy,
                   undeleted, faults>>

\* smembers; then every command is sent at once.
ReadTokens(r) ==
    /\ pc[r] = "smembers"
    /\ jtis' = [jtis EXCEPT ![r] = Members]
    /\ todo' = [todo EXCEPT ![r] = {"list", "key", "row"}]
    /\ pc' = [pc EXCEPT ![r] = "endAll"]
    /\ earlier' = [earlier EXCEPT ![r] = Answered]
    /\ overlapped' = overlapped \cup {x \in Requests : Saving(x)}
    /\ UNCHANGED <<now, redisVars, rows, op, arg, jwtExpiry, changedBy, undeleted, faults>>

DeleteTokens(r) ==
    /\ pc[r] = "endAll"
    /\ "list" \in todo[r]
    /\ tokens' = {}
    /\ todo' = [todo EXCEPT ![r] = @ \ {"list"}]
    /\ UNCHANGED <<now, keyExpiry, listExpiry, rows, resetExpiry, requestVars, pc,
                   historyVars, faults>>

\* The dels of the keys follow on the same connection; those in `failed` reject.
DeleteKeys(r, failed) ==
    /\ pc[r] = "endAll"
    /\ "key" \in todo[r] /\ "list" \notin todo[r]
    /\ keyExpiry' = [j \in Requests |-> IF j \in jtis[r] \ failed THEN 0 ELSE keyExpiry[j]]
    /\ undeleted' = undeleted \cup failed
    /\ todo' = [todo EXCEPT ![r] = @ \ {"key"}]
    /\ UNCHANGED <<now, tokens, listExpiry, rows, resetExpiry, requestVars, pc, changedBy,
                   earlier, overlapped>>

DeleteRows(r) ==
    /\ pc[r] = "endAll"
    /\ "row" \in todo[r]
    /\ rows' = {}
    /\ todo' = [todo EXCEPT ![r] = @ \ {"row"}]
    /\ UNCHANGED <<now, redisVars, requestVars, pc, historyVars, faults>>

\* Promise.allSettled, and the mail, whose failure changes nothing any more.
SettleAll(r) ==
    /\ pc[r] = "endAll"
    /\ todo[r] = {}
    /\ pc' = [pc EXCEPT ![r] = "ok"]
    /\ UNCHANGED <<now, redisVars, rows, requestVars, todo, historyVars, faults>>

-----------------------------------------------------------------------------
(* Failures and time *)

\* A query or command that the handler awaits alone rejects: the request fails.  Before
\* the first write that leaves no trace.
AwaitFails(r) ==
    /\ pc[r] \in {"create", "getToken", "delResetToken", "updatePassword", "smembers"}
    /\ pc' = [pc EXCEPT ![r] = "error"]
    /\ UNCHANGED <<now, redisVars, rows, requestVars, todo, historyVars>>

\* One of the commands sent together rejects.
CommandFails(r) ==
    /\ \E command \in todo[r] :
         /\ ~(pc[r] = "endAll" /\ command = "key")
         /\ todo' = [todo EXCEPT ![r] = @ \ {command}]
         /\ undeleted' = IF pc[r] = "endOne" /\ command = "key"
                         THEN undeleted \cup {arg[r]} ELSE undeleted
    /\ pc' = [pc EXCEPT ![r] = IF Saving(r) THEN "saveError" ELSE @]
    /\ UNCHANGED <<now, redisVars, rows, requestVars, changedBy, earlier, overlapped>>

\* The sessions that the request was about to delete.
Ending(r) ==
    IF "key" \notin todo[r] THEN {}
    ELSE IF pc[r] = "endOne" THEN {arg[r]}
    ELSE IF pc[r] = "endAll" THEN jtis[r]
    ELSE {}

\* The process dies: what its requests have not sent is not sent any more.
Restart ==
    /\ \E r \in Requests : pc[r] \in Awaits
    /\ pc' = [r \in Requests |-> IF pc[r] \in Awaits THEN "lost" ELSE pc[r]]
    /\ todo' = [r \in Requests |-> {}]
    /\ undeleted' = undeleted \cup UNION {Ending(r) : r \in Requests}
    /\ UNCHANGED <<now, redisVars, rows, requestVars, changedBy, earlier, overlapped>>

Fault ==
    /\ faults < MaxFaults
    /\ faults' = faults + 1
    /\ \/ \E r \in Requests :
            \/ AwaitFails(r)
            \/ CommandFails(r)
            \/ \E failed \in SUBSET jtis[r] \ {{}} : DeleteKeys(r, failed)
       \/ Restart

\* A unit of time is far longer than a request.
Tick ==
    /\ now < MaxTime
    /\ \A r \in Requests : pc[r] \notin Awaits
    /\ now' = now + 1
    /\ UNCHANGED <<redisVars, rows, localVars, historyVars, faults>>

-----------------------------------------------------------------------------
Handler(r) ==
    \/ SignIn(r) \/ SignOut(r) \/ Refresh(r)
    \/ RequestPasswordReset(r) \/ ResetPassword(r)

Save(r) ==
    \/ CreateRow(r) \/ SetKey(r) \/ AddToken(r) \/ ExpireTokens(r) \/ AnswerSave(r)

EndOne(r) ==
    \/ GetToken(r) \/ DeleteKey(r) \/ RemoveToken(r) \/ DeleteRow(r) \/ SettleOne(r)

EndAll(r) ==
    \/ DeleteResetToken(r) \/ UpdatePassword(r) \/ ReadTokens(r)
    \/ DeleteTokens(r) \/ (DeleteKeys(r, {}) /\ UNCHANGED faults) \/ DeleteRows(r)
    \/ SettleAll(r)

Next ==
    \/ \E r \in Requests : Handler(r) \/ Save(r) \/ EndOne(r) \/ EndAll(r)
    \/ Fault
    \/ Tick

Spec == Init /\ [][Next]_vars

-----------------------------------------------------------------------------
(* Properties *)

\* resetPassword deletes the reset token before it changes the password, so that a
\* token that has changed it is never found again, whatever fails or restarts.
ResetTokenSpent ==
    \A t \in changedBy : resetExpiry[t] <= now

\* A session that a sign-out has ended or a refresh has replaced is not usable when
\* the client gets its answer or the new session is stored, and never again; only a
\* del that failed leaves it, which deleteRefreshToken does not report.
EndedStaysEnded ==
    \A r \in Requests :
      (op[r] = "signout" /\ pc[r] = "ok") \/ (op[r] = "refreshToken" /\ (Saving(r) \/ pc[r] = "ok"))
        => arg[r] \notin Live \ undeleted

\* The set of a user's sessions does not expire before their keys and names every
\* session a client has, so that a reset finds it, and so does the table: but for
\* the sessions saved during a reset, which stay unknown to it for good.
SessionsTracked ==
    \A j \in Answered \cap Live :
      \/ j \in Members \cap rows
      \/ j \in overlapped \cup undeleted
      \/ \E r \in Requests : j \in Ending(r)

\* resetPassword signs out all devices: of the sessions answered before it read the
\* set none is left when it is done, but for those saved during another reset and
\* those that a request still under way is about to delete.
ResetEndsSessions ==
    \A r \in Requests :
      op[r] = "resetPassword" /\ pc[r] = "ok"
        => earlier[r] \cap Live \subseteq
             overlapped \cup undeleted \cup UNION {Ending(x) : x \in Requests}

\* A refresh is refused only when the session has been ended or has expired.
RefusedOnlyIfEnded ==
    [][\A r \in Requests :
         op'[r] = "refreshToken" /\ pc'[r] = "refused" /\ pc[r] # "refused"
           => arg'[r] \notin Live]_vars

-----------------------------------------------------------------------------
(* What makes the invariants inductive *)

\* A reset token is minted once, by a request that has left "new" for good.
ResetTracked ==
    /\ \A t \in changedBy : pc[t] # "new"
    /\ \A r \in Requests :
         /\ pc[r] \in {"delResetToken", "updatePassword"}
              => arg[r] \in Requests /\ pc[arg[r]] # "new"
         /\ pc[r] = "updatePassword" => resetExpiry[arg[r]] <= now

\* The request is past the del of the key it presented.
PastDel(r) ==
    \/ pc[r] = "endOne" /\ "key" \notin todo[r]
    \/ op[r] = "signout" /\ pc[r] = "ok"
    \/ op[r] = "refreshToken" /\ (pc[r] \in {"create", "ok"} \/ Saving(r))

\* A session that is presented has been answered, so its key is not set again; past
\* the del of its key it is not live, unless the del failed.
EndingTracked ==
    \A r \in Requests :
      /\ pc[r] = "new" => op[r] = None
      /\ pc[r] \in {"endOne", "getToken"} => op[r] \in {"signout", "refreshToken"}
      /\ op[r] \in {"signout", "refreshToken"} => arg[r] \in Requests /\ pc[arg[r]] = "ok"
      /\ op[r] = "signout" => pc[r] \in {"endOne"} \cup Ended
      /\ op[r] = "refreshToken" =>
           pc[r] \in {"getToken", "endOne", "create", "save", "saveError"} \cup Ended
      /\ PastDel(r) => keyExpiry[arg[r]] <= now \/ arg[r] \in undeleted

=============================================================================
