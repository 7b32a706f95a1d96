---------------------------- MODULE SessionsProofs ----------------------------
(***************************************************************************)
(* Proofs about Sessions, for any number of requests and faults and any    *)
(* times to live.                                                          *)
(***************************************************************************)
EXTENDS Sessions, TLAPS

\* The initial state satisfies every invariant.
LEMMA InitOK == Init => TypeOK /\ ResetTracked /\ EndingTracked
<1> USE SessionAssumption
<1>1. Init => TypeOK
  BY DEF Init, TypeOK, Operations, Awaits, Ended, Forever, None
<1>2. Init => ResetTracked /\ EndingTracked
  BY DEF Init, ResetTracked, EndingTracked, PastDel, None, Saving
<1> QED
  BY <1>1, <1>2

\* What a request begins with keeps the types.
LEMMA HandlerType ==
    ASSUME TypeOK, NEW r \in Requests, Handler(r)
    PROVE  TypeOK'
<1> USE SessionAssumption DEF redisVars, requestVars, historyVars
<1>0. ASSUME NEW h \in Operations, NEW t \in Requests \cup {None},
             NEW a \in Awaits \cup Ended, Begin(r, h, t, a)
      PROVE  /\ op' \in [Requests -> Operations \cup {None}]
             /\ arg' \in [Requests -> Requests \cup {None}]
             /\ pc' \in [Requests -> Awaits \cup Ended \cup {"new"}]
  BY <1>0 DEF Begin, TypeOK
<1>1. CASE SignIn(r)
  <2>1. "signin" \in Operations /\ "create" \in Awaits /\ Begin(r, "signin", None, "create")
    BY <1>1 DEF SignIn, Operations, Awaits
  <2> QED
    BY <1>0, <1>1, <2>1 DEF SignIn, TypeOK
<1>2. CASE SignOut(r)
  <2>1. PICK t \in Answered :
          Begin(r, "signout", t, IF jwtExpiry[t] > now THEN "endOne" ELSE "refused")
    BY <1>2 DEF SignOut
  <2>2. /\ "signout" \in Operations /\ t \in Requests
        /\ (IF jwtExpiry[t] > now THEN "endOne" ELSE "refused") \in Awaits \cup Ended
    BY DEF Operations, Awaits, Ended, Answered
  <2>3. todo' \in [Requests -> SUBSET {"key", "list", "expire", "row"}]
    BY <1>2 DEF SignOut, TypeOK
  <2> QED
    BY <1>0, <1>2, <2>1, <2>2, <2>3 DEF SignOut, TypeOK
<1>3. CASE Refresh(r)
  <2>1. PICK t \in Answered :
          Begin(r, "refreshToken", t,
                IF GuardAdmits(t) /\ jwtExpiry[t] > now THEN "getToken" ELSE "refused")
    BY <1>3 DEF Refresh
  <2>2. /\ "refreshToken" \in Operations /\ t \in Requests
        /\ (IF GuardAdmits(t) /\ jwtExpiry[t] > now THEN "getToken" ELSE "refused") \in Awaits \cup Ended
    BY DEF Operations, Awaits, Ended, Answered
  <2> QED
    BY <1>0, <1>3, <2>1, <2>2 DEF Refresh, TypeOK
<1>4. CASE RequestPasswordReset(r)
  <2>1. /\ "requestPasswordReset" \in Operations /\ "ok" \in Ended
        /\ Begin(r, "requestPasswordReset", None, "ok")
    BY <1>4 DEF RequestPasswordReset, Operations, Ended
  <2>2. resetExpiry' \in [Requests -> 0..MaxTime + ResetTtl]
    BY <1>4 DEF RequestPasswordReset, TypeOK
  <2> QED
    BY <1>0, <1>4, <2>1, <2>2 DEF RequestPasswordReset, TypeOK
<1>5. CASE ResetPassword(r)
  <2>1. PICK t \in Requests :
          Begin(r, "resetPassword", t, IF resetExpiry[t] > now THEN "delResetToken" ELSE "refused")
    BY <1>5 DEF ResetPassword
  <2>2. /\ "resetPassword" \in Operations
        /\ (IF resetExpiry[t] > now THEN "delResetToken" ELSE "refused") \in Awaits \cup Ended
    BY DEF Operations, Awaits, Ended
  <2> QED
    BY <1>0, <1>5, <2>1, <2>2 DEF ResetPassword, TypeOK
<1> QED
  BY <1>1, <1>2, <1>3, <1>4, <1>5 DEF Handler

\* So does a request that stores a session.
LEMMA SaveType ==
    ASSUME TypeOK, NEW r \in Requests, Save(r)
    PROVE  TypeOK'
<1> USE SessionAssumption DEF redisVars, requestVars, historyVars
<1>1. CASE CreateRow(r)
  <2>1. pc' \in [Requests -> Awaits \cup Ended \cup {"new"}]
    BY <1>1 DEF CreateRow, TypeOK, Awaits
  <2>2. todo' \in [Requests -> SUBSET {"key", "list", "expire", "row"}]
    BY <1>1 DEF CreateRow, TypeOK
  <2>3. jwtExpiry' \in [Requests -> 0..MaxTime + SessionTtl]
    BY <1>1 DEF CreateRow, TypeOK, Minted
  <2> QED
    BY <1>1, <2>1, <2>2, <2>3 DEF CreateRow, TypeOK, Minted
<1>2. CASE SetKey(r)
  <2>1. keyExpiry' \in [Requests -> 0..MaxTime + SessionTtl]
    BY <1>2 DEF SetKey, TypeOK, Minted
  <2>2. todo' \in [Requests -> SUBSET {"key", "list", "expire", "row"}]
    BY <1>2 DEF SetKey, TypeOK
  <2> QED
    BY <1>2, <2>1, <2>2 DEF SetKey, TypeOK
<1>3. CASE AddToken(r)
  <2>1. tokens' \subseteq Requests
    BY <1>3 DEF AddToken, TypeOK, Members, Minted
  <2>2. listExpiry' \in 0..Forever
    BY <1>3 DEF AddToken, TypeOK, Forever
  <2>3. todo' \in [Requests -> SUBSET {"key", "list", "expire", "row"}]
    BY <1>3 DEF AddToken, TypeOK
  <2> QED
    BY <1>3, <2>1, <2>2, <2>3 DEF AddToken, TypeOK
<1>4. CASE ExpireTokens(r)
  <2>1. listExpiry' \in 0..Forever
    BY <1>4 DEF ExpireTokens, TypeOK, Forever
  <2>2. todo' \in [Requests -> SUBSET {"key", "list", "expire", "row"}]
    BY <1>4 DEF ExpireTokens, TypeOK
  <2> QED
    BY <1>4, <2>1, <2>2 DEF ExpireTokens, TypeOK
<1>5. CASE AnswerSave(r)
  <2>1. pc' \in [Requests -> Awaits \cup Ended \cup {"new"}]
    BY <1>5 DEF AnswerSave, TypeOK, Ended
  <2> QED
    BY <1>5, <2>1 DEF AnswerSave, TypeOK
<1> QED
  BY <1>1, <1>2, <1>3, <1>4, <1>5 DEF Save

\* So does one that ends a session.
LEMMA EndOneType ==
    ASSUME TypeOK, NEW r \in Requests, EndOne(r)
    PROVE  TypeOK'
<1> USE SessionAssumption DEF redisVars, requestVars, historyVars
<1>1. CASE GetToken(r)
  <2>1. pc' \in [Requests -> Awaits \cup Ended \cup {"new"}]
    BY <1>1 DEF GetToken, TypeOK, Awaits, Ended
  <2>2. todo' \in [Requests -> SUBSET {"key", "list", "expire", "row"}]
    BY <1>1 DEF GetToken, TypeOK
  <2> QED
    BY <1>1, <2>1, <2>2 DEF GetToken, TypeOK
<1>2. CASE DeleteKey(r)
  <2>0. 0 \in 0..MaxTime + SessionTtl
    OBVIOUS
  <2>1. keyExpiry' \in [Requests -> 0..MaxTime + SessionTtl]
    BY <1>2, <2>0 DEF DeleteKey, TypeOK
  <2>2. todo' \in [Requests -> SUBSET {"key", "list", "expire", "row"}]
    BY <1>2 DEF DeleteKey, TypeOK
  <2> QED
    BY <1>2, <2>1, <2>2 DEF DeleteKey, TypeOK
<1>3. CASE RemoveToken(r)
  <2>1. todo' \in [Requests -> SUBSET {"key", "list", "expire", "row"}]
    BY <1>3 DEF RemoveToken, TypeOK
  <2> QED
    BY <1>3, <2>1 DEF RemoveToken, TypeOK
<1>4. CASE DeleteRow(r)
  <2>1. todo' \in [Requests -> SUBSET {"key", "list", "expire", "row"}]
    BY <1>4 DEF DeleteRow, TypeOK
  <2> QED
    BY <1>4, <2>1 DEF DeleteRow, TypeOK
<1>5. CASE SettleOne(r)
  <2>1. pc' \in [Requests -> Awaits \cup Ended \cup {"new"}]
    BY <1>5 DEF SettleOne, TypeOK, Awaits, Ended
  <2> QED
    BY <1>5, <2>1 DEF SettleOne, TypeOK
<1> QED
  BY <1>1, <1>2, <1>3, <1>4, <1>5 DEF EndOne

\* The dels of the keys, whichever of them reject, keep the types.
LEMMA DeleteKeysType ==
    ASSUME TypeOK, faults' \in 0..MaxFaults, NEW r \in Requests,
           NEW failed \in SUBSET jtis[r], DeleteKeys(r, failed)
    PROVE  TypeOK'
<1> USE SessionAssumption DEF requestVars
<1>1. keyExpiry' \in [Requests -> 0..MaxTime + SessionTtl]
  BY DEF DeleteKeys, TypeOK
<1>2. todo' \in [Requests -> SUBSET {"key", "list", "expire", "row"}]
  BY DEF DeleteKeys, TypeOK
<1>3. undeleted' \subseteq Requests
  BY DEF DeleteKeys, TypeOK
<1> QED
  BY <1>1, <1>2, <1>3 DEF DeleteKeys, TypeOK

\* So does a request that resets the password.
LEMMA EndAllType ==
    ASSUME TypeOK, ResetTracked, NEW r \in Requests, EndAll(r)
    PROVE  TypeOK'
<1> USE SessionAssumption DEF redisVars, requestVars, historyVars
<1>1. CASE DeleteResetToken(r)
  <2>1. pc' \in [Requests -> Awaits \cup Ended \cup {"new"}]
    BY <1>1 DEF DeleteResetToken, TypeOK, Awaits
  <2>0. 0 \in 0..MaxTime + ResetTtl
    OBVIOUS
  <2>2. resetExpiry' \in [Requests -> 0..MaxTime + ResetTtl]
    BY <1>1, <2>0 DEF DeleteResetToken, TypeOK
  <2> QED
    BY <1>1, <2>1, <2>2 DEF DeleteResetToken, TypeOK
<1>2. CASE ReadTokens(r)
  <2>1. pc' \in [Requests -> Awaits \cup Ended \cup {"new"}]
    BY <1>2 DEF ReadTokens, TypeOK, Awaits
  <2>2. todo' \in [Requests -> SUBSET {"key", "list", "expire", "row"}]
    BY <1>2 DEF ReadTokens, TypeOK
  <2>3. jtis' \in [Requests -> SUBSET Requests]
    BY <1>2 DEF ReadTokens, TypeOK, Members
  <2>4. earlier' \in [Requests -> SUBSET Requests]
    BY <1>2 DEF ReadTokens, TypeOK, Answered
  <2>5. overlapped' \subseteq Requests
    BY <1>2 DEF ReadTokens, TypeOK
  <2> QED
    BY <1>2, <2>1, <2>2, <2>3, <2>4, <2>5 DEF ReadTokens, TypeOK
<1>3. CASE DeleteTokens(r) \/ DeleteRows(r)
  <2>1. todo' \in [Requests -> SUBSET {"key", "list", "expire", "row"}]
    BY <1>3 DEF DeleteTokens, DeleteRows, TypeOK
  <2> QED
    BY <1>3, <2>1 DEF DeleteTokens, DeleteRows, TypeOK
<1>4. CASE DeleteKeys(r, {}) /\ UNCHANGED faults
  BY <1>4, DeleteKeysType DEF TypeOK
<1>5. CASE SettleAll(r)
  <2>1. pc' \in [Requests -> Awaits \cup Ended \cup {"new"}]
    BY <1>5 DEF SettleAll, TypeOK, Ended
  <2> QED
    BY <1>5, <2>1 DEF SettleAll, TypeOK
<1>6. CASE UpdatePassword(r)
  <2>1. pc' \in [Requests -> Awaits \cup Ended \cup {"new"}]
    BY <1>6 DEF UpdatePassword, TypeOK, Awaits
  <2>2. changedBy' \subseteq Requests
    BY <1>6 DEF UpdatePassword, TypeOK, ResetTracked
  <2> QED
    BY <1>6, <2>1, <2>2 DEF UpdatePassword, TypeOK
<1> QED
  BY <1>1, <1>2, <1>3, <1>4, <1>5, <1>6 DEF EndAll

\* Whatever fails, and time, keep the types.
LEMMA FaultType ==
    ASSUME TypeOK, EndingTracked, Fault \/ Tick \/ UNCHANGED vars
    PROVE  TypeOK'
<1> USE SessionAssumption DEF redisVars, requestVars, historyVars
<1>1. CASE Fault
  <2>1. faults' \in 0..MaxFaults
    BY <1>1 DEF Fault, TypeOK
  <2>2. ASSUME NEW r \in Requests, AwaitFails(r) PROVE TypeOK'
    <3>1. pc' \in [Requests -> Awaits \cup Ended \cup {"new"}]
      BY <2>2 DEF AwaitFails, TypeOK, Ended
    <3> QED
      BY <2>1, <2>2, <3>1 DEF AwaitFails, TypeOK
  <2>3. ASSUME NEW r \in Requests, CommandFails(r) PROVE TypeOK'
    <3>1. pc' \in [Requests -> Awaits \cup Ended \cup {"new"}]
      BY <2>3 DEF CommandFails, TypeOK, Awaits
    <3>2. todo' \in [Requests -> SUBSET {"key", "list", "expire", "row"}]
      BY <2>3 DEF CommandFails, TypeOK
    <3>3. pc[r] = "endOne" => arg[r] \in Requests
      BY DEF EndingTracked
    <3>4. undeleted' \subseteq Requests
      BY <2>3, <3>3 DEF CommandFails, TypeOK
    <3> QED
      BY <2>1, <2>3, <3>1, <3>2, <3>4 DEF CommandFails, TypeOK
  <2>4. ASSUME NEW r \in Requests, NEW failed \in SUBSET jtis[r], DeleteKeys(r, failed)
        PROVE  TypeOK'
    BY <2>1, <2>4, DeleteKeysType
  <2>5. CASE Restart
    <3>1. pc' \in [Requests -> Awaits \cup Ended \cup {"new"}]
      BY <2>5 DEF Restart, TypeOK, Ended
    <3>2. todo' \in [Requests -> SUBSET {"key", "list", "expire", "row"}]
      BY <2>5 DEF Restart
    <3>3. ASSUME NEW r \in Requests PROVE Ending(r) \subseteq Requests
      BY DEF Ending, EndingTracked, TypeOK
    <3>4. undeleted' \subseteq Requests
      BY <2>5, <3>3 DEF Restart, TypeOK
    <3> QED
      BY <2>1, <2>5, <3>1, <3>2, <3>4 DEF Restart, TypeOK
  <2> QED
    BY <1>1, <2>2, <2>3, <2>4, <2>5 DEF Fault
<1>2. CASE Tick
  BY <1>2 DEF Tick, TypeOK, localVars
<1>3. CASE UNCHANGED vars
  BY <1>3 DEF vars, TypeOK, localVars
<1> QED
  BY <1>1, <1>2, <1>3

\* Every step keeps the types.
LEMMA TypeStep ==
    ASSUME TypeOK, ResetTracked, EndingTracked, [Next]_vars
    PROVE  TypeOK'
BY HandlerType, SaveType, EndOneType, EndAllType, FaultType DEF Next

-----------------------------------------------------------------------------
(* What every step keeps of the requests and tokens *)

\* A request that has begun keeps its handler and its token, an answer is final, and a
\* step that is not that of a request keeps its await and its commands, but for a
\* restart.
LEMMA RequestsKept ==
    ASSUME TypeOK, [Next]_vars, NEW x \in Requests
    PROVE  /\ pc[x] # "new" => pc'[x] # "new" /\ op'[x] = op[x] /\ arg'[x] = arg[x]
           /\ pc[x] = "ok" => pc'[x] = "ok"
<1> USE DEF TypeOK, redisVars, requestVars, historyVars, localVars
<1>1. ASSUME NEW r \in Requests, Handler(r)
      PROVE  /\ pc[x] # "new" => pc'[x] # "new" /\ op'[x] = op[x] /\ arg'[x] = arg[x]
             /\ pc[x] = "ok" => pc'[x] = "ok"
  <2>1. PICK h, t, a : Begin(r, h, t, a)
    BY <1>1 DEF Handler, SignIn, SignOut, Refresh, RequestPasswordReset, ResetPassword
  <2> QED
    BY <2>1 DEF Begin
<1>3. ASSUME NEW r \in Requests, Save(r)
      PROVE  /\ pc[x] # "new" => pc'[x] # "new" /\ op'[x] = op[x] /\ arg'[x] = arg[x]
             /\ pc[x] = "ok" => pc'[x] = "ok"
  BY <1>3 DEF Save, CreateRow, SetKey, AddToken, ExpireTokens, AnswerSave, Saving
<1>4. ASSUME NEW r \in Requests, EndOne(r)
      PROVE  /\ pc[x] # "new" => pc'[x] # "new" /\ op'[x] = op[x] /\ arg'[x] = arg[x]
             /\ pc[x] = "ok" => pc'[x] = "ok"
  BY <1>4 DEF EndOne, GetToken, DeleteKey, RemoveToken, DeleteRow, SettleOne
<1>5. ASSUME NEW r \in Requests, EndAll(r)
      PROVE  /\ pc[x] # "new" => pc'[x] # "new" /\ op'[x] = op[x] /\ arg'[x] = arg[x]
             /\ pc[x] = "ok" => pc'[x] = "ok"
  BY <1>5 DEF EndAll, DeleteResetToken, UpdatePassword, ReadTokens, DeleteTokens,
              DeleteKeys, DeleteRows, SettleAll
<1>6. CASE Fault
  <2>1. ASSUME NEW r \in Requests, AwaitFails(r) \/ CommandFails(r)
        PROVE  /\ pc[x] # "new" => pc'[x] # "new" /\ op'[x] = op[x] /\ arg'[x] = arg[x]
               /\ pc[x] = "ok" => pc'[x] = "ok"
    BY <2>1 DEF AwaitFails, CommandFails, Saving
  <2>2. ASSUME NEW r \in Requests, NEW failed, DeleteKeys(r, failed)
        PROVE  /\ pc[x] # "new" => pc'[x] # "new" /\ op'[x] = op[x] /\ arg'[x] = arg[x]
               /\ pc[x] = "ok" => pc'[x] = "ok"
    BY <2>2 DEF DeleteKeys
  <2>3. CASE Restart
    BY <2>3 DEF Restart, Awaits
  <2> QED
    BY <1>6, <2>1, <2>2, <2>3 DEF Fault
<1>7. CASE Tick \/ UNCHANGED vars
  BY <1>7 DEF Tick, vars
<1> QED
  BY <1>1, <1>3, <1>4, <1>5, <1>6, <1>7 DEF Next

\* A reset reaches the update of the password only over the del of its token.
LEMMA ResetPhases ==
    ASSUME TypeOK, [Next]_vars, NEW x \in Requests
    PROVE  pc'[x] \in {"delResetToken", "updatePassword"} =>
             \/ pc'[x] = pc[x]
             \/ pc'[x] = "delResetToken" /\ \E t \in Requests : arg'[x] = t /\ pc[t] = "ok"
             \/ pc'[x] = "updatePassword" /\ pc[x] = "delResetToken"
                  /\ (arg[x] \in Requests => resetExpiry'[arg[x]] = 0)
<1> USE DEF TypeOK, redisVars, requestVars, historyVars, localVars
<1>1. ASSUME NEW r \in Requests, SignIn(r) \/ SignOut(r) \/ Refresh(r) \/ RequestPasswordReset(r)
      PROVE  pc'[x] \in {"delResetToken", "updatePassword"} => pc'[x] = pc[x]
  BY <1>1 DEF Begin, SignIn, SignOut, Refresh, RequestPasswordReset
<1>2. ASSUME NEW r \in Requests, ResetPassword(r)
      PROVE  pc'[x] \in {"delResetToken", "updatePassword"} =>
             \/ pc'[x] = pc[x]
             \/ pc'[x] = "delResetToken" /\ \E t \in Requests : arg'[x] = t /\ pc[t] = "ok"
  BY <1>2 DEF Begin, ResetPassword
<1>3. ASSUME NEW r \in Requests, Save(r) \/ EndOne(r)
      PROVE  pc'[x] \in {"delResetToken", "updatePassword"} => pc'[x] = pc[x]
  BY <1>3 DEF Save, CreateRow, SetKey, AddToken, ExpireTokens, AnswerSave, Saving,
              EndOne, GetToken, DeleteKey, RemoveToken, DeleteRow, SettleOne
<1>4. ASSUME NEW r \in Requests, DeleteResetToken(r)
      PROVE  \/ pc'[x] = pc[x]
             \/ pc'[x] = "updatePassword" /\ pc[x] = "delResetToken"
                  /\ (arg[x] \in Requests => resetExpiry'[arg[x]] = 0)
  BY <1>4 DEF DeleteResetToken
<1>5. ASSUME NEW r \in Requests, EndAll(r), ~DeleteResetToken(r)
      PROVE  pc'[x] \in {"delResetToken", "updatePassword"} => pc'[x] = pc[x]
  BY <1>5 DEF EndAll, UpdatePassword, ReadTokens, DeleteTokens, DeleteKeys, DeleteRows, SettleAll
<1>6. ASSUME Fault \/ Tick \/ UNCHANGED vars
      PROVE  pc'[x] \in {"delResetToken", "updatePassword"} => pc'[x] = pc[x]
  BY <1>6 DEF Fault, AwaitFails, CommandFails, DeleteKeys, Restart, Saving, Awaits, Tick, vars
<1> QED
  BY <1>1, <1>2, <1>3, <1>4, <1>5, <1>6 DEF Next, Handler

\* A token that has expired is not minted again.
LEMMA ExpiredKept ==
    ASSUME TypeOK, [Next]_vars, NEW t \in Requests, pc[t] # "new", resetExpiry[t] <= now
    PROVE  resetExpiry'[t] <= now'
<1> USE SessionAssumption DEF TypeOK, redisVars, requestVars, historyVars, localVars
<1>1. ASSUME NEW r \in Requests, RequestPasswordReset(r) PROVE resetExpiry'[t] <= now'
  BY <1>1 DEF RequestPasswordReset, Begin
<1>2. ASSUME NEW r \in Requests, DeleteResetToken(r) PROVE resetExpiry'[t] <= now'
  BY <1>2 DEF DeleteResetToken
<1>3. CASE Tick
  BY <1>3 DEF Tick
<1>4. CASE resetExpiry' = resetExpiry /\ now' = now
  BY <1>4
<1>5. ASSUME NEW r \in Requests, Handler(r), ~RequestPasswordReset(r)
      PROVE  resetExpiry' = resetExpiry /\ now' = now
  BY <1>5 DEF Handler, SignIn, SignOut, Refresh, ResetPassword
<1>6. ASSUME NEW r \in Requests, Save(r) \/ EndOne(r)
      PROVE  resetExpiry' = resetExpiry /\ now' = now
  BY <1>6 DEF Save, CreateRow, SetKey, AddToken, ExpireTokens, AnswerSave,
              EndOne, GetToken, DeleteKey, RemoveToken, DeleteRow, SettleOne
<1>7. ASSUME NEW r \in Requests, EndAll(r), ~DeleteResetToken(r)
      PROVE  resetExpiry' = resetExpiry /\ now' = now
  BY <1>7 DEF EndAll, UpdatePassword, ReadTokens, DeleteTokens, DeleteKeys, DeleteRows, SettleAll
<1>8. ASSUME Fault \/ UNCHANGED vars
      PROVE  resetExpiry' = resetExpiry /\ now' = now
  BY <1>8 DEF Fault, AwaitFails, CommandFails, DeleteKeys, Restart, vars
<1> QED
  BY <1>1, <1>2, <1>3, <1>4, <1>5, <1>6, <1>7, <1>8 DEF Next

\* Only the update of a reset changes the password.
LEMMA ChangedBy ==
    ASSUME TypeOK, [Next]_vars, NEW t \in changedBy', t \notin changedBy
    PROVE  \E r \in Requests : pc[r] = "updatePassword" /\ arg[r] = t
<1> USE DEF requestVars, historyVars
<1>1. ASSUME NEW r \in Requests, UpdatePassword(r) PROVE pc[r] = "updatePassword" /\ arg[r] = t
  BY <1>1 DEF UpdatePassword
<1>2. ASSUME NEW r \in Requests, Handler(r) \/ Save(r) \/ EndOne(r) PROVE FALSE
  BY <1>2 DEF Handler, SignIn, SignOut, Refresh, RequestPasswordReset, ResetPassword,
              Save, CreateRow, SetKey, AddToken, ExpireTokens, AnswerSave,
              EndOne, GetToken, DeleteKey, RemoveToken, DeleteRow, SettleOne
<1>3. ASSUME NEW r \in Requests, EndAll(r), ~UpdatePassword(r) PROVE FALSE
  BY <1>3 DEF EndAll, DeleteResetToken, ReadTokens, DeleteTokens, DeleteKeys, DeleteRows, SettleAll
<1>4. ASSUME Fault \/ Tick \/ UNCHANGED vars PROVE FALSE
  BY <1>4 DEF Fault, AwaitFails, CommandFails, DeleteKeys, Restart, Tick, vars
<1> QED
  BY <1>1, <1>2, <1>3, <1>4 DEF Next

\* A step preserves what is known of the reset tokens.
LEMMA ResetStep ==
    ASSUME TypeOK, TypeOK', ResetTracked, ResetTokenSpent, [Next]_vars
    PROVE  ResetTracked' /\ ResetTokenSpent'
<1> USE SessionAssumption
<1>1. ASSUME NEW t \in changedBy' PROVE pc'[t] # "new" /\ resetExpiry'[t] <= now'
  <2>1. t \in Requests /\ pc[t] # "new" /\ resetExpiry[t] <= now
    BY ChangedBy DEF ResetTracked, ResetTokenSpent, TypeOK
  <2> QED
    BY <2>1, RequestsKept, ExpiredKept
<1>2. ASSUME NEW r \in Requests, pc'[r] \in {"delResetToken", "updatePassword"}
      PROVE  /\ arg'[r] \in Requests /\ pc'[arg'[r]] # "new"
             /\ pc'[r] = "updatePassword" => resetExpiry'[arg'[r]] <= now'
  <2>1. CASE pc'[r] = pc[r]
    <3>1. arg'[r] = arg[r] /\ arg[r] \in Requests /\ pc[arg[r]] # "new"
      BY <1>2, <2>1, RequestsKept DEF ResetTracked
    <3>2. pc[r] = "updatePassword" => resetExpiry[arg[r]] <= now
      BY DEF ResetTracked
    <3> QED
      BY <2>1, <3>1, <3>2, RequestsKept, ExpiredKept
  <2>2. ASSUME pc'[r] = "delResetToken", NEW t \in Requests, arg'[r] = t, pc[t] = "ok"
        PROVE  pc'[t] # "new"
    BY <2>2, RequestsKept
  <2>3. CASE pc'[r] = "updatePassword" /\ pc[r] = "delResetToken"
               /\ (arg[r] \in Requests => resetExpiry'[arg[r]] = 0)
    <3>1. arg'[r] = arg[r] /\ arg[r] \in Requests /\ pc[arg[r]] # "new"
      BY <2>3, RequestsKept DEF ResetTracked
    <3>2. now' \in Nat
      BY DEF TypeOK
    <3> QED
      BY <2>3, <3>1, <3>2, RequestsKept
  <2> QED
    BY <1>2, <2>1, <2>2, <2>3, ResetPhases
<1> QED
  BY <1>1, <1>2 DEF ResetTracked, ResetTokenSpent

-----------------------------------------------------------------------------
(* Sessions that were ended *)

\* The key of an answered session is not set again, and a failed del is remembered.
LEMMA KeysKept ==
    ASSUME TypeOK, [Next]_vars, NEW t \in Requests, pc[t] = "ok"
    PROVE  /\ keyExpiry[t] <= now => keyExpiry'[t] <= now'
           /\ t \in undeleted => t \in undeleted'
<1> USE SessionAssumption DEF TypeOK, redisVars, requestVars, historyVars, localVars
<1>1. ASSUME NEW r \in Requests, SetKey(r)
      PROVE  keyExpiry'[t] = keyExpiry[t] /\ now' = now /\ undeleted' = undeleted
  BY <1>1 DEF SetKey, Saving, Minted
<1>2. ASSUME NEW r \in Requests, DeleteKey(r)
      PROVE  keyExpiry'[t] \in {0, keyExpiry[t]} /\ now' = now /\ undeleted' = undeleted
  BY <1>2 DEF DeleteKey
<1>3. ASSUME NEW r \in Requests, NEW failed, DeleteKeys(r, failed)
      PROVE  /\ keyExpiry'[t] \in {0, keyExpiry[t]}
             /\ now' = now /\ undeleted \subseteq undeleted'
  BY <1>3 DEF DeleteKeys
<1>4. ASSUME NEW r \in Requests, CommandFails(r)
      PROVE  keyExpiry'[t] = keyExpiry[t] /\ now' = now /\ undeleted \subseteq undeleted'
  BY <1>4 DEF CommandFails
<1>5. CASE Restart
  BY <1>5 DEF Restart
<1>6. CASE Tick
  BY <1>6 DEF Tick
<1>7. CASE keyExpiry' = keyExpiry /\ now' = now /\ undeleted' = undeleted
  BY <1>7
<1>8. ASSUME NEW r \in Requests, Handler(r)
      PROVE  keyExpiry' = keyExpiry /\ now' = now /\ undeleted' = undeleted
  BY <1>8 DEF Handler, SignIn, SignOut, Refresh, RequestPasswordReset, ResetPassword
<1>9. ASSUME NEW r \in Requests, Save(r) \/ EndOne(r), ~SetKey(r), ~DeleteKey(r)
      PROVE  keyExpiry' = keyExpiry /\ now' = now /\ undeleted' = undeleted
  BY <1>9 DEF Save, CreateRow, AddToken, ExpireTokens, AnswerSave,
              EndOne, GetToken, RemoveToken, DeleteRow, SettleOne
<1>10. ASSUME NEW r \in Requests, EndAll(r), ~DeleteKeys(r, {})
       PROVE  keyExpiry' = keyExpiry /\ now' = now /\ undeleted' = undeleted
  BY <1>10 DEF EndAll, DeleteResetToken, UpdatePassword, ReadTokens, DeleteTokens, DeleteRows,
               SettleAll
<1>11. ASSUME (\E r \in Requests : AwaitFails(r)) \/ UNCHANGED vars
       PROVE  keyExpiry' = keyExpiry /\ now' = now /\ undeleted' = undeleted
  BY <1>11 DEF AwaitFails, vars
<1>12. ASSUME NEW r \in Requests, Save(r) \/ EndOne(r)
       PROVE  /\ keyExpiry[t] <= now => keyExpiry'[t] <= now'
              /\ t \in undeleted => t \in undeleted'
  BY <1>1, <1>2, <1>7, <1>9, <1>12
<1>13. ASSUME NEW r \in Requests, EndAll(r)
       PROVE  /\ keyExpiry[t] <= now => keyExpiry'[t] <= now'
              /\ t \in undeleted => t \in undeleted'
  BY <1>3, <1>7, <1>10, <1>13
<1>14. CASE Fault
  BY <1>3, <1>4, <1>5, <1>7, <1>11, <1>14 DEF Fault
<1> QED
  BY <1>6, <1>7, <1>8, <1>11, <1>12, <1>13, <1>14 DEF Next

\* A request that ends or replaces a session presents one that was answered.
LEMMA PresentedAnswered ==
    ASSUME TypeOK, EndingTracked, [Next]_vars, NEW x \in Requests
    PROVE  /\ pc'[x] = "new" => op'[x] = None
           /\ pc'[x] \in {"endOne", "getToken"} => op'[x] \in {"signout", "refreshToken"}
           /\ op'[x] \in {"signout", "refreshToken"} => arg'[x] \in Requests /\ pc'[arg'[x]] = "ok"
<1> USE DEF TypeOK, redisVars, requestVars, historyVars, localVars
<1>1. ASSUME NEW r \in Requests, Handler(r), r = x
      PROVE  /\ pc'[x] \in {"endOne", "getToken"} => op'[x] \in {"signout", "refreshToken"}
             /\ op'[x] \in {"signout", "refreshToken"} => arg'[x] \in Answered
             /\ pc'[x] # "new"
  BY <1>1 DEF Handler, SignIn, SignOut, Refresh, RequestPasswordReset, ResetPassword, Begin
<1>2. ASSUME NEW r \in Requests, Handler(r), r # x
      PROVE  pc'[x] = pc[x] /\ op'[x] = op[x] /\ arg'[x] = arg[x]
  BY <1>2 DEF Handler, SignIn, SignOut, Refresh, RequestPasswordReset, ResetPassword, Begin
<1>3. ASSUME NEW r \in Requests, Save(r) \/ EndOne(r) \/ EndAll(r)
      PROVE  /\ op' = op /\ arg' = arg
             /\ pc'[x] \in {"endOne", "getToken", "new"} =>
                  pc'[x] = pc[x] \/ (pc'[x] = "endOne" /\ pc[x] = "getToken")
  BY <1>3 DEF Save, CreateRow, SetKey, AddToken, ExpireTokens, AnswerSave, Saving,
              EndOne, GetToken, DeleteKey, RemoveToken, DeleteRow, SettleOne,
              EndAll, DeleteResetToken, UpdatePassword, ReadTokens, DeleteTokens, DeleteKeys,
              DeleteRows, SettleAll
<1>4. ASSUME Fault \/ Tick \/ UNCHANGED vars
      PROVE  /\ op' = op /\ arg' = arg
             /\ pc'[x] \in {"endOne", "getToken", "new"} => pc'[x] = pc[x]
  BY <1>4 DEF Fault, AwaitFails, CommandFails, DeleteKeys, Restart, Saving, Awaits, Tick, vars
<1>5. CASE \E r \in Requests : Handler(r)
  <2>1. op'[x] \in {"signout", "refreshToken"} => arg'[x] \in Requests /\ pc[arg'[x]] = "ok"
    BY <1>1, <1>2, <1>5 DEF EndingTracked, Answered
  <2> QED
    BY <1>1, <1>2, <1>5, <2>1, RequestsKept DEF EndingTracked
<1>6. ASSUME /\ op' = op /\ arg' = arg
             /\ pc'[x] \in {"endOne", "getToken", "new"} =>
                  pc'[x] = pc[x] \/ (pc'[x] = "endOne" /\ pc[x] = "getToken")
      PROVE  /\ pc'[x] = "new" => op'[x] = None
             /\ pc'[x] \in {"endOne", "getToken"} => op'[x] \in {"signout", "refreshToken"}
             /\ op'[x] \in {"signout", "refreshToken"} =>
                  arg'[x] \in Requests /\ pc'[arg'[x]] = "ok"
  BY <1>6, RequestsKept DEF EndingTracked
<1> QED
  BY <1>3, <1>4, <1>5, <1>6 DEF Next

\* A request stays on the awaits of its handler.
LEMMA OwnAwaits ==
    ASSUME TypeOK, EndingTracked, [Next]_vars, NEW x \in Requests
    PROVE  /\ op'[x] = "signout" => pc'[x] \in {"endOne"} \cup Ended
           /\ op'[x] = "refreshToken" =>
                pc'[x] \in {"getToken", "endOne", "create", "save", "saveError"} \cup Ended
<1> USE DEF TypeOK, redisVars, requestVars, historyVars, localVars, Ended
<1>0. /\ op[x] = "signout" => pc[x] \in {"endOne"} \cup Ended
      /\ op[x] = "refreshToken" =>
           pc[x] \in {"getToken", "endOne", "create", "save", "saveError"} \cup Ended
  BY DEF EndingTracked
<1>1. ASSUME NEW r \in Requests, Handler(r)
      PROVE  /\ op'[x] = "signout" => pc'[x] \in {"endOne"} \cup Ended
             /\ op'[x] = "refreshToken" =>
                  pc'[x] \in {"getToken", "endOne", "create", "save", "saveError"} \cup Ended
  BY <1>0, <1>1 DEF Handler, SignIn, SignOut, Refresh, RequestPasswordReset, ResetPassword, Begin
<1>2. ASSUME NEW r \in Requests, Save(r) \/ EndOne(r)
      PROVE  /\ op'[x] = "signout" => pc'[x] \in {"endOne"} \cup Ended
             /\ op'[x] = "refreshToken" =>
                  pc'[x] \in {"getToken", "endOne", "create", "save", "saveError"} \cup Ended
  BY <1>0, <1>2 DEF Save, CreateRow, SetKey, AddToken, ExpireTokens, AnswerSave, Saving,
                    EndOne, GetToken, DeleteKey, RemoveToken, DeleteRow, SettleOne
<1>3. ASSUME NEW r \in Requests, EndAll(r)
      PROVE  /\ op'[x] = "signout" => pc'[x] \in {"endOne"} \cup Ended
             /\ op'[x] = "refreshToken" =>
                  pc'[x] \in {"getToken", "endOne", "create", "save", "saveError"} \cup Ended
  BY <1>0, <1>3 DEF EndAll, DeleteResetToken, UpdatePassword, ReadTokens, DeleteTokens,
                    DeleteKeys, DeleteRows, SettleAll
<1>4. ASSUME Fault \/ Tick \/ UNCHANGED vars
      PROVE  /\ op'[x] = "signout" => pc'[x] \in {"endOne"} \cup Ended
             /\ op'[x] = "refreshToken" =>
                  pc'[x] \in {"getToken", "endOne", "create", "save", "saveError"} \cup Ended
  BY <1>0, <1>4 DEF Fault, AwaitFails, CommandFails, DeleteKeys, Restart, Saving, Awaits, Tick, vars
<1> QED
  BY <1>1, <1>2, <1>3, <1>4 DEF Next

\* A request gets past the del of the key only by deleting it or by failing to.
LEMMA PastDelReached ==
    ASSUME TypeOK, EndingTracked, [Next]_vars, NEW x \in Requests, PastDel(x)', ~PastDel(x)
    PROVE  /\ arg'[x] = arg[x] /\ op[x] \in {"signout", "refreshToken"}
           /\ keyExpiry'[arg[x]] = 0 \/ arg[x] \in undeleted'
<1> USE DEF TypeOK, redisVars, requestVars, historyVars, localVars
<1>0. pc[x] = "endOne" => arg[x] \in Requests /\ op[x] \in {"signout", "refreshToken"}
  BY DEF EndingTracked
<1>1. ASSUME NEW r \in Requests, Handler(r) PROVE FALSE
  BY <1>1 DEF Handler, SignIn, SignOut, Refresh, RequestPasswordReset, ResetPassword, Begin,
              PastDel, Saving
<1>o. /\ op[x] = "signout" => pc[x] \in {"endOne"} \cup Ended
      /\ op[x] = "refreshToken" =>
           pc[x] \in {"getToken", "endOne", "create", "save", "saveError"} \cup Ended
  BY DEF EndingTracked
<1>2. ASSUME NEW r \in Requests, DeleteKey(r)
      PROVE  pc[x] = "endOne" /\ arg' = arg /\ keyExpiry'[arg[x]] = 0
  BY <1>0, <1>2 DEF DeleteKey, PastDel, Saving
<1>3. ASSUME NEW r \in Requests, Save(r) PROVE FALSE
  BY <1>o, <1>3 DEF Save, CreateRow, SetKey, AddToken, ExpireTokens, AnswerSave, PastDel,
                    Saving, Ended
<1>4. ASSUME NEW r \in Requests, EndOne(r), ~DeleteKey(r) PROVE FALSE
  BY <1>4 DEF EndOne, GetToken, RemoveToken, DeleteRow, SettleOne, PastDel, Saving
<1>5. ASSUME NEW r \in Requests, EndAll(r) PROVE FALSE
  BY <1>o, <1>5 DEF EndAll, DeleteResetToken, UpdatePassword, ReadTokens, DeleteTokens,
                    DeleteKeys, DeleteRows, SettleAll, PastDel, Saving, Ended
<1>6. ASSUME NEW r \in Requests, CommandFails(r)
      PROVE  pc[x] = "endOne" /\ arg' = arg /\ arg[x] \in undeleted'
  BY <1>6 DEF CommandFails, PastDel, Saving
<1>7. ASSUME Fault, ~\E r \in Requests : CommandFails(r) PROVE FALSE
  BY <1>7 DEF Fault, AwaitFails, DeleteKeys, Restart, PastDel, Saving, Awaits
<1>8. ASSUME Tick \/ UNCHANGED vars PROVE FALSE
  BY <1>8 DEF Tick, vars, PastDel, Saving
<1> QED
  BY <1>0, <1>1, <1>2, <1>3, <1>4, <1>5, <1>6, <1>7, <1>8 DEF Next

\* A step preserves what is known of the sessions that are ended.
LEMMA EndingStep ==
    ASSUME TypeOK, TypeOK', EndingTracked, [Next]_vars
    PROVE  EndingTracked'
<1> USE SessionAssumption
<1>1. ASSUME NEW x \in Requests, PastDel(x)'
      PROVE  keyExpiry'[arg'[x]] <= now' \/ arg'[x] \in undeleted'
  <2>1. CASE PastDel(x)
    <3>1. op[x] \in {"signout", "refreshToken"} /\ pc[x] # "new"
      BY <2>1 DEF PastDel, EndingTracked, None, Saving
    <3>2. arg'[x] = arg[x] /\ arg[x] \in Requests /\ pc[arg[x]] = "ok"
      BY <3>1, RequestsKept DEF EndingTracked
    <3>3. keyExpiry[arg[x]] <= now \/ arg[x] \in undeleted
      BY <2>1 DEF EndingTracked
    <3> QED
      BY <3>2, <3>3, KeysKept
  <2>2. CASE ~PastDel(x)
    <3>1. now' \in Nat
      BY DEF TypeOK
    <3> QED
      BY <1>1, <2>2, <3>1, PastDelReached
  <2> QED
    BY <2>1, <2>2
<1> QED
  BY <1>1, PresentedAnswered, OwnAwaits DEF EndingTracked

-----------------------------------------------------------------------------
(* Sessions that a reset finds *)

Dead(j) == keyExpiry[j] <= now

\* Nobody has to find the session any more: it is gone, about to be deleted, or one
\* of those that a reset may miss.
Settled(j) ==
    \/ Dead(j)
    \/ j \in overlapped \cup undeleted
    \/ \E r \in Requests : j \in Ending(r)

\* The set of the user and the table name the session as long as it lives.
Stored(j) == j \in rows /\ j \in tokens /\ listExpiry >= keyExpiry[j]

KeysBounded == \A j \in Requests : keyExpiry[j] <= now + SessionTtl

\* A session is put into the set once.
TokensKnown ==
    \A j \in tokens : pc[j] \in Ended \/ (Saving(j) /\ "list" \notin todo[j])

\* How far the saving of a session has come, unless a reset has overlapped with it.
SavingTracked ==
    \A j \in Requests : pc[j] = "save" =>
      /\ "key" \in todo[j] => "list" \in todo[j]
      /\ \/ j \in overlapped
         \/ /\ j \in rows
            /\ "list" \notin todo[j] =>
                 /\ j \in tokens
                 /\ listExpiry > now
                 /\ "expire" \notin todo[j] => listExpiry >= keyExpiry[j]

SignInAwaits ==
    \A r \in Requests :
      op[r] = "signin" => pc[r] \in {"create", "save", "saveError"} \cup Ended

AnsweredTracked == \A j \in Answered : Stored(j) \/ Settled(j)

\* While a reset deletes the sessions it has read, nothing else needs to be found.
ResetsTracked ==
    (\E r \in Requests : pc[r] = "endAll") =>
      /\ \A j \in Answered : Settled(j)
      /\ \A x \in Requests : Saving(x) => x \in overlapped

EarlierTracked ==
    \A r \in Requests : \A j \in earlier[r] : pc[j] = "ok" /\ Settled(j)

StoreInv ==
    /\ KeysBounded
    /\ TokensKnown
    /\ SavingTracked
    /\ SignInAwaits
    /\ AnsweredTracked
    /\ ResetsTracked
    /\ EarlierTracked

\* No request has begun initially.
LEMMA StoreInit == Init => StoreInv
BY SessionAssumption
DEF Init, StoreInv, KeysBounded, TokensKnown, SavingTracked, SignInAwaits,
    AnsweredTracked, Answered, ResetsTracked, EarlierTracked, None, Saving

\* A request is moved by its own steps and by a restart only.
LEMMA OwnStep ==
    ASSUME TypeOK, [Next]_vars, NEW x \in Requests
    PROVE  \/ pc'[x] = pc[x] /\ todo'[x] = todo[x] /\ op'[x] = op[x] /\ arg'[x] = arg[x]
              /\ jtis'[x] = jtis[x]
           \/ Handler(x) \/ Save(x) \/ EndOne(x) \/ EndAll(x)
           \/ AwaitFails(x) \/ CommandFails(x)
           \/ \E failed \in SUBSET jtis[x] : DeleteKeys(x, failed)
           \/ Restart
<1> DEFINE Same == pc'[x] = pc[x] /\ todo'[x] = todo[x] /\ op'[x] = op[x] /\ arg'[x] = arg[x]
                   /\ jtis'[x] = jtis[x]
<1> USE DEF TypeOK, requestVars, localVars
<1>1. ASSUME NEW r \in Requests, r # x, Handler(r)
      PROVE  Same
  BY <1>1 DEF Handler, SignIn, SignOut, Refresh, RequestPasswordReset, ResetPassword, Begin
<1>2. ASSUME NEW r \in Requests, r # x, Save(r)
      PROVE  Same
  BY <1>2 DEF Save, CreateRow, SetKey, AddToken, ExpireTokens, AnswerSave
<1>3. ASSUME NEW r \in Requests, r # x, EndOne(r)
      PROVE  Same
  BY <1>3 DEF EndOne, GetToken, DeleteKey, RemoveToken, DeleteRow, SettleOne
<1>4. ASSUME NEW r \in Requests, r # x, EndAll(r)
      PROVE  Same
  BY <1>4 DEF EndAll, DeleteResetToken, UpdatePassword, ReadTokens, DeleteTokens,
              DeleteKeys, DeleteRows, SettleAll
<1>5. ASSUME NEW r \in Requests, r # x, AwaitFails(r) \/ CommandFails(r)
      PROVE  Same
  BY <1>5 DEF AwaitFails, CommandFails
<1>6. ASSUME NEW r \in Requests, NEW failed, r # x, DeleteKeys(r, failed)
      PROVE  Same
  BY <1>6 DEF DeleteKeys
<1>7. ASSUME Tick \/ UNCHANGED vars
      PROVE  Same
  BY <1>7 DEF Tick, vars
<1> HIDE DEF Same
<1>8. ASSUME Fault
      PROVE  \/ Same \/ AwaitFails(x) \/ CommandFails(x) \/ Restart
             \/ \E failed \in SUBSET jtis[x] : DeleteKeys(x, failed)
  BY <1>5, <1>6, <1>8 DEF Fault
<1>9. ASSUME NEW r \in Requests, Handler(r) \/ Save(r) \/ EndOne(r) \/ EndAll(r)
      PROVE  Same \/ Handler(x) \/ Save(x) \/ EndOne(x) \/ EndAll(x)
  BY <1>1, <1>2, <1>3, <1>4, <1>9
<1> QED
  BY <1>7, <1>8, <1>9 DEF Same, Next

\* What changes the set, its expiry and the rows.
LEMMA StoreChanges ==
    ASSUME [Next]_vars
    PROVE  \/ UNCHANGED <<tokens, listExpiry, rows>>
           \/ \E r \in Requests :
                \/ CreateRow(r) \/ AddToken(r) \/ ExpireTokens(r)
                \/ RemoveToken(r) \/ DeleteRow(r) \/ DeleteTokens(r) \/ DeleteRows(r)
<1> USE DEF redisVars
<1>1. ASSUME NEW r \in Requests, Handler(r)
      PROVE  UNCHANGED <<tokens, listExpiry, rows>>
  BY <1>1 DEF Handler, SignIn, SignOut, Refresh, RequestPasswordReset, ResetPassword
<1>2. ASSUME NEW r \in Requests, SetKey(r) \/ AnswerSave(r)
      PROVE  UNCHANGED <<tokens, listExpiry, rows>>
  BY <1>2 DEF SetKey, AnswerSave
<1>3. ASSUME NEW r \in Requests, GetToken(r) \/ DeleteKey(r) \/ SettleOne(r)
      PROVE  UNCHANGED <<tokens, listExpiry, rows>>
  BY <1>3 DEF GetToken, DeleteKey, SettleOne
<1>4. ASSUME NEW r \in Requests, DeleteResetToken(r) \/ UpdatePassword(r) \/ ReadTokens(r) \/ SettleAll(r)
      PROVE  UNCHANGED <<tokens, listExpiry, rows>>
  BY <1>4 DEF DeleteResetToken, UpdatePassword, ReadTokens, SettleAll
<1>5. ASSUME NEW r \in Requests, NEW failed, DeleteKeys(r, failed)
      PROVE  UNCHANGED <<tokens, listExpiry, rows>>
  BY <1>5 DEF DeleteKeys
<1>6. ASSUME NEW r \in Requests, AwaitFails(r) \/ CommandFails(r)
      PROVE  UNCHANGED <<tokens, listExpiry, rows>>
  BY <1>6 DEF AwaitFails, CommandFails
<1>7. ASSUME Restart \/ Tick \/ UNCHANGED vars
      PROVE  UNCHANGED <<tokens, listExpiry, rows>>
  BY <1>7 DEF Restart, Tick, vars
<1>8. CASE Fault
  BY <1>5, <1>6, <1>7, <1>8 DEF Fault
<1>9. CASE \E r \in Requests : Handler(r) \/ Save(r) \/ EndOne(r) \/ EndAll(r)
  BY <1>1, <1>2, <1>3, <1>4, <1>5, <1>9 DEF Save, EndOne, EndAll
<1> QED
  BY <1>7, <1>8, <1>9 DEF Next

\* A key is set by the request that mints its session, and only time goes on.
LEMMA KeyChanges ==
    ASSUME TypeOK, [Next]_vars, NEW j \in Requests
    PROVE  /\ \/ keyExpiry'[j] \in {0, keyExpiry[j]}
              \/ SetKey(j) /\ keyExpiry'[j] = now + SessionTtl
           /\ now' >= now /\ now' \in Nat
           /\ now' # now => Tick
<1> USE SessionAssumption DEF TypeOK, redisVars
<1>0. now \in Nat
  OBVIOUS
<1>1. ASSUME NEW r \in Requests, SetKey(r)
      PROVE  /\ \/ keyExpiry'[j] = keyExpiry[j]
                \/ SetKey(j) /\ keyExpiry'[j] = now + SessionTtl
             /\ now' = now
  BY <1>1 DEF SetKey, Minted
<1>2. ASSUME NEW r \in Requests, DeleteKey(r)
      PROVE  keyExpiry'[j] \in {0, keyExpiry[j]} /\ now' = now
  BY <1>2 DEF DeleteKey
<1>3. ASSUME NEW r \in Requests, NEW failed, DeleteKeys(r, failed)
      PROVE  keyExpiry'[j] \in {0, keyExpiry[j]} /\ now' = now
  BY <1>3 DEF DeleteKeys
<1>4. ASSUME NEW r \in Requests, Handler(r)
      PROVE  keyExpiry' = keyExpiry /\ now' = now
  BY <1>4 DEF Handler, SignIn, SignOut, Refresh, RequestPasswordReset, ResetPassword
<1>5. ASSUME NEW r \in Requests, Save(r) \/ EndOne(r), ~SetKey(r), ~DeleteKey(r)
      PROVE  keyExpiry' = keyExpiry /\ now' = now
  BY <1>5 DEF Save, CreateRow, AddToken, ExpireTokens, AnswerSave,
              EndOne, GetToken, RemoveToken, DeleteRow, SettleOne
<1>6. ASSUME NEW r \in Requests, EndAll(r), ~DeleteKeys(r, {})
      PROVE  keyExpiry' = keyExpiry /\ now' = now
  BY <1>6 DEF EndAll, DeleteResetToken, UpdatePassword, ReadTokens, DeleteTokens, DeleteRows,
              SettleAll
<1>7. ASSUME NEW r \in Requests, AwaitFails(r) \/ CommandFails(r)
      PROVE  keyExpiry' = keyExpiry /\ now' = now
  BY <1>7 DEF AwaitFails, CommandFails
<1>8. ASSUME Restart \/ UNCHANGED vars
      PROVE  keyExpiry' = keyExpiry /\ now' = now
  BY <1>8 DEF Restart, vars
<1>9. CASE Tick
  BY <1>9 DEF Tick
<1> DEFINE Ok == /\ \/ keyExpiry'[j] \in {0, keyExpiry[j]}
                    \/ SetKey(j) /\ keyExpiry'[j] = now + SessionTtl
                 /\ now' = now
<1>10. ASSUME keyExpiry' = keyExpiry /\ now' = now
       PROVE  Ok
  BY <1>10
<1>11. ASSUME NEW r \in Requests, SetKey(r) \/ DeleteKey(r)
       PROVE  Ok
  BY <1>1, <1>2, <1>11
<1>12. ASSUME NEW r \in Requests, NEW failed, DeleteKeys(r, failed)
       PROVE  Ok
  BY <1>3, <1>12
<1> HIDE DEF Ok
<1>13. ASSUME Fault
       PROVE  Ok
  BY <1>7, <1>8, <1>10, <1>12, <1>13 DEF Fault
<1>14. ASSUME NEW r \in Requests, Handler(r) \/ Save(r) \/ EndOne(r) \/ EndAll(r)
       PROVE  Ok
  BY <1>4, <1>5, <1>6, <1>10, <1>11, <1>12, <1>14
<1>15. Ok \/ Tick
  BY <1>8, <1>10, <1>13, <1>14 DEF Next
<1>16. CASE Ok
  BY <1>0, <1>16 DEF Ok
<1> QED
  BY <1>9, <1>15, <1>16

\* What has been saved during a reset, or left by a del, is remembered.
LEMMA HistoryGrows ==
    ASSUME [Next]_vars
    PROVE  overlapped \subseteq overlapped' /\ undeleted \subseteq undeleted'
<1> USE DEF historyVars
<1>1. ASSUME NEW r \in Requests, Handler(r)
      PROVE  overlapped \subseteq overlapped' /\ undeleted \subseteq undeleted'
  BY <1>1 DEF Handler, SignIn, SignOut, Refresh, RequestPasswordReset, ResetPassword
<1>2. ASSUME NEW r \in Requests, Save(r) \/ EndOne(r)
      PROVE  overlapped \subseteq overlapped' /\ undeleted \subseteq undeleted'
  BY <1>2 DEF Save, CreateRow, SetKey, AddToken, ExpireTokens, AnswerSave,
              EndOne, GetToken, DeleteKey, RemoveToken, DeleteRow, SettleOne
<1>3. ASSUME NEW r \in Requests, EndAll(r)
      PROVE  overlapped \subseteq overlapped' /\ undeleted \subseteq undeleted'
  BY <1>3 DEF EndAll, DeleteResetToken, UpdatePassword, ReadTokens, DeleteTokens,
              DeleteKeys, DeleteRows, SettleAll
<1>4. ASSUME Fault \/ Tick \/ UNCHANGED vars
      PROVE  overlapped \subseteq overlapped' /\ undeleted \subseteq undeleted'
  BY <1>4 DEF Fault, AwaitFails, CommandFails, DeleteKeys, Restart, Tick, vars
<1> QED
  BY <1>1, <1>2, <1>3, <1>4 DEF Next

\* A session that a request is about to delete stays so until its key is deleted or
\* the del has failed.
LEMMA EndingKept ==
    ASSUME TypeOK, [Next]_vars, NEW x \in Requests, NEW j \in Ending(x), j \in Requests
    PROVE  j \in Ending(x)' \/ keyExpiry'[j] = 0 \/ j \in undeleted'
<1>0. /\ "key" \in todo[x]
      /\ (pc[x] = "endOne" /\ j = arg[x]) \/ (pc[x] = "endAll" /\ j \in jtis[x])
  <2>1. j \in Ending(x)
    OBVIOUS
  <2> QED
    BY <2>1, Zenon DEF Ending
<1> USE DEF TypeOK, requestVars
<1>1. CASE pc'[x] = pc[x] /\ todo'[x] = todo[x] /\ arg'[x] = arg[x] /\ jtis'[x] = jtis[x]
  BY <1>0, <1>1 DEF Ending
<1>2. CASE Handler(x) \/ Save(x)
  BY <1>0, <1>2 DEF Handler, SignIn, SignOut, Refresh, RequestPasswordReset, ResetPassword,
                    Begin, Save, CreateRow, SetKey, AddToken, ExpireTokens, AnswerSave, Saving
<1>3. CASE EndOne(x)
  <2>1. CASE DeleteKey(x)
    BY <1>0, <2>1 DEF DeleteKey
  <2>2. CASE RemoveToken(x) \/ DeleteRow(x)
    BY <1>0, <2>2 DEF RemoveToken, DeleteRow, Ending
  <2>3. CASE GetToken(x) \/ SettleOne(x)
    BY <1>0, <2>3 DEF GetToken, SettleOne
  <2> QED
    BY <1>3, <2>1, <2>2, <2>3 DEF EndOne
<1>4. ASSUME NEW failed \in SUBSET jtis[x], DeleteKeys(x, failed)
      PROVE  keyExpiry'[j] = 0 \/ j \in undeleted'
  BY <1>0, <1>4 DEF DeleteKeys
<1>5. CASE EndAll(x)
  <2>1. CASE DeleteTokens(x) \/ DeleteRows(x)
    BY <1>0, <2>1 DEF DeleteTokens, DeleteRows, Ending
  <2>2. CASE DeleteResetToken(x) \/ UpdatePassword(x) \/ ReadTokens(x) \/ SettleAll(x)
    BY <1>0, <2>2 DEF DeleteResetToken, UpdatePassword, ReadTokens, SettleAll
  <2>3. CASE DeleteKeys(x, {})
    BY <1>4, <2>3
  <2> QED
    BY <1>5, <2>1, <2>2, <2>3 DEF EndAll
<1>6. CASE AwaitFails(x)
  BY <1>0, <1>6 DEF AwaitFails
<1>7. CASE CommandFails(x)
  <2>1. PICK command \in todo[x] :
          /\ ~(pc[x] = "endAll" /\ command = "key")
          /\ todo' = [todo EXCEPT ![x] = @ \ {command}]
          /\ undeleted' = IF pc[x] = "endOne" /\ command = "key"
                          THEN undeleted \cup {arg[x]} ELSE undeleted
    BY <1>7 DEF CommandFails
  <2>2. /\ pc' = [pc EXCEPT ![x] = IF Saving(x) THEN "saveError" ELSE @]
        /\ arg' = arg /\ jtis' = jtis
    BY <1>7 DEF CommandFails
  <2>3. pc'[x] = pc[x]
    BY <1>0, <2>2 DEF Saving
  <2>4. CASE command = "key"
    BY <1>0, <2>1, <2>4
  <2>5. CASE command # "key"
    BY <1>0, <2>1, <2>2, <2>3, <2>5 DEF Ending
  <2> QED
    BY <2>4, <2>5
<1>8. CASE Restart
  BY <1>8 DEF Restart
<1> QED
  BY <1>1, <1>2, <1>3, <1>4, <1>5, <1>6, <1>7, <1>8, OwnStep

\* A session that was answered and need not be found any more stays so.
LEMMA SettledKept ==
    ASSUME TypeOK, TypeOK', [Next]_vars, NEW j \in Requests, pc[j] = "ok", Settled(j)
    PROVE  Settled(j)'
<1>1. CASE Dead(j)
  BY <1>1, KeysKept DEF Dead, Settled
<1>2. CASE j \in overlapped \cup undeleted
  BY <1>2, HistoryGrows DEF Settled
<1>3. ASSUME NEW x \in Requests, j \in Ending(x)
      PROVE  Settled(j)'
  <2>1. now' \in Nat
    BY DEF TypeOK
  <2>2. keyExpiry'[j] = 0 => Dead(j)'
    BY <2>1 DEF Dead
  <2> QED
    BY <1>3, <2>2, EndingKept DEF Settled
<1> QED
  BY <1>1, <1>2, <1>3 DEF Settled

\* A request is answered with a session when all commands of its saving have succeeded.
LEMMA NewlyAnswered ==
    ASSUME TypeOK, EndingTracked, SignInAwaits, [Next]_vars, NEW j \in Answered', j \notin Answered
    PROVE  pc[j] = "save" /\ todo[j] = {} /\ AnswerSave(j)
<1>0. /\ j \in Requests /\ op'[j] \in {"signin", "refreshToken"} /\ pc'[j] = "ok"
      /\ ~(op[j] \in {"signin", "refreshToken"} /\ pc[j] = "ok")
  BY DEF Answered
<1> USE DEF TypeOK, requestVars
<1>1. CASE pc'[j] = pc[j] /\ todo'[j] = todo[j] /\ op'[j] = op[j]
  BY <1>0, <1>1
<1>2. ASSUME Handler(j) PROVE FALSE
  BY <1>0, <1>2 DEF Handler, SignIn, SignOut, Refresh, RequestPasswordReset, ResetPassword,
                    Begin
<1>3. CASE Save(j)
  BY <1>0, <1>3 DEF Save, CreateRow, SetKey, AddToken, ExpireTokens, AnswerSave, Saving
<1>4. ASSUME EndOne(j) PROVE FALSE
  BY <1>0, <1>4 DEF EndOne, GetToken, DeleteKey, RemoveToken, DeleteRow, SettleOne
<1>5. ASSUME EndAll(j) PROVE FALSE
  <2>1. /\ op[j] = "signin" => pc[j] \in {"create", "save", "saveError"} \cup Ended
        /\ op[j] = "refreshToken" =>
             pc[j] \in {"getToken", "endOne", "create", "save", "saveError"} \cup Ended
    BY <1>0 DEF SignInAwaits, EndingTracked
  <2> QED
    BY <1>0, <1>5, <2>1 DEF EndAll, DeleteResetToken, UpdatePassword, ReadTokens,
                            DeleteTokens, DeleteKeys, DeleteRows, SettleAll, Ended
<1>6. ASSUME AwaitFails(j) \/ CommandFails(j) \/ Restart PROVE FALSE
  BY <1>0, <1>6 DEF AwaitFails, CommandFails, Restart, Saving, Awaits
<1>7. ASSUME NEW failed, DeleteKeys(j, failed) PROVE FALSE
  BY <1>0, <1>7 DEF DeleteKeys
<1> QED
  BY <1>0, <1>1, <1>2, <1>3, <1>4, <1>5, <1>6, <1>7, OwnStep

\* A request stays on the awaits of a sign-in.
LEMMA SignInStep ==
    ASSUME TypeOK, SignInAwaits, EndingTracked, [Next]_vars
    PROVE  SignInAwaits'
<1> SUFFICES ASSUME NEW x \in Requests, op'[x] = "signin"
             PROVE  pc'[x] \in {"create", "save", "saveError"} \cup Ended
  BY DEF SignInAwaits
<1>0. /\ op[x] = "signin" => pc[x] \in {"create", "save", "saveError"} \cup Ended
      /\ pc[x] = "endOne" => op[x] # "signin"
  BY DEF SignInAwaits, EndingTracked
<1> USE DEF TypeOK, requestVars, Ended
<1>1. CASE pc'[x] = pc[x] /\ op'[x] = op[x]
  BY <1>0, <1>1
<1>2. CASE Handler(x)
  BY <1>0, <1>2 DEF Handler, SignIn, SignOut, Refresh, RequestPasswordReset, ResetPassword,
                    Begin
<1>3. CASE Save(x)
  BY <1>0, <1>3 DEF Save, CreateRow, SetKey, AddToken, ExpireTokens, AnswerSave, Saving
<1>4. CASE EndOne(x)
  BY <1>0, <1>4 DEF EndOne, GetToken, DeleteKey, RemoveToken, DeleteRow, SettleOne
<1>5. CASE EndAll(x)
  BY <1>0, <1>5 DEF EndAll, DeleteResetToken, UpdatePassword, ReadTokens,
                    DeleteTokens, DeleteKeys, DeleteRows, SettleAll
<1>6. CASE AwaitFails(x) \/ CommandFails(x) \/ Restart
  BY <1>0, <1>6 DEF AwaitFails, CommandFails, Restart, Saving, Awaits
<1>7. ASSUME NEW failed, DeleteKeys(x, failed)
      PROVE  pc'[x] \in {"create", "save", "saveError"} \cup Ended
  BY <1>0, <1>7 DEF DeleteKeys
<1> QED
  BY <1>1, <1>2, <1>3, <1>4, <1>5, <1>6, <1>7, OwnStep

\* A key expires one life of a session after some time that has passed.
LEMMA KeysStep ==
    ASSUME TypeOK, KeysBounded, [Next]_vars
    PROVE  KeysBounded'
<1> SUFFICES ASSUME NEW j \in Requests
             PROVE  keyExpiry'[j] <= now' + SessionTtl
  BY DEF KeysBounded
<1>1. keyExpiry[j] <= now + SessionTtl /\ keyExpiry[j] \in Nat /\ now \in Nat
      /\ SessionTtl \in Nat
  BY SessionAssumption DEF KeysBounded, TypeOK
<1>2. keyExpiry'[j] \in {0, keyExpiry[j], now + SessionTtl} /\ now' >= now /\ now' \in Nat
  BY KeyChanges
<1> QED
  BY <1>1, <1>2

\* A request that is saving a session goes on or ends, and one that has ended stays
\* ended; the command that puts the session into the set is sent once.
LEMMA SavingGoesOn ==
    ASSUME TypeOK, [Next]_vars, NEW x \in Requests
    PROVE  /\ pc[x] \in Ended => pc'[x] \in Ended
           /\ Saving(x) => pc'[x] \in Ended \/ (Saving(x)' /\ ("list" \in todo'[x] => "list" \in todo[x]))
           /\ pc'[x] = "save" => pc[x] = "save" \/ CreateRow(x)
           /\ Saving(x)' => Saving(x) \/ CreateRow(x)
<1> USE DEF TypeOK, requestVars, Ended, Saving
<1>1. CASE pc'[x] = pc[x] /\ todo'[x] = todo[x]
  BY <1>1
<1>2. CASE Handler(x)
  BY <1>2 DEF Handler, SignIn, SignOut, Refresh, RequestPasswordReset, ResetPassword,
              Begin
<1>3. CASE Save(x)
  BY <1>3 DEF Save, CreateRow, SetKey, AddToken, ExpireTokens, AnswerSave
<1>4. CASE EndOne(x)
  BY <1>4 DEF EndOne, GetToken, DeleteKey, RemoveToken, DeleteRow, SettleOne
<1>5. CASE EndAll(x)
  BY <1>5 DEF EndAll, DeleteResetToken, UpdatePassword, ReadTokens,
              DeleteTokens, DeleteKeys, DeleteRows, SettleAll
<1>6. CASE AwaitFails(x) \/ CommandFails(x) \/ Restart
  BY <1>6 DEF AwaitFails, CommandFails, Restart, Awaits
<1>7. ASSUME NEW failed, DeleteKeys(x, failed)
      PROVE  /\ pc[x] \in Ended => pc'[x] \in Ended
             /\ Saving(x) => pc'[x] \in Ended \/ (Saving(x)' /\ ("list" \in todo'[x] => "list" \in todo[x]))
             /\ pc'[x] = "save" => pc[x] = "save" \/ CreateRow(x)
             /\ Saving(x)' => Saving(x) \/ CreateRow(x)
  BY <1>7 DEF DeleteKeys
<1> QED
  BY <1>1, <1>2, <1>3, <1>4, <1>5, <1>6, <1>7, OwnStep

\* Only a request that saves its session puts it into the set.
LEMMA TokensStep ==
    ASSUME TypeOK, TokensKnown, [Next]_vars
    PROVE  TokensKnown'
<1> SUFFICES ASSUME NEW j \in tokens'
             PROVE  pc'[j] \in Ended \/ (Saving(j)' /\ "list" \notin todo'[j])
  BY DEF TokensKnown
<1>1. CASE j \in tokens
  <2>1. j \in Requests /\ (pc[j] \in Ended \/ (Saving(j) /\ "list" \notin todo[j]))
    BY <1>1 DEF TokensKnown, TypeOK
  <2> QED
    BY <2>1, SavingGoesOn
<1>2. CASE j \notin tokens
  <2>1. PICK r \in Requests : AddToken(r) /\ j = r
    BY <1>2, StoreChanges DEF CreateRow, AddToken, ExpireTokens, RemoveToken, DeleteRow,
                              DeleteTokens, DeleteRows, Members, Minted, redisVars
  <2> QED
    BY <2>1 DEF AddToken, Saving, TypeOK, requestVars
<1> QED
  BY <1>1, <1>2

\* What happens to the set and the table while no reset is deleting: a session stays
\* in both unless a request ends it, as long as the set has not expired.
LEMMA StoreKept ==
    ASSUME TypeOK, KeysBounded, [Next]_vars, NEW j \in Requests,
           \A r \in Requests : pc[r] # "endAll",
           \A r \in Requests : pc[r] = "endOne" => arg[r] # j
    PROVE  /\ j \in rows => j \in rows'
           /\ j \in tokens /\ listExpiry > now =>
                /\ j \in tokens'
                /\ \/ listExpiry' = listExpiry
                   \/ listExpiry' = now + SessionTtl
<1>1. CASE UNCHANGED <<tokens, listExpiry, rows>>
  BY <1>1
<1>2. ASSUME NEW r \in Requests, CreateRow(r)
      PROVE  /\ rows \subseteq rows' /\ tokens' = tokens /\ listExpiry' = listExpiry
  BY <1>2 DEF CreateRow, redisVars
<1>3. ASSUME NEW r \in Requests, AddToken(r)
      PROVE  /\ rows' = rows
             /\ j \in tokens /\ listExpiry > now => j \in tokens' /\ listExpiry' = listExpiry
  BY <1>3 DEF AddToken, Members
<1>4. ASSUME NEW r \in Requests, ExpireTokens(r)
      PROVE  /\ rows' = rows /\ tokens' = tokens
             /\ listExpiry' \in {listExpiry, now + SessionTtl}
  BY <1>4 DEF ExpireTokens
<1>5. ASSUME NEW r \in Requests, RemoveToken(r) \/ DeleteRow(r)
      PROVE  /\ j \in rows => j \in rows'
             /\ j \in tokens => j \in tokens'
             /\ listExpiry' = listExpiry
  BY <1>5 DEF RemoveToken, DeleteRow, redisVars
<1>6. ASSUME NEW r \in Requests, DeleteTokens(r) \/ DeleteRows(r)
      PROVE  FALSE
  BY <1>6 DEF DeleteTokens, DeleteRows
<1> QED
  BY <1>1, <1>2, <1>3, <1>4, <1>5, <1>6, StoreChanges

\* An answered session is found by a reset until it is settled.
LEMMA AnsweredKept ==
    ASSUME TypeOK, TypeOK', EndingTracked, KeysBounded, ResetsTracked, [Next]_vars,
           NEW j \in Answered, Stored(j) \/ Settled(j)
    PROVE  Stored(j)' \/ Settled(j)'
<1>0. j \in Requests /\ pc[j] = "ok"
  BY DEF Answered
<1>1. CASE Settled(j)
  BY <1>0, <1>1, SettledKept
<1>2. CASE ~Settled(j)
  <2>1. \A r \in Requests : pc[r] # "endAll"
    BY <1>2 DEF ResetsTracked
  <2>2. ASSUME NEW r \in Requests, pc[r] = "endOne", arg[r] = j
        PROVE  FALSE
    <3>1. CASE "key" \in todo[r]
      BY <1>2, <2>2, <3>1 DEF Ending, Settled
    <3>2. CASE "key" \notin todo[r]
      BY <1>2, <2>2, <3>2 DEF EndingTracked, PastDel, Settled, Dead
    <3> QED
      BY <3>1, <3>2
  <2>3. keyExpiry[j] \in Nat /\ now \in Nat /\ listExpiry \in Nat /\ SessionTtl \in Nat
    BY <1>0, SessionAssumption DEF TypeOK, Forever
  <2>4. keyExpiry[j] > now /\ keyExpiry[j] <= now + SessionTtl
        /\ listExpiry >= keyExpiry[j] /\ j \in tokens /\ j \in rows
    BY <1>0, <1>2, <2>3 DEF Settled, Dead, Stored, KeysBounded
  <2>5. listExpiry > now
    BY <2>3, <2>4
  <2>6. keyExpiry'[j] \in {0, keyExpiry[j]}
    BY <1>0, KeyChanges DEF SetKey, Saving
  <2>7. /\ j \in rows' /\ j \in tokens'
        /\ listExpiry' = listExpiry \/ listExpiry' = now + SessionTtl
    BY <1>0, <2>1, <2>2, <2>4, <2>5, StoreKept
  <2>8. listExpiry' >= keyExpiry'[j]
    BY <2>3, <2>4, <2>6, <2>7
  <2> QED
    BY <2>7, <2>8 DEF Stored
<1> QED
  BY <1>1, <1>2

\* A session that is answered has been stored, unless a reset has overlapped.
LEMMA AnsweredStep ==
    ASSUME TypeOK, TypeOK', EndingTracked, StoreInv, [Next]_vars
    PROVE  AnsweredTracked'
<1> SUFFICES ASSUME NEW j \in Answered'
             PROVE  Stored(j)' \/ Settled(j)'
  BY DEF AnsweredTracked
<1>1. CASE j \in Answered
  BY <1>1, AnsweredKept DEF StoreInv, AnsweredTracked
<1>2. CASE j \notin Answered
  <2>1. pc[j] = "save" /\ todo[j] = {} /\ AnswerSave(j) /\ j \in Requests
    BY <1>2, NewlyAnswered DEF StoreInv, Answered
  <2>2. /\ j \in overlapped \/ (j \in rows /\ j \in tokens /\ listExpiry >= keyExpiry[j])
    BY <2>1 DEF StoreInv, SavingTracked
  <2>3. UNCHANGED <<keyExpiry, tokens, listExpiry, rows, overlapped, undeleted>>
    BY <2>1 DEF AnswerSave, redisVars, historyVars
  <2> QED
    BY <2>2, <2>3 DEF Stored, Settled
<1> QED
  BY <1>1, <1>2

\* A saving that no reset overlaps leaves its session in the set and the table.
LEMMA SavingStep ==
    ASSUME TypeOK, TypeOK', EndingTracked, StoreInv, [Next]_vars
    PROVE  SavingTracked'
<1> SUFFICES ASSUME NEW j \in Requests, pc'[j] = "save"
             PROVE  /\ "key" \in todo'[j] => "list" \in todo'[j]
                    /\ \/ j \in overlapped'
                       \/ /\ j \in rows'
                          /\ "list" \notin todo'[j] =>
                               /\ j \in tokens'
                               /\ listExpiry' > now'
                               /\ "expire" \notin todo'[j] => listExpiry' >= keyExpiry'[j]
  BY DEF SavingTracked
<1> USE DEF requestVars
<1>1. CASE CreateRow(j)
  BY <1>1 DEF CreateRow, Minted, TypeOK
<1>2. CASE pc[j] = "save"
  <2>0. /\ now \in Nat /\ listExpiry \in Nat /\ keyExpiry[j] \in Nat /\ SessionTtl \in Nat
        /\ SessionTtl > 0 /\ now < Forever
        /\ keyExpiry[j] <= now + SessionTtl
        /\ now + SessionTtl < Forever
    BY SessionAssumption DEF TypeOK, Forever, StoreInv, KeysBounded
  <2>1. /\ "key" \in todo[j] => "list" \in todo[j]
        /\ \/ j \in overlapped
           \/ /\ j \in rows
              /\ "list" \notin todo[j] =>
                   /\ j \in tokens
                   /\ listExpiry > now
                   /\ "expire" \notin todo[j] => listExpiry >= keyExpiry[j]
    BY <1>2 DEF StoreInv, SavingTracked
  <2>2. pc[j] \notin {"endAll", "endOne", "ok", "new"} /\ Saving(j)
    BY <1>2 DEF Saving
  <2>3. now' = now
    <3>1. ~Tick
      BY <1>2 DEF Tick, Awaits
    <3> QED
      BY <3>1, KeyChanges
  <2>4. \A r \in Requests : pc[r] = "endOne" => arg[r] # j
    BY <2>2 DEF EndingTracked
  <2>5. j \in overlapped \/ \A r \in Requests : pc[r] # "endAll"
    BY <2>2 DEF StoreInv, ResetsTracked
  <2>6. j \notin overlapped =>
          /\ j \in rows'
          /\ j \in tokens /\ listExpiry > now =>
               /\ j \in tokens'
               /\ listExpiry' = listExpiry \/ listExpiry' = now + SessionTtl
    BY <2>1, <2>4, <2>5, StoreKept DEF StoreInv
  <2>7. j \in overlapped => j \in overlapped'
    BY HistoryGrows
  <2>8. "list" \in todo[j] => j \notin tokens
    BY <1>2 DEF StoreInv, TokensKnown, Ended
  <2>9. CASE todo'[j] = todo[j]
    <3>1. keyExpiry'[j] \in {0, keyExpiry[j]} \/ "key" \in todo[j]
      BY KeyChanges DEF SetKey
    <3> QED
      BY <2>0, <2>1, <2>3, <2>6, <2>7, <2>9, <3>1
  <2>10. CASE SetKey(j)
    <3>1. "list" \in todo'[j] /\ "key" \in todo[j] /\ "list" \in todo[j]
      BY <2>1, <2>10 DEF SetKey, TypeOK
    <3> QED
      BY <2>1, <2>6, <2>7, <3>1
  <2>11. CASE AddToken(j)
    <3>1. "list" \in todo[j] /\ "key" \notin todo[j] /\ j \notin Members
      BY <2>8, <2>11 DEF AddToken, Members
    <3>2. "key" \notin todo'[j] /\ "expire" \in todo'[j]
      BY <2>11, <3>1 DEF AddToken, TypeOK, Minted
    <3>3. j \in tokens' /\ listExpiry' > now
      BY <2>0, <2>11 DEF AddToken, Members, Minted
    <3> QED
      BY <2>1, <2>3, <2>6, <2>7, <3>2, <3>3
  <2>12. CASE ExpireTokens(j)
    <3>1. /\ todo'[j] = todo[j] \ {"expire"}
          /\ listExpiry' = IF Members = {} THEN listExpiry ELSE now + SessionTtl
          /\ keyExpiry' = keyExpiry /\ tokens' = tokens /\ rows' = rows
          /\ overlapped' = overlapped
      BY <2>12 DEF ExpireTokens, TypeOK, historyVars
    <3>2. j \in tokens /\ listExpiry > now => listExpiry' = now + SessionTtl
      BY <3>1 DEF Members
    <3>3. now + SessionTtl > now /\ now + SessionTtl >= keyExpiry[j]
      BY <2>0
    <3> QED
      BY <2>1, <2>3, <3>1, <3>2, <3>3
  <2>13. ASSUME AnswerSave(j) \/ CreateRow(j)
         PROVE  FALSE
    BY <1>2, <2>13 DEF AnswerSave, CreateRow, TypeOK
  <2>14. ASSUME Handler(j) \/ EndOne(j)
         PROVE  FALSE
    BY <1>2, <2>14 DEF Handler, SignIn, SignOut, Refresh, RequestPasswordReset,
                       ResetPassword, Begin, EndOne, GetToken, DeleteKey, RemoveToken,
                       DeleteRow, SettleOne
  <2>15. ASSUME EndAll(j) \/ AwaitFails(j) \/ CommandFails(j) \/ Restart
         PROVE  FALSE
    BY <1>2, <2>15 DEF EndAll, DeleteResetToken, UpdatePassword, ReadTokens,
                       DeleteTokens, DeleteKeys, DeleteRows, SettleAll, AwaitFails,
                       CommandFails, Restart, Awaits, Saving, TypeOK
  <2>16. ASSUME NEW failed, DeleteKeys(j, failed)
         PROVE  FALSE
    BY <1>2, <2>16 DEF DeleteKeys
  <2>17. Save(j) => SetKey(j) \/ AddToken(j) \/ ExpireTokens(j) \/ AnswerSave(j) \/ CreateRow(j)
    BY DEF Save
  <2> QED
    BY <2>9, <2>10, <2>11, <2>12, <2>13, <2>14, <2>15, <2>16, <2>17, OwnStep
<1> QED
  BY <1>1, <1>2, SavingGoesOn

\* When a reset reads the set it finds whatever is stored, and marks what is being
\* saved; until it has deleted everything, what is saved is marked as well.
LEMMA ResetsStep ==
    ASSUME TypeOK, TypeOK', EndingTracked, StoreInv, [Next]_vars
    PROVE  ResetsTracked'
<1> SUFFICES ASSUME NEW r \in Requests, pc'[r] = "endAll"
             PROVE  /\ \A j \in Answered' : Settled(j)'
                    /\ \A x \in Requests : Saving(x)' => x \in overlapped'
  BY DEF ResetsTracked
<1> USE DEF requestVars, historyVars
<1>1. CASE \E q \in Requests : pc[q] = "endAll"
  <2>0. PICK q \in Requests : pc[q] = "endAll"
    BY <1>1
  <2>1. /\ \A j \in Answered : Settled(j)
        /\ \A x \in Requests : Saving(x) => x \in overlapped
    BY <2>0 DEF StoreInv, ResetsTracked
  <2>2. ASSUME NEW j \in Answered'
        PROVE  Settled(j)'
    <3>1. CASE j \in Answered
      BY <2>1, <3>1, SettledKept DEF Answered
    <3>2. CASE j \notin Answered
      <4>1. pc[j] = "save" /\ j \in Requests
        BY <3>2, NewlyAnswered DEF StoreInv, Answered
      <4>2. j \in overlapped'
        BY <2>1, <4>1, HistoryGrows DEF Saving
      <4> QED
        BY <4>2 DEF Settled
    <3> QED
      BY <3>1, <3>2
  <2>3. ASSUME NEW x \in Requests, Saving(x)'
        PROVE  x \in overlapped'
    <3>1. CASE Saving(x)
      BY <2>1, <3>1, HistoryGrows
    <3>2. CASE CreateRow(x)
      BY <2>0, <3>2 DEF CreateRow, Minted
    <3> QED
      BY <2>3, <3>1, <3>2, SavingGoesOn
  <2> QED
    BY <2>2, <2>3
<1>2. CASE \A q \in Requests : pc[q] # "endAll"
  <2>1. ReadTokens(r)
    <3> USE DEF TypeOK
    <3>1. pc[r] # "endAll" /\ pc'[r] = "endAll"
      BY <1>2
    <3>2. ~Handler(r)
      BY <3>1 DEF Handler, SignIn, SignOut, Refresh, RequestPasswordReset, ResetPassword, Begin
    <3>3. ~(Save(r) \/ EndOne(r))
      BY <3>1 DEF Save, CreateRow, SetKey, AddToken, ExpireTokens, AnswerSave, Saving,
                  EndOne, GetToken, DeleteKey, RemoveToken, DeleteRow, SettleOne
    <3>4. EndAll(r) => ReadTokens(r)
      BY <3>1 DEF EndAll, DeleteResetToken, UpdatePassword, DeleteTokens, DeleteKeys,
                  DeleteRows, SettleAll
    <3>5. ~(AwaitFails(r) \/ CommandFails(r) \/ Restart)
      BY <3>1 DEF AwaitFails, CommandFails, Restart, Saving, Awaits
    <3>6. \A failed : ~DeleteKeys(r, failed)
      BY <3>1 DEF DeleteKeys
    <3> QED
      BY <3>1, <3>2, <3>3, <3>4, <3>5, <3>6, OwnStep
  <2>2. /\ jtis'[r] = Members /\ "key" \in todo'[r]
        /\ overlapped' = overlapped \cup {x \in Requests : Saving(x)}
        /\ \A x \in Requests \ {r} : pc'[x] = pc[x]
        /\ op' = op /\ keyExpiry' = keyExpiry /\ now' = now
    BY <2>1 DEF ReadTokens, TypeOK, redisVars
  <2>3. Members \subseteq Ending(r)'
    BY <1>2, <2>2 DEF Ending
  <2>4. ASSUME NEW j \in Answered'
        PROVE  Settled(j)'
    <3>1. j \in Answered
      BY <2>2, <2>4 DEF Answered
    <3>2. CASE Settled(j)
      BY <3>1, <3>2, SettledKept DEF Answered
    <3>3. CASE Stored(j) /\ ~Dead(j)
      <4>1. keyExpiry[j] \in Nat /\ now \in Nat /\ listExpiry \in Nat
        BY <3>1, SessionAssumption DEF TypeOK, Forever, Answered
      <4>2. listExpiry > now
        BY <3>3, <4>1 DEF Stored, Dead
      <4>3. j \in Members
        BY <3>3, <4>2 DEF Members, Stored
      <4> QED
        BY <2>3, <4>3 DEF Settled
    <3> QED
      BY <3>1, <3>2, <3>3 DEF StoreInv, AnsweredTracked, Settled
  <2>5. ASSUME NEW x \in Requests, Saving(x)'
        PROVE  x \in overlapped'
    BY <2>2, <2>5 DEF Saving
  <2> QED
    BY <2>4, <2>5
<1> QED
  BY <1>1, <1>2

\* What had been answered when a reset read the set stays settled.
LEMMA EarlierStep ==
    ASSUME TypeOK, TypeOK', EndingTracked, StoreInv, [Next]_vars
    PROVE  EarlierTracked'
<1> SUFFICES ASSUME NEW r \in Requests, NEW j \in earlier'[r]
             PROVE  pc'[j] = "ok" /\ Settled(j)'
  BY DEF EarlierTracked
<1>1. CASE j \in earlier[r]
  <2>1. j \in Requests /\ pc[j] = "ok" /\ Settled(j)
    BY <1>1 DEF StoreInv, EarlierTracked, TypeOK
  <2> QED
    BY <2>1, RequestsKept, SettledKept
<1>2. CASE j \notin earlier[r]
  <2>1. ReadTokens(r)
    <3> USE DEF historyVars, TypeOK
    <3>1. ASSUME NEW q \in Requests, ReadTokens(q)
          PROVE  q = r
      BY <1>2, <3>1 DEF ReadTokens
    <3>2. earlier' # earlier
      BY <1>2
    <3>3. ASSUME NEW q \in Requests, Handler(q)
          PROVE  FALSE
      BY <3>2, <3>3 DEF Handler, SignIn, SignOut, Refresh, RequestPasswordReset, ResetPassword
    <3>4. ASSUME NEW q \in Requests, Save(q) \/ EndOne(q)
          PROVE  FALSE
      BY <3>2, <3>4 DEF Save, CreateRow, SetKey, AddToken, ExpireTokens, AnswerSave,
                  EndOne, GetToken, DeleteKey, RemoveToken, DeleteRow, SettleOne
    <3>5. ASSUME NEW q \in Requests, EndAll(q)
          PROVE  ReadTokens(q)
      BY <3>2, <3>5 DEF EndAll, DeleteResetToken, UpdatePassword, DeleteTokens, DeleteKeys,
                  DeleteRows, SettleAll
    <3>6. ~(Fault \/ Tick \/ UNCHANGED vars)
      BY <3>2 DEF Fault, AwaitFails, CommandFails, DeleteKeys, Restart, Tick, vars
    <3> QED
      BY <3>1, <3>3, <3>4, <3>5, <3>6 DEF Next
  <2>2. j \in Answered /\ j \in Requests
    BY <1>2, <2>1 DEF ReadTokens, Answered, TypeOK
  <2>3. pc'[j] = "ok"
    BY <2>2, RequestsKept DEF Answered
  <2>4. j \in Answered' /\ pc'[r] = "endAll"
    BY <2>1, <2>2, <2>3 DEF ReadTokens, Answered, TypeOK
  <2>5. ResetsTracked'
    BY ResetsStep
  <2> QED
    BY <2>3, <2>4, <2>5 DEF ResetsTracked
<1> QED
  BY <1>1, <1>2

\* Every step keeps what is known of the stored sessions.
LEMMA StoreStep ==
    ASSUME TypeOK, TypeOK', EndingTracked, StoreInv, [Next]_vars
    PROVE  StoreInv'
<1>1. KeysBounded' /\ TokensKnown' /\ SignInAwaits'
  BY KeysStep, TokensStep, SignInStep DEF StoreInv
<1>2. SavingTracked' /\ AnsweredTracked' /\ ResetsTracked' /\ EarlierTracked'
  BY SavingStep, AnsweredStep, ResetsStep, EarlierStep
<1> QED
  BY <1>1, <1>2 DEF StoreInv

-----------------------------------------------------------------------------
(* Theorems *)

Inv == TypeOK /\ ResetTracked /\ ResetTokenSpent /\ EndingTracked

\* The invariant holds in every reachable state.
LEMMA InvHolds == Spec => []Inv
<1>1. Init => Inv
  BY InitOK DEF Inv, Init, ResetTokenSpent
<1>2. Inv /\ [Next]_vars => Inv'
  BY TypeStep, ResetStep, EndingStep DEF Inv
<1> QED
  BY <1>1, <1>2, PTL DEF Spec

\* TypeOK for any number of requests.
THEOREM TypeCorrect == Spec => []TypeOK
BY InvHolds, PTL DEF Inv

\* A reset token that has changed the password is not found again (resetPassword).
THEOREM ResetTokensSpent == Spec => []ResetTokenSpent
BY InvHolds, PTL DEF Inv

\* A session that was signed out or replaced stays ended (signout, refreshToken).
THEOREM EndedStayEnded == Spec => []EndedStaysEnded
<1>1. Inv => EndedStaysEnded
  BY SessionAssumption DEF Inv, EndingTracked, EndedStaysEnded, PastDel, Live, TypeOK
<1> QED
  BY <1>1, InvHolds, PTL

\* The sessions that a reset finds are tracked in every reachable state.
LEMMA StoreHolds == Spec => [](TypeOK /\ StoreInv)
<1>1. Inv /\ Inv' /\ StoreInv /\ [Next]_vars => StoreInv'
  BY StoreStep DEF Inv
<1>2. Init /\ [][Next]_vars => []Inv
  BY InvHolds DEF Spec
<1>3. Inv => TypeOK
  BY DEF Inv
<1> QED
  BY <1>1, <1>2, <1>3, StoreInit, PTL DEF Spec

\* The set of a user names every session a client has, and so does the table, but for
\* those saved during a reset or left by a failed del (saveRefreshToken, resetPassword).
THEOREM SessionsStayTracked == Spec => []SessionsTracked
<1>1. TypeOK /\ StoreInv => SessionsTracked
  <2> SUFFICES ASSUME TypeOK, StoreInv, NEW j \in Answered \cap Live
               PROVE  \/ j \in Members \cap rows
                      \/ j \in overlapped \cup undeleted
                      \/ \E r \in Requests : j \in Ending(r)
    BY DEF SessionsTracked
  <2>1. j \in Requests /\ keyExpiry[j] > now
    BY DEF Live
  <2>2. keyExpiry[j] \in Nat /\ now \in Nat /\ listExpiry \in Nat
    BY <2>1, SessionAssumption DEF TypeOK, Forever
  <2>3. ~Dead(j)
    BY <2>1, <2>2 DEF Dead
  <2>4. Stored(j) => j \in Members \cap rows
    BY <2>1, <2>2 DEF Stored, Members
  <2> QED
    BY <2>3, <2>4 DEF StoreInv, AnsweredTracked, Settled
<1> QED
  BY <1>1, StoreHolds, PTL

\* A reset signs out every session that had been answered when it read the set, but
\* for those a reset may miss (resetPassword over deleteAllRefreshTokens).
THEOREM ResetsEndSessions == Spec => []ResetEndsSessions
<1>1. TypeOK /\ StoreInv => ResetEndsSessions
  <2> SUFFICES ASSUME TypeOK, StoreInv, NEW r \in Requests, NEW j \in earlier[r] \cap Live
               PROVE  j \in overlapped \cup undeleted \cup UNION {Ending(x) : x \in Requests}
    BY DEF ResetEndsSessions
  <2>1. ~Dead(j)
    <3>1. j \in Requests /\ keyExpiry[j] > now
      BY DEF Live
    <3>2. keyExpiry[j] \in Nat /\ now \in Nat
      BY <3>1, SessionAssumption DEF TypeOK
    <3> QED
      BY <3>1, <3>2 DEF Dead
  <2>2. Settled(j)
    BY DEF StoreInv, EarlierTracked
  <2> QED
    BY <2>1, <2>2 DEF Settled
<1> QED
  BY <1>1, StoreHolds, PTL

=============================================================================
