---------------------------- MODULE Access_proofs ----------------------------
(***************************************************************************)
(* Who may get in, for any number of users, requests, tabs and tokens: an  *)
(* administrator remains, the cookie of a browser at rest is of a live     *)
(* session, and rotation makes no sessions of its own.                     *)
(***************************************************************************)
EXTENDS AuthSession, UserAdmin, FiniteSetTheorems, TLAPS

(***************************************************************************)
(* Users.  An update that is alone knows the row it is about to write, and *)
(* if it takes an administrator away it has seen another one.              *)
(***************************************************************************)
TargetsKnown == \A r \in Running : ask[r].target \in known

Knows(r) ==
  /\ step[r] \in {"check", "write"} =>
       /\ read[r].role = role[ask[r].target]
       /\ read[r].active = IF ask[r].target \in active THEN "yes" ELSE "no"
  /\ step[r] = "write" /\ LosesAdmin(r) => \E a \in ActiveAdmins : a # ask[r].target

Governed ==
  /\ known # {} => ActiveAdmins # {}
  /\ \A r, s \in Running : r = s
  /\ \A r \in Running : Knows(r)

UserInv == UserTypeOK /\ TargetsKnown /\ (~crossed => Governed)

UpdateAction(r) ==
  \/ RequireAdmin(r) \/ LoadUser(r) \/ AssertLastActiveAdminPreserved(r)
  \/ UpdateRow(r) \/ CreateUser(r)

LEMMA UserTypeStep ==
  UserTypeOK /\ TargetsKnown /\ [UserNext]_userVars => UserTypeOK' /\ TargetsKnown'
<1> SUFFICES ASSUME UserTypeOK, TargetsKnown, [UserNext]_userVars
             PROVE  UserTypeOK' /\ TargetsKnown'
  OBVIOUS
<1> USE UserAssumption DEF UserTypeOK, Roles, TargetsKnown, Running
<1>1. ASSUME NEW l \in Logins, CountUsers(l) PROVE UserTypeOK' /\ TargetsKnown'
  BY <1>1 DEF CountUsers
<1>2. ASSUME NEW l \in Logins, CreateBoss(l) PROVE UserTypeOK' /\ TargetsKnown'
  BY <1>2 DEF CreateBoss
<1>3. ASSUME NEW r \in Updates, RequireAdmin(r) PROVE UserTypeOK' /\ TargetsKnown'
  BY <1>3 DEF RequireAdmin
<1>4. ASSUME NEW r \in Updates, LoadUser(r) PROVE UserTypeOK' /\ TargetsKnown'
  <2>1. ask[r].target \in Users
    BY DEF Asks
  <2> QED BY <1>4, <2>1 DEF LoadUser
<1>5. ASSUME NEW r \in Updates, AssertLastActiveAdminPreserved(r)
      PROVE  UserTypeOK' /\ TargetsKnown'
  BY <1>5 DEF AssertLastActiveAdminPreserved
<1>6. ASSUME NEW r \in Updates, UpdateRow(r) PROVE UserTypeOK' /\ TargetsKnown'
  <2>1. ask[r].target \in known /\ WrittenRole(r) \in Roles
    BY <1>6 DEF UpdateRow, WrittenRole, NextRole, Asks, Keep
  <2> QED BY <1>6, <2>1 DEF UpdateRow
<1>7. ASSUME NEW r \in Updates, CreateUser(r) PROVE UserTypeOK' /\ TargetsKnown'
  BY <1>7 DEF CreateUser
<1>8. CASE UNCHANGED userVars BY <1>8 DEF userVars
<1> QED BY <1>1, <1>2, <1>3, <1>4, <1>5, <1>6, <1>7, <1>8 DEF UserNext

(* A user who is new disturbs no update: its target was known before.      *)
LEMMA NewUserGoverned ==
  ASSUME UserTypeOK, TargetsKnown, Governed, UserTypeOK',
         NEW u \in Users \ known, NEW p \in Roles,
         known' = known \cup {u}, role' = [role EXCEPT ![u] = p],
         active' \in {active, active \cup {u}}, (p = "ADMIN" /\ u \in active') \/ ActiveAdmins # {},
         UNCHANGED <<ask, read>>, \A r \in Running' : r \in Running /\ step'[r] = step[r]
  PROVE  Governed'
<1> USE DEF UserTypeOK, Governed, TargetsKnown
<1>1. ActiveAdmins \subseteq ActiveAdmins'
  BY DEF ActiveAdmins, IsAdmin
<1>2. ActiveAdmins' # {}
  BY <1>1 DEF ActiveAdmins, IsAdmin
<1>3. ASSUME NEW r \in Running' PROVE Knows(r)'
  <2>1. r \in Updates /\ Knows(r) /\ ask[r].target \in known /\ step'[r] = step[r]
    BY <1>3 DEF Running
  <2>2. role'[ask[r].target] = role[ask[r].target] /\ (ask[r].target \in active' <=> ask[r].target \in active)
    BY <2>1
  <2>3. LosesAdmin(r)' = LosesAdmin(r)
    BY DEF LosesAdmin, NextRole, NextActive
  <2> QED BY <1>1, <2>1, <2>2, <2>3 DEF Knows
<1> QED BY <1>2, <1>3

LEMMA UpdateGoverned ==
  ASSUME UserTypeOK, TargetsKnown, Governed, UserTypeOK', ~crossed',
         NEW r \in Updates, UpdateAction(r)
  PROVE  Governed'
<1> USE DEF UserTypeOK, Governed, TargetsKnown, Running
<1>1. CASE RequireAdmin(r)
  <2>1. UNCHANGED <<known, role, active, read>>
    BY <1>1 DEF RequireAdmin
  <2>2. ActiveAdmins' = ActiveAdmins
    BY <2>1 DEF ActiveAdmins, IsAdmin
  <2>3. \A s \in Updates : s # r => step'[s] = step[s] /\ ask'[s] = ask[s]
    BY <1>1 DEF RequireAdmin
  <2>4. step'[r] \in {"load", "done"} /\ (step'[r] = "load" => Running = {})
    BY <1>1 DEF RequireAdmin
  <2>5. ASSUME NEW s \in Running' PROVE Knows(s)'
    <3>1. CASE s = r BY <2>4, <3>1 DEF Knows
    <3>2. CASE s # r
      <4>1. s \in Running /\ Knows(s) BY <2>3, <2>5, <3>2
      <4>2. LosesAdmin(s)' = LosesAdmin(s)
        BY <2>1, <2>3, <3>2, <2>5 DEF LosesAdmin, NextRole, NextActive
      <4> QED BY <2>1, <2>2, <2>3, <2>5, <3>2, <4>1, <4>2 DEF Knows
    <3> QED BY <3>1, <3>2
  <2> QED BY <2>1, <2>2, <2>3, <2>4, <2>5
<1>2. CASE LoadUser(r)
  <2>1. UNCHANGED <<known, role, active, ask>> /\ r \in Running
    BY <1>2 DEF LoadUser
  <2>2. ActiveAdmins' = ActiveAdmins
    BY <2>1 DEF ActiveAdmins, IsAdmin
  <2>3. Running' = {r} /\ step'[r] = "check"
    BY <1>2, <2>1 DEF LoadUser
  <2>4. read'[r] = [role |-> role[ask[r].target], active |-> IF ask[r].target \in active THEN "yes" ELSE "no"]
    BY <1>2 DEF LoadUser
  <2>5. Knows(r)' BY <2>1, <2>3, <2>4 DEF Knows
  <2> QED BY <2>1, <2>2, <2>3, <2>5
<1>3. CASE AssertLastActiveAdminPreserved(r)
  <2>1. UNCHANGED <<known, role, active, ask, read>> /\ r \in Running
    BY <1>3 DEF AssertLastActiveAdminPreserved
  <2>2. ActiveAdmins' = ActiveAdmins
    BY <2>1 DEF ActiveAdmins, IsAdmin
  <2>3. Running' \subseteq {r}
    BY <1>3, <2>1 DEF AssertLastActiveAdminPreserved
  <2>4. LosesAdmin(r)' = LosesAdmin(r)
    BY <2>1 DEF LosesAdmin, NextRole, NextActive
  <2>5. ASSUME step'[r] = "write", LosesAdmin(r) PROVE \E a \in ActiveAdmins : a # ask[r].target
    <3>1. ~(Cardinality(ActiveAdmins) <= 1)
      BY <1>3, <2>5 DEF AssertLastActiveAdminPreserved
    <3>2. CASE ActiveAdmins = {}
      <4>1. Cardinality(ActiveAdmins) = 0 BY <3>2, FS_EmptySet
      <4> QED BY <3>1, <4>1
    <3>3. CASE ActiveAdmins = {ask[r].target}
      <4>1. Cardinality(ActiveAdmins) = 1 BY <3>3, FS_Singleton
      <4> QED BY <3>1, <4>1
    <3> QED BY <3>2, <3>3
  <2>6. Knows(r)'
    BY <1>3, <2>1, <2>2, <2>4, <2>5 DEF Knows, AssertLastActiveAdminPreserved
  <2> QED BY <2>1, <2>2, <2>3, <2>6
<1>4. CASE UpdateRow(r)
  <2> DEFINE u == ask[r].target
  <2>1. r \in Running /\ Knows(r) /\ step[r] = "write" /\ u \in known /\ u \in Users
    BY <1>4 DEF UpdateRow
  <2>2. Running' = {} /\ known' = known
    BY <1>4, <2>1 DEF UpdateRow
  <2>3. \A a \in ActiveAdmins : a # u => a \in ActiveAdmins'
    BY <1>4 DEF UpdateRow, ActiveAdmins, IsAdmin
  <2>4. CASE LosesAdmin(r)
    BY <2>1, <2>2, <2>3, <2>4 DEF Knows
  <2>5. CASE ~LosesAdmin(r)
    <3>1. CASE u \notin ActiveAdmins BY <2>1, <2>2, <2>3, <3>1
    <3>2. CASE u \in ActiveAdmins
      <4>1. read[r].role = "ADMIN" /\ read[r].active = "yes"
        BY <2>1, <3>2 DEF Knows, ActiveAdmins, IsAdmin
      <4>2. NextRole(r) = "ADMIN" /\ NextActive(r) = "yes"
        BY <2>5, <4>1 DEF LosesAdmin
      <4>3. WrittenRole(r) = "ADMIN"
        BY <3>2, <4>2 DEF WrittenRole, ActiveAdmins, IsAdmin
      <4>4. role'[u] = "ADMIN"
        BY <1>4, <2>1, <4>3 DEF UpdateRow
      <4>5. u \in active
        BY <3>2 DEF ActiveAdmins, IsAdmin
      <4>6. ask[r].active = Keep \/ ask[r].active = "yes"
        BY <4>2 DEF NextActive
      <4>7. u \in active'
        BY <1>4, <4>5, <4>6 DEF UpdateRow
      <4>8. u \in ActiveAdmins'
        BY <2>1, <2>2, <4>4, <4>7 DEF ActiveAdmins, IsAdmin
      <4> QED BY <2>2, <4>8
    <3> QED BY <3>1, <3>2
  <2> QED BY <2>4, <2>5
<1>5. CASE CreateUser(r)
  <2>1. PICK u \in Users \ known, p \in Roles :
          known' = known \cup {u} /\ role' = [role EXCEPT ![u] = p] /\ active' \in {active, active \cup {u}}
    BY <1>5 DEF CreateUser
  <2>2. ActiveAdmins # {} /\ UNCHANGED <<ask, read>> /\ \A s \in Running' : s \in Running /\ step'[s] = step[s]
    BY <1>5 DEF CreateUser
  <2> QED BY <2>1, <2>2, NewUserGoverned
<1> QED BY <1>1, <1>2, <1>3, <1>4, <1>5 DEF UpdateAction

LEMMA UserInvStep == UserInv /\ [UserNext]_userVars => UserInv'
<1> SUFFICES ASSUME UserInv, [UserNext]_userVars PROVE UserInv'
  OBVIOUS
<1>1. UserTypeOK /\ TargetsKnown /\ UserTypeOK' /\ TargetsKnown'
  BY UserTypeStep DEF UserInv
<1> SUFFICES ASSUME ~crossed' PROVE Governed'
  BY <1>1 DEF UserInv
<1>2. ASSUME NEW r \in Updates, UpdateAction(r) PROVE Governed'
  <2>1. ~crossed
    BY <1>2 DEF UpdateAction, RequireAdmin, LoadUser, AssertLastActiveAdminPreserved, UpdateRow, CreateUser
  <2>2. Governed BY <2>1 DEF UserInv
  <2> QED BY <1>1, <1>2, <2>2, UpdateGoverned
<1>3. ASSUME NEW l \in Logins, CountUsers(l) PROVE Governed'
  <2>1. Governed /\ UNCHANGED <<known, role, active, step, ask, read>>
    BY <1>3 DEF CountUsers, UserInv
  <2> QED BY <2>1 DEF Governed, Running, Knows, ActiveAdmins, IsAdmin, LosesAdmin, NextRole, NextActive
<1>4. ASSUME NEW l \in Logins, CreateBoss(l) PROVE Governed'
  <2>1. Governed /\ UNCHANGED <<step, ask, read>>
    BY <1>4 DEF CreateBoss, UserInv
  <2>2. CASE Boss \in known
    <3>1. UNCHANGED <<known, role, active>> BY <1>4, <2>2 DEF CreateBoss
    <3> QED BY <2>1, <3>1 DEF Governed, Running, Knows, ActiveAdmins, IsAdmin, LosesAdmin, NextRole, NextActive
  <2>3. CASE Boss \notin known
    <3>1. /\ known' = known \cup {Boss} /\ role' = [role EXCEPT ![Boss] = "ADMIN"]
          /\ active' = active \cup {Boss}
      BY <1>4, <2>3 DEF CreateBoss
    <3>2. \A r \in Running' : r \in Running /\ step'[r] = step[r]
      BY <2>1 DEF Running
    <3> QED BY <1>1, <2>1, <2>3, <3>1, <3>2, UserAssumption, NewUserGoverned DEF Roles
  <2> QED BY <2>2, <2>3
<1>5. CASE UNCHANGED userVars
  <2>1. Governed /\ UNCHANGED <<known, role, active, step, ask, read>>
    BY <1>5 DEF userVars, UserInv
  <2> QED BY <2>1 DEF Governed, Running, Knows, ActiveAdmins, IsAdmin, LosesAdmin, NextRole, NextActive
<1> QED BY <1>2, <1>3, <1>4, <1>5 DEF UserNext, UpdateAction

LEMMA UserInvInit == UserInit => UserInv
<1> SUFFICES ASSUME UserInit PROVE UserInv
  OBVIOUS
<1>1. NoAsk \in Asks /\ NoRead \in [role : Roles, active : {"yes", "no"}]
  BY UserAssumption DEF NoAsk, Asks, NoRead, Roles, Keep
<1>2. UserTypeOK
  BY <1>1 DEF UserInit, UserTypeOK, Roles
<1>3. Running = {}
  BY DEF UserInit, Running
<1> QED BY <1>2, <1>3 DEF UserInit, UserInv, TargetsKnown, Governed

(* ensureBootstrapAdmin, createUser and updateUser: once there are users   *)
(* an active administrator remains, whatever the number of requests, as    *)
(* long as no two updates overlap.                                         *)
THEOREM AnAdminRemains == UserSpec => []AdminRemains
<1>1. UserInv => AdminRemains BY DEF UserInv, Governed, AdminRemains
<1> QED BY <1>1, UserInvInit, UserInvStep, PTL DEF UserSpec

(***************************************************************************)
(* Sessions.  A token that a response is bringing is unknown to every      *)
(* request, so nobody can use it up before it arrives; a cookie whose      *)
(* token is gone has a request under way that will replace or clear it.    *)
(***************************************************************************)
Unseen ==
  /\ \A c \in Calls : c[2] = "login" => call[c] \in {"idle", "issue", "ok", "fail", "limited"}
  /\ \A c \in Calls : call[c] = "ok" =>
       fresh[c] # 0 /\ fresh[c] # cookie /\ \A d \in Calls : token[d] # fresh[c]
  /\ \A c, d \in Calls : call[c] = "ok" /\ call[d] = "ok" /\ c # d => fresh[c] # fresh[d]

Replaces(c) == c[2] # "login" /\ call[c] \notin {"idle", "limited"}

Kept ==
  /\ \A c \in Calls : call[c] = "ok" => fresh[c] \in store
  /\ cookie \in store \cup {0} \/ \E c \in Calls : Replaces(c)

SessionInv == SessionTypeOK /\ Unseen /\ (~excused => Kept)

CallAction(c) ==
  \/ ReadToken(c) \/ FindUser(c) \/ DropToken(c) \/ DeleteToken(c)
  \/ IssueSession(c) \/ RevokeSession(c)
  \/ Authenticated(c) \/ Anonymous(c) \/ Limited(c) \/ ResponseLost(c)

Sends == \E c \in Calls, at \in {"read", "fail", "limited", "revoke", "issue"} :
           Send(c, at) /\ (c[2] = "login" <=> at = "issue")

(* What happens outside of the requests.                                   *)
Others == (\E t \in Tabs : OpenPage(t)) \/ Expire \/ SetEnabled

LEMMA SessionSteps ==
  ASSUME SessionNext
  PROVE  Sends \/ (\E c \in Calls : CallAction(c)) \/ Others
<1>1. ASSUME NEW c \in Calls, SendRefresh(c) PROVE Sends
  <2>1. c[2] # "login" BY <1>1 DEF SendRefresh, Refreshes
  <2> QED BY <1>1, <2>1 DEF SendRefresh, Sends, CallSteps
<1>2. ASSUME NEW t \in Tabs, SendLogin(t) \/ SendLogout(t) PROVE Sends
  <2>1. /\ <<t, "login">> \in Calls /\ <<t, "logout">> \in Calls
        /\ <<t, "login">>[2] = "login" /\ <<t, "logout">>[2] # "login"
    BY DEF Calls, Kinds
  <2> QED BY <1>2, <2>1 DEF SendLogin, SendLogout, Sends, CallSteps
<1> QED BY <1>1, <1>2 DEF SessionNext, Serve, Receive, CallAction, Others

LEMMA SessionTypeStep == SessionTypeOK /\ [SessionNext]_sessionVars => SessionTypeOK'
<1> SUFFICES ASSUME SessionTypeOK, [SessionNext]_sessionVars PROVE SessionTypeOK'
  OBVIOUS
<1> USE SessionAssumption DEF SessionTypeOK
<1>1. CASE Sends BY <1>1 DEF Sends, Send, CallSteps
<1>2. ASSUME NEW c \in Calls, CallAction(c) PROVE SessionTypeOK'
  <2> USE DEF Step, CallSteps
  <2>1. CASE ReadToken(c) BY <2>1 DEF ReadToken
  <2>2. CASE FindUser(c) BY <2>2 DEF FindUser
  <2>3. CASE DropToken(c) BY <2>3 DEF DropToken
  <2>4. CASE DeleteToken(c) BY <2>4 DEF DeleteToken
  <2>5. CASE IssueSession(c)
    <3>1. CASE c[2] = "login" /\ ~enabled BY <2>5, <3>1 DEF IssueSession
    <3>2. CASE ~(c[2] = "login" /\ ~enabled)
      <4>1. /\ call' = [call EXCEPT ![c] = "ok"] /\ fresh' = [fresh EXCEPT ![c] = issued + 1]
            /\ issued < MaxTokens /\ issued' = issued + 1 /\ store' = store \cup {issued + 1}
            /\ logins' \in {logins, logins + 1}
            /\ UNCHANGED <<enabled, cookie, signedIn, token, overlapped, excused>>
        BY <2>5, <3>2 DEF IssueSession
      <4>2. issued \in Nat /\ issued' \in 0..MaxTokens
        BY <4>1
      <4>3. 0..issued \subseteq 0..issued' /\ issued + 1 \in 0..issued'
        BY <4>1, <4>2
      <4>4. /\ token' \in [Calls -> 0..issued'] /\ fresh' \in [Calls -> 0..issued']
            /\ cookie' \in 0..issued' /\ logins' \in 0..issued'
        BY <4>1, <4>2, <4>3
      <4>5. store' \subseteq 1..issued' /\ call' \in [Calls -> CallSteps]
        BY <4>1, <4>2
      <4> QED BY <4>1, <4>2, <4>4, <4>5
    <3> QED BY <3>1, <3>2
  <2>6. CASE RevokeSession(c) BY <2>6 DEF RevokeSession
  <2>7. c[1] \in Tabs BY DEF Calls
  <2>8. CASE Authenticated(c) BY <2>7, <2>8 DEF Authenticated, Finish
  <2>9. CASE Anonymous(c) BY <2>9 DEF Anonymous, Finish
  <2>10. CASE Limited(c) BY <2>10 DEF Limited, Finish
  <2>11. CASE ResponseLost(c) BY <2>11 DEF ResponseLost, Finish
  <2> QED BY <1>2, <2>1, <2>2, <2>3, <2>4, <2>5, <2>6, <2>8, <2>9, <2>10, <2>11 DEF CallAction
<1>3. CASE Others BY <1>3 DEF Others, OpenPage, Expire, SetEnabled
<1>4. CASE UNCHANGED sessionVars BY <1>4 DEF sessionVars
<1> QED BY <1>1, <1>2, <1>3, <1>4, SessionSteps

LEMMA UnseenStep == SessionTypeOK /\ Unseen /\ [SessionNext]_sessionVars => Unseen'
<1> SUFFICES ASSUME SessionTypeOK, Unseen, [SessionNext]_sessionVars PROVE Unseen'
  OBVIOUS
<1> USE SessionAssumption DEF SessionTypeOK, Unseen
<1>1. CASE Sends BY <1>1 DEF Sends, Send
<1>2. ASSUME NEW c \in Calls, CallAction(c) PROVE Unseen'
  <2> USE DEF Step
  <2>1. CASE ReadToken(c) BY <2>1 DEF ReadToken
  <2>2. CASE FindUser(c) BY <2>2 DEF FindUser
  <2>3. CASE DropToken(c) BY <2>3 DEF DropToken
  <2>4. CASE DeleteToken(c) BY <2>4 DEF DeleteToken
  <2>5. CASE IssueSession(c) BY <2>5 DEF IssueSession
  <2>6. CASE RevokeSession(c) BY <2>6 DEF RevokeSession
  <2>8. CASE Authenticated(c) BY <2>8 DEF Authenticated, Finish
  <2>9. CASE Anonymous(c) BY <2>9 DEF Anonymous, Finish
  <2>10. CASE Limited(c) BY <2>10 DEF Limited, Finish
  <2>11. CASE ResponseLost(c) BY <2>11 DEF ResponseLost, Finish
  <2> QED BY <1>2, <2>1, <2>2, <2>3, <2>4, <2>5, <2>6, <2>8, <2>9, <2>10, <2>11 DEF CallAction
<1>3. CASE Others BY <1>3 DEF Others, OpenPage, Expire, SetEnabled
<1>4. CASE UNCHANGED sessionVars BY <1>4 DEF sessionVars
<1> QED BY <1>1, <1>2, <1>3, <1>4, SessionSteps

LEMMA KeptStep ==
  SessionTypeOK /\ Unseen /\ (~excused => Kept) /\ [SessionNext]_sessionVars => (~excused' => Kept')
<1> SUFFICES ASSUME SessionTypeOK, Unseen, ~excused => Kept, [SessionNext]_sessionVars, ~excused'
             PROVE  Kept'
  OBVIOUS
<1> USE DEF SessionTypeOK, Unseen, Kept, Replaces
<1>1. CASE Sends
  <2>1. PICK c \in Calls, at \in {"read", "fail", "limited", "revoke", "issue"} :
          Send(c, at) /\ (c[2] = "login" <=> at = "issue")
    BY <1>1 DEF Sends
  <2>2. call[c] = "idle" /\ call' = [call EXCEPT ![c] = at] /\ UNCHANGED <<store, cookie, fresh, excused>>
    BY <2>1 DEF Send
  <2> QED BY <2>2
<1>2. ASSUME NEW c \in Calls, CallAction(c) PROVE Kept'
  <2> USE DEF Step
  <2>1. CASE ReadToken(c) BY <2>1 DEF ReadToken
  <2>2. CASE FindUser(c) BY <2>2 DEF FindUser
  <2>3. CASE DropToken(c) BY <2>3 DEF DropToken
  <2>4. CASE DeleteToken(c) BY <2>4 DEF DeleteToken
  <2>5. CASE IssueSession(c) BY <2>5 DEF IssueSession
  <2>6. CASE RevokeSession(c) BY <2>6 DEF RevokeSession
  <2>8. CASE Authenticated(c) BY <2>8 DEF Authenticated, Finish
  <2>9. CASE Anonymous(c) BY <2>9 DEF Anonymous, Finish
  <2>10. CASE Limited(c) BY <2>10 DEF Limited, Finish
  <2>11. CASE ResponseLost(c) BY <2>11 DEF ResponseLost, Finish
  <2> QED BY <1>2, <2>1, <2>2, <2>3, <2>4, <2>5, <2>6, <2>8, <2>9, <2>10, <2>11 DEF CallAction
<1>3. CASE Others BY <1>3 DEF Others, OpenPage, Expire, SetEnabled
<1>4. CASE UNCHANGED sessionVars BY <1>4 DEF sessionVars
<1> QED BY <1>1, <1>2, <1>3, <1>4, SessionSteps

LEMMA SessionInvInit == SessionInit => SessionInv
<1> SUFFICES ASSUME SessionInit PROVE SessionInv
  OBVIOUS
<1>1. SessionTypeOK
  <2>1. issued = 0 /\ logins = 0 /\ cookie = 0 /\ 0 \in 0..issued /\ issued \in 0..MaxTokens
    BY SessionAssumption DEF SessionInit
  <2>2. /\ store \subseteq 1..issued /\ enabled \in BOOLEAN /\ signedIn \subseteq Tabs
        /\ overlapped \in BOOLEAN /\ excused \in BOOLEAN
    BY DEF SessionInit
  <2>3. call \in [Calls -> CallSteps]
    BY DEF SessionInit, CallSteps
  <2>4. token \in [Calls -> 0..issued] /\ fresh \in [Calls -> 0..issued]
    BY <2>1 DEF SessionInit
  <2> QED BY <2>1, <2>2, <2>3, <2>4 DEF SessionTypeOK
<1>2. \A c \in Calls : call[c] = "idle"
  BY DEF SessionInit
<1>3. Unseen BY <1>2 DEF Unseen
<1>4. Kept BY <1>2 DEF SessionInit, Kept
<1> QED BY <1>1, <1>3, <1>4 DEF SessionInv

LEMMA SessionInvariant == SessionSpec => []SessionInv
<1>1. SessionInv /\ [SessionNext]_sessionVars => SessionInv'
  BY SessionTypeStep, UnseenStep, KeptStep DEF SessionInv
<1> QED BY <1>1, SessionInvInit, PTL DEF SessionSpec

(* refreshSession and the routes: a browser at rest holds no cookie of a   *)
(* session that is gone, for any number of tabs and requests.              *)
THEOREM CookieStaysLive == SessionSpec => []CookieIsLive
<1>1. SessionInv => CookieIsLive
  BY DEF SessionInv, Kept, Replaces, CookieIsLive, Idle, UnderWay
<1> QED BY <1>1, SessionInvariant, PTL

(***************************************************************************)
(* Rotation.  A refresh that has read its token is about to replace it: it *)
(* is counted without the token it carries and with the one it will bring. *)
(***************************************************************************)
Replacing == {"find", "delete", "issue"}

Rotates ==
  /\ \A c, d \in UnderWay : c = d
  /\ Cardinality(store) <= logins
  /\ \A c \in Calls : c[2] # "login" /\ call[c] \in Replacing =>
       Cardinality(store \ {token[c]}) + 1 <= logins
  /\ \A c \in Calls : c[2] # "login" /\ call[c] = "issue" => token[c] \notin store

RotationInv == SessionTypeOK /\ Unseen /\ (~overlapped => Rotates)

LEMMA StoreCounts ==
  ASSUME SessionTypeOK, NEW S \in SUBSET store
  PROVE  /\ IsFiniteSet(S) /\ Cardinality(S) \in Nat
         /\ \A R \in SUBSET S : Cardinality(R) <= Cardinality(S)
<1>1. issued \in Nat BY SessionAssumption DEF SessionTypeOK
<1>2. IsFiniteSet(1..issued) BY <1>1, FS_Interval
<1>3. IsFiniteSet(S) BY <1>2, FS_Subset DEF SessionTypeOK
<1>4. Cardinality(S) \in Nat BY <1>3, FS_CardinalityType
<1>5. \A R \in SUBSET S : Cardinality(R) <= Cardinality(S) BY <1>3, FS_Subset
<1> QED BY <1>3, <1>4, <1>5

(* Fewer tokens, and requests that go on or end, keep the count.           *)
LEMMA FewerTokensRotate ==
  ASSUME SessionTypeOK, Rotates, store' \subseteq store, logins' = logins,
         \A c \in Calls : /\ call'[c] = "idle" \/ call[c] # "idle"
                          /\ c[2] # "login" /\ call'[c] \in Replacing =>
                               token'[c] = token[c] /\ call[c] \in Replacing
                          /\ c[2] # "login" /\ call'[c] = "issue" =>
                               call[c] = "issue" \/ token[c] \notin store'
  PROVE  Rotates'
<1>1. logins \in Nat BY DEF SessionTypeOK
<1>2. Cardinality(store') <= Cardinality(store) /\ Cardinality(store) \in Nat /\ Cardinality(store') \in Nat
  BY StoreCounts
<1>3. ASSUME NEW c \in Calls, c[2] # "login", call'[c] \in Replacing
      PROVE  Cardinality(store' \ {token'[c]}) + 1 <= logins
  <2>1. Cardinality(store \ {token[c]}) + 1 <= logins /\ token'[c] = token[c]
    BY <1>3 DEF Rotates
  <2>2. store' \ {token[c]} \in SUBSET (store \ {token[c]}) /\ store \ {token[c]} \in SUBSET store
        /\ store' \ {token[c]} \in SUBSET store
    OBVIOUS
  <2>3. Cardinality(store' \ {token[c]}) <= Cardinality(store \ {token[c]})
        /\ Cardinality(store \ {token[c]}) \in Nat /\ Cardinality(store' \ {token[c]}) \in Nat
    BY <2>2, StoreCounts
  <2> QED BY <1>1, <2>1, <2>3
<1>4. ASSUME NEW c \in Calls, c[2] # "login", call'[c] = "issue" PROVE token'[c] \notin store'
  BY <1>4 DEF Rotates, Replacing
<1>5. \A c, d \in UnderWay' : c = d
  BY DEF Rotates, UnderWay
<1> QED BY <1>1, <1>2, <1>3, <1>4, <1>5 DEF Rotates

LEMMA RotatesStep ==
  ASSUME SessionTypeOK, Unseen, Rotates, SessionNext, ~overlapped'
  PROVE  Rotates'
<1> USE DEF SessionTypeOK
<1>1. CASE Sends
  <2>1. PICK c \in Calls, at \in {"read", "fail", "limited", "revoke", "issue"} :
          Send(c, at) /\ (c[2] = "login" <=> at = "issue")
    BY <1>1 DEF Sends
  <2>2. /\ \A d \in Calls : call[d] = "idle"
        /\ call' = [call EXCEPT ![c] = at] /\ UNCHANGED <<store, logins>>
    BY <2>1 DEF Send, Idle, UnderWay
  <2>3. \A d \in Calls : d # c => call'[d] = "idle"
    BY <2>2
  <2>4. \A d \in Calls : d[2] # "login" => call'[d] \notin Replacing
    BY <2>1, <2>2 DEF Replacing
  <2>5. \A d, e \in UnderWay' : d = e
    BY <2>3 DEF UnderWay
  <2>6. "issue" \in Replacing
    BY DEF Replacing
  <2> QED BY <2>2, <2>4, <2>5, <2>6 DEF Rotates
<1>2. ASSUME NEW c \in Calls, CallAction(c) PROVE Rotates'
  <2> USE DEF Step, Replacing
  <2>1. CASE ReadToken(c)
    <3>0. call[c] = "read" /\ UNCHANGED <<store, logins, token>>
          /\ call' = [call EXCEPT ![c] = IF token[c] \in store THEN "find" ELSE "fail"]
      BY <2>1 DEF ReadToken
    <3>1. CASE token[c] \in store
      <4>1. \A d \in Calls : d # c => call'[d] = "idle"
        BY <3>0 DEF Rotates, UnderWay
      <4>2. IsFiniteSet(store) /\ Cardinality(store) \in Nat
        BY StoreCounts
      <4>3. Cardinality(store \ {token[c]}) = Cardinality(store) - 1
        BY <3>1, <4>2, FS_RemoveElement
      <4>4. Cardinality(store) <= logins /\ logins \in Nat
        BY DEF Rotates
      <4>5. Cardinality(store \ {token[c]}) + 1 <= logins
        BY <4>2, <4>3, <4>4
      <4>6. \A d, e \in UnderWay' : d = e
        BY <4>1 DEF UnderWay
      <4>7. call'[c] = "find"
        BY <3>0, <3>1
      <4> QED BY <3>0, <4>1, <4>4, <4>5, <4>6, <4>7 DEF Rotates
    <3>2. CASE token[c] \notin store BY <3>0, <3>2, FewerTokensRotate
    <3> QED BY <3>1, <3>2
  <2>2. CASE FindUser(c) BY <2>2, FewerTokensRotate DEF FindUser
  <2>3. CASE DropToken(c) BY <2>3, FewerTokensRotate DEF DropToken
  <2>4. CASE DeleteToken(c) BY <2>4, FewerTokensRotate DEF DeleteToken
  <2>5. CASE IssueSession(c)
    <3>1. CASE c[2] = "login" /\ ~enabled
      <4>1. call' = [call EXCEPT ![c] = "fail"] /\ UNCHANGED <<store, logins, token>>
            /\ call[c] = "issue"
        BY <2>5, <3>1 DEF IssueSession
      <4> QED BY <4>1, FewerTokensRotate
    <3>2. CASE ~(c[2] = "login" /\ ~enabled)
      <4>1. /\ call[c] = "issue" /\ call' = [call EXCEPT ![c] = "ok"]
            /\ store' = store \cup {issued + 1} /\ token' = token
            /\ logins' = IF c[2] = "login" THEN logins + 1 ELSE logins
        BY <2>5, <3>2 DEF IssueSession
      <4>2. \A d \in Calls : d # c => call'[d] = "idle"
        BY <4>1 DEF Rotates, UnderWay
      <4>3. /\ \A d, e \in UnderWay' : d = e
            /\ \A d \in Calls : call'[d] \notin Replacing
        BY <4>1, <4>2 DEF UnderWay
      <4>4. issued \in Nat /\ issued + 1 \notin store
        BY SessionAssumption
      <4>5. IsFiniteSet(store) /\ Cardinality(store) \in Nat
        BY StoreCounts
      <4>6. Cardinality(store') = Cardinality(store) + 1
        BY <4>1, <4>4, <4>5, FS_AddElement
      <4>7. logins \in Nat /\ Cardinality(store) <= logins
        BY DEF Rotates
      <4>8. Cardinality(store') <= logins'
        <5>1. CASE c[2] = "login" BY <4>1, <4>5, <4>6, <4>7, <5>1
        <5>2. CASE c[2] # "login"
          <6>1. token[c] \notin store /\ Cardinality(store \ {token[c]}) + 1 <= logins
            BY <4>1, <5>2 DEF Rotates
          <6>2. store \ {token[c]} = store
            BY <6>1
          <6> QED BY <4>1, <4>6, <5>2, <6>1, <6>2
        <5> QED BY <5>1, <5>2
      <4> QED BY <4>3, <4>8 DEF Rotates
    <3> QED BY <3>1, <3>2
  <2>6. CASE RevokeSession(c) BY <2>6, FewerTokensRotate DEF RevokeSession
  <2>8. CASE Authenticated(c) BY <2>8, FewerTokensRotate DEF Authenticated, Finish
  <2>9. CASE Anonymous(c) BY <2>9, FewerTokensRotate DEF Anonymous, Finish
  <2>10. CASE Limited(c) BY <2>10, FewerTokensRotate DEF Limited, Finish
  <2>11. CASE ResponseLost(c) BY <2>11, FewerTokensRotate DEF ResponseLost, Finish
  <2> QED BY <1>2, <2>1, <2>2, <2>3, <2>4, <2>5, <2>6, <2>8, <2>9, <2>10, <2>11 DEF CallAction
<1>3. CASE Others
  <2>1. UNCHANGED <<call, token, logins>> /\ store' \subseteq store
    BY <1>3 DEF Others, OpenPage, Expire, SetEnabled
  <2>2. \A c \in Calls : call[c] = "issue" /\ c[2] # "login" => token[c] \notin store'
    BY <2>1 DEF Rotates
  <2>3. \A c \in Calls : call'[c] = call[c] /\ token'[c] = token[c]
    BY <2>1
  <2> QED BY <2>1, <2>3, FewerTokensRotate, <2>2
<1> QED BY <1>1, <1>2, <1>3, SessionSteps

LEMMA RotatesInit == SessionInit => Rotates
<1> SUFFICES ASSUME SessionInit PROVE Rotates
  OBVIOUS
<1>1. Cardinality(store) = 0 /\ logins = 0
  BY FS_EmptySet DEF SessionInit
<1>2. \A c \in Calls : call[c] = "idle"
  BY DEF SessionInit
<1> QED BY <1>1, <1>2 DEF Rotates, UnderWay, Replacing

LEMMA OverlapStays == ASSUME SessionTypeOK, [SessionNext]_sessionVars PROVE overlapped => overlapped'
<1>1. CASE Sends BY <1>1 DEF Sends, Send
<1>2. ASSUME NEW c \in Calls, CallAction(c) PROVE overlapped' = overlapped
  BY <1>2 DEF CallAction, ReadToken, FindUser, DropToken, DeleteToken, IssueSession,
       RevokeSession, Authenticated, Anonymous, Limited, ResponseLost, Finish
<1>3. CASE Others BY <1>3 DEF Others, OpenPage, Expire, SetEnabled
<1>4. CASE UNCHANGED sessionVars BY <1>4 DEF sessionVars
<1> QED BY <1>1, <1>2, <1>3, <1>4, SessionSteps

LEMMA RotationStep == RotationInv /\ [SessionNext]_sessionVars => RotationInv'
<1> SUFFICES ASSUME RotationInv, [SessionNext]_sessionVars PROVE RotationInv'
  OBVIOUS
<1>1. SessionTypeOK' /\ Unseen' /\ (overlapped => overlapped')
  BY SessionTypeStep, UnseenStep, OverlapStays DEF RotationInv
<1>2. ASSUME ~overlapped' PROVE Rotates'
  <2>1. Rotates
    BY <1>1, <1>2 DEF RotationInv
  <2>2. CASE UNCHANGED sessionVars
    BY <2>1, <2>2 DEF sessionVars, Rotates, UnderWay
  <2> QED BY <1>2, <2>1, <2>2, RotatesStep DEF RotationInv
<1> QED BY <1>1, <1>2 DEF RotationInv

(* refreshSession: as long as requests do not overlap, a refresh replaces  *)
(* the session it used, so that no session exists that no login began.     *)
THEOREM RotationNeedsLogins == SessionSpec => []SessionsNeedLogins
<1>1. SessionInit => RotationInv
  BY SessionInvInit, RotatesInit DEF SessionInv, RotationInv
<1>2. RotationInv => SessionsNeedLogins
  BY DEF RotationInv, Rotates, SessionsNeedLogins
<1> QED BY <1>1, <1>2, RotationStep, PTL DEF SessionSpec
=============================================================================
