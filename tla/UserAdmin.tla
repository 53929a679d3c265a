----------------------------- MODULE UserAdmin -----------------------------
(***************************************************************************)
(* Managing users: the first administrator, who is created by the first    *)
(* login, and the updates of roles and of the active flag, which are       *)
(* checked against rows read several awaits before the write.              *)
(***************************************************************************)
EXTENDS Naturals, FiniteSets

CONSTANTS
  Users,    \* accounts that may come to exist
  Boss,     \* the account of AUTH_BOOTSTRAP_ADMIN_EMAIL
  Updates,  \* requests of administrators, one update each
  Logins    \* first logins, which may find the user store empty

ASSUME UserAssumption == Boss \in Users

Roles == {"ADMIN", "USER"}
Keep == "keep"  \* a field the request leaves out

VARIABLES
  known,    \* rows of the users table
  role,     \* their role
  active,   \* users with isActive
  boot,     \* where ensureBootstrapAdmin is, for each first login
  step,     \* where updateUser is, for each request
  ask,      \* actor, target and the fields given
  read,     \* the target's role and active flag as they were read
  crossed   \* history: two updates were under way at the same time

userVars == <<known, role, active, boot, step, ask, read, crossed>>

NoAsk == [actor |-> Boss, target |-> Boss, role |-> Keep, active |-> Keep, modules |-> FALSE]
Asks == [actor : Users, target : Users, role : Roles \cup {Keep},
         active : {"yes", "no", Keep}, modules : BOOLEAN]
NoRead == [role |-> "USER", active |-> "no"]

UserInit ==
  /\ known = {}
  /\ role = [u \in Users |-> "USER"]
  /\ active = {}
  /\ boot = [l \in Logins |-> "start"]
  /\ step = [r \in Updates |-> "start"]
  /\ ask = [r \in Updates |-> NoAsk]
  /\ read = [r \in Updates |-> NoRead]
  /\ crossed = FALSE

IsAdmin(u) == u \in known /\ u \in active /\ role[u] = "ADMIN"
ActiveAdmins == {u \in Users : IsAdmin(u)}

(***************************************************************************)
(* ensureBootstrapAdmin                                                    *)
(***************************************************************************)
CountUsers(l) ==
  /\ boot[l] = "start"
  /\ boot' = [boot EXCEPT ![l] = IF known = {} THEN "create" ELSE "done"]
  /\ UNCHANGED <<known, role, active, step, ask, read, crossed>>

(* The unique columns let one of several creations pass.                   *)
CreateBoss(l) ==
  /\ boot[l] = "create"
  /\ boot' = [boot EXCEPT ![l] = "done"]
  /\ IF Boss \in known THEN UNCHANGED <<known, role, active>>
     ELSE /\ known' = known \cup {Boss}
          /\ role' = [role EXCEPT ![Boss] = "ADMIN"]
          /\ active' = active \cup {Boss}
  /\ UNCHANGED <<step, ask, read, crossed>>

(***************************************************************************)
(* createUser, updateUser                                                  *)
(***************************************************************************)
Running == {r \in Updates : step[r] \notin {"start", "done"}}

(* requireAdmin; who is none is refused.                                   *)
RequireAdmin(r) ==
  /\ step[r] = "start"
  /\ \E q \in Asks :
       /\ q.target \in known /\ q.actor \in known
       /\ ask' = [ask EXCEPT ![r] = q]
       /\ step' = [step EXCEPT ![r] = IF IsAdmin(q.actor) THEN "load" ELSE "done"]
       /\ crossed' = (crossed \/ (IsAdmin(q.actor) /\ Running # {}))
  /\ UNCHANGED <<known, role, active, boot, read>>

LoadUser(r) ==
  /\ step[r] = "load"
  /\ LET u == ask[r].target IN
       read' = [read EXCEPT ![r] =
         [role |-> role[u], active |-> IF u \in active THEN "yes" ELSE "no"]]
  /\ step' = [step EXCEPT ![r] = "check"]
  /\ UNCHANGED <<known, role, active, boot, ask, crossed>>

NextRole(r) == IF ask[r].role = Keep THEN read[r].role ELSE ask[r].role
NextActive(r) == IF ask[r].active = Keep THEN read[r].active ELSE ask[r].active

(* Variant: a deactivation is not counted as the loss of an administrator. *)
LosesRole(r) ==
  /\ read[r] = [role |-> "ADMIN", active |-> "yes"]
  /\ NextRole(r) # "ADMIN"

(* The update takes an active administrator away.                          *)
LosesAdmin(r) ==
  /\ read[r] = [role |-> "ADMIN", active |-> "yes"]
  /\ ~(NextRole(r) = "ADMIN" /\ NextActive(r) = "yes")

AssertLastActiveAdminPreserved(r) ==
  /\ step[r] = "check"
  /\ step' = [step EXCEPT ![r] =
       IF LosesAdmin(r) /\ Cardinality(ActiveAdmins) <= 1 THEN "done" ELSE "write"]
  /\ UNCHANGED <<known, role, active, boot, ask, read, crossed>>

(* The role is also written when only the modules are given, and then it   *)
(* is the one that was read.                                               *)
WrittenRole(r) ==
  IF ask[r].role # Keep \/ ask[r].modules THEN NextRole(r) ELSE role[ask[r].target]

UpdateRow(r) ==
  /\ step[r] = "write"
  /\ step' = [step EXCEPT ![r] = "done"]
  /\ LET u == ask[r].target IN
       /\ role' = [role EXCEPT ![u] = WrittenRole(r)]
       /\ active' = IF ask[r].active = Keep THEN active
                    ELSE IF ask[r].active = "yes" THEN active \cup {u} ELSE active \ {u}
  /\ UNCHANGED <<known, boot, ask, read, crossed>>

(* createUser: one insert after the check of the actor.                    *)
CreateUser(r) ==
  /\ step[r] = "start"
  /\ step' = [step EXCEPT ![r] = "done"]
  /\ ActiveAdmins # {}
  /\ \E u \in Users \ known, p \in Roles :
       /\ known' = known \cup {u}
       /\ role' = [role EXCEPT ![u] = p]
       /\ active' \in {active, active \cup {u}}
  /\ UNCHANGED <<boot, ask, read, crossed>>

UserNext ==
  \/ \E l \in Logins : CountUsers(l) \/ CreateBoss(l)
  \/ \E r \in Updates :
       \/ RequireAdmin(r) \/ LoadUser(r) \/ AssertLastActiveAdminPreserved(r)
       \/ UpdateRow(r) \/ CreateUser(r)

UserSpec == UserInit /\ [][UserNext]_userVars

(***************************************************************************)
(* Properties                                                              *)
(***************************************************************************)
UserTypeOK ==
  /\ known \subseteq Users
  /\ role \in [Users -> Roles]
  /\ active \subseteq known
  /\ boot \in [Logins -> {"start", "create", "done"}]
  /\ step \in [Updates -> {"start", "load", "check", "write", "done"}]
  /\ ask \in [Updates -> Asks]
  /\ read \in [Updates -> [role : Roles, active : {"yes", "no"}]]
  /\ crossed \in BOOLEAN

(* Once there are users there is an active administrator, whatever the     *)
(* updates and first logins, unless two updates were under way at the same *)
(* time: each of them may then count the administrator the other removes.  *)
AdminRemains == known # {} /\ ~crossed => ActiveAdmins # {}
=============================================================================
