---------------------------- MODULE AuthSession ----------------------------
(***************************************************************************)
(* The sessions of one browser: several tabs share the refresh cookie, the *)
(* server rotates the refresh token on every use.  A tab refreshes when it *)
(* is opened, from a timer (Providers.tsx) and after a 401 (authFetch.ts); *)
(* only the last is deduplicated, and only within its tab.                 *)
(*                                                                         *)
(* One action is the code between two awaits.  A request carries the       *)
(* cookie of the moment it was sent, and its response sets or clears the   *)
(* cookie of the moment it arrives.                                        *)
(***************************************************************************)
EXTENDS Naturals, FiniteSets

CONSTANTS
  Tabs,          \* tabs of the browser
  MaxTokens,     \* bound: refresh tokens ever issued are 1..MaxTokens
  MaxCalls,      \* bound: requests under way at the same time
  SessionFaults  \* the failures the environment may show

(* "network": a response never reaches the browser                         *)
(* "limit": a limiter answers before the handler                           *)
(* "expire": Redis drops a token at the end of its time to live            *)
(* "disable": an administrator disables the account                        *)
SessionFaultKinds == {"network", "limit", "expire", "disable"}

ASSUME SessionAssumption ==
  /\ MaxTokens \in Nat \ {0}
  /\ MaxCalls \in Nat \ {0}
  /\ SessionFaults \subseteq SessionFaultKinds

Kinds == {"timer", "fetch", "login", "logout"}
Calls == Tabs \X Kinds
Refreshes == Tabs \X {"timer", "fetch"}
Tokens == 1..MaxTokens

VARIABLES
  store,       \* refresh tokens in Redis
  issued,      \* tokens issued so far, the last one is the newest
  enabled,     \* the user's isActive
  cookie,      \* tvgit.refreshToken of the browser, 0 for none
  signedIn,    \* tabs whose auth store says authenticated
  call,        \* the next step of each request
  token,       \* the refresh token it carries
  fresh,       \* the token its response brings
  overlapped,  \* history: two requests were under way at the same time
  excused,     \* history: a token expired, a response was lost
  logins       \* history: sessions that began with a password

sessionVars ==
  <<store, issued, enabled, cookie, signedIn, call, token, fresh, overlapped, excused, logins>>

CallSteps == {"idle", "read", "find", "drop", "delete", "issue", "revoke",
              "ok", "fail", "limited", "gone"}

SessionInit ==
  /\ store = {}
  /\ issued = 0
  /\ enabled = TRUE
  /\ cookie = 0
  /\ signedIn = {}
  /\ call = [c \in Calls |-> "idle"]
  /\ token = [c \in Calls |-> 0]
  /\ fresh = [c \in Calls |-> 0]
  /\ overlapped = FALSE
  /\ excused = FALSE
  /\ logins = 0

UnderWay == {c \in Calls : call[c] # "idle"}
Idle == UnderWay = {}
Step(c, from, to) == call[c] = from /\ call' = [call EXCEPT ![c] = to]

(***************************************************************************)
(* The browser sends                                                       *)
(***************************************************************************)
Send(c, at) ==
  /\ call[c] = "idle" /\ Cardinality(UnderWay) < MaxCalls
  /\ call' = [call EXCEPT ![c] = at]
  /\ token' = [token EXCEPT ![c] = cookie]
  /\ overlapped' = (overlapped \/ ~Idle)
  /\ UNCHANGED <<store, issued, enabled, cookie, signedIn, fresh, excused, logins>>

(* A page that is opened takes the session over while the access token,    *)
(* which is set and cleared with the cookie, lasts.                        *)
OpenPage(t) ==
  /\ t \notin signedIn /\ cookie # 0 /\ enabled
  /\ signedIn' = signedIn \cup {t}
  /\ UNCHANGED <<store, issued, enabled, cookie, call, token, fresh, overlapped, excused, logins>>

(* Without a cookie the handler answers 401 at once.  The refresh of a     *)
(* page that is opened is sent like that of the timer.                     *)
SendRefresh(c) ==
  /\ c \in Refreshes /\ (c[1] \in signedIn \/ c[2] = "timer")
  /\ \/ Send(c, IF cookie = 0 THEN "fail" ELSE "read")
     \/ "limit" \in SessionFaults /\ Send(c, "limited")

SendLogin(t) == t \notin signedIn /\ issued < MaxTokens /\ Send(<<t, "login">>, "issue")

SendLogout(t) ==
  t \in signedIn /\ Send(<<t, "logout">>, IF cookie = 0 THEN "fail" ELSE "revoke")

(***************************************************************************)
(* AuthSessionService                                                      *)
(***************************************************************************)
ReadToken(c) ==
  /\ Step(c, "read", IF token[c] \in store THEN "find" ELSE "fail")
  /\ UNCHANGED <<store, issued, enabled, cookie, signedIn, token, fresh, overlapped, excused, logins>>

FindUser(c) ==
  /\ Step(c, "find", IF enabled THEN "delete" ELSE "drop")
  /\ UNCHANGED <<store, issued, enabled, cookie, signedIn, token, fresh, overlapped, excused, logins>>

DropToken(c) ==
  /\ Step(c, "drop", "fail")
  /\ store' = store \ {token[c]}
  /\ UNCHANGED <<issued, enabled, cookie, signedIn, token, fresh, overlapped, excused, logins>>

(* Variant: the token is not used up.                                      *)
KeepToken(c) ==
  /\ Step(c, "delete", "issue")
  /\ UNCHANGED <<store, issued, enabled, cookie, signedIn, token, fresh, overlapped, excused, logins>>

DeleteToken(c) ==
  /\ Step(c, "delete", "issue")
  /\ store' = store \ {token[c]}
  /\ UNCHANGED <<issued, enabled, cookie, signedIn, token, fresh, overlapped, excused, logins>>

(* issueSession, at the end of a refresh or of a login with a password     *)
(* that matches.  A login of a disabled account fails.                     *)
IssueSession(c) ==
  /\ call[c] = "issue"
  /\ IF c[2] = "login" /\ ~enabled
     THEN /\ call' = [call EXCEPT ![c] = "fail"]
          /\ UNCHANGED <<store, issued, fresh, logins>>
     ELSE /\ issued < MaxTokens
          /\ call' = [call EXCEPT ![c] = "ok"]
          /\ issued' = issued + 1
          /\ store' = store \cup {issued + 1}
          /\ fresh' = [fresh EXCEPT ![c] = issued + 1]
          /\ logins' = IF c[2] = "login" THEN logins + 1 ELSE logins
  /\ UNCHANGED <<enabled, cookie, signedIn, token, overlapped, excused>>

RevokeSession(c) ==
  /\ Step(c, "revoke", "fail")
  /\ store' = store \ {token[c]}
  /\ UNCHANGED <<issued, enabled, cookie, signedIn, token, fresh, overlapped, excused, logins>>

(***************************************************************************)
(* The response arrives                                                    *)
(***************************************************************************)
Finish(c) ==
  /\ call' = [call EXCEPT ![c] = "idle"]
  /\ token' = [token EXCEPT ![c] = 0]
  /\ fresh' = [fresh EXCEPT ![c] = 0]
  /\ UNCHANGED <<store, issued, enabled, overlapped, logins>>

Authenticated(c) ==
  /\ call[c] = "ok" /\ Finish(c)
  /\ cookie' = fresh[c]
  /\ signedIn' = signedIn \cup {c[1]}
  /\ UNCHANGED excused

(* Variant: only a logout clears the cookie.                               *)
AnonymousWithCookie(c) ==
  /\ call[c] = "fail" /\ Finish(c)
  /\ cookie' = IF c[2] = "logout" THEN 0 ELSE cookie
  /\ signedIn' = signedIn \ {c[1]}
  /\ UNCHANGED excused

(* The error answers of refresh, and every answer of logout, clear the     *)
(* cookie; a login that fails leaves it.                                   *)
Anonymous(c) ==
  /\ call[c] = "fail" /\ Finish(c)
  /\ cookie' = IF c[2] = "login" THEN cookie ELSE 0
  /\ signedIn' = signedIn \ {c[1]}
  /\ UNCHANGED excused

(* A limiter's answer clears nothing, but the tab gives up its session.    *)
Limited(c) ==
  /\ call[c] = "limited" /\ Finish(c)
  /\ signedIn' = signedIn \ {c[1]}
  /\ UNCHANGED <<cookie, excused>>

(* fetch throws.  What the server has done stays done.                     *)
ResponseLost(c) ==
  /\ "network" \in SessionFaults /\ call[c] \in {"ok", "fail"} /\ Finish(c)
  /\ signedIn' = signedIn \ {c[1]}
  /\ excused' = TRUE
  /\ UNCHANGED cookie

(***************************************************************************)
(* Redis and the administrator                                             *)
(***************************************************************************)
Expire ==
  /\ "expire" \in SessionFaults /\ store # {}
  /\ \E k \in store : store' = store \ {k}
  /\ excused' = TRUE
  /\ UNCHANGED <<issued, enabled, cookie, signedIn, call, token, fresh, overlapped, logins>>

SetEnabled ==
  /\ "disable" \in SessionFaults
  /\ enabled' = ~enabled
  /\ UNCHANGED <<store, issued, cookie, signedIn, call, token, fresh, overlapped, excused, logins>>

Serve(c) ==
  \/ ReadToken(c) \/ FindUser(c) \/ DropToken(c) \/ DeleteToken(c)
  \/ IssueSession(c) \/ RevokeSession(c)

Receive(c) == Authenticated(c) \/ Anonymous(c) \/ Limited(c) \/ ResponseLost(c)

SessionNext ==
  \/ \E c \in Calls : SendRefresh(c) \/ Serve(c) \/ Receive(c)
  \/ \E t \in Tabs : SendLogin(t) \/ SendLogout(t) \/ OpenPage(t)
  \/ Expire \/ SetEnabled

SessionSpec == SessionInit /\ [][SessionNext]_sessionVars

(***************************************************************************)
(* Properties                                                              *)
(***************************************************************************)
SessionTypeOK ==
  /\ store \subseteq 1..issued
  /\ issued \in 0..MaxTokens
  /\ enabled \in BOOLEAN
  /\ cookie \in 0..issued
  /\ signedIn \subseteq Tabs
  /\ call \in [Calls -> CallSteps]
  /\ token \in [Calls -> 0..issued]
  /\ fresh \in [Calls -> 0..issued]
  /\ overlapped \in BOOLEAN
  /\ excused \in BOOLEAN
  /\ logins \in 0..issued

(* A browser at rest holds no cookie of a session that is gone: whatever   *)
(* order the responses of concurrent refreshes, logins and logouts arrive  *)
(* in, the next refresh succeeds or the user is asked to sign in.  Lost    *)
(* responses and expired tokens are the exceptions.                        *)
CookieIsLive == Idle /\ ~excused => cookie \in store \cup {0}

(* Rotation makes no session of its own: as long as requests do not        *)
(* overlap there are at most as many live sessions as there were logins.   *)
(* Two refreshes of one token that overlap may make two.                   *)
SessionsNeedLogins == ~overlapped => Cardinality(store) <= logins
=============================================================================
