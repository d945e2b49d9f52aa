------------------------------ MODULE Session ------------------------------
(***************************************************************************)
(* Logging in and out of the web client: pages/login.tsx, stores/auth.ts,  *)
(* the hooks of api/client.ts, the route guard of routes.tsx and the       *)
(* header's poll, logout and change-password dialog.  One tab is followed; *)
(* the other tabs of the browser change the localStorage they share.       *)
(***************************************************************************)
EXTENDS Naturals

CONSTANTS
    MaxTokens,      \* bound: logins
    MaxNetFaults    \* bound: requests that get no answer

ASSUME SessionAssumption == MaxTokens \in Nat

VARIABLES
    expired,        \* server: the access tokens that ran out
    issued,         \* server: tokens handed out so far
    storage,        \* localStorage: the token of auth-storage, 0 for none
    at,             \* "login", "app", or "leaving" while /login is loaded
    mem,            \* the token of the store in memory
    calls,          \* requests of the page: [op, token, ans]
    saving,         \* whether the login or change-password button waits
    netFaults

sessionVars == <<expired, issued, storage, at, mem, calls, saving, netFaults>>

Live(k) == k \in 1..issued /\ k \notin expired

SessionInit ==
    /\ expired = {} /\ issued = 0 /\ storage = 0 /\ netFaults = 0
    /\ at = "login" /\ mem = 0
    /\ calls = {} /\ saving = FALSE

(* The beforeRequest hook: the token is the one in localStorage.           *)
Call(op, token) == [op |-> op, token |-> token, ans |-> ""]
Asked(op) == calls' = calls \cup {Call(op, storage)}

TokenExpires ==
    /\ \E k \in 1..issued : k \notin expired /\ expired' = expired \cup {k}
    /\ UNCHANGED <<issued, storage, at, mem, calls, saving, netFaults>>

(* Another tab logs in, logs out, is refused, or persists its store again. *)
OtherTabs ==
    /\ \E n \in {issued, issued + 1} \cap 0..MaxTokens : issued' = n /\ storage' \in 0..n
    /\ UNCHANGED <<expired, at, mem, calls, saving, netFaults>>

-----------------------------------------------------------------------------
(* The server.  A login is answered with a new token or not authorized,    *)
(* every other request is checked by the middleware first.  That a handler *)
(* refuses after it makes a difference only for me.                        *)

ServeCall(op) ==
    \E c \in calls, ans \in {"ok", "refused", "unauthorized"} :
        /\ c.op = op /\ c.ans = ""
        /\ ans = "refused" => c.op = "me"
        /\ c.op # "login" => (ans = "unauthorized" <=> ~Live(c.token))
        /\ IF c.op = "login" /\ ans = "ok"
           THEN /\ issued < MaxTokens /\ issued' = issued + 1
                /\ calls' = (calls \ {c}) \cup {[c EXCEPT !.ans = ans, !.token = issued']}
           ELSE /\ UNCHANGED issued
                /\ calls' = (calls \ {c}) \cup {[c EXCEPT !.ans = ans, !.token = 0]}
        /\ UNCHANGED <<expired, storage, at, mem, saving, netFaults>>

-----------------------------------------------------------------------------
(* Pages.  A page load starts the store from localStorage and gives up     *)
(* the requests of the page before it; "/" needs a token.                  *)

Loaded(path) ==
    /\ mem' = storage
    /\ at' = IF storage = 0 THEN "login" ELSE path
    /\ calls' = {} /\ saving' = FALSE
    /\ UNCHANGED <<expired, issued, storage, netFaults>>

OpenApp == at # "leaving" /\ Loaded("app")
LeaveForLogin == at = "leaving" /\ Loaded("login")

(* AppLayout's header asks for the status when it mounts and every 30 s.   *)
PollStatus ==
    /\ at = "app" /\ Asked("status")
    /\ UNCHANGED <<expired, issued, storage, at, mem, saving, netFaults>>

(* As Unauthorized without the redirect. *)
UnauthorizedStays == storage' = 0 /\ UNCHANGED at

(* The afterResponse hook on a 401. *)
Unauthorized ==
    /\ storage' = 0
    /\ at' = IF at = "app" THEN "leaving" ELSE at

AnswerOf(op, c) ==
    /\ c \in calls /\ c.op = op /\ c.ans # ""
    /\ calls' = calls \ {c}

NoAnswer(op) ==
    /\ netFaults < MaxNetFaults /\ netFaults' = netFaults + 1
    /\ \E c \in calls : c.op = op /\ calls' = calls \ {c}
    /\ saving' = (saving /\ op = "status")
    /\ UNCHANGED <<expired, issued, storage, at, mem>>

PollAnswered ==
    \/ \E c \in calls :
          /\ AnswerOf("status", c)
          /\ IF c.ans = "unauthorized" THEN Unauthorized ELSE UNCHANGED <<storage, at>>
          /\ UNCHANGED <<expired, issued, mem, saving, netFaults>>
    \/ NoAnswer("status")

-----------------------------------------------------------------------------
(* handleSubmit of the login page: login, then me, then navigate('/').     *)

LoginSubmit ==
    /\ at = "login" /\ ~saving
    /\ saving' = TRUE
    /\ Asked("login")
    /\ UNCHANGED <<expired, issued, storage, at, mem, netFaults>>

(* setTokens writes memory and, through persist, localStorage.             *)
LoginAnswered ==
    \/ \E c \in calls :
          /\ c.op = "login" /\ c.ans # ""
          /\ IF c.ans = "ok"
             THEN /\ storage' = c.token /\ mem' = c.token
                  /\ calls' = (calls \ {c}) \cup {Call("me", c.token)}
                  /\ UNCHANGED <<at, saving>>
             ELSE /\ AnswerOf("login", c) /\ Unauthorized
                  /\ saving' = FALSE /\ UNCHANGED mem
          /\ UNCHANGED <<expired, issued, netFaults>>
    \/ NoAnswer("login")

(* setUser persists the whole store of this tab again.                     *)
MeAnswered ==
    \/ \E c \in calls :
          /\ AnswerOf("me", c)
          /\ CASE c.ans = "ok"           -> storage' = mem /\ at' = "app"
               [] c.ans = "unauthorized" -> Unauthorized
               [] c.ans = "refused"      -> UNCHANGED <<storage, at>>
          /\ saving' = FALSE
          /\ UNCHANGED <<expired, issued, mem, netFaults>>
    \/ NoAnswer("me")

(* handleLogout: the page is not loaded again, its requests go on, and     *)
(* their answers find no header any more.                                  *)
Logout ==
    /\ at = "app"
    /\ mem' = 0 /\ storage' = 0
    /\ calls' = {[c EXCEPT !.op = "status"] : c \in calls}
    /\ at' = "login" /\ saving' = FALSE
    /\ UNCHANGED <<expired, issued, netFaults>>

-----------------------------------------------------------------------------
(* handleChangePassword; a wrong current password is refused with 400.     *)

ChangePassword ==
    /\ at = "app" /\ ~saving
    /\ saving' = TRUE
    /\ Asked("password")
    /\ UNCHANGED <<expired, issued, storage, at, mem, netFaults>>

PasswordAnswered ==
    \/ \E c \in calls :
          /\ AnswerOf("password", c)
          /\ IF c.ans = "unauthorized" THEN Unauthorized ELSE UNCHANGED <<storage, at>>
          /\ saving' = FALSE
          /\ UNCHANGED <<expired, issued, mem, netFaults>>
    \/ NoAnswer("password")

-----------------------------------------------------------------------------
SessionStep ==
    \/ \E op \in {"login", "me", "status", "password"} : ServeCall(op)
    \/ OpenApp \/ LeaveForLogin
    \/ PollStatus \/ PollAnswered
    \/ LoginSubmit \/ LoginAnswered \/ MeAnswered \/ Logout
    \/ ChangePassword \/ PasswordAnswered

SessionNext == TokenExpires \/ OtherTabs \/ SessionStep

-----------------------------------------------------------------------------
SessionTypeOK ==
    /\ issued \in 0..MaxTokens /\ expired \subseteq 1..issued
    /\ {storage, mem} \subseteq 0..issued
    /\ at \in {"login", "app", "leaving"} /\ saving \in BOOLEAN
    /\ calls \subseteq [op : {"login", "me", "status", "password"}, token : 0..issued,
                        ans : {"", "ok", "refused", "unauthorized"}]

(* A tab that shows the application without a session that is still good   *)
(* does not stay there: its next request takes it to the login page, also  *)
(* when another tab's request was the one that found out, unless somebody  *)
(* logs in meanwhile.                                                      *)
ExpiredEnds ==
    (at = "app" /\ ~Live(storage)) ~> (at # "app" \/ Live(storage))
=============================================================================
