------------------------------ MODULE Session ------------------------------
(***************************************************************************)
(* A browser page that signs in (lib/api.ts, AuthProvider.tsx) and the     *)
(* endpoints that check its token, register its accounts and limit its     *)
(* requests (api/deps.py, api/routes/auth.py).                             *)
(*                                                                         *)
(* A step of the page is a callback up to its next await, with the         *)
(* microtasks it releases; a step of the backend runs from one await on    *)
(* the database or Redis to the next.  A token is its expiry: there is one *)
(* user of the page.  A request a reload left behind is still served.      *)
(* Left out: passwords (a login may or may not match), the profile, the    *)
(* logout button.                                                          *)
(***************************************************************************)
EXTENDS Integers, FiniteSets

CONSTANTS Call,         \* calls of apiFetch, each made at most once
          Email,        \* addresses that register
          MaxTime,      \* bound: ticks of the clock
          TTL,          \* settings.jwt_expire_minutes
          Window,       \* RateLimiter.window_seconds
          MaxRequests,  \* RateLimiter.max_requests
          Debug,        \* settings.debug
          None          \* no token

Time == 0 .. MaxTime
Token == TTL .. MaxTime + TTL

ASSUME SessionAssumption ==
  /\ MaxTime \in Nat /\ {TTL, Window, MaxRequests} \subseteq Nat \ {0}
  /\ Debug \in BOOLEAN /\ None \notin Token \cup Time

VARIABLES
  clock,
  users,    \* rows of the users table: the address and the call that inserted it
  zset,     \* the limiter's entries: member and score
  token,    \* TOKEN_KEY of the local storage
  promise,  \* refreshPromise: none, pending, or settled with false for ever
  refresh,  \* POST /auth/refresh: the request each call began
  leaving,  \* logout has sent the page to /login
  kind, email, state, used, retried, heard, at, grant   \* of each call

callVars == <<kind, email, state, used, retried, heard, at, grant>>
pageVars == <<token, promise, refresh, leaving>>
vars == <<clock, users, zset, pageVars, callVars>>

NoRefresh == [state |-> "none", token |-> None]
Served == {"ok", "unauthorized", "limited", "refused", "failed"}  \* answers
AtServer == {"sent", "stamped", "free"}

TypeOK ==
  /\ clock \in Time
  /\ users \subseteq [email : Email, by : Call]
  /\ zset \subseteq [member : Call, score : Time]
  /\ token \in Token \cup {None}
  /\ promise \in {"none", "pending", "settled"}
  /\ refresh \in [Call -> [state : {"none", "sent", "served"}, token : Token \cup {None}]]
  /\ leaving \in BOOLEAN
  /\ kind \in [Call -> {"api", "me", "login", "register"}]
  /\ email \in [Call -> Email]
  /\ state \in [Call -> {"idle", "waiting", "done", "rejected"} \cup AtServer \cup Served]
  /\ used \in [Call -> Token \cup {None}]
  /\ retried \in [Call -> BOOLEAN] /\ heard \in [Call -> BOOLEAN]
  /\ at \in [Call -> Time \cup {None}]
  /\ grant \in [Call -> Token \cup {None}]

Init ==
  /\ clock = 0
  /\ users = {}
  /\ zset = {}
  /\ token = None
  /\ promise = "none"
  /\ refresh = [c \in Call |-> NoRefresh]
  /\ leaving = FALSE
  /\ kind = [c \in Call |-> "api"]
  /\ email \in [Call -> Email]
  /\ state = [c \in Call |-> "idle"]
  /\ used = [c \in Call |-> None]
  /\ retried = [c \in Call |-> FALSE]
  /\ heard = [c \in Call |-> TRUE]
  /\ at = [c \in Call |-> None]
  /\ grant = [c \in Call |-> None]

Tick ==
  /\ clock < MaxTime
  /\ clock' = clock + 1
  /\ UNCHANGED <<users, zset, pageVars, callVars>>
-----------------------------------------------------------------------------
(***************************************************************************)
(* The backend.                                                            *)
(***************************************************************************)

(* Bug: the lifetime is counted from the next tick.                        *)
LateToken == clock + TTL + 1

(* create_access_token *)
NewToken == clock + TTL

(* decode_access_token                                                     *)
Valid(t) == clock < t

(* get_current_user; users are never deleted.                              *)
Authenticated(t) == IF t = None THEN Debug ELSE Valid(t)

Answer(c, answer) ==
  state' = [state EXCEPT ![c] = IF heard[c] THEN answer ELSE "done"]

(* The user dependency, which set_request_user_id runs ahead of the        *)
(* limiter; then /auth/me answers, and a limited endpoint reads the clock. *)
Authenticate(c) ==
  /\ state[c] = "sent"
  /\ kind[c] \in {"api", "me"}
  /\ CASE ~ Authenticated(used[c]) -> Answer(c, "unauthorized") /\ UNCHANGED at
       [] Authenticated(used[c]) /\ kind[c] = "me" -> Answer(c, "ok") /\ UNCHANGED at
       [] OTHER -> /\ state' = [state EXCEPT ![c] = "stamped"]
                   /\ at' = [at EXCEPT ![c] = clock]
  /\ UNCHANGED <<clock, users, zset, pageVars, kind, email, used, retried, heard, grant>>

(* Bug: nothing is pruned.                                                 *)
Unpruned(c) == zset

(* Entries of the window of c's reading of the clock.                      *)
InWindow(c) == {e \in zset : e.score > at[c] - Window}

(* RateLimiter.__call__: one pipeline prunes, counts and adds.  The member *)
(* is the time as a string: two requests of one instant may share it.      *)
Limit(c) ==
  /\ state[c] = "stamped"
  /\ \E m \in {c} \cup {e.member : e \in {f \in zset : f.score = at[c]}} :
       zset' = InWindow(c) \cup {[member |-> m, score |-> at[c]]}
  /\ Answer(c, IF Cardinality(InWindow(c)) >= MaxRequests THEN "limited" ELSE "ok")
  /\ UNCHANGED <<clock, users, pageVars, kind, email, used, retried, heard, at, grant>>

(* Without Redis, or when it fails, the request is allowed.                *)
LimitUnavailable(c) ==
  /\ state[c] = "stamped"
  /\ Answer(c, "ok")
  /\ UNCHANGED <<clock, users, zset, pageVars, kind, email, used, retried, heard, at, grant>>

Registered(e) == \E u \in users : u.email = e

(* login: the account's password matches, or it does not.                  *)
Login(c) ==
  /\ state[c] = "sent"
  /\ kind[c] = "login"
  /\ \/ /\ Registered(email[c])
        /\ Answer(c, "ok")
        /\ grant' = [grant EXCEPT ![c] = NewToken]
     \/ /\ Answer(c, "unauthorized")
        /\ UNCHANGED grant
  /\ UNCHANGED <<clock, users, zset, pageVars, kind, email, used, retried, heard, at>>

(* register_with_token: the address is looked up ...                       *)
LookUp(c) ==
  /\ state[c] = "sent"
  /\ kind[c] = "register"
  /\ IF Registered(email[c]) THEN Answer(c, "refused")
                             ELSE state' = [state EXCEPT ![c] = "free"]
  /\ UNCHANGED <<clock, users, zset, pageVars, kind, email, used, retried, heard, at, grant>>

(* Bug: the table takes any row.                                           *)
NoUniqueIndex(c) == TRUE

(* The unique index on the address.                                        *)
Unique(c) == ~ Registered(email[c])

(* ... and the account inserted, unless another request did so meanwhile.  *)
Insert(c) ==
  /\ state[c] = "free"
  /\ IF Unique(c)
     THEN /\ users' = users \cup {[email |-> email[c], by |-> c]}
          /\ grant' = [grant EXCEPT ![c] = NewToken]
          /\ Answer(c, "ok")
     ELSE /\ Answer(c, "failed")
          /\ UNCHANGED <<users, grant>>
  /\ UNCHANGED <<clock, zset, pageVars, kind, email, used, retried, heard, at>>

(* refresh, which authenticates like any other endpoint.                   *)
ServeRefresh(c) ==
  /\ refresh[c].state = "sent"
  /\ refresh' = [refresh EXCEPT ![c] =
       [state |-> "served", token |-> IF Authenticated(@.token) THEN NewToken ELSE None]]
  /\ UNCHANGED <<clock, users, zset, token, promise, leaving, callVars>>

(* The network loses a request or its answer.                              *)
Lose(c) ==
  /\ \/ /\ state[c] \in {"sent", "ok"}
        /\ Answer(c, "failed")
        /\ UNCHANGED refresh
     \/ /\ refresh[c].state = "sent"
        /\ refresh' = [refresh EXCEPT ![c] = [state |-> "served", token |-> None]]
        /\ UNCHANGED state
  /\ UNCHANGED <<clock, users, zset, token, promise, leaving, kind, email, used, retried,
                 heard, at, grant>>
-----------------------------------------------------------------------------
(***************************************************************************)
(* The page.                                                               *)
(***************************************************************************)

(* apiFetch attaches the stored token.                                     *)
Start(c, k) ==
  /\ state[c] = "idle"
  /\ ~ leaving
  /\ kind' = [kind EXCEPT ![c] = k]
  /\ state' = [state EXCEPT ![c] = "sent"]
  /\ used' = [used EXCEPT ![c] = token]
  /\ UNCHANGED <<clock, users, zset, pageVars, email, retried, heard, at, grant>>

(* Bug: the page is not left.                                              *)
LogoutInPlace == token' = None /\ UNCHANGED leaving

(* clearToken and the logout callback, which navigates to /login.          *)
Logout == token' = None /\ leaving' = TRUE

(* Bug: a fetch that fails has no handler.                                 *)
ReturnHttpError(c) ==
  /\ heard[c]
  /\ \/ state[c] \in {"limited", "refused"}
     \/ (state[c] = "unauthorized" /\ retried[c])
  /\ state' = [state EXCEPT ![c] = "rejected"]
  /\ token' = IF kind[c] = "me" THEN None ELSE token
  /\ UNCHANGED <<clock, users, zset, promise, refresh, leaving, kind, email, used, retried,
                 heard, at, grant>>

(* A response that is neither a success nor a 401 it can act on: apiJson   *)
(* throws; restore drops the token, whatever went wrong.                   *)
ReturnError(c) ==
  /\ heard[c]
  /\ \/ state[c] \in {"limited", "refused", "failed"}
     \/ (state[c] = "unauthorized" /\ retried[c])
  /\ state' = [state EXCEPT ![c] = "rejected"]
  /\ token' = IF kind[c] = "me" THEN None ELSE token
  /\ UNCHANGED <<clock, users, zset, promise, refresh, leaving, kind, email, used, retried,
                 heard, at, grant>>

(* A success; login and register store the token they were given.          *)
ReturnOk(c) ==
  /\ heard[c]
  /\ state[c] = "ok"
  /\ state' = [state EXCEPT ![c] = "done"]
  /\ token' = IF grant[c] = None THEN token ELSE grant[c]
  /\ UNCHANGED <<clock, users, zset, promise, refresh, leaving, kind, email, used, retried,
                 heard, at, grant>>

(* Bug: every call refreshes for itself.                                   *)
RefreshForEach(c) ==
  /\ token # None
  /\ promise' = "pending"
  /\ refresh' = [refresh EXCEPT ![c] = [state |-> "sent", token |-> token]]
  /\ state' = [state EXCEPT ![c] = "waiting"]
  /\ UNCHANGED <<token, leaving>>

(* attemptTokenRefresh when none is under way: a request with the token    *)
(* stored by now ...                                                       *)
StartRefresh(c) ==
  /\ promise = "none"
  /\ token # None
  /\ promise' = "pending"
  /\ refresh' = [refresh EXCEPT ![c] = [state |-> "sent", token |-> token]]
  /\ state' = [state EXCEPT ![c] = "waiting"]
  /\ UNCHANGED <<token, leaving>>

(* ... or, without one, false: the finally clause has run by the time the  *)
(* promise is assigned, so it is never cleared, and answers later callers. *)
(* Either way apiFetch logs out.                                           *)
CannotRefresh(c) ==
  /\ promise = "settled" \/ (promise = "none" /\ token = None)
  /\ promise' = "settled"
  /\ Logout
  /\ state' = [state EXCEPT ![c] = "rejected"]
  /\ UNCHANGED refresh

(* The refresh under way is awaited.                                       *)
JoinRefresh(c) ==
  /\ promise = "pending"
  /\ state' = [state EXCEPT ![c] = "waiting"]
  /\ UNCHANGED pageVars

(* apiFetch: a 401 to the first attempt.                                   *)
ReturnUnauthorized(c) ==
  /\ heard[c]
  /\ state[c] = "unauthorized"
  /\ ~ retried[c]
  /\ StartRefresh(c) \/ CannotRefresh(c) \/ JoinRefresh(c)
  /\ UNCHANGED <<clock, users, zset, kind, email, used, retried, heard, at, grant>>

Waiting == {c \in Call : state[c] = "waiting"}

(* The calls that await the promise c created.                             *)
Awaiting(c) == Waiting

(* The refresh succeeded: its waiters send their requests again.           *)
Refreshed(c) ==
  /\ refresh[c].state = "served"
  /\ refresh[c].token # None
  /\ token' = refresh[c].token
  /\ promise' = "none"
  /\ refresh' = [refresh EXCEPT ![c] = NoRefresh]
  /\ state' = [d \in Call |-> IF d \in Awaiting(c) THEN "sent" ELSE state[d]]
  /\ used' = [d \in Call |-> IF d \in Awaiting(c) THEN token' ELSE used[d]]
  /\ retried' = [d \in Call |-> retried[d] \/ d \in Awaiting(c)]
  /\ UNCHANGED <<clock, users, zset, leaving, kind, email, heard, at, grant>>

(* It failed: each of them clears the token and logs out.                  *)
RefreshFailed(c) ==
  /\ refresh[c].state = "served"
  /\ refresh[c].token = None
  /\ Logout
  /\ promise' = "none"
  /\ refresh' = [refresh EXCEPT ![c] = NoRefresh]
  /\ state' = [d \in Call |-> IF d \in Awaiting(c) THEN "rejected" ELSE state[d]]
  /\ UNCHANGED <<clock, users, zset, kind, email, used, retried, heard, at, grant>>

(* The page is loaded anew; with a token it restores the session.          *)
Reload ==
  /\ promise' = "none"
  /\ refresh' = [c \in Call |-> NoRefresh]
  /\ leaving' = FALSE
  /\ heard' = [c \in Call |-> heard[c] /\ state[c] \notin AtServer]
  /\ LET left == [c \in Call |-> IF state[c] \in Served \cup {"waiting"} THEN "done"
                                 ELSE state[c]]
     IN IF token # None /\ \E c \in Call : state[c] = "idle"
        THEN \E c \in Call :
               /\ state[c] = "idle"
               /\ state' = [left EXCEPT ![c] = "sent"]
               /\ kind' = [kind EXCEPT ![c] = "me"]
               /\ used' = [used EXCEPT ![c] = token]
        ELSE state' = left /\ UNCHANGED <<kind, used>>
  /\ UNCHANGED <<clock, users, zset, token, email, retried, at, grant>>
-----------------------------------------------------------------------------
Serve(c) == \/ Authenticate(c) \/ Limit(c) \/ LimitUnavailable(c) \/ Login(c)
            \/ LookUp(c) \/ Insert(c) \/ ServeRefresh(c)

Handle(c) == ReturnError(c) \/ ReturnOk(c) \/ ReturnUnauthorized(c)
             \/ Refreshed(c) \/ RefreshFailed(c)

Next == \/ Tick
        \/ Reload
        \/ \E c \in Call : \/ Serve(c) \/ Lose(c) \/ Handle(c)
                           \/ \E k \in {"api", "login", "register"} : Start(c, k)

Spec == Init /\ [][Next]_vars

(* Requests are served and their answers handled; the browser follows the  *)
(* redirect.  Nobody has to start a call, to reload, or to lose a request. *)
FairSpec == /\ Spec
            /\ WF_vars(leaving /\ Reload)
            /\ \A c \in Call : WF_vars(Serve(c)) /\ WF_vars(Handle(c))
-----------------------------------------------------------------------------
(* At most one account has an address, though two registrations may both   *)
(* have found it free (auth.py, the check and the insert are two steps).   *)
OneAccountPerEmail == \A u, v \in users : u.email = v.email => u = v

(* However many calls are refused at once, one refresh request is in       *)
(* flight, and while there is one the promise is the one callers share     *)
(* (api.ts, "Concurrent callers share a single in-flight request").        *)
RefreshIsShared ==
  /\ Cardinality({c \in Call : refresh[c].state # "none"}) <= 1
  /\ (promise = "pending") <=> \E c \in Call : refresh[c].state # "none"

(* The promise that is settled for ever is met only in a page that is      *)
(* being left: no later session inherits a refresh that cannot succeed.    *)
SettledOnlyWhileLeaving == promise = "settled" => leaving

(* A request is refused for its rate only if as many others as the limit   *)
(* came after the start of its window (deps.py, RateLimiter).              *)
RefusedOnlyWhenBusy ==
  \A c \in Call : state[c] = "limited" =>
    Cardinality({d \in Call \ {c} : at[d] # None /\ at[d] > at[c] - Window}) >= MaxRequests

(* Every call ends: it is answered, retried at most once, or given up with *)
(* the page, and never waits for a refresh that nobody performs.           *)
CallsSettle == \A c \in Call : state[c] = "sent" ~> state[c] \in {"idle", "done", "rejected"}
=============================================================================
