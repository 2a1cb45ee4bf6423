--------------------------- MODULE SessionProofs ---------------------------
(***************************************************************************)
(* Proofs about Session, for any calls (finitely many or not), addresses,  *)
(* lifetimes, windows and limits.                                          *)
(***************************************************************************)
EXTENDS Session, FiniteSetTheorems, TLAPS

(* The assumption, one constant at a time.                                 *)
LEMMA Constants ==
  /\ MaxTime \in Nat
  /\ TTL \in Nat /\ TTL > 0
  /\ Window \in Nat /\ Window > 0
  /\ MaxRequests \in Nat /\ MaxRequests > 0
  /\ None \notin Token /\ None \notin Time
BY SessionAssumption

(* A call that the limiter has dated, or refused, has a date.              *)
Stamped == \A c \in Call : state[c] \in {"stamped", "limited"} => at[c] \in Time

TypeInv == TypeOK /\ Stamped

LEMMA NewTokenType ==
  ASSUME clock \in Time
  PROVE  NewToken \in Token
BY Constants DEF NewToken, Time, Token

LEMMA TypeInit == Init => TypeInv
<1> SUFFICES ASSUME Init PROVE TypeInv
  OBVIOUS
<1>1. clock \in Time
  BY Constants DEF Init, Time
<1> QED
  BY <1>1 DEF Init, TypeInv, TypeOK, Stamped, NoRefresh

LEMMA TypeNext == TypeInv /\ [Next]_vars => TypeInv'
<1> SUFFICES ASSUME TypeInv, [Next]_vars PROVE TypeInv'
  OBVIOUS
<1>0. NewToken \in Token
  BY NewTokenType DEF TypeInv, TypeOK
<1> USE <1>0 DEF TypeInv, TypeOK, Stamped, callVars, pageVars, AtServer, Served, Answer
<1>1. CASE Tick
  BY <1>1, Constants DEF Tick, Time
<1>2. CASE Reload
  <2> DEFINE left == [c \in Call |-> IF state[c] \in Served \cup {"waiting"} THEN "done"
                                     ELSE state[c]]
             State == {"idle", "waiting", "done", "rejected"} \cup AtServer \cup Served
  <2>1. /\ left \in [Call -> State]
        /\ \A c \in Call : left[c] \in {"stamped", "limited"} => state[c] = "stamped"
    OBVIOUS
  <2>2. state' = left \/ \E c \in Call : state' = [left EXCEPT ![c] = "sent"]
    BY <1>2 DEF Reload
  <2>3. state' \in [Call -> State] /\ Stamped'
    <3>1. at' = at
      BY <1>2 DEF Reload
    <3> HIDE DEF left
    <3> QED
      BY <2>1, <2>2, <3>1
  <2>4. kind' = kind \/ \E c \in Call : kind' = [kind EXCEPT ![c] = "me"]
    BY <1>2, Zenon DEF Reload
  <2>5. used' = used \/ \E c \in Call : used' = [used EXCEPT ![c] = token] /\ token # None
    BY <1>2, Zenon DEF Reload
  <2>6. kind' \in [Call -> {"api", "me", "login", "register"}]
    BY <2>4
  <2>7. used' \in [Call -> Token \cup {None}]
    BY <2>5
  <2>8. refresh' \in [Call -> [state : {"none", "sent", "served"}, token : Token \cup {None}]]
    BY <1>2 DEF Reload, NoRefresh
  <2>9. heard' \in [Call -> BOOLEAN]
    BY <1>2 DEF Reload
  <2> QED
    BY <1>2, <2>3, <2>6, <2>7, <2>8, <2>9 DEF Reload
<1>3. ASSUME NEW c \in Call, Authenticate(c) PROVE TypeInv'
  BY <1>3 DEF Authenticate
<1>4. ASSUME NEW c \in Call, Limit(c) PROVE TypeInv'
  <2>1. PICK m \in {c} \cup {e.member : e \in {f \in zset : f.score = at[c]}} :
          zset' = InWindow(c) \cup {[member |-> m, score |-> at[c]]}
    BY <1>4 DEF Limit
  <2>2. m \in Call
    OBVIOUS
  <2>3. zset' \subseteq [member : Call, score : Time]
    BY <1>4, <2>1, <2>2 DEF Limit, InWindow
  <2> QED
    BY <1>4, <2>3 DEF Limit
<1>5. ASSUME NEW c \in Call, LimitUnavailable(c) PROVE TypeInv'
  BY <1>5 DEF LimitUnavailable
<1>6. ASSUME NEW c \in Call, Login(c) PROVE TypeInv'
  <2>1. grant' \in [Call -> Token \cup {None}]
    BY <1>6 DEF Login
  <2>2. state' = [state EXCEPT ![c] = IF heard[c] THEN "ok" ELSE "done"]
        \/ state' = [state EXCEPT ![c] = IF heard[c] THEN "unauthorized" ELSE "done"]
    BY <1>6 DEF Login
  <2>3. UNCHANGED <<clock, users, zset, pageVars, kind, email, used, retried, heard, at>>
    BY <1>6 DEF Login
  <2> QED
    BY <2>1, <2>2, <2>3
<1>7. ASSUME NEW c \in Call, LookUp(c) PROVE TypeInv'
  BY <1>7 DEF LookUp
<1>8. ASSUME NEW c \in Call, Insert(c) PROVE TypeInv'
  <2>1. /\ users' \subseteq [email : Email, by : Call]
        /\ grant' \in [Call -> Token \cup {None}]
    BY <1>8 DEF Insert
  <2>2. state' = [state EXCEPT ![c] = IF heard[c] THEN "ok" ELSE "done"]
        \/ state' = [state EXCEPT ![c] = IF heard[c] THEN "failed" ELSE "done"]
    BY <1>8 DEF Insert
  <2>3. UNCHANGED <<clock, zset, pageVars, kind, email, used, retried, heard, at>>
    BY <1>8 DEF Insert
  <2> QED
    BY <2>1, <2>2, <2>3
<1>9. ASSUME NEW c \in Call, ServeRefresh(c) PROVE TypeInv'
  BY <1>9 DEF ServeRefresh
<1>10. ASSUME NEW c \in Call, Lose(c) PROVE TypeInv'
  BY <1>10 DEF Lose
<1>11. ASSUME NEW c \in Call, NEW k \in {"api", "login", "register"}, Start(c, k)
       PROVE  TypeInv'
  BY <1>11 DEF Start
<1>12. ASSUME NEW c \in Call, ReturnError(c) \/ ReturnOk(c) PROVE TypeInv'
  BY <1>12 DEF ReturnError, ReturnOk
<1>13. ASSUME NEW c \in Call, ReturnUnauthorized(c) PROVE TypeInv'
  <2>1. UNCHANGED <<clock, users, zset, kind, email, used, retried, heard, at, grant>>
    BY <1>13 DEF ReturnUnauthorized
  <2>2. CASE StartRefresh(c)
    BY <2>1, <2>2 DEF StartRefresh
  <2>3. CASE CannotRefresh(c)
    BY <2>1, <2>3 DEF CannotRefresh, Logout
  <2>4. CASE JoinRefresh(c)
    BY <2>1, <2>4 DEF JoinRefresh
  <2> QED
    BY <1>13, <2>2, <2>3, <2>4 DEF ReturnUnauthorized
<1>14. ASSUME NEW c \in Call, Refreshed(c) PROVE TypeInv'
  <2>1. token' \in Token
    BY <1>14 DEF Refreshed
  <2> QED
    BY <1>14, <2>1 DEF Refreshed, NoRefresh
<1>15. ASSUME NEW c \in Call, RefreshFailed(c) PROVE TypeInv'
  BY <1>15 DEF RefreshFailed, Logout, NoRefresh
<1>16. CASE UNCHANGED vars
  BY <1>16 DEF vars
<1> QED
  BY <1>1, <1>2, <1>3, <1>4, <1>5, <1>6, <1>7, <1>8, <1>9, <1>10, <1>11, <1>12,
     <1>13, <1>14, <1>15, <1>16 DEF Next, Serve, Handle

(* Every variable keeps its type: the clock, the accounts, the limiter's   *)
(* entries, the page's token and promise, and each call (api.ts, auth.py,  *)
(* deps.py).                                                               *)
THEOREM TypeCorrect == Spec => []TypeOK
<1>1. TypeInv => TypeOK
  BY DEF TypeInv
<1> QED
  BY TypeInit, TypeNext, <1>1, PTL DEF Spec
-----------------------------------------------------------------------------
(* At most one account has an address: an insertion that would be a second *)
(* one fails, whatever the look-up before it found (auth.py).              *)
THEOREM AccountsAreUnique == Spec => []OneAccountPerEmail
<1>1. Init => OneAccountPerEmail
  BY DEF Init, OneAccountPerEmail
<1>2. OneAccountPerEmail /\ [Next]_vars => OneAccountPerEmail'
  <2> SUFFICES ASSUME OneAccountPerEmail, [Next]_vars PROVE OneAccountPerEmail'
    OBVIOUS
  <2>1. ASSUME NEW c \in Call, Insert(c) PROVE OneAccountPerEmail'
    BY <2>1 DEF Insert, Unique, Registered, OneAccountPerEmail
  <2>2. CASE UNCHANGED users
    BY <2>2 DEF OneAccountPerEmail
  <2>3. UNCHANGED users \/ \E c \in Call : Insert(c)
    BY DEF Next, Serve, Handle, Tick, Reload, Authenticate, Limit, LimitUnavailable,
           Login, LookUp, ServeRefresh, Lose, Start, ReturnError, ReturnOk,
           ReturnUnauthorized, Refreshed, RefreshFailed, vars
  <2> QED
    BY <2>1, <2>2, <2>3
<1> QED
  BY <1>1, <1>2, PTL DEF Spec
-----------------------------------------------------------------------------
(***************************************************************************)
(* The shared refresh.  RefreshIsShared counts; what is inductive names    *)
(* the call whose request it is.                                           *)
(***************************************************************************)
InFlight(c) == refresh[c].state # "none"

RefreshInv ==
  /\ \A c, d \in Call : InFlight(c) /\ InFlight(d) => c = d
  /\ (promise = "pending") <=> \E c \in Call : InFlight(c)
  /\ SettledOnlyWhileLeaving

(* The page's refresh and its promise change in these steps only.          *)
LEMMA RefreshSteps ==
  [Next]_vars =>
    \/ UNCHANGED <<promise, refresh, leaving>>
    \/ Reload
    \/ \E c \in Call :
         \/ ServeRefresh(c) \/ Lose(c) \/ StartRefresh(c) \/ CannotRefresh(c)
         \/ Refreshed(c) \/ RefreshFailed(c)
BY DEF Next, Serve, Handle, Tick, Authenticate, Limit, LimitUnavailable, Login, LookUp,
       Insert, Start, ReturnError, ReturnOk, ReturnUnauthorized, JoinRefresh, vars,
       pageVars

LEMMA RefreshNext == TypeInv /\ RefreshInv /\ [Next]_vars => RefreshInv'
<1> SUFFICES ASSUME TypeInv, RefreshInv, [Next]_vars PROVE RefreshInv'
  OBVIOUS
<1> USE DEF RefreshInv, InFlight, SettledOnlyWhileLeaving, NoRefresh, TypeInv, TypeOK
<1>1. CASE UNCHANGED <<promise, refresh, leaving>>
  BY <1>1
<1>2. CASE Reload
  BY <1>2 DEF Reload
<1>3. ASSUME NEW c \in Call, ServeRefresh(c) PROVE RefreshInv'
  BY <1>3 DEF ServeRefresh
<1>4. ASSUME NEW c \in Call, Lose(c) PROVE RefreshInv'
  BY <1>4 DEF Lose
<1>5. ASSUME NEW c \in Call, StartRefresh(c) PROVE RefreshInv'
  BY <1>5 DEF StartRefresh
<1>6. ASSUME NEW c \in Call, CannotRefresh(c) PROVE RefreshInv'
  BY <1>6 DEF CannotRefresh, Logout
<1>7. ASSUME NEW c \in Call, Refreshed(c) \/ RefreshFailed(c) PROVE RefreshInv'
  <2>1. /\ refresh' = [refresh EXCEPT ![c] = NoRefresh]
        /\ promise' = "none"
        /\ InFlight(c)
    BY <1>7 DEF Refreshed, RefreshFailed
  <2>2. \A d \in Call : ~ InFlight(d)'
    BY <2>1
  <2> QED
    BY <2>1, <2>2
<1> QED
  BY <1>1, <1>2, <1>3, <1>4, <1>5, <1>6, <1>7, RefreshSteps

LEMMA RefreshInit == Init => RefreshInv
BY DEF Init, RefreshInv, InFlight, SettledOnlyWhileLeaving, NoRefresh

LEMMA AtMostOneIsCounted ==
  ASSUME NEW S, \A c, d \in S : c = d
  PROVE  Cardinality(S) <= 1
<1>1. CASE S = {}
  BY <1>1, FS_EmptySet
<1>2. ASSUME NEW c \in S PROVE Cardinality(S) <= 1
  <2>1. S = {c}
    BY <1>2
  <2>2. Cardinality(S) = 1
    BY <2>1, FS_Singleton, Zenon
  <2> QED
    BY <2>2
<1> QED
  BY <1>1, <1>2

(* However many calls are refused at once, one refresh request is in       *)
(* flight, and the promise is pending exactly while it is (api.ts,         *)
(* attemptTokenRefresh).                                                   *)
THEOREM RefreshesAreShared == Spec => []RefreshIsShared
<1>1. RefreshInv => RefreshIsShared
  <2> SUFFICES ASSUME RefreshInv PROVE RefreshIsShared
    OBVIOUS
  <2> DEFINE S == {c \in Call : refresh[c].state # "none"}
  <2>1. Cardinality(S) <= 1
    <3>1. \A c, d \in S : c = d
      BY DEF RefreshInv, InFlight
    <3> HIDE DEF S
    <3> QED
      BY <3>1, AtMostOneIsCounted
  <2> QED
    BY <2>1 DEF RefreshInv, InFlight, RefreshIsShared
<1> QED
  BY TypeInit, TypeNext, RefreshInit, RefreshNext, <1>1, PTL DEF Spec

(* A refresh promise that is settled for ever is met only by the calls of  *)
(* a page that is being left (api.ts, the finally clause that runs before  *)
(* the assignment).                                                        *)
THEOREM SettledMeansLeaving == Spec => []SettledOnlyWhileLeaving
<1>1. RefreshInv => SettledOnlyWhileLeaving
  BY DEF RefreshInv
<1> QED
  BY TypeInit, TypeNext, RefreshInit, RefreshNext, <1>1, PTL DEF Spec
-----------------------------------------------------------------------------
(***************************************************************************)
(* The limiter.  An entry bears the date of the call that is its member,   *)
(* which has been through the limiter; so entries are as many as the calls *)
(* they are of.  A call is dated once: one that was dated is never sent    *)
(* again.                                                                  *)
(***************************************************************************)
Dated == {c \in Call : at[c] # None}

LimiterInv ==
  /\ \A c \in Dated : state[c] \in {"stamped", "limited", "ok", "done", "failed", "rejected"}
  /\ \A e \in zset : at[e.member] = e.score /\ state[e.member] # "stamped"
  /\ IsFiniteSet(Dated)

(* Calls other than c that were dated after the start of c's window.       *)
OthersInWindow(c) == {d \in Call \ {c} : at[d] # None /\ at[d] > at[c] - Window}

LEMMA FiniteStaysFinite ==
  ASSUME NEW S, NEW T, NEW x, IsFiniteSet(S), T \subseteq S \cup {x}
  PROVE  IsFiniteSet(T)
<1>1. IsFiniteSet(S \cup {x})
  BY FS_AddElement
<1> QED
  BY <1>1, FS_Subset

LEMMA LimiterInit == Init => LimiterInv
<1> SUFFICES ASSUME Init PROVE LimiterInv
  OBVIOUS
<1>1. Dated = {}
  BY DEF Init, Dated
<1> QED
  BY <1>1, FS_EmptySet DEF Init, LimiterInv

LEMMA LimiterNext == TypeInv /\ LimiterInv /\ [Next]_vars => LimiterInv'
<1> SUFFICES ASSUME TypeInv, LimiterInv, [Next]_vars PROVE LimiterInv'
  OBVIOUS
<1>0. None \notin Time
  BY Constants
<1> USE <1>0 DEF LimiterInv, Dated, TypeInv, TypeOK, Stamped, AtServer, Served, Answer
<1>1. ASSUME NEW c \in Call, Authenticate(c) PROVE LimiterInv'
  <2>1. UNCHANGED zset
    BY <1>1 DEF Authenticate
  <2>2. at[c] = None /\ state[c] = "sent"
    BY <1>1 DEF Authenticate
  <2>3. \A d \in Call \ {c} : at'[d] = at[d] /\ state'[d] = state[d]
    BY <1>1 DEF Authenticate
  <2>4. at'[c] # None => state'[c] = "stamped"
    BY <1>1, <2>2 DEF Authenticate
  <2>5. \A e \in zset : e.member \in Call \ {c}
    BY <2>2
  <2>6. Dated' \subseteq Dated \cup {c}
    BY <2>3
  <2>7. IsFiniteSet(Dated')
    BY <2>6, FiniteStaysFinite
  <2> QED
    BY <2>1, <2>3, <2>4, <2>5, <2>7
<1>2. ASSUME NEW c \in Call, Limit(c) PROVE LimiterInv'
  <2>1. PICK m \in {c} \cup {e.member : e \in {f \in zset : f.score = at[c]}} :
          zset' = InWindow(c) \cup {[member |-> m, score |-> at[c]]}
    BY <1>2 DEF Limit
  <2>2. at' = at /\ state[c] = "stamped" /\ state'[c] \in {"limited", "ok", "done"}
        /\ \A d \in Call \ {c} : state'[d] = state[d]
    BY <1>2 DEF Limit
  <2>3. m \in Call /\ at[m] = at[c] /\ state'[m] # "stamped"
    BY <2>1, <2>2
  <2>4. \A e \in InWindow(c) : e \in zset
    BY DEF InWindow
  <2> QED
    BY <2>1, <2>2, <2>3, <2>4
<1>3. ASSUME zset' = zset, at' = at,
             \A c \in Call :
               \/ state'[c] = state[c]
               \/ state[c] \notin {"stamped", "limited", "ok", "done", "failed", "rejected"}
                  /\ state'[c] # "stamped"
               \/ state'[c] \in {"limited", "ok", "done", "failed", "rejected"}
      PROVE  LimiterInv'
  BY <1>3
<1>4. CASE Tick \/ UNCHANGED vars
  BY <1>3, <1>4 DEF Tick, vars, callVars
<1>5. CASE Reload
  <2> DEFINE left == [c \in Call |-> IF state[c] \in Served \cup {"waiting"} THEN "done"
                                     ELSE state[c]]
  <2>1. state' = left \/ \E c \in Call : state[c] = "idle" /\ state' = [left EXCEPT ![c] = "sent"]
    BY <1>5 DEF Reload
  <2>2. \A c \in Call : left[c] = state[c] \/ left[c] = "done"
    OBVIOUS
  <2>3. left \in [Call -> {left[c] : c \in Call}]
    OBVIOUS
  <2> HIDE DEF left
  <2> QED
    BY <1>3, <1>5, <2>1, <2>2, <2>3 DEF Reload
<1>6. ASSUME NEW c \in Call,
             LimitUnavailable(c) \/ Login(c) \/ LookUp(c) \/ Insert(c) \/ ServeRefresh(c)
               \/ Lose(c)
      PROVE  LimiterInv'
  BY <1>3, <1>6 DEF LimitUnavailable, Login, LookUp, Insert, ServeRefresh, Lose, callVars
<1>7. ASSUME NEW c \in Call,
             (\E k \in {"api", "login", "register"} : Start(c, k)) \/ ReturnError(c)
               \/ ReturnOk(c) \/ ReturnUnauthorized(c)
      PROVE  LimiterInv'
  BY <1>3, <1>7 DEF Start, ReturnError, ReturnOk, ReturnUnauthorized, StartRefresh,
                    CannotRefresh, JoinRefresh
<1>8. ASSUME NEW c \in Call, Refreshed(c) \/ RefreshFailed(c) PROVE LimiterInv'
  BY <1>3, <1>8 DEF Refreshed, RefreshFailed, Awaiting, Waiting
<1> QED
  BY <1>1, <1>2, <1>4, <1>5, <1>6, <1>7, <1>8 DEF Next, Serve, Handle

LEMMA OthersAreFinite ==
  ASSUME LimiterInv, NEW c \in Call
  PROVE  IsFiniteSet(OthersInWindow(c)) /\ Cardinality(OthersInWindow(c)) \in Nat
<1>1. OthersInWindow(c) \subseteq Dated
  BY DEF OthersInWindow, Dated
<1>2. IsFiniteSet(OthersInWindow(c))
  BY <1>1, FS_Subset DEF LimiterInv
<1> QED
  BY <1>2, FS_CardinalityType

(* What the limiter counts is no more than the other calls of the window.  *)
LEMMA EntriesAreCalls ==
  ASSUME TypeInv, LimiterInv, NEW c \in Call, state[c] = "stamped"
  PROVE  /\ IsFiniteSet(OthersInWindow(c))
         /\ Cardinality(InWindow(c)) <= Cardinality(OthersInWindow(c))
         /\ Cardinality(OthersInWindow(c)) \in Nat /\ Cardinality(InWindow(c)) \in Nat
<1> DEFINE D == OthersInWindow(c)
           S == InWindow(c)
           f == [e \in S |-> e.member]
<1>1. IsFiniteSet(D)
  BY OthersAreFinite
<1>2. \A e \in S : e \in zset /\ e \in [member : Call, score : Time] /\ e.score > at[c] - Window
  BY DEF InWindow, TypeInv, TypeOK
<1>3. f \in [S -> D]
  <2> SUFFICES ASSUME NEW e \in S PROVE e.member \in D
    OBVIOUS
  <2>1. at[e.member] = e.score /\ state[e.member] # "stamped"
    BY <1>2 DEF LimiterInv
  <2>2. e.score # None
    BY <1>2, Constants
  <2> QED
    BY <1>2, <2>1, <2>2 DEF OthersInWindow
<1>4. \A e, g \in S : f[e] = f[g] => e = g
  <2> SUFFICES ASSUME NEW e \in S, NEW g \in S, e.member = g.member PROVE e = g
    OBVIOUS
  <2>1. e.score = g.score
    BY <1>2 DEF LimiterInv
  <2> QED
    BY <1>2, <2>1
<1>5. f \in Injection(S, D)
  BY <1>3, <1>4 DEF Injection, IsInjective
<1> HIDE DEF D, S, f
<1>6. IsFiniteSet(S) /\ Cardinality(S) <= Cardinality(D)
  BY <1>1, <1>5, FS_Injection
<1> QED
  BY <1>1, <1>6, FS_CardinalityType DEF D, S

(* The others of a window only become more.                                *)
LEMMA OthersGrow ==
  ASSUME TypeInv, LimiterInv, LimiterInv', NEW c \in Call,
         \A d \in Call : at[d] # None => at'[d] = at[d], at[c] # None
  PROVE  /\ Cardinality(OthersInWindow(c)) <= Cardinality(OthersInWindow(c)')
         /\ Cardinality(OthersInWindow(c)') \in Nat
<1> DEFINE now == OthersInWindow(c)
           then == OthersInWindow(c)'
<1>1. now \subseteq then
  BY DEF OthersInWindow
<1>2. then \subseteq Dated'
  BY DEF OthersInWindow, Dated
<1>3. IsFiniteSet(then)
  BY <1>2, FS_Subset DEF LimiterInv
<1> HIDE DEF now, then
<1>4. Cardinality(now) <= Cardinality(then)
  BY <1>1, <1>3, FS_Subset
<1>5. Cardinality(then) \in Nat
  BY <1>3, FS_CardinalityType
<1> QED
  BY <1>4, <1>5 DEF now, then

LEMMA DatesStay ==
  TypeInv /\ LimiterInv /\ [Next]_vars =>
    \A d \in Call : at[d] # None => at'[d] = at[d]
<1> SUFFICES ASSUME TypeInv, LimiterInv, [Next]_vars, NEW d \in Call, at[d] # None
             PROVE  at'[d] = at[d]
  OBVIOUS
<1>1. ASSUME NEW c \in Call, Authenticate(c) PROVE at'[d] = at[d]
  <2>1. d # c
    BY <1>1 DEF Authenticate, LimiterInv, Dated
  <2> QED
    BY <1>1, <2>1 DEF Authenticate, TypeInv, TypeOK
<1>2. UNCHANGED at \/ \E c \in Call : Authenticate(c)
  BY DEF Next, Serve, Handle, Tick, Reload, Limit, LimitUnavailable, Login, LookUp, Insert,
         ServeRefresh, Lose, Start, ReturnError, ReturnOk, ReturnUnauthorized, Refreshed,
         RefreshFailed, vars, callVars
<1> QED
  BY <1>1, <1>2

(* Only the limiter refuses a call for its rate.                           *)
LEMMA RefusedByLimit ==
  ASSUME TypeInv, [Next]_vars, NEW d \in Call, state'[d] = "limited", state[d] # "limited"
  PROVE  Limit(d) /\ Cardinality(InWindow(d)) >= MaxRequests
<1> USE DEF TypeInv, TypeOK, AtServer, Served, Answer
<1>1. ASSUME NEW c \in Call, Limit(c)
      PROVE  Limit(d) /\ Cardinality(InWindow(d)) >= MaxRequests
  <2>1. d = c
    BY <1>1 DEF Limit
  <2> QED
    BY <1>1, <2>1 DEF Limit
<1>2. CASE Tick \/ Reload \/ UNCHANGED vars
  <2>1. CASE Reload
    <3> DEFINE left == [c \in Call |-> IF state[c] \in Served \cup {"waiting"} THEN "done"
                                       ELSE state[c]]
    <3>1. state' = left \/ \E c \in Call : state' = [left EXCEPT ![c] = "sent"]
      BY <2>1 DEF Reload
    <3>2. \A c \in Call : left[c] # "limited"
      OBVIOUS
    <3>3. DOMAIN left = Call
      OBVIOUS
    <3> HIDE DEF left
    <3> QED
      BY <3>1, <3>2, <3>3
  <2> QED
    BY <1>2, <2>1 DEF Tick, vars, callVars
<1>3. ASSUME NEW c \in Call,
             Authenticate(c) \/ LimitUnavailable(c) \/ Login(c) \/ LookUp(c) \/ Insert(c)
               \/ ServeRefresh(c) \/ Lose(c)
      PROVE  FALSE
  BY <1>3 DEF Authenticate, LimitUnavailable, Login, LookUp, Insert, ServeRefresh, Lose,
              callVars
<1>4. ASSUME NEW c \in Call,
             (\E k \in {"api", "login", "register"} : Start(c, k)) \/ ReturnError(c)
               \/ ReturnOk(c) \/ ReturnUnauthorized(c)
      PROVE  FALSE
  BY <1>4 DEF Start, ReturnError, ReturnOk, ReturnUnauthorized, StartRefresh, CannotRefresh,
              JoinRefresh
<1>5. ASSUME NEW c \in Call, Refreshed(c) \/ RefreshFailed(c) PROVE FALSE
  BY <1>5 DEF Refreshed, RefreshFailed
<1> QED
  BY <1>1, <1>2, <1>3, <1>4, <1>5 DEF Next, Serve, Handle

LEMMA RefusalsNext ==
  TypeInv /\ LimiterInv /\ LimiterInv' /\ RefusedOnlyWhenBusy /\ [Next]_vars
    => RefusedOnlyWhenBusy'
<1> SUFFICES ASSUME TypeInv, LimiterInv, LimiterInv', RefusedOnlyWhenBusy, [Next]_vars,
                    NEW c \in Call, state'[c] = "limited"
             PROVE  Cardinality(OthersInWindow(c)') >= MaxRequests
  BY DEF RefusedOnlyWhenBusy, OthersInWindow
<1>1. at[c] # None /\ Cardinality(OthersInWindow(c)) >= MaxRequests
  <2>1. CASE state[c] = "limited"
    <3>1. Cardinality(OthersInWindow(c)) >= MaxRequests
      BY <2>1 DEF RefusedOnlyWhenBusy, OthersInWindow
    <3> QED
      BY <2>1, <3>1, Constants DEF TypeInv, Stamped
  <2>2. CASE state[c] # "limited"
    <3>1. state[c] = "stamped" /\ Cardinality(InWindow(c)) >= MaxRequests
      BY <2>2, RefusedByLimit DEF Limit
    <3>2. /\ Cardinality(InWindow(c)) <= Cardinality(OthersInWindow(c))
          /\ Cardinality(InWindow(c)) \in Nat /\ Cardinality(OthersInWindow(c)) \in Nat
      BY <3>1, EntriesAreCalls
    <3> QED
      BY <3>1, <3>2, Constants DEF TypeInv, Stamped
  <2> QED
    BY <2>1, <2>2
<1>2. /\ Cardinality(OthersInWindow(c)) <= Cardinality(OthersInWindow(c)')
      /\ Cardinality(OthersInWindow(c)') \in Nat
  BY <1>1, DatesStay, OthersGrow
<1>3. Cardinality(OthersInWindow(c)) \in Nat
  BY OthersAreFinite
<1> QED
  BY <1>1, <1>2, <1>3, Constants

(* A request is refused for its rate only if as many others as the limit   *)
(* came after the start of its window, though requests of one instant may  *)
(* share an entry (deps.py, RateLimiter).                                  *)
THEOREM RefusalsAreEarned == Spec => []RefusedOnlyWhenBusy
<1>1. Init => RefusedOnlyWhenBusy
  BY DEF Init, RefusedOnlyWhenBusy
<1> QED
  BY TypeInit, TypeNext, LimiterInit, LimiterNext, RefusalsNext, <1>1, PTL DEF Spec
=============================================================================
