----------------------------- MODULE RefreshToken -----------------------------
(***************************************************************************)
(* How the web front end renews an expired access token                    *)
(* (web/service/refresh-token.ts, called from web/service/base.ts on every *)
(* 401) against the rotating refresh token of the API                      *)
(* (account_service.py, RefreshTokenApi).                                  *)
(*                                                                         *)
(* Every tab of the browser runs its own copy of the module: isRefreshing  *)
(* and the beforeunload listener belong to a tab, localStorage and the     *)
(* cookies to all of them.  A call is one refreshAccessTokenOrReLogin.     *)
(* A tab runs one turn at a time, but localStorage gives no exclusion      *)
(* between tabs, so what a tab reads and what it writes in the same turn   *)
(* are two steps.  Timers never fire early and may be late.                *)
(***************************************************************************)
EXTENDS Naturals

CONSTANTS
    Tabs,      \* browser tabs
    Calls,     \* invocations of refreshAccessTokenOrReLogin
    Timeout,   \* TIME_OUT, in ticks
    MaxTime    \* bound on the clock

ASSUME TimeoutAssumption == Timeout \in Nat \ {0}
ASSUME MaxTimeAssumption == MaxTime \in Nat

None == "none"

(* No time: localStorage has no last_refresh_time ('0' to the code, which  *)
(* is long ago), or a timer that is gone.  The clock starts later.         *)
Never == 0

VARIABLES
    now,           \* the clock
    sign,          \* localStorage.is_other_tab_refreshing is '1'
    lastTime,      \* localStorage.last_refresh_time, or Never
    open,          \* the tabs that are open
    isRefreshing,  \* the module variable of each tab
    listening,     \* releaseRefreshLock listens to the tab's beforeunload
    home,          \* the tab of a call
    pc,            \* where getNewAccessToken is
    deadline,      \* when the call's timer is due, Never once it is gone
    outcome,       \* what Promise.race has settled to
    wire,          \* where the call's POST /refresh-token is
    carried,       \* the refresh token in its cookie
    granted,       \* the refresh token its response sets
    cookie,        \* the refresh token in the browser's cookies
    valid,         \* refresh tokens the API knows (Redis)
    issued,        \* refresh tokens issued so far
    causes         \* history: what has gone wrong so far

lock == <<sign, lastTime, isRefreshing, listening>>
session == <<cookie, valid, issued>>
vars == <<now, sign, lastTime, open, isRefreshing, listening, home, pc, deadline,
          outcome, wire, carried, granted, cookie, valid, issued, causes>>

Steps == {"idle", "locking", "fetching", "waiting", "releasing", "done", "gone"}
Outcomes == {None, "pending", "resolved", "rejected"}
Wires == {None, "sent", "verified", "ok", "unauthorized", "status", "failed"}

(* A lock taken or released under somebody else's; a response that set a   *)
(* new token and never arrived; an exception in the API's handler.         *)
Causes == {"overlap", "reply", "server"}

Init ==
    /\ now = 1
    /\ sign = FALSE
    /\ lastTime = Never
    /\ open = Tabs
    /\ isRefreshing = [t \in Tabs |-> FALSE]
    /\ listening = [t \in Tabs |-> FALSE]
    /\ home = [c \in Calls |-> None]
    /\ pc = [c \in Calls |-> "idle"]
    /\ deadline = [c \in Calls |-> Never]
    /\ outcome = [c \in Calls |-> None]
    /\ wire = [c \in Calls |-> None]
    /\ carried = [c \in Calls |-> 0]
    /\ granted = [c \in Calls |-> 0]
    /\ cookie = 0
    /\ valid = {0}
    /\ issued = 0
    /\ causes = {}

-----------------------------------------------------------------------------
(* The tab is inside a turn: nothing else of the tab runs until it ends.   *)
Busy(t) == \E c \in Calls : home[c] = t /\ pc[c] \in {"locking", "releasing"}

(* isRefreshingSignAvailable(timeout); a missing time counts as 0, long    *)
(* ago.                                                                    *)
SignAvailable == lastTime # Never /\ now <= lastTime + Timeout

(* releaseRefreshLock() in tab t                                           *)
ReleaseRefreshLock(t) ==
    /\ isRefreshing' = [isRefreshing EXCEPT ![t] = FALSE]
    /\ sign' = FALSE
    /\ lastTime' = Never
    /\ listening' = [listening EXCEPT ![t] = FALSE]

(* Promise.race settles once.                                              *)
Settle(c, result) ==
    outcome' = IF outcome[c] = "pending" THEN [outcome EXCEPT ![c] = result]
                                         ELSE outcome

(* A 401 makes request() or an SSE call renew the token: the timer of the  *)
(* race is set, and getNewAccessToken reads the lock.                      *)
Begin(c, t) ==
    /\ pc[c] = "idle"
    /\ t \in open
    /\ ~Busy(t)
    /\ now + Timeout <= MaxTime
    /\ home' = [home EXCEPT ![c] = t]
    /\ deadline' = [deadline EXCEPT ![c] = now + Timeout]
    /\ outcome' = [outcome EXCEPT ![c] = "pending"]
    /\ pc' = [pc EXCEPT ![c] = IF (sign /\ SignAvailable) \/ isRefreshing[t]
                               THEN "waiting" ELSE "locking"]
    /\ UNCHANGED <<now, lock, open, wire, carried, granted, session, causes>>

LockWithoutSign(c) ==
    LET t == home[c] IN
    /\ pc[c] = "locking"
    /\ isRefreshing' = [isRefreshing EXCEPT ![t] = TRUE]
    /\ listening' = [listening EXCEPT ![t] = TRUE]
    /\ pc' = [pc EXCEPT ![c] = "fetching"]
    /\ wire' = [wire EXCEPT ![c] = "sent"]
    /\ carried' = [carried EXCEPT ![c] = cookie]
    /\ UNCHANGED <<now, sign, lastTime, open, home, deadline, outcome, granted,
                   session, causes>>

(* The lock is taken and the request sent with the cookies of this moment. *)
Lock(c) ==
    LET t == home[c] IN
    /\ pc[c] = "locking"
    /\ isRefreshing' = [isRefreshing EXCEPT ![t] = TRUE]
    /\ sign' = TRUE
    /\ lastTime' = now
    /\ listening' = [listening EXCEPT ![t] = TRUE]
    /\ pc' = [pc EXCEPT ![c] = "fetching"]
    /\ wire' = [wire EXCEPT ![c] = "sent"]
    /\ carried' = [carried EXCEPT ![c] = cookie]
    /\ causes' = IF sign THEN causes \cup {"overlap"} ELSE causes
    /\ UNCHANGED <<now, open, home, deadline, outcome, granted, session>>

(* _check() of waitUntilTokenRefreshed finds the lock free.  Otherwise it  *)
(* tries again in a second: a stuttering step.                             *)
Poll(c) ==
    /\ pc[c] = "waiting"
    /\ ~Busy(home[c])
    /\ ~sign /\ ~isRefreshing[home[c]]
    /\ pc' = [pc EXCEPT ![c] = "releasing"]
    /\ UNCHANGED <<now, lock, open, home, deadline, outcome, wire, carried,
                   granted, session, causes>>

(* The waiter's own finally: it releases the lock it never took.           *)
ReleaseAfterWait(c) ==
    /\ pc[c] = "releasing"
    /\ ReleaseRefreshLock(home[c])
    /\ Settle(c, "resolved")
    /\ pc' = [pc EXCEPT ![c] = "done"]
    /\ causes' = IF sign THEN causes \cup {"overlap"} ELSE causes
    /\ UNCHANGED <<now, open, home, deadline, wire, carried, granted, session>>

FetchSettlesWithoutCookie(c) ==
    /\ pc[c] = "fetching"
    /\ ~Busy(home[c])
    /\ wire[c] \in {"ok", "unauthorized", "status", "failed"}
    /\ ReleaseRefreshLock(home[c])
    /\ Settle(c, IF wire[c] \in {"unauthorized", "failed"} THEN "rejected" ELSE "resolved")
    /\ pc' = [pc EXCEPT ![c] = "done"]
    /\ wire' = [wire EXCEPT ![c] = None]
    /\ UNCHANGED <<now, open, home, deadline, carried, granted, session, causes>>

(* The fetch settles, its cookies are stored and the finally releases the  *)
(* lock.  fetchWithRetry is given the promise of the one request, so its   *)
(* retries see the same failure again.  Only an error and a 401 reject.    *)
FetchSettles(c) ==
    /\ pc[c] = "fetching"
    /\ ~Busy(home[c])
    /\ wire[c] \in {"ok", "unauthorized", "status", "failed"}
    /\ cookie' = IF wire[c] = "ok" THEN granted[c] ELSE cookie
    /\ ReleaseRefreshLock(home[c])
    /\ Settle(c, IF wire[c] \in {"unauthorized", "failed"} THEN "rejected" ELSE "resolved")
    /\ pc' = [pc EXCEPT ![c] = "done"]
    /\ wire' = [wire EXCEPT ![c] = None]
    /\ UNCHANGED <<now, open, home, deadline, carried, granted, valid, issued,
                   causes>>

TimerOnlyRejects(c) ==
    /\ deadline[c] # Never
    /\ deadline[c] <= now
    /\ ~Busy(home[c])
    /\ Settle(c, "rejected")
    /\ deadline' = [deadline EXCEPT ![c] = Never]
    /\ UNCHANGED <<now, lock, open, home, pc, wire, carried, granted, session,
                   causes>>

(* The timer of the race.  Nobody clears it: it also fires after the call  *)
(* has settled, and releases whatever lock there is by then.               *)
TimerFires(c) ==
    /\ deadline[c] # Never
    /\ deadline[c] <= now
    /\ ~Busy(home[c])
    /\ ReleaseRefreshLock(home[c])
    /\ Settle(c, "rejected")
    /\ deadline' = [deadline EXCEPT ![c] = Never]
    /\ causes' = IF sign THEN causes \cup {"overlap"} ELSE causes
    /\ UNCHANGED <<now, open, home, pc, wire, carried, granted, session>>

(* The page and its calls are gone; a fetch in flight is cancelled, which  *)
(* the API does not notice.                                                *)
PageGone(t) ==
    LET cut == {c \in Calls : home[c] = t /\ pc[c] \notin {"idle", "done"}} IN
    /\ open' = open \ {t}
    /\ pc' = [c \in Calls |-> IF c \in cut THEN "gone" ELSE pc[c]]
    /\ deadline' = [c \in Calls |-> IF home[c] = t THEN Never ELSE deadline[c]]
    /\ causes' = causes
           \cup {x \in {"reply"} : \E c \in cut : wire[c] \in {"sent", "verified", "ok"}}
    /\ UNCHANGED <<now, home, outcome, wire, carried, granted, session>>

(* The user leaves, or request() jumps to the sign-in page after a         *)
(* rejection: beforeunload releases the lock if it is listened to.         *)
LeavePage(t) ==
    /\ t \in open
    /\ ~Busy(t)
    /\ PageGone(t)
    /\ IF listening[t] THEN ReleaseRefreshLock(t) ELSE UNCHANGED lock

(* The tab is killed and beforeunload never runs.                          *)
Crash(t) ==
    /\ t \in open
    /\ PageGone(t)
    /\ UNCHANGED lock

Tick ==
    /\ now < MaxTime
    /\ now' = now + 1
    /\ UNCHANGED <<lock, open, home, pc, deadline, outcome, wire, carried, granted,
                   session, causes>>

-----------------------------------------------------------------------------
(* AccountService.refresh_token looks the token up in Redis ...            *)
VerifyRefreshToken(c) ==
    /\ wire[c] = "sent"
    /\ wire' = [wire EXCEPT ![c] = IF carried[c] \in valid THEN "verified" ELSE "unauthorized"]
    /\ UNCHANGED <<now, lock, open, home, pc, deadline, outcome, carried, granted,
                   session, causes>>

RotateForgets(c) ==
    /\ wire[c] = "verified"
    /\ wire' = [wire EXCEPT ![c] = "ok"]
    /\ issued' = issued + 1
    /\ granted' = [granted EXCEPT ![c] = issued + 1]
    /\ valid' = valid \ {carried[c]}
    /\ UNCHANGED <<now, lock, open, home, pc, deadline, outcome, carried, cookie,
                   causes>>

(* ... deletes it and stores a new one for the response to set.            *)
RotateRefreshToken(c) ==
    /\ wire[c] = "verified"
    /\ wire' = [wire EXCEPT ![c] = "ok"]
    /\ issued' = issued + 1
    /\ granted' = [granted EXCEPT ![c] = issued + 1]
    /\ valid' = (valid \ {carried[c]}) \cup {issued + 1}
    /\ UNCHANGED <<now, lock, open, home, pc, deadline, outcome, carried, cookie,
                   causes>>

(* Any exception in the handler, before or after the old token is deleted, *)
(* is answered with a 401.                                                 *)
RefreshRaises(c) ==
    /\ wire[c] = "verified"
    /\ wire' = [wire EXCEPT ![c] = "unauthorized"]
    /\ valid' \in {valid, valid \ {carried[c]}}
    /\ causes' = causes \cup {"server"}
    /\ UNCHANGED <<now, lock, open, home, pc, deadline, outcome, carried, granted,
                   cookie, issued>>

(* The network fails (fetch rejects) or a gateway answers with a status of *)
(* its own, before the API has the request or after it has answered.       *)
NetworkFails(c) ==
    /\ pc[c] = "fetching"
    /\ wire[c] \in {"sent", "ok"}
    /\ \E w \in {"failed", "status"} : wire' = [wire EXCEPT ![c] = w]
    /\ causes' = IF wire[c] = "ok" THEN causes \cup {"reply"} ELSE causes
    /\ UNCHANGED <<now, lock, open, home, pc, deadline, outcome, carried, granted,
                   session>>

-----------------------------------------------------------------------------
CallStep(c) ==
    \/ Lock(c)
    \/ Poll(c)
    \/ ReleaseAfterWait(c)
    \/ FetchSettles(c)
    \/ TimerFires(c)

ServerStep(c) ==
    \/ VerifyRefreshToken(c)
    \/ RotateRefreshToken(c)
    \/ RefreshRaises(c)
    \/ NetworkFails(c)

Next ==
    \/ Tick
    \/ \E c \in Calls, t \in Tabs : Begin(c, t)
    \/ \E c \in Calls : CallStep(c) \/ ServerStep(c)
    \/ \E t \in Tabs : LeavePage(t) \/ Crash(t)

(* Time passes and a tab's turns and due timers run.  The API and the      *)
(* network owe nothing: a request may stay unanswered.                     *)
Fairness ==
    /\ WF_vars(Tick)
    /\ \A c \in Calls : WF_vars(CallStep(c))

Spec == Init /\ [][Next]_vars

FairSpec == Spec /\ Fairness

-----------------------------------------------------------------------------
(* The values each variable can take.                                      *)
TypeOK ==
    /\ now \in Nat
    /\ sign \in BOOLEAN
    /\ lastTime \in Nat
    /\ open \subseteq Tabs
    /\ isRefreshing \in [Tabs -> BOOLEAN]
    /\ listening \in [Tabs -> BOOLEAN]
    /\ home \in [Calls -> Tabs \cup {None}]
    /\ pc \in [Calls -> Steps]
    /\ deadline \in [Calls -> Nat]
    /\ outcome \in [Calls -> Outcomes]
    /\ wire \in [Calls -> Wires]
    /\ carried \in [Calls -> Nat]
    /\ granted \in [Calls -> Nat]
    /\ cookie \in Nat
    /\ valid \subseteq Nat
    /\ issued \in Nat
    /\ causes \subseteq Causes

Fetching == {c \in Calls : pc[c] = "fetching"}

(* Two refreshes run at once only if a lock was taken over or released     *)
(* under its holder: by the timer of some call, by a waiter, by a page     *)
(* that left, after the lock went stale, or because two tabs read the free *)
(* lock before either had written it.                                      *)
ExclusiveUnlessOverlap ==
    "overlap" \notin causes => \A c, d \in Fetching : c = d

(* The API refuses a refresh only after such an overlap, an answer that    *)
(* set a new token and did not arrive, or an exception of its own: a user  *)
(* with a live session is not signed out otherwise.                        *)
RefusedForCause ==
    (\E c \in Calls : wire[c] = "unauthorized") => causes # {}

(* Overlapping refreshes of one token never end the session: whatever the  *)
(* order in which they are verified, rotated and answered, the browser     *)
(* holds a valid token or one is on its way, unless a response was lost or *)
(* the API failed.                                                         *)
SessionKept ==
    \/ cookie \in valid
    \/ \E c \in Fetching : wire[c] = "ok" /\ granted[c] \in valid
    \/ causes \cap {"reply", "server"} # {}

(* "only one request can send" (refresh-token.ts, line 31), taken of one   *)
(* tab, where nothing runs between the test of isRefreshing and its        *)
(* assignment.                                                             *)
OnlyOneRequest == \A c, d \in Fetching : home[c] = home[d] => c = d

(* A waiter stops polling even if the holder of the lock was killed        *)
(* before it could release it: the waiter's own timer does.                *)
WaiterReleased ==
    \A c \in Calls : pc[c] = "waiting" ~> pc[c] # "waiting"
=============================================================================
