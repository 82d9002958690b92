------------------------- MODULE RefreshTokenProofs -------------------------
(***************************************************************************)
(* Proofs about RefreshToken, for any number of tabs and calls and any     *)
(* timeout.  The lock's exclusion needs that the sign is set and exactly   *)
(* the holder's tab listens; the session's survival needs that no token in *)
(* a response is one that a request carries.                               *)
(***************************************************************************)
EXTENDS RefreshToken, TLAPS

(* Every step keeps the types.                                             *)
LEMMA NextTypeOK == TypeOK /\ [Next]_vars => TypeOK'
<1> SUFFICES ASSUME TypeOK, [Next]_vars PROVE TypeOK'
    OBVIOUS
<1> USE DEF TypeOK, Steps, Outcomes, Wires, Causes, Never, None, lock, session
<1>1. CASE Tick
    BY <1>1 DEF Tick
<1>2. ASSUME NEW c \in Calls, NEW t \in Tabs, Begin(c, t) PROVE TypeOK'
    BY <1>2, TimeoutAssumption DEF Begin
<1>3. ASSUME NEW c \in Calls, Lock(c) PROVE TypeOK'
    BY <1>3 DEF Lock
<1>4. ASSUME NEW c \in Calls, Poll(c) PROVE TypeOK'
    BY <1>4 DEF Poll
<1>5. ASSUME NEW c \in Calls, ReleaseAfterWait(c) PROVE TypeOK'
    BY <1>5 DEF ReleaseAfterWait, ReleaseRefreshLock, Settle
<1>6. ASSUME NEW c \in Calls, FetchSettles(c) PROVE TypeOK'
    <2>1. Settle(c, "rejected") \/ Settle(c, "resolved")
        BY <1>6 DEF FetchSettles
    <2>2. /\ isRefreshing' \in [Tabs -> BOOLEAN] /\ listening' \in [Tabs -> BOOLEAN]
          /\ sign' \in BOOLEAN /\ lastTime' \in Nat
        BY <1>6 DEF FetchSettles, ReleaseRefreshLock
    <2>3. outcome' \in [Calls -> Outcomes]
        BY <2>1 DEF Settle
    <2>4. cookie' \in Nat /\ wire' \in [Calls -> Wires] /\ pc' \in [Calls -> Steps]
        BY <1>6 DEF FetchSettles
    <2>5. QED
        BY <1>6, <2>2, <2>3, <2>4 DEF FetchSettles
<1>7. ASSUME NEW c \in Calls, TimerFires(c) PROVE TypeOK'
    BY <1>7 DEF TimerFires, ReleaseRefreshLock, Settle
<1>8. ASSUME NEW t \in Tabs, LeavePage(t) PROVE TypeOK'
    <2>1. CASE ReleaseRefreshLock(t)
        BY <1>8, <2>1 DEF LeavePage, PageGone, ReleaseRefreshLock
    <2>2. CASE UNCHANGED lock
        BY <1>8, <2>2 DEF LeavePage, PageGone
    <2>3. QED
        BY <1>8, <2>1, <2>2 DEF LeavePage
<1>9. ASSUME NEW t \in Tabs, Crash(t) PROVE TypeOK'
    BY <1>9 DEF Crash, PageGone
<1>10. ASSUME NEW c \in Calls, VerifyRefreshToken(c) PROVE TypeOK'
    BY <1>10 DEF VerifyRefreshToken
<1>11. ASSUME NEW c \in Calls, RotateRefreshToken(c) PROVE TypeOK'
    <2>1. valid' \subseteq Nat /\ issued' \in Nat /\ granted' \in [Calls -> Nat]
        <3>1. issued + 1 \in Nat /\ valid \subseteq Nat
            OBVIOUS
        <3>2. valid' \subseteq valid \cup {issued + 1}
            BY <1>11, Zenon DEF RotateRefreshToken
        <3>3. issued' = issued + 1 /\ granted' = [granted EXCEPT ![c] = issued + 1]
            BY <1>11, Zenon DEF RotateRefreshToken
        <3> QED
            BY <3>1, <3>2, <3>3
    <2>2. wire' \in [Calls -> Wires]
        BY <1>11 DEF RotateRefreshToken
    <2>3. QED
        BY <1>11, <2>1, <2>2 DEF RotateRefreshToken
<1>12. ASSUME NEW c \in Calls, RefreshRaises(c) PROVE TypeOK'
    BY <1>12 DEF RefreshRaises
<1>13. ASSUME NEW c \in Calls, NetworkFails(c) PROVE TypeOK'
    BY <1>13 DEF NetworkFails
<1>14. CASE UNCHANGED vars
    BY <1>14 DEF vars
<1> HIDE DEF TypeOK, Steps, Outcomes, Wires, Causes, Never, None, lock, session
<1>15. QED
    BY <1>1, <1>2, <1>3, <1>4, <1>5, <1>6, <1>7, <1>8, <1>9, <1>10, <1>11, <1>12,
       <1>13, <1>14 DEF Next, CallStep, ServerStep

(* TypeOK holds initially.                                                 *)
LEMMA InitTypeOK == Init => TypeOK
<1> SUFFICES ASSUME Init PROVE TypeOK
    OBVIOUS
<1> USE DEF Init
<1>1. /\ isRefreshing \in [Tabs -> BOOLEAN] /\ listening \in [Tabs -> BOOLEAN]
      /\ sign \in BOOLEAN /\ open \subseteq Tabs /\ causes \subseteq Causes
    OBVIOUS
<1>2. home \in [Calls -> Tabs \cup {None}] /\ pc \in [Calls -> Steps]
    BY DEF Steps
<1>3. outcome \in [Calls -> Outcomes] /\ wire \in [Calls -> Wires]
    BY DEF Outcomes, Wires
<1>4. /\ deadline \in [Calls -> Nat] /\ carried \in [Calls -> Nat]
      /\ granted \in [Calls -> Nat] /\ lastTime \in Nat
    BY DEF Never
<1>5. now \in Nat /\ cookie \in Nat /\ valid \subseteq Nat /\ issued \in Nat
    OBVIOUS
<1> QED
    BY <1>1, <1>2, <1>3, <1>4, <1>5 DEF TypeOK

(* TypeOK holds in every reachable state.                                  *)
THEOREM TypeCorrect == Spec => []TypeOK
<1> QED
    BY InitTypeOK, NextTypeOK, PTL DEF Spec

-----------------------------------------------------------------------------
(* A call that has begun belongs to a tab, and only that has a timer.      *)
HomeInv ==
    \A c \in Calls : IF pc[c] = "idle" THEN deadline[c] = Never
                                       ELSE home[c] \in Tabs

(* Without an overlap the sign is set while a tab listens, one tab listens *)
(* at most, and a fetching call's tab does.                                *)
LockInv ==
    "overlap" \notin causes =>
        /\ \A t \in Tabs : listening[t] => sign
        /\ \A t, u \in Tabs : listening[t] /\ listening[u] => t = u
        /\ \A c \in Fetching : listening[home[c]]
        /\ \A c, d \in Fetching : c = d

(* Every step keeps HomeInv.                                               *)
LEMMA NextHome == TypeOK /\ HomeInv /\ [Next]_vars => HomeInv'
<1> SUFFICES ASSUME TypeOK, HomeInv, [Next]_vars PROVE HomeInv'
    OBVIOUS
<1> USE DEF TypeOK, HomeInv, lock, session
<1>1. CASE Tick
    BY <1>1 DEF Tick
<1>2. ASSUME NEW c \in Calls, NEW t \in Tabs, Begin(c, t) PROVE HomeInv'
    BY <1>2 DEF Begin
<1>3. ASSUME NEW c \in Calls, Lock(c) PROVE HomeInv'
    BY <1>3 DEF Lock
<1>4. ASSUME NEW c \in Calls, Poll(c) PROVE HomeInv'
    BY <1>4 DEF Poll
<1>5. ASSUME NEW c \in Calls, ReleaseAfterWait(c) PROVE HomeInv'
    BY <1>5 DEF ReleaseAfterWait
<1>6. ASSUME NEW c \in Calls, FetchSettles(c) PROVE HomeInv'
    BY <1>6 DEF FetchSettles
<1>7. ASSUME NEW c \in Calls, TimerFires(c) PROVE HomeInv'
    BY <1>7 DEF TimerFires
<1>8. ASSUME NEW t \in Tabs, LeavePage(t) \/ Crash(t) PROVE HomeInv'
    BY <1>8 DEF LeavePage, Crash, PageGone
<1>9. ASSUME NEW c \in Calls, ServerStep(c) PROVE HomeInv'
    BY <1>9 DEF ServerStep, VerifyRefreshToken, RotateRefreshToken, RefreshRaises,
        NetworkFails
<1>10. CASE UNCHANGED vars
    BY <1>10 DEF vars
<1> HIDE DEF TypeOK, HomeInv, lock, session
<1>11. QED
    BY <1>1, <1>2, <1>3, <1>4, <1>5, <1>6, <1>7, <1>8, <1>9, <1>10 DEF Next, CallStep

(* A release that is not an overlap keeps LockInv: nobody fetches, or only *)
(* a call that ends with it.                                               *)
LEMMA ReleaseKeepsLock ==
    ASSUME TypeOK, LockInv, NEW t \in Tabs, ReleaseRefreshLock(t),
           causes \subseteq causes', "overlap" \notin causes' => Fetching' = {},
           "overlap" \notin causes' => \A u \in Tabs : listening[u] => u = t
    PROVE  LockInv'
<1>1. CASE "overlap" \in causes'
    BY <1>1 DEF LockInv
<1>2. CASE "overlap" \notin causes'
    <2>1. \A u \in Tabs : ~listening'[u]
        BY <1>2 DEF ReleaseRefreshLock, TypeOK
    <2> QED
        BY <1>2, <2>1 DEF LockInv
<1> QED
    BY <1>1, <1>2

(* Every step keeps LockInv.                                               *)
LEMMA NextLock == TypeOK /\ HomeInv /\ LockInv /\ [Next]_vars => LockInv'
<1> SUFFICES ASSUME TypeOK, HomeInv, LockInv, [Next]_vars PROVE LockInv'
    OBVIOUS
<1>1. CASE Tick
    BY <1>1 DEF Tick, LockInv, Fetching, lock
<1>2. ASSUME NEW c \in Calls, NEW t \in Tabs, Begin(c, t) PROVE LockInv'
    <2>1. /\ Fetching' = Fetching
          /\ \A d \in Fetching : home'[d] = home[d]
        BY <1>2 DEF Begin, Fetching, TypeOK
    <2>2. UNCHANGED <<sign, listening, causes>>
        BY <1>2 DEF Begin, lock
    <2> QED
        BY <2>1, <2>2 DEF LockInv
<1>3. ASSUME NEW c \in Calls, Lock(c) PROVE LockInv'
    <2>1. CASE sign
        BY <1>3, <2>1 DEF Lock, LockInv
    <2>2. CASE ~sign /\ "overlap" \in causes
        BY <1>3, <2>2 DEF Lock, LockInv
    <2>3. CASE ~sign /\ "overlap" \notin causes
        <3>1. home[c] \in Tabs
            BY <1>3 DEF Lock, HomeInv
        <3>2. Fetching = {} /\ \A t \in Tabs : ~listening[t]
            <4>1. \A t \in Tabs : ~listening[t]
                BY <2>3 DEF LockInv
            <4>2. ASSUME NEW d \in Fetching PROVE FALSE
                BY <2>3, <4>1 DEF LockInv, HomeInv, Fetching
            <4> QED
                BY <4>1, <4>2
        <3>3. Fetching' = {c}
            BY <1>3, <3>2 DEF Lock, Fetching, TypeOK
        <3>4. /\ sign' /\ home' = home
              /\ \A t \in Tabs : listening'[t] <=> t = home[c]
            BY <1>3, <3>1, <3>2 DEF Lock, TypeOK
        <3> QED
            BY <3>1, <3>3, <3>4 DEF LockInv
    <2> QED
        BY <2>1, <2>2, <2>3
<1>4. ASSUME NEW c \in Calls, Poll(c) PROVE LockInv'
    <2>1. Fetching' = Fetching /\ UNCHANGED <<sign, listening, causes, home>>
        BY <1>4 DEF Poll, Fetching, TypeOK, lock
    <2> QED
        BY <2>1 DEF LockInv
<1>5. ASSUME NEW c \in Calls, ReleaseAfterWait(c) \/ TimerFires(c),
             home[c] \in Tabs
      PROVE  LockInv'
    <2>1. /\ ReleaseRefreshLock(home[c])
          /\ causes' = IF sign THEN causes \cup {"overlap"} ELSE causes
        BY <1>5 DEF ReleaseAfterWait, TimerFires
    <2>2. Fetching' \subseteq Fetching
        BY <1>5 DEF ReleaseAfterWait, TimerFires, Fetching, TypeOK
    <2>3. ASSUME "overlap" \notin causes'
          PROVE  Fetching = {} /\ \A u \in Tabs : ~listening[u]
        <3>1. ~sign /\ "overlap" \notin causes
            BY <2>1, <2>3
        <3>2. \A u \in Tabs : ~listening[u]
            BY <3>1 DEF LockInv
        <3>3. ASSUME NEW d \in Fetching PROVE FALSE
            BY <3>1, <3>2 DEF LockInv, HomeInv, Fetching
        <3> QED
            BY <3>2, <3>3
    <2> QED
        BY <1>5, <2>1, <2>2, <2>3, ReleaseKeepsLock
<1>6. ASSUME NEW c \in Calls, FetchSettles(c) PROVE LockInv'
    <2>1. ReleaseRefreshLock(home[c]) /\ causes' = causes /\ c \in Fetching
        BY <1>6 DEF FetchSettles, Fetching
    <2>2. home[c] \in Tabs
        BY <2>1 DEF HomeInv, Fetching
    <2>3. Fetching' = Fetching \ {c}
        BY <1>6 DEF FetchSettles, Fetching, TypeOK
    <2>4. "overlap" \notin causes' => Fetching' = {}
        BY <2>1, <2>3 DEF LockInv
    <2>5. "overlap" \notin causes' => \A u \in Tabs : listening[u] => u = home[c]
        BY <2>1, <2>2 DEF LockInv
    <2> QED
        BY <2>1, <2>2, <2>4, <2>5, ReleaseKeepsLock
<1>7. ASSUME NEW t \in Tabs, LeavePage(t) \/ Crash(t) PROVE LockInv'
    <2>1. /\ causes \subseteq causes' /\ ("overlap" \in causes' => "overlap" \in causes)
          /\ home' = home
        BY <1>7 DEF LeavePage, Crash, PageGone
    <2>2. Fetching' = {c \in Fetching : home[c] # t}
        BY <1>7 DEF LeavePage, Crash, PageGone, Fetching, TypeOK
    <2>3. CASE UNCHANGED lock
        BY <2>1, <2>2, <2>3 DEF LockInv, lock
    <2>4. CASE listening[t] /\ ReleaseRefreshLock(t)
        <3>1. "overlap" \notin causes' => \A u \in Tabs : listening[u] => u = t
            BY <2>1, <2>4 DEF LockInv
        <3>2. "overlap" \notin causes' => Fetching' = {}
            BY <2>1, <2>2, <3>1 DEF LockInv, HomeInv, Fetching
        <3> QED
            BY <2>1, <2>4, <3>1, <3>2, ReleaseKeepsLock
    <2> QED
        BY <1>7, <2>3, <2>4 DEF LeavePage, Crash
<1>8. ASSUME NEW c \in Calls, ServerStep(c) PROVE LockInv'
    <2>1. /\ UNCHANGED <<sign, listening, home, pc>> /\ causes \subseteq causes'
        BY <1>8 DEF ServerStep, VerifyRefreshToken, RotateRefreshToken, RefreshRaises,
            NetworkFails, lock
    <2> QED
        BY <2>1 DEF LockInv, Fetching
<1>9. CASE UNCHANGED vars
    BY <1>9 DEF vars, LockInv, Fetching
<1>10. ASSUME NEW c \in Calls, ReleaseAfterWait(c) \/ TimerFires(c)
       PROVE  home[c] \in Tabs
    BY <1>10 DEF ReleaseAfterWait, TimerFires, HomeInv
<1>11. QED
    BY <1>1, <1>2, <1>3, <1>4, <1>5, <1>6, <1>7, <1>8, <1>9, <1>10 DEF Next, CallStep

-----------------------------------------------------------------------------
(* What is known of the refresh tokens, whatever happens: a token that a   *)
(* response is about to set is valid, and neither a request nor the        *)
(* browser nor another response has it.                                    *)
TokenInv ==
    /\ cookie <= issued
    /\ \A c \in Calls : carried[c] <= issued /\ granted[c] <= issued
    /\ \A c \in Calls : wire[c] = "ok" =>
           /\ granted[c] \in valid
           /\ granted[c] # cookie
           /\ \A d \in Calls : carried[d] # granted[c]
           /\ \A d \in Calls : wire[d] = "ok" /\ granted[d] = granted[c] => d = c

(* Unless a response was lost, a request on its way has its caller.        *)
CallerInv ==
    "reply" \notin causes =>
        \A c \in Calls : wire[c] \in {"sent", "verified", "ok"} => pc[c] = "fetching"

(* As long as nothing has gone wrong, requests carry valid tokens.         *)
CarriedInv ==
    causes = {} => \A c \in Calls :
        /\ wire[c] # "unauthorized"
        /\ wire[c] \in {"sent", "verified"} => carried[c] \in valid

(* Every step keeps TokenInv.                                              *)
LEMMA NextToken == TypeOK /\ TokenInv /\ [Next]_vars => TokenInv'
<1> SUFFICES ASSUME TypeOK, TokenInv, [Next]_vars PROVE TokenInv'
    OBVIOUS
<1>1. ASSUME UNCHANGED <<wire, carried, granted, session>> PROVE TokenInv'
    BY <1>1 DEF TokenInv, session
<1>2. ASSUME NEW c \in Calls, Lock(c) PROVE TokenInv'
    BY <1>2 DEF Lock, TokenInv, TypeOK, session
<1>3. ASSUME NEW c \in Calls, FetchSettles(c) PROVE TokenInv'
    BY <1>3 DEF FetchSettles, TokenInv, TypeOK, None
<1>4. ASSUME NEW c \in Calls, VerifyRefreshToken(c) PROVE TokenInv'
    BY <1>4 DEF VerifyRefreshToken, TokenInv, TypeOK, session
<1>5. ASSUME NEW c \in Calls, RotateRefreshToken(c) PROVE TokenInv'
    BY <1>5 DEF RotateRefreshToken, TokenInv, TypeOK
<1>6. ASSUME NEW c \in Calls, RefreshRaises(c) PROVE TokenInv'
    BY <1>6 DEF RefreshRaises, TokenInv, TypeOK
<1>7. ASSUME NEW c \in Calls, NetworkFails(c) PROVE TokenInv'
    BY <1>7 DEF NetworkFails, TokenInv, TypeOK, session
<1>8. QED
    BY <1>1, <1>2, <1>3, <1>4, <1>5, <1>6, <1>7 DEF Next, CallStep, ServerStep, Tick, Begin,
        Poll, ReleaseAfterWait, TimerFires, LeavePage, Crash, PageGone, vars, session

(* Every step keeps CallerInv.                                             *)
LEMMA NextCaller == TypeOK /\ CallerInv /\ [Next]_vars => CallerInv'
<1> SUFFICES ASSUME TypeOK, CallerInv, [Next]_vars PROVE CallerInv'
    OBVIOUS
<1> USE DEF TypeOK, CallerInv
<1>1. CASE Tick
    BY <1>1 DEF Tick
<1>2. ASSUME NEW c \in Calls, NEW t \in Tabs, Begin(c, t) PROVE CallerInv'
    BY <1>2 DEF Begin
<1>3. ASSUME NEW c \in Calls, Lock(c) PROVE CallerInv'
    BY <1>3 DEF Lock
<1>4. ASSUME NEW c \in Calls, Poll(c) PROVE CallerInv'
    BY <1>4 DEF Poll
<1>5. ASSUME NEW c \in Calls, ReleaseAfterWait(c) PROVE CallerInv'
    BY <1>5 DEF ReleaseAfterWait
<1>6. ASSUME NEW c \in Calls, FetchSettles(c) PROVE CallerInv'
    BY <1>6 DEF FetchSettles, None
<1>7. ASSUME NEW c \in Calls, TimerFires(c) PROVE CallerInv'
    BY <1>7 DEF TimerFires
<1>8. ASSUME NEW t \in Tabs, LeavePage(t) \/ Crash(t) PROVE CallerInv'
    BY <1>8 DEF LeavePage, Crash, PageGone
<1>9. ASSUME NEW c \in Calls, ServerStep(c) PROVE CallerInv'
    BY <1>9 DEF ServerStep, VerifyRefreshToken, RotateRefreshToken, RefreshRaises,
        NetworkFails
<1>10. CASE UNCHANGED vars
    BY <1>10 DEF vars
<1> HIDE DEF TypeOK, CallerInv
<1>11. QED
    BY <1>1, <1>2, <1>3, <1>4, <1>5, <1>6, <1>7, <1>8, <1>9, <1>10 DEF Next, CallStep

(* Every step keeps SessionKept.  The step that removes the browser's own  *)
(* token from Redis is the rotation of a request that carries it, and then *)
(* that request's response is on its way.                                  *)
LEMMA NextSession ==
    TypeOK /\ TokenInv /\ CallerInv /\ SessionKept /\ [Next]_vars => SessionKept'
<1> SUFFICES ASSUME TypeOK, TokenInv, CallerInv, SessionKept, [Next]_vars
             PROVE  SessionKept'
    OBVIOUS
<1>1. causes \subseteq causes'
    BY DEF Next, CallStep, ServerStep, Tick, Begin, Lock, Poll, ReleaseAfterWait,
        FetchSettles, TimerFires, LeavePage, Crash, PageGone, VerifyRefreshToken,
        RotateRefreshToken, RefreshRaises, NetworkFails, vars
<1>2. SUFFICES ASSUME causes' \cap {"reply", "server"} = {} PROVE SessionKept'
    BY DEF SessionKept
<1>3. causes \cap {"reply", "server"} = {}
    BY <1>1, <1>2
<1>4. ASSUME UNCHANGED <<wire, granted, session>>,
             \A c \in Fetching : wire[c] = "ok" => c \in Fetching'
      PROVE  SessionKept'
    BY <1>4, <1>3 DEF SessionKept, session, Fetching
<1>5. ASSUME NEW c \in Calls, Lock(c) PROVE SessionKept'
    BY <1>5, <1>3 DEF Lock, SessionKept, Fetching, TypeOK, session
<1>6. ASSUME NEW c \in Calls, FetchSettles(c) PROVE SessionKept'
    <2>1. CASE wire[c] = "ok"
        BY <1>6, <2>1 DEF FetchSettles, SessionKept, TokenInv
    <2>2. CASE wire[c] # "ok"
        BY <1>6, <2>2, <1>3 DEF FetchSettles, SessionKept, Fetching, TypeOK
    <2> QED
        BY <2>1, <2>2
<1>7. ASSUME NEW c \in Calls, VerifyRefreshToken(c) PROVE SessionKept'
    BY <1>7, <1>3 DEF VerifyRefreshToken, SessionKept, Fetching, TypeOK, session
<1>8. ASSUME NEW c \in Calls, RotateRefreshToken(c) PROVE SessionKept'
    <2>1. pc[c] = "fetching" /\ pc' = pc
        BY <1>8, <1>3 DEF RotateRefreshToken, CallerInv
    <2>2. wire'[c] = "ok" /\ granted'[c] \in valid'
        BY <1>8 DEF RotateRefreshToken, TypeOK
    <2> QED
        BY <2>1, <2>2 DEF SessionKept, Fetching
<1>9. ASSUME NEW c \in Calls, RefreshRaises(c) PROVE SessionKept'
    BY <1>9, <1>2 DEF RefreshRaises
<1>10. ASSUME NEW c \in Calls, NetworkFails(c) PROVE SessionKept'
    BY <1>10, <1>2, <1>3 DEF NetworkFails, SessionKept, Fetching, TypeOK, session
<1>11. ASSUME NEW t \in Tabs, LeavePage(t) \/ Crash(t) PROVE SessionKept'
    <2>1. \A c \in Fetching : wire[c] = "ok" => c \in Fetching'
        BY <1>11, <1>2 DEF LeavePage, Crash, PageGone, Fetching
    <2> QED
        BY <1>11, <1>4, <2>1 DEF LeavePage, Crash, PageGone
<1>12. ASSUME NEW c \in Calls, Poll(c) \/ ReleaseAfterWait(c) \/ TimerFires(c)
       PROVE  SessionKept'
    <2>1. \A d \in Fetching : d \in Fetching'
        BY <1>12 DEF Poll, ReleaseAfterWait, TimerFires, Fetching, TypeOK
    <2> QED
        BY <1>12, <1>4, <2>1 DEF Poll, ReleaseAfterWait, TimerFires
<1>13. ASSUME NEW c \in Calls, NEW t \in Tabs, Begin(c, t) PROVE SessionKept'
    <2>1. \A d \in Fetching : d \in Fetching'
        BY <1>13 DEF Begin, Fetching, TypeOK
    <2> QED
        BY <1>13, <1>4, <2>1 DEF Begin
<1>14. CASE Tick \/ UNCHANGED vars
    BY <1>14, <1>4 DEF Tick, vars, Fetching, session
<1>15. QED
    BY <1>5, <1>6, <1>7, <1>8, <1>9, <1>10, <1>11, <1>12, <1>13, <1>14
        DEF Next, CallStep, ServerStep

(* Every step keeps CarriedInv.  A request is sent when the lock was free, *)
(* so none is on its way and the browser's token is valid; a rotation      *)
(* finds no other request.                                                 *)
LEMMA NextCarried ==
    /\ TypeOK /\ HomeInv /\ LockInv /\ TokenInv /\ CallerInv /\ SessionKept
    /\ CarriedInv /\ [Next]_vars
    => CarriedInv'
<1> SUFFICES ASSUME TypeOK, HomeInv, LockInv, TokenInv, CallerInv, SessionKept,
                    CarriedInv, [Next]_vars
             PROVE  CarriedInv'
    OBVIOUS
<1>1. causes \subseteq causes'
    BY DEF Next, CallStep, ServerStep, Tick, Begin, Lock, Poll, ReleaseAfterWait,
        FetchSettles, TimerFires, LeavePage, Crash, PageGone, VerifyRefreshToken,
        RotateRefreshToken, RefreshRaises, NetworkFails, vars
<1>2. SUFFICES ASSUME causes' = {} PROVE CarriedInv'
    BY DEF CarriedInv
<1>3. causes = {}
    BY <1>1, <1>2
<1>4. ASSUME UNCHANGED <<wire, carried, valid>> PROVE CarriedInv'
    BY <1>4, <1>3 DEF CarriedInv
<1>5. ASSUME NEW c \in Calls, Lock(c) PROVE CarriedInv'
    <2>1. ~sign
        BY <1>5, <1>2 DEF Lock
    <2>2. \A d \in Fetching : FALSE
        BY <2>1, <1>3 DEF LockInv, HomeInv, Fetching
    <2>3. cookie \in valid
        BY <2>2, <1>3 DEF SessionKept
    <2> QED
        BY <1>5, <1>3, <2>3 DEF Lock, CarriedInv, TypeOK, session
<1>6. ASSUME NEW c \in Calls, FetchSettles(c) PROVE CarriedInv'
    BY <1>6, <1>3 DEF FetchSettles, CarriedInv, TypeOK, None
<1>7. ASSUME NEW c \in Calls, VerifyRefreshToken(c) PROVE CarriedInv'
    BY <1>7, <1>3 DEF VerifyRefreshToken, CarriedInv, TypeOK, session
<1>8. ASSUME NEW c \in Calls, RotateRefreshToken(c) PROVE CarriedInv'
    <2>1. \A d \in Calls : wire[d] \in {"sent", "verified"} => d = c
        BY <1>8, <1>3 DEF RotateRefreshToken, CallerInv, LockInv, Fetching
    <2> QED
        BY <1>8, <1>3, <2>1 DEF RotateRefreshToken, CarriedInv, TypeOK
<1>9. ASSUME NEW c \in Calls, RefreshRaises(c) PROVE CarriedInv'
    BY <1>9, <1>2 DEF RefreshRaises
<1>10. ASSUME NEW c \in Calls, NetworkFails(c) PROVE CarriedInv'
    BY <1>10, <1>3 DEF NetworkFails, CarriedInv, TypeOK, session
<1>11. QED
    BY <1>4, <1>5, <1>6, <1>7, <1>8, <1>9, <1>10 DEF Next, CallStep, ServerStep, Tick,
        Begin, Poll, ReleaseAfterWait, TimerFires, LeavePage, Crash, PageGone, vars, session

-----------------------------------------------------------------------------
(* The inductive invariant of the module.                                  *)
IInv ==
    /\ TypeOK
    /\ HomeInv
    /\ LockInv
    /\ TokenInv
    /\ CallerInv
    /\ SessionKept
    /\ CarriedInv

(* IInv holds in every reachable state.                                    *)
THEOREM Inductive == Spec => []IInv
<1>1. Init => IInv
    <2>1. Init => TypeOK
        BY InitTypeOK
    <2>2. Init => HomeInv /\ LockInv /\ CallerInv /\ CarriedInv
        BY DEF Init, HomeInv, LockInv, CallerInv, CarriedInv, Fetching, None
    <2>3. Init => TokenInv /\ SessionKept
        BY DEF Init, TokenInv, SessionKept, None
    <2> QED
        BY <2>1, <2>2, <2>3 DEF IInv
<1>2. IInv /\ [Next]_vars => IInv'
    BY NextTypeOK, NextHome, NextLock, NextToken, NextCaller, NextSession, NextCarried
        DEF IInv
<1>3. QED
    BY <1>1, <1>2, PTL DEF Spec

(* Two refreshes run at once only after a lock was taken over or released  *)
(* under its holder (getNewAccessToken, releaseRefreshLock).               *)
THEOREM Exclusion == Spec => []ExclusiveUnlessOverlap
<1>1. IInv => ExclusiveUnlessOverlap
    BY DEF IInv, LockInv, ExclusiveUnlessOverlap
<1>2. QED
    BY <1>1, Inductive, PTL

(* Whatever overlaps, the browser has a valid refresh token or one is on   *)
(* its way to it, unless a response was lost or the API failed.            *)
THEOREM SessionSurvives == Spec => []SessionKept
<1>1. IInv => SessionKept
    BY DEF IInv
<1>2. QED
    BY <1>1, Inductive, PTL

(* The API answers 401 only if the lock failed, a response was lost or the *)
(* API itself failed before.                                               *)
THEOREM RefusalHasCause == Spec => []RefusedForCause
<1>1. IInv => RefusedForCause
    BY DEF IInv, CarriedInv, RefusedForCause
<1>2. QED
    BY <1>1, Inductive, PTL
=============================================================================
