-------------------------------- MODULE Auth --------------------------------
(***************************************************************************)
(* Login, sessions and the local gate of one process (auth.go, and the part *)
(* of handleSettings that sets the password).  Every access to the hash, the *)
(* sessions and the counters of failed logins takes authMu by itself; what a *)
(* request read before is not read again.                                   *)
(***************************************************************************)
EXTENDS Naturals, FiniteSets

CONSTANTS
    Tabs,           \* browsers, one request at a time each
    IPs, IPOf,      \* where each is
    Passwords,      \* long enough to be accepted
    None,           \* no password: the login is disabled
    Nobody,
    lockThreshold,  \* failed logins before the back-off (5)
    maxLockEntries, \* entries of the counters (1024)
    Tasks           \* bound: what each tab may ask for; Init chooses one of them

ASSUME AuthAssumption ==
    /\ None \notin Passwords /\ Nobody \notin Tabs /\ IsFiniteSet(Tabs)
    /\ IPOf \in [Tabs -> IPs]
    /\ lockThreshold \in Nat \ {0} /\ maxLockEntries \in Nat
    /\ Tasks \subseteq [Tabs -> SUBSET {"page", "login", "settings", "logout"}]

VARIABLES
    authHash,   \* the password, or None
    envHash,    \* AUTH_HASH in .env
    cookie,     \* the session in each tab's cookie: "none", "live" or "dead"
    grant,      \* what it was granted on: a password, or None for the local token
    minted,     \* the session a request has made and not yet handed out
    rpc,        \* where each tab's request is
    typed,      \* the password it carries
    wants,      \* settings: the password to set, None to disable, "short"
    proof,      \* what it was let in on
    raced,      \* the password changed since, and before its session was made (history)
    oldCookie,  \* the same of the session in its cookie (history)
    fails,      \* loginFails
    lock,       \* lockUntil: "none", "locked", or "over" and not yet pruned
    guesses,    \* wrong passwords tried from there since its last lock ended (history)
    keeper,     \* the tab that changed the password last (history)
    tasks       \* which of the Tasks

hashVars == <<authHash, envHash, tasks>>
sessionVars == <<cookie, grant, minted, proof, raced, oldCookie>>
backoffVars == <<fails, lock, guesses>>
requestVars == <<rpc, typed, wants>>
authVars == <<hashVars, sessionVars, requestVars, backoffVars, keeper>>

NoTab(v) == [t \in Tabs |-> v]
NoIP(v)  == [i \in IPs |-> v]

AuthTypeOK ==
    /\ {authHash, envHash} \subseteq Passwords \cup {None}
    /\ cookie \in [Tabs -> {"none", "live", "dead"}]
    /\ minted \in [Tabs -> {"none", "live", "dead"}]
    /\ {grant, typed, proof} \subseteq [Tabs -> Passwords \cup {None}]
    /\ wants \in [Tabs -> Passwords \cup {None, "short"}]
    /\ rpc \in [Tabs -> {"idle", "gate", "token", "login", "check", "reset", "fail", "verify",
                         "prove", "apply", "mint", "remint", "deliver"}]
    /\ {raced, oldCookie} \subseteq [Tabs -> BOOLEAN]
    /\ fails \in [IPs -> 0 .. lockThreshold + Cardinality(Tabs)]
    /\ lock \in [IPs -> {"none", "locked", "over"}]
    /\ guesses \in [IPs -> 0 .. lockThreshold + Cardinality(Tabs)]
    /\ keeper \in Tabs \cup {Nobody}
    /\ \A t \in Tabs : minted[t] # "none" <=> rpc[t] = "deliver"

AuthInit ==
    /\ authHash \in Passwords \cup {None}
    /\ envHash = authHash
    /\ cookie = NoTab("none") /\ minted = NoTab("none")
    /\ grant = NoTab(None) /\ typed = NoTab(None) /\ proof = NoTab(None)
    /\ wants = NoTab(None)
    /\ rpc = NoTab("idle")
    /\ raced = NoTab(FALSE) /\ oldCookie = NoTab(FALSE)
    /\ fails = NoIP(0) /\ lock = NoIP("none") /\ guesses = NoIP(0)
    /\ keeper = Nobody
    /\ tasks \in Tasks

Goto(t, label) == rpc' = [rpc EXCEPT ![t] = label]

\* At the end of a request what it carried is forgotten.
Finish(t) ==
    /\ Goto(t, "idle")
    /\ typed' = [typed EXCEPT ![t] = None]
    /\ wants' = [wants EXCEPT ![t] = None]
    /\ proof' = [proof EXCEPT ![t] = None]
    /\ raced' = [raced EXCEPT ![t] = FALSE]

----------------------------------------------------------------------------
(* securityMiddleware *)

isAuthed(t) == cookie[t] = "live"

\* With a session the request is served, and changes nothing here.
Page(t) ==
    /\ rpc[t] = "idle" /\ "page" \in tasks[t]
    /\ ~isAuthed(t)
    /\ Goto(t, "gate")
    /\ UNCHANGED <<hashVars, sessionVars, typed, wants, backoffVars, keeper>>

\* A password is set: off to the login.
Redirect(t) ==
    /\ rpc[t] = "gate" /\ authHash # None
    /\ Finish(t)
    /\ UNCHANGED <<hashVars, cookie, grant, minted, oldCookie, backoffVars, keeper>>

Gate(t) ==
    /\ rpc[t] = "gate" /\ authHash = None
    /\ Goto(t, "token")
    /\ proof' = [proof EXCEPT ![t] = None]
    /\ UNCHANGED <<hashVars, cookie, grant, minted, raced, oldCookie, typed, wants,
                   backoffVars, keeper>>

\* The token is compared; localToken never changes.
Token(t) ==
    /\ rpc[t] = "token"
    /\ Goto(t, "mint")
    /\ UNCHANGED <<hashVars, sessionVars, typed, wants, backoffVars, keeper>>

Deny(t) ==
    /\ rpc[t] = "token"
    /\ Finish(t)
    /\ UNCHANGED <<hashVars, cookie, grant, minted, oldCookie, backoffVars, keeper>>

----------------------------------------------------------------------------
(* Sessions *)

\* Seeded bug for KeeperIsIn: the sweep takes the live ones.
newSessionSweeping(t) ==
    /\ rpc[t] \in {"mint", "remint"}
    /\ minted' = [u \in Tabs |-> IF u = t THEN "live" ELSE IF minted[u] = "live" THEN "dead" ELSE minted[u]]
    /\ cookie' = [u \in Tabs |-> IF cookie[u] = "live" THEN "dead" ELSE cookie[u]]
    /\ Goto(t, "deliver")
    /\ UNCHANGED <<hashVars, grant, proof, raced, oldCookie, typed, wants, backoffVars, keeper>>

\* The sweep takes expired ones only, which are dead here.
newSession(t) ==
    /\ rpc[t] \in {"mint", "remint"}
    /\ minted' = [minted EXCEPT ![t] = "live"]
    /\ Goto(t, "deliver")
    /\ UNCHANGED <<hashVars, cookie, grant, proof, raced, oldCookie, typed, wants,
                   backoffVars, keeper>>

Deliver(t) ==
    /\ rpc[t] = "deliver"
    /\ cookie' = [cookie EXCEPT ![t] = minted[t]]
    /\ grant' = [grant EXCEPT ![t] = proof[t]]
    /\ oldCookie' = [oldCookie EXCEPT ![t] = raced[t]]
    /\ minted' = [minted EXCEPT ![t] = "none"]
    /\ Finish(t)
    /\ UNCHANGED <<hashVars, backoffVars, keeper>>

Expire(t) ==
    /\ cookie[t] = "live"
    /\ cookie' = [cookie EXCEPT ![t] = "dead"]
    /\ keeper' = IF keeper = t THEN Nobody ELSE keeper
    /\ UNCHANGED <<hashVars, grant, minted, proof, raced, oldCookie, requestVars, backoffVars>>

handleLogout(t) ==
    /\ rpc[t] = "idle" /\ "logout" \in tasks[t]
    /\ authHash # None /\ isAuthed(t)
    /\ cookie' = [cookie EXCEPT ![t] = "none"]
    /\ keeper' = IF keeper = t THEN Nobody ELSE keeper
    /\ UNCHANGED <<hashVars, grant, minted, proof, raced, oldCookie, requestVars, backoffVars>>

----------------------------------------------------------------------------
(* handleLogin *)

Login(t, pw) ==
    /\ rpc[t] = "idle" /\ "login" \in tasks[t]
    /\ authHash # None
    /\ Goto(t, "login")
    /\ typed' = [typed EXCEPT ![t] = pw]
    /\ UNCHANGED <<hashVars, sessionVars, wants, backoffVars, keeper>>

Locked(t) ==
    /\ rpc[t] = "login" /\ lock[IPOf[t]] = "locked"
    /\ Finish(t)
    /\ UNCHANGED <<hashVars, cookie, grant, minted, oldCookie, backoffVars, keeper>>

NotLocked(t) ==
    /\ rpc[t] = "login" /\ lock[IPOf[t]] # "locked"
    /\ Goto(t, "check")
    /\ UNCHANGED <<hashVars, sessionVars, typed, wants, backoffVars, keeper>>

\* The hash is read here and compared afterwards, which takes a while.
checkPassword(t) ==
    /\ rpc[t] = "check"
    /\ Goto(t, IF typed[t] = authHash THEN "reset" ELSE "fail")
    /\ proof' = [proof EXCEPT ![t] = typed[t]]
    /\ UNCHANGED <<hashVars, cookie, grant, minted, raced, oldCookie, typed, wants,
                   backoffVars, keeper>>

\* Seeded bug for LockIsKept: a login that succeeds forgets everybody's failures.
resetAllFails(t) ==
    /\ rpc[t] = "reset"
    /\ fails' = NoIP(0) /\ lock' = NoIP("none")
    /\ guesses' = [guesses EXCEPT ![IPOf[t]] = 0]
    /\ Goto(t, "mint")
    /\ UNCHANGED <<hashVars, sessionVars, typed, wants, keeper>>

resetLoginFails(t) ==
    /\ rpc[t] = "reset"
    /\ fails' = [fails EXCEPT ![IPOf[t]] = 0]
    /\ lock' = [lock EXCEPT ![IPOf[t]] = "none"]
    /\ guesses' = [guesses EXCEPT ![IPOf[t]] = 0]
    /\ Goto(t, "mint")
    /\ UNCHANGED <<hashVars, sessionVars, typed, wants, keeper>>

\* pruneLocks: locks that are over go with their counters; too many counters, and
\* all of them go with all of the locks.
Overflow == Cardinality({i \in IPs : fails[i] > 0 /\ lock[i] # "over"}) > maxLockEntries
Kept == {i \in IPs : ~Overflow /\ lock[i] # "over"}

recordLoginFail(t) ==
    /\ rpc[t] = "fail"
    /\ LET ip == IPOf[t]
           n  == (IF ip \in Kept THEN fails[ip] ELSE 0) + 1
       IN  /\ fails' = [i \in IPs |-> IF i = ip THEN n ELSE IF i \in Kept THEN fails[i] ELSE 0]
           /\ lock' = [i \in IPs |-> IF i = ip /\ n >= lockThreshold THEN "locked"
                                     ELSE IF i \in Kept THEN lock[i] ELSE "none"]
           /\ guesses' = [i \in IPs |-> IF i = ip THEN (IF Overflow THEN 0 ELSE guesses[i]) + 1
                                        ELSE IF Overflow THEN 0 ELSE guesses[i]]
    /\ Finish(t)
    /\ UNCHANGED <<hashVars, cookie, grant, minted, oldCookie, keeper>>

\* Half a minute or more passes.
LockEnds(i) ==
    /\ lock[i] = "locked"
    /\ lock' = [lock EXCEPT ![i] = "over"]
    /\ guesses' = [guesses EXCEPT ![i] = 0]
    /\ UNCHANGED <<hashVars, sessionVars, requestVars, fails, keeper>>

----------------------------------------------------------------------------
(* The password, in handleSettings *)

handleSettings(t, current, next) ==
    /\ rpc[t] = "idle" /\ "settings" \in tasks[t]
    /\ isAuthed(t)
    /\ Goto(t, "verify")
    /\ typed' = [typed EXCEPT ![t] = current]
    /\ wants' = [wants EXCEPT ![t] = next]
    /\ UNCHANGED <<hashVars, sessionVars, backoffVars, keeper>>

\* authEnabled, and then checkPassword.
Verify(t) ==
    /\ rpc[t] = "verify"
    /\ Goto(t, IF authHash = None THEN "apply" ELSE "prove")
    /\ UNCHANGED <<hashVars, sessionVars, typed, wants, backoffVars, keeper>>

Prove(t) ==
    /\ rpc[t] = "prove" /\ authHash # None /\ typed[t] = authHash
    /\ Goto(t, "apply")
    /\ UNCHANGED <<hashVars, sessionVars, typed, wants, backoffVars, keeper>>

Refuse(t) ==
    /\ rpc[t] = "prove" /\ typed[t] # authHash
    /\ Finish(t)
    /\ UNCHANGED <<hashVars, cookie, grant, minted, oldCookie, backoffVars, keeper>>

\* Who was let in before this change and has no session yet.
InFlight(t) == {u \in Tabs \ {t} : rpc[u] \in {"token", "reset", "mint", "remint"}}

Dead(sessions) == [u \in Tabs |-> IF sessions[u] = "live" THEN "dead" ELSE sessions[u]]

\* Seeded bug for SessionsAreCurrent: disabling leaves the sessions alone.
setAuthPasswordKeeping(t) ==
    /\ rpc[t] = "apply" /\ wants[t] # "short"
    /\ IF wants[t] = None THEN UNCHANGED <<cookie, minted>>
       ELSE cookie' = Dead(cookie) /\ minted' = Dead(minted)
    /\ authHash' = wants[t]
    /\ envHash' = wants[t]
    /\ proof' = [proof EXCEPT ![t] = wants[t]]
    /\ raced' = [u \in Tabs |-> raced[u] \/ u \in InFlight(t)]
    /\ keeper' = t
    /\ Goto(t, "remint")
    /\ UNCHANGED <<grant, oldCookie, typed, wants, backoffVars, tasks>>

\* authMu is held throughout, the writing of .env included.
setAuthPassword(t) ==
    /\ rpc[t] = "apply" /\ wants[t] # "short"
    /\ cookie' = Dead(cookie)
    /\ minted' = Dead(minted)
    /\ authHash' = wants[t]
    /\ envHash' = wants[t]
    /\ proof' = [proof EXCEPT ![t] = wants[t]]
    /\ raced' = [u \in Tabs |-> raced[u] \/ u \in InFlight(t)]
    /\ keeper' = t
    /\ Goto(t, "remint")
    /\ UNCHANGED <<grant, oldCookie, typed, wants, backoffVars, tasks>>

\* One that is too short is refused, when the sessions are gone.
TooShort(t) ==
    /\ rpc[t] = "apply" /\ wants[t] = "short"
    /\ cookie' = Dead(cookie)
    /\ minted' = Dead(minted)
    /\ keeper' = Nobody
    /\ Finish(t)
    /\ UNCHANGED <<hashVars, grant, oldCookie, backoffVars>>

----------------------------------------------------------------------------
(* The process ends, and another is started by hand, so that .env decides; what *)
(* the successor of "Restart now" has of .env is in Instance.               *)

Restart ==
    /\ authHash' = envHash
    /\ cookie' = Dead(cookie)
    /\ minted' = NoTab("none")
    /\ rpc' = NoTab("idle") /\ typed' = NoTab(None) /\ wants' = NoTab(None)
    /\ proof' = NoTab(None) /\ raced' = NoTab(FALSE)
    /\ fails' = NoIP(0) /\ lock' = NoIP("none") /\ guesses' = NoIP(0)
    /\ keeper' = Nobody
    /\ UNCHANGED <<envHash, grant, oldCookie, tasks>>

AuthNext ==
    \/ \E t \in Tabs :
        \/ Page(t) \/ Redirect(t) \/ Gate(t) \/ Token(t) \/ Deny(t)
        \/ newSession(t) \/ Deliver(t) \/ Expire(t) \/ handleLogout(t)
        \/ \E pw \in Passwords : Login(t, pw)
        \/ Locked(t) \/ NotLocked(t) \/ checkPassword(t) \/ resetLoginFails(t) \/ recordLoginFail(t)
        \/ \E current \in Passwords, next \in Passwords \cup {None, "short"} : handleSettings(t, current, next)
        \/ Verify(t) \/ Prove(t) \/ Refuse(t) \/ setAuthPassword(t) \/ TooShort(t)
    \/ \E i \in IPs : LockEnds(i)
    \/ Restart

AuthSpec == AuthInit /\ [][AuthNext]_authVars

----------------------------------------------------------------------------
(* Properties *)

(* "All existing sessions are invalidated on any change" (setAuthPassword):  *)
(* a live session was granted on the password in force, and one granted on   *)
(* the local token lives only while there is none; but for a request that    *)
(* was let in before the change and got its session after it.               *)
SessionsAreCurrent ==
    \A t \in Tabs :
        /\ cookie[t] = "live" => grant[t] = authHash \/ oldCookie[t]
        /\ minted[t] = "live" => proof[t] = authHash \/ raced[t]

(* Who changed the password is not locked out by it: "keep the operator      *)
(* logged in" (handleSettings).                                             *)
KeeperIsIn == keeper # Nobody /\ rpc[keeper] = "idle" => cookie[keeper] = "live"

(* From one address, between two locks, no more passwords can be tried than  *)
(* the threshold and one for each request that is answered side by side,     *)
(* whoever else logs in or fails; only an overflow of the counters starts    *)
(* anew (loginLocked, recordLoginFail, pruneLocks, resetLoginFails).        *)
LockIsKept ==
    \A i \in IPs : guesses[i] < lockThreshold + Cardinality({t \in Tabs : IPOf[t] = i})
=============================================================================
