---------------------------- MODULE Access_proofs ----------------------------
(***************************************************************************)
(* For any number of browsers, addresses and passwords: that no session of  *)
(* another password is live, that the tab that changed it stays in, and the *)
(* bound on the passwords that can be tried between two locks.  For any     *)
(* number of processes, started, restarted and stopped at any time: the     *)
(* types and the one owner of an address, whose token the token file holds, *)
(* and that no write of .env undoes another of its process.                 *)
(***************************************************************************)
EXTENDS MCAccess, FiniteSetTheorems, TLAPS

(* The login: types *)

Labels == {"idle", "gate", "token", "login", "check", "reset", "fail", "verify",
           "prove", "apply", "mint", "remint", "deliver"}

\* The types of the sessions and the requests.
RequestsTyped ==
    /\ authHash \in Passwords \cup {None} /\ envHash \in Passwords \cup {None}
    /\ cookie \in [Tabs -> {"none", "live", "dead"}]
    /\ minted \in [Tabs -> {"none", "live", "dead"}]
    /\ grant \in [Tabs -> Passwords \cup {None}]
    /\ typed \in [Tabs -> Passwords \cup {None}]
    /\ proof \in [Tabs -> Passwords \cup {None}]
    /\ wants \in [Tabs -> Passwords \cup {None, "short"}]
    /\ rpc \in [Tabs -> Labels]
    /\ raced \in [Tabs -> BOOLEAN] /\ oldCookie \in [Tabs -> BOOLEAN]
    /\ keeper \in Tabs \cup {Nobody}

\* A session is between its making and its cookie only while it is handed out.
MintedIsDelivered == \A t \in Tabs : minted[t] # "none" <=> rpc[t] = "deliver"

\* The end of a request.
LEMMA Finished ==
    ASSUME RequestsTyped, NEW t \in Tabs, Finish(t)
    PROVE  /\ rpc' \in [Tabs -> Labels] /\ rpc'[t] = "idle"
           /\ typed' \in [Tabs -> Passwords \cup {None}]
           /\ wants' \in [Tabs -> Passwords \cup {None, "short"}]
           /\ proof' \in [Tabs -> Passwords \cup {None}]
           /\ raced' \in [Tabs -> BOOLEAN]
           /\ \A u \in Tabs \ {t} : /\ rpc'[u] = rpc[u] /\ typed'[u] = typed[u]
                                    /\ proof'[u] = proof[u] /\ raced'[u] = raced[u]
BY DEF RequestsTyped, Finish, Goto, Labels

\* The next line of a request.
LEMMA Went ==
    ASSUME RequestsTyped, NEW t \in Tabs, NEW l \in Labels, Goto(t, l)
    PROVE  /\ rpc' \in [Tabs -> Labels] /\ rpc'[t] = l
           /\ \A u \in Tabs \ {t} : rpc'[u] = rpc[u]
BY DEF RequestsTyped, Goto

\* Of the sessions, dead ones are left when a password changes.
LEMMA Died ==
    ASSUME NEW s \in [Tabs -> {"none", "live", "dead"}]
    PROVE  /\ Dead(s) \in [Tabs -> {"none", "live", "dead"}]
           /\ \A u \in Tabs : Dead(s)[u] # "live" /\ (Dead(s)[u] = "none" <=> s[u] = "none")
BY DEF Dead

\* Where a request is, is a line of it.
LEMMA AreLabels ==
    {"idle", "gate", "token", "login", "check", "reset", "fail", "verify",
     "prove", "apply", "mint", "remint", "deliver"} \subseteq Labels
BY DEF Labels

\* The requests that end here.
Ends(t) ==
    Redirect(t) \/ Deny(t) \/ Locked(t) \/ recordLoginFail(t) \/ Refuse(t) \/ TooShort(t) \/ Deliver(t)

\* They keep the types.
LEMMA EndsTyped ==
    ASSUME RequestsTyped, MintedIsDelivered, NEW t \in Tabs, Ends(t)
    PROVE  RequestsTyped' /\ MintedIsDelivered'
<1> USE AuthAssumption DEF hashVars, backoffVars
<1>1. Finish(t)
  BY DEF Ends, Redirect, Deny, Locked, recordLoginFail, Refuse, TooShort, Deliver
<1>2. /\ rpc' \in [Tabs -> Labels] /\ rpc'[t] = "idle"
      /\ typed' \in [Tabs -> Passwords \cup {None}]
      /\ wants' \in [Tabs -> Passwords \cup {None, "short"}]
      /\ proof' \in [Tabs -> Passwords \cup {None}]
      /\ raced' \in [Tabs -> BOOLEAN]
      /\ \A u \in Tabs \ {t} : rpc'[u] = rpc[u]
  BY <1>1, Finished
<1>3. CASE Redirect(t) \/ Deny(t) \/ Locked(t) \/ recordLoginFail(t) \/ Refuse(t)
  <2>1. UNCHANGED <<authHash, envHash, cookie, grant, minted, oldCookie, keeper>> /\ rpc[t] # "deliver"
    BY <1>3 DEF Redirect, Deny, Locked, recordLoginFail, Refuse
  <2> QED BY <1>2, <2>1 DEF RequestsTyped, MintedIsDelivered
<1>4. CASE TooShort(t)
  <2>1. /\ UNCHANGED <<authHash, envHash, grant, oldCookie>> /\ rpc[t] = "apply"
        /\ cookie' = Dead(cookie) /\ minted' = Dead(minted) /\ keeper' = Nobody
    BY <1>4 DEF TooShort
  <2>2. /\ cookie' \in [Tabs -> {"none", "live", "dead"}] /\ minted' \in [Tabs -> {"none", "live", "dead"}]
        /\ \A u \in Tabs : minted'[u] = "none" <=> minted[u] = "none"
    BY <2>1, Died DEF RequestsTyped
  <2> QED BY <1>2, <2>1, <2>2 DEF RequestsTyped, MintedIsDelivered
<1>5. CASE Deliver(t)
  <2>1. /\ UNCHANGED <<authHash, envHash, keeper>>
        /\ cookie' = [cookie EXCEPT ![t] = minted[t]]
        /\ grant' = [grant EXCEPT ![t] = proof[t]]
        /\ oldCookie' = [oldCookie EXCEPT ![t] = raced[t]]
        /\ minted' = [minted EXCEPT ![t] = "none"]
    BY <1>5 DEF Deliver
  <2> QED BY <1>2, <2>1 DEF RequestsTyped, MintedIsDelivered
<1> QED BY <1>3, <1>4, <1>5 DEF Ends

\* The requests that go on to another line, of which only newSession leads to the handing
\* out of a session.
GoesOn(t) ==
    \/ Page(t) \/ Gate(t) \/ Token(t)
    \/ \E pw \in Passwords : Login(t, pw)
    \/ NotLocked(t) \/ checkPassword(t) \/ resetLoginFails(t)
    \/ \E current \in Passwords, next \in Passwords \cup {None, "short"} : handleSettings(t, current, next)
    \/ Verify(t) \/ Prove(t)

\* And so do these.
LEMMA GoesOnTyped ==
    ASSUME RequestsTyped, MintedIsDelivered, NEW t \in Tabs, GoesOn(t)
    PROVE  RequestsTyped' /\ MintedIsDelivered'
<1> USE DEF hashVars, sessionVars, requestVars
<1>1. /\ UNCHANGED <<authHash, envHash, cookie, grant, minted, raced, oldCookie, keeper>>
      /\ rpc[t] # "deliver"
      /\ \E l \in Labels \ {"deliver"} : Goto(t, l)
  BY DEF GoesOn, Page, Gate, Token, Login, NotLocked, checkPassword, resetLoginFails,
         handleSettings, Verify, Prove, Labels
<1>2. /\ rpc' \in [Tabs -> Labels] /\ rpc'[t] # "deliver"
      /\ \A u \in Tabs \ {t} : rpc'[u] = rpc[u]
  BY <1>1, Went
<1>3. /\ typed' \in [Tabs -> Passwords \cup {None}]
      /\ wants' \in [Tabs -> Passwords \cup {None, "short"}]
      /\ proof' \in [Tabs -> Passwords \cup {None}]
  <2>1. CASE \E pw \in Passwords : Login(t, pw)
    BY <2>1 DEF RequestsTyped, Login
  <2>2. CASE \E current \in Passwords, next \in Passwords \cup {None, "short"} :
                 handleSettings(t, current, next)
    BY <2>2 DEF RequestsTyped, handleSettings
  <2>3. CASE Gate(t) \/ checkPassword(t)
    BY <2>3 DEF RequestsTyped, Gate, checkPassword
  <2>4. CASE Page(t) \/ Token(t) \/ NotLocked(t) \/ resetLoginFails(t) \/ Verify(t) \/ Prove(t)
    BY <2>4 DEF RequestsTyped, Page, Token, NotLocked, resetLoginFails, Verify, Prove
  <2> QED BY <2>1, <2>2, <2>3, <2>4 DEF GoesOn
<1>4. RequestsTyped'
  BY <1>1, <1>2, <1>3 DEF RequestsTyped
<1>5. MintedIsDelivered'
  BY <1>1, <1>2 DEF MintedIsDelivered
<1> QED BY <1>4, <1>5

\* And the other steps.
LEMMA OthersTyped ==
    ASSUME RequestsTyped, MintedIsDelivered,
           \/ \E t \in Tabs : newSession(t) \/ setAuthPassword(t) \/ Expire(t) \/ handleLogout(t)
           \/ \E i \in IPs : LockEnds(i)
           \/ Restart
           \/ UNCHANGED authVars
    PROVE  RequestsTyped' /\ MintedIsDelivered'
<1> USE AuthAssumption DEF hashVars, sessionVars, requestVars
<1>1. ASSUME NEW t \in Tabs, newSession(t) PROVE RequestsTyped' /\ MintedIsDelivered'
  <2>1. /\ UNCHANGED <<authHash, envHash, cookie, grant, raced, oldCookie, keeper, typed, wants, proof>>
        /\ minted' = [minted EXCEPT ![t] = "live"] /\ rpc' = [rpc EXCEPT ![t] = "deliver"]
    BY <1>1 DEF newSession, Goto
  <2> QED BY <2>1 DEF RequestsTyped, MintedIsDelivered, Labels
<1>2. ASSUME NEW t \in Tabs, setAuthPassword(t) PROVE RequestsTyped' /\ MintedIsDelivered'
  <2>1. /\ rpc[t] = "apply" /\ wants[t] # "short" /\ wants[t] \in Passwords \cup {None}
        /\ cookie' = Dead(cookie) /\ minted' = Dead(minted)
        /\ authHash' = wants[t] /\ envHash' = wants[t]
        /\ proof' = [proof EXCEPT ![t] = wants[t]]
        /\ raced' = [u \in Tabs |-> raced[u] \/ u \in InFlight(t)]
        /\ keeper' = t
        /\ rpc' = [rpc EXCEPT ![t] = "remint"]
        /\ UNCHANGED <<grant, oldCookie, typed, wants>>
    BY <1>2 DEF RequestsTyped, setAuthPassword, Goto
  <2>2. /\ cookie' \in [Tabs -> {"none", "live", "dead"}] /\ minted' \in [Tabs -> {"none", "live", "dead"}]
        /\ \A u \in Tabs : minted'[u] = "none" <=> minted[u] = "none"
    BY <2>1, Died DEF RequestsTyped
  <2>3. raced' \in [Tabs -> BOOLEAN]
    BY <2>1
  <2>4. RequestsTyped'
    BY <2>1, <2>2, <2>3 DEF RequestsTyped, Labels
  <2>5. MintedIsDelivered'
    BY <2>1, <2>2 DEF RequestsTyped, MintedIsDelivered
  <2> QED BY <2>4, <2>5
<1>3. ASSUME NEW t \in Tabs, Expire(t) \/ handleLogout(t) PROVE RequestsTyped' /\ MintedIsDelivered'
  <2>1. /\ UNCHANGED <<authHash, envHash, grant, minted, proof, raced, oldCookie, rpc, typed, wants>>
        /\ cookie' \in [Tabs -> {"none", "live", "dead"}] /\ keeper' \in {keeper, Nobody}
    BY <1>3 DEF RequestsTyped, Expire, handleLogout
  <2> QED BY <2>1 DEF RequestsTyped, MintedIsDelivered
<1>4. CASE (\E i \in IPs : LockEnds(i)) \/ UNCHANGED authVars
  BY <1>4 DEF LockEnds, authVars, RequestsTyped, MintedIsDelivered
<1>5. CASE Restart
  <2>1. /\ cookie' = Dead(cookie) /\ authHash' = envHash /\ envHash' = envHash /\ keeper' = Nobody
        /\ minted' = NoTab("none") /\ rpc' = NoTab("idle") /\ typed' = NoTab(None)
        /\ wants' = NoTab(None) /\ proof' = NoTab(None) /\ raced' = NoTab(FALSE)
        /\ UNCHANGED <<grant, oldCookie>>
    BY <1>5 DEF Restart
  <2>2. cookie' \in [Tabs -> {"none", "live", "dead"}]
    BY <2>1, Died DEF RequestsTyped
  <2> QED BY <2>1, <2>2 DEF RequestsTyped, MintedIsDelivered, NoTab, Labels
<1> QED BY <1>1, <1>2, <1>3, <1>4, <1>5

\* There are no more.
LEMMA StepKinds ==
    ASSUME [AuthNext]_authVars
    PROVE  \/ \E t \in Tabs : Ends(t) \/ GoesOn(t)
           \/ \E t \in Tabs : newSession(t) \/ setAuthPassword(t) \/ Expire(t) \/ handleLogout(t)
           \/ \E i \in IPs : LockEnds(i)
           \/ Restart
           \/ UNCHANGED authVars
BY DEF AuthNext, Ends, GoesOn

\* So the types are kept.
LEMMA RequestsStep ==
    RequestsTyped /\ MintedIsDelivered /\ [AuthNext]_authVars => RequestsTyped' /\ MintedIsDelivered'
BY StepKinds, EndsTyped, GoesOnTyped, OthersTyped

----------------------------------------------------------------------------
(* Sessions *)

\* A request that has been let in was let in on the password in force, or knows that it
\* has changed; so has the session it has made.
LetInCurrent ==
    \A t \in Tabs :
        /\ rpc[t] \in {"token", "reset", "mint", "remint"} => proof[t] = authHash \/ raced[t]
        /\ cookie[t] = "live" => grant[t] = authHash \/ oldCookie[t]
        /\ minted[t] = "live" => proof[t] = authHash \/ raced[t]

\* Who changed the password last is in, or about to get its session.
KeeperInv ==
    keeper # Nobody =>
        \/ rpc[keeper] = "remint"
        \/ rpc[keeper] = "deliver" /\ minted[keeper] = "live"
        \/ rpc[keeper] # "deliver" /\ cookie[keeper] = "live"

SInv == LetInCurrent /\ KeeperInv

\* A request that ends takes what it was let in on with it, or puts it beside its session.
LEMMA EndsKeep ==
    ASSUME RequestsTyped, MintedIsDelivered, SInv, NEW t \in Tabs, Ends(t)
    PROVE  SInv'
<1> USE AuthAssumption DEF hashVars, backoffVars
<1>1. Finish(t)
  BY DEF Ends, Redirect, Deny, Locked, recordLoginFail, Refuse, TooShort, Deliver
<1>2. /\ rpc'[t] = "idle"
      /\ \A u \in Tabs \ {t} : rpc'[u] = rpc[u] /\ proof'[u] = proof[u] /\ raced'[u] = raced[u]
  BY <1>1, Finished
<1>3. CASE Redirect(t) \/ Deny(t) \/ Locked(t) \/ recordLoginFail(t) \/ Refuse(t)
  <2>1. /\ UNCHANGED <<authHash, cookie, grant, minted, oldCookie, keeper>>
        /\ rpc[t] # "deliver" /\ rpc[t] # "remint" /\ minted[t] # "live"
    BY <1>3 DEF Redirect, Deny, Locked, recordLoginFail, Refuse, MintedIsDelivered
  <2>2. LetInCurrent'
    BY <1>2, <2>1 DEF SInv, LetInCurrent
  <2>3. KeeperInv'
    BY <1>2, <2>1 DEF SInv, KeeperInv, RequestsTyped
  <2> QED BY <2>2, <2>3 DEF SInv
<1>4. CASE TooShort(t)
  <2>1. /\ cookie' = Dead(cookie) /\ minted' = Dead(minted) /\ keeper' = Nobody /\ authHash' = authHash
    BY <1>4 DEF TooShort
  <2>2. \A u \in Tabs : cookie'[u] # "live" /\ minted'[u] # "live"
    BY <2>1, Died DEF RequestsTyped
  <2>3. LetInCurrent'
    BY <1>2, <2>1, <2>2 DEF SInv, LetInCurrent
  <2> QED BY <2>1, <2>3 DEF SInv, KeeperInv
<1>5. CASE Deliver(t)
  <2>1. /\ UNCHANGED <<authHash, keeper>> /\ rpc[t] = "deliver"
        /\ cookie'[t] = minted[t] /\ grant'[t] = proof[t] /\ oldCookie'[t] = raced[t] /\ minted'[t] = "none"
        /\ \A u \in Tabs \ {t} : /\ cookie'[u] = cookie[u] /\ grant'[u] = grant[u]
                                 /\ oldCookie'[u] = oldCookie[u] /\ minted'[u] = minted[u]
    BY <1>5 DEF Deliver, RequestsTyped
  <2>2. LetInCurrent'
    BY <1>2, <2>1 DEF SInv, LetInCurrent
  <2>3. KeeperInv'
    BY <1>2, <2>1 DEF SInv, KeeperInv, RequestsTyped
  <2> QED BY <2>2, <2>3 DEF SInv
<1> QED BY <1>3, <1>4, <1>5 DEF Ends

\* A password is right when it is the one in force; the local token counts when there is none.
LEMMA GoesOnKeeps ==
    ASSUME RequestsTyped, MintedIsDelivered, SInv, NEW t \in Tabs, GoesOn(t)
    PROVE  SInv'
<1> USE DEF hashVars, sessionVars, requestVars
<1>1. /\ UNCHANGED <<authHash, cookie, grant, minted, raced, oldCookie, keeper>>
      /\ rpc[t] \notin {"deliver", "remint"}
      /\ \E l \in Labels \ {"deliver"} : Goto(t, l)
  BY DEF GoesOn, Page, Gate, Token, Login, NotLocked, checkPassword, resetLoginFails,
         handleSettings, Verify, Prove, Labels
<1>2. /\ rpc'[t] # "deliver"
      /\ \A u \in Tabs \ {t} : rpc'[u] = rpc[u] /\ proof'[u] = proof[u]
  <2>1. \A u \in Tabs \ {t} : proof'[u] = proof[u]
    BY DEF RequestsTyped, GoesOn, Page, Gate, Token, Login, NotLocked, checkPassword, resetLoginFails,
           handleSettings, Verify, Prove
  <2> QED BY <1>1, <2>1, Went
<1>3. rpc'[t] \in {"token", "reset", "mint", "remint"} => proof'[t] = authHash \/ raced[t]
  <2>1. CASE Gate(t)
    BY <2>1 DEF Gate, RequestsTyped
  <2>2. CASE checkPassword(t)
    BY <2>2 DEF checkPassword, RequestsTyped, Goto
  <2>3. CASE Token(t) \/ resetLoginFails(t)
    BY <2>3 DEF Token, resetLoginFails, SInv, LetInCurrent
  <2>4. CASE \/ Page(t) \/ NotLocked(t) \/ Verify(t) \/ Prove(t)
             \/ \E pw \in Passwords : Login(t, pw)
             \/ \E current \in Passwords, next \in Passwords \cup {None, "short"} :
                    handleSettings(t, current, next)
    <3>1. \E l \in {"gate", "check", "apply", "prove", "login", "verify"} : Goto(t, l)
      BY <2>4 DEF Page, NotLocked, Verify, Prove, Login, handleSettings
    <3> QED BY <3>1 DEF Goto, RequestsTyped
  <2> QED BY <2>1, <2>2, <2>3, <2>4 DEF GoesOn
<1>4. LetInCurrent'
  <2>1. minted'[t] # "live"
    BY <1>1 DEF MintedIsDelivered
  <2> QED BY <1>1, <1>2, <1>3, <2>1 DEF SInv, LetInCurrent
<1>5. KeeperInv'
  BY <1>1, <1>2 DEF SInv, KeeperInv, RequestsTyped
<1> QED BY <1>4, <1>5 DEF SInv

\* A change of the password leaves no session, and reaches all requests that are let in.
LEMMA OthersKeep ==
    ASSUME RequestsTyped, MintedIsDelivered, SInv,
           \/ \E t \in Tabs : newSession(t) \/ setAuthPassword(t) \/ Expire(t) \/ handleLogout(t)
           \/ \E i \in IPs : LockEnds(i)
           \/ Restart
           \/ UNCHANGED authVars
    PROVE  SInv'
<1> USE AuthAssumption DEF hashVars, sessionVars, requestVars
<1>1. ASSUME NEW t \in Tabs, newSession(t) PROVE SInv'
  <2>1. /\ UNCHANGED <<authHash, cookie, grant, raced, oldCookie, keeper, proof>>
        /\ rpc[t] \in {"mint", "remint"} /\ minted'[t] = "live" /\ rpc'[t] = "deliver"
        /\ \A u \in Tabs \ {t} : minted'[u] = minted[u] /\ rpc'[u] = rpc[u]
    BY <1>1 DEF newSession, Goto, RequestsTyped
  <2>2. LetInCurrent'
    BY <2>1 DEF SInv, LetInCurrent
  <2>3. KeeperInv'
    BY <2>1 DEF SInv, KeeperInv, RequestsTyped
  <2> QED BY <2>2, <2>3 DEF SInv
<1>2. ASSUME NEW t \in Tabs, setAuthPassword(t) PROVE SInv'
  <2>1. /\ cookie' = Dead(cookie) /\ minted' = Dead(minted)
        /\ authHash' = wants[t] /\ proof'[t] = wants[t] /\ keeper' = t /\ rpc'[t] = "remint"
        /\ \A u \in Tabs \ {t} : /\ rpc'[u] = rpc[u]
                                 /\ u \in InFlight(t) => raced'[u] = TRUE
    BY <1>2 DEF RequestsTyped, setAuthPassword, Goto
  <2>2. \A u \in Tabs : cookie'[u] # "live" /\ minted'[u] # "live"
    BY <2>1, Died DEF RequestsTyped
  <2>3. LetInCurrent'
    BY <2>1, <2>2 DEF LetInCurrent, InFlight
  <2> QED BY <2>1, <2>3 DEF SInv, KeeperInv
<1>3. ASSUME NEW t \in Tabs, Expire(t) \/ handleLogout(t) PROVE SInv'
  <2>1. /\ UNCHANGED <<authHash, grant, minted, proof, raced, oldCookie, rpc>>
        /\ cookie'[t] # "live" /\ \A u \in Tabs \ {t} : cookie'[u] = cookie[u]
        /\ keeper' = IF keeper = t THEN Nobody ELSE keeper
    BY <1>3 DEF RequestsTyped, Expire, handleLogout
  <2>2. LetInCurrent'
    BY <2>1 DEF SInv, LetInCurrent
  <2>3. KeeperInv'
    BY <2>1 DEF SInv, KeeperInv, RequestsTyped
  <2> QED BY <2>2, <2>3 DEF SInv
<1>4. CASE (\E i \in IPs : LockEnds(i)) \/ UNCHANGED authVars
  BY <1>4 DEF LockEnds, authVars, SInv, LetInCurrent, KeeperInv
<1>5. CASE Restart
  <2>1. /\ cookie' = Dead(cookie) /\ keeper' = Nobody
        /\ \A u \in Tabs : minted'[u] = "none" /\ rpc'[u] = "idle"
    BY <1>5 DEF Restart, NoTab
  <2>2. \A u \in Tabs : cookie'[u] # "live"
    BY <2>1, Died DEF RequestsTyped
  <2> QED BY <2>1, <2>2 DEF SInv, LetInCurrent, KeeperInv
<1> QED BY <1>1, <1>2, <1>3, <1>4, <1>5

----------------------------------------------------------------------------
(* The back-off *)

\* The requests from an address that have passed the lock and not yet failed.
TabsOf(i) == {t \in Tabs : IPOf[t] = i}
Passed(i) == {t \in TabsOf(i) : rpc[t] \in {"check", "fail"}}

\* Before a lock the counter counts the guesses and is below the threshold; after it the
\* only ones to come are of the requests that had passed it; when it is over the guesses
\* start anew.
BackoffInv ==
    /\ fails \in [IPs -> Nat] /\ guesses \in [IPs -> Nat]
    /\ lock \in [IPs -> {"none", "locked", "over"}]
    /\ \A i \in IPs :
          /\ lock[i] = "none" => guesses[i] <= fails[i] /\ fails[i] < lockThreshold
          /\ lock[i] = "locked" => /\ guesses[i] + Cardinality(Passed(i)) < lockThreshold + Cardinality(TabsOf(i))
                                   /\ fails[i] + Cardinality(Passed(i)) < lockThreshold + Cardinality(TabsOf(i))
          /\ lock[i] = "over" => guesses[i] = 0 /\ fails[i] < lockThreshold + Cardinality(TabsOf(i))

\* Both sets are finite, and the second is part of the first.
LEMMA TabsFinite ==
    ASSUME NEW i \in IPs
    PROVE  /\ IsFiniteSet(TabsOf(i)) /\ Cardinality(TabsOf(i)) \in Nat
           /\ Cardinality(TabsOf(i)) <= Cardinality(Tabs) /\ Cardinality(Tabs) \in Nat
           /\ IsFiniteSet(Passed(i)) /\ Cardinality(Passed(i)) \in Nat
           /\ Cardinality(Passed(i)) <= Cardinality(TabsOf(i))
<1>1. TabsOf(i) \subseteq Tabs /\ Passed(i) \subseteq TabsOf(i)
  BY DEF TabsOf, Passed
<1> QED BY <1>1, AuthAssumption, FS_Subset, FS_CardinalityType

\* The number of requests that have passed falls by one with each failure.
LEMMA OneFewer ==
    ASSUME NEW i \in IPs, NEW t \in Passed(i), Passed(i)' = Passed(i) \ {t}
    PROVE  Cardinality(Passed(i)') = Cardinality(Passed(i)) - 1
BY TabsFinite, FS_RemoveElement

\* It is less than that of the tabs when one of them has not.
LEMMA NotAll ==
    ASSUME NEW i \in IPs, NEW t \in TabsOf(i) \ Passed(i)
    PROVE  Cardinality(Passed(i)) < Cardinality(TabsOf(i))
<1>1. Passed(i) \subseteq TabsOf(i) /\ Passed(i) # TabsOf(i)
  BY DEF Passed
<1> QED BY <1>1, TabsFinite, FS_Subset

\* It does not grow when nobody passes.
LEMMA NoMore ==
    ASSUME NEW i \in IPs, Passed(i)' \subseteq Passed(i)
    PROVE  Cardinality(Passed(i)') <= Cardinality(Passed(i)) /\ Cardinality(Passed(i)') \in Nat
BY TabsFinite, FS_Subset, FS_CardinalityType

\* A wrong password counts, and may lock; the counters of others it only prunes.
LEMMA FailKeeps ==
    ASSUME RequestsTyped, BackoffInv, NEW t \in Tabs, recordLoginFail(t)
    PROVE  BackoffInv'
<1> USE AuthAssumption
<1> DEFINE ip == IPOf[t]
           n  == (IF ip \in Kept THEN fails[ip] ELSE 0) + 1
<1>1. /\ fails' = [i \in IPs |-> IF i = ip THEN n ELSE IF i \in Kept THEN fails[i] ELSE 0]
      /\ lock' = [i \in IPs |-> IF i = ip /\ n >= lockThreshold THEN "locked"
                               ELSE IF i \in Kept THEN lock[i] ELSE "none"]
      /\ guesses' = [i \in IPs |-> IF i = ip THEN (IF Overflow THEN 0 ELSE guesses[i]) + 1
                                  ELSE IF Overflow THEN 0 ELSE guesses[i]]
  BY DEF recordLoginFail
<1>2. ip \in IPs /\ n \in Nat
  BY DEF BackoffInv
<1>3. \A u \in Tabs \ {t} : rpc'[u] = rpc[u]
  BY Finished DEF recordLoginFail
<1>4. rpc[t] = "fail" /\ rpc'[t] = "idle"
  BY Finished DEF recordLoginFail
<1>5. \A i \in IPs : i \in Kept <=> ~Overflow /\ lock[i] # "over"
  BY DEF Kept
<1> HIDE DEF ip, n
<1>6. /\ fails' \in [IPs -> Nat] /\ guesses' \in [IPs -> Nat]
      /\ lock' \in [IPs -> {"none", "locked", "over"}]
  BY <1>1, <1>2 DEF BackoffInv
<1>7. t \in Passed(ip)
  BY <1>2, <1>4 DEF ip, Passed, TabsOf
<1>8. \A i \in IPs : /\ TabsOf(i)' = TabsOf(i)
                     /\ i # ip => Passed(i)' = Passed(i)
                     /\ i = ip => Passed(i)' = Passed(i) \ {t}
  BY <1>3, <1>4 DEF ip, Passed, TabsOf
<1>9. ASSUME NEW i \in IPs, i # ip
      PROVE  /\ lock'[i] = "none" => guesses'[i] <= fails'[i] /\ fails'[i] < lockThreshold
             /\ lock'[i] = "locked" => /\ guesses'[i] + Cardinality(Passed(i)') < lockThreshold + Cardinality(TabsOf(i)')
                                       /\ fails'[i] + Cardinality(Passed(i)') < lockThreshold + Cardinality(TabsOf(i)')
             /\ lock'[i] = "over" => guesses'[i] = 0 /\ fails'[i] < lockThreshold + Cardinality(TabsOf(i)')
  <2>1. CASE i \in Kept
    <3>1. fails'[i] = fails[i] /\ lock'[i] = lock[i] /\ guesses'[i] = guesses[i]
      BY <1>1, <1>5, <1>9, <2>1
    <3> QED BY <1>8, <1>9, <3>1 DEF BackoffInv
  <2>2. CASE i \notin Kept
    <3>1. fails'[i] = 0 /\ lock'[i] = "none" /\ guesses'[i] = (IF Overflow THEN 0 ELSE guesses[i])
      BY <1>1, <1>9, <2>2
    <3>2. guesses'[i] = 0
      BY <1>5, <2>2, <3>1 DEF BackoffInv
    <3> QED BY <3>1, <3>2
  <2> QED BY <2>1, <2>2
<1>10. /\ lock'[ip] = "none" => guesses'[ip] <= fails'[ip] /\ fails'[ip] < lockThreshold
       /\ lock'[ip] = "locked" => /\ guesses'[ip] + Cardinality(Passed(ip)) - 1 < lockThreshold + Cardinality(TabsOf(ip))
                                  /\ fails'[ip] + Cardinality(Passed(ip)) - 1 < lockThreshold + Cardinality(TabsOf(ip))
       /\ lock'[ip] # "over"
  <2> DEFINE p == Cardinality(Passed(ip))
             m == Cardinality(TabsOf(ip))
  <2>1. p \in Nat /\ m \in Nat /\ p <= m
    BY <1>2, TabsFinite
  <2> HIDE DEF p, m
  <2>2. /\ fails'[ip] = n /\ lock'[ip] = (IF n >= lockThreshold THEN "locked" ELSE IF ip \in Kept THEN lock[ip] ELSE "none")
        /\ guesses'[ip] = (IF Overflow THEN 0 ELSE guesses[ip]) + 1
    BY <1>1, <1>2
  <2>3. /\ lock[ip] \in {"none", "locked", "over"} /\ fails[ip] \in Nat /\ guesses[ip] \in Nat
        /\ lock[ip] = "none" => guesses[ip] <= fails[ip] /\ fails[ip] < lockThreshold
        /\ lock[ip] = "locked" => guesses[ip] + p < lockThreshold + m /\ fails[ip] + p < lockThreshold + m
        /\ lock[ip] = "over" => guesses[ip] = 0
    BY <1>2 DEF BackoffInv, p, m
  <2>4. CASE ip \notin Kept
    <3>1. n = 1 /\ guesses'[ip] = 1
      BY <1>2, <1>5, <2>2, <2>3, <2>4 DEF n
    <3> QED BY <2>1, <2>2, <2>4, <3>1 DEF p, m
  <2>5. CASE ip \in Kept /\ lock[ip] = "none"
    <3>1. n = fails[ip] + 1 /\ guesses'[ip] = guesses[ip] + 1
      BY <1>2, <1>5, <2>2, <2>5 DEF n
    <3> QED BY <2>1, <2>2, <2>3, <2>5, <3>1 DEF p, m
  <2>6. CASE ip \in Kept /\ lock[ip] = "locked"
    <3>1. n = fails[ip] + 1 /\ guesses'[ip] = guesses[ip] + 1
      BY <1>2, <1>5, <2>2, <2>6 DEF n
    <3>2. lock'[ip] = "locked"
      BY <2>2, <2>6
    <3> QED BY <2>1, <2>2, <2>3, <2>6, <3>1, <3>2 DEF p, m
  <2> QED BY <1>2, <1>5, <2>3, <2>4, <2>5, <2>6
<1>11. Cardinality(Passed(ip)') = Cardinality(Passed(ip)) - 1
  <2>1. \A i \in IPs : i = ip => Cardinality(Passed(i)') = Cardinality(Passed(i)) - 1
    BY <1>7, <1>8, OneFewer
  <2> QED BY <1>2, <2>1 DEF ip
<1> QED BY <1>2, <1>6, <1>8, <1>9, <1>10, <1>11 DEF BackoffInv, ip

\* The steps that leave the counters alone keep their bound, when no request passes a lock.
LEMMA CountersRest ==
    ASSUME BackoffInv, UNCHANGED backoffVars,
           \A i \in IPs : lock[i] = "locked" => Passed(i)' \subseteq Passed(i)
    PROVE  BackoffInv'
<1>1. \A i \in IPs : TabsOf(i)' = TabsOf(i)
  BY DEF TabsOf
<1>2. fails' = fails /\ lock' = lock /\ guesses' = guesses
  BY DEF backoffVars
<1>3. ASSUME NEW i \in IPs, lock[i] = "locked"
      PROVE  /\ guesses[i] + Cardinality(Passed(i)') < lockThreshold + Cardinality(TabsOf(i))
             /\ fails[i] + Cardinality(Passed(i)') < lockThreshold + Cardinality(TabsOf(i))
  <2>1. Cardinality(Passed(i)') <= Cardinality(Passed(i)) /\ Cardinality(Passed(i)') \in Nat
    BY <1>3, NoMore
  <2>2. fails[i] \in Nat /\ guesses[i] \in Nat
    BY DEF BackoffInv
  <2> QED BY <1>3, <2>1, <2>2, TabsFinite, AuthAssumption DEF BackoffInv
<1> QED BY <1>1, <1>2, <1>3 DEF BackoffInv

\* The steps of a request, and of its session: only NotLocked passes, and no lock.
LEMMA RequestRests ==
    ASSUME RequestsTyped, BackoffInv, NEW t \in Tabs,
           \/ Ends(t) /\ ~recordLoginFail(t)
           \/ GoesOn(t) /\ ~resetLoginFails(t)
           \/ newSession(t) \/ setAuthPassword(t) \/ Expire(t) \/ handleLogout(t)
    PROVE  BackoffInv'
<1> USE DEF hashVars, sessionVars, requestVars
<1>1. UNCHANGED backoffVars
  BY DEF Ends, Redirect, Deny, Locked, Refuse, TooShort, Deliver, GoesOn, Page, Gate, Token, Login,
         NotLocked, checkPassword, handleSettings, Verify, Prove, newSession, setAuthPassword,
         Expire, handleLogout
<1>2. \A u \in Tabs \ {t} : rpc'[u] = rpc[u]
  <2>1. \/ Finish(t)
        \/ \E l \in Labels : Goto(t, l)
        \/ rpc' = rpc
    BY DEF Ends, Redirect, Deny, Locked, Refuse, TooShort, Deliver, GoesOn, Page, Gate, Token, Login,
           NotLocked, checkPassword, handleSettings, Verify, Prove, newSession, setAuthPassword,
           Expire, handleLogout, Labels
  <2> QED BY <2>1, Finished, Went
<1>3. rpc'[t] \in {"check", "fail"} => rpc[t] \in {"check", "fail"} \/ lock[IPOf[t]] # "locked"
  <2>1. CASE Ends(t) /\ ~recordLoginFail(t)
    <3>1. Finish(t)
      BY <2>1 DEF Ends, Redirect, Deny, Locked, Refuse, TooShort, Deliver
    <3> QED BY <3>1, Finished
  <2>2. CASE checkPassword(t)
    BY <2>2 DEF checkPassword
  <2>3. CASE NotLocked(t)
    BY <2>3 DEF NotLocked
  <2>4. CASE \/ Page(t) \/ Gate(t) \/ Token(t) \/ Verify(t) \/ Prove(t)
             \/ \E pw \in Passwords : Login(t, pw)
             \/ \E current \in Passwords, next \in Passwords \cup {None, "short"} :
                    handleSettings(t, current, next)
             \/ newSession(t) \/ setAuthPassword(t)
    <3>1. \E l \in Labels \ {"check", "fail"} : Goto(t, l)
      BY <2>4 DEF Page, Gate, Token, Verify, Prove, Login, handleSettings, newSession, setAuthPassword, Labels
    <3> QED BY <3>1, Went
  <2>5. CASE Expire(t) \/ handleLogout(t)
    BY <2>5 DEF Expire, handleLogout
  <2> QED BY <2>1, <2>2, <2>3, <2>4, <2>5 DEF GoesOn
<1>4. ASSUME NEW i \in IPs, lock[i] = "locked" PROVE Passed(i)' \subseteq Passed(i)
  BY <1>2, <1>3, <1>4 DEF Passed, TabsOf
<1> QED BY <1>1, <1>4, CountersRest

\* A login that succeeds clears the counter and the lock of its address.
LEMMA ResetKeeps ==
    ASSUME RequestsTyped, BackoffInv, NEW t \in Tabs, resetLoginFails(t)
    PROVE  BackoffInv'
<1> USE AuthAssumption
<1>1. /\ IPOf[t] \in IPs
      /\ fails' = [fails EXCEPT ![IPOf[t]] = 0]
      /\ lock' = [lock EXCEPT ![IPOf[t]] = "none"]
      /\ guesses' = [guesses EXCEPT ![IPOf[t]] = 0]
      /\ rpc'[t] = "mint" /\ \A u \in Tabs \ {t} : rpc'[u] = rpc[u]
  BY DEF resetLoginFails, Goto, RequestsTyped
<1>2. \A i \in IPs : TabsOf(i)' = TabsOf(i) /\ (i # IPOf[t] => Passed(i)' = Passed(i))
  BY <1>1 DEF Passed, TabsOf
<1>3. /\ fails' \in [IPs -> Nat] /\ guesses' \in [IPs -> Nat]
      /\ lock' \in [IPs -> {"none", "locked", "over"}]
  BY <1>1 DEF BackoffInv
<1>4. \A i \in IPs : IF i = IPOf[t] THEN fails'[i] = 0 /\ guesses'[i] = 0 /\ lock'[i] = "none"
                     ELSE fails'[i] = fails[i] /\ guesses'[i] = guesses[i] /\ lock'[i] = lock[i]
  BY <1>1 DEF BackoffInv
<1> QED BY <1>2, <1>3, <1>4 DEF BackoffInv

\* A lock that is over leaves the counter.
LEMMA LockEndsKeeps ==
    ASSUME BackoffInv, NEW j \in IPs, LockEnds(j)
    PROVE  BackoffInv'
<1> USE AuthAssumption DEF requestVars
<1>1. /\ lock[j] = "locked" /\ lock' = [lock EXCEPT ![j] = "over"]
      /\ guesses' = [guesses EXCEPT ![j] = 0] /\ fails' = fails /\ rpc' = rpc
  BY DEF LockEnds
<1>2. \A i \in IPs : TabsOf(i)' = TabsOf(i) /\ Passed(i)' = Passed(i)
  BY <1>1 DEF Passed, TabsOf
<1>3. /\ guesses' \in [IPs -> Nat] /\ lock' \in [IPs -> {"none", "locked", "over"}]
      /\ \A i \in IPs : IF i = j THEN guesses'[i] = 0 /\ lock'[i] = "over"
                        ELSE guesses'[i] = guesses[i] /\ lock'[i] = lock[i]
  BY <1>1 DEF BackoffInv
<1>4. fails[j] < lockThreshold + Cardinality(TabsOf(j))
  BY <1>1, TabsFinite DEF BackoffInv
<1> QED BY <1>1, <1>2, <1>3, <1>4 DEF BackoffInv

\* A new process has no counters.
LEMMA RestartKeeps ==
    ASSUME Restart
    PROVE  BackoffInv'
<1>1. /\ fails' = [i \in IPs |-> 0] /\ lock' = [i \in IPs |-> "none"] /\ guesses' = [i \in IPs |-> 0]
  BY DEF Restart, NoIP
<1> QED BY <1>1, AuthAssumption DEF BackoffInv

----------------------------------------------------------------------------
(* The login: the theorems *)

\* What every state of the login has.
AInv == RequestsTyped /\ MintedIsDelivered /\ SInv /\ BackoffInv

\* The initial state.
LEMMA AuthInitInv == AuthInit => AInv
<1> SUFFICES ASSUME AuthInit PROVE AInv
  OBVIOUS
<1> USE AuthAssumption DEF AuthInit, NoTab, NoIP
<1>1. RequestsTyped
  BY DEF RequestsTyped, Labels
<1>2. MintedIsDelivered
  BY DEF MintedIsDelivered
<1>3. SInv
  BY DEF SInv, LetInCurrent, KeeperInv
<1>4. BackoffInv
  BY DEF BackoffInv
<1> QED BY <1>1, <1>2, <1>3, <1>4 DEF AInv

\* A step.
LEMMA AuthStep == AInv /\ [AuthNext]_authVars => AInv'
<1> SUFFICES ASSUME AInv, [AuthNext]_authVars PROVE AInv'
  OBVIOUS
<1>1. RequestsTyped' /\ MintedIsDelivered'
  BY RequestsStep DEF AInv
<1>2. SInv'
  BY StepKinds, EndsKeep, GoesOnKeeps, OthersKeep DEF AInv
<1>3. BackoffInv'
  <2>1. ASSUME NEW t \in Tabs, Ends(t) \/ GoesOn(t) PROVE BackoffInv'
    BY <2>1, FailKeeps, ResetKeeps, RequestRests DEF AInv
  <2>2. ASSUME NEW t \in Tabs, newSession(t) \/ setAuthPassword(t) \/ Expire(t) \/ handleLogout(t)
        PROVE  BackoffInv'
    BY <2>2, RequestRests DEF AInv
  <2>3. ASSUME UNCHANGED authVars PROVE BackoffInv'
    BY <2>3, CountersRest DEF AInv, authVars, requestVars, Passed, TabsOf
  <2> QED BY <2>1, <2>2, <2>3, StepKinds, LockEndsKeeps, RestartKeeps DEF AInv
<1> QED BY <1>1, <1>2, <1>3 DEF AInv

\* The counters are bounded: by the threshold, and one for each tab that had passed.
LEMMA AuthTyped == AInv => AuthTypeOK
<1> SUFFICES ASSUME AInv PROVE AuthTypeOK
  OBVIOUS
<1> USE AuthAssumption
<1>1. ASSUME NEW i \in IPs
      PROVE  /\ fails[i] \in 0 .. lockThreshold + Cardinality(Tabs)
             /\ guesses[i] \in 0 .. lockThreshold + Cardinality(Tabs)
  <2>1. fails[i] \in Nat /\ guesses[i] \in Nat /\ lock[i] \in {"none", "locked", "over"}
    BY DEF AInv, BackoffInv
  <2>2. fails[i] <= lockThreshold + Cardinality(Tabs) /\ guesses[i] <= lockThreshold + Cardinality(Tabs)
    BY <2>1, TabsFinite DEF AInv, BackoffInv
  <2>3. Cardinality(Tabs) \in Nat
    BY FS_CardinalityType
  <2> QED BY <2>1, <2>2, <2>3
<1>2. fails \in [IPs -> 0 .. lockThreshold + Cardinality(Tabs)]
  BY <1>1 DEF AInv, BackoffInv
<1>3. guesses \in [IPs -> 0 .. lockThreshold + Cardinality(Tabs)]
  BY <1>1 DEF AInv, BackoffInv
<1>4. lock \in [IPs -> {"none", "locked", "over"}]
  BY DEF AInv, BackoffInv
<1> QED BY <1>2, <1>3, <1>4 DEF AuthTypeOK, AInv, RequestsTyped, MintedIsDelivered, Labels

\* The guesses are bounded before a lock, during and after it.
LEMMA LockBound == AInv => LockIsKept
<1> SUFFICES ASSUME AInv, NEW i \in IPs
             PROVE  guesses[i] < lockThreshold + Cardinality(TabsOf(i))
  BY DEF LockIsKept, TabsOf
<1>1. fails[i] \in Nat /\ guesses[i] \in Nat /\ lock[i] \in {"none", "locked", "over"}
  BY DEF AInv, BackoffInv
<1> QED BY <1>1, TabsFinite, AuthAssumption DEF AInv, BackoffInv

\* The invariant, of which the theorems take what they need.
LEMMA AuthAlways == AuthSpec => []AInv
BY AuthInitInv, AuthStep, PTL DEF AuthSpec

(* For any number of browsers and passwords, changed and tried side by side:  *)
(* a live session was granted on the password in force, or its request was    *)
(* let in before the change (setAuthPassword, newSession).                    *)
THEOREM SessionsCurrent == AuthSpec => []SessionsAreCurrent
<1>1. AInv => SessionsAreCurrent
  BY DEF AInv, SInv, LetInCurrent, SessionsAreCurrent
<1> QED BY <1>1, AuthAlways, PTL

(* Whoever changed the password last is not locked out by it, whatever the     *)
(* others do (handleSettings, setAuthPassword, newSession).                   *)
THEOREM KeeperStaysIn == AuthSpec => []KeeperIsIn
<1>1. AInv => KeeperIsIn
  BY DEF AInv, SInv, KeeperInv, KeeperIsIn
<1> QED BY <1>1, AuthAlways, PTL

(* However many browsers share an address and answer side by side, between two *)
(* locks fewer passwords can be tried than the threshold and the browsers      *)
(* there together (loginLocked, recordLoginFail, pruneLocks, resetLoginFails). *)
THEOREM LockKept == AuthSpec => []LockIsKept
BY LockBound, AuthAlways, PTL

(* The types, among which the bound of the counters and that a session is made *)
(* and not handed out only while a request delivers it (auth.go).             *)
THEOREM LoginTyping == AuthSpec => []AuthTypeOK
BY AuthTyped, AuthAlways, PTL

----------------------------------------------------------------------------
(* The processes: types, addresses, token and .env *)

\* The types, without the count of owners.
Typed ==
    /\ pc \in [Procs -> {"off", "load", "listen", "mint", "serve", "leaving"}]
    /\ environ \in [Procs -> [Keys -> Lines]]
    /\ goal \in [Procs -> Addresses]
    /\ {waits, alone} \subseteq [Procs -> BOOLEAN]
    /\ envFile \in [Keys -> Lines] /\ saved \in [Keys -> Lines]
    /\ token \in Procs \cup {NoProc}
    /\ stopped \in BOOLEAN
    /\ writes \subseteq [of : Procs, key : Keys, value : Values,
                         read : [Keys -> Lines], unread : SUBSET Keys, crossed : BOOLEAN]
    /\ lost \subseteq Keys
    /\ bounds \in Bounds

\* Only a process that serves is writing.
WritersServe == \A w \in writes : pc[w.of] \in {"serve", "leaving"}

\* An address has one owner.
OneOwner == \A p, q \in Procs : Owns(p) /\ Owns(q) /\ goal[p] = goal[q] => p = q

\* While a token is alone nobody else is about to write his.
Lone == \A p \in Procs : alone[p] => token = p /\ \A q \in Procs \ {p} : pc[q] # "mint"

\* One handler of a process is in writeEnv, and the file is as it read it but for
\* what it could not read and what other processes wrote.
OneWriter ==
    /\ \A v, w \in writes : v.of = w.of => v = w
    /\ \A w \in writes, k \in Keys : ~w.crossed /\ k \notin w.unread => w.read[k] = envFile[k]

IInv == Typed /\ WritersServe /\ OneOwner /\ Lone /\ OneWriter /\ SettingsKept

\* What is asked for by a handler is in the types.
LEMMA BoundsTyped ==
    ASSUME bounds \in Bounds
    PROVE  /\ bounds.procs \subseteq Procs
           /\ bounds.keys \subseteq Keys
           /\ bounds.values \subseteq Values
BY BoundsAssumption

\* The environment after godotenv.Load is one.
LEMMA LoadedTyped ==
    ASSUME NEW own \in [Keys -> Lines], NEW file \in [Keys -> Lines]
    PROVE  Loaded(own, file) \in [Keys -> Lines]
BY DEF Loaded

Writes == [of : Procs, key : Keys, value : Values, read : [Keys -> Lines],
           unread : SUBSET Keys, crossed : BOOLEAN]

\* What a handler is about to write is a write, and holds the file but for what it
\* could not read.
LEMMA WritingTyped ==
    ASSUME envFile \in [Keys -> Lines], NEW p \in Procs, NEW k \in Keys, NEW v \in Values,
           NEW unread \in SUBSET Keys
    PROVE  /\ Writing(p, k, v, unread) \in Writes
           /\ Writing(p, k, v, unread).of = p
           /\ Writing(p, k, v, unread).unread = unread
           /\ \A j \in Keys \ unread : Writing(p, k, v, unread).read[j] = envFile[j]
<1>1. [j \in Keys |-> IF j \in unread THEN "absent" ELSE envFile[j]] \in [Keys -> Lines]
  BY DEF Lines
<1> QED BY <1>1 DEF Writing, Writes

\* The write of a handler that has just read the file.
LEMMA Begins ==
    ASSUME envFile \in [Keys -> Lines], NEW p \in Procs, NEW k \in Keys, NEW v \in Values,
           Read(p, k, v)
    PROVE  \E w \in Writes :
               /\ writes' = writes \cup {w} /\ w.of = p
               /\ \A j \in Keys \ w.unread : w.read[j] = envFile[j]
<1>1. PICK unread \in SUBSET Unreadable(k) : writes' = writes \cup {Writing(p, k, v, unread)}
  BY DEF Read
<1>2. unread \in SUBSET Keys
  BY <1>1 DEF Unreadable
<1> QED BY <1>1, <1>2, WritingTyped

\* What is left to write after a file is exchanged was there before, and is crossed if
\* another process wrote.
LEMMA Crossing ==
    ASSUME writes \subseteq Writes, NEW w \in writes, Rename(w), NEW u \in writes'
    PROVE  \E x \in writes \ {w} :
               /\ u \in Writes /\ u.of = x.of
               /\ u = IF x.of = w.of THEN x ELSE [x EXCEPT !.crossed = TRUE]
               /\ x.of # w.of => u.crossed
<1>1. PICK x \in writes \ {w} : u = IF x.of = w.of THEN x ELSE [x EXCEPT !.crossed = TRUE]
  BY DEF Rename
<1>2. x \in Writes
  BY <1>1
<1>3. [x EXCEPT !.crossed = TRUE] \in Writes
  BY <1>2 DEF Writes
<1>4. [x EXCEPT !.crossed = TRUE].of = x.of /\ [x EXCEPT !.crossed = TRUE].crossed
  BY <1>2 DEF Writes
<1> QED BY <1>1, <1>2, <1>3, <1>4

\* The initial state of the processes.
LEMMA InstanceInitInv == InstanceInit => IInv
<1> SUFFICES ASSUME InstanceInit PROVE IInv
  OBVIOUS
<1>1. Typed
  BY DEF InstanceInit, Typed, Blank, Lines, Values, Addresses
<1>2. WritersServe /\ OneOwner /\ Lone /\ OneWriter /\ SettingsKept
  BY DEF InstanceInit, WritersServe, OneOwner, Owns, Lone, OneWriter, SettingsKept
<1> QED BY <1>1, <1>2 DEF IInv

\* A step of a process keeps the types.
LEMMA TypedStep == Typed /\ [InstanceNext]_instanceVars => Typed'
<1> SUFFICES ASSUME Typed, [InstanceNext]_instanceVars PROVE Typed'
  OBVIOUS
<1>0. bounds.procs \subseteq Procs /\ bounds.keys \subseteq Keys /\ bounds.values \subseteq Values
  BY BoundsTyped DEF Typed
<1> USE DEF Typed, lifeVars, fileVars
<1>1. ASSUME NEW p \in Running, Start(p) PROVE Typed'
  BY <1>0, <1>1 DEF Running, Start
<1>2. ASSUME NEW p \in Running, Load(p) PROVE Typed'
  <2>1. p \in Procs
    BY <1>0 DEF Running
  <2>2. PICK file \in {envFile, Blank} : environ' = [environ EXCEPT ![p] = Loaded(@, file)]
    BY <1>2 DEF Load
  <2>3. environ' \in [Procs -> [Keys -> Lines]]
    <3>1. file \in [Keys -> Lines]
      BY <2>2 DEF Blank, Lines
    <3> QED BY <2>1, <2>2, <3>1, LoadedTyped
  <2>4. goal' \in [Procs -> Addresses]
    BY <1>2 DEF Load, resolveListen, Addresses
  <2> QED BY <1>2, <2>3, <2>4 DEF Load
<1>3. ASSUME NEW p \in Running, Listen(p) PROVE Typed'
  BY <1>3 DEF Listen
<1>4. ASSUME NEW p \in Procs, Gone(p), UNCHANGED stopped \/ stopped' = TRUE PROVE Typed'
  BY <1>4 DEF Gone, Blank, Lines, Addresses
<1>5. ASSUME NEW p \in Running, initLocalToken(p) PROVE Typed'
  <2> PICK written \in BOOLEAN :
        /\ token' = IF written THEN p ELSE token
        /\ alone' = [alone EXCEPT ![p] = written /\ \A q \in Procs \ {p} : pc[q] # "mint"]
    BY <1>5 DEF initLocalToken
  <2>1. p \in Procs
    BY <1>0 DEF Running
  <2>2. alone' \in [Procs -> BOOLEAN]
    OBVIOUS
  <2> HIDE DEF Running
  <2> QED BY <1>5, <2>1, <2>2 DEF initLocalToken
<1>6. ASSUME NEW p \in Running, Relaunch(p) PROVE Typed'
  <2> PICK q \in Running :
        /\ pc' = [pc EXCEPT ![p] = "leaving", ![q] = "load"]
        /\ environ' = [environ EXCEPT ![q] = environ[p]]
        /\ waits' = [waits EXCEPT ![q] = TRUE]
    BY <1>6 DEF Relaunch
  <2>1. p \in Procs /\ environ[p] \in [Keys -> Lines]
    BY <1>0 DEF Running
  <2>2. environ' \in [Procs -> [Keys -> Lines]] /\ waits' \in [Procs -> BOOLEAN]
    BY <2>1
  <2>3. /\ pc' \in [Procs -> {"off", "load", "listen", "mint", "serve", "leaving"}]
        /\ UNCHANGED <<goal, token, alone, stopped, fileVars, bounds>>
    BY <1>6 DEF Relaunch
  <2> QED BY <2>2, <2>3
<1>7. ASSUME NEW p \in Running, RelaunchFails(p) PROVE Typed'
  BY <1>7 DEF RelaunchFails
<1>8. ASSUME NEW p \in Running, NEW k \in bounds.keys, NEW v \in bounds.values, Read(p, k, v)
      PROVE  Typed'
  <2>1. p \in Procs /\ k \in Keys /\ v \in Values
    BY <1>0 DEF Running
  <2>2. envFile \in [Keys -> Lines] /\ writes \subseteq Writes
    BY DEF Writes
  <2>3. writes' \subseteq Writes
    BY <1>8, <2>1, <2>2, Begins
  <2> QED BY <1>8, <2>3 DEF Read, Writes
<1>9. ASSUME NEW w \in writes, Rename(w) PROVE Typed'
  <2>1. /\ w.read \in [Keys -> Lines] /\ w.key \in Keys /\ w.value \in Lines
    BY DEF Lines
  <2>2. envFile' \in [Keys -> Lines] /\ saved' \in [Keys -> Lines]
    BY <1>9, <2>1 DEF Rename
  <2>3. writes' \subseteq Writes /\ lost' \subseteq Keys
    BY <1>9, Crossing DEF Writes, Rename
  <2> QED BY <1>9, <2>2, <2>3 DEF Rename, Writes
<1>10. ASSUME NEW w \in writes, WriteFails(w) PROVE Typed'
  BY <1>10 DEF WriteFails
<1>11. ASSUME UNCHANGED instanceVars PROVE Typed'
  BY <1>11 DEF instanceVars
<1> QED
  BY <1>0, <1>1, <1>2, <1>3, <1>4, <1>5, <1>6, <1>7, <1>8, <1>9, <1>10, <1>11
  DEF InstanceNext, HandOff, Refused, TLSFails, Exit, Stop, Running

\* Whoever writes serves.
LEMMA WritersStep == Typed /\ WritersServe /\ [InstanceNext]_instanceVars => WritersServe'
<1> SUFFICES ASSUME Typed, WritersServe, [InstanceNext]_instanceVars PROVE WritersServe'
  OBVIOUS
<1>0. bounds.procs \subseteq Procs /\ \A w \in writes : w.of \in Procs
  BY BoundsTyped DEF Typed
<1>1. pc \in [Procs -> {"off", "load", "listen", "mint", "serve", "leaving"}]
  BY DEF Typed
<1> USE DEF WritersServe, lifeVars, fileVars
<1>2. ASSUME NEW p \in Running,
             Start(p) \/ Load(p) \/ Listen(p) \/ initLocalToken(p) \/ RelaunchFails(p) \/ Relaunch(p)
      PROVE  WritersServe'
  BY <1>0, <1>1, <1>2 DEF Running, Start, Load, Listen, initLocalToken, RelaunchFails, Relaunch
<1>3. ASSUME NEW p \in Procs, Gone(p) PROVE WritersServe'
  BY <1>0, <1>1, <1>3 DEF Gone
<1>4. ASSUME NEW p \in Running, NEW k \in bounds.keys, NEW v \in bounds.values, Read(p, k, v)
      PROVE  WritersServe'
  <2>1. p \in Procs /\ k \in Keys /\ v \in Values /\ envFile \in [Keys -> Lines]
    BY <1>0, BoundsTyped DEF Running, Typed
  <2>2. PICK w : writes' = writes \cup {w} /\ w.of = p
    BY <1>4, <2>1, Begins
  <2> QED BY <1>4, <2>2 DEF Read
<1>5. ASSUME NEW w \in writes, Rename(w) \/ WriteFails(w) PROVE WritersServe'
  <2>1. CASE Rename(w)
    <3>1. writes \subseteq Writes
      BY DEF Typed, Writes
    <3>2. \A u \in writes' : \E x \in writes : u.of = x.of
      BY <2>1, <3>1, Crossing
    <3>3. pc' = pc
      BY <2>1 DEF Rename
    <3> QED BY <3>2, <3>3
  <2>2. CASE WriteFails(w)
    BY <2>2 DEF WriteFails
  <2> QED BY <1>5, <2>1, <2>2
<1>6. ASSUME UNCHANGED instanceVars PROVE WritersServe'
  BY <1>6 DEF instanceVars
<1> QED
  BY <1>0, <1>2, <1>3, <1>4, <1>5, <1>6
  DEF InstanceNext, HandOff, Refused, TLSFails, Exit, Stop, Running

\* A process listens where nobody does, and takes its address along until it is gone.
LEMMA OwnerStep == Typed /\ OneOwner /\ [InstanceNext]_instanceVars => OneOwner'
<1> SUFFICES ASSUME Typed, OneOwner, [InstanceNext]_instanceVars PROVE OneOwner'
  OBVIOUS
<1>0. bounds.procs \subseteq Procs
  BY BoundsTyped DEF Typed
<1>1. /\ pc \in [Procs -> {"off", "load", "listen", "mint", "serve", "leaving"}]
      /\ goal \in [Procs -> Addresses]
  BY DEF Typed
<1> USE DEF OneOwner, Owns, lifeVars, fileVars
<1>2. ASSUME NEW p \in Running, Start(p) \/ Load(p) \/ initLocalToken(p) \/ RelaunchFails(p) \/ Relaunch(p)
      PROVE  OneOwner'
  BY <1>0, <1>1, <1>2 DEF Running, Start, Load, initLocalToken, RelaunchFails, Relaunch
<1>3. ASSUME NEW p \in Running, Listen(p) PROVE OneOwner'
  BY <1>0, <1>1, <1>3 DEF Running, Listen, Owner
<1>4. ASSUME NEW p \in Procs, Gone(p) PROVE OneOwner'
  BY <1>1, <1>4 DEF Gone
<1>5. ASSUME UNCHANGED <<pc, goal>> PROVE OneOwner'
  BY <1>5
<1> QED
  BY <1>0, <1>2, <1>3, <1>4, <1>5
  DEF InstanceNext, HandOff, Refused, TLSFails, Exit, Stop, Running, Read, Rename, WriteFails, instanceVars

\* A token written while nobody else was about to stays, until another listens.
LEMMA LoneStep == Typed /\ Lone /\ [InstanceNext]_instanceVars => Lone'
<1> SUFFICES ASSUME Typed, Lone, [InstanceNext]_instanceVars PROVE Lone'
  OBVIOUS
<1>0. bounds.procs \subseteq Procs
  BY BoundsTyped DEF Typed
<1>1. /\ pc \in [Procs -> {"off", "load", "listen", "mint", "serve", "leaving"}]
      /\ alone \in [Procs -> BOOLEAN]
  BY DEF Typed
<1> USE DEF Lone, lifeVars, fileVars
<1>2. ASSUME NEW p \in Running, Start(p) \/ Load(p) \/ RelaunchFails(p) \/ Relaunch(p)
      PROVE  Lone'
  BY <1>0, <1>1, <1>2 DEF Running, Start, Load, RelaunchFails, Relaunch
<1>3. ASSUME NEW p \in Running, Listen(p) PROVE Lone'
  BY <1>0, <1>1, <1>3 DEF Running, Listen
<1>4. ASSUME NEW p \in Running, initLocalToken(p) PROVE Lone'
  <2>1. p \in Procs /\ pc[p] = "mint"
    BY <1>0, <1>4 DEF initLocalToken, Running
  <2>2. PICK written \in BOOLEAN :
           /\ token' = IF written THEN p ELSE token
           /\ alone' = [alone EXCEPT ![p] = written /\ \A q \in Procs \ {p} : pc[q] # "mint"]
    BY <1>4 DEF initLocalToken
  <2>3. pc' = [pc EXCEPT ![p] = "serve"]
    BY <1>4 DEF initLocalToken
  <2>4. ASSUME NEW q \in Procs, alone'[q] PROVE q = p
    BY <1>1, <2>1, <2>2, <2>4
  <2>5. ASSUME alone'[p] PROVE token' = p /\ \A q \in Procs \ {p} : pc'[q] # "mint"
    BY <1>1, <2>1, <2>2, <2>3, <2>5
  <2> QED BY <2>4, <2>5
<1>5. ASSUME NEW p \in Procs, Gone(p) PROVE Lone'
  BY <1>1, <1>5 DEF Gone
<1>6. ASSUME UNCHANGED <<pc, alone, token>> PROVE Lone'
  BY <1>6
<1> QED
  BY <1>0, <1>2, <1>3, <1>4, <1>5, <1>6
  DEF InstanceNext, HandOff, Refused, TLSFails, Exit, Stop, Running, Read, Rename, WriteFails, instanceVars

\* The file is exchanged for what was read and one key; what was not read is lost.
LEMMA FileStep ==
    Typed /\ OneWriter /\ SettingsKept /\ [InstanceNext]_instanceVars => OneWriter' /\ SettingsKept'
<1> SUFFICES ASSUME Typed, OneWriter, SettingsKept, [InstanceNext]_instanceVars
             PROVE  OneWriter' /\ SettingsKept'
  OBVIOUS
<1>0. bounds.procs \subseteq Procs
  BY BoundsTyped DEF Typed
<1> USE DEF OneWriter, SettingsKept, lifeVars, fileVars
<1>1. ASSUME UNCHANGED fileVars PROVE OneWriter' /\ SettingsKept'
  BY <1>1
<1>2. ASSUME NEW p \in Procs, Gone(p) PROVE OneWriter' /\ SettingsKept'
  BY <1>2 DEF Gone
<1>3. ASSUME NEW p \in Running, NEW k \in bounds.keys, NEW v \in bounds.values, Read(p, k, v)
      PROVE  OneWriter' /\ SettingsKept'
  <2>0. p \in Procs /\ k \in Keys /\ v \in Values /\ envFile \in [Keys -> Lines]
    BY <1>0, BoundsTyped DEF Running, Typed
  <2>1. PICK n : /\ writes' = writes \cup {n} /\ n.of = p
                 /\ \A j \in Keys \ n.unread : n.read[j] = envFile[j]
    BY <1>3, <2>0, Begins
  <2>2. (\A w \in writes : w.of # p) /\ UNCHANGED <<envFile, saved, lost>>
    BY <1>3 DEF Read
  <2>3. ASSUME NEW x \in writes', NEW y \in writes', x.of = y.of PROVE x = y
    BY <2>1, <2>2, <2>3
  <2>4. ASSUME NEW x \in writes', NEW j \in Keys, ~x.crossed, j \notin x.unread
        PROVE  x.read[j] = envFile'[j]
    BY <2>1, <2>2, <2>4
  <2> QED BY <2>2, <2>3, <2>4
<1>4. ASSUME NEW w \in writes, Rename(w) PROVE OneWriter' /\ SettingsKept'
  <2>1. writes \subseteq Writes
    BY DEF Typed, Writes
  <2>2. SettingsKept'
    <3>1. CASE w.crossed
      BY <1>4, <3>1 DEF Rename
    <3>2. ASSUME ~w.crossed, NEW j \in Keys, envFile'[j] # saved'[j] PROVE j \in lost'
      <4>1. /\ w \in Writes /\ envFile \in [Keys -> Lines] /\ saved \in [Keys -> Lines]
        BY <2>1 DEF Typed
      <4>2. /\ envFile' = [w.read EXCEPT ![w.key] = w.value]
            /\ saved' = [saved EXCEPT ![w.key] = w.value]
            /\ lost' = (lost \cup w.unread) \ {w.key}
        BY <1>4, <3>2 DEF Rename
      <4>3. j # w.key
        BY <3>2, <4>1, <4>2 DEF Writes
      <4>4. envFile'[j] = w.read[j] /\ saved'[j] = saved[j]
        BY <4>1, <4>2, <4>3 DEF Writes
      <4>5. CASE j \in w.unread
        BY <4>2, <4>3, <4>5
      <4>6. CASE j \notin w.unread
        BY <3>2, <4>2, <4>3, <4>4, <4>6
      <4> QED BY <4>5, <4>6
    <3> QED BY <3>1, <3>2
  <2>3. ASSUME NEW x \in writes \ {w} PROVE x.of # w.of
    BY <2>3
  <2>4. \A u \in writes' : u.crossed
    BY <1>4, <2>1, <2>3, Crossing
  <2>5. ASSUME NEW u \in writes', NEW v \in writes', u.of = v.of PROVE u = v
    <3>1. PICK x \in writes \ {w} : u.of = x.of /\ u = [x EXCEPT !.crossed = TRUE]
      BY <1>4, <2>1, <2>3, Crossing
    <3>2. PICK y \in writes \ {w} : v.of = y.of /\ v = [y EXCEPT !.crossed = TRUE]
      BY <1>4, <2>1, <2>3, Crossing
    <3>3. x = y
      BY <2>5, <3>1, <3>2
    <3> QED BY <3>1, <3>2, <3>3
  <2> QED BY <2>2, <2>4, <2>5
<1>5. ASSUME NEW w \in writes, WriteFails(w) PROVE OneWriter' /\ SettingsKept'
  BY <1>5 DEF WriteFails
<1> QED
  BY <1>0, <1>1, <1>2, <1>3, <1>4, <1>5
  DEF InstanceNext, Start, Load, Listen, initLocalToken, Relaunch, RelaunchFails, HandOff,
      Refused, TLSFails, Exit, Stop, Running, instanceVars

\* The invariant, of which the theorems take what they need.
LEMMA InstanceAlways == InstanceSpec => []IInv
<1>1. InstanceInit => IInv
  BY InstanceInitInv
<1>2. IInv /\ [InstanceNext]_instanceVars => IInv'
  BY TypedStep, WritersStep, OwnerStep, LoneStep, FileStep DEF IInv
<1> QED BY <1>1, <1>2, PTL DEF InstanceSpec

\* A set of which all members are the same has at most one.
LEMMA AtMostOne ==
    ASSUME NEW S, \A x, y \in S : x = y
    PROVE  Cardinality(S) <= 1
<1>1. CASE S = {}
  BY <1>1, FS_EmptySet
<1>2. CASE S # {}
  <2>1. PICK x \in S : S = {x}
    BY <1>2
  <2> QED BY <2>1, FS_Singleton
<1> QED BY <1>1, <1>2

\* The invariant holds the types, and that an address has one owner at a time.
LEMMA InstanceTyped == IInv => InstanceTypeOK
<1> SUFFICES ASSUME IInv PROVE InstanceTypeOK
  OBVIOUS
<1>1. Typed /\ WritersServe /\ OneOwner
  BY DEF IInv
<1>2. ASSUME NEW addr \in Addresses PROVE Cardinality(Owner(addr)) <= 1
  <2>1. \A x, y \in Owner(addr) : x = y
    BY <1>1 DEF OneOwner, Owner
  <2> QED BY <2>1, AtMostOne
<1> QED BY <1>1, <1>2 DEF InstanceTypeOK, Typed, WritersServe

(* However many processes there are and whatever they do, the state has its  *)
(* type and an address one owner at a time (net.Listen in main).             *)
THEOREM InstanceTyping == InstanceSpec => []InstanceTypeOK
BY InstanceTyped, InstanceAlways, PTL

(* The token file holds the token of the process that serves, for any number *)
(* of restarts, second copies and stops (initLocalToken after net.Listen).   *)
THEOREM TokenOfOwner == InstanceSpec => []TokenIsOwners
<1>1. IInv => TokenIsOwners
  BY DEF IInv, Lone, TokenIsOwners
<1> QED BY <1>1, InstanceAlways, PTL

(* No write of .env undoes another of its process but for the keys that it    *)
(* could not read, for any number of processes that write, fail and are       *)
(* stopped (writeEnv).                                                        *)
THEOREM EnvKept == InstanceSpec => []SettingsKept
<1>1. IInv => SettingsKept
  BY DEF IInv
<1> QED BY <1>1, InstanceAlways, PTL

----------------------------------------------------------------------------
(* Both machines *)

\* The one that does not move rests, so each invariant is kept by its own steps.
LEMMA BothStep == [Next]_vars => [AuthNext]_authVars /\ [InstanceNext]_instanceVars
BY DEF Next, vars

(* The state of the login and of the processes has its type, whichever of them *)
(* moves (auth.go, main.go).                                                   *)
THEOREM AccessTyping == Spec => []AccessTypeOK
<1>1. Init => AInv /\ IInv
  BY AuthInitInv, InstanceInitInv DEF Init
<1>2. AInv /\ IInv /\ [Next]_vars => AInv' /\ IInv'
  BY BothStep, AuthStep, TypedStep, WritersStep, OwnerStep, LoneStep, FileStep DEF IInv
<1>3. AInv /\ IInv => AccessTypeOK
  BY AuthTyped, InstanceTyped DEF AccessTypeOK
<1> QED BY <1>1, <1>2, <1>3, PTL DEF Spec
=============================================================================
