------------------------------ MODULE Instance ------------------------------
(***************************************************************************)
(* The life of the processes of the program (main.go, actions.go, listen.go): *)
(* each loads .env, listens, mints the local token once it owns its address  *)
(* and serves; "Restart now" starts a successor that waits for the address;  *)
(* a second copy hands off to the owner and ends.  The settings handlers     *)
(* merge their keys into the .env file they share (config.go), and any       *)
(* process may be stopped at any time.                                       *)
(***************************************************************************)
EXTENDS Naturals, FiniteSets

CONSTANTS
    Procs, NoProc,
    Bounds      \* bound: the processes there are at a time, the keys and the values
                \* that are saved, how many at a time, and whether .env can fail to be
                \* read; Init chooses one of them

ASSUME InstanceAssumption == NoProc \notin Procs

\* What .env says of the address and of the login: absent, the default or not.
Keys == {"LISTEN_ADDR", "AUTH_HASH"}
Values == {"default", "set"}
Lines == Values \cup {"absent"}
Addresses == {"loopback", "lan"}

ASSUME BoundsAssumption == 
    Bounds \subseteq [procs : SUBSET Procs, keys : SUBSET Keys, values : SUBSET Values, writes : Nat,
               flaky : BOOLEAN]

VARIABLES
    pc,         \* "off", "load", "listen", "mint", "serve" or "leaving"
    environ,    \* the environment of each
    goal,       \* the address resolveListen gave it
    waits,      \* RESTART_WAIT is set
    envFile,    \* .env
    token,      \* whose token efemon-token holds
    alone,      \* its token was written, and nobody else got an address since (history)
    stopped,    \* one was stopped or could not have its address, and none has started
                \* to serve since (history)
    writes,     \* the writes of .env: by whom, of what, the file as it was read, the keys
                \* that could not be read, and whether another process has written it
                \* since (history)
    saved,      \* what was written last for each key (history)
    lost,       \* keys that a writer could not read, and that were not written since
                \* (history)
    bounds      \* which of the Bounds

fileVars == <<envFile, writes, saved, lost, bounds>>
lifeVars == <<pc, environ, goal, waits, token, alone, stopped>>
instanceVars == <<lifeVars, fileVars>>

Blank == [k \in Keys |-> "absent"]
Running == bounds.procs

\* The listener is the process's until it has gone.
Owns(p) == pc[p] \in {"mint", "serve", "leaving"}
Owner(addr) == {p \in Procs : Owns(p) /\ goal[p] = addr}

InstanceTypeOK ==
    /\ pc \in [Procs -> {"off", "load", "listen", "mint", "serve", "leaving"}]
    /\ environ \in [Procs -> [Keys -> Lines]]
    /\ goal \in [Procs -> Addresses]
    /\ {waits, alone} \subseteq [Procs -> BOOLEAN]
    /\ envFile \in [Keys -> Lines] /\ saved \in [Keys -> Lines]
    /\ token \in Procs \cup {NoProc}
    /\ stopped \in BOOLEAN
    /\ writes \subseteq [of : Procs, key : Keys, value : Values,
                         read : [Keys -> Lines], unread : SUBSET Keys, crossed : BOOLEAN]
    /\ lost \subseteq Keys
    /\ \A w \in writes : pc[w.of] \in {"serve", "leaving"}
    /\ \A addr \in Addresses : Cardinality(Owner(addr)) <= 1

InstanceInit ==
    /\ pc = [p \in Procs |-> "off"]
    /\ environ = [p \in Procs |-> Blank]
    /\ goal = [p \in Procs |-> "loopback"]
    /\ waits = [p \in Procs |-> FALSE] /\ alone = [p \in Procs |-> FALSE]
    /\ bounds \in Bounds
    /\ envFile \in {f \in [Keys -> Lines] : \A k \in Keys \ bounds.keys : f[k] = "set"}
    /\ token = NoProc
    /\ stopped = TRUE
    /\ writes = {}
    /\ saved = envFile /\ lost = {}

----------------------------------------------------------------------------
(* Starting *)

\* By hand: with nothing of ours in its environment.
Start(p) ==
    /\ pc[p] = "off"
    /\ pc' = [pc EXCEPT ![p] = "load"]
    /\ UNCHANGED <<environ, goal, waits, token, alone, stopped, fileVars>>

\* godotenv.Load sets what the environment has not: a variable of the environment stays.
Loaded(own, file) == [k \in Keys |-> IF own[k] = "absent" THEN file[k] ELSE own[k]]

\* The address of .env, exposed only with a password.
resolveListen(env) ==
    IF env["LISTEN_ADDR"] = "set" /\ env["AUTH_HASH"] = "set" THEN "lan" ELSE "loopback"

\* Seeded bug for TokenIsOwners: the token is minted before the address is ours.
LoadAndMint(p) ==
    /\ pc[p] = "load"
    /\ environ' = [environ EXCEPT ![p] = Loaded(@, envFile)]
    /\ goal' = [goal EXCEPT ![p] = resolveListen(environ'[p])]
    /\ pc' = [pc EXCEPT ![p] = "listen"]
    /\ token' = p
    /\ UNCHANGED <<waits, alone, stopped, fileVars>>

\* A file that cannot be read sets nothing.
Load(p) ==
    /\ pc[p] = "load"
    /\ \E file \in {envFile} \cup IF bounds.flaky THEN {Blank} ELSE {} :
        environ' = [environ EXCEPT ![p] = Loaded(@, file)]
    /\ goal' = [goal EXCEPT ![p] = resolveListen(environ'[p])]
    /\ pc' = [pc EXCEPT ![p] = "listen"]
    /\ UNCHANGED <<waits, token, alone, stopped, fileVars>>

\* Seeded bug for AccessTypeOK: a listener that shares its port.
ListenShared(p) ==
    /\ pc[p] = "listen"
    /\ pc' = [pc EXCEPT ![p] = "mint"]
    /\ alone' = [q \in Procs |-> FALSE]
    /\ UNCHANGED <<environ, goal, waits, token, stopped, fileVars>>

Listen(p) ==
    /\ pc[p] = "listen" /\ Owner(goal[p]) = {}
    /\ pc' = [pc EXCEPT ![p] = "mint"]
    /\ alone' = [q \in Procs |-> FALSE]
    /\ UNCHANGED <<environ, goal, waits, token, stopped, fileVars>>

\* A process that is gone leaves its requests unanswered, and .env as it is.
Gone(p) ==
    /\ pc' = [pc EXCEPT ![p] = "off"]
    /\ environ' = [environ EXCEPT ![p] = Blank]
    /\ goal' = [goal EXCEPT ![p] = "loopback"]
    /\ waits' = [waits EXCEPT ![p] = FALSE]
    /\ alone' = [alone EXCEPT ![p] = FALSE]
    /\ token' = IF token = p THEN NoProc ELSE token
    /\ writes' = {w \in writes : w.of # p}
    /\ UNCHANGED <<envFile, saved, lost, bounds>>

Taken(p) == pc[p] = "listen" /\ Owner(goal[p]) # {}

\* Seeded bug for RestartSucceeds: the successor does not wait either.
HandOffAtOnce(p) ==
    /\ Taken(p)
    /\ Gone(p)
    /\ UNCHANGED stopped

\* The owner's token is read and its panel opened.  The successor of a restart tries
\* for ten seconds first: who has started a successor has gone by then.
HandOff(p) ==
    /\ Taken(p)
    /\ waits[p] => \A q \in Owner(goal[p]) : pc[q] # "leaving"
    /\ Gone(p)
    /\ UNCHANGED stopped

\* Any other error of net.Listen is taken for an owner, of whom there is none: an
\* address that is not of this machine, a port of another program.
Refused(p) ==
    /\ pc[p] = "listen" /\ Owner(goal[p]) = {}
    /\ Gone(p)
    /\ stopped' = TRUE

\* An exposed address needs a certificate, without which the program ends (tlsListener).
TLSFails(p) ==
    /\ pc[p] = "mint" /\ goal[p] = "lan"
    /\ Gone(p)
    /\ stopped' = TRUE

\* When the file cannot be written the token of before stays in it.
initLocalToken(p) ==
    /\ pc[p] = "mint"
    /\ pc' = [pc EXCEPT ![p] = "serve"]
    /\ \E written \in BOOLEAN :
        /\ token' = IF written THEN p ELSE token
        /\ alone' = [alone EXCEPT ![p] = written /\ \A q \in Procs \ {p} : pc[q] # "mint"]
    /\ stopped' = FALSE
    /\ UNCHANGED <<environ, goal, waits, fileVars>>

----------------------------------------------------------------------------
(* Ending *)

\* relaunchSelf, 400 ms after the request; a second request may come in between.
Relaunch(p) ==
    /\ pc[p] \in {"serve", "leaving"}
    /\ \E q \in Running :
        /\ pc[q] = "off"
        /\ pc' = [pc EXCEPT ![p] = "leaving", ![q] = "load"]
        /\ environ' = [environ EXCEPT ![q] = environ[p]]
        /\ waits' = [waits EXCEPT ![q] = TRUE]
    /\ UNCHANGED <<goal, token, alone, stopped, fileVars>>

\* No successor can be started: the error is dropped.
RelaunchFails(p) ==
    /\ pc[p] = "serve"
    /\ pc' = [pc EXCEPT ![p] = "leaving"]
    /\ stopped' = TRUE
    /\ UNCHANGED <<environ, goal, waits, token, alone, fileVars>>

Exit(p) ==
    /\ pc[p] = "leaving"
    /\ Gone(p)
    /\ UNCHANGED stopped

\* handleShutdown, the tray, a kill, a crash.
Stop(p) ==
    /\ pc[p] # "off"
    /\ Gone(p)
    /\ stopped' = TRUE

----------------------------------------------------------------------------
(* Settings into .env *)

\* The file as a handler reads it: of a file that cannot be opened, or not be read to
\* its end, no lines, and nobody is told.
Writing(p, k, v, unread) ==
    [of |-> p, key |-> k, value |-> v, unread |-> unread, crossed |-> FALSE,
     read |-> [j \in Keys |-> IF j \in unread THEN "absent" ELSE envFile[j]]]

\* The keys that such a file loses, but for the one that is written anyway.
Unreadable(k) == IF bounds.flaky THEN {j \in Keys \ {k} : envFile[j] # "absent"} ELSE {}

\* Seeded bug for SettingsKept: envMu is not taken.
ReadUnlocked(p, k, v) ==
    /\ pc[p] \in {"serve", "leaving"} /\ Cardinality(writes) < bounds.writes
    /\ writes' = writes \cup {Writing(p, k, v, {})}
    /\ UNCHANGED <<lifeVars, envFile, saved, lost, bounds>>

\* A handler in writeEnv: it has envMu, one of a process at a time, and reads the file.
Read(p, k, v) ==
    /\ pc[p] \in {"serve", "leaving"} /\ Cardinality(writes) < bounds.writes
    /\ \A w \in writes : w.of # p
    /\ \E unread \in SUBSET Unreadable(k) : writes' = writes \cup {Writing(p, k, v, unread)}
    /\ UNCHANGED <<lifeVars, envFile, saved, lost, bounds>>

\* writeFileAtomic: the file is exchanged in one step.
Rename(w) ==
    /\ envFile' = [w.read EXCEPT ![w.key] = w.value]
    /\ saved' = IF w.crossed THEN envFile' ELSE [saved EXCEPT ![w.key] = w.value]
    /\ lost' = IF w.crossed THEN {} ELSE (lost \cup w.unread) \ {w.key}
    /\ writes' = {IF u.of = w.of THEN u ELSE [u EXCEPT !.crossed = TRUE] : u \in writes \ {w}}
    /\ UNCHANGED <<lifeVars, bounds>>

\* An error is logged, and the file is as it was.
WriteFails(w) ==
    /\ writes' = writes \ {w}
    /\ UNCHANGED <<lifeVars, envFile, saved, lost, bounds>>

InstanceNext ==
    \/ \E p \in Running :
        \/ Start(p) \/ Load(p) \/ Listen(p) \/ HandOff(p) \/ initLocalToken(p)
        \/ Refused(p) \/ TLSFails(p)
        \/ Relaunch(p) \/ RelaunchFails(p) \/ Exit(p) \/ Stop(p)
    \/ \E p \in Running, k \in bounds.keys, v \in bounds.values : Read(p, k, v)
    \/ \E w \in writes : Rename(w) \/ WriteFails(w)

InstanceSpec == InstanceInit /\ [][InstanceNext]_instanceVars

\* A process that has started goes on, and one that is leaving goes.
InstanceFairness ==
    \A p \in Procs : /\ WF_instanceVars(Load(p)) /\ WF_instanceVars(Listen(p))
                     /\ WF_instanceVars(HandOff(p)) /\ WF_instanceVars(initLocalToken(p))
                     /\ WF_instanceVars(Exit(p))

----------------------------------------------------------------------------
(* Properties *)

(* The token file holds the token of the process that serves, so that a second *)
(* copy opens its panel ("a losing second instance can't overwrite the running *)
(* instance's token file", main), but for a file that could not be written    *)
(* and for two processes that have had an address each.                      *)
TokenIsOwners == \A p \in Procs : pc[p] = "serve" /\ alone[p] => token = p

(* No write of .env undoes another of its process ("losing the other's keys", *)
(* writeEnv), whoever stops or fails in between, but for the keys that were   *)
(* in the file when it could not be read; two processes have no lock in      *)
(* common.                                                                  *)
SettingsKept == \A k \in Keys : envFile[k] = saved[k] \/ k \in lost

(* After a restart whose successor was started the program serves again, with *)
(* whatever is started, restarted or saved meanwhile, unless one is stopped,  *)
(* or refused an address that nobody of the program has, or a certificate    *)
(* (handleRestart, relaunchSelf, the wait in main).                          *)
RestartSucceeds ==
    \A q \in Procs :
        pc[q] = "load" /\ waits[q] ~> stopped \/ \E p \in Procs : pc[p] = "serve"

(* "Used by the 'Restart now' action to apply a new listen address"           *)
(* (relaunchSelf): what .env holds at a restart is what the successor loads. *)
RestartApplies ==
    [][\A p, q \in Procs :
        Relaunch(p) /\ pc[q] = "off" /\ pc'[q] = "load"
            => Loaded(environ'[q], envFile) = envFile]_instanceVars
=============================================================================
