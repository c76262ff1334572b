------------------------------ MODULE MCAccess ------------------------------
(* The login of one process and the life of several are two machines: each is *)
(* checked from its own initial states, while the other rests.               *)
EXTENDS Auth, Instance

CONSTANTS t1, t2, t3, q1, q2, q3

\* Two browsers that change the password, and two addresses that log in.
MCIPOf == [t \in Tabs |-> IF t = t3 THEN "far" ELSE "near"]
MCTasks == {[t \in Tabs |-> IF t = t3 THEN {} ELSE {"page", "settings"}],
            [t \in Tabs |-> IF t = t1 THEN {"login", "settings", "logout"}
                            ELSE IF t = t2 THEN {"login"} ELSE {}],
            [t \in Tabs |-> IF t = t2 THEN {} ELSE {"login"}]}

\* Three processes of which one key is saved, two of which both are, side by side, and
\* two with a .env that may fail to be read.
MCBounds == {[procs |-> {q1, q2, q3}, keys |-> {"LISTEN_ADDR"}, values |-> Values,
              writes |-> 1, flaky |-> FALSE],
             [procs |-> {q1, q2}, keys |-> Keys, values |-> {"set"},
              writes |-> 2, flaky |-> FALSE],
             [procs |-> {q1, q2}, keys |-> Keys, values |-> {"set"},
              writes |-> 1, flaky |-> TRUE]}

VARIABLE part

\* The machine that rests is in one state.
Init ==
    /\ AuthInit /\ InstanceInit
    /\ \/ part = "login" /\ envFile = Blank /\ bounds.writes = 2
       \/ part = "processes" /\ authHash = None /\ \A t \in Tabs : tasks[t] \subseteq {"login"}

Next ==
    /\ \/ part = "login" /\ AuthNext /\ UNCHANGED instanceVars
       \/ part = "processes" /\ InstanceNext /\ UNCHANGED authVars
    /\ UNCHANGED part

vars == <<part, authVars, instanceVars>>

Spec == Init /\ [][Next]_vars
FairSpec == Spec /\ InstanceFairness

(* Both modules' types, and that an address has one owner at a time (net.Listen *)
(* in main), over restarts, second copies and changes of the address.        *)
AccessTypeOK == AuthTypeOK /\ InstanceTypeOK
=============================================================================
