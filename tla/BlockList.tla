----------------------------- MODULE BlockList -----------------------------
(***************************************************************************)
(* Blocking an IP (handleBlockIP, handleUnblock, actions.go) is a change of *)
(* the kernel's firewall and a change of the operator store, made one after *)
(* the other by the same request, with a slow network report in between.    *)
(* The store is module OperatorStore, with the blocked IPs as its keys.     *)
(* The firewall outlives the process; on Linux it does not outlive the      *)
(* machine, and reapplyBlocks rebuilds it at startup from the records.      *)
(* An instance that finds the port taken has reapplied before it finds out. *)
(***************************************************************************)
EXTENDS OperatorStore, Naturals

CONSTANTS
    Machines,       \* where it runs: the firewall tool found, whether its commands
                    \* may fail with privileges too, and whether the program is
                    \* started again while it runs
    Blockable,      \* IPs isBlockable accepts
    MaxRules,       \* bound on the copies of a rule a request may add to
    MaxDeletes      \* how often unblockIP repeats iptables -D (16)

ASSUME MachinesAssumption ==
    Machines \subseteq [tool : {"iptables", "nft", "netsh"}, flaky : BOOLEAN, twice : BOOLEAN]
ASSUME BlockableAssumption == Blockable \subseteq Keys /\ NoRow \notin Keys
ASSUME BoundsAssumption == MaxRules \in Nat \ {0} /\ MaxDeletes \in Nat \ {0}

VARIABLES
    machine,    \* the machine this is, for good
    rules,      \* copies of the drop rule of each IP
    step,       \* where each request is in its firewall half
    target,     \* the IP it is about
    tries,      \* -D calls that removed a copy
    warned,     \* the unblock answers with a warning
    elevated,   \* this run of the process is root or administrator
    left,       \* records each starting instance has still to reapply
    appending,  \* the IP for which -C has just failed in reapplyBlocks
    booting,    \* the owner of the port is not serving yet
    hooked,     \* nft: the chain that drops what is in the sets is there
    bare,       \* IPs for which this start's last command to block failed (history)
    cleared,    \* IPs whose unblock was answered without a warning (history)
    stuck       \* IPs of which a -D that failed after others left a copy (history)

fwVars == <<machine, rules, step, target, tries, warned, elevated, left, appending,
            booting, hooked, bare, cleared, stuck>>
vars == <<storeVars, fwVars>>

Instances == {"owner", "second"}

Tool == machine.tool
Flaky == machine.flaky

TypeOK ==
    /\ StoreTypeOK
    /\ machine \in Machines
    /\ rules \in [Keys -> Nat]
    /\ step \in [Workers -> {"none", "check", "append", "report", "delete"}]
    /\ target \in [Workers -> Keys \cup {NoRow}]
    /\ \A w \in Workers : step[w] # "none" => pc[w] = "idle" /\ target[w] \in Keys
    /\ tries \in [Workers -> 0 .. MaxDeletes]
    /\ warned \in [Workers -> BOOLEAN]
    /\ elevated \in BOOLEAN
    /\ left \in [Instances -> SUBSET Keys]
    /\ appending \in [Instances -> Keys \cup {NoRow}]
    /\ booting \in BOOLEAN
    /\ hooked \in BOOLEAN
    /\ bare \subseteq Keys
    /\ cleared \subseteq Keys
    /\ stuck \subseteq Keys

\* Seeded bug for RecordMeansRule: records are loaded, never reapplied.
ToReapplyNone == {}

\* reapplyBlocks does nothing on Windows and nothing without root.
ToReapply == IF Tool # "netsh" /\ elevated' THEN Entries(mem') ELSE {}

\* A start on a machine with any records and rules; records of addresses that
\* are not blockable are left from earlier versions and have no rule.
BlockInit ==
    /\ Init
    /\ machine \in Machines
    /\ rules \in [Keys -> 0 .. MaxRules]
    /\ \A k \in Keys \ Blockable : rules[k] = 0
    /\ Tool = "nft" => \A k \in Keys : rules[k] < 2
    /\ step = [w \in Workers |-> "none"]
    /\ target = [w \in Workers |-> NoRow]
    /\ tries = [w \in Workers |-> 0]
    /\ warned = [w \in Workers |-> FALSE]
    /\ elevated \in BOOLEAN
    /\ left = [i \in Instances |->
                 IF i = "owner" /\ Tool # "netsh" /\ elevated THEN Entries(mem) ELSE {}]
    /\ appending = [i \in Instances |-> NoRow]
    /\ booting = TRUE
    /\ hooked \in IF Tool = "nft" THEN BOOLEAN ELSE {TRUE}
    /\ bare = {}
    /\ cleared = {}
    /\ stuck = {}

InFlight(k) == Busy(k) \/ \E w \in Workers : step[w] # "none" /\ target[w] = k

Free(w) == ~booting /\ pc[w] = "idle" /\ step[w] = "none"

\* One more rule for k.  An nft set holds an element once.
WithRule(k) == [rules EXCEPT ![k] = IF Tool = "nft" THEN 1 ELSE @ + 1]

\* What goes to k is dropped.
Dropped(k) == rules[k] > 0 /\ hooked

\* ensureNft, whose commands' errors nobody looks at.
Hook ==
    \/ hooked' = TRUE
    \/ Flaky /\ UNCHANGED hooked

\* blockIP: iptables -A, nft add element, netsh add rule.
SetRule(k) ==
    /\ Hook
    /\ rules' = WithRule(k)
    /\ bare' = IF hooked' THEN bare \ {k} ELSE bare \cup {k}

\* blockIP: -C finds the rule.  It may fail though the rule is there, and -A then
\* makes a further copy.
Found(k) == Tool = "iptables" /\ rules[k] > 0

Overlooked(k) == Flaky /\ Found(k) /\ rules[k] < MaxRules

----------------------------------------------------------------------------
(* handleBlockIP: firewall, report, record *)

StartStep(w, k, label) ==
    /\ Free(w)
    /\ Serialized => ~InFlight(k)
    /\ step' = [step EXCEPT ![w] = label]
    /\ target' = [target EXCEPT ![w] = k]
    /\ tries' = [tries EXCEPT ![w] = 0]
    /\ warned' = [warned EXCEPT ![w] = FALSE]

GoStep(w, label) == step' = [step EXCEPT ![w] = label]

\* The firewall half is over, and with it the variables of its functions.
Leave(w) ==
    /\ GoStep(w, "none")
    /\ target' = [target EXCEPT ![w] = NoRow]
    /\ tries' = [tries EXCEPT ![w] = 0]

BlockArrives(w, k) ==
    /\ k \in Blockable
    /\ Tool = "netsh" => rules[k] < MaxRules
    /\ StartStep(w, k, "check")
    /\ cleared' = cleared \ {k}
    /\ stuck' = stuck \ {k}
    /\ UNCHANGED <<storeVars, rules, elevated, left, appending, booting, hooked, bare>>

\* blockIP: iptables -C, and only there.
FwCheck(w) ==
    /\ step[w] = "check"
    /\ \/ elevated /\ Found(target[w]) /\ GoStep(w, "report")
       \/ /\ ~elevated \/ ~Found(target[w]) \/ Overlooked(target[w])
          /\ GoStep(w, "append")
    /\ UNCHANGED <<storeVars, rules, target, tries, warned, elevated, left,
                   appending, booting, hooked, bare, cleared, stuck>>

FwAppend(w) ==
    /\ step[w] = "append"
    /\ elevated
    /\ SetRule(target[w])
    /\ GoStep(w, "report")
    /\ UNCHANGED <<storeVars, target, tries, warned, elevated, left, appending,
                   booting, cleared, stuck>>

\* The command fails, without privileges always: the request answers with its
\* error and keeps no record.
FwAppendFails(w) ==
    /\ step[w] = "append"
    /\ IF elevated THEN Flaky /\ Hook ELSE UNCHANGED hooked
    /\ Leave(w)
    /\ UNCHANGED <<storeVars, rules, warned, elevated, left, appending,
                   booting, bare, cleared, stuck>>

\* ipReport has answered, however long it took: saveBlocked begins.
Reported(w, s) ==
    /\ step[w] = "report"
    /\ Leave(w)
    /\ Receive(w, "add", [key |-> target[w], stamp |-> s, on |-> FALSE])
    /\ UNCHANGED <<mem, db, persist, env, given, handed, unsaved, todo, lost, rules, warned,
                   elevated, left, appending, booting, hooked, bare, cleared, stuck>>

----------------------------------------------------------------------------
(* handleUnblock: firewall as well as it can, then the record, always *)

UnblockArrives(w, k) ==
    /\ k \in Blockable
    /\ StartStep(w, k, "delete")
    /\ UNCHANGED <<storeVars, rules, elevated, left, appending, booting, hooked, bare,
                   cleared, stuck>>

\* An IP that is not blockable only loses its record.
UnblockStale(w, k) ==
    /\ k \notin Blockable
    /\ Free(w)
    /\ Serialized => ~InFlight(k)
    /\ Receive(w, "remove", [key |-> k, stamp |-> NoRow, on |-> FALSE])
    /\ UNCHANGED <<mem, db, persist, env, given, handed, unsaved, todo, lost, rules, step, target,
                   tries, warned, elevated, left, appending, booting, hooked, bare, cleared, stuck>>

\* unblockIP is over: deleteBlocked begins.
RecordRemoval(w) ==
    /\ Leave(w)
    /\ Receive(w, "remove", [key |-> target[w], stamp |-> NoRow, on |-> FALSE])

\* Seeded bug for UnblockSticks: a single -D, or the deletion of the rule of
\* another name.
FwDeleteOnce(w) ==
    LET k == target[w] IN
    /\ step[w] = "delete"
    /\ elevated
    /\ rules[k] > 0
    /\ rules' = [rules EXCEPT ![k] = IF Tool = "nft" THEN @ ELSE @ - 1]
    /\ stuck' = {j \in stuck : rules'[j] > 0}
    /\ RecordRemoval(w)
    /\ UNCHANGED <<mem, db, persist, env, given, handed, unsaved, todo, lost, warned, elevated,
                   left, appending, booting, hooked, bare, cleared>>

\* iptables -D took one copy away; nft and netsh take everything at once.
FwDelete(w) ==
    LET k == target[w] IN
    /\ step[w] = "delete"
    /\ elevated
    /\ rules[k] > 0
    /\ rules' = [rules EXCEPT ![k] = IF Tool = "iptables" THEN @ - 1 ELSE 0]
    /\ stuck' = {j \in stuck : rules'[j] > 0}
    /\ IF Tool = "iptables" /\ tries[w] + 1 < MaxDeletes
       THEN tries' = [tries EXCEPT ![w] = @ + 1] /\ UNCHANGED <<step, target, pc, arg>>
       ELSE RecordRemoval(w)
    /\ UNCHANGED <<mem, db, persist, env, given, handed, unsaved, todo, lost, warned, elevated,
                   left, appending, booting, hooked, bare, cleared>>

\* The command failed, for want of a rule or not: a warning when it was the first
\* one, and nothing at all when others went before it.
FwDeleteFails(w) ==
    /\ step[w] = "delete"
    /\ ~elevated \/ rules[target[w]] = 0 \/ Flaky
    /\ warned' = [warned EXCEPT ![w] = tries[w] = 0]
    /\ stuck' = {k \in stuck \cup (IF tries[w] = 0 THEN {} ELSE {target[w]}) : rules[k] > 0}
    /\ RecordRemoval(w)
    /\ UNCHANGED <<mem, db, persist, env, given, handed, unsaved, todo, lost, rules,
                   elevated, left, appending, booting, hooked, bare, cleared>>

----------------------------------------------------------------------------
(* The store half of both, and the settings *)

\* Seeded bug for ImplementsStore: a session-only removal that leaves the table.
UnblockedSession(w) ==
    /\ pc[w] = "dbremove"
    /\ ~persist
    /\ Answer(w)
    /\ warned' = [warned EXCEPT ![w] = FALSE]
    /\ UNCHANGED <<mem, db, persist, env, given, handed, unsaved, todo, lost, rules, step, target,
                   tries, elevated, left, appending, booting, hooked, bare, cleared, stuck>>

\* deleteBlocked is done and the operator is told; a warning tells him that
\* the rule may still be there.
Unblocked(w) ==
    /\ DbRemove(w)
    /\ cleared' = IF arg[w].key \in Blockable /\ ~warned[w] /\ arg[w].key \notin lost'
                  THEN cleared \cup {arg[w].key} ELSE cleared
    /\ warned' = [warned EXCEPT ![w] = FALSE]
    /\ UNCHANGED <<rules, step, target, tries, elevated, left, appending, booting,
                   hooked, bare, stuck>>

StoreStep(w) ==
    /\ \/ AddMem(w) \/ LoadOn(w) \/ LoadOff(w) \/ DbAdd(w) \/ RemoveMem(w)
       \/ ToggleStore(w) \/ FlushBegin(w) \/ FlushRow(w) \/ FlushEnd(w) \/ WriteEnv(w)
       \/ Free(w) /\ \E b \in BOOLEAN : ToggleArrives(w, b)
       \/ Free(w) /\ EnvReplaced
    /\ UNCHANGED <<rules, step, target, tries, warned, elevated, left, appending,
                   booting, hooked, bare, cleared, stuck>>

----------------------------------------------------------------------------
(* Startup, exit and reboot *)

\* reapplyBlocks of instance i: blockIP of one record, -C and then -A.
ReapplyCheck(i) ==
    /\ appending[i] = NoRow
    /\ \E k \in left[i] :
          /\ left' = [left EXCEPT ![i] = @ \ {k}]
          /\ \/ Found(k) /\ UNCHANGED appending
             \/ /\ ~Found(k) \/ Overlooked(k)
                /\ appending' = [appending EXCEPT ![i] = k]
    /\ UNCHANGED <<storeVars, rules, step, target, tries, warned, elevated, booting,
                   hooked, bare, cleared, stuck>>

ReapplyAppend(i) ==
    /\ appending[i] # NoRow
    /\ SetRule(appending[i])
    /\ appending' = [appending EXCEPT ![i] = NoRow]
    /\ UNCHANGED <<storeVars, step, target, tries, warned, elevated, left, booting,
                   cleared, stuck>>

\* The command fails: a line in the log, and the next record.
ReapplyFails(i) ==
    /\ appending[i] # NoRow
    /\ Flaky /\ Hook
    /\ bare' = bare \cup {appending[i]}
    /\ appending' = [appending EXCEPT ![i] = NoRow]
    /\ UNCHANGED <<storeVars, rules, step, target, tries, warned, elevated, left, booting,
                   cleared, stuck>>

Serve ==
    /\ booting
    /\ left["owner"] = {} /\ appending["owner"] = NoRow
    /\ booting' = FALSE
    /\ UNCHANGED <<storeVars, rules, step, target, tries, warned, elevated, left,
                   appending, hooked, bare, cleared, stuck>>

\* The process starts again, by hand with or without privileges, or as the
\* successor of a restart with those it had; a reboot of a Linux machine also
\* empties the firewall.
Start(reboot, again) ==
    /\ Reload(again)
    /\ again => ~reboot /\ UNCHANGED elevated
    /\ IF reboot /\ Tool # "netsh"
       THEN rules' = [k \in Keys |-> 0] /\ hooked' = (Tool # "nft")
       ELSE UNCHANGED <<rules, hooked>>
    /\ step' = [w \in Workers |-> "none"]
    /\ target' = [w \in Workers |-> NoRow]
    /\ tries' = [w \in Workers |-> 0]
    /\ warned' = [w \in Workers |-> FALSE]
    /\ elevated' \in BOOLEAN
    /\ left' = [i \in Instances |-> IF i = "owner" THEN ToReapply ELSE {}]
    /\ appending' = [i \in Instances |-> NoRow]
    /\ booting' = TRUE
    /\ bare' = {}
    /\ stuck' = {k \in stuck : rules'[k] > 0}
    /\ UNCHANGED cleared

\* main of another copy: loadState and reapplyBlocks come before the port is
\* tried, so the loser of the port runs them too before it hands off and exits.
SecondStarts ==
    /\ machine.twice
    /\ ~booting
    /\ Tool # "netsh"
    /\ left["second"] = {} /\ appending["second"] = NoRow
    /\ left' = [left EXCEPT !["second"] = Entries(db)]
    /\ UNCHANGED <<storeVars, rules, step, target, tries, warned, elevated,
                   appending, booting, hooked, bare, cleared, stuck>>

BlockNext ==
    /\ \/ \E w \in Workers, k \in Keys :
             BlockArrives(w, k) \/ UnblockArrives(w, k) \/ UnblockStale(w, k)
       \/ \E w \in Workers :
             \/ FwCheck(w) \/ FwAppend(w) \/ FwAppendFails(w)
             \/ FwDelete(w) \/ FwDeleteFails(w)
             \/ \E s \in Stamps : Reported(w, s)
             \/ StoreStep(w) \/ Unblocked(w)
       \/ \E i \in Instances : ReapplyCheck(i) \/ ReapplyAppend(i) \/ ReapplyFails(i)
       \/ Serve
       \/ \E reboot, again \in BOOLEAN : Start(reboot, again)
       \/ SecondStarts
    /\ UNCHANGED machine

BlockSpec == BlockInit /\ [][BlockNext]_vars

----------------------------------------------------------------------------
(* Properties *)

\* While the process serves with privileges, what goes to an IP that the panel
\* lists as blocked is dropped, unless an unblock of it is under way or the command
\* that was to make its rule failed, which reapplyBlocks logs and ensureNft does
\* not: the defect reapplyBlocks was written against ("the IP showed as blocked
\* while the traffic flowed").  Windows, where nothing is reapplied, is left out; a
\* second copy is not.
RecordMeansRule ==
    Tool # "netsh" /\ elevated /\ ~booting =>
        \A k \in Keys : mem[k] # NoRow =>
            \/ Dropped(k)
            \/ k \in bare
            \/ \E w \in Workers :
                  \/ step[w] = "delete" /\ target[w] = k
                  \/ pc[w] = "remove" /\ arg[w].key = k

\* Once an unblock has been answered without a warning, no rule for the IP
\* exists until the operator blocks it again: not after a restart, not after a
\* reboot, not after a flush of the setting (handleUnblock, unblockIP), unless a
\* -D failed after others of the same loop, which unblockIP takes for the end of
\* the copies, or the program is started twice: the second copy reapplies the
\* records it read before the unblock.
UnblockSticks == ~machine.twice => \A k \in cleared : rules[k] = 0 \/ k \in stuck

\* The store inside is the store of OperatorStore: its requests, its guards and
\* its order, whatever the firewall does around them.
ImplementsStore == Spec
=============================================================================
