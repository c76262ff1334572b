------------------------------- MODULE Audit -------------------------------
(***************************************************************************)
(* The security audit as a service (audit.go, audit_seen in db.go): a cached *)
(* result for each language, one scan at a time, the marking of what is new, *)
(* and the check for promiscuous interfaces, which reads what the packet    *)
(* capture does meanwhile.  What a check concludes is in AuditChecks.       *)
(***************************************************************************)
EXTENDS Capture, AuditChecks

CONSTANTS
    Callers,   \* requests for the audit
    Langs,     \* languages it is asked in
    Items,     \* what the checks of the other categories may find
    NoCaller,  \* auditRunMu is free
    DBFaults,  \* TRUE: a statement on audit_seen may fail
    Scopes     \* bound: the requests, languages, items and captures of
               \* one behaviour

ASSUME AuditAssumption == NoCaller \notin Callers /\ Langs # {} /\ DBFaults \in BOOLEAN
                          /\ \A x \in Scopes : x.callers \subseteq Callers /\ x.langs \subseteq Langs
                                            /\ x.items \subseteq Items /\ x.sessions \subseteq Sessions

VARIABLES
    scope,    \* the one of Scopes this behaviour is in
    apc,      \* where each request is
    lang,     \* its language
    refresh,  \* whether it asks for a scan
    after,    \* a result in its language was stored since it asked
    holder,   \* who holds auditRunMu
    cache,    \* auditCache and auditAt: no result, an old one, a fresh one
    rest,     \* TRUE: this scan read the other categories
    listed,   \* the items it found there
    rk,       \* how far it is with the interfaces
    verdict,  \* what it says of them
    diff,     \* how far applyAuditDiff is
    markAs,   \* when it says the items were first seen
    todo,     \* the ones it has to insert
    news,     \* the ones it marks as new
    seen,     \* the table: not there, of the first scan, of the last day, older
    through,  \* captures whose tshark has been there since the interfaces were read (history)
    shown,    \* items some result had (history)
    plain,    \* items some result had, and not as new (history)
    unsure    \* items that were compared with a table that could not be read, or
              \* not recorded, or not shown as the program died (history)

scanVars == <<rest, listed, rk, verdict, diff, markAs, todo, news>>
askVars == <<apc, lang, refresh, after, holder>>
toldVars == <<shown, plain, unsure>>
auditVars == <<scope, askVars, cache, scanVars, seen, through, toldVars>>
vars == <<auditVars, captureVars>>

AuditTypeOK ==
    /\ CaptureTypeOK
    /\ scope \in Scopes
    /\ apc \in [Callers -> {"idle", "queue", "scan"}]
    /\ lang \in [Callers -> Langs]
    /\ {refresh, after} \subseteq [Callers -> BOOLEAN]
    /\ holder \in Callers \cup {NoCaller}
    /\ \A c \in Callers : apc[c] = "scan" <=> holder = c
    /\ cache \in [Langs -> {"none", "old", "fresh"}]
    /\ rest \in BOOLEAN
    /\ listed \subseteq Items
    /\ rk \in {"ifaces", "active", "tools", "done"}
    /\ verdict \in {"none", "ok", "info", "warn"}
    /\ diff \in {"none", "mark", "store"}
    /\ markAs \in {"baseline", "today"}
    /\ todo \subseteq Items /\ news \subseteq Items
    /\ diff # "none" => news \subseteq listed /\ todo \subseteq listed
    /\ seen \in [Items -> {"no", "baseline", "today", "before"}]
    /\ through \subseteq Sessions
    /\ plain \subseteq shown /\ shown \subseteq Items
    /\ unsure \subseteq Items

NoScan ==
    /\ rest = FALSE /\ listed = {} /\ rk = "ifaces" /\ verdict = "none" /\ diff = "none"
    /\ markAs = "today" /\ todo = {} /\ news = {}

AuditInit ==
    /\ CaptureInit
    /\ scope \in Scopes
    /\ apc = [c \in Callers |-> "idle"]
    /\ lang = [c \in Callers |-> CHOOSE l \in Langs : TRUE]
    /\ refresh = [c \in Callers |-> FALSE]
    /\ after = [c \in Callers |-> FALSE]
    /\ holder = NoCaller
    /\ cache = [l \in Langs |-> "none"]
    /\ NoScan
    /\ seen = [i \in Items |-> "no"]
    /\ through = {}
    /\ shown = {} /\ plain = {}
    /\ unsure = {}

----------------------------------------------------------------------------
(* auditCached *)

\* A request that a fresh copy answers changes nothing, and is left out.
Ask(c, l, r) ==
    /\ apc[c] = "idle"
    /\ r \/ cache[l] # "fresh"
    /\ apc' = [apc EXCEPT ![c] = "queue"]
    /\ lang' = [lang EXCEPT ![c] = l]
    /\ refresh' = [refresh EXCEPT ![c] = r]
    /\ after' = [after EXCEPT ![c] = FALSE]
    /\ UNCHANGED <<scope, holder, cache, scanVars, seen, through, toldVars>>

\* With the lock, the copy is looked at again: one that was stored since the
\* request began will do, and so will a fresh one, unless it asked for a scan.
Answered(c) == after[c] \/ (~refresh[c] /\ cache[lang[c]] = "fresh")

\* Seeded bug for EveryAuditAnswered: an early return that keeps the lock.
JoinLocked(c) ==
    /\ apc[c] = "queue" /\ holder = NoCaller
    /\ Answered(c)
    /\ apc' = [apc EXCEPT ![c] = "idle"]
    /\ holder' = c
    /\ refresh' = [refresh EXCEPT ![c] = FALSE]
    /\ after' = [after EXCEPT ![c] = FALSE]
    /\ UNCHANGED <<scope, lang, cache, scanVars, seen, through, toldVars>>

Join(c) ==
    /\ apc[c] = "queue" /\ holder = NoCaller
    /\ Answered(c)
    /\ apc' = [apc EXCEPT ![c] = "idle"]
    /\ refresh' = [refresh EXCEPT ![c] = FALSE]
    /\ after' = [after EXCEPT ![c] = FALSE]
    /\ UNCHANGED <<scope, lang, holder, cache, scanVars, seen, through, toldVars>>

Begin(c) ==
    /\ apc[c] = "queue" /\ holder = NoCaller
    /\ ~Answered(c)
    /\ holder' = c
    /\ apc' = [apc EXCEPT ![c] = "scan"]
    /\ rest' = FALSE /\ listed' = {} /\ rk' = "ifaces" /\ verdict' = "none" /\ diff' = "none"
    /\ markAs' = "today" /\ todo' = {} /\ news' = {}
    /\ through' = {}
    /\ UNCHANGED <<scope, lang, refresh, after, cache, seen, toldVars>>

\* The other categories, which run beside this one and find what there is then.
List(c) ==
    /\ apc[c] = "scan" /\ ~rest
    /\ rest' = TRUE
    /\ listed' \in SUBSET scope.items
    /\ UNCHANGED <<scope, askVars, cache, rk, verdict, diff, markAs, todo, news, seen, through, toldVars>>

\* promiscIfaces: an interface that is promiscuous on account of somebody else or
\* of an own tshark, which may not have opened it yet.
ReadIfaces(c) ==
    /\ apc[c] = "scan" /\ rk = "ifaces"
    /\ \/ /\ rk' = "active"
          /\ through' = {s \in Sessions : tshark[s] # "none"}
          /\ UNCHANGED verdict
       \/ /\ rk' = "done"
          /\ verdict' = "ok"
          /\ UNCHANGED through
    /\ UNCHANGED <<scope, askVars, cache, rest, listed, diff, markAs, todo, news, seen, toldVars>>

Interfaces == [state |-> "read", all |-> {"bad"}, got |-> {"bad"}]

ReadActive(c) ==
    /\ apc[c] = "scan" /\ rk = "active"
    /\ rk' = IF active > 0 THEN "done" ELSE "tools"
    /\ verdict' = IF active > 0 THEN Promisc(Interfaces, TRUE, FALSE).status ELSE verdict
    /\ UNCHANGED <<scope, askVars, cache, rest, listed, diff, markAs, todo, news, seen, through, toldVars>>

\* Seeded bug for FlagIsForeign: only the count is asked.
ReadNoTools(c) ==
    /\ apc[c] = "scan" /\ rk = "tools"
    /\ rk' = "done"
    /\ \E other \in BOOLEAN : verdict' = Promisc(Interfaces, FALSE, other).status
    /\ UNCHANGED <<scope, askVars, cache, rest, listed, diff, markAs, todo, news, seen, through, toldVars>>

\* captureToolsRunning: a tshark that exited is listed until it is reaped.
ReadTools(c) ==
    /\ apc[c] = "scan" /\ rk = "tools"
    /\ rk' = "done"
    /\ \E other \in BOOLEAN :
           verdict' = Promisc(Interfaces, FALSE,
                              other \/ \E s \in Sessions : tshark[s] # "none").status
    /\ UNCHANGED <<scope, askVars, cache, rest, listed, diff, markAs, todo, news, seen, through, toldVars>>

----------------------------------------------------------------------------
(* applyAuditDiff *)

ScanRead(c) == apc[c] = "scan" /\ rest /\ rk = "done" /\ diff = "none"

Recorded == {i \in Items : seen[i] # "no"}

\* The items are compared with the rows that were read; if there are none, this is the
\* first scan, whose items are the baseline.
Compare(c, rows) ==
    /\ ScanRead(c)
    /\ diff' = "mark"
    /\ markAs' = IF rows = {} THEN "baseline" ELSE "today"
    /\ todo' = listed \ rows
    /\ news' = {i \in listed : IF i \in rows THEN seen[i] = "today" ELSE rows # {}}
    /\ UNCHANGED <<scope, askVars, cache, rest, listed, rk, verdict, seen, through, shown, plain>>

\* Seeded bug for NewsAreTrue: the first scan is no baseline.
LoadNoBaseline(c) ==
    /\ ScanRead(c)
    /\ diff' = "mark"
    /\ markAs' = "today"
    /\ todo' = {i \in listed : seen[i] = "no"}
    /\ news' = {i \in listed : seen[i] \in {"no", "today"}}
    /\ UNCHANGED <<scope, askVars, cache, rest, listed, rk, verdict, seen, through, toldVars>>

Load(c) == Compare(c, Recorded) /\ UNCHANGED unsure

\* What cannot be read is taken for not there: the table, a row, all after a row.
LoadFails(c) ==
    /\ DBFaults
    /\ \E rows \in SUBSET Recorded \ {Recorded} :
           Compare(c, rows) /\ unsure' = unsure \cup (listed \ rows)

\* INSERT OR IGNORE, whose error is dropped.
Mark(c, i) ==
    /\ apc[c] = "scan" /\ diff = "mark" /\ i \in todo
    /\ todo' = todo \ {i}
    /\ \/ /\ seen' = [seen EXCEPT ![i] = IF @ = "no" THEN markAs ELSE @]
          /\ UNCHANGED unsure
       \/ /\ DBFaults
          /\ unsure' = unsure \cup {i}
          /\ UNCHANGED seen
    /\ UNCHANGED <<scope, askVars, cache, rest, listed, rk, verdict, diff, markAs, news, through, shown, plain>>

Marked(c) ==
    /\ apc[c] = "scan" /\ diff = "mark" /\ todo = {}
    /\ diff' = "store"
    /\ UNCHANGED <<scope, askVars, cache, rest, listed, rk, verdict, markAs, todo, news, seen, through, toldVars>>

\* The result is stored, and answers everybody who asked for it meanwhile.
Store(c) ==
    /\ apc[c] = "scan" /\ diff = "store"
    /\ cache' = [cache EXCEPT ![lang[c]] = "fresh"]
    /\ after' = [d \in Callers |-> d # c /\ (after[d] \/ (apc[d] # "idle" /\ lang[d] = lang[c]))]
    /\ refresh' = [refresh EXCEPT ![c] = FALSE]
    /\ apc' = [apc EXCEPT ![c] = "idle"]
    /\ holder' = NoCaller
    /\ shown' = shown \cup listed
    /\ plain' = plain \cup (listed \ news)
    /\ rest' = FALSE /\ listed' = {} /\ rk' = "ifaces" /\ verdict' = "none" /\ diff' = "none"
    /\ markAs' = "today" /\ news' = {} /\ through' = {}
    /\ UNCHANGED <<scope, lang, todo, seen, unsure>>

----------------------------------------------------------------------------
(* Time, and the program's end *)

\* auditTTL.
Expire(l) ==
    /\ cache[l] = "fresh"
    /\ cache' = [cache EXCEPT ![l] = "old"]
    /\ UNCHANGED <<scope, askVars, scanVars, seen, through, toldVars>>

\* auditNewWindow.
AgesOut(i) ==
    /\ seen[i] = "today" /\ diff = "none"
    /\ seen' = [seen EXCEPT ![i] = "before"]
    /\ UNCHANGED <<scope, askVars, cache, scanVars, through, toldVars>>

\* A restart, while no capture runs.
Restart ==
    /\ \A s \in Sessions : Empty(s)
    /\ apc' = [c \in Callers |-> "idle"]
    /\ refresh' = [c \in Callers |-> FALSE]
    /\ after' = [c \in Callers |-> FALSE]
    /\ holder' = NoCaller
    /\ cache' = [l \in Langs |-> "none"]
    /\ rest' = FALSE /\ listed' = {} /\ rk' = "ifaces" /\ verdict' = "none" /\ diff' = "none"
    /\ markAs' = "today" /\ todo' = {} /\ news' = {} /\ through' = {}
    /\ unsure' = IF diff = "none" THEN unsure ELSE unsure \cup listed
    /\ UNCHANGED <<scope, lang, seen, shown, plain>>

ScanStep(c) ==
    \/ List(c) \/ ReadIfaces(c) \/ ReadActive(c) \/ ReadTools(c)
    \/ Load(c) \/ LoadFails(c) \/ (\E i \in Items : Mark(c, i)) \/ Marked(c) \/ Store(c)

AuditStep ==
    \/ \E c \in scope.callers : \/ \E l \in scope.langs, r \in BOOLEAN : Ask(c, l, r)
                                \/ Join(c) \/ Begin(c) \/ ScanStep(c)
    \/ \E l \in Langs : Expire(l)
    \/ \E i \in Items : AgesOut(i)
    \/ Restart

\* A tshark that is reaped is no longer there.
CaptureBeside ==
    /\ \E s \in scope.sessions : CaptureStep(s)
    /\ through' = {s \in through : tshark'[s] # "none"}
    /\ UNCHANGED <<scope, askVars, cache, scanVars, seen, toldVars>>

Next == (AuditStep /\ UNCHANGED captureVars) \/ CaptureBeside

\* auditRunMu is a Go mutex, which starves nobody; every command of a scan has a
\* time limit.
AuditFairness ==
    \A c \in Callers : WF_vars(ScanStep(c) /\ UNCHANGED captureVars)
                       /\ SF_vars((Join(c) \/ Begin(c)) /\ UNCHANGED captureVars)

Spec == AuditInit /\ [][Next]_vars

FairSpec == Spec /\ CaptureFairness /\ AuditFairness

----------------------------------------------------------------------------
(* Properties *)

(* A promiscuous interface is no warning while a capture of this program runs *)
(* from the look at the interfaces to the look at the processes; of one that *)
(* ends between these looks nothing is said, and it may be the reason of a   *)
(* warning (auditRootkit, captureActive, captureToolsRunning).              *)
FlagIsForeign == verdict = "warn" => through = {}

(* The first result that has anything marks nothing as new, and after it an  *)
(* item no result had is marked (applyAuditDiff).                           *)
NewIsTold ==
    diff = "store" =>
        /\ shown \cup unsure = {} => news = {}
        /\ shown \ unsure # {} => listed \ (shown \cup unsure) \subseteq news

(* What a result had without the mark never gets it later: not after it was  *)
(* gone, not from a scan in another language, not after a restart.          *)
NewIsNews == diff = "store" => news \cap plain \subseteq unsure

(* The mark tells new from known, over languages and restarts, of every item *)
(* that was compared with the whole table, recorded and shown; what failed   *)
(* of another item, at any time, does not show on it (applyAuditDiff).       *)
NewsAreTrue == NewIsTold /\ NewIsNews

(* Captures run to a complete end beside the scans that ask about them        *)
(* (streamCapture, handleCapture, captureActive).                           *)
AuditInv == AuditTypeOK /\ NoSendOnClosed /\ DoneIsComplete

(* Every request for the audit is answered, also when others keep asking for *)
(* scans (auditRunMu).                                                      *)
EveryAuditAnswered == \A c \in Callers : apc[c] # "idle" ~> apc[c] = "idle"
=============================================================================
