------------------------------ MODULE Monitor ------------------------------
(***************************************************************************)
(* The live monitor (monitorLoop): every three seconds it enumerates the    *)
(* connections, tells the difference from the last good enumeration as      *)
(* events, and judges the binary behind each new connection against the     *)
(* baseline in SQLite (baselineSeen).  Each event goes through publish,     *)
(* module EventFeed; a new connection may also start a goroutine that       *)
(* publishes a reputation alert later (alertOnIntel).  The machine opens    *)
(* and closes connections and replaces files meanwhile.                     *)
(***************************************************************************)
EXTENDS EventFeed

CONSTANTS
    Loop,       \* the publisher that is the monitor loop; the others are alerts
    Conns,      \* connection keys (connKey)
    Exes,
    ExeOf,      \* the binary behind each connection
    Contents,   \* hashes of files
    Unread,     \* the hash of a file that cannot be read, "?" in the table
    NoConn,
    MaxChanges, \* bound on what the machine does
    MaxRestarts \* bound on restarts of the process

ASSUME LoopAssumption == Loop \in Publishers
ASSUME ConnAssumption == NoConn \notin Conns /\ ExeOf \in [Conns -> Exes]
ASSUME UnreadAssumption == Unread \notin Contents
ASSUME MonitorBounds == MaxChanges \in Nat /\ MaxRestarts \in Nat

VARIABLES
    open, content,          \* the machine: connections, and what each path holds
    prev, snap,             \* the last good enumeration and the one being compared
    todo,                   \* connections the current range has still to visit
    mpc, cur,               \* where the loop is, and the connection it publishes
    task,                   \* the connection each alert goroutine looks into
    rows, paths,            \* baseline_hash, and the path-only baseline
    faulted,                \* contents whose row was not written, or not read when it was
                            \* there, because a statement failed (history)
    raised,                 \* the anomalies found, oldest first (history)
    feed,                   \* connections open according to the events (history)
    steady,                 \* those of them that have been open ever since (history)
    changesLeft, restartsLeft

world == <<open, content>>
loop == <<prev, snap, todo, mpc, cur>>
baseline == <<rows, paths, faulted, raised>>
history == <<feed, steady>>
bounds == <<changesLeft, restartsLeft>>
ownVars == <<world, loop, task, baseline, history, bounds>>
monitorVars == <<feedVars, ownVars>>

Alerts == Publishers \ {Loop}

Hashes == Contents \cup {Unread}

Judgements == {"seen", "new", "changed"}

MonitorEvents == [kind : {"open", "closed", "intel"}, conn : Conns, verdict : Judgements]

\* What is published is an event of the loop or of an alert.
ASSUME EventsAssumption == Events = MonitorEvents

MonitorTypeOK ==
    /\ FeedTypeOK
    /\ open \subseteq Conns /\ content \in [Exes -> Hashes]
    /\ prev \subseteq Conns /\ snap \subseteq Conns /\ todo \subseteq Conns
    /\ mpc \in {"first", "seed", "sleep", "new", "spawn", "closed"}
    /\ cur \in Conns \cup {NoConn}
    /\ mpc = "spawn" => cur \in Conns
    /\ task \in [Alerts -> Conns \cup {NoConn}]
    /\ rows \subseteq Exes \X Hashes /\ faulted \subseteq Exes \X Hashes
    /\ paths \subseteq Exes
    /\ raised \in Seq(Exes \X Hashes)
    /\ feed \subseteq Conns /\ steady \subseteq open
    /\ changesLeft \in 0 .. MaxChanges /\ restartsLeft \in 0 .. MaxRestarts

\* A first start: baseline_hash is empty, an earlier build may have left paths.
MonitorInit ==
    /\ FeedInit
    /\ open \in SUBSET Conns
    /\ content \in [Exes -> Hashes]
    /\ prev = {} /\ snap = {} /\ todo = {}
    /\ mpc = "first" /\ cur = NoConn
    /\ task = [t \in Alerts |-> NoConn]
    /\ rows = {} /\ paths \in SUBSET Exes /\ faulted = {} /\ raised = <<>>
    /\ feed = {} /\ steady = {}
    /\ changesLeft = MaxChanges /\ restartsLeft = MaxRestarts

----------------------------------------------------------------------------
(* The machine *)

Change ==
    /\ changesLeft > 0
    /\ changesLeft' = changesLeft - 1
    /\ UNCHANGED <<feedVars, loop, task, baseline, feed, restartsLeft>>

Opens(k) == Change /\ k \notin open /\ open' = open \cup {k} /\ UNCHANGED <<content, steady>>

Closes(k) ==
    /\ Change
    /\ k \in open
    /\ open' = open \ {k}
    /\ steady' = steady \ {k}
    /\ UNCHANGED content

Replaced(e, h) ==
    /\ Change
    /\ content[e] # h
    /\ content' = [content EXCEPT ![e] = h]
    /\ UNCHANGED <<open, steady>>

----------------------------------------------------------------------------
(* baselineSeen *)

PathKnown(e) == \E h \in Hashes : <<e, h>> \in rows

\* What a SELECT says of a row that is there or not: an error reads as no row.
Asked(there) == IF DBFaults THEN {there, FALSE} ELSE {there}

\* The answers of the three SELECTs: this content, this path, the path-only table.
Looks(e, h) ==
    [same : Asked(<<e, h>> \in rows), path : Asked(PathKnown(e)), legacy : Asked(e \in paths)]

NoClaim(l, h) == l.same \/ (l.path /\ h = Unread)

Verdict(l, h) ==
    IF NoClaim(l, h) THEN "seen"
    ELSE IF l.path THEN "changed"
    ELSE IF l.legacy THEN "seen"
    ELSE "new"

\* Seeded bug for OncePerContent: only the seeding at startup records.
RecordAtStart(l, e, h) ==
    IF mpc # "seed" THEN UNCHANGED <<rows, paths, faulted>>
    ELSE /\ rows' = rows \cup {<<e, h>>}
         /\ paths' = paths \cup {e}
         /\ UNCHANGED faulted

\* The two INSERTs, neither of which is looked at.  A row that is there was not read.
Record(l, e, h) ==
    IF NoClaim(l, h)
    THEN UNCHANGED <<rows, paths, faulted>>
    ELSE /\ \/ rows' = rows \cup {<<e, h>>} /\ faulted' = faulted \cup ({<<e, h>>} \cap rows)
            \/ DBFaults /\ faulted' = faulted \cup {<<e, h>>} /\ UNCHANGED rows
         /\ \/ paths' = paths \cup {e}
            \/ DBFaults /\ UNCHANGED paths

\* The whole of it, with its verdict.
baselineSeen(e, h, v) == \E l \in Looks(e, h) : v = Verdict(l, h) /\ Record(l, e, h)

----------------------------------------------------------------------------
(* The start of monitorLoop *)

\* A failed enumeration is tried again, and changes nothing: no action for it.
FirstSnapshot ==
    /\ mpc = "first"
    /\ prev' = open
    /\ feed' = open
    /\ steady' = open
    /\ todo' = open
    /\ mpc' = "seed"
    /\ UNCHANGED <<feedVars, world, snap, cur, task, baseline, bounds>>

\* describe finds the binary, unless its process has ended; the verdict of
\* baselineSeen is not used.
Seed(k) ==
    /\ mpc = "seed"
    /\ k \in todo
    /\ todo' = todo \ {k}
    /\ \/ \E v \in Judgements : baselineSeen(ExeOf[k], content[ExeOf[k]], v)
       \/ UNCHANGED <<rows, paths, faulted>>
    /\ UNCHANGED <<feedVars, world, prev, snap, mpc, cur, task, raised, history, bounds>>

Seeded ==
    /\ mpc = "seed"
    /\ todo = {}
    /\ mpc' = "sleep"
    /\ UNCHANGED <<feedVars, world, prev, snap, todo, cur, task, baseline, history, bounds>>

----------------------------------------------------------------------------
(* One round *)

\* Seeded bug for NoFalseNews: a failed enumeration passes for an empty one.
SnapshotAnyhow ==
    /\ mpc = "sleep"
    /\ snap' \in {open, {}}
    /\ todo' = snap' \ prev
    /\ mpc' = "new"
    /\ UNCHANGED <<feedVars, world, prev, cur, task, baseline, history, bounds>>

\* Seeded bug for StaysOpenIsTold: connections are told when the next round
\* still has them, against a prev that has moved on.
SnapshotForgets ==
    /\ mpc = "sleep"
    /\ snap' = open
    /\ prev' = open
    /\ todo' = snap' \ prev'
    /\ mpc' = "new"
    /\ UNCHANGED <<feedVars, world, cur, task, baseline, history, bounds>>

\* A good enumeration; a failed one leaves everything to the next round.
Snapshot ==
    /\ mpc = "sleep"
    /\ snap' = open
    /\ todo' = snap' \ prev
    /\ mpc' = "new"
    /\ UNCHANGED <<feedVars, world, prev, cur, task, baseline, history, bounds>>

OpenEvent(k, v) == [kind |-> "open", conn |-> k, verdict |-> v]
ClosedEvent(k)  == [kind |-> "closed", conn |-> k, verdict |-> "seen"]
IntelEvent(k)   == [kind |-> "intel", conn |-> k, verdict |-> "seen"]

\* One connection of snap that prev does not have, up to its publish.
Announce(k) ==
    LET e == ExeOf[k]  h == content[e] IN
    /\ mpc = "new"
    /\ k \in todo
    /\ \/ \E v \in Judgements :
          /\ baselineSeen(e, h, v)
          /\ BeginPublish(Loop, OpenEvent(k, v))
          /\ raised' = IF v = "seen" THEN raised
                       ELSE Append(raised, <<e, h>>)
       \/ /\ BeginPublish(Loop, OpenEvent(k, "seen"))     \* the process has ended
          /\ UNCHANGED baseline
    /\ todo' = todo \ {k}
    /\ cur' = k
    /\ mpc' = "spawn"
    /\ feed' = feed \cup {k}
    /\ steady' = steady \cup ({k} \cap open)
    /\ UNCHANGED <<world, prev, snap, task, bounds>>

After == mpc = "spawn" /\ ppc[Loop] = "idle"

\* publish has returned: go alertOnIntel for a public address, unless muted.
Spawn(t) ==
    /\ After
    /\ task[t] = NoConn
    /\ task' = [task EXCEPT ![t] = cur]
    /\ mpc' = "new"
    /\ cur' = NoConn
    /\ UNCHANGED <<feedVars, world, prev, snap, todo, baseline, history, bounds>>

NoSpawn ==
    /\ After
    /\ mpc' = "new"
    /\ cur' = NoConn
    /\ UNCHANGED <<feedVars, world, prev, snap, todo, task, baseline, history, bounds>>

AllNew ==
    /\ mpc = "new"
    /\ todo = {}
    /\ todo' = prev \ snap
    /\ mpc' = "closed"
    /\ UNCHANGED <<feedVars, world, prev, snap, cur, task, baseline, history, bounds>>

\* One connection of prev that snap does not have.
AnnounceClosed(k) ==
    /\ mpc = "closed"
    /\ k \in todo
    /\ BeginPublish(Loop, ClosedEvent(k))
    /\ todo' = todo \ {k}
    /\ feed' = feed \ {k}
    /\ UNCHANGED <<world, prev, snap, mpc, cur, task, baseline, steady, bounds>>

\* Seeded bug for FeedIsPrev: prev is assigned once, before the loop.
RoundDoneStale ==
    /\ mpc = "closed"
    /\ todo = {}
    /\ ppc[Loop] = "idle"
    /\ mpc' = "sleep"
    /\ UNCHANGED <<feedVars, world, prev, snap, todo, cur, task, baseline, history, bounds>>

RoundDone ==
    /\ mpc = "closed"
    /\ todo = {}
    /\ ppc[Loop] = "idle"
    /\ prev' = snap
    /\ mpc' = "sleep"
    /\ UNCHANGED <<feedVars, world, snap, todo, cur, task, baseline, history, bounds>>

----------------------------------------------------------------------------
(* alertOnIntel: enrichIP has answered *)

Alert(t) ==
    /\ task[t] # NoConn
    /\ BeginPublish(t, IntelEvent(task[t]))
    /\ task' = [task EXCEPT ![t] = NoConn]
    /\ UNCHANGED <<world, loop, baseline, history, bounds>>

NoReason(t) ==
    /\ task[t] # NoConn
    /\ task' = [task EXCEPT ![t] = NoConn]
    /\ UNCHANGED <<feedVars, world, loop, baseline, history, bounds>>

----------------------------------------------------------------------------

MonitorRestart ==
    /\ restartsLeft > 0
    /\ restartsLeft' = restartsLeft - 1
    /\ FeedRestart
    /\ prev' = {} /\ snap' = {} /\ todo' = {}
    /\ mpc' = "first" /\ cur' = NoConn
    /\ task' = [t \in Alerts |-> NoConn]
    /\ feed' = {} /\ steady' = {}
    /\ UNCHANGED <<world, baseline, changesLeft>>

LoopStep ==
    \/ FirstSnapshot \/ Seeded \/ Snapshot \/ NoSpawn \/ AllNew \/ RoundDone
    \/ \E k \in Conns : Seed(k) \/ Announce(k) \/ AnnounceClosed(k)
    \/ \E t \in Alerts : Spawn(t)

\* Publishes go on.  Browsers never hold one up (PublishEnds of EventFeed), so
\* none is subscribed here.
FeedStep == \E p \in Publishers : PublishStep(p)

MonitorNext ==
    \/ LoopStep
    \/ \E t \in Alerts : Alert(t) \/ NoReason(t)
    \/ FeedStep /\ UNCHANGED ownVars
    \/ \E k \in Conns : Opens(k) \/ Closes(k)
    \/ \E e \in Exes, h \in Hashes : Replaced(e, h)
    \/ MonitorRestart

MonitorSpec == MonitorInit /\ [][MonitorNext]_monitorVars

\* Goroutines run, an enumeration succeeds sooner or later, and a publisher gets
\* subsMu (EventFeed).
MonitorLiveSpec ==
    /\ MonitorSpec
    /\ WF_monitorVars(LoopStep)
    /\ \A p \in Publishers : /\ WF_monitorVars(PublishStep(p) /\ UNCHANGED ownVars)
                            /\ SF_monitorVars(Lock(p) /\ UNCHANGED ownVars)

----------------------------------------------------------------------------
(* Properties *)

Telling(kind, k) ==
    ppc[Loop] = "idle" /\ ppc'[Loop] = "log" /\ pev'[Loop].kind = kind /\ pev'[Loop].conn = k

\* No connection that has been open all along is told as new or as closed,
\* failed enumerations and concurrent alerts or not (monitorLoop: a failed one
\* "must not stand in for nothing was open").
NoFalseNews ==
    [][\A k \in steady : ~Telling("open", k) /\ ~Telling("closed", k)]_monitorVars

\* Between rounds the events add up to the last enumeration: each connection
\* is told open and closed in turn, and none is left behind.
FeedIsPrev == mpc = "sleep" => feed = prev

\* A content of a path is an anomaly once at most, over every restart and
\* every way back to it, unless its row could not be written, or could not be read
\* when it was there: the three SELECTs take an error for an empty answer and the
\* INSERTs drop theirs (baselineSeen).
OncePerContent ==
    \A i, j \in DOMAIN raised : i # j /\ raised[i] = raised[j] => raised[i] \in faulted

\* The alert of a goroutine comes after the event of its connection.
IntelFollowsNews ==
    \A i \in DOMAIN log : log[i].kind = "intel" =>
        \/ \E j \in 1 .. i - 1 : log[j].kind = "open" /\ log[j].conn = log[i].conn
        \/ \E e \in unlogged : e.kind = "open" /\ e.conn = log[i].conn

\* What the timeline says of the connections is what was enumerated, in the order
\* of its causes (monitorLoop, alertOnIntel).
MonitorInv == MonitorTypeOK /\ FeedIsPrev /\ IntelFollowsNews

\* A connection that stays open is told, or was there at the start.
StaysOpenIsTold == \A k \in Conns : k \in open ~> k \in feed \/ k \notin open
=============================================================================
