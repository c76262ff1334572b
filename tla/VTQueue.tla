------------------------------ MODULE VTQueue ------------------------------
(***************************************************************************)
(* Resolution of file hashes against VirusTotal (vt.go, analyzeExe).  A    *)
(* page render that finds no verdict marks the hash as pending and offers  *)
(* it to a bounded queue; one background worker takes it from there, waits *)
(* for a token, asks, stores the verdict in SQLite and clears the marker.  *)
(* The lookups of IPs take from the same bucket without waiting (vtIP).    *)
(***************************************************************************)
EXTENDS RateLimit, Sequences, FiniteSets

CONSTANTS
    Hashes, NoHash,
    Known,          \* hashes VirusTotal has a report on
    Has404,         \* hashes whose hexadecimal digits contain "404"
    Renderers,      \* concurrent hash lookups of page renders
    QueueCap,       \* capacity of vtQueue (4000)
    MaxErrors,      \* bound on failed requests and failed statements
    MaxRestarts     \* bound on restarts of the process

ASSUME HashAssumption == NoHash \notin Hashes /\ Known \subseteq Hashes /\ Has404 \subseteq Hashes
ASSUME QueueAssumption == QueueCap \in Nat
ASSUME BudgetAssumption == MaxErrors \in Nat /\ MaxRestarts \in Nat

VARIABLES
    key,        \* a VirusTotal key is configured; never taken back while running
    cache,      \* the table hashes
    queue,      \* vtQueue
    pending,    \* vtPending
    rpc, rhash, \* each render's progress through analyzeExe and its hash
    wpc, whash, \* the worker's
    errLeft, restartsLeft

qVars == <<key, cache, queue, pending, rpc, rhash, wpc, whash, errLeft, restartsLeft>>
vtVars == <<level, qVars>>

Verdicts == {"none", "verdict", "NOT_IN_VT"}

QTypeOK ==
    /\ RateTypeOK
    /\ key \in BOOLEAN
    /\ cache \in [Hashes -> Verdicts]
    /\ queue \in Seq(Hashes) /\ Len(queue) <= QueueCap
    /\ pending \subseteq Hashes
    /\ rpc \in [Renderers -> {"idle", "missed", "marked"}]
    /\ rhash \in [Renderers -> Hashes \cup {NoHash}]
    /\ \A r \in Renderers : rpc[r] # "idle" => rhash[r] \in Hashes
    /\ wpc \in {"recv", "token", "ask", "unmark"}
    /\ whash \in Hashes \cup {NoHash}
    /\ wpc # "recv" => whash \in Hashes
    /\ errLeft \in 0 .. MaxErrors
    /\ restartsLeft \in 0 .. MaxRestarts

QInit ==
    /\ RateInit
    /\ key \in BOOLEAN
    /\ cache = [h \in Hashes |-> "none"]
    /\ queue = <<>>
    /\ pending = {}
    /\ rpc = [r \in Renderers |-> "idle"]
    /\ rhash = [r \in Renderers |-> NoHash]
    /\ wpc = "recv"
    /\ whash = NoHash
    /\ errLeft = MaxErrors
    /\ restartsLeft = MaxRestarts

----------------------------------------------------------------------------
(* analyzeExe and enqueueHash *)

\* A statement or a request fails.
Fails == errLeft > 0 /\ errLeft' = errLeft - 1

\* No verdict in the table, or none that can be read (dbCachedHash takes an error
\* for an empty answer), and a key to ask with.  The other answers of analyzeExe
\* change nothing.
CacheMiss(r, h) ==
    /\ rpc[r] = "idle"
    /\ (cache[h] = "none" /\ UNCHANGED errLeft) \/ Fails
    /\ key
    /\ rpc' = [rpc EXCEPT ![r] = "missed"]
    /\ rhash' = [rhash EXCEPT ![r] = h]
    /\ UNCHANGED <<level, key, cache, queue, pending, wpc, whash, restartsLeft>>

Rendered(r) ==
    /\ rpc' = [rpc EXCEPT ![r] = "idle"]
    /\ rhash' = [rhash EXCEPT ![r] = NoHash]

\* vtPending.LoadOrStore found a marker: somebody is at it.
AlreadyPending(r) ==
    /\ rpc[r] = "missed"
    /\ rhash[r] \in pending
    /\ Rendered(r)
    /\ UNCHANGED <<level, key, cache, queue, pending, wpc, whash, errLeft, restartsLeft>>

\* Seeded bug for OneCarrier: the marker is loaded and stored in two calls.
MarkBlind(r) ==
    /\ rpc[r] = "missed"
    /\ pending' = pending \cup {rhash[r]}
    /\ rpc' = [rpc EXCEPT ![r] = "marked"]
    /\ UNCHANGED <<level, key, cache, queue, rhash, wpc, whash, errLeft, restartsLeft>>

Mark(r) ==
    /\ rpc[r] = "missed"
    /\ rhash[r] \notin pending
    /\ pending' = pending \cup {rhash[r]}
    /\ rpc' = [rpc EXCEPT ![r] = "marked"]
    /\ UNCHANGED <<level, key, cache, queue, rhash, wpc, whash, errLeft, restartsLeft>>

Send(r) ==
    /\ rpc[r] = "marked"
    /\ Len(queue) < QueueCap
    /\ queue' = Append(queue, rhash[r])
    /\ Rendered(r)
    /\ UNCHANGED <<level, key, cache, pending, wpc, whash, errLeft, restartsLeft>>

\* The queue is full: the marker goes, a later render tries again.
SendFull(r) ==
    /\ rpc[r] = "marked"
    /\ Len(queue) >= QueueCap
    /\ pending' = pending \ {rhash[r]}
    /\ Rendered(r)
    /\ UNCHANGED <<level, key, cache, queue, wpc, whash, errLeft, restartsLeft>>

----------------------------------------------------------------------------
(* vtWorker and resolveHash *)

Recv ==
    /\ wpc = "recv"
    /\ queue # <<>>
    /\ whash' = Head(queue)
    /\ queue' = Tail(queue)
    /\ wpc' = "token"
    /\ UNCHANGED <<level, key, cache, pending, rpc, rhash, errLeft, restartsLeft>>

\* Seeded bug for QueuedIsResolved: one look at the bucket instead of a loop.
TokenOrSkip ==
    /\ wpc = "token"
    /\ IF level >= Cost THEN Grant /\ wpc' = "ask" ELSE wpc' = "unmark" /\ UNCHANGED level
    /\ UNCHANGED <<key, cache, queue, pending, rpc, rhash, whash, errLeft, restartsLeft>>

\* The allow that ends the loop; the refused ones change nothing.
TakeToken ==
    /\ wpc = "token"
    /\ Grant
    /\ wpc' = "ask"
    /\ UNCHANGED <<key, cache, queue, pending, rpc, rhash, whash, errLeft, restartsLeft>>

Resolved(v) ==
    /\ cache' = [cache EXCEPT ![whash] = v]
    /\ wpc' = "unmark"
    /\ UNCHANGED <<level, key, queue, pending, rpc, rhash, whash, restartsLeft>>

\* Status 200 or status 404.  There is a key: without one nothing was queued.
Answered ==
    /\ wpc = "ask"
    /\ Resolved(IF whash \in Known THEN "verdict" ELSE "NOT_IN_VT")
    /\ UNCHANGED errLeft

\* The same, and the INSERT of dbSaveHash fails: its error is dropped.
Unsaved ==
    /\ wpc = "ask"
    /\ Fails
    /\ Resolved(cache[whash])

\* Another status or a transport error.  The text of a transport error quotes
\* the URL, hash and all, and the code looks for "404" anywhere in the text.
Failed ==
    /\ wpc = "ask"
    /\ Fails
    /\ \/ Resolved(cache[whash])
       \/ whash \in Has404 /\ Resolved("NOT_IN_VT")

Unmark ==
    /\ wpc = "unmark"
    /\ pending' = pending \ {whash}
    /\ wpc' = "recv"
    /\ whash' = NoHash
    /\ UNCHANGED <<level, key, cache, queue, rpc, rhash, errLeft, restartsLeft>>

----------------------------------------------------------------------------
(* The rest of the program *)

\* vtIP, inside some enrichIP: as often as there is a token, without waiting.
IPLookup ==
    /\ key
    /\ Grant
    /\ UNCHANGED <<key, cache, queue, pending, rpc, rhash, wpc, whash, errLeft, restartsLeft>>

\* updateSettings: a blank key leaves the old one.
SetKey ==
    /\ ~key
    /\ key' = TRUE
    /\ UNCHANGED <<level, cache, queue, pending, rpc, rhash, wpc, whash, errLeft, restartsLeft>>

TimePasses == level < Cap /\ Rise /\ UNCHANGED qVars

\* Queue, markers and bucket live in memory, the verdicts in SQLite.
Restart ==
    /\ restartsLeft > 0
    /\ restartsLeft' = restartsLeft - 1
    /\ level' = Cap
    /\ queue' = <<>>
    /\ pending' = {}
    /\ rpc' = [r \in Renderers |-> "idle"]
    /\ rhash' = [r \in Renderers |-> NoHash]
    /\ wpc' = "recv"
    /\ whash' = NoHash
    /\ UNCHANGED <<key, cache, errLeft>>

RenderStep(r) == AlreadyPending(r) \/ Mark(r) \/ Send(r) \/ SendFull(r)
WorkerStep == Recv \/ TakeToken \/ Answered \/ Unsaved \/ Failed \/ Unmark

QNext ==
    \/ \E r \in Renderers : RenderStep(r) \/ \E h \in Hashes : CacheMiss(r, h)
    \/ WorkerStep
    \/ IPLookup \/ SetKey \/ TimePasses \/ Restart

QSpec == QInit /\ [][QNext]_vtVars

\* Goroutines run and time passes; renders, settings and restarts need not come.
QFairness ==
    /\ \A r \in Renderers : WF_vtVars(RenderStep(r))
    /\ WF_vtVars(WorkerStep)
    /\ WF_vtVars(TimePasses)

QLiveSpec == QSpec /\ QFairness

----------------------------------------------------------------------------
(* Properties *)

Queued(h) == \E i \in DOMAIN queue : queue[i] = h
AtWorker(h) == wpc # "recv" /\ whash = h
Offered(r, h) == rpc[r] = "marked" /\ rhash[r] = h

\* A hash in the queue, at the worker or about to be sent has its marker and
\* is in that one place only: it is never resolved twice for one enqueue.
MarkedOnce ==
    /\ \A h \in Hashes : Queued(h) \/ AtWorker(h) \/ (\E r \in Renderers : Offered(r, h))
                            => h \in pending
    /\ \A i, j \in DOMAIN queue : queue[i] = queue[j] => i = j
    /\ \A h \in Hashes : ~(Queued(h) /\ AtWorker(h))
    /\ \A r \in Renderers, h \in Hashes : Offered(r, h) =>
          /\ ~Queued(h) /\ ~AtWorker(h)
          /\ \A s \in Renderers : Offered(s, h) => s = r

\* A marker stands for a hash that is somewhere in the pipeline: none is left
\* behind to keep its hash PENDING until the next restart.
MarkedMoves ==
    \A h \in pending : Queued(h) \/ AtWorker(h) \/ \E r \in Renderers : Offered(r, h)

\* The pending set, the queue and the worker agree, full queue or not
\* (enqueueHash, vtWorker).
OneCarrier == MarkedOnce /\ MarkedMoves

\* NOT_IN_VT is cached only for a file VirusTotal does not know, except for the
\* hashes whose digits can pass for the status.
AbsentIsTrue == \A h \in Hashes \ Has404 : cache[h] = "NOT_IN_VT" => h \notin Known

\* So a hash is asked about once at a time, whatever comes in between, and what is
\* cached of it is what VirusTotal said (enqueueHash, vtWorker, resolveHash).
QueueInv == QTypeOK /\ OneCarrier /\ AbsentIsTrue

\* Once nothing fails any more and the process stays up, what is in the queue gets
\* its verdict, provided the IP lookups on the same bucket cease some time.  While
\* they last the code owes the worker nothing: it looks once a second, and vtIP may
\* have every token before (vtWorker, vtIP).
QueuedIsResolved ==
    <>[][~IPLookup]_vtVars =>
        \A h \in Hashes : Queued(h) /\ errLeft = 0 /\ restartsLeft = 0 ~> cache[h] # "none"
=============================================================================
