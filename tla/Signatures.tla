----------------------------- MODULE Signatures -----------------------------
(***************************************************************************)
(* Code signatures of binaries (checkSignatures, sigWorker and              *)
(* resolveSignatures of connections.go).  A render looks a path up in       *)
(* memory, then in SQLite, both by modification time, and leaves what it     *)
(* does not find to a queue; a worker drains the queue in batches, asks the  *)
(* platform about each, and stores the answers under the modification times  *)
(* it finds afterwards.                                                     *)
(* A file is a version: its modification time and its content.  The answer  *)
(* about a content is that version.                                         *)
(***************************************************************************)
EXTENDS Integers, Sequences, FiniteSets

CONSTANTS
    Paths, NoPath,
    Renders,        \* goroutines in analyzeConnections
    SigQueueCap,    \* capacity of sigQueue (4096)
    SigBatch,       \* sigBatch (32)
    MaxPathCache,   \* maxPathCache (8192)
    Changing,       \* bound on the paths whose file changes
    MaxVersion,     \* bound on the versions of a file
    MaxFaults       \* bound on queries and statements that fail and on restarts

ASSUME PathAssumption == NoPath \notin Paths /\ Changing \subseteq Paths
ASSUME SigAssumption ==
    /\ SigQueueCap \in Nat \ {0} /\ SigBatch \in Nat \ {0}
    /\ MaxPathCache \in Nat /\ MaxVersion \in Nat \ {0}
    /\ MaxFaults \in Nat

VARIABLES
    file, there,            \* the version at each path, and where there is a file
    sigCache, signatures,   \* in memory and in the table
    sigQueue, sigInProgress,
    rpc, rpath, rmtime, rsig, \* each render: place, path, what stat said, signature
    wpc, batch, todo,       \* the worker: place, batch, what it has yet to see to
    queried,                \* the answers about the batch
    swapped,                \* versions that appeared between the query and the
                            \* storing of their path (history)
    faultsLeft

fileVars == <<file, there, swapped>>
cacheVars == <<sigCache, signatures>>
queueVars == <<sigQueue, sigInProgress>>
renderVars == <<rpc, rpath, rmtime, rsig>>
workerVars == <<wpc, batch, todo, queried>>
sigVars == <<fileVars, cacheVars, queueVars, renderVars, workerVars, faultsLeft>>

Versions == 1 .. MaxVersion
NoFile == 0     \* the answer about a path without a file
Pending == -1   \* sigPendingStatus
NoSig == -2     \* no signature in the row
TimedOut == -3  \* Unmanaged, because the package manager did not answer

Answers == Versions \cup {NoFile, TimedOut}

NoEntry == [mtime |-> NoFile, sig |-> NoSig]
Entries == [mtime : Versions, sig : Answers] \cup {NoEntry}

Members(s) == {s[i] : i \in DOMAIN s}

SigTypeOK ==
    /\ file \in [Paths -> Versions] /\ there \subseteq Paths
    /\ swapped \subseteq Paths \X Versions
    /\ sigCache \in [Paths -> Entries] /\ signatures \in [Paths -> Entries]
    /\ sigQueue \in Seq(Paths) /\ Len(sigQueue) <= SigQueueCap
    /\ sigInProgress \subseteq Paths
    /\ rpc \in [Renders -> {"idle", "mem", "db", "fill", "enqueue", "send", "row", "save"}]
    /\ rpath \in [Renders -> Paths \cup {NoPath}]
    /\ rmtime \in [Renders -> Versions \cup {NoFile}]
    /\ rsig \in [Renders -> Answers \cup {Pending, NoSig}]
    /\ \A r \in Renders : rpc[r] = "idle" <=> rpath[r] = NoPath
    /\ wpc \in {"recv", "drain", "query", "store", "clear"}
    /\ batch \in Seq(Paths) /\ Len(batch) <= SigBatch
    /\ todo \subseteq Members(batch)
    /\ queried \in [Paths -> Answers \cup {NoSig}]
    /\ faultsLeft \in 0 .. MaxFaults

SigInit ==
    /\ file = [p \in Paths |-> 1] /\ there = Paths /\ swapped = {}
    /\ sigCache = [p \in Paths |-> NoEntry] /\ signatures = [p \in Paths |-> NoEntry]
    /\ sigQueue = <<>> /\ sigInProgress = {}
    /\ rpc = [r \in Renders |-> "idle"] /\ rpath = [r \in Renders |-> NoPath]
    /\ rmtime = [r \in Renders |-> NoFile] /\ rsig = [r \in Renders |-> NoSig]
    /\ wpc = "recv" /\ batch = <<>> /\ todo = {}
    /\ queried = [p \in Paths |-> NoSig]
    /\ faultsLeft = MaxFaults

----------------------------------------------------------------------------
\* A query, a statement or the process itself fails.
Fault == faultsLeft > 0 /\ faultsLeft' = faultsLeft - 1

----------------------------------------------------------------------------
(* The files *)

\* A file that appears has a modification time its path never had.
Replace(p) ==
    /\ p \in Changing /\ file[p] < MaxVersion
    /\ file' = [file EXCEPT ![p] = @ + 1]
    /\ there' = there \cup {p}
    /\ swapped' = IF queried[p] # NoSig THEN swapped \cup {<<p, file[p] + 1>>} ELSE swapped
    /\ UNCHANGED <<cacheVars, queueVars, renderVars, workerVars, faultsLeft>>

Delete(p) ==
    /\ p \in Changing \cap there /\ file[p] < MaxVersion
    /\ there' = there \ {p}
    /\ UNCHANGED <<file, swapped, cacheVars, queueVars, renderVars, workerVars,
                   faultsLeft>>

----------------------------------------------------------------------------
(* checkSignatures and enqueueSig, for one path of a render *)

Goto(r, label) == rpc' = [rpc EXCEPT ![r] = label]

Got(r, sig) == rsig' = [rsig EXCEPT ![r] = sig] /\ UNCHANGED <<rpath, rmtime>>

Stat(r, p) ==
    /\ rpc[r] = "idle"
    /\ rpath' = [rpath EXCEPT ![r] = p]
    /\ rsig' = [rsig EXCEPT ![r] = NoSig]
    /\ rmtime' = [rmtime EXCEPT ![r] = IF p \in there THEN file[p] ELSE NoFile]
    /\ Goto(r, IF p \in there THEN "mem" ELSE "row")
    /\ UNCHANGED <<fileVars, cacheVars, queueVars, workerVars, faultsLeft>>

\* Seeded bug for NothingOlder: the modification time is not compared.
LookInMemoryBlind(r) ==
    LET e == sigCache[rpath[r]] IN
    /\ rpc[r] = "mem"
    /\ IF e # NoEntry THEN Goto(r, "row") /\ Got(r, e.sig)
       ELSE Goto(r, "db") /\ UNCHANGED <<rpath, rmtime, rsig>>
    /\ UNCHANGED <<fileVars, cacheVars, queueVars, workerVars, faultsLeft>>

LookInMemory(r) ==
    LET e == sigCache[rpath[r]] IN
    /\ rpc[r] = "mem"
    /\ IF e.mtime = rmtime[r] THEN Goto(r, "row") /\ Got(r, e.sig)
       ELSE Goto(r, "db") /\ UNCHANGED <<rpath, rmtime, rsig>>
    /\ UNCHANGED <<fileVars, cacheVars, queueVars, workerVars, faultsLeft>>

\* A SELECT that fails passes for a miss (dbCachedSignature).
LookInTable(r) ==
    LET e == signatures[rpath[r]] IN
    /\ rpc[r] = "db"
    /\ \/ /\ e.mtime = rmtime[r] /\ UNCHANGED faultsLeft
          /\ Goto(r, "fill") /\ Got(r, e.sig)
       \/ /\ (e.mtime # rmtime[r] /\ UNCHANGED faultsLeft) \/ Fault
          /\ Goto(r, "enqueue") /\ Got(r, Pending)
    /\ UNCHANGED <<fileVars, cacheVars, queueVars, workerVars>>

\* Whatever the worker stored meanwhile is overwritten.
Fill(r) ==
    /\ rpc[r] = "fill"
    /\ sigCache' = [sigCache EXCEPT ![rpath[r]] = [mtime |-> rmtime[r], sig |-> rsig[r]]]
    /\ Goto(r, "row")
    /\ UNCHANGED <<fileVars, signatures, queueVars, rpath, rmtime, rsig, workerVars,
                   faultsLeft>>

\* sigInProgress.LoadOrStore.
Mark(r) ==
    /\ rpc[r] = "enqueue"
    /\ Goto(r, IF rpath[r] \in sigInProgress THEN "row" ELSE "send")
    /\ sigInProgress' = sigInProgress \cup {rpath[r]}
    /\ UNCHANGED <<fileVars, cacheVars, sigQueue, rpath, rmtime, rsig, workerVars,
                   faultsLeft>>

Send(r) ==
    /\ rpc[r] = "send"
    /\ Len(sigQueue) < SigQueueCap
    /\ sigQueue' = Append(sigQueue, rpath[r])
    /\ Goto(r, "row")
    /\ UNCHANGED <<fileVars, cacheVars, sigInProgress, rpath, rmtime, rsig, workerVars,
                   faultsLeft>>

\* Seeded bug for OneInProgress: the marker of what was never queued stays.
SendFullForgotten(r) ==
    /\ rpc[r] = "send"
    /\ Len(sigQueue) = SigQueueCap
    /\ Goto(r, "row")
    /\ UNCHANGED <<fileVars, cacheVars, queueVars, rpath, rmtime, rsig, workerVars,
                   faultsLeft>>

SendFull(r) ==
    /\ rpc[r] = "send"
    /\ Len(sigQueue) = SigQueueCap
    /\ sigInProgress' = sigInProgress \ {rpath[r]}
    /\ Goto(r, "row")
    /\ UNCHANGED <<fileVars, cacheVars, sigQueue, rpath, rmtime, rsig, workerVars,
                   faultsLeft>>

LookStep(r) ==
    \/ LookInMemory(r) \/ LookInTable(r) \/ Fill(r) \/ Mark(r) \/ Send(r) \/ SendFull(r)

----------------------------------------------------------------------------
(* sigWorker and resolveSignatures *)

Receive ==
    /\ wpc \in {"recv", "drain"}
    /\ sigQueue # <<>> /\ Len(batch) < SigBatch
    /\ batch' = Append(batch, Head(sigQueue))
    /\ sigQueue' = Tail(sigQueue)
    /\ wpc' = "drain"
    /\ UNCHANGED <<fileVars, cacheVars, sigInProgress, renderVars, todo, queried,
                   faultsLeft>>

Drained ==
    /\ wpc = "drain"
    /\ sigQueue = <<>> \/ Len(batch) = SigBatch
    /\ wpc' = "query"
    /\ todo' = Members(batch)
    /\ UNCHANGED <<fileVars, cacheVars, queueVars, renderVars, batch, queried,
                   faultsLeft>>

\* The batch is gone through in its order.
NextInBatch(p) ==
    /\ p \in todo
    /\ \E i \in DOMAIN batch : batch[i] = p /\ \A j \in 1 .. i - 1 : batch[j] \notin todo

\* The platform looks at the files one by one.  A package manager that does not end
\* in five seconds has said nothing, and the file passes for unmanaged (runCmd).
Query(p) ==
    /\ wpc = "query" /\ NextInBatch(p)
    /\ \/ /\ queried' = [queried EXCEPT ![p] = IF p \in there THEN file[p] ELSE NoFile]
          /\ UNCHANGED faultsLeft
       \/ Fault /\ queried' = [queried EXCEPT ![p] = TimedOut]
    /\ IF todo = {p} THEN wpc' = "store" /\ todo' = Members(batch)
       ELSE wpc' = "query" /\ todo' = todo \ {p}
    /\ UNCHANGED <<fileVars, cacheVars, queueVars, renderVars, batch>>

\* PowerShell did not start, or said nothing: no answer about any of the batch.
QueryFails ==
    /\ wpc = "query" /\ Fault
    /\ wpc' = "clear" /\ todo' = Members(batch)
    /\ queried' = [p \in Paths |-> NoSig]
    /\ UNCHANGED <<fileVars, cacheVars, queueVars, renderVars, batch>>

\* capMap.
Capped(cache) ==
    IF Cardinality({p \in Paths : cache[p] # NoEntry}) > MaxPathCache
    THEN [p \in Paths |-> NoEntry] ELSE cache

\* The stat, the write to memory and the one to the table, which may fail.  A
\* render that reads between the writes reads what it would have read before.
Store(p) ==
    LET e == [mtime |-> file[p], sig |-> queried[p]] IN
    /\ wpc = "store" /\ p \in todo
    /\ IF p \in there
       THEN /\ sigCache' = [Capped(sigCache) EXCEPT ![p] = e]
            /\ \/ signatures' = [signatures EXCEPT ![p] = e] /\ UNCHANGED faultsLeft
               \/ Fault /\ UNCHANGED signatures
       ELSE UNCHANGED <<cacheVars, faultsLeft>>
    /\ queried' = [queried EXCEPT ![p] = NoSig]
    /\ IF todo = {p} THEN wpc' = "clear" /\ todo' = Members(batch)
       ELSE wpc' = "store" /\ todo' = todo \ {p}
    /\ UNCHANGED <<fileVars, queueVars, renderVars, batch>>

Clear(p) ==
    /\ wpc = "clear" /\ NextInBatch(p)
    /\ sigInProgress' = sigInProgress \ {p}
    /\ IF todo = {p} THEN wpc' = "recv" /\ batch' = <<>> ELSE UNCHANGED <<wpc, batch>>
    /\ todo' = todo \ {p}
    /\ UNCHANGED <<fileVars, cacheVars, sigQueue, renderVars, queried, faultsLeft>>

SigWorkerStep ==
    \/ Receive \/ Drained \/ QueryFails
    \/ \E p \in Paths : Query(p) \/ Store(p) \/ Clear(p)

\* The process ends at any point; the next one has the table.
SigRestart ==
    /\ Fault
    /\ sigCache' = [p \in Paths |-> NoEntry]
    /\ sigQueue' = <<>> /\ sigInProgress' = {}
    /\ rpc' = [r \in Renders |-> "idle"] /\ rpath' = [r \in Renders |-> NoPath]
    /\ rmtime' = [r \in Renders |-> NoFile] /\ rsig' = [r \in Renders |-> NoSig]
    /\ wpc' = "recv" /\ batch' = <<>> /\ todo' = {}
    /\ queried' = [p \in Paths |-> NoSig]
    /\ UNCHANGED <<fileVars, signatures>>

----------------------------------------------------------------------------
(* Properties *)

\* A path is in the queue or in the batch once, and a path has its marker as long
\* as a render is about to queue it, the queue or the batch has it: nothing is
\* asked twice at once and no marker is left that keeps a path out for good
\* (enqueueSig, sigWorker).
OneInProgress ==
    /\ \A i, j \in DOMAIN sigQueue : sigQueue[i] = sigQueue[j] => i = j
    /\ \A i, j \in DOMAIN batch : batch[i] = batch[j] => i = j
    /\ LET inHand == IF wpc = "clear" THEN todo ELSE Members(batch)
           sending == {rpath[r] : r \in {q \in Renders : rpc[q] = "send"}}
       IN /\ Members(sigQueue) \cap inHand = {}
          /\ sigInProgress = Members(sigQueue) \cup inHand \cup sending

\* A render shows the signature of the file it saw, and so do the cache and the
\* table under each modification time, unless the platform did not answer about it or
\* that file came while the platform was being asked about its path:
\* resolveSignatures takes the time afterwards.
OfItsFile(p, mtime, sig) ==
    sig \in {mtime, Pending, NoSig, TimedOut} \/ <<p, mtime>> \in swapped

NothingOlder ==
    /\ \A p \in Paths, cache \in {sigCache, signatures} :
          cache[p] # NoEntry => OfItsFile(p, cache[p].mtime, cache[p].sig)
    /\ \A r \in Renders : rpc[r] # "idle" => OfItsFile(rpath[r], rmtime[r], rsig[r])
=============================================================================
