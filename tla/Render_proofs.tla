---------------------------- MODULE Render_proofs ----------------------------
(***************************************************************************)
(* For any paths, renders, queue, batch and cache: what is queued, asked     *)
(* about and marked agrees, no signature is of an older file than the one it *)
(* is shown for, and the risk timeline is a log of changes.                  *)
(***************************************************************************)
EXTENDS MCRender, SequenceTheorems, TLAPS

(* Sequences without repetition *)

OnceEach(s) == \A i, j \in DOMAIN s : s[i] = s[j] => i = j

\* What is appended is a member, and the only new one.
LEMMA Put ==
    ASSUME NEW s \in Seq(Paths), NEW p \in Paths
    PROVE  /\ Append(s, p) \in Seq(Paths)
           /\ Len(s) \in Nat /\ Len(Append(s, p)) = Len(s) + 1
           /\ Members(Append(s, p)) = Members(s) \cup {p}
           /\ OnceEach(s) /\ p \notin Members(s) => OnceEach(Append(s, p))
<1>1. /\ Append(s, p) \in Seq(Paths) /\ Len(s) \in Nat /\ Len(Append(s, p)) = Len(s) + 1
      /\ DOMAIN s = 1 .. Len(s) /\ DOMAIN Append(s, p) = 1 .. Len(s) + 1
      /\ \A i \in 1 .. Len(s) : Append(s, p)[i] = s[i]
      /\ Append(s, p)[Len(s) + 1] = p
  BY AppendProperties, LenProperties
<1>2. Members(Append(s, p)) = Members(s) \cup {p}
  <2>1. \A i \in 1 .. Len(s) + 1 : i \in 1 .. Len(s) \/ i = Len(s) + 1
    BY <1>1
  <2>2. 1 .. Len(s) \subseteq 1 .. Len(s) + 1 /\ Len(s) + 1 \in 1 .. Len(s) + 1
    BY <1>1
  <2> QED BY <1>1, <2>1, <2>2 DEF Members
<1>3. ASSUME OnceEach(s), p \notin Members(s) PROVE OnceEach(Append(s, p))
  <2>1. \A i \in 1 .. Len(s) + 1 : i \in 1 .. Len(s) \/ i = Len(s) + 1
    BY <1>1
  <2>2. \A i \in 1 .. Len(s) : s[i] # p
    BY <1>1, <1>3 DEF Members
  <2> QED BY <1>1, <1>3, <2>1, <2>2 DEF OnceEach
<1> QED BY <1>1, <1>2, <1>3

\* What is taken is the first, and the others stay.
LEMMA Taken ==
    ASSUME NEW s \in Seq(Paths), s # <<>>
    PROVE  /\ Head(s) \in Paths /\ Head(s) \in Members(s)
           /\ Tail(s) \in Seq(Paths) /\ Len(s) \in Nat /\ Len(Tail(s)) = Len(s) - 1
           /\ OnceEach(s) => OnceEach(Tail(s)) /\ Members(Tail(s)) = Members(s) \ {Head(s)}
<1>1. /\ Head(s) = s[1] /\ Head(s) \in Paths
      /\ Tail(s) \in Seq(Paths) /\ Len(s) \in Nat \ {0} /\ Len(Tail(s)) = Len(s) - 1
      /\ DOMAIN s = 1 .. Len(s) /\ DOMAIN Tail(s) = 1 .. Len(s) - 1
      /\ \A i \in 1 .. Len(s) - 1 : Tail(s)[i] = s[i + 1]
  BY HeadTailProperties, LenProperties, EmptySeq
<1>2. 1 \in 1 .. Len(s) /\ Head(s) \in Members(s)
  BY <1>1 DEF Members
<1>3. \A i \in 1 .. Len(s) - 1 : i + 1 \in 1 .. Len(s) /\ i + 1 # 1
  BY <1>1
<1>4. ASSUME OnceEach(s) PROVE OnceEach(Tail(s))
  <2>1. \A i, j \in 1 .. Len(s) - 1 : i + 1 = j + 1 => i = j
    BY <1>1
  <2> QED BY <1>1, <1>3, <1>4, <2>1 DEF OnceEach
<1>5. ASSUME OnceEach(s) PROVE Members(Tail(s)) = Members(s) \ {Head(s)}
  <2>1. \A i \in 1 .. Len(s) - 1 : s[i + 1] \in Members(s) /\ s[i + 1] # s[1]
    BY <1>1, <1>2, <1>3, <1>5 DEF Members, OnceEach
  <2>2. \A j \in 1 .. Len(s) : j # 1 => j - 1 \in 1 .. Len(s) - 1 /\ j = (j - 1) + 1
    BY <1>1
  <2>3. ASSUME NEW p \in Members(s), p # Head(s) PROVE p \in Members(Tail(s))
    <3>1. PICK j \in 1 .. Len(s) : p = s[j]
      BY <1>1, <2>3 DEF Members
    <3>2. j # 1 /\ j - 1 \in 1 .. Len(s) - 1 /\ j = (j - 1) + 1
      BY <1>1, <2>2, <2>3, <3>1
    <3>3. Tail(s)[j - 1] = p
      BY <1>1, <3>1, <3>2
    <3> QED BY <1>1, <3>2, <3>3 DEF Members
  <2>4. ASSUME NEW p \in Members(Tail(s)) PROVE p \in Members(s) /\ p # Head(s)
    <3>1. PICK i \in 1 .. Len(s) - 1 : p = Tail(s)[i]
      BY <1>1, <2>4 DEF Members
    <3> QED BY <1>1, <2>1, <3>1
  <2> QED BY <2>3, <2>4
<1> QED BY <1>1, <1>2, <1>4, <1>5

\* The members of a sequence of paths are paths.
LEMMA MembersArePaths ==
    ASSUME NEW s \in Seq(Paths)
    PROVE  Members(s) \subseteq Paths
BY LenProperties DEF Members

\* Nothing is in the empty sequence.
LEMMA NoMembers == <<>> \in Seq(Paths) /\ Len(<<>>) = 0 /\ Members(<<>>) = {} /\ OnceEach(<<>>)
<1>1. <<>> \in Seq(Paths) /\ Len(<<>>) = 0
  BY EmptySeq
<1>2. DOMAIN <<>> = {}
  OBVIOUS
<1> QED BY <1>1, <1>2 DEF Members, OnceEach

-----------------------------------------------------------------------------
(* Types, and what each place of a render and of the worker knows *)

FilesTyped ==
    /\ file \in [Paths -> Versions] /\ there \subseteq Paths
    /\ swapped \subseteq Paths \X Versions

CachesTyped == sigCache \in [Paths -> Entries] /\ signatures \in [Paths -> Entries]

QueueTyped ==
    /\ sigQueue \in Seq(Paths) /\ Len(sigQueue) <= SigQueueCap
    /\ sigInProgress \subseteq Paths

\* A render that looks a path up has seen a file there; what it copies from the
\* table to memory is an answer.
RowsTyped ==
    /\ rpc \in [Renders -> {"idle", "mem", "db", "fill", "enqueue", "send", "row", "save"}]
    /\ rpath \in [Renders -> Paths \cup {NoPath}]
    /\ rmtime \in [Renders -> Versions \cup {NoFile}]
    /\ rsig \in [Renders -> Answers \cup {Pending, NoSig}]
    /\ \A r \in Renders :
          /\ rpc[r] = "idle" <=> rpath[r] = NoPath
          /\ rpc[r] \in {"mem", "db", "fill", "enqueue", "send"} => rmtime[r] \in Versions
          /\ rpc[r] = "fill" => rsig[r] \in Answers

\* What is stored has been answered.
WorkerTyped ==
    /\ wpc \in {"recv", "drain", "query", "store", "clear"}
    /\ batch \in Seq(Paths) /\ Len(batch) <= SigBatch
    /\ todo \subseteq Members(batch)
    /\ queried \in [Paths -> Answers \cup {NoSig}]
    /\ wpc = "query" => \A p \in Members(batch) \ todo : queried[p] # NoSig
    /\ wpc = "store" => \A p \in todo : queried[p] # NoSig

SInv ==
    /\ FilesTyped /\ CachesTyped /\ QueueTyped /\ RowsTyped /\ WorkerTyped
    /\ faultsLeft \in 0 .. MaxFaults

\* None of it depends on anything else.
LEMMA SigRests ==
    ASSUME SInv
    PROVE  /\ SigTypeOK
           /\ UNCHANGED fileVars => FilesTyped'
           /\ UNCHANGED cacheVars => CachesTyped'
           /\ UNCHANGED queueVars => QueueTyped'
           /\ UNCHANGED renderVars => RowsTyped'
           /\ UNCHANGED workerVars => WorkerTyped'
<1> USE DEF SInv, FilesTyped, CachesTyped, QueueTyped, RowsTyped, WorkerTyped
<1>1. SigTypeOK
  BY DEF SigTypeOK
<1>2. UNCHANGED fileVars => FilesTyped'
  BY DEF fileVars
<1>3. UNCHANGED cacheVars => CachesTyped'
  BY DEF cacheVars
<1>4. UNCHANGED queueVars => QueueTyped'
  BY DEF queueVars
<1>5. UNCHANGED renderVars => RowsTyped'
  BY DEF renderVars
<1>6. UNCHANGED workerVars => WorkerTyped'
  BY DEF workerVars
<1> QED BY <1>1, <1>2, <1>3, <1>4, <1>5, <1>6

\* What fails is counted.
LEMMA FaultTyped ==
    ASSUME SInv, Fault
    PROVE  faultsLeft' \in 0 .. MaxFaults
BY SigAssumption DEF Fault, SInv

\* Everything but the fields of one render rests while it looks its path up, and
\* an entry under a version is an answer (checkSignatures, enqueueSig).
LEMMA LookTyped ==
    ASSUME SInv, NEW r \in Renders, LookStep(r)
    PROVE  SInv'
<1> USE PathAssumption, SigAssumption
<1>0. /\ UNCHANGED <<fileVars, workerVars, rpath, rmtime>>
      /\ rpc[r] \in {"mem", "db", "fill", "enqueue", "send"}
      /\ rpath[r] \in Paths /\ rmtime[r] \in Versions
  <2>1. /\ UNCHANGED <<fileVars, workerVars, rpath, rmtime>>
        /\ rpc[r] \in {"mem", "db", "fill", "enqueue", "send"}
    BY DEF LookStep, LookInMemory, LookInTable, Fill, Mark, Send, SendFull, Got
  <2> QED BY <2>1 DEF SInv, RowsTyped
<1>1. FilesTyped' /\ WorkerTyped' /\ faultsLeft' \in 0 .. MaxFaults
  <2>1. faultsLeft' = faultsLeft \/ Fault
    BY DEF LookStep, LookInMemory, LookInTable, Fill, Mark, Send, SendFull
  <2>2. faultsLeft' \in 0 .. MaxFaults
    BY <2>1, FaultTyped DEF SInv
  <2> QED BY <1>0, <2>2, SigRests DEF SInv
<1>2. ASSUME NEW e \in Entries, e.mtime = rmtime[r]
      PROVE  e.sig \in Answers
  <2>1. e # NoEntry
    BY <1>0, <1>2 DEF NoEntry, Versions, NoFile
  <2> QED BY <2>1 DEF Entries
<1>3. ASSUME NEW label \in {"db", "fill", "enqueue", "send", "row"}, Goto(r, label),
             NEW sig \in Answers \cup {Pending, NoSig},
             rsig' = [rsig EXCEPT ![r] = sig],
             label = "fill" => sig \in Answers
      PROVE  RowsTyped'
  BY <1>0, <1>3 DEF SInv, RowsTyped, Goto
<1>4. ASSUME NEW label \in {"db", "enqueue", "send", "row"}, Goto(r, label), UNCHANGED rsig
      PROVE  RowsTyped'
  BY <1>0, <1>4 DEF SInv, RowsTyped, Goto
<1>5. CASE LookInMemory(r)
  <2>1. RowsTyped'
    <3>1. CASE sigCache[rpath[r]].mtime = rmtime[r]
      <4>1. sigCache[rpath[r]] \in Entries
        BY <1>0 DEF SInv, CachesTyped
      <4>2. sigCache[rpath[r]].sig \in Answers
        BY <1>2, <3>1, <4>1
      <4>3. Goto(r, "row") /\ rsig' = [rsig EXCEPT ![r] = sigCache[rpath[r]].sig]
        BY <1>5, <3>1 DEF LookInMemory, Got
      <4> QED BY <1>3, <4>2, <4>3
    <3>2. CASE sigCache[rpath[r]].mtime # rmtime[r]
      BY <1>4, <1>5, <3>2 DEF LookInMemory
    <3> QED BY <3>1, <3>2
  <2> QED BY <1>1, <1>5, <2>1, SigRests DEF SInv, LookInMemory
<1>6. CASE LookInTable(r)
  <2>1. RowsTyped'
    <3> DEFINE e == signatures[rpath[r]]
    <3>1. CASE e.mtime = rmtime[r] /\ Goto(r, "fill") /\ rsig' = [rsig EXCEPT ![r] = e.sig]
      <4>1. e \in Entries
        BY <1>0 DEF SInv, CachesTyped
      <4>2. e.sig \in Answers
        BY <1>2, <3>1, <4>1
      <4> QED BY <1>3, <3>1, <4>2
    <3>2. CASE Goto(r, "enqueue") /\ rsig' = [rsig EXCEPT ![r] = Pending]
      BY <1>3, <3>2
    <3> QED BY <1>6, <3>1, <3>2 DEF LookInTable, Got
  <2> QED BY <1>1, <1>6, <2>1, SigRests DEF SInv, LookInTable
<1>7. CASE Fill(r)
  <2>1. [mtime |-> rmtime[r], sig |-> rsig[r]] \in Entries
    BY <1>0, <1>7 DEF Fill, SInv, RowsTyped, Entries
  <2>2. CachesTyped'
    BY <1>7, <2>1 DEF Fill, SInv, CachesTyped
  <2> QED BY <1>1, <1>4, <1>7, <2>2, SigRests DEF SInv, Fill
<1>8. CASE Mark(r)
  <2>1. RowsTyped'
    BY <1>4, <1>8 DEF Mark
  <2>2. QueueTyped'
    BY <1>0, <1>8 DEF Mark, SInv, QueueTyped
  <2> QED BY <1>1, <1>8, <2>1, <2>2, SigRests DEF SInv, Mark
<1>9. CASE Send(r)
  <2>1. QueueTyped'
    BY <1>0, <1>9, Put DEF Send, SInv, QueueTyped
  <2> QED BY <1>1, <1>4, <1>9, <2>1, SigRests DEF SInv, Send
<1>10. CASE SendFull(r)
  <2>1. QueueTyped'
    BY <1>0, <1>10 DEF SendFull, SInv, QueueTyped
  <2> QED BY <1>1, <1>4, <1>10, <2>1, SigRests DEF SInv, SendFull
<1> QED BY <1>5, <1>6, <1>7, <1>8, <1>9, <1>10 DEF LookStep

\* A row begins with what stat says, and ends with nothing left of it.
LEMMA RowTyped ==
    ASSUME SInv, NEW r \in Renders,
           (\E p \in Paths : Stat(r, p)) \/ Score(r) \/ Save(r)
    PROVE  SInv'
<1> USE PathAssumption, SigAssumption
<1>1. ASSUME NEW p \in Paths, Stat(r, p) PROVE SInv'
  <2>1. RowsTyped'
    <3>1. file[p] \in Versions
      BY DEF SInv, FilesTyped
    <3> QED BY <1>1, <3>1 DEF Stat, Goto, SInv, RowsTyped
  <2> QED BY <1>1, <2>1, SigRests DEF SInv, Stat
<1>2. ASSUME RowDone(r) PROVE RowsTyped'
  BY <1>2 DEF RowDone, Goto, SInv, RowsTyped
<1>3. CASE Score(r)
  <2>0. faultsLeft' \in 0 .. MaxFaults
    <3>1. faultsLeft' = faultsLeft \/ Fault
      BY <1>3 DEF Score
    <3> QED BY <3>1, FaultTyped DEF SInv
  <2>1. RowDone(r) \/ (rpc[r] = "row" /\ Goto(r, "save") /\ UNCHANGED <<rpath, rmtime, rsig>>)
    BY <1>3 DEF Score, ToSave
  <2>2. CASE RowDone(r)
    BY <1>2, <1>3, <2>0, <2>2, SigRests DEF SInv, Score
  <2>3. CASE rpc[r] = "row" /\ Goto(r, "save") /\ UNCHANGED <<rpath, rmtime, rsig>>
    <3>1. RowsTyped'
      BY <2>3 DEF Goto, SInv, RowsTyped
    <3> QED BY <1>3, <2>0, <3>1, SigRests DEF SInv, Score
  <2> QED BY <2>1, <2>2, <2>3
<1>4. CASE Save(r)
  <2>1. faultsLeft' \in 0 .. MaxFaults
    BY <1>4, FaultTyped DEF Save, SInv
  <2> QED BY <1>2, <1>4, <2>1, SigRests DEF SInv, Save
<1> QED BY <1>1, <1>3, <1>4

\* The worker asks about what it has taken and stores what was answered
\* (sigWorker, resolveSignatures).
LEMMA WorkerKeepsTypes ==
    ASSUME SInv, SigWorkerStep
    PROVE  SInv'
<1> USE PathAssumption, SigAssumption
<1>0. Members(batch) \subseteq Paths
  BY MembersArePaths DEF SInv, WorkerTyped
<1>1. CASE Receive
  <2>1. Head(sigQueue) \in Paths /\ sigQueue' \in Seq(Paths) /\ Len(sigQueue') <= SigQueueCap
    <3>1. sigQueue \in Seq(Paths) /\ sigQueue # <<>> /\ Len(sigQueue) <= SigQueueCap
      BY <1>1 DEF Receive, SInv, QueueTyped
    <3> QED BY <1>1, <3>1, Taken DEF Receive
  <2>2. batch' \in Seq(Paths) /\ Len(batch') <= SigBatch /\ Members(batch) \subseteq Members(batch')
    <3>1. batch \in Seq(Paths) /\ Len(batch) < SigBatch
      BY <1>1 DEF Receive, SInv, WorkerTyped
    <3>2. /\ batch' \in Seq(Paths) /\ Len(batch) \in Nat /\ Len(batch') = Len(batch) + 1
          /\ Members(batch') = Members(batch) \cup {Head(sigQueue)}
      BY <1>1, <2>1, <3>1, Put DEF Receive
    <3> QED BY <3>1, <3>2
  <2>3. WorkerTyped'
    BY <1>1, <2>2 DEF Receive, SInv, WorkerTyped
  <2>4. QueueTyped'
    BY <1>1, <2>1 DEF Receive, SInv, QueueTyped
  <2> QED BY <1>1, <2>3, <2>4, SigRests DEF SInv, Receive
<1>2. CASE Drained
  <2>1. WorkerTyped'
    BY <1>2 DEF Drained, SInv, WorkerTyped
  <2> QED BY <1>2, <2>1, SigRests DEF SInv, Drained
<1>3. CASE QueryFails
  <2>1. WorkerTyped'
    BY <1>3 DEF QueryFails, SInv, WorkerTyped
  <2>2. faultsLeft' \in 0 .. MaxFaults
    BY <1>3, FaultTyped DEF QueryFails, SInv
  <2> QED BY <1>3, <2>1, <2>2, SigRests DEF SInv, QueryFails
<1>4. ASSUME NEW p \in Paths, Query(p) PROVE SInv'
  <2>0. PICK answer \in {IF p \in there THEN file[p] ELSE NoFile, TimedOut} :
            queried' = [queried EXCEPT ![p] = answer]
    BY <1>4 DEF Query
  <2>1. answer \in Answers /\ answer # NoSig
    BY DEF SInv, FilesTyped, Versions, NoFile, NoSig, TimedOut, Answers
  <2>2. /\ queried' = [queried EXCEPT ![p] = answer] /\ UNCHANGED batch
        /\ wpc = "query" /\ p \in todo
        /\ \/ todo = {p} /\ wpc' = "store" /\ todo' = Members(batch)
           \/ wpc' = "query" /\ todo' = todo \ {p}
    BY <1>4, <2>0 DEF Query, NextInBatch
  <2>3. queried' \in [Paths -> Answers \cup {NoSig}]
    BY <2>1, <2>2 DEF SInv, WorkerTyped
  <2>4. \A q \in Paths : queried'[q] = IF q = p THEN answer ELSE queried[q]
    BY <2>2 DEF SInv, WorkerTyped
  <2>5. \A q \in Members(batch) \ (todo \ {p}) : queried'[q] # NoSig
    BY <1>0, <2>1, <2>2, <2>4 DEF SInv, WorkerTyped
  <2>6. WorkerTyped'
    BY <2>2, <2>3, <2>5 DEF SInv, WorkerTyped
  <2>7. faultsLeft' \in 0 .. MaxFaults
    BY <1>4, FaultTyped DEF Query, SInv
  <2> QED BY <1>4, <2>6, <2>7, SigRests DEF SInv, Query
<1>5. ASSUME NEW p \in Paths, Store(p) PROVE SInv'
  <2>1. WorkerTyped'
    <3>1. /\ queried' = [queried EXCEPT ![p] = NoSig] /\ UNCHANGED batch
          /\ \/ wpc' = "clear" /\ todo' = Members(batch)
             \/ wpc = "store" /\ wpc' = "store" /\ todo' = todo \ {p}
      BY <1>5 DEF Store
    <3> QED BY <1>0, <3>1 DEF SInv, WorkerTyped
  <2>2. CachesTyped'
    <3> DEFINE e == [mtime |-> file[p], sig |-> queried[p]]
    <3>1. queried[p] # NoSig /\ queried[p] \in Answers \cup {NoSig} /\ file[p] \in Versions
      BY <1>5 DEF Store, SInv, WorkerTyped, FilesTyped
    <3>2. e \in Entries
      BY <3>1 DEF Entries
    <3>3. Capped(sigCache) \in [Paths -> Entries]
      BY DEF Capped, Entries, SInv, CachesTyped
    <3>4. /\ sigCache' \in {sigCache, [Capped(sigCache) EXCEPT ![p] = e]}
          /\ signatures' \in {signatures, [signatures EXCEPT ![p] = e]}
      BY <1>5 DEF Store, cacheVars
    <3> QED BY <3>2, <3>3, <3>4 DEF SInv, CachesTyped
  <2>3. faultsLeft' \in 0 .. MaxFaults
    BY <1>5, FaultTyped DEF Store, SInv
  <2> QED BY <1>5, <2>1, <2>2, <2>3, SigRests DEF SInv, Store
<1>6. ASSUME NEW p \in Paths, Clear(p) PROVE SInv'
  <2>1. /\ wpc = "clear" /\ UNCHANGED queried /\ todo' = todo \ {p}
        /\ sigInProgress' = sigInProgress \ {p}
        /\ \/ todo = {p} /\ wpc' = "recv" /\ batch' = <<>>
           \/ UNCHANGED <<wpc, batch>>
    BY <1>6 DEF Clear
  <2>2. WorkerTyped'
    <3>1. CASE todo = {p} /\ wpc' = "recv" /\ batch' = <<>>
      BY <2>1, <3>1, NoMembers DEF SInv, WorkerTyped
    <3>2. CASE UNCHANGED <<wpc, batch>>
      BY <2>1, <3>2 DEF SInv, WorkerTyped
    <3> QED BY <2>1, <3>1, <3>2
  <2>3. QueueTyped'
    BY <1>6, <2>1 DEF Clear, SInv, QueueTyped
  <2> QED BY <1>6, <2>2, <2>3, SigRests DEF SInv, Clear
<1> QED BY <1>1, <1>2, <1>3, <1>4, <1>5, <1>6 DEF SigWorkerStep

\* Files change under all of it, and a restart keeps the table.
LEMMA OthersTyped ==
    ASSUME SInv, (\E p \in Paths : Replace(p) \/ Delete(p)) \/ SigRestart
    PROVE  SInv'
<1> USE PathAssumption, SigAssumption
<1>1. ASSUME NEW p \in Paths, Replace(p) PROVE SInv'
  <2>1. file[p] + 1 \in Versions
    BY <1>1 DEF Replace, SInv, FilesTyped, Versions
  <2>2. FilesTyped'
    BY <1>1, <2>1 DEF Replace, SInv, FilesTyped
  <2> QED BY <1>1, <2>2, SigRests DEF SInv, Replace
<1>2. ASSUME NEW p \in Paths, Delete(p) PROVE SInv'
  <2>1. FilesTyped'
    BY <1>2 DEF Delete, SInv, FilesTyped
  <2> QED BY <1>2, <2>1, SigRests DEF SInv, Delete
<1>3. CASE SigRestart
  <2>1. CachesTyped'
    BY <1>3 DEF SigRestart, SInv, CachesTyped, Entries
  <2>2. QueueTyped' /\ WorkerTyped'
    BY <1>3, NoMembers DEF SigRestart, SInv, QueueTyped, WorkerTyped
  <2>3. RowsTyped'
    BY <1>3 DEF SigRestart, RowsTyped
  <2>4. faultsLeft' \in 0 .. MaxFaults
    BY <1>3, FaultTyped DEF SigRestart, SInv
  <2> QED BY <1>3, <2>1, <2>2, <2>3, <2>4, SigRests DEF SInv, SigRestart
<1> QED BY <1>1, <1>2, <1>3

\* A first start.
LEMMA SigStart == SigInit => SInv
<1> SUFFICES ASSUME SigInit PROVE SInv
  OBVIOUS
<1> USE PathAssumption, SigAssumption DEF SigInit
<1>1. 1 \in Versions
  BY DEF Versions
<1>2. FilesTyped /\ CachesTyped
  BY <1>1 DEF FilesTyped, CachesTyped, Entries
<1>3. QueueTyped /\ WorkerTyped
  BY NoMembers DEF QueueTyped, WorkerTyped
<1>4. RowsTyped
  BY DEF RowsTyped
<1> QED BY <1>2, <1>3, <1>4 DEF SInv

-----------------------------------------------------------------------------
(* No signature of an older file *)

\* The answer about a file that is there is about that file, or there was none, or the
\* file came while its path was being asked about.
Answered ==
    \A p \in there : queried[p] # NoSig =>
        queried[p] \in {file[p], TimedOut} \/ <<p, file[p]>> \in swapped

OldInv == NothingOlder /\ Answered

\* A file that is noticed to have come while its path is asked about stays so.
LEMMA OlderLasts ==
    ASSUME swapped \subseteq swapped', NEW p, NEW mtime, NEW sig, OfItsFile(p, mtime, sig)
    PROVE  OfItsFile(p, mtime, sig)'
BY DEF OfItsFile

\* A row takes its signature from under the time it saw (checkSignatures).
LEMMA RowNotOlder ==
    ASSUME SInv, OldInv, NEW r \in Renders,
           LookStep(r) \/ (\E p \in Paths : Stat(r, p)) \/ Score(r) \/ Save(r)
    PROVE  OldInv'
<1> USE DEF OldInv
<1>0. UNCHANGED <<fileVars, workerVars>>
  BY DEF LookStep, LookInMemory, LookInTable, Fill, Mark, Send, SendFull, Stat, Score, Save
<1>1. Answered'
  BY <1>0 DEF Answered, fileVars, workerVars
<1>2. /\ rpc \in [Renders -> {"idle", "mem", "db", "fill", "enqueue", "send", "row", "save"}]
      /\ rpath \in [Renders -> Paths \cup {NoPath}]
      /\ rmtime \in [Renders -> Versions \cup {NoFile}]
      /\ rsig \in [Renders -> Answers \cup {Pending, NoSig}]
      /\ sigCache \in [Paths -> Entries] /\ signatures \in [Paths -> Entries]
  BY DEF SInv, RowsTyped, CachesTyped
<1>3. rpc[r] \in {"mem", "db", "fill", "enqueue", "send"}
         => rmtime[r] \in Versions /\ rpath[r] \in Paths
  BY <1>2 DEF SInv, RowsTyped
<1>4. ASSUME UNCHANGED cacheVars,
             \A q \in Renders \ {r} :
                /\ rpc'[q] = rpc[q] /\ rpath'[q] = rpath[q]
                /\ rmtime'[q] = rmtime[q] /\ rsig'[q] = rsig[q],
             rpc'[r] # "idle" => OfItsFile(rpath'[r], rmtime'[r], rsig'[r])
      PROVE  NothingOlder'
  BY <1>0, <1>4 DEF NothingOlder, cacheVars, fileVars, OfItsFile
<1>5. ASSUME NEW e \in {sigCache[rpath[r]], signatures[rpath[r]]}, e.mtime = rmtime[r],
             rpc[r] \in {"mem", "db"}
      PROVE  OfItsFile(rpath[r], rmtime[r], e.sig)
  <2>1. e # NoEntry
    BY <1>3, <1>5 DEF NoEntry, Versions, NoFile
  <2> QED BY <1>3, <1>5, <2>1 DEF NothingOlder
<1>6. CASE LookInMemory(r)
  <2>1. CASE sigCache[rpath[r]].mtime = rmtime[r]
    <3>1. OfItsFile(rpath[r], rmtime[r], sigCache[rpath[r]].sig)
      BY <1>5, <1>6, <2>1 DEF LookInMemory
    <3>2. rsig'[r] = sigCache[rpath[r]].sig /\ UNCHANGED <<rpath, rmtime, cacheVars>>
      BY <1>2, <1>6, <2>1 DEF LookInMemory, Got
    <3>3. \A q \in Renders \ {r} : rpc'[q] = rpc[q] /\ rsig'[q] = rsig[q]
      BY <1>2, <1>6, <2>1 DEF LookInMemory, Got, Goto
    <3>4. OfItsFile(rpath'[r], rmtime'[r], rsig'[r])
      BY <1>0, <3>1, <3>2 DEF OfItsFile, fileVars
    <3> QED BY <1>1, <1>4, <3>2, <3>3, <3>4
  <2>2. CASE sigCache[rpath[r]].mtime # rmtime[r]
    BY <1>1, <1>2, <1>4, <1>6, <2>2 DEF LookInMemory, Goto, NothingOlder
  <2> QED BY <2>1, <2>2
<1>7. CASE LookInTable(r)
  <2>1. /\ rpc[r] = "db" /\ UNCHANGED <<rpath, rmtime, cacheVars>>
        /\ \A q \in Renders \ {r} : rpc'[q] = rpc[q] /\ rsig'[q] = rsig[q]
        /\ \/ /\ signatures[rpath[r]].mtime = rmtime[r]
              /\ rsig'[r] = signatures[rpath[r]].sig
           \/ rsig'[r] = Pending
    BY <1>2, <1>7 DEF LookInTable, Got, Goto
  <2>2. CASE signatures[rpath[r]].mtime = rmtime[r] /\ rsig'[r] = signatures[rpath[r]].sig
    <3>1. OfItsFile(rpath[r], rmtime[r], signatures[rpath[r]].sig)
      BY <1>5, <2>1, <2>2
    <3>2. OfItsFile(rpath'[r], rmtime'[r], rsig'[r])
      BY <1>0, <2>1, <2>2, <3>1 DEF OfItsFile, fileVars
    <3> QED BY <1>1, <1>4, <2>1, <3>2
  <2>3. CASE rsig'[r] = Pending
    BY <1>1, <1>4, <2>1, <2>3 DEF OfItsFile
  <2> QED BY <2>1, <2>2, <2>3
<1>8. CASE Fill(r)
  <2> DEFINE e == [mtime |-> rmtime[r], sig |-> rsig[r]]
  <2>1. OfItsFile(rpath[r], rmtime[r], rsig[r])
    BY <1>8 DEF Fill, NothingOlder
  <2>2. \A p \in Paths : sigCache'[p] = IF p = rpath[r] THEN e ELSE sigCache[p]
    BY <1>2, <1>8 DEF Fill
  <2>3. \A p \in Paths : sigCache'[p] # NoEntry => OfItsFile(p, sigCache'[p].mtime, sigCache'[p].sig)
    BY <2>1, <2>2 DEF NothingOlder
  <2>4. /\ UNCHANGED <<rpath, rmtime, rsig, signatures, swapped>>
        /\ \A q \in Renders : rpc'[q] # "idle" => rpc[q] # "idle"
    BY <1>2, <1>8 DEF Fill, Goto, fileVars
  <2> HIDE DEF e
  <2>5. NothingOlder'
    BY <2>3, <2>4 DEF NothingOlder, OfItsFile
  <2> QED BY <1>1, <2>5
<1>9. CASE Mark(r) \/ Send(r) \/ SendFull(r)
  <2>1. /\ rpc[r] # "idle" /\ UNCHANGED <<cacheVars, rpath, rmtime, rsig>>
        /\ \A q \in Renders \ {r} : rpc'[q] = rpc[q]
    BY <1>2, <1>9 DEF Mark, Send, SendFull, Goto
  <2>2. OfItsFile(rpath'[r], rmtime'[r], rsig'[r])
    BY <1>0, <2>1 DEF NothingOlder, OfItsFile, fileVars
  <2> QED BY <1>1, <1>4, <2>1, <2>2
<1>10. ASSUME NEW p \in Paths, Stat(r, p) PROVE NothingOlder'
  <2>1. /\ rsig'[r] = NoSig /\ UNCHANGED cacheVars
        /\ \A q \in Renders \ {r} : /\ rpc'[q] = rpc[q] /\ rpath'[q] = rpath[q]
                                    /\ rmtime'[q] = rmtime[q] /\ rsig'[q] = rsig[q]
    BY <1>2, <1>10 DEF Stat, Goto
  <2> QED BY <1>4, <2>1 DEF OfItsFile
<1>11. CASE Score(r) \/ Save(r)
  <2>1. UNCHANGED cacheVars /\ rpc[r] # "idle"
    BY <1>11 DEF Score, Save
  <2>2. RowDone(r) \/ (Goto(r, "save") /\ UNCHANGED <<rpath, rmtime, rsig>>)
    BY <1>11 DEF Score, ToSave, Save
  <2>3. CASE RowDone(r)
    BY <1>1, <1>2, <1>4, <2>1, <2>3 DEF RowDone, Goto
  <2>4. CASE Goto(r, "save") /\ UNCHANGED <<rpath, rmtime, rsig>>
    <3>1. OfItsFile(rpath'[r], rmtime'[r], rsig'[r])
      BY <1>0, <2>1, <2>4 DEF NothingOlder, OfItsFile, fileVars
    <3>2. \A q \in Renders \ {r} : rpc'[q] = rpc[q]
      BY <1>2, <2>4 DEF Goto
    <3> QED BY <1>1, <1>4, <2>1, <2>4, <3>1, <3>2
  <2> QED BY <1>1, <2>2, <2>3, <2>4
<1> QED BY <1>1, <1>6, <1>7, <1>8, <1>9, <1>10, <1>11 DEF LookStep

\* What the worker stores, it stores under the time of the file it was asked about
\* or of one that came meanwhile (resolveSignatures).
LEMMA WorkerNotOlder ==
    ASSUME SInv, OldInv, SigWorkerStep
    PROVE  OldInv'
<1> USE DEF OldInv
<1>1. UNCHANGED <<fileVars, renderVars>>
  BY DEF SigWorkerStep, Receive, Drained, QueryFails, Query, Store, Clear
<1>2. /\ sigCache \in [Paths -> Entries] /\ signatures \in [Paths -> Entries]
      /\ queried \in [Paths -> Answers \cup {NoSig}] /\ there \subseteq Paths
  BY DEF SInv, CachesTyped, WorkerTyped, FilesTyped
<1>3. UNCHANGED cacheVars => NothingOlder'
  BY <1>1 DEF NothingOlder, OfItsFile, fileVars, renderVars, cacheVars
<1>4. CASE Receive \/ Drained \/ \E p \in Paths : Clear(p)
  <2>1. UNCHANGED <<cacheVars, queried>>
    BY <1>4 DEF Receive, Drained, Clear
  <2> QED BY <1>1, <1>3, <2>1 DEF Answered, fileVars
<1>5. CASE QueryFails
  BY <1>1, <1>2, <1>3, <1>5 DEF QueryFails, Answered, fileVars
<1>6. ASSUME NEW p \in Paths, Query(p) PROVE OldInv'
  <2>1. PICK answer \in {IF p \in there THEN file[p] ELSE NoFile, TimedOut} :
            queried' = [queried EXCEPT ![p] = answer]
    BY <1>6 DEF Query
  <2>2. Answered'
    BY <1>1, <1>2, <2>1 DEF Answered, fileVars
  <2> QED BY <1>3, <1>6, <2>2 DEF Query
<1>7. ASSUME NEW p \in Paths, Store(p) PROVE OldInv'
  <2> DEFINE e == [mtime |-> file[p], sig |-> queried[p]]
  <2>1. Answered'
    BY <1>1, <1>2, <1>7 DEF Store, Answered, fileVars
  <2>2. p \in there => OfItsFile(p, e.mtime, e.sig)
    BY DEF Answered, OfItsFile
  <2>3. \A q \in Paths : /\ sigCache'[q] \in {sigCache[q], NoEntry} \/ (p \in there /\ q = p /\ sigCache'[q] = e)
                         /\ signatures'[q] = signatures[q] \/ (p \in there /\ q = p /\ signatures'[q] = e)
    BY <1>2, <1>7 DEF Store, Capped, cacheVars
  <2> HIDE DEF e
  <2>4. NothingOlder'
    BY <1>1, <2>2, <2>3 DEF NothingOlder, OfItsFile, fileVars, renderVars
  <2> QED BY <2>1, <2>4
<1> QED BY <1>4, <1>5, <1>6, <1>7 DEF SigWorkerStep

\* A file that comes while its path is asked about is noted, and a restart forgets
\* all answers but those of the table.
LEMMA OthersNotOlder ==
    ASSUME SInv, OldInv, (\E p \in Paths : Replace(p) \/ Delete(p)) \/ SigRestart
    PROVE  OldInv'
<1> USE DEF OldInv
<1>1. ASSUME NEW p \in Paths, Replace(p) PROVE OldInv'
  <2>1. file \in [Paths -> Versions] /\ there \subseteq Paths
    BY DEF SInv, FilesTyped
  <2>2. /\ \A q \in Paths \ {p} : file'[q] = file[q] /\ (q \in there' => q \in there)
        /\ swapped \subseteq swapped' /\ UNCHANGED <<cacheVars, renderVars, queried>>
        /\ queried[p] # NoSig => <<p, file'[p]>> \in swapped'
    BY <1>1, <2>1 DEF Replace, workerVars
  <2>3. NothingOlder'
    BY <2>2 DEF NothingOlder, OfItsFile, cacheVars, renderVars
  <2>4. Answered'
    <3>1. there' \subseteq Paths
      BY <1>1, <2>1 DEF Replace
    <3> QED BY <2>2, <3>1 DEF Answered
  <2> QED BY <2>3, <2>4
<1>2. ASSUME NEW p \in Paths, Delete(p) PROVE OldInv'
  BY <1>2 DEF Delete, Answered, NothingOlder, OfItsFile, cacheVars, renderVars, workerVars
<1>3. CASE SigRestart
  <2>1. /\ \A p \in Paths : sigCache'[p] = NoEntry /\ queried'[p] = NoSig
        /\ \A r \in Renders : rpc'[r] = "idle"
        /\ UNCHANGED <<signatures, swapped, there>> /\ there \subseteq Paths
    BY <1>3 DEF SigRestart, fileVars, SInv, FilesTyped
  <2>2. NothingOlder'
    BY <2>1 DEF NothingOlder, OfItsFile
  <2>3. Answered'
    BY <2>1 DEF Answered
  <2> QED BY <2>2, <2>3
<1> QED BY <1>1, <1>2, <1>3

-----------------------------------------------------------------------------
(* One marker for each path that is on its way *)

InHand == IF wpc = "clear" THEN todo ELSE Members(batch)

\* The paths that renders other than those of R have marked and not queued.
SendingBut(R) == {rpath[r] : r \in {q \in Renders \ R : rpc[q] = "send"}}

\* What a render is about to queue is nowhere else.
Apart ==
    /\ \A r \in Renders : rpc[r] = "send" => rpath[r] \notin Members(sigQueue) \cup InHand
    /\ \A q, r \in Renders : rpc[q] = "send" /\ rpc[r] = "send" /\ rpath[q] = rpath[r] => q = r

Placed ==
    /\ OnceEach(sigQueue) /\ OnceEach(batch)
    /\ Members(sigQueue) \cap InHand = {}
    /\ sigInProgress = Members(sigQueue) \cup InHand \cup SendingBut({})

PInv == Placed /\ Apart

\* Placed is OneInProgress by another name.
LEMMA PlacedIsOne == Placed <=> OneInProgress
<1>1. SendingBut({}) = {rpath[r] : r \in {q \in Renders : rpc[q] = "send"}}
  BY DEF SendingBut
<1> QED BY <1>1 DEF Placed, OneInProgress, OnceEach, InHand

\* A render that moves changes what is being sent by its own path only.
LEMMA OneSender ==
    ASSUME NEW r \in Renders,
           \A q \in Renders \ {r} : rpc'[q] = rpc[q] /\ rpath'[q] = rpath[q]
    PROVE  /\ SendingBut({r})' = SendingBut({r})
           /\ SendingBut({}) = SendingBut({r}) \cup (IF rpc[r] = "send" THEN {rpath[r]} ELSE {})
           /\ SendingBut({})' = SendingBut({r}) \cup (IF rpc'[r] = "send" THEN {rpath'[r]} ELSE {})
           /\ \A p \in SendingBut({r}) : \E q \in Renders \ {r} : rpc[q] = "send" /\ rpath[q] = p
           /\ \A q \in Renders \ {r} : rpc[q] = "send" => rpath[q] \in SendingBut({r})
BY DEF SendingBut

\* Nobody is queueing a path without having marked it first (enqueueSig).
LEMMA RowPlaced ==
    ASSUME SInv, PInv, NEW r \in Renders,
           LookStep(r) \/ (\E p \in Paths : Stat(r, p)) \/ Score(r) \/ Save(r)
    PROVE  PInv'
<1>0. UNCHANGED workerVars
  BY DEF LookStep, LookInMemory, LookInTable, Fill, Mark, Send, SendFull, Stat, Score, Save
<1>1. /\ rpc \in [Renders -> {"idle", "mem", "db", "fill", "enqueue", "send", "row", "save"}]
      /\ rpath \in [Renders -> Paths \cup {NoPath}] /\ sigQueue \in Seq(Paths)
  BY DEF SInv, RowsTyped, QueueTyped
<1>2. InHand' = InHand /\ OnceEach(batch)'
  BY <1>0 DEF InHand, workerVars, PInv, Placed, OnceEach, Members
<1>3. rpc[r] \in {"enqueue", "send"} => rpath[r] \in Paths
  BY <1>1 DEF SInv, RowsTyped
<1>4. \A q \in Renders \ {r} : rpc'[q] = rpc[q] /\ rpath'[q] = rpath[q]
  BY <1>1 DEF LookStep, LookInMemory, LookInTable, Fill, Mark, Send, SendFull, Stat, Score, Save,
             ToSave, Goto, Got, RowDone
<1>5. /\ SendingBut({}) = SendingBut({r}) \cup (IF rpc[r] = "send" THEN {rpath[r]} ELSE {})
      /\ SendingBut({})' = SendingBut({r}) \cup (IF rpc'[r] = "send" THEN {rpath'[r]} ELSE {})
      /\ \A p \in SendingBut({r}) : \E q \in Renders \ {r} : rpc[q] = "send" /\ rpath[q] = p
      /\ \A q \in Renders \ {r} : rpc[q] = "send" => rpath[q] \in SendingBut({r})
  BY <1>4, OneSender
<1>6. CASE rpc[r] # "send" /\ rpc'[r] # "send" /\ UNCHANGED queueVars
  <2>1. SendingBut({})' = SendingBut({})
    BY <1>5, <1>6
  <2>2. Members(sigQueue)' = Members(sigQueue) /\ OnceEach(sigQueue)' /\ UNCHANGED sigInProgress
    BY <1>6 DEF Members, PInv, Placed, OnceEach, queueVars
  <2>3. Placed'
    BY <1>2, <2>1, <2>2 DEF PInv, Placed
  <2>4. Apart'
    BY <1>2, <1>4, <1>6, <2>2 DEF PInv, Apart
  <2> QED BY <2>3, <2>4 DEF PInv
<1>7. CASE Mark(r)
  <2>1. /\ rpc[r] = "enqueue" /\ UNCHANGED <<sigQueue, rpath>>
        /\ rpc'[r] = IF rpath[r] \in sigInProgress THEN "row" ELSE "send"
        /\ sigInProgress' = sigInProgress \cup {rpath[r]}
    BY <1>1, <1>7 DEF Mark, Goto
  <2>2. Members(sigQueue)' = Members(sigQueue) /\ OnceEach(sigQueue)'
    BY <2>1 DEF Members, PInv, Placed, OnceEach
  <2>3. Placed'
    <3>1. sigInProgress' = Members(sigQueue) \cup InHand \cup SendingBut({})'
      <4>1. CASE rpath[r] \in sigInProgress
        BY <1>5, <2>1, <4>1 DEF PInv, Placed
      <4>2. CASE rpath[r] \notin sigInProgress
        BY <1>5, <2>1, <4>2 DEF PInv, Placed
      <4> QED BY <4>1, <4>2
    <3> QED BY <1>2, <2>2, <3>1 DEF PInv, Placed
  <2>4. rpc'[r] = "send" => rpath[r] \notin Members(sigQueue) \cup InHand \cup SendingBut({r})
    BY <1>5, <2>1 DEF PInv, Placed
  <2>5. Apart'
    BY <1>2, <1>4, <1>5, <2>1, <2>2, <2>4 DEF PInv, Apart
  <2> QED BY <2>3, <2>5 DEF PInv
<1>8. CASE Send(r)
  <2>1. /\ rpc[r] = "send" /\ rpc'[r] = "row" /\ UNCHANGED <<sigInProgress, rpath>>
        /\ sigQueue' = Append(sigQueue, rpath[r])
    BY <1>1, <1>8 DEF Send, Goto
  <2>2. /\ rpath[r] \in Paths /\ rpath[r] \notin Members(sigQueue) \cup InHand
        /\ OnceEach(sigQueue)
    BY <1>3, <2>1 DEF PInv, Placed, Apart
  <2>3. Members(sigQueue') = Members(sigQueue) \cup {rpath[r]} /\ OnceEach(sigQueue')
    BY <1>1, <2>1, <2>2, Put
  <2>4. rpath[r] \notin SendingBut({r})
    BY <1>5, <2>1 DEF PInv, Apart
  <2>5. Placed'
    <3>1. sigInProgress' = Members(sigQueue') \cup InHand \cup SendingBut({})'
      BY <1>5, <2>1, <2>3 DEF PInv, Placed
    <3>2. Members(sigQueue') \cap InHand = {}
      BY <2>2, <2>3 DEF PInv, Placed
    <3> QED BY <1>2, <2>3, <3>1, <3>2 DEF Placed, OnceEach
  <2>6. Apart'
    BY <1>2, <1>4, <1>5, <2>1, <2>3, <2>4 DEF PInv, Apart
  <2> QED BY <2>5, <2>6 DEF PInv
<1>9. CASE SendFull(r)
  <2>1. /\ rpc[r] = "send" /\ rpc'[r] = "row" /\ UNCHANGED <<sigQueue, rpath>>
        /\ sigInProgress' = sigInProgress \ {rpath[r]}
    BY <1>1, <1>9 DEF SendFull, Goto
  <2>2. rpath[r] \notin Members(sigQueue) \cup InHand \cup SendingBut({r})
    BY <1>5, <2>1 DEF PInv, Apart
  <2>3. Members(sigQueue)' = Members(sigQueue) /\ OnceEach(sigQueue)'
    BY <2>1 DEF Members, PInv, Placed, OnceEach
  <2>4. Placed'
    BY <1>2, <1>5, <2>1, <2>2, <2>3 DEF PInv, Placed
  <2>5. Apart'
    BY <1>2, <1>4, <2>1, <2>3 DEF PInv, Apart
  <2> QED BY <2>4, <2>5 DEF PInv
<1>10. CASE LookInMemory(r) \/ LookInTable(r) \/ Fill(r) \/ Score(r) \/ Save(r)
            \/ \E p \in Paths : Stat(r, p)
  <2>1. rpc[r] # "send" /\ rpc'[r] # "send" /\ UNCHANGED queueVars
    BY <1>1, <1>10 DEF LookInMemory, LookInTable, Fill, Score, ToSave, Save, Stat, Goto, RowDone
  <2> QED BY <1>6, <2>1
<1> QED BY <1>7, <1>8, <1>9, <1>10 DEF LookStep

\* A path leaves the queue as it comes to the worker's hands, and its marker goes
\* when it leaves them (sigWorker).
LEMMA WorkerPlaced ==
    ASSUME SInv, PInv, SigWorkerStep
    PROVE  PInv'
<1>0. UNCHANGED renderVars
  BY DEF SigWorkerStep, Receive, Drained, QueryFails, Query, Store, Clear
<1>1. sigQueue \in Seq(Paths) /\ batch \in Seq(Paths)
  BY DEF SInv, QueueTyped, WorkerTyped
<1>2. SendingBut({})' = SendingBut({})
  BY <1>0 DEF SendingBut, renderVars
<1>3. CASE InHand' = InHand /\ UNCHANGED <<queueVars, batch>>
  <2>1. Placed'
    BY <1>2, <1>3 DEF PInv, Placed, queueVars, Members, OnceEach
  <2>2. Apart'
    BY <1>0, <1>3 DEF PInv, Apart, queueVars, renderVars, Members
  <2> QED BY <2>1, <2>2 DEF PInv
<1>4. CASE Receive
  <2>1. /\ sigQueue # <<>> /\ sigQueue' = Tail(sigQueue) /\ UNCHANGED sigInProgress
        /\ batch' = Append(batch, Head(sigQueue)) /\ InHand = Members(batch)
        /\ InHand' = Members(batch')
    BY <1>4 DEF Receive, InHand
  <2>2. /\ Head(sigQueue) \in Paths /\ Head(sigQueue) \in Members(sigQueue)
        /\ OnceEach(sigQueue') /\ Members(sigQueue') = Members(sigQueue) \ {Head(sigQueue)}
    BY <1>1, <2>1, Taken DEF PInv, Placed
  <2>3. /\ Members(batch') = Members(batch) \cup {Head(sigQueue)}
        /\ OnceEach(batch')
    BY <1>1, <2>1, <2>2, Put DEF PInv, Placed
  <2>4. Placed'
    BY <1>2, <2>1, <2>2, <2>3 DEF PInv, Placed, OnceEach
  <2>5. Apart'
    BY <1>0, <2>1, <2>2, <2>3 DEF PInv, Apart, renderVars
  <2> QED BY <2>4, <2>5 DEF PInv
<1>5. CASE Drained \/ QueryFails \/ \E p \in Paths : Query(p) \/ Store(p)
  <2>1. UNCHANGED <<queueVars, batch>>
    BY <1>5 DEF Drained, QueryFails, Query, Store
  <2>2. /\ wpc # "clear"
        /\ wpc' = "clear" => todo' = Members(batch)
    BY <1>5 DEF Drained, QueryFails, Query, Store, Members
  <2>3. InHand' = InHand
    BY <2>1, <2>2 DEF InHand, Members
  <2> QED BY <1>3, <2>1, <2>3
<1>6. ASSUME NEW p \in Paths, Clear(p) PROVE PInv'
  <2>1. /\ wpc = "clear" /\ p \in todo /\ UNCHANGED sigQueue /\ todo' = todo \ {p}
        /\ sigInProgress' = sigInProgress \ {p}
        /\ \/ todo = {p} /\ wpc' = "recv" /\ batch' = <<>>
           \/ UNCHANGED <<wpc, batch>>
    BY <1>6 DEF Clear, NextInBatch
  <2>2. InHand = todo /\ InHand' = todo \ {p} /\ OnceEach(batch')
    BY <2>1, NoMembers DEF InHand, PInv, Placed
  <2>3. Members(sigQueue') = Members(sigQueue) /\ OnceEach(sigQueue')
    BY <2>1 DEF PInv, Placed
  <2>4. p \notin Members(sigQueue) /\ p \notin SendingBut({})
    BY <2>1, <2>2 DEF PInv, Placed, Apart, SendingBut
  <2>5. Placed'
    BY <1>2, <2>1, <2>2, <2>3, <2>4 DEF PInv, Placed, OnceEach
  <2>6. Apart'
    BY <1>0, <2>1, <2>2, <2>3 DEF PInv, Apart, renderVars
  <2> QED BY <2>5, <2>6 DEF PInv
<1> QED BY <1>4, <1>5, <1>6 DEF SigWorkerStep

\* Files are none of it, and a restart leaves nothing on its way.
LEMMA OthersPlaced ==
    ASSUME SInv, PInv, (\E p \in Paths : Replace(p) \/ Delete(p)) \/ SigRestart
    PROVE  PInv'
<1>1. ASSUME NEW p \in Paths, Replace(p) \/ Delete(p) PROVE PInv'
  BY <1>1 DEF Replace, Delete, PInv, Placed, Apart, InHand, SendingBut, OnceEach, Members,
             queueVars, renderVars, workerVars
<1>2. CASE SigRestart
  <2>1. /\ Members(sigQueue') = {} /\ Members(batch') = {} /\ InHand' = {}
        /\ OnceEach(sigQueue') /\ OnceEach(batch')
    BY <1>2, NoMembers DEF SigRestart, InHand
  <2>2. \A r \in Renders : rpc'[r] # "send"
    BY <1>2 DEF SigRestart
  <2>3. SendingBut({})' = {} /\ sigInProgress' = {}
    BY <1>2, <2>2 DEF SendingBut, SigRestart
  <2> QED BY <2>1, <2>2, <2>3 DEF PInv, Placed, Apart, OnceEach
<1> QED BY <1>1, <1>2

-----------------------------------------------------------------------------
(* The risk timeline *)

Changes == [verdict : Verdicts, late : BOOLEAN]

ScoreTyped ==
    /\ scoreHistory \in [Paths -> Seq(Changes)]
    /\ rseen \in [Renders -> Nat]
    /\ rverdict \in [Renders -> Verdicts \cup {NoVerdict}]
    /\ \A r \in Renders : rpc[r] = "save" <=> rverdict[r] # NoVerdict
    /\ rendersLeft \in 0 .. MaxRenders

\* What is about to be saved differs from the last change its render could see.
Seen ==
    \A r \in Renders : rpc[r] = "save" =>
        /\ rseen[r] <= Len(scoreHistory[rpath[r]])
        /\ rseen[r] = Len(scoreHistory[rpath[r]]) => Changed(rpath[r], rverdict[r])

HInv == ScoreTyped /\ Seen /\ RepeatsOverlap

\* A score has a reason, if only that nothing is wrong (threatScore).
LEMMA ScoreHasReason ==
    ASSUME NEW c \in Rest, NEW sig
    PROVE  /\ threatScore([c EXCEPT !.sig = Status(sig)]) \in Verdicts
           /\ threatScore([c EXCEPT !.sig = Status(sig)]) # NoVerdict
<1>1. Status(sig) \in {"PENDING", "NotSigned", "neutral"}
  BY DEF Status
<1>2. ASSUME NEW d PROVE threatScore(d).why # {}
  <2>1. \A key : Only(key) # {}
    BY DEF Only
  <2> QED BY <2>1 DEF threatScore
<1>3. threatScore([c EXCEPT !.sig = Status(sig)]) # NoVerdict
  BY <1>2 DEF NoVerdict
<1>4. \A s \in {"PENDING", "NotSigned", "neutral"} : threatScore([c EXCEPT !.sig = s]) \in Verdicts
  <2> DEFINE score(d, s) == threatScore([d EXCEPT !.sig = s])
             statuses == {"PENDING", "NotSigned", "neutral"}
  <2>1. Verdicts = {score(d, s) : d \in Rest, s \in statuses}
    BY DEF Verdicts
  <2>2. \A s \in statuses : score(c, s) \in Verdicts
    <3> HIDE DEF score, statuses
    <3> QED BY <2>1
  <2> QED BY <2>2
<1> QED BY <1>1, <1>3, <1>4, Zenon

\* A change is put at the end, and no other is touched.
LEMMA Logged ==
    ASSUME NEW h \in Seq(Changes), NEW e \in Changes
    PROVE  /\ Append(h, e) \in Seq(Changes)
           /\ Len(h) \in Nat /\ Len(Append(h, e)) = Len(h) + 1
           /\ DOMAIN h = 1 .. Len(h) /\ DOMAIN Append(h, e) = 1 .. Len(h) + 1
           /\ \A i \in 1 .. Len(h) : Append(h, e)[i] = h[i]
           /\ Append(h, e)[Len(h) + 1] = e
BY AppendProperties, LenProperties

\* A verdict that is saved is compared with the last one, and noted as late if
\* another was saved since (recordScoreChange).
LEMMA SaveLogged ==
    ASSUME SInv, HInv, NEW r \in Renders, Save(r)
    PROVE  HInv'
<1> DEFINE p == rpath[r]
           h == scoreHistory[p]
           e == [verdict |-> rverdict[r], late |-> rseen[r] < Len(h)]
<1>1. p \in Paths /\ rpc[r] = "save"
  BY PathAssumption DEF Save, SInv, RowsTyped
<1>2. /\ h \in Seq(Changes) /\ e \in Changes
      /\ rseen[r] \in Nat /\ rverdict[r] \in Verdicts
  <2>1. h \in Seq(Changes) /\ rseen[r] \in Nat
    BY <1>1 DEF HInv, ScoreTyped
  <2>2. rverdict[r] \in Verdicts
    BY <1>1 DEF HInv, ScoreTyped
  <2>3. \A v \in Verdicts, b \in BOOLEAN : [verdict |-> v, late |-> b] \in Changes
    BY DEF Changes
  <2>4. (rseen[r] < Len(h)) \in BOOLEAN
    OBVIOUS
  <2> QED BY <2>1, <2>2, <2>3, <2>4, Zenon
<1>3. /\ Append(h, e) \in Seq(Changes)
      /\ Len(h) \in Nat /\ Len(Append(h, e)) = Len(h) + 1
      /\ DOMAIN h = 1 .. Len(h) /\ DOMAIN Append(h, e) = 1 .. Len(h) + 1
      /\ \A i \in 1 .. Len(h) : Append(h, e)[i] = h[i]
      /\ Append(h, e)[Len(h) + 1] = e
  <2> HIDE DEF h, e
  <2> QED BY <1>2, Logged
<1>4. scoreHistory' \in {scoreHistory, [scoreHistory EXCEPT ![p] = Append(h, e)]}
  BY <1>1 DEF Save, HInv, ScoreTyped
<1>5. /\ rpc'[r] = "idle" /\ rverdict' = [rverdict EXCEPT ![r] = NoVerdict]
      /\ rseen' = [rseen EXCEPT ![r] = 0] /\ UNCHANGED rendersLeft
      /\ \A q \in Renders \ {r} : rpc'[q] = rpc[q] /\ rpath'[q] = rpath[q]
  BY DEF Save, RowDone, Goto, SInv, RowsTyped
<1>6. ScoreTyped'
  <2> HIDE DEF h, e
  <2>1. scoreHistory' \in [Paths -> Seq(Changes)]
    BY <1>1, <1>3, <1>4 DEF HInv, ScoreTyped
  <2> QED BY <1>5, <2>1 DEF HInv, ScoreTyped
<1>7. \A j \in Paths : \/ scoreHistory'[j] = scoreHistory[j]
                       \/ j = p /\ scoreHistory'[j] = Append(h, e)
  <2> HIDE DEF h, e
  <2> QED BY <1>4 DEF HInv, ScoreTyped
<1>8. Seen'
  <2> SUFFICES ASSUME NEW q \in Renders, rpc'[q] = "save"
               PROVE  /\ rseen'[q] <= Len(scoreHistory'[rpath'[q]])
                      /\ rseen'[q] = Len(scoreHistory'[rpath'[q]])
                           => Changed(rpath[q], rverdict[q])'
    BY DEF Seen, Changed, LastVerdict
  <2>1. /\ q # r /\ rpc[q] = "save" /\ rpath'[q] = rpath[q] /\ rpath[q] \in Paths
        /\ rseen'[q] = rseen[q] /\ rseen[q] \in Nat /\ rverdict'[q] = rverdict[q]
    BY <1>5, PathAssumption DEF SInv, RowsTyped, HInv, ScoreTyped
  <2>2. /\ rseen[q] <= Len(scoreHistory[rpath[q]])
        /\ rseen[q] = Len(scoreHistory[rpath[q]]) => Changed(rpath[q], rverdict[q])
    BY <2>1 DEF HInv, Seen
  <2>3. CASE scoreHistory'[rpath[q]] = scoreHistory[rpath[q]]
    BY <2>1, <2>2, <2>3 DEF Changed, LastVerdict
  <2>4. CASE rpath[q] = p /\ scoreHistory'[rpath[q]] = Append(h, e)
    <3>1. rseen[q] <= Len(h) /\ Len(scoreHistory'[rpath'[q]]) = Len(h) + 1
      BY <1>3, <2>1, <2>2, <2>4
    <3> HIDE DEF h
    <3> QED BY <1>3, <2>1, <3>1
  <2> QED BY <1>7, <2>1, <2>3, <2>4
<1>9. RepeatsOverlap'
  <2> SUFFICES ASSUME NEW j \in Paths, NEW i \in DOMAIN scoreHistory'[j], i > 1,
                      scoreHistory'[j][i].verdict.why = scoreHistory'[j][i - 1].verdict.why,
                      scoreHistory'[j][i].verdict.threat = scoreHistory'[j][i - 1].verdict.threat
               PROVE  scoreHistory'[j][i].late
    BY DEF RepeatsOverlap
  <2>1. CASE scoreHistory'[j] = scoreHistory[j]
    BY <2>1 DEF HInv, RepeatsOverlap
  <2>2. CASE j = p /\ scoreHistory'[j] = Append(h, e) /\ i \in 1 .. Len(h)
    <3>1. i - 1 \in 1 .. Len(h)
      BY <1>3, <2>2
    <3>2. scoreHistory'[j][i] = h[i] /\ scoreHistory'[j][i - 1] = h[i - 1]
      BY <1>3, <2>2, <3>1
    <3>3. i \in DOMAIN scoreHistory[j] /\ h = scoreHistory[j]
      BY <1>3, <2>2
    <3> QED BY <2>2, <3>2, <3>3 DEF HInv, RepeatsOverlap
  <2>3. CASE j = p /\ scoreHistory'[j] = Append(h, e) /\ i = Len(h) + 1
    <3>1. Len(h) # 0 /\ Len(h) \in 1 .. Len(h) /\ i - 1 = Len(h)
      BY <1>3, <2>3
    <3>2. scoreHistory'[j][i] = e /\ scoreHistory'[j][i - 1] = h[Len(h)]
      BY <1>3, <2>3, <3>1
    <3>3. /\ h[Len(h)].verdict.why = rverdict[r].why
          /\ h[Len(h)].verdict.threat = rverdict[r].threat
      BY <3>2
    <3>4. ~Changed(p, rverdict[r])
      BY <3>1, <3>3 DEF Changed, LastVerdict
    <3>5. rseen[r] # Len(h) /\ rseen[r] <= Len(h)
      BY <1>1, <3>4 DEF HInv, Seen
    <3>6. rseen[r] < Len(h)
      BY <1>2, <1>3, <3>5
    <3>7. e.late = (rseen[r] < Len(h))
      OBVIOUS
    <3> HIDE DEF e, h
    <3> QED BY <3>2, <3>6, <3>7, Zenon
  <2>4. scoreHistory'[j] = scoreHistory[j] \/ i \in 1 .. Len(h) + 1
    BY <1>3, <1>7
  <2>5. i \in 1 .. Len(h) + 1 => i \in 1 .. Len(h) \/ i = Len(h) + 1
    BY <1>3
  <2> QED BY <1>7, <2>1, <2>2, <2>3, <2>4, <2>5
<1> QED BY <1>6, <1>8, <1>9 DEF HInv

\* Every other step leaves the timeline and what is about to be added to it.
LEMMA OthersLogged ==
    ASSUME SInv, HInv, RenderNext, \A r \in Renders : ~Save(r)
    PROVE  HInv'
<1>0. /\ rpc \in [Renders -> {"idle", "mem", "db", "fill", "enqueue", "send", "row", "save"}]
      /\ rpath \in [Renders -> Paths \cup {NoPath}]
  BY DEF SInv, RowsTyped
<1>1. ASSUME UNCHANGED <<scoreHistory, rverdict, rseen>>, rendersLeft' \in 0 .. MaxRenders,
             \A r \in Renders : /\ rpc'[r] = "save" <=> rpc[r] = "save"
                                /\ rpc[r] = "save" => rpath'[r] = rpath[r]
      PROVE  HInv'
  <2>1. ScoreTyped'
    BY <1>1 DEF HInv, ScoreTyped
  <2>2. Seen'
    BY <1>1 DEF HInv, Seen, Changed, LastVerdict
  <2>3. RepeatsOverlap'
    BY <1>1 DEF HInv, RepeatsOverlap
  <2> QED BY <2>1, <2>2, <2>3 DEF HInv
<1>2. rendersLeft \in 0 .. MaxRenders
  BY DEF HInv, ScoreTyped
<1>3. ASSUME NEW r \in Renders, LookStep(r), UNCHANGED scoreVars PROVE HInv'
  <2>1. \A q \in Renders : /\ rpc'[q] = "save" <=> rpc[q] = "save"
                           /\ rpc[q] = "save" => rpath'[q] = rpath[q]
    BY <1>0, <1>3 DEF LookStep, LookInMemory, LookInTable, Fill, Mark, Send, SendFull, Goto, Got
  <2> QED BY <1>1, <1>2, <1>3, <2>1 DEF scoreVars
<1>4. ASSUME NEW r \in Renders, NEW p \in Paths, BeginRow(r, p) PROVE HInv'
  <2>1. \A q \in Renders : /\ rpc'[q] = "save" <=> rpc[q] = "save"
                           /\ rpc[q] = "save" => rpath'[q] = rpath[q]
    BY <1>0, <1>4 DEF BeginRow, Stat, Goto
  <2>2. rendersLeft' \in 0 .. MaxRenders
    BY <1>2, <1>4, RestAssumption DEF BeginRow
  <2> QED BY <1>1, <1>4, <2>1, <2>2 DEF BeginRow
<1>5. ASSUME NEW r \in Renders, Score(r) PROVE HInv'
  <2> PICK c \in Rest :
        LET p == rpath[r]
            v == threatScore([c EXCEPT !.sig = Status(rsig[r])])
        IN \/ Changed(p, v) /\ ToSave(r, v, Len(scoreHistory[p]))
           \/ ToSave(r, v, 0)
           \/ RowDone(r) /\ UNCHANGED <<rverdict, rseen>>
    BY <1>5 DEF Score
  <2> DEFINE v == threatScore([c EXCEPT !.sig = Status(rsig[r])])
             n == Len(scoreHistory[rpath[r]])
  <2>1. rpc[r] = "row" /\ rpath[r] \in Paths /\ UNCHANGED <<scoreHistory, rendersLeft>>
    BY <1>5, PathAssumption DEF Score, SInv, RowsTyped
  <2>2. v \in Verdicts /\ v # NoVerdict
    BY ScoreHasReason
  <2>3. n \in Nat
    BY <2>1, LenProperties DEF HInv, ScoreTyped
  <2>4. CASE RowDone(r) /\ UNCHANGED <<rverdict, rseen>>
    <3>1. \A q \in Renders : /\ rpc'[q] = "save" <=> rpc[q] = "save"
                             /\ rpc[q] = "save" => rpath'[q] = rpath[q]
      BY <1>0, <2>1, <2>4 DEF RowDone, Goto
    <3> QED BY <1>1, <1>2, <2>1, <2>4, <3>1
  <2>5. ASSUME NEW seen \in {0, n}, ToSave(r, v, seen), seen = n => Changed(rpath[r], v)
        PROVE  HInv'
    <3>0. /\ Goto(r, "save") /\ UNCHANGED rpath /\ seen \in Nat /\ seen <= n
          /\ rverdict' = [rverdict EXCEPT ![r] = v]
          /\ rseen' = [rseen EXCEPT ![r] = seen]
      BY <2>3, <2>5 DEF ToSave
    <3>1. /\ rpc'[r] = "save" /\ \A q \in Renders \ {r} : rpc'[q] = rpc[q]
      BY <1>0, <3>0 DEF Goto
    <3> HIDE DEF v
    <3>2. ScoreTyped'
      <4> HIDE DEF n
      <4> QED BY <2>1, <2>2, <3>0, <3>1 DEF HInv, ScoreTyped
    <3>3. /\ rverdict'[r] = v /\ rseen'[r] = seen
          /\ \A q \in Renders \ {r} : rverdict'[q] = rverdict[q] /\ rseen'[q] = rseen[q]
      BY <3>0 DEF HInv, ScoreTyped
    <3>4. Seen'
      <4>1. ASSUME NEW q \in Renders \ {r}, rpc'[q] = "save"
            PROVE  /\ rpc[q] = "save" /\ rpath'[q] = rpath[q]
                   /\ rverdict'[q] = rverdict[q] /\ rseen'[q] = rseen[q]
        BY <3>0, <3>1, <3>3, <4>1
      <4>2. /\ rseen'[r] <= Len(scoreHistory'[rpath'[r]])
            /\ rseen'[r] = Len(scoreHistory'[rpath'[r]]) => Changed(rpath[r], v)
        BY <2>1, <2>3, <2>5, <3>0, <3>3
      <4>3. \A p, w : Changed(p, w)' <=> Changed(p, w)
        BY <2>1 DEF Changed, LastVerdict
      <4>4. ASSUME NEW q \in Renders, rpc'[q] = "save"
            PROVE  /\ rseen'[q] <= Len(scoreHistory'[rpath'[q]])
                   /\ rseen'[q] = Len(scoreHistory'[rpath'[q]]) => Changed(rpath'[q], rverdict'[q])
        <5>1. CASE q = r
          BY <3>0, <3>3, <4>2, <5>1
        <5>2. CASE q # r
          BY <2>1, <4>1, <4>4, <5>2 DEF HInv, Seen
        <5> QED BY <5>1, <5>2
      <4> QED BY <4>3, <4>4 DEF Seen
    <3>5. RepeatsOverlap'
      BY <2>1 DEF HInv, RepeatsOverlap
    <3> QED BY <3>2, <3>4, <3>5 DEF HInv
  <2>6. n = 0 => Changed(rpath[r], v)
    BY DEF Changed, LastVerdict
  <2> QED BY <2>4, <2>5, <2>6
<1>6. CASE SigWorkerStep /\ UNCHANGED scoreVars
  <2>1. UNCHANGED renderVars
    BY <1>6 DEF SigWorkerStep, Receive, Drained, QueryFails, Query, Store, Clear
  <2> QED BY <1>1, <1>2, <1>6, <2>1 DEF scoreVars, renderVars
<1>7. CASE \E p \in Paths : (Replace(p) \/ Delete(p)) /\ UNCHANGED scoreVars
  <2>1. UNCHANGED renderVars /\ UNCHANGED scoreVars
    BY <1>7 DEF Replace, Delete
  <2> QED BY <1>1, <1>2, <2>1 DEF scoreVars, renderVars
<1>8. CASE RenderRestart
  BY <1>8 DEF RenderRestart, SigRestart, HInv, ScoreTyped, Seen, RepeatsOverlap
<1> QED BY <1>3, <1>4, <1>5, <1>6, <1>7, <1>8 DEF RenderNext, RowStep

-----------------------------------------------------------------------------

AllInv == SInv /\ OldInv /\ PInv /\ HInv

\* A first start has nothing cached, queued or logged.
LEMMA RenderStart == RenderInit => AllInv
<1> SUFFICES ASSUME RenderInit PROVE AllInv
  OBVIOUS
<1>1. SInv
  BY SigStart DEF RenderInit
<1>2. OldInv
  BY DEF RenderInit, SigInit, OldInv, NothingOlder, Answered
<1>3. PInv
  <2>1. SendingBut({}) = {} /\ InHand = {}
    BY NoMembers DEF RenderInit, SigInit, SendingBut, InHand
  <2> QED BY <2>1, NoMembers DEF RenderInit, SigInit, PInv, Placed, Apart
<1>4. HInv
  <2>1. <<>> \in Seq(Changes) /\ DOMAIN <<>> = {}
    BY EmptySeq
  <2> QED BY <2>1, RestAssumption DEF RenderInit, SigInit, HInv, ScoreTyped, Seen, RepeatsOverlap
<1> QED BY <1>1, <1>2, <1>3, <1>4 DEF AllInv

\* No step breaks any of it.
LEMMA AllKept ==
    ASSUME AllInv, RenderNext
    PROVE  AllInv'
<1> USE DEF AllInv
<1>1. HInv'
  <2>1. CASE \E r \in Renders : Save(r)
    BY <2>1, SaveLogged
  <2>2. CASE \A r \in Renders : ~Save(r)
    BY <2>2, OthersLogged
  <2> QED BY <2>1, <2>2
<1>2. ASSUME NEW r \in Renders, RowStep(r) \/ \E p \in Paths : BeginRow(r, p)
      PROVE  SInv' /\ OldInv' /\ PInv'
  <2>1. LookStep(r) \/ (\E p \in Paths : Stat(r, p)) \/ Score(r) \/ Save(r)
    BY <1>2 DEF RowStep, BeginRow
  <2> QED BY <2>1, LookTyped, RowTyped, RowNotOlder, RowPlaced
<1>3. ASSUME SigWorkerStep PROVE SInv' /\ OldInv' /\ PInv'
  BY <1>3, WorkerKeepsTypes, WorkerNotOlder, WorkerPlaced
<1>4. ASSUME (\E p \in Paths : Replace(p) \/ Delete(p)) \/ SigRestart
      PROVE  SInv' /\ OldInv' /\ PInv'
  BY <1>4, OthersTyped, OthersNotOlder, OthersPlaced
<1>5. SInv' /\ OldInv' /\ PInv'
  BY <1>2, <1>3, <1>4 DEF RenderNext, RenderRestart
<1> QED BY <1>1, <1>5

\* A stutter changes none of it.
LEMMA AllRests == AllInv /\ UNCHANGED tableVars => AllInv'
<1> SUFFICES ASSUME AllInv, UNCHANGED tableVars PROVE AllInv'
  OBVIOUS
<1>0. UNCHANGED <<fileVars, cacheVars, queueVars, renderVars, workerVars, faultsLeft, scoreVars>>
  BY DEF tableVars, sigVars
<1>1. SInv'
  BY <1>0, SigRests DEF AllInv, SInv
<1>2. OldInv'
  BY <1>0 DEF AllInv, OldInv, NothingOlder, Answered, OfItsFile, fileVars, cacheVars, renderVars,
              workerVars
<1>3. PInv'
  BY <1>0 DEF AllInv, PInv, Placed, Apart, InHand, SendingBut, OnceEach, Members, queueVars,
              renderVars, workerVars
<1>4. HInv'
  BY <1>0 DEF AllInv, HInv, ScoreTyped, Seen, RepeatsOverlap, Changed, LastVerdict, scoreVars,
              renderVars
<1> QED BY <1>1, <1>2, <1>3, <1>4 DEF AllInv

\* The conjunction is inductive.
LEMMA RenderAlways == RenderSpec => []AllInv
<1>1. AllInv /\ [RenderNext]_tableVars => AllInv'
  BY AllKept, AllRests
<1> QED BY <1>1, RenderStart, PTL DEF RenderSpec

\* Renders and the worker agree on what is queued, in hand and marked, a path is asked
\* about once at a time, and no marker is left that keeps a path out for good, for
\* any renders, paths, restarts, queue and batch (enqueueSig, sigWorker).
THEOREM RenderSafety == RenderSpec => []RenderInv
<1>1. AllInv => RenderInv
  <2> SUFFICES ASSUME AllInv PROVE RenderTypeOK /\ OneInProgress
    BY DEF RenderInv
  <2>1. SigTypeOK
    BY SigRests DEF AllInv
  <2>2. OneInProgress
    BY PlacedIsOne DEF AllInv, PInv
  <2> QED BY <2>1, <2>2 DEF AllInv, HInv, ScoreTyped, Changes, RenderTypeOK
<1> QED BY <1>1, RenderAlways, PTL

\* A signature is shown and kept for the file it was taken of, unless the platform did
\* not answer or the file came while its path was being asked about, whatever is
\* replaced, removed, put back or restarted (checkSignatures, resolveSignatures).
THEOREM SignaturesAreCurrent == RenderSpec => []NothingOlder
<1>1. AllInv => NothingOlder
  BY DEF AllInv, OldInv
<1> QED BY <1>1, RenderAlways, PTL

\* The risk timeline is a log of changes but for renders that overlap and for those
\* that could not read the last one (recordScoreChange, dbLastScore), whatever rows
\* and failures there are.
THEOREM TimelineIsLog == RenderSpec => []RepeatsOverlap
<1>1. AllInv => RepeatsOverlap
  BY DEF AllInv, HInv
<1> QED BY <1>1, RenderAlways, PTL

-----------------------------------------------------------------------------
(* The threat score *)

Keys == {"vt", "path_staging", "path_untrusted", "port", "spawn", "exfil", "cpu", "creds", "execmap",
         "unsigned", "sig", "vtip", "abuse_att", "abuse", "c2", "threatfox", "spamhaus", "tor", "cves"}

\* What the points of any row are; only those of AbuseIPDB are not whole.
LEMMA PointsAre ==
    ASSUME NEW c \in Rows
    PROVE  /\ About(c) \in Enrichment
           /\ DOMAIN Points(c) = Keys
           /\ \A k \in DOMAIN Points(c) : Points(c)[k] \in Nat
           /\ \A k \in DOMAIN Points(c) \ {"abuse_att", "abuse"} :
                 Points(c)[k] = 10 * (Points(c)[k] \div 10)
           /\ Points(c)["abuse_att"] = 0 \/ Points(c)["abuse"] = 0
<1>1. About(c) \in Enrichment
  <2>1. Clean \in Enrichment
    BY DEF Clean, Enrichment, NoScore
  <2>2. c.enrich \in {{}} \cup {{e} : e \in Enrichment}
    BY DEF Rows
  <2>3. \A e \in c.enrich : e \in Enrichment
    BY <2>2
  <2>4. c.enrich # {} => (CHOOSE e \in c.enrich : TRUE) \in c.enrich
    OBVIOUS
  <2> QED BY <2>1, <2>3, <2>4 DEF About
<1>2. DOMAIN Points(c) = Keys
  BY DEF Points, Keys
<1>3. \A k \in DOMAIN Points(c) : Points(c)[k] \in Nat
  BY <1>1, <1>2 DEF Keys, Points, When, Detections, Enrichment, Rows, NoScore, Unresolved, NotInVT
<1>4. \A k \in DOMAIN Points(c) \ {"abuse_att", "abuse"} : Points(c)[k] = 10 * (Points(c)[k] \div 10)
  BY <1>1, <1>2 DEF Keys, Points, When, Detections, Enrichment, Rows, NoScore, Unresolved, NotInVT
<1>5. Points(c)["abuse_att"] = 0 \/ Points(c)["abuse"] = 0
  BY <1>1 DEF Points, When, Enrichment
<1> QED BY <1>1, <1>2, <1>3, <1>4, <1>5

\* The row d shows all that c shows, and is trusted no more.
NoBetter(d, c) ==
    /\ d.wlExe \/ d.wlIP => c.wlExe \/ c.wlIP
    /\ c.vt > 0 => d.vt >= c.vt
    /\ c.staging => d.staging
    /\ c.downloads => d.downloads
    /\ c.port => d.port
    /\ c.spawn => d.spawn
    /\ c.egress => d.egress
    /\ c.cpu => d.cpu
    /\ c.creds => d.creds
    /\ c.exec => d.exec
    /\ c.sig = "NotSigned" => d.sig = "NotSigned"
    /\ c.sig = "bad" => d.sig \in {"bad", "NotSigned"}

\* Nor does its address, for what is said of it.
NoBetterAddress(g, e) ==
    /\ e.vt > 0 => g.vt >= e.vt
    /\ e.abuse > 0 => g.abuse >= e.abuse
    /\ g.provider => e.provider
    /\ e.c2 => g.c2
    /\ e.threatfox => g.threatfox
    /\ e.spamhaus => g.spamhaus
    /\ e.tor => g.tor
    /\ e.vulns => g.vulns

\* The score is a whole number from 0 to 100 and grows with the points.
LEMMA WholeGrows ==
    ASSUME NEW m \in Nat, NEW n \in Nat, m <= n
    PROVE  Whole(m) \in 0 .. 100 /\ Whole(m) <= Whole(n)
BY DEF Whole

\* Whoever shows more has no fewer points, although signals exclude each other: those
\* of the path, of the signature and of AbuseIPDB are compared together.
LEMMA MorePoints ==
    ASSUME NEW c \in Rows, NEW d \in Rows, NoBetter(d, c), NoBetterAddress(About(d), About(c))
    PROVE  /\ Total(Points(c)) \in Nat /\ Total(Points(d)) \in Nat
           /\ Total(Points(c)) <= Total(Points(d))
<1> DEFINE p == Points(c)
           q == Points(d)
           e == About(c)
           g == About(d)
<1>0. e \in Enrichment /\ g \in Enrichment
  BY PointsAre
<1>1. p.vt <= q.vt /\ p.vtip <= q.vtip
  <2>1. \A m, n \in Nat \cup {-1, -2} : (m > 0 => n >= m) => Detections(m) <= Detections(n)
    BY DEF Detections
  <2>2. /\ \A n \in Nat \cup {-1, -2} : Detections(n) \in Nat
        /\ c.vt \in Nat \cup {-1, -2} /\ d.vt \in Nat \cup {-1, -2}
        /\ e.vt \in Nat \cup {-1, -2} /\ g.vt \in Nat \cup {-1, -2}
    BY <1>0 DEF Detections, Rows, Enrichment, Unresolved, NotInVT, NoScore
  <2>3. /\ Detections(c.vt) <= Detections(d.vt) /\ Detections(e.vt) <= Detections(g.vt)
    BY <2>1, <2>2 DEF NoBetter, NoBetterAddress
  <2>4. /\ p.vt = 60 * Detections(c.vt) /\ q.vt = 60 * Detections(d.vt)
        /\ p.vtip = 40 * Detections(e.vt) /\ q.vtip = 40 * Detections(g.vt)
    BY DEF Points
  <2> QED BY <2>2, <2>3, <2>4
<1>2. p.path_staging + p.path_untrusted <= q.path_staging + q.path_untrusted
  BY DEF Points, NoBetter, When, Path, Rows
<1>3. p.port <= q.port /\ p.spawn <= q.spawn /\ p.creds <= q.creds /\ p.execmap <= q.execmap
  BY DEF Points, NoBetter, When, Rows
<1>4. p.exfil <= q.exfil /\ p.cpu <= q.cpu
  BY DEF Points, NoBetter, When, Suspect, Rows
<1>5. p.unsigned + p.sig <= q.unsigned + q.sig
  BY DEF Points, NoBetter, When, Rows
<1>6. p.abuse_att + p.abuse <= q.abuse_att + q.abuse
  BY <1>0 DEF Points, NoBetterAddress, When, Enrichment, NoScore
<1>7. /\ p.c2 <= q.c2 /\ p.threatfox <= q.threatfox /\ p.spamhaus <= q.spamhaus
      /\ p.tor <= q.tor /\ p.cves <= q.cves
  BY <1>0 DEF Points, NoBetterAddress, When, Enrichment
<1>8. /\ \A k \in DOMAIN p : p[k] \in Nat /\ q[k] \in Nat
      /\ DOMAIN p = Keys
  BY PointsAre
<1>9.  /\ p.vt \in Nat /\ p.path_staging \in Nat /\ p.path_untrusted \in Nat /\ p.port \in Nat
       /\ p.spawn \in Nat /\ p.exfil \in Nat /\ p.cpu \in Nat /\ p.creds \in Nat
       /\ p.execmap \in Nat /\ p.unsigned \in Nat /\ p.sig \in Nat /\ p.vtip \in Nat
       /\ p.abuse_att \in Nat /\ p.abuse \in Nat /\ p.c2 \in Nat /\ p.threatfox \in Nat
       /\ p.spamhaus \in Nat /\ p.tor \in Nat /\ p.cves \in Nat
  BY <1>8 DEF Keys
<1>10. /\ q.vt \in Nat /\ q.path_staging \in Nat /\ q.path_untrusted \in Nat /\ q.port \in Nat
       /\ q.spawn \in Nat /\ q.exfil \in Nat /\ q.cpu \in Nat /\ q.creds \in Nat
       /\ q.execmap \in Nat /\ q.unsigned \in Nat /\ q.sig \in Nat /\ q.vtip \in Nat
       /\ q.abuse_att \in Nat /\ q.abuse \in Nat /\ q.c2 \in Nat /\ q.threatfox \in Nat
       /\ q.spamhaus \in Nat /\ q.tor \in Nat /\ q.cves \in Nat
  BY <1>8 DEF Keys
<1> HIDE DEF p, q
<1>11. BinaryPoints(p) \in Nat /\ BinaryPoints(q) \in Nat /\ BinaryPoints(p) <= BinaryPoints(q)
  BY <1>1, <1>2, <1>3, <1>4, <1>5, <1>9, <1>10 DEF BinaryPoints
<1>12. AddressPoints(p) \in Nat /\ AddressPoints(q) \in Nat /\ AddressPoints(p) <= AddressPoints(q)
  BY <1>1, <1>6, <1>7, <1>9, <1>10 DEF AddressPoints
<1>13. Total(p) \in Nat /\ Total(q) \in Nat /\ Total(p) <= Total(q)
  BY <1>11, <1>12 DEF Total
<1> QED BY <1>13 DEF p, q

\* The score itself (threatScore).
LEMMA ScoreIsWhole ==
    ASSUME NEW c \in Rows
    PROVE  /\ c.wlExe \/ c.wlIP => threatScore(c).threat = 0
           /\ ~(c.wlExe \/ c.wlIP) => threatScore(c).threat = Whole(Total(Points(c)))
BY DEF threatScore

\* Of any two rows of which one shows all the other shows, and is trusted no more, it
\* has the higher score, however signals exclude or condition each other (threatScore).
THEOREM MoreScoresMore ==
    \A c, d \in Rows : NoBetter(d, c) /\ NoBetterAddress(About(d), About(c)) =>
        threatScore(d).threat >= threatScore(c).threat
<1> SUFFICES ASSUME NEW c \in Rows, NEW d \in Rows,
                    NoBetter(d, c), NoBetterAddress(About(d), About(c))
             PROVE  threatScore(d).threat >= threatScore(c).threat
  OBVIOUS
<1>1. /\ Total(Points(c)) \in Nat /\ Total(Points(d)) \in Nat
      /\ Total(Points(c)) <= Total(Points(d))
  BY MorePoints
<1>2. /\ Whole(Total(Points(c))) \in 0 .. 100 /\ Whole(Total(Points(d))) \in 0 .. 100
      /\ Whole(Total(Points(c))) <= Whole(Total(Points(d)))
  BY <1>1, WholeGrows
<1>3. d.wlExe \/ d.wlIP => c.wlExe \/ c.wlIP
  BY DEF NoBetter
<1> HIDE DEF NoBetter, NoBetterAddress
<1> QED BY <1>2, <1>3, ScoreIsWhole

\* The address of a row of which something is known.
LEMMA AboutKnown ==
    ASSUME NEW e \in Enrichment, NEW c, c.enrich = {e}
    PROVE  About(c) = e
BY DEF About

\* What is known of the address of a row.
LEMMA EnrichIs ==
    ASSUME NEW c \in Rows
    PROVE  c.enrich = {} \/ \E e \in Enrichment : c.enrich = {e}
BY DEF Rows

\* What a change of what is known of an address makes of a row.
LEMMA Enriched ==
    ASSUME NEW c \in Rows, NEW g \in Enrichment,
           NoBetterAddress(g, About(c)), NEW d, d = [c EXCEPT !.enrich = {g}]
    PROVE  d \in Rows /\ NoBetter(d, c) /\ NoBetterAddress(About(d), About(c))
<1>1. {g} \in {{}} \cup {{e} : e \in Enrichment}
  OBVIOUS
<1>2. d \in Rows /\ d.enrich = {g}
  BY <1>1 DEF Rows
<1>3. NoBetter(d, c)
  BY DEF Rows, NoBetter, Unresolved, NotInVT
<1> QED BY <1>2, <1>3, AboutKnown

\* What another verdict on the binary, signature or signal makes of a row.
LEMMA Rescored ==
    ASSUME NEW c \in Rows, NEW d \in Rows, d.enrich = c.enrich
    PROVE  NoBetterAddress(About(d), About(c))
<1>1. About(d) = About(c)
  BY DEF About
<1>2. About(c) \in Enrichment
  BY PointsAre
<1> QED BY <1>1, <1>2 DEF NoBetterAddress, Enrichment, NoScore

\* A row with one more signal shows all that the row shows.
LEMMA WorseIsNoBetter ==
    ASSUME NEW c \in Rows, NEW d \in Worse(c)
    PROVE  d \in Rows /\ NoBetter(d, c) /\ NoBetterAddress(About(d), About(c))
<1>1. ASSUME NEW f \in {"staging", "downloads", "port", "spawn", "egress", "cpu", "creds", "exec"},
             d = [c EXCEPT ![f] = TRUE]
      PROVE  d \in Rows /\ d.enrich = c.enrich /\ NoBetter(d, c)
  <2>1. d \in Rows /\ d.enrich = c.enrich
    BY <1>1 DEF Rows
  <2>2. d.wlExe = c.wlExe /\ d.wlIP = c.wlIP /\ d.vt = c.vt /\ d.sig = c.sig
    BY <1>1 DEF Rows
  <2>3. \A g \in {"staging", "downloads", "port", "spawn", "egress", "cpu", "creds", "exec"} : c[g] => d[g]
    BY <1>1 DEF Rows
  <2>4. /\ c.staging => d.staging
        /\ c.downloads => d.downloads
        /\ c.port => d.port
        /\ c.spawn => d.spawn
        /\ c.egress => d.egress
        /\ c.cpu => d.cpu
        /\ c.creds => d.creds
        /\ c.exec => d.exec
    BY <2>3
  <2>5. c.vt > 0 => c.vt >= c.vt
    BY DEF Rows, Unresolved, NotInVT
  <2> QED BY <2>1, <2>2, <2>4, <2>5 DEF NoBetter
<1>2. ASSUME d = [c EXCEPT !.vt = IF @ < 0 THEN 1 ELSE @ + 3]
      PROVE  d \in Rows /\ d.enrich = c.enrich /\ NoBetter(d, c)
  BY <1>2 DEF Rows, NoBetter, Unresolved, NotInVT
<1>3. ASSUME d = [c EXCEPT !.sig = "NotSigned"]
      PROVE  d \in Rows /\ d.enrich = c.enrich /\ NoBetter(d, c)
  BY <1>3 DEF Rows, NoBetter, Unresolved, NotInVT
<1>4. ASSUME NEW e \in c.enrich, NEW f \in {"c2", "threatfox", "spamhaus", "tor", "vulns"},
             d = [c EXCEPT !.enrich = {[e EXCEPT ![f] = TRUE]}]
      PROVE  d \in Rows /\ NoBetter(d, c) /\ NoBetterAddress(About(d), About(c))
  <2>1. e \in Enrichment /\ c.enrich = {e}
    BY EnrichIs
  <2>2. About(c) = e
    BY <2>1, AboutKnown
  <2>3. [e EXCEPT ![f] = TRUE] \in Enrichment /\ NoBetterAddress([e EXCEPT ![f] = TRUE], e)
    <3> DEFINE g == [e EXCEPT ![f] = TRUE]
    <3>1. g \in Enrichment
      BY <2>1 DEF Enrichment
    <3>2. g.vt = e.vt /\ g.abuse = e.abuse /\ g.provider = e.provider
      BY <2>1 DEF Enrichment
    <3>3. \A k \in {"c2", "threatfox", "spamhaus", "tor", "vulns"} : e[k] => g[k]
      BY <2>1 DEF Enrichment
    <3>4. /\ e.c2 => g.c2
          /\ e.threatfox => g.threatfox
          /\ e.spamhaus => g.spamhaus
          /\ e.tor => g.tor
          /\ e.vulns => g.vulns
      BY <3>3
    <3>5. (e.vt > 0 => e.vt >= e.vt) /\ (e.abuse > 0 => e.abuse >= e.abuse)
      BY <2>1 DEF Enrichment, NoScore
    <3> HIDE DEF g
    <3> QED BY <3>1, <3>2, <3>4, <3>5 DEF NoBetterAddress, g
  <2> QED BY <1>4, <2>2, <2>3, Enriched
<1> QED BY <1>1, <1>2, <1>3, <1>4, Rescored DEF Worse

\* A row of which something becomes known shows all that it showed.
LEMMA ResolvedIsNoBetter ==
    ASSUME NEW c \in Rows, NEW d \in Resolved(c)
    PROVE  d \in Rows /\ NoBetter(d, c) /\ NoBetterAddress(About(d), About(c))
<1>1. ASSUME NEW n \in IF c.vt = Unresolved THEN {NotInVT, 0, 7} ELSE {c.vt},
             d = [c EXCEPT !.vt = n]
      PROVE  d \in Rows /\ d.enrich = c.enrich /\ NoBetter(d, c)
  BY <1>1 DEF Rows, NoBetter, Unresolved, NotInVT
<1>2. ASSUME NEW s \in IF c.sig = "PENDING" THEN {"neutral", "NotSigned"} ELSE {c.sig},
             d = [c EXCEPT !.sig = s]
      PROVE  d \in Rows /\ d.enrich = c.enrich /\ NoBetter(d, c)
  BY <1>2 DEF Rows, NoBetter, Unresolved, NotInVT
<1>3. ASSUME NEW e \in IF c.enrich = {} THEN {Clean} ELSE c.enrich, d = [c EXCEPT !.enrich = {e}]
      PROVE  d \in Rows /\ NoBetter(d, c) /\ NoBetterAddress(About(d), About(c))
  <2>1. About(c) = e
    BY EnrichIs, AboutKnown DEF About
  <2>2. e \in Enrichment
    BY <2>1, PointsAre
  <2>3. NoBetterAddress(e, e)
    BY <2>2 DEF NoBetterAddress, Enrichment, NoScore
  <2> QED BY <1>3, <2>1, <2>2, <2>3, Enriched
<1> QED BY <1>1, <1>2, <1>3, Rescored DEF Resolved

\* Of all rows: a further signal never lowers the score (threatScore).
LEMMA SignalsRaise == NeverLowers(Rows)
BY WorseIsNoBetter, MoreScoresMore DEF NeverLowers

\* Of all rows: none with a public address is called clean while something is left to
\* resolve (coverageIncomplete).
LEMMA CleanHasAll ==
    ASSUME NEW c \in Rows, c.public, threatScore(c).why = Only("clean")
    PROVE  c.vt # Unresolved /\ c.enrich # {} /\ c.sig # "PENDING"
<1>1. \A x \in Reasons(c) : x.tenths > 0
  BY PointsAre DEF Reasons, Reason
<1>2. Reasons(c) # Only("clean")
  <2>1. Reason("clean", 0, 0) \in Only("clean") /\ Reason("clean", 0, 0).tenths = 0
    BY DEF Only, Reason
  <2> QED BY <1>1, <2>1
<1>3. /\ Only("wl_exe") # Only("clean") /\ Only("wl_ip") # Only("clean")
      /\ Only("partial") # Only("clean")
  <2>1. \A key \in {"wl_exe", "wl_ip", "partial"} : Reason(key, 0, 0).key # Reason("clean", 0, 0).key
    BY DEF Reason
  <2> QED BY <2>1 DEF Only
<1>4. ~CoverageIncomplete(c)
  BY <1>2, <1>3 DEF threatScore
<1> QED BY <1>4 DEF CoverageIncomplete

\* What is complete does not change by being resolved.
LEMMA CompleteRests ==
    ASSUME NEW c \in Rows, c.vt # Unresolved, c.enrich # {}, c.sig # "PENDING", NEW d \in Resolved(c)
    PROVE  d = c
<1>1. \A e \in c.enrich : c.enrich = {e}
  BY EnrichIs
<1>2. /\ [c EXCEPT !.vt = c.vt] = c /\ [c EXCEPT !.sig = c.sig] = c
      /\ [c EXCEPT !.enrich = c.enrich] = c
  BY DEF Rows
<1> QED BY <1>1, <1>2 DEF Resolved

\* Of all rows: no verdict that arrives later lowers the score, and none makes a row
\* that was called clean another one ("a zero score is only clean if we actually
\* managed to check the key signals", coverageIncomplete).
LEMMA UnknownIsFair == UnknownNeverConvicts(Rows)
<1>1. \A c \in Rows : \A d \in Resolved(c) : threatScore(d).threat >= threatScore(c).threat
  BY ResolvedIsNoBetter, MoreScoresMore
<1>2. \A c \in Rows : c.public /\ threatScore(c).why = Only("clean") => \A d \in Resolved(c) : d = c
  BY CleanHasAll, CompleteRests
<1> QED BY <1>1, <1>2 DEF UnknownNeverConvicts

\* The breakdown has for each signal its points, truncated.
LEMMA ShownIs ==
    ASSUME NEW c \in Rows, NEW k \in Keys
    PROVE  Shown(Reasons(c), k) = Points(c)[k] \div 10
<1> DEFINE pts == Points(c)
           rs == {r \in Reasons(c) : r.key = k}
           arg(j) == IF j \in DOMAIN Quoted(c) THEN Quoted(c)[j] ELSE 0
<1>1. Reasons(c) = {Reason(j, pts[j], arg(j)) : j \in {j \in Keys : pts[j] > 0}}
  BY PointsAre DEF Reasons
<1>2. pts[k] \in Nat
  BY PointsAre
<1> HIDE DEF pts, arg
<1>3. \A r \in rs : r.tenths = pts[k] /\ pts[k] > 0
  BY <1>1 DEF Reason
<1>4. pts[k] > 0 => Reason(k, pts[k], arg(k)) \in rs
  BY <1>1 DEF Reason
<1>5. CASE pts[k] > 0
  <2>1. (CHOOSE r \in rs : TRUE) \in rs
    BY <1>4, <1>5
  <2>2. (CHOOSE r \in rs : TRUE).tenths = pts[k]
    BY <1>3, <2>1
  <2> QED BY <2>1, <2>2 DEF Shown, pts
<1>6. CASE ~(pts[k] > 0)
  <2>1. rs = {} /\ pts[k] = 0
    BY <1>2, <1>3, <1>6
  <2> QED BY <2>1 DEF Shown, pts
<1> QED BY <1>5, <1>6

\* A verdict without reasons shows no points.
LEMMA NothingShown ==
    ASSUME NEW key \in {"wl_exe", "wl_ip", "partial", "clean"}, NEW k \in Keys
    PROVE  Shown(Only(key), k) = 0
<1>1. key # k
  BY DEF Keys
<1>2. {r \in Only(key) : r.key = k} = {}
  BY <1>1 DEF Only, Reason
<1> QED BY <1>2 DEF Shown

\* Where there are no reasons there are no points.
LEMMA NoReasonNoPoints ==
    ASSUME NEW c \in Rows, Reasons(c) = {}, NEW k \in Keys
    PROVE  Points(c)[k] = 0
<1>1. Points(c)[k] \in Nat /\ DOMAIN Points(c) = Keys
  BY PointsAre
<1>2. ~(Points(c)[k] > 0)
  <2> DEFINE pts == Points(c)
             arg(j) == IF j \in DOMAIN Quoted(c) THEN Quoted(c)[j] ELSE 0
  <2>1. Reasons(c) = {Reason(j, pts[j], arg(j)) : j \in {j \in Keys : pts[j] > 0}}
    BY <1>1 DEF Reasons
  <2> HIDE DEF pts, arg
  <2>2. ~(pts[k] > 0)
    BY <2>1
  <2> QED BY <2>2 DEF pts
<1> QED BY <1>1, <1>2

\* What is lost by truncating each number is less than one point, since only those of
\* AbuseIPDB have tenths and there is one of them.
LEMMA TruncatedTotal ==
    ASSUME NEW p \in [Keys -> Nat],
           \A k \in Keys \ {"abuse_att", "abuse"} : p[k] = 10 * (p[k] \div 10),
           p["abuse_att"] = 0 \/ p["abuse"] = 0,
           NEW q \in [Keys -> Nat], \A k \in Keys : q[k] = p[k] \div 10
    PROVE  /\ Total(p) \in Nat /\ Total(q) \in Nat
           /\ \E r \in 0 .. 9 : Total(p) = 10 * Total(q) + r
<1>1. \A k \in Keys : p[k] \in Nat /\ q[k] \in Nat
  OBVIOUS
<1>2. /\ \A k \in Keys \ {"abuse_att", "abuse"} : p[k] = 10 * q[k]
      /\ \A k \in {"abuse_att", "abuse"} : \E r \in 0 .. 9 : p[k] = 10 * q[k] + r
  BY <1>1 DEF Keys
<1>3. BinaryPoints(p) = 10 * BinaryPoints(q) /\ BinaryPoints(q) \in Nat
  <2>1. PICK a, b, c, d, e, f, g, h, i, j, k \in Nat :
          /\ q.vt = a /\ q.path_staging = b /\ q.path_untrusted = c /\ q.port = d /\ q.spawn = e
          /\ q.exfil = f /\ q.cpu = g /\ q.creds = h /\ q.execmap = i /\ q.unsigned = j /\ q.sig = k
    BY <1>1 DEF Keys
  <2>2. /\ p.vt = 10 * a /\ p.path_staging = 10 * b /\ p.path_untrusted = 10 * c /\ p.port = 10 * d
        /\ p.spawn = 10 * e /\ p.exfil = 10 * f /\ p.cpu = 10 * g /\ p.creds = 10 * h
        /\ p.execmap = 10 * i /\ p.unsigned = 10 * j /\ p.sig = 10 * k
    BY <1>2, <2>1 DEF Keys
  <2>3. BinaryPoints(q) = a + b + c + d + e + f + g + h + i + j + k
    BY <2>1 DEF BinaryPoints
  <2>4. BinaryPoints(p) = 10 * a + 10 * b + 10 * c + 10 * d + 10 * e + 10 * f + 10 * g + 10 * h
                          + 10 * i + 10 * j + 10 * k
    BY <2>2 DEF BinaryPoints
  <2>5. 10 * a + 10 * b + 10 * c + 10 * d + 10 * e + 10 * f + 10 * g + 10 * h + 10 * i + 10 * j + 10 * k
        = 10 * (a + b + c + d + e + f + g + h + i + j + k)
    OBVIOUS
  <2> QED BY <2>3, <2>4, <2>5
<1>4. AddressPoints(q) \in Nat /\ \E r \in 0 .. 9 : AddressPoints(p) = 10 * AddressPoints(q) + r
  <2>1. PICK a, b, c, d, e, f, g, h \in Nat :
          /\ q.vtip = a /\ q.abuse_att = b /\ q.abuse = c /\ q.c2 = d /\ q.threatfox = e
          /\ q.spamhaus = f /\ q.tor = g /\ q.cves = h
    BY <1>1 DEF Keys
  <2>2. /\ p.vtip = 10 * a /\ p.c2 = 10 * d /\ p.threatfox = 10 * e
        /\ p.spamhaus = 10 * f /\ p.tor = 10 * g /\ p.cves = 10 * h
    BY <1>2, <2>1 DEF Keys
  <2>3. PICK r, t \in 0 .. 9 : p.abuse_att = 10 * b + r /\ p.abuse = 10 * c + t /\ r + t \in 0 .. 9
    <3>1. PICK r, t \in 0 .. 9 : p["abuse_att"] = 10 * b + r /\ p["abuse"] = 10 * c + t
      BY <1>2, <2>1
    <3>2. r = 0 \/ t = 0
      BY <3>1
    <3> QED BY <3>1, <3>2
  <2>4. AddressPoints(q) = a + b + c + d + e + f + g + h
    BY <2>1 DEF AddressPoints
  <2>5. AddressPoints(p) = 10 * a + (10 * b + r) + (10 * c + t) + 10 * d + 10 * e + 10 * f + 10 * g + 10 * h
    BY <2>2, <2>3 DEF AddressPoints
  <2>6. 10 * a + (10 * b + r) + (10 * c + t) + 10 * d + 10 * e + 10 * f + 10 * g + 10 * h
        = 10 * (a + b + c + d + e + f + g + h) + (r + t)
    OBVIOUS
  <2> QED BY <2>3, <2>4, <2>5, <2>6
<1> QED BY <1>3, <1>4 DEF Total

\* The cap and the truncation of a sum.
LEMMA WholeIs ==
    ASSUME NEW n \in Nat, NEW r \in 0 .. 9
    PROVE  Whole(10 * n + r) = IF n > 100 THEN 100 ELSE n
BY DEF Whole

\* Without points the sum is nothing.
LEMMA NoTotal ==
    ASSUME NEW q, \A k \in Keys : q[k] = 0
    PROVE  Total(q) = 0
<1>1. /\ q.vt = 0 /\ q.path_staging = 0 /\ q.path_untrusted = 0 /\ q.port = 0 /\ q.spawn = 0
      /\ q.exfil = 0 /\ q.cpu = 0 /\ q.creds = 0 /\ q.execmap = 0 /\ q.unsigned = 0 /\ q.sig = 0
      /\ q.vtip = 0 /\ q.abuse_att = 0 /\ q.abuse = 0 /\ q.c2 = 0 /\ q.threatfox = 0
      /\ q.spamhaus = 0 /\ q.tor = 0 /\ q.cves = 0
  BY DEF Keys
<1>2. BinaryPoints(q) = 0
  BY <1>1 DEF BinaryPoints
<1>3. AddressPoints(q) = 0
  BY <1>1 DEF AddressPoints
<1> QED BY <1>2, <1>3 DEF Total

\* Of all rows: what the breakdown shows adds up to the score (add, finish).
LEMMA BreakdownAddsUp == AddsUp(Rows)
<1> SUFFICES ASSUME NEW c \in Rows
             PROVE  LET v == threatScore(c)
                        points == Total([k \in DOMAIN Points(c) |-> Shown(v.why, k)])
                    IN v.threat = IF points > 100 THEN 100 ELSE points
  BY DEF AddsUp
<1> DEFINE why == threatScore(c).why
           shown == [k \in Keys |-> Shown(why, k)]
<1>1. DOMAIN Points(c) = Keys
  BY PointsAre
<1>2. CASE c.wlExe \/ c.wlIP
  <2>1. why \in {Only("wl_exe"), Only("wl_ip")}
    BY <1>2 DEF threatScore
  <2>2. \A k \in Keys : shown[k] = 0
    BY <2>1, NothingShown
  <2>3. Total(shown) = 0
    <3> HIDE DEF shown
    <3> QED BY <2>2, NoTotal
  <2> QED BY <1>1, <1>2, <2>3, ScoreIsWhole
<1>3. CASE ~(c.wlExe \/ c.wlIP)
  <2>1. \A k \in Keys : shown[k] = Points(c)[k] \div 10
    <3>1. CASE Reasons(c) # {}
      <4>1. why = Reasons(c)
        BY <1>3, <3>1 DEF threatScore
      <4> QED BY <4>1, ShownIs
    <3>2. CASE Reasons(c) = {}
      <4>1. why \in {Only("partial"), Only("clean")}
        BY <1>3, <3>2 DEF threatScore
      <4>2. \A k \in Keys : shown[k] = 0
        BY <4>1, NothingShown
      <4>3. \A k \in Keys : Points(c)[k] = 0
        BY <3>2, NoReasonNoPoints
      <4> QED BY <4>2, <4>3
    <3> QED BY <3>1, <3>2
  <2>2. Points(c) \in [Keys -> Nat]
    <3>1. \A k \in Keys : Points(c)[k] \in Nat
      BY PointsAre
    <3>2. Points(c) = [k \in Keys |-> Points(c)[k]]
      BY <1>1 DEF Points
    <3> QED BY <3>1, <3>2
  <2>3. shown \in [Keys -> Nat]
    <3>1. \A k \in Keys : shown[k] \in Nat
      BY <2>1, <2>2
    <3> QED BY <3>1
  <2>4. /\ \A k \in Keys \ {"abuse_att", "abuse"} : Points(c)[k] = 10 * (Points(c)[k] \div 10)
        /\ Points(c)["abuse_att"] = 0 \/ Points(c)["abuse"] = 0
    BY PointsAre
  <2>5. /\ Total(shown) \in Nat
        /\ \E r \in 0 .. 9 : Total(Points(c)) = 10 * Total(shown) + r
    <3> HIDE DEF shown
    <3> QED BY <2>1, <2>2, <2>3, <2>4, TruncatedTotal
  <2>6. Whole(Total(Points(c))) = IF Total(shown) > 100 THEN 100 ELSE Total(shown)
    BY <2>5, WholeIs
  <2> QED BY <1>1, <1>3, <2>6, ScoreIsWhole
<1> QED BY <1>2, <1>3

\* Of every row there can be: a further signal never lowers the score, what is not known
\* yet counts neither against the row nor as clean, and the points shown add up to the
\* score (threatScore, coverageIncomplete).
THEOREM ScoreOfEveryRow == NeverLowers(Rows) /\ UnknownNeverConvicts(Rows) /\ AddsUp(Rows)
BY SignalsRaise, UnknownIsFair, BreakdownAddsUp

-----------------------------------------------------------------------------
(* The flags of traffic and load *)

\* A reading is put at the end, and no other is touched.
LEMMA Reading ==
    ASSUME NEW h \in Seq(Readings), NEW r \in Readings
    PROVE  /\ Append(h, r) \in Seq(Readings)
           /\ Len(h) \in Nat /\ Len(Append(h, r)) = Len(h) + 1
           /\ DOMAIN h = 1 .. Len(h) /\ DOMAIN Append(h, r) = 1 .. Len(h) + 1
           /\ \A i \in 1 .. Len(h) : Append(h, r)[i] = h[i] /\ h[i] \in Readings
           /\ Append(h, r)[Len(h) + 1] = r
           /\ h = <<>> <=> Len(h) = 0
           /\ Append(h, r) # <<>>
BY AppendProperties, LenProperties, EmptySeq, ElementOfSeq

\* A counter that is not read is zero.
LEMMA CounterIsNat ==
    ASSUME NEW r \in Readings, NEW f \in Counters
    PROVE  /\ Counter(r, f) \in Nat
           /\ IsRead(r, f) => Counter(r, f) = r.count[f]
           /\ ~IsRead(r, f) => Counter(r, f) = 0
BY DEF Counter, Readings

\* The same as the program sees it: in the interval before a reading no counter went
\* back as read, and one rose at the rate or faster; and it did in the last n intervals.
HotInterval(h, i, f, perUnit) ==
    /\ i > 1 /\ ~Ends(h, i)
    /\ Counter(h[i], f) - Counter(h[i - 1], f) >= perUnit * (h[i].at - h[i - 1].at)

Sustained(h, n, f, perUnit) ==
    Len(h) > n /\ \A i \in Len(h) - n + 1 .. Len(h) : HotInterval(h, i, f, perUnit)

\* One reading is before another: the time goes on, and so do the counters of a process.
Before(q, r) ==
    /\ q.at < r.at /\ q.proc <= r.proc
    /\ q.proc = r.proc => \A f \in Counters : q.count[f] <= r.count[f]

InOrder(h) == \A i \in DOMAIN h : i > 1 => Before(h[i - 1], h[i])

\* A rate is not reached by nothing.
LEMMA RateIsMore ==
    ASSUME NEW k \in Nat \ {0}, NEW d \in Nat \ {0}
    PROVE  k * d > 0
OBVIOUS

\* What the program sees as sustained was so, but for a number that changed hands and a
\* first reading that failed; what was so and was read, it sees.
LEMMA SeenIsSustained ==
    ASSUME NEW h \in Seq(Readings), InOrder(h), NEW n \in Nat \ {0}, NEW f \in Counters,
           NEW k \in Nat \ {0}
    PROVE  /\ Sustained(h, n, f, k) => SustainedAtLeast(h, n, f, k)
           /\ SustainedPlainly(h, n, f, k) => Sustained(h, n, f, k)
<1>1. Len(h) \in Nat /\ DOMAIN h = 1 .. Len(h) /\ \A i \in 1 .. Len(h) : h[i] \in Readings
  BY LenProperties, ElementOfSeq
<1>2. ASSUME NEW i \in 2 .. Len(h)
      PROVE  /\ h[i] \in Readings /\ h[i - 1] \in Readings /\ Before(h[i - 1], h[i])
             /\ k * (h[i].at - h[i - 1].at) \in Nat \ {0}
  <2>1. i \in 1 .. Len(h) /\ i - 1 \in 1 .. Len(h) /\ i > 1
    BY <1>1
  <2>2. Before(h[i - 1], h[i])
    BY <1>1, <2>1 DEF InOrder
  <2>3. h[i].at - h[i - 1].at \in Nat \ {0}
    BY <1>1, <2>1, <2>2 DEF Before, Readings
  <2>4. k * (h[i].at - h[i - 1].at) > 0 /\ k * (h[i].at - h[i - 1].at) \in Nat
    BY <2>3, RateIsMore
  <2> QED BY <1>1, <2>1, <2>2, <2>4
<1>3. ASSUME NEW i \in 2 .. Len(h), HotInterval(h, i, f, k)
      PROVE  /\ IsRead(h[i], f)
             /\ IsRead(h[i - 1], f) => Hot(h, i, f, k) \/ (h[i].proc # h[i - 1].proc /\ ~Ends(h, i))
  <2>1. /\ Counter(h[i], f) \in Nat /\ Counter(h[i - 1], f) \in Nat
        /\ ~IsRead(h[i], f) => Counter(h[i], f) = 0
        /\ IsRead(h[i], f) => Counter(h[i], f) = h[i].count[f]
        /\ IsRead(h[i - 1], f) => Counter(h[i - 1], f) = h[i - 1].count[f]
    BY <1>2, CounterIsNat
  <2>2. Counter(h[i], f) - Counter(h[i - 1], f) >= k * (h[i].at - h[i - 1].at) /\ ~Ends(h, i)
    BY <1>3 DEF HotInterval
  <2>3. k * (h[i].at - h[i - 1].at) \in Nat \ {0}
    BY <1>2
  <2>4. Counter(h[i], f) # 0
    BY <2>1, <2>2, <2>3
  <2> QED BY <2>1, <2>2, <2>4 DEF Hot
<1>4. ASSUME Sustained(h, n, f, k) PROVE SustainedAtLeast(h, n, f, k)
  <2>1. Len(h) > n /\ Intervals(h, n) \subseteq 2 .. Len(h)
        /\ \A i \in Intervals(h, n) : HotInterval(h, i, f, k)
    BY <1>1, <1>4 DEF Sustained, Intervals
  <2>2. ASSUME NEW i \in Intervals(h, n), ~IsRead(h[i - 1], f) PROVE i = Len(h) - n + 1
    <3>1. i = Len(h) - n + 1 \/ i - 1 \in Intervals(h, n)
      BY <1>1 DEF Intervals
    <3>2. i - 1 \in Intervals(h, n) => IsRead(h[i - 1], f)
      BY <1>3, <2>1
    <3> QED BY <2>2, <3>1, <3>2
  <2> QED BY <1>3, <2>1, <2>2 DEF SustainedAtLeast
<1>5. ASSUME SustainedPlainly(h, n, f, k) PROVE Sustained(h, n, f, k)
  <2>1. Len(h) > n /\ Intervals(h, n) \subseteq 2 .. Len(h)
    BY <1>1, <1>5 DEF SustainedPlainly, Intervals
  <2>2. ASSUME NEW i \in Intervals(h, n) PROVE HotInterval(h, i, f, k)
    <3>1. /\ Hot(h, i, f, k) /\ i \in 2 .. Len(h)
          /\ h[i].io /\ h[i].res /\ h[i - 1].io /\ h[i - 1].res
      BY <1>5, <2>1, <2>2 DEF SustainedPlainly
    <3>2. /\ h[i] \in Readings /\ h[i - 1] \in Readings
          /\ \A g \in Counters : h[i - 1].count[g] <= h[i].count[g]
      BY <1>2, <3>1 DEF Before, Hot
    <3>3. \A g \in Counters : /\ Counter(h[i], g) = h[i].count[g]
                              /\ Counter(h[i - 1], g) = h[i - 1].count[g]
      BY <3>1, <3>2, CounterIsNat DEF IsRead
    <3>4. ~Ends(h, i)
      <4>1. \A g \in Counters : h[i].count[g] \in Nat /\ h[i - 1].count[g] \in Nat
        BY <3>2 DEF Readings
      <4> QED BY <3>2, <3>3, <4>1 DEF Ends
    <3> QED BY <3>1, <3>3, <3>4 DEF HotInterval, Hot
  <2> QED BY <2>1, <2>2 DEF Sustained, Intervals
<1> QED BY <1>4, <1>5

\* A reading does not change what the others say about the intervals before.
LEMMA IntervalsRest ==
    ASSUME NEW h \in Seq(Readings), NEW r \in Readings, NEW i \in 1 .. Len(h)
    PROVE  /\ Ends(Append(h, r), i) <=> Ends(h, i)
           /\ \A f, k : HotInterval(Append(h, r), i, f, k) <=> HotInterval(h, i, f, k)
<1>1. Append(h, r)[i] = h[i] /\ (i > 1 => Append(h, r)[i - 1] = h[i - 1])
  BY Reading
<1>2. Ends(Append(h, r), i) <=> Ends(h, i)
  BY <1>1 DEF Ends
<1> QED BY <1>1, <1>2 DEF HotInterval

\* A reading ends a streak, or makes it one longer.
LEMMA SustainedStep ==
    ASSUME NEW h \in Seq(Readings), NEW r \in Readings, NEW n \in Nat \ {0}, NEW f, NEW k
    PROVE  Sustained(Append(h, r), n, f, k) <=>
             /\ HotInterval(Append(h, r), Len(h) + 1, f, k)
             /\ n = 1 \/ Sustained(h, n - 1, f, k)
<1> DEFINE g == Append(h, r)
<1>1. Len(h) \in Nat /\ Len(g) = Len(h) + 1
  BY Reading
<1>2. \A i \in 1 .. Len(h) : HotInterval(g, i, f, k) <=> HotInterval(h, i, f, k)
  BY IntervalsRest
<1> HIDE DEF g
<1>3. HotInterval(g, Len(h) + 1, f, k) => Len(h) > 0
  BY <1>1 DEF HotInterval
<1>4. ASSUME Sustained(g, n, f, k)
      PROVE  HotInterval(g, Len(h) + 1, f, k) /\ (n = 1 \/ Sustained(h, n - 1, f, k))
  <2>1. HotInterval(g, Len(h) + 1, f, k)
    BY <1>1, <1>4 DEF Sustained
  <2>2. n # 1 => Sustained(h, n - 1, f, k)
    BY <1>1, <1>2, <1>4 DEF Sustained
  <2> QED BY <2>1, <2>2
<1>5. ASSUME HotInterval(g, Len(h) + 1, f, k), n = 1 \/ Sustained(h, n - 1, f, k)
      PROVE  Sustained(g, n, f, k)
  <2>1. Len(g) > n
    BY <1>1, <1>3, <1>5 DEF Sustained
  <2>2. ASSUME NEW i \in Len(g) - n + 1 .. Len(g) PROVE HotInterval(g, i, f, k)
    <3>1. CASE i = Len(h) + 1
      BY <1>5, <3>1
    <3>2. CASE i # Len(h) + 1
      <4>1. n # 1 /\ i \in Len(h) - (n - 1) + 1 .. Len(h) /\ i \in 1 .. Len(h)
        BY <1>1, <2>1, <3>2
      <4> QED BY <1>2, <1>5, <4>1 DEF Sustained
    <3> QED BY <3>1, <3>2
  <2> QED BY <2>1, <2>2 DEF Sustained
<1> QED BY <1>4, <1>5 DEF g

\* Nothing is sustained in a history of one reading or none.
LEMMA NothingSustained ==
    ASSUME NEW h \in Seq(Readings), Len(h) = 0, NEW n \in Nat \ {0}, NEW f, NEW k
    PROVE  ~Sustained(h, n, f, k)
BY DEF Sustained

\* The sample is that of the last reading, its streaks are those of the history.
Follows ==
    /\ sample.haveFirst <=> taken # <<>>
    /\ taken = <<>> => sample = NoSample
    /\ sample.at <= last.at
    /\ taken # <<>> =>
          /\ sample.at = taken[Len(taken)].at
          /\ \A f \in Counters : sample.count[f] = Counter(taken[Len(taken)], f)

Streaks ==
    /\ \A n \in Nat \ {0} : sample.hot >= n <=> Sustained(taken, n, "out", highEgress)
    /\ \A n \in Nat \ {0} : sample.cpuHot >= n <=> Sustained(taken, n, "cpu", cpuHot)
    /\ sample.rate.HighEgress <=> sample.hot >= egressHotSamples
    /\ sample.rate.HighCPU <=> sample.cpuHot >= cpuHotSamples

\* Whether the account has been looked up, of the process there is.
AccountKept ==
    taken # <<>> /\ Told(taken) =>
        /\ sample.userDone => sample.rate.user = taken[Len(taken)].owner
        /\ ~sample.userDone =>
              /\ sample.rate.user = NoAccount
              /\ \A i \in DOMAIN taken : taken[i].res => \E j \in i .. Len(taken) : Ends(taken, j)

\* The readings are in the order of time, and the process there is comes after them.
Ordered ==
    /\ InOrder(taken)
    /\ taken # <<>> => taken[Len(taken)] = last \/ Before(taken[Len(taken)], last)

VInv == VolumeTypeOK /\ Follows /\ Streaks /\ AccountKept /\ Ordered

\* What judging a reading leaves of a sample, and what of it is new.
LEMMA JudgedIs ==
    ASSUME NEW s \in Samples, NEW r \in Readings, r.at > s.at,
           \A f \in Counters : s.haveFirst /\ ~Decreased(s, r) => Rose(s, r, f) \in Nat
    PROVE  /\ Judged(s, r) \in Samples
           /\ ~s.haveFirst => Judged(s, r) = s
           /\ s.haveFirst /\ Decreased(s, r) =>
                 /\ Judged(s, r).hot = 0 /\ Judged(s, r).cpuHot = 0
                 /\ Judged(s, r).rate = NoRate /\ Judged(s, r).userDone = FALSE
           /\ s.haveFirst /\ ~Decreased(s, r) =>
                 /\ Judged(s, r).hot =
                       Streak(Rose(s, r, "out") >= highEgress * (r.at - s.at), s.hot)
                 /\ Judged(s, r).cpuHot =
                       Streak(Rose(s, r, "cpu") >= cpuHot * (r.at - s.at), s.cpuHot)
                 /\ Judged(s, r).rate.HighEgress <=> Judged(s, r).hot >= egressHotSamples
                 /\ Judged(s, r).rate.HighCPU <=> Judged(s, r).cpuHot >= cpuHotSamples
                 /\ Judged(s, r).rate.user = s.rate.user
                 /\ Judged(s, r).userDone = s.userDone
<1> DEFINE hot == Streak(Rose(s, r, "out") >= highEgress * (r.at - s.at), s.hot)
           cpu == Streak(Rose(s, r, "cpu") >= cpuHot * (r.at - s.at), s.cpuHot)
           out == Rose(s, r, "out") \div (r.at - s.at)
           up == hot >= egressHotSamples
           busy == cpu >= cpuHotSamples
           rate == [s.rate EXCEPT !.out = out, !.HighEgress = up, !.HighCPU = busy]
<1>1. ~(r.at <= s.at) /\ r.at - s.at \in Nat \ {0}
  BY DEF Samples, Readings
<1>2. hot \in Nat /\ cpu \in Nat
  BY DEF Streak, Samples
<1>3. CASE ~s.haveFirst
  BY <1>3 DEF Judged
<1>4. CASE s.haveFirst /\ Decreased(s, r)
  <2>1. Judged(s, r) = [s EXCEPT !.rate = NoRate, !.hot = 0, !.cpuHot = 0, !.userDone = FALSE]
    BY <1>1, <1>4 DEF Judged
  <2>2. NoRate \in Rates
    BY DEF NoRate, Rates
  <2> DEFINE j == [s EXCEPT !.rate = NoRate, !.hot = 0, !.cpuHot = 0, !.userDone = FALSE]
  <2>3. j.hot = 0 /\ j.cpuHot = 0 /\ j.rate = NoRate /\ j.userDone = FALSE
    BY DEF Samples
  <2>4. j \in Samples
    BY <2>2 DEF Samples
  <2> QED BY <1>4, <2>1, <2>3, <2>4
<1>5. CASE s.haveFirst /\ ~Decreased(s, r)
  <2>1. Rated(s, r) = [s EXCEPT !.hot = hot, !.cpuHot = cpu, !.rate = rate]
    BY DEF Rated
  <2>2. Judged(s, r) = Rated(s, r)
    BY <1>1, <1>5 DEF Judged
  <2>3. out \in Nat
    <3>1. Rose(s, r, "out") \in Nat
      BY <1>5 DEF Counters
    <3> QED BY <1>1, <3>1
  <2>6. up \in BOOLEAN /\ busy \in BOOLEAN
    OBVIOUS
  <2> HIDE DEF hot, cpu, out, up, busy
  <2>4. rate \in Rates /\ rate.HighEgress = up /\ rate.HighCPU = busy /\ rate.user = s.rate.user
    BY <2>3, <2>6 DEF Rates, Samples
  <2> HIDE DEF rate
  <2>7. Judged(s, r) = [s EXCEPT !.hot = hot, !.cpuHot = cpu, !.rate = rate]
    BY <2>1, <2>2
  <2>5. /\ Judged(s, r) \in Samples /\ Judged(s, r).hot = hot /\ Judged(s, r).cpuHot = cpu
        /\ Judged(s, r).rate = rate /\ Judged(s, r).userDone = s.userDone
    BY <1>2, <2>4, <2>7 DEF Samples
  <2> QED BY <1>5, <2>4, <2>5 DEF hot, cpu, up, busy
<1> QED BY <1>3, <1>4, <1>5

\* What folding a reading leaves of a sample: it has the counters of the reading, and
\* its account if none was looked up.
LEMMA FoldIs ==
    ASSUME NEW s \in Samples, NEW r \in Readings, Judged(s, r) \in Samples
    PROVE  LET j == Judged(s, r)
               t == sampleProcess(s, r)
           IN /\ t \in Samples /\ t.haveFirst /\ t.at = r.at
              /\ \A f \in Counters : t.count[f] = Counter(r, f)
              /\ t.hot = j.hot /\ t.cpuHot = j.cpuHot
              /\ t.rate.HighEgress = j.rate.HighEgress /\ t.rate.HighCPU = j.rate.HighCPU
              /\ r.res /\ ~s.userDone => t.rate.user = r.owner /\ t.userDone
              /\ ~(r.res /\ ~s.userDone) => t.rate.user = j.rate.user /\ t.userDone = j.userDone
<1> DEFINE j == Judged(s, r)
           count == [f \in Counters |-> Counter(r, f)]
           a == [j EXCEPT !.haveFirst = TRUE, !.at = r.at, !.count = count]
           rate == [a.rate EXCEPT !.user = r.owner]
           t == sampleProcess(s, r)
<1>1. count \in [Counters -> Nat] /\ \A f \in Counters : count[f] = Counter(r, f)
  BY CounterIsNat
<1>2. advance(s, r) = a
  BY DEF advance
<1>3. t = IF r.res /\ ~s.userDone THEN [a EXCEPT !.rate = rate, !.userDone = TRUE] ELSE a
  BY <1>2 DEF sampleProcess
<1> HIDE DEF count, t, j
<1>4. /\ a \in Samples /\ a.haveFirst /\ a.at = r.at /\ a.count = count
      /\ a.hot = j.hot /\ a.cpuHot = j.cpuHot /\ a.rate = j.rate /\ a.userDone = j.userDone
  BY <1>1 DEF Samples, Readings, j
<1> HIDE DEF a
<1>5. /\ rate \in Rates /\ rate.HighEgress = a.rate.HighEgress /\ rate.HighCPU = a.rate.HighCPU
      /\ rate.user = r.owner
  BY <1>4 DEF Samples, Rates, Readings
<1> HIDE DEF rate
<1>6. CASE r.res /\ ~s.userDone
  <2>1. /\ t \in Samples /\ t.haveFirst = a.haveFirst /\ t.at = a.at /\ t.count = a.count
        /\ t.hot = a.hot /\ t.cpuHot = a.cpuHot /\ t.rate = rate /\ t.userDone = TRUE
    BY <1>3, <1>4, <1>5, <1>6 DEF Samples
  <2> QED BY <1>1, <1>4, <1>5, <1>6, <2>1 DEF t, j
<1>7. CASE ~(r.res /\ ~s.userDone)
  BY <1>1, <1>3, <1>4, <1>7 DEF t, j
<1> QED BY <1>6, <1>7

\* The streaks after a reading are those of the history with it (advance).
LEMMA StreaksKept ==
    ASSUME VInv, NEW r \in Readings, r.at > last.at,
           sample' = sampleProcess(sample, r), taken' = Append(taken, r)
    PROVE  /\ sample' \in Samples /\ Streaks'
           /\ sample'.haveFirst /\ sample'.at = r.at
           /\ \A f \in Counters : sample'.count[f] = Counter(r, f)
           /\ sample.haveFirst /\ Decreased(sample, r) <=> Ends(taken', Len(taken'))
           /\ r.res /\ ~sample.userDone => sample'.rate.user = r.owner /\ sample'.userDone
           /\ ~(r.res /\ ~sample.userDone) =>
                 /\ Ends(taken', Len(taken')) =>
                       sample'.rate.user = NoAccount /\ sample'.userDone = FALSE
                 /\ ~Ends(taken', Len(taken')) =>
                       sample'.rate.user = sample.rate.user /\ sample'.userDone = sample.userDone
<1> DEFINE s == sample
           n == Len(taken)
           j == Judged(s, r)
           HotNow(f, k) == HotInterval(taken', n + 1, f, k)
<1>1. /\ s \in Samples /\ taken \in Seq(Readings) /\ last \in Readings
      /\ s.at <= last.at
  BY DEF VInv, VolumeTypeOK, Follows
<1>2. /\ n \in Nat /\ Len(taken') = n + 1 /\ taken'[n + 1] = r
      /\ \A i \in 1 .. n : taken'[i] = taken[i] /\ taken[i] \in Readings
      /\ taken = <<>> <=> n = 0
  BY <1>1, Reading
<1>3. r.at > s.at
  BY <1>1 DEF Samples, Readings
<1>4. s.haveFirst => /\ n > 0 /\ taken'[(n + 1) - 1] = taken[n] /\ s.at = taken[n].at
                     /\ \A f \in Counters : s.count[f] = Counter(taken[n], f)
  BY <1>2 DEF VInv, Follows
<1>5. ~s.haveFirst => n = 0 /\ s = NoSample
  BY <1>2 DEF VInv, Follows
<1>6. s.haveFirst /\ Decreased(s, r) <=> Ends(taken', n + 1)
  <2>1. CASE s.haveFirst
    BY <1>2, <1>4, <2>1 DEF Decreased, Ends
  <2>2. CASE ~s.haveFirst
    BY <1>2, <1>5, <2>2 DEF Ends
  <2> QED BY <2>1, <2>2
<1>7. \A f \in Counters : s.haveFirst /\ ~Decreased(s, r) => Rose(s, r, f) \in Nat
  <2> SUFFICES ASSUME NEW f \in Counters, ~Decreased(s, r) PROVE Rose(s, r, f) \in Nat
    OBVIOUS
  <2>1. Counter(r, f) \in Nat /\ s.count[f] \in Nat
    BY <1>1, CounterIsNat DEF Samples
  <2>2. ~(Counter(r, f) < s.count[f])
    BY DEF Decreased
  <2> QED BY <2>1, <2>2 DEF Rose
<1>8. /\ j \in Samples
      /\ ~s.haveFirst => j = s
      /\ s.haveFirst /\ Decreased(s, r) =>
            j.hot = 0 /\ j.cpuHot = 0 /\ j.rate = NoRate /\ j.userDone = FALSE
      /\ s.haveFirst /\ ~Decreased(s, r) =>
            /\ j.hot = Streak(Rose(s, r, "out") >= highEgress * (r.at - s.at), s.hot)
            /\ j.cpuHot = Streak(Rose(s, r, "cpu") >= cpuHot * (r.at - s.at), s.cpuHot)
            /\ j.rate.HighEgress <=> j.hot >= egressHotSamples
            /\ j.rate.HighCPU <=> j.cpuHot >= cpuHotSamples
            /\ j.rate.user = s.rate.user
            /\ j.userDone = s.userDone
  BY <1>1, <1>3, <1>7, JudgedIs
<1>9. /\ sample' \in Samples /\ sample'.haveFirst /\ sample'.at = r.at
      /\ \A f \in Counters : sample'.count[f] = Counter(r, f)
      /\ sample'.hot = j.hot /\ sample'.cpuHot = j.cpuHot
      /\ sample'.rate.HighEgress = j.rate.HighEgress /\ sample'.rate.HighCPU = j.rate.HighCPU
      /\ r.res /\ ~s.userDone => sample'.rate.user = r.owner /\ sample'.userDone
      /\ ~(r.res /\ ~s.userDone) => sample'.rate.user = j.rate.user /\ sample'.userDone = j.userDone
  BY <1>1, <1>8, FoldIs
<1> HIDE DEF j
<1>10. /\ j.hot = Streak(HotNow("out", highEgress), s.hot)
       /\ j.cpuHot = Streak(HotNow("cpu", cpuHot), s.cpuHot)
       /\ j.rate.HighEgress <=> j.hot >= egressHotSamples
       /\ j.rate.HighCPU <=> j.cpuHot >= cpuHotSamples
  <2>1. CASE ~s.haveFirst
    <3>1. ~HotNow("out", highEgress) /\ ~HotNow("cpu", cpuHot)
      BY <1>5, <2>1 DEF HotInterval
    <3>2. /\ j.hot = 0 /\ j.cpuHot = 0 /\ j.rate.HighEgress = FALSE /\ j.rate.HighCPU = FALSE
      BY <1>5, <1>8, <2>1 DEF NoSample, NoRate
    <3> QED BY <3>1, <3>2, VolumeAssumption DEF Streak
  <2>2. CASE s.haveFirst /\ Decreased(s, r)
    <3>1. ~HotNow("out", highEgress) /\ ~HotNow("cpu", cpuHot)
      BY <1>6, <2>2 DEF HotInterval
    <3>2. /\ j.hot = 0 /\ j.cpuHot = 0 /\ j.rate.HighEgress = FALSE /\ j.rate.HighCPU = FALSE
      BY <1>8, <2>2 DEF NoRate
    <3> QED BY <3>1, <3>2, VolumeAssumption DEF Streak
  <2>3. CASE s.haveFirst /\ ~Decreased(s, r)
    <3>1. \A f \in Counters : \A k : HotNow(f, k) <=> Rose(s, r, f) >= k * (r.at - s.at)
      BY <1>2, <1>4, <1>6, <2>3 DEF HotInterval, Rose
    <3>2. HotNow("out", highEgress) <=> Rose(s, r, "out") >= highEgress * (r.at - s.at)
      BY <3>1 DEF Counters
    <3>3. HotNow("cpu", cpuHot) <=> Rose(s, r, "cpu") >= cpuHot * (r.at - s.at)
      BY <3>1 DEF Counters
    <3> QED BY <1>8, <2>3, <3>2, <3>3 DEF Streak
  <2> QED BY <2>1, <2>2, <2>3
<1>11. \A hot \in Nat, m \in Nat \ {0}, b \in BOOLEAN :
          Streak(b, hot) >= m <=> b /\ (m = 1 \/ hot >= m - 1)
  BY DEF Streak
<1>12. \A m \in Nat \ {0} : m # 1 => m - 1 \in Nat \ {0}
  OBVIOUS
<1>13. Streaks'
  <2> DEFINE Out == HotNow("out", highEgress)
             Cpu == HotNow("cpu", cpuHot)
  <2>0. Out \in BOOLEAN /\ Cpu \in BOOLEAN /\ s.hot \in Nat /\ s.cpuHot \in Nat
    BY <1>1 DEF HotInterval, Samples
  <2>1. \A m \in Nat \ {0} : sample'.hot >= m <=> Sustained(taken', m, "out", highEgress)
    <3> SUFFICES ASSUME NEW m \in Nat \ {0}
                 PROVE  sample'.hot >= m <=> Sustained(taken', m, "out", highEgress)
      OBVIOUS
    <3>1. Sustained(taken', m, "out", highEgress) <=>
            Out /\ (m = 1 \/ Sustained(taken, m - 1, "out", highEgress))
      BY <1>1, SustainedStep
    <3>2. m # 1 => (s.hot >= m - 1 <=> Sustained(taken, m - 1, "out", highEgress))
      BY <1>12 DEF VInv, Streaks
    <3>3. sample'.hot >= m <=> Out /\ (m = 1 \/ s.hot >= m - 1)
      <4> HIDE DEF Out
      <4>1. sample'.hot = Streak(Out, s.hot)
        BY <1>9, <1>10 DEF Out
      <4> QED BY <1>11, <2>0, <4>1
    <3> QED BY <3>1, <3>2, <3>3
  <2>2. \A m \in Nat \ {0} : sample'.cpuHot >= m <=> Sustained(taken', m, "cpu", cpuHot)
    <3> SUFFICES ASSUME NEW m \in Nat \ {0}
                 PROVE  sample'.cpuHot >= m <=> Sustained(taken', m, "cpu", cpuHot)
      OBVIOUS
    <3>1. Sustained(taken', m, "cpu", cpuHot) <=>
            Cpu /\ (m = 1 \/ Sustained(taken, m - 1, "cpu", cpuHot))
      BY <1>1, SustainedStep
    <3>2. m # 1 => (s.cpuHot >= m - 1 <=> Sustained(taken, m - 1, "cpu", cpuHot))
      BY <1>12 DEF VInv, Streaks
    <3>3. sample'.cpuHot >= m <=> Cpu /\ (m = 1 \/ s.cpuHot >= m - 1)
      <4> HIDE DEF Cpu
      <4>1. sample'.cpuHot = Streak(Cpu, s.cpuHot)
        BY <1>9, <1>10 DEF Cpu
      <4> QED BY <1>11, <2>0, <4>1
    <3> QED BY <3>1, <3>2, <3>3
  <2>3. /\ sample'.rate.HighEgress <=> sample'.hot >= egressHotSamples
        /\ sample'.rate.HighCPU <=> sample'.cpuHot >= cpuHotSamples
    BY <1>9, <1>10
  <2> QED BY <2>1, <2>2, <2>3 DEF Streaks
<1>14. /\ Ends(taken', n + 1) => j.rate.user = NoAccount /\ j.userDone = FALSE
       /\ ~Ends(taken', n + 1) => j.rate.user = s.rate.user /\ j.userDone = s.userDone
  BY <1>6, <1>8 DEF NoRate
<1> QED BY <1>2, <1>6, <1>9, <1>13, <1>14

\* The account shown is that of the process there is, wherever the counters tell
\* (sampleProcessIO): a reading that ends a process forgets it, any other keeps it.
LEMMA AccountIsKept ==
    ASSUME VInv, NEW r \in Readings, r.at > last.at,
           sample' = sampleProcess(sample, r), taken' = Append(taken, r)
    PROVE  AccountKept'
<1> DEFINE n == Len(taken)
           ends == Ends(taken', n + 1)
           EndedSince(h, i) == \E k \in i .. Len(h) : Ends(h, k)
<1>1. taken \in Seq(Readings)
  BY DEF VInv, VolumeTypeOK
<1>2. /\ n \in Nat /\ Len(taken') = n + 1 /\ taken'[n + 1] = r
      /\ \A i \in 1 .. n : taken'[i] = taken[i]
      /\ DOMAIN taken = 1 .. n /\ DOMAIN taken' = 1 .. n + 1
      /\ taken = <<>> <=> n = 0
  BY <1>1, Reading
<1>3. \A i \in 1 .. n : Ends(taken', i) <=> Ends(taken, i)
  BY <1>1, IntervalsRest
<1>4. /\ r.res /\ ~sample.userDone => sample'.rate.user = r.owner /\ sample'.userDone
      /\ ~(r.res /\ ~sample.userDone) =>
            /\ ends => sample'.rate.user = NoAccount /\ sample'.userDone = FALSE
            /\ ~ends => sample'.rate.user = sample.rate.user /\ sample'.userDone = sample.userDone
  <2>1. /\ r.res /\ ~sample.userDone => sample'.rate.user = r.owner /\ sample'.userDone
        /\ ~(r.res /\ ~sample.userDone) =>
              /\ Ends(taken', Len(taken')) =>
                    sample'.rate.user = NoAccount /\ sample'.userDone = FALSE
              /\ ~Ends(taken', Len(taken')) =>
                    sample'.rate.user = sample.rate.user /\ sample'.userDone = sample.userDone
    BY StreaksKept
  <2> QED BY <1>2, <2>1
<1>5. SUFFICES ASSUME Told(taken')
               PROVE  /\ sample'.userDone => sample'.rate.user = r.owner
                      /\ ~sample'.userDone =>
                            /\ sample'.rate.user = NoAccount
                            /\ \A i \in 1 .. n + 1 : taken'[i].res => EndedSince(taken', i)
  BY <1>2 DEF AccountKept
<1>6. Told(taken)
  <2> SUFFICES ASSUME NEW i \in 1 .. n, i > 1, taken[i].owner # taken[i - 1].owner
               PROVE  Ends(taken, i)
    BY <1>2 DEF Told
  <2>1. taken'[i] = taken[i] /\ taken'[i - 1] = taken[i - 1] /\ i \in 1 .. n + 1
    BY <1>2
  <2> QED BY <1>2, <1>3, <1>5, <2>1 DEF Told
<1>7. n > 0 /\ ~ends => r.owner = taken[n].owner
  BY <1>2, <1>5 DEF Told
<1>8. \A i \in 1 .. n : EndedSince(taken, i) => EndedSince(taken', i)
  BY <1>2, <1>3
<1>9. ends => \A i \in 1 .. n + 1 : EndedSince(taken', i)
  BY <1>2
<1>10. n = 0 => sample.userDone = FALSE /\ sample.rate.user = NoAccount
  BY <1>2 DEF VInv, Follows, NoSample, NoRate
<1>11. n > 0 => /\ sample.userDone => sample.rate.user = taken[n].owner
                /\ ~sample.userDone =>
                      /\ sample.rate.user = NoAccount
                      /\ \A i \in 1 .. n : taken[i].res => EndedSince(taken, i)
  BY <1>2, <1>6 DEF VInv, AccountKept
<1> HIDE DEF ends, EndedSince
<1>12. CASE r.res /\ ~sample.userDone
  BY <1>4, <1>12
<1>13. CASE ~(r.res /\ ~sample.userDone) /\ ends
  BY <1>4, <1>9, <1>13
<1>14. CASE ~(r.res /\ ~sample.userDone) /\ ~ends
  <2>1. sample'.rate.user = sample.rate.user /\ sample'.userDone = sample.userDone
    BY <1>4, <1>14
  <2>2. CASE n = 0
    <3>1. ~r.res
      BY <1>10, <1>14, <2>2
    <3> QED BY <1>2, <1>10, <2>1, <2>2, <3>1
  <2>3. CASE n # 0
    <3>1. sample.userDone => sample.rate.user = r.owner
      BY <1>2, <1>7, <1>11, <1>14, <2>3
    <3>2. ASSUME ~sample.userDone
          PROVE  \A i \in 1 .. n + 1 : taken'[i].res => EndedSince(taken', i)
      BY <1>2, <1>8, <1>11, <1>14, <2>3, <3>2
    <3> QED BY <1>2, <1>11, <2>1, <2>3, <3>1, <3>2
  <2> QED BY <2>2, <2>3
<1> QED BY <1>12, <1>13, <1>14

\* A reading follows the last one by some time, whichever process it is of.
LEMMA ReadingsFollow ==
    ASSUME last \in Readings
    PROVE  \A r \in NextReadings : r \in Readings /\ r.at > last.at /\ Before(last, r)
<1> SUFFICES ASSUME NEW x \in Steps, NEW a \in Accounts
             PROVE  LET r == [at |-> last.at + x.wait,
                              count |-> [f \in Counters |-> (IF x.another THEN 0 ELSE last.count[f]) + x.load[f]],
                              io |-> x.io, res |-> x.res,
                              proc |-> IF x.another THEN last.proc + 1 ELSE last.proc,
                              owner |-> IF x.another THEN a ELSE last.owner]
                    IN r \in Readings /\ r.at > last.at /\ Before(last, r)
  BY DEF NextReadings
<1>1. /\ x.wait \in Nat \ {0} /\ x.load \in [Counters -> Nat]
      /\ x.another \in BOOLEAN /\ x.io \in BOOLEAN /\ x.res \in BOOLEAN
  BY VolumeAssumption
<1>2. /\ last.at \in Nat /\ last.count \in [Counters -> Nat]
      /\ last.proc \in Nat /\ last.owner \in Accounts
  BY DEF Readings
<1>3. [f \in Counters |-> (IF x.another THEN 0 ELSE last.count[f]) + x.load[f]] \in [Counters -> Nat]
  BY <1>1, <1>2
<1>4. ~x.another => \A f \in Counters : last.count[f] <= last.count[f] + x.load[f]
  BY <1>1, <1>2
<1> QED BY <1>1, <1>2, <1>3, <1>4 DEF Readings, Before

\* What is read is after all that was read before.
LEMMA OrderKept ==
    ASSUME VInv, NEW r \in Readings, Before(last, r), last' = r
    PROVE  /\ taken' = Append(taken, r) => Ordered'
           /\ taken' = taken => Ordered'
<1> DEFINE n == Len(taken)
<1>1. taken \in Seq(Readings) /\ last \in Readings
  BY DEF VInv, VolumeTypeOK
<1>2. /\ n \in Nat /\ DOMAIN taken = 1 .. n /\ (taken = <<>> <=> n = 0)
      /\ \A i \in 1 .. n : taken[i] \in Readings
  BY <1>1, LenProperties, ElementOfSeq, EmptySeq
<1>3. n > 0 => Before(taken[n], r)
  <2>1. n > 0 => taken[n] = last \/ Before(taken[n], last)
    BY <1>2 DEF VInv, Ordered
  <2>2. \A q \in Readings : Before(q, last) => Before(q, r)
    <3> SUFFICES ASSUME NEW q \in Readings, Before(q, last) PROVE Before(q, r)
      OBVIOUS
    <3>1. q.at < r.at /\ q.proc <= r.proc
      BY <1>1 DEF Before, Readings
    <3>2. ASSUME q.proc = r.proc, NEW f \in Counters PROVE q.count[f] <= r.count[f]
      <4>1. q.proc = last.proc /\ last.proc = r.proc
        BY <1>1, <3>2 DEF Before, Readings
      <4>2. q.count[f] <= last.count[f] /\ last.count[f] <= r.count[f]
        BY <3>2, <4>1 DEF Before
      <4>3. q.count[f] \in Nat /\ last.count[f] \in Nat /\ r.count[f] \in Nat
        BY <1>1, <3>2 DEF Readings
      <4> QED BY <4>2, <4>3
    <3> QED BY <3>1, <3>2 DEF Before
  <2> QED BY <1>2, <2>1, <2>2
<1>4. ASSUME taken' = Append(taken, r) PROVE Ordered'
  <2>1. /\ Len(taken') = n + 1 /\ DOMAIN taken' = 1 .. n + 1
        /\ \A i \in 1 .. n : taken'[i] = taken[i]
        /\ taken'[n + 1] = r
    BY <1>1, <1>4, Reading
  <2>2. ASSUME NEW i \in 1 .. n + 1, i > 1 PROVE Before(taken'[i - 1], taken'[i])
    <3>1. CASE i = n + 1
      BY <1>2, <1>3, <2>1, <2>2, <3>1
    <3>2. CASE i # n + 1
      <4>1. i \in 1 .. n /\ i - 1 \in 1 .. n
        BY <1>2, <2>2, <3>2
      <4> QED BY <1>2, <2>1, <2>2, <4>1 DEF VInv, Ordered, InOrder
    <3> QED BY <3>1, <3>2
  <2> QED BY <2>1, <2>2 DEF Ordered, InOrder
<1>5. ASSUME taken' = taken PROVE Ordered'
  BY <1>2, <1>3, <1>5 DEF VInv, Ordered, InOrder
<1> QED BY <1>4, <1>5

\* No reading, no rate: before the first one, and after a sample was dropped.
LEMMA NothingRead ==
    sample = NoSample /\ taken = <<>> /\ last \in Readings =>
        sample \in Samples /\ taken \in Seq(Readings) /\ Follows /\ Streaks /\ AccountKept /\ Ordered
<1> SUFFICES ASSUME sample = NoSample, taken = <<>>, last \in Readings
             PROVE  /\ sample \in Samples /\ taken \in Seq(Readings)
                    /\ Follows /\ Streaks /\ AccountKept /\ Ordered
  OBVIOUS
<1>1. taken \in Seq(Readings) /\ Len(taken) = 0
  OBVIOUS
<1>2. NoSample \in Samples
  <2>1. NoRate \in Rates /\ NoCount \in [Counters -> Nat]
    BY DEF NoRate, Rates, NoCount
  <2> QED BY <2>1 DEF NoSample, Samples
<1>3. /\ sample.haveFirst = FALSE /\ sample.at = 0 /\ sample.hot = 0 /\ sample.cpuHot = 0
      /\ sample.rate.HighEgress = FALSE /\ sample.rate.HighCPU = FALSE
  BY DEF NoSample, NoRate
<1>4. Follows
  BY <1>3 DEF Follows, Readings
<1>5. Streaks
  <2>1. egressHotSamples \in Nat \ {0} /\ cpuHotSamples \in Nat \ {0}
    BY VolumeAssumption
  <2>2. \A n \in Nat \ {0} : ~Sustained(taken, n, "out", highEgress) /\ ~Sustained(taken, n, "cpu", cpuHot)
    BY <1>1, NothingSustained
  <2> QED BY <1>3, <2>1, <2>2 DEF Streaks
<1>6. AccountKept /\ Ordered
  BY DEF AccountKept, Ordered, InOrder
<1> QED BY <1>1, <1>2, <1>4, <1>5, <1>6

\* Every round of the monitor keeps the sample to the readings it was made of.
LEMMA VolumeStep ==
    ASSUME VInv, [sampleProcessIO]_volumeVars
    PROVE  VInv'
<1>1. CASE UNCHANGED volumeVars
  BY <1>1 DEF VInv, VolumeTypeOK, volumeVars, Follows, Streaks, AccountKept, Ordered
<1>2. CASE sampleProcessIO
  <2>1. last \in Readings
    BY DEF VInv, VolumeTypeOK
  <2>2. readingsLeft' \in 0 .. MaxReadings
    BY <1>2, VolumeAssumption DEF VInv, VolumeTypeOK, sampleProcessIO
  <2>3. PICK r \in NextReadings :
          /\ last' = r
          /\ \/ /\ r.io \/ r.res
                /\ sample' = sampleProcess(sample, r)
                /\ taken' = Append(taken, r)
             \/ /\ ~(r.io \/ r.res) /\ r.at - sample.at > ioSampleTTL
                /\ sample' = NoSample
                /\ taken' = <<>>
             \/ /\ ~(r.io \/ r.res) /\ r.at - sample.at <= ioSampleTTL
                /\ UNCHANGED <<sample, taken>>
    BY <1>2 DEF sampleProcessIO
  <2>4. r \in Readings /\ r.at > last.at /\ last' = r /\ Before(last, r)
    BY <2>1, <2>3, ReadingsFollow
  <2>5. CASE sample' = sampleProcess(sample, r) /\ taken' = Append(taken, r)
    <3>1. /\ sample' \in Samples /\ Streaks'
          /\ sample'.haveFirst /\ sample'.at = r.at
          /\ \A f \in Counters : sample'.count[f] = Counter(r, f)
      BY <2>4, <2>5, StreaksKept
    <3>2. AccountKept'
      BY <2>4, <2>5, AccountIsKept
    <3>3. taken' \in Seq(Readings) /\ taken' # <<>> /\ taken'[Len(taken')] = r
      BY <2>4, <2>5, Reading DEF VInv, VolumeTypeOK
    <3>4. Follows'
      BY <2>4, <3>1, <3>3 DEF Follows, Readings
    <3>5. Ordered'
      BY <2>4, <2>5, OrderKept
    <3> QED BY <2>2, <2>4, <3>1, <3>2, <3>3, <3>4, <3>5 DEF VInv, VolumeTypeOK
  <2>6. CASE sample' = NoSample /\ taken' = <<>>
    <3>1. (sample = NoSample /\ taken = <<>> /\ last \in Readings)'
      BY <2>4, <2>6
    <3>2. (/\ sample \in Samples /\ taken \in Seq(Readings)
           /\ Follows /\ Streaks /\ AccountKept /\ Ordered)'
      BY <3>1, NothingRead, PTL
    <3> QED BY <2>2, <2>4, <3>2 DEF VInv, VolumeTypeOK
  <2>7. CASE UNCHANGED <<sample, taken>>
    <3>1. sample.at <= last'.at
      BY <2>1, <2>4 DEF VInv, VolumeTypeOK, Samples, Readings, Follows
    <3>2. Follows' /\ Streaks' /\ AccountKept'
      BY <2>7, <3>1 DEF VInv, Follows, Streaks, AccountKept
    <3>3. Ordered'
      BY <2>4, <2>7, OrderKept
    <3> QED BY <2>2, <2>4, <2>7, <3>2, <3>3 DEF VInv, VolumeTypeOK
  <2> QED BY <2>3, <2>5, <2>6, <2>7
<1> QED BY <1>1, <1>2

LEMMA VolumeStart == VolumeInit => VInv
<1> SUFFICES ASSUME VolumeInit PROVE VInv
  OBVIOUS
<1>1. NoCount \in [Counters -> Nat]
  BY DEF NoCount
<1>2. last \in Readings
  <2>1. PICK a \in Accounts :
          last = [at |-> 0, count |-> NoCount, io |-> TRUE, res |-> TRUE, proc |-> 0, owner |-> a]
    BY DEF VolumeInit
  <2> QED BY <1>1, <2>1 DEF Readings
<1>3. readingsLeft \in 0 .. MaxReadings
  BY VolumeAssumption DEF VolumeInit
<1> QED BY <1>2, <1>3, NothingRead DEF VolumeInit, VInv, VolumeTypeOK

LEMMA VInvIsEnough == VInv => VolumeInv
<1> SUFFICES ASSUME VInv PROVE VolumeInv
  OBVIOUS
<1>1. {egressHotSamples, cpuHotSamples, highEgress, cpuHot} \subseteq Nat \ {0}
  BY VolumeAssumption
<1>2. FlagsAreSustained
  <2>1. /\ sample.rate.HighEgress <=> Sustained(taken, egressHotSamples, "out", highEgress)
        /\ sample.rate.HighCPU <=> Sustained(taken, cpuHotSamples, "cpu", cpuHot)
    BY <1>1 DEF VInv, Streaks
  <2>2. taken \in Seq(Readings) /\ InOrder(taken) /\ "out" \in Counters /\ "cpu" \in Counters
    BY DEF VInv, VolumeTypeOK, Ordered, Counters
  <2>3. /\ Sustained(taken, egressHotSamples, "out", highEgress)
              => SustainedAtLeast(taken, egressHotSamples, "out", highEgress)
        /\ SustainedPlainly(taken, egressHotSamples, "out", highEgress)
              => Sustained(taken, egressHotSamples, "out", highEgress)
    BY <1>1, <2>2, SeenIsSustained
  <2>4. /\ Sustained(taken, cpuHotSamples, "cpu", cpuHot)
              => SustainedAtLeast(taken, cpuHotSamples, "cpu", cpuHot)
        /\ SustainedPlainly(taken, cpuHotSamples, "cpu", cpuHot)
              => Sustained(taken, cpuHotSamples, "cpu", cpuHot)
    BY <1>1, <2>2, SeenIsSustained
  <2> QED BY <2>1, <2>3, <2>4 DEF FlagsAreSustained
<1>3. AccountIsCurrent
  <2> SUFFICES ASSUME taken # <<>>, Told(taken)
               PROVE  /\ sample.rate.user \in {NoAccount, taken[Len(taken)].owner}
                      /\ sample.rate.user = NoAccount =>
                            \A i \in DOMAIN taken : taken[i].res => \E j \in i .. Len(taken) : Ends(taken, j)
    BY DEF AccountIsCurrent
  <2>1. taken[Len(taken)].owner # NoAccount
    <3>1. Len(taken) \in 1 .. Len(taken) /\ taken \in Seq(Readings)
      BY DEF VInv, VolumeTypeOK
    <3>2. taken[Len(taken)] \in Readings
      BY <3>1
    <3> QED BY <3>2, VolumeAssumption DEF Readings
  <2>2. sample.userDone \in BOOLEAN
    BY DEF VInv, VolumeTypeOK, Samples
  <2> QED BY <2>1, <2>2 DEF VInv, AccountKept
<1> QED BY <1>2, <1>3 DEF VInv, VolumeInv

\* In every state of the volume sampler, for all rates, limits and readings: a flag of
\* traffic or load is up only if the process itself sustained it to the last reading, but
\* for one interval that began with a failed reading and those in which the number
\* changed hands unnoticed, and is up if it did and every reading succeeded; the account
\* is that of the process there is wherever the counters tell (advance, sampleProcessIO).
THEOREM VolumeSafety == VolumeSpec => []VolumeInv
<1>1. VolumeInit => VInv
  BY VolumeStart
<1>2. VInv /\ [sampleProcessIO]_volumeVars => VInv'
  BY VolumeStep
<1>3. VInv => VolumeInv
  BY VInvIsEnough
<1> QED BY <1>1, <1>2, <1>3, PTL DEF VolumeSpec

\* The rows of the run are rows.
LEMMA InputsAreRows == Inputs \subseteq Rows
<1>1. Addresses \subseteq Enrichment
  BY DEF Addresses, Enrichment, NoScore
<1>2. Clean \in Enrichment /\ [Clean EXCEPT !.c2 = TRUE, !.threatfox = TRUE] \in Enrichment
      /\ [Clean EXCEPT !.abuse = 9] \in Enrichment
  <2>1. Clean \in Enrichment
    BY DEF Clean, Enrichment
  <2>2. ASSUME NEW e \in Enrichment
        PROVE  [e EXCEPT !.c2 = TRUE] \in Enrichment
    BY DEF Enrichment
  <2>3. ASSUME NEW e \in Enrichment
        PROVE  [e EXCEPT !.threatfox = TRUE] \in Enrichment
    BY DEF Enrichment
  <2>4. ASSUME NEW e \in Enrichment, NEW n \in 0 .. 100
        PROVE  [e EXCEPT !.abuse = n] \in Enrichment
    BY DEF Enrichment
  <2>5. 9 \in 0 .. 100
    OBVIOUS
  <2>6. [Clean EXCEPT !.c2 = TRUE, !.threatfox = TRUE] = [[Clean EXCEPT !.c2 = TRUE] EXCEPT !.threatfox = TRUE]
    OBVIOUS
  <2> QED BY <2>1, <2>2, <2>3, <2>4, <2>5, <2>6
<1>3. Binaries \subseteq Rows
  <2> SUFFICES ASSUME NEW c \in Binaries PROVE c \in Rows
    OBVIOUS
  <2>1. c.enrich \in {{}} \cup {{e} : e \in Enrichment}
    BY <1>2 DEF Binaries
  <2>2. c.vt \in Nat \cup {Unresolved, NotInVT} /\ c.rate \in Nat
    BY DEF Binaries
  <2> HIDE DEF Enrichment, Clean
  <2> QED BY <2>1, <2>2 DEF Binaries, Rows
<1>4. Quiet \in Rows
  BY <1>2 DEF Quiet, Rows
<1>5. \A c \in Rows : \A e \in Enrichment : [c EXCEPT !.enrich = {e}] \in Rows
  BY DEF Rows
<1>6. Few \cup {[Quiet EXCEPT !.wlExe = TRUE], [Quiet EXCEPT !.wlIP = TRUE]} \subseteq Rows
  <2>1. [Quiet EXCEPT !.vt = Unresolved] \in Rows
    BY <1>4 DEF Rows
  <2>2. [Quiet EXCEPT !.enrich = {[Clean EXCEPT !.c2 = TRUE, !.threatfox = TRUE]}] \in Rows
    BY <1>2, <1>4, <1>5
  <2>3. [Quiet EXCEPT !.wlExe = TRUE] \in Rows /\ [Quiet EXCEPT !.wlIP = TRUE] \in Rows
    BY <1>4 DEF Rows
  <2> QED BY <2>1, <2>2, <2>3 DEF Few
<1> QED BY <1>1, <1>3, <1>4, <1>5, <1>6 DEF Inputs

\* The score of every row is sound, and so are the flags it reads, in every state
\* (threatScore, advance).
THEOREM ScoreSound == Spec => []ScoreIsSound
<1>1. RowsAreSound
  BY ScoreOfEveryRow, InputsAreRows DEF RowsAreSound, NeverLowers, UnknownNeverConvicts, AddsUp
<1>2. Init => VInv
  BY VolumeStart DEF Init
<1>3. VInv /\ [Next]_vars => VInv'
  BY VolumeStep DEF Next, vars, volumeVars
<1>4. VInv => ScoreIsSound
  BY <1>1, VInvIsEnough DEF ScoreIsSound
<1> QED BY <1>2, <1>3, <1>4, PTL DEF Spec
=============================================================================
