---------------------------- MODULE VTQueue_proofs ----------------------------
(***************************************************************************)
(* For any hashes, renders, queue and bucket: the pending set is exactly    *)
(* what is in the pipeline, each hash of it in one place, and NOT_IN_VT is  *)
(* true of what it is cached for.                                           *)
(***************************************************************************)
EXTENDS VTQueue, SequenceTheorems, TLAPS

(* The queue, by index *)

\* A hash sent to the queue is its last, and the others stay where they are.
LEMMA Sent ==
    ASSUME NEW q \in Seq(Hashes), NEW h \in Hashes
    PROVE  /\ Append(q, h) \in Seq(Hashes)
           /\ Len(Append(q, h)) = Len(q) + 1
           /\ DOMAIN q = 1 .. Len(q)
           /\ DOMAIN Append(q, h) = 1 .. Len(q) + 1
           /\ \A i \in 1 .. Len(q) : Append(q, h)[i] = q[i]
           /\ Append(q, h)[Len(q) + 1] = h
BY AppendProperties, LenProperties

\* What is received is the first, and the others move up by one.
LEMMA Received ==
    ASSUME NEW q \in Seq(Hashes), q # <<>>
    PROVE  /\ Head(q) = q[1] /\ Head(q) \in Hashes
           /\ Tail(q) \in Seq(Hashes)
           /\ Len(q) \in Nat \ {0}
           /\ Len(Tail(q)) = Len(q) - 1
           /\ DOMAIN q = 1 .. Len(q)
           /\ DOMAIN Tail(q) = 1 .. Len(q) - 1
           /\ \A i \in 1 .. Len(q) - 1 : Tail(q)[i] = q[i + 1]
BY HeadTailProperties, LenProperties, EmptySeq

----------------------------------------------------------------------------
(* Types *)

\* The bucket stays between empty and full.
LEMMA RateTyped ==
    ASSUME RateTypeOK
    PROVE  /\ Grant => RateTypeOK'
           /\ Rise => RateTypeOK'
           /\ UNCHANGED level => RateTypeOK'
           /\ level' = Cap => RateTypeOK'
BY RateAssumption DEF RateTypeOK, Grant, Rise, Lesser

\* Every step of a render keeps the types.
LEMMA RenderTyped ==
    ASSUME QTypeOK, NEW r \in Renderers, RenderStep(r) \/ \E h \in Hashes : CacheMiss(r, h)
    PROVE  QTypeOK'
<1> USE QueueAssumption, BudgetAssumption DEF QTypeOK, Verdicts
<1>1. ASSUME NEW h \in Hashes, CacheMiss(r, h) PROVE QTypeOK'
  <2>1. errLeft' \in 0 .. MaxErrors
    BY <1>1 DEF CacheMiss, Fails
  <2> QED BY <1>1, <2>1, RateTyped DEF CacheMiss
<1>2. CASE AlreadyPending(r)
  BY <1>2, RateTyped DEF AlreadyPending, Rendered
<1>3. CASE Mark(r)
  BY <1>3, RateTyped DEF Mark
<1>4. CASE Send(r)
  <2>1. rhash[r] \in Hashes
    BY <1>4 DEF Send
  <2>2. queue' \in Seq(Hashes) /\ Len(queue') <= QueueCap
    BY <1>4, <2>1, Sent, LenProperties DEF Send
  <2> QED BY <1>4, <2>2, RateTyped DEF Send, Rendered
<1>5. CASE SendFull(r)
  BY <1>5, RateTyped DEF SendFull, Rendered
<1> QED BY <1>1, <1>2, <1>3, <1>4, <1>5 DEF RenderStep

\* So does every step of the worker.
LEMMA WorkerTyped ==
    ASSUME QTypeOK, WorkerStep
    PROVE  QTypeOK'
<1> USE QueueAssumption, BudgetAssumption DEF QTypeOK, Verdicts
<1>1. CASE Recv
  <2>1. /\ queue' \in Seq(Hashes) /\ Len(queue') <= QueueCap
        /\ whash' \in Hashes
    BY <1>1, Received, LenProperties DEF Recv
  <2> QED BY <1>1, <2>1, RateTyped DEF Recv
<1>2. CASE TakeToken
  BY <1>2, RateTyped DEF TakeToken
<1>3. ASSUME NEW v \in {"none", "verdict", "NOT_IN_VT"}, wpc = "ask", Resolved(v)
      PROVE  /\ cache' \in [Hashes -> {"none", "verdict", "NOT_IN_VT"}]
             /\ wpc' = "unmark"
  BY <1>3 DEF Resolved
<1>4. CASE Answered
  BY <1>4, <1>3, RateTyped DEF Answered, Resolved
<1>5. CASE Unsaved \/ Failed
  <2>1. cache[whash] \in {"none", "verdict", "NOT_IN_VT"}
    BY <1>5 DEF Unsaved, Failed
  <2>2. errLeft' \in 0 .. MaxErrors
    BY <1>5 DEF Unsaved, Failed, Fails
  <2> QED BY <1>5, <1>3, <2>1, <2>2, RateTyped DEF Unsaved, Failed, Resolved
<1>6. CASE Unmark
  BY <1>6, RateTyped DEF Unmark
<1> QED BY <1>1, <1>2, <1>4, <1>5, <1>6 DEF WorkerStep

\* And every step of the rest of the program.
LEMMA OthersTyped ==
    ASSUME QTypeOK, IPLookup \/ SetKey \/ TimePasses \/ Restart
    PROVE  QTypeOK'
<1> USE QueueAssumption, BudgetAssumption DEF QTypeOK, Verdicts
<1>1. CASE IPLookup
  BY <1>1, RateTyped DEF IPLookup
<1>2. CASE SetKey
  BY <1>2, RateTyped DEF SetKey
<1>3. CASE TimePasses
  BY <1>3, RateTyped DEF TimePasses, qVars
<1>4. CASE Restart
  <2>1. queue' \in Seq(Hashes) /\ Len(queue') <= QueueCap
    BY <1>4, EmptySeq DEF Restart
  <2> QED BY <1>4, <2>1, RateTyped DEF Restart
<1> QED BY <1>1, <1>2, <1>3, <1>4

\* Every step keeps the types.
LEMMA QTyped == QTypeOK /\ [QNext]_vtVars => QTypeOK'
<1> SUFFICES ASSUME QTypeOK, [QNext]_vtVars PROVE QTypeOK'
  OBVIOUS
<1>1. CASE QNext
  BY <1>1, RenderTyped, WorkerTyped, OthersTyped DEF QNext
<1>2. CASE UNCHANGED vtVars
  BY <1>2 DEF vtVars, qVars, QTypeOK, RateTypeOK
<1> QED BY <1>1, <1>2

----------------------------------------------------------------------------
(* One carrier *)

\* The invariant, of which the carriers and the cache are parts; it is inductive as
\* it stands.
QInv == QTypeOK /\ MarkedOnce /\ MarkedMoves /\ AbsentIsTrue

\* Where a hash is, for short.
Carried(h) == Queued(h) \/ AtWorker(h) \/ \E r \in Renderers : Offered(r, h)

\* No hash is marked or carried at first.
LEMMA InitInv == QInit => QInv
<1> SUFFICES ASSUME QInit PROVE QInv
  OBVIOUS
<1>1. QTypeOK
  BY RateAssumption, QueueAssumption, BudgetAssumption, EmptySeq
     DEF QInit, QTypeOK, RateInit, RateTypeOK, Verdicts
<1>2. \A h \in Hashes : ~Queued(h)
  BY DEF QInit, Queued
<1>3. MarkedOnce
  BY <1>2 DEF QInit, MarkedOnce, AtWorker, Offered
<1>4. MarkedMoves /\ AbsentIsTrue
  BY DEF QInit, MarkedMoves, AbsentIsTrue
<1> QED BY <1>1, <1>3, <1>4 DEF QInv

\* Of a hash that no step of the pipeline touches nothing changes.
LEMMA Untouched ==
    ASSUME QInv, QTypeOK', UNCHANGED <<queue, pending, wpc, whash>>,
           \A r \in Renderers : (rpc'[r] = "marked" <=> rpc[r] = "marked")
                              /\ (rpc[r] = "marked" => rhash'[r] = rhash[r])
    PROVE  MarkedOnce' /\ MarkedMoves'
<1>1. \A r \in Renderers, h \in Hashes : Offered(r, h)' <=> Offered(r, h)
  BY DEF Offered
<1>2. \A h \in Hashes : (Queued(h)' <=> Queued(h)) /\ (AtWorker(h)' <=> AtWorker(h))
  BY DEF Queued, AtWorker
<1>3. MarkedOnce'
  BY <1>1, <1>2 DEF QInv, MarkedOnce
<1>4. MarkedMoves'
  BY <1>1, <1>2 DEF QInv, MarkedMoves, QTypeOK
<1> QED BY <1>3, <1>4

\* The marker is set on a hash that nobody carries (enqueueHash, LoadOrStore).
LEMMA MarkKeeps ==
    ASSUME QInv, NEW r \in Renderers, Mark(r)
    PROVE  MarkedOnce' /\ MarkedMoves'
<1> DEFINE g == rhash[r]
<1>1. g \in Hashes /\ ~Carried(g)
  BY DEF QInv, QTypeOK, Mark, MarkedOnce, Carried
<1>2. \A h \in Hashes : (Queued(h)' <=> Queued(h)) /\ (AtWorker(h)' <=> AtWorker(h))
  BY DEF Mark, Queued, AtWorker
<1>3. \A s \in Renderers, h \in Hashes :
          Offered(s, h)' <=> Offered(s, h) \/ (s = r /\ h = g)
  BY DEF Mark, Offered, QInv, QTypeOK
<1>4. pending' = pending \cup {g} /\ queue' = queue
  BY DEF Mark
<1>5. MarkedOnce'
  BY <1>1, <1>2, <1>3, <1>4 DEF QInv, MarkedOnce, Carried
<1>6. MarkedMoves'
  BY <1>1, <1>2, <1>3, <1>4 DEF QInv, MarkedMoves, QTypeOK
<1> QED BY <1>5, <1>6

\* A hash goes from the render that offers it to the end of the queue.
LEMMA SendKeeps ==
    ASSUME QInv, NEW r \in Renderers, Send(r)
    PROVE  MarkedOnce' /\ MarkedMoves'
<1> DEFINE g == rhash[r]
<1>1. g \in Hashes /\ Offered(r, g) /\ queue \in Seq(Hashes) /\ pending' = pending
  BY DEF QInv, QTypeOK, Send, Offered
<1>2. \A h \in Hashes : AtWorker(h)' <=> AtWorker(h)
  BY DEF Send, AtWorker
<1>3. \A s \in Renderers, h \in Hashes : Offered(s, h)' <=> Offered(s, h) /\ s # r
  BY DEF Send, Rendered, Offered, QInv, QTypeOK
<1>4. /\ Len(queue) \in Nat /\ DOMAIN queue = 1 .. Len(queue)
      /\ DOMAIN queue' = 1 .. Len(queue) + 1
      /\ \A i \in 1 .. Len(queue) : queue'[i] = queue[i]
      /\ queue'[Len(queue) + 1] = g
  BY <1>1, Sent, LenProperties DEF Send
<1>5. \A h \in Hashes : Queued(h)' <=> Queued(h) \/ h = g
  BY <1>4 DEF Queued
<1>6. ~Queued(g) /\ ~AtWorker(g) /\ \A s \in Renderers : Offered(s, g) => s = r
  BY <1>1 DEF QInv, MarkedOnce
<1>7. \A i, j \in DOMAIN queue' : queue'[i] = queue'[j] => i = j
  <2>1. \A i \in 1 .. Len(queue) : queue[i] # g
    BY <1>4, <1>6 DEF Queued
  <2>2. \A i, j \in 1 .. Len(queue) : queue[i] = queue[j] => i = j
    BY <1>4 DEF QInv, MarkedOnce
  <2> QED BY <2>1, <2>2, <1>4
<1>8. MarkedOnce'
  BY <1>1, <1>2, <1>3, <1>5, <1>6, <1>7 DEF QInv, MarkedOnce
<1>9. MarkedMoves'
  <2>1. \A h \in pending : h \in Hashes /\ (Queued(h) \/ AtWorker(h) \/ \E s \in Renderers : Offered(s, h))
    BY DEF QInv, MarkedMoves, QTypeOK
  <2>2. \A s \in Renderers, h \in Hashes : Offered(s, h) => Offered(s, h)' \/ h = g
    BY <1>3 DEF Offered
  <2> QED BY <1>1, <1>2, <1>5, <2>1, <2>2 DEF MarkedMoves
<1> QED BY <1>8, <1>9

\* The queue is full: the hash leaves the pipeline and its marker with it.
LEMMA SendFullKeeps ==
    ASSUME QInv, NEW r \in Renderers, SendFull(r)
    PROVE  MarkedOnce' /\ MarkedMoves'
<1> DEFINE g == rhash[r]
<1>1. g \in Hashes /\ Offered(r, g) /\ pending' = pending \ {g} /\ queue' = queue
  BY DEF QInv, QTypeOK, SendFull, Offered
<1>2. \A h \in Hashes : (Queued(h)' <=> Queued(h)) /\ (AtWorker(h)' <=> AtWorker(h))
  BY DEF SendFull, Queued, AtWorker
<1>3. \A s \in Renderers, h \in Hashes : Offered(s, h)' <=> Offered(s, h) /\ s # r
  BY DEF SendFull, Rendered, Offered, QInv, QTypeOK
<1>4. ~Queued(g) /\ ~AtWorker(g) /\ \A s \in Renderers : Offered(s, g) => s = r
  BY <1>1 DEF QInv, MarkedOnce
<1>5. MarkedOnce'
  BY <1>1, <1>2, <1>3, <1>4 DEF QInv, MarkedOnce
<1>6. MarkedMoves'
  <2>1. \A h \in pending : h \in Hashes /\ (Queued(h) \/ AtWorker(h) \/ \E s \in Renderers : Offered(s, h))
    BY DEF QInv, MarkedMoves, QTypeOK
  <2>2. \A s \in Renderers, h \in Hashes : Offered(s, h) => Offered(s, h)' \/ h = g
    BY <1>3 DEF Offered
  <2> QED BY <1>1, <1>2, <2>1, <2>2 DEF MarkedMoves
<1> QED BY <1>5, <1>6

\* The worker takes the first of the queue.
LEMMA RecvKeeps ==
    ASSUME QInv, Recv
    PROVE  MarkedOnce' /\ MarkedMoves'
<1> DEFINE g == Head(queue)
<1>1. queue \in Seq(Hashes) /\ queue # <<>> /\ pending' = pending
  BY DEF QInv, QTypeOK, Recv
<1>2. /\ g \in Hashes /\ g = queue[1]
      /\ Len(queue) \in Nat \ {0} /\ DOMAIN queue = 1 .. Len(queue)
      /\ DOMAIN queue' = 1 .. Len(queue) - 1
      /\ \A i \in 1 .. Len(queue) - 1 : queue'[i] = queue[i + 1]
  BY <1>1, Received DEF Recv
<1>3. \A i, j \in 1 .. Len(queue) : queue[i] = queue[j] => i = j
  BY <1>2 DEF QInv, MarkedOnce
<1>4. \A h \in Hashes : Queued(h) <=> Queued(h)' \/ h = g
  <2>1. \A i \in 1 .. Len(queue) : i = 1 \/ (i - 1 \in 1 .. Len(queue) - 1 /\ queue'[i - 1] = queue[i])
    BY <1>2
  <2>2. \A i \in 1 .. Len(queue) - 1 : i + 1 \in 1 .. Len(queue)
    BY <1>2
  <2>3. 1 \in 1 .. Len(queue)
    BY <1>2
  <2> QED BY <1>2, <2>1, <2>2, <2>3 DEF Queued
<1>5. \A h \in Hashes : h = g => ~Queued(h)'
  <2>1. \A i \in 1 .. Len(queue) - 1 : queue[i + 1] # queue[1]
    BY <1>2, <1>3
  <2> QED BY <1>2, <2>1 DEF Queued
<1>6. \A h \in Hashes : ~AtWorker(h) /\ (AtWorker(h)' <=> h = g)
  BY DEF Recv, AtWorker
<1>7. \A s \in Renderers, h \in Hashes : Offered(s, h)' <=> Offered(s, h)
  BY DEF Recv, Offered
<1>8. \A i, j \in DOMAIN queue' : queue'[i] = queue'[j] => i = j
  BY <1>2, <1>3
<1>9. MarkedOnce'
  BY <1>1, <1>2, <1>4, <1>5, <1>6, <1>7, <1>8 DEF QInv, MarkedOnce
<1>10. MarkedMoves'
  BY <1>1, <1>4, <1>6, <1>7 DEF QInv, MarkedMoves, QTypeOK
<1> QED BY <1>9, <1>10

\* The worker is done with a hash, and its marker goes.
LEMMA UnmarkKeeps ==
    ASSUME QInv, Unmark
    PROVE  MarkedOnce' /\ MarkedMoves'
<1>1. /\ whash \in Hashes /\ AtWorker(whash)
      /\ pending' = pending \ {whash} /\ queue' = queue
  BY DEF QInv, QTypeOK, Unmark, AtWorker
<1>2. \A h \in Hashes : (Queued(h)' <=> Queued(h)) /\ ~AtWorker(h)'
  BY DEF Unmark, Queued, AtWorker
<1>3. \A s \in Renderers, h \in Hashes : Offered(s, h)' <=> Offered(s, h)
  BY DEF Unmark, Offered
<1>4. ~Queued(whash) /\ \A s \in Renderers : ~Offered(s, whash)
  BY <1>1 DEF QInv, MarkedOnce
<1>5. \A h \in Hashes : AtWorker(h) <=> h = whash
  BY DEF Unmark, AtWorker
<1>6. MarkedOnce'
  BY <1>1, <1>2, <1>3, <1>4, <1>5 DEF QInv, MarkedOnce
<1>7. MarkedMoves'
  BY <1>1, <1>2, <1>3, <1>5 DEF QInv, MarkedMoves, QTypeOK
<1> QED BY <1>6, <1>7

\* Nothing is in the pipeline of a new process.
LEMMA RestartKeeps ==
    ASSUME Restart
    PROVE  MarkedOnce' /\ MarkedMoves'
<1>1. \A h \in Hashes : ~Queued(h)'
  BY DEF Restart, Queued
<1>2. MarkedOnce'
  BY <1>1 DEF Restart, MarkedOnce, AtWorker, Offered
<1>3. MarkedMoves'
  BY DEF Restart, MarkedMoves
<1> QED BY <1>2, <1>3

\* A verdict is written by an answer that knows, or by an error whose text passes for a
\* 404 and that only hashes with those digits can cause (resolveHash).
LEMMA CacheKeeps ==
    ASSUME QInv, [QNext]_vtVars
    PROVE  AbsentIsTrue'
<1> USE DEF QInv, AbsentIsTrue
<1>1. CASE UNCHANGED cache
  BY <1>1
<1>2. CASE Answered
  <2>1. whash \in Hashes
    BY <1>2 DEF QTypeOK, Answered
  <2> QED BY <1>2, <2>1 DEF QTypeOK, Answered, Resolved
<1>3. CASE Unsaved \/ Failed
  BY <1>3 DEF QTypeOK, Unsaved, Failed, Resolved
<1>4. Answered \/ Unsaved \/ Failed \/ UNCHANGED cache
  BY DEF QNext, RenderStep, WorkerStep, CacheMiss, AlreadyPending, Mark, Send, SendFull,
         Recv, TakeToken, Unmark, IPLookup, SetKey, TimePasses, Restart, vtVars, qVars
<1> QED BY <1>1, <1>2, <1>3, <1>4

\* Every step keeps the invariant.
LEMMA StepInv == QInv /\ [QNext]_vtVars => QInv'
<1> SUFFICES ASSUME QInv, [QNext]_vtVars PROVE QInv'
  OBVIOUS
<1>1. QTypeOK'
  BY QTyped DEF QInv
<1>2. MarkedOnce' /\ MarkedMoves'
  <2>1. ASSUME NEW r \in Renderers, RenderStep(r) \/ \E h \in Hashes : CacheMiss(r, h)
        PROVE  MarkedOnce' /\ MarkedMoves'
    <3>1. ASSUME NEW h \in Hashes, CacheMiss(r, h) PROVE MarkedOnce' /\ MarkedMoves'
      BY <1>1, <3>1, Untouched DEF CacheMiss, QInv, QTypeOK
    <3>2. CASE AlreadyPending(r)
      BY <1>1, <3>2, Untouched DEF AlreadyPending, Rendered, QInv, QTypeOK
    <3> QED BY <2>1, <3>1, <3>2, MarkKeeps, SendKeeps, SendFullKeeps DEF RenderStep
  <2>2. CASE WorkerStep
    <3>1. CASE TakeToken \/ Answered \/ Unsaved \/ Failed
      <4>1. /\ UNCHANGED <<queue, pending, whash, rpc, rhash>>
            /\ wpc \in {"token", "ask"} /\ wpc' \in {"ask", "unmark"}
        BY <3>1 DEF TakeToken, Answered, Unsaved, Failed, Resolved
      <4>2. \A h \in Hashes : /\ (Queued(h)' <=> Queued(h)) /\ (AtWorker(h)' <=> AtWorker(h))
                              /\ \A r \in Renderers : Offered(r, h)' <=> Offered(r, h)
        BY <4>1 DEF Queued, AtWorker, Offered
      <4>3. MarkedOnce'
        BY <4>1, <4>2 DEF QInv, MarkedOnce
      <4>4. MarkedMoves'
        BY <4>1, <4>2 DEF QInv, MarkedMoves, QTypeOK
      <4> QED BY <4>3, <4>4
    <3> QED BY <2>2, <3>1, RecvKeeps, UnmarkKeeps DEF WorkerStep
  <2>3. CASE IPLookup \/ SetKey \/ TimePasses
    BY <1>1, <2>3, Untouched DEF IPLookup, SetKey, TimePasses, qVars
  <2>4. CASE Restart
    BY <2>4, RestartKeeps
  <2>5. CASE UNCHANGED vtVars
    BY <1>1, <2>5, Untouched DEF vtVars, qVars
  <2> QED BY <2>1, <2>2, <2>3, <2>4, <2>5 DEF QNext
<1> QED BY <1>1, <1>2, CacheKeeps DEF QInv

\* A hash is asked about once at a time, every marker stands for a hash that is still on
\* its way, and NOT_IN_VT is cached of no file that VirusTotal knows (enqueueHash,
\* vtWorker, resolveHash), whatever the renders, the queue and the bucket.
THEOREM VTQueueSafety == QSpec => []QueueInv
<1>1. QInv => QueueInv
  BY DEF QInv, QueueInv, OneCarrier
<1> QED BY <1>1, InitInv, StepInv, PTL DEF QSpec
=============================================================================
