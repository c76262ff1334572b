------------------------------- MODULE Render -------------------------------
(***************************************************************************)
(* Renders of the connection table (analyzeConnections of connections.go):   *)
(* a row takes the signature of its binary, gets its score, and the score of *)
(* the pair goes to the risk timeline if it changed (recordScoreChange).     *)
(* A pair is one binary and one public address; its other signals are those  *)
(* of any row of Rest.                                                      *)
(***************************************************************************)
EXTENDS Signatures, ThreatScore

CONSTANTS
    Rest,       \* rows, of which the signals other than the signature are taken
    Unsigned,   \* versions without a signature
    MaxRenders  \* bound on the rows rendered

ASSUME RestAssumption == Unsigned \subseteq Versions /\ MaxRenders \in Nat

VARIABLES
    scoreHistory,   \* the table, by pair, oldest first, each change with whether its
                    \* render had seen fewer than there are before it (history)
    rverdict, rseen,\* each render: the verdict to save, how many changes it saw
    rendersLeft

scoreVars == <<scoreHistory, rverdict, rseen, rendersLeft>>
tableVars == <<sigVars, scoreVars>>

NoVerdict == [threat |-> 0, why |-> {}, partial |-> FALSE]

Status(s) == IF s = Pending THEN "PENDING" ELSE IF s \in Unsigned THEN "NotSigned" ELSE "neutral"

Verdicts == {threatScore([c EXCEPT !.sig = s]) : c \in Rest, s \in {"PENDING", "NotSigned", "neutral"}}

RenderTypeOK ==
    /\ SigTypeOK
    /\ scoreHistory \in [Paths -> Seq([verdict : Verdicts, late : BOOLEAN])]
    /\ rseen \in [Renders -> Nat]
    /\ rverdict \in [Renders -> Verdicts \cup {NoVerdict}]
    /\ \A r \in Renders : rpc[r] = "save" <=> rverdict[r] # NoVerdict
    /\ rendersLeft \in 0 .. MaxRenders

RenderInit ==
    /\ SigInit
    /\ scoreHistory = [p \in Paths |-> <<>>]
    /\ rverdict = [r \in Renders |-> NoVerdict]
    /\ rseen = [r \in Renders |-> 0]
    /\ rendersLeft = MaxRenders

----------------------------------------------------------------------------

BeginRow(r, p) ==
    /\ rendersLeft > 0
    /\ rendersLeft' = rendersLeft - 1
    /\ Stat(r, p)
    /\ UNCHANGED <<scoreHistory, rverdict, rseen>>

\* What the row lacks or shows, but not its score, is on the page now.
RowDone(r) ==
    /\ Goto(r, "idle")
    /\ rpath' = [rpath EXCEPT ![r] = NoPath]
    /\ rmtime' = [rmtime EXCEPT ![r] = NoFile]
    /\ rsig' = [rsig EXCEPT ![r] = NoSig]

\* dbLastScore.
LastVerdict(p) ==
    LET n == Len(scoreHistory[p]) IN
    IF n = 0 THEN {} ELSE {<<scoreHistory[p][n].verdict.threat, scoreHistory[p][n].verdict.why>>}

\* Seeded bug for RepeatsOverlap: the oldest verdict is compared, an ORDER BY
\* without its DESC.
ChangedOldest(p, v) ==
    {<<h.verdict.threat, h.verdict.why>> : h \in {scoreHistory[p][i] : i \in DOMAIN scoreHistory[p] \cap {1}}}
        # {<<v.threat, v.why>>}

Changed(p, v) == LastVerdict(p) # {<<v.threat, v.why>>}

\* The verdict is to be written, by a render that saw n changes.
ToSave(r, v, n) ==
    /\ Goto(r, "save")
    /\ rverdict' = [rverdict EXCEPT ![r] = v]
    /\ rseen' = [rseen EXCEPT ![r] = n]
    /\ UNCHANGED <<rpath, rmtime, rsig>>

\* recordScoreChange, up to its INSERT.  A SELECT that fails passes for an empty table
\* (dbLastScore).
Score(r) ==
    /\ rpc[r] = "row"
    /\ \E c \in Rest :
          LET p == rpath[r]
              v == threatScore([c EXCEPT !.sig = Status(rsig[r])])
              recorded == c.public /\ ~v.partial
          IN \/ /\ recorded /\ Changed(p, v)
                /\ ToSave(r, v, Len(scoreHistory[p])) /\ UNCHANGED faultsLeft
             \/ recorded /\ Fault /\ ToSave(r, v, 0)
             \/ /\ ~(recorded /\ Changed(p, v))
                /\ RowDone(r) /\ UNCHANGED <<rverdict, rseen, faultsLeft>>
    /\ UNCHANGED <<fileVars, cacheVars, queueVars, workerVars, scoreHistory, rendersLeft>>

\* dbSaveScoreChange; its error is logged and that is all.
Save(r) ==
    /\ rpc[r] = "save"
    /\ \/ /\ scoreHistory' = [scoreHistory EXCEPT ![rpath[r]] =
                                 Append(@, [verdict |-> rverdict[r], late |-> rseen[r] < Len(@)])]
          /\ UNCHANGED faultsLeft
       \/ Fault /\ UNCHANGED scoreHistory
    /\ RowDone(r)
    /\ rverdict' = [rverdict EXCEPT ![r] = NoVerdict]
    /\ rseen' = [rseen EXCEPT ![r] = 0]
    /\ UNCHANGED <<fileVars, cacheVars, queueVars, workerVars, rendersLeft>>

RenderRestart ==
    /\ SigRestart
    /\ rverdict' = [r \in Renders |-> NoVerdict]
    /\ rseen' = [r \in Renders |-> 0]
    /\ UNCHANGED <<scoreHistory, rendersLeft>>

RowStep(r) == (LookStep(r) /\ UNCHANGED scoreVars) \/ Score(r) \/ Save(r)

RenderNext ==
    \/ \E r \in Renders : RowStep(r) \/ \E p \in Paths : BeginRow(r, p)
    \/ SigWorkerStep /\ UNCHANGED scoreVars
    \/ \E p \in Paths : (Replace(p) \/ Delete(p)) /\ UNCHANGED scoreVars
    \/ RenderRestart

RenderSpec == RenderInit /\ [][RenderNext]_tableVars

----------------------------------------------------------------------------
(* Properties *)

\* The timeline is a log of changes: two equal verdicts of a pair follow each other
\* only if the render of the second had not seen the first, being under way when
\* it was written or unable to read it (recordScoreChange reads, then writes, and
\* takes a failed read for an empty table).
RepeatsOverlap ==
    \A p \in Paths : \A i \in DOMAIN scoreHistory[p] :
        i > 1 /\ scoreHistory[p][i].verdict.why = scoreHistory[p][i - 1].verdict.why
              /\ scoreHistory[p][i].verdict.threat = scoreHistory[p][i - 1].verdict.threat
        => scoreHistory[p][i].late

\* Renders and the worker agree on what is queued, and what is saved is a verdict of
\* threatScore (checkSignatures, sigWorker, recordScoreChange).
RenderInv == RenderTypeOK /\ OneInProgress
=============================================================================
