------------------------------ MODULE MCRender ------------------------------
(* Two binaries, a queue, a batch and a memory of one, two renders; all rows of *)
(* a set of inputs for the score; beside them the readings of one process,  *)
(* each machine checked while the other rests.                              *)
EXTENDS Render, Volume, TLC

CONSTANTS u1, u2

\* A row that misses data and shows nothing but perhaps its signature, and one that
\* is beyond the cap without it.
Few == {[Quiet EXCEPT !.vt = Unresolved],
        [Quiet EXCEPT !.enrich = {[Clean EXCEPT !.c2 = TRUE, !.threatfox = TRUE]}]}

\* Every combination of what concerns the binary with a few addresses, and every
\* combination of what concerns the address with a few binaries.
Addresses ==
    [vt : {NoScore, 0, 11}, abuse : {NoScore, 9, 100}, provider : BOOLEAN, c2 : BOOLEAN,
     threatfox : BOOLEAN, spamhaus : BOOLEAN, tor : BOOLEAN, vulns : BOOLEAN]

Binaries ==
    [wlExe : {FALSE}, wlIP : {FALSE}, vt : {Unresolved, NotInVT, 0, 2}, staging : BOOLEAN,
     downloads : BOOLEAN, port : BOOLEAN, spawn : BOOLEAN, egress : BOOLEAN, cpu : BOOLEAN,
     rate : {0}, creds : BOOLEAN, exec : {FALSE}, sig : {"NotSigned", "bad", "neutral", "PENDING"},
     public : {TRUE}, enrich : {{}, {Clean}, {[Clean EXCEPT !.abuse = 9]}}]

Inputs ==
    Binaries \cup {[c EXCEPT !.enrich = {e}] :
                     c \in {Quiet} \cup Few \cup {[Quiet EXCEPT !.wlExe = TRUE], [Quiet EXCEPT !.wlIP = TRUE]},
                     e \in Addresses}

\* From one reading to the next: the time, what rises, and whether the process is
\* another one by then, or cannot be read in one half or both.
Step(wait, moved, kind) ==
    [wait |-> wait, load |-> [f \in {"in", "out", "cpu"} |-> IF f = moved THEN 2 ELSE 0],
     another |-> kind = "other",
     io |-> kind \notin {"noIO", "gone"}, res |-> kind \notin {"noRes", "gone"}]

MCSteps ==
    {Step(1, moved, kind) : moved \in {"in", "out", "cpu"},
                            kind \in {"same", "other", "noIO", "noRes", "gone"}}
        \cup {Step(2, "out", "same"), Step(4, "in", "gone")}

\* Two renders are alike.
RenderSymmetry == Permutations(Renders)

VARIABLE part

\* The part that rests is in one state.
Init ==
    /\ part \in {"table", "volume"}
    /\ RenderInit
    /\ VolumeInit
    /\ part = "table" => last.owner = u1

Next ==
    /\ \/ part = "table" /\ RenderNext /\ UNCHANGED volumeVars
       \/ part = "volume" /\ sampleProcessIO /\ UNCHANGED tableVars
    /\ UNCHANGED part

vars == <<part, tableVars, volumeVars>>

Spec == Init /\ [][Next]_vars

\* Of every row of Inputs: a further signal never lowers the score, whatever
\* signals exclude or condition each other; what is not known yet counts neither
\* against the row nor as clean; the points shown add up to the score
\* (threatScore, coverageIncomplete).
RowsAreSound == NeverLowers(Inputs) /\ UnknownNeverConvicts(Inputs) /\ AddsUp(Inputs)

\* The score of every row is sound, and so are the flags it reads: after any readings
\* of a process they tell what was sustained (advance).
ScoreIsSound == RowsAreSound /\ VolumeInv
=============================================================================
