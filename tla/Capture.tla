------------------------------ MODULE Capture ------------------------------
(***************************************************************************)
(* The packet capture (capture.go, handleCapture and handleCapturePcap).    *)
(* A stream is three goroutines and a process: the handler, which writes to *)
(* the browser what comes out of a channel; streamCapture, which starts     *)
(* tshark, waits and closes the channel; and the scanner, which puts into    *)
(* the channel each line tshark prints.  A pcap is the handler alone, with  *)
(* tshark bound to the request.  Packets are counted.                        *)
(***************************************************************************)
EXTENDS Integers, FiniteSets

CONSTANTS
    Sessions,   \* places for a capture; one is used again when it is empty
    ChanCap,    \* capacity of the channel of packets (256)
    MaxPackets  \* bound: what one tshark prints

ASSUME CaptureAssumption == ChanCap \in Nat \ {0} /\ MaxPackets \in Nat \ {0}
                            /\ IsFiniteSet(Sessions)

VARIABLES
    hpc,      \* where each handler is
    spc,      \* and its streamCapture
    rpc,      \* and its scanner
    tshark,   \* its process
    printed,  \* packets tshark printed
    pipe,     \* of those, the ones nobody has read
    chan,     \* packets in the channel
    closed,   \* the channel is closed
    stopped,  \* and so is stop
    gone,     \* the request's context is done
    got,      \* packets the browser got
    trouble,  \* tshark reported an error
    errMsg,   \* what streamCapture returned, none or an error
    active,   \* captureActive
    panicked  \* a send on a closed channel

captureVars == <<hpc, spc, rpc, tshark, printed, pipe, chan, closed, stopped,
                 gone, got, trouble, errMsg, active, panicked>>

CaptureTypeOK ==
    /\ hpc \in [Sessions -> {"away", "wait", "end", "count", "copy", "reap"}]
    /\ spc \in [Sessions -> {"off", "start", "select", "kill", "wait", "close"}]
    /\ rpc \in [Sessions -> {"off", "scan", "emit", "over"}]
    /\ tshark \in [Sessions -> {"none", "runs", "killed", "exited"}]
    /\ printed \in [Sessions -> 0 .. MaxPackets]
    /\ \A s \in Sessions :
           /\ pipe[s] \in 0 .. printed[s] /\ got[s] \in 0 .. printed[s]
           /\ chan[s] \in 0 .. ChanCap
    /\ {closed, stopped, gone, trouble} \subseteq [Sessions -> BOOLEAN]
    /\ errMsg \in [Sessions -> {"none", "error"}]
    /\ active = Cardinality({s \in Sessions : spc[s] \in {"select", "kill", "wait"}
                                                \/ hpc[s] \in {"copy", "reap"}})
    /\ panicked \in BOOLEAN

Nowhere(v) == [s \in Sessions |-> v]

CaptureInit ==
    /\ hpc = Nowhere("away") /\ spc = Nowhere("off") /\ rpc = Nowhere("off")
    /\ tshark = Nowhere("none")
    /\ printed = Nowhere(0) /\ pipe = Nowhere(0) /\ chan = Nowhere(0) /\ got = Nowhere(0)
    /\ closed = Nowhere(FALSE) /\ stopped = Nowhere(FALSE)
    /\ gone = Nowhere(FALSE) /\ trouble = Nowhere(FALSE)
    /\ errMsg = Nowhere("none")
    /\ active = 0
    /\ panicked = FALSE

Running(s) == tshark[s] \in {"runs", "killed"}

Empty(s) == hpc[s] = "away" /\ spc[s] = "off" /\ rpc[s] \in {"off", "over"} /\ tshark[s] = "none"

\* A new request has its own channels and its own process.
Fresh(s) ==
    /\ Empty(s)
    /\ rpc' = [rpc EXCEPT ![s] = "off"]
    /\ printed' = [printed EXCEPT ![s] = 0]
    /\ pipe' = [pipe EXCEPT ![s] = 0]
    /\ chan' = [chan EXCEPT ![s] = 0]
    /\ got' = [got EXCEPT ![s] = 0]
    /\ closed' = [closed EXCEPT ![s] = FALSE]
    /\ stopped' = [stopped EXCEPT ![s] = FALSE]
    /\ gone' = [gone EXCEPT ![s] = FALSE]
    /\ trouble' = [trouble EXCEPT ![s] = FALSE]
    /\ errMsg' = [errMsg EXCEPT ![s] = "none"]
    /\ UNCHANGED panicked

----------------------------------------------------------------------------
(* tshark *)

\* With its count reached, or its time, it exits, as it does on an error.
Prints(s) ==
    /\ tshark[s] = "runs" /\ spc[s] # "off"
    /\ printed[s] < MaxPackets
    /\ printed' = [printed EXCEPT ![s] = @ + 1]
    /\ pipe' = [pipe EXCEPT ![s] = @ + 1]
    /\ UNCHANGED <<hpc, spc, rpc, tshark, chan, closed, stopped, gone, got, trouble,
                   errMsg, active, panicked>>

Exits(s) ==
    /\ tshark[s] = "runs"
    /\ tshark' = [tshark EXCEPT ![s] = "exited"]
    /\ \E t \in BOOLEAN : trouble' = [trouble EXCEPT ![s] = t]
    /\ UNCHANGED <<hpc, spc, rpc, printed, pipe, chan, closed, stopped, gone, got,
                   errMsg, active, panicked>>

Dies(s) ==
    /\ tshark[s] = "killed"
    /\ tshark' = [tshark EXCEPT ![s] = "exited"]
    /\ UNCHANGED <<hpc, spc, rpc, printed, pipe, chan, closed, stopped, gone, got,
                   trouble, errMsg, active, panicked>>

----------------------------------------------------------------------------
(* handleCapture *)

handleCapture(s) ==
    /\ Fresh(s)
    /\ hpc' = [hpc EXCEPT ![s] = "wait"]
    /\ spc' = [spc EXCEPT ![s] = "start"]
    /\ UNCHANGED <<tshark, active>>

\* The browser closes the tab.
Leave(s) ==
    /\ hpc[s] # "away" /\ ~gone[s]
    /\ gone' = [gone EXCEPT ![s] = TRUE]
    /\ UNCHANGED <<hpc, spc, rpc, tshark, printed, pipe, chan, closed, stopped, got,
                   trouble, errMsg, active, panicked>>

Receive(s) ==
    /\ hpc[s] = "wait" /\ chan[s] > 0
    /\ chan' = [chan EXCEPT ![s] = @ - 1]
    /\ got' = [got EXCEPT ![s] = @ + 1]
    /\ UNCHANGED <<hpc, spc, rpc, tshark, printed, pipe, closed, stopped, gone, trouble,
                   errMsg, active, panicked>>

Drained(s) ==
    /\ hpc[s] = "wait" /\ chan[s] = 0 /\ closed[s]
    /\ hpc' = [hpc EXCEPT ![s] = "end"]
    /\ UNCHANGED <<spc, rpc, tshark, printed, pipe, chan, closed, stopped, gone, got,
                   trouble, errMsg, active, panicked>>

\* The error, if any, and done; the deferred close of stop.
Finish(s) ==
    /\ hpc[s] = "end"
    /\ hpc' = [hpc EXCEPT ![s] = "away"]
    /\ stopped' = [stopped EXCEPT ![s] = TRUE]
    /\ UNCHANGED <<spc, rpc, tshark, printed, pipe, chan, closed, gone, got, trouble,
                   errMsg, active, panicked>>

\* Seeded bug for CaptureEnds: the request is only looked at with a packet.
GiveUpWithPacket(s) ==
    /\ hpc[s] = "wait" /\ gone[s] /\ chan[s] > 0
    /\ hpc' = [hpc EXCEPT ![s] = "away"]
    /\ stopped' = [stopped EXCEPT ![s] = TRUE]
    /\ UNCHANGED <<spc, rpc, tshark, printed, pipe, chan, closed, gone, got, trouble,
                   errMsg, active, panicked>>

GiveUp(s) ==
    /\ hpc[s] = "wait" /\ gone[s]
    /\ hpc' = [hpc EXCEPT ![s] = "away"]
    /\ stopped' = [stopped EXCEPT ![s] = TRUE]
    /\ UNCHANGED <<spc, rpc, tshark, printed, pipe, chan, closed, gone, got, trouble,
                   errMsg, active, panicked>>

----------------------------------------------------------------------------
(* streamCapture *)

StartFails(s) ==
    /\ spc[s] = "start" /\ tshark[s] = "none"
    /\ spc' = [spc EXCEPT ![s] = "close"]
    /\ errMsg' = [errMsg EXCEPT ![s] = "error"]
    /\ trouble' = [trouble EXCEPT ![s] = TRUE]
    /\ UNCHANGED <<hpc, rpc, tshark, printed, pipe, chan, closed, stopped, gone, got,
                   active, panicked>>

\* The process runs before it is counted.
Started(s) ==
    /\ spc[s] = "start" /\ tshark[s] = "none"
    /\ tshark' = [tshark EXCEPT ![s] = "runs"]
    /\ UNCHANGED <<hpc, spc, rpc, printed, pipe, chan, closed, stopped, gone, got,
                   trouble, errMsg, active, panicked>>

Counted(s) ==
    /\ spc[s] = "start" /\ tshark[s] # "none"
    /\ spc' = [spc EXCEPT ![s] = "select"]
    /\ rpc' = [rpc EXCEPT ![s] = "scan"]
    /\ active' = active + 1
    /\ UNCHANGED <<hpc, tshark, printed, pipe, chan, closed, stopped, gone, got,
                   trouble, errMsg, panicked>>

ScannerDone(s) ==
    /\ spc[s] \in {"select", "kill"} /\ rpc[s] = "over"
    /\ spc' = [spc EXCEPT ![s] = "wait"]
    /\ UNCHANGED <<hpc, rpc, tshark, printed, pipe, chan, closed, stopped, gone, got,
                   trouble, errMsg, active, panicked>>

Kill(s) == tshark' = [tshark EXCEPT ![s] = IF @ = "runs" THEN "killed" ELSE @]

\* Seeded bug for NoSendOnClosed: it does not wait for the scanner.
StopAtOnce(s) ==
    /\ spc[s] = "select" /\ stopped[s]
    /\ Kill(s)
    /\ spc' = [spc EXCEPT ![s] = "wait"]
    /\ UNCHANGED <<hpc, rpc, printed, pipe, chan, closed, stopped, gone, got, trouble,
                   errMsg, active, panicked>>

Stop(s) ==
    /\ spc[s] = "select" /\ stopped[s]
    /\ Kill(s)
    /\ spc' = [spc EXCEPT ![s] = "kill"]
    /\ UNCHANGED <<hpc, rpc, printed, pipe, chan, closed, stopped, gone, got, trouble,
                   errMsg, active, panicked>>

\* Wait, tsharkError and the deferred count.
Wait(s) ==
    /\ spc[s] = "wait" /\ tshark[s] = "exited"
    /\ tshark' = [tshark EXCEPT ![s] = "none"]
    /\ spc' = [spc EXCEPT ![s] = "close"]
    /\ errMsg' = [errMsg EXCEPT ![s] = IF trouble[s] THEN "error" ELSE "none"]
    /\ active' = active - 1
    /\ UNCHANGED <<hpc, rpc, printed, pipe, chan, closed, stopped, gone, got, trouble,
                   panicked>>

Close(s) ==
    /\ spc[s] = "close"
    /\ closed' = [closed EXCEPT ![s] = TRUE]
    /\ spc' = [spc EXCEPT ![s] = "off"]
    /\ UNCHANGED <<hpc, rpc, tshark, printed, pipe, chan, stopped, gone, got, trouble,
                   errMsg, active, panicked>>

----------------------------------------------------------------------------
(* The scanner *)

Scan(s) ==
    /\ rpc[s] = "scan" /\ pipe[s] > 0
    /\ pipe' = [pipe EXCEPT ![s] = @ - 1]
    /\ rpc' = [rpc EXCEPT ![s] = "emit"]
    /\ UNCHANGED <<hpc, spc, tshark, printed, chan, closed, stopped, gone, got, trouble,
                   errMsg, active, panicked>>

EndOfFile(s) ==
    /\ rpc[s] = "scan" /\ pipe[s] = 0 /\ ~Running(s)
    /\ rpc' = [rpc EXCEPT ![s] = "over"]
    /\ UNCHANGED <<hpc, spc, tshark, printed, pipe, chan, closed, stopped, gone, got,
                   trouble, errMsg, active, panicked>>

\* A closed channel is ready, and panics.
Send(s) ==
    /\ rpc[s] = "emit"
    /\ chan[s] < ChanCap \/ closed[s]
    /\ rpc' = [rpc EXCEPT ![s] = "scan"]
    /\ chan' = [chan EXCEPT ![s] = IF closed[s] THEN @ ELSE @ + 1]
    /\ panicked' = (panicked \/ closed[s])
    /\ UNCHANGED <<hpc, spc, tshark, printed, pipe, closed, stopped, gone, got, trouble,
                   errMsg, active>>

Drop(s) ==
    /\ rpc[s] = "emit" /\ stopped[s]
    /\ rpc' = [rpc EXCEPT ![s] = "scan"]
    /\ UNCHANGED <<hpc, spc, tshark, printed, pipe, chan, closed, stopped, gone, got,
                   trouble, errMsg, active, panicked>>

----------------------------------------------------------------------------
(* handleCapturePcap: the context of the request kills the process *)

handleCapturePcap(s) ==
    /\ Fresh(s)
    /\ tshark' = [tshark EXCEPT ![s] = "runs"]
    /\ hpc' = [hpc EXCEPT ![s] = "count"]
    /\ UNCHANGED <<spc, active>>

PcapCounted(s) ==
    /\ hpc[s] = "count"
    /\ hpc' = [hpc EXCEPT ![s] = "copy"]
    /\ active' = active + 1
    /\ UNCHANGED <<spc, rpc, tshark, printed, pipe, chan, closed, stopped, gone, got,
                   trouble, errMsg, panicked>>

ContextKills(s) ==
    /\ hpc[s] \in {"count", "copy", "reap"} /\ gone[s] /\ tshark[s] = "runs"
    /\ Kill(s)
    /\ UNCHANGED <<hpc, spc, rpc, printed, pipe, chan, closed, stopped, gone, got,
                   trouble, errMsg, active, panicked>>

\* The end of the output, or a write to a browser that left.
CopyEnds(s) ==
    /\ hpc[s] = "copy" /\ (~Running(s) \/ gone[s])
    /\ hpc' = [hpc EXCEPT ![s] = "reap"]
    /\ UNCHANGED <<spc, rpc, tshark, printed, pipe, chan, closed, stopped, gone, got,
                   trouble, errMsg, active, panicked>>

Reap(s) ==
    /\ hpc[s] = "reap" /\ tshark[s] = "exited"
    /\ tshark' = [tshark EXCEPT ![s] = "none"]
    /\ hpc' = [hpc EXCEPT ![s] = "away"]
    /\ active' = active - 1
    /\ UNCHANGED <<spc, rpc, printed, pipe, chan, closed, stopped, gone, got, trouble,
                   errMsg, panicked>>

----------------------------------------------------------------------------
(* What the goroutines do by themselves, and what may happen to them *)

GoroutineStep(s) ==
    \/ Receive(s) \/ Drained(s) \/ Finish(s) \/ GiveUp(s)
    \/ Started(s) \/ Counted(s) \/ ScannerDone(s) \/ Stop(s) \/ Wait(s) \/ Close(s)
    \/ Scan(s) \/ EndOfFile(s) \/ Send(s) \/ Drop(s)
    \/ PcapCounted(s) \/ ContextKills(s) \/ CopyEnds(s) \/ Reap(s) \/ Dies(s)

CaptureStep(s) ==
    \/ GoroutineStep(s)
    \/ handleCapture(s) \/ handleCapturePcap(s) \/ Leave(s)
    \/ StartFails(s) \/ Prints(s) \/ Exits(s)

\* A goroutine that can go on does, and a killed process ends.
CaptureFairness ==
    \A s \in Sessions :
        /\ WF_captureVars(Receive(s) \/ Drained(s) \/ Finish(s))
        /\ WF_captureVars(PcapCounted(s) \/ CopyEnds(s) \/ Reap(s))
        /\ SF_captureVars(GiveUp(s))
        /\ WF_captureVars(Started(s) \/ Counted(s) \/ ScannerDone(s) \/ Stop(s) \/ Wait(s) \/ Close(s))
        /\ WF_captureVars(Scan(s) \/ EndOfFile(s) \/ Send(s) \/ Drop(s))
        /\ WF_captureVars(Dies(s) \/ ContextKills(s))

----------------------------------------------------------------------------
(* Properties *)

(* No packet is sent on the channel streamCapture's end closes: the         *)
(* goroutine waits for the scanner after it kills tshark (capture.go).      *)
NoSendOnClosed == ~panicked

(* A stream that says it is done has told every packet that tshark printed, *)
(* and its error: nothing is dropped while somebody listens, and errMsg is  *)
(* read after the channel is closed.                                        *)
DoneIsComplete ==
    \A s \in Sessions : hpc[s] = "end" =>
        got[s] = printed[s] /\ (trouble[s] => errMsg[s] = "error")

(* When the browser leaves, tshark is killed and reaped, also on a flow with *)
(* no packets and with the channel full (handleCapture, buildPcapCmd).      *)
CaptureEnds ==
    \A s \in Sessions : gone[s] ~> Empty(s)
=============================================================================
