---------------------------- MODULE Audit_proofs ----------------------------
(***************************************************************************)
(* For any number of captures and requests: no packet is sent on a closed   *)
(* channel and a stream that is done is complete; a capture of the program's *)
(* own is never the warning; and what is new is told, once.                 *)
(***************************************************************************)
EXTENDS MCAudit, FiniteSetTheorems, TLAPS

----------------------------------------------------------------------------
(* A capture *)

\* The types, without the count of captures.
Shapes ==
    /\ hpc \in [Sessions -> {"away", "wait", "end", "count", "copy", "reap"}]
    /\ spc \in [Sessions -> {"off", "start", "select", "kill", "wait", "close"}]
    /\ rpc \in [Sessions -> {"off", "scan", "emit", "over"}]
    /\ tshark \in [Sessions -> {"none", "runs", "killed", "exited"}]
    /\ printed \in [Sessions -> Nat] /\ pipe \in [Sessions -> Nat]
    /\ chan \in [Sessions -> Nat] /\ got \in [Sessions -> Nat]
    /\ closed \in [Sessions -> BOOLEAN] /\ stopped \in [Sessions -> BOOLEAN]
    /\ gone \in [Sessions -> BOOLEAN] /\ trouble \in [Sessions -> BOOLEAN]
    /\ errMsg \in [Sessions -> {"none", "error"}]

\* The scanner is between the start of a capture and the wait for its process, and
\* has nothing left to read when it is over.
Scanner(s) ==
    /\ rpc[s] \in {"scan", "emit"} => spc[s] \in {"select", "kill"}
    /\ rpc[s] = "off" => spc[s] \in {"off", "start", "close"}
    /\ spc[s] = "start" => rpc[s] = "off" /\ (tshark[s] = "none" => pipe[s] = 0)
    /\ rpc[s] = "over" => pipe[s] = 0 /\ ~Running(s)

\* The channel is closed last, when the process is reaped and its error known.
Closing(s) ==
    /\ closed[s] => spc[s] = "off"
    /\ spc[s] = "close" \/ closed[s] =>
           /\ pipe[s] = 0 /\ tshark[s] = "none"
           /\ trouble[s] => errMsg[s] = "error"
    /\ hpc[s] \in {"wait", "end"} => ~stopped[s]
    /\ hpc[s] = "end" => closed[s] /\ chan[s] = 0

\* Nothing is lost while somebody listens.
InHand(s) == pipe[s] + (IF rpc[s] = "emit" THEN 1 ELSE 0) + chan[s] + got[s]

Books(s) ==
    /\ InHand(s) <= printed[s]
    /\ ~stopped[s] => InHand(s) = printed[s]
    /\ printed[s] <= MaxPackets /\ chan[s] <= ChanCap

\* A place is a stream or a pcap.
Kinds(s) == spc[s] # "off" => hpc[s] \notin {"count", "copy", "reap"}

Facts(s) == Scanner(s) /\ Closing(s) /\ Books(s) /\ Kinds(s)

CInv == Shapes /\ panicked = FALSE /\ \A s \in Sessions : Facts(s)

\* The pieces of another capture.
Same(u) ==
    /\ hpc'[u] = hpc[u] /\ spc'[u] = spc[u] /\ rpc'[u] = rpc[u] /\ tshark'[u] = tshark[u]
    /\ printed'[u] = printed[u] /\ pipe'[u] = pipe[u] /\ chan'[u] = chan[u] /\ got'[u] = got[u]
    /\ closed'[u] = closed[u] /\ stopped'[u] = stopped[u]
    /\ trouble'[u] = trouble[u] /\ errMsg'[u] = errMsg[u]

\* A count goes up, or down if there is something.
LEMMA Counter ==
    ASSUME NEW f \in [Sessions -> Nat], NEW s \in Sessions
    PROVE  /\ [f EXCEPT ![s] = @ + 1] \in [Sessions -> Nat]
           /\ f[s] > 0 => [f EXCEPT ![s] = @ - 1] \in [Sessions -> Nat]
<1>1. f[s] + 1 \in Nat /\ (f[s] > 0 => f[s] - 1 \in Nat)
  OBVIOUS
<1> QED BY <1>1

\* Where there is nothing there are no packets either.
LEMMA CaptureStart == CaptureInit => CInv
<1> SUFFICES ASSUME CaptureInit PROVE CInv
  OBVIOUS
<1>1. Shapes
  BY DEF CaptureInit, Nowhere, Shapes
<1>2. ASSUME NEW s \in Sessions PROVE Facts(s)
  <2>1. /\ printed[s] = 0 /\ pipe[s] = 0 /\ chan[s] = 0 /\ got[s] = 0
        /\ MaxPackets \in Nat /\ ChanCap \in Nat /\ rpc[s] = "off"
    BY CaptureAssumption DEF CaptureInit, Nowhere
  <2>2. Scanner(s) /\ Closing(s) /\ Kinds(s)
    BY <2>1 DEF CaptureInit, Nowhere, Scanner, Closing, Kinds, Running
  <2>3. InHand(s) = 0
    BY <2>1 DEF InHand
  <2>4. Books(s)
    BY <2>1, <2>3 DEF Books
  <2> QED BY <2>2, <2>4 DEF Facts
<1> QED BY <1>1, <1>2 DEF CInv, CaptureInit

\* A step keeps the types and is about one capture.
LEMMA ShapesKept ==
    ASSUME Shapes, NEW s \in Sessions, CaptureStep(s)
    PROVE  Shapes' /\ \A u \in Sessions \ {s} : Same(u)
<1> USE DEF Shapes, Same, Running
<1>1. CASE handleCapture(s)
  BY <1>1 DEF handleCapture, Fresh, Empty
<1>2. CASE handleCapturePcap(s)
  BY <1>2 DEF handleCapturePcap, Fresh, Empty
<1>3. CASE Leave(s)
  BY <1>3 DEF Leave
<1>4. CASE Receive(s)
  BY <1>4, Counter DEF Receive
<1>5. CASE Drained(s)
  BY <1>5 DEF Drained
<1>6. CASE Finish(s)
  BY <1>6 DEF Finish
<1>7. CASE GiveUp(s)
  BY <1>7 DEF GiveUp
<1>8. CASE StartFails(s)
  BY <1>8 DEF StartFails
<1>9. CASE Started(s)
  BY <1>9 DEF Started
<1>10. CASE Counted(s)
  BY <1>10 DEF Counted
<1>11. CASE ScannerDone(s)
  BY <1>11 DEF ScannerDone
<1>12. CASE Stop(s)
  BY <1>12 DEF Stop, Kill
<1>13. CASE Wait(s)
  BY <1>13 DEF Wait
<1>14. CASE Close(s)
  BY <1>14 DEF Close
<1>15. CASE Scan(s)
  BY <1>15, Counter DEF Scan
<1>16. CASE EndOfFile(s)
  BY <1>16 DEF EndOfFile
<1>17. CASE Send(s)
  <2>1. chan' = [chan EXCEPT ![s] = @ + 1] \/ chan' = chan
    BY <1>17 DEF Send
  <2> QED BY <1>17, <2>1, Counter DEF Send
<1>18. CASE Drop(s)
  BY <1>18 DEF Drop
<1>19. CASE PcapCounted(s)
  BY <1>19 DEF PcapCounted
<1>20. CASE ContextKills(s)
  BY <1>20 DEF ContextKills, Kill
<1>21. CASE CopyEnds(s)
  BY <1>21 DEF CopyEnds
<1>22. CASE Reap(s)
  BY <1>22 DEF Reap
<1>23. CASE Prints(s)
  BY <1>23, Counter DEF Prints
<1>24. CASE Exits(s)
  BY <1>24 DEF Exits
<1>25. CASE Dies(s)
  BY <1>25 DEF Dies
<1> QED
  BY <1>1, <1>2, <1>3, <1>4, <1>5, <1>6, <1>7, <1>8, <1>9, <1>10, <1>11,
     <1>12, <1>13, <1>14, <1>15, <1>16, <1>17, <1>18, <1>19, <1>20, <1>21,
     <1>22, <1>23, <1>24, <1>25
  DEF CaptureStep, GoroutineStep

\* And keeps the order of the goroutines.
LEMMA ControlKept ==
    ASSUME Shapes, NEW s \in Sessions, CaptureStep(s), Facts(s)
    PROVE  Scanner(s)' /\ Closing(s)' /\ Kinds(s)' /\ (panicked = FALSE => panicked' = FALSE)
<1>0. printed[s] \in Nat /\ pipe[s] \in Nat /\ chan[s] \in Nat /\ got[s] \in Nat
  BY DEF Shapes
<1> USE <1>0 DEF Shapes, Facts, Scanner, Closing, Kinds, Running
<1>1. CASE handleCapture(s)
  BY <1>1 DEF handleCapture, Fresh, Empty
<1>2. CASE handleCapturePcap(s)
  BY <1>2 DEF handleCapturePcap, Fresh, Empty
<1>3. CASE Leave(s)
  BY <1>3 DEF Leave
<1>4. CASE Receive(s)
  BY <1>4 DEF Receive
<1>5. CASE Drained(s)
  BY <1>5 DEF Drained
<1>6. CASE Finish(s)
  BY <1>6 DEF Finish
<1>7. CASE GiveUp(s)
  BY <1>7 DEF GiveUp
<1>8. CASE StartFails(s)
  BY <1>8 DEF StartFails
<1>9. CASE Started(s)
  BY <1>9 DEF Started
<1>10. CASE Counted(s)
  BY <1>10 DEF Counted
<1>11. CASE ScannerDone(s)
  BY <1>11 DEF ScannerDone
<1>12. CASE Stop(s)
  BY <1>12 DEF Stop, Kill
<1>13. CASE Wait(s)
  BY <1>13 DEF Wait
<1>14. CASE Close(s)
  BY <1>14 DEF Close
<1>15. CASE Scan(s)
  BY <1>15 DEF Scan
<1>16. CASE EndOfFile(s)
  BY <1>16 DEF EndOfFile
<1>17. CASE Send(s)
  <2>0. rpc[s] = "emit" /\ ~closed[s] /\ rpc'[s] = "scan" /\ panicked' = (panicked \/ closed[s])
    BY <1>17 DEF Send
  <2>1. panicked = FALSE => panicked' = FALSE
    BY <2>0
  <2>2. UNCHANGED <<hpc, spc, tshark, pipe, closed, stopped, trouble, errMsg>>
    BY <1>17 DEF Send
  <2>3. spc[s] \in {"select", "kill"} /\ hpc[s] # "end"
    BY <2>0
  <2> QED BY <2>0, <2>1, <2>2, <2>3
<1>18. CASE Drop(s)
  BY <1>18 DEF Drop
<1>19. CASE PcapCounted(s)
  BY <1>19 DEF PcapCounted
<1>20. CASE ContextKills(s)
  BY <1>20 DEF ContextKills, Kill
<1>21. CASE CopyEnds(s)
  BY <1>21 DEF CopyEnds
<1>22. CASE Reap(s)
  BY <1>22 DEF Reap
<1>23. CASE Prints(s)
  BY <1>23 DEF Prints
<1>24. CASE Exits(s)
  BY <1>24 DEF Exits
<1>25. CASE Dies(s)
  BY <1>25 DEF Dies
<1> QED
  BY <1>1, <1>2, <1>3, <1>4, <1>5, <1>6, <1>7, <1>8, <1>9, <1>10, <1>11,
     <1>12, <1>13, <1>14, <1>15, <1>16, <1>17, <1>18, <1>19, <1>20, <1>21,
     <1>22, <1>23, <1>24, <1>25
  DEF CaptureStep, GoroutineStep

\* And loses no packet.
LEMMA BooksKept ==
    ASSUME Shapes, NEW s \in Sessions, CaptureStep(s), Facts(s)
    PROVE  Books(s)'
<1>0. /\ printed[s] \in Nat /\ pipe[s] \in Nat /\ chan[s] \in Nat /\ got[s] \in Nat
      /\ MaxPackets \in Nat /\ ChanCap \in Nat /\ Books(s)
  BY CaptureAssumption DEF Shapes, Facts
<1>1. CASE handleCapture(s) \/ handleCapturePcap(s)
  <2>1. printed'[s] = 0 /\ pipe'[s] = 0 /\ chan'[s] = 0 /\ got'[s] = 0 /\ rpc'[s] = "off"
    BY <1>1 DEF handleCapture, handleCapturePcap, Fresh, Shapes
  <2>2. InHand(s)' = 0
    BY <2>1 DEF InHand
  <2> QED BY <1>0, <2>1, <2>2 DEF Books
<1>2. CASE Receive(s)
  <2>1. /\ chan[s] > 0 /\ chan'[s] = chan[s] - 1 /\ got'[s] = got[s] + 1
        /\ UNCHANGED <<printed, pipe, rpc, stopped>>
    BY <1>2 DEF Receive, Shapes
  <2>2. InHand(s)' = InHand(s)
    BY <1>0, <2>1 DEF InHand
  <2> QED BY <1>0, <2>1, <2>2 DEF Books
<1>3. CASE Scan(s)
  <2>1. /\ pipe[s] > 0 /\ pipe'[s] = pipe[s] - 1 /\ rpc[s] = "scan" /\ rpc'[s] = "emit"
        /\ UNCHANGED <<printed, chan, got, stopped>>
    BY <1>3 DEF Scan, Shapes
  <2>2. InHand(s)' = InHand(s)
    BY <1>0, <2>1 DEF InHand
  <2> QED BY <1>0, <2>1, <2>2 DEF Books
<1>4. CASE Send(s)
  <2>1. /\ chan[s] < ChanCap /\ chan'[s] = chan[s] + 1 /\ rpc[s] = "emit" /\ rpc'[s] = "scan"
        /\ UNCHANGED <<printed, pipe, got, stopped>>
    BY <1>4 DEF Send, Shapes, Facts, Scanner, Closing
  <2>2. InHand(s)' = InHand(s)
    BY <1>0, <2>1 DEF InHand
  <2> QED BY <1>0, <2>1, <2>2 DEF Books
<1>5. CASE Drop(s)
  <2>1. /\ stopped[s] /\ rpc[s] = "emit" /\ rpc'[s] = "scan"
        /\ UNCHANGED <<printed, pipe, chan, got, stopped>>
    BY <1>5 DEF Drop, Shapes
  <2>2. InHand(s)' = InHand(s) - 1
    BY <1>0, <2>1 DEF InHand
  <2>3. InHand(s) \in Int
    BY <1>0 DEF InHand
  <2> QED BY <1>0, <2>1, <2>2, <2>3 DEF Books
<1>6. CASE Prints(s)
  <2>1. /\ printed[s] < MaxPackets
        /\ printed'[s] = printed[s] + 1 /\ pipe'[s] = pipe[s] + 1
        /\ UNCHANGED <<chan, got, rpc, stopped>>
    BY <1>6 DEF Prints, Shapes
  <2>2. InHand(s)' = InHand(s) + 1
    BY <1>0, <2>1 DEF InHand
  <2>3. InHand(s) \in Int
    BY <1>0 DEF InHand
  <2> QED BY <1>0, <2>1, <2>2, <2>3 DEF Books
<1>7. ASSUME UNCHANGED <<printed, pipe, chan, got>>, rpc'[s] = "emit" <=> rpc[s] = "emit",
             stopped[s] => stopped'[s]
      PROVE  Books(s)'
  <2>1. InHand(s)' = InHand(s)
    BY <1>7 DEF InHand
  <2> QED BY <1>0, <1>7, <2>1 DEF Books
<1>8. CASE Counted(s) \/ EndOfFile(s)
  BY <1>7, <1>8 DEF Counted, EndOfFile, Facts, Scanner, Shapes
<1>9. CASE Finish(s) \/ GiveUp(s)
  BY <1>7, <1>9 DEF Finish, GiveUp, Shapes
<1>10. CASE UNCHANGED <<printed, pipe, chan, got, rpc, stopped>>
  BY <1>7, <1>10
<1> QED
  BY <1>1, <1>2, <1>3, <1>4, <1>5, <1>6, <1>8, <1>9, <1>10
  DEF CaptureStep, GoroutineStep, Leave, Drained, StartFails, Started, ScannerDone, Stop, Wait,
      Close, PcapCounted, ContextKills, CopyEnds, Reap, Exits, Dies

\* A step of one capture keeps what is known of all.
LEMMA CaptureKeeps ==
    ASSUME CInv, NEW s \in Sessions, CaptureStep(s)
    PROVE  CInv'
<1>1. Shapes' /\ Facts(s)' /\ panicked' = FALSE
  BY ShapesKept, ControlKept, BooksKept DEF CInv, Facts
<1>2. ASSUME NEW u \in Sessions \ {s} PROVE Facts(u)'
  <2>1. Same(u) /\ Facts(u)
    BY ShapesKept DEF CInv
  <2> QED BY <2>1 DEF Same, Facts, Scanner, Closing, InHand, Books, Kinds, Running
<1> QED BY <1>1, <1>2 DEF CInv

\* A capture counts from the start of its process to the end of the wait for it.
Counting(s) == spc[s] \in {"select", "kill", "wait"} \/ hpc[s] \in {"copy", "reap"}

Counts == active = Cardinality({s \in Sessions : Counting(s)})

\* A capture is counted once, and off once.
LEMMA CountsKept ==
    ASSUME CInv, Counts, NEW s \in Sessions, CaptureStep(s)
    PROVE  Counts'
<1> DEFINE S == {u \in Sessions : Counting(u)}
<1>0. IsFiniteSet(S)
  BY CaptureAssumption, FS_Subset
<1>1. \A u \in Sessions \ {s} : Counting(u)' <=> Counting(u)
  BY ShapesKept DEF CInv, Same, Counting
<1>2. CASE UNCHANGED active /\ (Counting(s)' <=> Counting(s))
  <2>1. S' = S
    BY <1>1, <1>2
  <2> QED BY <1>2, <2>1 DEF Counts
<1>3. CASE active' = active + 1 /\ ~Counting(s) /\ Counting(s)'
  <2>1. S' = S \cup {s} /\ s \notin S
    BY <1>1, <1>3
  <2>2. Cardinality(S') = Cardinality(S) + 1
    BY <1>0, <2>1, FS_AddElement
  <2> QED BY <1>3, <2>2 DEF Counts
<1>4. CASE active' = active - 1 /\ Counting(s) /\ ~Counting(s)'
  <2>1. S' = S \ {s} /\ s \in S
    BY <1>1, <1>4
  <2>2. Cardinality(S') = Cardinality(S) - 1
    BY <1>0, <2>1, FS_RemoveElement
  <2> QED BY <1>4, <2>2 DEF Counts
<1>5. CASE Counted(s) \/ PcapCounted(s)
  BY <1>3, <1>5 DEF Counted, PcapCounted, Counting, CInv, Shapes, Facts, Kinds
<1>6. CASE Wait(s) \/ Reap(s)
  BY <1>4, <1>6 DEF Wait, Reap, Counting, CInv, Shapes, Facts, Kinds
<1>7. CASE handleCapture(s) \/ handleCapturePcap(s)
  BY <1>2, <1>7 DEF handleCapture, handleCapturePcap, Fresh, Empty, Counting, CInv, Shapes
<1>8. CASE StartFails(s) \/ Started(s) \/ ScannerDone(s) \/ Stop(s) \/ Close(s) \/ CopyEnds(s)
  BY <1>2, <1>8 DEF StartFails, Started, ScannerDone, Stop, Close, CopyEnds, Counting, CInv, Shapes
<1>9. CASE Drained(s) \/ Finish(s) \/ GiveUp(s)
  BY <1>2, <1>9 DEF Drained, Finish, GiveUp, Counting, CInv, Shapes
<1>10. CASE UNCHANGED <<hpc, spc, active>>
  BY <1>2, <1>10 DEF Counting
<1> QED
  BY <1>5, <1>6, <1>7, <1>8, <1>9, <1>10
  DEF CaptureStep, GoroutineStep, Leave, Receive, Scan, EndOfFile, Send, Drop, ContextKills,
      Prints, Exits, Dies

\* At first there is nothing to count.
LEMMA CountsStart == CaptureInit => Counts
<1> SUFFICES ASSUME CaptureInit PROVE Counts
  OBVIOUS
<1>1. {s \in Sessions : Counting(s)} = {}
  BY DEF CaptureInit, Nowhere, Counting
<1> QED BY <1>1, FS_EmptySet DEF CaptureInit, Counts

----------------------------------------------------------------------------
(* The audit *)

\* The types of a request and of a scan.
AskShapes ==
    /\ scope \in Scopes
    /\ apc \in [Callers -> {"idle", "queue", "scan"}]
    /\ lang \in [Callers -> Langs]
    /\ refresh \in [Callers -> BOOLEAN] /\ after \in [Callers -> BOOLEAN]
    /\ holder \in Callers \cup {NoCaller}
    /\ \A c \in Callers : apc[c] = "scan" <=> holder = c
    /\ cache \in [Langs -> {"none", "old", "fresh"}]

ScanShapes ==
    /\ rest \in BOOLEAN /\ unsure \subseteq Items
    /\ rk \in {"ifaces", "active", "tools", "done"}
    /\ verdict \in {"none", "ok", "info", "warn"}
    /\ diff \in {"none", "mark", "store"}
    /\ markAs \in {"baseline", "today"}
    /\ listed \subseteq Items /\ todo \subseteq Items /\ news \subseteq Items
    /\ seen \in [Items -> {"no", "baseline", "today", "before"}]
    /\ through \subseteq Sessions
    /\ plain \subseteq shown /\ shown \subseteq Items

\* A diff is of the scan that holds the lock, and of what it listed.
DiffOfScan ==
    /\ diff # "none" => rest /\ holder # NoCaller /\ news \subseteq listed /\ todo \subseteq listed
    /\ diff = "store" => todo = {}

\* The captures of which the first look may have been still run, and no verdict yet blames one.
Foreign ==
    /\ through \subseteq {s \in Sessions : tshark[s] # "none"}
    /\ rk # "done" => verdict # "warn"
    /\ verdict = "warn" => through = {}

\* But for the items that are unsure, the table is what was shown and what this scan
\* has marked so far, and an item that was shown without the mark is not of the last day.
Table ==
    /\ \A i \in plain \ unsure : seen[i] # "today"
    /\ diff = "none" => \A i \in Items \ unsure : seen[i] # "no" <=> i \in shown
    /\ diff # "none" =>
           /\ \A i \in Items \ unsure : seen[i] # "no" <=> i \in shown \cup (listed \ todo)
           /\ todo \cap shown \subseteq unsure
           /\ \A i \in listed \ (shown \cup unsure) : seen[i] \in {"no", markAs}
           /\ markAs = "baseline" =>
                  news = {} /\ (shown \subseteq unsure \/ listed \subseteq unsure)
           /\ markAs = "today" =>
                  /\ shown \cup unsure # {}
                  /\ \A i \in Items \ unsure : i \in news <=> i \in listed /\ seen[i] \in {"no", "today"}

\* The interfaces are a warning if nobody explains them.
LEMMA PromiscStatus ==
    ASSUME NEW own \in BOOLEAN, NEW tools \in BOOLEAN
    PROVE  Promisc(Interfaces, own, tools).status = IF own \/ tools THEN "info" ELSE "warn"
BY DEF Promisc, Interfaces, findingOrSkipped, finding, check

\* What takes part is of the constants.
LEMMA ScopeTyped ==
    ASSUME scope \in Scopes
    PROVE  /\ scope.callers \subseteq Callers /\ scope.langs \subseteq Langs
           /\ scope.items \subseteq Items /\ scope.sessions \subseteq Sessions
BY AuditAssumption

\* The first state has no scan.
LEMMA AuditStart == AuditInit => AskShapes /\ ScanShapes /\ DiffOfScan /\ Foreign /\ Table
<1> SUFFICES ASSUME AuditInit PROVE AskShapes /\ ScanShapes /\ DiffOfScan /\ Foreign /\ Table
  OBVIOUS
<1>1. (CHOOSE l \in Langs : TRUE) \in Langs
  BY AuditAssumption
<1>2. AskShapes
  BY <1>1, AuditAssumption DEF AuditInit, AskShapes
<1>3. ScanShapes /\ DiffOfScan /\ Foreign /\ Table
  BY DEF AuditInit, NoScan, ScanShapes, DiffOfScan, Foreign, Table
<1> QED BY <1>2, <1>3

\* The requests and the lock.
LEMMA AskKept == AskShapes /\ AuditStep => AskShapes'
<1> SUFFICES ASSUME AskShapes, AuditStep PROVE AskShapes'
  OBVIOUS
<1>0. scope.callers \subseteq Callers /\ scope.langs \subseteq Langs /\ NoCaller \notin Callers
  BY ScopeTyped, AuditAssumption DEF AskShapes
<1> USE DEF AskShapes
<1>1. ASSUME NEW c \in Callers, NEW l \in Langs, NEW r \in BOOLEAN, Ask(c, l, r) PROVE AskShapes'
  BY <1>0, <1>1 DEF Ask
<1>2. ASSUME NEW c \in Callers, Join(c) PROVE AskShapes'
  BY <1>0, <1>2 DEF Join
<1>3. ASSUME NEW c \in Callers, Begin(c) PROVE AskShapes'
  BY <1>0, <1>3 DEF Begin
<1>4. ASSUME NEW c \in Callers, Store(c) PROVE AskShapes'
  <2>1. after' \in [Callers -> BOOLEAN]
    BY <1>4 DEF Store
  <2>2. /\ apc[c] = "scan" /\ holder = c
        /\ apc' = [apc EXCEPT ![c] = "idle"] /\ holder' = NoCaller
        /\ cache' = [cache EXCEPT ![lang[c]] = "fresh"]
        /\ refresh' = [refresh EXCEPT ![c] = FALSE] /\ UNCHANGED <<scope, lang>>
    BY <1>4 DEF Store
  <2>3. \A d \in Callers : apc'[d] = "scan" <=> holder' = d
    BY <1>0, <2>2
  <2> QED BY <2>1, <2>2, <2>3
<1>5. ASSUME NEW l \in Langs, Expire(l) PROVE AskShapes'
  BY <1>5 DEF Expire, askVars
<1>6. CASE Restart
  BY <1>0, <1>6 DEF Restart
<1>7. ASSUME UNCHANGED <<scope, apc, lang, refresh, after, holder, cache>> PROVE AskShapes'
  BY <1>7
<1>8. ASSUME NEW c \in Callers, ScanStep(c) PROVE AskShapes'
  BY <1>4, <1>7, <1>8
  DEF ScanStep, askVars, List, ReadIfaces, ReadActive, ReadTools, Load, LoadFails, Compare, Mark,
      Marked
<1>9. ASSUME NEW i \in Items, AgesOut(i) PROVE AskShapes'
  BY <1>7, <1>9 DEF AgesOut, askVars
<1> QED BY <1>0, <1>1, <1>2, <1>3, <1>5, <1>6, <1>8, <1>9 DEF AuditStep

\* What a scan reads, marks and stores.
LEMMA ScanKept == AskShapes /\ ScanShapes /\ AuditStep => ScanShapes'
<1> SUFFICES ASSUME AskShapes, ScanShapes, AuditStep PROVE ScanShapes'
  OBVIOUS
<1>0. scope.callers \subseteq Callers /\ scope.items \subseteq Items
  BY ScopeTyped DEF AskShapes
<1> USE DEF ScanShapes, scanVars, toldVars
<1>1. ASSUME NEW c \in Callers, Begin(c) PROVE ScanShapes'
  BY <1>1 DEF Begin
<1>2. ASSUME NEW c \in Callers, List(c) PROVE ScanShapes'
  BY <1>0, <1>2 DEF List
<1>3. ASSUME NEW c \in Callers, ReadIfaces(c) PROVE ScanShapes'
  BY <1>3 DEF ReadIfaces
<1>4. ASSUME NEW c \in Callers, ReadActive(c) PROVE ScanShapes'
  BY <1>4, PromiscStatus DEF ReadActive
<1>5. ASSUME NEW c \in Callers, ReadTools(c) PROVE ScanShapes'
  BY <1>5, PromiscStatus DEF ReadTools
<1>6. ASSUME NEW c \in Callers, Load(c) \/ LoadFails(c) PROVE ScanShapes'
  BY <1>6 DEF Load, LoadFails, Compare
<1>7. ASSUME NEW c \in Callers, NEW i \in Items, Mark(c, i) PROVE ScanShapes'
  BY <1>7 DEF Mark
<1>8. ASSUME NEW c \in Callers, Marked(c) PROVE ScanShapes'
  BY <1>8 DEF Marked
<1>9. ASSUME NEW c \in Callers, Store(c) PROVE ScanShapes'
  BY <1>9 DEF Store
<1>10. ASSUME NEW i \in Items, AgesOut(i) PROVE ScanShapes'
  BY <1>10 DEF AgesOut
<1>11. CASE Restart
  BY <1>11 DEF Restart
<1>12. CASE UNCHANGED <<scanVars, seen, through, toldVars>>
  BY <1>12
<1> QED
  BY <1>0, <1>1, <1>2, <1>3, <1>4, <1>5, <1>6, <1>7, <1>8, <1>9, <1>10, <1>11, <1>12
  DEF AuditStep, ScanStep, Ask, Join, Expire

\* No diff outlives its scan.
LEMMA DiffKept == AskShapes /\ ScanShapes /\ DiffOfScan /\ AuditStep => DiffOfScan'
<1> SUFFICES ASSUME AskShapes, ScanShapes, DiffOfScan, AuditStep PROVE DiffOfScan'
  OBVIOUS
<1>0. scope.callers \subseteq Callers /\ NoCaller \notin Callers
      /\ \A c \in Callers : apc[c] = "scan" => holder # NoCaller
  BY ScopeTyped, AuditAssumption DEF AskShapes
<1> USE <1>0 DEF DiffOfScan, scanVars, askVars
<1>1. ASSUME NEW c \in Callers, Begin(c) PROVE DiffOfScan'
  BY <1>1 DEF Begin
<1>2. ASSUME NEW c \in Callers, List(c) PROVE DiffOfScan'
  BY <1>2 DEF List
<1>3. ASSUME NEW c \in Callers, ReadIfaces(c) \/ ReadActive(c) \/ ReadTools(c) PROVE DiffOfScan'
  BY <1>3 DEF ReadIfaces, ReadActive, ReadTools
<1>4. ASSUME NEW c \in Callers, Load(c) \/ LoadFails(c) PROVE DiffOfScan'
  BY <1>4 DEF Load, LoadFails, Compare, ScanRead, Recorded
<1>5. ASSUME NEW c \in Callers, NEW i \in Items, Mark(c, i) PROVE DiffOfScan'
  BY <1>5 DEF Mark
<1>6. ASSUME NEW c \in Callers, Marked(c) \/ Store(c) PROVE DiffOfScan'
  BY <1>6 DEF Marked, Store
<1>7. CASE Restart
  BY <1>7 DEF Restart
<1>8. CASE UNCHANGED <<scanVars, holder>>
  BY <1>8
<1> QED
  BY <1>1, <1>2, <1>3, <1>4, <1>5, <1>6, <1>7, <1>8
  DEF AuditStep, ScanStep, Ask, Join, Expire, AgesOut

\* A warning has looked at the processes last.
LEMMA ForeignKept ==
    AskShapes /\ Foreign /\ AuditStep /\ UNCHANGED captureVars => Foreign'
<1> SUFFICES ASSUME AskShapes, Foreign, AuditStep, UNCHANGED captureVars PROVE Foreign'
  OBVIOUS
<1>0. scope.callers \subseteq Callers /\ tshark' = tshark
  BY ScopeTyped DEF AskShapes, captureVars
<1> USE <1>0 DEF Foreign, scanVars
<1>1. ASSUME NEW c \in Callers, Begin(c) \/ Store(c) PROVE Foreign'
  BY <1>1 DEF Begin, Store
<1>2. ASSUME NEW c \in Callers, ReadIfaces(c) PROVE Foreign'
  BY <1>2 DEF ReadIfaces
<1>3. ASSUME NEW c \in Callers, ReadActive(c) PROVE Foreign'
  BY <1>3, PromiscStatus DEF ReadActive
<1>4. ASSUME NEW c \in Callers, ReadTools(c) PROVE Foreign'
  <2>1. PICK other \in BOOLEAN :
           verdict' = Promisc(Interfaces, FALSE, other \/ \E s \in Sessions : tshark[s] # "none").status
    BY <1>4 DEF ReadTools
  <2>2. verdict' = "warn" => ~\E s \in Sessions : tshark[s] # "none"
    BY <2>1, PromiscStatus
  <2> QED BY <1>4, <2>2 DEF ReadTools
<1>5. CASE Restart
  BY <1>5 DEF Restart
<1>6. CASE UNCHANGED <<rk, verdict, through>>
  BY <1>6
<1> QED
  BY <1>1, <1>2, <1>3, <1>4, <1>5, <1>6
  DEF AuditStep, ScanStep, Ask, Join, List, Load, LoadFails, Compare, Mark, Marked, Expire, AgesOut

\* The table, the result and the marks.
LEMMA TableKept ==
    AskShapes /\ ScanShapes /\ DiffOfScan /\ Table /\ AuditStep => Table'
<1> SUFFICES ASSUME AskShapes, ScanShapes, DiffOfScan, Table, AuditStep
             PROVE  Table'
  OBVIOUS
<1>0. scope.callers \subseteq Callers
  BY ScopeTyped DEF AskShapes
<1> USE DEF Table, ScanShapes, DiffOfScan, scanVars, askVars, toldVars
<1>1. ASSUME NEW c \in Callers, Begin(c) PROVE Table'
  BY <1>1 DEF Begin
<1>2. ASSUME NEW c \in Callers, List(c) PROVE Table'
  BY <1>2 DEF List
<1>3. ASSUME NEW c \in Callers, ReadIfaces(c) \/ ReadActive(c) \/ ReadTools(c) PROVE Table'
  BY <1>3 DEF ReadIfaces, ReadActive, ReadTools
<1>4. ASSUME NEW c \in Callers, NEW rows \in SUBSET Recorded, Compare(c, rows),
             \/ unsure' = unsure /\ rows = Recorded
             \/ unsure' = unsure \cup (listed \ rows)
      PROVE  Table'
  <2>1. /\ diff = "none" /\ diff' = "mark" /\ todo' = listed \ rows
        /\ markAs' = IF rows = {} THEN "baseline" ELSE "today"
        /\ news' = {i \in listed : IF i \in rows THEN seen[i] = "today" ELSE rows # {}}
        /\ UNCHANGED <<listed, seen, shown, plain>>
    BY <1>4 DEF Compare, ScanRead
  <2>2. /\ \A i \in Items \ unsure' : i \in listed => (i \in rows <=> seen[i] # "no")
        /\ unsure \subseteq unsure' /\ unsure' \subseteq Items
    BY <1>4 DEF Recorded
  <2>3. rows \subseteq Items /\ \A i \in rows : seen[i] # "no"
    BY <1>4 DEF Recorded
  <2>4. /\ \A i \in plain' \ unsure' : seen'[i] # "today"
        /\ \A i \in Items \ unsure' : seen'[i] # "no" <=> i \in shown' \cup (listed' \ todo')
        /\ todo' \cap shown' \subseteq unsure'
        /\ \A i \in listed' \ (shown' \cup unsure') : seen'[i] = "no"
    BY <2>1, <2>2
  <2>5. markAs' = "baseline" =>
            news' = {} /\ (shown' \subseteq unsure' \/ listed' \subseteq unsure')
    BY <1>4, <2>1, <2>2 DEF Recorded
  <2>6. markAs' = "today" =>
            /\ shown' \cup unsure' # {}
            /\ \A i \in Items \ unsure' : i \in news' <=> i \in listed' /\ seen'[i] \in {"no", "today"}
    BY <2>1, <2>2, <2>3
  <2> QED BY <2>1, <2>4, <2>5, <2>6
<1>5. ASSUME NEW c \in Callers, Load(c) \/ LoadFails(c) PROVE Table'
  BY <1>4, <1>5 DEF Load, LoadFails
<1>6. ASSUME NEW c \in Callers, NEW i \in Items, Mark(c, i) PROVE Table'
  <2>1. /\ diff = "mark" /\ i \in todo /\ todo' = todo \ {i}
        /\ UNCHANGED <<listed, diff, markAs, news, shown, plain>>
    BY <1>6 DEF Mark
  <2>2. \/ UNCHANGED seen /\ unsure' = unsure \cup {i}
        \/ UNCHANGED unsure /\ seen' = [seen EXCEPT ![i] = IF seen[i] = "no" THEN markAs ELSE seen[i]]
    BY <1>6 DEF Mark
  <2>3. i \notin unsure => seen[i] = "no" /\ i \notin shown
    BY <2>1
  <2>4. CASE UNCHANGED seen /\ unsure' = unsure \cup {i}
    BY <2>1, <2>4
  <2>5. CASE UNCHANGED unsure /\ seen' = [seen EXCEPT ![i] = IF seen[i] = "no" THEN markAs ELSE seen[i]]
    <3>1. \A j \in Items \ {i} : seen'[j] = seen[j]
      BY <2>5
    <3>2. i \notin unsure => seen'[i] = markAs
      BY <2>3, <2>5
    <3> QED BY <2>1, <2>3, <2>5, <3>1, <3>2
  <2> QED BY <2>2, <2>4, <2>5
<1>7. ASSUME NEW c \in Callers, Marked(c) PROVE Table'
  BY <1>7 DEF Marked
<1>8. ASSUME NEW c \in Callers, Store(c) PROVE Table'
  BY <1>8 DEF Store
<1>9. ASSUME NEW i \in Items, AgesOut(i) PROVE Table'
  BY <1>9 DEF AgesOut
<1>10. CASE Restart
  BY <1>10 DEF Restart
<1>11. ASSUME UNCHANGED <<listed, diff, markAs, todo, news, seen, shown, plain, unsure>> PROVE Table'
  BY <1>11
<1> QED
  BY <1>0, <1>1, <1>2, <1>3, <1>4, <1>5, <1>6, <1>7, <1>8, <1>9, <1>10, <1>11
  DEF AuditStep, ScanStep, Ask, Join, Expire

----------------------------------------------------------------------------
(* The two together *)

IInv ==
    /\ CInv /\ Counts
    /\ AskShapes /\ ScanShapes /\ DiffOfScan /\ Foreign
    /\ Table

\* A capture that goes on takes no part in a scan, but for what the first look saw.
LEMMA BesideKept ==
    ASSUME IInv, CaptureBeside
    PROVE  AskShapes' /\ ScanShapes' /\ DiffOfScan' /\ Foreign' /\ Table'
<1>1. /\ through' = {s \in through : tshark'[s] # "none"}
      /\ UNCHANGED <<scope, askVars, cache, scanVars, seen, toldVars>>
  BY DEF CaptureBeside
<1>2. AskShapes'
  BY <1>1 DEF IInv, AskShapes, askVars
<1>3. ScanShapes' /\ DiffOfScan'
  BY <1>1 DEF IInv, ScanShapes, DiffOfScan, scanVars, toldVars, askVars
<1>4. Foreign'
  BY <1>1 DEF IInv, Foreign, ScanShapes, scanVars
<1>5. Table'
  BY <1>1 DEF IInv, Table, scanVars, toldVars
<1> QED BY <1>2, <1>3, <1>4, <1>5

\* The invariant, of which the theorems take what they need.
LEMMA Inductive == Spec => []IInv
<1>1. AuditInit => IInv
  BY CaptureStart, CountsStart, AuditStart DEF AuditInit, IInv
<1>2. IInv /\ [Next]_vars => IInv'
  <2> SUFFICES ASSUME IInv, [Next]_vars PROVE IInv'
    OBVIOUS
  <2>1. CASE AuditStep /\ UNCHANGED captureVars
    <3>1. AskShapes' /\ ScanShapes' /\ DiffOfScan' /\ Foreign' /\ Table'
      BY <2>1, AskKept, ScanKept, DiffKept, ForeignKept, TableKept DEF IInv
    <3>2. CInv' /\ Counts'
      BY <2>1 DEF IInv, captureVars, CInv, Shapes, Facts, Scanner, Closing, InHand, Books, Kinds,
                  Running, Counts, Counting
    <3> QED BY <3>1, <3>2 DEF IInv
  <2>2. CASE CaptureBeside
    <3>1. PICK s \in Sessions : CaptureStep(s)
      BY <2>2, ScopeTyped DEF CaptureBeside, IInv, AskShapes
    <3>2. CInv' /\ Counts'
      BY <3>1, CaptureKeeps, CountsKept DEF IInv
    <3> QED BY <2>2, <3>2, BesideKept DEF IInv
  <2>3. CASE UNCHANGED vars
    <3> USE <2>3 DEF IInv, vars, auditVars, askVars, scanVars, toldVars, captureVars
    <3>1. CInv' /\ Counts'
      BY DEF CInv, Shapes, Facts, Scanner, Closing, InHand, Books, Kinds, Running, Counts, Counting
    <3>2. AskShapes' /\ ScanShapes' /\ DiffOfScan' /\ Foreign' /\ Table'
      BY DEF AskShapes, ScanShapes, DiffOfScan, Foreign, Table
    <3> QED BY <3>1, <3>2
  <2> QED BY <2>1, <2>2, <2>3 DEF Next
<1> QED BY <1>1, <1>2, PTL DEF Spec

(* For any number of captures, channels of any capacity, browsers that leave *)
(* and processes that fail at any time: no packet is sent on a closed        *)
(* channel, a stream that says it is done has told all that tshark printed,  *)
(* and captureActive counts the captures (streamCapture, handleCapture).     *)
THEOREM CaptureIsSound == Spec => []AuditInv
<1>1. IInv => AuditInv
  <2> SUFFICES ASSUME IInv PROVE AuditInv
    OBVIOUS
  <2>0. MaxPackets \in Nat /\ ChanCap \in Nat
    BY CaptureAssumption
  <2>1. ASSUME NEW s \in Sessions
        PROVE  /\ pipe[s] \in 0 .. printed[s] /\ got[s] \in 0 .. printed[s]
               /\ chan[s] \in 0 .. ChanCap /\ printed[s] \in 0 .. MaxPackets
    <3>1. /\ printed[s] \in Nat /\ pipe[s] \in Nat /\ chan[s] \in Nat /\ got[s] \in Nat
          /\ InHand(s) <= printed[s] /\ printed[s] <= MaxPackets /\ chan[s] <= ChanCap
      BY DEF IInv, CInv, Shapes, Facts, Books
    <3>2. pipe[s] + chan[s] + got[s] <= printed[s]
      BY <3>1 DEF InHand
    <3> QED BY <2>0, <3>1, <3>2
  <2>2. CaptureTypeOK
    <3>1. printed \in [Sessions -> 0 .. MaxPackets]
      BY <2>1 DEF IInv, CInv, Shapes
    <3>2. active = Cardinality({s \in Sessions : spc[s] \in {"select", "kill", "wait"}
                                                 \/ hpc[s] \in {"copy", "reap"}})
      BY DEF IInv, Counts, Counting
    <3>3. panicked \in BOOLEAN
      BY DEF IInv, CInv
    <3> QED BY <2>1, <3>1, <3>2, <3>3 DEF IInv, CInv, Shapes, CaptureTypeOK
  <2>3. AuditTypeOK
    BY <2>2 DEF IInv, AskShapes, ScanShapes, DiffOfScan, AuditTypeOK
  <2>4. DoneIsComplete
    <3> SUFFICES ASSUME NEW s \in Sessions, hpc[s] = "end"
                 PROVE  got[s] = printed[s] /\ (trouble[s] => errMsg[s] = "error")
      BY DEF DoneIsComplete
    <3>1. Closing(s) /\ Scanner(s) /\ Books(s) /\ got[s] \in Nat
      BY DEF IInv, CInv, Facts, Shapes
    <3>2. closed[s] /\ chan[s] = 0 /\ ~stopped[s] /\ pipe[s] = 0 /\ rpc[s] # "emit"
      BY <3>1 DEF Closing, Scanner
    <3>3. InHand(s) = got[s]
      BY <3>1, <3>2 DEF InHand
    <3> QED BY <3>1, <3>2, <3>3 DEF Books, Closing
  <2> QED BY <2>3, <2>4 DEF AuditInv, NoSendOnClosed, IInv, CInv
<1> QED BY <1>1, Inductive, PTL

(* However captures start and end beside a scan, a promiscuous interface is   *)
(* no warning while one of them lasts through all three looks                *)
(* (auditRootkit).                                                           *)
THEOREM ForeignOnly == Spec => []FlagIsForeign
<1>1. IInv => FlagIsForeign
  BY DEF IInv, Foreign, FlagIsForeign
<1> QED BY <1>1, Inductive, PTL

(* For any items, requests, languages, failed statements and restarts at any  *)
(* time, the mark tells new from known of each item of which nothing failed   *)
(* (applyAuditDiff).                                                         *)
THEOREM NewsHold == Spec => []NewsAreTrue
<1>1. IInv => NewsAreTrue
  <2> SUFFICES ASSUME IInv, diff = "store"
               PROVE  /\ shown \cup unsure = {} => news = {}
                      /\ shown \ unsure # {} => listed \ (shown \cup unsure) \subseteq news
                      /\ news \cap plain \subseteq unsure
    BY DEF NewsAreTrue, NewIsTold, NewIsNews
  <2>1. /\ Table /\ todo = {} /\ news \subseteq listed /\ markAs \in {"baseline", "today"}
        /\ listed \subseteq Items /\ plain \subseteq Items
    BY DEF IInv, DiffOfScan, ScanShapes
  <2>2. \A i \in listed \ unsure : seen[i] # "no"
    BY <2>1 DEF Table
  <2>3. news \cap plain \subseteq unsure
    BY <2>1, <2>2 DEF Table
  <2>4. shown \cup unsure = {} => news = {}
    BY <2>1 DEF Table
  <2>5. shown \ unsure # {} => listed \ (shown \cup unsure) \subseteq news
    BY <2>1 DEF Table
  <2> QED BY <2>3, <2>4, <2>5
<1> QED BY <1>1, Inductive, PTL

-----------------------------------------------------------------------------
(* What the checks conclude, of any host *)

\* What each check reads.
LEMMA WhatIsRead ==
    /\ ReadBy("pw_run") = {"run"}
    /\ ReadBy("pw_run_susp") = {"run"}
    /\ ReadBy("pw_startup") = {"startup"}
    /\ ReadBy("pw_tasks") = {"tasks"}
    /\ ReadBy("pw_winlogon") = {"winlogon"}
    /\ ReadBy("pw_ifeo") = {"ifeo"}
    /\ ReadBy("pw_appinit") = {"appinit"}
    /\ ReadBy("pw_services") = {"services"}
    /\ ReadBy("pw_unquoted") = {"services"}
    /\ ReadBy("pl_cron") = {"cron"}
    /\ ReadBy("pl_rc") = {"rc", "rcOther"}
    /\ ReadBy("pl_auto_susp") = {"xdg", "autostart"}
    /\ ReadBy("pl_auto") = {"autostart"}
    /\ ReadBy("pl_systemd") = {"userUnits"}
    /\ ReadBy("pl_sysd_susp") = {"units"}
    /\ ReadBy("pl_sysd_sys") = {"units"}
    /\ ReadBy("hw_fw") = {"winfw"}
    /\ ReadBy("hw_def") = {"defender"}
    /\ ReadBy("hw_rdp") = {"rdp"}
    /\ ReadBy("hw_admins") = {"admins"}
    /\ ReadBy("hosts") = {"hosts"}
    /\ ReadBy("hosts_custom") = {"hosts"}
    /\ ReadBy("hl_ufw") = {"ufw"}
    /\ ReadBy("hl_fw") = {"nft"}
    /\ ReadBy("hl_ssh") = {"sshd"}
    /\ ReadBy("hl_uid0") = {"passwd"}
    /\ ReadBy("hl_authkeys") = {"keys"}
    /\ ReadBy("hl_shadow") = {"shadow"}
    /\ ReadBy("hl_sudo") = {"sudoers"}
    /\ ReadBy("hl_suid") = {"suid"}
    /\ ReadBy("hl_mac") = {"apparmor", "selinux"}
    /\ ReadBy("hl_path_ww") = {"path"}
    /\ ReadBy("rk_hidden") = {"hidden"}
    /\ ReadBy("rk_ports") = {"ports"}
    /\ ReadBy("rk_preload") = {"preload"}
    /\ ReadBy("rk_env_preload") = {"environ"}
    /\ ReadBy("rk_modules") = {"modules"}
    /\ ReadBy("rk_tainted") = {"taint"}
    /\ ReadBy("rk_promisc") = {"ifaces"}
    /\ ReadBy("rk_drivers") = {"drivers"}
    /\ \A key \in {"p_suspath", "p_masq", "p_deleted", "p_revshell", "p_traced"} :
          key \notin DOMAIN Reads /\ ReadBy(key) = {}
BY DEF ReadBy, Reads

\* A result has the key it was built with.
LEMMA KeyIs ==
    /\ \A key, status, items : finding(key, status, items).key = key
    /\ \A key, status, items, err : findingOrUnknown(key, status, items, err).key = key
BY DEF check, finding, findingOrUnknown

\* What is demanded of one result.
TellsFailure(h, c) ==
    c.key \in DOMAIN Reads \ Unasked /\ c.status = "ok" /\ ~c.partial =>
        /\ \E s \in ReadBy(c.key) : h[s].state # "failed" \/ h[s].got # {}
        /\ c.key \in TellsPart => \A s \in ReadBy(c.key) : h[s].state # "failed"

IsFounded(h, c) ==
    c.status \in {"warn", "risk"} =>
        \/ \E s \in ReadBy(c.key) : h[s].got # {}
        \/ c.key \in OfAbsence /\ \E s \in ReadBy(c.key) : h[s].state = "read"
        \/ c.key \notin DOMAIN Reads /\ ~(h.procs \subseteq Ordinary)
        \/ c.key = "hw_def" /\ h.defender.state # "failed"

TellsBad(h, c) ==
    c.key \notin Otherwise /\ c.status = "ok" =>
        \A s \in ReadBy(c.key) : Found(h[s]) = {} \/ (s = "rcOther" /\ Err(h.passwd))

Sound(h, c) == TellsFailure(h, c) /\ IsFounded(h, c) /\ TellsBad(h, c)

\* Registry, start-up folder, tasks and services.
LEMMA WindowsPersistence ==
    ASSUME NEW h, NEW c \in auditPersistenceWindows(h)
    PROVE  Sound(h, c)
<1>1. Sound(h, RunKeys(h))
  BY WhatIsRead DEF check, Sound, TellsFailure, IsFounded, TellsBad, Found, Unasked, TellsPart,
         Otherwise, OfAbsence, finding, RunKeys
<1>2. Sound(h, finding("pw_startup", "warn", h.startup.got))
  BY WhatIsRead DEF check, Sound, TellsFailure, IsFounded, TellsBad, Found, Unasked, TellsPart,
         Otherwise, OfAbsence, finding
<1>3. Sound(h, findingOrUnknown("pw_tasks", "risk", Found(h.tasks), Err(h.tasks)))
  BY WhatIsRead DEF check, Sound, TellsFailure, IsFounded, TellsBad, Found, Unasked, TellsPart,
         Otherwise, OfAbsence, Err, findingOrUnknown, finding
<1>4. Sound(h, finding("pw_winlogon", "risk", Found(h.winlogon)))
  BY WhatIsRead DEF check, Sound, TellsFailure, IsFounded, TellsBad, Found, Unasked, TellsPart,
         Otherwise, OfAbsence, finding
<1>5. Sound(h, finding("pw_ifeo", "risk", Found(h.ifeo)))
  BY WhatIsRead DEF check, Sound, TellsFailure, IsFounded, TellsBad, Found, Unasked, TellsPart,
         Otherwise, OfAbsence, finding
<1>6. Sound(h, finding("pw_appinit", "risk", h.appinit.got))
  BY WhatIsRead DEF check, Sound, TellsFailure, IsFounded, TellsBad, Found, Unasked, TellsPart,
         Otherwise, OfAbsence, finding
<1>7. Sound(h, findingOrUnknown("pw_services", "risk", Found(h.services), Err(h.services)))
  BY WhatIsRead DEF check, Sound, TellsFailure, IsFounded, TellsBad, Found, Unasked, TellsPart,
         Otherwise, OfAbsence, Err, findingOrUnknown, finding
<1>8. Sound(h, findingOrUnknown("pw_unquoted", "warn", Odd(h.services), Err(h.services)))
  BY WhatIsRead DEF check, Sound, TellsFailure, IsFounded, TellsBad, Found, Unasked, TellsPart,
         Otherwise, OfAbsence, Err, findingOrUnknown, finding, Odd
<1> QED BY <1>1, <1>2, <1>3, <1>4, <1>5, <1>6, <1>7, <1>8 DEF auditPersistenceWindows

\* Cron, start-up files, autostart and units.
LEMMA LinuxPersistence ==
    ASSUME NEW h, NEW c \in auditPersistenceLinux(h)
    PROVE  Sound(h, c)
<1>1. Sound(h, finding("pl_cron", "info", h.cron.got \ Odd(h.cron)))
  BY WhatIsRead DEF check, Sound, TellsFailure, IsFounded, TellsBad, Found, Unasked, TellsPart,
         Otherwise, OfAbsence, finding, Odd
<1>2. Sound(h, finding("pl_rc", "risk", suspiciousRCLines(h)))
  BY WhatIsRead DEF check, Sound, TellsFailure, IsFounded, TellsBad, Found, Unasked, TellsPart,
         Otherwise, OfAbsence, finding, suspiciousRCLines, userHomes
<1>3. Sound(h, finding("pl_auto_susp", "risk", Found(h.xdg) \cup Found(h.autostart)))
  BY WhatIsRead DEF check, Sound, TellsFailure, IsFounded, TellsBad, Found, Unasked, TellsPart,
         Otherwise, OfAbsence, finding
<1>4. Sound(h, finding("pl_auto", "info", h.autostart.got))
  BY WhatIsRead DEF check, Sound, TellsFailure, IsFounded, TellsBad, Found, Unasked, TellsPart,
         Otherwise, OfAbsence, finding
<1>5. Sound(h, finding("pl_systemd", "warn", h.userUnits.got))
  BY WhatIsRead DEF check, Sound, TellsFailure, IsFounded, TellsBad, Found, Unasked, TellsPart,
         Otherwise, OfAbsence, finding
<1>6. Sound(h, finding("pl_sysd_susp", "risk", Found(h.units)))
  BY WhatIsRead DEF check, Sound, TellsFailure, IsFounded, TellsBad, Found, Unasked, TellsPart,
         Otherwise, OfAbsence, finding
<1>7. Sound(h, finding("pl_sysd_sys", "info", h.units.got))
  BY WhatIsRead DEF check, Sound, TellsFailure, IsFounded, TellsBad, Found, Unasked, TellsPart,
         Otherwise, OfAbsence, finding
<1> QED BY <1>1, <1>2, <1>3, <1>4, <1>5, <1>6, <1>7 DEF auditPersistenceLinux, auditSystemdSystem

\* The file of hosts, which both systems have.
LEMMA HostsFile ==
    ASSUME NEW h
    PROVE  Sound(h, auditHostsFile(h))
BY WhatIsRead DEF check, Sound, TellsFailure, IsFounded, TellsBad, Found, Unasked, TellsPart,
       Otherwise, OfAbsence, Err, auditHostsFile, finding

\* Firewall, Defender, remote desktop, administrators.
LEMMA WindowsHardening ==
    ASSUME NEW h, NEW c \in auditHardeningWindows(h)
    PROVE  Sound(h, c)
<1>1. Sound(h, auditWinFirewall(h))
  BY WhatIsRead DEF check, Sound, TellsFailure, IsFounded, TellsBad, Found, Unasked, TellsPart,
         Otherwise, OfAbsence, Err, auditWinFirewall
<1>2. Sound(h, Defender(h))
  BY WhatIsRead DEF check, Sound, TellsFailure, IsFounded, TellsBad, Found, Unasked, TellsPart,
         Otherwise, OfAbsence, Err, Defender
<1>3. Sound(h, Admins(h))
  BY WhatIsRead DEF check, Sound, TellsFailure, IsFounded, TellsBad, Found, Unasked, TellsPart,
         Otherwise, OfAbsence, Err, Admins, statusFor
<1>4. \A d \in RDP(h) : Sound(h, d)
  BY WhatIsRead DEF check, Sound, TellsFailure, IsFounded, TellsBad, Found, Unasked, TellsPart,
         Otherwise, OfAbsence, Err, RDP
<1>5. Sound(h, auditHostsFile(h))
  BY HostsFile
<1> QED BY <1>1, <1>2, <1>3, <1>4, <1>5 DEF auditHardeningWindows

\* Firewall, SSH, accounts, permissions.
LEMMA LinuxHardening ==
    ASSUME NEW h, NEW c \in auditHardeningLinux(h)
    PROVE  Sound(h, c)
<1>1. Sound(h, Firewall(h))
  BY WhatIsRead DEF check, Sound, TellsFailure, IsFounded, TellsBad, Found, Unasked, TellsPart,
         Otherwise, OfAbsence, Err, Firewall, Ufw, Rules
<1>2. Sound(h, auditSSHAuthorizedKeys(h))
  BY WhatIsRead DEF check, Sound, TellsFailure, IsFounded, TellsBad, Found, Unasked, TellsPart,
         Otherwise, OfAbsence, Err, findingOrUnknown, finding, auditSSHAuthorizedKeys
<1>3. Sound(h, auditShadowPerms(h))
  BY WhatIsRead DEF check, Sound, TellsFailure, IsFounded, TellsBad, Found, Unasked, TellsPart,
         Otherwise, OfAbsence, finding, auditShadowPerms
<1>4. Sound(h, auditSudoers(h))
  BY WhatIsRead DEF check, Sound, TellsFailure, IsFounded, TellsBad, Found, Unasked, TellsPart,
         Otherwise, OfAbsence, finding, auditSudoers
<1>5. Sound(h, auditSUID(h))
  BY WhatIsRead DEF check, Sound, TellsFailure, IsFounded, TellsBad, Found, Unasked, TellsPart,
         Otherwise, OfAbsence, Err, findingOrUnknown, finding, auditSUID
<1>6. Sound(h, auditMAC(h))
  BY WhatIsRead DEF check, Sound, TellsFailure, IsFounded, TellsBad, Found, Unasked, TellsPart,
         Otherwise, OfAbsence, Err, auditMAC
<1>7. Sound(h, auditPathWritable(h))
  BY WhatIsRead DEF check, Sound, TellsFailure, IsFounded, TellsBad, Found, Unasked, TellsPart,
         Otherwise, OfAbsence, finding, auditPathWritable
<1>8. Sound(h, auditHostsFile(h))
  BY HostsFile
<1>9. \A d \in SSHConfig(h) : Sound(h, d)
  <2>1. ~Err(h.sshd) => Sound(h, finding("hl_ssh", "warn", Found(h.sshd)))
    BY WhatIsRead DEF check, Sound, TellsFailure, IsFounded, TellsBad, Found, Unasked, TellsPart,
           Otherwise, OfAbsence, Err, finding
  <2> QED BY <2>1 DEF SSHConfig
<1>10. \A d \in UID0(h) : Sound(h, d)
  <2>1. ~Err(h.passwd) => Sound(h, finding("hl_uid0", "risk", Found(h.passwd)))
    BY WhatIsRead DEF check, Sound, TellsFailure, IsFounded, TellsBad, Found, Unasked, TellsPart,
           Otherwise, OfAbsence, Err, finding
  <2> QED BY <2>1 DEF UID0
<1> QED BY <1>1, <1>2, <1>3, <1>4, <1>5, <1>6, <1>7, <1>8, <1>9, <1>10 DEF auditHardeningLinux

\* Hidden processes and ports, preloads, modules, interfaces, drivers.
LEMMA RootkitHeuristics ==
    ASSUME NEW os, NEW h, NEW c \in auditRootkit(os, h)
    PROVE  Sound(h, c)
<1>1. Sound(h, Hidden(os, h))
  <2> DEFINE items == Found(h.hidden)
             part == h.hidden.state = "failed"
             d == Hidden(os, h)
  <2>1. /\ d.key = "rk_hidden" /\ (~d.partial => ~part)
        /\ d.status \in {"warn", "risk"} => items # {}
        /\ d.status = "ok" => items = {}
    BY DEF Hidden, findingOrSkipped, finding, check
  <2> HIDE DEF d
  <2>2. ReadBy("rk_hidden") = {"hidden"}
    BY WhatIsRead
  <2>3. TellsFailure(h, d)
    BY <2>1, <2>2 DEF TellsFailure
  <2>4. IsFounded(h, d)
    BY <2>1, <2>2 DEF IsFounded, Found
  <2>5. TellsBad(h, d)
    BY <2>1, <2>2 DEF TellsBad
  <2> QED BY <2>3, <2>4, <2>5 DEF Sound, d
<1>2. Sound(h, auditHiddenPorts(h))
  BY WhatIsRead DEF check, Sound, TellsFailure, IsFounded, TellsBad, Found, Unasked, TellsPart,
         Otherwise, OfAbsence, Err, auditHiddenPorts, finding
<1>3. Sound(h, Preload(h))
  BY WhatIsRead DEF check, Sound, TellsFailure, IsFounded, TellsBad, Found, Unasked, TellsPart,
         Otherwise, OfAbsence, Err, Preload
<1>4. Sound(h, auditEnvPreload(h))
  BY WhatIsRead DEF check, Sound, TellsFailure, IsFounded, TellsBad, Found, Unasked, TellsPart,
         Otherwise, OfAbsence, Err, auditEnvPreload
<1>5. Sound(h, Modules(h))
  BY WhatIsRead DEF check, Sound, TellsFailure, IsFounded, TellsBad, Found, Unasked, TellsPart,
         Otherwise, OfAbsence, Err, Modules, finding
<1>6. Sound(h, Promisc(h.ifaces, h.own, h.tools))
  BY WhatIsRead DEF check, Sound, TellsFailure, IsFounded, TellsBad, Found, Unasked, TellsPart,
         Otherwise, OfAbsence, Err, Promisc, findingOrSkipped, finding
<1>7. \A d \in Tainted(h) : Sound(h, d)
  BY WhatIsRead DEF check, Sound, TellsFailure, IsFounded, TellsBad, Found, Unasked, TellsPart,
         Otherwise, OfAbsence, Err, Tainted
<1>8. Sound(h, auditWinDrivers(h))
  BY WhatIsRead DEF check, Sound, TellsFailure, IsFounded, TellsBad, Found, Unasked, TellsPart,
         Otherwise, OfAbsence, Err, findingOrUnknown, finding, auditWinDrivers
<1> QED BY <1>1, <1>2, <1>3, <1>4, <1>5, <1>6, <1>7, <1>8 DEF auditRootkit

\* What runs.
LEMMA ProcessesSound ==
    ASSUME NEW os, NEW h, NEW c \in auditProcesses(os, h.procs, h.inet)
    PROVE  Sound(h, c)
<1> DEFINE open == {p \in h.procs : "foreign" \notin p}
           deleted == {p \in open : "deleted" \in p}
           revshell == {p \in open : h.inet /\ {"shell", "socket"} \subseteq p}
           traced == {p \in h.procs : "traced" \in p}
           masq == {p \in open : "system" \in p /\ "system32" \notin p}
           staged == {p \in open : "staged" \in p}
<1>1. h.procs \subseteq Ordinary =>
          deleted = {} /\ revshell = {} /\ traced = {} /\ masq = {} /\ staged = {}
  BY DEF Ordinary
<1>2. ASSUME NEW key \in {"p_suspath", "p_masq", "p_deleted", "p_revshell", "p_traced"},
             NEW status, NEW items, items # {} => ~(h.procs \subseteq Ordinary)
      PROVE  Sound(h, finding(key, status, items))
  <2>1. key \notin DOMAIN Reads /\ ReadBy(key) = {}
    BY WhatIsRead
  <2> QED BY <1>2, <2>1 DEF finding, check, Sound, TellsFailure, IsFounded, TellsBad
<1>3. Sound(h, findingOrSkipped("p_deleted", "risk", {}, FALSE))
  BY WhatIsRead DEF findingOrSkipped, check, Sound, TellsFailure, IsFounded, TellsBad
<1>4. /\ Sound(h, finding("p_suspath", "risk", staged)) /\ Sound(h, finding("p_masq", "risk", masq))
      /\ Sound(h, finding("p_deleted", "risk", deleted))
      /\ Sound(h, finding("p_revshell", "risk", revshell))
      /\ Sound(h, finding("p_traced", "warn", traced))
  BY <1>1, <1>2
<1>5. c \in {finding("p_suspath", "risk", staged), finding("p_masq", "risk", masq),
            finding("p_deleted", "risk", deleted), finding("p_revshell", "risk", revshell),
            finding("p_traced", "warn", traced), findingOrSkipped("p_deleted", "risk", {}, FALSE)}
  BY DEF auditProcesses
<1> QED BY <1>3, <1>4, <1>5

\* Every result of every check is sound, whatever the host holds and whatever of it
\* could be read.
LEMMA EveryResult ==
    ASSUME NEW os, NEW h, NEW c \in Checks(os, h)
    PROVE  Sound(h, c)
BY WindowsPersistence, LinuxPersistence, WindowsHardening, LinuxHardening, RootkitHeuristics,
   ProcessesSound DEF Checks

\* The checks of modules and of their taint are those of the heuristics.
LEMMA ModulesAndTaint ==
    ASSUME NEW h, NEW c \in Checks("linux", h)
    PROVE  /\ c.key = "rk_modules" => c = Modules(h)
           /\ c.key = "rk_tainted" => c \in Tainted(h)
<1> DEFINE Other(d) == d.key \notin {"rk_modules", "rk_tainted"}
<1>1. \A d \in auditProcesses("linux", h.procs, h.inet) : Other(d)
  BY KeyIs DEF auditProcesses
<1>2. \A d \in auditPersistenceLinux(h) : Other(d)
  BY KeyIs DEF auditPersistenceLinux, auditSystemdSystem
<1>3. \A d \in {auditSSHAuthorizedKeys(h), auditShadowPerms(h), auditSudoers(h), auditSUID(h),
               auditPathWritable(h)} : Other(d)
  BY KeyIs DEF auditSSHAuthorizedKeys, auditShadowPerms, auditSudoers, auditSUID,
         auditPathWritable
<1>4. Other(Firewall(h)) /\ Other(auditMAC(h)) /\ Other(auditHostsFile(h))
  BY DEF Firewall, Ufw, Rules, auditMAC, auditHostsFile, finding, check
<1>5. \A d \in SSHConfig(h) \cup UID0(h) : Other(d)
  BY DEF SSHConfig, UID0, finding, check
<1>6. Other(auditHiddenPorts(h)) /\ Other(Preload(h)) /\ Other(auditEnvPreload(h))
  BY DEF auditHiddenPorts, Preload, auditEnvPreload, finding, check
<1>7. Other(Hidden("linux", h)) /\ Other(Promisc(h.ifaces, h.own, h.tools))
  BY DEF Hidden, Promisc, findingOrSkipped, finding, check
<1>8. Modules(h).key = "rk_modules"
  BY DEF Modules, finding, check
<1>9. \A d \in Tainted(h) : d.key = "rk_tainted"
  BY DEF Tainted, check
<1>10. c \in auditProcesses("linux", h.procs, h.inet) \cup auditPersistenceLinux(h)
            \cup auditHardeningLinux(h) \cup auditRootkit("linux", h)
  BY DEF Checks
<1>11. \A d \in auditHardeningLinux(h) : Other(d)
  BY <1>3, <1>4, <1>5 DEF auditHardeningLinux
<1>12. \A d \in auditRootkit("linux", h) : Other(d) \/ d = Modules(h) \/ d \in Tainted(h)
  BY <1>6, <1>7 DEF auditRootkit
<1> QED BY <1>1, <1>2, <1>8, <1>9, <1>10, <1>11, <1>12

\* The modules are named where they explain the taint.
LEMMA TaintNamed ==
    ASSUME NEW h, h.modules \in Files, NEW a \in Tainted(h), a.status = "info"
    PROVE  Modules(h).status = "info" /\ Modules(h).items # {}
<1>1. /\ ~Err(h.taint) /\ h.taint.got = {"plain"}
      /\ h.modules.got # {} /\ unknownModules(h) = {}
  BY DEF Tainted, check
<1>2. ~Err(h.modules)
  BY <1>1 DEF Files, Sources, Err
<1> QED BY <1>1, <1>2 DEF Modules, check

\* A process that comes or goes during the sweep is not hidden, one that is never
\* shown is (hiddenProcs).
LEMMA SweepIsFair == \A instants \in SUBSET Int : HiddenIsHidden(instants)
<1> SUFFICES ASSUME NEW first \in Int, NEW last \in Int
             PROVE  /\ ~hiddenPid(first .. last, TRUE)
                    /\ hiddenWinPid(first .. last, first .. last) => first = 2 /\ last = 3
                    /\ first <= 1 /\ last >= 4 =>
                          /\ hiddenPid(first .. last, FALSE)
                          /\ hiddenWinPid(first .. last, {}) /\ hiddenWinPid({}, first .. last)
  BY DEF HiddenIsHidden
<1>1. \A i \in 1 .. 4 : i \in first .. last <=> first <= i /\ i <= last
  OBVIOUS
<1> QED BY <1>1 DEF hiddenPid, hiddenWinPid

\* Of every host, whatever its sources hold and whatever of them could be read: no check
\* but the unasked ones says that all is well if it could not look, none but that of
\* Defender raises an alarm about a failure, and none passes over what it read
\* (findingOrUnknown, runCmdErr).
THEOREM ChecksOfEveryHost == \A hosts : ChecksAreHonest(hosts)
<1> TAKE hosts
<1>1. FailureIsTold(hosts)
  BY EveryResult DEF FailureIsTold, Sound, TellsFailure
<1>2. AlarmIsFounded(hosts)
  BY EveryResult DEF AlarmIsFounded, Sound, IsFounded
<1>3. BadIsTold(hosts)
  BY EveryResult DEF BadIsTold, Sound, TellsBad
<1>4. TaintIsExplained(hosts)
  BY ModulesAndTaint, TaintNamed DEF TaintIsExplained
<1>5. HiddenIsHidden(1 .. 4)
  BY SweepIsFair
<1> QED BY <1>1, <1>2, <1>3, <1>4, <1>5 DEF ChecksAreHonest

\* What the checks conclude is honest, in the run as for every host.
THEOREM AuditHonest == FairSpec => []AuditIsHonest
<1>1. AuditIsHonest
  BY ChecksOfEveryHost DEF AuditIsHonest
<1> QED BY <1>1, PTL
=============================================================================
