------------------------ MODULE OperatorStore_proofs ------------------------
(***************************************************************************)
(* What the runs of MCOperatorStore show for two entries and three         *)
(* requests, for any number of each.  Permanent and NoGhost need the       *)
(* assumption that requests about one entry do not overlap (Serialized);   *)
(* the runs of MCOperatorStoreRace show that they are false without it.    *)
(***************************************************************************)
EXTENDS OperatorStore, TLAPS

\* No two requests in flight are about the same entry.
OnePerKey ==
    \A v, w \in Workers :
        /\ pc[v] \in Adding \cup Removing
        /\ pc[w] \in Adding \cup Removing
        /\ arg[v].key = arg[w].key
        => v = w

\* Between its two halves a change finds memory as it left it.
MemoryKept ==
    \A w \in Workers :
        /\ pc[w] \in Adding => arg[w].stamp \in Stamps
        /\ pc[w] \in {"load", "dbadd"} => mem[arg[w].key] = arg[w].stamp
        /\ pc[w] = "dbremove" => mem[arg[w].key] = NoRow

\* One toggle at a time, and from its store on the setting is what it asked for.
ToggleKept ==
    /\ \A v, w \in Workers : pc[v] \in Toggling /\ pc[w] \in Toggling => v = w
    /\ \A w \in Workers :
          pc[w] \in {"rlock", "flush", "env"} => persist = arg[w].on /\ ~handed

IInv == StoreTypeOK /\ OnePerKey /\ MemoryKept /\ Permanent /\ NoGhost

-----------------------------------------------------------------------------

\* No step takes a variable out of its type.
LEMMA StoreTypeStep ==
    ASSUME StoreTypeOK, [Next]_storeVars
    PROVE  StoreTypeOK'
<1> USE DEF StoreTypeOK, NoArg, Rows, PCs, Adding, Removing, Lines, Says
<1>1. ASSUME NEW w \in Workers, Arrival(w)
      PROVE  StoreTypeOK'
  <2>1. CASE \E k \in Keys, s \in Stamps : AddArrives(w, k, s)
    <3> PICK k \in Keys, s \in Stamps : AddArrives(w, k, s)
      BY <2>1
    <3> QED BY DEF AddArrives, Receive, Goto
  <2>2. CASE \E k \in Keys : RemoveArrives(w, k)
    <3> PICK k \in Keys : RemoveArrives(w, k)
      BY <2>2
    <3> QED BY DEF RemoveArrives, Receive, Goto
  <2>3. CASE \E b \in BOOLEAN : ToggleArrives(w, b)
    <3> PICK b \in BOOLEAN : ToggleArrives(w, b)
      BY <2>3
    <3> QED BY DEF ToggleArrives, Receive, Goto
  <2> QED BY <1>1, <2>1, <2>2, <2>3 DEF Arrival
<1>2. ASSUME NEW w \in Workers, WorkerStep(w)
      PROVE  StoreTypeOK'
  <2>1. CASE AddMem(w)
    BY <2>1 DEF AddMem, Goto
  <2>2. CASE LoadOn(w)
    BY <2>2 DEF LoadOn, Goto
  <2>3. CASE LoadOff(w)
    BY <2>3 DEF LoadOff, Answer, Goto
  <2>4. CASE DbAdd(w)
    BY <2>4 DEF DbAdd, Exec, Answer, Goto
  <2>5. CASE RemoveMem(w)
    BY <2>5 DEF RemoveMem, Goto
  <2>6. CASE DbRemove(w)
    BY <2>6 DEF DbRemove, Exec, Answer, Goto
  <2>7. CASE ToggleStore(w)
    BY <2>7 DEF ToggleStore, Goto
  <2>8. CASE FlushBegin(w)
    BY <2>8 DEF FlushBegin, Goto, Entries
  <2>9. CASE FlushRow(w)
    BY <2>9 DEF FlushRow, Exec
  <2>10. CASE FlushEnd(w)
    BY <2>10 DEF FlushEnd, Goto
  <2>11. CASE WriteEnv(w)
    BY <2>11 DEF WriteEnv, Answer, Goto
  <2> QED BY <1>2, <2>1, <2>2, <2>3, <2>4, <2>5, <2>6, <2>7, <2>8, <2>9, <2>10, <2>11
          DEF WorkerStep
<1>3. ASSUME NEW again \in BOOLEAN, Reload(again)
      PROVE  StoreTypeOK'
  BY <1>3 DEF Reload, Load
<1>4. CASE UNCHANGED storeVars
  BY <1>4 DEF storeVars
<1>5. CASE EnvReplaced
  BY <1>5 DEF EnvReplaced
<1> QED BY <1>1, <1>2, <1>3, <1>4, <1>5 DEF Next

\* The state of a fresh start has its type.
LEMMA StoreTypeInit == Init => StoreTypeOK
<1> SUFFICES ASSUME Init PROVE StoreTypeOK
  OBVIOUS
<1>1. /\ mem \in [Keys -> Rows] /\ db \in [Keys -> Rows]
      /\ persist \in BOOLEAN /\ env \in Lines /\ given \in Lines
      /\ handed \in BOOLEAN /\ unsaved \in BOOLEAN /\ lost \subseteq Keys
  BY DEF Init, Says
<1>2. /\ pc \in [Workers -> PCs] /\ todo \in [Workers -> SUBSET Keys]
      /\ \A w \in Workers : pc[w] \notin Adding \cup Removing
  BY DEF Init, PCs, Adding, Removing
<1>3. arg \in [Workers -> [key : Keys \cup {NoRow}, stamp : Rows, on : BOOLEAN]]
  BY DEF Init, NoArg, Rows
<1> QED BY <1>1, <1>2, <1>3 DEF StoreTypeOK

\* Every variable keeps its type, whatever arrives and whenever the process
\* ends (the state of store.go and the setting of config.go).
THEOREM StoreTyping == Spec => []StoreTypeOK
<1>1. StoreTypeOK /\ [Next]_storeVars => StoreTypeOK'
  BY StoreTypeStep
<1> QED BY <1>1, StoreTypeInit, PTL DEF Spec

-----------------------------------------------------------------------------

\* Requests about one entry do not overlap once they are serialized.
LEMMA OnePerKeyStep ==
    ASSUME Serialized, StoreTypeOK, OnePerKey, [Next]_storeVars
    PROVE  OnePerKey'
<1> USE DEF StoreTypeOK, OnePerKey, Adding, Removing
<1>1. ASSUME NEW w \in Workers, Arrival(w)
      PROVE  OnePerKey'
  <2>1. CASE \E k \in Keys, s \in Stamps : AddArrives(w, k, s)
    <3> PICK k \in Keys, s \in Stamps : AddArrives(w, k, s)
      BY <2>1
    <3> QED BY DEF AddArrives, Receive, Goto, Busy
  <2>2. CASE \E k \in Keys : RemoveArrives(w, k)
    <3> PICK k \in Keys : RemoveArrives(w, k)
      BY <2>2
    <3> QED BY DEF RemoveArrives, Receive, Goto, Busy
  <2>3. CASE \E b \in BOOLEAN : ToggleArrives(w, b)
    BY <2>3 DEF ToggleArrives, Receive, Goto
  <2> QED BY <1>1, <2>1, <2>2, <2>3 DEF Arrival
<1>2. ASSUME NEW w \in Workers, WorkerStep(w)
      PROVE  OnePerKey'
  <2>1. CASE AddMem(w) \/ LoadOn(w) \/ LoadOff(w) \/ RemoveMem(w)
    BY <2>1 DEF AddMem, LoadOn, LoadOff, RemoveMem, Answer, Goto
  <2>2. CASE DbAdd(w) \/ DbRemove(w)
    BY <2>2 DEF DbAdd, DbRemove, Answer, Goto
  <2>3. CASE ToggleStore(w) \/ FlushBegin(w) \/ FlushEnd(w) \/ WriteEnv(w)
    BY <2>3 DEF ToggleStore, FlushBegin, FlushEnd, WriteEnv, Answer, Goto
  <2>4. CASE FlushRow(w)
    BY <2>4 DEF FlushRow
  <2> QED BY <1>2, <2>1, <2>2, <2>3, <2>4 DEF WorkerStep
<1>3. ASSUME NEW again \in BOOLEAN, Reload(again)
      PROVE  OnePerKey'
  BY <1>3 DEF Reload, Load
<1>4. CASE UNCHANGED storeVars
  BY <1>4 DEF storeVars
<1>5. CASE EnvReplaced
  BY <1>5 DEF EnvReplaced
<1> QED BY <1>1, <1>2, <1>3, <1>4, <1>5 DEF Next

\* A change keeps what it wrote to memory until its database half is done.
LEMMA MemoryKeptStep ==
    ASSUME Serialized, StoreTypeOK, OnePerKey, MemoryKept, [Next]_storeVars
    PROVE  MemoryKept'
<1> USE DEF StoreTypeOK, MemoryKept, Adding, Removing
<1>1. ASSUME NEW w \in Workers, Arrival(w)
      PROVE  MemoryKept'
  <2>1. CASE \E k \in Keys, s \in Stamps : AddArrives(w, k, s)
    <3> PICK k \in Keys, s \in Stamps : AddArrives(w, k, s)
      BY <2>1
    <3> QED BY DEF AddArrives, Receive, Goto
  <2>2. CASE \E k \in Keys : RemoveArrives(w, k)
    BY <2>2 DEF RemoveArrives, Receive, Goto
  <2>3. CASE \E b \in BOOLEAN : ToggleArrives(w, b)
    BY <2>3 DEF ToggleArrives, Receive, Goto
  <2> QED BY <1>1, <2>1, <2>2, <2>3 DEF Arrival
<1>2. ASSUME NEW w \in Workers, WorkerStep(w)
      PROVE  MemoryKept'
  <2>1. CASE AddMem(w)
    BY <2>1 DEF AddMem, Goto, OnePerKey
  <2>2. CASE RemoveMem(w)
    BY <2>2 DEF RemoveMem, Goto, OnePerKey
  <2>3. CASE LoadOn(w) \/ LoadOff(w)
    BY <2>3 DEF LoadOn, LoadOff, Answer, Goto
  <2>4. CASE DbAdd(w) \/ DbRemove(w)
    BY <2>4 DEF DbAdd, DbRemove, Answer, Goto
  <2>5. CASE ToggleStore(w) \/ FlushBegin(w) \/ FlushEnd(w) \/ WriteEnv(w)
    BY <2>5 DEF ToggleStore, FlushBegin, FlushEnd, WriteEnv, Answer, Goto
  <2>6. CASE FlushRow(w)
    BY <2>6 DEF FlushRow
  <2> QED BY <1>2, <2>1, <2>2, <2>3, <2>4, <2>5, <2>6 DEF WorkerStep
<1>3. ASSUME NEW again \in BOOLEAN, Reload(again)
      PROVE  MemoryKept'
  BY <1>3 DEF Reload, Load
<1>4. CASE UNCHANGED storeVars
  BY <1>4 DEF storeVars
<1>5. CASE EnvReplaced
  BY <1>5 DEF EnvReplaced
<1> QED BY <1>1, <1>2, <1>3, <1>4, <1>5 DEF Next

\* No step leaves an entry in the table that memory has lost.
LEMMA NoGhostStep ==
    ASSUME StoreTypeOK, MemoryKept, NoGhost, [Next]_storeVars
    PROVE  NoGhost'
<1> USE DEF StoreTypeOK, NoGhost
<1>1. ASSUME NEW w \in Workers, Arrival(w)
      PROVE  NoGhost'
  BY <1>1 DEF Arrival, AddArrives, RemoveArrives, ToggleArrives, Receive, Goto
<1>2. ASSUME NEW w \in Workers, WorkerStep(w)
      PROVE  NoGhost'
  <2>1. CASE AddMem(w)
    BY <2>1, NoRowAssumption DEF AddMem, Goto, MemoryKept, Adding
  <2>2. CASE RemoveMem(w)
    BY <2>2 DEF RemoveMem, Goto
  <2>3. CASE LoadOn(w) \/ LoadOff(w)
    BY <2>3 DEF LoadOn, LoadOff, Answer, Goto
  <2>4. CASE DbAdd(w)
    BY <2>4, NoRowAssumption DEF DbAdd, Exec, Answer, Goto, MemoryKept, Adding
  <2>5. CASE DbRemove(w)
    BY <2>5 DEF DbRemove, Exec, Answer, Goto
  <2>6. CASE ToggleStore(w) \/ FlushBegin(w) \/ FlushEnd(w) \/ WriteEnv(w)
    BY <2>6 DEF ToggleStore, FlushBegin, FlushEnd, WriteEnv, Answer, Goto
  <2>7. CASE FlushRow(w)
    BY <2>7 DEF FlushRow, Exec
  <2> QED BY <1>2, <2>1, <2>2, <2>3, <2>4, <2>5, <2>6, <2>7 DEF WorkerStep
<1>3. ASSUME NEW again \in BOOLEAN, Reload(again)
      PROVE  NoGhost'
  BY <1>3 DEF Reload, Load
<1>4. CASE UNCHANGED storeVars
  BY <1>4 DEF storeVars
<1>5. CASE EnvReplaced
  BY <1>5 DEF EnvReplaced
<1> QED BY <1>1, <1>2, <1>3, <1>4, <1>5 DEF Next

\* No step leaves an entry of memory behind while the setting is on.
LEMMA PermanentStep ==
    ASSUME StoreTypeOK, MemoryKept, Permanent, [Next]_storeVars
    PROVE  Permanent'
<1> USE DEF StoreTypeOK, Permanent, OnItsWay
<1>1. ASSUME NEW w \in Workers, Arrival(w)
      PROVE  Permanent'
  BY <1>1 DEF Arrival, AddArrives, RemoveArrives, ToggleArrives, Receive, Goto
<1>2. ASSUME NEW w \in Workers, WorkerStep(w)
      PROVE  Permanent'
  <2>1. CASE AddMem(w)
    BY <2>1 DEF AddMem, Goto, Adding, Removing
  <2>2. CASE RemoveMem(w)
    BY <2>2 DEF RemoveMem, Goto, Adding, Removing
  <2>3. CASE LoadOn(w)
    BY <2>3 DEF LoadOn, Goto
  <2>4. CASE LoadOff(w)
    BY <2>4 DEF LoadOff
  <2>5. CASE DbAdd(w)
    BY <2>5 DEF DbAdd, Exec, Answer, Goto, MemoryKept
  <2>6. CASE DbRemove(w)
    BY <2>6 DEF DbRemove, Exec, Answer, Goto, MemoryKept
  <2>7. CASE ToggleStore(w)
    BY <2>7 DEF ToggleStore, Goto
  <2>8. CASE FlushBegin(w)
    BY <2>8 DEF FlushBegin, Goto, Entries
  <2>9. CASE FlushEnd(w)
    BY <2>9 DEF FlushEnd, Goto
  <2>10. CASE WriteEnv(w)
    BY <2>10 DEF WriteEnv, Answer, Goto
  <2>11. CASE FlushRow(w)
    BY <2>11 DEF FlushRow, Exec
  <2> QED BY <1>2, <2>1, <2>2, <2>3, <2>4, <2>5, <2>6, <2>7, <2>8, <2>9, <2>10, <2>11
          DEF WorkerStep
<1>3. ASSUME NEW again \in BOOLEAN, Reload(again)
      PROVE  Permanent'
  BY <1>3 DEF Reload, Load
<1>4. CASE UNCHANGED storeVars
  BY <1>4 DEF storeVars
<1>5. CASE EnvReplaced
  BY <1>5 DEF EnvReplaced
<1> QED BY <1>1, <1>2, <1>3, <1>4, <1>5 DEF Next

\* The conjunction is inductive.
LEMMA StoreInductive == Serialized /\ Spec => []IInv
<1>1. Init => OnePerKey /\ MemoryKept /\ Permanent /\ NoGhost
  BY DEF Init, OnePerKey, MemoryKept, Permanent, NoGhost, Adding, Removing
<1>2. Serialized /\ IInv /\ [Next]_storeVars => OnePerKey' /\ MemoryKept' /\ Permanent' /\ NoGhost'
  BY OnePerKeyStep, MemoryKeptStep, PermanentStep, NoGhostStep DEF IInv
<1>3. CASE Serialized
  <2>1. IInv /\ StoreTypeOK' /\ [Next]_storeVars => IInv'
    BY <1>2, <1>3 DEF IInv
  <2>2. StoreTypeOK /\ OnePerKey /\ MemoryKept /\ Permanent /\ NoGhost => IInv
    BY DEF IInv
  <2> QED BY <1>1, <2>1, <2>2, StoreTyping, PTL DEF Spec
<1>4. CASE ~Serialized
  BY <1>4, PTL
<1> QED BY <1>3, <1>4

\* With the setting on, what memory holds is in the table or on its way there
\* (addWhitelist, saveBlocked, flushWhitelist, setPersistWhitelist).
THEOREM PermanentHolds == Serialized /\ Spec => []Permanent
<1>1. IInv => Permanent
  BY DEF IInv
<1> QED BY <1>1, StoreInductive, PTL

\* The table holds nothing that memory has lost (removeWhitelist, deleteBlocked).
THEOREM NoGhostHolds == Serialized /\ Spec => []NoGhost
<1>1. IInv => NoGhost
  BY DEF IInv
<1> QED BY <1>1, StoreInductive, PTL

-----------------------------------------------------------------------------

\* No step breaks the agreement of the setting and the toggle in flight.
LEMMA ToggleKeptStep ==
    ASSUME Serialized, StoreTypeOK, ToggleKept, SettingSaved, [Next]_storeVars
    PROVE  ToggleKept' /\ SettingSaved'
<1> USE DEF StoreTypeOK, ToggleKept, SettingSaved, Toggling, Lines, Says
<1>1. ASSUME NEW w \in Workers, Arrival(w)
      PROVE  ToggleKept' /\ SettingSaved'
  BY <1>1 DEF Arrival, AddArrives, RemoveArrives, ToggleArrives, Receive, Goto
<1>2. ASSUME NEW w \in Workers, WorkerStep(w)
      PROVE  ToggleKept' /\ SettingSaved'
  <2>1. CASE AddMem(w) \/ LoadOn(w) \/ LoadOff(w) \/ RemoveMem(w)
    BY <2>1 DEF AddMem, LoadOn, LoadOff, RemoveMem, Answer, Goto
  <2>2. CASE DbAdd(w) \/ DbRemove(w)
    BY <2>2 DEF DbAdd, DbRemove, Answer, Goto
  <2>3. CASE ToggleStore(w)
    BY <2>3 DEF ToggleStore, Goto
  <2>4. CASE FlushBegin(w) \/ FlushEnd(w)
    BY <2>4 DEF FlushBegin, FlushEnd, Goto
  <2>5. CASE FlushRow(w)
    BY <2>5 DEF FlushRow
  <2>6. CASE WriteEnv(w)
    BY <2>6 DEF WriteEnv, Answer, Goto
  <2> QED BY <1>2, <2>1, <2>2, <2>3, <2>4, <2>5, <2>6 DEF WorkerStep
<1>3. ASSUME NEW again \in BOOLEAN, Reload(again)
      PROVE  ToggleKept' /\ SettingSaved'
  BY <1>3 DEF Reload, Load
<1>4. CASE UNCHANGED storeVars
  BY <1>4 DEF storeVars
<1>5. CASE EnvReplaced
  BY <1>5 DEF EnvReplaced
<1> QED BY <1>1, <1>2, <1>3, <1>4, <1>5 DEF Next

\* When no toggle is running .env agrees with the running instance, which has
\* been started by hand or has had its setting changed, or what was written is
\* lost; a successor has what it was handed (setPersistWhitelist, setPersistBlocks,
\* writeEnv, relaunchSelf).
THEOREM SettingSavedHolds == Serialized /\ Spec => []SettingSaved
<1>1. Init => ToggleKept /\ SettingSaved
  BY DEF Init, ToggleKept, SettingSaved, Toggling
<1>2. CASE Serialized
  <2>1. StoreTypeOK /\ ToggleKept /\ SettingSaved /\ [Next]_storeVars
          => ToggleKept' /\ SettingSaved'
    BY <1>2, ToggleKeptStep
  <2> QED BY <1>1, <2>1, StoreTyping, PTL DEF Spec
<1>3. CASE ~Serialized
  BY <1>3, PTL
<1> QED BY <1>2, <1>3
=============================================================================
