-------------------------- MODULE BlockList_proofs --------------------------
(***************************************************************************)
(* The block list keeps its types and implements the operator store, for   *)
(* any number of IPs and requests, so what OperatorStore_proofs proves of   *)
(* the store holds of the blocked IPs.                                     *)
(***************************************************************************)
EXTENDS BlockList, OperatorStore_proofs

\* Request w is about IP k, in its firewall half or in its store half.
About(w, k) ==
    \/ pc[w] \in Adding \cup Removing /\ arg[w].key = k
    \/ step[w] # "none" /\ target[w] = k

\* A panel that sends one request per IP at a time has one under way.
OneInFlight ==
    Serialized => \A v, w \in Workers, k \in Keys : About(v, k) /\ About(w, k) => v = w

\* The loop of -D has a try left whenever it tries.
TryLeft == \A w \in Workers : step[w] = "delete" => tries[w] < MaxDeletes

BInv == TypeOK /\ OneInFlight /\ TryLeft

\* Whatever the firewall does, the store makes one of its own steps or none
\* (handleBlockIP, handleUnblock, loadState).
LEMMA BlockStepIsStoreStep ==
    ASSUME TypeOK, OneInFlight, [BlockNext]_vars
    PROVE  [Next]_storeVars
<1> USE DEF TypeOK
<1>1. ASSUME NEW w \in Workers, NEW k \in Keys,
             BlockArrives(w, k) \/ UnblockArrives(w, k) \/ UnblockStale(w, k)
      PROVE  [Next]_storeVars
  <2>1. CASE BlockArrives(w, k)
    BY <2>1 DEF BlockArrives
  <2>2. CASE UnblockArrives(w, k)
    BY <2>2 DEF UnblockArrives
  <2>3. CASE UnblockStale(w, k)
    <3>1. RemoveArrives(w, k)
      BY <2>3 DEF UnblockStale, RemoveArrives, InFlight
    <3> QED BY <3>1 DEF Next, Arrival
  <2> QED BY <1>1, <2>1, <2>2, <2>3
<1>2. ASSUME NEW w \in Workers, step[w] # "none"
      PROVE  target[w] \in Keys /\ pc[w] = "idle" /\ (Serialized => ~Busy(target[w]))
  BY <1>2 DEF OneInFlight, About, Busy, Adding, Removing
<1>3. ASSUME NEW w \in Workers, RecordRemoval(w), step[w] # "none",
             UNCHANGED <<mem, db, persist, env, given, handed, unsaved, todo, lost>>
      PROVE  [Next]_storeVars
  <2>1. RemoveArrives(w, target[w])
    BY <1>2, <1>3 DEF RecordRemoval, RemoveArrives
  <2> QED BY <1>2, <1>3, <2>1 DEF Next, Arrival
<1>4. ASSUME NEW w \in Workers,
             \/ FwCheck(w) \/ FwAppend(w) \/ FwAppendFails(w)
             \/ FwDelete(w) \/ FwDeleteFails(w)
             \/ \E s \in Stamps : Reported(w, s)
             \/ StoreStep(w) \/ Unblocked(w)
      PROVE  [Next]_storeVars
  <2>1. CASE FwCheck(w) \/ FwAppend(w) \/ FwAppendFails(w)
    BY <2>1 DEF FwCheck, FwAppend, FwAppendFails
  <2>2. CASE FwDelete(w)
    <3>1. CASE RecordRemoval(w)
      BY <1>3, <2>2, <3>1 DEF FwDelete
    <3>2. CASE UNCHANGED <<step, target, pc, arg>>
      BY <2>2, <3>2 DEF FwDelete, storeVars
    <3> QED BY <2>2, <3>1, <3>2 DEF FwDelete
  <2>3. CASE FwDeleteFails(w)
    BY <1>3, <2>3 DEF FwDeleteFails
  <2>4. CASE \E s \in Stamps : Reported(w, s)
    <3> PICK s \in Stamps : Reported(w, s)
      BY <2>4
    <3>1. AddArrives(w, target[w], s)
      BY <1>2 DEF Reported, AddArrives
    <3> QED BY <1>2, <3>1 DEF Next, Arrival, Reported
  <2>5. CASE StoreStep(w)
    BY <2>5 DEF StoreStep, Next, WorkerStep, Arrival
  <2>6. CASE Unblocked(w)
    BY <2>6 DEF Unblocked, Next, WorkerStep
  <2> QED BY <1>4, <2>1, <2>2, <2>3, <2>4, <2>5, <2>6
<1>5. ASSUME NEW i \in Instances, ReapplyCheck(i) \/ ReapplyAppend(i) \/ ReapplyFails(i)
      PROVE  [Next]_storeVars
  BY <1>5 DEF ReapplyCheck, ReapplyAppend, ReapplyFails
<1>6. CASE \E reboot, again \in BOOLEAN : Start(reboot, again)
  BY <1>6 DEF Start, Next
<1>7. CASE Serve \/ SecondStarts \/ UNCHANGED vars
  BY <1>7 DEF Serve, SecondStarts, vars
<1> QED BY <1>1, <1>4, <1>5, <1>6, <1>7 DEF BlockNext

\* One more copy is one, and takes none away.
LEMMA RuleAdded ==
    ASSUME rules \in [Keys -> Nat], NEW k \in Keys
    PROVE  /\ WithRule(k) \in [Keys -> Nat] /\ WithRule(k)[k] > 0
           /\ \A j \in Keys : rules[j] > 0 => WithRule(k)[j] > 0
           /\ \A j \in Keys \ {k} : WithRule(k)[j] = rules[j]
BY DEF WithRule

\* ensureNft leaves the chain there or leaves it alone.
LEMMA Hooking ==
    ASSUME hooked \in BOOLEAN, Hook
    PROVE  hooked' \in BOOLEAN /\ (hooked => hooked')
BY DEF Hook

\* A command that succeeds makes a rule, of an IP that is then dropped or is told
\* among the bare ones, and takes nothing from the others.
LEMMA RuleSet ==
    ASSUME rules \in [Keys -> Nat], hooked \in BOOLEAN, bare \subseteq Keys,
           NEW k \in Keys, SetRule(k)
    PROVE  /\ rules' \in [Keys -> Nat] /\ bare' \subseteq Keys /\ hooked' \in BOOLEAN
           /\ \A j \in Keys \ {k} : rules'[j] = rules[j]
           /\ \A j \in Keys : rules[j] > 0 => rules'[j] > 0
           /\ hooked => hooked'
           /\ \A j \in Keys : Dropped(j) \/ j \in bare => Dropped(j)' \/ j \in bare'
           /\ Dropped(k)' \/ k \in bare'
<1>1. /\ rules' \in [Keys -> Nat] /\ rules'[k] > 0
      /\ \A j \in Keys : rules[j] > 0 => rules'[j] > 0
      /\ \A j \in Keys \ {k} : rules'[j] = rules[j]
  BY RuleAdded DEF SetRule
<1>2. hooked' \in BOOLEAN /\ (hooked => hooked')
  BY Hooking DEF SetRule
<1>3. bare' \subseteq Keys /\ (\A j \in bare \ {k} : j \in bare') /\ (hooked' \/ k \in bare')
  BY DEF SetRule
<1> QED BY <1>1, <1>2, <1>3 DEF Dropped

\* The firewall's own variables keep their types, and the loop its bound.
FwTypeOK ==
    /\ rules \in [Keys -> Nat]
    /\ step \in [Workers -> {"none", "check", "append", "report", "delete"}]
    /\ target \in [Workers -> Keys \cup {NoRow}]
    /\ tries \in [Workers -> 0 .. MaxDeletes]
    /\ warned \in [Workers -> BOOLEAN]
    /\ elevated \in BOOLEAN
    /\ left \in [Instances -> SUBSET Keys]
    /\ appending \in [Instances -> Keys \cup {NoRow}]
    /\ booting \in BOOLEAN
    /\ hooked \in BOOLEAN
    /\ bare \subseteq Keys
    /\ cleared \subseteq Keys
    /\ stuck \subseteq Keys

\* In its firewall half a request has nothing under way in the store.
Halves == \A w \in Workers : step[w] # "none" => pc[w] = "idle" /\ target[w] \in Keys

\* A rule is only ever added to, taken away once or taken away for good.
LEMMA FwTypeStep ==
    ASSUME TypeOK, TryLeft, BlockNext
    PROVE  FwTypeOK' /\ TryLeft'
<1> USE BoundsAssumption DEF TypeOK, FwTypeOK, TryLeft
<1>1. ASSUME NEW w \in Workers, NEW k \in Keys,
             BlockArrives(w, k) \/ UnblockArrives(w, k) \/ UnblockStale(w, k)
      PROVE  FwTypeOK' /\ TryLeft'
  <2>1. ASSUME NEW label \in {"check", "delete"}, StartStep(w, k, label),
               UNCHANGED <<rules, elevated, left, appending, booting, hooked, bare>>,
               cleared' \subseteq cleared, stuck' \subseteq stuck
        PROVE  FwTypeOK' /\ TryLeft'
    <3>1. tries' \in [Workers -> 0 .. MaxDeletes] /\ tries'[w] < MaxDeletes
      BY <2>1 DEF StartStep
    <3>2. \A v \in Workers \ {w} : tries'[v] = tries[v] /\ step'[v] = step[v]
      BY <2>1 DEF StartStep
    <3>3. TryLeft'
      BY <3>1, <3>2
    <3> QED BY <2>1, <3>1, <3>3 DEF StartStep
  <2>2. CASE BlockArrives(w, k)
    BY <2>1, <2>2 DEF BlockArrives
  <2>3. CASE UnblockArrives(w, k)
    BY <2>1, <2>3 DEF UnblockArrives
  <2>4. CASE UnblockStale(w, k)
    BY <2>4 DEF UnblockStale
  <2> QED BY <1>1, <2>2, <2>3, <2>4
<1>2. ASSUME NEW w \in Workers, FwCheck(w) \/ FwAppend(w) \/ FwAppendFails(w)
      PROVE  FwTypeOK' /\ TryLeft'
  <2>1. CASE FwCheck(w)
    BY <2>1 DEF FwCheck, GoStep
  <2>2. CASE FwAppend(w)
    <3>1. target[w] \in Keys
      BY <2>2 DEF FwAppend
    <3>2. rules' \in [Keys -> Nat] /\ bare' \subseteq Keys /\ hooked' \in BOOLEAN
      BY <2>2, <3>1, RuleSet DEF FwAppend
    <3> QED BY <2>2, <3>2 DEF FwAppend, GoStep
  <2>3. CASE FwAppendFails(w)
    <3>1. hooked' \in BOOLEAN
      BY <2>3, Hooking DEF FwAppendFails
    <3>2. tries' \in [Workers -> 0 .. MaxDeletes]
      BY <2>3 DEF FwAppendFails, Leave
    <3> QED BY <2>3, <3>1, <3>2 DEF FwAppendFails, Leave, GoStep
  <2> QED BY <1>2, <2>1, <2>2, <2>3
<1>3. ASSUME NEW w \in Workers, FwDelete(w)
      PROVE  FwTypeOK' /\ TryLeft'
  <2>1. target[w] \in Keys /\ tries[w] < MaxDeletes
    BY <1>3 DEF FwDelete
  <2>2. rules' \in [Keys -> Nat]
    BY <1>3, <2>1 DEF FwDelete
  <2>3. stuck' \subseteq Keys
    BY <1>3 DEF FwDelete
  <2>4. CASE RecordRemoval(w)
    BY <1>3, <2>2, <2>3, <2>4 DEF FwDelete, RecordRemoval, Leave, GoStep
  <2>5. CASE /\ tries[w] + 1 < MaxDeletes /\ tries' = [tries EXCEPT ![w] = @ + 1]
             /\ UNCHANGED <<step, target, pc, arg>>
    BY <1>3, <2>2, <2>3, <2>5 DEF FwDelete
  <2> QED BY <1>3, <2>4, <2>5 DEF FwDelete
<1>4. ASSUME NEW w \in Workers, FwDeleteFails(w) \/ \E s \in Stamps : Reported(w, s)
      PROVE  FwTypeOK' /\ TryLeft'
  <2>1. CASE FwDeleteFails(w)
    BY <2>1 DEF FwDeleteFails, RecordRemoval, Leave, GoStep
  <2>2. CASE \E s \in Stamps : Reported(w, s)
    BY <2>2 DEF Reported, Leave, GoStep
  <2> QED BY <1>4, <2>1, <2>2
<1>5. ASSUME NEW w \in Workers, StoreStep(w) \/ Unblocked(w)
      PROVE  FwTypeOK' /\ TryLeft'
  BY <1>5 DEF StoreStep, Unblocked, DbRemove, Adding, Removing, StoreTypeOK
<1>6. ASSUME NEW i \in Instances, ReapplyCheck(i) \/ ReapplyAppend(i) \/ ReapplyFails(i)
      PROVE  FwTypeOK' /\ TryLeft'
  <2>1. CASE ReapplyCheck(i)
    BY <2>1 DEF ReapplyCheck
  <2>2. CASE ReapplyAppend(i)
    <3>1. rules' \in [Keys -> Nat] /\ bare' \subseteq Keys /\ hooked' \in BOOLEAN
      BY <2>2, RuleSet DEF ReapplyAppend
    <3> QED BY <2>2, <3>1 DEF ReapplyAppend
  <2>3. CASE ReapplyFails(i)
    <3>1. hooked' \in BOOLEAN
      BY <2>3, Hooking DEF ReapplyFails
    <3> QED BY <2>3, <3>1 DEF ReapplyFails
  <2> QED BY <1>6, <2>1, <2>2, <2>3
<1>7. CASE Serve
  BY <1>7 DEF Serve
<1>8. ASSUME NEW reboot \in BOOLEAN, NEW again \in BOOLEAN, Start(reboot, again)
      PROVE  FwTypeOK' /\ TryLeft'
  <2>1. left' \in [Instances -> SUBSET Keys]
    BY <1>8 DEF Start, ToReapply, Entries
  <2>2. rules' \in [Keys -> Nat] /\ hooked' \in BOOLEAN
    BY <1>8 DEF Start
  <2> QED BY <1>8, <2>1, <2>2 DEF Start
<1>9. CASE SecondStarts
  BY <1>9 DEF SecondStarts, Entries
<1> QED BY <1>1, <1>2, <1>3, <1>4, <1>5, <1>6, <1>7, <1>8, <1>9 DEF BlockNext

\* A request leaves one half before it enters the other, and no second request
\* about its IP is let in meanwhile.
LEMMA InFlightStep ==
    ASSUME TypeOK, OneInFlight, BlockNext
    PROVE  Halves' /\ OneInFlight'
<1> USE DEF TypeOK, StoreTypeOK, Halves, OneInFlight, About, Adding, Removing
<1>1. ASSUME NEW w \in Workers, NEW k \in Keys, BlockArrives(w, k) \/ UnblockArrives(w, k)
      PROVE  Halves' /\ OneInFlight'
  <2>1. ASSUME NEW label \in {"check", "delete"}, StartStep(w, k, label), UNCHANGED storeVars
        PROVE  Halves' /\ OneInFlight'
    <3>1. Halves'
      BY <2>1 DEF StartStep, Free, storeVars
    <3>2. \A v \in Workers \ {w}, j \in Keys : About(v, j)' <=> About(v, j)
      BY <2>1 DEF StartStep, storeVars
    <3>3. \A j \in Keys : About(w, j)' <=> j = k
      BY <2>1 DEF StartStep, Free, storeVars
    <3>4. Serialized => \A v \in Workers : ~About(v, k)
      BY <2>1 DEF StartStep, InFlight, Busy
    <3>5. ASSUME Serialized, NEW u \in Workers, NEW v \in Workers, NEW j \in Keys,
                 About(u, j)', About(v, j)'
          PROVE  u = v
      <4> HIDE DEF About
      <4>1. CASE u # w /\ v # w
        BY <3>2, <3>5, <4>1
      <4>2. CASE u = w \/ v = w
        BY <3>2, <3>3, <3>4, <3>5, <4>2
      <4> QED BY <4>1, <4>2
    <3>6. OneInFlight'
      <4> HIDE DEF About
      <4> QED BY <3>5
    <3> QED BY <3>1, <3>6
  <2>2. CASE BlockArrives(w, k)
    BY <2>1, <2>2 DEF BlockArrives
  <2>3. CASE UnblockArrives(w, k)
    BY <2>1, <2>3 DEF UnblockArrives
  <2> QED BY <1>1, <2>2, <2>3
<1>2. ASSUME NEW w \in Workers, NEW k \in Keys, UnblockStale(w, k)
      PROVE  Halves' /\ OneInFlight'
  BY <1>2 DEF UnblockStale, Free, InFlight, Busy, Receive, Goto
<1>3. ASSUME NEW w \in Workers, FwCheck(w) \/ FwAppend(w) \/ FwAppendFails(w)
      PROVE  Halves' /\ OneInFlight'
  BY <1>3 DEF FwCheck, FwAppend, FwAppendFails, Leave, GoStep, storeVars
<1>4. ASSUME NEW w \in Workers, step[w] # "none", RecordRemoval(w)
      PROVE  Halves' /\ OneInFlight'
  BY <1>4 DEF RecordRemoval, Leave, GoStep, Receive, Goto
<1>5. ASSUME NEW w \in Workers, FwDelete(w)
      PROVE  Halves' /\ OneInFlight'
  <2>1. CASE RecordRemoval(w)
    BY <1>4, <1>5, <2>1 DEF FwDelete
  <2>2. CASE UNCHANGED <<step, target, pc, arg>>
    BY <1>5, <2>2 DEF FwDelete
  <2> QED BY <1>5, <2>1, <2>2 DEF FwDelete
<1>6. ASSUME NEW w \in Workers, FwDeleteFails(w)
      PROVE  Halves' /\ OneInFlight'
  BY <1>4, <1>6 DEF FwDeleteFails
<1>7. ASSUME NEW w \in Workers, NEW s \in Stamps, Reported(w, s)
      PROVE  Halves' /\ OneInFlight'
  BY <1>7 DEF Reported, Leave, GoStep, Receive, Goto
<1>8. ASSUME NEW w \in Workers, StoreStep(w) \/ Unblocked(w)
      PROVE  Halves' /\ OneInFlight'
  <2>1. UNCHANGED <<step, target>>
    BY <1>8 DEF StoreStep, Unblocked
  <2>2. CASE AddMem(w) \/ LoadOn(w) \/ RemoveMem(w) \/ ToggleStore(w) \/ FlushBegin(w) \/ FlushEnd(w)
    BY <2>1, <2>2 DEF AddMem, LoadOn, RemoveMem, ToggleStore, FlushBegin, FlushEnd, Goto
  <2>3. CASE LoadOff(w) \/ DbAdd(w) \/ WriteEnv(w) \/ DbRemove(w)
    <3>1. pc[w] # "idle" /\ Answer(w)
      BY <2>3 DEF LoadOff, DbAdd, WriteEnv, DbRemove
    <3> QED BY <2>1, <3>1 DEF Answer, Goto
  <2>4. CASE FlushRow(w)
    BY <2>1, <2>4 DEF FlushRow
  <2>5. CASE Free(w) /\ \E b \in BOOLEAN : ToggleArrives(w, b)
    BY <2>1, <2>5 DEF Free, ToggleArrives, Receive, Goto
  <2>6. CASE EnvReplaced
    BY <2>1, <2>6 DEF EnvReplaced
  <2> QED BY <1>8, <2>2, <2>3, <2>4, <2>5, <2>6 DEF StoreStep, Unblocked
<1>9. ASSUME NEW i \in Instances, ReapplyCheck(i) \/ ReapplyAppend(i) \/ ReapplyFails(i)
      PROVE  Halves' /\ OneInFlight'
  BY <1>9 DEF ReapplyCheck, ReapplyAppend, ReapplyFails, storeVars
<1>10. CASE \E reboot, again \in BOOLEAN : Start(reboot, again)
  BY <1>10 DEF Start, Reload
<1>11. CASE Serve \/ SecondStarts
  BY <1>11 DEF Serve, SecondStarts, storeVars
<1> QED BY <1>1, <1>2, <1>3, <1>5, <1>6, <1>7, <1>8, <1>9, <1>10, <1>11 DEF BlockNext

\* The three together are inductive.
LEMMA BlockInductive == BlockSpec => []BInv
<1>1. BlockInit => BInv
  <2> SUFFICES ASSUME BlockInit PROVE BInv
    OBVIOUS
  <2>1. StoreTypeOK
    BY StoreTypeInit DEF BlockInit
  <2>2. rules \in [Keys -> Nat] /\ left \in [Instances -> SUBSET Keys]
    BY BoundsAssumption DEF BlockInit, Entries
  <2>3. TypeOK /\ TryLeft
    <3>1. hooked \in BOOLEAN
      BY DEF BlockInit
    <3> QED BY <2>1, <2>2, <3>1, BoundsAssumption DEF BlockInit, TypeOK, TryLeft
  <2>4. OneInFlight
    BY DEF BlockInit, Init, OneInFlight, About, Adding, Removing
  <2> QED BY <2>3, <2>4 DEF BInv
<1>2. BInv /\ [BlockNext]_vars => BInv'
  <2> SUFFICES ASSUME BInv, [BlockNext]_vars PROVE BInv'
    OBVIOUS
  <2>1. CASE BlockNext
    <3>1. StoreTypeOK'
      BY <2>1, BlockStepIsStoreStep, StoreTypeStep DEF BInv, TypeOK
    <3>2. FwTypeOK' /\ TryLeft' /\ Halves' /\ OneInFlight'
      BY <2>1, FwTypeStep, InFlightStep DEF BInv
    <3>3. machine' \in Machines
      BY <2>1 DEF BlockNext, BInv, TypeOK
    <3> QED BY <3>1, <3>2, <3>3 DEF BInv, TypeOK, FwTypeOK, Halves
  <2>2. CASE UNCHANGED vars
    BY <2>2 DEF vars, fwVars, storeVars, BInv, TypeOK, StoreTypeOK, OneInFlight, About, TryLeft
  <2> QED BY <2>1, <2>2
<1> QED BY <1>1, <1>2, PTL DEF BlockSpec

\* Every variable of the block list keeps its type: no number of failed or
\* repeated deletions makes a rule count negative (unblockIP).
THEOREM BlockTyping == BlockSpec => []TypeOK
<1>1. BInv => TypeOK
  BY DEF BInv
<1> QED BY <1>1, BlockInductive, PTL

\* The block list implements the operator store (store.go under actions.go).
THEOREM BlockImplementsStore == BlockSpec => ImplementsStore
<1>1. BlockInit => Init
  BY DEF BlockInit
<1>2. BInv /\ [BlockNext]_vars => [Next]_storeVars
  BY BlockStepIsStoreStep DEF BInv
<1> QED BY <1>1, <1>2, BlockInductive, PTL DEF BlockSpec, ImplementsStore, Spec

\* So a record of a blocked IP is in the table or on its way there, and one that
\* was removed does not come back (saveBlocked, deleteBlocked).
THEOREM BlockRecordsKept == Serialized /\ BlockSpec => [](Permanent /\ NoGhost)
<1>1. BlockSpec => Spec
  BY BlockImplementsStore DEF ImplementsStore
<1> QED BY <1>1, PermanentHolds, NoGhostHolds, PTL

-----------------------------------------------------------------------------
(* What is listed is blocked *)

\* No request is served before the records are reapplied, and then nothing of them is left.
Calm ==
    /\ booting => \A w \in Workers : step[w] = "none" /\ pc[w] = "idle"
    /\ ~booting => left["owner"] = {} /\ appending["owner"] = NoRow

\* Where rules are reapplied and can be made.
Enforced == Tool # "netsh" /\ elevated

\* Only nft needs its chain.
Chained == Tool # "nft" => hooked

\* What goes to k is dropped, or the command that was to see to it failed.
Seen(k) == Dropped(k) \/ k \in bare

\* A request records an IP as blocked when its rule is there.
Backed ==
    Enforced =>
        \A w \in Workers :
            /\ step[w] = "report" => Seen(target[w])
            /\ pc[w] = "add" => Seen(arg[w].key)

\* While the process starts, a record has its rule or will get it.
Reapplied ==
    Enforced /\ booting =>
        \A k \in Keys : mem[k] # NoRow =>
            Seen(k) \/ k \in left["owner"] \/ appending["owner"] = k

RInv == Calm /\ Chained /\ Backed /\ Reapplied /\ RecordMeansRule

\* Whoever takes a request in does so when the process serves, and has nothing to do.
LEMMA CalmStep ==
    ASSUME TypeOK, Calm, BlockNext
    PROVE  Calm'
<1> USE DEF Calm, TypeOK, StoreTypeOK
<1>1. ASSUME NEW w \in Workers, NEW k \in Keys,
             BlockArrives(w, k) \/ UnblockArrives(w, k) \/ UnblockStale(w, k)
      PROVE  Calm'
  BY <1>1 DEF BlockArrives, UnblockArrives, UnblockStale, StartStep, Free
<1>2. ASSUME NEW w \in Workers,
             \/ FwCheck(w) \/ FwAppend(w) \/ FwAppendFails(w)
             \/ FwDelete(w) \/ FwDeleteFails(w)
             \/ \E s \in Stamps : Reported(w, s)
      PROVE  Calm'
  <2>1. step[w] # "none" /\ UNCHANGED <<booting, left, appending>>
    BY <1>2 DEF FwCheck, FwAppend, FwAppendFails, FwDelete, FwDeleteFails, Reported
  <2> QED BY <2>1
<1>3. ASSUME NEW w \in Workers, StoreStep(w) \/ Unblocked(w)
      PROVE  Calm'
  <2>1. /\ pc[w] # "idle" \/ Free(w)
        /\ UNCHANGED <<booting, left, appending>>
    BY <1>3 DEF StoreStep, Unblocked, AddMem, LoadOn, LoadOff, DbAdd, RemoveMem, DbRemove, ToggleStore,
                FlushBegin, FlushRow, FlushEnd, WriteEnv
  <2> QED BY <2>1 DEF Free
<1>4. ASSUME NEW i \in Instances, ReapplyCheck(i) \/ ReapplyAppend(i) \/ ReapplyFails(i)
      PROVE  Calm'
  BY <1>4 DEF ReapplyCheck, ReapplyAppend, ReapplyFails, storeVars, Instances
<1>5. CASE Serve
  BY <1>5 DEF Serve, storeVars
<1>6. CASE \E reboot, again \in BOOLEAN : Start(reboot, again)
  BY <1>6 DEF Start, Reload
<1>7. CASE SecondStarts
  BY <1>7 DEF SecondStarts, storeVars
<1> QED BY <1>1, <1>2, <1>3, <1>4, <1>5, <1>6, <1>7 DEF BlockNext

\* The chain is missing with nft only.
LEMMA ChainedStep ==
    ASSUME TypeOK, Chained, BlockNext
    PROVE  Chained'
<1> USE DEF TypeOK, Chained, Tool
<1>0. machine' = machine
  BY DEF BlockNext
<1>1. ASSUME Hook PROVE Chained'
  BY <1>0, <1>1, Hooking
<1>2. ASSUME NEW w \in Workers, FwAppend(w) \/ FwAppendFails(w)
      PROVE  Chained'
  BY <1>0, <1>1, <1>2 DEF FwAppend, FwAppendFails, SetRule
<1>3. ASSUME NEW i \in Instances, ReapplyCheck(i) \/ ReapplyAppend(i) \/ ReapplyFails(i)
      PROVE  Chained'
  BY <1>0, <1>1, <1>3 DEF ReapplyCheck, ReapplyAppend, ReapplyFails, SetRule
<1>4. ASSUME NEW reboot \in BOOLEAN, NEW again \in BOOLEAN, Start(reboot, again)
      PROVE  Chained'
  BY <1>0, <1>4 DEF Start
<1>5. ASSUME NEW w \in Workers, NEW k \in Keys,
             BlockArrives(w, k) \/ UnblockArrives(w, k) \/ UnblockStale(w, k)
      PROVE  UNCHANGED hooked
  BY <1>5 DEF BlockArrives, UnblockArrives, UnblockStale
<1>6. ASSUME NEW w \in Workers,
             \/ FwCheck(w) \/ FwDelete(w) \/ FwDeleteFails(w)
             \/ \E s \in Stamps : Reported(w, s)
             \/ StoreStep(w) \/ Unblocked(w)
      PROVE  UNCHANGED hooked
  BY <1>6 DEF FwCheck, FwDelete, FwDeleteFails, Reported, StoreStep, Unblocked
<1>7. ASSUME Serve \/ SecondStarts PROVE UNCHANGED hooked
  BY <1>7 DEF Serve, SecondStarts
<1> QED BY <1>0, <1>2, <1>3, <1>4, <1>5, <1>6, <1>7 DEF BlockNext

\* Someone is removing the record of k.
Unblocking(k) ==
    \E w \in Workers : \/ step[w] = "delete" /\ target[w] = k
                       \/ pc[w] = "remove" /\ arg[w].key = k

\* No step loses the rule of a record, but for a request to remove both.
LEMMA RecordStep ==
    ASSUME Serialized, BInv, RInv, BlockNext
    PROVE  Backed' /\ Reapplied' /\ RecordMeansRule'
<1> DEFINE Goal == Backed' /\ Reapplied' /\ RecordMeansRule'
<1>0. machine' = machine
  BY DEF BlockNext
<1>a. RecordMeansRule <=> (Enforced /\ ~booting =>
          \A k \in Keys : mem[k] # NoRow => Seen(k) \/ Unblocking(k))
  BY DEF RecordMeansRule, Enforced, Seen, Unblocking
<1>b. RecordMeansRule' <=> (Enforced' /\ ~booting' =>
          \A k \in Keys : mem'[k] # NoRow => Seen(k)' \/ Unblocking(k)')
  BY DEF RecordMeansRule, Enforced, Seen, Unblocking
<1>c. \A v \in Workers :
          /\ Enforced /\ step[v] = "report" => target[v] \in Keys /\ Seen(target[v])
          /\ Enforced /\ pc[v] = "add" => arg[v].key \in Keys /\ Seen(arg[v].key)
  BY DEF BInv, TypeOK, StoreTypeOK, Adding, RInv, Backed
<1>d. UNCHANGED elevated => (Enforced' <=> Enforced)
  BY <1>0 DEF Enforced, Tool
<1> USE <1>d, BlockableAssumption DEF BInv, RInv, TypeOK, StoreTypeOK, Backed, Reapplied
\* Requests that only move on.
<1>e. ASSUME \A k \in Keys : Seen(k) => Seen(k)',
             UNCHANGED <<mem, elevated, booting, left, appending>>,
             \A v \in Workers :
                /\ step'[v] = "report" =>
                      \/ step[v] = "report" /\ target'[v] = target[v]
                      \/ Seen(target[v])'
                /\ pc'[v] = "add" =>
                      \/ pc[v] = "add" /\ arg'[v] = arg[v]
                      \/ step[v] = "report" /\ arg'[v].key = target[v],
             \A k \in Keys : Unblocking(k) => Unblocking(k)'
      PROVE  Goal
  <2>1. ASSUME NEW v \in Workers, Enforced, step'[v] = "report"
        PROVE  Seen(target[v])'
    BY <1>c, <1>e, <2>1 DEF Seen, Dropped
  <2>4. ASSUME NEW v \in Workers, Enforced, pc'[v] = "add"
        PROVE  Seen(arg[v].key)'
    BY <1>c, <1>e, <2>4 DEF Seen, Dropped
  <2>5. Backed'
    BY <1>e, <2>1, <2>4
  <2>2. Reapplied'
    BY <1>e
  <2>3. RecordMeansRule'
    BY <1>a, <1>b, <1>e
  <2> QED BY <2>2, <2>3, <2>5
<1>1. ASSUME NEW w \in Workers, NEW k \in Keys, BlockArrives(w, k) \/ UnblockArrives(w, k)
      PROVE  Goal
  <2>1. /\ UNCHANGED <<rules, hooked, bare, mem, pc, arg, elevated, booting, left, appending>>
        /\ step[w] = "none" /\ step'[w] \in {"check", "delete"}
        /\ \A v \in Workers \ {w} : step'[v] = step[v] /\ target'[v] = target[v]
    BY <1>1 DEF BlockArrives, UnblockArrives, StartStep, Free, storeVars
  <2>2. \A j \in Keys : Seen(j) => Seen(j)'
    BY <2>1 DEF Seen, Dropped
  <2>3. \A j \in Keys : Unblocking(j) => Unblocking(j)'
    BY <2>1 DEF Unblocking
  <2> QED BY <1>e, <2>1, <2>2, <2>3
<1>2. ASSUME NEW w \in Workers, NEW k \in Keys, UnblockStale(w, k)
      PROVE  Goal
  <2>1. /\ UNCHANGED <<rules, hooked, bare, mem, step, target, elevated, booting, left, appending>>
        /\ pc[w] = "idle" /\ pc'[w] = "remove"
        /\ \A v \in Workers \ {w} : pc'[v] = pc[v] /\ arg'[v] = arg[v]
    BY <1>2 DEF UnblockStale, Free, Receive, Goto
  <2>2. \A j \in Keys : Seen(j) => Seen(j)'
    BY <2>1 DEF Seen, Dropped
  <2>3. \A j \in Keys : Unblocking(j) => Unblocking(j)'
    BY <2>1 DEF Unblocking
  <2> QED BY <1>e, <2>1, <2>2, <2>3
<1>3. ASSUME NEW w \in Workers, FwCheck(w)
      PROVE  Goal
  <2>1. /\ UNCHANGED <<rules, hooked, bare, mem, pc, arg, target, elevated, booting, left, appending>>
        /\ step[w] = "check" /\ step'[w] \in {"report", "append"}
        /\ \A v \in Workers \ {w} : step'[v] = step[v]
    BY <1>3 DEF FwCheck, GoStep, storeVars
  <2>2. \A j \in Keys : Seen(j) => Seen(j)'
    BY <2>1 DEF Seen, Dropped
  <2>3. step'[w] = "report" => Seen(target[w])'
    <3>1. step'[w] = "report" => Tool = "iptables" /\ rules[target[w]] > 0
      BY <1>3 DEF FwCheck, GoStep, Found
    <3> QED BY <2>1, <3>1 DEF Chained, Seen, Dropped, Tool
  <2>4. \A j \in Keys : Unblocking(j) => Unblocking(j)'
    BY <2>1 DEF Unblocking
  <2> QED BY <1>e, <2>1, <2>2, <2>3, <2>4
<1>4. ASSUME NEW w \in Workers, FwAppend(w)
      PROVE  Goal
  <2>1. /\ UNCHANGED <<mem, pc, arg, target, elevated, booting, left, appending>>
        /\ step[w] = "append" /\ step'[w] = "report" /\ target[w] \in Keys
        /\ \A v \in Workers \ {w} : step'[v] = step[v]
    BY <1>4 DEF FwAppend, GoStep, storeVars
  <2>2. PICK k \in Keys : k = target[w] /\ k = target'[w] /\ SetRule(k)
    BY <1>4, <2>1 DEF FwAppend
  <2>4. (\A j \in Keys : Seen(j) => Seen(j)') /\ Seen(k)'
    BY <2>2, RuleSet DEF Seen
  <2>5. Seen(target[w])'
    BY <2>2, <2>4 DEF Seen, Dropped
  <2>3. \A j \in Keys : Unblocking(j) => Unblocking(j)'
    BY <2>1 DEF Unblocking
  <2> QED BY <1>e, <2>1, <2>3, <2>4, <2>5
<1>5. ASSUME NEW w \in Workers, FwAppendFails(w)
      PROVE  Goal
  <2>1. /\ UNCHANGED <<mem, pc, arg, rules, bare, elevated, booting, left, appending>>
        /\ step[w] = "append" /\ step'[w] = "none"
        /\ \A v \in Workers \ {w} : step'[v] = step[v] /\ target'[v] = target[v]
    BY <1>5 DEF FwAppendFails, Leave, GoStep, storeVars
  <2>2. hooked => hooked'
    BY <1>5, Hooking DEF FwAppendFails
  <2>3. \A j \in Keys : Seen(j) => Seen(j)'
    BY <2>1, <2>2 DEF Seen, Dropped
  <2>4. \A j \in Keys : Unblocking(j) => Unblocking(j)'
    BY <2>1 DEF Unblocking
  <2> QED BY <1>e, <2>1, <2>3, <2>4
<1>6. ASSUME NEW w \in Workers, (\E s \in Stamps : Reported(w, s)) \/ FwDeleteFails(w)
      PROVE  Goal
  <2>1. /\ UNCHANGED <<rules, hooked, bare, mem, elevated, booting, left, appending>>
        /\ \/ step[w] = "report" /\ pc'[w] = "add"
           \/ step[w] = "delete" /\ pc'[w] = "remove"
        /\ step'[w] = "none" /\ pc[w] = "idle" /\ arg'[w].key = target[w]
        /\ \A v \in Workers \ {w} : /\ step'[v] = step[v] /\ target'[v] = target[v]
                                     /\ pc'[v] = pc[v] /\ arg'[v] = arg[v]
    BY <1>6 DEF Reported, FwDeleteFails, RecordRemoval, Leave, GoStep, Receive, Goto
  <2>2. \A j \in Keys : Seen(j) => Seen(j)'
    BY <2>1 DEF Seen, Dropped
  <2>3. \A j \in Keys : Unblocking(j) => Unblocking(j)'
    BY <2>1 DEF Unblocking
  <2> QED BY <1>e, <2>1, <2>2, <2>3
<1>7. ASSUME NEW w \in Workers, FwDelete(w)
      PROVE  Goal
  <2>0. PICK k \in Keys : k = target[w]
    BY <1>7 DEF FwDelete
  <2>1. /\ k \in Keys /\ ~booting /\ pc[w] = "idle" /\ step[w] = "delete"
        /\ UNCHANGED <<mem, hooked, bare, elevated, booting, left, appending>>
    BY <1>7, <2>0 DEF FwDelete, Calm
  <2>2. \A j \in Keys \ {k} : rules'[j] = rules[j]
    BY <1>7, <2>0, <2>1 DEF FwDelete
  <2>3. \A v \in Workers \ {w} : /\ step[v] # "none" => target[v] # k
                                 /\ pc[v] \in {"add", "remove"} => arg[v].key # k
    BY <2>0, <2>1 DEF OneInFlight, About, Adding, Removing
  <2>4. /\ \A v \in Workers \ {w} : /\ step'[v] = step[v] /\ target'[v] = target[v]
                                     /\ pc'[v] = pc[v] /\ arg'[v] = arg[v]
        /\ \/ step'[w] = "delete" /\ target'[w] = k /\ pc'[w] = "idle"
           \/ step'[w] = "none" /\ pc'[w] = "remove" /\ arg'[w].key = k
    BY <1>7, <2>0, <2>1 DEF FwDelete, RecordRemoval, Leave, GoStep, Receive, Goto
  <2>5. \A j \in Keys \ {k} : Seen(j) => Seen(j)'
    BY <2>1, <2>2 DEF Seen, Dropped
  <2>6. \A j \in Keys \ {k} : Unblocking(j) => Unblocking(j)'
    BY <2>0, <2>1, <2>4 DEF Unblocking
  <2>7. Unblocking(k)'
    BY <2>4 DEF Unblocking
  <2>8. Backed'
    BY <1>c, <2>1, <2>3, <2>4, <2>5
  <2>9. Reapplied'
    BY <2>1
  <2>10. RecordMeansRule'
    BY <1>a, <1>b, <2>1, <2>5, <2>6, <2>7
  <2> QED BY <2>8, <2>9, <2>10
<1>8. ASSUME NEW w \in Workers, StoreStep(w) \/ Unblocked(w)
      PROVE  Goal
  <2>1. UNCHANGED <<rules, hooked, bare, step, target, elevated, left, appending, booting>>
    BY <1>8 DEF StoreStep, Unblocked
  <2>2. \A j \in Keys : Seen(j) => Seen(j)'
    BY <2>1 DEF Seen, Dropped
  <2>3. ASSUME mem' = mem, pc'[w] \notin {"add", "remove"}, pc[w] \notin {"add", "remove"},
               \A v \in Workers \ {w} : pc'[v] = pc[v] /\ arg'[v] = arg[v]
        PROVE  Goal
    <3>1. \A j \in Keys : Unblocking(j) => Unblocking(j)'
      BY <2>1, <2>3 DEF Unblocking
    <3> QED BY <1>e, <2>1, <2>2, <2>3, <3>1
  <2>4. CASE AddMem(w)
    <3>1. /\ pc[w] = "add" /\ pc'[w] = "load" /\ arg' = arg /\ ~booting
          /\ \A v \in Workers \ {w} : pc'[v] = pc[v]
          /\ \A j \in Keys \ {arg[w].key} : mem'[j] = mem[j]
      BY <2>4 DEF AddMem, Goto, Calm, Adding
    <3>2. \A j \in Keys : Unblocking(j) => Unblocking(j)'
      BY <2>1, <3>1 DEF Unblocking
    <3>3. Backed' /\ Reapplied'
      BY <1>c, <2>1, <2>2, <3>1
    <3>4. RecordMeansRule'
      BY <1>a, <1>b, <1>c, <2>1, <2>2, <3>1, <3>2
    <3> QED BY <3>3, <3>4
  <2>5. CASE RemoveMem(w)
    <3>1. /\ pc[w] = "remove" /\ pc'[w] = "dbremove" /\ arg' = arg /\ ~booting
          /\ \A v \in Workers \ {w} : pc'[v] = pc[v]
          /\ \A j \in Keys \ {arg[w].key} : mem'[j] = mem[j]
          /\ arg[w].key \in Keys /\ mem'[arg[w].key] = NoRow
      BY <2>5 DEF RemoveMem, Goto, Calm, Removing
    <3>2. \A j \in Keys \ {arg[w].key} : Unblocking(j) => Unblocking(j)'
      BY <2>1, <3>1 DEF Unblocking
    <3>3. Backed' /\ Reapplied'
      BY <1>c, <2>1, <2>2, <3>1
    <3>4. RecordMeansRule'
      BY <1>a, <1>b, <2>1, <2>2, <3>1, <3>2
    <3> QED BY <3>3, <3>4
  <2>6. CASE LoadOn(w) \/ ToggleStore(w) \/ FlushBegin(w) \/ FlushEnd(w)
    BY <2>3, <2>6 DEF LoadOn, ToggleStore, FlushBegin, FlushEnd, Goto
  <2>7. CASE LoadOff(w) \/ DbAdd(w) \/ WriteEnv(w) \/ DbRemove(w)
    <3>1. pc[w] \notin {"add", "remove"} /\ Answer(w) /\ mem' = mem
      BY <2>7 DEF LoadOff, DbAdd, WriteEnv, DbRemove
    <3> QED BY <2>3, <3>1 DEF Answer, Goto
  <2>8. CASE FlushRow(w)
    BY <2>3, <2>8 DEF FlushRow
  <2>9. CASE Free(w) /\ \E b \in BOOLEAN : ToggleArrives(w, b)
    BY <2>3, <2>9 DEF Free, ToggleArrives, Receive, Goto
  <2>10. CASE Free(w) /\ EnvReplaced
    BY <2>3, <2>10 DEF Free, EnvReplaced
  <2> QED BY <1>8, <2>4, <2>5, <2>6, <2>7, <2>8, <2>9, <2>10 DEF StoreStep, Unblocked
<1>9. ASSUME NEW i \in Instances, ReapplyCheck(i) \/ ReapplyAppend(i) \/ ReapplyFails(i)
      PROVE  Goal
  <2>1. /\ UNCHANGED <<mem, pc, arg, step, target, elevated, booting>>
        /\ \A j \in Keys : Unblocking(j) => Unblocking(j)'
    BY <1>9 DEF ReapplyCheck, ReapplyAppend, ReapplyFails, storeVars, Unblocking
  <2>2. \A j \in Keys : Seen(j) => Seen(j)'
    <3>1. CASE ReapplyCheck(i)
      BY <3>1 DEF ReapplyCheck, Seen, Dropped
    <3>2. CASE ReapplyAppend(i)
      BY <3>2, RuleSet DEF ReapplyAppend, Seen
    <3>3. CASE ReapplyFails(i)
      BY <3>3, Hooking DEF ReapplyFails, Seen, Dropped
    <3> QED BY <1>9, <3>1, <3>2, <3>3
  <2>3. ASSUME NEW j \in Keys, j \in left["owner"] \/ appending["owner"] = j, Chained
        PROVE  Seen(j)' \/ j \in left'["owner"] \/ appending'["owner"] = j
    <3>1. CASE ReapplyCheck(i)
      <4>1. PICK k \in left[i] :
               /\ left' = [left EXCEPT ![i] = @ \ {k}]
               /\ \/ Found(k) /\ UNCHANGED appending
                  \/ appending' = [appending EXCEPT ![i] = k]
        BY <3>1 DEF ReapplyCheck
      <4>2. appending[i] = NoRow /\ k \in Keys /\ UNCHANGED <<rules, hooked, bare>>
        BY <3>1 DEF ReapplyCheck
      <4>3. Found(k) => Seen(k)'
        BY <2>3, <4>2 DEF Found, Chained, Seen, Dropped
      <4> HIDE DEF Seen
      <4> QED BY <2>3, <4>1, <4>2, <4>3 DEF Instances
    <3>2. CASE ReapplyAppend(i)
      <4>1. i = "owner" \/ (left' = left /\ appending'["owner"] = appending["owner"])
        BY <3>2 DEF ReapplyAppend, Instances
      <4>2. PICK g \in Keys : g = appending[i] /\ SetRule(g) /\ left' = left
        BY <3>2 DEF ReapplyAppend
      <4>3. Seen(g)'
        BY <4>2, RuleSet DEF Seen
      <4> QED BY <2>3, <4>1, <4>2, <4>3
    <3>3. CASE ReapplyFails(i)
      BY <2>3, <3>3 DEF ReapplyFails, Seen, Instances
    <3> QED BY <1>9, <3>1, <3>2, <3>3
  <2>4. Backed'
    BY <1>c, <2>1, <2>2
  <2>5. Reapplied'
    BY <2>1, <2>2, <2>3
  <2>6. RecordMeansRule'
    BY <1>a, <1>b, <2>1, <2>2
  <2> QED BY <2>4, <2>5, <2>6
<1>10. ASSUME Serve PROVE Goal
  <2>1. /\ UNCHANGED <<rules, hooked, bare, mem, pc, arg, step, target, elevated>>
        /\ booting /\ ~booting' /\ left["owner"] = {} /\ appending["owner"] = NoRow
    BY <1>10 DEF Serve, storeVars
  <2>2. \A j \in Keys : Seen(j) => Seen(j)'
    BY <2>1 DEF Seen, Dropped
  <2> QED BY <1>b, <1>c, <2>1, <2>2
<1>11. ASSUME NEW reboot \in BOOLEAN, NEW again \in BOOLEAN, Start(reboot, again)
       PROVE  Goal
  <2>1. booting' /\ \A w \in Workers : step'[w] = "none" /\ pc'[w] = "idle"
    BY <1>11 DEF Start, Reload
  <2>2. left'["owner"] = ToReapply
    BY <1>11 DEF Start, Instances
  <2>3. Enforced' => \A k \in Keys : mem'[k] # NoRow => k \in left'["owner"]
    BY <1>0, <2>2 DEF ToReapply, Entries, Enforced, Tool
  <2> QED BY <1>b, <2>1, <2>3
<1>12. ASSUME SecondStarts PROVE Goal
  <2>1. /\ UNCHANGED <<rules, hooked, bare, mem, pc, arg, step, target, elevated, booting, appending>>
        /\ left'["owner"] = left["owner"]
    BY <1>12 DEF SecondStarts, storeVars, Instances
  <2>2. \A j \in Keys : (Seen(j) => Seen(j)') /\ (Unblocking(j) => Unblocking(j)')
    BY <2>1 DEF Seen, Dropped, Unblocking
  <2> QED BY <1>a, <1>b, <1>c, <2>1, <2>2
<1> HIDE DEF Goal
<1>13. Goal
  <2>1. CASE \E w \in Workers, k \in Keys :
                BlockArrives(w, k) \/ UnblockArrives(w, k) \/ UnblockStale(w, k)
    BY <2>1, <1>1, <1>2
  <2>2. CASE \E w \in Workers : FwCheck(w) \/ FwAppend(w) \/ FwAppendFails(w) \/ FwDelete(w)
    BY <2>2, <1>3, <1>4, <1>5, <1>7
  <2>3. CASE \E w \in Workers : FwDeleteFails(w) \/ \E s \in Stamps : Reported(w, s)
    BY <2>3, <1>6
  <2>4. CASE \E w \in Workers : StoreStep(w) \/ Unblocked(w)
    BY <2>4, <1>8
  <2>5. CASE \E i \in Instances : ReapplyCheck(i) \/ ReapplyAppend(i) \/ ReapplyFails(i)
    BY <2>5, <1>9
  <2>6. CASE Serve \/ (\E reboot, again \in BOOLEAN : Start(reboot, again)) \/ SecondStarts
    BY <2>6, <1>10, <1>11, <1>12
  <2> QED BY <2>1, <2>2, <2>3, <2>4, <2>5, <2>6 DEF BlockNext
<1> QED BY <1>13 DEF Goal

-----------------------------------------------------------------------------
(* What is unblocked stays unblocked *)

\* Only one copy of the program reapplies rules.
Single == left["second"] = {} /\ appending["second"] = NoRow

\* iptables -A runs where -C has just failed, so it never makes a copy too many.
Copies ==
    Tool = "iptables" =>
        /\ \A k \in Keys :
              rules[k] <= MaxRules /\ (appending["owner"] = k => rules[k] < MaxRules)
        /\ \A w \in Workers : step[w] = "append" /\ elevated => rules[target[w]] < MaxRules

\* The loop of -D has a try left for each copy.
Deleting ==
    \A w \in Workers : step[w] = "delete" =>
        /\ Tool = "iptables" => rules[target[w]] + tries[w] <= MaxDeletes
        /\ tries[w] > 0 => elevated

\* No rule is left, or a failed -D left it.
Gone(k) == rules[k] = 0 \/ k \in stuck

\* A request that gives no warning has left no rule.
Emptied ==
    \A w \in Workers :
        pc[w] \in Removing /\ arg[w].key \in Blockable /\ ~warned[w] => Gone(arg[w].key)

\* Nothing has a rule for a cleared IP, or is about to make one.
NothingBlocks ==
    \A k \in cleared :
        /\ Gone(k) /\ db[k] = NoRow /\ mem[k] = NoRow
        /\ k \notin left["owner"] /\ appending["owner"] # k
        /\ \A w \in Workers :
              /\ step[w] \in {"check", "append", "report"} => target[w] # k
              /\ pc[w] \in Adding => arg[w].key # k

UInv == ~machine.twice => Single /\ Copies /\ Deleting /\ Emptied /\ NothingBlocks

\* The state every step below starts from.
Firewalled ==
    /\ Serialized /\ MaxRules <= MaxDeletes /\ ~machine.twice
    /\ BInv /\ Calm /\ MemoryKept
    /\ Single /\ Copies /\ Deleting /\ Emptied /\ NothingBlocks

Kept == Single' /\ Copies' /\ Deleting' /\ Emptied' /\ NothingBlocks'

\* A request changes the rules of its own IP only, and no other request is
\* about that IP meanwhile.
LEMMA RulesStep ==
    ASSUME Serialized, BInv, Calm, NEW w \in Workers, FwAppend(w) \/ FwDelete(w)
    PROVE  /\ target[w] \in Keys /\ ~booting /\ pc[w] = "idle"
           /\ rules' \in [Keys -> Nat]
           /\ \A k \in Keys \ {target[w]} : rules'[k] = rules[k]
           /\ \A v \in Workers \ {w} :
                 /\ step[v] # "none" => target[v] \in Keys \ {target[w]}
                 /\ pc[v] \in Adding \cup Removing => arg[v].key \in Keys \ {target[w]}
<1>1. target[w] \in Keys /\ ~booting /\ pc[w] = "idle" /\ step[w] # "none"
  BY DEF FwAppend, FwDelete, BInv, TypeOK, Calm
<1>2. /\ rules' \in [Keys -> Nat]
      /\ \A k \in Keys \ {target[w]} : rules'[k] = rules[k]
  <2>1. CASE FwAppend(w)
    BY <1>1, <2>1, RuleSet DEF FwAppend, BInv, TypeOK
  <2>2. CASE FwDelete(w)
    BY <1>1, <2>2 DEF FwDelete, BInv, TypeOK
  <2> QED BY <2>1, <2>2
<1>3. \A v \in Workers \ {w} :
         /\ step[v] # "none" => target[v] \in Keys \ {target[w]}
         /\ pc[v] \in Adding \cup Removing => arg[v].key \in Keys \ {target[w]}
  BY <1>1 DEF BInv, TypeOK, StoreTypeOK, OneInFlight, About
<1> QED BY <1>1, <1>2, <1>3

\* A request that begins finds no more copies than -D has tries, and blocking an
\* IP takes it off the cleared ones (handleBlockIP, handleUnblock).
LEMMA ArrivalKeeps ==
    ASSUME Firewalled, NEW w \in Workers, NEW k \in Keys,
           BlockArrives(w, k) \/ UnblockArrives(w, k) \/ UnblockStale(w, k),
           UNCHANGED machine
    PROVE  Kept
<1> USE BoundsAssumption, BlockableAssumption DEF Firewalled, BInv, TypeOK, StoreTypeOK
<1>1. ASSUME NEW label \in {"check", "delete"}, StartStep(w, k, label), UNCHANGED storeVars,
             UNCHANGED <<rules, elevated, left, appending, machine>>,
             cleared' \subseteq cleared, label = "check" => k \notin cleared',
             \A j \in Keys : Gone(j) => Gone(j)' \/ (j = k /\ label = "check")
      PROVE  Kept
  <2>1. /\ step'[w] = label /\ target'[w] = k /\ tries'[w] = 0 /\ pc[w] = "idle"
        /\ \A v \in Workers \ {w} :
              /\ step'[v] = step[v] /\ target'[v] = target[v]
              /\ tries'[v] = tries[v] /\ warned'[v] = warned[v]
        /\ pc' = pc /\ arg' = arg /\ mem' = mem /\ db' = db
    BY <1>1 DEF StartStep, Free, storeVars
  <2>2. Single'
    BY <1>1 DEF Single
  <2>3. Copies'
    BY <1>1, <2>1 DEF Copies, Tool
  <2>4. Deleting'
    BY <1>1, <2>1 DEF Deleting, Copies, Tool
  <2>5. Emptied'
    <3>1. \A v \in Workers \ {w} : pc[v] \in Removing => arg[v].key # k
      BY <1>1 DEF StartStep, InFlight, Busy
    <3> SUFFICES ASSUME NEW v \in Workers, pc'[v] \in Removing, arg'[v].key \in Blockable, ~warned'[v]
                 PROVE  Gone(arg[v].key)'
      BY DEF Emptied
    <3>2. v # w /\ Gone(arg[v].key) /\ arg[v].key \in Keys /\ arg[v].key # k
      BY <2>1, <3>1 DEF Emptied, Removing
    <3> QED BY <1>1, <2>1, <3>2 DEF Gone
  <2>6. NothingBlocks'
    BY <1>1, <2>1 DEF NothingBlocks, Adding
  <2> QED BY <2>2, <2>3, <2>4, <2>5, <2>6 DEF Kept
<1>2. CASE BlockArrives(w, k)
  <2>1. \A j \in Keys \ {k} : Gone(j) => Gone(j)'
    BY <1>2 DEF BlockArrives, Gone
  <2> QED BY <1>1, <1>2, <2>1 DEF BlockArrives
<1>3. CASE UnblockArrives(w, k)
  <2>1. \A j \in Keys : Gone(j) => Gone(j)'
    BY <1>3 DEF UnblockArrives, Gone
  <2> QED BY <1>1, <1>3, <2>1 DEF UnblockArrives
<1>4. CASE UnblockStale(w, k)
  <2>1. /\ pc'[w] = "remove" /\ arg'[w].key = k /\ k \notin Blockable
        /\ \A v \in Workers \ {w} :
              pc'[v] = pc[v] /\ arg'[v] = arg[v] /\ warned'[v] = warned[v]
        /\ UNCHANGED <<mem, db, rules, step, target, tries, elevated, left, appending, cleared, stuck>>
    BY <1>4 DEF UnblockStale, Receive, Goto
  <2>2. Single' /\ Copies' /\ Deleting'
    BY <2>1 DEF Single, Copies, Deleting, Tool
  <2>3. Emptied'
    BY <2>1 DEF Emptied, Gone
  <2>4. NothingBlocks'
    BY <2>1 DEF NothingBlocks, Adding, Gone
  <2> QED BY <2>2, <2>3, <2>4 DEF Kept
<1> QED BY <1>2, <1>3, <1>4

\* -C decides, -A makes the only copy, and neither is about a cleared IP (blockIP).
LEMMA BlockKeeps ==
    ASSUME Firewalled, UNCHANGED machine, NEW w \in Workers,
           FwCheck(w) \/ FwAppend(w) \/ FwAppendFails(w) \/ \E s \in Stamps : Reported(w, s)
    PROVE  Kept
<1> USE BoundsAssumption, BlockableAssumption DEF Firewalled, BInv, TypeOK, StoreTypeOK
<1>1. CASE FwCheck(w)
  <2>1. /\ step[w] = "check" /\ step'[w] \in {"append", "report"}
        /\ step'[w] = "append" /\ Tool = "iptables" /\ elevated => rules[target[w]] < MaxRules
        /\ \A v \in Workers \ {w} : step'[v] = step[v]
        /\ UNCHANGED <<mem, db, pc, arg, rules, target, tries, warned, elevated, left,
                       appending, cleared, stuck>>
    BY <1>1 DEF FwCheck, Found, Overlooked, GoStep, storeVars
  <2>2. Single' /\ Copies'
    BY <2>1 DEF Single, Copies, Tool
  <2>3. Deleting' /\ Emptied'
    BY <2>1 DEF Deleting, Emptied, Gone, Tool, Removing
  <2>4. NothingBlocks'
    BY <2>1 DEF NothingBlocks, Gone, Adding
  <2> QED BY <2>2, <2>3, <2>4 DEF Kept
<1>2. CASE FwAppend(w)
  <2>1. /\ step[w] = "append" /\ step'[w] = "report"
        /\ \A v \in Workers \ {w} : step'[v] = step[v]
        /\ UNCHANGED <<mem, db, pc, arg, target, tries, warned, elevated, left,
                       appending, cleared, stuck>>
    BY <1>2 DEF FwAppend, GoStep, storeVars
  <2>2. /\ target[w] \in Keys /\ ~booting /\ pc[w] = "idle"
        /\ \A k \in Keys \ {target[w]} : rules'[k] = rules[k]
        /\ \A v \in Workers \ {w} :
              /\ step[v] # "none" => target[v] \in Keys \ {target[w]}
              /\ pc[v] \in Adding \cup Removing => arg[v].key \in Keys \ {target[w]}
    BY <1>2, RulesStep
  <2>3. Tool = "iptables" => rules'[target[w]] <= MaxRules
    BY <1>2, <2>2 DEF FwAppend, SetRule, WithRule, Copies, Tool
  <2>4. Single'
    BY <2>1 DEF Single
  <2>5. Copies'
    <3> SUFFICES ASSUME Tool = "iptables"
                 PROVE  /\ \A k \in Keys : rules'[k] <= MaxRules /\ (appending'["owner"] = k => rules'[k] < MaxRules)
                        /\ \A v \in Workers : step'[v] = "append" /\ elevated' => rules'[target'[v]] < MaxRules
      BY DEF Copies, Tool
    <3>1. \A k \in Keys : rules'[k] <= MaxRules
      BY <2>2, <2>3 DEF Copies
    <3>2. appending'["owner"] = NoRow
      BY <2>1, <2>2 DEF Calm
    <3>3. \A v \in Workers : step'[v] = "append" /\ elevated' => rules'[target'[v]] < MaxRules
      BY <2>1, <2>2 DEF Copies
    <3> QED BY <3>1, <3>2, <3>3
  <2>6. Deleting'
    BY <2>1, <2>2 DEF Deleting, Tool
  <2>7. Emptied'
    BY <2>1, <2>2 DEF Emptied, Gone, Removing
  <2>8. NothingBlocks'
    BY <2>1, <2>2 DEF NothingBlocks, Gone, Adding
  <2> QED BY <2>4, <2>5, <2>6, <2>7, <2>8 DEF Kept
<1>3. ASSUME NEW s \in Stamps, Reported(w, s)
      PROVE  Kept
  <2>1. /\ step[w] = "report" /\ step'[w] = "none" /\ pc'[w] = "add"
        /\ arg'[w].key = target[w]
        /\ \A v \in Workers \ {w} :
              /\ step'[v] = step[v] /\ target'[v] = target[v] /\ tries'[v] = tries[v]
              /\ pc'[v] = pc[v] /\ arg'[v] = arg[v]
        /\ UNCHANGED <<mem, db, rules, warned, elevated, left,
                       appending, cleared, stuck>>
    BY <1>3 DEF Reported, Leave, GoStep, Receive, Goto
  <2>2. Single' /\ Copies'
    BY <2>1 DEF Single, Copies, Tool
  <2>3. Deleting' /\ Emptied'
    BY <2>1 DEF Deleting, Emptied, Gone, Tool, Removing
  <2>4. NothingBlocks'
    BY <2>1 DEF NothingBlocks, Gone, Adding
  <2> QED BY <2>2, <2>3, <2>4 DEF Kept
<1>4. CASE FwAppendFails(w)
  <2>1. /\ step[w] = "append" /\ step'[w] = "none"
        /\ \A v \in Workers \ {w} :
              step'[v] = step[v] /\ target'[v] = target[v] /\ tries'[v] = tries[v]
        /\ UNCHANGED <<mem, db, pc, arg, rules, warned, elevated, left, appending, cleared, stuck>>
    BY <1>4 DEF FwAppendFails, Leave, GoStep, storeVars
  <2>2. Single' /\ Copies'
    BY <2>1 DEF Single, Copies, Tool
  <2>3. Deleting' /\ Emptied'
    BY <2>1 DEF Deleting, Emptied, Gone, Tool
  <2>4. NothingBlocks'
    BY <2>1 DEF NothingBlocks, Gone
  <2> QED BY <2>2, <2>3, <2>4 DEF Kept
<1> QED BY <1>1, <1>2, <1>3, <1>4

\* The try that takes the last copy away is within the loop of -D, and a record
\* goes without a warning only when no copy is left (unblockIP, deleteBlocked).
LEMMA UnblockKeeps ==
    ASSUME Firewalled, UNCHANGED machine, NEW w \in Workers,
           FwDelete(w) \/ FwDeleteFails(w) \/ Unblocked(w)
    PROVE  Kept
<1> USE BoundsAssumption, BlockableAssumption DEF Firewalled, BInv, TypeOK, StoreTypeOK
<1>1. CASE FwDelete(w)
  <2>1. /\ step[w] = "delete" /\ elevated /\ rules[target[w]] > 0
        /\ UNCHANGED <<mem, db, warned, elevated, left, appending, cleared>>
        /\ stuck' = {j \in stuck : rules'[j] > 0}
        /\ \A v \in Workers \ {w} :
              /\ step'[v] = step[v] /\ target'[v] = target[v] /\ tries'[v] = tries[v]
              /\ pc'[v] = pc[v] /\ arg'[v] = arg[v]
    BY <1>1 DEF FwDelete, RecordRemoval, Leave, GoStep, Receive, Goto
  <2>2. /\ target[w] \in Keys /\ ~booting /\ pc[w] = "idle"
        /\ \A k \in Keys \ {target[w]} : rules'[k] = rules[k]
        /\ \A v \in Workers \ {w} :
              /\ step[v] # "none" => target[v] \in Keys \ {target[w]}
              /\ pc[v] \in Adding \cup Removing => arg[v].key \in Keys \ {target[w]}
    BY <1>1, RulesStep
  <2>3. /\ rules'[target[w]] \in Nat /\ rules'[target[w]] < rules[target[w]]
        /\ Tool = "iptables" => rules'[target[w]] = rules[target[w]] - 1
        /\ Tool # "iptables" => rules'[target[w]] = 0
    BY <1>1, <2>2 DEF FwDelete, Tool
  <2>4. \/ /\ step'[w] = "delete" /\ pc'[w] = "idle"
           /\ target'[w] = target[w] /\ tries'[w] = tries[w] + 1
        \/ /\ step'[w] = "none" /\ pc'[w] = "remove" /\ arg'[w].key = target[w]
           /\ Tool = "iptables" => tries[w] + 1 >= MaxDeletes
    BY <1>1, <2>1, <2>2 DEF FwDelete, RecordRemoval, Leave, GoStep, Receive, Goto, Tool
  <2>5. Single'
    BY <2>1 DEF Single
  <2>6. Copies'
    <3>1. appending' = appending /\ \A k \in Keys : appending["owner"] # k
      BY <2>1, <2>2 DEF Calm
    <3>2. ASSUME Tool = "iptables", NEW k \in Keys
          PROVE  rules'[k] <= MaxRules
      <4>1. rules[k] <= MaxRules /\ rules[k] \in Nat
        BY <3>2 DEF Copies
      <4>2. CASE k = target[w]
        BY <2>3, <4>1, <4>2
      <4> QED BY <2>2, <4>1, <4>2
    <3>3. ASSUME Tool = "iptables", NEW v \in Workers, step'[v] = "append", elevated
          PROVE  rules'[target'[v]] < MaxRules
      <4>1. v # w /\ step[v] = "append"
        BY <2>1, <2>4, <3>3
      <4>2. target[v] \in Keys \ {target[w]} /\ rules[target[v]] < MaxRules
        BY <2>2, <3>3, <4>1 DEF Copies
      <4> QED BY <2>1, <2>2, <4>1, <4>2
    <3> QED BY <2>1, <3>1, <3>2, <3>3 DEF Copies, Tool
  <2>7. Deleting'
    BY <2>1, <2>2, <2>3, <2>4 DEF Deleting, Tool
  <2>8. pc'[w] = "remove" => rules'[target[w]] = 0
    <3>1. CASE Tool # "iptables"
      BY <2>3, <3>1
    <3>2. CASE Tool = "iptables" /\ pc'[w] = "remove"
      <4>1. rules[target[w]] + tries[w] <= MaxDeletes /\ tries[w] + 1 >= MaxDeletes
        BY <2>1, <2>4, <3>2 DEF Deleting
      <4>2. \A a, b, m \in Nat : a > 0 /\ a + b <= m /\ b + 1 >= m => a = 1
        OBVIOUS
      <4>3. rules[target[w]] \in Nat /\ tries[w] \in Nat /\ MaxDeletes \in Nat
        BY <2>2
      <4>4. rules[target[w]] = 1
        BY <2>1, <4>1, <4>2, <4>3
      <4> QED BY <2>3, <3>2, <4>4
    <3> QED BY <3>1, <3>2
  <2>11. \A j \in Keys \ {target[w]} : Gone(j) => Gone(j)'
    BY <2>1, <2>2 DEF Gone
  <2>9. Emptied'
    <3> SUFFICES ASSUME NEW v \in Workers, pc'[v] \in Removing, arg'[v].key \in Blockable, ~warned'[v]
                 PROVE  Gone(arg[v].key)'
      BY DEF Emptied
    <3>1. CASE v = w
      BY <2>4, <2>8, <3>1 DEF Gone, Removing
    <3>2. CASE v # w
      <4>1. Gone(arg[v].key) /\ arg[v].key \in Keys \ {target[w]} /\ arg'[v] = arg[v]
        BY <2>1, <2>2, <3>2 DEF Emptied
      <4> QED BY <2>11, <4>1 DEF Gone
    <3> QED BY <3>1, <3>2
  <2>10. NothingBlocks'
    <3> SUFFICES ASSUME NEW k \in cleared
                 PROVE  /\ Gone(k)' /\ db'[k] = NoRow /\ mem'[k] = NoRow
                        /\ k \notin left'["owner"] /\ appending'["owner"] # k
                        /\ \A v \in Workers :
                              /\ step'[v] \in {"check", "append", "report"} => target'[v] # k
                              /\ pc'[v] \in Adding => arg'[v].key # k
      BY <2>1 DEF NothingBlocks
    <3>1. Gone(k)
      BY DEF NothingBlocks
    <3>2. Gone(k)'
      BY <2>1, <2>2, <2>3, <3>1 DEF Gone
    <3>3. \A v \in Workers :
             /\ step'[v] \in {"check", "append", "report"} => v # w
             /\ pc'[v] \in Adding => v # w
      BY <2>4 DEF Adding
    <3> QED BY <2>1, <3>2, <3>3 DEF NothingBlocks
  <2> QED BY <2>5, <2>6, <2>7, <2>9, <2>10 DEF Kept
<1>2. CASE FwDeleteFails(w)
  <2>1. /\ step[w] = "delete" /\ step'[w] = "none" /\ pc'[w] = "remove"
        /\ arg'[w].key = target[w] /\ warned'[w] = (tries[w] = 0)
        /\ stuck' = {k \in stuck \cup (IF tries[w] = 0 THEN {} ELSE {target[w]}) : rules[k] > 0}
        /\ \A v \in Workers \ {w} :
              /\ step'[v] = step[v] /\ warned'[v] = warned[v]
              /\ target'[v] = target[v] /\ tries'[v] = tries[v]
              /\ pc'[v] = pc[v] /\ arg'[v] = arg[v]
        /\ UNCHANGED <<mem, db, rules, elevated, left, appending, cleared>>
    BY <1>2 DEF FwDeleteFails, RecordRemoval, Leave, GoStep, Receive, Goto
  <2>2. Single' /\ Copies'
    BY <2>1 DEF Single, Copies, Tool
  <2>3. Deleting'
    BY <2>1 DEF Deleting, Tool
  <2>4. \A k \in Keys : Gone(k) => Gone(k)'
    BY <2>1 DEF Gone
  <2>5. Emptied'
    <3> SUFFICES ASSUME NEW v \in Workers, pc'[v] \in Removing, arg'[v].key \in Blockable, ~warned'[v]
                 PROVE  Gone(arg[v].key)'
      BY DEF Emptied
    <3>1. CASE v = w
      <4>1. tries[w] # 0 /\ target[w] \in Keys /\ rules[target[w]] \in Nat
        BY <2>1, <3>1
      <4> QED BY <2>1, <3>1, <4>1 DEF Gone
    <3>2. CASE v # w
      <4>1. Gone(arg[v].key) /\ arg[v].key \in Keys /\ arg'[v] = arg[v]
        BY <2>1, <3>2 DEF Emptied
      <4> QED BY <2>4, <4>1 DEF Gone
    <3> QED BY <3>1, <3>2
  <2>6. NothingBlocks'
    BY <2>1, <2>4 DEF NothingBlocks, Adding
  <2> QED BY <2>2, <2>3, <2>5, <2>6 DEF Kept
<1>3. CASE Unblocked(w)
  <2>1. /\ pc[w] = "dbremove" /\ pc'[w] = "idle" /\ arg[w].key \in Keys
        /\ \A v \in Workers \ {w} : pc'[v] = pc[v] /\ arg'[v] = arg[v]
        /\ \A v \in Workers \ {w} : warned'[v] = warned[v]
        /\ UNCHANGED <<mem, rules, step, target, tries, elevated, left, appending, stuck>>
    BY <1>3 DEF Unblocked, DbRemove, Answer, Goto, Removing
  <2>2. /\ \A k \in Keys \ {arg[w].key} : db'[k] = db[k]
        /\ db'[arg[w].key] = NoRow \/ (db' = db /\ arg[w].key \in lost')
    BY <1>3, <2>1 DEF Unblocked, DbRemove, Exec
  <2>3. Single' /\ Copies' /\ Deleting'
    BY <2>1 DEF Single, Copies, Deleting, Tool
  <2>4. Emptied'
    BY <2>1 DEF Emptied, Gone, Removing
  <2>5. \A k \in cleared : /\ Gone(k)' /\ db'[k] = NoRow /\ mem'[k] = NoRow
                           /\ k \notin left'["owner"] /\ appending'["owner"] # k
                           /\ \A v \in Workers :
                                 /\ step'[v] \in {"check", "append", "report"} => target'[v] # k
                                 /\ pc'[v] \in Adding => arg'[v].key # k
    BY <2>1, <2>2 DEF NothingBlocks, Gone, Adding
  <2>6. ASSUME NEW k \in cleared', k \notin cleared
        PROVE  /\ Gone(k)' /\ db'[k] = NoRow /\ mem'[k] = NoRow
               /\ k \notin left'["owner"] /\ appending'["owner"] # k
               /\ \A v \in Workers :
                     /\ step'[v] \in {"check", "append", "report"} => target'[v] # k
                     /\ pc'[v] \in Adding => arg'[v].key # k
    <3>1. k = arg[w].key /\ k \in Blockable /\ ~warned[w] /\ k \notin lost'
      BY <1>3, <2>6 DEF Unblocked
    <3>2. Gone(k)
      BY <2>1, <3>1 DEF Emptied, Removing
    <3>3. mem[k] = NoRow
      BY <2>1, <3>1 DEF MemoryKept
    <3>4. left["owner"] = {} /\ appending["owner"] = NoRow
      BY <2>1 DEF Calm
    <3>5. \A v \in Workers \ {w} :
             /\ step[v] # "none" => target[v] # k
             /\ pc[v] \in Adding => arg[v].key # k
      BY <2>1, <3>1 DEF OneInFlight, About, Removing
    <3>6. step[w] = "none"
      BY <2>1
    <3>7. Gone(k)'
      BY <2>1, <3>2 DEF Gone
    <3> QED BY <2>1, <2>2, <3>1, <3>3, <3>4, <3>5, <3>6, <3>7 DEF Adding
  <2>8. NothingBlocks'
    BY <2>5, <2>6 DEF NothingBlocks
  <2> QED BY <2>3, <2>4, <2>8 DEF Kept
<1> QED BY <1>1, <1>2, <1>3

\* Nothing the store does brings a record of a cleared IP back: no add of it is
\* under way, and a flush writes what memory has (saveBlocked, flushBlocks).
LEMMA StoreKeeps ==
    ASSUME Firewalled, UNCHANGED machine, NEW w \in Workers, StoreStep(w)
    PROVE  Kept
<1> USE BoundsAssumption, BlockableAssumption DEF Firewalled, BInv, TypeOK, StoreTypeOK
<1>1. UNCHANGED <<rules, step, target, tries, warned, elevated, left, appending, cleared, stuck>>
  BY DEF StoreStep
<1>2. Single' /\ Copies' /\ Deleting'
  BY <1>1 DEF Single, Copies, Deleting, Tool
<1>3. ASSUME UNCHANGED arg,
             \A v \in Workers : /\ pc'[v] \in Removing => pc[v] \in Removing
                                /\ pc'[v] \in Adding => pc[v] \in Adding,
             \A k \in cleared : mem'[k] = NoRow /\ db'[k] = NoRow
      PROVE  Emptied' /\ NothingBlocks'
  BY <1>1, <1>3 DEF Emptied, NothingBlocks, Gone
<1>4. \A k \in cleared : mem[k] = NoRow /\ db[k] = NoRow
  BY DEF NothingBlocks
<1>5. CASE AddMem(w)
  <2>1. pc[w] = "add" /\ arg[w].key \in Keys /\ arg[w].key \notin cleared
    BY <1>5 DEF AddMem, NothingBlocks, Adding
  <2>2. \A k \in cleared : mem'[k] = NoRow /\ db'[k] = NoRow
    BY <1>4, <1>5, <2>1 DEF AddMem
  <2>3. UNCHANGED arg /\ \A v \in Workers : /\ pc'[v] \in Removing => pc[v] \in Removing
                                            /\ pc'[v] \in Adding => pc[v] \in Adding
    BY <1>5 DEF AddMem, Goto, Adding, Removing
  <2> QED BY <1>2, <1>3, <2>2, <2>3 DEF Kept
<1>6. CASE RemoveMem(w)
  <2>1. UNCHANGED arg /\ \A v \in Workers : /\ pc'[v] \in Removing => pc[v] \in Removing
                                            /\ pc'[v] \in Adding => pc[v] \in Adding
    BY <1>6 DEF RemoveMem, Goto, Adding, Removing
  <2>2. \A k \in cleared : mem'[k] = NoRow /\ db'[k] = NoRow
    BY <1>4, <1>6 DEF RemoveMem, Removing
  <2> QED BY <1>2, <1>3, <2>1, <2>2 DEF Kept
<1>7. CASE LoadOn(w) \/ ToggleStore(w) \/ FlushBegin(w) \/ FlushEnd(w)
  <2>1. UNCHANGED <<arg, mem, db>>
        /\ \A v \in Workers : /\ pc'[v] \in Removing => pc[v] \in Removing
                              /\ pc'[v] \in Adding => pc[v] \in Adding
    BY <1>7 DEF LoadOn, ToggleStore, FlushBegin, FlushEnd, Goto, Adding, Removing
  <2> QED BY <1>2, <1>3, <1>4, <2>1 DEF Kept
<1>8. CASE FlushRow(w)
  <2>1. UNCHANGED <<arg, pc, mem>>
    BY <1>8 DEF FlushRow
  <2>2. \A k \in cleared : db'[k] = NoRow
    BY <1>4, <1>8 DEF FlushRow, Exec
  <2> QED BY <1>2, <1>3, <1>4, <2>1, <2>2 DEF Kept
<1>9. CASE LoadOff(w) \/ DbAdd(w) \/ WriteEnv(w)
  <2>1. /\ pc'[w] = "idle"
        /\ \A v \in Workers \ {w} : pc'[v] = pc[v] /\ arg'[v] = arg[v]
        /\ UNCHANGED mem
    BY <1>9 DEF LoadOff, DbAdd, WriteEnv, Answer, Goto
  <2>2. \A k \in cleared : db'[k] = NoRow
    <3>1. CASE DbAdd(w)
      <4>1. arg[w].key \in Keys /\ arg[w].key \notin cleared
        BY <3>1 DEF DbAdd, NothingBlocks, Adding
      <4> QED BY <1>4, <3>1, <4>1 DEF DbAdd, Exec
    <3>2. CASE LoadOff(w) \/ WriteEnv(w)
      BY <1>4, <3>2 DEF LoadOff, WriteEnv
    <3> QED BY <1>9, <3>1, <3>2
  <2>3. Emptied'
    BY <1>1, <2>1 DEF Emptied, Gone, Removing
  <2>4. NothingBlocks'
    BY <1>1, <1>4, <2>1, <2>2 DEF NothingBlocks, Gone, Adding
  <2> QED BY <1>2, <2>3, <2>4 DEF Kept
<1>10. CASE \E b \in BOOLEAN : ToggleArrives(w, b)
  <2>1. /\ pc'[w] = "store"
        /\ \A v \in Workers \ {w} : pc'[v] = pc[v] /\ arg'[v] = arg[v]
        /\ UNCHANGED <<mem, db>>
    BY <1>10 DEF ToggleArrives, Receive, Goto
  <2>2. Emptied'
    BY <1>1, <2>1 DEF Emptied, Gone, Removing
  <2>3. NothingBlocks'
    BY <1>1, <1>4, <2>1 DEF NothingBlocks, Gone, Adding
  <2> QED BY <1>2, <2>2, <2>3 DEF Kept
<1>11. CASE EnvReplaced
  <2>1. UNCHANGED <<arg, pc, mem, db>>
    BY <1>11 DEF EnvReplaced
  <2> QED BY <1>2, <1>3, <1>4, <2>1 DEF Kept
<1> QED BY <1>5, <1>6, <1>7, <1>8, <1>9, <1>10, <1>11 DEF StoreStep

\* A start reapplies what the table holds, which is no cleared IP, and -A runs
\* only where -C has failed (reapplyBlocks, loadState).
LEMMA StartKeeps ==
    ASSUME Firewalled, UNCHANGED machine,
           \/ \E i \in Instances : ReapplyCheck(i) \/ ReapplyAppend(i) \/ ReapplyFails(i)
           \/ Serve \/ (\E reboot, again \in BOOLEAN : Start(reboot, again)) \/ SecondStarts
    PROVE  Kept
<1> USE BoundsAssumption, BlockableAssumption
    DEF Firewalled, BInv, TypeOK, StoreTypeOK, Instances
<1>1. ASSUME NEW i \in Instances, ReapplyCheck(i)
      PROVE  Kept
  <2>1. i = "owner"
    BY <1>1 DEF ReapplyCheck, Single
  <2>2. /\ UNCHANGED <<mem, db, pc, arg, rules, step, target, tries, warned, elevated, cleared, stuck>>
        /\ left'["owner"] \subseteq left["owner"]
        /\ left'["second"] = left["second"] /\ appending'["second"] = appending["second"]
        /\ appending'["owner"] \in left["owner"] \cup {NoRow}
        /\ Tool = "iptables" /\ appending'["owner"] # NoRow => rules[appending'["owner"]] < MaxRules
    BY <1>1, <2>1 DEF ReapplyCheck, Found, Overlooked, storeVars
  <2>3. Single'
    BY <2>2 DEF Single
  <2>4. Copies'
    BY <2>2 DEF Copies, Tool
  <2>5. Deleting' /\ Emptied'
    BY <2>2 DEF Deleting, Emptied, Gone, Tool
  <2>6. NothingBlocks'
    <3>1. \A k \in cleared : k # NoRow
      OBVIOUS
    <3> QED BY <2>2, <3>1 DEF NothingBlocks, Gone
  <2> QED BY <2>3, <2>4, <2>5, <2>6 DEF Kept
<1>2. ASSUME NEW i \in Instances, ReapplyAppend(i)
      PROVE  Kept
  <2>1. i = "owner" /\ booting
    BY <1>2 DEF ReapplyAppend, Single, Calm
  <2> DEFINE g == appending["owner"]
  <2>2. /\ UNCHANGED <<mem, db, pc, arg, step, target, tries, warned, elevated, left, cleared, stuck>>
        /\ appending'["owner"] = NoRow /\ appending'["second"] = appending["second"]
        /\ g \in Keys /\ rules' = WithRule(g)
    BY <1>2, <2>1 DEF ReapplyAppend, SetRule, storeVars
  <2>3. \A v \in Workers : step[v] = "none" /\ pc[v] = "idle"
    BY <2>1 DEF Calm
  <2>4. \A k \in Keys \ {g} : rules'[k] = rules[k]
    BY <2>2, RuleAdded
  <2>5. Tool = "iptables" => rules'[g] <= MaxRules
    BY <2>2 DEF WithRule, Copies, Tool
  <2> HIDE DEF g
  <2>6. Single'
    BY <2>2 DEF Single
  <2>7. Copies'
    BY <2>2, <2>3, <2>4, <2>5 DEF Copies, Tool
  <2>8. Deleting' /\ Emptied'
    BY <2>2, <2>3 DEF Deleting, Emptied, Removing
  <2>9. \A k \in cleared : k # g
    BY DEF NothingBlocks, g
  <2>10. NothingBlocks'
    BY <2>2, <2>3, <2>4, <2>9 DEF NothingBlocks, Gone, Adding
  <2> QED BY <2>6, <2>7, <2>8, <2>10 DEF Kept
<1>3. CASE Serve
  BY <1>3 DEF Serve, Kept, Single, Copies, Deleting, Emptied, NothingBlocks, Gone, Tool, storeVars
<1>4. ASSUME NEW reboot \in BOOLEAN, NEW again \in BOOLEAN, Start(reboot, again)
      PROVE  Kept
  <2>1. /\ \A v \in Workers : step'[v] = "none" /\ pc'[v] = "idle"
        /\ left'["second"] = {} /\ appending'["second"] = NoRow
        /\ appending'["owner"] = NoRow
        /\ UNCHANGED <<db, cleared>>
        /\ \A k \in Keys : mem'[k] \in {db[k], NoRow}
    BY <1>4 DEF Start, Reload, Load
  <2>2. \A k \in Keys : rules'[k] \in {rules[k], 0} /\ (Gone(k) => Gone(k)')
    BY <1>4 DEF Start, Gone
  <2>3. \A k \in left'["owner"] : k \in Keys /\ mem'[k] # NoRow
    BY <1>4 DEF Start, ToReapply, Entries
  <2>4. Single'
    BY <2>1 DEF Single
  <2>5. Copies'
    BY <2>1, <2>2 DEF Copies, Tool
  <2>6. Deleting' /\ Emptied'
    BY <2>1 DEF Deleting, Emptied, Removing
  <2>7. NothingBlocks'
    BY <2>1, <2>2, <2>3 DEF NothingBlocks, Adding
  <2> QED BY <2>4, <2>5, <2>6, <2>7 DEF Kept
<1>5. ~SecondStarts
  BY DEF SecondStarts
<1>6. ASSUME NEW i \in Instances, ReapplyFails(i)
      PROVE  Kept
  <2>1. /\ i = "owner" /\ appending'["owner"] = NoRow /\ appending'["second"] = appending["second"]
        /\ UNCHANGED <<mem, db, pc, arg, rules, step, target, tries, warned, elevated, left,
                       cleared, stuck>>
    BY <1>6 DEF ReapplyFails, Single, storeVars
  <2> QED BY <2>1 DEF Kept, Single, Copies, Deleting, Emptied, NothingBlocks, Gone, Tool
<1> QED BY <1>1, <1>2, <1>3, <1>4, <1>5, <1>6

\* No step breaks UInv.
LEMMA UnblockStep ==
    ASSUME Serialized, MaxRules <= MaxDeletes, BInv, Calm, MemoryKept, UInv, BlockNext
    PROVE  UInv'
<1> SUFFICES ASSUME ~machine.twice PROVE Kept
  BY DEF UInv, Kept, BlockNext
<1>1. Firewalled /\ UNCHANGED machine
  BY DEF Firewalled, UInv, BlockNext
<1> QED BY <1>1, ArrivalKeeps, BlockKeeps, UnblockKeeps, StoreKeeps, StartKeeps DEF BlockNext

-----------------------------------------------------------------------------

\* A first start has the rules it finds, and nothing under way.
LEMMA FirewallInit ==
    ASSUME BlockInit
    PROVE  Calm /\ RInv /\ (MaxRules <= MaxDeletes => UInv)
<1> USE BlockableAssumption, BoundsAssumption
    DEF BlockInit, Init, Instances, Entries
<1>1. Calm
  BY DEF Calm
<1>2. Chained /\ Backed /\ Reapplied /\ RecordMeansRule
  BY DEF Chained, Backed, Reapplied, RecordMeansRule, Enforced, Tool
<1>3. UInv
  <2>1. \A k \in Keys : rules[k] <= MaxRules /\ appending["owner"] # k
    OBVIOUS
  <2>2. Single /\ Copies /\ Deleting /\ Emptied /\ NothingBlocks
    BY <2>1 DEF Single, Copies, Deleting, Emptied, NothingBlocks, Removing
  <2> QED BY <2>2 DEF UInv
<1> QED BY <1>1, <1>2, <1>3 DEF RInv

\* A stutter changes none of it.
LEMMA FirewallRests ==
    ASSUME UNCHANGED vars
    PROVE  (RInv => RInv') /\ (UInv => UInv')
<1>1. UNCHANGED <<mem, db, pc, arg>> /\ UNCHANGED fwVars
  BY DEF vars, storeVars
<1>2. RInv => RInv'
  BY <1>1 DEF fwVars, RInv, Calm, Chained, Seen, Dropped, Backed, Reapplied, RecordMeansRule,
              Enforced, Tool
<1>3. UInv => UInv'
  BY <1>1 DEF fwVars, UInv, Single, Copies, Deleting, Emptied, NothingBlocks, Gone, Tool
<1> QED BY <1>2, <1>3

\* RInv is inductive once requests about an IP do not overlap.
LEMMA RecordsAlways == Serialized /\ BlockSpec => []RInv
<1>1. CASE Serialized
  <2>1. BlockInit => RInv
    BY FirewallInit
  <2>2. BInv /\ RInv /\ [BlockNext]_vars => RInv'
    <3>1. ASSUME BInv, RInv, BlockNext PROVE RInv'
      BY <1>1, <3>1, CalmStep, ChainedStep, RecordStep DEF BInv, RInv
    <3> QED BY <3>1, FirewallRests
  <2> QED BY <2>1, <2>2, BlockInductive, PTL DEF BlockSpec
<1>2. CASE ~Serialized
  BY <1>2, PTL
<1> QED BY <1>1, <1>2

\* What the panel lists as blocked is blocked, whatever is under way, after any
\* number of restarts and reboots, with a second copy of the program or without,
\* but for the IPs whose command to block failed (handleBlockIP, handleUnblock,
\* reapplyBlocks, ensureNft).
THEOREM RecordsAreRules == Serialized /\ BlockSpec => []RecordMeansRule
<1>1. RInv => RecordMeansRule
  BY DEF RInv
<1> QED BY <1>1, RecordsAlways, PTL

\* An unblock that gives no warning is final until the next block, unless a -D
\* failed after others, provided that unblockIP tries -D at least as often as there
\* can be copies of a rule (handleUnblock, unblockIP).
THEOREM UnblocksStick == Serialized /\ MaxRules <= MaxDeletes /\ BlockSpec => []UnblockSticks
<1>1. CASE Serialized /\ MaxRules <= MaxDeletes
  <2>1. BlockInit => UInv
    BY <1>1, FirewallInit
  <2>2. BInv /\ RInv /\ IInv /\ UInv /\ [BlockNext]_vars => UInv'
    <3>1. ASSUME BInv, RInv, IInv, UInv, BlockNext PROVE UInv'
      BY <1>1, <3>1, UnblockStep DEF RInv, IInv
    <3> QED BY <3>1, FirewallRests
  <2>3. UInv => UnblockSticks
    BY DEF UInv, UnblockSticks, NothingBlocks, Gone
  <2>4. BlockSpec => []IInv
    <3>1. BlockSpec => Spec
      BY BlockImplementsStore DEF ImplementsStore
    <3> QED BY <1>1, <3>1, StoreInductive, PTL
  <2>5. BlockSpec => []RInv
    BY <1>1, RecordsAlways, PTL
  <2> QED BY <2>1, <2>2, <2>3, <2>4, <2>5, BlockInductive, PTL DEF BlockSpec
<1>2. CASE ~(Serialized /\ MaxRules <= MaxDeletes)
  BY <1>2, PTL
<1> QED BY <1>1, <1>2
=============================================================================
