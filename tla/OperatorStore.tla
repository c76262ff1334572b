--------------------------- MODULE OperatorStore ---------------------------
(***************************************************************************)
(* The session state of operator actions (store.go): a map in memory that  *)
(* is the source of truth of the running instance, a SQLite table that     *)
(* shadows it, and the "permanent" setting that decides whether a change   *)
(* is written through.  One instance of this module is one setting: the    *)
(* whitelist setting governs the binaries and the IPs (two maps, whose     *)
(* keys are disjoint, so one function holds both), the blocks setting the  *)
(* blocked IPs.                                                            *)
(*                                                                         *)
(* Every request runs on a goroutine of its own.  stateMu covers only the  *)
(* memory half of a change: the database half runs after the unlock, and   *)
(* so do the load of the setting and the write of .env.  A flush is the    *)
(* exception: it keeps the read lock until its last row is written.        *)
(***************************************************************************)
EXTENDS FiniteSets

CONSTANTS
    Keys,       \* executables and IPs the operator whitelists or blocks
    Stamps,     \* what a row holds: the time of the change and its report
    NoRow,      \* "no such entry", in memory and in the table
    Workers,    \* request goroutines
    Serialized, \* TRUE: the panel sends one request per key, one toggle, at a time
    Faults      \* TRUE: a statement (its error is dropped), the read of a table, the
                \* read or the write of .env may fail

ASSUME NoRowAssumption == NoRow \notin Stamps
ASSUME SwitchAssumption == Serialized \in BOOLEAN /\ Faults \in BOOLEAN

VARIABLES
    mem,        \* mWhitelist, mIPWhitelist or mBlocked
    db,         \* the matching table
    persist,    \* persistWhitelist or persistBlocks
    env,        \* PERSIST_WHITELIST or PERSIST_BLOCKS as .env has it
    given,      \* the same variable in the environment of the process
    pc,         \* where each request is
    arg,        \* the key and the stamp of an add or remove, the value of a toggle
    todo,       \* the rows a flush has still to write
    lost,       \* keys whose latest statement or read failed (history)
    handed,     \* the setting is still the one handed on by "Restart now" (history)
    unsaved     \* the latest write of .env failed or lost the line (history)

storeVars == <<mem, db, persist, env, given, handed, pc, arg, todo, lost, unsaved>>

Rows == Stamps \cup {NoRow}

\* A line of .env, or a variable of the environment; absent means on.
Lines == {"true", "false", "absent"}

Says(line) == line # "false"

NoArg == [key |-> NoRow, stamp |-> NoRow, on |-> FALSE]

PCs == {"idle", "add", "load", "dbadd", "remove", "dbremove",
        "store", "rlock", "flush", "env"}

Adding   == {"add", "load", "dbadd"}
Removing == {"remove", "dbremove"}
Toggling == {"store", "rlock", "flush", "env"}

StoreTypeOK ==
    /\ mem \in [Keys -> Rows]
    /\ db \in [Keys -> Rows]
    /\ persist \in BOOLEAN
    /\ env \in Lines
    /\ given \in Lines
    /\ handed \in BOOLEAN
    /\ pc \in [Workers -> PCs]
    /\ arg \in [Workers -> [key : Keys \cup {NoRow}, stamp : Rows, on : BOOLEAN]]
    /\ \A w \in Workers : pc[w] \in Adding \cup Removing => arg[w].key \in Keys
    /\ todo \in [Workers -> SUBSET Keys]
    /\ lost \subseteq Keys
    /\ unsaved \in BOOLEAN

(***************************************************************************)
(* The process was started by hand: it has loaded .env into its environment *)
(* and run loadState on whatever the table held.                           *)
(***************************************************************************)
Init ==
    /\ db \in [Keys -> Rows]
    /\ mem = db
    /\ env \in Lines
    /\ given = env
    /\ persist = Says(given)
    /\ handed = FALSE
    /\ pc = [w \in Workers |-> "idle"]
    /\ arg = [w \in Workers |-> NoArg]
    /\ todo = [w \in Workers |-> {}]
    /\ lost = {}
    /\ unsaved = FALSE

Entries(f) == {k \in Keys : f[k] # NoRow}

\* A request about k is between its arrival and its answer.
Busy(k) == \E w \in Workers : pc[w] \in Adding \cup Removing /\ arg[w].key = k

\* stateMu is read-locked: only a flush holds it across steps.
ReadLocked == \E w \in Workers : pc[w] = "flush"

Goto(w, label) == pc' = [pc EXCEPT ![w] = label]

Receive(w, label, a) ==
    /\ pc[w] = "idle"
    /\ Goto(w, label)
    /\ arg' = [arg EXCEPT ![w] = a]

Answer(w) ==
    /\ Goto(w, "idle")
    /\ arg' = [arg EXCEPT ![w] = NoArg]

----------------------------------------------------------------------------
(* addWhitelist, addIPWhitelist, saveBlocked *)

AddArrives(w, k, s) ==
    /\ Serialized => ~Busy(k)
    /\ Receive(w, "add", [key |-> k, stamp |-> s, on |-> FALSE])
    /\ UNCHANGED <<mem, db, persist, env, given, handed, unsaved, todo, lost>>

AddMem(w) ==
    /\ pc[w] = "add"
    /\ ~ReadLocked
    /\ mem' = [mem EXCEPT ![arg[w].key] = arg[w].stamp]
    /\ Goto(w, "load")
    /\ UNCHANGED <<db, persist, env, given, handed, unsaved, arg, todo, lost>>

LoadOn(w) ==
    /\ pc[w] = "load"
    /\ persist
    /\ Goto(w, "dbadd")
    /\ UNCHANGED <<mem, db, persist, env, given, handed, unsaved, arg, todo, lost>>

LoadOff(w) ==
    /\ pc[w] = "load"
    /\ ~persist
    /\ Answer(w)
    /\ UNCHANGED <<mem, db, persist, env, given, handed, unsaved, todo, lost>>

\* One statement on row k: it succeeds, or it fails and nobody looks.
Exec(k, row) ==
    \/ /\ db' = [db EXCEPT ![k] = row]
       /\ lost' = lost \ {k}
    \/ /\ Faults
       /\ lost' = lost \cup {k}
       /\ UNCHANGED db

DbAdd(w) ==
    /\ pc[w] = "dbadd"
    /\ Exec(arg[w].key, arg[w].stamp)
    /\ Answer(w)
    /\ UNCHANGED <<mem, persist, env, given, handed, unsaved, todo>>

----------------------------------------------------------------------------
(* removeWhitelist, removeIPWhitelist, deleteBlocked *)

RemoveArrives(w, k) ==
    /\ Serialized => ~Busy(k)
    /\ Receive(w, "remove", [key |-> k, stamp |-> NoRow, on |-> FALSE])
    /\ UNCHANGED <<mem, db, persist, env, given, handed, unsaved, todo, lost>>

RemoveMem(w) ==
    /\ pc[w] = "remove"
    /\ ~ReadLocked
    /\ mem' = [mem EXCEPT ![arg[w].key] = NoRow]
    /\ Goto(w, "dbremove")
    /\ UNCHANGED <<db, persist, env, given, handed, unsaved, arg, todo, lost>>

\* Seeded bug for NoGhost: a removal is written through like an add.
DbRemoveWhenOn(w) ==
    /\ pc[w] = "dbremove"
    /\ IF persist THEN Exec(arg[w].key, NoRow) ELSE UNCHANGED <<db, lost>>
    /\ Answer(w)
    /\ UNCHANGED <<mem, persist, env, given, handed, unsaved, todo>>

DbRemove(w) ==
    /\ pc[w] = "dbremove"
    /\ Exec(arg[w].key, NoRow)
    /\ Answer(w)
    /\ UNCHANGED <<mem, persist, env, given, handed, unsaved, todo>>

----------------------------------------------------------------------------
(* setPersistWhitelist, setPersistBlocks: store, flush when on, write .env *)

ToggleArrives(w, b) ==
    /\ Serialized => \A v \in Workers : pc[v] \notin Toggling
    /\ Receive(w, "store", [key |-> NoRow, stamp |-> NoRow, on |-> b])
    /\ UNCHANGED <<mem, db, persist, env, given, handed, unsaved, todo, lost>>

\* Seeded bug for Permanent: switching on writes through only what comes later.
ToggleStoreNoFlush(w) ==
    /\ pc[w] = "store"
    /\ persist' = arg[w].on
    /\ handed' = FALSE
    /\ Goto(w, "env")
    /\ UNCHANGED <<mem, db, env, given, unsaved, arg, todo, lost>>

ToggleStore(w) ==
    /\ pc[w] = "store"
    /\ persist' = arg[w].on
    /\ handed' = FALSE
    /\ Goto(w, IF arg[w].on THEN "rlock" ELSE "env")
    /\ UNCHANGED <<mem, db, env, given, unsaved, arg, todo, lost>>

FlushBegin(w) ==
    /\ pc[w] = "rlock"
    /\ todo' = [todo EXCEPT ![w] = Entries(mem)]
    /\ Goto(w, "flush")
    /\ UNCHANGED <<mem, db, persist, env, given, handed, unsaved, arg, lost>>

FlushRow(w) ==
    /\ pc[w] = "flush"
    /\ \E k \in todo[w] :
          /\ Exec(k, mem[k])
          /\ todo' = [todo EXCEPT ![w] = @ \ {k}]
    /\ UNCHANGED <<mem, persist, env, given, handed, unsaved, pc, arg>>

\* Seeded bug for EveryRequestAnswered: the return of a flush that found nothing
\* skips the unlock.
FlushEndNoUnlock(w) ==
    /\ pc[w] = "flush"
    /\ todo[w] = {}
    /\ Entries(mem) # {}
    /\ Goto(w, "env")
    /\ UNCHANGED <<mem, db, persist, env, given, handed, unsaved, arg, todo, lost>>

FlushEnd(w) ==
    /\ pc[w] = "flush"
    /\ todo[w] = {}
    /\ Goto(w, "env")
    /\ UNCHANGED <<mem, db, persist, env, given, handed, unsaved, arg, todo, lost>>

\* Seeded bug for SettingSaved: .env is rewritten only when switching on.
WriteEnvOn(w) ==
    /\ pc[w] = "env"
    /\ env' = IF arg[w].on THEN "true" ELSE env
    /\ unsaved' = FALSE
    /\ Answer(w)
    /\ UNCHANGED <<mem, db, persist, given, handed, todo, lost>>

\* writeEnv: a whole file at a time, under envMu, so one atomic step; a failure
\* is logged and the old file stays.
WriteEnv(w) ==
    /\ pc[w] = "env"
    /\ \/ env' = (IF arg[w].on THEN "true" ELSE "false") /\ unsaved' = FALSE
       \/ Faults /\ unsaved' = TRUE /\ UNCHANGED env
    /\ Answer(w)
    /\ UNCHANGED <<mem, db, persist, given, handed, todo, lost>>

\* writeEnv for some other setting: when .env cannot be opened the new file has
\* that setting's line and no other.
EnvReplaced ==
    /\ Faults
    /\ env' = "absent"
    /\ unsaved' = TRUE
    /\ UNCHANGED <<mem, db, persist, given, handed, pc, arg, todo, lost>>

----------------------------------------------------------------------------
(* The process ends (crash, shutdown or restart: os.Exit waits for nobody) *)
(* and a new one loads .env and the table.  Started by hand it has the      *)
(* lines of .env; after "Restart now" it also has the environment of its    *)
(* predecessor, whose variables godotenv.Load does not set again.           *)

\* loadState passes over the rows its queries do not deliver.
Load(unread) == [k \in Keys |-> IF k \in unread THEN NoRow ELSE db[k]]

Reload(again) ==
    /\ \E unread \in SUBSET Keys :
          /\ Faults \/ unread = {}
          /\ mem' = Load(unread)
          /\ lost' = unread
    /\ given' = IF again /\ given # "absent" THEN given ELSE env
    /\ persist' = Says(given')
    /\ handed' = again
    /\ unsaved' = FALSE
    /\ pc' = [w \in Workers |-> "idle"]
    /\ arg' = [w \in Workers |-> NoArg]
    /\ todo' = [w \in Workers |-> {}]
    /\ UNCHANGED <<db, env>>

WorkerStep(w) ==
    \/ AddMem(w) \/ LoadOn(w) \/ LoadOff(w) \/ DbAdd(w)
    \/ RemoveMem(w) \/ DbRemove(w)
    \/ ToggleStore(w) \/ FlushBegin(w) \/ FlushRow(w) \/ FlushEnd(w) \/ WriteEnv(w)

Arrival(w) ==
    \/ \E k \in Keys, s \in Stamps : AddArrives(w, k, s)
    \/ \E k \in Keys : RemoveArrives(w, k)
    \/ \E b \in BOOLEAN : ToggleArrives(w, b)

Next ==
    \/ \E w \in Workers : Arrival(w) \/ WorkerStep(w)
    \/ EnvReplaced
    \/ \E again \in BOOLEAN : Reload(again)

Spec == Init /\ [][Next]_storeVars

(***************************************************************************)
(* Goroutines run, and a waiting sync.RWMutex.Lock keeps new readers out,  *)
(* so flushes that follow one another cannot starve a writer.  Nothing     *)
(* says that requests arrive or that the process ends.                     *)
(***************************************************************************)
Fairness ==
    \A w \in Workers : /\ WF_storeVars(WorkerStep(w))
                       /\ SF_storeVars(AddMem(w))
                       /\ SF_storeVars(RemoveMem(w))

LiveSpec == Spec /\ Fairness

----------------------------------------------------------------------------
(* Properties *)

\* The change of k is on its way to the table: an add that has written memory,
\* or a flush that will still reach it.
OnItsWay(k) ==
    \E w \in Workers :
        \/ pc[w] \in {"load", "dbadd"} /\ arg[w].key = k
        \/ pc[w] = "rlock"
        \/ pc[w] = "flush" /\ k \in todo[w]

\* With the setting on, an entry of memory is in its table, as memory has it,
\* unless the change is still on its way or its statement failed: what the
\* panel shows as permanent survives an exit at that very moment, across every
\* order of adds, removals, flushes and toggles (store.go, addWhitelist and
\* flushWhitelist).
Permanent ==
    persist => \A k \in Keys :
        mem[k] # NoRow => db[k] = mem[k] \/ OnItsWay(k) \/ k \in lost

\* The table holds no entry that memory does not, unless its removal is about
\* to reach the table, or a statement or the read at startup failed: no restart
\* brings back what was removed (store.go: "Removals always delete from the DB
\* too").
NoGhost ==
    \A k \in Keys : db[k] # NoRow /\ mem[k] = NoRow =>
        \/ \E w \in Workers : pc[w] = "dbremove" /\ arg[w].key = k
        \/ k \in lost

\* When no toggle is running, .env says what the running instance does, so that
\* a start by hand does not flip the setting, unless the write failed or the line
\* was lost (ARCHITECTURE.md: "Every setting is server-persisted in .env").  A
\* successor of "Restart now" runs with the setting that its predecessor was
\* given, which .env may have left behind, until the operator changes it.
SettingSaved ==
    (\A w \in Workers : pc[w] \notin Toggling) =>
        IF handed THEN persist = Says(given) ELSE persist = Says(env) \/ unsaved

\* Every request that arrives is answered, flush or no flush.
EveryRequestAnswered == \A w \in Workers : pc[w] # "idle" ~> pc[w] = "idle"

=============================================================================
