# eFe Process Monitor in TLA+

eFe Process Monitor is one Go program: it serves a dashboard on the loopback
interface, polls the connections of the machine every three seconds, judges the
binaries and the addresses behind them, blocks addresses at the firewall and
keeps what the operator decided in SQLite and `.env`. Everything runs in one
process as goroutines: one per HTTP request, one polling loop, one worker for
VirusTotal, one for signatures, and short ones for reputation alerts. They share
package-level maps, some under mutexes, one database handle whose errors are
dropped (`db.Exec`), and the kernel's firewall through external commands. The
process may be ended and started again at any point (`os.Exit` in the restart
and shutdown handlers waits for nobody), and a second copy may be started by hand.

The modules here model that behaviour; TLC checks them on small instances and
TLAPS proves the theorems of the `_proofs` modules for every value of the
constants.

## Inventory

| component | state | operations | interacts with |
|---|---|---|---|
| operator store (`store.go`, setters of `config.go`, helpers of `db.go`) | three maps in memory, three tables, two persistence settings, their lines in `.env` | add, remove, list, toggle (with flush), load at startup | the handlers of `main.go`; the block list is one of its lists |
| block list (`actions.go`, `handleBlockIP`, `handleUnblock`) | the kernel's rules, plus the store's block records | block, unblock, reapply at startup | store; `ipReport` in between, a slow network call |
| VirusTotal queue (`vt.go`, `analyzeExe`) | pending markers, a bounded queue, the table of verdicts, a token bucket | enqueue from a render, worker loop, `allow` | renders; `vtIP` of `intel.go` takes from the same bucket |
| live feed (`publish`, `subscribe`, `handleEvents`) | the subscribers and their channels, the timeline | publish, subscribe, unsubscribe, write to the browser | monitor loop and alert goroutines publish |
| live monitor (`monitorLoop`, `baselineSeen`, `alertOnIntel`) | the last enumeration, the content baseline | seed, poll, announce, close, alert | live feed, IP intelligence, the machine |
| signatures and file hashes (`connections.go`, `provenance.go`) | caches keyed by modification time, a queue, a worker | render lookup, batch query | renders |
| IP intelligence (`intel.go`) | cache with two lifetimes, lookups in flight, four feeds | `enrichIP`, feed refreshes | renders, alerts, `ipReport`, the token bucket |
| login and local gate (`auth.go`) | password hash, sessions, back-off per address, token file | login, logout, change, middleware | every handler, `.env` |
| startup and instance (`main.go`, `handleRestart`) | the port, the token file | start, hand-off, restart, shutdown | all of the above |
| threat score and its history (`connections.go`, `db.go`, `timeline.go`) | the last score of each pair | render, compare and store | IP intelligence, signatures |
| security audit (`audit*.go`) | a cache of the last scan, seen findings | read, refresh | handlers |
| volume (`volume.go`), capture (`capture.go`), hostnames (`hostnames.go`, `dns*.go`), notifications (`notify.go`), log files (`logging.go`) | samples; one external program per request; learnt names; last notice per key; a file and its predecessor | sample; stream; record; notify; rotate | monitor loop, handlers |
| the rest (LAN, ancestry, process scans, tray, windows, texts, templates) | tables and caches of what the system says | read and format | renders |

What is hard in it, and what a module should say about it:

* the store's memory, table and `.env` are changed one after the other, outside
  the mutex, by requests that run at once, and any of the three may fail: a
  permanent entry must survive an exit at any moment, a removed one must not
  come back, the setting must not flip;
* the firewall outlives the process, the reboot empties it on Linux only, and
  the record is written after a network call: what the panel lists must be what
  the kernel does;
* markers, queue and worker must agree, or a hash is never resolved again; a
  full queue and a failed request must leave it to a later try;
* the feed must neither block the monitor nor send on a closed channel, and
  must not reorder or invent what happened;
* the monitor must not tell a failed enumeration as closed connections, must
  raise each content of a binary once, and its alerts must follow their news;
* caches must not be filled with what was true of an older file, an older
  password or an older scan.

`PROJECT.json` lists each of these as a hazard at its line, with the properties
that cover it, or the reason why none does.

## Modules

| module | what it is |
|---|---|
| `OperatorStore` | one list of the store: memory, table, setting, `.env` |
| `OperatorStore_proofs` | its typing, `Permanent`, `NoGhost`, `SettingSaved` |
| `BlockList` | extends `OperatorStore` with the firewall; refines it |
| `BlockList_proofs` | its typing, that it implements the store, `RecordMeansRule`, `UnblockSticks` |
| `RateLimit` | what a token bucket promises, without a clock |
| `TokenBucket` | the lazily refilled bucket of `vt.go`; refines `RateLimit` |
| `VTQueue` | extends `RateLimit` with markers, queue, worker, verdicts |
| `VTQueue_proofs` | `QueueInv` |
| `EventFeed` | publishers, subscribers, handlers, timeline |
| `Monitor` | extends `EventFeed` with the polling loop, baseline and alerts |
| `Monitor_proofs` | of the feed `NeverSendsOnClosed` and `FeedInv`; `MonitorInv`, `OncePerContent`, `NoFalseNews` |
| `IPIntel` | the cache of addresses, the lookups in flight, a feed |
| `IPIntel_proofs` | `LookupInv`, `PartialIsCached`, `FailedDownloads`; of the bucket typing, `WindowBound` and the refinement |
| `Signatures` | the caches of code signatures, their queue and worker, the files |
| `ThreatScore` | the score of a row as an operator, and what it must satisfy |
| `Volume` | the sample of one process number, round by round of the monitor, with its flags of traffic and CPU |
| `Render` | extends `Signatures` and `ThreatScore` with rows and the risk timeline |
| `Render_proofs` | `RenderInv`, `NothingOlder`, `RepeatsOverlap`, and `ScoreIsSound`, of every row and every reading |
| `Capture` | a captured stream or file: handler, goroutine, scanner, tshark |
| `AuditChecks` | what each check of the audit concludes from what it could read |
| `Audit` | extends both with the cached scan, the table of seen items, the interfaces |
| `Audit_proofs` | typing, `NoSendOnClosed`, `DoneIsComplete`, `FlagIsForeign`, `NewsAreTrue`; `ChecksAreHonest`, of every host |
| `Auth` | password, sessions, local gate and back-off of one process |
| `Instance` | the processes: start, address, token file, restart, hand-off, `.env` |
| `Access_proofs` | of `Auth` the types, `SessionsAreCurrent`, `KeeperIsIn`, `LockIsKept`; of `Instance` typing, `TokenIsOwners`, `SettingsKept` |

The `MC...` modules hold the bounds of the runs. `MCRender` evaluates the operators
of `ThreatScore` in every state of `Volume`, `MCAudit` those of `AuditChecks` in its first.
`MCAccess` has `Auth` and `Instance`, `MCIPIntel` has `IPIntel` and `TokenBucket`, `MCRender`
has `Render` and `Volume`, side by side: two machines that share no variable, each checked from all of its initial
states while the other rests (the variable `part`), so a run of both is the sum and not the
product of their states. Operators whose comment begins with "Seeded bug" are faulty
variants of the definition that follows; no specification uses them. They show
what each property would catch.

### OperatorStore

`mem`, `db`, `persist` and `env` are the map, the table, the atomic setting and
the line of `.env`. Each request is a worker with a program counter: `add`
(`AddMem` under the write lock), `load` (the setting is read after the unlock),
`dbadd`; `remove`, `dbremove`; `store`, `rlock`, `flush` (one step per row, with
the read lock held), `env`. A statement is `Exec`: it succeeds, or it fails and
nobody looks; `lost` and `unsaved` remember which did, so that properties can
say "or its statement failed". `Reload` is the end of the process at any point
and the load of the next one: started by hand it has the lines of `.env`; after "Restart
now" it has what its predecessor was `given`, because `os.Environ()` is handed on and
`godotenv.Load` sets nothing again. `SettingSaved` says both (`handed`). `EnvReplaced` is a
write of some other setting over a `.env` that could not be opened, after which this
one's line is gone. The three lists run the same code, so one list is
modelled; the table of blocked IPs holds the time and the report of a block,
which is why a row has a value and not only a presence.

`Serialized` says that there is one request per entry, and one toggle, at a
time. This is what the dashboard sends (a button is one request), and the
properties hold under it. Without it `NoGhost` and `SettingSaved` do not: the
second half of an overtaken add lands after a removal (run
`MCOperatorStoreRace`), and two toggles may leave memory and `.env` with
different values.

### BlockList

`rules` counts the copies of the drop rule of each IP. `step` is the request's
firewall half: `check` (`iptables -C`), `append` (`-A`, an nft element, a netsh
rule), `report` (`ipReport`), `delete` (`-D` until it fails, at most `MaxDeletes`
times; nft and netsh remove everything at once). On a `flaky` machine any of these
commands may fail with privileges too: a `-C` that overlooks a rule has `-A` make another
copy, a failed `-A` ends the request or is a line in the log of `reapplyBlocks`, and a `-D` that
fails after others passes for the end of the copies. `hooked` says that `ensureNft` made
the nftables chain, of whose commands nobody looks at the result. `bare` has the
records whose command failed, `stuck` the rules a failed `-D` left: the properties exempt
these two by name and say that there is no other case. `Reported` and `RecordRemoval`
enter the store half, which is `OperatorStore`'s. `Start` is an exit or reboot and the
next start, with or without privileges; `left` and `appending` are the progress
of `reapplyBlocks`, in the owner of the port and in a second copy that will find
the port taken only after it has reapplied. `machine` fixes the tool found at
startup and whether a second copy is ever started.

A bound of 16 deletions becomes `MaxDeletes`; what matters is that it is at
least the number of copies, which is one for each instance that appends.

### RateLimit, TokenBucket

A token is `Cost` units and a unit is the refill of one tick, so everything is
whole. `TokenBucket` keeps `tokens` and `last` as the struct does; the code's
float64 rounding is left out. It is checked beside `IPIntel`, whose lookups ask it. Under the mapping `level <- Refill` a tick is a
rise, a granted `allow` a grant and a refused one nothing.

### VTQueue

`rpc` follows a render through `analyzeExe` (cache read), `LoadOrStore` of the
marker and the `select` that sends or gives up. `wpc` follows the worker. `Failed` is a
transport error or another status; the code decides "404" by looking for those
digits in the text of the error, and the text of a transport error holds the URL
with the hash in it, hence `Has404`: such a failure is told apart so that `AbsentIsTrue`
can say which absences are true. `Unsaved` is a verdict whose INSERT failed: the marker is
withdrawn and the hash is asked about again. The bucket is `RateLimit`; `IPLookup` is `vtIP`,
any number of times. The worker looks at the bucket once a second and IP lookups may take
every token before, so `QueuedIsResolved` is about behaviours in which they cease.

### EventFeed

`ppc` is publish: the row (`Log`), `subsMu` (`Lock`), one `SendTo` per
channel, `Unlock`. `subs` and `chan` are the registered channels. `hpc` is the
handler of `/events`: wait in the select, write, leave. `unsubscribe` deletes and
closes in one critical section, which is why no send can find a closed channel;
`panicked` is set if one does.

### Monitor

`prev`, `snap` and `todo` are the variables of `monitorLoop`; `mpc` its place;
`rows` and `paths` the two baseline tables; `task` the connection each alert
goroutine looks into. `open` and `content` are the machine, which changes at
any time. A failed enumeration changes nothing, so it has no action (the
seeded bug `SnapshotAnyhow` shows what taking it for an empty one would do). `feed`,
`steady`, `raised` and `faulted` are history. `baselineSeen` makes three SELECTs, each of
which takes an error for an empty answer (`Looks`); `faulted` has the contents whose row
could not be read or written, which alone may be told twice. Left out: beaconing, the tag of a new
process, the sampling of I/O, the pruning of old events, the desktop notice.

### IPIntel

A caller of `enrichIP` reads the cache, then, under `inflightMu`, joins the lookup
in flight or starts one; the leader asks the providers, uses the feed under its
mutex, stores the answer and lets the others go. Times are ages: what matters
of a time is how long ago it was, up to the longest lifetime. `answered` and
`failedAt` are history. `feed` is the type of the list: they differ in what an
empty body does to a list that is not there yet (`DownloadedNothing`). Lookups
may take any time, downloads too. `primeIntel`, which asks for the lists once at
startup, is left out.

### Signatures, ThreatScore, Volume, Render

`Signatures` follows one path of a render through `checkSignatures` (`mem`, `db`,
`fill`) and `enqueueSig` (`enqueue`, `send`), and the worker through receiving,
draining, the query of the platform, path by path, and `resolveSignatures`, which
asks for each modification time *after* the query. A file is a version, both its
time and its content; `swapped` remembers the versions that appeared between
query and `stat`. Whether the answer is Authenticode's or a package manager's is
left open: both are one answer per path. PowerShell can fail for a batch; a package manager
that does not answer in time makes one path "Unmanaged" (`TimedOut`), which is kept like an answer.
A table that cannot be read is one without the row.

`ThreatScore` is `threatScore` over the fields it reads, in tenths of a point; a
reason keeps what its text quotes, because the text is compared later. The scan of
processes and the parsing behind the fields are left out, and so is the text itself. `Points`
has what each signal adds, with the signals that exclude or condition one another. `ScoreIsSound`
joins its three properties: `NeverLowers`, `UnknownNeverConvicts` and `AddsUp`, and the two of
`Volume`. The float64 sum was compared with tenths for every AbuseIPDB score.

`Volume` is `sampleProcessIO` for one process number: each step is a round of the monitor with
a reading of the cumulative counters, which `ioSample.advance` folds into the sample. A reading
may lack one half, which the code takes for zero, or both; then the number is passed over, and
its sample dropped once it is too old. The number may come to be of another process.
`taken`, the readings in the sample with the process each is of, is history. `FlagsAreSustained`
compares the flags with what those readings say without the code's zero for a failed one: a flag
that is up was sustained, but for an interval that began with a failed reading, once, and for one in
which the number changed hands without a counter that fell; and what was sustained over
readings that succeeded raises the flag. `AccountIsCurrent` says whose account is shown. That the account of a
process cannot be looked up at all is left out.

`Render` gives the row its score and follows `recordScoreChange`: `Score` reads the
last verdict of the pair and `Save` appends the new one. A row is one binary and one
public address; the other signals are those of any row of `Rest`, so that one
pair may show several scores, as the sockets of one pair do. A read that fails passes for an
empty table and the row is written again. `late`, of a row whose render could not see the
one before, is history.

### Capture

A stream is three goroutines and a process. `hpc` is `handleCapture`, which writes what
comes out of the channel `chan`; `spc` is the goroutine with `streamCapture`, its
`select`, the kill and the `Wait`; `rpc` the scanner, which emits into the channel or
drops once `stop` is closed; `tshark` prints into `pipe`. `active` is `captureActive`,
counted only after the process runs. `handleCapturePcap` is the handler alone, with a
process bound to the request. Packets are counted, not read.

### AuditChecks, Audit

A source is what a check reads: a set of entries of which some are `bad`, and whether
it was read, absent or failed, perhaps after a part. A host has one for each file,
key, directory and command; `Checks` gives the results of every category of either
system, built by `finding`, `findingOrSkipped` and `findingOrUnknown` as in the code.
Which paths, names and patterns make an entry bad is left out. `ChecksAreHonest` is about a
set of hosts, in the run those of which one source is anything at all, or the two that explain
each other. `FailureIsTold` is about every check but the eighteen of `Unasked`, which do not ask
whether they could look: five registry keys read through `runCmd` (`audit.go:653-746`), seven places of
Linux persistence, `ufw status`, the modes of `/etc/shadow`, sudoers, the directories of `PATH`, and the two
preload checks. `Defender` prints ";" when its query fails, which the code takes for
protection that is off (`audit.go:917-929`); `AlarmIsFounded` names that false alarm.

`Audit` has `auditCached` (`Ask`, `Join`, `Begin`, `Store`: the copy is asked for
before and after `auditRunMu`, and a result stored since a request began answers it),
the categories that run side by side (`List`, and `ReadIfaces`, `ReadActive`,
`ReadTools` for the one that looks at what captures do), and `applyAuditDiff` (`Load`,
one `Mark` per item, whose error is dropped). `LoadFails` compares with any part of the rows, as
a query, a row or the rest after a row may fail. `seen` is the table with the age of each
row; `shown`, `plain`, `through` and `unsure` are history: an item is unsure once its row could not be
read or written, or its diff died, and `NewsAreTrue` goes on to hold of all the others. A capture
that ends between the look at the interfaces and the two looks that would explain them
is the reason of a false warning; `FlagIsForeign` is about one that lasts through all three.

### Auth

`rpc` is a tab's request: the gate (`Page`, `Gate`, `Token`), a login (`Login`,
`NotLocked`, `checkPassword`, `resetLoginFails` or `recordLoginFail`), a change of the
password (`handleSettings`, `Verify`, `Prove`, `setAuthPassword`), and for each the
session that is made (`newSession`) and handed out (`Deliver`). Every step takes
`authMu` by itself, as the code does, so requests interleave between them. `raced` and
`oldCookie` follow a request that was let in before a change and got its session
after it: `SessionsAreCurrent` allows that window and no other. `guesses` counts what
was tried from an address, whatever the code's own counters say. The duration of a lock is
not modelled: it doubles with failures beyond the threshold, but a lock that is over is
pruned with its counter.

### Instance

`pc` follows each process from `load` over `listen` and `mint` to `serve`. `environ` is its
environment: `Load` is godotenv, which sets only what is not there yet, and `Relaunch`
hands `os.Environ()` on. `goal` is what `resolveListen` makes of it: the address of
`.env` only with a password. `Listen` needs an address nobody has; `Refused` is any other error of
`net.Listen`, which the code takes for an owner as well, and `TLSFails` the `log.Fatalf` of
`tlsListener`: both end the process with nobody serving, and `RestartSucceeds` names them. `HandOff` is the end of
who finds it taken, which the successor of a restart does only when the owner is not
leaving: ten seconds are taken to be enough for the four tenths of one that
`relaunchSelf` waits. `writes` are the handlers in `writeEnv`, between the
reading of the file and its atomic exchange. On a `flaky` machine `Load` and `Read` may find the file
unreadable: `writeEnv` takes that for an empty file and writes its own keys alone
(`config.go:163`), and `SettingsKept` exempts the keys so lost (`lost`). A `Stop` may come anywhere. `alone`,
`stopped`, `crossed`, `saved` and `lost` are history: two processes that serve on two addresses share the
token file and `.env` without a lock, and the properties leave that out by name.

## Runs

| run | bounds | shows |
|---|---|---|
| `MCOperatorStore` | two entries, two requests, one stamp, failures on | `Permanent`, `NoGhost`, `SettingSaved`, `EveryRequestAnswered` |
| `MCOperatorStoreRace` | one entry, two requests, not serialized | finding: `NoGhost` is violated |
| `MCBlockList` | a blockable IP and a stale record, two requests, all three tools with commands that fail, a second copy with iptables | `RecordMeansRule`, `UnblockSticks`, `ImplementsStore` |
| `MCVTQueue` | three hashes, two renders, a queue of one, two tokens, one failure, one restart, any number of IP lookups | `QueueInv`, `QueuedIsResolved` |
| `MCEventFeed` | two publishers, two browsers, two events, channels of one | `FeedInv`, `NeverSendsOnClosed`, `FeedGoesOn` |
| `MCMonitor` | two connections of one binary with two versions, one alert, two changes of the machine, one restart, failed statements | `MonitorInv`, `OncePerContent`, `NoFalseNews`, `StaysOpenIsTold` |
| `MCIPIntel` | two addresses, three callers, a cache of one; beside them a bucket of two tokens of three units, twenty ticks | `LookupInv`, `PartialIsCached`, `FailedDownloads`, `EveryCallAnswered`; `WindowBound`, `ImplementsLimit` |
| `MCRender` | two binaries, one with two versions, two renders, three rows, a queue of one, a batch of two, a memory of one, two faults; some 8,400 rows for the score; beside them up to four readings of seventeen kinds | `RenderInv`, `NothingOlder`, `RepeatsOverlap`, `ScoreIsSound` |
| `MCAudit` | one request with two things to find, two requests in two languages, or one request beside a capture of two packets; failed statements | `AuditInv`, `FlagIsForeign`, `NewsAreTrue`, `AuditIsHonest`, `CaptureEnds`, `EveryAuditAnswered` |
| `MCAuditFirewall` | the hosts of which one source failed | finding: `FirewallWasAsked` is violated |
| `MCAccess` | three tabs at two addresses, two passwords, a threshold of two, counters for one address; beside them two or three processes with one or two keys of `.env`, which may be unreadable | `AccessTypeOK`, `SessionsAreCurrent`, `KeeperIsIn`, `LockIsKept`; `TokenIsOwners`, `SettingsKept`, `RestartSucceeds` |
| `MCRestartEnv` | as the processes above | finding: `RestartApplies` is violated |

`QueueInv`, `FeedInv`, `MonitorInv`, `LookupInv`, `RenderInv`, `AuditInv` and `AccessTypeOK` join
a module's types with the agreement of its parts (`OneCarrier` and `AbsentIsTrue`;
`ShownWasLogged` and `SameOrder`; `FeedIsPrev` and `IntelFollowsNews`; `OneLookup`;
`OneInProgress`; `NoSendOnClosed` and `DoneIsComplete`; one owner of an address), each of
which is a definition of its own in its module.

Why the bounds are enough: the store has two kinds of conflict, two requests on
one entry and a flush over an entry being changed, and both fit two entries and
two requests; more of either repeats them, and the theorems cover any number. A
block list needs one IP with a rule and one that can have none. A queue of one with
three hashes has one at the worker, one waiting and one refused. Two publishers
can overtake each other and a channel of one can be full. Two connections of one
binary are judged in one round, or in two with the file replaced in between; two
changes and a restart reach every verdict. A cache of one is full at the first
address and evicts at the second. A signature queue of one refuses the second
path, a batch holds both, and a second version appears before, during or after
the query; a verdict repeats with three rows of one pair. Four readings
raise a flag, lower it and drop a sample, with streaks of two. Two renders are alike, hence
`RenderSymmetry`, which is sound there as `MCRender` has no liveness property.

An audit needs one request to find, mark and lose rows, as scans exclude one another, and
two for the lock; `Scopes` says which of these a behaviour is about, as `Tasks` does for the
tabs (two that change the password; one that changes it while another logs in; two
addresses that guess) and `Bounds` for the processes (three, with one key: an owner, its
successor and a copy started by hand; two, with both keys and two writes at once; two, with a
`.env` that may be unreadable). The marks of the items do not depend on the language (`NewsHold` is proved
for any), so the request that finds them has one. A capture of two packets with a
channel of one has one packet printed, one in the channel and one held by the scanner.
A threshold of two has a failure before the lock and one beside it; counters
for one address overflow with the second.

`CHECK_DEADLOCK FALSE` is said where the bounds on failures, changes and
restarts let a behaviour end.

## Fairness

* Goroutines run: weak fairness of each request's steps. Nothing says that a
  request arrives, that the process ends or that the machine changes.
* A waiting `sync.RWMutex.Lock` keeps new readers out, so flushes that follow
  one another cannot starve `AddMem` and `RemoveMem`: strong fairness.
* `sync.Mutex` hands itself to a waiter it has starved for a millisecond: strong
  fairness of `Lock` and `Unsubscribe`.
* A `select` with several ready cases picks at random: strong fairness of `Done`.
* A browser need not read: `Write` is not fair until its client is gone, and then
  the write returns with an error nobody looks at.
* Time passes and a bucket fills: weak fairness of `TimePasses`.
* A capture's goroutines go on, and a killed tshark ends. `GiveUp` needs strong fairness:
  the handler's `select` picks at random between a packet and the end of the request. Nothing
  says that tshark prints or exits by itself.
* Every command of an audit has a time limit, so a scan ends; `auditRunMu` starves nobody.
* A process that has started goes on, and one that is leaving exits. Nothing says that one is
  started, that a browser leaves, or that `.env` is written.
* `MCRender` assumes nothing: its properties are safety.
* HTTP calls have a timeout (`getJSON`, `getText`): a lookup ends.

## What is proved

Every theorem holds for any values of the constants that the named assumptions allow.
Each rests on an inductive invariant, since few of the properties are inductive by
themselves; what had to be added says why the code is right.

| theorem | module | of the run's property |
|---|---|---|
| `StoreTyping`, `PermanentHolds`, `NoGhostHolds`, `SettingSavedHolds` | `OperatorStore_proofs` | `Permanent`, `NoGhost`, `SettingSaved` |
| `BlockTyping`, `BlockImplementsStore`, `BlockRecordsKept`, `RecordsAreRules`, `UnblocksStick` | `BlockList_proofs` | `ImplementsStore`, `RecordMeansRule`, `UnblockSticks` |
| `VTQueueSafety` | `VTQueue_proofs` | `QueueInv` |
| `FeedNeverSendsOnClosed`, `FeedSafety` | `Monitor_proofs` | `NeverSendsOnClosed`, `FeedInv` |
| `MonitorSafety`, `AnomalyOncePerContent`, `NewsIsTrue` | `Monitor_proofs` | `MonitorInv`, `OncePerContent`, `NoFalseNews` |
| `LookupSafety`, `AnswersAreCached`, `DownloadsAreSpaced` | `IPIntel_proofs` | `LookupInv`, `PartialIsCached`, `FailedDownloads` |
| `BucketTyping`, `WindowBoundHolds`, `BucketImplementsLimit` | `IPIntel_proofs` | `WindowBound`, `ImplementsLimit` |
| `RenderSafety`, `SignaturesAreCurrent`, `TimelineIsLog`, `VolumeSafety`, `ScoreSound`; `MoreScoresMore`, `ScoreOfEveryRow` | `Render_proofs` | `RenderInv`, `NothingOlder`, `RepeatsOverlap`, `ScoreIsSound` |
| `CaptureIsSound`, `ForeignOnly`, `NewsHold`, `AuditHonest`; `ChecksOfEveryHost` | `Audit_proofs` | `AuditInv`, `FlagIsForeign`, `NewsAreTrue`, `AuditIsHonest` |
| `LoginTyping`, `SessionsCurrent`, `KeeperStaysIn`, `LockKept` | `Access_proofs` | `SessionsAreCurrent`, `KeeperIsIn`, `LockIsKept` |
| `InstanceTyping`, `TokenOfOwner`, `EnvKept`, `AccessTyping` | `Access_proofs` | `TokenIsOwners`, `SettingsKept`, `AccessTypeOK` |

`NoFalseNews` and `FailedDownloads` are action properties; the two
refinements (`ImplementsStore`, `ImplementsLimit`) are proved step by step.

### Store and block list

The invariant of the store adds to its three properties that under
`Serialized` no two requests are about the same entry (`OnePerKey`) and that a
toggle is alone (`ToggleKept`, for `SettingSaved`), and `MemoryKept`: what a request on its
way to the table carries is what memory holds. Without the last one `Permanent` is not
inductive, because a pending add could write something memory no longer has. `Permanent`,
`NoGhost` and `SettingSaved` assume `Serialized`; typing does not.

A block list implements the store because a request in its firewall half has nothing
under way in the store, and two requests about one IP are never in flight together. So
the records of blocked IPs have every property of the store (`BlockRecordsKept`).

`RecordMeansRule` needs what a record stands on at each moment: a request that is about to
write one has its rule, or its command failed (`Backed`), and while the process starts, a record has its rule or
is among those that will get it (`Reapplied`), which is so because no request is served
before `reapplyBlocks` is through (`Calm`). Only nftables can be without its chain (`Chained`). It holds with a second copy too, which only adds rules.

`UnblockSticks` is about one copy of the program. An IP that is cleared has no rule,
no row and no entry in memory, and nothing on its way could make one: no request that
blocks it and no reapplication (`NothingBlocks`). A request that gives no warning comes
there because the loop of `-D` has a try for every copy that is left (`Deleting`), `-C`
before `-A` makes no second copy (`Copies`), and what is removed from the store has no rule
any more (`Emptied`), each unless a failed `-D` left it (`stuck`). The theorem says `MaxRules <= MaxDeletes`, that the loop tries at least as often as
there may be copies: sixteen tries in `unblockIP`, against the one copy of one
instance and what a `-C` that failed or a crash may add. Both properties assume `Serialized`.

### VirusTotal queue and token bucket

`QueueInv` is inductive as it stands: a marked hash is in exactly one of three places, and
an unmarked one in none. The steps are long only because a sequence that is
sent to or received from keeps its other members. A verdict that could not be saved leaves its hash
unmarked and in no place, as a failed request does.

The grants since an instant cost at most a full bucket and the time since. This is
not inductive by itself: the invariant is that the cost of the grants *and* what
the bucket now holds come to no more than that.

### Live feed and monitor

No send on a closed channel: whom publish still has to visit is registered (`VisitsRegistered`),
because nobody unregisters while `subsMu` is held.

`SameOrder` speaks of what browsers were shown. Its invariant speaks of a stream: what was
shown, what is being written and what waits in the channel, in that order, with the
events of a publisher that is sending at its end (`SentAtTheEnd`, `OneOrder`). Steps that take from a
stream (a handler's, a restart's) change no order (`Loses`); a send appends an event
nobody has before it has been offered to all. `SentIsLogged` says that `logEvent` comes first.

For the monitor, `FeedAddsUp` says in every part of a round what the events so far add
up to: the last enumeration, with the part of the new one that has been told; and `SteadyStays`
what has been open all the while. `OncePerContent` rests on `RaisedIsKept` (a content that was announced has
its row, unless a statement about it failed); that a reputation alert follows its connection rests on `AlertsAreTold`.
`EventsAssumption` says that the events of the feed are those of the monitor.

### IP intelligence

The three parts of the code are three invariants over three groups of variables. A
cache: entries and their ages, its size, and that an answer is there as long as it is
young, unless it was evicted. Lookups: whoever leads one is in the map under its address
(`LeadersKnown`), which makes the leader of an address unique. The feed: what is between
the beginning and the end of a download holds its mutex, and the last attempt is no older
than the last failure (`FailuresKnown`).

### Renders

`RenderInv` has every path that is marked in exactly one place. It needs `Apart`: what a render is about to
queue is not in the queue, in the worker's hand or offered by another render, which is
so because only who sets the marker sends.

`NothingOlder` needs to know of the answers that are still with the worker
(`Answered`): an answer about a path is about the file that is there now, or the file came after
the path was asked about and `swapped` has it. Only with this does `resolveSignatures` write what
the property allows. Types matter here more than usual: a batch, what is left of it and what has been asked are related in every
part of the worker's loop (`WorkerTyped`).

`RepeatsOverlap` needs that what is about to be saved differs from the last row its render
could see (`Seen`): either nobody has written since, and it differs from the last row, or
it will be marked late, as it is when the row could not be read.

`ScoreOfEveryRow` says of all rows there can be what the run says of some. Nothing in it needs
induction, because `Total` names its nineteen summands. `MoreScoresMore` carries it: where each
signal counts at least as much, the sum does, and the cap and the truncation keep the order. What
is left is which signals another one switches off: a staging directory does for Downloads and a
missing signature for a bad one, and each outweighs what it replaces. The two halves of `AddsUp` agree because
a score is truncated once and a breakdown reason by reason, and of the points only those of
AbuseIPDB have tenths, of which a row has one reason (`TruncatedTotal`).

`VolumeSafety` has the streaks for its invariant (`Streaks`): the counter of hot readings is at
least n, for every n, if and only if the last n intervals were hot as the code counts, with zero for
what it could not read. The property follows with n the limit of the code: cumulative counters
that count as zero can only make hot the interval after. A reading makes every such streak one longer or ends it
(`SustainedStep`), and says nothing new of an interval before (`IntervalsRest`). `AccountKept`
adds to the property what `userDone` means: whoever has been looked up is the process of the
last reading, and if nobody was, no reading since the last ending allowed it.

### Audit and capture

No packet is sent on a closed channel and a stream which says it is done has told
everything, for any number of captures. The invariant
follows the order of the goroutines: a scanner that reads or sends has a `streamCapture`
that waits for it (`Scanner`); the channel is closed last, with the process reaped and its
error known (`Closing`); and the packets in the pipe, in the scanner, in the channel and
at the browser come to those tshark printed, unless somebody left (`Books`). `Counts` is
the typing of `captureActive`, by induction over the captures that come and go.
`FlagIsForeign` needs that the captures of the first look which are still there have a
process (`Foreign`). `NewsAreTrue` needs what the table, the results and a diff under way
have to do with each other (`Table`): an item has a row exactly if a result had it or this
diff has marked it already, and an item shown without the mark is not of the last day.
All of it is said of the items that are not unsure. `DiffOfScan` says that no diff outlives the scan that
holds the lock.

`ChecksOfEveryHost` is about every host, with any combination of sources that were read, are
absent or failed. It goes through the some forty results a scan may have (`Sound`), of each of which it
shows three things: that "ok" has looked, but for the checks of `Unasked`, that an alarm is about something that was read, and that
what was read and is bad is told. The proof found an exception the hosts of the run do not
reach, as it takes two sources: without `/etc/passwd` the start-up files of other users are not
looked at, and `pl_rc` says "ok" all the same (`BadIsTold` names it).

### Login and processes

A request that was let in was let in on the password in force, or knows that it has been changed
since, and so does the session it made (`LetInCurrent`); a session is made only to be
handed out (`MintedIsDelivered`). Who changed the password last has a session or is about
to get one (`KeeperInv`).

`LockIsKept` bounds the passwords tried from an address between two locks by the
threshold and the tabs there. The invariant counts the requests that were let past `NotLocked` before
the lock and have not failed yet (`Passed`): guesses and those together stay below the
bound, and each failure moves one request from the second to the first. It is the one proof
about cardinalities here, and the reason why `AuthAssumption` says that the tabs are finitely many.

An address has one owner, the token on disk is the owner's and no write of
`.env` undoes another of its process. The first rests on `OneOwner`: a
process listens only where nobody does, and keeps its address until it is gone. For the
token the invariant says in addition that while one is alone on disk no other process is
between listening and writing his (`Lone`), and for `.env` that a process has one write
under way and the file is as that write read it, but for what it could not read and what other
processes wrote since (`OneWriter`), which is what `envMu` is for. The theorem `EnvKept` names the
keys that a failed reading lost, and there is no other way to lose one.

### Assumptions

The only ones are the named ones of the modules: that a value which stands for "none" is not
one of the values, that bounds are numbers, that a limit of rates or streaks is not zero and time passes between two
readings (`VolumeAssumption`), that the places for captures and the tabs are
finitely many, that what can be blocked is an entry of the list (`BlockableAssumption`), and that
the events of the feed are the monitor's. TLC evaluates each on every run.

### Only model-checked

* Liveness (`EveryRequestAnswered`, `QueuedIsResolved`, `FeedGoesOn`, `StaysOpenIsTold`,
  `EveryCallAnswered`, `CaptureEnds`, `EveryAuditAnswered`, `RestartSucceeds`): the prover
  has neither fairness nor ENABLED.

Every invariant and every action property of a passing run is stated by a theorem.

## Findings

1. `store.go:96`: the INSERT of an add may land after the DELETE of a later
   removal (`MCOperatorStoreRace`).
2. `audit.go:1014`: the audit says that ufw is on when `ufw status` failed or ran out of
   time (`MCAuditFirewall`).
3. `actions.go:182`: the successor of "Restart now" inherits what its predecessor loaded of
   `.env`, and keeps a listening address (or a password's hash) that has been changed since
   (`MCRestartEnv`).

Smaller ones met on the way, without a run of their own.

Store and firewall: an unblock answered while the block of the same IP waits for its report
leaves a listed block without a rule (`main.go:631`); with permanent blocks off, a block
leaves its firewall rule behind on exit and the next instance does not list it, although
`store.go:14-15` says such changes "are forgotten on exit" (`actions.go:89`); two
overlapping toggles may leave `.env` and memory apart; a second copy of the program
reapplies a rule that was unblocked meanwhile (the reason for `~machine.twice` in
`UnblockSticks`); a stale record of an address that is not blockable is reapplied as a rule; a record
whose rule cannot be reapplied stays listed, with a line in the log (`actions.go:164`); a `-D` that fails
after another succeeded leaves a rule and no warning (`actions.go:129-134`); a `.env` that cannot be
opened, in a directory that can be written, is replaced by one with the new keys alone, the
password's hash not among them (`config.go:163`); the successor of "Restart now" keeps the
persistence settings of its predecessor's environment, too.

VirusTotal, addresses and names: a transport error about a hash with 404 among its digits is
cached as NOT_IN_VT (`vt.go:89`); a full bucket and its refill let eight requests pass in
one minute; a render that missed the cache just before the worker filled it has the hash
asked twice; an `ipSet` whose first body has no entry stays nil and is downloaded again
by every lookup, where `tfFeed` and `cidrFeed` would wait; `ARCHITECTURE.md:92-93` says that
SNI outranks DNS, but the first sighting of a name decides (`hostnames.go:113`,
`db.go:380`), and the DNS answer comes before the handshake it is for; a binding whose
INSERT failed is not tried again while memory has it.

Monitor and renders: a SELECT that fails reads as not seen, and the same content is told
again (`db.go:271-281`); a verdict is written again when the last one cannot be read
(`db.go:526-529`); a file first seen unreadable is told as replaced once it can be read
(`db.go:274`); a binary replaced while the program was off is adopted by the seeding without an
alert; a binary replaced between the query and the `stat` of `resolveSignatures` keeps
the verdict of the old file (`NothingOlder` names that window); `checkSignatures`
fills the memory from the table without `capMap`, so the bound `maxPathCache` holds
only when the worker next stores; overlapping renders may write a verdict to the
timeline twice (`RepeatsOverlap` says when); the breakdown quotes the current rate and CPU,
and two sockets of one pair may score differently, so the timeline gets rows at every
refresh although the risk has not moved; a reading whose I/O counters fail counts as zero, so the
next shows all that the process ever moved as one interval's rate, one of the two that
raise the flag (`volume.go:212`); a process number that is reused by a process with larger
counters keeps the rates and the account of the one before.

Login and processes: the back-off of logins never doubles when failures follow one another,
because a lock that is over is pruned together with its counter, although
`ARCHITECTURE.md:185` has it grow from thirty seconds to fifteen minutes; a password that is
too short is refused when the sessions are already gone (`auth.go:181`); a request that was
let in before a change of the password gets its session after it, and keeps it; removing the
password while the program listens on the network leaves it there, with the token, until a
restart; when the successor of a restart cannot be started the program ends all the same;
two processes may serve at once after the address was changed, if one is started by hand,
and then share the token file and `.env` without a lock; an address that is not of this machine,
or a port that another program has, is reported as another instance that is running, and the program
ends (`main.go:212-227`).

Audit: a failed query of Defender is a risk, "off" (`audit.go:917-929`); a capture of the program's
own that ends during the scan may be a warning (`audit.go:1278-1287`); a refresh may be answered by a scan that began before it (`audit.go:359`); a first scan
without items leaves no history, so the next one is the baseline; when the table of seen
items cannot be read once, what is new then is never marked; many checks of files drop the error
of reading them; every port is reported as hidden if the program's own list of sockets
fails (`AlarmIsFounded` lets it pass, as those ports were read); the start-up files of other users
are not looked at when `/etc/passwd` cannot be read, without a word; the Windows firewall is
"ok" when the output names only a part of the profiles.

Log: a rename of the current log that fails leaves it beyond its limit, so every further line
rotates again and three lines remove all three older files (`logging.go:65`).

## Plan

Left, in this order: two monitors over one database, as a second copy runs one until it
finds the port taken; the retention of events and the beaconing of `Monitor`; `Hostnames`
beside `Capture`; the log's rotation and the throttle of notifications, which are
sequential.

Theorems left: that connections are told open and closed in turn, as an abstract specification `Monitor` implements; that the detailed lookups of `IPIntel` implement a cache that
may forget. `Monitor` does not implement `EventFeed` as it stands: that module publishes each event
once so that events can be told apart (`Fresh`), and a connection may be told again after a restart.

## Not modelled

Text, layout and the parsing of what the platform prints; the content of the reports of
providers and of the process scans; which paths, names and patterns an audit check looks for;
graphical shells; certificates; neighbours and vendors. They keep no state other code
depends on, or are reading and formatting. Hostnames, notifications and the log keep a
little state that one function reads and writes under one mutex, and that nothing else
decides on. `PROJECT.json` names every part with its reason.
