------------------------------ MODULE IPIntel ------------------------------
(***************************************************************************)
(* What the program knows about an address (enrichIP of intel.go): a cache  *)
(* with two lifetimes, one lookup of an address at a time with everyone     *)
(* else waiting for it, and a block list that lookups download when it is    *)
(* due, under a mutex that they hold meanwhile.  Of the four lists one is    *)
(* here, as kept by any of their three types.                               *)
(* A time is an age: how long ago, up to the longest lifetime that is asked  *)
(* about.                                                                   *)
(***************************************************************************)
EXTENDS Naturals, FiniteSets

CONSTANTS
    IPs, NoIP,
    Callers,    \* goroutines in enrichIP: renders, alerts, reports
    NoCaller,
    MaxCache,   \* maxIPCache (4096)
    TTL,        \* ipTTL
    PartialTTL, \* partialIPTTL
    FeedTTL,    \* feedTTL
    FailTTL     \* feedFailTTL

ASSUME NobodyAssumption == NoIP \notin IPs /\ NoCaller \notin Callers
ASSUME LifetimeAssumption ==
    /\ MaxCache \in Nat \ {0} /\ TTL \in Nat /\ FeedTTL \in Nat
    /\ PartialTTL \in 1 .. TTL /\ FailTTL \in 1 .. FeedTTL

VARIABLES
    cache,      \* ipCache: each entry, full or partial, and its age
    inflight,   \* the caller whose lookup of each address is in flight
    pc, ip,     \* where each caller is, and its address
    leader,     \* whose lookup it waits for
    feed,       \* the type of the list; a cidrFeed is as a tfFeed (fixed)
    feedLock,   \* the caller that holds the mutex of the list
    set,        \* the list: nil, an empty one, or one with entries
    at, triedAt,\* ages of the last good download and of the last attempt
    answered,   \* age of the last answer about each address that is or should
                \* be in the cache (history)
    failedAt    \* time since the last attempt that failed, or found nothing new
                \* for the list there was, began (history)

callVars == <<pc, ip, leader>>
feedVars == <<feed, feedLock, set, at, triedAt, failedAt>>
intelVars == <<cache, inflight, callVars, feedVars, answered>>

Life == [full |-> TTL, partial |-> PartialTTL]

Entries == [kind : {"full", "partial"}, age : 0 .. TTL]
Absent == [kind |-> "none", age |-> TTL]

\* An entry that has expired stays, and takes room, until it is read or the
\* cache is full.
Cached == {a \in IPs : cache[a] # Absent}
Fresh == {a \in Cached : cache[a].age < Life[cache[a].kind]}

\* The states of a caller that leads a lookup.
Lookup == {"ask", "download", "store", "leave"}

IntelTypeOK ==
    /\ cache \in [IPs -> Entries \cup {Absent}]
    /\ Cardinality(Cached) <= MaxCache
    /\ inflight \in [IPs -> Callers \cup {NoCaller}]
    /\ pc \in [Callers -> {"idle", "missed", "wait"} \cup Lookup]
    /\ ip \in [Callers -> IPs \cup {NoIP}]
    /\ \A c \in Callers : pc[c] = "idle" <=> ip[c] = NoIP
    /\ leader \in [Callers -> Callers \cup {NoCaller}]
    /\ feed \in {"ipSet", "tfFeed"}
    /\ feedLock \in Callers \cup {NoCaller}
    /\ \A c \in Callers : pc[c] = "download" <=> feedLock = c
    /\ set \in {"nil", "empty", "list"}
    /\ at \in 0 .. FeedTTL /\ triedAt \in 0 .. FailTTL /\ failedAt \in 0 .. FailTTL
    /\ answered \in [IPs -> 0 .. PartialTTL]

IntelInit ==
    /\ cache = [a \in IPs |-> Absent]
    /\ inflight = [a \in IPs |-> NoCaller]
    /\ pc = [c \in Callers |-> "idle"]
    /\ ip = [c \in Callers |-> NoIP]
    /\ leader = [c \in Callers |-> NoCaller]
    /\ feed \in {"ipSet", "tfFeed"} /\ feedLock = NoCaller /\ set = "nil"
    /\ at = FeedTTL /\ triedAt = FailTTL /\ failedAt = FailTTL
    /\ answered = [a \in IPs |-> PartialTTL]

Goto(c, label) == pc' = [pc EXCEPT ![c] = label]

----------------------------------------------------------------------------
(* enrichIP: cachedIP, then inflight *)

\* cachedIP has nothing that is fresh, and deletes what is not.  A hit changes
\* nothing: no action for it.
Miss(c, a) ==
    /\ pc[c] = "idle"
    /\ a \notin Fresh
    /\ cache' = [cache EXCEPT ![a] = Absent]
    /\ Goto(c, "missed")
    /\ ip' = [ip EXCEPT ![c] = a]
    /\ UNCHANGED <<inflight, leader, feedVars, answered>>

Join(c) ==
    /\ pc[c] = "missed"
    /\ inflight[ip[c]] # NoCaller
    /\ leader' = [leader EXCEPT ![c] = inflight[ip[c]]]
    /\ Goto(c, "wait")
    /\ UNCHANGED <<cache, inflight, ip, feedVars, answered>>

\* Seeded bug for OneLookup: the map is written, but not read first.
LeadBlind(c) ==
    /\ pc[c] = "missed"
    /\ inflight' = [inflight EXCEPT ![ip[c]] = c]
    /\ Goto(c, "ask")
    /\ UNCHANGED <<cache, ip, leader, feedVars, answered>>

Lead(c) ==
    /\ pc[c] = "missed"
    /\ inflight[ip[c]] = NoCaller
    /\ inflight' = [inflight EXCEPT ![ip[c]] = c]
    /\ Goto(c, "ask")
    /\ UNCHANGED <<cache, ip, leader, feedVars, answered>>

----------------------------------------------------------------------------
(* ipSet.get, after the providers have answered or not *)

Due == set = "nil" \/ (at >= FeedTTL /\ triedAt >= FailTTL)

UseFeed(c) ==
    /\ pc[c] = "ask"
    /\ feedLock = NoCaller
    /\ ~Due
    /\ Goto(c, "store")
    /\ UNCHANGED <<cache, inflight, ip, leader, feedVars, answered>>

BeginDownload(c) ==
    /\ pc[c] = "ask"
    /\ feedLock = NoCaller
    /\ Due
    /\ feedLock' = c
    /\ triedAt' = 0
    /\ Goto(c, "download")
    /\ UNCHANGED <<cache, inflight, ip, leader, feed, set, at, failedAt, answered>>

\* The deferred unlock.
EndDownload(c) ==
    /\ pc[c] = "download"
    /\ feedLock' = NoCaller
    /\ Goto(c, "store")
    /\ UNCHANGED <<cache, inflight, ip, leader, feed, triedAt, answered>>

Downloaded(c) ==
    /\ EndDownload(c)
    /\ set' = "list"
    /\ at' = 0
    /\ UNCHANGED failedAt

\* A body without an entry changes neither the list nor its age; if there is
\* no list, an ipSet remains without one, and the next lookup downloads again.
DownloadedNothing(c) ==
    /\ EndDownload(c)
    /\ set' = IF set = "nil" /\ feed # "ipSet" THEN "empty" ELSE set
    /\ failedAt' = IF set' = "nil" THEN failedAt ELSE triedAt
    /\ UNCHANGED at

\* Seeded bug for FailuresSpaced: a failure leaves no list at all.
DownloadFailedNil(c) ==
    /\ EndDownload(c)
    /\ failedAt' = triedAt
    /\ UNCHANGED <<set, at>>

\* The age of the list is not renewed: the old one goes on being used, and the
\* next attempt waits for FailTTL.
DownloadFailed(c) ==
    /\ EndDownload(c)
    /\ set' = IF set = "nil" THEN "empty" ELSE set
    /\ failedAt' = triedAt
    /\ UNCHANGED at

----------------------------------------------------------------------------
(* storeIP, and the deferred end of the lookup *)

\* The addresses whose entries stay when storeIP has made room.
Kept ==
    IF Cardinality(Cached) < MaxCache THEN Cached
    ELSE IF Cardinality(Fresh) < MaxCache THEN Fresh ELSE {}

\* Seeded bug for PartialIsCached: an answer without a location is not cached.
StoreUnlessPartial(c) ==
    LET a == ip[c] IN
    /\ pc[c] = "store"
    /\ \E kind \in {"full", "partial"} :
          cache' = [b \in IPs |->
                      IF b = a /\ kind = "full" THEN [kind |-> kind, age |-> 0]
                      ELSE IF b \in Kept THEN cache[b] ELSE Absent]
    /\ answered' = [b \in IPs |-> IF b = a THEN 0
                                  ELSE IF b \in Kept THEN answered[b] ELSE PartialTTL]
    /\ Goto(c, "leave")
    /\ UNCHANGED <<inflight, ip, leader, feedVars>>

\* The location may have failed, whatever the other providers said.
Store(c) ==
    LET a == ip[c] IN
    /\ pc[c] = "store"
    /\ \E kind \in {"full", "partial"} :
          cache' = [b \in IPs |-> IF b = a THEN [kind |-> kind, age |-> 0]
                                  ELSE IF b \in Kept THEN cache[b] ELSE Absent]
    /\ answered' = [b \in IPs |-> IF b = a THEN 0
                                  ELSE IF b \in Kept THEN answered[b] ELSE PartialTTL]
    /\ Goto(c, "leave")
    /\ UNCHANGED <<inflight, ip, leader, feedVars>>

\* Seeded bug for EveryCallAnswered: done is not closed.
LeaveSilently(c) ==
    /\ pc[c] = "leave"
    /\ inflight' = [inflight EXCEPT ![ip[c]] = NoCaller]
    /\ pc' = [pc EXCEPT ![c] = "idle"]
    /\ ip' = [ip EXCEPT ![c] = NoIP]
    /\ UNCHANGED <<cache, leader, feedVars, answered>>

\* delete and close, with nothing in between that another caller could see;
\* whoever waits returns with the same answer.
Leave(c) ==
    LET home == {c} \cup {d \in Callers : pc[d] = "wait" /\ leader[d] = c} IN
    /\ pc[c] = "leave"
    /\ inflight' = [inflight EXCEPT ![ip[c]] = NoCaller]
    /\ pc' = [d \in Callers |-> IF d \in home THEN "idle" ELSE pc[d]]
    /\ ip' = [d \in Callers |-> IF d \in home THEN NoIP ELSE ip[d]]
    /\ leader' = [d \in Callers |-> IF d \in home THEN NoCaller ELSE leader[d]]
    /\ UNCHANGED <<cache, feedVars, answered>>

----------------------------------------------------------------------------

Older(age, life) == IF age < life THEN age + 1 ELSE life

TimePasses ==
    /\ cache' = [a \in IPs |-> [cache[a] EXCEPT !.age = Older(@, TTL)]]
    /\ at' = Older(at, FeedTTL)
    /\ triedAt' = Older(triedAt, FailTTL)
    /\ failedAt' = Older(failedAt, FailTTL)
    /\ answered' = [a \in IPs |-> Older(answered[a], PartialTTL)]
    /\ UNCHANGED <<inflight, callVars, feed, feedLock, set>>

CallStep(c) ==
    \/ Join(c) \/ Lead(c)
    \/ UseFeed(c) \/ BeginDownload(c)
    \/ Downloaded(c) \/ DownloadedNothing(c) \/ DownloadFailed(c)
    \/ Store(c) \/ Leave(c)

IntelNext ==
    \/ \E c \in Callers : CallStep(c) \/ \E a \in IPs : Miss(c, a)
    \/ TimePasses

IntelSpec == IntelInit /\ [][IntelNext]_intelVars

\* Goroutines run and every request has a timeout; a starved mutex is handed
\* over.
IntelFairness ==
    \A c \in Callers : /\ WF_intelVars(CallStep(c))
                       /\ SF_intelVars(UseFeed(c) \/ BeginDownload(c))

IntelLiveSpec == IntelSpec /\ IntelFairness

----------------------------------------------------------------------------
(* Properties *)

\* "One lookup per IP at a time": no two callers spend quota on one address,
\* whatever they read in the cache before; and whoever waits, waits for a lookup
\* of its own address that is still going on (the deferred delete and close of
\* enrichIP).
OneLookup ==
    /\ \A c, d \in Callers : pc[c] \in Lookup /\ pc[d] \in Lookup /\ ip[c] = ip[d] => c = d
    /\ \A c \in Callers : pc[c] = "wait" =>
          leader[c] \in Callers /\ pc[leader[c]] \in Lookup /\ ip[leader[c]] = ip[c]
    /\ \A a \in IPs : inflight[a] # NoCaller =>
          pc[inflight[a]] \in Lookup /\ ip[inflight[a]] = a

\* The cache keeps to its size and the lookups to one per address (storeIP,
\* enrichIP).
LookupInv == IntelTypeOK /\ OneLookup

\* After an answer, however incomplete, no cache read misses for PartialTTL,
\* unless the cache was dropped for want of room ("not caching it meant that
\* ... every refresh re-queried").
PartialIsCached == \A a \in IPs : answered[a] < PartialTTL => a \in Fresh

\* After a failed download, or one that brought nothing to replace the list with,
\* none is tried for FailTTL, whoever calls ("otherwise every single enrichIP
\* call retries the download").
FailuresSpaced ==
    [][\A c \in Callers : pc[c] # "download" /\ pc'[c] = "download"
          => failedAt >= FailTTL]_intelVars

\* A list once downloaded is never taken away by a failure or an empty body.
ListStays == [][set = "list" => set' = "list"]_intelVars

\* What a failed download does to a list and to the next download (ipSet.get).
FailedDownloads == FailuresSpaced /\ ListStays

\* Every call is answered, with downloads under a mutex and lookups that wait
\* for others.
EveryCallAnswered == \A c \in Callers : pc[c] # "idle" ~> pc[c] = "idle"
=============================================================================
