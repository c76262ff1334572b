---------------------------- MODULE IPIntel_proofs ----------------------------
(***************************************************************************)
(* For any addresses, callers, lifetimes and size of the cache: one lookup  *)
(* of an address at a time, a cache that keeps to its size and keeps what   *)
(* was answered, and downloads of a list that are spaced and never lose it. *)
(* And, for every capacity, cost and window, the token bucket that a lookup *)
(* asks before it asks VirusTotal (the last part).                          *)
(***************************************************************************)
EXTENDS IPIntel, TokenBucket, FiniteSetTheorems, TLAPS

(* The cache *)

\* The size of the cache has a meaning.
Sized == IsFiniteSet(Cached) /\ Cardinality(Cached) <= MaxCache

\* The age of an entry is the age of the answer, as long as the latter is known.
AnswerIsCached == \A a \in IPs : answered[a] < PartialTTL =>
    cache[a] \in Entries /\ cache[a].age = answered[a]

\* The types of the cache, apart.
CacheTyped ==
    /\ cache \in [IPs -> Entries \cup {Absent}]
    /\ answered \in [IPs -> 0 .. PartialTTL]

\* The lifetimes and the size of the cache as numbers.
LEMMA Lifetimes ==
    /\ TTL \in Nat \ {0} /\ PartialTTL \in 1 .. TTL /\ FailTTL \in Nat \ {0} /\ FeedTTL \in Nat \ {0}
    /\ MaxCache \in Nat \ {0}
BY LifetimeAssumption

\* What is absent is no entry.
LEMMA AbsentIsNone ==
    /\ Absent \notin Entries
    /\ \A x \in Entries : x.kind \in {"full", "partial"} /\ x.age \in 0 .. TTL /\ x # Absent
BY DEF Absent, Entries

\* An age grows up to its lifetime.
LEMMA OlderTyped ==
    ASSUME NEW life \in Nat, NEW age \in 0 .. life
    PROVE  /\ Older(age, life) \in 0 .. life
           /\ age <= Older(age, life)
           /\ age = life => Older(age, life) = life
           /\ age < life => Older(age, life) = age + 1
BY DEF Older

\* A set of entries and one more (storeIP after it has made room).
LEMMA Fits ==
    ASSUME Sized, CacheTyped, NEW a \in IPs
    PROVE  /\ IsFiniteSet(Kept \cup {a}) /\ Cardinality(Kept \cup {a}) <= MaxCache
           /\ Kept \subseteq Cached
<1>1. Fresh \subseteq Cached /\ IsFiniteSet(Fresh) /\ Cardinality(Fresh) \in Nat
  BY FS_Subset, FS_CardinalityType DEF Fresh, Sized
<1>2. Cardinality(Cached) \in Nat
  BY FS_CardinalityType DEF Sized
<1>3. Kept \subseteq Cached /\ IsFiniteSet(Kept) /\ Cardinality(Kept) < MaxCache
  BY <1>1, <1>2, Lifetimes, FS_EmptySet DEF Kept, Sized
<1>4. Cardinality(Kept) \in Nat
  BY <1>3, FS_CardinalityType
<1>5. IsFiniteSet(Kept \cup {a}) /\ Cardinality(Kept \cup {a}) <= Cardinality(Kept) + 1
  <2>1. /\ IsFiniteSet(Kept \cup {a})
        /\ Cardinality(Kept \cup {a}) = IF a \in Kept THEN Cardinality(Kept) ELSE Cardinality(Kept) + 1
    BY <1>3, FS_AddElement, Zenon
  <2> QED BY <1>4, <2>1
<1>6. Cardinality(Kept \cup {a}) \in Nat
  BY <1>5, FS_CardinalityType
<1> QED BY <1>3, <1>4, <1>5, <1>6, Lifetimes

CInv == CacheTyped /\ Sized /\ AnswerIsCached

\* cachedIP drops what has expired.
LEMMA MissKeepsCache ==
    ASSUME CInv, NEW c \in Callers, NEW a \in IPs, Miss(c, a)
    PROVE  CInv'
<1>1. /\ cache' = [cache EXCEPT ![a] = Absent] /\ answered' = answered /\ a \notin Fresh
  BY DEF Miss
<1>2. CacheTyped'
  BY <1>1 DEF CInv, CacheTyped
<1>3. Sized'
  <2>1. Cached' \subseteq Cached
    BY <1>1 DEF CInv, CacheTyped, Cached
  <2>2. IsFiniteSet(Cached') /\ Cardinality(Cached') <= Cardinality(Cached)
    BY <2>1, FS_Subset DEF CInv, Sized
  <2>3. Cardinality(Cached) \in Nat /\ Cardinality(Cached') \in Nat
    BY <2>2, FS_CardinalityType DEF CInv, Sized
  <2> QED BY <2>2, <2>3, Lifetimes DEF CInv, Sized
<1>4. answered[a] = PartialTTL
  <2>1. SUFFICES ASSUME answered[a] < PartialTTL PROVE FALSE
    BY Lifetimes DEF CInv, CacheTyped
  <2>2. cache[a] \in Entries /\ cache[a].age = answered[a]
    BY <2>1 DEF CInv, AnswerIsCached
  <2>3. cache[a].kind \in {"full", "partial"} /\ cache[a] # Absent
    BY <2>2, AbsentIsNone
  <2>4. Life[cache[a].kind] >= PartialTTL
    BY <2>3, Lifetimes DEF Life
  <2>5. cache[a].age < Life[cache[a].kind]
    BY <2>1, <2>2, <2>3, <2>4, Lifetimes DEF Life, CInv, CacheTyped
  <2> QED BY <1>1, <2>3, <2>5 DEF Fresh, Cached
<1>5. AnswerIsCached'
  BY <1>1, <1>4, Lifetimes DEF CInv, CacheTyped, AnswerIsCached
<1> QED BY <1>2, <1>3, <1>5 DEF CInv

\* storeIP makes room, if need be by dropping all, and stores.
LEMMA StoreKeepsCache ==
    ASSUME CInv, NEW c \in Callers, ip[c] \in IPs, Store(c)
    PROVE  CInv'
<1> DEFINE a == ip[c]
<1>1. PICK kind \in {"full", "partial"} :
          cache' = [b \in IPs |-> IF b = a THEN [kind |-> kind, age |-> 0]
                                  ELSE IF b \in Kept THEN cache[b] ELSE Absent]
  BY DEF Store
<1>2. answered' = [b \in IPs |-> IF b = a THEN 0 ELSE IF b \in Kept THEN answered[b] ELSE PartialTTL]
  BY DEF Store
<1>3. [kind |-> kind, age |-> 0] \in Entries
  BY Lifetimes DEF Entries
<1>4. [kind |-> kind, age |-> 0].age = 0
  OBVIOUS
<1>5. CacheTyped'
  BY <1>1, <1>2, <1>3, Lifetimes DEF CInv, CacheTyped
<1>6. Sized'
  <2>1. Cached' \subseteq Kept \cup {a}
    BY <1>1 DEF Cached
  <2>2. IsFiniteSet(Kept \cup {a}) /\ Cardinality(Kept \cup {a}) <= MaxCache
    BY Fits DEF CInv
  <2>3. IsFiniteSet(Cached') /\ Cardinality(Cached') <= Cardinality(Kept \cup {a})
    BY <2>1, <2>2, FS_Subset
  <2>4. Cardinality(Cached') \in Nat /\ Cardinality(Kept \cup {a}) \in Nat
    BY <2>2, <2>3, FS_CardinalityType
  <2> QED BY <2>2, <2>3, <2>4, Lifetimes DEF Sized
<1>7. AnswerIsCached'
  <2>1. SUFFICES ASSUME NEW b \in IPs, answered'[b] < PartialTTL
                 PROVE  cache'[b] \in Entries /\ cache'[b].age = answered'[b]
    BY DEF AnswerIsCached
  <2>2. CASE b = a
    BY <1>1, <1>2, <1>3, <1>4, <2>2
  <2>3. CASE b # a /\ b \in Kept
    BY <1>1, <1>2, <2>1, <2>3 DEF CInv, AnswerIsCached
  <2>4. CASE b # a /\ b \notin Kept
    BY <1>2, <2>1, <2>4, Lifetimes
  <2> QED BY <2>2, <2>3, <2>4
<1> QED BY <1>5, <1>6, <1>7 DEF CInv

\* Entries and answers age together.
LEMMA TimeKeepsCache ==
    ASSUME CInv, TimePasses
    PROVE  CInv'
<1>1. /\ cache' = [a \in IPs |-> [cache[a] EXCEPT !.age = Older(@, TTL)]]
      /\ answered' = [a \in IPs |-> Older(answered[a], PartialTTL)]
  BY DEF TimePasses
<1>2. ASSUME NEW a \in IPs
      PROVE  /\ cache[a] \in Entries => cache'[a] \in Entries /\ cache'[a].age = Older(cache[a].age, TTL)
             /\ cache[a] = Absent => cache'[a] = Absent
             /\ answered'[a] = Older(answered[a], PartialTTL)
  <2>1. CASE cache[a] \in Entries
    <3>1. cache[a].age \in 0 .. TTL /\ Older(cache[a].age, TTL) \in 0 .. TTL
      BY <2>1, AbsentIsNone, OlderTyped, Lifetimes
    <3>2. cache'[a] = [cache[a] EXCEPT !.age = Older(cache[a].age, TTL)]
      BY <1>1
    <3>3. cache'[a] \in Entries /\ cache'[a].age = Older(cache[a].age, TTL)
      BY <2>1, <3>1, <3>2 DEF Entries
    <3> QED BY <1>1, <2>1, <3>3, AbsentIsNone
  <2>2. CASE cache[a] = Absent
    <3>1. Older(TTL, TTL) = TTL
      BY OlderTyped, Lifetimes
    <3>2. cache'[a] = [Absent EXCEPT !.age = Older(Absent.age, TTL)]
      BY <1>1, <2>2
    <3>3. cache'[a] = Absent
      BY <3>1, <3>2 DEF Absent
    <3> QED BY <1>1, <2>2, <3>3, AbsentIsNone
  <2> QED BY <2>1, <2>2 DEF CInv, CacheTyped
<1>3. CacheTyped'
  <2>1. \A a \in IPs : cache'[a] \in Entries \cup {Absent}
    BY <1>2 DEF CInv, CacheTyped
  <2>2. \A a \in IPs : answered'[a] \in 0 .. PartialTTL
    BY <1>2, OlderTyped, Lifetimes DEF CInv, CacheTyped
  <2> QED BY <1>1, <2>1, <2>2 DEF CacheTyped
<1>4. Sized'
  <2>1. Cached' = Cached
    BY <1>2, AbsentIsNone DEF CInv, CacheTyped, Cached
  <2> QED BY <2>1 DEF CInv, Sized
<1>5. AnswerIsCached'
  <2>1. SUFFICES ASSUME NEW a \in IPs, answered'[a] < PartialTTL
                 PROVE  cache'[a] \in Entries /\ cache'[a].age = answered'[a]
    BY DEF AnswerIsCached
  <2>2. answered[a] \in 0 .. PartialTTL /\ PartialTTL \in Nat
    BY Lifetimes DEF CInv, CacheTyped
  <2>3. answered[a] < PartialTTL /\ answered'[a] = answered[a] + 1
    BY <1>2, <2>1, <2>2, OlderTyped
  <2>4. cache[a] \in Entries /\ cache[a].age = answered[a]
    BY <2>3 DEF CInv, AnswerIsCached
  <2>5. answered[a] < TTL /\ answered[a] \in 0 .. TTL /\ Older(answered[a], TTL) = answered[a] + 1
    <3>1. answered[a] < TTL /\ answered[a] \in 0 .. TTL /\ TTL \in Nat \ {0}
      BY <2>2, <2>3, Lifetimes
    <3> QED BY <3>1, OlderTyped
  <2> QED BY <1>2, <2>3, <2>4, <2>5
<1> QED BY <1>3, <1>4, <1>5 DEF CInv

\* The cache keeps to its types and its size, and a recent answer stays in it.
LEMMA CacheStep ==
    ASSUME CInv, IntelTypeOK, [IntelNext]_intelVars
    PROVE  CInv'
<1>1. CASE UNCHANGED <<cache, answered>>
  BY <1>1 DEF CInv, CacheTyped, Sized, Cached, AnswerIsCached
<1>2. ASSUME NEW c \in Callers, Store(c) PROVE CInv'
  <2>1. ip[c] \in IPs
    BY <1>2 DEF IntelTypeOK, Store
  <2> QED BY <1>2, <2>1, StoreKeepsCache
<1>3. \/ UNCHANGED <<cache, answered>>
      \/ \E c \in Callers : Store(c) \/ \E a \in IPs : Miss(c, a)
      \/ TimePasses
  BY DEF IntelNext, CallStep, Join, Lead, UseFeed, BeginDownload, Downloaded, DownloadedNothing,
         DownloadFailed, EndDownload, Leave, intelVars
<1> QED BY <1>1, <1>2, <1>3, MissKeepsCache, TimeKeepsCache

----------------------------------------------------------------------------
(* The lookups *)

\* The types of the callers and of the list.
CallsTyped ==
    /\ inflight \in [IPs -> Callers \cup {NoCaller}]
    /\ pc \in [Callers -> {"idle", "missed", "wait"} \cup Lookup]
    /\ ip \in [Callers -> IPs \cup {NoIP}]
    /\ \A c \in Callers : pc[c] = "idle" <=> ip[c] = NoIP
    /\ leader \in [Callers -> Callers \cup {NoCaller}]

FeedTyped ==
    /\ feed \in {"ipSet", "tfFeed"}
    /\ feedLock \in Callers \cup {NoCaller}
    /\ \A c \in Callers : pc[c] = "download" <=> feedLock = c
    /\ set \in {"nil", "empty", "list"}
    /\ at \in 0 .. FeedTTL /\ triedAt \in 0 .. FailTTL /\ failedAt \in 0 .. FailTTL

\* Whoever leads a lookup is in the map under its address (enrichIP).
LeadersKnown == \A c \in Callers : pc[c] \in Lookup => inflight[ip[c]] = c

LInv == CallsTyped /\ OneLookup /\ LeadersKnown

\* A step of one caller that stays in its lookup, or out of all of them, leaves the
\* lookups as they are.
LEMMA StayingKeeps ==
    ASSUME LInv, NEW c \in Callers, UNCHANGED <<inflight, ip, leader>>,
           NEW l \in Lookup, pc[c] \in Lookup, Goto(c, l)
    PROVE  LInv'
<1>1. /\ pc'[c] = l /\ \A d \in Callers \ {c} : pc'[d] = pc[d]
      /\ pc' \in [Callers -> {"idle", "missed", "wait"} \cup Lookup]
  BY DEF LInv, CallsTyped, Goto
<1>2. "wait" \notin Lookup /\ "idle" \notin Lookup
  BY DEF Lookup
<1>3. \A d \in Callers : /\ pc'[d] \in Lookup <=> pc[d] \in Lookup
                         /\ pc'[d] = "wait" <=> pc[d] = "wait"
                         /\ pc'[d] = "idle" <=> pc[d] = "idle"
  BY <1>1, <1>2
<1>4. CallsTyped'
  BY <1>1, <1>3 DEF LInv, CallsTyped
<1>5. OneLookup'
  BY <1>3, NobodyAssumption DEF LInv, CallsTyped, OneLookup
<1>6. LeadersKnown'
  BY <1>3 DEF LInv, LeadersKnown
<1> QED BY <1>4, <1>5, <1>6 DEF LInv

\* A miss begins nothing and joins nothing yet.
LEMMA MissKeeps ==
    ASSUME LInv, NEW c \in Callers, NEW a \in IPs, Miss(c, a)
    PROVE  LInv'
<1>1. /\ pc[c] = "idle" /\ pc'[c] = "missed" /\ ip'[c] = a
      /\ \A d \in Callers \ {c} : pc'[d] = pc[d] /\ ip'[d] = ip[d]
      /\ pc' \in [Callers -> {"idle", "missed", "wait"} \cup Lookup]
      /\ ip' \in [Callers -> IPs \cup {NoIP}]
      /\ inflight' = inflight /\ leader' = leader
  BY DEF LInv, CallsTyped, Miss, Goto
<1>2. "wait" \notin Lookup /\ "idle" \notin Lookup /\ "missed" \notin Lookup
  BY DEF Lookup
<1>3. CallsTyped'
  BY <1>1, NobodyAssumption DEF LInv, CallsTyped
<1>4. OneLookup'
  BY <1>1, <1>2, NobodyAssumption DEF LInv, CallsTyped, OneLookup
<1>5. LeadersKnown'
  BY <1>1, <1>2 DEF LInv, LeadersKnown
<1> QED BY <1>3, <1>4, <1>5 DEF LInv

\* Who finds a lookup of his address waits for the one that leads it.
LEMMA JoinKeeps ==
    ASSUME LInv, NEW c \in Callers, Join(c)
    PROVE  LInv'
<1>1. /\ pc[c] = "missed" /\ pc'[c] = "wait" /\ ip[c] \in IPs
      /\ inflight[ip[c]] \in Callers /\ leader'[c] = inflight[ip[c]]
      /\ \A d \in Callers \ {c} : pc'[d] = pc[d] /\ leader'[d] = leader[d]
      /\ pc' \in [Callers -> {"idle", "missed", "wait"} \cup Lookup]
      /\ leader' \in [Callers -> Callers \cup {NoCaller}]
      /\ inflight' = inflight /\ ip' = ip
  BY DEF LInv, CallsTyped, Join, Goto
<1>2. "wait" \notin Lookup /\ "idle" \notin Lookup /\ "missed" \notin Lookup
  BY DEF Lookup
<1>3. CallsTyped'
  BY <1>1 DEF LInv, CallsTyped
<1>4. OneLookup'
  BY <1>1, <1>2, NobodyAssumption DEF LInv, CallsTyped, OneLookup
<1>5. LeadersKnown'
  BY <1>1, <1>2 DEF LInv, LeadersKnown
<1> QED BY <1>3, <1>4, <1>5 DEF LInv

\* Who finds none leads: nobody else does for this address.
LEMMA LeadKeeps ==
    ASSUME LInv, NEW c \in Callers, Lead(c)
    PROVE  LInv'
<1>1. /\ pc[c] = "missed" /\ pc'[c] = "ask" /\ ip[c] \in IPs
      /\ inflight[ip[c]] = NoCaller /\ inflight'[ip[c]] = c
      /\ \A d \in Callers \ {c} : pc'[d] = pc[d]
      /\ \A a \in IPs \ {ip[c]} : inflight'[a] = inflight[a]
      /\ pc' \in [Callers -> {"idle", "missed", "wait"} \cup Lookup]
      /\ inflight' \in [IPs -> Callers \cup {NoCaller}]
      /\ leader' = leader /\ ip' = ip
  BY DEF LInv, CallsTyped, Lead, Goto, Lookup
<1>2. "wait" \notin Lookup /\ "idle" \notin Lookup /\ "missed" \notin Lookup /\ "ask" \in Lookup
  BY DEF Lookup
<1>3. CallsTyped'
  BY <1>1 DEF LInv, CallsTyped
<1>4. \A d \in Callers : pc[d] \in Lookup => ip[d] # ip[c] /\ ip[d] \in IPs
  BY <1>1, <1>2, NobodyAssumption DEF LInv, CallsTyped, LeadersKnown
<1>5. OneLookup'
  BY <1>1, <1>2, <1>4, NobodyAssumption DEF LInv, CallsTyped, OneLookup
<1>6. LeadersKnown'
  BY <1>1, <1>2, <1>4 DEF LInv, LeadersKnown
<1> QED BY <1>3, <1>5, <1>6 DEF LInv

\* delete and close: the leader and all who wait for it go home together.
LEMMA LeaveKeeps ==
    ASSUME LInv, NEW c \in Callers, Leave(c)
    PROVE  LInv'
<1> DEFINE home == {c} \cup {d \in Callers : pc[d] = "wait" /\ leader[d] = c}
<1>1. /\ pc[c] = "leave" /\ ip[c] \in IPs /\ inflight'[ip[c]] = NoCaller
      /\ \A a \in IPs \ {ip[c]} : inflight'[a] = inflight[a]
      /\ inflight' \in [IPs -> Callers \cup {NoCaller}]
  BY DEF LInv, CallsTyped, Leave
<1>2. /\ pc' = [d \in Callers |-> IF d \in home THEN "idle" ELSE pc[d]]
      /\ ip' = [d \in Callers |-> IF d \in home THEN NoIP ELSE ip[d]]
      /\ leader' = [d \in Callers |-> IF d \in home THEN NoCaller ELSE leader[d]]
  BY DEF Leave
<1>3. /\ "wait" \notin Lookup /\ "idle" \notin Lookup /\ "leave" \in Lookup
      /\ c \in home
      /\ \A d \in home \ {c} : pc[d] = "wait"
      /\ \A d \in Callers \ home : pc[d] = "wait" => leader[d] # c
  BY DEF Lookup
<1> HIDE DEF home
<1>4. \A d \in Callers : /\ d \in home => pc'[d] = "idle" /\ ip'[d] = NoIP /\ leader'[d] = NoCaller
                         /\ d \notin home => pc'[d] = pc[d] /\ ip'[d] = ip[d] /\ leader'[d] = leader[d]
  BY <1>2
<1>5. CallsTyped'
  <2>1. /\ pc' \in [Callers -> {"idle", "missed", "wait"} \cup Lookup]
        /\ ip' \in [Callers -> IPs \cup {NoIP}]
        /\ leader' \in [Callers -> Callers \cup {NoCaller}]
    BY <1>2 DEF LInv, CallsTyped
  <2> QED BY <1>1, <1>4, <2>1 DEF LInv, CallsTyped
<1>6. \A d \in Callers : pc[d] \in Lookup /\ d # c => d \notin home
  BY <1>3
<1>7. \A d \in Callers : pc'[d] \in Lookup => pc[d] \in Lookup /\ d \notin home /\ ip'[d] = ip[d] /\ d # c
  BY <1>3, <1>4
<1>8. OneLookup'
  <2>1. \A d, e \in Callers : pc'[d] \in Lookup /\ pc'[e] \in Lookup /\ ip'[d] = ip'[e] => d = e
    BY <1>7 DEF LInv, OneLookup
  <2>2. ASSUME NEW d \in Callers, pc'[d] = "wait"
        PROVE  leader'[d] \in Callers /\ pc'[leader'[d]] \in Lookup /\ ip'[leader'[d]] = ip'[d]
    <3>1. d \notin home /\ pc[d] = "wait" /\ leader[d] # c
      BY <1>3, <1>4, <2>2
    <3>2. leader[d] \in Callers /\ pc[leader[d]] \in Lookup /\ ip[leader[d]] = ip[d]
      BY <3>1 DEF LInv, OneLookup
    <3> QED BY <1>4, <1>6, <3>1, <3>2
  <2>3. ASSUME NEW a \in IPs, inflight'[a] # NoCaller
        PROVE  pc'[inflight'[a]] \in Lookup /\ ip'[inflight'[a]] = a
    <3>1. a # ip[c] /\ inflight'[a] = inflight[a] /\ inflight[a] \in Callers
      BY <1>1, <2>3 DEF LInv, CallsTyped
    <3>2. pc[inflight[a]] \in Lookup /\ ip[inflight[a]] = a
      BY <2>3, <3>1 DEF LInv, OneLookup
    <3> QED BY <1>4, <1>6, <3>1, <3>2
  <2> QED BY <2>1, <2>2, <2>3 DEF OneLookup
<1>9. LeadersKnown'
  <2>1. SUFFICES ASSUME NEW d \in Callers, pc'[d] \in Lookup PROVE inflight'[ip'[d]] = d
    BY DEF LeadersKnown
  <2>2. pc[d] \in Lookup /\ ip'[d] = ip[d] /\ d # c /\ inflight[ip[d]] = d
    BY <1>7, <2>1 DEF LInv, LeadersKnown
  <2>3. ip[d] # ip[c] /\ ip[d] \in IPs
    BY <1>1, <1>3, <2>2 DEF LInv, CallsTyped, OneLookup
  <2> QED BY <1>1, <2>2, <2>3
<1> QED BY <1>5, <1>8, <1>9 DEF LInv

\* Every step of a lookup keeps the bookkeeping of who leads and who waits.
LEMMA LookupStep ==
    ASSUME LInv, [IntelNext]_intelVars
    PROVE  LInv'
<1>1. CASE UNCHANGED <<inflight, pc, ip, leader>>
  BY <1>1 DEF LInv, CallsTyped, OneLookup, LeadersKnown
<1>2. ASSUME NEW c \in Callers,
             \/ UseFeed(c) \/ BeginDownload(c) \/ Downloaded(c) \/ DownloadedNothing(c)
             \/ DownloadFailed(c) \/ Store(c)
      PROVE  LInv'
  <2>1. /\ UNCHANGED <<inflight, ip, leader>> /\ pc[c] \in Lookup
        /\ \E l \in Lookup : Goto(c, l)
    BY <1>2 DEF UseFeed, BeginDownload, Downloaded, DownloadedNothing, DownloadFailed, EndDownload,
                Store, Lookup
  <2> QED BY <2>1, StayingKeeps
<1>3. \/ UNCHANGED <<inflight, pc, ip, leader>>
      \/ \E c \in Callers : CallStep(c) \/ \E a \in IPs : Miss(c, a)
  BY DEF IntelNext, TimePasses, intelVars, callVars
<1> QED BY <1>1, <1>2, <1>3, MissKeeps, JoinKeeps, LeadKeeps, LeaveKeeps DEF CallStep

----------------------------------------------------------------------------
(* The downloads *)

\* The last failure is as old as the last attempt, and without a list there was none:
\* an ipSet that got an empty body does not count it as one.
FailuresKnown ==
    /\ triedAt <= failedAt
    /\ set = "nil" => failedAt = FailTTL

DInv == FeedTyped /\ FailuresKnown

\* What is between the beginning and the end of a download has its mutex.
LEMMA DownloadStep ==
    ASSUME CallsTyped, DInv, [IntelNext]_intelVars
    PROVE  DInv'
<1> USE Lifetimes, NobodyAssumption DEF DInv, FeedTyped, FailuresKnown
<1>1. ASSUME UNCHANGED feedVars, \A d \in Callers : pc'[d] = "download" <=> pc[d] = "download"
      PROVE  DInv'
  BY <1>1 DEF feedVars
<1>2. ASSUME NEW c \in Callers, BeginDownload(c) PROVE DInv'
  <2>1. /\ pc[c] = "ask" /\ pc'[c] = "download" /\ \A d \in Callers \ {c} : pc'[d] = pc[d]
        /\ feedLock = NoCaller /\ feedLock' = c /\ triedAt' = 0
        /\ UNCHANGED <<feed, set, at, failedAt>>
    BY <1>2 DEF BeginDownload, Goto, CallsTyped
  <2> QED BY <2>1
<1>3. ASSUME NEW c \in Callers, Downloaded(c) \/ DownloadedNothing(c) \/ DownloadFailed(c)
      PROVE  DInv'
  <2>1. /\ pc[c] = "download" /\ pc'[c] = "store" /\ \A d \in Callers \ {c} : pc'[d] = pc[d]
        /\ feedLock' = NoCaller /\ UNCHANGED <<feed, triedAt>>
    BY <1>3 DEF Downloaded, DownloadedNothing, DownloadFailed, EndDownload, Goto, CallsTyped
  <2>2. /\ set' \in {"nil", "empty", "list"} /\ at' \in 0 .. FeedTTL
        /\ failedAt' \in {failedAt, triedAt}
        /\ set' = "nil" => set = "nil" /\ failedAt' = failedAt
    BY <1>3 DEF Downloaded, DownloadedNothing, DownloadFailed, EndDownload
  <2> QED BY <2>1, <2>2
<1>4. CASE TimePasses
  <2>1. /\ at' = Older(at, FeedTTL) /\ triedAt' = Older(triedAt, FailTTL)
        /\ failedAt' = Older(failedAt, FailTTL)
        /\ UNCHANGED <<feed, feedLock, set, pc>>
    BY <1>4 DEF TimePasses, callVars
  <2> QED BY <2>1 DEF Older
<1>5. ASSUME NEW c \in Callers, Join(c) \/ Lead(c) \/ UseFeed(c) \/ Store(c) \/ \E a \in IPs : Miss(c, a)
      PROVE  DInv'
  <2>1. /\ UNCHANGED feedVars
        /\ \E l \in {"missed", "wait", "ask", "store", "leave"} : Goto(c, l)
        /\ pc[c] # "download"
    BY <1>5 DEF Join, Lead, UseFeed, Store, Miss
  <2> QED BY <1>1, <2>1 DEF Goto, CallsTyped
<1>6. ASSUME NEW c \in Callers, Leave(c) PROVE DInv'
  <2>1. UNCHANGED feedVars /\ pc[c] = "leave"
    BY <1>6 DEF Leave
  <2>2. \A d \in Callers : pc'[d] = pc[d] \/ (pc'[d] = "idle" /\ pc[d] \in {"leave", "wait"})
    BY <1>6, <2>1 DEF Leave
  <2> QED BY <1>1, <2>1, <2>2
<1>7. CASE UNCHANGED intelVars
  BY <1>1, <1>7 DEF intelVars, callVars
<1> QED BY <1>2, <1>3, <1>4, <1>5, <1>6, <1>7 DEF IntelNext, CallStep

\* A download begins when there is no list, or when FailTTL has passed.
LEMMA Spaced ==
    ASSUME CallsTyped, DInv, IntelNext, NEW c \in Callers, pc[c] # "download", pc'[c] = "download"
    PROVE  failedAt >= FailTTL
<1>1. BeginDownload(c)
  <2>1. ASSUME NEW d \in Callers, NEW l \in {"missed", "wait", "ask", "store", "leave"}, Goto(d, l)
        PROVE  FALSE
    BY <2>1 DEF Goto, CallsTyped
  <2>2. ASSUME NEW d \in Callers, Leave(d) PROVE FALSE
    BY <2>2 DEF Leave
  <2>3. \/ \E d \in Callers : BeginDownload(d) \/ Leave(d)
        \/ \E d \in Callers, l \in {"missed", "wait", "ask", "store", "leave"} : Goto(d, l)
        \/ UNCHANGED pc
    BY DEF IntelNext, CallStep, Join, Lead, UseFeed, Downloaded, DownloadedNothing, DownloadFailed,
           EndDownload, Store, Miss, TimePasses, callVars
  <2>4. PICK d \in Callers : BeginDownload(d)
    BY <2>1, <2>2, <2>3
  <2>5. d = c
    BY <2>4 DEF BeginDownload, Goto, CallsTyped
  <2> QED BY <2>4, <2>5
<1>2. set = "nil" \/ triedAt >= FailTTL
  BY <1>1 DEF BeginDownload, Due
<1> QED BY <1>2, Lifetimes DEF DInv, FeedTyped, FailuresKnown

----------------------------------------------------------------------------
(* The theorems *)

NInv == CInv /\ LInv /\ DInv

\* The parts of the invariant have all the types between them.
LEMMA TypesTogether == NInv => IntelTypeOK
BY DEF NInv, CInv, LInv, DInv, CacheTyped, Sized, CallsTyped, FeedTyped, IntelTypeOK

\* Nothing is cached, asked or downloaded at first.
LEMMA IntelInitInv == IntelInit => NInv
<1> SUFFICES ASSUME IntelInit PROVE NInv
  OBVIOUS
<1> USE Lifetimes, NobodyAssumption DEF IntelInit
<1>1. CacheTyped /\ AnswerIsCached
  BY DEF CacheTyped, AnswerIsCached
<1>2. Sized
  <2>1. Cached = {}
    BY DEF Cached
  <2> QED BY <2>1, FS_EmptySet DEF Sized
<1>3. CallsTyped
  BY DEF CallsTyped
<1>4. OneLookup /\ LeadersKnown
  BY DEF OneLookup, LeadersKnown, Lookup
<1>5. DInv
  BY DEF DInv, FeedTyped, FailuresKnown
<1> QED BY <1>1, <1>2, <1>3, <1>4, <1>5 DEF NInv, CInv, LInv

\* Each step keeps the cache, the lookups and the feed.
LEMMA IntelStepInv == NInv /\ [IntelNext]_intelVars => NInv'
<1> SUFFICES ASSUME NInv, [IntelNext]_intelVars PROVE NInv'
  OBVIOUS
<1>1. CInv'
  BY CacheStep, TypesTogether DEF NInv
<1>2. LInv'
  BY LookupStep DEF NInv
<1>3. DInv'
  BY DownloadStep DEF NInv, LInv
<1> QED BY <1>1, <1>2, <1>3 DEF NInv

\* The inductive invariant holds in every reachable state.
LEMMA IntelAlways == IntelSpec => []NInv
BY IntelInitInv, IntelStepInv, PTL DEF IntelSpec

\* One lookup of an address at a time, whoever waits waits for one of its address that
\* is going on, and the cache keeps to its size (enrichIP, storeIP).
THEOREM LookupSafety == IntelSpec => []LookupInv
<1>1. NInv => LookupInv
  BY TypesTogether DEF NInv, LInv, LookupInv
<1> QED BY <1>1, IntelAlways, PTL

\* An answer is read from the cache for PartialTTL at least, however incomplete it was,
\* unless room had to be made (storeIP, cachedIP).
THEOREM AnswersAreCached == IntelSpec => []PartialIsCached
<1>1. NInv => PartialIsCached
  <2> SUFFICES ASSUME NInv, NEW a \in IPs, answered[a] < PartialTTL PROVE a \in Fresh
    BY DEF PartialIsCached
  <2>1. cache[a] \in Entries /\ cache[a].age = answered[a]
    BY DEF NInv, CInv, AnswerIsCached
  <2>2. cache[a] # Absent /\ cache[a].kind \in {"full", "partial"}
    BY <2>1, AbsentIsNone
  <2>3. answered[a] \in 0 .. PartialTTL /\ Life[cache[a].kind] \in {TTL, PartialTTL}
    BY <2>2 DEF NInv, CInv, CacheTyped, Life
  <2>4. cache[a].age < Life[cache[a].kind]
    BY <2>1, <2>3, Lifetimes
  <2> QED BY <2>2, <2>4 DEF Fresh, Cached
<1> QED BY <1>1, IntelAlways, PTL

\* After a download that failed none is tried for FailTTL, whoever calls, and a list
\* once downloaded stays (get of the list, under its mutex).
THEOREM DownloadsAreSpaced == IntelSpec => FailedDownloads
<1>1. NInv /\ [IntelNext]_intelVars
        => [\A c \in Callers : pc[c] # "download" /\ pc'[c] = "download" => failedAt >= FailTTL]_intelVars
  BY Spaced DEF NInv, LInv
<1>2. [IntelNext]_intelVars => [set = "list" => set' = "list"]_intelVars
  BY DEF IntelNext, CallStep, Join, Lead, UseFeed, BeginDownload, Downloaded, DownloadedNothing,
         DownloadFailed, Store, Leave, Miss, TimePasses, feedVars, EndDownload
<1> QED BY <1>1, <1>2, IntelAlways, PTL
        DEF IntelSpec, FailedDownloads, FailuresSpaced, ListStays

----------------------------------------------------------------------------
(* The token bucket *)

\* The grants of the window were paid for: what they cost and what is left in
\* the bucket is at most a full bucket and the refill up to the last call.
Paid ==
    /\ last < From => granted = 0
    /\ last >= From => granted * Cost + tokens <= Cap + (last - From)

BInv == BucketTypeOK /\ Paid

\* The tokens after the lazy refill of allow never exceed the bucket.
LEMMA RefillBounds ==
    ASSUME BucketTypeOK
    PROVE  Refill \in 0 .. Cap /\ Refill <= tokens + (now - last)
BY BucketAssumption DEF Refill, BucketTypeOK

\* One more grant costs Cost more.
LEMMA OneMore ==
    ASSUME NEW g \in Nat
    PROVE  /\ g * Cost \in Nat
           /\ (g + 1) * Cost = g * Cost + Cost
           /\ g = 0 => g * Cost = 0
BY BucketAssumption

\* allow pays for each grant out of the refill, whatever the calls before it.
LEMMA BucketInductive ==
    /\ BucketInit => BInv
    /\ BInv /\ [BucketNext]_bucketVars => BInv'
<1>1. BucketInit => BInv
  BY BucketAssumption DEF BucketInit, BInv, BucketTypeOK, Paid
<1>2. BInv /\ [BucketNext]_bucketVars => BInv'
  <2> SUFFICES ASSUME BInv, [BucketNext]_bucketVars PROVE BInv'
    OBVIOUS
  <2>0. BucketTypeOK /\ Paid /\ granted \in Nat
    BY DEF BInv, BucketTypeOK
  <2>1. Refill \in 0 .. Cap /\ Refill <= tokens + (now - last)
    BY <2>0, RefillBounds
  <2>2. CASE Tick
    BY <2>0, <2>2, BucketAssumption DEF Tick, BInv, BucketTypeOK, Paid
  <2>3. CASE AllowTrue
    <3>1. BucketTypeOK'
      BY <2>0, <2>1, <2>3, BucketAssumption DEF AllowTrue, BucketTypeOK
    <3>2. (granted + 1) * Cost = granted * Cost + Cost /\ granted * Cost \in Nat
      BY <2>0, OneMore
    <3>3. CASE now < From
      BY <2>0, <2>3, <3>3, BucketAssumption DEF AllowTrue, BucketTypeOK, Paid, BInv, Refill
    <3>4. CASE now >= From /\ last < From
      <4>1. granted = 0 /\ granted' = 1 /\ granted' * Cost = Cost
        BY <2>0, <2>3, <3>4, BucketAssumption DEF AllowTrue, BucketTypeOK, Paid
      <4>2. granted' * Cost + tokens' <= Cap
        BY <2>0, <2>1, <2>3, <4>1, BucketAssumption DEF AllowTrue
      <4>3. Cap <= Cap + (last' - From) /\ last' >= From
        BY <2>0, <2>3, <3>4, BucketAssumption DEF AllowTrue, BucketTypeOK
      <4>4. /\ tokens' \in Int /\ last' \in Int /\ granted' * Cost \in Int
        BY <3>1, <4>1, BucketAssumption DEF BucketTypeOK
      <4> QED BY <3>1, <4>2, <4>3, <4>4, BucketAssumption DEF BInv, Paid
    <3>5. CASE now >= From /\ last >= From
      <4>1. granted' * Cost = granted * Cost + Cost
        BY <2>3, <3>2, <3>5 DEF AllowTrue
      <4>2. granted * Cost + tokens <= Cap + (last - From)
        BY <2>0, <3>5 DEF Paid
      <4>3. granted' * Cost + tokens' <= Cap + (last' - From)
        BY <2>0, <2>1, <2>3, <3>2, <4>1, <4>2, BucketAssumption
        DEF AllowTrue, BucketTypeOK
      <4>4. last' >= From /\ ~(last' < From)
        BY <2>0, <2>3, <3>5, BucketAssumption DEF AllowTrue, BucketTypeOK
      <4>5. Paid'
        BY <4>3, <4>4 DEF Paid
      <4> QED BY <3>1, <4>5 DEF BInv
    <3> QED BY <2>0, <3>3, <3>4, <3>5, BucketAssumption DEF BucketTypeOK
  <2>4. CASE AllowFalse
    <3>1. BucketTypeOK'
      BY <2>0, <2>1, <2>4, BucketAssumption DEF AllowFalse, BucketTypeOK
    <3>2. granted * Cost \in Nat /\ (granted = 0 => granted * Cost = 0)
      BY <2>0, OneMore
    <3>3. Paid'
      BY <2>0, <2>1, <2>4, <3>2, BucketAssumption DEF AllowFalse, BucketTypeOK, Paid
    <3> QED BY <3>1, <3>3 DEF BInv
  <2>5. CASE UNCHANGED bucketVars
    BY <2>0, <2>5 DEF bucketVars, BInv, BucketTypeOK, Paid
  <2> QED BY <2>2, <2>3, <2>4, <2>5 DEF BucketNext
<1> QED BY <1>1, <1>2

\* newBucket and allow keep the tokens between nothing and a full bucket.
THEOREM BucketTyping == BucketSpec => []BucketTypeOK
<1>1. BInv => BucketTypeOK
  BY DEF BInv
<1> QED BY <1>1, BucketInductive, PTL DEF BucketSpec

\* allow: in the time since any instant the grants cost at most a full bucket
\* and that time, for every capacity and rate.
THEOREM WindowBoundHolds == BucketSpec => []WindowBound
<1>1. BInv => WindowBound
  <2> SUFFICES ASSUME BInv PROVE WindowBound
    OBVIOUS
  <2>1. granted * Cost \in Nat /\ (granted = 0 => granted * Cost = 0)
    BY OneMore DEF BInv, BucketTypeOK
  <2> QED BY <2>1, BucketAssumption DEF BInv, BucketTypeOK, Paid, WindowBound
<1> QED BY <1>1, BucketInductive, PTL DEF BucketSpec

\* allow, which refills only when it is called, cannot be told from a bucket
\* that refills all the time.
THEOREM BucketImplementsLimit == BucketSpec => ImplementsLimit
<1>1. BucketInit => Limit!RateInit
  BY BucketAssumption DEF BucketInit, Limit!RateInit, Refill
<1>2. BucketTypeOK /\ [BucketNext]_bucketVars => [Limit!RateNext]_Refill
  <2> SUFFICES ASSUME BucketTypeOK, [BucketNext]_bucketVars
               PROVE  Limit!RateNext \/ Refill' = Refill
    OBVIOUS
  <2>1. CASE Tick
    BY <2>1, BucketAssumption
    DEF Tick, BucketTypeOK, Refill, Limit!RateNext, Limit!Rise, Limit!Lesser
  <2>2. CASE AllowTrue
    BY <2>2, BucketAssumption
    DEF AllowTrue, BucketTypeOK, Refill, Limit!RateNext, Limit!Grant
  <2>3. CASE AllowFalse
    BY <2>3, BucketAssumption DEF AllowFalse, BucketTypeOK, Refill
  <2>4. CASE UNCHANGED bucketVars
    BY <2>4 DEF bucketVars, Refill
  <2> QED BY <2>1, <2>2, <2>3, <2>4 DEF BucketNext
<1> QED BY <1>1, <1>2, BucketTyping, PTL DEF BucketSpec, ImplementsLimit, Limit!RateSpec
=============================================================================
