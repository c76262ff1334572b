---------------------------- MODULE Monitor_proofs ----------------------------
(***************************************************************************)
(* The live feed and the monitor loop that publishes into it, for any       *)
(* publishers, browsers, events, connections and files: no send on a closed *)
(* channel, one order of events for every browser, and events that add up   *)
(* to what was enumerated.                                                  *)
(***************************************************************************)
EXTENDS Monitor, SequenceTheorems, TLAPS

(* Sequences of events, by what is in them and what is before what *)

Mem(s, e) == \E i \in DOMAIN s : s[i] = e

Ord(s, a, b) == \E i, j \in DOMAIN s : i < j /\ s[i] = a /\ s[j] = b

\* An event appended comes after all of the others.
LEMMA Appended ==
    ASSUME NEW s \in Seq(Events), NEW e \in Events
    PROVE  /\ Append(s, e) \in Seq(Events)
           /\ Len(Append(s, e)) = Len(s) + 1
           /\ \A x : Mem(Append(s, e), x) <=> Mem(s, x) \/ x = e
           /\ \A a, b : Ord(Append(s, e), a, b) <=> Ord(s, a, b) \/ (Mem(s, a) /\ b = e)
<1> DEFINE t == Append(s, e)
           n == Len(s)
<1>1. /\ t \in Seq(Events) /\ n \in Nat /\ Len(t) = n + 1
      /\ DOMAIN s = 1 .. n /\ DOMAIN t = 1 .. n + 1
      /\ \A i \in 1 .. n : t[i] = s[i]
      /\ t[n + 1] = e
  BY AppendProperties, LenProperties
<1>2. 1 .. n + 1 = (1 .. n) \cup {n + 1} /\ \A i \in 1 .. n : i < n + 1 /\ ~(n + 1 < i)
  BY <1>1
<1> HIDE DEF t, n
<1>3. \A x : Mem(t, x) <=> Mem(s, x) \/ x = e
  BY <1>1, <1>2 DEF Mem
<1>4. \A a, b : Ord(t, a, b) <=> Ord(s, a, b) \/ (Mem(s, a) /\ b = e)
  <2> TAKE a, b
  <2>1. Ord(s, a, b) => Ord(t, a, b)
    BY <1>1, <1>2 DEF Ord
  <2>2. Mem(s, a) /\ b = e => Ord(t, a, b)
    BY <1>1, <1>2 DEF Ord, Mem
  <2>3. Ord(t, a, b) => Ord(s, a, b) \/ (Mem(s, a) /\ b = e)
    <3>1. SUFFICES ASSUME NEW i \in 1 .. n + 1, NEW j \in 1 .. n + 1, i < j, t[i] = a, t[j] = b
                   PROVE  Ord(s, a, b) \/ (Mem(s, a) /\ b = e)
      BY <1>1 DEF Ord
    <3>2. i \in 1 .. n
      BY <1>1, <3>1
    <3>3. CASE j = n + 1
      BY <1>1, <3>1, <3>2, <3>3 DEF Mem
    <3>4. CASE j \in 1 .. n
      BY <1>1, <3>1, <3>2, <3>4 DEF Ord
    <3> QED BY <1>2, <3>3, <3>4
  <2> QED BY <2>1, <2>2, <2>3
<1> QED BY <1>1, <1>3, <1>4 DEF t, n

\* The first event comes before the rest.
LEMMA Taken ==
    ASSUME NEW s \in Seq(Events), s # <<>>
    PROVE  /\ Head(s) \in Events
           /\ Tail(s) \in Seq(Events)
           /\ Len(s) \in Nat /\ Len(Tail(s)) = Len(s) - 1
           /\ \A x : Mem(s, x) <=> x = Head(s) \/ Mem(Tail(s), x)
           /\ \A a, b : Ord(Tail(s), a, b) => Ord(s, a, b)
           /\ \A b : Mem(Tail(s), b) => Ord(s, Head(s), b)
<1> DEFINE t == Tail(s)
           n == Len(s)
<1>1. /\ Head(s) \in Events /\ Head(s) = s[1]
      /\ t \in Seq(Events) /\ n \in Nat \ {0} /\ Len(t) = n - 1
      /\ DOMAIN s = 1 .. n /\ DOMAIN t = 1 .. n - 1
      /\ \A i \in 1 .. n - 1 : t[i] = s[i + 1]
  BY HeadTailProperties, LenProperties, EmptySeq
<1>2. /\ \A i \in 1 .. n - 1 : i + 1 \in 1 .. n /\ 1 < i + 1
      /\ \A i \in 1 .. n : i = 1 \/ (i - 1 \in 1 .. n - 1 /\ t[i - 1] = s[i])
      /\ \A i, j \in 1 .. n - 1 : i < j => i + 1 < j + 1
      /\ 1 \in 1 .. n
  BY <1>1
<1> HIDE DEF t, n
<1>3. \A x : Mem(s, x) <=> x = Head(s) \/ Mem(t, x)
  BY <1>1, <1>2 DEF Mem
<1>4. \A a, b : Ord(t, a, b) => Ord(s, a, b)
  <2>1. SUFFICES ASSUME NEW a, NEW b, NEW i \in 1 .. n - 1, NEW j \in 1 .. n - 1,
                        i < j, t[i] = a, t[j] = b
                 PROVE  Ord(s, a, b)
    BY <1>1 DEF Ord
  <2>2. i + 1 \in DOMAIN s /\ j + 1 \in DOMAIN s /\ s[i + 1] = a /\ s[j + 1] = b
    BY <1>1, <1>2, <2>1
  <2>3. i + 1 < j + 1
    BY <1>2, <2>1
  <2> QED BY <2>2, <2>3 DEF Ord
<1>5. \A b : Mem(t, b) => Ord(s, Head(s), b)
  <2>1. SUFFICES ASSUME NEW b, NEW j \in 1 .. n - 1, t[j] = b PROVE Ord(s, Head(s), b)
    BY <1>1 DEF Mem
  <2>2. j + 1 \in DOMAIN s /\ s[j + 1] = b /\ 1 < j + 1 /\ 1 \in DOMAIN s /\ s[1] = Head(s)
    BY <1>1, <1>2, <2>1
  <2> QED BY <2>2 DEF Ord
<1> QED BY <1>1, <1>3, <1>4, <1>5 DEF t, n

\* Nothing is in an empty sequence.
LEMMA None ==
    /\ <<>> \in Seq(Events) /\ Len(<<>>) = 0
    /\ \A x : ~Mem(<<>>, x)
    /\ \A a, b : ~Ord(<<>>, a, b)
BY EmptySeq DEF Mem, Ord

----------------------------------------------------------------------------
(* Types of the feed *)

\* Every step of publish keeps the types.
LEMMA PublishTyped ==
    ASSUME FeedTypeOK, NEW p \in Publishers,
           PublishStep(p) \/ \E e \in Events : BeginPublish(p, e)
    PROVE  FeedTypeOK'
<1> USE NoOneAssumption, ChanAssumption DEF FeedTypeOK, handlerVars
<1>1. ASSUME NEW e \in Events, BeginPublish(p, e) PROVE FeedTypeOK'
  BY <1>1 DEF BeginPublish
<1>2. CASE Log(p)
  <2>1. log' \in Seq(Events) /\ unlogged' \subseteq Events
    <3>1. pev[p] \in Events
      BY <1>2 DEF Log
    <3>2. Append(log, pev[p]) \in Seq(Events)
      BY <3>1, Appended
    <3> QED BY <1>2, <3>1, <3>2 DEF Log
  <2> QED BY <1>2, <2>1 DEF Log
<1>3. CASE Lock(p)
  BY <1>3 DEF Lock
<1>4. ASSUME NEW c \in Clients, SendTo(p, c) PROVE FeedTypeOK'
  <2>1. pev[p] \in Events
    BY <1>4 DEF SendTo
  <2>2. Append(chan[c], pev[p]) \in Seq(Events) /\ Len(Append(chan[c], pev[p])) = Len(chan[c]) + 1
    BY <2>1, Appended
  <2>3. Len(chan[c]) \in Nat
    BY LenProperties
  <2>4. chan' \in [Clients -> Seq(Events)] /\ \A d \in Clients : Len(chan'[d]) <= ChanCap
    <3>1. CASE Len(chan[c]) < ChanCap
      BY <1>4, <3>1, <2>2, <2>3 DEF SendTo, Offer
    <3>2. CASE ~(Len(chan[c]) < ChanCap)
      BY <1>4, <3>2 DEF SendTo, Offer
    <3> QED BY <3>1, <3>2
  <2>5. visit' \in [Publishers -> SUBSET Clients] /\ panicked' \in BOOLEAN
    BY <1>4 DEF SendTo
  <2> QED BY <1>4, <2>4, <2>5 DEF SendTo
<1>5. CASE Unlock(p)
  BY <1>5 DEF Unlock
<1> QED BY <1>1, <1>2, <1>3, <1>4, <1>5 DEF PublishStep

\* So does every step of a handler.
LEMMA HandlerTyped ==
    ASSUME FeedTypeOK, NEW c \in Clients, HandlerStep(c) \/ Subscribe(c) \/ Disconnect(c)
    PROVE  FeedTypeOK'
<1> USE NoOneAssumption, ChanAssumption DEF FeedTypeOK
<1>1. CASE Subscribe(c) \/ Unsubscribe(c)
  <2>1. <<>> \in Seq(Events) /\ Len(<<>>) = 0
    BY None
  <2>2. chan' \in [Clients -> Seq(Events)] /\ \A d \in Clients : Len(chan'[d]) <= ChanCap
    <3>1. chan' = [chan EXCEPT ![c] = <<>>]
      BY <1>1 DEF Subscribe, Unsubscribe
    <3> DEFINE nothing == <<>>
    <3>2. nothing \in Seq(Events) /\ Len(nothing) <= ChanCap /\ chan' = [chan EXCEPT ![c] = nothing]
      BY <2>1, <3>1
    <3> HIDE DEF nothing
    <3> QED BY <3>2
  <2>3. CASE Subscribe(c)
    BY <2>2, <2>3 DEF Subscribe
  <2>4. CASE Unsubscribe(c)
    BY <2>2, <2>4 DEF Unsubscribe
  <2> QED BY <1>1, <2>3, <2>4
<1>2. CASE Receive(c)
  <2>1. /\ Head(chan[c]) \in Events /\ Tail(chan[c]) \in Seq(Events)
        /\ Len(Tail(chan[c])) <= ChanCap
    BY <1>2, Taken DEF Receive
  <2> QED BY <1>2, <2>1 DEF Receive
<1>3. CASE Write(c)
  <2>1. Append(shown[c], hev[c]) \in Seq(Events)
    BY <1>3, Appended DEF Write
  <2>2. shown' \in [Clients -> Seq(Events)]
    BY <1>3, <2>1 DEF Write
  <2> QED BY <1>3, <2>2 DEF Write
<1>4. CASE Done(c) \/ Disconnect(c)
  BY <1>4 DEF Done, Disconnect
<1> QED BY <1>1, <1>2, <1>3, <1>4 DEF HandlerStep

\* And the end of the process.
LEMMA RestartTyped ==
    ASSUME FeedTypeOK, FeedRestart
    PROVE  FeedTypeOK'
BY NoOneAssumption, ChanAssumption, None DEF FeedTypeOK, FeedRestart

\* The types of a feed without subscribers.
LEMMA FeedInitTyped == FeedInit => FeedTypeOK
<1> SUFFICES ASSUME FeedInit PROVE FeedTypeOK
  OBVIOUS
<1> DEFINE nothing == <<>>
<1>1. nothing \in Seq(Events) /\ Len(nothing) <= ChanCap
  BY None, ChanAssumption
<1>2. log = nothing /\ chan = [c \in Clients |-> nothing] /\ shown = [c \in Clients |-> nothing]
  BY DEF FeedInit
<1> HIDE DEF nothing
<1> QED BY <1>1, <1>2, NoOneAssumption DEF FeedTypeOK, FeedInit

\* Every step of the feed keeps its types.
LEMMA FeedTyped == FeedTypeOK /\ [FeedNext]_feedVars => FeedTypeOK'
<1> SUFFICES ASSUME FeedTypeOK, [FeedNext]_feedVars PROVE FeedTypeOK'
  OBVIOUS
<1>1. CASE FeedNext
  BY <1>1, PublishTyped, HandlerTyped, RestartTyped DEF FeedNext
<1>2. CASE UNCHANGED feedVars
  BY <1>2 DEF feedVars, FeedTypeOK
<1> QED BY <1>1, <1>2

----------------------------------------------------------------------------
(* No send on a closed channel *)

\* Whom a publisher has still to visit is registered: nobody registers or leaves while
\* it holds subsMu (publish, subscribe, unsubscribe).
VisitsRegistered == \A p \in Publishers : ppc[p] = "send" => visit[p] \subseteq subs

\* publish holds subsMu while it sends, so no channel it visits is unregistered meanwhile.
LEMMA SafeSends ==
    FeedTypeOK /\ VisitsRegistered /\ NeverSendsOnClosed /\ [FeedNext]_feedVars
        => VisitsRegistered' /\ NeverSendsOnClosed'
<1> SUFFICES ASSUME FeedTypeOK, VisitsRegistered, NeverSendsOnClosed, [FeedNext]_feedVars
             PROVE  VisitsRegistered' /\ NeverSendsOnClosed'
  OBVIOUS
<1> USE NoOneAssumption DEF FeedTypeOK, VisitsRegistered, NeverSendsOnClosed, handlerVars
<1>1. ASSUME NEW p \in Publishers, NEW e \in Events, BeginPublish(p, e)
      PROVE  VisitsRegistered' /\ NeverSendsOnClosed'
  BY <1>1 DEF BeginPublish
<1>2. ASSUME NEW p \in Publishers, PublishStep(p)
      PROVE  VisitsRegistered' /\ NeverSendsOnClosed'
  <2>1. CASE Log(p)
    BY <2>1 DEF Log
  <2>4. CASE Unlock(p)
    BY <2>4 DEF Unlock
  <2>3. CASE Lock(p)
    BY <2>3 DEF Lock
  <2>2. ASSUME NEW c \in Clients, SendTo(p, c) PROVE VisitsRegistered' /\ NeverSendsOnClosed'
    <3>1. c \in subs
      BY <2>2 DEF SendTo
    <3>2. panicked' = FALSE
      BY <2>2, <3>1 DEF SendTo
    <3> QED BY <2>2, <3>2 DEF SendTo
  <2> QED BY <1>2, <2>1, <2>2, <2>3, <2>4 DEF PublishStep
<1>3. ASSUME NEW c \in Clients, HandlerStep(c) \/ Subscribe(c) \/ Disconnect(c)
      PROVE  VisitsRegistered' /\ NeverSendsOnClosed'
  <2>1. CASE Subscribe(c) \/ Unsubscribe(c)
    BY <2>1 DEF Subscribe, Unsubscribe
  <2>2. CASE Receive(c) \/ Write(c) \/ Done(c) \/ Disconnect(c)
    BY <2>2 DEF Receive, Write, Done, Disconnect
  <2> QED BY <1>3, <2>1, <2>2 DEF HandlerStep
<1>4. CASE FeedRestart
  BY <1>4 DEF FeedRestart
<1>5. CASE UNCHANGED feedVars
  BY <1>5 DEF feedVars
<1> QED BY <1>1, <1>2, <1>3, <1>4, <1>5 DEF FeedNext

\* publish never sends on a channel that unsubscribe has closed, however many publishers
\* and browsers come and go (publish, subscribe, unsubscribe under subsMu).
THEOREM FeedNeverSendsOnClosed == FeedSpec => []NeverSendsOnClosed
<1>1. FeedInit => VisitsRegistered /\ NeverSendsOnClosed
  BY DEF FeedInit, VisitsRegistered, NeverSendsOnClosed
<1> QED BY <1>1, FeedInitTyped, FeedTyped, SafeSends, PTL DEF FeedSpec

----------------------------------------------------------------------------
(* One order for all *)

\* The stream of a client: what it has received, what is being written to it and what
\* waits in its channel, in this order.
Writing(c, e) == hpc[c] = "write" /\ hev[c] = e

In(c, e) == Mem(shown[c], e) \/ Writing(c, e) \/ Mem(chan[c], e)

Before(c, a, b) ==
    \/ Ord(shown[c], a, b)
    \/ Mem(shown[c], a) /\ (Writing(c, b) \/ Mem(chan[c], b))
    \/ Writing(c, a) /\ Mem(chan[c], b)
    \/ Ord(chan[c], a, b)

\* Events that have an order in a stream are in it.
LEMMA BeforeIn ==
    ASSUME NEW c, NEW a, NEW b, Before(c, a, b)
    PROVE  In(c, a) /\ In(c, b)
BY DEF Before, In, Ord, Mem

\* A step that gives no client anything new may take from a stream, and changes no order.
Loses ==
    \A c \in Clients :
        /\ \A e : In(c, e)' => In(c, e)
        /\ \A a, b : Before(c, a, b)' => Before(c, a, b)

\* A step that leaves channels and browsers alone adds nothing to a stream.
LEMMA SameStreams ==
    ASSUME UNCHANGED <<shown, hpc, hev, chan>>
    PROVE  Loses
BY DEF Loses, In, Before, Writing, Mem, Ord

\* What a handler does to its stream: it takes from its channel, hands on or gives up.
LEMMA HandlerLoses ==
    ASSUME FeedTypeOK, NEW c \in Clients, HandlerStep(c) \/ Subscribe(c) \/ Disconnect(c)
    PROVE  Loses
<1> SUFFICES ASSUME NEW d \in Clients
             PROVE  /\ \A e : In(d, e)' => In(d, e)
                    /\ \A a, b : Before(d, a, b)' => Before(d, a, b)
  BY DEF Loses
<1>1. CASE Subscribe(c) \/ Unsubscribe(c)
  <2>1. /\ shown'[d] = shown[d]
        /\ hpc'[d] = "write" => hpc[d] = "write" /\ hev'[d] = hev[d]
        /\ chan'[d] = chan[d] \/ chan'[d] = <<>>
    BY <1>1 DEF FeedTypeOK, Subscribe, Unsubscribe
  <2>2. \A e : /\ (Mem(shown[d], e))' <=> Mem(shown[d], e)
               /\ Writing(d, e)' => Writing(d, e)
               /\ (Mem(chan[d], e))' => Mem(chan[d], e)
    BY <2>1, None DEF Writing, Mem
  <2>3. \A a, b : /\ (Ord(shown[d], a, b))' <=> Ord(shown[d], a, b)
                  /\ (Ord(chan[d], a, b))' => Ord(chan[d], a, b)
    BY <2>1, None DEF Ord
  <2> QED BY <2>2, <2>3 DEF In, Before
<1>2. CASE Receive(c)
  <2>1. CASE d = c
    <3>1. /\ shown'[c] = shown[c] /\ hpc[c] = "wait" /\ hpc'[c] = "write"
          /\ chan[c] \in Seq(Events) /\ chan[c] # <<>>
          /\ hev'[c] = Head(chan[c]) /\ chan'[c] = Tail(chan[c])
      BY <1>2 DEF FeedTypeOK, Receive
    <3>2. \A e : /\ (Mem(shown[c], e))' <=> Mem(shown[c], e)
                 /\ Writing(c, e)' => e = Head(chan[c])
                 /\ e = Head(chan[c]) => Mem(chan[c], e)
                 /\ (Mem(chan[c], e))' => Mem(chan[c], e) /\ Ord(chan[c], Head(chan[c]), e)
      <4>1. \A e : (Mem(shown[c], e))' <=> Mem(shown[c], e)
        BY <3>1 DEF Mem
      <4>2. \A e : Writing(c, e)' => e = Head(chan[c])
        BY <3>1 DEF Writing
      <4>4. \A e : (Mem(chan[c], e))' <=> Mem(Tail(chan[c]), e)
        BY <3>1 DEF Mem
      <4>5. \A e : /\ e = Head(chan[c]) => Mem(chan[c], e)
                   /\ Mem(Tail(chan[c]), e) => Mem(chan[c], e) /\ Ord(chan[c], Head(chan[c]), e)
        BY <3>1, Taken
      <4> QED BY <4>1, <4>2, <4>4, <4>5
    <3>3. \A a, b : /\ (Ord(shown[c], a, b))' <=> Ord(shown[c], a, b)
                    /\ (Ord(chan[c], a, b))' => Ord(chan[c], a, b)
      BY <3>1, Taken DEF Ord
    <3> QED BY <2>1, <3>2, <3>3 DEF In, Before
  <2>2. CASE d # c
    <3>1. shown'[d] = shown[d] /\ hpc'[d] = hpc[d] /\ hev'[d] = hev[d] /\ chan'[d] = chan[d]
      BY <1>2, <2>2 DEF FeedTypeOK, Receive
    <3> QED BY <3>1 DEF In, Before, Writing, Mem, Ord
  <2> QED BY <2>1, <2>2
<1>3. CASE Write(c)
  <2>1. CASE d = c
    <3>1. /\ chan'[c] = chan[c] /\ hpc[c] = "write" /\ hpc'[c] = "wait"
          /\ shown[c] \in Seq(Events) /\ hev[c] \in Events
          /\ shown'[c] = shown[c] \/ shown'[c] = Append(shown[c], hev[c])
      BY <1>3 DEF FeedTypeOK, Write
    <3>2. \A e : /\ (Mem(shown[c], e))' => Mem(shown[c], e) \/ e = hev[c]
                 /\ ~(Writing(c, e)')
                 /\ e = hev[c] => Writing(c, e)
                 /\ (Mem(chan[c], e))' <=> Mem(chan[c], e)
      BY <3>1, Appended DEF Writing, Mem
    <3>3. \A a, b : /\ (Ord(shown[c], a, b))' => Ord(shown[c], a, b) \/ (Mem(shown[c], a) /\ b = hev[c])
                    /\ (Ord(chan[c], a, b))' <=> Ord(chan[c], a, b)
      <4>1. \A a, b : Ord(Append(shown[c], hev[c]), a, b)
                        <=> Ord(shown[c], a, b) \/ (Mem(shown[c], a) /\ b = hev[c])
        BY <3>1, Appended
      <4> QED BY <3>1, <4>1
    <3> QED BY <2>1, <3>2, <3>3 DEF In, Before
  <2>2. CASE d # c
    <3>1. shown'[d] = shown[d] /\ hpc'[d] = hpc[d] /\ hev'[d] = hev[d] /\ chan'[d] = chan[d]
      BY <1>3, <2>2 DEF FeedTypeOK, Write
    <3> QED BY <3>1 DEF In, Before, Writing, Mem, Ord
  <2> QED BY <2>1, <2>2
<1>4. CASE Done(c)
  <2>1. /\ shown' = shown /\ hev' = hev /\ chan' = chan
        /\ hpc'[d] = "write" => hpc[d] = "write"
    BY <1>4 DEF FeedTypeOK, Done
  <2> QED BY <2>1 DEF In, Before, Writing, Mem, Ord
<1>5. CASE Disconnect(c)
  BY <1>5, SameStreams DEF Disconnect, Loses
<1> QED BY <1>1, <1>2, <1>3, <1>4, <1>5 DEF HandlerStep

\* The end of the process empties the channels and shows nothing.
LEMMA RestartLoses ==
    ASSUME FeedTypeOK, FeedRestart
    PROVE  Loses
<1> SUFFICES ASSUME NEW d \in Clients
             PROVE  /\ \A e : In(d, e)' => In(d, e)
                    /\ \A a, b : Before(d, a, b)' => Before(d, a, b)
  BY DEF Loses
<1>1. shown' = shown /\ hpc'[d] = "away" /\ chan'[d] = <<>>
  BY DEF FeedRestart
<1>2. \A e : /\ (Mem(shown[d], e))' <=> Mem(shown[d], e)
             /\ ~(Writing(d, e)') /\ ~((Mem(chan[d], e))')
  BY <1>1, None DEF Writing, Mem
<1>3. \A a, b : /\ (Ord(shown[d], a, b))' <=> Ord(shown[d], a, b)
                /\ ~((Ord(chan[d], a, b))')
  BY <1>1, None DEF Ord
<1> QED BY <1>2, <1>3 DEF In, Before

\* A send puts the event at the end of one stream, or passes it over.
LEMMA SendAdds ==
    ASSUME FeedTypeOK, NEW p \in Publishers, NEW c \in Clients, SendTo(p, c),
           NEW d \in Clients
    PROVE  /\ \A e : In(d, e)' => In(d, e) \/ (d = c /\ e = pev[p])
           /\ \A a, b : Before(d, a, b)' => Before(d, a, b) \/ (d = c /\ b = pev[p] /\ In(c, a))
<1>1. /\ shown' = shown /\ hpc' = hpc /\ hev' = hev
      /\ pev[p] \in Events /\ chan[c] \in Seq(Events)
      /\ chan'[d] = chan[d] \/ (d = c /\ chan'[d] = Append(chan[c], pev[p]))
  BY DEF FeedTypeOK, SendTo, Offer, handlerVars
<1>2. CASE chan'[d] = chan[d]
  BY <1>1, <1>2 DEF In, Before, Writing, Mem, Ord
<1>3. CASE d = c /\ chan'[d] = Append(chan[c], pev[p])
  <2>1. \A e : /\ (Mem(shown[c], e))' <=> Mem(shown[c], e)
               /\ Writing(c, e)' <=> Writing(c, e)
               /\ (Mem(chan[c], e))' <=> Mem(chan[c], e) \/ e = pev[p]
    BY <1>1, <1>3, Appended DEF Writing, Mem
  <2>2. \A a, b : /\ (Ord(shown[c], a, b))' <=> Ord(shown[c], a, b)
                  /\ (Ord(chan[c], a, b))' <=> Ord(chan[c], a, b) \/ (Mem(chan[c], a) /\ b = pev[p])
    BY <1>1, <1>3, Appended
  <2> QED BY <1>3, <2>1, <2>2 DEF In, Before
<1> QED BY <1>1, <1>2, <1>3

\* The timeline has the event, or its INSERT failed.
OnRecord(e) == e \in Range(log) \cup unlogged

\* What is in a stream, and what is about to be sent, is on record.
SentIsLogged ==
    /\ \A c \in Clients, e \in Events : In(c, e) => OnRecord(e)
    /\ \A p \in Publishers : ppc[p] \in {"lock", "send"} => OnRecord(pev[p])

\* Publishers have events of their own, which are not on record before logEvent.
OwnEvents ==
    /\ \A p \in Publishers : ppc[p] = "log" => ~OnRecord(pev[p])
    /\ \A p \in Publishers : ppc[p] = "idle" => pev[p] = NoEvent
    /\ \A p, q \in Publishers : ppc[p] # "idle" /\ pev[p] = pev[q] => p = q

\* An event is in no stream before its publisher has come by, and while it is being
\* offered, it is the last of every stream that has it.
SentAtTheEnd ==
    /\ \A p \in Publishers, c \in Clients :
          In(c, pev[p]) => ppc[p] \notin {"log", "lock"} /\ c \notin (IF ppc[p] = "send" THEN visit[p] ELSE {})
    /\ \A p \in Publishers, c \in Clients, b \in Events : ppc[p] = "send" => ~Before(c, pev[p], b)

\* No two streams disagree, nor does one with itself.
OneOrder ==
    \A c, d \in Clients, a, b \in Events : ~(Before(c, a, b) /\ Before(d, b, a))

FInv == FeedTypeOK /\ SentIsLogged /\ OwnEvents /\ SentAtTheEnd /\ OneOrder

\* The streams are made of events.
LEMMA InEvents ==
    ASSUME FeedTypeOK, NEW c \in Clients, NEW e, In(c, e)
    PROVE  e \in Events
<1>1. CASE Mem(shown[c], e)
  BY <1>1, LenProperties, ElementOfSeq DEF FeedTypeOK, Mem
<1>2. CASE Writing(c, e)
  BY <1>2 DEF FeedTypeOK, Writing
<1>3. CASE Mem(chan[c], e)
  BY <1>3, LenProperties, ElementOfSeq DEF FeedTypeOK, Mem
<1> QED BY <1>1, <1>2, <1>3 DEF In

\* Nothing is in a stream at first.
LEMMA FeedInitInv == FeedInit => FInv
<1> SUFFICES ASSUME FeedInit PROVE FInv
  OBVIOUS
<1>1. \A c \in Clients : \A e : ~In(c, e)
  BY None DEF FeedInit, In, Writing
<1>2. \A c \in Clients : \A a, b : ~Before(c, a, b)
  BY <1>1, BeforeIn
<1>3. SentIsLogged /\ SentAtTheEnd /\ OneOrder
  BY <1>1, <1>2 DEF SentIsLogged, SentAtTheEnd, OneOrder, FeedInit
<1>4. OwnEvents
  BY DEF OwnEvents, FeedInit
<1> QED BY <1>3, <1>4, FeedInitTyped DEF FInv

\* A step that leaves the publishers alone and gives no client anything keeps the
\* order.
LEMMA LosingKeeps ==
    ASSUME FInv, Loses, UNCHANGED <<log, unlogged, ppc, pev, visit>>
    PROVE  SentIsLogged' /\ OwnEvents' /\ SentAtTheEnd' /\ OneOrder'
<1>1. \A e : OnRecord(e)' <=> OnRecord(e)
  BY DEF OnRecord
<1>2. SentIsLogged'
  BY <1>1 DEF FInv, SentIsLogged, Loses
<1>3. OwnEvents'
  BY <1>1 DEF FInv, OwnEvents
<1>4. SentAtTheEnd'
  BY DEF FInv, SentAtTheEnd, Loses
<1>5. OneOrder'
  BY DEF FInv, OneOrder, Loses
<1> QED BY <1>2, <1>3, <1>4, <1>5

\* A new event is in no stream and at no other publisher.
LEMMA BeginKeeps ==
    ASSUME FInv, NEW p \in Publishers, NEW e \in Events, Fresh(e), BeginPublish(p, e)
    PROVE  SentIsLogged' /\ OwnEvents' /\ SentAtTheEnd' /\ OneOrder'
<1>1. Loses
  BY SameStreams DEF BeginPublish, handlerVars
<1>2. \A x : OnRecord(x)' <=> OnRecord(x)
  BY DEF OnRecord, BeginPublish
<1>3. /\ ppc[p] = "idle" /\ ppc'[p] = "log" /\ pev'[p] = e /\ ~OnRecord(e)
      /\ \A q \in Publishers : pev[q] # e
      /\ \A q \in Publishers \ {p} : ppc'[q] = ppc[q] /\ pev'[q] = pev[q]
      /\ visit' = visit
  BY DEF FInv, FeedTypeOK, BeginPublish, Fresh, OnRecord
<1>4. SentIsLogged'
  BY <1>1, <1>2, <1>3 DEF FInv, SentIsLogged, Loses
<1>5. OwnEvents'
  BY <1>2, <1>3 DEF FInv, OwnEvents
<1>6. \A c \in Clients : ~In(c, e)
  BY <1>3 DEF FInv, SentIsLogged
<1>7. SentAtTheEnd'
  BY <1>1, <1>3, <1>6 DEF FInv, SentAtTheEnd, Loses
<1>8. OneOrder'
  BY <1>1 DEF FInv, OneOrder, Loses
<1> QED BY <1>4, <1>5, <1>7, <1>8

\* logEvent puts the event on record, or tells of its failure.
LEMMA LogKeeps ==
    ASSUME FInv, NEW p \in Publishers, Log(p)
    PROVE  SentIsLogged' /\ OwnEvents' /\ SentAtTheEnd' /\ OneOrder'
<1>1. Loses
  BY SameStreams DEF Log, handlerVars
<1>2. pev[p] \in Events /\ log \in Seq(Events)
  BY DEF FInv, FeedTypeOK, Log
<1>3. \A x : OnRecord(x)' <=> OnRecord(x) \/ x = pev[p]
  <2>1. \A s : \A x : x \in Range(s) <=> Mem(s, x)
    BY DEF Range, Mem
  <2>2. CASE log' = Append(log, pev[p]) /\ UNCHANGED unlogged
    <3>1. \A x : Mem(log', x) <=> Mem(log, x) \/ x = pev[p]
      BY <1>2, <2>2, Appended
    <3>2. \A x : x \in Range(log') <=> x \in Range(log) \/ x = pev[p]
      BY <2>1, <3>1
    <3> QED BY <2>2, <3>2 DEF OnRecord
  <2>3. CASE unlogged' = unlogged \cup {pev[p]} /\ UNCHANGED log
    BY <2>3 DEF OnRecord
  <2> QED BY <2>2, <2>3 DEF Log
<1>4. /\ ppc[p] = "log" /\ ppc'[p] = "lock" /\ pev' = pev /\ visit' = visit
      /\ \A q \in Publishers \ {p} : ppc'[q] = ppc[q]
  BY DEF FInv, FeedTypeOK, Log
<1>5. SentIsLogged'
  BY <1>1, <1>3, <1>4 DEF FInv, SentIsLogged, Loses
<1>6. OwnEvents'
  BY <1>3, <1>4 DEF FInv, OwnEvents
<1>7. SentAtTheEnd'
  BY <1>1, <1>4 DEF FInv, SentAtTheEnd, Loses
<1>8. OneOrder'
  BY <1>1 DEF FInv, OneOrder, Loses
<1> QED BY <1>5, <1>6, <1>7, <1>8

\* Whoever gets subsMu has its event still to send, to all.
LEMMA LockKeeps ==
    ASSUME FInv, NEW p \in Publishers, Lock(p)
    PROVE  SentIsLogged' /\ OwnEvents' /\ SentAtTheEnd' /\ OneOrder'
<1>1. Loses
  BY SameStreams DEF Lock, handlerVars
<1>2. \A x : OnRecord(x)' <=> OnRecord(x)
  BY DEF OnRecord, Lock
<1>3. /\ ppc[p] = "lock" /\ ppc'[p] = "send" /\ pev' = pev
      /\ \A q \in Publishers \ {p} : ppc'[q] = ppc[q] /\ visit'[q] = visit[q]
  BY DEF FInv, FeedTypeOK, Lock
<1>4. SentIsLogged'
  BY <1>1, <1>2, <1>3 DEF FInv, SentIsLogged, Loses
<1>5. OwnEvents'
  BY <1>2, <1>3 DEF FInv, OwnEvents
<1>6. \A c \in Clients : ~In(c, pev[p]) /\ \A b : ~Before(c, pev[p], b)
  BY <1>3, BeforeIn DEF FInv, SentAtTheEnd
<1>7. SentAtTheEnd'
  BY <1>1, <1>3, <1>6 DEF FInv, SentAtTheEnd, Loses
<1>8. OneOrder'
  BY <1>1 DEF FInv, OneOrder, Loses
<1> QED BY <1>4, <1>5, <1>7, <1>8

\* One send: the event becomes the last of a stream it was not in, as it is the last of
\* all that have it.
LEMMA SendKeepsOrder ==
    ASSUME FInv, NEW p \in Publishers, NEW c \in Clients, SendTo(p, c)
    PROVE  SentIsLogged' /\ OwnEvents' /\ SentAtTheEnd' /\ OneOrder'
<1> DEFINE e == pev[p]
<1>1. /\ \A x : OnRecord(x)' <=> OnRecord(x)
      /\ ppc' = ppc /\ pev' = pev /\ visit'[p] = visit[p] \ {c}
      /\ \A q \in Publishers \ {p} : visit'[q] = visit[q]
      /\ ppc[p] = "send" /\ c \in visit[p] /\ e \in Events
  BY DEF FInv, FeedTypeOK, OnRecord, SendTo
<1>2. \A d \in Clients : \A x : In(d, x)' => In(d, x) \/ (d = c /\ x = e)
  BY SendAdds DEF FInv
<1>3. \A d \in Clients : \A a, b : Before(d, a, b)' =>
          Before(d, a, b) \/ (d = c /\ b = e /\ In(c, a))
  BY SendAdds DEF FInv
<1>4. ~In(c, e) /\ \A d \in Clients, b \in Events : ~Before(d, e, b)
  BY <1>1 DEF FInv, SentAtTheEnd
<1>5. \A q \in Publishers : pev[q] = e => q = p
  BY <1>1 DEF FInv, OwnEvents
<1>6. \A q \in Publishers : ppc[q] = "send" => q = p
  BY <1>1 DEF FInv, FeedTypeOK
<1>7. SentIsLogged'
  <2>1. OnRecord(e)
    BY <1>1 DEF FInv, SentIsLogged
  <2> QED BY <1>1, <1>2, <2>1 DEF FInv, SentIsLogged
<1>8. OwnEvents'
  BY <1>1 DEF FInv, OwnEvents
<1> HIDE DEF e
<1>9. SentAtTheEnd'
  <2>1. ASSUME NEW q \in Publishers, NEW d \in Clients, In(d, pev[q])'
        PROVE  ppc'[q] \notin {"log", "lock"} /\ (ppc'[q] = "send" => d \notin visit'[q])
    <3>1. In(d, pev[q]) \/ (d = c /\ pev[q] = e)
      BY <1>1, <1>2, <2>1
    <3>2. CASE In(d, pev[q])
      BY <1>1, <1>6, <3>2 DEF FInv, SentAtTheEnd
    <3>3. CASE d = c /\ pev[q] = e
      BY <1>1, <1>5, <3>3
    <3> QED BY <3>1, <3>2, <3>3
  <2>2. ASSUME NEW q \in Publishers, NEW d \in Clients, NEW b \in Events, ppc'[q] = "send"
        PROVE  ~Before(d, pev[q], b)'
    <3>1. q = p
      BY <1>1, <1>6, <2>2
    <3>2. pev'[q] = e
      BY <1>1, <3>1 DEF e
    <3> QED BY <1>3, <1>4, <3>1, <3>2
  <2> QED BY <2>1, <2>2 DEF SentAtTheEnd
<1>10. OneOrder'
  <2>1. SUFFICES ASSUME NEW d \in Clients, NEW f \in Clients, NEW a \in Events, NEW b \in Events,
                        Before(d, a, b)', Before(f, b, a)'
                 PROVE  FALSE
    BY DEF OneOrder
  <2>2. Before(d, a, b) \/ (d = c /\ b = e /\ In(c, a))
    BY <1>3, <2>1
  <2>3. Before(f, b, a) \/ (f = c /\ a = e /\ In(c, b))
    BY <1>3, <2>1
  <2>4. CASE Before(d, a, b) /\ Before(f, b, a)
    BY <2>4 DEF FInv, OneOrder
  <2>5. CASE b = e /\ In(c, a)
    BY <1>4, <2>3, <2>5
  <2>6. CASE a = e /\ In(c, b)
    BY <1>4, <2>2, <2>6
  <2> QED BY <2>2, <2>3, <2>4, <2>5, <2>6
<1> QED BY <1>7, <1>8, <1>9, <1>10

\* Whoever lets go of subsMu is done with its event, and so is a process that ends.
LEMMA LettingGoKeeps ==
    ASSUME FInv, (\E p \in Publishers : Unlock(p)) \/ FeedRestart
    PROVE  SentIsLogged' /\ OwnEvents' /\ SentAtTheEnd' /\ OneOrder'
<1>1. Loses
  BY SameStreams, RestartLoses DEF Unlock, handlerVars, FInv
<1>2. \A x : OnRecord(x)' <=> OnRecord(x)
  BY DEF OnRecord, Unlock, FeedRestart
<1>3. \A q \in Publishers :
          \/ ppc'[q] = "idle" /\ pev'[q] = NoEvent
          \/ ppc'[q] = ppc[q] /\ pev'[q] = pev[q] /\ visit'[q] = visit[q]
  <2>1. ASSUME NEW p \in Publishers, Unlock(p), NEW q \in Publishers
        PROVE  \/ ppc'[q] = "idle" /\ pev'[q] = NoEvent
               \/ ppc'[q] = ppc[q] /\ pev'[q] = pev[q] /\ visit'[q] = visit[q]
    BY <2>1 DEF FInv, FeedTypeOK, Unlock
  <2>2. CASE FeedRestart
    <3>1. \A q \in Publishers : ppc'[q] = "idle" /\ pev'[q] = NoEvent
      BY <2>2 DEF FeedRestart
    <3> QED BY <3>1
  <2> QED BY <2>1, <2>2
<1>4. SentIsLogged'
  BY <1>1, <1>2, <1>3 DEF FInv, SentIsLogged, Loses
<1>5. OwnEvents'
  <2>1. \A q \in Publishers : ppc[q] # "idle" => pev[q] # NoEvent
    BY NoOneAssumption DEF FInv, FeedTypeOK
  <2> QED BY <1>2, <1>3, <2>1 DEF FInv, OwnEvents
<1>6. \A c \in Clients : ~In(c, NoEvent)
  BY InEvents, NoOneAssumption DEF FInv
<1>7. SentAtTheEnd'
  BY <1>1, <1>3, <1>6 DEF FInv, SentAtTheEnd, Loses
<1>8. OneOrder'
  BY <1>1 DEF FInv, OneOrder, Loses
<1> QED BY <1>4, <1>5, <1>7, <1>8

\* Every step of publishers, handlers and restarts keeps the order of the streams.
LEMMA FeedStepInv == FInv /\ [FeedNext]_feedVars => FInv'
<1> SUFFICES ASSUME FInv, [FeedNext]_feedVars PROVE FInv'
  OBVIOUS
<1>1. FeedTypeOK'
  BY FeedTyped DEF FInv
<1>2. SentIsLogged' /\ OwnEvents' /\ SentAtTheEnd' /\ OneOrder'
  <2>1. ASSUME NEW p \in Publishers, PublishStep(p)
        PROVE  SentIsLogged' /\ OwnEvents' /\ SentAtTheEnd' /\ OneOrder'
    BY <2>1, LogKeeps, LockKeeps, SendKeepsOrder, LettingGoKeeps DEF PublishStep
  <2>2. ASSUME NEW c \in Clients, HandlerStep(c) \/ Subscribe(c) \/ Disconnect(c)
        PROVE  SentIsLogged' /\ OwnEvents' /\ SentAtTheEnd' /\ OneOrder'
    <3>1. Loses
      BY <2>2, HandlerLoses DEF FInv
    <3>2. UNCHANGED <<log, unlogged, ppc, pev, visit>>
      BY <2>2 DEF HandlerStep, Subscribe, Receive, Write, Done, Unsubscribe, Disconnect
    <3> QED BY <3>1, <3>2, LosingKeeps
  <2>3. CASE UNCHANGED feedVars
    BY <2>3, SameStreams, LosingKeeps DEF feedVars
  <2> QED BY <2>1, <2>2, <2>3, BeginKeeps, LettingGoKeeps DEF FeedNext
<1> QED BY <1>1, <1>2 DEF FInv

\* The feed of every browser is a part of the timeline but for failed INSERTs, and any
\* two of them agree on the order of what they both show (publish: logEvent first, all
\* sends under one hold of subsMu), for any publishers, browsers and channels.
THEOREM FeedSafety == FeedSpec => []FeedInv
<1>1. FInv => FeedInv
  <2> SUFFICES ASSUME FInv PROVE FeedInv
    OBVIOUS
  <2>1. ShownWasLogged
    <3>1. SUFFICES ASSUME NEW c \in Clients, NEW e \in Range(shown[c]) PROVE OnRecord(e)
      BY DEF ShownWasLogged, OnRecord
    <3>2. In(c, e)
      BY DEF In, Mem, Range
    <3> QED BY <3>2, InEvents DEF FInv, SentIsLogged
  <2>2. SameOrder
    <3>1. SUFFICES ASSUME NEW c \in Clients, NEW d \in Clients,
                          NEW i \in DOMAIN shown[c], NEW j \in DOMAIN shown[c],
                          NEW k \in DOMAIN shown[d], NEW l \in DOMAIN shown[d],
                          i < j, shown[c][i] = shown[d][k], shown[c][j] = shown[d][l]
                   PROVE  k < l
      BY DEF SameOrder
    <3> DEFINE a == shown[c][i]
               b == shown[c][j]
    <3>2. Before(c, a, b) /\ a \in Events /\ b \in Events
      BY <3>1, BeforeIn, InEvents DEF Before, Ord, FInv
    <3>3. ~Before(d, b, a)
      BY <3>2 DEF FInv, OneOrder
    <3>4. ~(l < k)
      BY <3>1, <3>3 DEF Before, Ord
    <3>5. k # l
      BY <3>1, <3>2 DEF FInv, OneOrder
    <3>6. k \in Nat /\ l \in Nat
      BY LenProperties DEF FInv, FeedTypeOK
    <3> QED BY <3>4, <3>5, <3>6
  <2> QED BY <2>1, <2>2 DEF FInv, FeedInv
<1> QED BY <1>1, FeedInitInv, FeedStepInv, PTL DEF FeedSpec

----------------------------------------------------------------------------
(* The monitor loop *)

\* In every part of a round the events so far add up to what has been compared so far.
FeedAddsUp ==
    /\ mpc = "first" => feed = {} /\ prev = {}
    /\ mpc \in {"seed", "sleep"} => feed = prev
    /\ mpc \in {"new", "spawn"} => todo \subseteq snap \ prev /\ feed = (prev \cup snap) \ todo
    /\ mpc = "closed" => todo \subseteq prev \ snap /\ feed = snap \cup todo

\* What has been open since it was told is told still, and in the enumeration at hand.
SteadyStays ==
    /\ steady \subseteq feed
    /\ mpc \in {"new", "spawn", "closed"} => steady \cap (prev \ snap) = {}

\* An anomaly has its row, unless a statement on it failed.
RaisedIsKept ==
    \A i \in DOMAIN raised : raised[i] \in rows \cup faulted

\* The event of a new connection is on record, or its INSERT failed.
Told(k) ==
    \/ \E j \in DOMAIN log : log[j].kind = "open" /\ log[j].conn = k
    \/ \E e \in unlogged : e.kind = "open" /\ e.conn = k

\* A connection is told before anybody looks into it.
AlertsAreTold ==
    /\ \A t \in Alerts : task[t] # NoConn => Told(task[t])
    /\ mpc = "spawn" => \/ ppc[Loop] = "log" /\ pev[Loop].kind = "open" /\ pev[Loop].conn = cur
                        \/ ppc[Loop] # "log" /\ Told(cur)
    /\ \A p \in Publishers : ppc[p] = "log" /\ pev[p].kind = "intel" => Told(pev[p].conn)

MInv ==
    /\ MonitorTypeOK
    /\ FeedAddsUp /\ SteadyStays
    /\ RaisedIsKept /\ OncePerContent
    /\ AlertsAreTold /\ IntelFollowsNews

(* Types *)

Anomalies == Exes \X Hashes

\* The two INSERTs add a row and a path, or fail.
LEMMA Recorded ==
    ASSUME rows \subseteq Exes \X Hashes, faulted \subseteq Exes \X Hashes, paths \subseteq Exes,
           NEW e \in Exes, NEW h \in Hashes,
           (\E w \in Judgements : baselineSeen(e, h, w)) \/ UNCHANGED <<rows, paths, faulted>>
    PROVE  /\ rows' \subseteq Exes \X Hashes /\ faulted' \subseteq Exes \X Hashes
           /\ paths' \subseteq Exes
           /\ rows \subseteq rows' /\ faulted \subseteq faulted'
BY DEF baselineSeen, Record

\* Nor does a verdict that is one come without its row.
LEMMA NewIsRecorded ==
    ASSUME NEW e \in Exes, NEW h \in Hashes, NEW v \in Judgements \ {"seen"}, baselineSeen(e, h, v)
    PROVE  /\ <<e, h>> \in rows => <<e, h>> \in faulted'
           /\ <<e, h>> \in rows' \cup faulted'
BY DEF baselineSeen, Record, Verdict

\* What the loop and the alerts publish are events.
LEMMA AreEvents ==
    ASSUME NEW k \in Conns
    PROVE  /\ \A v \in Judgements : /\ OpenEvent(k, v) \in Events
                                   /\ OpenEvent(k, v).kind = "open" /\ OpenEvent(k, v).conn = k
           /\ ClosedEvent(k) \in Events /\ IntelEvent(k) \in Events
           /\ ClosedEvent(k).kind = "closed" /\ ClosedEvent(k).conn = k
           /\ IntelEvent(k).kind = "intel" /\ IntelEvent(k).conn = k
BY EventsAssumption DEF MonitorEvents, Judgements, OpenEvent, ClosedEvent, IntelEvent

\* What leaves the feed alone leaves its types alone.
LEMMA FeedRests == FeedTypeOK /\ UNCHANGED feedVars => FeedTypeOK'
BY DEF FeedTypeOK, feedVars

\* What Announce does beyond the feed, whichever of its two ways it takes.
LEMMA Announced ==
    ASSUME MonitorTypeOK, NEW k \in Conns, Announce(k)
    PROVE  \E v \in Judgements :
               LET e == ExeOf[k]  h == content[ExeOf[k]] IN
               /\ e \in Exes /\ h \in Hashes
               /\ BeginPublish(Loop, OpenEvent(k, v))
               /\ (\E w \in Judgements : baselineSeen(e, h, w)) \/ UNCHANGED <<rows, paths, faulted>>
               /\ \/ raised' = raised
                  \/ /\ baselineSeen(e, h, v) /\ v # "seen"
                     /\ raised' = Append(raised, <<e, h>>)
<1>1. ExeOf[k] \in Exes /\ content[ExeOf[k]] \in Hashes
  BY ConnAssumption DEF MonitorTypeOK
<1>2. "seen" \in Judgements
  BY DEF Judgements
<1> QED BY <1>1, <1>2 DEF Announce, baseline

\* The polling loop keeps the types.
LEMMA LoopTyped ==
    ASSUME MonitorTypeOK, LoopStep
    PROVE  MonitorTypeOK'
<1> USE DEF MonitorTypeOK
<1>0. Loop \in Publishers /\ NoConn \notin Conns
  BY LoopAssumption, ConnAssumption
<1>1. CASE FirstSnapshot \/ Seeded \/ Snapshot \/ NoSpawn \/ AllNew \/ RoundDone
  <2>1. FeedTypeOK'
    BY <1>1, FeedRests DEF FirstSnapshot, Seeded, Snapshot, NoSpawn, AllNew, RoundDone
  <2>2. CASE FirstSnapshot
    BY <2>1, <2>2 DEF FirstSnapshot, world, baseline, bounds
  <2>3. CASE Seeded
    BY <2>1, <2>3 DEF Seeded, world, baseline, history, bounds
  <2>4. CASE Snapshot
    BY <2>1, <2>4 DEF Snapshot, world, baseline, history, bounds
  <2>5. CASE NoSpawn
    BY <2>1, <2>5 DEF NoSpawn, world, baseline, history, bounds
  <2>6. CASE AllNew
    BY <2>1, <2>6 DEF AllNew, world, baseline, history, bounds
  <2>7. CASE RoundDone
    BY <2>1, <2>7 DEF RoundDone, world, baseline, history, bounds
  <2> QED BY <1>1, <2>2, <2>3, <2>4, <2>5, <2>6, <2>7
<1>2. ASSUME NEW k \in Conns, Seed(k) PROVE MonitorTypeOK'
  <2>1. FeedTypeOK'
    BY <1>2, FeedRests DEF Seed
  <2>2. /\ rows' \subseteq Exes \X Hashes /\ faulted' \subseteq Exes \X Hashes /\ paths' \subseteq Exes
    <3>1. ExeOf[k] \in Exes /\ content[ExeOf[k]] \in Hashes
      BY ConnAssumption
    <3> QED BY <1>2, <3>1, Recorded DEF Seed
  <2> QED BY <1>2, <2>1, <2>2 DEF Seed, world, history, bounds
<1>3. ASSUME NEW k \in Conns, Announce(k) PROVE MonitorTypeOK'
  <2>1. PICK v \in Judgements :
               LET e == ExeOf[k]  h == content[ExeOf[k]] IN
               /\ e \in Exes /\ h \in Hashes
               /\ BeginPublish(Loop, OpenEvent(k, v))
               /\ (\E w \in Judgements : baselineSeen(e, h, w)) \/ UNCHANGED <<rows, paths, faulted>>
               /\ \/ raised' = raised
                  \/ /\ baselineSeen(e, h, v) /\ v # "seen"
                     /\ raised' = Append(raised, <<e, h>>)
    BY <1>3, Announced
  <2>2. FeedTypeOK'
    BY <1>0, <2>1, AreEvents, PublishTyped
  <2>3. /\ rows' \subseteq Exes \X Hashes /\ faulted' \subseteq Exes \X Hashes /\ paths' \subseteq Exes
    BY <2>1, Recorded
  <2>4. raised' \in Seq(Exes \X Hashes)
    <3>1. CASE raised' = raised
      BY <3>1
    <3>2. CASE v # "seen" /\ raised' = Append(raised, <<ExeOf[k], content[ExeOf[k]]>>)
      <4>1. <<ExeOf[k], content[ExeOf[k]]>> \in Anomalies
        BY <2>1, <3>2 DEF Anomalies
      <4> QED BY <3>2, <4>1, AppendProperties DEF Anomalies
    <3> QED BY <2>1, <3>1, <3>2
  <2>5. steady' \subseteq open'
    BY <1>3 DEF Announce, world
  <2> QED BY <1>3, <2>2, <2>3, <2>4, <2>5 DEF Announce, world, bounds
<1>4. ASSUME NEW k \in Conns, AnnounceClosed(k) PROVE MonitorTypeOK'
  <2>1. FeedTypeOK'
    BY <1>0, <1>4, AreEvents, PublishTyped DEF AnnounceClosed
  <2> QED BY <1>4, <2>1 DEF AnnounceClosed, world, baseline, bounds
<1>5. ASSUME NEW t \in Alerts, Spawn(t) PROVE MonitorTypeOK'
  <2>1. FeedTypeOK'
    BY <1>5, FeedRests DEF Spawn
  <2>2. task' \in [Alerts -> Conns \cup {NoConn}]
    BY <1>5 DEF Spawn
  <2> QED BY <1>5, <2>1, <2>2 DEF Spawn, world, baseline, history, bounds
<1> QED BY <1>1, <1>2, <1>3, <1>4, <1>5 DEF LoopStep

\* So do alerts, handlers, the machine and restarts.
LEMMA OthersTyped ==
    ASSUME MonitorTypeOK, [MonitorNext]_monitorVars, ~LoopStep
    PROVE  MonitorTypeOK'
<1> USE DEF MonitorTypeOK
<1>1. ASSUME NEW t \in Alerts, Alert(t) \/ NoReason(t) PROVE MonitorTypeOK'
  <2>1. FeedTypeOK'
    <3>1. task[t] \in Conns /\ t \in Publishers
      BY <1>1, ConnAssumption DEF Alert, NoReason, Alerts
    <3> QED BY <1>1, <3>1, AreEvents, PublishTyped, FeedRests DEF Alert, NoReason
  <2>2. task' \in [Alerts -> Conns \cup {NoConn}]
    BY <1>1 DEF Alert, NoReason
  <2> QED BY <1>1, <2>1, <2>2 DEF Alert, NoReason, world, loop, baseline, history, bounds
<1>2. CASE FeedStep /\ UNCHANGED ownVars
  <2>1. FeedTypeOK'
    BY <1>2, PublishTyped DEF FeedStep
  <2> QED BY <1>2, <2>1 DEF ownVars, world, loop, baseline, history, bounds
<1>3. ASSUME NEW k \in Conns, Opens(k) \/ Closes(k) PROVE MonitorTypeOK'
  <2>1. FeedTypeOK'
    BY <1>3, FeedRests DEF Opens, Closes, Change
  <2>2. changesLeft' \in 0 .. MaxChanges
    BY <1>3, MonitorBounds DEF Opens, Closes, Change
  <2> QED BY <1>3, <2>1, <2>2 DEF Opens, Closes, Change, loop, baseline
<1>4. ASSUME NEW e \in Exes, NEW h \in Hashes, Replaced(e, h) PROVE MonitorTypeOK'
  <2>1. FeedTypeOK'
    BY <1>4, FeedRests DEF Replaced, Change
  <2>2. changesLeft' \in 0 .. MaxChanges
    BY <1>4, MonitorBounds DEF Replaced, Change
  <2> QED BY <1>4, <2>1, <2>2 DEF Replaced, Change, loop, baseline
<1>5. CASE MonitorRestart
  <2>1. FeedTypeOK'
    BY <1>5, RestartTyped DEF MonitorRestart
  <2>2. restartsLeft' \in 0 .. MaxRestarts
    BY <1>5, MonitorBounds DEF MonitorRestart
  <2> QED BY <1>5, <2>1, <2>2 DEF MonitorRestart, world, baseline
<1>6. CASE UNCHANGED monitorVars
  <2>1. FeedTypeOK'
    BY <1>6, FeedRests DEF monitorVars
  <2> QED BY <1>6, <2>1 DEF monitorVars, ownVars, world, loop, baseline, history, bounds
<1> QED BY <1>1, <1>2, <1>3, <1>4, <1>5, <1>6 DEF MonitorNext

\* Every step keeps the types.
LEMMA MonitorTyped == MonitorTypeOK /\ [MonitorNext]_monitorVars => MonitorTypeOK'
BY LoopTyped, OthersTyped

(* What is told *)

\* Each part of a round adds to the events what it has compared (monitorLoop).
LEMMA LoopAddsUp ==
    ASSUME MonitorTypeOK, FeedAddsUp, SteadyStays, LoopStep
    PROVE  FeedAddsUp' /\ SteadyStays'
<1> USE DEF MonitorTypeOK, FeedAddsUp, SteadyStays
<1>1. CASE FirstSnapshot
  BY <1>1 DEF FirstSnapshot
<1>2. CASE Seeded
  BY <1>2 DEF Seeded, history
<1>3. CASE Snapshot
  BY <1>3 DEF Snapshot, history
<1>4. CASE NoSpawn
  BY <1>4 DEF NoSpawn, After, history
<1>5. CASE AllNew
  BY <1>5 DEF AllNew, history
<1>6. CASE RoundDone
  BY <1>6 DEF RoundDone, history
<1>7. ASSUME NEW k \in Conns, Seed(k) PROVE FeedAddsUp' /\ SteadyStays'
  BY <1>7 DEF Seed, history
<1>8. ASSUME NEW k \in Conns, Announce(k) PROVE FeedAddsUp' /\ SteadyStays'
  <2>1. /\ mpc = "new" /\ k \in todo /\ mpc' = "spawn" /\ todo' = todo \ {k}
        /\ prev' = prev /\ snap' = snap /\ feed' = feed \cup {k}
        /\ steady' = steady \cup ({k} \cap open)
    BY <1>8 DEF Announce
  <2> QED BY <2>1
<1>9. ASSUME NEW k \in Conns, AnnounceClosed(k) PROVE FeedAddsUp' /\ SteadyStays'
  BY <1>9 DEF AnnounceClosed
<1>10. ASSUME NEW t \in Alerts, Spawn(t) PROVE FeedAddsUp' /\ SteadyStays'
  BY <1>10 DEF Spawn, After, history
<1> QED BY <1>1, <1>2, <1>3, <1>4, <1>5, <1>6, <1>7, <1>8, <1>9, <1>10 DEF LoopStep

\* Nothing else does, and what closes meanwhile is steady no more.
LEMMA OthersAddUp ==
    ASSUME MonitorTypeOK, FeedAddsUp, SteadyStays, [MonitorNext]_monitorVars, ~LoopStep
    PROVE  FeedAddsUp' /\ SteadyStays'
<1> USE DEF FeedAddsUp, SteadyStays
<1>1. CASE MonitorRestart
  BY <1>1 DEF MonitorRestart
<1>2. CASE UNCHANGED <<prev, snap, todo, mpc, feed>> /\ steady' \subseteq steady
  BY <1>2
<1>3. \/ UNCHANGED <<prev, snap, todo, mpc, feed>> /\ steady' \subseteq steady
     \/ MonitorRestart
  BY DEF MonitorNext, Alert, NoReason, Opens, Closes, Replaced, Change, monitorVars, ownVars,
         loop, history
<1> QED BY <1>1, <1>2, <1>3

\* A connection that has been open since it was told is in no difference.
LEMMA NoFalseStep ==
    ASSUME MonitorTypeOK, FeedAddsUp, SteadyStays, MonitorNext, NEW k \in steady
    PROVE  ~Telling("open", k) /\ ~Telling("closed", k)
<1> SUFFICES ASSUME ppc[Loop] = "idle", ppc'[Loop] = "log", pev'[Loop].conn = k,
                    pev'[Loop].kind \in {"open", "closed"}
             PROVE  FALSE
  BY DEF Telling
<1>1. Loop \in Publishers /\ Loop \notin Alerts
  BY LoopAssumption DEF Alerts
<1>2. ASSUME NEW j \in Conns, Announce(j) PROVE FALSE
  <2>1. pev'[Loop].conn = j
    <3>1. PICK v \in Judgements : BeginPublish(Loop, OpenEvent(j, v))
      BY <1>2, Announced
    <3>2. pev'[Loop] = OpenEvent(j, v)
      BY <1>1, <3>1 DEF MonitorTypeOK, FeedTypeOK, BeginPublish
    <3> QED BY <3>2, AreEvents
  <2>2. j \in todo /\ j \in steady /\ todo \subseteq snap \ prev /\ feed = (prev \cup snap) \ todo
    BY <1>2, <2>1 DEF Announce, FeedAddsUp
  <2> QED BY <2>2 DEF SteadyStays
<1>3. ASSUME NEW j \in Conns, AnnounceClosed(j) PROVE FALSE
  <2>1. pev'[Loop].conn = j
    BY <1>1, <1>3, AreEvents DEF MonitorTypeOK, FeedTypeOK, BeginPublish, AnnounceClosed
  <2>2. j \in todo /\ j \in steady /\ mpc = "closed" /\ todo \subseteq prev \ snap
    BY <1>3, <2>1 DEF AnnounceClosed, FeedAddsUp
  <2> QED BY <2>2 DEF SteadyStays
<1>4. CASE UNCHANGED feedVars
  BY <1>4 DEF feedVars
<1>5. ASSUME NEW t \in Alerts, Alert(t) PROVE FALSE
  BY <1>1, <1>5 DEF Alert, BeginPublish, MonitorTypeOK, FeedTypeOK, Alerts
<1>6. ASSUME NEW p \in Publishers, PublishStep(p) PROVE FALSE
  BY <1>1, <1>6 DEF PublishStep, Log, Lock, SendTo, Unlock, MonitorTypeOK, FeedTypeOK
<1>7. CASE FeedRestart
  BY <1>1, <1>7 DEF FeedRestart
<1>8. \/ UNCHANGED feedVars \/ FeedRestart
      \/ \E j \in Conns : Announce(j) \/ AnnounceClosed(j)
      \/ \E t \in Alerts : Alert(t)
      \/ \E p \in Publishers : PublishStep(p)
  BY DEF MonitorNext, LoopStep, FirstSnapshot, Seeded, Snapshot, NoSpawn, AllNew, RoundDone, Seed,
         Spawn, NoReason, FeedStep, Opens, Closes, Replaced, Change, MonitorRestart
<1> QED BY <1>2, <1>3, <1>4, <1>5, <1>6, <1>7, <1>8

(* The baseline *)

\* A content that was announced has its row, or the INSERT failed, and is not announced again.
LEMMA BaselineKeeps ==
    ASSUME MonitorTypeOK, RaisedIsKept, OncePerContent, [MonitorNext]_monitorVars
    PROVE  RaisedIsKept' /\ OncePerContent'
<1>1. ASSUME raised' = raised, rows \subseteq rows', faulted \subseteq faulted'
      PROVE  RaisedIsKept' /\ OncePerContent'
  BY <1>1 DEF RaisedIsKept, OncePerContent
<1>2. ASSUME NEW k \in Conns, Announce(k) PROVE RaisedIsKept' /\ OncePerContent'
  <2> DEFINE e == ExeOf[k]
             h == content[ExeOf[k]]
  <2>1. PICK v \in Judgements :
               /\ e \in Exes /\ h \in Hashes
               /\ (\E w \in Judgements : baselineSeen(e, h, w)) \/ UNCHANGED <<rows, paths, faulted>>
               /\ \/ raised' = raised
                  \/ /\ baselineSeen(e, h, v) /\ v # "seen"
                     /\ raised' = Append(raised, <<e, h>>)
    BY <1>2, Announced
  <2>2. rows \subseteq rows' /\ faulted \subseteq faulted'
    BY <2>1, Recorded DEF MonitorTypeOK
  <2>3. CASE raised' = raised
    BY <1>1, <2>2, <2>3
  <2>4. ASSUME baselineSeen(e, h, v), v # "seen",
               raised' = Append(raised, <<e, h>>)
        PROVE  RaisedIsKept' /\ OncePerContent'
    <3> DEFINE n == Len(raised)
               r == <<e, h>>
    <3>1. (<<e, h>> \in rows => <<e, h>> \in faulted') /\ <<e, h>> \in rows' \cup faulted'
      BY <2>1, <2>4, NewIsRecorded
    <3>2. /\ n \in Nat /\ DOMAIN raised = 1 .. n /\ DOMAIN raised' = 1 .. n + 1
          /\ \A i \in 1 .. n : raised'[i] = raised[i]
          /\ raised'[n + 1] = r
      <4>1. raised \in Seq(Anomalies) /\ r \in Anomalies
        BY <2>1, <2>4 DEF MonitorTypeOK, Anomalies
      <4> QED BY <2>4, <4>1, AppendProperties, LenProperties
    <3>3. r = <<e, h>> /\ 1 .. n + 1 = (1 .. n) \cup {n + 1}
      BY <3>2
    <3> HIDE DEF n, r, e, h
    <3>4. RaisedIsKept'
      BY <2>2, <3>1, <3>2, <3>3 DEF RaisedIsKept
    <3>5. \A i \in 1 .. n : raised[i] = <<e, h>> => <<e, h>> \in faulted'
      BY <2>2, <3>1, <3>2 DEF RaisedIsKept
    <3>6. OncePerContent'
      <4>1. SUFFICES ASSUME NEW i \in 1 .. n + 1, NEW j \in 1 .. n + 1, i # j,
                            raised'[i] = raised'[j]
                     PROVE  raised'[i] \in faulted'
        BY <3>2 DEF OncePerContent
      <4>2. CASE i \in 1 .. n /\ j \in 1 .. n
        BY <2>2, <3>2, <4>1, <4>2 DEF OncePerContent
      <4>3. CASE i \in 1 .. n /\ j = n + 1
        BY <3>2, <3>3, <3>5, <4>1, <4>3
      <4>4. CASE i = n + 1 /\ j \in 1 .. n
        BY <3>2, <3>3, <3>5, <4>1, <4>4
      <4> QED BY <3>3, <4>1, <4>2, <4>3, <4>4
    <3> QED BY <3>4, <3>6
  <2> QED BY <2>1, <2>3, <2>4
<1>3. ASSUME NEW k \in Conns, Seed(k) PROVE RaisedIsKept' /\ OncePerContent'
  <2>1. ExeOf[k] \in Exes /\ content[ExeOf[k]] \in Hashes
    BY ConnAssumption DEF MonitorTypeOK
  <2>2. rows \subseteq rows' /\ faulted \subseteq faulted'
    BY <1>3, <2>1, Recorded DEF Seed, MonitorTypeOK
  <2> QED BY <1>1, <1>3, <2>2 DEF Seed
<1>4. \/ UNCHANGED baseline \/ \E k \in Conns : Seed(k) \/ Announce(k)
  BY DEF MonitorNext, LoopStep, FirstSnapshot, Seeded, Snapshot, NoSpawn, AllNew, RoundDone,
         AnnounceClosed, Spawn, Alert, NoReason, Opens, Closes, Replaced, Change, MonitorRestart,
         monitorVars, ownVars
<1> QED BY <1>1, <1>2, <1>3, <1>4 DEF baseline

(* The alerts *)

\* An event of the timeline stays there.
LEMMA ToldStays ==
    ASSUME log \in Seq(Events), NEW k, Told(k),
           \/ UNCHANGED log
           \/ \E e \in Events : log' = Append(log, e),
           unlogged \subseteq unlogged'
    PROVE  Told(k)'
<1>1. CASE \E e \in unlogged : e.kind = "open" /\ e.conn = k
  BY <1>1 DEF Told
<1>2. CASE \E j \in DOMAIN log : log[j].kind = "open" /\ log[j].conn = k
  <2>1. PICK j \in DOMAIN log : log[j].kind = "open" /\ log[j].conn = k
    BY <1>2
  <2>2. j \in DOMAIN log' /\ log'[j] = log[j]
    BY <2>1, AppendProperties, LenProperties
  <2> QED BY <2>1, <2>2 DEF Told
<1> QED BY <1>1, <1>2 DEF Told

\* logEvent: the timeline with the event, or the failure of its INSERT.
LEMMA LogTells ==
    ASSUME MonitorTypeOK, AlertsAreTold, IntelFollowsNews, NEW p \in Publishers, Log(p)
    PROVE  /\ \A k : Told(k) => Told(k)'
           /\ pev[p].kind = "open" => Told(pev[p].conn)'
           /\ IntelFollowsNews'
<1>1. pev[p] \in Events /\ log \in Seq(Events) /\ ppc[p] = "log"
  BY DEF MonitorTypeOK, FeedTypeOK, Log
<1>2. CASE log' = Append(log, pev[p]) /\ UNCHANGED unlogged
  <2> DEFINE n == Len(log)
  <2>1. /\ n \in Nat /\ DOMAIN log = 1 .. n /\ DOMAIN log' = 1 .. n + 1
        /\ \A i \in 1 .. n : log'[i] = log[i]
        /\ log'[n + 1] = pev[p]
    BY <1>1, <1>2, AppendProperties, LenProperties
  <2> HIDE DEF n
  <2>2. \A k : Told(k) => Told(k)'
    BY <1>1, <1>2, ToldStays
  <2>3. pev[p].kind = "open" => Told(pev[p].conn)'
    <3>1. n + 1 \in DOMAIN log' /\ pev' = pev
      BY <2>1 DEF Log
    <3> QED BY <2>1, <3>1 DEF Told
  <2>4. IntelFollowsNews'
    <3>1. SUFFICES ASSUME NEW i \in 1 .. n + 1, log'[i].kind = "intel"
                   PROVE  \/ \E j \in 1 .. i - 1 : log'[j].kind = "open" /\ log'[j].conn = log'[i].conn
                          \/ \E e \in unlogged' : e.kind = "open" /\ e.conn = log'[i].conn
      BY <2>1 DEF IntelFollowsNews
    <3>2. CASE i \in 1 .. n
      <4>1. 1 .. i - 1 \subseteq 1 .. n
        BY <2>1, <3>2
      <4>2. \/ \E j \in 1 .. i - 1 : log[j].kind = "open" /\ log[j].conn = log[i].conn
            \/ \E e \in unlogged : e.kind = "open" /\ e.conn = log[i].conn
        BY <2>1, <3>1, <3>2 DEF IntelFollowsNews
      <4> QED BY <1>2, <2>1, <3>2, <4>1, <4>2
    <3>3. CASE i = n + 1
      <4>1. Told(pev[p].conn)
        BY <1>1, <2>1, <3>1, <3>3 DEF AlertsAreTold
      <4>2. i - 1 = n /\ log'[i] = pev[p]
        BY <2>1, <3>3
      <4> QED BY <1>2, <2>1, <4>1, <4>2 DEF Told
    <3> QED BY <2>1, <3>2, <3>3
  <2> QED BY <2>2, <2>3, <2>4
<1>3. CASE unlogged' = unlogged \cup {pev[p]} /\ UNCHANGED log
  BY <1>3 DEF Told, IntelFollowsNews, Log
<1> QED BY <1>2, <1>3 DEF Log

\* An alert looks into a connection that was told, until it is done.
LEMMA AlertsKeep ==
    ASSUME MonitorTypeOK, AlertsAreTold, IntelFollowsNews, [MonitorNext]_monitorVars
    PROVE  AlertsAreTold' /\ IntelFollowsNews'
<1>0. Loop \in Publishers /\ Loop \notin Alerts /\ NoConn \notin Conns
  BY LoopAssumption, ConnAssumption DEF Alerts
<1>1. ASSUME UNCHANGED <<log, unlogged>>
      PROVE  (\A k : Told(k)' <=> Told(k)) /\ IntelFollowsNews'
  BY <1>1 DEF Told, IntelFollowsNews
<1>2. ASSUME NEW p \in Publishers, PublishStep(p), UNCHANGED ownVars
      PROVE  AlertsAreTold' /\ IntelFollowsNews'
  <2>1. UNCHANGED <<task, mpc, cur>>
    BY <1>2 DEF ownVars, loop
  <2>2. CASE Log(p)
    <3>1. /\ \A k : Told(k) => Told(k)'
          /\ pev[p].kind = "open" => Told(pev[p].conn)'
          /\ IntelFollowsNews'
      BY <2>2, LogTells
    <3>2. ppc[p] = "log" /\ ppc'[p] = "lock" /\ pev' = pev /\ \A q \in Publishers \ {p} : ppc'[q] = ppc[q]
      BY <2>2 DEF Log, MonitorTypeOK, FeedTypeOK
    <3> QED BY <1>0, <2>1, <3>1, <3>2 DEF AlertsAreTold
  <2>3. CASE Lock(p) \/ Unlock(p) \/ \E c \in Clients : SendTo(p, c)
    <3>1. /\ UNCHANGED <<log, unlogged>>
          /\ \A q \in Publishers : (ppc'[q] = "log" <=> ppc[q] = "log") /\ (ppc'[q] = "log" => pev'[q] = pev[q])
      <4>1. CASE Lock(p)
        BY <4>1 DEF Lock, MonitorTypeOK, FeedTypeOK
      <4>2. CASE Unlock(p)
        BY <4>2 DEF Unlock, MonitorTypeOK, FeedTypeOK
      <4>3. CASE \E c \in Clients : SendTo(p, c)
        BY <4>3 DEF SendTo
      <4> QED BY <2>3, <4>1, <4>2, <4>3
    <3> QED BY <1>0, <1>1, <2>1, <3>1 DEF AlertsAreTold
  <2> QED BY <1>2, <2>2, <2>3 DEF PublishStep
<1>3. ASSUME NEW k \in Conns, Announce(k) PROVE AlertsAreTold' /\ IntelFollowsNews'
  <2>1. PICK v \in Judgements : BeginPublish(Loop, OpenEvent(k, v))
    BY <1>3, Announced
  <2>2. /\ UNCHANGED <<log, unlogged, task>> /\ cur' = k
        /\ ppc'[Loop] = "log" /\ pev'[Loop] = OpenEvent(k, v)
        /\ \A q \in Publishers \ {Loop} : ppc'[q] = ppc[q] /\ pev'[q] = pev[q]
    BY <1>0, <1>3, <2>1 DEF Announce, BeginPublish, MonitorTypeOK, FeedTypeOK
  <2>3. pev'[Loop].kind = "open" /\ pev'[Loop].conn = k
    BY <2>2, AreEvents
  <2> QED BY <1>0, <1>1, <2>2, <2>3 DEF AlertsAreTold
<1>4. ASSUME NEW k \in Conns, AnnounceClosed(k) PROVE AlertsAreTold' /\ IntelFollowsNews'
  <2>1. /\ UNCHANGED <<log, unlogged, task>> /\ mpc' = "closed"
        /\ pev'[Loop] = ClosedEvent(k)
        /\ \A q \in Publishers \ {Loop} : ppc'[q] = ppc[q] /\ pev'[q] = pev[q]
    BY <1>0, <1>4 DEF AnnounceClosed, BeginPublish, MonitorTypeOK, FeedTypeOK
  <2>2. pev'[Loop].kind = "closed"
    BY <2>1, AreEvents
  <2> QED BY <1>0, <1>1, <2>1, <2>2 DEF AlertsAreTold
<1>5. ASSUME NEW t \in Alerts, Spawn(t) PROVE AlertsAreTold' /\ IntelFollowsNews'
  <2>1. /\ UNCHANGED <<log, unlogged, ppc, pev>> /\ mpc' = "new"
        /\ mpc = "spawn" /\ ppc[Loop] = "idle" /\ task'[t] = cur
        /\ \A u \in Alerts \ {t} : task'[u] = task[u]
    BY <1>5 DEF Spawn, After, feedVars, MonitorTypeOK
  <2> QED BY <1>1, <2>1 DEF AlertsAreTold
<1>6. ASSUME NEW t \in Alerts, Alert(t) PROVE AlertsAreTold' /\ IntelFollowsNews'
  <2>1. task[t] \in Conns /\ t \in Publishers /\ t # Loop
    BY <1>0, <1>6 DEF Alert, Alerts, MonitorTypeOK
  <2>2. /\ UNCHANGED <<log, unlogged, mpc, cur>>
        /\ pev'[t] = IntelEvent(task[t]) /\ task'[t] = NoConn
        /\ \A q \in Publishers \ {t} : ppc'[q] = ppc[q] /\ pev'[q] = pev[q]
        /\ \A u \in Alerts \ {t} : task'[u] = task[u]
    BY <1>6, <2>1 DEF Alert, BeginPublish, loop, MonitorTypeOK, FeedTypeOK
  <2>3. pev'[t].conn = task[t]
    BY <2>1, <2>2, AreEvents
  <2> QED BY <1>0, <1>1, <1>6, <2>1, <2>2, <2>3 DEF AlertsAreTold, Alert
<1>7. CASE MonitorRestart
  BY <1>0, <1>1, <1>7 DEF MonitorRestart, FeedRestart, AlertsAreTold
<1>8. ASSUME UNCHANGED feedVars, \A t \in Alerts : task'[t] \in {task[t], NoConn},
             mpc' = "spawn" => mpc = "spawn" /\ cur' = cur
      PROVE  AlertsAreTold' /\ IntelFollowsNews'
  BY <1>0, <1>1, <1>8 DEF feedVars, AlertsAreTold
<1>9. CASE FirstSnapshot \/ Seeded \/ Snapshot \/ NoSpawn \/ AllNew \/ RoundDone \/ \E k \in Conns : Seed(k)
  BY <1>8, <1>9 DEF FirstSnapshot, Seeded, Snapshot, NoSpawn, AllNew, RoundDone, Seed
<1>10. ASSUME NEW t \in Alerts, NoReason(t) PROVE AlertsAreTold' /\ IntelFollowsNews'
  BY <1>8, <1>10 DEF NoReason, loop, MonitorTypeOK
<1>11. CASE \/ \E k \in Conns : Opens(k) \/ Closes(k)
            \/ \E e \in Exes, h \in Hashes : Replaced(e, h)
            \/ UNCHANGED monitorVars
  BY <1>8, <1>11 DEF Opens, Closes, Replaced, Change, monitorVars, ownVars, loop
<1> QED BY <1>2, <1>3, <1>4, <1>5, <1>6, <1>7, <1>9, <1>10, <1>11 DEF MonitorNext, LoopStep, FeedStep

----------------------------------------------------------------------------
(* The theorems *)

\* Nothing is open, known or told at first.
LEMMA MonitorInitInv == MonitorInit => MInv
<1> SUFFICES ASSUME MonitorInit PROVE MInv
  OBVIOUS
<1>1. MonitorTypeOK
  <2>1. FeedTypeOK
    BY FeedInitTyped DEF MonitorInit
  <2>2. raised \in Seq(Anomalies)
    BY EmptySeq DEF MonitorInit
  <2> QED BY <2>1, <2>2, MonitorBounds DEF MonitorInit, MonitorTypeOK, Anomalies
<1>2. FeedAddsUp /\ SteadyStays
  BY DEF MonitorInit, FeedAddsUp, SteadyStays
<1>3. RaisedIsKept /\ OncePerContent
  BY DEF MonitorInit, RaisedIsKept, OncePerContent
<1>4. AlertsAreTold /\ IntelFollowsNews
  BY DEF MonitorInit, FeedInit, AlertsAreTold, IntelFollowsNews
<1> QED BY <1>1, <1>2, <1>3, <1>4 DEF MInv

\* Each step keeps the types, the account of the events, the baseline and the alerts.
LEMMA MonitorStepInv == MInv /\ [MonitorNext]_monitorVars => MInv'
<1> SUFFICES ASSUME MInv, [MonitorNext]_monitorVars PROVE MInv'
  OBVIOUS
<1>1. MonitorTypeOK'
  BY MonitorTyped DEF MInv
<1>2. FeedAddsUp' /\ SteadyStays'
  BY LoopAddsUp, OthersAddUp DEF MInv
<1>3. RaisedIsKept' /\ OncePerContent'
  BY BaselineKeeps DEF MInv
<1>4. AlertsAreTold' /\ IntelFollowsNews'
  BY AlertsKeep DEF MInv
<1> QED BY <1>1, <1>2, <1>3, <1>4 DEF MInv

\* The inductive invariant holds in every reachable state.
LEMMA MonitorAlways == MonitorSpec => []MInv
BY MonitorInitInv, MonitorStepInv, PTL DEF MonitorSpec

\* Between rounds the events add up to the last good enumeration, and a reputation alert
\* comes after the event of its connection (monitorLoop, alertOnIntel), for any
\* connections, alerts, failed INSERTs and restarts.
THEOREM MonitorSafety == MonitorSpec => []MonitorInv
<1>1. MInv => MonitorInv
  BY DEF MInv, MonitorInv, FeedAddsUp, FeedIsPrev
<1> QED BY <1>1, MonitorAlways, PTL

\* A content of a path is an anomaly once at most, over every restart and every way back
\* to it, unless its row could not be written, or not read when it was there
\* (baselineSeen drops the errors of its INSERTs and of its SELECTs).
THEOREM AnomalyOncePerContent == MonitorSpec => []OncePerContent
<1>1. MInv => OncePerContent
  BY DEF MInv
<1> QED BY <1>1, MonitorAlways, PTL

\* No connection that has been open all along is told as new or as closed: what fails
\* never stands in for an empty enumeration (monitorLoop).
THEOREM NewsIsTrue == MonitorSpec => NoFalseNews
<1>1. MInv /\ [MonitorNext]_monitorVars
        => [\A k \in steady : ~Telling("open", k) /\ ~Telling("closed", k)]_monitorVars
  BY NoFalseStep DEF MInv
<1> QED BY <1>1, MonitorAlways, PTL DEF MonitorSpec, NoFalseNews
=============================================================================
