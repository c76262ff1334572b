----------------------------- MODULE EventFeed -----------------------------
(***************************************************************************)
(* The live feed (monitor.go, handleEvents): whoever publishes writes the   *)
(* event to the timeline in SQLite and then, under subsMu, offers it to the *)
(* channel of every open /events request; a full channel is passed over.    *)
(* The monitor loop publishes, and so does a goroutine per reputation alert. *)
(***************************************************************************)
EXTENDS Naturals, Sequences, Functions

CONSTANTS
    Publishers, \* goroutines that publish
    Clients,    \* open /events requests
    Events,     \* what they publish
    NoOne,      \* subsMu is free
    NoEvent,
    ChanCap,    \* capacity of a client's channel (64)
    DBFaults    \* TRUE: an INSERT may fail (its error is dropped by db.Exec)

ASSUME NoOneAssumption == NoOne \notin Publishers /\ NoEvent \notin Events
ASSUME ChanAssumption == ChanCap \in Nat \ {0} /\ DBFaults \in BOOLEAN

VARIABLES
    log,        \* the rows inserted into events, oldest first
    unlogged,   \* events whose INSERT failed (history)
    ppc, pev,   \* where each publisher is, and its event
    visit,      \* the channels its range over subs has still to visit
    holder,     \* the publisher that holds subsMu
    subs,       \* the registered channels, named by their client
    chan,       \* what each channel holds
    hpc, hev,   \* where each client's handler is, and the event it writes
    gone,       \* clients whose request context is done
    shown,      \* the events each client has received (history)
    panicked    \* a send on a closed channel

feedVars == <<log, unlogged, ppc, pev, visit, holder, subs, chan, hpc, hev,
              gone, shown, panicked>>

FeedTypeOK ==
    /\ log \in Seq(Events)
    /\ unlogged \subseteq Events
    /\ ppc \in [Publishers -> {"idle", "log", "lock", "send"}]
    /\ pev \in [Publishers -> Events \cup {NoEvent}]
    /\ \A p \in Publishers : ppc[p] # "idle" => pev[p] \in Events
    /\ visit \in [Publishers -> SUBSET Clients]
    /\ holder \in Publishers \cup {NoOne}
    /\ \A p \in Publishers : ppc[p] = "send" <=> holder = p
    /\ subs \subseteq Clients
    /\ chan \in [Clients -> Seq(Events)]
    /\ \A c \in Clients : Len(chan[c]) <= ChanCap
    /\ hpc \in [Clients -> {"away", "wait", "write", "leave"}]
    /\ hev \in [Clients -> Events \cup {NoEvent}]
    /\ \A c \in Clients : hpc[c] = "write" => hev[c] \in Events
    /\ gone \subseteq Clients
    /\ shown \in [Clients -> Seq(Events)]
    /\ panicked \in BOOLEAN

FeedInit ==
    /\ log = <<>>
    /\ unlogged = {}
    /\ ppc = [p \in Publishers |-> "idle"]
    /\ pev = [p \in Publishers |-> NoEvent]
    /\ visit = [p \in Publishers |-> {}]
    /\ holder = NoOne
    /\ subs = {}
    /\ chan = [c \in Clients |-> <<>>]
    /\ hpc = [c \in Clients |-> "away"]
    /\ hev = [c \in Clients |-> NoEvent]
    /\ gone = {}
    /\ shown = [c \in Clients |-> <<>>]
    /\ panicked = FALSE

handlerVars == <<hpc, hev, gone, shown>>

----------------------------------------------------------------------------
(* publish *)

BeginPublish(p, e) ==
    /\ ppc[p] = "idle"
    /\ ppc' = [ppc EXCEPT ![p] = "log"]
    /\ pev' = [pev EXCEPT ![p] = e]
    /\ UNCHANGED <<log, unlogged, visit, holder, subs, chan, handlerVars, panicked>>

\* logEvent.
Log(p) ==
    /\ ppc[p] = "log"
    /\ \/ log' = Append(log, pev[p]) /\ UNCHANGED unlogged
       \/ DBFaults /\ unlogged' = unlogged \cup {pev[p]} /\ UNCHANGED log
    /\ ppc' = [ppc EXCEPT ![p] = "lock"]
    /\ UNCHANGED <<pev, visit, holder, subs, chan, handlerVars, panicked>>

\* Seeded bug for SameOrder: two publishers read subs side by side.
LockShared(p) ==
    /\ ppc[p] = "lock"
    /\ visit' = [visit EXCEPT ![p] = subs]
    /\ ppc' = [ppc EXCEPT ![p] = "send"]
    /\ UNCHANGED <<log, unlogged, pev, holder, subs, chan, handlerVars, panicked>>

Lock(p) ==
    /\ ppc[p] = "lock"
    /\ holder = NoOne
    /\ holder' = p
    /\ visit' = [visit EXCEPT ![p] = subs]
    /\ ppc' = [ppc EXCEPT ![p] = "send"]
    /\ UNCHANGED <<log, unlogged, pev, subs, chan, handlerVars, panicked>>

\* Seeded bug for PublishEnds: the select without its default.
OfferBlocking(p, c) ==
    Len(chan[c]) < ChanCap /\ chan' = [chan EXCEPT ![c] = Append(@, pev[p])]

\* The select: a full channel is passed over.
Offer(p, c) ==
    chan' = IF Len(chan[c]) < ChanCap THEN [chan EXCEPT ![c] = Append(@, pev[p])] ELSE chan

SendTo(p, c) ==
    /\ ppc[p] = "send"
    /\ c \in visit[p]
    /\ visit' = [visit EXCEPT ![p] = @ \ {c}]
    /\ panicked' = (panicked \/ c \notin subs)
    /\ Offer(p, c)
    /\ UNCHANGED <<log, unlogged, ppc, pev, holder, subs, handlerVars>>

Unlock(p) ==
    /\ ppc[p] = "send"
    /\ visit[p] = {}
    /\ holder' = NoOne
    /\ ppc' = [ppc EXCEPT ![p] = "idle"]
    /\ pev' = [pev EXCEPT ![p] = NoEvent]
    /\ UNCHANGED <<log, unlogged, visit, subs, chan, handlerVars, panicked>>

----------------------------------------------------------------------------
(* handleEvents *)

\* A request for /events has got its channel.
Subscribe(c) ==
    /\ hpc[c] = "away"
    /\ holder = NoOne
    /\ subs' = subs \cup {c}
    /\ chan' = [chan EXCEPT ![c] = <<>>]
    /\ hpc' = [hpc EXCEPT ![c] = "wait"]
    /\ UNCHANGED <<log, unlogged, ppc, pev, visit, holder, hev, gone, shown, panicked>>

Receive(c) ==
    /\ hpc[c] = "wait"
    /\ chan[c] # <<>>
    /\ hev' = [hev EXCEPT ![c] = Head(chan[c])]
    /\ chan' = [chan EXCEPT ![c] = Tail(@)]
    /\ hpc' = [hpc EXCEPT ![c] = "write"]
    /\ UNCHANGED <<log, unlogged, ppc, pev, visit, holder, subs, gone, shown, panicked>>

\* Write and flush; for a client that is gone the bytes go nowhere, and their
\* error is not looked at.
Write(c) ==
    /\ hpc[c] = "write"
    /\ shown' = IF c \in gone THEN shown ELSE [shown EXCEPT ![c] = Append(@, hev[c])]
    /\ hev' = [hev EXCEPT ![c] = NoEvent]
    /\ hpc' = [hpc EXCEPT ![c] = "wait"]
    /\ UNCHANGED <<log, unlogged, ppc, pev, visit, holder, subs, chan, gone, panicked>>

Disconnect(c) ==
    /\ hpc[c] \in {"wait", "write"}
    /\ c \notin gone
    /\ gone' = gone \cup {c}
    /\ UNCHANGED <<log, unlogged, ppc, pev, visit, holder, subs, chan, hpc, hev, shown, panicked>>

\* r.Context().Done() won the select.
Done(c) ==
    /\ hpc[c] = "wait"
    /\ c \in gone
    /\ hpc' = [hpc EXCEPT ![c] = "leave"]
    /\ UNCHANGED <<log, unlogged, ppc, pev, visit, holder, subs, chan, hev, gone, shown, panicked>>

\* Seeded bug for NeverSendsOnClosed: the channel is closed without subsMu.
UnsubscribeUnlocked(c) ==
    /\ hpc[c] = "leave"
    /\ subs' = subs \ {c}
    /\ chan' = [chan EXCEPT ![c] = <<>>]
    /\ hpc' = [hpc EXCEPT ![c] = "away"]
    /\ gone' = gone \ {c}
    /\ UNCHANGED <<log, unlogged, ppc, pev, visit, holder, hev, shown, panicked>>

\* unsubscribe, deferred: delete and close in one critical section.
Unsubscribe(c) ==
    /\ hpc[c] = "leave"
    /\ holder = NoOne
    /\ subs' = subs \ {c}
    /\ chan' = [chan EXCEPT ![c] = <<>>]
    /\ hpc' = [hpc EXCEPT ![c] = "away"]
    /\ gone' = gone \ {c}
    /\ UNCHANGED <<log, unlogged, ppc, pev, visit, holder, hev, shown, panicked>>

----------------------------------------------------------------------------

\* The process ends at any point, and a new one starts over the same timeline.
FeedRestart ==
    /\ ppc' = [p \in Publishers |-> "idle"]
    /\ pev' = [p \in Publishers |-> NoEvent]
    /\ visit' = [p \in Publishers |-> {}]
    /\ holder' = NoOne
    /\ subs' = {}
    /\ chan' = [c \in Clients |-> <<>>]
    /\ hpc' = [c \in Clients |-> "away"]
    /\ hev' = [c \in Clients |-> NoEvent]
    /\ gone' = {}
    /\ UNCHANGED <<log, unlogged, shown, panicked>>

\* Each event is published once, so that events can be told apart.
Fresh(e) == e \notin Range(log) \cup unlogged /\ \A p \in Publishers : pev[p] # e

PublishStep(p) == Log(p) \/ Lock(p) \/ (\E c \in Clients : SendTo(p, c)) \/ Unlock(p)

HandlerStep(c) == Receive(c) \/ Write(c) \/ Done(c) \/ Unsubscribe(c)

FeedNext ==
    \/ \E p \in Publishers : PublishStep(p) \/ \E e \in Events : Fresh(e) /\ BeginPublish(p, e)
    \/ \E c \in Clients : HandlerStep(c) \/ Subscribe(c) \/ Disconnect(c)
    \/ FeedRestart

FeedSpec == FeedInit /\ [][FeedNext]_feedVars

(***************************************************************************)
(* Goroutines run.  sync.Mutex hands itself to a waiter it has starved for *)
(* a millisecond, so Lock and Unsubscribe are strongly fair; select picks  *)
(* at random among its ready cases, so Done is.  A browser need not read:  *)
(* the write may block, and Write is not fair.                             *)
(***************************************************************************)
PublisherFairness ==
    \A p \in Publishers : WF_feedVars(PublishStep(p)) /\ SF_feedVars(Lock(p))

HandlerFairness ==
    \A c \in Clients :
        /\ SF_feedVars(Done(c))
        /\ SF_feedVars(Unsubscribe(c))
        /\ WF_feedVars(c \in gone /\ Write(c))

FeedLiveSpec == FeedSpec /\ PublisherFairness /\ HandlerFairness

----------------------------------------------------------------------------
(* Properties *)

\* publish never sends on a channel that unsubscribe has closed: the program
\* would end there, monitor and all.
NeverSendsOnClosed == ~panicked

\* What a browser has been shown is in the timeline, or its INSERT failed: no
\* crash leaves an event that was seen and is not on record (publish).
ShownWasLogged ==
    \A c \in Clients : Range(shown[c]) \subseteq Range(log) \cup unlogged

\* Two browsers see the events they both see in the same order, whoever
\* published them and whatever each of them missed (publish under subsMu).
SameOrder ==
    \A c, d \in Clients :
        \A i, j \in DOMAIN shown[c], k, l \in DOMAIN shown[d] :
            i < j /\ shown[c][i] = shown[d][k] /\ shown[c][j] = shown[d][l] => k < l

\* The feed of every browser is a part of the timeline, in one order for all
\* (publish).
FeedInv == FeedTypeOK /\ ShownWasLogged /\ SameOrder

\* A publish ends even if no browser ever reads: the monitor is never held up
\* by its audience ("drop if the client is slow").
PublishEnds == \A p \in Publishers : ppc[p] # "idle" ~> ppc[p] = "idle"

\* The channel of a client that went away leaves subs (handleEvents).
LeavesSubs == \A c \in Clients : c \in gone ~> c \notin subs

\* Neither side of the feed waits for the other (publish, handleEvents).
FeedGoesOn == PublishEnds /\ LeavesSubs
=============================================================================
