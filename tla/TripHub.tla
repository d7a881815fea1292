------------------------------ MODULE TripHub ------------------------------
(***************************************************************************)
(* Live trip events over WebSocket: internal/ws/hub.go, internal/ws/       *)
(* client.go, the subscribing half of internal/events/bus.go and the       *)
(* upgrade handler of internal/handler/ws.go, in one geo-service process.  *)
(*                                                                         *)
(* A client is one WebSocket connection, followed from the upgrade to the  *)
(* end of its two pumps.  A subscription is what one call of               *)
(* Hub.startSubscription creates: a Redis Pub/Sub connection, the bus      *)
(* goroutine that decodes its messages into a bounded channel, and the     *)
(* forwardEvents goroutine that broadcasts them.  Critical sections of     *)
(* h.mu are single steps; everything else interleaves.                     *)
(***************************************************************************)
EXTENDS Integers, Sequences, FiniteSets

CONSTANTS
  Trips,      \* trip ids
  Clients,    \* WebSocket connections that may be opened
  MaxSubs,    \* bound: subscriptions ever started
  MaxEvents,  \* bound: events ever published
  OutCap,     \* capacity of the bus channel (512 in the code)
  SendCap,    \* capacity of Client.send (256 in the code)
  Published,  \* the event types that occur
  NoTrip, NoSub

\* events.Type: what the service publishes on a trip's channel.
EventTypes == {"location.updated", "deviation.detected", "route.calculated"}
ForwardedTypes == {"location.updated", "deviation.detected"}

ASSUME BoundsAssumption ==
  /\ MaxSubs \in Nat /\ MaxEvents \in Nat
  /\ OutCap \in Nat \ {0} /\ SendCap \in Nat \ {0}

ASSUME IdsAssumption ==
  /\ IsFiniteSet(Clients)
  /\ Published \subseteq EventTypes
  /\ NoTrip \notin Trips
  /\ NoSub \notin 1..MaxSubs

VARIABLES
  group,      \* Hub.clients: trip -> its local clients ({}: no entry)
  closer,     \* Hub.closers: trip -> the subscription it would cancel
  started,    \* number of subscriptions started so far
  subTrip,    \* subscription -> trip
  link,       \* subscription -> its Redis connection
  inbox,      \* subscription -> messages received and not yet decoded
  out,        \* subscription -> the bus channel
  bus,        \* subscription -> the SubscribeTrip goroutine
  fwd,        \* subscription -> the forwardEvents goroutine
  held,       \* subscription -> the event being broadcast
  targets,    \* subscription -> clients still to be offered that event
  stage,      \* client -> progress of its connection and of Client.close
  trip,       \* client -> the trip it subscribed to
  sendq,      \* client -> Client.send
  wire,       \* client -> frames written to the socket (history)
  reader, writer, \* client -> its ReadPump and WritePump goroutines
  peer,       \* client -> whether the remote end is still there
  gauge,      \* middleware.WSConnections
  log,        \* the events published so far, in order (history)
  crashed     \* the process died of a panic outside a request goroutine

hubVars  == <<group, closer, started>>
subVars  == <<subTrip, link, inbox, out, bus, fwd, held, targets>>
connVars == <<stage, trip, sendq, wire, reader, writer, peer, gauge>>
vars     == <<hubVars, subVars, connVars, log, crashed>>

Subs == 1..MaxSubs

Event == [id : 1..MaxEvents, trip : Trips, type : EventTypes]
Greeting == [id |-> 0, trip |-> NoTrip, type |-> "connected"]
Frame == Event \cup {Greeting}

Stages == {"none", "registered", "open", "closing", "unregistered", "sendclosed", "closed"}
Pump   == {"off", "run", "closing", "done"}

\* Client.send has been closed: a further send on it panics.
SendClosed(c) == stage[c] \in {"sendclosed", "closed"}

-----------------------------------------------------------------------------
Init ==
  /\ group   = [t \in Trips |-> {}]
  /\ closer  = [t \in Trips |-> NoSub]
  /\ started = 0
  /\ subTrip = [s \in Subs |-> NoTrip]
  /\ link    = [s \in Subs |-> "none"]
  /\ inbox   = [s \in Subs |-> <<>>]
  /\ out     = [s \in Subs |-> <<>>]
  /\ bus     = [s \in Subs |-> "none"]
  /\ fwd     = [s \in Subs |-> "none"]
  /\ held    = [s \in Subs |-> Greeting]
  /\ targets = [s \in Subs |-> {}]
  /\ stage   = [c \in Clients |-> "none"]
  /\ trip    = [c \in Clients |-> NoTrip]
  /\ sendq   = [c \in Clients |-> <<>>]
  /\ wire    = [c \in Clients |-> <<>>]
  /\ reader  = [c \in Clients |-> "off"]
  /\ writer  = [c \in Clients |-> "off"]
  /\ peer    = [c \in Clients |-> "up"]
  /\ gauge   = 0
  /\ log     = <<>>
  /\ crashed = FALSE

-----------------------------------------------------------------------------
(* Opening a connection.                                                   *)

\* Hub.startSubscription, with h.mu held: Subscribe sends the command and
\* returns without waiting for Redis, so the connection is only "pending".
StartSubscription(t) ==
  LET s == started + 1 IN
  /\ s \in Subs
  /\ started' = s
  /\ closer'  = [closer EXCEPT ![t] = s]
  /\ subTrip' = [subTrip EXCEPT ![s] = t]
  /\ link'    = [link EXCEPT ![s] = "pending"]
  /\ bus'     = [bus EXCEPT ![s] = "run"]
  /\ fwd'     = [fwd EXCEPT ![s] = "recv"]
  /\ UNCHANGED <<inbox, out, held, targets>>

\* Hub.Register: the first local client of a trip opens its subscription.
Register(t, c) ==
  /\ group' = [group EXCEPT ![t] = @ \cup {c}]
  /\ IF group[t] = {}
       THEN StartSubscription(t)
       ELSE UNCHANGED <<closer, started, subVars>>

\* WSHandler.HandleConnection up to Register, for a valid trip id and an
\* accepted credential (every other outcome returns before any state changes).
Connect(c, t) ==
  /\ stage[c] = "none"
  /\ Register(t, c)
  /\ stage' = [stage EXCEPT ![c] = "registered"]
  /\ trip'  = [trip EXCEPT ![c] = t]
  /\ gauge' = gauge + 1
  /\ UNCHANGED <<sendq, wire, reader, writer, peer, log>>

\* Non-blocking send on Client.send: a full channel drops the message.
Offer(q, m) == IF Len(q) < SendCap THEN Append(q, m) ELSE q

\* The rest of HandleConnection: queue "connected" and start both pumps.
Greet(c) ==
  /\ stage[c] = "registered"
  /\ stage'  = [stage EXCEPT ![c] = "open"]
  /\ sendq'  = [sendq EXCEPT ![c] = Offer(@, Greeting)]
  /\ reader' = [reader EXCEPT ![c] = "run"]
  /\ writer' = [writer EXCEPT ![c] = "run"]
  /\ UNCHANGED <<hubVars, subVars, trip, wire, peer, gauge, log>>

-----------------------------------------------------------------------------
(* Closing it: Client.close runs once, in the pump that fails first; the   *)
(* other pump blocks in sync.Once until that run has finished.             *)

\* Variant without sync.Once: every pump that ends runs the teardown.
EnterCloseEveryTime(c) ==
  /\ stage' = [stage EXCEPT ![c] = IF @ = "open" THEN "closing" ELSE @]
  /\ gauge' = gauge - 1

\* once.Do, first caller: onClose decrements the gauge.
EnterClose(c) ==
  IF stage[c] = "open"
    THEN /\ stage' = [stage EXCEPT ![c] = "closing"]
         /\ gauge' = gauge - 1
    ELSE UNCHANGED <<stage, gauge>>

\* Variant that forgets to cancel the subscription of an empty group.
UnregisterKeepsSubscription(c) ==
  /\ stage[c] = "closing"
  /\ stage' = [stage EXCEPT ![c] = "unregistered"]
  /\ group' = [group EXCEPT ![trip[c]] = @ \ {c}]
  /\ UNCHANGED <<closer, started, subVars, trip, sendq, wire, reader, writer,
                 peer, gauge, log>>

\* Hub.Unregister: the last local client cancels the trip's subscription.
Unregister(c) ==
  LET t    == trip[c]
      rest == group[t] \ {c}
      s    == closer[t]
  IN
  /\ stage[c] = "closing"
  /\ stage' = [stage EXCEPT ![c] = "unregistered"]
  /\ group' = [group EXCEPT ![t] = rest]
  /\ IF rest = {} /\ s # NoSub
       THEN /\ closer' = [closer EXCEPT ![t] = NoSub]
            /\ link'   = [link EXCEPT ![s] = "off"]
       ELSE UNCHANGED <<closer, link>>
  /\ UNCHANGED <<started, subTrip, inbox, out, bus, fwd, held, targets,
                 trip, sendq, wire, reader, writer, peer, gauge, log>>

\* Variant that closes the channel before the hub forgets the client.
CloseSendTooEarly(c) ==
  /\ stage[c] \in {"closing", "unregistered"}
  /\ stage' = [stage EXCEPT ![c] = "sendclosed"]
  /\ UNCHANGED <<hubVars, subVars, trip, sendq, wire, reader, writer, peer,
                 gauge, log>>

\* close(c.send)
CloseSend(c) ==
  /\ stage[c] = "unregistered"
  /\ stage' = [stage EXCEPT ![c] = "sendclosed"]
  /\ UNCHANGED <<hubVars, subVars, trip, sendq, wire, reader, writer, peer,
                 gauge, log>>

\* c.conn.Close(), the end of the once body
CloseConn(c) ==
  /\ stage[c] = "sendclosed"
  /\ stage' = [stage EXCEPT ![c] = "closed"]
  /\ UNCHANGED <<hubVars, subVars, trip, sendq, wire, reader, writer, peer,
                 gauge, log>>

\* Variant of ReadPump without its deferred close.
ReadFailsWithoutClose(c) ==
  /\ reader[c] = "run"
  /\ peer[c] = "gone" \/ stage[c] = "closed"
  /\ reader' = [reader EXCEPT ![c] = "closing"]
  /\ UNCHANGED <<hubVars, subVars, stage, gauge, trip, sendq, wire, writer, peer, log>>

\* ReadPump: ReadMessage fails once the peer left or the socket was closed.
ReadFails(c) ==
  /\ reader[c] = "run"
  /\ peer[c] = "gone" \/ stage[c] = "closed"
  /\ reader' = [reader EXCEPT ![c] = "closing"]
  /\ EnterClose(c)
  /\ UNCHANGED <<hubVars, subVars, trip, sendq, wire, writer, peer, log>>

\* WritePump: the next frame of c.send reaches the socket.  A write to a peer
\* that left may still be accepted by the kernel.
WriteFrame(c) ==
  /\ writer[c] = "run"
  /\ sendq[c] # <<>>
  /\ stage[c] # "closed"
  /\ sendq' = [sendq EXCEPT ![c] = Tail(@)]
  /\ wire'  = [wire EXCEPT ![c] = Append(@, Head(sendq[c]))]
  /\ UNCHANGED <<hubVars, subVars, stage, trip, reader, writer, peer, gauge, log>>

\* WritePump: WriteMessage fails, or c.send is closed and drained.
WriteEnds(c) ==
  /\ writer[c] = "run"
  /\ \/ sendq[c] # <<>> /\ (peer[c] = "gone" \/ stage[c] = "closed")
     \/ sendq[c] = <<>> /\ SendClosed(c)
  /\ writer' = [writer EXCEPT ![c] = "closing"]
  /\ EnterClose(c)
  /\ UNCHANGED <<hubVars, subVars, trip, sendq, wire, reader, peer, log>>

\* Both pumps return from Client.close when the once body is over.
PumpReturns(c) ==
  /\ stage[c] = "closed"
  /\ \/ /\ reader[c] = "closing"
        /\ reader' = [reader EXCEPT ![c] = "done"]
        /\ UNCHANGED writer
     \/ /\ writer[c] = "closing"
        /\ writer' = [writer EXCEPT ![c] = "done"]
        /\ UNCHANGED reader
  /\ UNCHANGED <<hubVars, subVars, stage, trip, sendq, wire, peer, gauge, log>>

\* Environment: the remote end disconnects, or sends a frame over the read
\* limit, after which ReadMessage fails the same way.
PeerLeaves(c) ==
  /\ stage[c] # "none"
  /\ peer[c] = "up"
  /\ peer' = [peer EXCEPT ![c] = "gone"]
  /\ UNCHANGED <<hubVars, subVars, stage, trip, sendq, wire, reader, writer,
                 gauge, log>>

-----------------------------------------------------------------------------
(* Redis Pub/Sub (external) and Bus.SubscribeTrip.                         *)

\* Redis hands an event to every connection subscribed at that moment.
Publish(t, type) ==
  LET e == [id |-> Len(log) + 1, trip |-> t, type |-> type] IN
  /\ Len(log) < MaxEvents
  /\ log' = Append(log, e)
  /\ inbox' = [s \in Subs |->
                 IF link[s] = "on" /\ subTrip[s] = t THEN Append(inbox[s], e) ELSE inbox[s]]
  /\ UNCHANGED <<hubVars, subTrip, link, out, bus, fwd, held, targets, connVars>>

\* Redis processes SUBSCRIBE; go-redis re-subscribes after a broken connection.
LinkUp(s) ==
  /\ link[s] = "pending"
  /\ link' = [link EXCEPT ![s] = "on"]
  /\ UNCHANGED <<hubVars, subTrip, inbox, out, bus, fwd, held, targets, connVars, log>>

LinkBreaks(s) ==
  /\ link[s] = "on"
  /\ link' = [link EXCEPT ![s] = "pending"]
  /\ UNCHANGED <<hubVars, subTrip, inbox, out, bus, fwd, held, targets, connVars, log>>

\* One message is decoded and put on the bus channel, or dropped if it is full.
\* A cancelled goroutine may still choose this branch of its select.
BusReceive(s) ==
  /\ bus[s] = "run"
  /\ inbox[s] # <<>>
  /\ inbox' = [inbox EXCEPT ![s] = Tail(@)]
  /\ out'   = [out EXCEPT ![s] =
                 IF Len(@) < OutCap THEN Append(@, Head(inbox[s])) ELSE @]
  /\ UNCHANGED <<hubVars, subTrip, link, bus, fwd, held, targets, connVars, log>>

\* Variant that looks at ctx only after another message arrived.
BusStopsAfterMessage(s) ==
  /\ bus[s] = "run"
  /\ link[s] = "off"
  /\ inbox[s] # <<>>
  /\ bus' = [bus EXCEPT ![s] = "done"]
  /\ UNCHANGED <<hubVars, subTrip, link, inbox, out, fwd, held, targets, connVars, log>>

\* ctx.Done (or the Pub/Sub channel closed): close(out) and return.
BusStops(s) ==
  /\ bus[s] = "run"
  /\ link[s] = "off"
  /\ bus' = [bus EXCEPT ![s] = "done"]
  /\ UNCHANGED <<hubVars, subTrip, link, inbox, out, fwd, held, targets, connVars, log>>

-----------------------------------------------------------------------------
(* Hub.forwardEvents and Hub.broadcastLocal.                               *)

\* Next event of the bus channel; types that are not forwarded are skipped.
ForwardTake(s) ==
  LET e == Head(out[s]) IN
  /\ fwd[s] = "recv"
  /\ out[s] # <<>>
  /\ out' = [out EXCEPT ![s] = Tail(@)]
  /\ IF e.type \in ForwardedTypes
       THEN /\ fwd'  = [fwd EXCEPT ![s] = "hold"]
            /\ held' = [held EXCEPT ![s] = e]
       ELSE UNCHANGED <<fwd, held>>
  /\ UNCHANGED <<hubVars, subTrip, link, inbox, bus, targets, connVars, log>>

\* Variant that broadcasts to the clients of every trip.
ForwardSnapshotOfAll(s) ==
  /\ fwd[s] = "hold"
  /\ targets' = [targets EXCEPT ![s] = UNION {group[t] : t \in Trips}]
  /\ fwd' = [fwd EXCEPT ![s] = IF group[subTrip[s]] = {} THEN "recv" ELSE "send"]
  /\ UNCHANGED <<hubVars, subTrip, link, inbox, out, bus, held, connVars, log>>

\* The snapshot of the group taken under h.mu.RLock.
ForwardSnapshot(s) ==
  /\ fwd[s] = "hold"
  /\ targets' = [targets EXCEPT ![s] = group[subTrip[s]]]
  /\ fwd' = [fwd EXCEPT ![s] = IF group[subTrip[s]] = {} THEN "recv" ELSE "send"]
  /\ UNCHANGED <<hubVars, subTrip, link, inbox, out, bus, held, connVars, log>>

\* One non-blocking send outside the lock, in map order.
ForwardSend(s, c) ==
  /\ fwd[s] = "send"
  /\ c \in targets[s]
  /\ ~SendClosed(c)
  /\ sendq'   = [sendq EXCEPT ![c] = Offer(@, held[s])]
  /\ targets' = [targets EXCEPT ![s] = @ \ {c}]
  /\ fwd' = [fwd EXCEPT ![s] = IF targets[s] = {c} THEN "recv" ELSE "send"]
  /\ UNCHANGED <<hubVars, subTrip, link, inbox, out, bus, held,
                 stage, trip, wire, reader, writer, peer, gauge, log>>

\* The same send when Client.close has closed the channel in the meantime: the
\* panic is in a goroutine of the hub, which nothing recovers.
ForwardPanics(s, c) ==
  /\ fwd[s] = "send"
  /\ c \in targets[s]
  /\ SendClosed(c)
  /\ crashed' = TRUE
  /\ UNCHANGED <<hubVars, subVars, connVars, log>>

\* range over the closed and drained bus channel ends.
ForwardStops(s) ==
  /\ fwd[s] = "recv"
  /\ out[s] = <<>>
  /\ bus[s] = "done"
  /\ fwd' = [fwd EXCEPT ![s] = "done"]
  /\ UNCHANGED <<hubVars, subTrip, link, inbox, out, bus, held, targets, connVars, log>>

-----------------------------------------------------------------------------
\* Greet runs in the request goroutine, the once body in one of the pumps.
CloseStep(c) == Greet(c) \/ Unregister(c) \/ CloseSend(c) \/ CloseConn(c) \/ PumpReturns(c)

BusStep(s) == BusReceive(s) \/ BusStops(s)

ForwardStep(s) ==
  \/ ForwardTake(s)
  \/ ForwardSnapshot(s)
  \/ \E c \in Clients : ForwardSend(s, c)
  \/ ForwardStops(s)

EnvStep ==
  \/ \E c \in Clients, t \in Trips : Connect(c, t)
  \/ \E c \in Clients : PeerLeaves(c)
  \/ \E t \in Trips, type \in Published : Publish(t, type)
  \/ \E s \in Subs : LinkUp(s) \/ LinkBreaks(s)

Alive == ~crashed /\ UNCHANGED crashed

Next ==
  \/ Alive /\ \E c \in Clients : CloseStep(c) \/ ReadFails(c) \/ WriteFrame(c) \/ WriteEnds(c)
  \/ Alive /\ \E s \in Subs : BusStep(s) \/ ForwardStep(s)
  \/ Alive /\ EnvStep
  \/ ~crashed /\ \E s \in Subs, c \in Clients : ForwardPanics(s, c)

Spec == Init /\ [][Next]_vars

(***************************************************************************)
(* Fairness: the Go scheduler runs every runnable goroutine again, so each *)
(* goroutine that stays runnable takes a step.  Nothing is promised about  *)
(* clients coming or leaving, about Redis, or about a frame reaching the   *)
(* peer (WriteMessage has no deadline and may block as long as the peer    *)
(* does not read).                                                         *)
(***************************************************************************)
Fairness ==
  /\ \A c \in Clients :
       /\ WF_vars(Alive /\ CloseStep(c))
       /\ WF_vars(Alive /\ ReadFails(c))
       /\ WF_vars(Alive /\ WriteEnds(c))
  /\ \A s \in Subs :
       /\ WF_vars(Alive /\ BusStep(s))
       /\ WF_vars(\/ Alive /\ ForwardStep(s)
                  \/ ~crashed /\ \E c \in Clients : ForwardPanics(s, c))

FairSpec == Spec /\ Fairness

-----------------------------------------------------------------------------
(* Properties.                                                             *)

HubTypeOK ==
  /\ group   \in [Trips -> SUBSET Clients]
  /\ closer  \in [Trips -> Subs \cup {NoSub}]
  /\ started \in 0..MaxSubs

SubTypeOK ==
  /\ subTrip \in [Subs -> Trips \cup {NoTrip}]
  /\ link    \in [Subs -> {"none", "pending", "on", "off"}]
  /\ inbox   \in [Subs -> Seq(Event)]
  /\ out     \in [Subs -> Seq(Event)]
  /\ bus     \in [Subs -> {"none", "run", "done"}]
  /\ fwd     \in [Subs -> {"none", "recv", "hold", "send", "done"}]
  /\ held    \in [Subs -> Frame]
  /\ targets \in [Subs -> SUBSET Clients]

ConnTypeOK ==
  /\ stage   \in [Clients -> Stages]
  /\ trip    \in [Clients -> Trips \cup {NoTrip}]
  /\ sendq   \in [Clients -> Seq(Frame)]
  /\ wire    \in [Clients -> Seq(Frame)]
  /\ reader  \in [Clients -> Pump]
  /\ writer  \in [Clients -> Pump]
  /\ peer    \in [Clients -> {"up", "gone"}]
  /\ gauge   \in Nat

\* Type invariant of the hub, the subscriptions and the connections.
TypeOK ==
  /\ HubTypeOK
  /\ SubTypeOK
  /\ ConnTypeOK
  /\ log \in Seq(Event)
  /\ crashed \in BOOLEAN

\* Hub.clients and Hub.closers agree however connections and disconnections
\* interleave: a trip has a closer exactly while it has local clients, the
\* closer stands for a live Redis connection to that very trip, and every live
\* Redis connection is held by a closer, so none can leak.
OneLiveSubscription ==
  /\ \A t \in Trips : group[t] = {} <=> closer[t] = NoSub
  /\ \A t \in Trips : closer[t] # NoSub =>
       /\ closer[t] <= started
       /\ subTrip[closer[t]] = t
       /\ link[closer[t]] \in {"pending", "on"}
  /\ \A s \in Subs : link[s] \in {"pending", "on"} =>
       subTrip[s] \in Trips /\ closer[subTrip[s]] = s

\* The hub lists a client under the trip it asked for, and only there, from
\* Register until Unregister: a client whose send channel is closed is never in
\* a group, whichever pump ran Client.close.
GroupsMatchConnections ==
  \A c \in Clients, t \in Trips :
    c \in group[t] <=> trip[c] = t /\ stage[c] \in {"registered", "open", "closing"}

\* Connections that have not begun to close.
Counted == {c \in Clients : stage[c] \in {"registered", "open"}}

\* middleware.WSConnections counts the connections that have not begun to close:
\* onClose runs once per connection even when both pumps fail together.
GaugeCountsOpen == gauge = Cardinality(Counted)

\* Frames queued for or written to client c, oldest first.
Feed(c) == wire[c] \o sendq[c]

\* Messages are only ever received, queued and broadcast by the subscription of
\* their own trip, and a waiting forwarder only holds clients of that trip.
NoCrossTalk ==
  /\ \A s \in Subs : \A i \in 1..Len(inbox[s]) : inbox[s][i].trip = subTrip[s]
  /\ \A s \in Subs : \A i \in 1..Len(out[s]) : out[s][i].trip = subTrip[s]
  /\ \A s \in Subs : fwd[s] \in {"hold", "send"} => held[s].trip = subTrip[s]
  /\ \A s \in Subs : \A c \in targets[s] : trip[c] = subTrip[s]
  /\ \A c \in Clients : \A i \in 1..Len(sendq[c]) : sendq[c][i].trip \in {trip[c], NoTrip}
  /\ \A c \in Clients : \A i \in 1..Len(wire[c]) : wire[c][i].trip \in {trip[c], NoTrip}

\* What the hub promises its clients: see TripFeed.  An event is queued at most
\* once for a client, even when the trip's subscription was cancelled and
\* reopened while the event was on its way.
Promise == INSTANCE TripFeed WITH
  joined <- [c \in Clients |-> stage[c] # "none"],
  left   <- [c \in Clients |-> SendClosed(c)],
  feed   <- [c \in Clients |-> Feed(c)],
  dead   <- crashed

DeliversAtMostOnce == Promise!Spec

\* Once the peer is gone the connection is torn down completely: both pumps
\* return, the socket is closed and the hub forgets the client.
DeadPeersAreReaped ==
  \A c \in Clients :
    (peer[c] = "gone") ~> (crashed \/ (stage[c] = "closed" /\ reader[c] = "done" /\ writer[c] = "done"))

\* A subscription that lost its last client ends: the bus goroutine closes its
\* channel and forwardEvents returns, so neither goroutine leaks.
SubscriptionsDrain ==
  \A s \in Subs :
    (bus[s] = "run" /\ closer[subTrip[s]] # s) ~> (crashed \/ fwd[s] = "done")

\* hub.go: "each unique trip with local subscribers gets exactly ONE Redis
\* Pub/Sub goroutine".
OneForwarderPerTrip ==
  \A t \in Trips : group[t] # {} =>
    Cardinality({s \in Subs : subTrip[s] = t /\ bus[s] = "run"}) = 1

\* hub.go: a client that cannot take a message only loses that message.
BroadcastNeverPanics == ~crashed
=============================================================================
