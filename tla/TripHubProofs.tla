--------------------------- MODULE TripHubProofs ---------------------------
(***************************************************************************)
(* Machine-checked facts about TripHub, for any sets of trips and clients, *)
(* any channel capacities and any number of events: its type invariant,    *)
(* the agreement of the hub's two maps with the connections and with the   *)
(* Redis subscriptions, the exactness of the connection gauge; and what    *)
(* the hub delivers: no message crosses from one trip to another, and      *)
(* TripHub implements TripFeed, so a client is sent an event at most once  *)
(* even when its trip's subscription was cancelled and reopened meanwhile. *)
(***************************************************************************)
EXTENDS TripHub, TLAPS, FiniteSetTheorems

\* What the invariants need besides themselves: subscriptions are numbered in
\* the order they start, and a started one knows its trip.
Bookkeeping ==
  /\ \A c \in Clients : stage[c] # "none" => trip[c] \in Trips
  /\ \A c \in Clients : stage[c] = "none" => trip[c] = NoTrip
  /\ \A s \in Subs : s <= started <=> link[s] # "none"
  /\ \A s \in Subs : link[s] # "none" => subTrip[s] \in Trips
  /\ \A s \in Subs : fwd[s] # "none" => link[s] # "none"

\* The inductive invariant.
HubInv ==
  /\ TypeOK
  /\ Bookkeeping
  /\ OneLiveSubscription
  /\ GroupsMatchConnections
  /\ GaugeCountsOpen

\* Sequences keep the type of their elements.
LEMMA QueueTypes ==
  ASSUME NEW S, NEW q \in Seq(S)
  PROVE  /\ q # <<>> => Head(q) \in S /\ Tail(q) \in Seq(S)
         /\ \A m \in S : Append(q, m) \in Seq(S) /\ Offer(q, m) \in Seq(S)
BY DEF Offer

\* While a connection is counted the gauge is positive.
LEMMA CountedPositive ==
  ASSUME HubInv, NEW c \in Counted
  PROVE  gauge \in Nat \ {0}
<1>1. IsFiniteSet(Counted)
  BY IdsAssumption, FS_Subset DEF Counted
<1>2. Cardinality(Counted) # 0
  BY <1>1, FS_EmptySet
<1>. QED
  BY <1>2 DEF HubInv, TypeOK, ConnTypeOK, GaugeCountsOpen

\* Every step preserves the types of the hub's maps.
LEMMA HubTypeStep ==
  ASSUME HubTypeOK, Bookkeeping, [Next]_vars
  PROVE  HubTypeOK'
<1> USE DEF HubTypeOK
<1>1. CASE Alive /\ \E c \in Clients, t \in Trips : Connect(c, t)
  <2>1. PICK c \in Clients, t \in Trips : Connect(c, t)
    BY <1>1
  <2>2. CASE group[t] = {}
    BY <2>1, <2>2, BoundsAssumption DEF Connect, Register, StartSubscription, Subs
  <2>3. CASE group[t] # {}
    BY <2>1, <2>3 DEF Connect, Register
  <2>. QED
    BY <2>2, <2>3
<1>2. CASE Alive /\ \E c \in Clients : Greet(c)
  BY <1>2 DEF Greet, Alive, hubVars, subVars, connVars, Offer, Greeting, Frame
<1>3. CASE Alive /\ \E c \in Clients : Unregister(c)
  <2>1. PICK c \in Clients : Unregister(c)
    BY <1>3
  <2>2. trip[c] \in Trips
    BY <2>1 DEF Bookkeeping, Unregister
  <2>. QED
    BY <2>1, <2>2 DEF Unregister
<1>4. CASE Alive /\ \E c \in Clients : CloseSend(c)
  BY <1>4 DEF CloseSend, Alive, hubVars, subVars, connVars
<1>5. CASE Alive /\ \E c \in Clients : CloseConn(c)
  BY <1>5 DEF CloseConn, Alive, hubVars, subVars, connVars
<1>6. CASE Alive /\ \E c \in Clients : PumpReturns(c)
  BY <1>6 DEF PumpReturns, Alive, hubVars, subVars, connVars
<1>7. CASE Alive /\ \E c \in Clients : ReadFails(c)
  BY <1>7 DEF ReadFails, Alive, hubVars, subVars, connVars, EnterClose
<1>8. CASE Alive /\ \E c \in Clients : WriteFrame(c)
  BY <1>8 DEF WriteFrame, Alive, hubVars, subVars, connVars
<1>9. CASE Alive /\ \E c \in Clients : WriteEnds(c)
  BY <1>9 DEF WriteEnds, Alive, hubVars, subVars, connVars, EnterClose
<1>10. CASE Alive /\ \E s \in Subs : BusReceive(s)
  BY <1>10 DEF BusReceive, Alive, hubVars, subVars, connVars
<1>11. CASE Alive /\ \E s \in Subs : BusStops(s)
  BY <1>11 DEF BusStops, Alive, hubVars, subVars, connVars
<1>12. CASE Alive /\ \E s \in Subs : ForwardTake(s)
  BY <1>12 DEF ForwardTake, Alive, hubVars, subVars, connVars, Frame
<1>13. CASE Alive /\ \E s \in Subs : ForwardSnapshot(s)
  BY <1>13 DEF ForwardSnapshot, Alive, hubVars, subVars, connVars
<1>14. CASE Alive /\ \E s \in Subs, c \in Clients : ForwardSend(s, c)
  BY <1>14 DEF ForwardSend, Alive, hubVars, subVars, connVars, Offer
<1>15. CASE Alive /\ \E s \in Subs : ForwardStops(s)
  BY <1>15 DEF ForwardStops, Alive, hubVars, subVars, connVars
<1>16. CASE Alive /\ \E c \in Clients : PeerLeaves(c)
  BY <1>16 DEF PeerLeaves, Alive, hubVars, subVars, connVars
<1>17. CASE Alive /\ \E t \in Trips, type \in Published : Publish(t, type)
  BY <1>17 DEF Publish, Alive, hubVars, subVars, connVars, Event, EventTypes
<1>18. CASE Alive /\ \E s \in Subs : LinkUp(s)
  BY <1>18 DEF LinkUp, Alive, hubVars, subVars, connVars
<1>19. CASE Alive /\ \E s \in Subs : LinkBreaks(s)
  BY <1>19 DEF LinkBreaks, Alive, hubVars, subVars, connVars
<1>20. CASE \E s \in Subs, c \in Clients : ForwardPanics(s, c)
  BY <1>20 DEF ForwardPanics, Alive, hubVars, subVars, connVars
<1>21. CASE UNCHANGED vars
  BY <1>21 DEF vars, hubVars, subVars, connVars
<1>. QED
  BY <1>1, <1>2, <1>3, <1>4, <1>5, <1>6, <1>7, <1>8, <1>9, <1>10, <1>11, <1>12, <1>13, <1>14, <1>15, <1>16, <1>17, <1>18, <1>19, <1>20, <1>21 DEF Next, CloseStep, BusStep, ForwardStep, EnvStep, Alive

\* Every step preserves the types of the subscriptions.
LEMMA SubTypeStep ==
  ASSUME TypeOK, Bookkeeping, [Next]_vars
  PROVE  SubTypeOK'
<1> USE DEF TypeOK, SubTypeOK
<1>1. CASE Alive /\ \E c \in Clients, t \in Trips : Connect(c, t)
  <2>1. PICK c \in Clients, t \in Trips : Connect(c, t)
    BY <1>1
  <2>2. CASE group[t] = {}
    <3>1. started + 1 \in Subs
      BY <2>1, <2>2 DEF Connect, Register, StartSubscription
    <3>. QED
      BY <2>1, <2>2, <3>1, ZenonT(60) DEF Connect, Register, StartSubscription
  <2>3. CASE group[t] # {}
    BY <2>1, <2>3 DEF Connect, Register, subVars
  <2>. QED
    BY <2>2, <2>3
<1>2. CASE Alive /\ \E c \in Clients : Greet(c)
  BY <1>2 DEF Greet, Alive, hubVars, subVars, connVars, Offer, Greeting, Frame
<1>3. CASE Alive /\ \E c \in Clients : Unregister(c)
  <2>1. PICK c \in Clients : Unregister(c)
    BY <1>3
  <2>2. trip[c] \in Trips
    BY <2>1 DEF Bookkeeping, Unregister
  <2>. QED
    BY <2>1, <2>2 DEF Unregister, HubTypeOK
<1>4. CASE Alive /\ \E c \in Clients : CloseSend(c)
  BY <1>4 DEF CloseSend, Alive, hubVars, subVars, connVars
<1>5. CASE Alive /\ \E c \in Clients : CloseConn(c)
  BY <1>5 DEF CloseConn, Alive, hubVars, subVars, connVars
<1>6. CASE Alive /\ \E c \in Clients : PumpReturns(c)
  BY <1>6 DEF PumpReturns, Alive, hubVars, subVars, connVars
<1>7. CASE Alive /\ \E c \in Clients : ReadFails(c)
  BY <1>7 DEF ReadFails, Alive, hubVars, subVars, connVars, EnterClose
<1>8. CASE Alive /\ \E c \in Clients : WriteFrame(c)
  BY <1>8 DEF WriteFrame, Alive, hubVars, subVars, connVars
<1>9. CASE Alive /\ \E c \in Clients : WriteEnds(c)
  BY <1>9 DEF WriteEnds, Alive, hubVars, subVars, connVars, EnterClose
<1>10. CASE Alive /\ \E s \in Subs : BusReceive(s)
  <2>1. PICK s \in Subs : BusReceive(s)
    BY <1>10
  <2>2. Head(inbox[s]) \in Event /\ Tail(inbox[s]) \in Seq(Event)
    BY <2>1, QueueTypes DEF BusReceive
  <2>3. Append(out[s], Head(inbox[s])) \in Seq(Event)
    BY <2>2, QueueTypes
  <2>. QED
    BY <2>1, <2>2, <2>3 DEF BusReceive
<1>11. CASE Alive /\ \E s \in Subs : BusStops(s)
  BY <1>11 DEF BusStops, Alive, hubVars, subVars, connVars
<1>12. CASE Alive /\ \E s \in Subs : ForwardTake(s)
  <2>1. PICK s \in Subs : ForwardTake(s)
    BY <1>12
  <2>2. Head(out[s]) \in Frame /\ Tail(out[s]) \in Seq(Event)
    BY <2>1, QueueTypes DEF ForwardTake, Frame
  <2>. QED
    BY <2>1, <2>2 DEF ForwardTake
<1>13. CASE Alive /\ \E s \in Subs : ForwardSnapshot(s)
  <2>1. PICK s \in Subs : ForwardSnapshot(s)
    BY <1>13
  <2>2. subTrip[s] \in Trips
    BY <2>1 DEF Bookkeeping, ForwardSnapshot
  <2>3. group[subTrip[s]] \in SUBSET Clients
    BY <2>2 DEF HubTypeOK
  <2>. QED
    BY <2>1, <2>3 DEF ForwardSnapshot
<1>14. CASE Alive /\ \E s \in Subs, c \in Clients : ForwardSend(s, c)
  BY <1>14 DEF ForwardSend, Alive, hubVars, subVars, connVars, Offer
<1>15. CASE Alive /\ \E s \in Subs : ForwardStops(s)
  BY <1>15 DEF ForwardStops, Alive, hubVars, subVars, connVars
<1>16. CASE Alive /\ \E c \in Clients : PeerLeaves(c)
  BY <1>16 DEF PeerLeaves, Alive, hubVars, subVars, connVars
<1>17. CASE Alive /\ \E t \in Trips, type \in Published : Publish(t, type)
  <2>1. PICK t \in Trips, type \in Published : Publish(t, type)
    BY <1>17
  <2> DEFINE e == [id |-> Len(log) + 1, trip |-> t, type |-> type]
  <2>2. e \in Event
    BY <2>1, BoundsAssumption, IdsAssumption DEF Publish, Event
  <2>3. \A s \in Subs : Append(inbox[s], e) \in Seq(Event)
    BY <2>2, QueueTypes
  <2>4. inbox' \in [Subs -> Seq(Event)]
    BY <2>1, <2>3 DEF Publish
  <2>. QED
    BY <2>1, <2>4 DEF Publish
<1>18. CASE Alive /\ \E s \in Subs : LinkUp(s)
  BY <1>18 DEF LinkUp, Alive, hubVars, subVars, connVars
<1>19. CASE Alive /\ \E s \in Subs : LinkBreaks(s)
  BY <1>19 DEF LinkBreaks, Alive, hubVars, subVars, connVars
<1>20. CASE \E s \in Subs, c \in Clients : ForwardPanics(s, c)
  BY <1>20 DEF ForwardPanics, Alive, hubVars, subVars, connVars
<1>21. CASE UNCHANGED vars
  BY <1>21 DEF vars, hubVars, subVars, connVars
<1>. QED
  BY <1>1, <1>2, <1>3, <1>4, <1>5, <1>6, <1>7, <1>8, <1>9, <1>10, <1>11, <1>12, <1>13, <1>14, <1>15, <1>16, <1>17, <1>18, <1>19, <1>20, <1>21 DEF Next, CloseStep, BusStep, ForwardStep, EnvStep, Alive

\* Every step preserves the types of the connections.
LEMMA ConnTypeStep ==
  ASSUME HubInv, [Next]_vars
  PROVE  ConnTypeOK'
<1> USE DEF HubInv, TypeOK, ConnTypeOK, Stages, Pump
<1>1. CASE Alive /\ \E c \in Clients, t \in Trips : Connect(c, t)
  BY <1>1 DEF Connect, Alive, hubVars, subVars, connVars, Register, StartSubscription
<1>2. CASE Alive /\ \E c \in Clients : Greet(c)
  <2>1. PICK c \in Clients : Greet(c)
    BY <1>2
  <2>2. Offer(sendq[c], Greeting) \in Seq(Frame)
    BY QueueTypes DEF Frame
  <2>. QED
    BY <2>1, <2>2 DEF Greet
<1>3. CASE Alive /\ \E c \in Clients : Unregister(c)
  BY <1>3 DEF Unregister, Alive, hubVars, subVars, connVars
<1>4. CASE Alive /\ \E c \in Clients : CloseSend(c)
  BY <1>4 DEF CloseSend, Alive, hubVars, subVars, connVars
<1>5. CASE Alive /\ \E c \in Clients : CloseConn(c)
  BY <1>5 DEF CloseConn, Alive, hubVars, subVars, connVars
<1>6. CASE Alive /\ \E c \in Clients : PumpReturns(c)
  <2>1. PICK c \in Clients : PumpReturns(c)
    BY <1>6
  <2>2. CASE reader' = [reader EXCEPT ![c] = "done"] /\ UNCHANGED writer
    BY <2>1, <2>2 DEF PumpReturns
  <2>3. CASE writer' = [writer EXCEPT ![c] = "done"] /\ UNCHANGED reader
    BY <2>1, <2>3 DEF PumpReturns
  <2>. QED
    BY <2>1, <2>2, <2>3 DEF PumpReturns
<1>7. CASE Alive /\ \E c \in Clients : ReadFails(c)
  <2>1. PICK c \in Clients : ReadFails(c)
    BY <1>7
  <2>2. CASE stage[c] = "open"
    <3>1. gauge - 1 \in Nat
      BY <2>2, CountedPositive DEF Counted
    <3>. QED
      BY <2>1, <2>2, <3>1 DEF ReadFails, EnterClose
  <2>3. CASE stage[c] # "open"
    BY <2>1, <2>3 DEF ReadFails, EnterClose
  <2>. QED
    BY <2>2, <2>3
<1>8. CASE Alive /\ \E c \in Clients : WriteFrame(c)
  <2>1. PICK c \in Clients : WriteFrame(c)
    BY <1>8
  <2>2. Head(sendq[c]) \in Frame /\ Tail(sendq[c]) \in Seq(Frame)
    BY <2>1, QueueTypes DEF WriteFrame
  <2>3. Append(wire[c], Head(sendq[c])) \in Seq(Frame)
    BY <2>2, QueueTypes
  <2>. QED
    BY <2>1, <2>2, <2>3 DEF WriteFrame
<1>9. CASE Alive /\ \E c \in Clients : WriteEnds(c)
  <2>1. PICK c \in Clients : WriteEnds(c)
    BY <1>9
  <2>2. CASE stage[c] = "open"
    <3>1. gauge - 1 \in Nat
      BY <2>2, CountedPositive DEF Counted
    <3>. QED
      BY <2>1, <2>2, <3>1 DEF WriteEnds, EnterClose
  <2>3. CASE stage[c] # "open"
    BY <2>1, <2>3 DEF WriteEnds, EnterClose
  <2>. QED
    BY <2>2, <2>3
<1>10. CASE Alive /\ \E s \in Subs : BusReceive(s)
  BY <1>10 DEF BusReceive, Alive, hubVars, subVars, connVars
<1>11. CASE Alive /\ \E s \in Subs : BusStops(s)
  BY <1>11 DEF BusStops, Alive, hubVars, subVars, connVars
<1>12. CASE Alive /\ \E s \in Subs : ForwardTake(s)
  BY <1>12 DEF ForwardTake, Alive, hubVars, subVars, connVars, Frame
<1>13. CASE Alive /\ \E s \in Subs : ForwardSnapshot(s)
  BY <1>13 DEF ForwardSnapshot, Alive, hubVars, subVars, connVars
<1>14. CASE Alive /\ \E s \in Subs, c \in Clients : ForwardSend(s, c)
  <2>1. PICK s \in Subs, c \in Clients : ForwardSend(s, c)
    BY <1>14
  <2>2. Offer(sendq[c], held[s]) \in Seq(Frame)
    BY QueueTypes DEF SubTypeOK
  <2>. QED
    BY <2>1, <2>2 DEF ForwardSend
<1>15. CASE Alive /\ \E s \in Subs : ForwardStops(s)
  BY <1>15 DEF ForwardStops, Alive, hubVars, subVars, connVars
<1>16. CASE Alive /\ \E c \in Clients : PeerLeaves(c)
  BY <1>16 DEF PeerLeaves, Alive, hubVars, subVars, connVars
<1>17. CASE Alive /\ \E t \in Trips, type \in Published : Publish(t, type)
  BY <1>17 DEF Publish, Alive, hubVars, subVars, connVars, Event, EventTypes
<1>18. CASE Alive /\ \E s \in Subs : LinkUp(s)
  BY <1>18 DEF LinkUp, Alive, hubVars, subVars, connVars
<1>19. CASE Alive /\ \E s \in Subs : LinkBreaks(s)
  BY <1>19 DEF LinkBreaks, Alive, hubVars, subVars, connVars
<1>20. CASE \E s \in Subs, c \in Clients : ForwardPanics(s, c)
  BY <1>20 DEF ForwardPanics, Alive, hubVars, subVars, connVars
<1>21. CASE UNCHANGED vars
  BY <1>21 DEF vars, hubVars, subVars, connVars
<1>. QED
  BY <1>1, <1>2, <1>3, <1>4, <1>5, <1>6, <1>7, <1>8, <1>9, <1>10, <1>11, <1>12, <1>13, <1>14, <1>15, <1>16, <1>17, <1>18, <1>19, <1>20, <1>21 DEF Next, CloseStep, BusStep, ForwardStep, EnvStep, Alive

\* Every step preserves the bookkeeping.
LEMMA BookkeepingStep ==
  ASSUME TypeOK, Bookkeeping, OneLiveSubscription, [Next]_vars
  PROVE  Bookkeeping'
<1> USE DEF TypeOK, Bookkeeping
<1>1. CASE Alive /\ \E c \in Clients, t \in Trips : Connect(c, t)
  <2>1. PICK c \in Clients, t \in Trips : Connect(c, t)
    BY <1>1
  <2>2. CASE group[t] = {}
    <3>1. started \in Nat /\ started' = started + 1 /\ started + 1 \in Subs
      BY <2>1, <2>2, BoundsAssumption DEF Connect, Register, StartSubscription, HubTypeOK
    <3>2. \A s \in Subs : s <= started + 1 <=> (s <= started \/ s = started + 1)
      BY <3>1, BoundsAssumption DEF Subs
    <3>3. \A x \in Clients :
            /\ stage'[x] # "none" => trip'[x] \in Trips
            /\ stage'[x] = "none" => trip'[x] = NoTrip
      BY <2>1 DEF Connect, ConnTypeOK
    <3>4. \A s \in Subs :
            /\ link'[s] = IF s = started + 1 THEN "pending" ELSE link[s]
            /\ subTrip'[s] = IF s = started + 1 THEN t ELSE subTrip[s]
            /\ fwd'[s] = IF s = started + 1 THEN "recv" ELSE fwd[s]
      BY <2>1, <2>2, <3>1 DEF Connect, Register, StartSubscription, SubTypeOK
    <3>. QED
      BY <3>1, <3>2, <3>3, <3>4
  <2>3. CASE group[t] # {}
    BY <2>1, <2>3 DEF Connect, Register, subVars, ConnTypeOK
  <2>. QED
    BY <2>2, <2>3
<1>2. CASE Alive /\ \E c \in Clients : Greet(c)
  BY <1>2 DEF Greet, Alive, hubVars, subVars, connVars, SubTypeOK, ConnTypeOK, EnterClose
<1>3. CASE Alive /\ \E c \in Clients : Unregister(c)
  <2>1. PICK c \in Clients : Unregister(c)
    BY <1>3
  <2>2. closer[trip[c]] \in Subs \cup {NoSub}
    BY <2>1 DEF Unregister, HubTypeOK
  <2>3. link' = link \/ \E s \in Subs : link[s] # "none" /\ link' = [link EXCEPT ![s] = "off"]
    BY <2>1, <2>2 DEF Unregister, OneLiveSubscription
  <2>. QED
    BY <2>1, <2>3 DEF Unregister, SubTypeOK, ConnTypeOK
<1>4. CASE Alive /\ \E c \in Clients : CloseSend(c)
  BY <1>4 DEF CloseSend, Alive, hubVars, subVars, connVars, SubTypeOK, ConnTypeOK, EnterClose
<1>5. CASE Alive /\ \E c \in Clients : CloseConn(c)
  BY <1>5 DEF CloseConn, Alive, hubVars, subVars, connVars, SubTypeOK, ConnTypeOK, EnterClose
<1>6. CASE Alive /\ \E c \in Clients : PumpReturns(c)
  BY <1>6 DEF PumpReturns, Alive, hubVars, subVars, connVars
<1>7. CASE Alive /\ \E c \in Clients : ReadFails(c)
  BY <1>7 DEF ReadFails, Alive, hubVars, subVars, connVars, SubTypeOK, ConnTypeOK, EnterClose
<1>8. CASE Alive /\ \E c \in Clients : WriteFrame(c)
  BY <1>8 DEF WriteFrame, Alive, hubVars, subVars, connVars
<1>9. CASE Alive /\ \E c \in Clients : WriteEnds(c)
  BY <1>9 DEF WriteEnds, Alive, hubVars, subVars, connVars, SubTypeOK, ConnTypeOK, EnterClose
<1>10. CASE Alive /\ \E s \in Subs : BusReceive(s)
  BY <1>10 DEF BusReceive, Alive, hubVars, subVars, connVars
<1>11. CASE Alive /\ \E s \in Subs : BusStops(s)
  BY <1>11 DEF BusStops, Alive, hubVars, subVars, connVars
<1>12. CASE Alive /\ \E s \in Subs : ForwardTake(s)
  BY <1>12 DEF ForwardTake, Alive, hubVars, subVars, connVars, SubTypeOK, ConnTypeOK, EnterClose
<1>13. CASE Alive /\ \E s \in Subs : ForwardSnapshot(s)
  BY <1>13 DEF ForwardSnapshot, Alive, hubVars, subVars, connVars, SubTypeOK, ConnTypeOK, EnterClose
<1>14. CASE Alive /\ \E s \in Subs, c \in Clients : ForwardSend(s, c)
  BY <1>14 DEF ForwardSend, Alive, hubVars, subVars, connVars, SubTypeOK, ConnTypeOK, EnterClose
<1>15. CASE Alive /\ \E s \in Subs : ForwardStops(s)
  BY <1>15 DEF ForwardStops, Alive, hubVars, subVars, connVars, SubTypeOK, ConnTypeOK, EnterClose
<1>16. CASE Alive /\ \E c \in Clients : PeerLeaves(c)
  BY <1>16 DEF PeerLeaves, Alive, hubVars, subVars, connVars
<1>17. CASE Alive /\ \E t \in Trips, type \in Published : Publish(t, type)
  BY <1>17 DEF Publish, Alive, hubVars, subVars, connVars, Event, EventTypes
<1>18. CASE Alive /\ \E s \in Subs : LinkUp(s)
  BY <1>18 DEF LinkUp, Alive, hubVars, subVars, connVars, SubTypeOK, ConnTypeOK, EnterClose
<1>19. CASE Alive /\ \E s \in Subs : LinkBreaks(s)
  BY <1>19 DEF LinkBreaks, Alive, hubVars, subVars, connVars, SubTypeOK, ConnTypeOK, EnterClose
<1>20. CASE \E s \in Subs, c \in Clients : ForwardPanics(s, c)
  BY <1>20 DEF ForwardPanics, Alive, hubVars, subVars, connVars
<1>21. CASE UNCHANGED vars
  BY <1>21 DEF vars, hubVars, subVars, connVars
<1>. QED
  BY <1>1, <1>2, <1>3, <1>4, <1>5, <1>6, <1>7, <1>8, <1>9, <1>10, <1>11, <1>12, <1>13, <1>14, <1>15, <1>16, <1>17, <1>18, <1>19, <1>20, <1>21 DEF Next, CloseStep, BusStep, ForwardStep, EnvStep, Alive

\* Every step preserves the agreement of closers, groups and Redis connections.
LEMMA SubscriptionStep ==
  ASSUME HubInv, [Next]_vars
  PROVE  OneLiveSubscription'
<1> USE DEF HubInv, TypeOK, HubTypeOK, OneLiveSubscription
<1>1. CASE Alive /\ \E c \in Clients, t \in Trips : Connect(c, t)
  <2>1. PICK c \in Clients, t \in Trips : Connect(c, t)
    BY <1>1
  <2>2. CASE group[t] = {}
    <3> DEFINE s == started + 1
    <3>1. s \in Subs /\ started' = s /\ \A x \in Subs : x <= started => x <= s /\ x # s
      BY <2>1, <2>2, BoundsAssumption DEF Connect, Register, StartSubscription, Subs
    <3>2. closer[t] = NoSub /\ link[s] = "none"
      BY <2>2, <3>1, BoundsAssumption DEF Bookkeeping, Subs
    <3>3. /\ closer' = [closer EXCEPT ![t] = s]
          /\ group' = [group EXCEPT ![t] = group[t] \cup {c}]
          /\ link' = [link EXCEPT ![s] = "pending"]
          /\ subTrip' = [subTrip EXCEPT ![s] = t]
      BY <2>1, <2>2 DEF Connect, Register, StartSubscription
    <3>4. s # NoSub /\ s <= s /\ NoSub \notin Subs
      BY <3>1, IdsAssumption, BoundsAssumption DEF Subs
    <3> HIDE DEF s
    <3>5. \A u \in Trips : closer'[u] = (IF u = t THEN s ELSE closer[u])
      BY <3>3
    <3>6. \A x \in Subs : /\ link'[x] = (IF x = s THEN "pending" ELSE link[x])
                         /\ subTrip'[x] = (IF x = s THEN t ELSE subTrip[x])
      BY <3>3 DEF SubTypeOK
    <3>7. \A u \in Trips : group'[u] = {} <=> closer'[u] = NoSub
      BY <3>3, <3>4, <3>5
    <3>8. \A u \in Trips : closer'[u] # NoSub =>
            /\ closer'[u] <= started'
            /\ subTrip'[closer'[u]] = u
            /\ link'[closer'[u]] \in {"pending", "on"}
      BY <3>1, <3>4, <3>5, <3>6
    <3>9. \A x \in Subs : link'[x] \in {"pending", "on"} =>
            subTrip'[x] \in Trips /\ closer'[subTrip'[x]] = x
      BY <3>1, <3>2, <3>4, <3>5, <3>6
    <3>. QED
      BY <3>7, <3>8, <3>9
  <2>3. CASE group[t] # {}
    BY <2>1, <2>3 DEF Connect, Register, subVars
  <2>. QED
    BY <2>2, <2>3
<1>2. CASE Alive /\ \E c \in Clients : Greet(c)
  BY <1>2 DEF Greet, Alive, hubVars, subVars, connVars, Offer, Greeting, Frame
<1>3. CASE Alive /\ \E c \in Clients : Unregister(c)
  <2>1. PICK c \in Clients : Unregister(c)
    BY <1>3
  <2>2. trip[c] \in Trips /\ c \in group[trip[c]]
    BY <2>1 DEF Unregister, Bookkeeping, GroupsMatchConnections
  <2>3. closer[trip[c]] \in Subs
    BY <2>2
  <2>4. CASE group[trip[c]] \ {c} = {}
    <3>1. /\ group' = [group EXCEPT ![trip[c]] = {}]
          /\ closer' = [closer EXCEPT ![trip[c]] = NoSub]
          /\ link' = [link EXCEPT ![closer[trip[c]]] = "off"]
          /\ UNCHANGED <<started, subTrip>>
      BY <2>1, <2>3, <2>4, IdsAssumption DEF Unregister, Subs
    <3>. QED
      BY <2>2, <2>3, <3>1 DEF SubTypeOK
  <2>5. CASE group[trip[c]] \ {c} # {}
    BY <2>1, <2>2, <2>5 DEF Unregister
  <2>. QED
    BY <2>4, <2>5
<1>4. CASE Alive /\ \E c \in Clients : CloseSend(c)
  BY <1>4 DEF CloseSend, Alive, hubVars, subVars, connVars
<1>5. CASE Alive /\ \E c \in Clients : CloseConn(c)
  BY <1>5 DEF CloseConn, Alive, hubVars, subVars, connVars
<1>6. CASE Alive /\ \E c \in Clients : PumpReturns(c)
  BY <1>6 DEF PumpReturns, Alive, hubVars, subVars, connVars
<1>7. CASE Alive /\ \E c \in Clients : ReadFails(c)
  BY <1>7 DEF ReadFails, Alive, hubVars, subVars, connVars, EnterClose
<1>8. CASE Alive /\ \E c \in Clients : WriteFrame(c)
  BY <1>8 DEF WriteFrame, Alive, hubVars, subVars, connVars
<1>9. CASE Alive /\ \E c \in Clients : WriteEnds(c)
  BY <1>9 DEF WriteEnds, Alive, hubVars, subVars, connVars, EnterClose
<1>10. CASE Alive /\ \E s \in Subs : BusReceive(s)
  BY <1>10 DEF BusReceive, Alive, hubVars, subVars, connVars
<1>11. CASE Alive /\ \E s \in Subs : BusStops(s)
  BY <1>11 DEF BusStops, Alive, hubVars, subVars, connVars
<1>12. CASE Alive /\ \E s \in Subs : ForwardTake(s)
  BY <1>12 DEF ForwardTake, Alive, hubVars, subVars, connVars, Frame
<1>13. CASE Alive /\ \E s \in Subs : ForwardSnapshot(s)
  BY <1>13 DEF ForwardSnapshot, Alive, hubVars, subVars, connVars
<1>14. CASE Alive /\ \E s \in Subs, c \in Clients : ForwardSend(s, c)
  BY <1>14 DEF ForwardSend, Alive, hubVars, subVars, connVars, Offer
<1>15. CASE Alive /\ \E s \in Subs : ForwardStops(s)
  BY <1>15 DEF ForwardStops, Alive, hubVars, subVars, connVars
<1>16. CASE Alive /\ \E c \in Clients : PeerLeaves(c)
  BY <1>16 DEF PeerLeaves, Alive, hubVars, subVars, connVars
<1>17. CASE Alive /\ \E t \in Trips, type \in Published : Publish(t, type)
  BY <1>17 DEF Publish, Alive, hubVars, subVars, connVars, Event, EventTypes
<1>18. CASE Alive /\ \E s \in Subs : LinkUp(s)
  BY <1>18 DEF LinkUp, Alive, hubVars, SubTypeOK
<1>19. CASE Alive /\ \E s \in Subs : LinkBreaks(s)
  BY <1>19 DEF LinkBreaks, Alive, hubVars, SubTypeOK
<1>20. CASE \E s \in Subs, c \in Clients : ForwardPanics(s, c)
  BY <1>20 DEF ForwardPanics, Alive, hubVars, subVars, connVars
<1>21. CASE UNCHANGED vars
  BY <1>21 DEF vars, hubVars, subVars, connVars
<1>. QED
  BY <1>1, <1>2, <1>3, <1>4, <1>5, <1>6, <1>7, <1>8, <1>9, <1>10, <1>11, <1>12, <1>13, <1>14, <1>15, <1>16, <1>17, <1>18, <1>19, <1>20, <1>21 DEF Next, CloseStep, BusStep, ForwardStep, EnvStep, Alive

\* Every step preserves the agreement of groups and connections.
LEMMA GroupStep ==
  ASSUME HubInv, [Next]_vars
  PROVE  GroupsMatchConnections'
<1> USE DEF HubInv, TypeOK, HubTypeOK, ConnTypeOK, GroupsMatchConnections
<1>1. CASE Alive /\ \E c \in Clients, t \in Trips : Connect(c, t)
  <2>1. PICK c \in Clients, t \in Trips : Connect(c, t)
    BY <1>1
  <2>2. trip[c] = NoTrip /\ NoTrip \notin Trips
    BY <2>1, IdsAssumption DEF Connect, Bookkeeping
  <2>. QED
    BY <2>1, <2>2 DEF Connect, Register
<1>2. CASE Alive /\ \E c \in Clients : Greet(c)
  BY <1>2 DEF Greet, Alive, hubVars, subVars, connVars, Offer, Greeting, Frame
<1>3. CASE Alive /\ \E c \in Clients : Unregister(c)
  <2>1. PICK c \in Clients : Unregister(c)
    BY <1>3
  <2>2. trip[c] \in Trips /\ c \in group[trip[c]]
    BY <2>1 DEF Unregister, Bookkeeping, GroupsMatchConnections
  <2>. QED
    BY <2>1, <2>2 DEF Unregister
<1>4. CASE Alive /\ \E c \in Clients : CloseSend(c)
  BY <1>4 DEF CloseSend, Alive, hubVars, subVars, connVars
<1>5. CASE Alive /\ \E c \in Clients : CloseConn(c)
  BY <1>5 DEF CloseConn, Alive, hubVars, subVars, connVars
<1>6. CASE Alive /\ \E c \in Clients : PumpReturns(c)
  BY <1>6 DEF PumpReturns, Alive, hubVars, subVars, connVars
<1>7. CASE Alive /\ \E c \in Clients : ReadFails(c)
  BY <1>7 DEF ReadFails, Alive, hubVars, subVars, connVars, EnterClose
<1>8. CASE Alive /\ \E c \in Clients : WriteFrame(c)
  BY <1>8 DEF WriteFrame, Alive, hubVars, subVars, connVars
<1>9. CASE Alive /\ \E c \in Clients : WriteEnds(c)
  BY <1>9 DEF WriteEnds, Alive, hubVars, subVars, connVars, EnterClose
<1>10. CASE Alive /\ \E s \in Subs : BusReceive(s)
  BY <1>10 DEF BusReceive, Alive, hubVars, subVars, connVars
<1>11. CASE Alive /\ \E s \in Subs : BusStops(s)
  BY <1>11 DEF BusStops, Alive, hubVars, subVars, connVars
<1>12. CASE Alive /\ \E s \in Subs : ForwardTake(s)
  BY <1>12 DEF ForwardTake, Alive, hubVars, subVars, connVars, Frame
<1>13. CASE Alive /\ \E s \in Subs : ForwardSnapshot(s)
  BY <1>13 DEF ForwardSnapshot, Alive, hubVars, subVars, connVars
<1>14. CASE Alive /\ \E s \in Subs, c \in Clients : ForwardSend(s, c)
  BY <1>14 DEF ForwardSend, Alive, hubVars, subVars, connVars, Offer
<1>15. CASE Alive /\ \E s \in Subs : ForwardStops(s)
  BY <1>15 DEF ForwardStops, Alive, hubVars, subVars, connVars
<1>16. CASE Alive /\ \E c \in Clients : PeerLeaves(c)
  BY <1>16 DEF PeerLeaves, Alive, hubVars, subVars, connVars
<1>17. CASE Alive /\ \E t \in Trips, type \in Published : Publish(t, type)
  BY <1>17 DEF Publish, Alive, hubVars, subVars, connVars, Event, EventTypes
<1>18. CASE Alive /\ \E s \in Subs : LinkUp(s)
  BY <1>18 DEF LinkUp, Alive, hubVars, subVars, connVars
<1>19. CASE Alive /\ \E s \in Subs : LinkBreaks(s)
  BY <1>19 DEF LinkBreaks, Alive, hubVars, subVars, connVars
<1>20. CASE \E s \in Subs, c \in Clients : ForwardPanics(s, c)
  BY <1>20 DEF ForwardPanics, Alive, hubVars, subVars, connVars
<1>21. CASE UNCHANGED vars
  BY <1>21 DEF vars, hubVars, subVars, connVars
<1>. QED
  BY <1>1, <1>2, <1>3, <1>4, <1>5, <1>6, <1>7, <1>8, <1>9, <1>10, <1>11, <1>12, <1>13, <1>14, <1>15, <1>16, <1>17, <1>18, <1>19, <1>20, <1>21 DEF Next, CloseStep, BusStep, ForwardStep, EnvStep, Alive

\* Every step keeps the gauge exact.
LEMMA GaugeStep ==
  ASSUME HubInv, [Next]_vars
  PROVE  GaugeCountsOpen'
<1> USE DEF HubInv, TypeOK, GaugeCountsOpen
<1>0. IsFiniteSet(Counted)
  BY IdsAssumption, FS_Subset DEF Counted
<1>1. CASE Alive /\ \E c \in Clients, t \in Trips : Connect(c, t)
  <2>1. PICK c \in Clients, t \in Trips : Connect(c, t)
    BY <1>1
  <2>2. Counted' = Counted \cup {c} /\ gauge' = gauge + 1 /\ c \notin Counted
    BY <2>1 DEF Connect, Counted, ConnTypeOK
  <2>. QED
    BY <1>0, <2>2, FS_AddElement
<1>2. CASE Alive /\ \E c \in Clients : Greet(c)
  <2>1. PICK c \in Clients : Greet(c)
    BY <1>2
  <2>2. Counted' = Counted /\ gauge' = gauge
    BY <2>1 DEF Greet, Counted, ConnTypeOK
  <2>. QED
    BY <2>2
<1>3. CASE Alive /\ \E c \in Clients : Unregister(c)
  <2>1. PICK c \in Clients : Unregister(c)
    BY <1>3
  <2>2. Counted' = Counted /\ gauge' = gauge
    BY <2>1 DEF Unregister, Counted, ConnTypeOK
  <2>. QED
    BY <2>2
<1>4. CASE Alive /\ \E c \in Clients : CloseSend(c)
  <2>1. PICK c \in Clients : CloseSend(c)
    BY <1>4
  <2>2. Counted' = Counted /\ gauge' = gauge
    BY <2>1 DEF CloseSend, Counted, ConnTypeOK
  <2>. QED
    BY <2>2
<1>5. CASE Alive /\ \E c \in Clients : CloseConn(c)
  <2>1. PICK c \in Clients : CloseConn(c)
    BY <1>5
  <2>2. Counted' = Counted /\ gauge' = gauge
    BY <2>1 DEF CloseConn, Counted, ConnTypeOK
  <2>. QED
    BY <2>2
<1>6. CASE Alive /\ \E c \in Clients : PumpReturns(c)
  BY <1>6 DEF PumpReturns, Alive, connVars, Counted
<1>7. CASE Alive /\ \E c \in Clients : ReadFails(c)
  <2>1. PICK c \in Clients : ReadFails(c)
    BY <1>7
  <2>2. CASE stage[c] = "open"
    <3>1. Counted' = Counted \ {c} /\ gauge' = gauge - 1 /\ c \in Counted
      BY <2>1, <2>2 DEF ReadFails, EnterClose, Counted, ConnTypeOK
    <3>. QED
      BY <1>0, <3>1, FS_RemoveElement
  <2>3. CASE stage[c] # "open"
    BY <2>1, <2>3 DEF ReadFails, EnterClose, Counted
  <2>. QED
    BY <2>2, <2>3
<1>8. CASE Alive /\ \E c \in Clients : WriteFrame(c)
  BY <1>8 DEF WriteFrame, Alive, connVars, Counted
<1>9. CASE Alive /\ \E c \in Clients : WriteEnds(c)
  <2>1. PICK c \in Clients : WriteEnds(c)
    BY <1>9
  <2>2. CASE stage[c] = "open"
    <3>1. Counted' = Counted \ {c} /\ gauge' = gauge - 1 /\ c \in Counted
      BY <2>1, <2>2 DEF WriteEnds, EnterClose, Counted, ConnTypeOK
    <3>. QED
      BY <1>0, <3>1, FS_RemoveElement
  <2>3. CASE stage[c] # "open"
    BY <2>1, <2>3 DEF WriteEnds, EnterClose, Counted
  <2>. QED
    BY <2>2, <2>3
<1>10. CASE Alive /\ \E s \in Subs : BusReceive(s)
  BY <1>10 DEF BusReceive, Alive, connVars, Counted
<1>11. CASE Alive /\ \E s \in Subs : BusStops(s)
  BY <1>11 DEF BusStops, Alive, connVars, Counted
<1>12. CASE Alive /\ \E s \in Subs : ForwardTake(s)
  BY <1>12 DEF ForwardTake, Alive, connVars, Counted
<1>13. CASE Alive /\ \E s \in Subs : ForwardSnapshot(s)
  BY <1>13 DEF ForwardSnapshot, Alive, connVars, Counted
<1>14. CASE Alive /\ \E s \in Subs, c \in Clients : ForwardSend(s, c)
  BY <1>14 DEF ForwardSend, Alive, connVars, Counted
<1>15. CASE Alive /\ \E s \in Subs : ForwardStops(s)
  BY <1>15 DEF ForwardStops, Alive, connVars, Counted
<1>16. CASE Alive /\ \E c \in Clients : PeerLeaves(c)
  BY <1>16 DEF PeerLeaves, Alive, connVars, Counted
<1>17. CASE Alive /\ \E t \in Trips, type \in Published : Publish(t, type)
  BY <1>17 DEF Publish, Alive, connVars, Counted
<1>18. CASE Alive /\ \E s \in Subs : LinkUp(s)
  BY <1>18 DEF LinkUp, Alive, connVars, Counted
<1>19. CASE Alive /\ \E s \in Subs : LinkBreaks(s)
  BY <1>19 DEF LinkBreaks, Alive, connVars, Counted
<1>20. CASE \E s \in Subs, c \in Clients : ForwardPanics(s, c)
  BY <1>20 DEF ForwardPanics, Alive, connVars, Counted
<1>21. CASE UNCHANGED vars
  BY <1>21 DEF vars, hubVars, subVars, connVars, Counted
<1>. QED
  BY <1>1, <1>2, <1>3, <1>4, <1>5, <1>6, <1>7, <1>8, <1>9, <1>10, <1>11, <1>12, <1>13, <1>14, <1>15, <1>16, <1>17, <1>18, <1>19, <1>20, <1>21 DEF Next, CloseStep, BusStep, ForwardStep, EnvStep, Alive

\* The history of published events keeps its type.
LEMMA LogStep ==
  ASSUME TypeOK, [Next]_vars
  PROVE  log' \in Seq(Event) /\ crashed' \in BOOLEAN
<1>1. CASE Alive /\ \E t \in Trips, type \in Published : Publish(t, type)
  <2>1. PICK t \in Trips, type \in Published : Publish(t, type)
    BY <1>1
  <2>2. [id |-> Len(log) + 1, trip |-> t, type |-> type] \in Event
    BY <2>1, BoundsAssumption, IdsAssumption DEF Publish, Event, TypeOK
  <2>. QED
    BY <1>1, <2>1, <2>2 DEF Publish, Alive, TypeOK
<1>2. CASE UNCHANGED log /\ crashed' \in {crashed, TRUE}
  BY <1>2 DEF TypeOK
<1>. QED
  BY <1>1, <1>2 DEF Next, CloseStep, BusStep, ForwardStep, EnvStep, Alive, vars, Connect,
     Greet, Unregister, CloseSend, CloseConn, PumpReturns, ReadFails, WriteFrame, WriteEnds,
     BusReceive, BusStops, ForwardTake, ForwardSnapshot, ForwardSend, ForwardStops,
     PeerLeaves, LinkUp, LinkBreaks, ForwardPanics

\* The initial state satisfies the inductive invariant.
LEMMA InitHubInv == Init => HubInv
<1> SUFFICES ASSUME Init PROVE HubInv
  OBVIOUS
<1>1. TypeOK
  <2>1. HubTypeOK
    BY BoundsAssumption DEF Init, HubTypeOK
  <2>2. SubTypeOK
    BY DEF Init, SubTypeOK, Frame
  <2>3. ConnTypeOK
    BY DEF Init, ConnTypeOK, Stages, Pump
  <2>4. log \in Seq(Event)
    BY DEF Init
  <2>5. crashed \in BOOLEAN
    BY DEF Init
  <2>. QED
    BY <2>1, <2>2, <2>3, <2>4, <2>5 DEF TypeOK
<1>2. Counted = {}
  BY DEF Init, Counted
<1>3. GaugeCountsOpen
  BY <1>2, FS_EmptySet DEF Init, GaugeCountsOpen
<1>4. Bookkeeping
  BY BoundsAssumption DEF Init, Bookkeeping, Subs
<1>5. OneLiveSubscription /\ GroupsMatchConnections
  BY IdsAssumption DEF Init, OneLiveSubscription, GroupsMatchConnections
<1>. QED
  BY <1>1, <1>3, <1>4, <1>5 DEF HubInv

\* Every reachable state satisfies the inductive invariant.
THEOREM HubInvariant == Spec => []HubInv
<1>1. HubInv /\ [Next]_vars => HubInv'
  <2> SUFFICES ASSUME HubInv, [Next]_vars PROVE HubInv'
    OBVIOUS
  <2>1. HubTypeOK' /\ SubTypeOK' /\ ConnTypeOK'
    BY HubTypeStep, SubTypeStep, ConnTypeStep DEF HubInv, TypeOK
  <2>2. log' \in Seq(Event) /\ crashed' \in BOOLEAN
    BY LogStep DEF HubInv
  <2>3. Bookkeeping' /\ OneLiveSubscription'
    BY BookkeepingStep, SubscriptionStep DEF HubInv
  <2>4. GroupsMatchConnections' /\ GaugeCountsOpen'
    BY GroupStep, GaugeStep
  <2>. QED
    BY <2>1, <2>2, <2>3, <2>4 DEF HubInv, TypeOK
<1>. QED
  BY InitHubInv, <1>1, PTL DEF Spec

\* Type correctness of the hub, its subscriptions and its connections.
THEOREM TypeCorrect == Spec => []TypeOK
<1>1. HubInv => TypeOK
  BY DEF HubInv
<1>. QED
  BY HubInvariant, <1>1, PTL

\* Hub.clients and Hub.closers agree in every reachable state: no Redis
\* connection leaks and none is missing.
THEOREM SubscriptionsAgree == Spec => []OneLiveSubscription
<1>1. HubInv => OneLiveSubscription
  BY DEF HubInv
<1>. QED
  BY HubInvariant, <1>1, PTL

\* A group holds exactly the registered clients of its trip: none whose send
\* channel is closed.
THEOREM GroupsAgree == Spec => []GroupsMatchConnections
<1>1. HubInv => GroupsMatchConnections
  BY DEF HubInv
<1>. QED
  BY HubInvariant, <1>1, PTL

\* The connection gauge is exact.
THEOREM GaugeExact == Spec => []GaugeCountsOpen
<1>1. HubInv => GaugeCountsOpen
  BY DEF HubInv
<1>. QED
  BY HubInvariant, <1>1, PTL

-----------------------------------------------------------------------------
(* What the hub delivers. *)

\* The messages of a queue, and that a queue holds none twice.
Elems(q) == {q[i] : i \in 1..Len(q)}
Distinct(q) == \A i, j \in 1..Len(q) : i # j => q[i] # q[j]

\* A broadcast is under way.
Broadcasting(s) == fwd[s] \in {"hold", "send"}

\* Everything on its way in subscription s, and everything client c was sent.
Carried(s) ==
  Elems(inbox[s]) \cup Elems(out[s]) \cup (IF Broadcasting(s) THEN {held[s]} ELSE {})
Sent(c) == Elems(wire[c]) \cup Elems(sendq[c])

\* Nothing is on its way before a subscription or a connection starts, and
\* only connections that started are offered anything.
StartsEmpty ==
  /\ \A s \in Subs : link[s] = "none" => Carried(s) = {} /\ fwd[s] = "none"
  /\ \A c \in Clients : stage[c] = "none" => Sent(c) = {}
  /\ \A c \in Clients : stage[c] = "registered" => Greeting \notin Sent(c)
  /\ \A s \in Subs : \A c \in targets[s] : stage[c] # "none" /\ fwd[s] = "send"

\* NoCrossTalk, said of sets of messages.
TripsKept ==
  /\ \A s \in Subs : \A e \in Carried(s) : e.trip = subTrip[s]
  /\ \A s \in Subs : \A c \in targets[s] : trip[c] = subTrip[s]
  /\ \A c \in Clients : \A e \in Sent(c) : e.trip \in {trip[c], NoTrip}

\* The messages on their way are published events, and so is all but the
\* greeting of what was sent.
AllPublished ==
  /\ \A e \in Elems(log) : e \in Event /\ e.id <= Len(log)
  /\ \A s \in Subs : Carried(s) \subseteq Elems(log)
  /\ \A s \in Subs : Broadcasting(s) => held[s].type \in ForwardedTypes
  /\ \A c \in Clients : Sent(c) \subseteq Elems(log) \cup {Greeting}

\* An event is at one place of one subscription ...
CarriedOnce ==
  /\ \A s \in Subs : Distinct(inbox[s]) /\ Distinct(out[s])
  /\ \A s \in Subs : \A e \in Elems(inbox[s]) : e \notin Elems(out[s])
  /\ \A s \in Subs : Broadcasting(s) => held[s] \notin Elems(inbox[s]) /\ held[s] \notin Elems(out[s])
  /\ \A s, z \in Subs : s # z => \A e \in Carried(s) : e \notin Carried(z)

\* ... and was sent to no client that is still to be offered it.
NotYetSent ==
  \A c \in Clients, s \in Subs :
    /\ \A e \in Sent(c) : e \notin Elems(inbox[s]) /\ e \notin Elems(out[s])
    /\ fwd[s] = "hold" \/ c \in targets[s] => held[s] \notin Sent(c)

\* The inductive invariant of delivery.
DeliveryInv ==
  /\ StartsEmpty
  /\ TripsKept
  /\ AllPublished
  /\ CarriedOnce
  /\ NotYetSent

-----------------------------------------------------------------------------
(* Queues.                                                                 *)

\* Putting a message at the end of a queue.
LEMMA AppendElems ==
  ASSUME NEW S, NEW q \in Seq(S), NEW m \in S
  PROVE  /\ Elems(Append(q, m)) = Elems(q) \cup {m}
         /\ Distinct(q) /\ m \notin Elems(q) => Distinct(Append(q, m))
BY DEF Elems, Distinct

\* Taking the first message of a queue.
LEMMA TailElems ==
  ASSUME NEW S, NEW q \in Seq(S), q # <<>>
  PROVE  /\ Elems(q) = Elems(Tail(q)) \cup {Head(q)}
         /\ Head(q) \in Elems(q)
         /\ Distinct(q) => Distinct(Tail(q)) /\ Head(q) \notin Elems(Tail(q))
<1>1. /\ Tail(q) \in Seq(S) /\ Len(q) \in Nat \ {0} /\ Len(Tail(q)) = Len(q) - 1
      /\ Head(q) = q[1]
      /\ \A i \in 1..Len(Tail(q)) : Tail(q)[i] = q[i + 1]
  OBVIOUS
<1>2. \A i \in 1..Len(q) : i = 1 \/ (i - 1 \in 1..Len(Tail(q)) /\ q[i] = Tail(q)[i - 1])
  BY <1>1
<1>3. Elems(q) = Elems(Tail(q)) \cup {Head(q)}
  <2>1. \A i \in 1..Len(q) : q[i] \in Elems(Tail(q)) \cup {Head(q)}
    BY <1>1, <1>2 DEF Elems
  <2>2. \A i \in 1..Len(Tail(q)) : Tail(q)[i] \in Elems(q)
    BY <1>1 DEF Elems
  <2>3. Head(q) \in Elems(q)
    BY <1>1 DEF Elems
  <2>. QED
    BY <2>1, <2>2, <2>3 DEF Elems
<1>4. ASSUME Distinct(q) PROVE Distinct(Tail(q)) /\ Head(q) \notin Elems(Tail(q))
  BY <1>1, <1>4 DEF Distinct, Elems
<1>. QED
  BY <1>3, <1>4

-----------------------------------------------------------------------------
(* The steps that move messages, and the others.                           *)

\* A step that neither moves a message into or out of a subscription nor sends
\* one to a client, nor starts anything.
Quiet ==
  /\ UNCHANGED <<subTrip, inbox, out, held, targets, trip, log>>
  /\ \A s \in Subs : /\ link'[s] = "none" => link[s] = "none"
                     /\ fwd'[s] = fwd[s] \/ (fwd[s] = "recv" /\ fwd'[s] = "done")
  /\ \A c \in Clients :
       /\ Sent(c)' = Sent(c)
       /\ stage'[c] = stage[c] \/ (stage[c] # "none" /\ stage'[c] \notin {"none", "registered"})

\* A frame that WritePump writes moves from the channel to the socket.
LEMMA WriteKeepsSent ==
  ASSUME TypeOK, NEW c \in Clients, WriteFrame(c)
  PROVE  \A x \in Clients : Sent(x)' = Sent(x)
<1> DEFINE m == Head(sendq[c])
<1>1. sendq[c] \in Seq(Frame) /\ sendq[c] # <<>> /\ wire[c] \in Seq(Frame) /\ m \in Frame
  BY QueueTypes DEF WriteFrame, TypeOK, ConnTypeOK
<1>2. Elems(sendq[c]) = Elems(Tail(sendq[c])) \cup {m}
  BY <1>1, TailElems
<1>3. Elems(Append(wire[c], m)) = Elems(wire[c]) \cup {m}
  BY <1>1, AppendElems
<1>4. /\ sendq'[c] = Tail(sendq[c]) /\ wire'[c] = Append(wire[c], m)
      /\ \A x \in Clients : x # c => sendq'[x] = sendq[x] /\ wire'[x] = wire[x]
  BY DEF WriteFrame, TypeOK, ConnTypeOK
<1>. QED
  BY <1>2, <1>3, <1>4 DEF Sent

\* The other steps.
LEMMA QuietSteps ==
  ASSUME HubInv, [Next]_vars
  PROVE  \/ Quiet
         \/ \E c \in Clients, t \in Trips : Connect(c, t)
         \/ \E c \in Clients : Greet(c)
         \/ \E t \in Trips, type \in Published : Publish(t, type)
         \/ \E s \in Subs : BusReceive(s) \/ ForwardTake(s) \/ ForwardSnapshot(s)
         \/ \E s \in Subs, c \in Clients : ForwardSend(s, c)
<1> USE DEF HubInv, TypeOK, SubTypeOK, ConnTypeOK
<1>1. ASSUME NEW c \in Clients, Unregister(c) PROVE Quiet
  <2>1. trip[c] \in Trips /\ closer[trip[c]] \in Subs \cup {NoSub}
    BY <1>1 DEF Unregister, Bookkeeping, HubTypeOK
  <2>2. \A s \in Subs : link'[s] \in {link[s], "off"}
    BY <1>1, <2>1 DEF Unregister
  <2>. QED
    BY <1>1, <2>2 DEF Unregister, Quiet, Sent
<1>2. ASSUME NEW c \in Clients, CloseSend(c) \/ CloseConn(c) PROVE Quiet
  BY <1>2 DEF CloseSend, CloseConn, Quiet, Sent, hubVars, subVars
<1>3. ASSUME NEW c \in Clients, PumpReturns(c) \/ PeerLeaves(c) PROVE Quiet
  BY <1>3 DEF PumpReturns, PeerLeaves, Quiet, Sent, hubVars, subVars
<1>4. ASSUME NEW c \in Clients, ReadFails(c) \/ WriteEnds(c) PROVE Quiet
  BY <1>4 DEF ReadFails, WriteEnds, EnterClose, Quiet, Sent, hubVars, subVars
<1>5. ASSUME NEW c \in Clients, WriteFrame(c) PROVE Quiet
  BY <1>5, WriteKeepsSent DEF WriteFrame, Quiet, hubVars, subVars
<1>6. ASSUME NEW s \in Subs, BusStops(s) \/ ForwardStops(s) PROVE Quiet
  BY <1>6 DEF BusStops, ForwardStops, Quiet, Sent, connVars
<1>7. ASSUME NEW s \in Subs, LinkUp(s) \/ LinkBreaks(s) PROVE Quiet
  BY <1>7 DEF LinkUp, LinkBreaks, Quiet, Sent, connVars
<1>8. ASSUME NEW s \in Subs, NEW c \in Clients, ForwardPanics(s, c) PROVE Quiet
  BY <1>8 DEF ForwardPanics, Quiet, Sent, subVars, connVars
<1>9. CASE UNCHANGED vars
  BY <1>9 DEF vars, Quiet, Sent, subVars, connVars
<1>. QED
  BY <1>1, <1>2, <1>3, <1>4, <1>5, <1>6, <1>7, <1>8, <1>9
     DEF Next, CloseStep, BusStep, ForwardStep, EnvStep

\* A quiet step preserves the invariant of delivery.
LEMMA QuietDelivery ==
  ASSUME TypeOK, DeliveryInv, Quiet
  PROVE  DeliveryInv'
<1>1. \A s \in Subs : Carried(s)' = Carried(s) /\ Broadcasting(s)' = Broadcasting(s)
  BY DEF Quiet, Carried, Broadcasting
<1>2. StartsEmpty'
  <2>1. \A s \in Subs : targets[s] \subseteq Clients
    BY DEF TypeOK, SubTypeOK
  <2>. QED
    BY <1>1, <2>1 DEF Quiet, DeliveryInv, StartsEmpty, Greeting
<1>3. TripsKept' /\ AllPublished'
  BY <1>1 DEF Quiet, DeliveryInv, TripsKept, AllPublished
<1>4. CarriedOnce' /\ NotYetSent'
  BY <1>1 DEF Quiet, DeliveryInv, CarriedOnce, NotYetSent
<1>. QED
  BY <1>2, <1>3, <1>4 DEF DeliveryInv

\* Opening a connection, and a subscription with it: both start empty.
LEMMA ConnectDelivery ==
  ASSUME HubInv, DeliveryInv, NEW c \in Clients, NEW t \in Trips, Connect(c, t)
  PROVE  DeliveryInv'
<1> USE DEF DeliveryInv
<1>0. \A s \in Subs : targets[s] \subseteq Clients
  BY DEF HubInv, TypeOK, SubTypeOK
<1>1. /\ UNCHANGED <<inbox, out, held, targets, sendq, wire, log>>
      /\ \A x \in Clients : trip'[x] = IF x = c THEN t ELSE trip[x]
      /\ \A x \in Clients : stage'[x] = IF x = c THEN "registered" ELSE stage[x]
  BY DEF Connect, Register, StartSubscription, subVars, HubInv, TypeOK, ConnTypeOK
<1>2. stage[c] = "none" /\ Sent(c) = {} /\ \A s \in Subs : c \notin targets[s]
  BY DEF Connect, StartsEmpty
<1>3. \A s \in Subs :
        \/ link'[s] = link[s] /\ fwd'[s] = fwd[s] /\ subTrip'[s] = subTrip[s]
        \/ link[s] = "none" /\ link'[s] = "pending" /\ fwd'[s] = "recv"
  <2>1. CASE group[t] = {}
    <3>1. started + 1 \in Subs /\ link[started + 1] = "none"
      BY <2>1, BoundsAssumption DEF Connect, Register, StartSubscription, HubInv, TypeOK, HubTypeOK, Bookkeeping
    <3>. QED
      BY <2>1, <3>1 DEF Connect, Register, StartSubscription, HubInv, TypeOK, SubTypeOK
  <2>2. CASE group[t] # {}
    BY <2>2 DEF Connect, Register, subVars
  <2>. QED
    BY <2>1, <2>2
<1>4. \A s \in Subs : link[s] = "none" => Carried(s) = {} /\ fwd[s] = "none" /\ targets[s] = {}
  BY DEF StartsEmpty
<1>5. \A s \in Subs : Carried(s)' = Carried(s) /\ Broadcasting(s)' = Broadcasting(s)
  BY <1>1, <1>3, <1>4 DEF Carried, Broadcasting
<1>6. \A x \in Clients : Sent(x)' = Sent(x)
  BY <1>1 DEF Sent
<1>7. StartsEmpty'
  BY <1>0, <1>1, <1>2, <1>3, <1>4, <1>5, <1>6 DEF StartsEmpty, Greeting
<1>8. TripsKept'
  BY <1>0, <1>1, <1>2, <1>3, <1>4, <1>5, <1>6 DEF TripsKept
<1>9. AllPublished' /\ CarriedOnce'
  BY <1>1, <1>5, <1>6 DEF AllPublished, CarriedOnce
<1>10. NotYetSent'
  BY <1>1, <1>3, <1>4, <1>6 DEF NotYetSent
<1>. QED
  BY <1>7, <1>8, <1>9, <1>10

\* What a client is offered is sent to it or dropped.
LEMMA OfferElems ==
  ASSUME NEW q \in Seq(Frame), NEW m \in Frame
  PROVE  Elems(Offer(q, m)) \in {Elems(q), Elems(q) \cup {m}}
BY AppendElems DEF Offer

\* Queueing the greeting.
LEMMA GreetDelivery ==
  ASSUME HubInv, DeliveryInv, NEW c \in Clients, Greet(c)
  PROVE  DeliveryInv'
<1> USE DEF DeliveryInv
<1>0. \A s \in Subs : targets[s] \subseteq Clients
  BY DEF HubInv, TypeOK, SubTypeOK
<1>1. /\ UNCHANGED <<subTrip, link, fwd, inbox, out, held, targets, trip, wire, log>>
      /\ \A x \in Clients : sendq'[x] = IF x = c THEN Offer(sendq[c], Greeting) ELSE sendq[x]
      /\ \A x \in Clients : stage'[x] = IF x = c THEN "open" ELSE stage[x]
      /\ stage[c] = "registered"
  BY DEF Greet, subVars, HubInv, TypeOK, ConnTypeOK
<1>2. Elems(Offer(sendq[c], Greeting)) \in {Elems(sendq[c]), Elems(sendq[c]) \cup {Greeting}}
  BY OfferElems DEF Frame, HubInv, TypeOK, ConnTypeOK
<1>3. \A x \in Clients : Sent(x)' = Sent(x) \/ (x = c /\ Sent(x)' = Sent(x) \cup {Greeting})
  BY <1>1, <1>2 DEF Sent
<1>4. \A s \in Subs : Carried(s)' = Carried(s) /\ Broadcasting(s)' = Broadcasting(s)
  BY <1>1 DEF Carried, Broadcasting
<1>5. Greeting \notin Event /\ Greeting.trip = NoTrip
  BY BoundsAssumption DEF Greeting, Event
<1>6. \A s \in Subs : Greeting \notin Carried(s)
  BY <1>5 DEF AllPublished
<1>7. StartsEmpty'
  BY <1>0, <1>1, <1>3, <1>4 DEF StartsEmpty, Greeting
<1>8. TripsKept'
  BY <1>1, <1>3, <1>4, <1>5 DEF TripsKept
<1>a. AllPublished' /\ CarriedOnce'
  BY <1>1, <1>3, <1>4 DEF AllPublished, CarriedOnce, Greeting
<1>9. NotYetSent'
  <2>1. \A s \in Subs : Greeting \notin Elems(inbox[s]) /\ Greeting \notin Elems(out[s])
    BY <1>6 DEF Carried
  <2>2. \A s \in Subs : fwd[s] \in {"hold", "send"} => held[s] # Greeting
    BY <1>6 DEF Carried, Broadcasting
  <2>3. \A s \in Subs : \A x \in targets[s] : fwd[s] = "send"
    BY DEF StartsEmpty
  <2>. QED
    BY <1>1, <1>3, <2>1, <2>2, <2>3 DEF NotYetSent
<1>. QED
  BY <1>7, <1>8, <1>9, <1>a

\* A published event is new, and reaches at most the one live subscription.
LEMMA PublishDelivery ==
  ASSUME HubInv, DeliveryInv, NEW t \in Trips, NEW type \in Published, Publish(t, type)
  PROVE  DeliveryInv'
<1> USE DEF DeliveryInv
<1> DEFINE e == [id |-> Len(log) + 1, trip |-> t, type |-> type]
           Gets(s) == link[s] = "on" /\ subTrip[s] = t
<1>0. \A s \in Subs : targets[s] \subseteq Clients
  BY DEF HubInv, TypeOK, SubTypeOK
<1>1. /\ UNCHANGED <<subTrip, link, out, fwd, held, targets, stage, trip, sendq, wire>>
      /\ log \in Seq(Event) /\ log' = Append(log, e)
      /\ \A s \in Subs : inbox[s] \in Seq(Event)
      /\ \A s \in Subs : inbox'[s] = IF Gets(s) THEN Append(inbox[s], e) ELSE inbox[s]
  BY DEF Publish, connVars, HubInv, TypeOK, SubTypeOK
<1>2. e \in Event /\ e.id = Len(log) + 1 /\ e.trip = t
  BY <1>1, BoundsAssumption, IdsAssumption DEF Publish, Event
<1>3. Elems(log)' = Elems(log) \cup {e} /\ Len(log') = Len(log) + 1 /\ Len(log) \in Nat
  BY <1>1, <1>2, AppendElems
<1>4. \A m \in Elems(log) : m.id <= Len(log) /\ m.id \in Nat
  BY <1>1, BoundsAssumption DEF AllPublished, Event
<1>5. e \notin Elems(log) /\ e # Greeting
  BY <1>2, <1>3, <1>4 DEF Greeting
<1>6. \A s \in Subs : e \notin Carried(s) /\ e \notin Elems(inbox[s]) /\ e \notin Elems(out[s])
  BY <1>5 DEF AllPublished, Carried
<1>7. \A s \in Subs : Elems(inbox'[s]) = IF Gets(s) THEN Elems(inbox[s]) \cup {e} ELSE Elems(inbox[s])
  <2>1. \A s \in Subs : Elems(Append(inbox[s], e)) = Elems(inbox[s]) \cup {e}
    BY <1>1, <1>2, AppendElems
  <2>. QED
    BY <1>1, <2>1
<1>8. \A s \in Subs : Distinct(inbox[s]) => Distinct(inbox'[s])
  BY <1>1, <1>2, <1>6, AppendElems
<1>9. \A s \in Subs : Carried(s)' = IF Gets(s) THEN Carried(s) \cup {e} ELSE Carried(s)
  BY <1>1, <1>7 DEF Carried, Broadcasting
<1>10. \A c \in Clients : Sent(c)' = Sent(c) /\ e \notin Sent(c)
  BY <1>1, <1>5 DEF Sent, AllPublished
<1>11. \A s, z \in Subs : Gets(s) /\ Gets(z) => s = z
  BY DEF HubInv, OneLiveSubscription
<1>12. StartsEmpty'
  BY <1>0, <1>1, <1>9, <1>10 DEF StartsEmpty, Greeting
<1>13. TripsKept'
  BY <1>1, <1>2, <1>9, <1>10 DEF TripsKept
<1>14. AllPublished'
  <2>1. \A m \in Elems(log)' : m \in Event /\ m.id <= Len(log')
    BY <1>1, <1>2, <1>3, <1>4 DEF AllPublished
  <2>. QED
    BY <1>1, <1>3, <1>9, <1>10, <2>1 DEF AllPublished, Broadcasting, Greeting, ForwardedTypes, Event
<1>15. CarriedOnce'
  <2>1. \A s \in Subs : Broadcasting(s) => held[s] # e
    BY <1>6 DEF Carried
  <2>2. \A s \in Subs : Broadcasting(s)' = Broadcasting(s)
    BY <1>1 DEF Broadcasting
  <2>. QED
    BY <1>1, <1>6, <1>7, <1>8, <1>9, <1>11, <2>1, <2>2, ZenonT(60) DEF CarriedOnce
<1>16. NotYetSent'
  BY <1>1, <1>7, <1>10 DEF NotYetSent
<1>. QED
  BY <1>12, <1>13, <1>14, <1>15, <1>16

\* The bus goroutine moves a message on or drops it.
LEMMA BusDelivery ==
  ASSUME HubInv, DeliveryInv, NEW s \in Subs, BusReceive(s)
  PROVE  DeliveryInv'
<1> USE DEF DeliveryInv
<1> DEFINE m == Head(inbox[s])
<1>0. \A z \in Subs : targets[z] \subseteq Clients
  BY DEF HubInv, TypeOK, SubTypeOK
<1>1. /\ UNCHANGED <<subTrip, link, fwd, held, targets, stage, trip, sendq, wire, log>>
      /\ inbox[s] \in Seq(Event) /\ inbox[s] # <<>> /\ out[s] \in Seq(Event)
      /\ inbox'[s] = Tail(inbox[s])
      /\ out'[s] \in {out[s], Append(out[s], m)}
      /\ \A z \in Subs : z # s => inbox'[z] = inbox[z] /\ out'[z] = out[z]
  BY DEF BusReceive, connVars, HubInv, TypeOK, SubTypeOK
<1>2. m \in Event /\ m \in Elems(inbox[s])
  BY <1>1, QueueTypes, TailElems
<1>3. /\ Elems(inbox[s]) = Elems(inbox'[s]) \cup {m}
      /\ Distinct(inbox'[s]) /\ m \notin Elems(inbox'[s])
  BY <1>1, TailElems DEF CarriedOnce
<1>4. m \notin Elems(out[s]) /\ (Broadcasting(s) => held[s] # m)
  BY <1>2 DEF CarriedOnce
<1>5. Elems(out'[s]) \in {Elems(out[s]), Elems(out[s]) \cup {m}} /\ Distinct(out'[s])
  <2>1. Elems(Append(out[s], m)) = Elems(out[s]) \cup {m} /\ Distinct(Append(out[s], m))
    BY <1>1, <1>2, <1>4, AppendElems DEF CarriedOnce
  <2>2. Distinct(out[s])
    BY DEF CarriedOnce
  <2>. QED
    BY <1>1, <2>1, <2>2
<1>6. \A z \in Subs : Carried(z)' \subseteq Carried(z) /\ Broadcasting(z)' = Broadcasting(z)
  BY <1>1, <1>2, <1>3, <1>5 DEF Carried, Broadcasting
<1>7. \A c \in Clients : Sent(c)' = Sent(c)
  BY <1>1 DEF Sent
<1>8. StartsEmpty'
  BY <1>0, <1>1, <1>6, <1>7 DEF StartsEmpty, Greeting
<1>9. TripsKept' /\ AllPublished'
  BY <1>1, <1>6, <1>7 DEF TripsKept, AllPublished, Greeting, ForwardedTypes, Event
<1>10. CarriedOnce'
  BY <1>1, <1>3, <1>4, <1>5, <1>6 DEF CarriedOnce
<1>11. NotYetSent'
  BY <1>1, <1>2, <1>3, <1>5, <1>7 DEF NotYetSent
<1>. QED
  BY <1>8, <1>9, <1>10, <1>11

\* forwardEvents takes an event off the channel, to broadcast it or to skip it.
LEMMA TakeDelivery ==
  ASSUME HubInv, DeliveryInv, NEW s \in Subs, ForwardTake(s)
  PROVE  DeliveryInv'
<1> USE DEF DeliveryInv
<1> DEFINE m == Head(out[s])
<1>0. \A z \in Subs : targets[z] \subseteq Clients
  BY DEF HubInv, TypeOK, SubTypeOK
<1>1. /\ UNCHANGED <<subTrip, link, inbox, targets, stage, trip, sendq, wire, log>>
      /\ out[s] \in Seq(Event) /\ out[s] # <<>> /\ out'[s] = Tail(out[s])
      /\ fwd[s] = "recv"
      /\ \/ fwd'[s] = "hold" /\ held'[s] = m /\ m.type \in ForwardedTypes
         \/ fwd'[s] = "recv"
      /\ \A z \in Subs : z # s => out'[z] = out[z] /\ fwd'[z] = fwd[z] /\ held'[z] = held[z]
  BY DEF ForwardTake, connVars, HubInv, TypeOK, SubTypeOK
<1>2. m \in Event /\ m \in Elems(out[s])
  BY <1>1, QueueTypes, TailElems
<1>3. /\ Elems(out[s]) = Elems(out'[s]) \cup {m}
      /\ Distinct(out'[s]) /\ m \notin Elems(out'[s])
  BY <1>1, TailElems DEF CarriedOnce
<1>4. m \notin Elems(inbox[s])
  BY <1>2 DEF CarriedOnce
<1>5. \A z \in Subs : Carried(z)' \subseteq Carried(z)
  BY <1>1, <1>2, <1>3 DEF Carried, Broadcasting
<1>6. \A c \in Clients : Sent(c)' = Sent(c)
  BY <1>1 DEF Sent
<1>7. \A z \in Subs : z # s => Broadcasting(z)' = Broadcasting(z)
  BY <1>1 DEF Broadcasting
<1>8. Broadcasting(s)' => held'[s] = m /\ m.type \in ForwardedTypes
  BY <1>1 DEF Broadcasting
<1>9. targets[s] = {} /\ link[s] # "none"
  BY <1>1 DEF StartsEmpty
<1>10. StartsEmpty'
  BY <1>0, <1>1, <1>5, <1>6, <1>9 DEF StartsEmpty, Greeting
<1>11. TripsKept'
  BY <1>1, <1>5, <1>6 DEF TripsKept
<1>12. AllPublished'
  BY <1>1, <1>5, <1>6, <1>7, <1>8 DEF AllPublished, Greeting, ForwardedTypes, Event
<1>13. CarriedOnce'
  BY <1>1, <1>3, <1>4, <1>5, <1>7, <1>8 DEF CarriedOnce
<1>14. NotYetSent'
  BY <1>1, <1>2, <1>3, <1>6, <1>9 DEF NotYetSent
<1>. QED
  BY <1>10, <1>11, <1>12, <1>13, <1>14

\* broadcastLocal reads the group of the subscription's trip.
LEMMA SnapshotDelivery ==
  ASSUME HubInv, DeliveryInv, NEW s \in Subs, ForwardSnapshot(s)
  PROVE  DeliveryInv'
<1> USE DEF DeliveryInv
<1>0. \A z \in Subs : targets[z] \subseteq Clients
  BY DEF HubInv, TypeOK, SubTypeOK
<1>1. /\ UNCHANGED <<subTrip, link, inbox, out, held, stage, trip, sendq, wire, log>>
      /\ fwd[s] = "hold"
      /\ targets'[s] = group[subTrip[s]]
      /\ fwd'[s] = IF targets'[s] = {} THEN "recv" ELSE "send"
      /\ \A z \in Subs : z # s => fwd'[z] = fwd[z] /\ targets'[z] = targets[z]
  BY DEF ForwardSnapshot, connVars, HubInv, TypeOK, SubTypeOK
<1>2. subTrip[s] \in Trips /\ group[subTrip[s]] \subseteq Clients
  BY <1>1 DEF HubInv, Bookkeeping, TypeOK, HubTypeOK
<1>3. \A c \in targets'[s] : trip[c] = subTrip[s] /\ stage[c] # "none"
  BY <1>1, <1>2 DEF HubInv, GroupsMatchConnections
<1>4. \A z \in Subs : /\ Carried(z)' \subseteq Carried(z)
                      /\ Broadcasting(z)' => Broadcasting(z)
  BY <1>1 DEF Carried, Broadcasting
<1>5. \A c \in Clients : Sent(c)' = Sent(c)
  BY <1>1 DEF Sent
<1>6. StartsEmpty'
  <2>1. \A z \in Subs : \A c \in targets'[z] : stage[c] # "none" /\ fwd'[z] = "send"
    BY <1>0, <1>1, <1>3 DEF StartsEmpty
  <2>. QED
    BY <1>1, <1>4, <1>5, <2>1 DEF StartsEmpty, Greeting
<1>7. TripsKept'
  <2>1. \A z \in Subs : \A c \in targets'[z] : trip[c] = subTrip[z]
    BY <1>1, <1>3 DEF TripsKept
  <2>. QED
    BY <1>1, <1>4, <1>5, <2>1 DEF TripsKept
<1>8. AllPublished'
  BY <1>1, <1>4, <1>5 DEF AllPublished, Greeting, ForwardedTypes, Event
<1>9. CarriedOnce'
  BY <1>1, <1>4 DEF CarriedOnce
<1>10. NotYetSent'
  BY <1>1, <1>5 DEF NotYetSent
<1>. QED
  BY <1>6, <1>7, <1>8, <1>9, <1>10

\* A client that is offered an event was not sent it before, and will not be
\* offered it again.
LEMMA SendDelivery ==
  ASSUME HubInv, DeliveryInv, NEW s \in Subs, NEW c \in Clients, ForwardSend(s, c)
  PROVE  DeliveryInv'
<1> USE DEF DeliveryInv
<1> DEFINE m == held[s]
<1>0. \A z \in Subs : targets[z] \subseteq Clients
  BY DEF HubInv, TypeOK, SubTypeOK
<1>1. /\ UNCHANGED <<subTrip, link, inbox, out, held, stage, trip, wire, log>>
      /\ fwd[s] = "send" /\ c \in targets[s] /\ m \in Frame /\ sendq[c] \in Seq(Frame)
      /\ sendq'[c] = Offer(sendq[c], m)
      /\ targets'[s] = targets[s] \ {c}
      /\ fwd'[s] = IF targets[s] = {c} THEN "recv" ELSE "send"
      /\ \A z \in Subs : z # s => fwd'[z] = fwd[z] /\ targets'[z] = targets[z]
      /\ \A x \in Clients : x # c => sendq'[x] = sendq[x]
  BY DEF ForwardSend, HubInv, TypeOK, SubTypeOK, ConnTypeOK
<1>2. m \in Carried(s) /\ m.trip = trip[c]
  BY <1>1 DEF Carried, Broadcasting, TripsKept
<1>3. m \in Elems(log) /\ m # Greeting
  BY <1>2, BoundsAssumption DEF AllPublished, Greeting, Event
<1>4. Elems(sendq'[c]) \in {Elems(sendq[c]), Elems(sendq[c]) \cup {m}}
  BY <1>1, OfferElems
<1>5. \A x \in Clients : Sent(x)' = Sent(x) \/ (x = c /\ Sent(x)' = Sent(x) \cup {m})
  BY <1>1, <1>4 DEF Sent
<1>6. \A z \in Subs : /\ Carried(z)' \subseteq Carried(z)
                      /\ Broadcasting(z)' => Broadcasting(z)
  BY <1>1 DEF Carried, Broadcasting
<1>7. StartsEmpty'
  <2>1. \A z \in Subs : \A x \in targets'[z] : stage[x] # "none" /\ fwd'[z] = "send"
    BY <1>0, <1>1 DEF StartsEmpty
  <2>2. stage[c] # "none"
    BY <1>1 DEF StartsEmpty
  <2>. QED
    BY <1>1, <1>3, <1>5, <1>6, <2>1, <2>2 DEF StartsEmpty, Greeting
<1>8. TripsKept'
  BY <1>1, <1>2, <1>5, <1>6 DEF TripsKept
<1>9. AllPublished'
  BY <1>1, <1>3, <1>5, <1>6 DEF AllPublished, Greeting, ForwardedTypes, Event
<1>10. CarriedOnce'
  BY <1>1, <1>6 DEF CarriedOnce
<1>11. NotYetSent'
  <2>1. \A z \in Subs : m \notin Elems(inbox[z]) /\ m \notin Elems(out[z])
    BY <1>1, <1>2 DEF CarriedOnce, Carried, Broadcasting
  <2>2. \A z \in Subs : z # s /\ Broadcasting(z) => held[z] # m
    BY <1>2 DEF CarriedOnce, Carried
  <2>3. \A z \in Subs : fwd'[z] = "hold" \/ c \in targets'[z] => z # s /\ Broadcasting(z)
    BY <1>1 DEF StartsEmpty, Broadcasting
  <2>. QED
    BY <1>1, <1>5, <2>1, <2>2, <2>3 DEF NotYetSent
<1>. QED
  BY <1>7, <1>8, <1>9, <1>10, <1>11

-----------------------------------------------------------------------------
\* Nothing has been published or sent at the start.
LEMMA InitDelivery == Init => DeliveryInv
<1> SUFFICES ASSUME Init PROVE DeliveryInv
  OBVIOUS
<1>1. /\ \A s \in Subs : inbox[s] = <<>> /\ out[s] = <<>> /\ fwd[s] = "none" /\ targets[s] = {}
      /\ \A c \in Clients : sendq[c] = <<>> /\ wire[c] = <<>>
      /\ log = <<>>
  BY DEF Init
<1>2. Elems(<<>>) = {} /\ Distinct(<<>>)
  BY DEF Elems, Distinct
<1>3. /\ \A s \in Subs : Carried(s) = {} /\ ~Broadcasting(s)
      /\ \A c \in Clients : Sent(c) = {}
  BY <1>1, <1>2 DEF Carried, Broadcasting, Sent
<1>. QED
  BY <1>1, <1>2, <1>3 DEF DeliveryInv, StartsEmpty, TripsKept, AllPublished, CarriedOnce, NotYetSent

\* Every reachable state satisfies the invariant of delivery.
THEOREM DeliveryInvariant == Spec => []DeliveryInv
<1>1. HubInv /\ DeliveryInv /\ [Next]_vars => DeliveryInv'
  BY QuietSteps, QuietDelivery, ConnectDelivery, GreetDelivery, PublishDelivery, BusDelivery,
     TakeDelivery, SnapshotDelivery, SendDelivery DEF HubInv
<1>. QED
  BY InitDelivery, HubInvariant, <1>1, PTL DEF Spec

\* A message is received, queued, broadcast and sent only within its own trip.
THEOREM TripsDoNotMix == Spec => []NoCrossTalk
<1>1. DeliveryInv => NoCrossTalk
  <2>. SUFFICES ASSUME DeliveryInv PROVE NoCrossTalk
    OBVIOUS
  <2>1. /\ \A s \in Subs : \A i \in 1..Len(inbox[s]) : inbox[s][i] \in Carried(s)
        /\ \A s \in Subs : \A i \in 1..Len(out[s]) : out[s][i] \in Carried(s)
        /\ \A s \in Subs : fwd[s] \in {"hold", "send"} => held[s] \in Carried(s)
    BY DEF Carried, Elems, Broadcasting
  <2>2. /\ \A c \in Clients : \A i \in 1..Len(sendq[c]) : sendq[c][i] \in Sent(c)
        /\ \A c \in Clients : \A i \in 1..Len(wire[c]) : wire[c][i] \in Sent(c)
    BY DEF Sent, Elems
  <2>. QED
    BY <2>1, <2>2 DEF DeliveryInv, TripsKept, NoCrossTalk
<1>. QED
  BY DeliveryInvariant, <1>1, PTL

-----------------------------------------------------------------------------
(* TripHub implements TripFeed.                                            *)

\* What a client was sent, as a sequence: frames move from the channel to the
\* socket without changing it, and a frame that is queued extends it.
LEMMA FeedQueues ==
  ASSUME NEW w \in Seq(Frame), NEW q \in Seq(Frame)
  PROVE  /\ w \o q \in Seq(Frame)
         /\ \A i \in 1..Len(w \o q) : (w \o q)[i] \in Elems(w) \cup Elems(q)
         /\ \A m \in Frame : w \o Append(q, m) = Append(w \o q, m)
         /\ q # <<>> => Append(w, Head(q)) \o Tail(q) = w \o q
<1>1. w \o q \in Seq(Frame) /\ Len(w \o q) = Len(w) + Len(q)
  OBVIOUS
<1>2. \A i \in 1..Len(w \o q) : (w \o q)[i] \in Elems(w) \cup Elems(q)
  BY DEF Elems
<1>3. \A m \in Frame : w \o Append(q, m) = Append(w \o q, m)
  OBVIOUS
<1>4. ASSUME q # <<>> PROVE Append(w, Head(q)) \o Tail(q) = w \o q
  BY <1>4
<1>. QED
  BY <1>1, <1>2, <1>3, <1>4

\* The initial states correspond.
LEMMA InitFeed == Init => Promise!Init
<1> SUFFICES ASSUME Init PROVE Promise!Init
  OBVIOUS
<1>1. [c \in Clients |-> stage[c] # "none"] = [c \in Clients |-> FALSE]
  BY DEF Init
<1>2. [c \in Clients |-> SendClosed(c)] = [c \in Clients |-> FALSE]
  <2>1. \A c \in Clients : SendClosed(c) = FALSE
    BY DEF Init, SendClosed
  <2>. QED
    BY <2>1
<1>3. [c \in Clients |-> Feed(c)] = [c \in Clients |-> <<>>]
  <2>1. \A c \in Clients : Feed(c) = <<>>
    BY DEF Init, Feed
  <2>. QED
    BY <2>1
<1>. QED
  BY <1>1, <1>2, <1>3 DEF Init, Promise!Init

\* Steps a client does not notice: what it was promised is unchanged.
Unnoticed ==
  /\ UNCHANGED <<log, trip, crashed>>
  /\ \A c \in Clients :
       /\ Feed(c)' = Feed(c)
       /\ stage'[c] = "none" <=> stage[c] = "none"
       /\ SendClosed(c)' <=> SendClosed(c)

\* Such a step leaves the feed as it is.
LEMMA UnnoticedStutters ==
  ASSUME Unnoticed
  PROVE  UNCHANGED Promise!fvars
<1>1. [c \in Clients |-> stage[c] # "none"]' = [c \in Clients |-> stage[c] # "none"]
  BY DEF Unnoticed
<1>2. [c \in Clients |-> SendClosed(c)]' = [c \in Clients |-> SendClosed(c)]
  <2>1. \A c \in Clients : SendClosed(c)' = SendClosed(c)
    BY DEF Unnoticed, SendClosed
  <2>. QED
    BY <2>1
<1>3. [c \in Clients |-> Feed(c)]' = [c \in Clients |-> Feed(c)]
  BY DEF Unnoticed
<1>. QED
  BY <1>1, <1>2, <1>3 DEF Unnoticed, Promise!fvars

\* HandleConnection up to Register is the client's joining.
LEMMA ConnectJoins ==
  ASSUME HubInv, ~crashed, UNCHANGED crashed, NEW c \in Clients, NEW t \in Trips, Connect(c, t)
  PROVE  Promise!Next
<1>1. /\ stage[c] = "none" /\ stage' = [stage EXCEPT ![c] = "registered"]
      /\ trip' = [trip EXCEPT ![c] = t]
      /\ UNCHANGED <<sendq, wire, log>>
      /\ stage \in [Clients -> Stages]
  BY DEF Connect, HubInv, TypeOK, ConnTypeOK
<1>2. [x \in Clients |-> stage[x] # "none"]' = [[x \in Clients |-> stage[x] # "none"] EXCEPT ![c] = TRUE]
  BY <1>1
<1>3. [x \in Clients |-> SendClosed(x)]' = [x \in Clients |-> SendClosed(x)]
  <2>1. \A x \in Clients : SendClosed(x)' = SendClosed(x)
    BY <1>1 DEF SendClosed
  <2>. QED
    BY <2>1
<1>4. [x \in Clients |-> Feed(x)]' = [x \in Clients |-> Feed(x)]
  BY <1>1 DEF Feed
<1>5. Promise!Join(c, t)
  BY <1>1, <1>2, <1>3, <1>4 DEF Promise!Join
<1>. QED
  BY <1>5 DEF Promise!Next

\* close(c.send) is its leaving.
LEMMA CloseLeaves ==
  ASSUME HubInv, ~crashed, UNCHANGED crashed, NEW c \in Clients, CloseSend(c)
  PROVE  Promise!Next
<1>1. /\ stage[c] = "unregistered" /\ stage' = [stage EXCEPT ![c] = "sendclosed"]
      /\ UNCHANGED <<trip, sendq, wire, log>>
      /\ stage \in [Clients -> Stages]
  BY DEF CloseSend, HubInv, TypeOK, ConnTypeOK
<1>2. [x \in Clients |-> stage[x] # "none"]' = [x \in Clients |-> stage[x] # "none"]
  BY <1>1
<1>3. [x \in Clients |-> SendClosed(x)]' = [[x \in Clients |-> SendClosed(x)] EXCEPT ![c] = TRUE]
  <2>1. \A x \in Clients : SendClosed(x)' = IF x = c THEN TRUE ELSE SendClosed(x)
    BY <1>1 DEF SendClosed
  <2>. QED
    BY <2>1
<1>4. [x \in Clients |-> Feed(x)]' = [x \in Clients |-> Feed(x)]
  BY <1>1 DEF Feed
<1>5. Promise!Leave(c)
  BY <1>1, <1>2, <1>3, <1>4 DEF Promise!Leave, SendClosed
<1>. QED
  BY <1>5 DEF Promise!Next

\* Publishing an event is a step of the feed too.
LEMMA PublishFeeds ==
  ASSUME ~crashed, UNCHANGED crashed, NEW t \in Trips, NEW type \in Published, Publish(t, type)
  PROVE  Promise!Next
<1>1. UNCHANGED <<stage, trip, sendq, wire>>
  BY DEF Publish, connVars
<1>2. /\ [x \in Clients |-> stage[x] # "none"]' = [x \in Clients |-> stage[x] # "none"]
      /\ [x \in Clients |-> SendClosed(x)]' = [x \in Clients |-> SendClosed(x)]
      /\ [x \in Clients |-> Feed(x)]' = [x \in Clients |-> Feed(x)]
  BY <1>1 DEF SendClosed, Feed
<1>3. Promise!Publish(t, type)
  BY <1>1, <1>2 DEF Publish, Promise!Publish
<1>. QED
  BY <1>3, IdsAssumption DEF Promise!Next, EventTypes

\* Queueing a frame the client was not sent before sends it, or drops it when
\* the channel is full.
LEMMA OfferSends ==
  ASSUME HubInv, ~crashed, UNCHANGED <<crashed, log, trip, wire>>,
         NEW c \in Clients, NEW m \in Frame,
         sendq' = [sendq EXCEPT ![c] = Offer(@, m)],
         stage[c] # "none", ~SendClosed(c), m \notin Sent(c),
         \A x \in Clients : /\ stage'[x] = "none" <=> stage[x] = "none"
                            /\ SendClosed(x)' <=> SendClosed(x),
         \/ m = Greeting
         \/ m.type \in ForwardedTypes /\ m.trip = trip[c] /\ m \in Elems(log)
  PROVE  [Promise!Next]_Promise!fvars
<1>1. wire[c] \in Seq(Frame) /\ sendq[c] \in Seq(Frame) /\ sendq \in [Clients -> Seq(Frame)]
  BY DEF HubInv, TypeOK, ConnTypeOK
<1>2. CASE Len(sendq[c]) >= SendCap
  <2>1. sendq' = sendq
    BY <1>1, <1>2, BoundsAssumption DEF Offer
  <2>2. Unnoticed
    BY <2>1 DEF Unnoticed, Feed
  <2>. QED
    BY <2>2, UnnoticedStutters
<1>3. CASE Len(sendq[c]) < SendCap
  <2>1. Feed(c) \in Seq(Frame) /\ Feed(c)' = Append(Feed(c), m)
    <3>1. sendq'[c] = Append(sendq[c], m)
      BY <1>1, <1>3 DEF Offer
    <3>. QED
      BY <1>1, <3>1, FeedQueues, SMTT(30) DEF Feed
  <2>2. \A x \in Clients : x # c => Feed(x)' = Feed(x)
    BY <1>1 DEF Feed
  <2>3. \A i \in 1..Len(Feed(c)) : Feed(c)[i] # m
    <3>1. \A i \in 1..Len(Feed(c)) : Feed(c)[i] \in Elems(wire[c]) \cup Elems(sendq[c])
      BY <1>1, FeedQueues DEF Feed
    <3>. QED
      BY <3>1 DEF Sent
  <2>4. [x \in Clients |-> Feed(x)]' = [[x \in Clients |-> Feed(x)] EXCEPT ![c] = Append(@, m)]
    BY <2>1, <2>2
  <2>5. /\ Len(Feed(c)') = Len(Feed(c)) + 1
        /\ Feed(c)'[Len(Feed(c)) + 1] = m
    BY <2>1
  <2>6. Promise!Sendable(c, m)
    BY <2>3 DEF Promise!Sendable, Greeting, ForwardedTypes, Elems
  <2>7. /\ [x \in Clients |-> stage[x] # "none"]' = [x \in Clients |-> stage[x] # "none"]
        /\ [x \in Clients |-> SendClosed(x)]' = [x \in Clients |-> SendClosed(x)]
    <3>1. \A x \in Clients : SendClosed(x)' = SendClosed(x)
      BY DEF SendClosed
    <3>. QED
      BY <3>1
  <2>8. Promise!Send(c)
    BY <2>4, <2>5, <2>6, <2>7 DEF Promise!Send
  <2>. QED
    BY <2>8 DEF Promise!Next
<1>. QED
  BY <1>1, <1>2, <1>3, BoundsAssumption

\* Greeting a client is a send of the feed.
LEMMA GreetSends ==
  ASSUME HubInv, DeliveryInv, ~crashed, UNCHANGED crashed, NEW c \in Clients, Greet(c)
  PROVE  [Promise!Next]_Promise!fvars
<1>1. /\ UNCHANGED <<crashed, log, trip, wire>>
      /\ sendq' = [sendq EXCEPT ![c] = Offer(@, Greeting)]
      /\ stage[c] = "registered" /\ stage' = [stage EXCEPT ![c] = "open"]
      /\ stage \in [Clients -> Stages]
  BY DEF Greet, HubInv, TypeOK, ConnTypeOK
<1>2. Greeting \in Frame /\ Greeting \notin Sent(c)
  BY <1>1 DEF Frame, DeliveryInv, StartsEmpty
<1>3. /\ stage[c] # "none" /\ ~SendClosed(c)
      /\ \A x \in Clients : /\ stage'[x] = "none" <=> stage[x] = "none"
                            /\ SendClosed(x)' <=> SendClosed(x)
  BY <1>1 DEF SendClosed
<1>. QED
  BY <1>1, <1>2, <1>3, OfferSends

\* Broadcasting to a client is a send of the feed.
LEMMA ForwardSends ==
  ASSUME HubInv, DeliveryInv, ~crashed, UNCHANGED crashed,
         NEW s \in Subs, NEW c \in Clients, ForwardSend(s, c)
  PROVE  [Promise!Next]_Promise!fvars
<1>1. /\ UNCHANGED <<crashed, log, trip, wire, stage>>
      /\ sendq' = [sendq EXCEPT ![c] = Offer(@, held[s])]
      /\ fwd[s] = "send" /\ c \in targets[s] /\ ~SendClosed(c)
      /\ held[s] \in Frame
  BY DEF ForwardSend, HubInv, TypeOK, SubTypeOK
<1>2. stage[c] # "none" /\ held[s] \notin Sent(c)
  BY <1>1 DEF DeliveryInv, StartsEmpty, NotYetSent
<1>3. held[s].type \in ForwardedTypes /\ held[s].trip = trip[c] /\ held[s] \in Elems(log)
  BY <1>1 DEF DeliveryInv, AllPublished, TripsKept, Carried, Broadcasting
<1>4. \A x \in Clients : /\ stage'[x] = "none" <=> stage[x] = "none"
                         /\ SendClosed(x)' <=> SendClosed(x)
  BY <1>1 DEF SendClosed
<1>. QED
  BY <1>1, <1>2, <1>3, <1>4, OfferSends

\* Every step of the hub is a step of the feed, or is not noticed by clients.
LEMMA StepFeeds ==
  ASSUME HubInv, DeliveryInv, [Next]_vars
  PROVE  [Promise!Next]_Promise!fvars
<1> USE DEF HubInv, TypeOK, ConnTypeOK
<1>1. ASSUME Alive, NEW c \in Clients, Unregister(c) \/ CloseConn(c) PROVE Unnoticed
  BY <1>1 DEF Unregister, CloseConn, Unnoticed, Feed, SendClosed, Alive
<1>2. ASSUME Alive, NEW c \in Clients, PumpReturns(c) \/ PeerLeaves(c) PROVE Unnoticed
  BY <1>2 DEF PumpReturns, PeerLeaves, Unnoticed, Feed, SendClosed, Alive
<1>3. ASSUME Alive, NEW c \in Clients, ReadFails(c) \/ WriteEnds(c) PROVE Unnoticed
  BY <1>3 DEF ReadFails, WriteEnds, EnterClose, Unnoticed, Feed, SendClosed, Alive
<1>4. ASSUME Alive, NEW c \in Clients, WriteFrame(c) PROVE Unnoticed
  <2>1. wire[c] \in Seq(Frame) /\ sendq[c] \in Seq(Frame) /\ sendq[c] # <<>>
    BY <1>4 DEF WriteFrame
  <2>2. Append(wire[c], Head(sendq[c])) \o Tail(sendq[c]) = wire[c] \o sendq[c]
    BY <2>1, FeedQueues
  <2>3. \A x \in Clients : Feed(x)' = Feed(x)
    BY <1>4, <2>2 DEF WriteFrame, Feed
  <2>. QED
    BY <1>4, <2>3 DEF WriteFrame, Unnoticed, SendClosed, Alive
<1>5. ASSUME Alive, NEW s \in Subs, BusReceive(s) \/ BusStops(s) PROVE Unnoticed
  BY <1>5 DEF BusReceive, BusStops, connVars, Unnoticed, Feed, SendClosed, Alive
<1>6. ASSUME Alive, NEW s \in Subs, ForwardTake(s) \/ ForwardSnapshot(s) \/ ForwardStops(s)
      PROVE Unnoticed
  BY <1>6 DEF ForwardTake, ForwardSnapshot, ForwardStops, connVars, Unnoticed, Feed, SendClosed, Alive
<1>7. ASSUME Alive, NEW s \in Subs, LinkUp(s) \/ LinkBreaks(s) PROVE Unnoticed
  BY <1>7 DEF LinkUp, LinkBreaks, connVars, Unnoticed, Feed, SendClosed, Alive
<1>8. ASSUME ~crashed, NEW s \in Subs, NEW c \in Clients, ForwardPanics(s, c) PROVE Promise!Next
  <2>1. UNCHANGED <<log, stage, trip, sendq, wire>> /\ crashed' = TRUE
    BY <1>8 DEF ForwardPanics, connVars
  <2>2. /\ [x \in Clients |-> stage[x] # "none"]' = [x \in Clients |-> stage[x] # "none"]
        /\ [x \in Clients |-> SendClosed(x)]' = [x \in Clients |-> SendClosed(x)]
        /\ [x \in Clients |-> Feed(x)]' = [x \in Clients |-> Feed(x)]
    BY <2>1 DEF SendClosed, Feed
  <2>3. Promise!Die
    BY <2>1, <2>2 DEF Promise!Die
  <2>. QED
    BY <1>8, <2>3 DEF Promise!Next
<1>9. CASE UNCHANGED vars
  <2>1. Unnoticed
    BY <1>9 DEF vars, connVars, Unnoticed, Feed, SendClosed
  <2>. QED
    BY <2>1, UnnoticedStutters
<1>10. ASSUME Alive, NEW c \in Clients, Greet(c) \/ CloseSend(c) PROVE [Promise!Next]_Promise!fvars
  BY <1>10, GreetSends, CloseLeaves DEF Alive
<1>11. ASSUME Alive, NEW s \in Subs, NEW c \in Clients, ForwardSend(s, c)
       PROVE  [Promise!Next]_Promise!fvars
  BY <1>11, ForwardSends DEF Alive
<1>12. ASSUME Alive, NEW c \in Clients, NEW t \in Trips, Connect(c, t) PROVE Promise!Next
  BY <1>12, ConnectJoins DEF Alive
<1>13. ASSUME Alive, NEW t \in Trips, NEW type \in Published, Publish(t, type) PROVE Promise!Next
  BY <1>13, PublishFeeds DEF Alive
<1>14. Unnoticed => [Promise!Next]_Promise!fvars
  BY UnnoticedStutters
<1>. QED
  BY <1>1, <1>2, <1>3, <1>4, <1>5, <1>6, <1>7, <1>8, <1>9, <1>10, <1>11, <1>12, <1>13, <1>14
     DEF Next, CloseStep, BusStep, ForwardStep, EnvStep

\* TripHub implements TripFeed: however subscriptions are cancelled and
\* reopened, queues overflow and connections fail, a client is sent at most one
\* greeting and published, forwarded events of its own trip, each at most once.
THEOREM HubImplementsFeed == Spec => DeliversAtMostOnce
<1>1. HubInv /\ DeliveryInv /\ [Next]_vars => [Promise!Next]_Promise!fvars
  BY StepFeeds
<1>. QED
  BY InitFeed, HubInvariant, DeliveryInvariant, <1>1, PTL DEF Spec, DeliversAtMostOnce, Promise!Spec

=============================================================================
