----------------------------- MODULE GpsTracking -----------------------------
(***************************************************************************)
(* Live GPS updates of a trip: internal/gps accepts an update, smooths it  *)
(* against the position stored last, and a goroutine stores and publishes  *)
(* the result; storage.LocationBatchWriter, one on every instance of the   *)
(* server, collects the published positions and inserts them in batches.   *)
(* Redis (the rate-limit key, the stored position, the cached route and    *)
(* the event channels) is shared by the instances.                         *)
(*                                                                         *)
(* A position is a number on a line, scaled so that the smoothing divides  *)
(* evenly; 0 is the coordinate (0, 0), which the smoother takes for "no    *)
(* history".  Speed and timestamps are left out: nothing depends on them.  *)
(***************************************************************************)
EXTENDS Integers, Sequences, FiniteSets, SequencesExt

CONSTANTS Instances,
          Trips,
          Positions,     \* positions a client may report
          Route,         \* the points of the route a trip may have
          DeviationKm,   \* deviationKm
          BatchSize,
          ChanCap,       \* capacity of the event channel: 2048 in the code
          MaxUpdates,    \* bound on the updates received
          MaxFaults,     \* bound on failing Redis and database calls
          None

Updates == 1 .. MaxUpdates

LocationState == [update : Updates, trip : Trips, pos : Nat, deviation : Nat]

ASSUME GpsConstants ==
    /\ Positions \subseteq Nat /\ Route \subseteq Nat
    /\ BatchSize \in Nat \ {0} /\ ChanCap \in Nat \ {0}
    /\ MaxUpdates \in Nat /\ None \notin LocationState

VARIABLES upd,         \* each update: where its processing is and what it knows
          window,      \* trips whose rate-limit key exists
          location,    \* the stored LocationState of each trip
          route,       \* the cached route of each trip, a set of positions
          published,   \* ghost: the events published so far, in order
          inbox,       \* what the pub/sub connection of an instance has received
          chan,        \* the event channel of its batch writer
          batch,
          table,       \* ghost: the rows an instance inserted into trip_locations
          worker,      \* "running", "cancelled", "closed" or "exited"
          writer,      \* "running" or "stopped"
          faults

gpsVars == <<upd, window, location, route>>
writerVars == <<inbox, chan, batch, table, writer>>
vars == <<gpsVars, published, writerVars, worker, faults>>

-----------------------------------------------------------------------------
(* Processing an update. *)

Abs(n) == IF n < 0 THEN -n ELSE n

\* Variant of SmoothGPS.
SmoothGPSUnweighted(raw, prev) == IF prev = 0 THEN raw ELSE (3 * raw + 2 * prev) \div 4

\* smoothingAlpha = 0.75
SmoothGPS(raw, prev) == IF prev = 0 THEN raw ELSE (3 * raw + prev) \div 4

\* The route is so dense that its segments are its points.
MinDistanceToPolyline(points, pos) ==
    LET d == {Abs(pos - p) : p \in points} IN CHOOSE m \in d : \A n \in d : m <= n

\* computeDeviation: 0 while no route is cached.
Deviation(points, pos) ==
    IF points = {} THEN 0 ELSE MinDistanceToPolyline(points, pos)

\* A Redis or database call ends without or with an error.
Outcome(ok) == IF ok THEN faults' = faults ELSE faults < MaxFaults /\ faults' = faults + 1

Next1(u, step) == [upd EXCEPT ![u].step = step]

\* Update, valid and authorised, up to AcquireRateLimit: SET NX with the
\* window as its time to live.
Update(u, i, trip, raw) ==
    /\ upd[u].step = "new"
    /\ \A v \in Updates : v < u => upd[v].step # "new"
    /\ worker[i] # "exited"
    /\ upd' = [upd EXCEPT ![u] = [step |-> IF trip \in window THEN "limited" ELSE "admitted",
                                  at |-> i, trip |-> trip, raw |-> raw, prev |-> None,
                                  state |-> None]]
    /\ window' = window \cup {trip}
    /\ UNCHANGED <<location, route, published, writerVars, worker, faults>>

\* authorizeTripWrite or AcquireRateLimit fails: an error is answered.
UpdateFails(u, i) ==
    /\ upd[u].step = "new"
    /\ \A v \in Updates : v < u => upd[v].step # "new"
    /\ worker[i] # "exited"
    /\ Outcome(FALSE)
    /\ upd' = Next1(u, "failed")
    /\ UNCHANGED <<window, location, route, published, writerVars, worker>>

\* The key expires.
WindowEnds(trip) ==
    /\ trip \in window
    /\ window' = window \ {trip}
    /\ UNCHANGED <<upd, location, route, published, writerVars, worker, faults>>

\* A read that fails counts as no previous position.
LoadPrevious(u, ok) ==
    /\ upd[u].step = "admitted"
    /\ Outcome(ok)
    /\ upd' = [upd EXCEPT ![u].step = "loaded",
                          ![u].prev = IF ok THEN location[upd[u].trip] ELSE None]
    /\ UNCHANGED <<window, location, route, published, writerVars, worker>>

\* Smoothing, speed and deviation; then the goroutine is started and the
\* state answered.
Compute(u) ==
    /\ upd[u].step = "loaded"
    /\ LET w   == upd[u]
           pos == IF w.prev = None THEN w.raw ELSE SmoothGPS(w.raw, w.prev.pos)
       IN  upd' = [upd EXCEPT ![u].step = "store",
                              ![u].prev = None,
                              ![u].state = [update |-> u, trip |-> w.trip, pos |-> pos,
                                            deviation |-> Deviation(route[w.trip], pos)]]
    /\ UNCHANGED <<window, location, route, published, writerVars, worker, faults>>

\* The route of a trip is cached by the route service.
CacheRoute(trip) ==
    /\ route[trip] = {}
    /\ route' = [route EXCEPT ![trip] = Route]
    /\ UNCHANGED <<upd, window, location, published, writerVars, worker, faults>>

\* persistAndPublish.  SetLastUpdate writes a key nothing reads.
StoreLocation(u, ok) ==
    /\ upd[u].step = "store"
    /\ Outcome(ok)
    /\ location' = IF ok THEN [location EXCEPT ![upd[u].trip] = upd[u].state] ELSE location
    /\ upd' = Next1(u, "publish")
    /\ UNCHANGED <<window, route, published, writerVars, worker>>

\* The instances whose pub/sub connection is up receive an event, all in the
\* order of publication; one that is being re-established misses it.
Publish(type, u) ==
    LET ev == [type |-> type, state |-> upd[u].state]
    IN  /\ published' = Append(published, ev)
        /\ \E up \in SUBSET {i \in Instances : worker[i] \in {"running", "cancelled"}} :
             inbox' = [i \in Instances |-> IF i \in up THEN Append(inbox[i], ev) ELSE inbox[i]]

PublishLocation(u, ok) ==
    /\ upd[u].step = "publish"
    /\ Outcome(ok)
    /\ IF ok THEN Publish("location", u) ELSE UNCHANGED <<published, inbox>>
    /\ upd' = Next1(u, IF upd[u].state.deviation > DeviationKm THEN "deviation" ELSE "done")
    /\ UNCHANGED <<window, location, route, chan, batch, table, writer, worker>>

PublishDeviation(u, ok) ==
    /\ upd[u].step = "deviation"
    /\ Outcome(ok)
    /\ IF ok THEN Publish("deviation", u) ELSE UNCHANGED <<published, inbox>>
    /\ upd' = Next1(u, "done")
    /\ UNCHANGED <<window, location, route, chan, batch, table, writer, worker>>

-----------------------------------------------------------------------------
(* The batch writer. *)

\* SubscribeAll's goroutine: a full channel drops the event.
Forward(i) ==
    /\ worker[i] \in {"running", "cancelled"}
    /\ inbox[i] # <<>>
    /\ chan' = IF Len(chan[i]) < ChanCap THEN [chan EXCEPT ![i] = Append(@, Head(inbox[i]))] ELSE chan
    /\ inbox' = [inbox EXCEPT ![i] = Tail(@)]
    /\ UNCHANGED <<gpsVars, published, batch, table, writer, worker, faults>>

\* It leaves when the context is cancelled and closes the channel behind it.
CloseChannel(i) ==
    /\ worker[i] = "cancelled"
    /\ worker' = [worker EXCEPT ![i] = "closed"]
    /\ inbox' = [inbox EXCEPT ![i] = <<>>]
    /\ UNCHANGED <<gpsVars, published, chan, batch, table, writer, faults>>

\* One INSERT of all the rows, under a context that may be cancelled.
InsertBatch(i, rows, live, ok) ==
    /\ Outcome(ok)
    /\ table' = IF ok /\ live THEN [table EXCEPT ![i] = @ \o rows] ELSE table

\* Variant of Flush.
FlushWithoutReset(i, rows, ok) ==
    /\ InsertBatch(i, rows, worker[i] = "running", ok)
    /\ batch' = [batch EXCEPT ![i] = rows]

\* The worker's context is used; after an error the batch is gone all the same.
Flush(i, rows, ok) ==
    /\ InsertBatch(i, rows, worker[i] = "running", ok)
    /\ batch' = [batch EXCEPT ![i] = <<>>]

\* An event is taken off the channel; a full batch is flushed.
Receive(i, ok) ==
    /\ writer[i] = "running"
    /\ chan[i] # <<>>
    /\ chan' = [chan EXCEPT ![i] = Tail(@)]
    /\ LET ev == Head(chan[i])
           rows == IF ev.type = "location" THEN Append(batch[i], ev.state) ELSE batch[i]
       IN  IF ev.type = "location" /\ Len(rows) >= BatchSize
           THEN Flush(i, rows, ok)
           ELSE /\ ok
                /\ batch' = [batch EXCEPT ![i] = rows]
                /\ UNCHANGED <<table, faults>>
    /\ UNCHANGED <<gpsVars, published, inbox, writer, worker>>

\* Variant of Tick.
TickWhenFull(i, ok) ==
    /\ writer[i] = "running"
    /\ Len(batch[i]) >= BatchSize
    /\ Flush(i, batch[i], ok)
    /\ UNCHANGED <<gpsVars, published, inbox, chan, writer, worker>>

Tick(i, ok) ==
    /\ writer[i] = "running"
    /\ batch[i] # <<>>
    /\ Flush(i, batch[i], ok)
    /\ UNCHANGED <<gpsVars, published, inbox, chan, writer, worker>>

\* The channel was closed and is empty: the flush uses the cancelled context.
ChannelEnds(i) ==
    /\ writer[i] = "running"
    /\ worker[i] = "closed"
    /\ chan[i] = <<>>
    /\ Flush(i, batch[i], TRUE)
    /\ writer' = [writer EXCEPT ![i] = "stopped"]
    /\ UNCHANGED <<gpsVars, published, inbox, chan, worker>>

\* ctx.Done: the batch is inserted with a context of its own, and what is left
\* in the channel is not looked at.
WorkerDone(i, ok) ==
    /\ writer[i] = "running"
    /\ worker[i] \in {"cancelled", "closed"}
    /\ batch[i] = <<>> => ok
    /\ InsertBatch(i, batch[i], TRUE, ok)
    /\ batch' = [batch EXCEPT ![i] = <<>>]
    /\ writer' = [writer EXCEPT ![i] = "stopped"]
    /\ UNCHANGED <<gpsVars, published, inbox, chan, worker>>

-----------------------------------------------------------------------------
(* Shutdown: workers are cancelled first, then requests are drained for ten  *)
(* seconds at most, then the process ends without waiting for the writer or  *)
(* the goroutines that store and publish.                                    *)

CancelWorkers(i) ==
    /\ worker[i] = "running"
    /\ worker' = [worker EXCEPT ![i] = "cancelled"]
    /\ UNCHANGED <<gpsVars, published, writerVars, faults>>

Exit(i) ==
    /\ worker[i] \in {"cancelled", "closed"}
    /\ worker' = [worker EXCEPT ![i] = "exited"]
    /\ writer' = [writer EXCEPT ![i] = "stopped"]
    /\ upd' = [u \in Updates |-> IF upd[u].at = i /\ upd[u].step \notin {"limited", "done"}
                                 THEN [upd[u] EXCEPT !.step = "killed"] ELSE upd[u]]
    /\ inbox' = [inbox EXCEPT ![i] = <<>>]
    /\ chan' = [chan EXCEPT ![i] = <<>>]
    /\ batch' = [batch EXCEPT ![i] = <<>>]
    /\ UNCHANGED <<window, location, route, published, table, faults>>

-----------------------------------------------------------------------------
Init ==
    /\ upd = [u \in Updates |-> [step |-> "new", at |-> None, trip |-> None, raw |-> 0,
                                 prev |-> None, state |-> None]]
    /\ window = {}
    /\ location = [t \in Trips |-> None]
    /\ route = [t \in Trips |-> {}]
    /\ published = <<>>
    /\ inbox = [i \in Instances |-> <<>>]
    /\ chan = [i \in Instances |-> <<>>]
    /\ batch = [i \in Instances |-> <<>>]
    /\ table = [i \in Instances |-> <<>>]
    /\ worker = [i \in Instances |-> "running"]
    /\ writer = [i \in Instances |-> "running"]
    /\ faults = 0

Process(u) ==
    \/ \E ok \in BOOLEAN : LoadPrevious(u, ok) \/ StoreLocation(u, ok)
                           \/ PublishLocation(u, ok) \/ PublishDeviation(u, ok)
    \/ Compute(u)

Write(i) ==
    \/ \E ok \in BOOLEAN : Receive(i, ok) \/ Tick(i, ok) \/ WorkerDone(i, ok)
    \/ ChannelEnds(i)

Next ==
    \/ \E u \in Updates :
         \/ \E i \in Instances :
              \/ UpdateFails(u, i)
              \/ \E t \in Trips, raw \in Positions : Update(u, i, t, raw)
         \/ Process(u)
    \/ \E t \in Trips : WindowEnds(t) \/ CacheRoute(t)
    \/ \E i \in Instances : Forward(i) \/ CloseChannel(i) \/ Write(i) \/ CancelWorkers(i) \/ Exit(i)

\* Goroutines that can run do; the ticker keeps ticking.
Fairness ==
    /\ \A u \in Updates : WF_vars(Process(u))
    /\ \A i \in Instances : WF_vars(Forward(i)) /\ WF_vars(CloseChannel(i)) /\ WF_vars(Write(i))
                            /\ WF_vars(\E ok \in BOOLEAN : Tick(i, ok))

Spec == Init /\ [][Next]_vars /\ Fairness

-----------------------------------------------------------------------------
\* s is what is left of t after some of its elements are removed.
IsSelection(s, t) ==
    \E k \in [1 .. Len(s) -> 1 .. Len(t)] :
       /\ \A j \in 1 .. Len(s) : s[j] = t[k[j]]
       /\ \A j, l \in 1 .. Len(s) : j < l => k[j] < k[l]

\* The events whose positions an instance has inserted or holds in its batch,
\* and the events that wait for it.
Taken(rows) == [j \in DOMAIN rows |-> [type |-> "location", state |-> rows[j]]]
Handled(i) == Taken(table[i] \o batch[i]) \o chan[i] \o inbox[i]

\* What an instance has inserted, what its batch holds and what waits for it
\* are, in this order, published events in the order of their publication
\* and each at most once, the inserted ones location events, whatever was
\* dropped by a full channel, a failed insert or a shutdown
\* (storage/location_batch.go:51, the batch is reset after an error;
\* events/bus.go:93, the drop).
RowsFollowEvents == \A i \in Instances : IsSelection(Handled(i), published)

\* A stored or published position lies between positions reported for the
\* trip: smoothing against a position that is stale, missing or read while
\* another update was being stored never carries a trip outside of where its
\* driver has been (gps/service.go:62).
SmoothedWithinReported ==
    LET within(s) ==
          LET raws == {upd[u].raw : u \in {v \in Updates : upd[v].state # None /\ upd[v].trip = s.trip}}
          IN  \E a, b \in raws : a <= s.pos /\ s.pos <= b
    IN  /\ \A t \in Trips : location[t] # None => within(location[t])
        /\ \A k \in DOMAIN published : within(published[k].state)

\* An event an instance has received does not stay on its way while the writer
\* runs: it reaches the table or is dropped, although no further event may come to fill the batch
\* (storage/location_batch.go:75, the ticker).
NoEventLingers ==
    \A i \in Instances : \A u \in Updates :
      LET onTheWay ==
            /\ writer[i] = "running"
            /\ \E s \in Range(batch[i]) \cup {ev.state : ev \in Range(chan[i] \o inbox[i])} : s.update = u
      IN  onTheWay ~> ~onTheWay
=============================================================================
