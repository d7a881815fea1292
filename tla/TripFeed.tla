------------------------------ MODULE TripFeed ------------------------------
(***************************************************************************)
(* What GET /ws/trip/:id promises a client, without hub, Redis or pumps:   *)
(* from the moment it joins until its connection is torn down, it is sent  *)
(* at most one greeting and a selection of the forwarded events of its own *)
(* trip, each at most once, each only after it was published.  Nothing is  *)
(* promised about completeness (slow clients lose messages) or order.      *)
(***************************************************************************)
EXTENDS Naturals, Sequences

CONSTANTS Trips, Clients, NoTrip

VARIABLES
  log,     \* published events, in order
  joined,  \* client -> has joined
  left,    \* client -> has been torn down
  trip,    \* client -> the trip it joined
  feed,    \* client -> frames sent to it
  dead     \* the server process died

fvars == <<log, joined, left, trip, feed, dead>>

Init ==
  /\ log    = <<>>
  /\ joined = [c \in Clients |-> FALSE]
  /\ left   = [c \in Clients |-> FALSE]
  /\ trip   = [c \in Clients |-> NoTrip]
  /\ feed   = [c \in Clients |-> <<>>]
  /\ dead   = FALSE

Join(c, t) ==
  /\ ~joined[c]
  /\ joined' = [joined EXCEPT ![c] = TRUE]
  /\ trip'   = [trip EXCEPT ![c] = t]
  /\ UNCHANGED <<log, left, feed, dead>>

Leave(c) ==
  /\ joined[c] /\ ~left[c]
  /\ left' = [left EXCEPT ![c] = TRUE]
  /\ UNCHANGED <<log, joined, trip, feed, dead>>

Publish(t, type) ==
  /\ log' = Append(log, [id |-> Len(log) + 1, trip |-> t, type |-> type])
  /\ UNCHANGED <<joined, left, trip, feed, dead>>

\* A frame the client may be sent: never one it was sent before.
Sendable(c, m) ==
  /\ joined[c] /\ ~left[c]
  /\ \A i \in 1..Len(feed[c]) : feed[c][i] # m
  /\ \/ m = [id |-> 0, trip |-> NoTrip, type |-> "connected"]
     \/ /\ m.type \in {"location.updated", "deviation.detected"}
        /\ m.trip = trip[c]
        /\ \E i \in 1..Len(log) : log[i] = m

\* feed grows by one such frame.
Send(c) ==
  LET m == feed'[c][Len(feed[c]) + 1] IN
  /\ Len(feed'[c]) = Len(feed[c]) + 1
  /\ feed' = [feed EXCEPT ![c] = Append(@, m)]
  /\ Sendable(c, m)
  /\ UNCHANGED <<log, joined, left, trip, dead>>

Die ==
  /\ dead' = TRUE
  /\ UNCHANGED <<log, joined, left, trip, feed>>

Next ==
  /\ ~dead
  /\ \/ \E c \in Clients : Leave(c) \/ Send(c) \/ \E t \in Trips : Join(c, t)
     \/ \E t \in Trips, type \in {"location.updated", "deviation.detected", "route.calculated"} :
          Publish(t, type)
     \/ Die

Spec == Init /\ [][Next]_fvars
=============================================================================
