---------------------------- MODULE NearbySession ----------------------------
(***************************************************************************)
(* GET /ws/shipments/nearby: ShipmentWSHandler.HandleNearby (internal/     *)
(* handler/shipment_ws.go) with the Session (internal/wsnearby/session.go) *)
(* and the two limiters (internal/wsnearby/limiter.go) it uses.  A         *)
(* connection is three goroutines: the request handler, which reads, and   *)
(* the write and ping pumps.  Messages are abstracted to their number: the *)
(* properties are about slots, goroutines and teardown.                    *)
(***************************************************************************)
EXTENDS Integers, FiniteSets

CONSTANTS
  Conns,      \* requests for an upgrade
  Addrs,      \* client addresses
  MaxPerIP,   \* WS_SHIPMENT_MAX_PER_IP
  MaxGlobal,  \* WS_SHIPMENT_MAX_CONNECTIONS
  SendCap,    \* capacity of Session.send (32 in the code)
  NoAddr

\* NewConnLimiter replaces limits that are not positive.
ASSUME LimitsAssumption ==
  /\ MaxPerIP \in Nat \ {0} /\ MaxGlobal \in Nat \ {0}
  /\ SendCap \in Nat \ {0}

ASSUME ConnsAssumption == IsFiniteSet(Conns) /\ NoAddr \notin Addrs

VARIABLES
  perIP, global, \* ConnLimiter
  addr,      \* connection -> client address
  handler,   \* connection -> where HandleNearby is
  released,  \* connection -> the flag captured by the release closure
  stage,     \* connection -> how far the body of closeOnce has come
  queue,     \* connection -> number of messages in Session.send
  writer,    \* connection -> writePump
  pinger,    \* connection -> pingPump
  idle,      \* connection -> IdleTimeout has passed since the last Touch
  gauge,     \* the sessions' share of middleware.WSConnections
  crashed    \* the process died of a panic outside a request goroutine

limVars  == <<perIP, global>>
sessVars == <<released, stage, queue, writer, pinger, idle, gauge>>
vars == <<limVars, addr, handler, sessVars, crashed>>

\* "loop_wait": inside WriteJSON's Close; "close", "closing": the deferred
\* session.Close; "release": the deferred release.
HandlerPos == {"none", "upgrade", "greet", "loop", "reply", "last_reply",
               "loop_wait", "close", "closing", "release", "done"}
Stages == {"none", "open", "entered", "freed", "sendclosed", "closed"}
Pump   == {"off", "run", "writing", "closing", "done"}

SendClosed(c) == stage[c] \in {"sendclosed", "closed"}

Init ==
  /\ perIP    = [a \in Addrs |-> 0]
  /\ global   = 0
  /\ addr     = [c \in Conns |-> NoAddr]
  /\ handler  = [c \in Conns |-> "none"]
  /\ released = [c \in Conns |-> FALSE]
  /\ stage    = [c \in Conns |-> "none"]
  /\ queue    = [c \in Conns |-> 0]
  /\ writer   = [c \in Conns |-> "off"]
  /\ pinger   = [c \in Conns |-> "off"]
  /\ idle     = [c \in Conns |-> FALSE]
  /\ gauge    = 0
  /\ crashed  = FALSE

Goto(c, p) == handler' = [handler EXCEPT ![c] = p]

-----------------------------------------------------------------------------
(* The limiter and the once body.                                          *)

\* Variant that only looks at the global limit.
AcquireWithoutPerIP(a) ==
  /\ global < MaxGlobal
  /\ perIP'  = [perIP EXCEPT ![a] = @ + 1]
  /\ global' = global + 1

\* ConnLimiter.Acquire returning true
Acquire(a) ==
  /\ global < MaxGlobal
  /\ perIP[a] < MaxPerIP
  /\ perIP'  = [perIP EXCEPT ![a] = @ + 1]
  /\ global' = global + 1

\* ConnLimiter.Release
LimiterRelease(a) ==
  /\ perIP'  = [perIP EXCEPT ![a] = IF @ > 0 THEN @ - 1 ELSE @]
  /\ global' = IF global > 0 THEN global - 1 ELSE global

\* Variant of the release closure without its flag.
ReleaseEveryTime(c) ==
  /\ released' = [released EXCEPT ![c] = TRUE]
  /\ LimiterRelease(addr[c])

\* The release closure of HandleNearby
Release(c) ==
  IF released[c]
    THEN UNCHANGED <<released, limVars>>
    ELSE /\ released' = [released EXCEPT ![c] = TRUE]
         /\ LimiterRelease(addr[c])

\* Variant of Session.Close without sync.Once.
EnterCloseEveryTime(c) ==
  /\ stage' = [stage EXCEPT ![c] = IF @ = "open" THEN "entered" ELSE @]
  /\ gauge' = gauge - 1

\* Session.Close: the first caller runs the body, which begins with onClose;
\* every caller returns when the body is over.
EnterClose(c) ==
  IF stage[c] = "open"
    THEN /\ stage' = [stage EXCEPT ![c] = "entered"]
         /\ gauge' = gauge - 1
    ELSE UNCHANGED <<stage, gauge>>

\* The second half of onClose
FreeSlot(c) ==
  /\ stage[c] = "entered"
  /\ Release(c)
  /\ stage' = [stage EXCEPT ![c] = "freed"]
  /\ UNCHANGED <<addr, handler, queue, writer, pinger, idle, gauge>>

\* close(s.send), then s.conn.Close()
CloseSend(c) ==
  /\ stage[c] = "freed"
  /\ stage' = [stage EXCEPT ![c] = "sendclosed"]
  /\ UNCHANGED <<limVars, addr, handler, released, queue, writer, pinger, idle, gauge>>

CloseConn(c) ==
  /\ stage[c] = "sendclosed"
  /\ stage' = [stage EXCEPT ![c] = "closed"]
  /\ UNCHANGED <<limVars, addr, handler, released, queue, writer, pinger, idle, gauge>>

-----------------------------------------------------------------------------
(* HandleNearby.                                                           *)

\* An authenticated request reaches the limiter; without a slot it gets 429.
Admit(c, a) ==
  /\ handler[c] = "none"
  /\ addr' = [addr EXCEPT ![c] = a]
  /\ \/ Acquire(a) /\ Goto(c, "upgrade")
     \/ /\ global >= MaxGlobal \/ perIP[a] >= MaxPerIP
        /\ UNCHANGED limVars
        /\ Goto(c, "done")
  /\ UNCHANGED <<sessVars>>

\* upgrader.Upgrade fails: only the deferred release is left to run.
UpgradeFails(c) ==
  /\ handler[c] = "upgrade"
  /\ Goto(c, "release")
  /\ UNCHANGED <<limVars, addr, sessVars>>

\* Upgraded: the session exists and both pumps run.
UpgradeSucceeds(c) ==
  /\ handler[c] = "upgrade"
  /\ Goto(c, "greet")
  /\ stage'  = [stage EXCEPT ![c] = "open"]
  /\ writer' = [writer EXCEPT ![c] = "run"]
  /\ pinger' = [pinger EXCEPT ![c] = "run"]
  /\ gauge'  = gauge + 1
  /\ UNCHANGED <<limVars, addr, released, queue, idle>>

\* Session.WriteJSON from the handler, which continues at "next" when the
\* message was queued.  A full channel closes the session first and the handler
\* waits for that at "blocked"; a closed channel panics, and the panic, which
\* gin.Recovery ends, runs the deferred calls.
WriteJSON(c, next, blocked) ==
  /\ \/ /\ ~SendClosed(c) /\ queue[c] < SendCap
        /\ queue' = [queue EXCEPT ![c] = @ + 1]
        /\ Goto(c, next)
        /\ UNCHANGED <<stage, gauge>>
     \/ /\ ~SendClosed(c) /\ queue[c] = SendCap
        /\ EnterClose(c)
        /\ Goto(c, blocked)
        /\ UNCHANGED queue
     \/ /\ SendClosed(c)
        /\ Goto(c, "close")
        /\ UNCHANGED <<queue, stage, gauge>>
  /\ UNCHANGED <<limVars, addr, released, writer, pinger, idle>>

\* "connected"; then the location in the query string, if any, is answered.
Greet(c) ==
  /\ handler[c] = "greet"
  /\ \E next \in {"loop", "reply"} : WriteJSON(c, next, "close")

\* The one response to a message: a pong, an error, or what process found.
\* Its result is ignored.
Reply(c) ==
  /\ handler[c] = "reply"
  /\ WriteJSON(c, "loop", "loop_wait")

\* The RATE_LIMITED error, after which the handler returns.
LastReply(c) ==
  /\ handler[c] = "last_reply"
  /\ WriteJSON(c, "close", "close")

\* ReadMessage returns a message, possibly one buffered before the socket was
\* closed.  AllowMessage takes a token and touches the session, or finds the
\* bucket empty, which depends on elapsed time only.
Receive(c) ==
  /\ handler[c] = "loop"
  /\ \/ /\ idle' = [idle EXCEPT ![c] = FALSE]
        /\ Goto(c, "reply")
     \/ /\ UNCHANGED idle
        /\ Goto(c, "last_reply")
  /\ UNCHANGED <<limVars, addr, released, stage, queue, writer, pinger, gauge>>

\* ReadMessage fails: the peer left, it sent more than the read limit, the read
\* deadline passed, or the socket was closed here.
ReadFails(c) ==
  /\ handler[c] = "loop"
  /\ Goto(c, "close")
  /\ UNCHANGED <<limVars, addr, sessVars>>

\* Variant without defer session.Close().
DeferredCloseMissing(c) ==
  /\ handler[c] = "close"
  /\ Goto(c, "release")
  /\ UNCHANGED <<limVars, addr, sessVars>>

\* defer session.Close()
DeferredClose(c) ==
  /\ handler[c] = "close"
  /\ EnterClose(c)
  /\ Goto(c, "closing")
  /\ UNCHANGED <<limVars, addr, released, queue, writer, pinger, idle>>

CloseReturns(c) ==
  /\ stage[c] = "closed"
  /\ \/ handler[c] = "loop_wait" /\ Goto(c, "loop")
     \/ handler[c] = "closing" /\ Goto(c, "release")
  /\ UNCHANGED <<limVars, addr, sessVars>>

\* defer release()
DeferredRelease(c) ==
  /\ handler[c] = "release"
  /\ Release(c)
  /\ Goto(c, "done")
  /\ UNCHANGED <<addr, stage, queue, writer, pinger, idle, gauge>>

-----------------------------------------------------------------------------
(* The pumps.                                                              *)

WriterTakes(c) ==
  /\ writer[c] = "run"
  /\ queue[c] > 0
  /\ queue'  = [queue EXCEPT ![c] = @ - 1]
  /\ writer' = [writer EXCEPT ![c] = "writing"]
  /\ UNCHANGED <<limVars, addr, handler, released, stage, pinger, idle, gauge>>

WriteSucceeds(c) ==
  /\ writer[c] = "writing"
  /\ stage[c] # "closed"
  /\ writer' = [writer EXCEPT ![c] = "run"]
  /\ UNCHANGED <<limVars, addr, handler, released, stage, queue, pinger, idle, gauge>>

\* A write error, the ten-second write deadline among them, or a closed and
\* drained channel; then the deferred Close.
WriterEnds(c) ==
  /\ \/ writer[c] = "writing"
     \/ writer[c] = "run" /\ queue[c] = 0 /\ SendClosed(c)
  /\ writer' = [writer EXCEPT ![c] = "closing"]
  /\ EnterClose(c)
  /\ UNCHANGED <<limVars, addr, handler, released, queue, pinger, idle>>

WriterReturns(c) ==
  /\ writer[c] = "closing"
  /\ stage[c] = "closed"
  /\ writer' = [writer EXCEPT ![c] = "done"]
  /\ UNCHANGED <<limVars, addr, handler, released, stage, queue, pinger, idle, gauge>>

\* Variant that pings without looking at the last activity.
TickWithoutIdleCheck(c) ==
  /\ pinger[c] = "run"
  /\ pinger' = [pinger EXCEPT ![c] = "writing"]
  /\ UNCHANGED <<stage, gauge>>
  /\ UNCHANGED <<limVars, addr, handler, released, queue, writer, idle>>

\* A tick of pingPump: close an idle session, or start a ping.
Tick(c) ==
  /\ pinger[c] = "run"
  /\ IF idle[c]
       THEN pinger' = [pinger EXCEPT ![c] = "closing"] /\ EnterClose(c)
       ELSE pinger' = [pinger EXCEPT ![c] = "writing"] /\ UNCHANGED <<stage, gauge>>
  /\ UNCHANGED <<limVars, addr, handler, released, queue, writer, idle>>

PingSucceeds(c) ==
  /\ pinger[c] = "writing"
  /\ stage[c] # "closed"
  /\ pinger' = [pinger EXCEPT ![c] = "run"]
  /\ UNCHANGED <<limVars, addr, handler, released, stage, queue, writer, idle, gauge>>

\* A failed ping ends the pump, which does not close the session.
PingerReturns(c) ==
  /\ pinger[c] = "writing" \/ (pinger[c] = "closing" /\ stage[c] = "closed")
  /\ pinger' = [pinger EXCEPT ![c] = "done"]
  /\ UNCHANGED <<limVars, addr, handler, released, stage, queue, writer, idle, gauge>>

\* Both pumps are inside WriteMessage, which the websocket library allows to
\* one goroutine at a time and answers, if it notices, with a panic.
WritersCollide(c) ==
  /\ writer[c] = "writing"
  /\ pinger[c] = "writing"
  /\ crashed' = TRUE
  /\ UNCHANGED <<limVars, addr, handler, sessVars>>

-----------------------------------------------------------------------------
(* Environment.                                                            *)

\* IdleTimeout passes without a message.
GoesIdle(c) ==
  /\ stage[c] = "open"
  /\ ~idle[c]
  /\ idle' = [idle EXCEPT ![c] = TRUE]
  /\ UNCHANGED <<limVars, addr, handler, released, stage, queue, writer, pinger, gauge>>

-----------------------------------------------------------------------------
CloseBody(c) == FreeSlot(c) \/ CloseSend(c) \/ CloseConn(c)

HandlerStep(c) ==
  \/ UpgradeFails(c) \/ UpgradeSucceeds(c) \/ Greet(c) \/ Reply(c) \/ LastReply(c)
  \/ DeferredClose(c) \/ CloseReturns(c) \/ DeferredRelease(c)

WriterStep(c) == WriterTakes(c) \/ WriteSucceeds(c) \/ WriterEnds(c) \/ WriterReturns(c)
PingerStep(c) == Tick(c) \/ PingSucceeds(c) \/ PingerReturns(c)

EnvStep(c) ==
  \/ \E a \in Addrs : Admit(c, a)
  \/ Receive(c) \/ ReadFails(c) \/ GoesIdle(c)

Alive == ~crashed /\ UNCHANGED crashed

Next ==
  \/ Alive /\ \E c \in Conns :
       CloseBody(c) \/ HandlerStep(c) \/ WriterStep(c) \/ PingerStep(c) \/ EnvStep(c)
  \/ ~crashed /\ \E c \in Conns : WritersCollide(c)

Spec == Init /\ [][Next]_vars

\* ReadMessage cannot go on waiting on a closed socket, nor past the read
\* deadline once no ping is sent that a pong could answer.
ReadMustFail(c) == stage[c] = "closed" \/ (idle[c] /\ pinger[c] = "done")

(***************************************************************************)
(* Runnable goroutines run, searches carry QueryTimeout, writes carry a    *)
(* ten-second deadline and the ticker ticks.  Nothing is assumed of the    *)
(* peer but that it sends no pong for a ping it did not get.               *)
(***************************************************************************)
FairSpec ==
  /\ Spec
  /\ \A c \in Conns :
       /\ WF_vars(Alive /\ CloseBody(c))
       /\ WF_vars(Alive /\ HandlerStep(c))
       /\ WF_vars(Alive /\ WriterStep(c))
       /\ WF_vars(Alive /\ PingerStep(c))
       /\ WF_vars(Alive /\ ReadMustFail(c) /\ ReadFails(c))

-----------------------------------------------------------------------------
\* Type invariant.
TypeOK ==
  /\ perIP    \in [Addrs -> 0..MaxPerIP]
  /\ global   \in 0..MaxGlobal
  /\ addr     \in [Conns -> Addrs \cup {NoAddr}]
  /\ handler  \in [Conns -> HandlerPos]
  /\ released \in [Conns -> BOOLEAN]
  /\ stage    \in [Conns -> Stages]
  /\ queue    \in [Conns -> 0..SendCap]
  /\ writer   \in [Conns -> Pump]
  /\ pinger   \in [Conns -> Pump]
  /\ idle     \in [Conns -> BOOLEAN]
  /\ gauge    \in Nat
  /\ crashed  \in BOOLEAN

\* Requests that were let in and whose session has not yet been given up.
Held == {c \in Conns : \/ stage[c] \in {"open", "entered"}
                       \/ stage[c] = "none" /\ handler[c] \in {"upgrade", "release"}}

HeldFrom(a) == {c \in Held : addr[c] = a}

\* The connection limiter counts, in total and per address, exactly the
\* requests that were let in and not yet given up: whether the upgrade fails,
\* the handler returns or panics, a pump closes the session or all of them at
\* once, the slot is returned once, so neither limit erodes or is exceeded.
SlotsMatchSessions ==
  /\ global = Cardinality(Held)
  /\ \A a \in Addrs : perIP[a] = Cardinality(HeldFrom(a))

OpenSessions == {c \in Conns : stage[c] = "open"}

\* Every session is subtracted once from middleware.WSConnections, whichever
\* of its three goroutines closes it.
GaugeCountsSessions == gauge = Cardinality(OpenSessions)

Ended(c) == handler[c] = "done" /\ writer[c] \in {"off", "done"} /\ pinger[c] \in {"off", "done"}

\* However a session begins to end (a failed read or write, a full channel, an
\* idle timeout, a refused message), all three goroutines end and the slot is
\* free again.
FailedSessionsEnd ==
  \A c \in Conns :
    (handler[c] = "close" \/ stage[c] = "entered") ~> (crashed \/ (Ended(c) /\ c \notin Held))

\* "Disconnect idle clients": a session without a message for IdleTimeout is
\* closed unless a message comes, also when its ping pump has already died.
IdleSessionsEnd ==
  \A c \in Conns :
    (stage[c] = "open" /\ idle[c]) ~> (crashed \/ ~idle[c] \/ stage[c] = "closed")
=============================================================================
