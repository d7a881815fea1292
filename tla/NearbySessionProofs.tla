------------------------- MODULE NearbySessionProofs -------------------------
(***************************************************************************)
(* Machine-checked facts about NearbySession, for any number of requests   *)
(* and addresses and any limits: its type invariant (neither limit is ever *)
(* exceeded), the exactness of the limiter's counts and of the gauge.      *)
(***************************************************************************)
EXTENDS NearbySession, TLAPS, FiniteSetTheorems

\* Positions of the handler that have a session.
InSession == {"greet", "loop", "reply", "last_reply", "loop_wait", "close", "closing"}

\* How handler, once body and release flag go together.
Coherent ==
  \A c \in Conns :
    /\ handler[c] # "none" => addr[c] \in Addrs
    /\ handler[c] \in {"none", "upgrade"} => stage[c] = "none" /\ ~released[c]
    /\ handler[c] \in InSession => stage[c] # "none"
    /\ handler[c] = "release" => (stage[c] = "none" /\ ~released[c]) \/ stage[c] = "closed"
    /\ handler[c] = "done" => stage[c] \in {"none", "closed"}
    /\ stage[c] \in {"open", "entered"} => ~released[c]
    /\ stage[c] \in {"freed", "sendclosed", "closed"} => released[c]

\* The inductive invariant.
SessionInv ==
  /\ TypeOK
  /\ Coherent
  /\ SlotsMatchSessions
  /\ GaugeCountsSessions

\* The counted sets are finite.
LEMMA FiniteCounts ==
  /\ IsFiniteSet(Held)
  /\ IsFiniteSet(OpenSessions)
  /\ \A a \in Addrs : IsFiniteSet(HeldFrom(a))
<1>1. IsFiniteSet(Held) /\ IsFiniteSet(OpenSessions)
  BY ConnsAssumption, FS_Subset DEF Held, OpenSessions
<1>2. \A a \in Addrs : HeldFrom(a) \subseteq Held
  BY DEF HeldFrom
<1>. QED
  BY <1>1, <1>2, FS_Subset

\* While a request holds a slot both counts of the limiter are positive, and
\* while a session is open the gauge is.
LEMMA HeldPositive ==
  ASSUME SessionInv, NEW c \in Conns
  PROVE  /\ c \in Held => global > 0 /\ (addr[c] \in Addrs => perIP[addr[c]] > 0)
         /\ c \in OpenSessions => gauge > 0
<1>1. ASSUME c \in Held PROVE global > 0
  <2>1. Cardinality(Held) # 0
    BY <1>1, FiniteCounts, FS_EmptySet
  <2>. QED
    BY <2>1, LimitsAssumption DEF SessionInv, TypeOK, SlotsMatchSessions
<1>2. ASSUME c \in Held, addr[c] \in Addrs PROVE perIP[addr[c]] > 0
  <2>1. c \in HeldFrom(addr[c])
    BY <1>2 DEF HeldFrom
  <2>2. Cardinality(HeldFrom(addr[c])) # 0
    BY <2>1, <1>2, FiniteCounts, FS_EmptySet
  <2>. QED
    BY <2>2, <1>2, LimitsAssumption DEF SessionInv, TypeOK, SlotsMatchSessions
<1>3. ASSUME c \in OpenSessions PROVE gauge > 0
  <2>1. Cardinality(OpenSessions) # 0
    BY <1>3, FiniteCounts, FS_EmptySet
  <2>. QED
    BY <2>1 DEF SessionInv, TypeOK, GaugeCountsSessions
<1>. QED
  BY <1>1, <1>2, <1>3

\* Every step preserves the types, so no count leaves its range.
LEMMA TypeStep ==
  ASSUME SessionInv, [Next]_vars
  PROVE  TypeOK'
<1> USE DEF SessionInv, TypeOK, HandlerPos, Stages, Pump
<1>1. CASE Alive /\ \E c \in Conns, a \in Addrs : Admit(c, a)
  <2>1. PICK c \in Conns, a \in Addrs : Admit(c, a)
    BY <1>1
  <2>. QED
    BY <2>1, <1>1, LimitsAssumption DEF Admit, Acquire, Goto, limVars, sessVars, Alive
<1>2. CASE Alive /\ \E c \in Conns : UpgradeFails(c)
  <2>1. PICK c \in Conns : UpgradeFails(c)
    BY <1>2
  <2>. QED
    BY <2>1, <1>2, LimitsAssumption DEF UpgradeFails, Goto, limVars, sessVars, Alive
<1>3. CASE Alive /\ \E c \in Conns : UpgradeSucceeds(c)
  <2>1. PICK c \in Conns : UpgradeSucceeds(c)
    BY <1>3
  <2>. QED
    BY <2>1, <1>3, LimitsAssumption DEF UpgradeSucceeds, Goto, limVars, sessVars, Alive
<1>4. CASE Alive /\ \E c \in Conns : Greet(c)
  <2>1. PICK c \in Conns : Greet(c)
    BY <1>4
  <2>2. stage[c] = "open" => gauge > 0
    BY HeldPositive DEF OpenSessions
  <2>. QED
    BY <2>1, <2>2, <1>4, LimitsAssumption DEF Greet, WriteJSON, EnterClose, SendClosed, Goto, limVars, sessVars, Alive
<1>5. CASE Alive /\ \E c \in Conns : Reply(c)
  <2>1. PICK c \in Conns : Reply(c)
    BY <1>5
  <2>2. stage[c] = "open" => gauge > 0
    BY HeldPositive DEF OpenSessions
  <2>. QED
    BY <2>1, <2>2, <1>5, LimitsAssumption DEF Reply, WriteJSON, EnterClose, SendClosed, Goto, limVars, sessVars, Alive
<1>6. CASE Alive /\ \E c \in Conns : LastReply(c)
  <2>1. PICK c \in Conns : LastReply(c)
    BY <1>6
  <2>2. stage[c] = "open" => gauge > 0
    BY HeldPositive DEF OpenSessions
  <2>. QED
    BY <2>1, <2>2, <1>6, LimitsAssumption DEF LastReply, WriteJSON, EnterClose, SendClosed, Goto, limVars, sessVars, Alive
<1>7. CASE Alive /\ \E c \in Conns : Receive(c)
  <2>1. PICK c \in Conns : Receive(c)
    BY <1>7
  <2>. QED
    BY <2>1, <1>7, LimitsAssumption DEF Receive, Goto, limVars, sessVars, Alive
<1>8. CASE Alive /\ \E c \in Conns : ReadFails(c)
  <2>1. PICK c \in Conns : ReadFails(c)
    BY <1>8
  <2>. QED
    BY <2>1, <1>8, LimitsAssumption DEF ReadFails, Goto, limVars, sessVars, Alive
<1>9. CASE Alive /\ \E c \in Conns : DeferredClose(c)
  <2>1. PICK c \in Conns : DeferredClose(c)
    BY <1>9
  <2>2. stage[c] = "open" => gauge > 0
    BY HeldPositive DEF OpenSessions
  <2>. QED
    BY <2>1, <2>2, <1>9, LimitsAssumption DEF DeferredClose, EnterClose, Goto, limVars, sessVars, Alive
<1>10. CASE Alive /\ \E c \in Conns : CloseReturns(c)
  <2>1. PICK c \in Conns : CloseReturns(c)
    BY <1>10
  <2>. QED
    BY <2>1, <1>10, LimitsAssumption DEF CloseReturns, Goto, limVars, sessVars, Alive
<1>11. CASE Alive /\ \E c \in Conns : DeferredRelease(c)
  <2>1. PICK c \in Conns : DeferredRelease(c)
    BY <1>11
  <2>2. addr[c] \in Addrs
    BY <2>1 DEF Coherent, DeferredRelease
  <2>3. perIP' \in [Addrs -> 0..MaxPerIP] /\ global' \in 0..MaxGlobal
    BY <2>1, <2>2, LimitsAssumption DEF DeferredRelease, Release, LimiterRelease, limVars
  <2>4. released' \in [Conns -> BOOLEAN]
    BY <2>1 DEF DeferredRelease, Release
  <2>. QED
    BY <2>1, <2>3, <2>4, <1>11 DEF DeferredRelease, Goto, Alive
<1>12. CASE Alive /\ \E c \in Conns : FreeSlot(c)
  <2>1. PICK c \in Conns : FreeSlot(c)
    BY <1>12
  <2>2. addr[c] \in Addrs
    BY <2>1 DEF Coherent, FreeSlot
  <2>3. perIP' \in [Addrs -> 0..MaxPerIP] /\ global' \in 0..MaxGlobal
    BY <2>1, <2>2, LimitsAssumption DEF FreeSlot, Release, LimiterRelease, limVars
  <2>4. released' \in [Conns -> BOOLEAN]
    BY <2>1 DEF FreeSlot, Release
  <2>. QED
    BY <2>1, <2>3, <2>4, <1>12 DEF FreeSlot, Goto, Alive
<1>13. CASE Alive /\ \E c \in Conns : CloseSend(c)
  <2>1. PICK c \in Conns : CloseSend(c)
    BY <1>13
  <2>. QED
    BY <2>1, <1>13, LimitsAssumption DEF CloseSend, Goto, limVars, sessVars, Alive
<1>14. CASE Alive /\ \E c \in Conns : CloseConn(c)
  <2>1. PICK c \in Conns : CloseConn(c)
    BY <1>14
  <2>. QED
    BY <2>1, <1>14, LimitsAssumption DEF CloseConn, Goto, limVars, sessVars, Alive
<1>15. CASE Alive /\ \E c \in Conns : WriterTakes(c)
  <2>1. PICK c \in Conns : WriterTakes(c)
    BY <1>15
  <2>. QED
    BY <2>1, <1>15, LimitsAssumption DEF WriterTakes, Goto, limVars, sessVars, Alive
<1>16. CASE Alive /\ \E c \in Conns : WriteSucceeds(c)
  <2>1. PICK c \in Conns : WriteSucceeds(c)
    BY <1>16
  <2>. QED
    BY <2>1, <1>16, LimitsAssumption DEF WriteSucceeds, Goto, limVars, sessVars, Alive
<1>17. CASE Alive /\ \E c \in Conns : WriterEnds(c)
  <2>1. PICK c \in Conns : WriterEnds(c)
    BY <1>17
  <2>2. stage[c] = "open" => gauge > 0
    BY HeldPositive DEF OpenSessions
  <2>. QED
    BY <2>1, <2>2, <1>17, LimitsAssumption DEF WriterEnds, EnterClose, Goto, limVars, sessVars, Alive
<1>18. CASE Alive /\ \E c \in Conns : WriterReturns(c)
  <2>1. PICK c \in Conns : WriterReturns(c)
    BY <1>18
  <2>. QED
    BY <2>1, <1>18, LimitsAssumption DEF WriterReturns, Goto, limVars, sessVars, Alive
<1>19. CASE Alive /\ \E c \in Conns : Tick(c)
  <2>1. PICK c \in Conns : Tick(c)
    BY <1>19
  <2>2. stage[c] = "open" => gauge > 0
    BY HeldPositive DEF OpenSessions
  <2>. QED
    BY <2>1, <2>2, <1>19, LimitsAssumption DEF Tick, EnterClose, Goto, limVars, sessVars, Alive
<1>20. CASE Alive /\ \E c \in Conns : PingSucceeds(c)
  <2>1. PICK c \in Conns : PingSucceeds(c)
    BY <1>20
  <2>. QED
    BY <2>1, <1>20, LimitsAssumption DEF PingSucceeds, Goto, limVars, sessVars, Alive
<1>21. CASE Alive /\ \E c \in Conns : PingerReturns(c)
  <2>1. PICK c \in Conns : PingerReturns(c)
    BY <1>21
  <2>. QED
    BY <2>1, <1>21, LimitsAssumption DEF PingerReturns, Goto, limVars, sessVars, Alive
<1>22. CASE Alive /\ \E c \in Conns : GoesIdle(c)
  <2>1. PICK c \in Conns : GoesIdle(c)
    BY <1>22
  <2>. QED
    BY <2>1, <1>22, LimitsAssumption DEF GoesIdle, Goto, limVars, sessVars, Alive
<1>23. CASE \E c \in Conns : WritersCollide(c)
  BY <1>23 DEF WritersCollide, limVars, sessVars
<1>24. CASE UNCHANGED vars
  BY <1>24 DEF vars, limVars, sessVars
<1>. QED
  BY <1>1, <1>2, <1>3, <1>4, <1>5, <1>6, <1>7, <1>8, <1>9, <1>10, <1>11, <1>12, <1>13, <1>14, <1>15, <1>16, <1>17, <1>18, <1>19, <1>20, <1>21, <1>22, <1>23, <1>24
  DEF Next, CloseBody, HandlerStep, WriterStep, PingerStep, EnvStep, Alive

\* Every step keeps handler, once body and release flag together.
LEMMA CoherentStep ==
  ASSUME TypeOK, Coherent, [Next]_vars
  PROVE  Coherent'
<1> USE DEF TypeOK, Coherent, InSession, HandlerPos, Stages
<1>1. CASE Alive /\ \E c \in Conns, a \in Addrs : Admit(c, a)
  BY <1>1 DEF Admit, Acquire, Goto, limVars, sessVars, Alive
<1>2. CASE Alive /\ \E c \in Conns : UpgradeFails(c)
  BY <1>2 DEF UpgradeFails, Goto, limVars, sessVars, Alive
<1>3. CASE Alive /\ \E c \in Conns : UpgradeSucceeds(c)
  BY <1>3 DEF UpgradeSucceeds, Goto, limVars, sessVars, Alive
<1>4. CASE Alive /\ \E c \in Conns : Greet(c)
  BY <1>4 DEF Greet, WriteJSON, EnterClose, SendClosed, Goto, limVars, sessVars, Alive
<1>5. CASE Alive /\ \E c \in Conns : Reply(c)
  BY <1>5 DEF Reply, WriteJSON, EnterClose, SendClosed, Goto, limVars, sessVars, Alive
<1>6. CASE Alive /\ \E c \in Conns : LastReply(c)
  BY <1>6 DEF LastReply, WriteJSON, EnterClose, SendClosed, Goto, limVars, sessVars, Alive
<1>7. CASE Alive /\ \E c \in Conns : Receive(c)
  BY <1>7 DEF Receive, Goto, limVars, sessVars, Alive
<1>8. CASE Alive /\ \E c \in Conns : ReadFails(c)
  BY <1>8 DEF ReadFails, Goto, limVars, sessVars, Alive
<1>9. CASE Alive /\ \E c \in Conns : DeferredClose(c)
  BY <1>9 DEF DeferredClose, EnterClose, Goto, limVars, sessVars, Alive
<1>10. CASE Alive /\ \E c \in Conns : CloseReturns(c)
  BY <1>10 DEF CloseReturns, Goto, limVars, sessVars, Alive
<1>11. CASE Alive /\ \E c \in Conns : DeferredRelease(c)
  BY <1>11 DEF DeferredRelease, Release, LimiterRelease, Goto, limVars, sessVars, Alive
<1>12. CASE Alive /\ \E c \in Conns : FreeSlot(c)
  BY <1>12 DEF FreeSlot, Release, LimiterRelease, Goto, limVars, sessVars, Alive
<1>13. CASE Alive /\ \E c \in Conns : CloseSend(c)
  BY <1>13 DEF CloseSend, Goto, limVars, sessVars, Alive
<1>14. CASE Alive /\ \E c \in Conns : CloseConn(c)
  BY <1>14 DEF CloseConn, Goto, limVars, sessVars, Alive
<1>15. CASE Alive /\ \E c \in Conns : WriterTakes(c)
  BY <1>15 DEF WriterTakes, Goto, limVars, sessVars, Alive
<1>16. CASE Alive /\ \E c \in Conns : WriteSucceeds(c)
  BY <1>16 DEF WriteSucceeds, Goto, limVars, sessVars, Alive
<1>17. CASE Alive /\ \E c \in Conns : WriterEnds(c)
  BY <1>17 DEF WriterEnds, EnterClose, Goto, limVars, sessVars, Alive
<1>18. CASE Alive /\ \E c \in Conns : WriterReturns(c)
  BY <1>18 DEF WriterReturns, Goto, limVars, sessVars, Alive
<1>19. CASE Alive /\ \E c \in Conns : Tick(c)
  BY <1>19 DEF Tick, EnterClose, Goto, limVars, sessVars, Alive
<1>20. CASE Alive /\ \E c \in Conns : PingSucceeds(c)
  BY <1>20 DEF PingSucceeds, Goto, limVars, sessVars, Alive
<1>21. CASE Alive /\ \E c \in Conns : PingerReturns(c)
  BY <1>21 DEF PingerReturns, Goto, limVars, sessVars, Alive
<1>22. CASE Alive /\ \E c \in Conns : GoesIdle(c)
  BY <1>22 DEF GoesIdle, Goto, limVars, sessVars, Alive
<1>23. CASE \E c \in Conns : WritersCollide(c)
  BY <1>23 DEF WritersCollide, limVars, sessVars
<1>24. CASE UNCHANGED vars
  BY <1>24 DEF vars, limVars, sessVars
<1>. QED
  BY <1>1, <1>2, <1>3, <1>4, <1>5, <1>6, <1>7, <1>8, <1>9, <1>10, <1>11, <1>12, <1>13, <1>14, <1>15, <1>16, <1>17, <1>18, <1>19, <1>20, <1>21, <1>22, <1>23, <1>24
  DEF Next, CloseBody, HandlerStep, WriterStep, PingerStep, EnvStep, Alive

\* One more open session.
LEMMA SessionEntered ==
  ASSUME GaugeCountsSessions, NEW c \in Conns, gauge' = gauge + 1,
         OpenSessions' = OpenSessions \cup {c}, c \notin OpenSessions
  PROVE  GaugeCountsSessions'
<1>1. Cardinality(OpenSessions \cup {c}) = Cardinality(OpenSessions) + 1
  BY FiniteCounts, FS_AddElement
<1>. QED
  BY <1>1 DEF GaugeCountsSessions

\* One open session less.
LEMMA SessionLeft ==
  ASSUME GaugeCountsSessions, NEW c \in Conns, gauge' = gauge - 1,
         OpenSessions' = OpenSessions \ {c}, c \in OpenSessions
  PROVE  GaugeCountsSessions'
<1>1. Cardinality(OpenSessions \ {c}) = Cardinality(OpenSessions) - 1
  BY FiniteCounts, FS_RemoveElement
<1>. QED
  BY <1>1 DEF GaugeCountsSessions

\* Every step keeps the gauge exact.
LEMMA GaugeStep ==
  ASSUME TypeOK, Coherent, GaugeCountsSessions, [Next]_vars
  PROVE  GaugeCountsSessions'
<1> USE DEF TypeOK, Coherent, GaugeCountsSessions, OpenSessions
<1>1. CASE Alive /\ \E c \in Conns, a \in Addrs : Admit(c, a)
  <2>1. PICK c \in Conns, a \in Addrs : Admit(c, a)
    BY <1>1
  <2>2. OpenSessions' = OpenSessions /\ gauge' = gauge
    BY <2>1 DEF Admit, Acquire, Goto, sessVars
  <2>. QED
    BY <2>2
<1>2. CASE Alive /\ \E c \in Conns : UpgradeFails(c)
  <2>1. PICK c \in Conns : UpgradeFails(c)
    BY <1>2
  <2>2. OpenSessions' = OpenSessions /\ gauge' = gauge
    BY <2>1 DEF UpgradeFails, Goto, sessVars
  <2>. QED
    BY <2>2
<1>3. CASE Alive /\ \E c \in Conns : UpgradeSucceeds(c)
  <2>1. PICK c \in Conns : UpgradeSucceeds(c)
    BY <1>3
  <2>2. OpenSessions' = OpenSessions \cup {c} /\ c \notin OpenSessions /\ gauge' = gauge + 1
    BY <2>1 DEF UpgradeSucceeds
  <2>. QED
    BY <2>2, SessionEntered
<1>4. CASE Alive /\ \E c \in Conns : Greet(c)
  <2>1. PICK c \in Conns : Greet(c)
    BY <1>4
  <2>2. CASE gauge' # gauge
    <3>1. OpenSessions' = OpenSessions \ {c} /\ c \in OpenSessions /\ gauge' = gauge - 1
      BY <2>1, <2>2 DEF Greet, WriteJSON, EnterClose, SendClosed, Goto, sessVars
    <3>. QED
      BY <3>1, SessionLeft
  <2>3. CASE gauge' = gauge
    <3>1. OpenSessions' = OpenSessions
      BY <2>1, <2>3 DEF Greet, WriteJSON, EnterClose, SendClosed, Goto, sessVars
    <3>. QED
      BY <3>1, <2>3
  <2>. QED
    BY <2>2, <2>3
<1>5. CASE Alive /\ \E c \in Conns : Reply(c)
  <2>1. PICK c \in Conns : Reply(c)
    BY <1>5
  <2>2. CASE gauge' # gauge
    <3>1. OpenSessions' = OpenSessions \ {c} /\ c \in OpenSessions /\ gauge' = gauge - 1
      BY <2>1, <2>2 DEF Reply, WriteJSON, EnterClose, SendClosed, Goto, sessVars
    <3>. QED
      BY <3>1, SessionLeft
  <2>3. CASE gauge' = gauge
    <3>1. OpenSessions' = OpenSessions
      BY <2>1, <2>3 DEF Reply, WriteJSON, EnterClose, SendClosed, Goto, sessVars
    <3>. QED
      BY <3>1, <2>3
  <2>. QED
    BY <2>2, <2>3
<1>6. CASE Alive /\ \E c \in Conns : LastReply(c)
  <2>1. PICK c \in Conns : LastReply(c)
    BY <1>6
  <2>2. CASE gauge' # gauge
    <3>1. OpenSessions' = OpenSessions \ {c} /\ c \in OpenSessions /\ gauge' = gauge - 1
      BY <2>1, <2>2 DEF LastReply, WriteJSON, EnterClose, SendClosed, Goto, sessVars
    <3>. QED
      BY <3>1, SessionLeft
  <2>3. CASE gauge' = gauge
    <3>1. OpenSessions' = OpenSessions
      BY <2>1, <2>3 DEF LastReply, WriteJSON, EnterClose, SendClosed, Goto, sessVars
    <3>. QED
      BY <3>1, <2>3
  <2>. QED
    BY <2>2, <2>3
<1>7. CASE Alive /\ \E c \in Conns : Receive(c)
  <2>1. PICK c \in Conns : Receive(c)
    BY <1>7
  <2>2. OpenSessions' = OpenSessions /\ gauge' = gauge
    BY <2>1 DEF Receive, Goto, sessVars
  <2>. QED
    BY <2>2
<1>8. CASE Alive /\ \E c \in Conns : ReadFails(c)
  <2>1. PICK c \in Conns : ReadFails(c)
    BY <1>8
  <2>2. OpenSessions' = OpenSessions /\ gauge' = gauge
    BY <2>1 DEF ReadFails, Goto, sessVars
  <2>. QED
    BY <2>2
<1>9. CASE Alive /\ \E c \in Conns : DeferredClose(c)
  <2>1. PICK c \in Conns : DeferredClose(c)
    BY <1>9
  <2>2. CASE gauge' # gauge
    <3>1. OpenSessions' = OpenSessions \ {c} /\ c \in OpenSessions /\ gauge' = gauge - 1
      BY <2>1, <2>2 DEF DeferredClose, EnterClose, Goto, sessVars
    <3>. QED
      BY <3>1, SessionLeft
  <2>3. CASE gauge' = gauge
    <3>1. OpenSessions' = OpenSessions
      BY <2>1, <2>3 DEF DeferredClose, EnterClose, Goto, sessVars
    <3>. QED
      BY <3>1, <2>3
  <2>. QED
    BY <2>2, <2>3
<1>10. CASE Alive /\ \E c \in Conns : CloseReturns(c)
  <2>1. PICK c \in Conns : CloseReturns(c)
    BY <1>10
  <2>2. OpenSessions' = OpenSessions /\ gauge' = gauge
    BY <2>1 DEF CloseReturns, Goto, sessVars
  <2>. QED
    BY <2>2
<1>11. CASE Alive /\ \E c \in Conns : DeferredRelease(c)
  <2>1. PICK c \in Conns : DeferredRelease(c)
    BY <1>11
  <2>2. OpenSessions' = OpenSessions /\ gauge' = gauge
    BY <2>1 DEF DeferredRelease, Release, LimiterRelease, Goto, sessVars
  <2>. QED
    BY <2>2
<1>12. CASE Alive /\ \E c \in Conns : FreeSlot(c)
  <2>1. PICK c \in Conns : FreeSlot(c)
    BY <1>12
  <2>2. OpenSessions' = OpenSessions /\ gauge' = gauge
    BY <2>1 DEF FreeSlot, Release, LimiterRelease, Goto, sessVars
  <2>. QED
    BY <2>2
<1>13. CASE Alive /\ \E c \in Conns : CloseSend(c)
  <2>1. PICK c \in Conns : CloseSend(c)
    BY <1>13
  <2>2. OpenSessions' = OpenSessions /\ gauge' = gauge
    BY <2>1 DEF CloseSend, Goto, sessVars
  <2>. QED
    BY <2>2
<1>14. CASE Alive /\ \E c \in Conns : CloseConn(c)
  <2>1. PICK c \in Conns : CloseConn(c)
    BY <1>14
  <2>2. OpenSessions' = OpenSessions /\ gauge' = gauge
    BY <2>1 DEF CloseConn, Goto, sessVars
  <2>. QED
    BY <2>2
<1>15. CASE Alive /\ \E c \in Conns : WriterTakes(c)
  <2>1. PICK c \in Conns : WriterTakes(c)
    BY <1>15
  <2>2. OpenSessions' = OpenSessions /\ gauge' = gauge
    BY <2>1 DEF WriterTakes, Goto, sessVars
  <2>. QED
    BY <2>2
<1>16. CASE Alive /\ \E c \in Conns : WriteSucceeds(c)
  <2>1. PICK c \in Conns : WriteSucceeds(c)
    BY <1>16
  <2>2. OpenSessions' = OpenSessions /\ gauge' = gauge
    BY <2>1 DEF WriteSucceeds, Goto, sessVars
  <2>. QED
    BY <2>2
<1>17. CASE Alive /\ \E c \in Conns : WriterEnds(c)
  <2>1. PICK c \in Conns : WriterEnds(c)
    BY <1>17
  <2>2. CASE gauge' # gauge
    <3>1. OpenSessions' = OpenSessions \ {c} /\ c \in OpenSessions /\ gauge' = gauge - 1
      BY <2>1, <2>2 DEF WriterEnds, EnterClose, Goto, sessVars
    <3>. QED
      BY <3>1, SessionLeft
  <2>3. CASE gauge' = gauge
    <3>1. OpenSessions' = OpenSessions
      BY <2>1, <2>3 DEF WriterEnds, EnterClose, Goto, sessVars
    <3>. QED
      BY <3>1, <2>3
  <2>. QED
    BY <2>2, <2>3
<1>18. CASE Alive /\ \E c \in Conns : WriterReturns(c)
  <2>1. PICK c \in Conns : WriterReturns(c)
    BY <1>18
  <2>2. OpenSessions' = OpenSessions /\ gauge' = gauge
    BY <2>1 DEF WriterReturns, Goto, sessVars
  <2>. QED
    BY <2>2
<1>19. CASE Alive /\ \E c \in Conns : Tick(c)
  <2>1. PICK c \in Conns : Tick(c)
    BY <1>19
  <2>2. CASE gauge' # gauge
    <3>1. OpenSessions' = OpenSessions \ {c} /\ c \in OpenSessions /\ gauge' = gauge - 1
      BY <2>1, <2>2 DEF Tick, EnterClose, Goto, sessVars
    <3>. QED
      BY <3>1, SessionLeft
  <2>3. CASE gauge' = gauge
    <3>1. OpenSessions' = OpenSessions
      BY <2>1, <2>3 DEF Tick, EnterClose, Goto, sessVars
    <3>. QED
      BY <3>1, <2>3
  <2>. QED
    BY <2>2, <2>3
<1>20. CASE Alive /\ \E c \in Conns : PingSucceeds(c)
  <2>1. PICK c \in Conns : PingSucceeds(c)
    BY <1>20
  <2>2. OpenSessions' = OpenSessions /\ gauge' = gauge
    BY <2>1 DEF PingSucceeds, Goto, sessVars
  <2>. QED
    BY <2>2
<1>21. CASE Alive /\ \E c \in Conns : PingerReturns(c)
  <2>1. PICK c \in Conns : PingerReturns(c)
    BY <1>21
  <2>2. OpenSessions' = OpenSessions /\ gauge' = gauge
    BY <2>1 DEF PingerReturns, Goto, sessVars
  <2>. QED
    BY <2>2
<1>22. CASE Alive /\ \E c \in Conns : GoesIdle(c)
  <2>1. PICK c \in Conns : GoesIdle(c)
    BY <1>22
  <2>2. OpenSessions' = OpenSessions /\ gauge' = gauge
    BY <2>1 DEF GoesIdle, Goto, sessVars
  <2>. QED
    BY <2>2
<1>23. CASE \E c \in Conns : WritersCollide(c)
  BY <1>23 DEF WritersCollide, sessVars
<1>24. CASE UNCHANGED vars
  BY <1>24 DEF vars, sessVars
<1>. QED
  BY <1>1, <1>2, <1>3, <1>4, <1>5, <1>6, <1>7, <1>8, <1>9, <1>10, <1>11, <1>12, <1>13, <1>14, <1>15, <1>16, <1>17, <1>18, <1>19, <1>20, <1>21, <1>22, <1>23, <1>24
  DEF Next, CloseBody, HandlerStep, WriterStep, PingerStep, EnvStep, Alive

\* A slot taken by one more request from address a.
LEMMA SlotTaken ==
  ASSUME SessionInv, NEW c \in Conns, NEW a \in Addrs,
         Held' = Held \cup {c}, c \notin Held, global' = global + 1,
         HeldFrom(a)' = HeldFrom(a) \cup {c}, c \notin HeldFrom(a),
         \A b \in Addrs \ {a} : HeldFrom(b)' = HeldFrom(b),
         perIP' = [perIP EXCEPT ![a] = @ + 1]
  PROVE  SlotsMatchSessions'
<1>1. Cardinality(Held)' = Cardinality(Held) + 1
  BY FiniteCounts, FS_AddElement
<1>2. Cardinality(HeldFrom(a))' = Cardinality(HeldFrom(a)) + 1
  BY FiniteCounts, FS_AddElement
<1>3. \A b \in Addrs : perIP'[b] = Cardinality(HeldFrom(b)')
  BY <1>2 DEF SessionInv, TypeOK, SlotsMatchSessions
<1>. QED
  BY <1>1, <1>3 DEF SessionInv, SlotsMatchSessions

\* A slot given back by a request that held one.
LEMMA SlotGiven ==
  ASSUME SessionInv, NEW c \in Conns, addr[c] \in Addrs, UNCHANGED addr,
         Held' = Held \ {c}, c \in Held, global' = global - 1,
         perIP' = [perIP EXCEPT ![addr[c]] = @ - 1]
  PROVE  SlotsMatchSessions'
<1>1. Cardinality(Held)' = Cardinality(Held) - 1
  BY FiniteCounts, FS_RemoveElement
<1>2. HeldFrom(addr[c])' = HeldFrom(addr[c]) \ {c} /\ c \in HeldFrom(addr[c])
  BY DEF HeldFrom
<1>3. Cardinality(HeldFrom(addr[c])') = Cardinality(HeldFrom(addr[c])) - 1
  BY <1>2, FiniteCounts, FS_RemoveElement
<1>4. \A b \in Addrs \ {addr[c]} : HeldFrom(b)' = HeldFrom(b)
  BY DEF HeldFrom
<1>5. \A b \in Addrs : perIP'[b] = Cardinality(HeldFrom(b)')
  BY <1>3, <1>4 DEF SessionInv, TypeOK, SlotsMatchSessions
<1>. QED
  BY <1>1, <1>5 DEF SessionInv, SlotsMatchSessions

\* No slot changes hands.
LEMMA SlotsKept ==
  ASSUME SlotsMatchSessions, Held' = Held, UNCHANGED limVars,
         \A b \in Addrs : HeldFrom(b)' = HeldFrom(b)
  PROVE  SlotsMatchSessions'
BY DEF SlotsMatchSessions, limVars

\* Every step keeps the limiter's counts exact.
LEMMA SlotStep ==
  ASSUME SessionInv, [Next]_vars
  PROVE  SlotsMatchSessions'
<1> USE DEF SessionInv, TypeOK, Coherent, InSession, HandlerPos, Stages
<1>1. CASE Alive /\ \E c \in Conns, a \in Addrs : Admit(c, a)
  <2>1. PICK c \in Conns, a \in Addrs : Admit(c, a)
    BY <1>1
  <2>2. CASE handler'[c] = "upgrade"
    <3>1. Held' = Held \cup {c} /\ c \notin Held /\ global' = global + 1
      BY <2>1, <2>2 DEF Admit, Acquire, Goto, limVars, sessVars, Held
    <3>2. HeldFrom(a)' = HeldFrom(a) \cup {c} /\ c \notin HeldFrom(a)
      BY <3>1, <2>1 DEF Admit, Acquire, Goto, limVars, sessVars, HeldFrom
    <3>3. \A b \in Addrs \ {a} : HeldFrom(b)' = HeldFrom(b)
      BY <3>1, <2>1 DEF Admit, Acquire, Goto, limVars, sessVars, HeldFrom
    <3>4. perIP' = [perIP EXCEPT ![a] = @ + 1]
      BY <2>1, <2>2 DEF Admit, Acquire, Goto, limVars, sessVars
    <3>. QED
      BY <3>1, <3>2, <3>3, <3>4, SlotTaken
  <2>3. CASE handler'[c] # "upgrade"
    <3>1. Held' = Held /\ UNCHANGED limVars
      BY <2>1, <2>3 DEF Admit, Acquire, Goto, limVars, sessVars, Held
    <3>2. \A b \in Addrs : HeldFrom(b)' = HeldFrom(b)
      BY <3>1, <2>1 DEF Admit, Acquire, Goto, limVars, sessVars, HeldFrom, Held
    <3>. QED
      BY <3>1, <3>2, SlotsKept
  <2>. QED
    BY <2>2, <2>3
<1>2. CASE Alive /\ \E c \in Conns : UpgradeFails(c)
  <2>1. PICK c \in Conns : UpgradeFails(c)
    BY <1>2
  <2>2. Held' = Held /\ UNCHANGED <<addr, limVars>>
    BY <2>1 DEF UpgradeFails, Goto, limVars, sessVars, Held
  <2>. QED
    BY <2>2, SlotsKept DEF HeldFrom
<1>3. CASE Alive /\ \E c \in Conns : UpgradeSucceeds(c)
  <2>1. PICK c \in Conns : UpgradeSucceeds(c)
    BY <1>3
  <2>2. Held' = Held /\ UNCHANGED <<addr, limVars>>
    BY <2>1 DEF UpgradeSucceeds, Goto, limVars, sessVars, Held
  <2>. QED
    BY <2>2, SlotsKept DEF HeldFrom
<1>4. CASE Alive /\ \E c \in Conns : Greet(c)
  <2>1. PICK c \in Conns : Greet(c)
    BY <1>4
  <2>2. Held' = Held /\ UNCHANGED <<addr, limVars>>
    BY <2>1 DEF Greet, WriteJSON, EnterClose, SendClosed, Goto, limVars, sessVars, Held
  <2>. QED
    BY <2>2, SlotsKept DEF HeldFrom
<1>5. CASE Alive /\ \E c \in Conns : Reply(c)
  <2>1. PICK c \in Conns : Reply(c)
    BY <1>5
  <2>2. Held' = Held /\ UNCHANGED <<addr, limVars>>
    BY <2>1 DEF Reply, WriteJSON, EnterClose, SendClosed, Goto, limVars, sessVars, Held
  <2>. QED
    BY <2>2, SlotsKept DEF HeldFrom
<1>6. CASE Alive /\ \E c \in Conns : LastReply(c)
  <2>1. PICK c \in Conns : LastReply(c)
    BY <1>6
  <2>2. Held' = Held /\ UNCHANGED <<addr, limVars>>
    BY <2>1 DEF LastReply, WriteJSON, EnterClose, SendClosed, Goto, limVars, sessVars, Held
  <2>. QED
    BY <2>2, SlotsKept DEF HeldFrom
<1>7. CASE Alive /\ \E c \in Conns : Receive(c)
  <2>1. PICK c \in Conns : Receive(c)
    BY <1>7
  <2>2. Held' = Held /\ UNCHANGED <<addr, limVars>>
    BY <2>1 DEF Receive, Goto, limVars, sessVars, Held
  <2>. QED
    BY <2>2, SlotsKept DEF HeldFrom
<1>8. CASE Alive /\ \E c \in Conns : ReadFails(c)
  <2>1. PICK c \in Conns : ReadFails(c)
    BY <1>8
  <2>2. Held' = Held /\ UNCHANGED <<addr, limVars>>
    BY <2>1 DEF ReadFails, Goto, limVars, sessVars, Held
  <2>. QED
    BY <2>2, SlotsKept DEF HeldFrom
<1>9. CASE Alive /\ \E c \in Conns : DeferredClose(c)
  <2>1. PICK c \in Conns : DeferredClose(c)
    BY <1>9
  <2>2. Held' = Held /\ UNCHANGED <<addr, limVars>>
    BY <2>1 DEF DeferredClose, EnterClose, Goto, limVars, sessVars, Held
  <2>. QED
    BY <2>2, SlotsKept DEF HeldFrom
<1>10. CASE Alive /\ \E c \in Conns : CloseReturns(c)
  <2>1. PICK c \in Conns : CloseReturns(c)
    BY <1>10
  <2>2. Held' = Held /\ UNCHANGED <<addr, limVars>>
    BY <2>1 DEF CloseReturns, Goto, limVars, sessVars, Held
  <2>. QED
    BY <2>2, SlotsKept DEF HeldFrom
<1>11. CASE Alive /\ \E c \in Conns : DeferredRelease(c)
  <2>1. PICK c \in Conns : DeferredRelease(c)
    BY <1>11
  <2>2. addr[c] \in Addrs
    BY <2>1 DEF DeferredRelease
  <2>3. CASE ~released[c]
    <3>1. Held' = Held \ {c} /\ c \in Held /\ UNCHANGED addr
      BY <2>1, <2>3 DEF DeferredRelease, Release, LimiterRelease, Goto, limVars, sessVars, Held
    <3>2. global' = global - 1 /\ perIP' = [perIP EXCEPT ![addr[c]] = @ - 1]
      BY <3>1, <2>1, <2>2, <2>3, HeldPositive DEF DeferredRelease, Release, LimiterRelease, Goto, limVars, sessVars
    <3>. QED
      BY <3>1, <3>2, <2>2, SlotGiven
  <2>4. CASE released[c]
    <3>1. Held' = Held /\ UNCHANGED <<addr, limVars>>
      BY <2>1, <2>4 DEF DeferredRelease, Release, LimiterRelease, Goto, limVars, sessVars, Held
    <3>2. \A b \in Addrs : HeldFrom(b)' = HeldFrom(b)
      BY <3>1 DEF HeldFrom
    <3>. QED
      BY <3>1, <3>2, SlotsKept
  <2>. QED
    BY <2>3, <2>4
<1>12. CASE Alive /\ \E c \in Conns : FreeSlot(c)
  <2>1. PICK c \in Conns : FreeSlot(c)
    BY <1>12
  <2>2. addr[c] \in Addrs
    BY <2>1 DEF FreeSlot
  <2>3. CASE ~released[c]
    <3>1. Held' = Held \ {c} /\ c \in Held /\ UNCHANGED addr
      BY <2>1, <2>3 DEF FreeSlot, Release, LimiterRelease, Goto, limVars, sessVars, Held
    <3>2. global' = global - 1 /\ perIP' = [perIP EXCEPT ![addr[c]] = @ - 1]
      BY <3>1, <2>1, <2>2, <2>3, HeldPositive DEF FreeSlot, Release, LimiterRelease, Goto, limVars, sessVars
    <3>. QED
      BY <3>1, <3>2, <2>2, SlotGiven
  <2>4. CASE released[c]
    <3>1. Held' = Held /\ UNCHANGED <<addr, limVars>>
      BY <2>1, <2>4 DEF FreeSlot, Release, LimiterRelease, Goto, limVars, sessVars, Held
    <3>2. \A b \in Addrs : HeldFrom(b)' = HeldFrom(b)
      BY <3>1 DEF HeldFrom
    <3>. QED
      BY <3>1, <3>2, SlotsKept
  <2>. QED
    BY <2>3, <2>4
<1>13. CASE Alive /\ \E c \in Conns : CloseSend(c)
  <2>1. PICK c \in Conns : CloseSend(c)
    BY <1>13
  <2>2. Held' = Held /\ UNCHANGED <<addr, limVars>>
    BY <2>1 DEF CloseSend, Goto, limVars, sessVars, Held
  <2>. QED
    BY <2>2, SlotsKept DEF HeldFrom
<1>14. CASE Alive /\ \E c \in Conns : CloseConn(c)
  <2>1. PICK c \in Conns : CloseConn(c)
    BY <1>14
  <2>2. Held' = Held /\ UNCHANGED <<addr, limVars>>
    BY <2>1 DEF CloseConn, Goto, limVars, sessVars, Held
  <2>. QED
    BY <2>2, SlotsKept DEF HeldFrom
<1>15. CASE Alive /\ \E c \in Conns : WriterTakes(c)
  <2>1. PICK c \in Conns : WriterTakes(c)
    BY <1>15
  <2>2. Held' = Held /\ UNCHANGED <<addr, limVars>>
    BY <2>1 DEF WriterTakes, Goto, limVars, sessVars, Held
  <2>. QED
    BY <2>2, SlotsKept DEF HeldFrom
<1>16. CASE Alive /\ \E c \in Conns : WriteSucceeds(c)
  <2>1. PICK c \in Conns : WriteSucceeds(c)
    BY <1>16
  <2>2. Held' = Held /\ UNCHANGED <<addr, limVars>>
    BY <2>1 DEF WriteSucceeds, Goto, limVars, sessVars, Held
  <2>. QED
    BY <2>2, SlotsKept DEF HeldFrom
<1>17. CASE Alive /\ \E c \in Conns : WriterEnds(c)
  <2>1. PICK c \in Conns : WriterEnds(c)
    BY <1>17
  <2>2. Held' = Held /\ UNCHANGED <<addr, limVars>>
    BY <2>1 DEF WriterEnds, EnterClose, Goto, limVars, sessVars, Held
  <2>. QED
    BY <2>2, SlotsKept DEF HeldFrom
<1>18. CASE Alive /\ \E c \in Conns : WriterReturns(c)
  <2>1. PICK c \in Conns : WriterReturns(c)
    BY <1>18
  <2>2. Held' = Held /\ UNCHANGED <<addr, limVars>>
    BY <2>1 DEF WriterReturns, Goto, limVars, sessVars, Held
  <2>. QED
    BY <2>2, SlotsKept DEF HeldFrom
<1>19. CASE Alive /\ \E c \in Conns : Tick(c)
  <2>1. PICK c \in Conns : Tick(c)
    BY <1>19
  <2>2. Held' = Held /\ UNCHANGED <<addr, limVars>>
    BY <2>1 DEF Tick, EnterClose, Goto, limVars, sessVars, Held
  <2>. QED
    BY <2>2, SlotsKept DEF HeldFrom
<1>20. CASE Alive /\ \E c \in Conns : PingSucceeds(c)
  <2>1. PICK c \in Conns : PingSucceeds(c)
    BY <1>20
  <2>2. Held' = Held /\ UNCHANGED <<addr, limVars>>
    BY <2>1 DEF PingSucceeds, Goto, limVars, sessVars, Held
  <2>. QED
    BY <2>2, SlotsKept DEF HeldFrom
<1>21. CASE Alive /\ \E c \in Conns : PingerReturns(c)
  <2>1. PICK c \in Conns : PingerReturns(c)
    BY <1>21
  <2>2. Held' = Held /\ UNCHANGED <<addr, limVars>>
    BY <2>1 DEF PingerReturns, Goto, limVars, sessVars, Held
  <2>. QED
    BY <2>2, SlotsKept DEF HeldFrom
<1>22. CASE Alive /\ \E c \in Conns : GoesIdle(c)
  <2>1. PICK c \in Conns : GoesIdle(c)
    BY <1>22
  <2>2. Held' = Held /\ UNCHANGED <<addr, limVars>>
    BY <2>1 DEF GoesIdle, Goto, limVars, sessVars, Held
  <2>. QED
    BY <2>2, SlotsKept DEF HeldFrom
<1>23. CASE \E c \in Conns : WritersCollide(c)
  BY <1>23 DEF WritersCollide, SlotsMatchSessions, limVars, sessVars, Held, HeldFrom
<1>24. CASE UNCHANGED vars
  BY <1>24 DEF vars, SlotsMatchSessions, limVars, sessVars, Held, HeldFrom
<1>. QED
  BY <1>1, <1>2, <1>3, <1>4, <1>5, <1>6, <1>7, <1>8, <1>9, <1>10, <1>11, <1>12, <1>13, <1>14, <1>15, <1>16, <1>17, <1>18, <1>19, <1>20, <1>21, <1>22, <1>23, <1>24
  DEF Next, CloseBody, HandlerStep, WriterStep, PingerStep, EnvStep, Alive

\* The invariant holds when the service starts.
LEMMA InitSessionInv == Init => SessionInv
<1> SUFFICES ASSUME Init PROVE SessionInv
  OBVIOUS
<1>1. TypeOK
  <2>1. released \in [Conns -> BOOLEAN] /\ idle \in [Conns -> BOOLEAN] /\ crashed \in BOOLEAN
    BY DEF Init
  <2>. QED
    BY <2>1, LimitsAssumption DEF Init, TypeOK, HandlerPos, Stages, Pump
<1>2. Coherent
  BY DEF Init, Coherent, InSession
<1>3. Held = {} /\ OpenSessions = {} /\ \A a \in Addrs : HeldFrom(a) = {}
  BY DEF Init, Held, HeldFrom, OpenSessions
<1>4. SlotsMatchSessions /\ GaugeCountsSessions
  BY <1>3, FS_EmptySet DEF Init, SlotsMatchSessions, GaugeCountsSessions
<1>. QED
  BY <1>1, <1>2, <1>4 DEF SessionInv

\* Every reachable state satisfies the inductive invariant.
THEOREM SessionInvariant == Spec => []SessionInv
<1>1. SessionInv /\ [Next]_vars => SessionInv'
  BY TypeStep, CoherentStep, SlotStep, GaugeStep DEF SessionInv
<1>. QED
  BY InitSessionInv, <1>1, PTL DEF Spec

\* Type correctness; in particular the limiter never counts more connections
\* than MaxGlobal, nor more than MaxPerIP from one address.
THEOREM SessionTypeCorrect == Spec => []TypeOK
<1>1. SessionInv => TypeOK
  BY DEF SessionInv
<1>. QED
  BY SessionInvariant, <1>1, PTL

\* HandleNearby gives every slot of the connection limiter back exactly once.
THEOREM SlotsExact == Spec => []SlotsMatchSessions
<1>1. SessionInv => SlotsMatchSessions
  BY DEF SessionInv
<1>. QED
  BY SessionInvariant, <1>1, PTL

\* The gauge counts exactly the open sessions.
THEOREM SessionGaugeExact == Spec => []GaugeCountsSessions
<1>1. SessionInv => GaugeCountsSessions
  BY DEF SessionInv
<1>. QED
  BY SessionInvariant, <1>1, PTL
=============================================================================
