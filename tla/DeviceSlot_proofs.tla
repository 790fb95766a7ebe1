-------------------------- MODULE DeviceSlot_proofs --------------------------
(* Proofs about DeviceSlot, for any number of connections and phones. *)
EXTENDS DeviceSlot, TLAPS

USE DEF Wants, Kinds, NoDevice, Devices, Busy, Moves, tcp, session, screen

\* How far each connection has come and what the slot names fit together from the
\* start and after every request, end of a connection and Disconnect.
LEMMA Invariance == Spec => []IInv
\* A merged kind is a kind.
<1>1. ASSUME NEW k \in Kinds, NEW w \in Wants
      PROVE  MergedKind(k, w) \in Kinds
  BY DEF MergedKind
<1>2. Init => IInv
  BY DeviceAssumption DEF Init, TcpGate!Init, IInv, TypeOK, StagesFit,
     DeviceHasOwner
<1>3. IInv /\ [Next]_vars => IInv'
  <2> SUFFICES ASSUME IInv, [Next]_vars PROVE IInv'
    OBVIOUS
  <2> USE DeviceAssumption DEF IInv, TypeOK, StagesFit, DeviceHasOwner
  <2>1. ASSUME NEW c \in Conns, Connects(c) PROVE IInv'
    BY <2>1 DEF Connects, TcpGate!Admit
  <2>2. ASSUME NEW c \in Conns, Vanishes(c) PROVE IInv'
    BY <2>2 DEF Vanishes
  <2>3. ASSUME NEW c \in Conns, Draws(c) PROVE IInv'
    BY <2>3 DEF Draws
  <2>4. ASSUME NEW c \in Conns, SetupLegacy(c) PROVE IInv'
    BY <2>4 DEF SetupLegacy
  <2>5. ASSUME NEW c \in Conns, SetupGuard(c) PROVE IInv'
    BY <2>5 DEF SetupGuard
  <2>6. ASSUME NEW c \in Conns, SetupBuilds(c) PROVE IInv'
    BY <2>6 DEF SetupBuilds
  <2>7. ASSUME NEW c \in Conns, SetupFails(c) PROVE IInv'
    BY <2>7 DEF SetupFails, Forgets
  <2>8. ASSUME NEW c \in Conns, SetupReads(c) PROVE IInv'
    <3>1. device.kind \in Kinds
      OBVIOUS
    <3> QED
      BY <2>8, <3>1 DEF SetupReads
  <2>9. ASSUME NEW c \in Conns, SetupPublishes(c) PROVE IInv'
    <3>1. device' \in Devices /\ device'.sid = c
      BY <2>9, <1>1 DEF SetupPublishes
    <3>2. stage[c] = "publish" /\ streams' = streams /\ streams[c] # "none"
      BY <2>9 DEF SetupPublishes
    <3> QED
      BY <2>9, <3>1, <3>2 DEF SetupPublishes, Forgets
  <2>10. ASSUME NEW c \in Conns, TeardownMirror(c) PROVE IInv'
    BY <2>10 DEF TeardownMirror
  <2>11. ASSUME NEW c \in Conns, TeardownFull(c) PROVE IInv'
    BY <2>11 DEF TeardownFull, StreamsReset
  <2>12. ASSUME NEW c \in Conns, TeardownBlanks(c) PROVE IInv'
    BY <2>12 DEF TeardownBlanks
  <2>13. ASSUME NEW c \in Conns, TeardownUnshows(c) PROVE IInv'
    BY <2>13 DEF TeardownUnshows
  <2>14. ASSUME NEW c \in Conns, TeardownStopsPlayer(c) PROVE IInv'
    BY <2>14 DEF TeardownStopsPlayer
  <2>15. ASSUME NEW c \in Conns, PlayBegins(c) PROVE IInv'
    BY <2>15 DEF PlayBegins
  <2>16. ASSUME NEW c \in Conns, PlayPublishes(c) PROVE IInv'
    BY <2>16 DEF PlayPublishes
  <2>17. ASSUME NEW c \in Conns, ActionStartsPlayer(c) PROVE IInv'
    BY <2>17 DEF ActionStartsPlayer
  <2>18. ASSUME NEW c \in Conns, StopsPlayer(c) PROVE IInv'
    BY <2>18 DEF StopsPlayer
  <2>19. ASSUME NEW c \in Conns, EndsReading(c) PROVE IInv'
    BY <2>19 DEF EndsReading, StreamsReset
  <2>20. ASSUME NEW c \in Conns, EndClears(c) PROVE IInv'
    BY <2>20 DEF EndClears, OwnsSlot
  <2>21. ASSUME NEW c \in Conns, Ends(c) PROVE IInv'
    BY <2>21 DEF Ends, TcpGate!Leave
  <2>22. CASE Disconnect
    BY <2>22 DEF Disconnect, DisconnectBegins, DisconnectDrained,
       DisconnectCallback, Blanked, TcpGate!Shut, TcpGate!Drain, TcpGate!Reopen
  <2>23. CASE UNCHANGED vars
    BY <2>23 DEF vars
  <2> QED
    BY <2>1, <2>2, <2>3, <2>4, <2>5, <2>6, <2>7, <2>8, <2>9, <2>10, <2>11,
       <2>12, <2>13, <2>14, <2>15, <2>16, <2>17, <2>18, <2>19, <2>20, <2>21,
       <2>22, <2>23
       DEF Next, Request, Continues
<1> QED
  BY <1>2, <1>3, PTL DEF Spec

\* v0.4.1, "the matching active session is cleared instead of leaving a frozen
\* image": the slot never names a connection whose thread is through with it.
THEOREM SlotHasOwner == Spec => []DeviceHasOwner
<1>1. IInv => DeviceHasOwner
  BY DEF IInv
<1> QED
  BY <1>1, Invariance, PTL

\* video_renderer.h, "should drop every connected AirPlay client": when the
\* callback is over, nothing is left on the screen and nobody to draw on it.
THEOREM DisconnectIsClean == Spec => DisconnectLeavesIdle
<1> DEFINE Idle ==
      gate = "callback" /\ gate' # gate =>
         /\ device' = NoDevice /\ frame' = None /\ player' = None
         /\ \A c \in Conns : c \notin feeding' /\ stage'[c] = "out"
<1> DEFINE Empty == gate = "callback" => live = {}
<1>1. Init => Empty
  BY DEF Init, TcpGate!Init
<1>2. Empty /\ [Next]_vars => Empty'
  <2> SUFFICES ASSUME Empty, [Next]_vars PROVE Empty'
    OBVIOUS
  <2>1. ASSUME NEW c \in Conns, Connects(c) PROVE Empty'
    BY <2>1 DEF Connects, TcpGate!Admit
  <2>2. ASSUME NEW c \in Conns, Ends(c) PROVE Empty'
    BY <2>2 DEF Ends, TcpGate!Leave
  <2>3. CASE Disconnect
    BY <2>3 DEF Disconnect, DisconnectBegins, DisconnectDrained,
       DisconnectCallback, TcpGate!Shut, TcpGate!Drain, TcpGate!Reopen
  <2>4. CASE UNCHANGED tcp
    BY <2>4
  <2> QED
    BY <2>1, <2>2, <2>3, <2>4
       DEF Next, Request, Continues, vars, Vanishes, Draws, SetupLegacy,
           SetupGuard, SetupBuilds, SetupFails, SetupReads, SetupPublishes,
           TeardownMirror, TeardownFull, TeardownBlanks, TeardownUnshows,
           TeardownStopsPlayer, PlayBegins, PlayPublishes, ActionStartsPlayer,
           StopsPlayer, EndsReading, EndClears
<1>3. IInv /\ Empty /\ [Next]_vars => [Idle]_vars
  <2> SUFFICES ASSUME IInv, Empty, Next, gate = "callback", gate' # gate
               PROVE  Idle
    BY DEF vars
  <2>1. DisconnectCallback
    BY DEF Next, Request, Continues, Vanishes, Draws, SetupLegacy,
           SetupGuard, SetupBuilds, SetupFails, SetupReads, SetupPublishes,
           TeardownMirror, TeardownFull, TeardownBlanks, TeardownUnshows,
           TeardownStopsPlayer, PlayBegins, PlayPublishes, ActionStartsPlayer,
           StopsPlayer, EndsReading, EndClears, Connects, Ends, Disconnect,
           DisconnectBegins, DisconnectDrained, TcpGate!Admit, TcpGate!Leave,
           TcpGate!Shut, TcpGate!Drain
  <2>2. \A c \in Conns : stage[c] = "out" /\ streams[c] = "none"
    BY DEF IInv, TypeOK, StagesFit
  <2> QED
    BY <2>1, <2>2 DEF DisconnectCallback, Blanked, IInv, StagesFit
<1>4. Spec => []Empty
  BY <1>1, <1>2, PTL DEF Spec
<1> QED
  BY <1>3, <1>4, Invariance, PTL DEF Spec, DisconnectLeavesIdle

=============================================================================
