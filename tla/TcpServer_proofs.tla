-------------------------- MODULE TcpServer_proofs --------------------------
(* Proofs about TcpServer, for any number of connections and descriptors. *)
EXTENDS TcpServer, TLAPS

USE DEF Stages, Sockets, Free, Listener, Control, Own, NoClient, Tracked, Live,
    Drained, WorkersDone, Admits, Erased, HandlerOwns

\* Who holds the mutex, which sockets are whose and how far a stop has come fit
\* together from the start and after every step of every thread.
LEMMA Invariance == Spec => []IInv
<1>1. Init => IInv
  <2> SUFFICES ASSUME Init PROVE IInv
    OBVIOUS
  <2> USE TcpAssumption DEF Init
  <2>1. TypeOK
    <3>1. PICK f \in Fds : /\ listener = f
                           /\ sock = [g \in Fds |-> IF g = f THEN Listener ELSE Free]
      OBVIOUS
    <3>2. Free \in Sockets /\ Listener \in Sockets
      OBVIOUS
    <3>3. sock \in [Fds -> Sockets]
      BY <3>1, <3>2
    <3>4. running \in BOOLEAN /\ disconnecting \in BOOLEAN
      OBVIOUS
    <3>5. /\ active_clients \in [Fds -> Conns \cup {NoConn}]
          /\ conn \in [Conns -> Stages]
          /\ client \in [fd : Fds \cup {NoFd}, conn : Conns \cup {NoConn}]
          /\ listener \in Fds \cup {NoFd} /\ accepting \in Sockets
      BY <3>1, <3>2
    <3> QED
      BY <3>3, <3>4, <3>5 DEF TypeOK
  <2>2. TrackedAreLive
    BY DEF TrackedAreLive
  <2>3. DescriptorsAreOwned
    BY DEF DescriptorsAreOwned
  <2>4. AcceptHolds
    BY DEF AcceptHolds
  <2>5. MainHolds
    BY DEF MainHolds
  <2>6. /\ DrainBeforeCallback /\ DrainWaitsForCancelled
        /\ ShutdownHitsCancelled /\ StoppedLeavesNothing
    BY DEF DrainBeforeCallback, DrainWaitsForCancelled, ShutdownHitsCancelled,
           StoppedLeavesNothing
  <2> QED
    BY <2>1, <2>2, <2>3, <2>4, <2>5, <2>6 DEF IInv
<1>2. IInv /\ [Next]_vars => IInv'
  <2> SUFFICES ASSUME IInv, [Next]_vars PROVE IInv'
    OBVIOUS
  <2> USE TcpAssumption DEF IInv, TypeOK, TrackedAreLive, DescriptorsAreOwned,
       AcceptHolds, MainHolds, DrainBeforeCallback, DrainWaitsForCancelled,
       ShutdownHitsCancelled, StoppedLeavesNothing
  <2>1. ASSUME NEW c \in Conns, PeerConnects(c) PROVE IInv'
    BY <2>1 DEF PeerConnects
  <2>2. ASSUME NEW c \in Conns, PeerHangsUp(c) PROVE IInv'
    BY <2>2 DEF PeerHangsUp
  <2>3. ASSUME NEW c \in Conns, NEW f \in Fds, NEW k \in HandlerKinds,
               HandlerOpens(c, f, k) PROVE IInv'
    BY <2>3 DEF HandlerOpens
  <2>4. ASSUME NEW c \in Conns, HandlerReturns(c) PROVE IInv'
    BY <2>4 DEF HandlerReturns
  <2>5. ASSUME NEW c \in Conns, NEW f \in Fds, WorkerCloses(c, f) PROVE IInv'
    BY <2>5 DEF WorkerCloses
  <2>6. ASSUME NEW c \in Conns, WorkerFinishes(c) PROVE IInv'
    BY <2>6 DEF WorkerFinishes
  <2>7. CASE AcceptCheck
    BY <2>7 DEF AcceptCheck
  <2>8. CASE AcceptCall
    BY <2>8 DEF AcceptCall
  <2>9. ASSUME NEW c \in Conns, NEW f \in Fds, AcceptReturns(c, f) PROVE IInv'
    BY <2>9 DEF AcceptReturns
  <2>10. CASE AcceptFails
    BY <2>10 DEF AcceptFails
  <2>11. CASE AcceptForeign
    BY <2>11 DEF AcceptForeign
  <2>12. CASE AcceptRejects
    BY <2>12 DEF AcceptRejects
  <2>13. CASE AcceptTracks
    BY <2>13 DEF AcceptTracks
  <2>14. CASE AcceptSpawns
    BY <2>14 DEF AcceptSpawns
  <2>15. CASE DisconnectBegins
    BY <2>15 DEF DisconnectBegins, CancelAll
  <2>16. CASE DisconnectDrained
    BY <2>16 DEF DisconnectDrained
  <2>17. CASE DisconnectEnds
    <3>1. TypeOK'
      BY <2>17 DEF DisconnectEnds
    <3>2. MainHolds'
      BY <2>17 DEF DisconnectEnds
    <3>3. TrackedAreLive' /\ DescriptorsAreOwned' /\ AcceptHolds'
      BY <2>17 DEF DisconnectEnds
    <3>4. (DrainBeforeCallback /\ DrainWaitsForCancelled /\ ShutdownHitsCancelled
              /\ StoppedLeavesNothing)'
      BY <2>17 DEF DisconnectEnds
    <3> QED
      BY <3>1, <3>2, <3>3, <3>4
  <2>18. CASE StopBegins
    <3>1. TypeOK'
      BY <2>18 DEF StopBegins
    <3>2. MainHolds'
      BY <2>18 DEF StopBegins
    <3>3. TrackedAreLive' /\ DescriptorsAreOwned' /\ AcceptHolds'
      BY <2>18 DEF StopBegins
    <3>4. (DrainBeforeCallback /\ DrainWaitsForCancelled /\ ShutdownHitsCancelled
              /\ StoppedLeavesNothing)'
      BY <2>18 DEF StopBegins
    <3> QED
      BY <3>1, <3>2, <3>3, <3>4
  <2>19. CASE StopClosesListener
    BY <2>19 DEF StopClosesListener
  <2>20. CASE StopJoinsAccept
    BY <2>20 DEF StopJoinsAccept
  <2>21. CASE StopCancels
    BY <2>21 DEF StopCancels, CancelAll
  <2>22. CASE StopDrained
    <3>1. TypeOK'
      BY <2>22 DEF StopDrained
    <3>2. MainHolds'
      BY <2>22 DEF StopDrained
    <3>3. TrackedAreLive' /\ DescriptorsAreOwned' /\ AcceptHolds'
      BY <2>22 DEF StopDrained
    <3>4. (DrainBeforeCallback /\ DrainWaitsForCancelled /\ ShutdownHitsCancelled
              /\ StoppedLeavesNothing)'
      BY <2>22 DEF StopDrained
    <3> QED
      BY <3>1, <3>2, <3>3, <3>4
  <2>23. CASE StopJoinsWorkers
    BY <2>23 DEF StopJoinsWorkers
  <2>24. CASE UNCHANGED vars
    BY <2>24 DEF vars
  <2>25. CASE Stopped
    BY <2>24, <2>25 DEF Stopped
  <2> QED
    BY <2>1, <2>2, <2>3, <2>4, <2>5, <2>6, <2>7, <2>8, <2>9, <2>10, <2>11,
       <2>12, <2>13, <2>14, <2>15, <2>16, <2>17, <2>18, <2>19, <2>20, <2>21,
       <2>22, <2>23, <2>24, <2>25
       DEF Next, AcceptThread, Worker, MainThread
<1> QED
  BY <1>1, <1>2, PTL DEF Spec

\* Every variable keeps its type, for any number of connections, descriptors
\* and kinds of sockets a handler opens.
THEOREM TcpServerTypes == Spec => []TypeOK
<1>1. IInv => TypeOK
  BY DEF IInv
<1> QED
  BY <1>1, Invariance, PTL

\* tcp_server.h, "Wait for all session teardown before invoking on_drained":
\* the callback never runs while a client is live.
THEOREM CallbackRunsAlone == Spec => []DrainBeforeCallback
<1>1. IInv => DrainBeforeCallback
  BY DEF IInv
<1> QED
  BY <1>1, Invariance, PTL

\* tcp_server.h, "New clients are rejected until that callback completes":
\* every client a drain waits for has its cancelled flag set.
THEOREM DrainWaitsOnlyForCancelled == Spec => []DrainWaitsForCancelled
<1>1. IInv => DrainWaitsForCancelled
  BY DEF IInv
<1> QED
  BY <1>1, Invariance, PTL

\* tcp_server.h, "Workers close and erase under the same lock to prevent
\* descriptor reuse from racing a concurrent disconnect request": shutdown()
\* reaches nothing but control sockets of cancelled clients.
THEOREM ShutdownNeverHitsAStranger == Spec => []ShutdownHitsCancelled
<1>1. IInv => ShutdownHitsCancelled
  BY DEF IInv
<1> QED
  BY <1>1, Invariance, PTL

\* tcp_server.h, "Stop() joins all client threads and closes the listener":
\* nothing is left open or unjoined once stop() has returned.
THEOREM StopLeavesNothing == Spec => []StoppedLeavesNothing
<1>1. IInv => StoppedLeavesNothing
  BY DEF IInv
<1> QED
  BY <1>1, Invariance, PTL

-----------------------------------------------------------------------------
(* TcpServer implements DrainGate.                                         *)


\* The accept thread, the workers, the mutex and the main thread implement the
\* gate of DrainGate, for any number of connections and descriptors.
THEOREM ImplementsGate == Spec => GateSpec
<1>1. Init => Gate!Init
  BY DEF Init, Gate!Init
\* A step of the server is a step of the gate or leaves it as it is.
<1>2. IInv /\ [Next]_vars => [Gate!Next]_Gate!gvars
  <2> SUFFICES ASSUME IInv, [Next]_vars PROVE [Gate!Next]_Gate!gvars
    OBVIOUS
  <2> USE DEF IInv, TypeOK, MainHolds, Gate!gvars
  <2>1. ASSUME NEW c \in Conns, PeerConnects(c) PROVE UNCHANGED Gate!gvars
    BY <2>1 DEF PeerConnects
  <2>2. ASSUME NEW c \in Conns, PeerHangsUp(c) PROVE UNCHANGED Gate!gvars
    BY <2>2 DEF PeerHangsUp
  <2>3. ASSUME NEW c \in Conns, NEW f \in Fds, NEW k \in HandlerKinds,
               HandlerOpens(c, f, k) PROVE UNCHANGED Gate!gvars
    BY <2>3 DEF HandlerOpens
  <2>4. ASSUME NEW c \in Conns, HandlerReturns(c) PROVE UNCHANGED Gate!gvars
    BY <2>4 DEF HandlerReturns
  <2>5. ASSUME NEW c \in Conns, NEW f \in Fds, WorkerCloses(c, f)
        PROVE  Gate!Leave(c)
    BY <2>5 DEF WorkerCloses, Gate!Leave
  <2>6. ASSUME NEW c \in Conns, WorkerFinishes(c) PROVE UNCHANGED Gate!gvars
    BY <2>6 DEF WorkerFinishes
  <2>7. CASE AcceptCheck
    BY <2>7 DEF AcceptCheck
  <2>8. CASE AcceptCall
    BY <2>8 DEF AcceptCall
  <2>9. ASSUME NEW c \in Conns, NEW f \in Fds, AcceptReturns(c, f)
        PROVE UNCHANGED Gate!gvars
    BY <2>9 DEF AcceptReturns
  <2>10. CASE AcceptFails \/ AcceptForeign
    BY <2>10 DEF AcceptFails, AcceptForeign
  <2>11. CASE AcceptRejects
    BY <2>11 DEF AcceptRejects, AcceptHolds
  <2>12. CASE AcceptTracks
    <3>1. PICK c \in Conns : c = client.conn /\ conn[c] = "accepted"
      BY <2>12 DEF AcceptTracks, AcceptHolds
    <3>2. Gate!Admit(c)
      BY <2>12, <3>1 DEF AcceptTracks, Gate!Admit
    <3> QED
      BY <3>1, <3>2 DEF Gate!Next
  <2>13. CASE AcceptSpawns
    BY <2>13 DEF AcceptSpawns, AcceptHolds
  <2>14. CASE DisconnectBegins
    BY <2>14 DEF DisconnectBegins, CancelAll, Gate!Next, Gate!Shut
  <2>15. CASE DisconnectDrained
    <3>1. Live = {}
      BY <2>15, TcpAssumption DEF DisconnectDrained, TrackedAreLive
    <3> QED
      BY <2>15, <3>1 DEF DisconnectDrained, Gate!Next, Gate!Drain
  <2>16. CASE DisconnectEnds
    BY <2>16 DEF DisconnectEnds, Gate!Next, Gate!Reopen
  <2>17. CASE StopBegins
    BY <2>17 DEF StopBegins, Gate!Next, Gate!Close
  <2>18. CASE StopClosesListener \/ StopJoinsAccept \/ StopCancels
    BY <2>18 DEF StopClosesListener, StopJoinsAccept, StopCancels, CancelAll
  <2>19. CASE StopDrained \/ StopJoinsWorkers
    BY <2>19 DEF StopDrained, StopJoinsWorkers
  <2>20. CASE UNCHANGED vars \/ Stopped
    BY <2>20 DEF vars, Stopped
  <2> QED
    BY <2>1, <2>2, <2>3, <2>4, <2>5, <2>6, <2>7, <2>8, <2>9, <2>10, <2>11,
       <2>12, <2>13, <2>14, <2>15, <2>16, <2>17, <2>18, <2>19, <2>20
       DEF Next, AcceptThread, Worker, MainThread, Gate!Next
<1> QED
  BY <1>1, <1>2, Invariance, PTL DEF Spec, GateSpec, Gate!Spec

=============================================================================
