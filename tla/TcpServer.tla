------------------------------ MODULE TcpServer ------------------------------
(***************************************************************************)
(* src/net/tcp_server.cpp: the accept thread, one worker thread per        *)
(* accepted connection, and the main thread, which calls                   *)
(* close_all_clients() and stop().  The RTSP server (port 7000) and the    *)
(* HLS local server (port 7100) are both instances of this class.          *)
(*                                                                         *)
(* Descriptors are taken from a small pool and reused as soon as they are  *)
(* closed, by connections and by the sockets a handler opens for itself:   *)
(* the comments of the class are about exactly that reuse.  A critical     *)
(* section of clients_mtx_ is one action, except the drain callback, which *)
(* runs for a while with the mutex held (lock = "main").                   *)
(***************************************************************************)
EXTENDS Integers, FiniteSets

CONSTANTS Conns,        \* connections a peer may open, each used once
          NoConn,       \* "no connection"
          Fds,          \* socket descriptors of the process
          NoFd,         \* INVALID_SOCK
          HandlerKinds  \* kinds of sockets a handler opens for itself:
                        \* "mirror" listens (MirrorListener), "plain" does not

ASSUME TcpAssumption ==
    /\ NoConn \notin Conns
    /\ NoFd \notin Fds
    /\ Fds # {}
    /\ HandlerKinds \subseteq {"mirror", "plain"}

VARIABLES running,         \* running_
          disconnecting,   \* disconnecting_
          lock,            \* clients_mtx_: "free", or "main" in the callback
          listener,        \* listener_
          active_clients,  \* active_clients_: descriptor -> whose cancel flag
          cancelled,       \* connections whose cancelled flag is set
          workers,         \* workers_: connections whose thread is unjoined
          main,            \* where the main thread is
          accept,          \* where the accept thread is
          accepting,       \* the socket accept() is blocked on
          client,          \* ClientSocket of accept_loop: [fd, conn]
          conn,            \* stage of each connection
          hungup,          \* connections whose peer has gone
          sock,            \* kernel: what each descriptor names
          shut             \* kernel: sockets shutdown() was called on

vars == <<running, disconnecting, lock, listener, active_clients, cancelled,
          workers, main, accept, accepting, client, conn, hungup, sock, shut>>

Free      == [kind |-> "free",   conn |-> NoConn]
Listener  == [kind |-> "listen", conn |-> NoConn]
Control(c) == [kind |-> "control", conn |-> c]
Own(k, c) == [kind |-> k, conn |-> c]
Sockets == [kind : {"free", "listen", "control", "mirror", "plain"},
            conn : Conns \cup {NoConn}]

NoClient == [fd |-> NoFd, conn |-> NoConn]
Tracked  == {f \in Fds : active_clients[f] # NoConn}

\* The condition of the drain's wait, and of the joins of the workers.  A name
\* with a suffix after _ is a mutated form of the definition that follows it:
\* no part of the specification, but what the properties must notice.
Drained_Ignored == TRUE
Drained == Tracked = {}

WorkersDone_Detached == TRUE
WorkersDone == \A w \in workers : conn[w] = "finished"

\* The test of the accept loop under clients_mtx_.
Admits_WhileDraining == running
Admits == running /\ ~disconnecting

\* active_clients_.erase(fd)
Erased_Kept(f) == active_clients
Erased(f) == [active_clients EXCEPT ![f] = NoConn]

\* What a handler closes itself: the sockets it opened, not its connection's,
\* which the worker closes under clients_mtx_.
HandlerOwns_Control(c, f) == sock[f].conn = c
HandlerOwns(c, f) == sock[f].conn = c /\ sock[f] # Control(c)

\* Stages of a connection.  It is handed to a handler from "running" on; the
\* handler has returned at "returned", the descriptor is closed and untracked
\* at "closed", and the finished flag is set at "finished".
Stages == {"away", "backlog", "accepted", "tracked", "running", "returned",
           "closed", "finished", "rejected"}

Init ==
    /\ running = TRUE /\ disconnecting = FALSE /\ lock = "free"
    /\ \E f \in Fds :
          /\ listener = f
          /\ sock = [g \in Fds |-> IF g = f THEN Listener ELSE Free]
    /\ active_clients = [f \in Fds |-> NoConn]
    /\ cancelled = {} /\ workers = {} /\ hungup = {} /\ shut = {}
    /\ main = "idle" /\ accept = "check"
    /\ accepting = Free /\ client = NoClient
    /\ conn = [c \in Conns |-> "away"]

-----------------------------------------------------------------------------
(* The peers.                                                              *)

PeerConnects(c) ==
    /\ conn[c] = "away"
    /\ \E f \in Fds : sock[f] = Listener
    /\ conn' = [conn EXCEPT ![c] = "backlog"]
    /\ UNCHANGED <<running, disconnecting, lock, listener, active_clients,
                   cancelled, workers, main, accept, accepting, client,
                   hungup, sock, shut>>

PeerHangsUp(c) ==
    /\ conn[c] \in {"accepted", "tracked", "running"}
    /\ c \notin hungup
    /\ hungup' = hungup \cup {c}
    /\ UNCHANGED <<running, disconnecting, lock, listener, active_clients,
                   cancelled, workers, main, accept, accepting, client, conn,
                   sock, shut>>

-----------------------------------------------------------------------------
(* accept_loop()                                                           *)

\* while (running_)
AcceptCheck ==
    /\ accept = "check"
    /\ accept' = IF running THEN "call" ELSE "done"
    /\ UNCHANGED <<running, disconnecting, lock, listener, active_clients,
                   cancelled, workers, main, accepting, client, conn, hungup,
                   sock, shut>>

\* accept(listener_): listener_ is still the number it was, whatever that
\* number names by now.  Only a listening socket can be waited on.
AcceptCall ==
    /\ accept = "call"
    /\ IF sock[listener].kind \in {"listen", "mirror"}
       THEN accept' = "blocked" /\ accepting' = sock[listener]
       ELSE accept' = "done" /\ UNCHANGED accepting
    /\ UNCHANGED <<running, disconnecting, lock, listener, active_clients,
                   cancelled, workers, main, client, conn, hungup, sock, shut>>

\* accept() returns a connection on an unused descriptor.
AcceptReturns(c, f) ==
    /\ accept = "blocked" /\ accepting = Listener
    /\ conn[c] = "backlog" /\ sock[f] = Free
    /\ sock[listener] = Listener
    /\ sock' = [sock EXCEPT ![f] = Control(c)]
    /\ conn' = [conn EXCEPT ![c] = "accepted"]
    /\ client' = [fd |-> f, conn |-> c]
    /\ accept' = "admit"
    /\ accepting' = Free
    /\ UNCHANGED <<running, disconnecting, lock, listener, active_clients,
                   cancelled, workers, main, hungup, shut>>

\* The listener was closed under accept(), or accept() failed: the thread
\* returns either way.
AcceptFails ==
    /\ accept = "blocked"
    /\ accepting = Listener \/ \A f \in Fds : sock[f] # accepting
    /\ accept' = "done" /\ accepting' = Free
    /\ UNCHANGED <<running, disconnecting, lock, listener, active_clients,
                   cancelled, workers, main, client, conn, hungup, sock, shut>>

\* accept() was called on a handler's mirror listener that got the number of the
\* closed listener: the connection it returns is closed, as running_ is FALSE.
AcceptForeign ==
    /\ accept = "blocked" /\ accepting.kind = "mirror"
    /\ accept' = "check" /\ accepting' = Free
    /\ UNCHANGED <<running, disconnecting, lock, listener, active_clients,
                   cancelled, workers, main, client, conn, hungup, sock, shut>>

\* Under clients_mtx_: reject, or track the connection.  emplace() keeps the
\* entry a descriptor already has.
AcceptRejects ==
    /\ accept = "admit" /\ lock = "free"
    /\ ~Admits
    /\ sock' = [sock EXCEPT ![client.fd] = Free]
    /\ conn' = [conn EXCEPT ![client.conn] = "rejected"]
    /\ client' = NoClient
    /\ accept' = "check"
    /\ UNCHANGED <<running, disconnecting, lock, listener, active_clients,
                   cancelled, workers, main, accepting, hungup, shut>>

AcceptTracks ==
    /\ accept = "admit" /\ lock = "free"
    /\ Admits
    /\ active_clients' = [active_clients EXCEPT ![client.fd] =
                             IF @ = NoConn THEN client.conn ELSE @]
    /\ conn' = [conn EXCEPT ![client.conn] = "tracked"]
    /\ accept' = "spawn"
    /\ UNCHANGED <<running, disconnecting, lock, listener, cancelled, workers,
                   main, accepting, client, hungup, sock, shut>>

\* Join the workers that have finished, then start the new one.
AcceptSpawns ==
    /\ accept = "spawn"
    /\ workers' = {w \in workers : conn[w] # "finished"} \cup {client.conn}
    /\ conn' = [conn EXCEPT ![client.conn] = "running"]
    /\ client' = NoClient
    /\ accept' = "check"
    /\ UNCHANGED <<running, disconnecting, lock, listener, active_clients,
                   cancelled, main, accepting, hungup, sock, shut>>

-----------------------------------------------------------------------------
(* A worker thread.                                                        *)

\* The handler opens a socket of its own (the sockets of a stream session, the
\* listener of a mirror stream, the upstream connection of an HLS request).
\* Bound: one at a time.
HandlerOpens(c, f, k) ==
    /\ conn[c] = "running"
    /\ sock[f] = Free
    /\ \A g \in Fds : sock[g].conn = c => sock[g] = Control(c)
    /\ sock' = [sock EXCEPT ![f] = Own(k, c)]
    /\ UNCHANGED <<running, disconnecting, lock, listener, active_clients,
                   cancelled, workers, main, accept, accepting, client, conn,
                   hungup, shut>>

\* recv_interruptible() fails once the peer has gone or cancelled is set; the
\* handler closes what it opened and returns.
HandlerReturns(c) ==
    /\ conn[c] = "running"
    /\ c \in cancelled \cup hungup \/ Control(c) \in shut
    /\ sock' = [f \in Fds |->
                  IF HandlerOwns(c, f) THEN Free ELSE sock[f]]
    /\ conn' = [conn EXCEPT ![c] = "returned"]
    /\ UNCHANGED <<running, disconnecting, lock, listener, active_clients,
                   cancelled, workers, main, accept, accepting, client,
                   hungup, shut>>

\* Under clients_mtx_: close the descriptor and erase its entry.
WorkerCloses(c, f) ==
    /\ conn[c] = "returned" /\ lock = "free"
    /\ sock[f] = Control(c)
    /\ sock' = [sock EXCEPT ![f] = Free]
    /\ active_clients' = Erased(f)
    /\ conn' = [conn EXCEPT ![c] = "closed"]
    /\ UNCHANGED <<running, disconnecting, lock, listener, cancelled, workers,
                   main, accept, accepting, client, hungup, shut>>

WorkerFinishes(c) ==
    /\ conn[c] = "closed"
    /\ conn' = [conn EXCEPT ![c] = "finished"]
    /\ UNCHANGED <<running, disconnecting, lock, listener, active_clients,
                   cancelled, workers, main, accept, accepting, client,
                   hungup, sock, shut>>

-----------------------------------------------------------------------------
(* The main thread: close_all_clients(on_drained) and stop().              *)

\* The loop of close_all_clients(), up to the wait, which releases the mutex.
CancelAll ==
    /\ lock = "free"
    /\ disconnecting' = TRUE
    /\ cancelled' = cancelled \cup {active_clients[f] : f \in Tracked}
    /\ shut' = shut \cup {sock[f] : f \in Tracked}

DisconnectBegins ==
    /\ main = "idle" /\ running
    /\ CancelAll
    /\ main' = "drain"
    /\ UNCHANGED <<running, lock, listener, active_clients, workers, accept,
                   accepting, client, conn, hungup, sock>>

\* The wait is over when active_clients_ is empty; on_drained runs locked.
DisconnectDrained ==
    /\ main = "drain" /\ lock = "free"
    /\ Drained
    /\ lock' = "main"
    /\ main' = "callback"
    /\ UNCHANGED <<running, disconnecting, listener, active_clients, cancelled,
                   workers, accept, accepting, client, conn, hungup, sock,
                   shut>>

DisconnectEnds ==
    /\ main = "callback"
    /\ disconnecting' = FALSE
    /\ lock' = "free"
    /\ main' = "idle"
    /\ UNCHANGED <<running, listener, active_clients, cancelled, workers,
                   accept, accepting, client, conn, hungup, sock, shut>>

\* if (!running_.exchange(false)) return;
StopBegins ==
    /\ main = "idle" /\ running
    /\ running' = FALSE
    /\ main' = "close"
    /\ UNCHANGED <<disconnecting, lock, listener, active_clients, cancelled,
                   workers, accept, accepting, client, conn, hungup, sock,
                   shut>>

StopClosesListener ==
    /\ main = "close"
    /\ sock' = [sock EXCEPT ![listener] = Free]
    /\ main' = "join"
    /\ UNCHANGED <<running, disconnecting, lock, listener, active_clients,
                   cancelled, workers, accept, accepting, client, conn,
                   hungup, shut>>

StopJoinsAccept ==
    /\ main = "join" /\ accept = "done"
    /\ listener' = NoFd
    /\ main' = "cancel"
    /\ UNCHANGED <<running, disconnecting, lock, active_clients, cancelled,
                   workers, accept, accepting, client, conn, hungup, sock,
                   shut>>

StopCancels ==
    /\ main = "cancel"
    /\ CancelAll
    /\ main' = "stopdrain"
    /\ UNCHANGED <<running, lock, listener, active_clients, workers, accept,
                   accepting, client, conn, hungup, sock>>

StopDrained ==
    /\ main = "stopdrain" /\ lock = "free"
    /\ Drained
    /\ disconnecting' = FALSE
    /\ main' = "joinworkers"
    /\ UNCHANGED <<running, lock, listener, active_clients, cancelled, workers,
                   accept, accepting, client, conn, hungup, sock, shut>>

StopJoinsWorkers ==
    /\ main = "joinworkers"
    /\ WorkersDone
    /\ workers' = {}
    /\ main' = "stopped"
    /\ UNCHANGED <<running, disconnecting, lock, listener, active_clients,
                   cancelled, accept, accepting, client, conn, hungup, sock,
                   shut>>

\* The process goes on after stop() has returned.
Stopped == main = "stopped" /\ UNCHANGED vars

-----------------------------------------------------------------------------
AcceptThread ==
    \/ AcceptCheck \/ AcceptCall
    \/ \E c \in Conns, f \in Fds : AcceptReturns(c, f)
    \/ AcceptFails \/ AcceptForeign
    \/ AcceptRejects \/ AcceptTracks \/ AcceptSpawns

Worker(c) ==
    \/ \E f \in Fds, k \in HandlerKinds : HandlerOpens(c, f, k)
    \/ HandlerReturns(c)
    \/ \E f \in Fds : WorkerCloses(c, f)
    \/ WorkerFinishes(c)

MainThread ==
    \/ DisconnectBegins \/ DisconnectDrained \/ DisconnectEnds
    \/ StopBegins \/ StopClosesListener \/ StopJoinsAccept \/ StopCancels
    \/ StopDrained \/ StopJoinsWorkers

Next ==
    \/ \E c \in Conns : PeerConnects(c) \/ PeerHangsUp(c) \/ Worker(c)
    \/ AcceptThread
    \/ MainThread
    \/ Stopped

Spec == Init /\ [][Next]_vars

\* Threads run when they can.  accept() returns once its socket is closed, and
\* a handler returns once it is cancelled or its peer has gone (reads poll the
\* flag, writes time out).  Nothing is assumed of the peers, nor that accept()
\* fails, nor that the user asks for anything.
Fairness ==
    /\ WF_vars(AcceptCheck \/ AcceptCall \/ AcceptRejects \/ AcceptTracks
                 \/ AcceptSpawns)
    /\ WF_vars(AcceptFails /\ \A f \in Fds : sock[f] # accepting)
    /\ \A c \in Conns :
          /\ WF_vars(HandlerReturns(c))
          /\ WF_vars(\E f \in Fds : WorkerCloses(c, f))
          /\ WF_vars(WorkerFinishes(c))
    /\ WF_vars(DisconnectDrained \/ DisconnectEnds \/ StopClosesListener
                 \/ StopJoinsAccept \/ StopCancels \/ StopDrained
                 \/ StopJoinsWorkers)

FairSpec == Spec /\ Fairness

-----------------------------------------------------------------------------
(* Properties.                                                             *)

TypeOK ==
    /\ running \in BOOLEAN /\ disconnecting \in BOOLEAN
    /\ lock \in {"free", "main"}
    /\ listener \in Fds \cup {NoFd}
    /\ active_clients \in [Fds -> Conns \cup {NoConn}]
    /\ cancelled \subseteq Conns /\ workers \subseteq Conns
    /\ hungup \subseteq Conns
    /\ main \in {"idle", "drain", "callback", "close", "join", "cancel",
                 "stopdrain", "joinworkers", "stopped"}
    /\ accept \in {"check", "call", "blocked", "admit", "spawn", "done"}
    /\ accepting \in Sockets
    /\ client \in [fd : Fds \cup {NoFd}, conn : Conns \cup {NoConn}]
    /\ conn \in [Conns -> Stages]
    /\ sock \in [Fds -> Sockets]
    /\ shut \subseteq Sockets

Live == {c \in Conns : conn[c] \in {"tracked", "running", "returned"}}

\* "Wait for all session teardown before invoking on_drained" (tcp_server.h):
\* while the callback runs, no handler is running or about to, and no worker
\* still holds its descriptor.  The callback stops the HLS player and clears
\* the renderer, which a handler still at work would fill again.
DrainBeforeCallback == main = "callback" => Live = {}

\* "New clients are rejected until that callback completes": everybody a
\* drain still waits for has been told to go.  A client admitted after the
\* cancelling loop would be waited for and never told.
DrainWaitsForCancelled ==
    main \in {"drain", "stopdrain"} => Live \subseteq cancelled

\* "Workers close and erase under the same lock to prevent descriptor reuse
\* from racing a concurrent disconnect request": shutdown() only ever reaches
\* the control socket of a client that was cancelled, never a socket that has
\* been given the same number since.
ShutdownHitsCancelled == shut \subseteq {Control(c) : c \in cancelled}

\* stop() "joins all client threads and closes the listener": when it returns,
\* no thread is left to join, every worker is through, and no descriptor of
\* the server, of a connection or of a handler is open.
StoppedLeavesNothing ==
    main = "stopped" =>
        /\ workers = {} /\ accept = "done"
        /\ \A c \in Conns :
              conn[c] \in {"away", "backlog", "rejected", "finished"}
        /\ \A f \in Fds : sock[f] = Free

\* A disconnect the user asked for completes, whatever the peers do.
DisconnectCompletes == main = "drain" ~> main = "idle"


Gate == INSTANCE DrainGate WITH
    Clients <- Conns,
    live    <- Live,
    known   <- {c \in Conns : conn[c] \in Stages \ {"away", "backlog",
                                                    "accepted", "rejected"}},
    gate    <- IF ~running THEN "closed"
               ELSE IF main = "drain" THEN "shut"
               ELSE IF main = "callback" THEN "callback" ELSE "open"

\* The threads, the mutex and the flags implement the gate: clients come in
\* only while it is open, and the callback runs with nobody inside.
GateSpec == Gate!Spec

-----------------------------------------------------------------------------
(* The inductive invariant behind the safety properties.                   *)

\* An entry of active_clients_ names a live client and its open descriptor,
\* and every live client has one.
TrackedAreLive ==
    /\ \A f \in Fds : active_clients[f] # NoConn =>
          active_clients[f] \in Live /\ sock[f] = Control(active_clients[f])
    /\ \A c \in Live : \E f \in Fds : active_clients[f] = c

\* What an open descriptor names is alive, and a connection has one.
DescriptorsAreOwned ==
    /\ \A f \in Fds : sock[f].kind \in {"free", "listen"} => sock[f].conn = NoConn
    /\ \A f \in Fds : sock[f].kind = "listen" =>
          f = listener /\ main \in {"idle", "drain", "callback", "close"}
    /\ main \in {"idle", "drain", "callback", "close"} =>
          listener \in Fds /\ sock[listener] = Listener
    /\ listener = NoFd => accept = "done"
    /\ \A f \in Fds : sock[f].kind = "control" =>
          /\ sock[f].conn \in Conns
          /\ conn[sock[f].conn] \in {"accepted", "tracked", "running", "returned"}
    /\ \A f \in Fds : sock[f].kind \in {"mirror", "plain"} =>
          sock[f].conn \in Conns /\ conn[sock[f].conn] = "running"
    /\ \A f, g \in Fds :
          sock[f].kind = "control" /\ sock[g] = sock[f] => f = g

\* What the accept thread holds between accept() and the start of the worker.
AcceptHolds ==
    /\ accept = "admit" =>
          /\ client.conn \in Conns /\ client.fd \in Fds
          /\ conn[client.conn] = "accepted"
          /\ sock[client.fd] = Control(client.conn)
    /\ accept = "spawn" => client.conn \in Conns /\ conn[client.conn] = "tracked"
    /\ \A c \in Conns : conn[c] = "accepted" => accept = "admit" /\ client.conn = c
    /\ \A c \in Conns : conn[c] = "tracked" => accept = "spawn" /\ client.conn = c
    /\ \A c \in Conns :
          conn[c] \in {"running", "returned", "closed"} => c \in workers

\* How the flags and the mutex follow the main thread.
MainHolds ==
    /\ running <=> main \in {"idle", "drain", "callback"}
    /\ disconnecting <=> main \in {"drain", "callback", "stopdrain"}
    /\ lock = "main" <=> main = "callback"
    /\ main \in {"cancel", "stopdrain", "joinworkers", "stopped"} =>
          accept = "done"
    /\ main = "joinworkers" => Live = {}

IInv ==
    /\ TypeOK
    /\ TrackedAreLive /\ DescriptorsAreOwned /\ AcceptHolds /\ MainHolds
    /\ DrainBeforeCallback /\ DrainWaitsForCancelled
    /\ ShutdownHitsCancelled /\ StoppedLeavesNothing

=============================================================================
