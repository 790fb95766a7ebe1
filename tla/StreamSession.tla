---------------------------- MODULE StreamSession ----------------------------
(***************************************************************************)
(* The sockets and threads of one control connection's streams:            *)
(* src/airplay/streams.cpp, with the start and stop of the mirror listener *)
(* (mirror_listener.cpp), of the audio receiver and of the NTP client as   *)
(* they touch sockets.                                                     *)
(*                                                                         *)
(* The control thread runs one request at a time; a request is a script    *)
(* (`todo`) of steps between which the other threads run: the one that     *)
(* accepts and reads the mirror, the two of the audio receiver, the one of *)
(* the NTP client.  Descriptors are the kernel's: a closed number may be   *)
(* given to anybody else in the process.  A binding that fails and leaves  *)
(* everything as it was is no step.                                        *)
(***************************************************************************)
EXTENDS Naturals, Sequences, FiniteSets

CONSTANTS Fds,       \* descriptors
          Requests,  \* bound: requests of the phone
          Strangers  \* bound: descriptors the rest of the process has at a time

\* INVALID_SOCK, nullptr.
None == [none |-> TRUE]

ASSUME SessionAssumption ==
    None \notin Fds /\ Requests \in Nat /\ Strangers \in Nat

VARIABLES sock,      \* what a descriptor is: "free", "other", or this session's
          own,       \* event_sock_, ap2_timing_sock, data_sock_, ctrl_sock_, timing_sock_
          channels,  \* channels_: stream type and the sockets kept there
          mirror,    \* mirror_
          audio,     \* audio_
          ntp,       \* ntp_
          todo,      \* what is left of the request
          bound,     \* sockets bound for a receiver that is not started yet
          lost,      \* sockets whose last reference was overwritten
          requests

vars == <<sock, own, channels, mirror, audio, ntp, todo, bound, lost, requests>>

Session == {"event", "timing", "data", "ctrl", "listener", "client"}
Fields == {"event", "ap2_timing", "data", "ctrl", "timing"}
Types == {"audio", "mirror", "other"}
Closed == [x \in Fields |-> None]

Free == {f \in Fds : sock[f] = "free"}
Opened(f, role) == [sock EXCEPT ![f] = role]
Open2(f, r, g, s) == [sock EXCEPT ![f] = r, ![g] = s]
Close(F) == [f \in Fds |-> IF f \in F THEN "free" ELSE sock[f]]

Init ==
    /\ sock = [f \in Fds |-> "free"]
    /\ own = Closed /\ channels = {}
    /\ mirror = None /\ audio = None /\ ntp = None
    /\ todo = <<>> /\ bound = <<>> /\ lost = {} /\ requests = 0

Now(step) == todo # <<>> /\ Head(todo) = step
Done == todo' = Tail(todo)
Request ==
    /\ todo = <<>> /\ requests < Requests
    /\ requests' = requests + 1

-----------------------------------------------------------------------------
(* Requests.                                                               *)

\* setup_session(), and start_ntp() when the phone names a timing port.
SetupSession ==
    /\ Request
    /\ \E e, t \in Free :
          /\ e # t
          /\ sock' = Open2(e, "event", t, "timing")
          /\ own' = [own EXCEPT !["event"] = e, !["ap2_timing"] = t]
          /\ lost' = lost \cup ({own["event"], own["ap2_timing"]} \ {None})
    /\ todo' \in {<<>>, <<"stop_ntp", "start_ntp">>}
    /\ UNCHANGED <<channels, mirror, audio, ntp, bound>>

\* setup_legacy(): the data socket, and the others the phone asks for.
SetupLegacy ==
    /\ Request
    /\ \E d \in Free :
          /\ sock' = Opened(d, "data")
          /\ own' = [own EXCEPT !["data"] = d]
          /\ lost' = lost \cup ({own["data"]} \ {None})
    /\ todo' \in {<<>>, <<"bind_ctrl">>, <<"bind_timing">>,
                  <<"bind_ctrl", "bind_timing">>}
    /\ UNCHANGED <<channels, mirror, audio, ntp, bound>>

\* A name with a suffix after _ is a mutated form of the definition that follows.
TeardownScript_SocketsFirst ==
    <<"close_own", "close_channels", "stop_mirror", "stop_audio", "stop_ntp",
      "drop_ntp">>
TeardownScript ==
    <<"stop_mirror", "stop_audio", "stop_ntp", "drop_ntp", "close_own",
      "close_channels">>

BindsLegacy(step, field, role) ==
    /\ Now(step)
    /\ \/ /\ \E f \in Free :
                /\ sock' = Opened(f, role)
                /\ own' = [own EXCEPT ![field] = f]
                /\ lost' = lost \cup ({own[field]} \ {None})
          /\ Done
       \/ /\ todo' = TeardownScript
          /\ UNCHANGED <<sock, own, lost>>
    /\ UNCHANGED <<channels, mirror, audio, ntp, bound, requests>>

\* setup_stream(110): the assignment of mirror_ ends the listener before.
SetupMirror ==
    /\ Request
    /\ todo' = <<"stop_mirror", "start_mirror">>
    /\ UNCHANGED <<sock, own, channels, mirror, audio, ntp, bound, lost>>

\* setup_stream(96): two sockets, then the receiver before ends.
SetupAudio ==
    /\ Request
    /\ \E d, c \in Free :
          /\ d # c
          /\ sock' = Open2(d, "data", c, "ctrl")
          /\ bound' = <<d, c>>
    /\ todo' = <<"stop_audio", "start_audio">>
    /\ UNCHANGED <<own, channels, mirror, audio, ntp, lost>>

SetupOther ==
    /\ Request
    /\ \E d, c \in Free :
          /\ d # c
          /\ sock' = Open2(d, "data", c, "ctrl")
          /\ channels' = channels \cup {[type |-> "other", socks |-> {d, c}]}
    /\ UNCHANGED <<own, mirror, audio, ntp, todo, bound, lost>>

\* stop_stream().
StopScript(type) ==
    CASE type = "mirror" /\ mirror # None -> <<"stop_mirror", "synchronize", "close_mirror">>
      [] type = "mirror" /\ mirror = None -> <<"close_mirror">>
      [] type = "audio"  -> <<"stop_audio", "close_audio">>
      [] OTHER           -> <<"close_other">>
StopStream(type) ==
    /\ Request
    /\ todo' = StopScript(type)
    /\ UNCHANGED <<sock, own, channels, mirror, audio, ntp, bound, lost>>

\* teardown(), of the destructor.  What follows is a session of its own.
Teardown ==
    /\ Request
    /\ todo' = TeardownScript
    /\ UNCHANGED <<sock, own, channels, mirror, audio, ntp, bound, lost>>

-----------------------------------------------------------------------------
(* The steps of the scripts.                                               *)

Skips(step, object) ==
    /\ Now(step) /\ object = None
    /\ Done
    /\ UNCHANGED <<sock, own, channels, mirror, audio, ntp, bound, lost, requests>>

\* MirrorListener::stop(): the flag and the shutdown of the client under
\* client_mtx_, the join, then the close.
StopsMirror ==
    /\ Now("stop_mirror") /\ mirror # None /\ mirror.running
    /\ mirror' = [mirror EXCEPT !.running = FALSE]
    /\ UNCHANGED <<sock, own, channels, audio, ntp, todo, bound, lost, requests>>

MirrorStopped ==
    /\ Now("stop_mirror") /\ mirror # None /\ ~mirror.running
    /\ mirror.at = "done"
    /\ sock' = Close({mirror.listener})
    /\ mirror' = None
    /\ Done
    /\ UNCHANGED <<own, channels, audio, ntp, bound, lost, requests>>

\* MirrorListener::start(), which may fail; only a start that does not fail
\* tells the audio that a mirror has come.
StartsMirror ==
    /\ Now("start_mirror")
    /\ \/ UNCHANGED <<sock, mirror, audio, channels>>
       \/ \E f \in Free :
             /\ sock' = Opened(f, "listener")
             /\ mirror' = [running |-> TRUE, at |-> "loop", listener |-> f,
                           held |-> None, client |-> None]
             /\ audio' = IF audio = None THEN None ELSE [audio EXCEPT !.sync = FALSE]
             /\ channels' = channels \cup {[type |-> "mirror", socks |-> {}]}
    /\ Done
    /\ UNCHANGED <<own, ntp, bound, lost, requests>>

Synchronizes ==
    /\ Now("synchronize")
    /\ audio' = IF audio = None THEN None ELSE [audio EXCEPT !.sync = audio.clock]
    /\ Done
    /\ UNCHANGED <<sock, own, channels, mirror, ntp, bound, lost, requests>>

\* AudioReceiver::stop() and suspend(): the flag, two joins, then the close.
StopsAudio ==
    /\ Now("stop_audio") /\ audio # None /\ audio.running
    /\ audio' = [audio EXCEPT !.running = FALSE]
    /\ UNCHANGED <<sock, own, channels, mirror, ntp, todo, bound, lost, requests>>

AudioStopped ==
    /\ Now("stop_audio") /\ audio # None /\ ~audio.running
    /\ audio.threads = {}
    /\ sock' = Close({audio.data})
    /\ audio' = None
    /\ Done
    /\ UNCHANGED <<own, channels, mirror, ntp, bound, lost, requests>>

Synchronised == mirror = None /\ ntp # None

\* AudioReceiver::start() fails without the stream's keys: the data socket is
\* closed, the control socket is kept all the same.
StartsAudio ==
    /\ Now("start_audio")
    /\ \/ /\ audio' = [running |-> TRUE, threads |-> {"receive", "playout"},
                       data |-> bound[1], control |-> bound[2],
                       clock |-> ntp # None, sync |-> Synchronised]
          /\ UNCHANGED sock
       \/ /\ sock' = Close({bound[1]})
          /\ UNCHANGED audio
    /\ channels' = channels \cup {[type |-> "audio", socks |-> {bound[2]}]}
    /\ bound' = <<>>
    /\ Done
    /\ UNCHANGED <<own, mirror, ntp, lost, requests>>

\* NtpClient::stop(): the flag and the shutdown of its socket, and the join, also
\* of a thread that has gone by itself.
StopsNtp ==
    /\ Now("stop_ntp") /\ ntp # None /\ ntp.running
    /\ ntp' = [ntp EXCEPT !.running = FALSE]
    /\ UNCHANGED <<sock, own, channels, mirror, audio, todo, bound, lost, requests>>

NtpStopped ==
    /\ Now("stop_ntp") /\ ntp # None /\ ~ntp.running
    /\ ntp.at = "done"
    /\ Done
    /\ UNCHANGED <<sock, own, channels, mirror, audio, ntp, bound, lost, requests>>

\* The object stays where it is: the audio receiver has a pointer to it.
StartsNtp ==
    /\ Now("start_ntp")
    /\ ntp' = [running |-> TRUE, at |-> "resolves", sock |-> own["ap2_timing"]]
    /\ Done
    /\ UNCHANGED <<sock, own, channels, mirror, audio, bound, lost, requests>>

DropsNtp ==
    /\ Now("drop_ntp")
    /\ ntp' = None
    /\ Done
    /\ UNCHANGED <<sock, own, channels, mirror, audio, bound, lost, requests>>

ClosesOwn ==
    /\ Now("close_own")
    /\ sock' = Close({own[x] : x \in Fields})
    /\ own' = Closed
    /\ Done
    /\ UNCHANGED <<channels, mirror, audio, ntp, bound, lost, requests>>

\* The channels of a type are closed and forgotten, at the end those of all types.
Closing(types) == {ch \in channels : ch.type \in types}
Forgets_Nothing(C) == channels
Forgets(C) == channels \ C

ClosesChannels(step, types) ==
    /\ Now(step)
    /\ sock' = Close(UNION {ch.socks : ch \in Closing(types)})
    /\ channels' = Forgets(Closing(types))
    /\ Done
    /\ UNCHANGED <<own, mirror, audio, ntp, bound, lost, requests>>

-----------------------------------------------------------------------------
(* The other threads.                                                      *)

Mirror(at) == mirror # None /\ mirror.at = at
MirrorOnly == UNCHANGED <<own, channels, audio, ntp, todo, bound, lost, requests>>

\* accept_loop(): the flag, then select() and accept() on the listener.
MirrorLoops ==
    /\ Mirror("loop")
    /\ mirror' = [mirror EXCEPT !.at = IF mirror.running THEN "select" ELSE "done"]
    /\ UNCHANGED sock /\ MirrorOnly

MirrorWaits_Never == FALSE
MirrorWaits ==
    /\ Mirror("select")
    /\ mirror' = [mirror EXCEPT !.at = "loop"]
    /\ UNCHANGED sock /\ MirrorOnly

MirrorAccepts ==
    /\ Mirror("select")
    /\ \E f \in Free :
          /\ sock' = Opened(f, "client")
          /\ mirror' = [mirror EXCEPT !.at = "accepted", !.held = f]
    /\ MirrorOnly

MirrorKeeps ==
    /\ Mirror("accepted")
    /\ IF mirror.running
       THEN /\ mirror' = [mirror EXCEPT !.at = "reads", !.client = mirror.held]
            /\ UNCHANGED sock
       ELSE /\ sock' = Close({mirror.held})
            /\ mirror' = [mirror EXCEPT !.at = "done", !.held = None]
    /\ MirrorOnly

\* reader_loop() ends: the flag, or the phone.
MirrorReads ==
    /\ Mirror("reads")
    /\ mirror' = [mirror EXCEPT !.at = "closes"]
    /\ UNCHANGED sock /\ MirrorOnly

Forgotten(m) == [m EXCEPT !.held = None, !.client = None]

MirrorCloses ==
    /\ Mirror("closes")
    /\ sock' = Close({mirror.held})
    /\ mirror' = [Forgotten(mirror) EXCEPT !.at = "loop"]
    /\ MirrorOnly

AudioLeaves(t) ==
    /\ audio # None /\ ~audio.running /\ t \in audio.threads
    /\ audio' = [audio EXCEPT !.threads = @ \ {t}]
    /\ UNCHANGED <<sock, own, channels, mirror, ntp, todo, bound, lost, requests>>

NtpOnly == UNCHANGED <<sock, own, channels, mirror, audio, todo, bound, lost, requests>>

NtpResolves ==
    /\ ntp # None /\ ntp.at = "resolves"
    /\ ntp' \in {[ntp EXCEPT !.at = "polls"],
                 [ntp EXCEPT !.at = "done", !.running = FALSE]}
    /\ NtpOnly

NtpLeaves ==
    /\ ntp # None /\ ntp.at = "polls" /\ ~ntp.running
    /\ ntp' = [ntp EXCEPT !.at = "done"]
    /\ NtpOnly

\* The rest of the process opens and closes descriptors, too.
OthersOpen(f) ==
    /\ sock[f] = "free"
    /\ Cardinality({g \in Fds : sock[g] = "other"}) < Strangers
    /\ sock' = Opened(f, "other")
    /\ UNCHANGED <<own, channels, mirror, audio, ntp, todo, bound, lost, requests>>

OthersClose(f) ==
    /\ sock[f] = "other"
    /\ sock' = Close({f})
    /\ UNCHANGED <<own, channels, mirror, audio, ntp, todo, bound, lost, requests>>

-----------------------------------------------------------------------------
Requested ==
    \/ SetupSession \/ SetupLegacy \/ SetupMirror \/ SetupAudio \/ SetupOther
    \/ Teardown
    \/ \E type \in Types : StopStream(type)

Control ==
    \/ BindsLegacy("bind_ctrl", "ctrl", "ctrl")
    \/ BindsLegacy("bind_timing", "timing", "timing")
    \/ Skips("stop_mirror", mirror) \/ StopsMirror \/ MirrorStopped \/ StartsMirror
    \/ Synchronizes
    \/ Skips("stop_audio", audio) \/ StopsAudio \/ AudioStopped \/ StartsAudio
    \/ Skips("stop_ntp", ntp) \/ StopsNtp \/ NtpStopped \/ StartsNtp \/ DropsNtp
    \/ ClosesOwn
    \/ ClosesChannels("close_mirror", {"mirror"}) \/ ClosesChannels("close_audio", {"audio"})
    \/ ClosesChannels("close_other", {"other"}) \/ ClosesChannels("close_channels", Types)

Threads ==
    \/ MirrorLoops \/ MirrorWaits \/ MirrorAccepts \/ MirrorKeeps \/ MirrorReads
    \/ MirrorCloses
    \/ \E t \in {"receive", "playout"} : AudioLeaves(t)
    \/ NtpResolves \/ NtpLeaves

Others == \E f \in Fds : OthersOpen(f) \/ OthersClose(f)

Next == Requested \/ Control \/ Threads \/ Others

Spec == Init /\ [][Next]_vars

\* Threads run when they can: the control thread, and those it joins.  Reads and
\* waits have timeouts (100 ms to 1 s), after which the flag is looked at; nothing
\* is assumed of the phone or of anybody who asks for a request.
Stopping(object) == object # None /\ ~object.running
Fairness ==
    /\ WF_vars(Control)
    /\ WF_vars(Stopping(mirror) /\ (MirrorLoops \/ MirrorKeeps \/ MirrorReads \/ MirrorCloses))
    /\ WF_vars(Stopping(mirror) /\ MirrorWaits)
    /\ \A t \in {"receive", "playout"} : WF_vars(AudioLeaves(t))
    /\ WF_vars(NtpResolves) /\ WF_vars(NtpLeaves)

FairSpec == Spec /\ Fairness

-----------------------------------------------------------------------------
(* Properties.                                                             *)

Known == Fds \cup {None}
Listeners == [running : BOOLEAN, listener : Fds, held : Known, client : Known,
              at : {"loop", "select", "accepted", "reads", "closes", "done"}]
Receivers == [running : BOOLEAN, threads : SUBSET {"receive", "playout"},
              data : Fds, control : Fds, clock : BOOLEAN, sync : BOOLEAN]
Clients == [running : BOOLEAN, at : {"resolves", "polls", "done"}, sock : Fds]

TypeOK ==
    /\ sock \in [Fds -> Session \cup {"free", "other"}]
    /\ own \in [Fields -> Known]
    /\ channels \subseteq [type : Types, socks : SUBSET Fds]
    /\ mirror \in Listeners \cup {None}
    /\ audio \in Receivers \cup {None}
    /\ ntp \in Clients \cup {None}
    /\ bound \in {<<>>} \cup (Fds \X Fds)
    /\ lost \subseteq Fds
    /\ requests \in 0..Requests

\* A thread uses only descriptors that are open and its own, and the clock it was
\* given, until it has been joined: teardown and the replacement of a receiver
\* close what a thread borrows ("stop the receiver before closing it") after it.
BorrowedIsOpen ==
    /\ mirror # None /\ mirror.at # "done" =>
         /\ sock[mirror.listener] = "listener"
         /\ mirror.held # None => sock[mirror.held] = "client"
    /\ audio # None /\ audio.threads # {} =>
         /\ sock[audio.data] = "data" /\ sock[audio.control] = "ctrl"
         /\ audio.clock => ntp # None
    /\ ntp # None /\ ntp.at # "done" => sock[ntp.sock] = "timing"

\* Who is to close which socket.
Holders == Fields \cup Types
             \cup {"listener", "client", "receiver", "bound_data", "bound_ctrl", "lost"}
Holds(p, f) ==
    \/ p \in Fields /\ own[p] = f
    \/ \E ch \in channels : ch.type = p /\ f \in ch.socks
    \/ p = "listener" /\ mirror # None /\ mirror.listener = f
    \/ p = "client" /\ mirror # None /\ mirror.held = f
    \/ p = "receiver" /\ audio # None /\ audio.data = f
    \/ p = "bound_data" /\ bound # <<>> /\ bound[1] = f
    \/ p = "bound_ctrl" /\ bound # <<>> /\ bound[2] = f
    \/ p = "lost" /\ f \in lost
Owners(f) == {p \in Holders : Holds(p, f)}

\* Every open socket of the session is one's to close, and nobody is to close a
\* number that is not: nothing is closed twice, which would close a stranger's,
\* and nothing is left behind but what a second SETUP writes over.
OneOwner ==
    /\ \A f \in Fds : LET owners == Owners(f)
                     IN  IF sock[f] \in Session THEN \E p \in owners : owners = {p}
                                                ELSE owners = {}
    /\ \A ch, dh \in channels : ch # dh => ch.socks \cap dh.socks = {}

\* Every request ends, a TEARDOWN in the middle of a mirror or of a poll included:
\* "killing the whole process on teardown" (ntp_client.cpp:104-112) or a join that
\* waits for ever would leave the phone's connection, and a Disconnect, hanging.
RequestsEnd == todo # <<>> ~> todo = <<>>
-----------------------------------------------------------------------------
(* The inductive invariant behind the safety properties.                   *)

\* What a socket is that somebody is to close.
Role == [event |-> {"event"}, ap2_timing |-> {"timing"}, data |-> {"data"}, ctrl |-> {"ctrl"},
         timing |-> {"timing"}, audio |-> {"ctrl"}, mirror |-> {}, other |-> {"data", "ctrl"},
         listener |-> {"listener"}, client |-> {"client"}, receiver |-> {"data"},
         bound_data |-> {"data"}, bound_ctrl |-> {"ctrl"}, lost |-> Session]
RolesFit == \A p \in Holders, f \in Fds : Holds(p, f) => sock[f] \in Role[p]

\* What the audio receiver and the NTP client borrow: the socket of a channel, the
\* clock, and a socket that is the session's or was written over.
BorrowsFit ==
    /\ audio # None => /\ Holds("audio", audio.control)
                       /\ audio.clock => ntp # None
    /\ ntp # None => /\ sock[ntp.sock] = "timing"
                     /\ Holds("ap2_timing", ntp.sock) \/ Holds("lost", ntp.sock)

\* The listener's thread holds a phone's socket from accept() to its close.
HeldFits == mirror # None /\ mirror.held # None =>
    mirror.at \in {"accepted", "reads", "closes"}

\* What may be left of a request: all of it or what changes nothing of the others,
\* the rest of a teardown, what needs the sockets bound or the timing socket.
Whole == {<<>>, TeardownScript, <<"bind_ctrl">>, <<"bind_timing">>, <<"bind_ctrl", "bind_timing">>,
          <<"stop_mirror", "start_mirror">>, <<"stop_mirror", "synchronize", "close_mirror">>,
          <<"synchronize", "close_mirror">>, <<"close_mirror">>, <<"close_other">>,
          <<"stop_audio", "close_audio">>}
Ending == {<<"stop_audio", "stop_ntp", "drop_ntp", "close_own", "close_channels">>,
           <<"stop_ntp", "drop_ntp", "close_own", "close_channels">>,
           <<"drop_ntp", "close_own", "close_channels">>}
Bound  == {<<"stop_audio", "start_audio">>, <<"start_audio">>}
Timed  == {<<"stop_ntp", "start_ntp">>, <<"start_ntp">>}

\* ... and what is left only when the NTP client, the receiver, the listener is gone.
NoClient   == {<<"close_own", "close_channels">>, <<"close_channels">>}
NoReceiver == {<<"stop_ntp", "drop_ntp", "close_own", "close_channels">>,
               <<"drop_ntp", "close_own", "close_channels">>,
               <<"start_audio">>, <<"close_audio">>} \cup NoClient
NoListener == {<<"start_mirror">>} \cup Ending \cup NoClient
Rests == Whole \cup Bound \cup Timed \cup NoReceiver \cup NoListener

ScriptFits ==
    /\ todo \in Rests
    /\ todo \in NoListener => mirror = None
    /\ todo \in NoReceiver => audio = None
    /\ todo \in NoClient => ntp = None
    /\ todo \in Bound <=> bound # <<>>
    /\ todo \in Timed => own["ap2_timing"] # None

IInv == TypeOK /\ RolesFit /\ OneOwner /\ BorrowsFit /\ HeldFits /\ ScriptFits
=============================================================================
