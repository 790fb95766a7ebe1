----------------------------- MODULE DeviceSlot -----------------------------
(***************************************************************************)
(* The one device the receiver shows.  Every control connection is served  *)
(* by its own thread (Server::handle_client in src/airplay/server.cpp,     *)
(* the handlers of src/airplay/routes.cpp) and they share the renderer's   *)
(* device slot and picture (src/video/video_renderer.cpp) and the HLS      *)
(* player.  SETUP looks at the slot, builds the streams, reads the slot    *)
(* again and writes it back: three critical sections with other threads in *)
(* between.  Connections come and go through the gate of TcpServer.        *)
(*                                                                         *)
(* A session id is the connection whose StreamSession drew it, or the      *)
(* phone, for the X-Apple-Session-ID of its HLS playback.  Names and       *)
(* models of the phones are left out, and so are the HLS session's         *)
(* playlists and the player's own pictures.                                *)
(***************************************************************************)
EXTENDS Naturals

CONSTANTS Conns,    \* control connections, each used once
          Phones,
          Phone,    \* the phone at the other end of each connection
          HlsPhones,\* phones that may play HLS video (POST /play)
          Asked,    \* what a SETUP may ask for
          None

Wants == {"session", "mirror", "audio"}

ASSUME DeviceAssumption ==
    /\ Asked \subseteq Wants
    /\ Phone \in [Conns -> Phones]
    /\ HlsPhones \subseteq Phones
    /\ Conns \cap Phones = {}
    /\ None \notin Conns \cup Phones

VARIABLES live, known, gate,  \* TcpServer, as DrainGate describes it
          lost,       \* connections whose phone has vanished or closed
          stage,      \* where each connection's thread is
          want,       \* what the SETUP at hand asks for
          seen,       \* the kind SETUP read from the slot
          streams,    \* session.streams: "none", "legacy" or "airplay2"
          feeding,    \* connections with a mirror stream that draws
          device,     \* device_, has_device_
          frame,      \* the mirror stream whose picture is shown
          hls,        \* phones with an HlsSession
          player      \* the phone whose video the HLS player plays

tcp     == <<live, known, gate>>
session == <<want, seen, streams, feeding>>
screen  == <<device, frame, hls, player>>
vars    == <<tcp, lost, stage, session, screen>>

TcpGate == INSTANCE DrainGate WITH Clients <- Conns

Kinds   == {"none", "Mirror", "Audio", "HLS"}
NoDevice == [peer |-> None, sid |-> None, kind |-> "none"]
Devices == [peer : Phones, sid : Conns \cup Phones, kind : Kinds]

Init ==
    /\ TcpGate!Init /\ lost = {}
    /\ stage = [c \in Conns |-> "out"]
    /\ want = [c \in Conns |-> "session"] /\ seen = [c \in Conns |-> "none"]
    /\ streams = [c \in Conns |-> "none"] /\ feeding = {}
    /\ device = NoDevice /\ frame = None /\ hls = {} /\ player = None

\* The thread of c goes on from stage s to stage t.
Moves(c, s, t) == stage[c] = s /\ stage' = [stage EXCEPT ![c] = t]

\* The read of the next request fails: the phone has gone, or the connection
\* has been cancelled.  Everybody alive behind a shut gate has been
\* (DrainWaitsForCancelled of TcpServer).
Told(c) == c \in lost \/ gate = "shut"

-----------------------------------------------------------------------------
(* Phones.                                                                 *)

Connects(c) ==
    /\ TcpGate!Admit(c)
    /\ Moves(c, "out", "idle")
    /\ UNCHANGED <<lost, session, screen>>

Vanishes(c) ==
    /\ c \in live \ lost
    /\ lost' = lost \cup {c}
    /\ UNCHANGED <<tcp, stage, session, screen>>

-----------------------------------------------------------------------------
(* SETUP                                                                   *)

\* A name with a suffix after _ is a mutated form of the definition that
\* follows it.

\* setup_legacy_path(): no look at the slot, and no renderer for the streams.
SetupLegacy(c) ==
    /\ Moves(c, "idle", "idle")
    /\ streams' = [streams EXCEPT ![c] = IF @ = "none" THEN "legacy" ELSE @]
    /\ UNCHANGED <<tcp, lost, want, seen, feeding, screen>>

\* The locals of SETUP are gone when it returns.
Forgets(c) ==
    /\ want' = [want EXCEPT ![c] = "session"]
    /\ seen' = [seen EXCEPT ![c] = "none"]

\* The single-device guard: a first SETUP while another phone is shown.
Refused(c) ==
    streams[c] = "none" /\ device # NoDevice /\ device.peer # Phone[c]

SetupGuard(c) ==
    /\ ~Refused(c)
    /\ Moves(c, "idle", "build")
    /\ \E w \in Asked : want' = [want EXCEPT ![c] = w]
    /\ UNCHANGED <<tcp, lost, seen, streams, feeding, screen>>

\* The session and stream branches succeed, or answer 500 after the
\* StreamSession has been made.
SetupBuilds(c) ==
    /\ Moves(c, "build", "snapshot")
    /\ streams' = [streams EXCEPT ![c] = IF @ = "none" THEN "airplay2" ELSE @]
    /\ feeding' = IF want[c] = "mirror" /\ streams'[c] = "airplay2"
                  THEN feeding \cup {c} ELSE feeding
    /\ UNCHANGED <<tcp, lost, want, seen, screen>>

SetupFails(c) ==
    /\ Moves(c, "build", "idle")
    /\ streams' = [streams EXCEPT ![c] = IF @ = "none" THEN "airplay2" ELSE @]
    /\ Forgets(c)
    /\ UNCHANGED <<tcp, lost, feeding, screen>>

\* active_device_snapshot(dev)
SetupReads(c) ==
    /\ Moves(c, "snapshot", "publish")
    /\ seen' = [seen EXCEPT ![c] = device.kind]
    /\ UNCHANGED <<tcp, lost, want, streams, feeding, screen>>

MergedKind(old, w) ==
    CASE w = "mirror" /\ old # "HLS" -> "Mirror"
      [] w = "audio" /\ old \notin {"HLS", "Mirror"} -> "Audio"
      [] OTHER -> old

\* set_active_device(dev)
SetupPublishes(c) ==
    /\ Moves(c, "publish", "idle")
    /\ device' = [peer |-> Phone[c], sid |-> c,
                  kind |-> MergedKind(seen[c], want[c])]
    /\ Forgets(c)
    /\ UNCHANGED <<tcp, lost, streams, feeding, frame, hls, player>>

\* The mirror thread draws: the phone has got the port from the answer.
Draws(c) ==
    /\ c \in feeding
    /\ want[c] = "mirror" => stage[c] \notin {"build", "snapshot", "publish"}
    /\ frame' = c
    /\ UNCHANGED <<tcp, lost, stage, session, device, hls, player>>

-----------------------------------------------------------------------------
(* TEARDOWN                                                                *)

\* stop_stream(110); a partial TEARDOWN of the audio stream changes nothing
\* here.
TeardownMirror(c) ==
    /\ streams[c] # "none"
    /\ Moves(c, "idle", "idle")
    /\ feeding' = feeding \ {c}
    /\ UNCHANGED <<tcp, lost, want, seen, streams, screen>>

\* streams.reset()
StreamsReset(c) ==
    /\ streams' = [streams EXCEPT ![c] = "none"]
    /\ feeding' = feeding \ {c}

TeardownFull(c) ==
    /\ streams[c] # "none"
    /\ Moves(c, "idle", "torn")
    /\ StreamsReset(c)
    /\ UNCHANGED <<tcp, lost, want, seen, screen>>

\* clear_session()
TeardownBlanks(c) ==
    /\ Moves(c, "torn", "blanked")
    /\ frame' = None
    /\ UNCHANGED <<tcp, lost, session, device, hls, player>>

\* clear_active_device()
TeardownUnshows(c) ==
    /\ Moves(c, "blanked", "unshown")
    /\ device' = NoDevice
    /\ UNCHANGED <<tcp, lost, session, frame, hls, player>>

\* hls_player->stop(); a TEARDOWN without streams does only this.
TeardownStopsPlayer(c) ==
    /\ \/ Moves(c, "unshown", "idle")
       \/ Moves(c, "idle", "idle") /\ streams[c] = "none"
    /\ player' = None
    /\ UNCHANGED <<tcp, lost, session, device, frame, hls>>

-----------------------------------------------------------------------------
(* HLS video.  Whether the phone's /reverse channel is up is an input.     *)

PlayBegins(c) ==
    /\ Phone[c] \in HlsPhones
    /\ Moves(c, "idle", "play")
    /\ hls' = hls \cup {Phone[c]}
    /\ player' = None
    /\ UNCHANGED <<tcp, lost, session, device, frame>>

\* The snapshot taken here only keeps the phone's name and model.
PlayPublishes(c) ==
    /\ Moves(c, "play", "idle")
    /\ device' = [peer |-> Phone[c], sid |-> Phone[c], kind |-> "HLS"]
    /\ UNCHANGED <<tcp, lost, session, frame, hls, player>>

\* POST /action delivers a master playlist: the player starts.
ActionStartsPlayer(c) ==
    /\ Phone[c] \in hls
    /\ Moves(c, "idle", "idle")
    /\ player' = Phone[c]
    /\ UNCHANGED <<tcp, lost, session, device, frame, hls>>

\* POST /stop
StopsPlayer(c) ==
    /\ Moves(c, "idle", "idle")
    /\ player' = None
    /\ UNCHANGED <<tcp, lost, session, device, frame, hls>>

-----------------------------------------------------------------------------
(* The end of a connection, and the Disconnect button.                     *)

\* The read loop is over: streams.reset().  ended_session is c if there were
\* streams, and empty otherwise.
EndsReading(c) ==
    /\ Told(c)
    /\ Moves(c, "idle", IF streams[c] = "none" THEN "ended" ELSE "ending")
    /\ StreamsReset(c)
    /\ UNCHANGED <<tcp, lost, want, seen, screen>>

\* clear_session_if_active(ended_session), under device_mtx_.
OwnsSlot_AfterReset(c) == device.sid = None
OwnsSlot(c) == device.sid = c

EndClears(c) ==
    /\ Moves(c, "ending", "ended")
    /\ IF OwnsSlot(c)
       THEN device' = NoDevice /\ frame' = None
       ELSE UNCHANGED <<device, frame>>
    /\ UNCHANGED <<tcp, lost, session, hls, player>>

Ends(c) ==
    /\ TcpGate!Leave(c)
    /\ Moves(c, "ended", "out")
    /\ lost' = lost \ {c}
    /\ UNCHANGED <<session, screen>>

DisconnectBegins ==
    /\ TcpGate!Shut
    /\ UNCHANGED <<lost, stage, session, screen>>

DisconnectDrained ==
    /\ TcpGate!Drain
    /\ UNCHANGED <<lost, stage, session, screen>>

\* The callback of disconnect_clients(), with no connection left.
Blanked_DeviceKept == frame' = None /\ UNCHANGED device
Blanked == frame' = None /\ device' = NoDevice

DisconnectCallback ==
    /\ TcpGate!Reopen
    /\ player' = None
    /\ Blanked
    /\ UNCHANGED <<lost, stage, session, hls>>

-----------------------------------------------------------------------------
\* What a thread does without a new request.
Continues(c) ==
    \/ SetupBuilds(c) \/ SetupFails(c) \/ SetupReads(c) \/ SetupPublishes(c)
    \/ TeardownBlanks(c) \/ TeardownUnshows(c)
    \/ stage[c] = "unshown" /\ TeardownStopsPlayer(c)
    \/ PlayPublishes(c)
    \/ EndClears(c) \/ Ends(c)

Request(c) ==
    \/ SetupLegacy(c) \/ SetupGuard(c)
    \/ TeardownMirror(c) \/ TeardownFull(c) \/ TeardownStopsPlayer(c)
    \/ PlayBegins(c) \/ ActionStartsPlayer(c) \/ StopsPlayer(c)

Disconnect == DisconnectBegins \/ DisconnectDrained \/ DisconnectCallback

Next ==
    \/ \E c \in Conns :
          \/ Connects(c) \/ Vanishes(c) \/ Draws(c)
          \/ ~Told(c) /\ Request(c)
          \/ EndsReading(c) \/ Continues(c)
    \/ Disconnect

Spec == Init /\ [][Next]_vars

\* Threads run when they can.  A connection whose phone has vanished is
\* noticed: TCP keepalive is on (server.cpp:52-57).
Fairness ==
    /\ \A c \in Conns : WF_vars(Continues(c)) /\ WF_vars(EndsReading(c))
    /\ WF_vars(DisconnectDrained \/ DisconnectCallback)

FairSpec == Spec /\ Fairness

-----------------------------------------------------------------------------
(* Properties.                                                             *)

TypeOK ==
    /\ live \subseteq Conns /\ known \subseteq Conns
    /\ gate \in {"open", "shut", "callback", "closed"}
    /\ lost \subseteq Conns
    /\ stage \in [Conns -> {"out", "idle", "build", "snapshot", "publish",
                            "torn", "blanked", "unshown", "play", "ending",
                            "ended"}]
    /\ want \in [Conns -> Wants] /\ seen \in [Conns -> Kinds]
    /\ streams \in [Conns -> {"none", "legacy", "airplay2"}]
    /\ feeding \subseteq Conns
    /\ device \in Devices \cup {NoDevice}
    /\ frame \in Conns \cup {None}
    /\ hls \subseteq HlsPhones /\ player \in HlsPhones \cup {None}

\* "The matching active session is cleared instead of leaving a frozen image"
\* (v0.4.1): a connection's entry in the slot never outlives its thread.
\* Whatever order the handlers of several connections run in, the slot names
\* a connection that still has its streams, or is about to clear the slot.
DeviceHasOwner ==
    device.sid \in Conns =>
        /\ device.sid \in live
        /\ \/ streams[device.sid] # "none"
           \/ stage[device.sid] \in {"torn", "blanked", "ending"}

\* Disconnect "drops every connected AirPlay client" (video_renderer.h): when
\* it is over, nothing is shown or played, and no thread that was told to go
\* can put anything back.
DisconnectLeavesIdle ==
    [][gate = "callback" /\ gate' # gate =>
         /\ device' = NoDevice /\ frame' = None /\ player' = None
         /\ \A c \in Conns : c \notin feeding' /\ stage'[c] = "out"]_vars

\* The keepalive is there so that the end of a vanished phone's connection
\* comes (server.cpp:52-57): when the slot carries that connection's own id,
\* its end takes it out, whatever the other connections do.
LostOwnerReleases ==
    \A c \in Conns : (device.sid = c /\ c \in lost) ~> device.sid # c

-----------------------------------------------------------------------------
(* The inductive invariant behind DeviceHasOwner.                          *)

Busy == {"idle", "build", "snapshot", "publish", "torn", "blanked", "unshown",
         "play", "ending", "ended"}

StagesFit ==
    /\ \A c \in Conns : c \in live <=> stage[c] \in Busy
    /\ \A c \in Conns : stage[c] \in {"snapshot", "publish"} => streams[c] # "none"
    /\ \A c \in Conns : stage[c] \in {"out", "torn", "blanked", "unshown",
                                      "ending", "ended"} => streams[c] = "none"
    /\ feeding \subseteq {c \in Conns : streams[c] # "none"}

IInv == TypeOK /\ StagesFit /\ DeviceHasOwner
=============================================================================
