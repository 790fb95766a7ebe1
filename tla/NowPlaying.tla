----------------------------- MODULE NowPlaying -----------------------------
(***************************************************************************)
(* An audio session on the screen.  The phone's RTP packets and its        *)
(* requests move the "playing" flag, and the buttons send a DACP command   *)
(* back to the phone, through one slot that the main thread empties.  Four *)
(* threads: that of the control connection, the audio receiver's, the      *)
(* window's and the main one.                                              *)
(*                                                                         *)
(* The 500 ms of silence and of grace are events; a packet is music or a   *)
(* small one of a pause.                                                   *)
(***************************************************************************)
EXTENDS Naturals, Sequences

CONSTANTS Sessions,     \* sessions, each used once
          MaxPresses    \* bound: presses of a button

ASSUME NowPlayingAssumption == "none" \notin Sessions /\ MaxPresses \in Nat

VARIABLES shown,    \* device_.session_id
          todo,     \* what the control thread has still to do
          ended,    \* sessions that have been cleared
          playing,  \* playing_
          stray,    \* what playing_ says is the pause of a request with no device shown
          grace,    \* flush_grace_until_ns_ lies ahead
          sound,    \* what the phone sends: "music", "small", "nothing"
          rx,       \* the receiver: place, audio_ever_seen, 500 ms since last_packet
          ui,       \* the window's thread: its place
          buttons,  \* audio_control_available_, audio_command_pending_, _failed_
          request,  \* audio_request: the session it is for
          main,     \* the main thread: place, session, success
          remote,   \* DacpRemote of the connection: session_id_ (audio only), service
          presses   \* presses so far

control == <<shown, todo, ended>>
flag    == <<playing, stray>>
badge   == <<flag, grace, sound, rx>>
dacp    == <<request, main, remote>>
playingVars    == <<control, badge, ui, buttons, dacp, presses>>

NoSession == "none"
Off  == [pc |-> "off", seen |-> FALSE, idle |-> FALSE]
Idle == [available |-> FALSE, pending |-> FALSE, failed |-> FALSE]

PlayingInit ==
    /\ shown = NoSession /\ todo = <<>> /\ ended = {}
    /\ playing = TRUE /\ stray = FALSE /\ grace = FALSE /\ sound = "nothing" /\ rx = Off
    /\ ui = "look"
    /\ buttons = Idle /\ request = NoSession
    /\ main = [pc |-> "request", for |-> NoSession, ok |-> FALSE]
    /\ remote = [session |-> NoSession, service |-> "none"] /\ presses = 0
-----------------------------------------------------------------------------
(* The audio receiver's thread.                                            *)

\* The phone; it sends while the receiver is there.
Sends ==
    /\ rx.pc # "off"
    /\ sound' \in {"music", "small", "nothing"} \ {sound}
    /\ UNCHANGED <<control, flag, grace, rx, ui, buttons, dacp, presses>>

\* Packets of a hundred bytes count as sound.
IsMusic == sound = "music"

\* last_packet = now().
Restarted == FALSE

\* A packet that counts; in_flush_grace() is read before the flag is set.
Receives ==
    /\ rx.pc = "wait" /\ IsMusic
    /\ rx' = [pc |-> IF grace THEN "wait" ELSE "push", seen |-> TRUE, idle |-> Restarted]
    /\ UNCHANGED <<control, flag, grace, sound, ui, buttons, dacp, presses>>

\* push_playback_rate(1), whatever the receiver pushed before.
Pushes_Once == playing
Pushes == TRUE

PushesOne ==
    /\ rx.pc = "push"
    /\ rx' = [rx EXCEPT !.pc = "wait"]
    /\ playing' = Pushes /\ stray' = FALSE
    /\ UNCHANGED <<control, grace, sound, ui, buttons, dacp, presses>>

\* 500 ms without such a packet.
Silence ==
    /\ rx.pc = "wait" /\ ~IsMusic /\ ~rx.idle
    /\ rx' = [rx EXCEPT !.idle = TRUE]
    /\ UNCHANGED <<control, flag, grace, sound, ui, buttons, dacp, presses>>

\* The idle time is looked at only in a turn of select() without audio data: after
\* 200 ms of nothing, or when a sync packet comes on the other socket alone.  Small
\* packets at the rate of music may leave no such turn.
Watches ==
    /\ rx.pc = "wait" /\ rx.idle /\ rx.seen /\ ~IsMusic
    /\ playing' = FALSE /\ stray' = FALSE
    /\ UNCHANGED <<control, grace, sound, rx, ui, buttons, dacp, presses>>

GraceEnds ==
    /\ grace
    /\ grace' = FALSE
    /\ UNCHANGED <<control, flag, sound, rx, ui, buttons, dacp, presses>>

Receiver == Receives \/ PushesOne \/ Silence \/ Watches

\* What is sure to happen: packets are received, time passes, and a turn ends
\* without data when the phone sends nothing.
HearsMusic == Receives \/ PushesOne \/ Silence
HearsNothing == sound = "nothing" /\ Watches
-----------------------------------------------------------------------------
(* The control thread.  Every request ends with DacpRemote::update().      *)

Serves(steps) ==
    /\ todo = <<>>
    /\ todo' = steps
    /\ UNCHANGED <<shown, ended, badge, ui, buttons, dacp, presses>>

\* SETUP of an audio stream, by a new session.
Setup == shown = NoSession /\ rx = Off /\ Serves(<<"receiver", "device", "update">>)

\* FLUSH and PAUSE; RECORD, which needs streams; POST /audioMode, POST /rate and
\* "rate:" of SET_PARAMETER.  Only RECORD asks whether the connection has a session:
\* the others move the flag before SETUP and after TEARDOWN too.
Flush == Serves(<<"grace", "pause">>)
Record == shown # NoSession /\ Serves(<<"play">>)
Rate == Serves(<<"play">>) \/ Serves(<<"pause">>)

\* A full TEARDOWN, and the end of a connection, which takes its remote along.
\* The receiver is joined before anything is cleared.
Teardown_ClearsFirst == <<"buttons", "flags", "no_device", "streams", "update">>
Teardown == <<"streams", "buttons", "flags", "no_device", "update">>
ConnectionEnds == <<"streams", "buttons", "flags", "no_device", "erase">>

Ends ==
    \/ shown # NoSession /\ (Serves(Teardown) \/ Serves(ConnectionEnds))
    \/ shown = NoSession /\ Serves(<<"erase">>)

Requests == Setup \/ Flush \/ Record \/ Rate \/ Ends

Doing(step) == /\ todo # <<>> /\ Head(todo) = step /\ todo' = Tail(todo)
               /\ UNCHANGED presses

StartsReceiver ==
    /\ Doing("receiver")
    /\ rx' = [Off EXCEPT !.pc = "wait"]
    /\ UNCHANGED <<shown, ended, flag, grace, sound, ui, buttons, dacp>>

SetsDevice ==
    /\ Doing("device")
    /\ shown' \in Sessions \ ended
    /\ UNCHANGED <<ended, badge, ui, buttons, dacp>>

\* streams.reset(): the receiver's thread is joined.
StopsStreams ==
    /\ Doing("streams")
    /\ rx' = Off /\ sound' = "nothing"
    /\ UNCHANGED <<shown, ended, flag, grace, ui, buttons, dacp>>

\* note_flush().
NotesFlush ==
    /\ Doing("grace")
    /\ grace' = TRUE
    /\ UNCHANGED <<shown, ended, flag, sound, rx, ui, buttons, dacp>>

\* push_playback_rate().
SetsRate ==
    /\ \/ Doing("play") /\ playing' = TRUE /\ stray' = FALSE
       \/ Doing("pause") /\ playing' = FALSE /\ stray' = (shown = NoSession)
    /\ UNCHANGED <<shown, ended, grace, sound, rx, ui, buttons, dacp>>

\* clear_session(): the buttons, the flags; clear_active_device().
ClearsButtons ==
    /\ Doing("buttons")
    /\ buttons' = Idle
    /\ UNCHANGED <<shown, ended, badge, ui, dacp>>

ClearsFlags ==
    /\ Doing("flags")
    /\ playing' = TRUE /\ stray' = FALSE
    /\ ended' = ended \cup {shown}
    /\ UNCHANGED <<shown, grace, sound, rx, ui, buttons, dacp>>

ClearsDevice ==
    /\ Doing("no_device")
    /\ shown' = NoSession
    /\ UNCHANGED <<ended, badge, ui, buttons, dacp>>

\* DacpRemote::update(): the DNS resolution of the phone's service starts with the
\* first request that names it, and is never started again.
Updates ==
    /\ Doing("update")
    /\ remote' = [session |-> shown,
                  service |-> IF remote.service = "none" THEN "asked" ELSE remote.service]
    /\ UNCHANGED <<shown, ended, badge, ui, buttons, request, main>>

Erases ==
    /\ Doing("erase")
    /\ remote' = [session |-> NoSession, service |-> "none"]
    /\ UNCHANGED <<shown, ended, badge, ui, buttons, request, main>>

ControlSteps ==
    \/ StartsReceiver \/ SetsDevice \/ StopsStreams \/ NotesFlush \/ SetsRate
    \/ ClearsButtons \/ ClearsFlags \/ ClearsDevice \/ Updates \/ Erases
-----------------------------------------------------------------------------
(* The window's thread.                                                    *)

\* A button is pressed when the flags allow it, and then tells main(): the session
\* is that of the device shown at that moment.
Presses ==
    /\ ui = "look" /\ presses < MaxPresses
    /\ buttons.available /\ ~buttons.pending
    /\ ui' = "tell" /\ presses' = presses + 1
    /\ buttons' = [buttons EXCEPT !.pending = TRUE, !.failed = FALSE]
    /\ UNCHANGED <<control, badge, dacp>>

Tells ==
    /\ ui = "tell" /\ ui' = "look"
    /\ request' = IF shown = NoSession THEN "nobody" ELSE shown
    /\ UNCHANGED <<control, badge, buttons, main, remote, presses>>

-----------------------------------------------------------------------------
(* The main thread, and the remote of the phone.                           *)

MainOnly == UNCHANGED <<control, badge, ui, presses>>

\* The DNS library answers, or its query fails.
Resolves ==
    /\ remote.service = "asked"
    /\ remote' = [remote EXCEPT !.service = "found"] \/ remote' = [remote EXCEPT !.service = "absent"]
    /\ MainOnly /\ UNCHANGED <<buttons, request, main>>

\* available().
Available(s) == s # NoSession /\ remote.session = s /\ remote.service = "found"

TakesRequest ==
    /\ main.pc = "request"
    /\ request' = NoSession
    /\ main' = IF request = NoSession THEN [main EXCEPT !.pc = "look"]
                                 ELSE [pc |-> "send", for |-> request, ok |-> FALSE]
    /\ MainOnly /\ UNCHANGED <<buttons, remote>>

\* control_audio(): a remote of the session is sought, and its phone answers or not.
SendsCommand ==
    /\ main.pc = "send"
    /\ \E ok \in {Available(main.for), FALSE} : main' = [main EXCEPT !.pc = "finish", !.ok = ok]
    /\ MainOnly /\ UNCHANGED <<buttons, request, remote>>

\* audio_command_finished().
Finished_WhenDone == ~main.ok
Finished == FALSE

FinishesCommand ==
    /\ main.pc = "finish"
    /\ main' = [pc |-> "look", for |-> NoSession, ok |-> FALSE]
    /\ buttons' = [buttons EXCEPT !.failed = ~main.ok, !.pending = Finished]
    /\ MainOnly /\ UNCHANGED <<request, remote>>

\* The device is looked at, then the remotes, and then the flag is set.
Looks ==
    /\ main.pc = "look"
    /\ main' = [pc |-> "set", for |-> NoSession, ok |-> Available(shown)]
    /\ MainOnly /\ UNCHANGED <<buttons, request, remote>>

SetsAvailable ==
    /\ main.pc = "set"
    /\ main' = [pc |-> "request", for |-> NoSession, ok |-> FALSE]
    /\ buttons' = [buttons EXCEPT !.available = main.ok]
    /\ MainOnly /\ UNCHANGED <<request, remote>>

Main == TakesRequest \/ SendsCommand \/ FinishesCommand \/ Looks \/ SetsAvailable

PlayingNext == \/ Sends \/ Receiver \/ GraceEnds \/ Requests \/ ControlSteps
               \/ Presses \/ Tells \/ Resolves \/ Main
PlayingSpec == PlayingInit /\ [][PlayingNext]_playingVars

\* Every thread goes on, and time passes.
FairPlayingSpec ==
    /\ PlayingSpec
    /\ WF_playingVars(HearsMusic) /\ WF_playingVars(HearsNothing)
    /\ WF_playingVars(GraceEnds) /\ WF_playingVars(ControlSteps)
    /\ WF_playingVars(Tells) /\ WF_playingVars(Main)
-----------------------------------------------------------------------------
Someone == Sessions \cup {NoSession}

\* The types of the variables; sound that is about to be shown is not a silence.
PlayingTypeOK ==
    /\ shown \in Someone /\ ended \subseteq Sessions
    /\ playing \in BOOLEAN /\ stray \in BOOLEAN /\ grace \in BOOLEAN
    /\ sound \in {"music", "small", "nothing"}
    /\ rx \in [pc : {"off", "wait", "push"}, seen : BOOLEAN, idle : BOOLEAN]
    /\ rx.pc = "push" => rx.seen /\ ~rx.idle
    /\ ui \in {"look", "tell"}
    /\ buttons \in [available : BOOLEAN, pending : BOOLEAN, failed : BOOLEAN]
    /\ request \in Someone \cup {"nobody"} /\ main.for \in Someone \cup {"nobody"}
    /\ main.pc \in {"request", "send", "finish", "look", "set"} /\ main.ok \in BOOLEAN
    /\ remote \in [session : Someone, service : {"none", "asked", "found", "absent"}]
    /\ presses \in 0..MaxPresses

\* audio_receiver.cpp: without the unconditional push "a tentative FLUSH that arrives
\* during active playback would leave the overlay stuck"; "keepalive packets used to
\* keep resetting the silence watchdog".  Music that goes on is shown as playing,
\* unless a FLUSH opens a new grace, and a phone that goes on sending nothing as a
\* pause.  Of small packets that go on nothing is said: they may leave no turn in
\* which the watchdog is looked at.
BadgeFollowsSound ==
    /\ (rx.pc # "off" /\ sound = "music") ~> (playing \/ grace \/ sound # "music")
    /\ (rx.seen /\ sound = "nothing") ~> (~playing \/ ~rx.seen \/ sound # "nothing")

\* clear_session() plays again, and show_video takes a paused player for a reason to
\* show a picture without a device.  No pause outlives its session, whatever the
\* receiver's thread was doing when it ended: the idle screen is paused only by a
\* request that came when no device was shown (a FLUSH, PAUSE or rate of a
\* connection before its SETUP or after its TEARDOWN, which no handler refuses).
PauseEndsWithSession == shown = NoSession /\ todo = <<>> => playing \/ stray

\* PauseEndsWithSession made inductive: what of a request is left says whether a
\* session is shown, whether a receiver may still push, and when playing_ is set.
RestsFit ==
    IF shown = NoSession
    THEN \/ /\ todo \in {<<>>, <<"receiver", "device", "update">>, <<"update">>, <<"erase">>,
                         <<"grace", "pause">>, <<"pause">>, <<"play">>}
            /\ rx = Off /\ (playing \/ stray)
         \/ todo = <<"device", "update">>
    ELSE \/ todo \in {<<>>, <<"update">>, <<"grace", "pause">>, <<"pause">>, <<"play">>,
                      Teardown, ConnectionEnds}
         \/ /\ todo \in {<<"buttons", "flags", "no_device", "update">>,
                         <<"buttons", "flags", "no_device", "erase">>,
                         <<"flags", "no_device", "update">>, <<"flags", "no_device", "erase">>}
            /\ rx = Off
         \/ /\ todo \in {<<"no_device", "update">>, <<"no_device", "erase">>}
            /\ rx = Off /\ playing

\* main.cpp and the window: a press greys the buttons, and whatever becomes of its
\* command, its session or its phone, they come back.
ButtonsComeBack == buttons.pending ~> ~buttons.pending
=============================================================================
