------------------------------- MODULE Stage --------------------------------
(***************************************************************************)
(* What the window shows of a video: the mirror's reader thread and the    *)
(* HLS player's thread (src/video/hls_player.cpp) push pictures to         *)
(* src/video/video_renderer.cpp, the thread of a control connection sets   *)
(* and clears the device and starts, pauses and stops the player, and the  *)
(* window's thread takes a picture in each turn of its loop.  An action is *)
(* a critical section or what lies between two.                            *)
(*                                                                         *)
(* A picture is known by the session it came from.  One control connection *)
(* is served at a time; the single-device guard of SETUP is DeviceSlot's,  *)
(* the requests that fetch a playlist are HlsFetch's.  Of the playback     *)
(* position only the seek that waits is kept.                              *)
(***************************************************************************)
EXTENDS Naturals, Sequences, Functions

CONSTANTS Sessions,     \* sessions, each used once
          MaxPlays,     \* bound: POST /play served
          MaxPictures   \* bound: pictures pushed

None == [none |-> TRUE]

ASSUME StageAssumption ==
    None \notin Sessions /\ MaxPlays \in Nat /\ MaxPictures \in Nat

VARIABLES dev,      \* device_, has_device_
          avf,      \* slot_avframe_, has_avframe_
          planes,   \* the plane buffers, has_frame_
          size,     \* frame_w_, frame_h_: those of the picture with this number
          ui,       \* the window's thread: its place, and the picture it took
          tex,      \* video_tex
          mirror,   \* the session whose reader thread runs
          hls,      \* of each session: playback_generation, playback_rate, and
                    \* whether its master playlist is asked for
          player,   \* running, rate, pending_seek, end_callback
          thread,   \* the player's thread: its place, its video, the callback it took
          todo,     \* what the control thread has still to do
          wanted,   \* the rate of the POST /rate it serves
          ended,    \* sessions that have been cleared
          pushed    \* pictures pushed

slots  == <<avf, planes, size>>
screen == <<ui, tex>>
video  == <<hls, player, thread>>
vars   == <<dev, slots, screen, mirror, video, todo, wanted, ended, pushed>>

Init ==
    /\ dev = None /\ avf = None /\ planes = None /\ size = 0
    /\ ui = [pc |-> "take", got |-> None] /\ tex = None
    /\ mirror = None
    /\ hls = [s \in Sessions |-> [gen |-> 0, rate |-> 0, asked |-> FALSE]]
    /\ player = [running |-> FALSE, rate |-> 1, seek |-> FALSE, end |-> None]
    /\ thread = [pc |-> "none", plays |-> None, calls |-> None]
    /\ todo = <<>> /\ wanted = 1 /\ ended = {} /\ pushed = 0
-----------------------------------------------------------------------------
(* The mirror's reader thread.                                             *)

Picture(s) == [n |-> pushed + 1, of |-> s]

\* push_avframe(): the newest picture wins, and the plane buffers are put out of
\* use, so that an older picture is never shown after it.
Outdated_Kept == planes
Outdated == None

MirrorPushes ==
    /\ mirror # None /\ pushed < MaxPictures
    /\ avf' = Picture(mirror) /\ size' = pushed + 1
    /\ planes' = Outdated
    /\ pushed' = pushed + 1
    /\ UNCHANGED <<dev, screen, mirror, video, todo, wanted, ended>>
-----------------------------------------------------------------------------
(* The player's thread: run().                                             *)

Goes(pc) == thread' = [thread EXCEPT !.pc = pc]

\* The input and the decoder are opened; interrupt_cb() ends what takes long.
Opens ==
    /\ thread.pc = "open"
    /\ \/ player.running /\ Goes("turn") /\ UNCHANGED player
       \/ Goes("done") /\ player' = [player EXCEPT !.running = FALSE]
    /\ UNCHANGED <<dev, slots, screen, mirror, hls, todo, wanted, ended, pushed>>

\* A turn takes the seek that waits, and waits while the rate is zero.
Turns ==
    /\ thread.pc = "turn"
    /\ IF player.running THEN Goes("pause") /\ player' = [player EXCEPT !.seek = FALSE]
                         ELSE Goes("done") /\ UNCHANGED player
    /\ UNCHANGED <<dev, slots, screen, mirror, hls, todo, wanted, ended, pushed>>

GoesOn_AtARate == player.rate > 0
GoesOn == player.rate > 0 \/ ~player.running

Resumes ==
    /\ thread.pc = "pause" /\ GoesOn
    /\ Goes(IF player.running THEN "read" ELSE "done")
    /\ UNCHANGED <<dev, slots, screen, mirror, hls, player, todo, wanted, ended, pushed>>

\* A packet: of another stream, without a picture yet, or with one, that
\* push_frame() puts in its slot; the other slot stays as it is.
Reads ==
    /\ thread.pc = "read" /\ Goes("turn")
    /\ IF player.running /\ pushed < MaxPictures
       THEN \/ /\ planes' = Picture(thread.plays.of) /\ size' = pushed + 1
               /\ pushed' = pushed + 1
            \/ UNCHANGED <<planes, size, pushed>>
       ELSE UNCHANGED <<planes, size, pushed>>
    /\ UNCHANGED <<dev, avf, screen, mirror, hls, player, todo, wanted, ended>>

\* A packet that cannot be read ends the thread; running and the callback stay.
ReadsNot ==
    /\ thread.pc = "read" /\ Goes("done")
    /\ UNCHANGED <<dev, slots, screen, mirror, hls, player, todo, wanted, ended, pushed>>

\* The end of the video: notify_end() copies the callback ...
ReadsEnd ==
    /\ thread.pc = "read"
    /\ thread' = [thread EXCEPT !.pc = "end"]
    /\ player' = [player EXCEPT !.running = FALSE]
    /\ UNCHANGED <<dev, slots, screen, mirror, hls, todo, wanted, ended, pushed>>

Notifies ==
    /\ thread.pc = "end"
    /\ thread' = [thread EXCEPT !.pc = IF player.end = None THEN "done" ELSE "check",
                                !.calls = player.end]
    /\ UNCHANGED <<dev, slots, screen, mirror, hls, player, todo, wanted, ended, pushed>>

\* ... which looks at the generation, and then stops the clock of the session.
Checks ==
    /\ thread.pc = "check"
    /\ Goes(IF hls[thread.calls.of].gen = thread.calls.gen THEN "stop" ELSE "done")
    /\ UNCHANGED <<dev, slots, screen, mirror, hls, player, todo, wanted, ended, pushed>>

StopsClock ==
    /\ thread.pc = "stop"
    /\ thread' = [thread EXCEPT !.pc = "done", !.calls = None]
    /\ hls' = [hls EXCEPT ![thread.calls.of].rate = 0]
    /\ UNCHANGED <<dev, slots, screen, mirror, player, todo, wanted, ended, pushed>>

Player == Opens \/ Turns \/ Resumes \/ Reads \/ ReadsNot \/ ReadsEnd \/ Notifies \/ Checks \/ StopsClock
-----------------------------------------------------------------------------
(* The control thread: requests.                                           *)

Serves(steps) ==
    /\ todo = <<>> /\ dev # None
    /\ todo' = steps
    /\ UNCHANGED <<dev, slots, screen, mirror, ended, pushed>>

\* SETUP of a session with a stream: set_active_device(), and the reader thread.
Setup ==
    /\ todo = <<>> /\ dev = None /\ mirror = None
    /\ \E s \in Sessions \ ended :
        /\ dev' = [session |-> s, hls |-> FALSE]
        /\ mirror' \in {s, None}
    /\ UNCHANGED <<slots, screen, video, todo, wanted, ended, pushed>>

\* handle_play(): the player is stopped before the state of the video before is
\* dropped.
Plays_ResetFirst == <<"reset", "stop", "join", "device">>
Plays == <<"stop", "join", "reset", "device">>

Played == FoldFunction(+, 0, [s \in Sessions |-> hls[s].gen])

Play == /\ Serves(Plays) /\ Played < MaxPlays
        /\ UNCHANGED <<video, wanted>>

\* handle_action(), a master playlist asked for by the current generation.
Starts_AtFullRate == <<"stop", "join", "callback", "start">>
Starts == <<"stop", "join", "callback", "start", "rate">>

MasterArrives ==
    /\ Serves(Starts) /\ hls[dev.session].asked
    /\ hls' = [hls EXCEPT ![dev.session].asked = FALSE]
    /\ UNCHANGED <<player, thread, wanted>>

\* POST /rate: the player's rate, then the session's.
Rate == /\ Serves(<<"wanted", "clock">>) /\ hls[dev.session].gen > 0
        /\ wanted' \in {0, 1}
        /\ UNCHANGED video

\* POST /scrub: seek().
Scrub ==
    /\ Serves(<<>>)
    /\ player' = [player EXCEPT !.seek = TRUE]
    /\ UNCHANGED <<hls, thread, wanted>>

\* handle_stop().  The request for the master playlist stays current.
Stop == /\ Serves(<<"stop", "join">>)
        /\ hls' = [hls EXCEPT ![dev.session].rate = 0]
        /\ UNCHANGED <<player, thread, wanted>>

\* The end of a session: a full TEARDOWN; the end of its connection, which clears
\* only a device that carries its own id; Disconnect, after the handlers.  The
\* reader thread is joined before anything is cleared.
Teardown_ClearsFirst == <<"picture", "streams", "no_device", "stop", "join">>
Teardown == <<"streams", "picture", "no_device", "stop", "join">>
Lost == IF dev.hls THEN <<"streams">> ELSE <<"streams", "picture", "no_device">>
Disconnect == <<"streams", "stop", "join", "picture", "no_device">>

Ends ==
    /\ dev # None
    /\ \E steps \in {Teardown, Lost, Disconnect} : Serves(steps)
    /\ UNCHANGED <<video, wanted>>

Requests == Setup \/ Play \/ MasterArrives \/ Rate \/ Scrub \/ Stop \/ Ends
-----------------------------------------------------------------------------
(* The control thread: the steps of a request.                             *)

Doing(step) == todo # <<>> /\ Head(todo) = step /\ todo' = Tail(todo)

Current == [of |-> dev.session, gen |-> hls[dev.session].gen]

\* HlsPlayer::stop(): running is cleared and the thread joined.
StopsPlayer ==
    /\ Doing("stop")
    /\ player' = [player EXCEPT !.running = FALSE]
    /\ UNCHANGED <<dev, slots, screen, mirror, hls, thread, wanted, ended, pushed>>

JoinsPlayer ==
    /\ Doing("join") /\ thread.pc \in {"none", "done"}
    /\ thread' = [pc |-> "none", plays |-> None, calls |-> None]
    /\ UNCHANGED <<dev, slots, screen, mirror, hls, player, wanted, ended, pushed>>

\* reset_hls_media_state().
Resets ==
    /\ Doing("reset")
    /\ hls' = [hls EXCEPT ![dev.session] = [gen |-> @.gen + 1, rate |-> 1, asked |-> TRUE]]
    /\ UNCHANGED <<dev, slots, screen, mirror, player, thread, wanted, ended, pushed>>

SetsDevice ==
    /\ Doing("device")
    /\ dev' = [dev EXCEPT !.hls = TRUE]
    /\ UNCHANGED <<slots, screen, mirror, video, wanted, ended, pushed>>

SetsCallback ==
    /\ Doing("callback")
    /\ player' = [player EXCEPT !.end = Current]
    /\ UNCHANGED <<dev, slots, screen, mirror, hls, thread, wanted, ended, pushed>>

\* HlsPlayer::start(): the seek that waits is not dropped.
StartsPlayer ==
    /\ Doing("start")
    /\ player' = [player EXCEPT !.running = TRUE, !.rate = 1]
    /\ thread' = [pc |-> "open", plays |-> Current, calls |-> None]
    /\ UNCHANGED <<dev, slots, screen, mirror, hls, wanted, ended, pushed>>

\* set_rate() with the rate of the session, or with the one of the request.
SetsRate ==
    /\ \/ Doing("rate") /\ player' = [player EXCEPT !.rate = hls[dev.session].rate]
       \/ Doing("wanted") /\ player' = [player EXCEPT !.rate = wanted]
    /\ UNCHANGED <<dev, slots, screen, mirror, hls, thread, wanted, ended, pushed>>

SetsClock ==
    /\ Doing("clock")
    /\ hls' = [hls EXCEPT ![dev.session].rate = wanted]
    /\ wanted' = 1
    /\ UNCHANGED <<dev, slots, screen, mirror, player, thread, ended, pushed>>

\* streams.reset(): the reader thread is joined.
StopsStreams ==
    /\ Doing("streams")
    /\ mirror' = None
    /\ UNCHANGED <<dev, slots, screen, video, wanted, ended, pushed>>

\* clear_session(): both producer slots ...
Dropped == None

ClearsPicture ==
    /\ Doing("picture")
    /\ avf' = Dropped /\ planes' = None /\ size' = 0
    /\ ended' = ended \cup {dev.session}
    /\ UNCHANGED <<dev, screen, mirror, video, wanted, pushed>>

\* ... and clear_active_device().
ClearsDevice ==
    /\ Doing("no_device")
    /\ dev' = None
    /\ UNCHANGED <<slots, screen, mirror, video, wanted, ended, pushed>>

Control == \/ StopsPlayer \/ JoinsPlayer \/ Resets \/ SetsDevice \/ SetsCallback \/ StartsPlayer
           \/ SetsRate \/ SetsClock \/ StopsStreams \/ ClearsPicture \/ ClearsDevice
-----------------------------------------------------------------------------
(* The window's thread: a turn of the loop of run().                       *)

\* The mirror's slot wins.
Takes ==
    /\ ui.pc = "take" /\ (avf # None \/ planes # None)
    /\ IF avf # None
       THEN avf' = None /\ ui' = [pc |-> "upload", got |-> avf] /\ UNCHANGED planes
       ELSE planes' = None /\ ui' = [pc |-> "upload", got |-> planes] /\ UNCHANGED avf
    /\ UNCHANGED <<dev, size, tex, mirror, video, todo, wanted, ended, pushed>>

\* The picture becomes the texture; a surface that cannot be converted leaves none.
Uploads ==
    /\ ui.pc = "upload"
    /\ ui' = [pc |-> "take", got |-> None]
    /\ tex' \in {ui.got, None}
    /\ UNCHANGED <<dev, slots, mirror, video, todo, wanted, ended, pushed>>

Next == MirrorPushes \/ Player \/ Requests \/ Control \/ Takes \/ Uploads
Spec == Init /\ [][Next]_vars

\* Threads go on; what av_read_frame() waits for comes or is interrupted.
FairSpec == Spec /\ WF_vars(Player) /\ WF_vars(Control)
-----------------------------------------------------------------------------
Pictures == [n : 1..MaxPictures, of : Sessions] \cup {None}
Videos   == [of : Sessions, gen : Nat] \cup {None}

\* The types of the variables.  While a picture waits, frame_w_ is not the 0 that
\* clear_session() writes: it is the size of the last picture pushed, which need not
\* be the one that is taken (:695-697 over a waiting AVFrame, :1264-1268).
TypeOK ==
    /\ dev = None \/ dev \in [session : Sessions, hls : BOOLEAN]
    /\ avf \in Pictures /\ planes \in Pictures /\ tex \in Pictures
    /\ ui \in [pc : {"take", "upload"}, got : Pictures]
    /\ pushed \in 0..MaxPictures /\ size \in Nat
    /\ avf # None \/ planes # None => size # 0
    /\ mirror \in Sessions \cup {None} /\ ended \subseteq Sessions
    /\ hls \in [Sessions -> [gen : Nat, rate : {0, 1}, asked : BOOLEAN]]
    /\ player \in [running : BOOLEAN, rate : {0, 1}, seek : BOOLEAN, end : Videos]
    /\ thread \in [pc : {"none", "open", "turn", "pause", "read", "end", "check", "stop", "done"},
                   plays : Videos, calls : Videos]
    /\ wanted \in {0, 1}

\* push_avframe(), "latest-wins": with two producers and two slots, a picture never
\* takes the place of one that was pushed after it.
NewestWins == [][tex' # None /\ tex # None => tex'.n >= tex.n]_vars

\* clear_session(): "Drop the last decoded frame".  Once a session has ended, the
\* mirror's slot holds nothing of it, whatever its reader thread was doing.
MirrorLeavesSlot == avf # None => avf.of \notin ended

\* The callback of handle_action(): "playback_generation.load() != eos_generation".
\* It tests and then sets with no lock over both; still the end of a video never
\* stops the clock of another one.
EndIsOfItsVideo == thread.pc = "stop" =>
    /\ thread.calls = thread.plays
    /\ hls[thread.plays.of].gen = thread.plays.gen

\* handle_action(): "set_rate(hls->playback_rate.load())".  Between two requests a
\* player that runs plays at the rate its session reports to the phone: a pause
\* that came before its playlist, or a late playlist after POST /stop, do not play.
RatesAgree == todo = <<>> /\ player.running /\ thread.plays # None =>
    player.rate = hls[thread.plays.of].rate

\* HlsPlayer::stop() joins: whatever the thread does, paused or reading, a request
\* comes to its end.
RequestsEnd == todo # <<>> ~> todo = <<>>
-----------------------------------------------------------------------------
(* The inductive invariant behind the safety properties.                   *)

\* What may be left of a request.  The thread of the mirror is joined and the
\* picture not cleared yet; the picture is cleared and the device is not.
Picturing == {<<"picture", "no_device">>, <<"picture", "no_device", "stop", "join">>,
              <<"stop", "join", "picture", "no_device">>,
              <<"join", "picture", "no_device">>}
Clearing == {<<"no_device">>, <<"no_device", "stop", "join">>}

\* The player has been told to stop; it is joined, or was never started.
Joining == {<<"join">>, <<"join", "reset", "device">>,
            <<"join", "callback", "start", "rate">>,
            <<"join", "picture", "no_device">>}
Starting == {<<"callback", "start", "rate">>, <<"start", "rate">>}
Joined == {<<"reset", "device">>, <<"device">>, <<"streams", "picture", "no_device">>,
           <<"picture", "no_device">>, <<"no_device">>} \cup Starting

Opening == {Starts, <<"join", "callback", "start", "rate">>} \cup Starting

\* What uses the device, and has not changed the player yet or does not.
Begun == {Plays, Starts, Teardown, Disconnect, <<"streams">>, <<"rate">>, <<"wanted", "clock">>,
          <<"clock">>}
Halting == {<<"stop", "join">>, <<"join">>}

Rests == Picturing \cup Clearing \cup Joining \cup Joined \cup Begun \cup Halting \cup {<<>>}

\* A session that has ended is shown no more than until its device is cleared,
\* and the mirror and its slot belong to the device's session.
SessionsFit ==
    /\ todo \in Rests
    /\ dev = None => todo \in Halting \cup {<<>>}
    /\ dev # None => (dev.session \in ended <=> todo \in Clearing)
    /\ mirror # None => dev # None /\ mirror = dev.session
                         /\ todo \notin Picturing \cup Clearing
    /\ avf # None => dev # None /\ avf.of = dev.session /\ todo \notin Clearing

\* The thread plays the newest video of the device's session, and it is that
\* video's end it reports; without a thread, nothing runs.
ThreadFits ==
    /\ thread.pc = "none" <=> thread.plays = None
    /\ todo \in Joined => thread.pc = "none"
    /\ todo \in Joining \/ thread.pc \in {"none", "end", "check", "stop"} => ~player.running
    /\ thread.plays # None =>
          /\ player.end = thread.plays
          /\ hls[thread.plays.of].gen = thread.plays.gen
          /\ todo \notin Halting => dev # None /\ dev.hls /\ dev.session = thread.plays.of
    /\ thread.pc \in {"check", "stop"} => thread.calls = thread.plays

\* The player is started by a device that shows HLS, with the callback of its video.
StartsFit ==
    /\ \A s \in Sessions : hls[s].asked =>
          s \in ended \/ (dev # None /\ dev.session = s /\ (dev.hls \/ todo = <<"device">>))
    /\ todo \in Opening => dev.hls
    /\ todo = <<"start", "rate">> => player.end = Current

\* Where the rates of the player and of the session may differ: between the two
\* steps that set them, and between the /stop that sets one and the player's end.
RatesFit ==
    /\ todo = <<"clock">> => player.rate = wanted
    /\ player.running /\ thread.plays # None =>
          \/ todo \in {<<"rate">>, <<"clock">>, <<"stop", "join">>}
          \/ player.rate = hls[thread.plays.of].rate

\* The picture shown, the one taken, and those in the slots: each was pushed
\* before the next one.
Pushed(p) == p # None => p.n <= pushed
Before(p, q) == p # None /\ q # None => p.n < q.n
InOrder ==
    /\ Pushed(tex) /\ Pushed(ui.got) /\ Pushed(avf) /\ Pushed(planes)
    /\ Before(tex, ui.got) /\ Before(tex, avf) /\ Before(tex, planes)
    /\ Before(ui.got, avf) /\ Before(ui.got, planes) /\ Before(avf, planes)

IInv == TypeOK /\ SessionsFit /\ ThreadFits /\ StartsFit /\ RatesFit /\ InOrder
=============================================================================
