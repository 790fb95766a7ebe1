----------------------------- MODULE Stage_proofs ----------------------------
(***************************************************************************)
(* Proofs about Stage, for any set of sessions and any number of videos    *)
(* and pictures.  IInv says what of a request may be left while a thread   *)
(* or a slot still belongs to its session; each lemma below shows that the *)
(* steps of one thread keep it.                                            *)
(***************************************************************************)
EXTENDS Stage, TLAPS

\* What a step finds and leaves of its request.
LEMMA Took ==
  ASSUME todo \in Rests, NEW step, Doing(step)
  PROVE
  /\ step = "stop" =>
       \/ todo = Plays /\ todo' = <<"join", "reset", "device">>
       \/ todo = Starts /\ todo' = <<"join", "callback", "start", "rate">>
       \/ todo = <<"stop", "join">> /\ todo' = <<"join">>
       \/ /\ todo = <<"stop", "join", "picture", "no_device">>
          /\ todo' = <<"join", "picture", "no_device">>
  /\ step = "join" =>
       \/ todo = <<"join", "reset", "device">> /\ todo' = <<"reset", "device">>
       \/ /\ todo = <<"join", "callback", "start", "rate">>
          /\ todo' = <<"callback", "start", "rate">>
       \/ todo = <<"join">> /\ todo' = <<>>
       \/ todo = <<"join", "picture", "no_device">> /\ todo' = <<"picture", "no_device">>
  /\ step = "reset" => todo = <<"reset", "device">> /\ todo' = <<"device">>
  /\ step = "device" => todo = <<"device">> /\ todo' = <<>>
  /\ step = "callback" => todo = <<"callback", "start", "rate">> /\ todo' = <<"start", "rate">>
  /\ step = "start" => todo = <<"start", "rate">> /\ todo' = <<"rate">>
  /\ step = "rate" => todo = <<"rate">> /\ todo' = <<>>
  /\ step = "wanted" => todo = <<"wanted", "clock">> /\ todo' = <<"clock">>
  /\ step = "clock" => todo = <<"clock">> /\ todo' = <<>>
  /\ step = "streams" =>
       \/ todo = Teardown /\ todo' = <<"picture", "no_device", "stop", "join">>
       \/ todo = <<"streams">> /\ todo' = <<>>
       \/ /\ todo = <<"streams", "picture", "no_device">>
          /\ todo' = <<"picture", "no_device">>
       \/ todo = Disconnect /\ todo' = <<"stop", "join", "picture", "no_device">>
  /\ step = "picture" =>
       \/ /\ todo = <<"picture", "no_device", "stop", "join">>
          /\ todo' = <<"no_device", "stop", "join">>
       \/ todo = <<"picture", "no_device">> /\ todo' = <<"no_device">>
  /\ step = "no_device" =>
       \/ todo = <<"no_device", "stop", "join">> /\ todo' = <<"stop", "join">>
       \/ todo = <<"no_device">> /\ todo' = <<>>
<1>1. ASSUME todo = Plays PROVE step = "stop" /\ todo' = <<"join", "reset", "device">>
  BY <1>1 DEF Doing, Plays
<1>2. ASSUME todo = <<"join", "reset", "device">>
      PROVE  step = "join" /\ todo' = <<"reset", "device">>
  BY <1>2 DEF Doing
<1>3. ASSUME todo = <<"reset", "device">> PROVE step = "reset" /\ todo' = <<"device">>
  BY <1>3 DEF Doing
<1>4. ASSUME todo = <<"device">> PROVE step = "device" /\ todo' = <<>>
  BY <1>4 DEF Doing
<1>5. ASSUME todo = Starts PROVE step = "stop" /\ todo' = <<"join", "callback", "start", "rate">>
  BY <1>5 DEF Doing, Starts
<1>6. ASSUME todo = <<"join", "callback", "start", "rate">>
      PROVE  step = "join" /\ todo' = <<"callback", "start", "rate">>
  BY <1>6 DEF Doing
<1>7. ASSUME todo = <<"callback", "start", "rate">>
      PROVE  step = "callback" /\ todo' = <<"start", "rate">>
  BY <1>7 DEF Doing
<1>8. ASSUME todo = <<"start", "rate">> PROVE step = "start" /\ todo' = <<"rate">>
  BY <1>8 DEF Doing
<1>9. ASSUME todo = <<"rate">> PROVE step = "rate" /\ todo' = <<>>
  BY <1>9 DEF Doing
<1>10. ASSUME todo = <<"wanted", "clock">> PROVE step = "wanted" /\ todo' = <<"clock">>
  BY <1>10 DEF Doing
<1>11. ASSUME todo = <<"clock">> PROVE step = "clock" /\ todo' = <<>>
  BY <1>11 DEF Doing
<1>12. ASSUME todo = Teardown
       PROVE  step = "streams" /\ todo' = <<"picture", "no_device", "stop", "join">>
  BY <1>12 DEF Doing, Teardown
<1>13. ASSUME todo = <<"picture", "no_device", "stop", "join">>
       PROVE  step = "picture" /\ todo' = <<"no_device", "stop", "join">>
  BY <1>13 DEF Doing
<1>14. ASSUME todo = <<"no_device", "stop", "join">>
       PROVE  step = "no_device" /\ todo' = <<"stop", "join">>
  BY <1>14 DEF Doing
<1>15. ASSUME todo = <<"stop", "join">> PROVE step = "stop" /\ todo' = <<"join">>
  BY <1>15 DEF Doing
<1>16. ASSUME todo = <<"join">> PROVE step = "join" /\ todo' = <<>>
  BY <1>16 DEF Doing
<1>17. ASSUME todo = <<"streams", "picture", "no_device">>
       PROVE  step = "streams" /\ todo' = <<"picture", "no_device">>
  BY <1>17 DEF Doing
<1>18. ASSUME todo = <<"picture", "no_device">> PROVE step = "picture" /\ todo' = <<"no_device">>
  BY <1>18 DEF Doing
<1>19. ASSUME todo = <<"no_device">> PROVE step = "no_device" /\ todo' = <<>>
  BY <1>19 DEF Doing
<1>20. ASSUME todo = Disconnect
       PROVE  step = "streams" /\ todo' = <<"stop", "join", "picture", "no_device">>
  BY <1>20 DEF Doing, Disconnect
<1>21. ASSUME todo = <<"stop", "join", "picture", "no_device">>
       PROVE  step = "stop" /\ todo' = <<"join", "picture", "no_device">>
  BY <1>21 DEF Doing
<1>22. ASSUME todo = <<"join", "picture", "no_device">>
       PROVE  step = "join" /\ todo' = <<"picture", "no_device">>
  BY <1>22 DEF Doing
<1>23. ASSUME todo = <<"streams">> PROVE step = "streams" /\ todo' = <<>>
  BY <1>23 DEF Doing
<1>24. todo # <<>>
  BY DEF Doing
<1> QED
  BY <1>1, <1>2, <1>3, <1>4, <1>5, <1>6, <1>7, <1>8, <1>9, <1>10, <1>11, <1>12, <1>13,
     <1>14, <1>15, <1>16, <1>17, <1>18, <1>19, <1>20, <1>21, <1>22, <1>23, <1>24
     DEF Rests, Picturing, Clearing, Joining, Joined, Starting, Begun, Halting

\* What the threads and the requests rely on holds from the start and after every
\* step of each.
LEMMA Invariance == Spec => []IInv
\* The player's thread, in each turn and at its end.
<1>1. IInv /\ Player => IInv'
  <2> SUFFICES ASSUME IInv, Player PROVE IInv'
    OBVIOUS
  <2> USE StageAssumption DEF IInv, slots, screen
  <2>1. /\ UNCHANGED <<dev, avf, screen, mirror, todo, wanted, ended>>
        /\ thread'.plays = thread.plays
        /\ player'.end = player.end /\ player'.rate = player.rate
        /\ player'.running => player.running
    BY DEF Player, Opens, Turns, Resumes, Reads, ReadsNot, ReadsEnd, Notifies, Checks,
           StopsClock, TypeOK, Goes
  <2>2. thread.pc # "none" /\ thread'.pc # "none" /\ thread.plays # None
    BY DEF Player, Opens, Turns, Resumes, Reads, ReadsNot, ReadsEnd, Notifies, Checks,
           StopsClock, TypeOK, Goes, ThreadFits
  <2>3. /\ hls' \in [Sessions -> [gen : Nat, rate : {0, 1}, asked : BOOLEAN]]
        /\ \A s \in Sessions : hls'[s].gen = hls[s].gen /\ hls'[s].asked = hls[s].asked
        /\ hls' # hls => ~player.running
    BY DEF Player, Opens, Turns, Resumes, Reads, ReadsNot, ReadsEnd, Notifies, Checks,
           StopsClock, TypeOK, Goes, ThreadFits
  <2>4. UNCHANGED <<planes, size, pushed>> \/ Reads
    BY DEF Player, Opens, Turns, Resumes, ReadsNot, ReadsEnd, Notifies, Checks, StopsClock
  <2>5. TypeOK'
    <3>1. /\ planes' \in Pictures /\ pushed' \in 0..MaxPictures /\ size' \in Nat
          /\ avf' # None \/ planes' # None => size' # 0
      BY <2>1, <2>2, <2>4 DEF Reads, TypeOK, Pictures, Picture, Videos
    <3>2. /\ player' \in [running : BOOLEAN, rate : {0, 1}, seek : BOOLEAN, end : Videos]
          /\ thread' \in [pc : {"none", "open", "turn", "pause", "read", "end", "check", "stop",
                                "done"},
                          plays : Videos, calls : Videos]
      <4> USE DEF TypeOK, Goes, Videos
      <4>1. CASE Opens
        BY <4>1 DEF Opens
      <4>2. CASE Turns
        BY <4>2 DEF Turns
      <4>3. CASE Resumes \/ Reads \/ ReadsNot
        BY <4>3 DEF Resumes, Reads, ReadsNot
      <4>4. CASE ReadsEnd \/ Notifies
        BY <4>4 DEF ReadsEnd, Notifies
      <4>5. CASE Checks \/ StopsClock
        BY <4>5 DEF Checks, StopsClock
      <4> QED
        BY <4>1, <4>2, <4>3, <4>4, <4>5 DEF Player
    <3> QED
      BY <2>1, <2>3, <3>1, <3>2 DEF TypeOK, Pictures
  <2>6. SessionsFit'
    BY <2>1 DEF SessionsFit
  <2>7. ThreadFits'
    <3>1. thread'.pc \in {"end", "check", "stop"} => ~player'.running
      BY DEF Player, Opens, Turns, Resumes, Reads, ReadsNot, ReadsEnd, Notifies, Checks,
             StopsClock, TypeOK, Goes, ThreadFits
    <3>2. thread'.pc \in {"check", "stop"} => thread'.calls = thread'.plays
      BY DEF Player, Opens, Turns, Resumes, Reads, ReadsNot, ReadsEnd, Notifies, Checks,
             StopsClock, TypeOK, Goes, ThreadFits
    <3>3. todo \notin Joined
      BY <2>2 DEF ThreadFits
    <3> QED
      BY <2>1, <2>2, <2>3, <3>1, <3>2, <3>3 DEF ThreadFits, TypeOK, Videos
  <2>8. StartsFit'
    <3>1. todo # <<"start", "rate">>
      BY <2>2 DEF ThreadFits, Joined, Starting
    <3> QED
      BY <2>1, <2>3, <3>1 DEF StartsFit
  <2>9. RatesFit'
    BY <2>1, <2>2, <2>3 DEF RatesFit, TypeOK, Videos
  <2>10. InOrder'
    BY <2>1, <2>4 DEF Reads, InOrder, Pushed, Before, Picture, TypeOK, Pictures
  <2> QED
    BY <2>5, <2>6, <2>7, <2>8, <2>9, <2>10
\* A request begins.
<1>2. IInv /\ Requests => IInv'
  <2> SUFFICES ASSUME IInv, Requests PROVE IInv'
    OBVIOUS
  <2> USE StageAssumption DEF IInv, slots, screen, video, Serves
  <2>1. /\ todo = <<>>
        /\ UNCHANGED <<avf, planes, size, ui, tex, thread, ended, pushed>>
    BY DEF Requests, Setup, Play, MasterArrives, Rate, Scrub, Stop, Ends
  <2>2. InOrder'
    BY <2>1 DEF InOrder, Pushed, Before
  <2>3. todo \notin Joined \cup Joining \cup Clearing \cup Halting \cup Opening \cup Picturing
    BY <2>1 DEF Joined, Joining, Clearing, Halting, Opening, Starting, Starts, Picturing
  <2>4. ASSUME Setup PROVE IInv'
    <3>1. PICK s \in Sessions \ ended : /\ dev' = [session |-> s, hls |-> FALSE]
                                        /\ mirror' \in {s, None}
      BY <2>4 DEF Setup
    <3>2. UNCHANGED <<hls, player, thread, todo, wanted>> /\ dev = None
      BY <2>4 DEF Setup
    <3>3. TypeOK'
      BY <2>1, <3>1, <3>2 DEF TypeOK
    <3>4. dev' # None /\ dev'.session = s
      BY <3>1 DEF None
    <3>5. SessionsFit'
      BY <2>1, <2>3, <3>1, <3>2, <3>4 DEF SessionsFit
    <3>6. thread.plays = None
      BY <2>3, <3>2 DEF ThreadFits
    <3>7. ThreadFits' /\ StartsFit' /\ RatesFit'
      BY <2>1, <2>3, <3>2, <3>4, <3>6 DEF ThreadFits, StartsFit, RatesFit
    <3> QED
      BY <2>2, <3>3, <3>5, <3>7
  <2>5. ASSUME Play \/ MasterArrives \/ Rate \/ Scrub \/ Stop \/ Ends PROVE IInv'
    <3>1. /\ dev # None /\ UNCHANGED <<dev, mirror>>
          /\ player'.running = player.running /\ player'.rate = player.rate
          /\ player'.end = player.end
      BY <2>5 DEF Play, MasterArrives, Rate, Scrub, Stop, Ends, TypeOK
    <3>2. /\ player' \in [running : BOOLEAN, rate : {0, 1}, seek : BOOLEAN, end : Videos]
          /\ wanted' \in {0, 1}
      BY <2>5 DEF Play, MasterArrives, Rate, Scrub, Stop, Ends, TypeOK
    <3>3. /\ hls' \in [Sessions -> [gen : Nat, rate : {0, 1}, asked : BOOLEAN]]
          /\ \A s \in Sessions : hls'[s].gen = hls[s].gen /\ (hls'[s].asked => hls[s].asked)
          /\ todo' # <<"stop", "join">> => \A s \in Sessions : hls'[s].rate = hls[s].rate
      <4>1. CASE UNCHANGED hls
        BY <4>1 DEF TypeOK
      <4>2. CASE MasterArrives
        BY <4>2, <3>1 DEF MasterArrives, TypeOK
      <4>3. CASE Stop
        BY <4>3, <3>1 DEF Stop, TypeOK
      <4> QED
        BY <2>5, <4>1, <4>2, <4>3 DEF Play, Rate, Scrub, Ends
    <3>4. todo' \in {Plays, Starts, <<"wanted", "clock">>, <<>>, <<"stop", "join">>, Teardown, Lost,
                     Disconnect}
      <4>1. CASE Ends
        BY <4>1 DEF Ends
      <4> QED
        BY <2>5, <4>1 DEF Play, MasterArrives, Rate, Scrub, Stop
    <3>5. todo' = Starts => dev.hls
      <4>1. MasterArrives => dev.hls
        BY <2>1, <2>3, <3>1 DEF MasterArrives, StartsFit, SessionsFit, TypeOK
      <4> QED
        BY <2>5, <4>1 DEF Play, MasterArrives, Rate, Scrub, Stop, Ends, Starts, Plays, Teardown,
           Disconnect, Lost
    <3>6. /\ todo' \in Rests
          /\ todo' \notin Picturing \cup Clearing \cup Joining
          /\ todo' \in Joined => ~dev.hls
          /\ todo' \in Opening => todo' = Starts
          /\ todo' \notin {<<"start", "rate">>, <<"clock">>}
      <4> USE DEF Rests, Picturing, Clearing, Joining, Joined, Opening, Starting, Begun, Halting
      <4>1. CASE todo' \in {Plays, <<>>, <<"stop", "join">>}
        BY <4>1 DEF Plays, Starts
      <4>2. CASE todo' \in {Starts, <<"wanted", "clock">>}
        BY <4>2 DEF Starts
      <4>3. CASE todo' = Lost
        BY <4>3 DEF Lost, Starts
      <4>4. CASE todo' = Teardown
        BY <4>4 DEF Teardown, Starts
      <4>5. CASE todo' = Disconnect
        BY <4>5 DEF Disconnect, Starts
      <4> QED
        BY <3>4, <4>1, <4>2, <4>3, <4>4, <4>5
    <3>7. SessionsFit'
      BY <2>1, <2>3, <3>1, <3>6 DEF SessionsFit
    <3>8. ThreadFits'
      BY <2>1, <2>3, <3>1, <3>3, <3>6 DEF ThreadFits, TypeOK, Videos
    <3>9. StartsFit'
      BY <2>1, <2>3, <3>1, <3>3, <3>5, <3>6 DEF StartsFit
    <3>10. RatesFit'
      BY <2>1, <2>3, <3>1, <3>3, <3>6 DEF RatesFit, TypeOK, Videos
    <3>11. TypeOK'
      BY <2>1, <3>1, <3>2, <3>3 DEF TypeOK, Pictures
    <3> QED
      BY <2>2, <3>7, <3>8, <3>9, <3>10, <3>11
  <2> QED
    BY <2>4, <2>5 DEF Requests
\* A request goes on by a step of its own: the player is stopped and joined before
\* anything of its video is touched, the mirror's thread before its picture is.
<1>3. IInv /\ Control => IInv'
  <2> SUFFICES ASSUME IInv, Control PROVE IInv'
    OBVIOUS
  <2> USE StageAssumption DEF IInv, slots, screen, video
  <2>1. todo \in Rests
    BY DEF SessionsFit
  <2>2. InOrder'
    BY DEF InOrder, Pushed, Before, Control, StopsPlayer, JoinsPlayer, Resets, SetsDevice,
       SetsCallback, StartsPlayer, SetsRate, SetsClock, StopsStreams, ClearsPicture, ClearsDevice,
       Dropped
  <2>3. CASE StopsPlayer
    <3>1. /\ todo \notin Clearing \cup Joined
          /\ todo' \in Joining \ (Clearing \cup Joined)
          /\ todo' \in Picturing <=> todo \in Picturing
          /\ todo' \in Halting <=> todo \in Halting
          /\ todo' \in Opening <=> todo \in Opening
          /\ {todo, todo'} \cap {<<>>, <<"start", "rate">>, <<"clock">>, <<"device">>} = {}
      <4> USE DEF Clearing, Joined, Joining, Picturing, Halting, Opening, Starting
      <4>1. CASE todo = Plays /\ todo' = <<"join", "reset", "device">>
        BY <4>1 DEF Plays, Starts
      <4>2. CASE todo = Starts /\ todo' = <<"join", "callback", "start", "rate">>
        BY <4>2 DEF Starts
      <4>3. CASE todo = <<"stop", "join">> /\ todo' = <<"join">>
        BY <4>3 DEF Starts
      <4>4. CASE /\ todo = <<"stop", "join", "picture", "no_device">>
                 /\ todo' = <<"join", "picture", "no_device">>
        BY <4>4 DEF Starts
      <4> QED
        BY <2>1, <2>3, <4>1, <4>2, <4>3, <4>4, Took DEF StopsPlayer
    <3>2. TypeOK'
      <4>1. player' \in [running : BOOLEAN, rate : {0, 1}, seek : BOOLEAN, end : Videos]
        BY <2>3 DEF StopsPlayer, TypeOK
      <4> QED
        BY <2>3, <4>1 DEF StopsPlayer, TypeOK, Pictures
    <3>3. SessionsFit'
      BY <2>3, <3>1 DEF StopsPlayer, SessionsFit, Rests
    <3>4. ~player'.running /\ player'.end = player.end
      BY <2>3 DEF StopsPlayer, TypeOK
    <3>5. ThreadFits' /\ RatesFit'
      BY <2>3, <3>1, <3>4 DEF StopsPlayer, ThreadFits, RatesFit
    <3>6. StartsFit'
      BY <2>3, <3>1 DEF StopsPlayer, StartsFit
    <3> QED
      BY <2>2, <3>2, <3>3, <3>5, <3>6
  <2>4. CASE JoinsPlayer
    <3>1. /\ todo \in Joining \ Clearing
          /\ todo' \in Rests \ (Clearing \cup Joining)
          /\ todo' \in Picturing <=> todo \in Picturing
          /\ todo \in Halting => todo' = <<>>
          /\ todo' \in Opening <=> todo \in Opening
          /\ todo # <<>>
          /\ {todo, todo'} \cap {<<"start", "rate">>, <<"clock">>, <<"device">>} = {}
      <4> USE DEF Clearing, Joined, Joining, Picturing, Halting, Opening, Starting, Rests
      <4>1. CASE todo = <<"join", "reset", "device">> /\ todo' = <<"reset", "device">>
        BY <4>1 DEF Starts
      <4>2. CASE /\ todo = <<"join", "callback", "start", "rate">>
                 /\ todo' = <<"callback", "start", "rate">>
        BY <4>2 DEF Starts
      <4>3. CASE todo = <<"join">> /\ todo' = <<>>
        BY <4>3 DEF Starts
      <4>4. CASE todo = <<"join", "picture", "no_device">> /\ todo' = <<"picture", "no_device">>
        BY <4>4 DEF Starts
      <4> QED
        BY <2>1, <2>4, <4>1, <4>2, <4>3, <4>4, Took DEF JoinsPlayer
    <3>2. TypeOK'
      BY <2>4 DEF JoinsPlayer, TypeOK, Pictures, Videos
    <3>3. SessionsFit'
      BY <2>4, <3>1 DEF JoinsPlayer, SessionsFit
    <3>4. ThreadFits' /\ RatesFit'
      BY <2>4, <3>1 DEF JoinsPlayer, ThreadFits, RatesFit, TypeOK
    <3>5. StartsFit'
      BY <2>4, <3>1 DEF JoinsPlayer, StartsFit
    <3> QED
      BY <2>2, <3>2, <3>3, <3>4, <3>5
  <2>5. CASE Resets
    <3>1. todo = <<"reset", "device">> /\ todo' = <<"device">>
      BY <2>1, <2>5, Took DEF Resets
    <3>2. /\ todo \in Joined \ (Clearing \cup Halting \cup Picturing) /\ todo # <<>>
          /\ todo' \in Joined \ (Clearing \cup Picturing \cup Opening) /\ todo' \in Rests
          /\ todo' # <<"start", "rate">>
      BY <3>1 DEF Joined, Clearing, Halting, Picturing, Opening, Starting, Starts, Rests
    <3>3. dev # None /\ dev \in [session : Sessions, hls : BOOLEAN] /\ dev.session \notin ended
      BY <3>2 DEF SessionsFit, TypeOK
    <3>4. thread.pc = "none" /\ thread.plays = None
      BY <3>2 DEF ThreadFits
    <3>5. TypeOK'
      <4>1. hls' \in [Sessions -> [gen : Nat, rate : {0, 1}, asked : BOOLEAN]]
        BY <2>5, <3>3 DEF Resets, TypeOK
      <4> QED
        BY <2>5, <4>1 DEF Resets, TypeOK, Pictures
    <3>6. SessionsFit'
      BY <2>5, <3>2 DEF Resets, SessionsFit
    <3>7. ThreadFits' /\ RatesFit'
      BY <2>5, <3>1, <3>2, <3>4 DEF Resets, ThreadFits, RatesFit, Joining
    <3>8. StartsFit'
      BY <2>5, <3>1, <3>2, <3>3 DEF Resets, StartsFit, TypeOK
    <3> QED
      BY <2>2, <3>5, <3>6, <3>7, <3>8
  <2>6. CASE SetsDevice
    <3>1. todo = <<"device">> /\ todo' = <<>>
      BY <2>1, <2>6, Took DEF SetsDevice
    <3>2. /\ todo \in Joined \ (Clearing \cup Halting \cup Picturing) /\ todo # <<>>
          /\ todo' \in Rests \ (Clearing \cup Picturing \cup Opening \cup Joined \cup Joining)
      BY <3>1 DEF Joined, Joining, Clearing, Halting, Picturing, Opening, Starting, Starts, Rests
    <3>3. dev # None /\ dev \in [session : Sessions, hls : BOOLEAN]
      BY <3>2 DEF SessionsFit, TypeOK
    <3>4. /\ dev' \in [session : Sessions, hls : BOOLEAN] /\ dev' # None
          /\ dev'.session = dev.session /\ dev'.hls
      BY <2>6, <3>3 DEF SetsDevice, None
    <3>5. thread.pc = "none" /\ thread.plays = None
      BY <3>2 DEF ThreadFits
    <3>6. TypeOK'
      BY <2>6, <3>4 DEF SetsDevice, TypeOK, Pictures
    <3>7. SessionsFit'
      BY <2>6, <3>2, <3>3, <3>4 DEF SetsDevice, SessionsFit
    <3>8. ThreadFits' /\ RatesFit'
      BY <2>6, <3>1, <3>2, <3>5 DEF SetsDevice, ThreadFits, RatesFit
    <3>9. StartsFit'
      BY <2>6, <3>1, <3>2, <3>3, <3>4 DEF SetsDevice, StartsFit
    <3> QED
      BY <2>2, <3>6, <3>7, <3>8, <3>9
  <2>7. CASE SetsCallback
    <3>1. todo = <<"callback", "start", "rate">> /\ todo' = <<"start", "rate">>
      BY <2>1, <2>7, Took DEF SetsCallback
    <3>2. /\ todo \in Joined \ (Clearing \cup Halting \cup Picturing) /\ todo # <<>>
          /\ todo \in Opening /\ todo' \in Opening /\ todo # <<"device">>
          /\ todo' \in Rests \ (Clearing \cup Picturing \cup Joining) /\ todo' \in Joined
      BY <3>1 DEF Joined, Joining, Clearing, Halting, Picturing, Opening, Starting, Starts, Rests
    <3>3. dev # None /\ dev \in [session : Sessions, hls : BOOLEAN]
      BY <3>2 DEF SessionsFit, TypeOK
    <3>4. thread.pc = "none" /\ thread.plays = None /\ ~player.running
      BY <3>2 DEF ThreadFits
    <3>5. Current \in Videos /\ Current' = Current
      BY <2>7, <3>3 DEF Current, Videos, TypeOK, SetsCallback
    <3>6. /\ player' \in [running : BOOLEAN, rate : {0, 1}, seek : BOOLEAN, end : Videos]
          /\ player'.end = Current /\ player'.running = player.running
      BY <2>7, <3>5 DEF SetsCallback, TypeOK
    <3>7. TypeOK'
      BY <2>7, <3>6 DEF SetsCallback, TypeOK, Pictures
    <3>8. SessionsFit'
      BY <2>7, <3>2 DEF SetsCallback, SessionsFit
    <3>9. ThreadFits' /\ RatesFit'
      BY <2>7, <3>1, <3>2, <3>4, <3>6 DEF SetsCallback, ThreadFits, RatesFit
    <3>10. StartsFit'
      BY <2>7, <3>1, <3>2, <3>5, <3>6 DEF SetsCallback, StartsFit
    <3> QED
      BY <2>2, <3>7, <3>8, <3>9, <3>10
  <2>8. CASE StartsPlayer
    <3>1. todo = <<"start", "rate">> /\ todo' = <<"rate">>
      BY <2>1, <2>8, Took DEF StartsPlayer
    <3>2. /\ todo \in Joined \ (Clearing \cup Halting \cup Picturing) /\ todo # <<>>
          /\ todo \in Opening /\ todo # <<"device">>
          /\ todo' \in Rests \ (Clearing \cup Picturing \cup Joining \cup Joined \cup Opening)
      BY <3>1 DEF Joined, Joining, Clearing, Halting, Picturing, Opening, Starting, Starts, Rests,
         Begun
    <3>3. dev # None /\ dev \in [session : Sessions, hls : BOOLEAN] /\ dev.hls
      BY <3>2 DEF SessionsFit, TypeOK, StartsFit
    <3>4. Current \in Videos /\ Current # None /\ player.end = Current
      BY <3>1, <3>3 DEF Current, Videos, TypeOK, StartsFit, None
    <3>5. /\ player' \in [running : BOOLEAN, rate : {0, 1}, seek : BOOLEAN, end : Videos]
          /\ player'.end = Current
      BY <2>8, <3>4 DEF StartsPlayer, TypeOK
    <3>6. thread' = [pc |-> "open", plays |-> Current, calls |-> None]
      BY <2>8 DEF StartsPlayer
    <3>7. TypeOK'
      BY <2>8, <3>4, <3>5, <3>6 DEF StartsPlayer, TypeOK, Pictures, Videos
    <3>8. SessionsFit'
      BY <2>8, <3>2 DEF StartsPlayer, SessionsFit
    <3>9. ThreadFits'
      BY <2>8, <3>2, <3>3, <3>4, <3>5, <3>6 DEF StartsPlayer, ThreadFits, Current
    <3>10. StartsFit' /\ RatesFit'
      BY <2>8, <3>1, <3>2, <3>3 DEF StartsPlayer, StartsFit, RatesFit
    <3> QED
      BY <2>2, <3>7, <3>8, <3>9, <3>10
  <2>9. CASE SetsRate
    <3>1. \/ /\ todo = <<"rate">> /\ todo' = <<>>
             /\ player' = [player EXCEPT !.rate = hls[dev.session].rate]
          \/ /\ todo = <<"wanted", "clock">> /\ todo' = <<"clock">>
             /\ player' = [player EXCEPT !.rate = wanted]
      BY <2>1, <2>9, Took DEF SetsRate
    <3>2. /\ todo \notin Clearing \cup Halting \cup Picturing \cup Joined \cup {<<>>, <<"device">>}
          /\ todo' \in Rests \ (Clearing \cup Picturing \cup Joining \cup Joined \cup Opening)
          /\ todo' # <<"start", "rate">>
      <4> USE DEF Joined, Joining, Clearing, Halting, Picturing, Opening, Starting, Rests, Begun
      <4>1. CASE todo = <<"rate">> /\ todo' = <<>>
        BY <4>1 DEF Starts
      <4>2. CASE todo = <<"wanted", "clock">> /\ todo' = <<"clock">>
        BY <4>2 DEF Starts
      <4> QED
        BY <3>1, <4>1, <4>2
    <3>3. dev # None /\ dev \in [session : Sessions, hls : BOOLEAN]
      BY <3>2 DEF SessionsFit, TypeOK
    <3>4. /\ player' \in [running : BOOLEAN, rate : {0, 1}, seek : BOOLEAN, end : Videos]
          /\ player'.end = player.end /\ player'.running = player.running
      BY <3>1, <3>3 DEF TypeOK
    <3>5. TypeOK'
      BY <2>9, <3>4 DEF SetsRate, TypeOK, Pictures
    <3>6. SessionsFit'
      BY <2>9, <3>2 DEF SetsRate, SessionsFit
    <3>7. ThreadFits'
      BY <2>9, <3>2, <3>4 DEF SetsRate, ThreadFits
    <3>8. StartsFit'
      BY <2>9, <3>2, <3>4 DEF SetsRate, StartsFit
    <3>9. RatesFit'
      <4>1. CASE todo' = <<"clock">> /\ player' = [player EXCEPT !.rate = wanted]
        BY <2>9, <4>1 DEF SetsRate, RatesFit, TypeOK
      <4>2. CASE /\ todo = <<"rate">> /\ todo' = <<>>
                 /\ player' = [player EXCEPT !.rate = hls[dev.session].rate]
        BY <2>9, <3>2, <4>2 DEF SetsRate, RatesFit, ThreadFits, TypeOK
      <4> QED
        BY <3>1, <4>1, <4>2
    <3> QED
      BY <2>2, <3>5, <3>6, <3>7, <3>8, <3>9
  <2>10. CASE SetsClock
    <3>1. todo = <<"clock">> /\ todo' = <<>>
      BY <2>1, <2>10, Took DEF SetsClock
    <3>2. /\ todo \notin Clearing \cup Halting \cup Picturing \cup Joined \cup {<<>>, <<"device">>}
          /\ todo' \in Rests \ (Clearing \cup Picturing \cup Joining \cup Joined \cup Opening)
      BY <3>1 DEF Joined, Joining, Clearing, Halting, Picturing, Opening, Starting, Starts, Rests,
         Begun
    <3>3. dev # None /\ dev \in [session : Sessions, hls : BOOLEAN]
      BY <3>2 DEF SessionsFit, TypeOK
    <3>4. /\ hls' \in [Sessions -> [gen : Nat, rate : {0, 1}, asked : BOOLEAN]]
          /\ \A s \in Sessions : hls'[s].gen = hls[s].gen /\ hls'[s].asked = hls[s].asked
          /\ hls'[dev.session].rate = wanted
      BY <2>10, <3>3 DEF SetsClock, TypeOK
    <3>5. TypeOK'
      BY <2>10, <3>4 DEF SetsClock, TypeOK, Pictures
    <3>6. SessionsFit'
      BY <2>10, <3>2 DEF SetsClock, SessionsFit
    <3>7. ThreadFits'
      BY <2>10, <3>2, <3>4 DEF SetsClock, ThreadFits, TypeOK, Videos
    <3>8. StartsFit'
      BY <2>10, <3>1, <3>2, <3>4 DEF SetsClock, StartsFit
    <3>9. RatesFit'
      BY <2>10, <3>1, <3>2, <3>4 DEF SetsClock, RatesFit, ThreadFits
    <3> QED
      BY <2>2, <3>5, <3>6, <3>7, <3>8, <3>9
  <2>11. CASE StopsStreams
    <3>1. \/ todo = Teardown /\ todo' = <<"picture", "no_device", "stop", "join">>
          \/ todo = <<"streams">> /\ todo' = <<>>
          \/ todo = <<"streams", "picture", "no_device">> /\ todo' = <<"picture", "no_device">>
          \/ todo = Disconnect /\ todo' = <<"stop", "join", "picture", "no_device">>
      BY <2>1, <2>11, Took DEF StopsStreams
    <3>2. /\ todo \notin Clearing \cup Halting \cup Picturing \cup {<<>>, <<"device">>}
          /\ todo \notin {<<"rate">>, <<"clock">>, <<"stop", "join">>}
          /\ todo' \in Rests \ (Clearing \cup Joining \cup Opening)
          /\ todo' \in Joined => todo \in Joined
          /\ todo' \notin {<<"start", "rate">>, <<"clock">>}
      <4> USE DEF Clearing, Joined, Joining, Picturing, Halting, Opening, Starting, Rests
      <4>1. CASE todo = Teardown /\ todo' = <<"picture", "no_device", "stop", "join">>
        BY <4>1 DEF Teardown, Starts
      <4>2. CASE todo = <<"streams">> /\ todo' = <<>>
        BY <4>2 DEF Starts
      <4>3. CASE todo = <<"streams", "picture", "no_device">> /\ todo' = <<"picture", "no_device">>
        BY <4>3 DEF Starts
      <4>4. CASE todo = Disconnect /\ todo' = <<"stop", "join", "picture", "no_device">>
        BY <4>4 DEF Disconnect, Starts
      <4> QED
        BY <3>1, <4>1, <4>2, <4>3, <4>4
    <3>3. TypeOK'
      BY <2>11 DEF StopsStreams, TypeOK, Pictures
    <3>4. SessionsFit'
      BY <2>11, <3>2 DEF StopsStreams, SessionsFit
    <3>5. ThreadFits' /\ StartsFit' /\ RatesFit'
      BY <2>11, <3>2 DEF StopsStreams, ThreadFits, StartsFit, RatesFit
    <3> QED
      BY <2>2, <3>3, <3>4, <3>5
  <2>12. CASE ClearsPicture
    <3>1. \/ /\ todo = <<"picture", "no_device", "stop", "join">>
             /\ todo' = <<"no_device", "stop", "join">>
          \/ todo = <<"picture", "no_device">> /\ todo' = <<"no_device">>
      BY <2>1, <2>12, Took DEF ClearsPicture
    <3>2. /\ todo \in Picturing \ (Clearing \cup Halting) /\ todo \notin {<<>>, <<"device">>}
          /\ todo \notin {<<"rate">>, <<"clock">>, <<"stop", "join">>}
          /\ todo' \in Rests \ (Picturing \cup Joining \cup Opening) /\ todo' \in Clearing
          /\ todo' \in Joined => todo \in Joined
          /\ todo' \notin {<<"start", "rate">>, <<"clock">>}
      BY <3>1 DEF Joined, Joining, Clearing, Halting, Picturing, Opening, Starting, Starts, Rests
    <3>3. dev # None /\ dev.session \in Sessions
      BY <3>2 DEF SessionsFit, TypeOK
    <3>4. TypeOK'
      BY <2>12, <3>3 DEF ClearsPicture, TypeOK, Pictures, Dropped
    <3>5. SessionsFit'
      BY <2>12, <3>2 DEF ClearsPicture, SessionsFit, Dropped
    <3>6. ThreadFits' /\ StartsFit' /\ RatesFit'
      BY <2>12, <3>2 DEF ClearsPicture, ThreadFits, StartsFit, RatesFit
    <3> QED
      BY <2>2, <3>4, <3>5, <3>6
  <2>13. CASE ClearsDevice
    <3>1. \/ todo = <<"no_device", "stop", "join">> /\ todo' = <<"stop", "join">>
          \/ todo = <<"no_device">> /\ todo' = <<>>
      BY <2>1, <2>13, Took DEF ClearsDevice
    <3>2. /\ todo \in Clearing \ Halting /\ todo \notin {<<>>, <<"device">>}
          /\ todo \notin {<<"rate">>, <<"clock">>, <<"stop", "join">>}
          /\ todo' \in Halting \cup {<<>>}
          /\ todo' \in Rests \ (Clearing \cup Picturing \cup Joining \cup Joined \cup Opening)
          /\ todo' \in Halting \/ todo \in Joined
          /\ todo' \notin {<<"start", "rate">>, <<"clock">>}
      BY <3>1 DEF Joined, Joining, Clearing, Halting, Picturing, Opening, Starting, Starts, Rests
    <3>3. dev # None /\ dev.session \in ended /\ mirror = None /\ avf = None
      BY <3>2 DEF SessionsFit
    <3>4. TypeOK'
      BY <2>13 DEF ClearsDevice, TypeOK, Pictures
    <3>5. SessionsFit'
      BY <2>13, <3>2, <3>3 DEF ClearsDevice, SessionsFit
    <3>6. ThreadFits' /\ StartsFit' /\ RatesFit'
      BY <2>13, <3>2, <3>3 DEF ClearsDevice, ThreadFits, StartsFit, RatesFit
    <3> QED
      BY <2>2, <3>4, <3>5, <3>6
  <2> QED
    BY <2>3, <2>4, <2>5, <2>6, <2>7, <2>8, <2>9, <2>10, <2>11, <2>12, <2>13 DEF Control
<1>4. Init => IInv
  BY StageAssumption DEF Init, IInv, TypeOK, SessionsFit, ThreadFits, StartsFit, RatesFit, InOrder,
     Pictures, Videos, Pushed, Before, Rests, Halting, Clearing, Picturing, Joining, Joined,
     Opening, Starting, Starts
<1>5. ASSUME IInv, UNCHANGED vars PROVE IInv'
  BY <1>5 DEF vars, slots, screen, video, IInv, TypeOK, Pictures, SessionsFit, ThreadFits,
     StartsFit, Current, RatesFit, InOrder, Pushed, Before
\* The pictures of the mirror and of the player: push_avframe() and push_frame().
<1>6. IInv /\ MirrorPushes => IInv'
  <2> SUFFICES ASSUME IInv, MirrorPushes PROVE IInv'
    OBVIOUS
  <2> USE StageAssumption DEF IInv, MirrorPushes, slots, screen, video
  <2>1. TypeOK'
    BY DEF TypeOK, Pictures, Picture, Outdated
  <2>2. SessionsFit'
    BY DEF SessionsFit, Picture
  <2>3. ThreadFits' /\ StartsFit' /\ RatesFit'
    BY DEF ThreadFits, StartsFit, RatesFit, Current
  <2>4. InOrder'
    BY DEF InOrder, Pushed, Before, Picture, Outdated, TypeOK, Pictures
  <2> QED
    BY <2>1, <2>2, <2>3, <2>4
\* A turn of the window's loop: the older of the pictures that wait is taken.
<1>7. IInv /\ (Takes \/ Uploads) => IInv'
  <2> SUFFICES ASSUME IInv, Takes \/ Uploads PROVE IInv'
    OBVIOUS
  <2> USE StageAssumption DEF IInv, slots, screen, video
  <2>1. /\ UNCHANGED <<dev, size, mirror, video, todo, wanted, ended, pushed>>
        /\ avf' = avf \/ avf' = None
    BY DEF Takes, Uploads
  <2>2. TypeOK'
    BY <2>1 DEF Takes, Uploads, TypeOK, Pictures
  <2>3. SessionsFit' /\ ThreadFits' /\ StartsFit' /\ RatesFit'
    BY <2>1 DEF SessionsFit, ThreadFits, StartsFit, RatesFit, Current
  <2>4. InOrder'
    BY DEF Takes, Uploads, InOrder, Pushed, Before, TypeOK, Pictures
  <2> QED
    BY <2>2, <2>3, <2>4
<1>8. IInv /\ [Next]_vars => IInv'
  BY <1>5, <1>6, <1>7, <1>1, <1>2, <1>3 DEF Next
<1> QED
  BY <1>4, <1>8, PTL DEF Spec

\* Every variable keeps its type, and no picture waits in a slot while frame_w_ is the 0
\* of a cleared slot (whose size it is instead, this does not say).
THEOREM TypeCorrect == Spec => []TypeOK
<1>1. IInv => TypeOK
  BY DEF IInv
<1> QED
  BY <1>1, Invariance, PTL

\* clear_session() runs after the mirror's reader thread is joined: once it has
\* run, the mirror's slot holds nothing of the session that ended.
THEOREM SlotLeft == Spec => []MirrorLeavesSlot
<1>1. IInv => MirrorLeavesSlot
  BY DEF IInv, SessionsFit, TypeOK, MirrorLeavesSlot
<1> QED
  BY <1>1, Invariance, PTL

\* The callback of handle_action() sets the rate without a lock, after its test of
\* the generation: the request that would count the generation up first joins the
\* thread that calls it.
THEOREM EndOfItsVideo == Spec => []EndIsOfItsVideo
<1>1. IInv => EndIsOfItsVideo
  BY DEF IInv, ThreadFits, EndIsOfItsVideo
<1> QED
  BY <1>1, Invariance, PTL

\* set_rate() after start(), in handle_action(): between two requests the player
\* and the session it reports agree on the rate.
THEOREM OneRate == Spec => []RatesAgree
<1>1. IInv => RatesAgree
  BY DEF IInv, RatesFit, RatesAgree
<1> QED
  BY <1>1, Invariance, PTL

\* push_avframe() puts the plane buffers out of use and the window takes the
\* mirror's slot first: no picture shown is followed by one pushed before it.
THEOREM NeverBack == Spec => NewestWins
<1>1. IInv /\ [Next]_vars => [tex' # None /\ tex # None => tex'.n >= tex.n]_vars
  <2> SUFFICES ASSUME IInv, [Next]_vars, tex' # None, tex # None PROVE tex'.n >= tex.n
    OBVIOUS
  <2>1. CASE Uploads
    BY <2>1 DEF Uploads, IInv, TypeOK, Pictures, InOrder, Before
  <2>2. CASE UNCHANGED tex
    BY <2>2 DEF IInv, TypeOK, Pictures
  <2> QED
    BY <2>1, <2>2 DEF Next, vars, screen, slots, video, MirrorPushes, Takes, Player, Opens, Turns,
       Resumes, Reads, ReadsNot, ReadsEnd, Notifies, Checks, StopsClock, Requests, Setup, Play,
       MasterArrives, Rate, Scrub, Stop, Ends, Serves, Control, StopsPlayer, JoinsPlayer, Resets,
       SetsDevice, SetsCallback, StartsPlayer, SetsRate, SetsClock, StopsStreams, ClearsPicture,
       ClearsDevice
<1> QED
  BY <1>1, Invariance, PTL DEF Spec, NewestWins
=============================================================================
