------------------------------ MODULE Recorder ------------------------------
(***************************************************************************)
(* src/video/video_recorder.cpp: decoder threads and the audio play-out    *)
(* thread put frames and sound into bounded queues, the encoder thread     *)
(* takes them out and writes a file, and the window's thread starts and    *)
(* stops the recording.  An action is a critical section of mtx_, or what  *)
(* a thread does between two of them.                                      *)
(*                                                                         *)
(* A tick of the clock is a millisecond, a sample of sound lasts a tick    *)
(* and is named by the tick in which it was played.  Pixels are left out:  *)
(* what can fail while they are converted or encoded is a choice.          *)
(***************************************************************************)
EXTENDS Integers, Sequences, SequencesExt

CONSTANTS Producers,   \* threads that decode pictures
          Surfaces,    \* what a picture may be in: TRUE is the GPU's memory
          Limit,       \* kMaxQueuedFrames
          HwLimit,     \* the limit for pictures in the GPU's memory
          AudioLimit,  \* samples in ten seconds of sound
          BlockLen,    \* samples in a block of sound
          AacFrame,    \* samples in a frame of the sound encoder
          Encoders,    \* [gpu, d3d11, plain]: video encoders that are compiled in
          Modes,       \* settings of the encoder: "auto", "gpu", "cpu"
          MaxTime,     \* bound: ticks
          MaxFrames,   \* bound: pictures decoded
          MaxStarts    \* bound: recordings

ASSUME RecorderAssumption ==
    /\ Surfaces \subseteq BOOLEAN /\ Modes \subseteq {"auto", "gpu", "cpu"}
    /\ Encoders \subseteq [gpu : BOOLEAN, d3d11 : BOOLEAN, plain : BOOLEAN]
    /\ Limit \in Nat \ {0} /\ HwLimit \in Nat \ {0} /\ AudioLimit \in Nat
    /\ BlockLen \in Nat \ {0} /\ AacFrame \in Nat \ {0}
    /\ MaxTime \in Nat /\ MaxFrames \in Nat /\ MaxStarts \in Nat

VARIABLES now,         \* steady_clock
          accepting,   \* accepting_
          stopping,    \* stop_requested_
          startedAt,   \* started_ns_
          mode,        \* options_.encoder
          error,       \* error_ is not empty
          queue,       \* queue_
          dropped,     \* frames_dropped_
          audioQueue,  \* audio_queue_
          readback,    \* readback_frames_
          enc,         \* the encoder thread
          ui,          \* the window's thread, and what its stop() is for
          frame,       \* a producer's clone, before it has the lock
          block,       \* the same of the audio thread
          due,         \* the sound of the last BlockLen ticks, not yet submitted
          video,       \* timestamps of the pictures in the file
          sound,       \* samples in the file
          file,        \* "none", "open" (a header and no trailer) or "saved"
          count        \* pictures decoded, put into the queue, written, passed over; recordings

input    == <<frame, block, due>>
settings == <<startedAt, mode>>
output   == <<video, sound, file>>
vars     == <<now, accepting, stopping, settings, error, queue, dropped, audioQueue,
              readback, enc, ui, input, output, count>>

None    == [none |-> TRUE]
Silence == -1
Least(m, n) == IF m < n THEN m ELSE n
Most(m, n)  == IF m > n THEN m ELSE n

\* What the encoder thread's locals are when it starts.
Fresh == [pc |-> "wait", opened |-> FALSE, resident |-> FALSE, gpuInput |-> FALSE,
          item |-> None, batch |-> <<>>, finish |-> FALSE,
          first |-> -1, last |-> -1, timeline |-> FALSE, pcm |-> <<>>]

Init ==
    /\ now = 0 /\ accepting = FALSE /\ stopping = FALSE /\ startedAt = 0
    /\ mode \in Modes /\ error = FALSE
    /\ queue = <<>> /\ dropped = 0 /\ audioQueue = <<>> /\ readback = 0
    /\ enc = [Fresh EXCEPT !.pc = "off"]
    /\ ui = [pc |-> "idle", then |-> "rest"]
    /\ frame = [p \in Producers |-> None] /\ block = None /\ due = FALSE
    /\ video = <<>> /\ sound = <<>> /\ file = "none"
    /\ count = [decoded |-> 0, pushed |-> 0, written |-> 0, passed |-> 0, starts |-> 0]

\* Time passes.  The play-out thread is never a whole block behind.
Tick ==
    /\ now < MaxTime /\ ~due
    /\ now' = now + 1
    /\ due' = ((now + 1) % BlockLen = 0)
    /\ UNCHANGED <<accepting, stopping, settings, error, queue, dropped, audioQueue,
                   readback, enc, ui, frame, block, output, count>>
-----------------------------------------------------------------------------
(* The window's thread.                                                    *)

\* toggle_recording() and the end of run(): what stop() is called for.
Toggle ==
    /\ ui.pc = "idle"
    /\ \/ accepting /\ ui' = [pc |-> "stop", then |-> "rest"]
       \/ /\ ~accepting /\ count.starts < MaxStarts
          /\ ui' = [pc |-> "stop", then |-> "arm"]
       \/ ui' = [pc |-> "stop", then |-> "closed"]
    /\ UNCHANGED <<now, accepting, stopping, settings, error, queue, dropped, audioQueue,
                   readback, enc, input, output, count>>

\* stop(): no more pictures, then the request under the lock, then the join.
StopRefuses ==
    /\ ui.pc = "stop"
    /\ accepting' = FALSE
    /\ ui' = [ui EXCEPT !.pc = "ask"]
    /\ UNCHANGED <<now, stopping, settings, error, queue, dropped, audioQueue, readback,
                   enc, input, output, count>>

StopAsks ==
    /\ ui.pc = "ask"
    /\ stopping' = TRUE
    /\ ui' = [ui EXCEPT !.pc = "join"]
    /\ UNCHANGED <<now, accepting, settings, error, queue, dropped, audioQueue, readback,
                   enc, input, output, count>>

StopJoins ==
    /\ ui.pc = "join" /\ enc.pc \in {"off", "ended"}
    /\ enc' = [enc EXCEPT !.pc = "off"]
    /\ queue' = <<>> /\ audioQueue' = <<>>
    /\ ui' = [ui EXCEPT !.pc = IF ui.then = "rest" THEN "idle" ELSE ui.then]
    /\ UNCHANGED <<now, accepting, stopping, settings, error, dropped, readback, input,
                   output, count>>

\* start(), after its stop(): all under the lock, the thread's start included.
StartArms ==
    /\ ui.pc = "arm"
    /\ accepting' = TRUE /\ stopping' = FALSE /\ error' = FALSE
    /\ startedAt' = now /\ mode' \in Modes
    /\ dropped' = 0 /\ readback' = 0
    /\ enc' = Fresh
    /\ video' = <<>> /\ sound' = <<>> /\ file' = "none"
    /\ count' = [count EXCEPT !.pushed = 0, !.written = 0, !.passed = 0, !.starts = @ + 1]
    /\ ui' = [pc |-> "idle", then |-> "rest"]
    /\ UNCHANGED <<now, queue, audioQueue, input>>

\* The folder cannot be made: set_error().
StartFails ==
    /\ ui.pc = "arm"
    /\ accepting' = FALSE /\ error' = TRUE
    /\ count' = [count EXCEPT !.starts = @ + 1]
    /\ ui' = [pc |-> "idle", then |-> "rest"]
    /\ UNCHANGED <<now, stopping, settings, queue, dropped, audioQueue, readback, enc,
                   input, output>>
-----------------------------------------------------------------------------
(* The producers.                                                          *)

\* submit(), also through submit_i420() and submit_nv12(), before the lock: the
\* time is measured from the start of the recording there is now.
SubmitStamps(p) ==
    /\ accepting /\ frame[p] = None /\ count.decoded < MaxFrames
    /\ \E hw \in Surfaces :
        frame' = [frame EXCEPT ![p] = [pts |-> Most(0, now - startedAt), hw |-> hw]]
    /\ count' = [count EXCEPT !.decoded = @ + 1]
    /\ UNCHANGED <<now, accepting, stopping, settings, error, queue, dropped, audioQueue,
                   readback, enc, ui, block, due, output>>

QueueLimit(f) == IF f.hw THEN HwLimit ELSE Limit

\* submit(), under the lock: a full queue loses its oldest picture.
Puts(f) ==
    LET full == Len(queue) >= QueueLimit(f)
    IN  /\ queue' = Append(IF full THEN Tail(queue) ELSE queue, f)
        /\ dropped' = dropped + IF full THEN 1 ELSE 0
        /\ count' = [count EXCEPT !.pushed = @ + 1]

SubmitQueues_NoRecheck(p) ==
    /\ frame[p] # None
    /\ frame' = [frame EXCEPT ![p] = None]
    /\ Puts(frame[p])
    /\ UNCHANGED <<now, accepting, stopping, settings, error, audioQueue, readback, enc,
                   ui, block, due, output>>
SubmitQueues(p) ==
    /\ frame[p] # None
    /\ frame' = [frame EXCEPT ![p] = None]
    /\ \/ accepting /\ Puts(frame[p])
       \/ ~accepting /\ UNCHANGED <<queue, dropped, count>>
    /\ UNCHANGED <<now, accepting, stopping, settings, error, audioQueue, readback, enc,
                   ui, block, due, output>>

\* submit_audio(), before the lock: the block's beginning is estimated from its
\* arrival and its length.
BlockPts == Most(0, Most(0, now - startedAt) - BlockLen)

AudioStamps ==
    /\ due /\ block = None
    /\ due' = FALSE
    /\ block' = IF ~accepting THEN None
                ELSE [pts |-> BlockPts, at |-> now - BlockLen]
    /\ UNCHANGED <<now, accepting, stopping, settings, error, queue, dropped, audioQueue,
                   readback, enc, ui, frame, output, count>>

\* submit_audio(), under the lock: makes room for the block and puts it in.
AudioQueues ==
    /\ block # None
    /\ block' = None
    /\ LET room == Most(0, AudioLimit \div BlockLen - 1)
           kept == SubSeq(audioQueue, 1 + Most(0, Len(audioQueue) - room), Len(audioQueue))
       IN  audioQueue' = IF accepting THEN Append(kept, block) ELSE audioQueue
    /\ UNCHANGED <<now, accepting, stopping, settings, error, queue, dropped, readback,
                   enc, ui, frame, due, output, count>>
-----------------------------------------------------------------------------
(* The encoder thread.                                                     *)

\* The wait and what is taken under the lock.  Sound is left in the queue until
\* there is a picture to begin the file with; if there will be none, it goes.
Woken == stopping \/ queue # <<>> \/ (enc.opened /\ audioQueue # <<>>)

Takes_KeepsSound ==
    /\ enc.pc = "wait" /\ Woken
    /\ LET have == queue # <<>>
           some == enc.opened \/ have
           rest == IF have THEN Tail(queue) ELSE queue
           done == stopping /\ rest = <<>> /\ (some \/ audioQueue = <<>>)
       IN  /\ queue' = rest
           /\ audioQueue' = IF some THEN <<>> ELSE audioQueue
           /\ enc' = [enc EXCEPT
                !.item   = IF have THEN Head(queue) ELSE None,
                !.batch  = IF some THEN audioQueue ELSE <<>>,
                !.finish = done,
                !.pc = IF some THEN (IF enc.opened THEN "draw" ELSE "open")
                       ELSE IF done THEN "close" ELSE "wait"]
    /\ UNCHANGED <<now, accepting, stopping, settings, error, dropped, readback, ui, input,
                   output, count>>
Takes ==
    /\ enc.pc = "wait" /\ Woken
    /\ LET have == queue # <<>>
           some == enc.opened \/ have
           rest == IF have THEN Tail(queue) ELSE queue
           sounds == IF some \/ stopping THEN <<>> ELSE audioQueue
           done == stopping /\ rest = <<>> /\ sounds = <<>>
       IN  /\ queue' = rest
           /\ audioQueue' = sounds
           /\ enc' = [enc EXCEPT
                !.item   = IF have THEN Head(queue) ELSE None,
                !.batch  = IF some THEN audioQueue ELSE <<>>,
                !.finish = done,
                !.pc = IF some THEN (IF enc.opened THEN "draw" ELSE "open")
                       ELSE IF done THEN "close" ELSE "wait"]
    /\ UNCHANGED <<now, accepting, stopping, settings, error, dropped, readback, ui, input,
                   output, count>>

\* fail(): the recording is over, and the window is told.
Fails ==
    /\ accepting' = FALSE /\ error' = TRUE
    /\ enc' = [enc EXCEPT !.pc = "abandon"]

\* encoder_pixel_format(): what a video encoder is fed with.
PixelFormat(e, ready) ==
    IF ready /\ e.d3d11 THEN "d3d11" ELSE IF e.plain THEN "plain" ELSE "none"

\* The candidates, and those that may be tried for a picture.
Candidates == {e \in Encoders : mode # (IF e.gpu THEN "cpu" ELSE "gpu")}
Usable_Plain(hw, ready) == {e \in Candidates : PixelFormat(e, ready) # "none"}
Usable(hw, ready) ==
    {e \in Candidates :
        LET format == PixelFormat(e, ready)
        IN  format # "none" /\ (hw /\ mode = "gpu" => format = "d3d11")}

\* The first picture: an encoder and the file are opened.  Which candidate is the
\* first to open is the driver's affair, and so is whether surfaces can be
\* converted (GpuRecording::init).
Opens ==
    /\ enc.pc = "open"
    /\ \E ready \in {r \in BOOLEAN : r => enc.item.hw /\ mode # "cpu"} :
       \E e \in Usable(enc.item.hw, ready) :
        enc' = [enc EXCEPT !.pc = "draw", !.opened = TRUE, !.gpuInput = enc.item.hw,
                           !.resident = (PixelFormat(e, ready) = "d3d11")]
    /\ file' = "open"
    /\ UNCHANGED <<now, accepting, stopping, settings, error, queue, dropped, audioQueue,
                   readback, ui, input, video, sound, count>>

\* None opens, or something else of the file fails.
OpensNot ==
    /\ enc.pc = "open"
    /\ Fails
    /\ UNCHANGED <<now, stopping, settings, queue, dropped, audioQueue, readback, ui, input,
                   output, count>>

\* write_video(): the timestamp of the next picture in the file.
FirstPts(pts) == IF enc.first < 0 THEN pts ELSE enc.first
OutputPts_AsIs(pts) == pts - FirstPts(pts)
OutputPts(pts) == Most(enc.last + 1, pts - FirstPts(pts))

\* A picture is fetched from the GPU if the encoder is not fed from there, and
\* converted, encoded and written.  No picture: only the sound is looked at.
Download == enc.item.hw /\ ~enc.resident

Draws ==
    /\ enc.pc = "draw"
    /\ IF enc.item = None
       THEN /\ enc' = [enc EXCEPT !.pc = "hear"]
            /\ UNCHANGED <<readback, video, count>>
       ELSE /\ enc.resident => enc.item.hw
            /\ readback' = readback + IF Download THEN 1 ELSE 0
            /\ video' = Append(video, OutputPts(enc.item.pts))
            /\ count' = [count EXCEPT !.written = @ + 1]
            /\ enc' = [enc EXCEPT !.pc = "hear", !.first = FirstPts(enc.item.pts),
                                  !.last = OutputPts(enc.item.pts)]
    /\ UNCHANGED <<now, accepting, stopping, settings, error, queue, dropped, audioQueue,
                   ui, input, sound, file>>

\* The buffer of a plain encoder cannot be written to: the picture is passed over.
PassesOver ==
    /\ enc.pc = "draw" /\ enc.item # None /\ ~enc.resident
    /\ readback' = readback + IF Download THEN 1 ELSE 0
    /\ enc' = [enc EXCEPT !.pc = "hear"]
    /\ count' = [count EXCEPT !.passed = @ + 1]
    /\ UNCHANGED <<now, accepting, stopping, settings, error, queue, dropped, audioQueue,
                   ui, input, output>>

\* The download, the conversion or the encoder fails; a resident encoder's
\* conversion always does for a picture that is not in the GPU's memory.
DrawFails ==
    /\ enc.pc = "draw" /\ enc.item # None
    /\ Fails
    /\ UNCHANGED <<now, stopping, settings, queue, dropped, audioQueue, readback, ui, input,
                   output, count>>

\* Sound goes behind what is there.  Only the first block of the file is placed
\* against the first picture: silence before it, or its beginning cut off.
Samples(b) == [i \in 1..BlockLen |-> b.at + i - 1]
Placed(b) ==
    IF b.pts >= enc.first
    THEN [i \in 1..b.pts - enc.first |-> Silence] \o Samples(b)
    ELSE SubSeq(Samples(b), 1 + Least(BlockLen, enc.first - b.pts), BlockLen)
Track ==
    FoldLeftDomain(LAMBDA t, i : t \o IF i = 1 /\ ~enc.timeline THEN Placed(enc.batch[i])
                                      ELSE Samples(enc.batch[i]), enc.pcm, enc.batch)

Hears ==
    /\ enc.pc = "hear"
    /\ LET pcm  == IF enc.first < 0 THEN enc.pcm ELSE Track
           full == (Len(pcm) \div AacFrame) * AacFrame
       IN  /\ sound' = sound \o SubSeq(pcm, 1, full)
           /\ enc' = [enc EXCEPT
                !.pcm = SubSeq(pcm, full + 1, Len(pcm)), !.batch = <<>>, !.item = None,
                !.timeline = @ \/ (enc.first >= 0 /\ enc.batch # <<>>),
                !.pc = IF enc.finish THEN "close" ELSE "wait"]
    /\ UNCHANGED <<now, accepting, stopping, settings, error, queue, dropped, audioQueue,
                   readback, ui, input, video, file, count>>

\* The sound encoder or the file fails.
HearFails ==
    /\ enc.pc = "hear" /\ enc.first >= 0 /\ Len(Track) >= AacFrame
    /\ Fails
    /\ UNCHANGED <<now, stopping, settings, queue, dropped, audioQueue, readback, ui, input,
                   output, count>>

\* After a failure: what is queued goes, and the file has no trailer.
Abandons ==
    /\ enc.pc = "abandon"
    /\ stopping' = TRUE /\ queue' = <<>> /\ audioQueue' = <<>>
    /\ enc' = [enc EXCEPT !.pc = "ended"]
    /\ UNCHANGED <<now, accepting, settings, error, dropped, readback, ui, input, output,
                   count>>

\* The end of the file: the rest of the sound, the last picture once more if time
\* has passed since, the trailer.
FinalPts == Most(enc.last + 1, now - startedAt - Most(0, enc.first))
Padded(pcm) ==
    IF pcm = <<>> THEN <<>>
    ELSE pcm \o [i \in 1..Most(0, AacFrame - Len(pcm)) |-> Silence]

Closes ==
    /\ enc.pc = "close"
    /\ IF ~enc.opened THEN UNCHANGED output
       ELSE /\ sound' = sound \o Padded(enc.pcm)
            /\ video' = IF enc.last >= 0 /\ FinalPts > enc.last + 1
                        THEN Append(video, FinalPts) ELSE video
            /\ file' = "saved"
    /\ accepting' = FALSE
    /\ enc' = [enc EXCEPT !.pc = "ended", !.pcm = <<>>]
    /\ UNCHANGED <<now, stopping, settings, error, queue, dropped, audioQueue, readback, ui,
                   input, count>>
-----------------------------------------------------------------------------
Encoder == Takes \/ Opens \/ OpensNot \/ Draws \/ PassesOver \/ DrawFails
           \/ Hears \/ HearFails \/ Abandons \/ Closes
Stop    == StopRefuses \/ StopAsks \/ StopJoins

Next ==
    \/ Tick \/ Toggle \/ Stop \/ StartArms \/ StartFails
    \/ \E p \in Producers : SubmitStamps(p) \/ SubmitQueues(p)
    \/ AudioStamps \/ AudioQueues
    \/ Encoder

Spec == Init /\ [][Next]_vars

\* Threads run when they can: the encoder thread, which is woken for a request to
\* stop, and the thread that waits for it.
FairSpec == Spec /\ WF_vars(Encoder) /\ WF_vars(Stop)
-----------------------------------------------------------------------------
Frames == [pts : Nat, hw : BOOLEAN]
Blocks == [pts : Nat, at : Int]
Places == {"off", "wait", "open", "draw", "hear", "abandon", "close", "ended"}

Counts == [decoded : Nat, pushed : Nat, written : Nat, passed : Nat, starts : Nat]

\* The encoder thread's locals.  Samples are folded out of blocks: of the sound in the
\* encoder and in the file nothing is said here.
Locals(pcm) == [pc : Places, opened : BOOLEAN, resident : BOOLEAN, gpuInput : BOOLEAN,
                item : Frames \cup {None}, batch : Seq(Blocks), finish : BOOLEAN,
                first : Int, last : Int, timeline : BOOLEAN, pcm : {pcm}]

TypeOK ==
    /\ now \in 0..MaxTime /\ startedAt \in 0..now /\ mode \in Modes
    /\ {accepting, stopping, error, due} \subseteq BOOLEAN
    /\ queue \in Seq(Frames) /\ audioQueue \in Seq(Blocks)
    /\ frame \in [Producers -> Frames \cup {None}] /\ block \in Blocks \cup {None}
    /\ enc \in Locals(enc.pcm)
    /\ ui \in [pc : {"idle", "stop", "ask", "join", "arm", "closed"},
               then : {"rest", "arm", "closed"}]
    /\ video \in Seq(Int) /\ file \in {"none", "open", "saved"}
    /\ readback \in Nat /\ dropped \in Nat
    /\ count \in Counts

\* The muxer takes only increasing timestamps: those of the file are, although two
\* decoders may put their pictures into the queue in the other order, and a picture
\* stamped before a restart may come into the new recording (video_recorder.cpp:170,
\* :322).
PtsIncrease ==
    \A i \in DOMAIN video : video[i] >= 0 /\ (i > 1 => video[i - 1] < video[i])

\* A recording that ends without an error has every picture that was accepted: it is
\* in the file, or was counted as dropped, or was passed over by the encoder; in
\* particular none is accepted after the last look at the queue (video_recorder.cpp:173).
EveryPictureAccounted ==
    enc.pc \in {"off", "ended"} /\ ~error =>
        /\ count.pushed = count.written + dropped + count.passed
        /\ count.pushed > 0 => file = "saved"

\* "Explicit GPU mode must never hide a readback of GPU input" (:412): in that mode
\* nothing is fetched from the GPU's memory if the file begins with a picture that is
\* there, nor ever by an encoder that is fed from there (:566).  The condition is the
\* code's: the encoder is chosen once, for the first picture.  If that one is in plain
\* memory, an encoder of plain pictures is taken, and the later pictures of the GPU
\* are fetched in GPU mode too (:567-577), although :565 says "Download only for an
\* explicitly selected CPU path or Auto fallback".
NoHiddenReadback ==
    (mode = "gpu" /\ enc.gpuInput) \/ enc.resident => readback = 0

\* Sound is in the file at the place of its time, counted from the first picture, give
\* or take a block: "Queue PCM against the same zero point as the first video frame"
\* (:627).
SoundInSync ==
    LET track == sound \o enc.pcm
    IN  \A i \in DOMAIN track :
            track[i] # Silence =>
                track[i] - (startedAt + enc.first + i - 1) \in -BlockLen..BlockLen

\* stop() returns, and with it start(), the window's loop and the program: the encoder
\* thread always ends when it is asked to, also if there was no picture (:348-352).
StopReturns == ui.pc = "join" ~> ui.pc # "join"
-----------------------------------------------------------------------------
(* The inductive invariant behind the safety properties.                   *)

\* stop() comes to its join, and a failure or the end of the file to theirs, only
\* when nothing is accepted any more; start() finds no encoder thread.
StopFits ==
    /\ accepting => ~stopping /\ ui.pc \in {"idle", "stop"}
                    /\ enc.pc \notin {"off", "ended", "abandon"}
    /\ ui.pc = "arm" => enc.pc = "off" /\ queue = <<>>

\* Where the encoder thread is, and what it has by then.
EncoderFits ==
    /\ enc.pc = "open" => enc.item # None /\ ~enc.opened
    /\ enc.pc \in {"draw", "hear"} => enc.opened
    /\ enc.pc = "abandon" => error
    /\ enc.pc = "close" \/ enc.finish => stopping /\ queue = <<>>
    /\ enc.pc \in {"off", "ended"} /\ ~error =>
         queue = <<>> /\ (enc.opened => file = "saved")

\* An accepted picture waits, is in hand, is in the file, was dropped or passed over,
\* unless something failed; there is a file as soon as one is no longer waiting.
InHand == IF enc.item # None /\ enc.pc \in {"open", "draw"} THEN 1 ELSE 0
CountsFit ==
    ~error =>
        /\ count.pushed = count.written + dropped + count.passed + Len(queue) + InHand
        /\ ~enc.opened /\ enc.pc # "open" /\ queue = <<>> => count.pushed = 0

\* The file's last timestamp is the one the encoder thread goes on from.
LastFits ==
    enc.pc \notin {"off", "ended"} =>
        /\ enc.last >= -1
        /\ IF video = <<>> THEN enc.last = -1 ELSE video[Len(video)] = enc.last

\* Nothing is fetched before there is an encoder, and one for pictures in the GPU's
\* memory in GPU mode is fed from there.
ReadbackFits ==
    /\ ~enc.opened => readback = 0 /\ ~enc.resident /\ ~enc.gpuInput
    /\ mode = "gpu" /\ enc.gpuInput => enc.resident

IInv ==
    /\ TypeOK /\ StopFits /\ EncoderFits /\ CountsFit /\ LastFits /\ ReadbackFits
    /\ PtsIncrease /\ NoHiddenReadback
=============================================================================
