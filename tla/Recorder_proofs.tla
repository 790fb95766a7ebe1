--------------------------- MODULE Recorder_proofs ---------------------------
(***************************************************************************)
(* Proofs about Recorder, for any producers, encoders and limits, and any  *)
(* length of a recording.                                                  *)
(***************************************************************************)
EXTENDS Recorder, TLAPS

USE DEF settings, input, output

\* What the encoder thread, the producers and the window's thread rely on holds from
\* the start and after every step of each.
LEMMA Invariance == Spec => []IInv
\* The encoder thread takes a picture, opens an encoder for the first, writes it or
\* passes it over, writes sound, and ends with a file or with an error.
<1>1. IInv /\ Encoder => IInv'
  <2> SUFFICES ASSUME IInv PROVE Encoder => IInv'
    OBVIOUS
  <2>0. TypeOK /\ enc \in Locals(enc.pcm) /\ (enc.item # None => enc.item \in Frames)
    BY DEF IInv, TypeOK, Locals
  <2>1. /\ count \in Counts /\ video \in Seq(Int) /\ queue \in Seq(Frames)
        /\ dropped \in Nat /\ readback \in Nat
    BY DEF IInv, TypeOK
  <2>2. \A i \in 1..Len(video) : video[i] >= 0 /\ (i > 1 => video[i - 1] < video[i])
    <3>1. DOMAIN video = 1..Len(video)
      BY <2>1
    <3> QED
      BY <3>1 DEF IInv, PtsIncrease
  <2>3. None \notin Frames
    BY DEF None, Frames
  <2>4. ASSUME Takes PROVE IInv'
    <3>1. enc' \in Locals(enc'.pcm)
      <4>1. \E i, b, f, p : enc' = [enc EXCEPT !.item = i, !.batch = b, !.finish = f, !.pc = p]
        BY <2>4, Zenon DEF Takes
      <4>2. enc'.item \in Frames \cup {None} /\ enc'.batch \in Seq(Blocks) /\ enc'.pc \in Places
        BY <2>0, <2>4 DEF TypeOK, Takes, Places, Locals
      <4>3. enc'.finish \in BOOLEAN
        BY <2>0, <2>4 DEF Takes, Locals
      <4> QED
        BY <2>0, <4>1, <4>2, <4>3 DEF Locals
    <3>2. TypeOK'
      BY <2>0, <2>4, <3>1 DEF TypeOK, Takes
    <3>3. EncoderFits'
      <4>1. enc'.pc \in {"wait", "open", "draw", "close"} /\ enc'.opened = enc.opened
        BY <2>0, <2>4 DEF Takes, Locals
      <4>2. enc'.pc = "open" => enc'.item # None /\ ~enc'.opened
        BY <2>0, <2>3, <2>4 DEF Takes, Locals, TypeOK
      <4>3. enc'.pc = "draw" => enc'.opened
        BY <2>0, <2>4 DEF Takes, Locals
      <4>4. enc'.pc = "close" \/ enc'.finish => stopping' /\ queue' = <<>>
        BY <2>0, <2>4 DEF Takes, Locals, IInv, EncoderFits
      <4> QED
        BY <4>1, <4>2, <4>3, <4>4 DEF EncoderFits
    <3>4. CountsFit'
      <4>1. queue \in Seq(Frames) /\ enc.pc = "wait" /\ UNCHANGED <<count, dropped, error>>
        BY <2>0, <2>4 DEF TypeOK, Takes
      <4>2. CASE queue # <<>>
        <5>1. enc'.pc \in {"open", "draw"} /\ enc'.item = Head(queue) /\ enc'.opened = enc.opened
          BY <2>0, <2>4, <4>2 DEF Takes, Locals
        <5>2. queue' = Tail(queue) /\ (enc'.pc = "draw" => enc.opened)
          BY <2>0, <2>4, <4>2 DEF Takes, Locals
        <5>3. Head(queue) # None /\ Len(queue') = Len(queue) - 1
          BY <2>3, <4>1, <4>2, <5>2
        <5> QED
          BY <2>3, <2>1, <4>1, <4>2, <5>1, <5>2, <5>3 DEF IInv, CountsFit, Counts, InHand
      <4>3. CASE queue = <<>>
        <5>1. enc'.item = None /\ queue' = <<>> /\ enc'.opened = enc.opened
          BY <2>0, <2>4, <4>3 DEF Takes, Locals
        <5> QED
          BY <4>1, <4>3, <5>1 DEF IInv, CountsFit, InHand
      <4> QED
        BY <4>2, <4>3
    <3> QED
      BY <2>4, <3>2, <3>3, <3>4, SMTT(30) DEF IInv, TypeOK, Takes, Locals, Places, StopFits,
         LastFits, ReadbackFits, PtsIncrease, NoHiddenReadback
  <2>5. ASSUME Opens PROVE IInv'
    <3>1. PICK ready, e :
              /\ ready \in BOOLEAN /\ e \in Usable(enc.item.hw, ready)
              /\ enc' = [enc EXCEPT !.pc = "draw", !.opened = TRUE, !.gpuInput = enc.item.hw,
                                    !.resident = (PixelFormat(e, ready) = "d3d11")]
      BY <2>5, Zenon DEF Opens
    <3>2. enc.pc = "open" /\ enc.item \in Frames
      BY <2>0, <2>5 DEF Opens, IInv, EncoderFits
    <3>3. /\ enc' \in Locals(enc'.pcm)
          /\ enc'.pc = "draw" /\ enc'.opened /\ enc'.item = enc.item
          /\ enc'.last = enc.last /\ enc'.finish = enc.finish
      BY <2>0, <3>1, <3>2 DEF Locals, Frames, Places
    <3>4. /\ enc'.gpuInput <=> enc.item.hw
          /\ enc'.resident <=> PixelFormat(e, ready) = "d3d11"
      BY <2>0, <3>1, <3>2 DEF Locals, Frames
    <3>5. readback = 0 /\ ~enc.opened
      BY <3>2 DEF IInv, EncoderFits, ReadbackFits
    <3>6. TypeOK'
      BY <2>0, <2>5, <3>3 DEF Opens, TypeOK
    <3>7. StopFits' /\ EncoderFits' /\ LastFits' /\ PtsIncrease'
      BY <2>5, <3>2, <3>3 DEF Opens, IInv, StopFits, EncoderFits, LastFits, PtsIncrease
    <3>8. CountsFit'
      BY <2>3, <2>5, <3>2, <3>3 DEF Opens, IInv, CountsFit, InHand
    <3>9. ReadbackFits' /\ NoHiddenReadback'
      BY <2>5, <3>1, <3>3, <3>4, <3>5 DEF Opens, Usable, ReadbackFits, NoHiddenReadback
    <3> QED
      BY <3>6, <3>9, <3>7, <3>8 DEF IInv
  <2>6. ASSUME OpensNot \/ DrawFails \/ HearFails PROVE IInv'
    <3>1. /\ Fails /\ enc.pc \in {"open", "draw", "hear"}
          /\ UNCHANGED <<now, stopping, settings, queue, dropped, audioQueue, readback, ui,
                         input, output, count>>
      BY <2>6 DEF OpensNot, DrawFails, HearFails
    <3>2. /\ enc' \in Locals(enc'.pcm) /\ enc'.pc = "abandon"
          /\ enc'.opened = enc.opened /\ enc'.item = enc.item /\ enc'.finish = enc.finish
          /\ enc'.last = enc.last /\ enc'.resident = enc.resident
          /\ enc'.gpuInput = enc.gpuInput
      BY <2>0, <3>1 DEF Fails, Locals, Places
    <3>3. TypeOK'
      BY <2>0, <3>1, <3>2 DEF Fails, TypeOK
    <3> QED
      BY <3>1, <3>2, <3>3 DEF Fails, IInv, StopFits, EncoderFits, CountsFit, LastFits,
         ReadbackFits, PtsIncrease, NoHiddenReadback
  <2>7. ASSUME Draws, enc.item = None PROVE IInv'
    <3>1. /\ enc' = [enc EXCEPT !.pc = "hear"] /\ enc.pc = "draw"
          /\ UNCHANGED <<now, accepting, stopping, settings, error, queue, dropped, audioQueue,
                         readback, ui, input, output, count>>
      BY <2>7 DEF Draws
    <3>2. /\ enc' \in Locals(enc'.pcm) /\ enc'.pc = "hear" /\ enc'.last = enc.last
          /\ enc'.item = None /\ enc'.opened = enc.opened /\ enc'.finish = enc.finish
          /\ enc'.resident = enc.resident /\ enc'.gpuInput = enc.gpuInput
      BY <2>0, <2>7, <3>1 DEF Locals, Places
    <3>3. TypeOK'
      BY <2>0, <3>1, <3>2 DEF TypeOK
    <3> QED
      BY <2>7, <3>1, <3>2, <3>3 DEF IInv, StopFits, EncoderFits, CountsFit, InHand, LastFits,
         ReadbackFits, PtsIncrease, NoHiddenReadback
  <2>8. ASSUME Draws, enc.item # None PROVE IInv'
    <3> DEFINE pts == OutputPts(enc.item.pts)
    <3>1. /\ enc.pc = "draw" /\ (enc.resident => enc.item.hw)
          /\ readback' = readback + IF Download THEN 1 ELSE 0
          /\ video' = Append(video, pts)
          /\ count' = [count EXCEPT !.written = @ + 1]
          /\ enc' = [enc EXCEPT !.pc = "hear", !.first = FirstPts(enc.item.pts), !.last = pts]
          /\ UNCHANGED <<now, accepting, stopping, settings, error, queue, dropped, audioQueue,
                         ui, input, sound, file>>
      BY <2>8, Zenon DEF Draws
    <3>2. pts \in Int /\ pts > enc.last /\ FirstPts(enc.item.pts) \in Int
      BY <2>0, <2>8 DEF OutputPts, FirstPts, Most, Frames, Locals
    <3> HIDE DEF pts
    <3>3. /\ enc' \in Locals(enc'.pcm) /\ enc'.pc = "hear" /\ enc'.last = pts
          /\ enc'.item = enc.item
      BY <2>0, <3>1, <3>2 DEF Locals, Places
    <3>4. /\ enc'.opened = enc.opened /\ enc'.finish = enc.finish
          /\ enc'.resident = enc.resident /\ enc'.gpuInput = enc.gpuInput
      BY <2>0, <3>1 DEF Locals
    <3>5. /\ readback' \in Nat
          /\ readback' = readback \/ (~enc.resident /\ readback' = readback + 1)
      <4>1. readback' = readback + IF Download THEN 1 ELSE 0
        BY <3>1
      <4>2. CASE Download
        BY <2>1, <4>1, <4>2 DEF Download
      <4>3. CASE ~Download
        BY <2>1, <4>1, <4>3 DEF Download
      <4> QED
        BY <4>2, <4>3
    <3>6. /\ count' \in Counts
          /\ count'.pushed = count.pushed /\ count'.passed = count.passed
          /\ count'.written = count.written + 1
      <4>1. count' = [count EXCEPT !.written = @ + 1]
        BY <3>1
      <4> QED
        BY <2>1, <4>1 DEF Counts
    <3>7. /\ video' \in Seq(Int) /\ Len(video') = Len(video) + 1 /\ video' # <<>>
          /\ \A i \in 1..Len(video) : video'[i] = video[i]
          /\ video'[Len(video')] = pts
      <4>1. video' = Append(video, pts)
        BY <3>1
      <4> QED
        BY <2>1, <3>2, <4>1
    <3>8. TypeOK'
      BY <2>0, <3>1, <3>3, <3>5, <3>6, <3>7 DEF TypeOK
    <3>9. StopFits' /\ EncoderFits'
      BY <3>1, <3>3, <3>4 DEF IInv, StopFits, EncoderFits
    <3>10. CountsFit'
      <4>1. enc.opened /\ enc'.opened
        BY <3>1, <3>4 DEF IInv, EncoderFits
      <4>2. UNCHANGED <<error, dropped, queue>> /\ enc.pc = "draw"
        BY <3>1
      <4> QED
        BY <2>1, <2>8, <3>3, <3>6, <4>1, <4>2, SMTT(30) DEF IInv, CountsFit, InHand, Counts
    <3>11. LastFits' /\ PtsIncrease'
      <4>1. enc.last >= -1 /\ IF video = <<>> THEN enc.last = -1 ELSE video[Len(video)] = enc.last
        BY <3>1 DEF IInv, LastFits
      <4>2. PtsIncrease'
        <5> SUFFICES ASSUME NEW i \in 1..Len(video')
      PROVE  video'[i] >= 0 /\ (i > 1 => video'[i - 1] < video'[i])
          BY <3>7 DEF PtsIncrease
        <5>1. CASE i \in 1..Len(video)
          <6>1. video[i] >= 0 /\ (i > 1 => video[i - 1] < video[i])
            BY <2>2, <5>1
          <6>2. i > 1 => i - 1 \in 1..Len(video)
            BY <2>1, <5>1
          <6> QED
            BY <3>7, <5>1, <6>1, <6>2
        <5>2. CASE i = Len(video) + 1
          <6>1. /\ Len(video) \in Nat /\ enc.last \in Int
                /\ video # <<>> => Len(video) \in 1..Len(video)
                /\ video = <<>> => Len(video) = 0
            BY <2>0, <2>1 DEF Locals
          <6> QED
            BY <3>2, <3>7, <4>1, <5>2, <6>1
        <5> QED
          BY <2>0, <3>7, <5>1, <5>2 DEF TypeOK
      <4> QED
        BY <2>0, <3>2, <3>3, <3>7, <4>1, <4>2 DEF LastFits, Locals
    <3>12. ReadbackFits' /\ NoHiddenReadback'
      BY <3>1, <3>3, <3>4, <3>5 DEF IInv, ReadbackFits, NoHiddenReadback, EncoderFits
    <3> QED
      BY <3>8, <3>9, <3>10, <3>11, <3>12 DEF IInv
  <2>9. ASSUME PassesOver PROVE IInv'
    <3>1. /\ enc' \in Locals(enc'.pcm) /\ enc'.pc = "hear" /\ enc'.last = enc.last
          /\ enc'.item = enc.item /\ enc'.opened = enc.opened /\ enc'.finish = enc.finish
          /\ enc'.resident = enc.resident /\ enc'.gpuInput = enc.gpuInput
      BY <2>0, <2>9 DEF PassesOver, Locals, Places
    <3>2. readback' \in Nat /\ ~enc.resident
      BY <2>0, <2>9 DEF PassesOver, Download, TypeOK
    <3>3. /\ count' \in Counts
          /\ count'.pushed = count.pushed /\ count'.passed = count.passed + 1
          /\ count'.written = count.written
      <4>1. count \in Counts /\ count' = [count EXCEPT !.passed = @ + 1]
        BY <2>1, <2>9 DEF PassesOver
      <4> QED
        BY <4>1 DEF Counts
    <3>4. TypeOK'
      BY <2>0, <2>9, <3>1, <3>2, <3>3 DEF PassesOver, TypeOK
    <3>5. StopFits' /\ EncoderFits' /\ LastFits' /\ PtsIncrease'
      BY <2>9, <3>1 DEF PassesOver, IInv, StopFits, EncoderFits, LastFits, PtsIncrease
    <3>6. CountsFit'
      <4>1. enc.opened /\ enc'.opened /\ UNCHANGED <<error, dropped, queue>>
        BY <2>9, <3>1 DEF PassesOver, IInv, EncoderFits
      <4>2. enc.pc = "draw" /\ enc.item # None
        BY <2>9 DEF PassesOver
      <4> QED
        BY <2>1, <3>1, <3>3, <4>1, <4>2 DEF IInv, CountsFit, InHand, Counts
    <3>7. ReadbackFits' /\ NoHiddenReadback'
      BY <2>9, <3>1, <3>2 DEF PassesOver, IInv, ReadbackFits, NoHiddenReadback, EncoderFits
    <3> QED
      BY <3>4, <3>5, <3>6, <3>7 DEF IInv
  <2>10. ASSUME Hears PROVE IInv'
    <3>1. enc' \in Locals(enc'.pcm)
      <4>1. \E b, s, p : enc' = [enc EXCEPT !.pcm = s, !.batch = <<>>, !.item = None,
                                           !.timeline = b, !.pc = p]
        BY <2>10, Zenon DEF Hears
      <4>2. enc'.timeline \in BOOLEAN
        BY <2>0, <2>10 DEF Hears, Locals
      <4>3. enc'.pc \in Places
        BY <2>0, <2>10 DEF Hears, Locals, Places
      <4>4. <<>> \in Seq(Blocks) /\ None \in Frames \cup {None}
        OBVIOUS
      <4> QED
        BY <2>0, <4>1, <4>2, <4>3, <4>4 DEF Locals
    <3>2. /\ enc'.last = enc.last /\ enc'.item = None
          /\ enc'.opened = enc.opened /\ enc'.finish = enc.finish
          /\ enc'.resident = enc.resident /\ enc'.gpuInput = enc.gpuInput
          /\ enc'.pc = IF enc.finish THEN "close" ELSE "wait"
      BY <2>0, <2>10 DEF Hears, Locals
    <3>3. /\ enc.pc = "hear"
          /\ UNCHANGED <<now, accepting, stopping, settings, error, queue, dropped, audioQueue,
                         readback, ui, input, video, file, count>>
      BY <2>10 DEF Hears
    <3>4. TypeOK'
      BY <2>0, <3>1, <3>3 DEF TypeOK
    <3>5. EncoderFits'
      BY <3>2, <3>3 DEF IInv, EncoderFits
    <3> QED
      BY <3>2, <3>3, <3>4, <3>5 DEF IInv, StopFits, EncoderFits, CountsFit, InHand, LastFits,
         ReadbackFits, PtsIncrease, NoHiddenReadback
  <2>11. ASSUME Abandons PROVE IInv'
    <3>1. /\ enc' \in Locals(enc'.pcm) /\ enc'.pc = "ended" /\ enc'.opened = enc.opened
          /\ enc'.resident = enc.resident /\ enc'.gpuInput = enc.gpuInput
      BY <2>0, <2>11 DEF Abandons, Locals, Places
    <3>2. TypeOK'
      BY <2>0, <2>11, <3>1 DEF Abandons, TypeOK
    <3> QED
      BY <2>11, <3>1, <3>2 DEF Abandons, IInv, StopFits, EncoderFits, CountsFit, LastFits,
         ReadbackFits, PtsIncrease, NoHiddenReadback
  <2>12. ASSUME Closes PROVE IInv'
    <3>1. /\ enc' \in Locals(enc'.pcm) /\ enc'.pc = "ended" /\ enc'.opened = enc.opened
          /\ enc'.item = enc.item /\ enc'.finish = enc.finish
          /\ enc'.resident = enc.resident /\ enc'.gpuInput = enc.gpuInput
      BY <2>0, <2>12 DEF Closes, Locals, Places
    <3>2. video' \in Seq(Int) /\ PtsIncrease'
      <4>1. FinalPts \in Int /\ enc.last \in Int
        BY <2>0 DEF FinalPts, Most, TypeOK, Locals
      <4>2. CASE video' = video
        BY <2>0, <4>2 DEF IInv, TypeOK, PtsIncrease
      <4>3. CASE video' = Append(video, FinalPts) /\ enc.last >= 0 /\ FinalPts > enc.last + 1
        <5>1. video # <<>> => video[Len(video)] = enc.last
          BY <2>12 DEF Closes, IInv, LastFits
        <5>2. /\ video' \in Seq(Int) /\ Len(video') = Len(video) + 1
              /\ \A i \in 1..Len(video) : video'[i] = video[i]
              /\ video'[Len(video) + 1] = FinalPts
          BY <2>0, <4>1, <4>3 DEF TypeOK
        <5> SUFFICES ASSUME NEW i \in 1..Len(video')
      PROVE  video'[i] >= 0 /\ (i > 1 => video'[i - 1] < video'[i])
          BY <5>2 DEF PtsIncrease
        <5>3. CASE i \in 1..Len(video)
          <6>1. video[i] >= 0 /\ (i > 1 => video[i - 1] < video[i])
            BY <2>2, <5>3
          <6>2. i > 1 => i - 1 \in 1..Len(video)
            BY <2>1, <5>3
          <6> QED
            BY <5>2, <5>3, <6>1, <6>2
        <5>4. CASE i = Len(video) + 1
          BY <2>0, <4>1, <4>3, <5>1, <5>2, <5>4 DEF TypeOK
        <5> QED
          BY <2>0, <5>2, <5>3, <5>4 DEF TypeOK
      <4> QED
        BY <2>12, <4>2, <4>3 DEF Closes
    <3>3. TypeOK'
      BY <2>0, <2>12, <3>1, <3>2 DEF Closes, TypeOK
    <3>4. CountsFit'
      BY <2>12, <3>1 DEF Closes, IInv, CountsFit, InHand
    <3>5. StopFits' /\ EncoderFits'
      BY <2>12, <3>1 DEF Closes, IInv, StopFits, EncoderFits
    <3> QED
      BY <2>12, <3>1, <3>2, <3>3, <3>4, <3>5 DEF Closes, IInv, LastFits, ReadbackFits,
         NoHiddenReadback
  <2> QED
    BY <2>4, <2>5, <2>6, <2>7, <2>8, <2>9, <2>10, <2>11, <2>12 DEF Encoder
\* Pictures and sound are stamped and put into the queues, the window's thread stops
\* and starts a recording, and time passes.
<1>2. ASSUME IInv,
             \/ Tick \/ Toggle \/ Stop \/ StartArms \/ StartFails \/ AudioStamps \/ AudioQueues
             \/ \E p \in Producers : SubmitStamps(p) \/ SubmitQueues(p)
      PROVE  IInv'
  <2> USE <1>2
  <2> USE DEF InHand
  <2>0. /\ count \in Counts /\ queue \in Seq(Frames) /\ audioQueue \in Seq(Blocks)
        /\ enc \in Locals(enc.pcm) /\ dropped \in Nat /\ readback \in Nat
        /\ now \in Nat /\ startedAt \in 0..now
    BY RecorderAssumption DEF IInv, TypeOK
  <2>1. ASSUME Tick PROVE IInv'
    BY <2>1, RecorderAssumption DEF Tick, IInv, TypeOK, StopFits, EncoderFits, CountsFit,
       LastFits, ReadbackFits, PtsIncrease, NoHiddenReadback
  <2>2. ASSUME Toggle PROVE IInv'
    <3>1. /\ ui' \in [pc : {"idle", "stop", "ask", "join", "arm", "closed"},
                      then : {"rest", "arm", "closed"}]
          /\ ui'.pc = "stop" /\ ui.pc = "idle"
      BY <2>2 DEF Toggle
    <3> QED
      BY <2>2, <3>1 DEF Toggle, IInv, TypeOK, StopFits, EncoderFits, CountsFit, LastFits,
         ReadbackFits, PtsIncrease, NoHiddenReadback
  <2>3. ASSUME StopRefuses PROVE IInv'
    BY <2>3 DEF StopRefuses, IInv, TypeOK, StopFits, EncoderFits, CountsFit, LastFits,
       ReadbackFits, PtsIncrease, NoHiddenReadback
  <2>4. ASSUME StopAsks PROVE IInv'
    BY <2>4 DEF StopAsks, IInv, TypeOK, StopFits, EncoderFits, CountsFit, LastFits,
       ReadbackFits, PtsIncrease, NoHiddenReadback
  <2>5. ASSUME StopJoins PROVE IInv'
    <3>1. /\ enc' \in Locals(enc'.pcm) /\ enc'.pc = "off" /\ enc'.opened = enc.opened
          /\ enc'.finish = enc.finish
          /\ enc'.resident = enc.resident /\ enc'.gpuInput = enc.gpuInput
      BY <2>0, <2>5 DEF StopJoins, Locals, Places
    <3>2. TypeOK'
      BY <2>0, <2>5, <3>1 DEF StopJoins, IInv, TypeOK
    <3>3. CountsFit' /\ EncoderFits'
      BY <2>0, <2>5, <3>1 DEF StopJoins, IInv, CountsFit, EncoderFits
    <3> QED
      BY <2>5, <3>1, <3>2, <3>3 DEF StopJoins, IInv, StopFits, LastFits, ReadbackFits,
         PtsIncrease, NoHiddenReadback
  <2>6. ASSUME StartArms PROVE IInv'
    <3>1. /\ enc' \in Locals(enc'.pcm) /\ enc'.pc = "wait" /\ ~enc'.opened /\ ~enc'.finish
          /\ enc'.item = None /\ enc'.last = -1 /\ ~enc'.resident /\ ~enc'.gpuInput
      <4>1. enc' = Fresh
        BY <2>6 DEF StartArms
      <4> QED
        BY <4>1 DEF Fresh, Locals, Places
    <3>2. /\ count' \in Counts
          /\ count'.pushed = 0 /\ count'.written = 0 /\ count'.passed = 0
      <4>1. /\ count \in Counts
            /\ count' = [count EXCEPT !.pushed = 0, !.written = 0, !.passed = 0,
                                      !.starts = @ + 1]
        BY <2>0, <2>6 DEF StartArms
      <4>2. count' \in Counts
        <5> DEFINE c == [count EXCEPT !.pushed = 0, !.written = 0, !.passed = 0]
        <5>1. c \in Counts
          <6>1. [count EXCEPT !.pushed = 0, !.written = 0] \in Counts
            BY <4>1 DEF Counts
          <6> QED
            BY <6>1 DEF Counts
        <5>2. count' = [c EXCEPT !.starts = @ + 1]
          BY <4>1 DEF Counts
        <5> HIDE DEF c
        <5> QED
          BY <5>1, <5>2 DEF Counts
      <4> QED
        BY <4>1, <4>2 DEF Counts
    <3>3. TypeOK'
      <4>1. now' \in 0..MaxTime /\ startedAt' \in 0..now' /\ mode' \in Modes
        BY <2>0, <2>6 DEF StartArms, IInv, TypeOK
      <4>2. {accepting, stopping, error, due}' \subseteq BOOLEAN
        BY <2>6 DEF StartArms, IInv, TypeOK
      <4>3. queue' \in Seq(Frames) /\ audioQueue' \in Seq(Blocks) /\ video' \in Seq(Int)
        BY <2>0, <2>6 DEF StartArms
      <4> QED
        BY <2>6, <3>1, <3>2, <4>1, <4>2, <4>3 DEF StartArms, IInv, TypeOK
    <3>4. CountsFit'
      BY <2>0, <2>6, <3>1, <3>2 DEF StartArms, IInv, StopFits, CountsFit
    <3> QED
      BY <2>6, <3>1, <3>3, <3>4 DEF StartArms, IInv, StopFits, EncoderFits, LastFits,
         ReadbackFits, PtsIncrease, NoHiddenReadback
  <2>7. ASSUME StartFails PROVE IInv'
    <3>1. count' \in Counts
      <4>1. count \in Counts /\ count' = [count EXCEPT !.starts = @ + 1]
        BY <2>0, <2>7 DEF StartFails
      <4> QED
        BY <4>1 DEF Counts
    <3> QED
      BY <2>7, <3>1 DEF StartFails, IInv, TypeOK, StopFits, EncoderFits, CountsFit, LastFits,
         ReadbackFits, PtsIncrease, NoHiddenReadback
  <2>8. ASSUME AudioStamps PROVE IInv'
    <3>1. block' \in Blocks \cup {None}
      <4>1. BlockPts \in Nat /\ now - BlockLen \in Int
        BY <2>0, RecorderAssumption DEF BlockPts, Most
      <4> QED
        BY <2>8, <4>1 DEF AudioStamps, Blocks
    <3>2. TypeOK'
      BY <2>8, <3>1 DEF AudioStamps, IInv, TypeOK
    <3> QED
      BY <2>8, <3>2 DEF AudioStamps, IInv, StopFits, EncoderFits, CountsFit, LastFits,
         ReadbackFits, PtsIncrease, NoHiddenReadback
  <2>9. ASSUME AudioQueues PROVE IInv'
    <3>1. audioQueue' \in Seq(Blocks)
      <4> DEFINE room == Most(0, AudioLimit \div BlockLen - 1)
                 first == 1 + Most(0, Len(audioQueue) - room)
                 kept == SubSeq(audioQueue, first, Len(audioQueue))
      <4>1. AudioLimit \div BlockLen \in Int
        BY RecorderAssumption
      <4>2. first \in Nat \ {0}
        BY <2>0, <4>1 DEF Most
      <4>3. kept \in Seq(Blocks)
        <5> HIDE DEF first
        <5> QED
          BY <2>0, <4>2
      <4>4. block \in Blocks
        BY <2>9 DEF AudioQueues, IInv, TypeOK
      <4>5. audioQueue' = IF accepting THEN Append(kept, block) ELSE audioQueue
        BY <2>9 DEF AudioQueues
      <4> HIDE DEF kept
      <4> QED
        BY <2>0, <4>3, <4>4, <4>5
    <3> QED
      BY <2>9, <3>1 DEF AudioQueues, IInv, TypeOK, StopFits, EncoderFits, CountsFit, LastFits,
         ReadbackFits, PtsIncrease, NoHiddenReadback
  <2>10. ASSUME NEW p \in Producers, SubmitStamps(p) PROVE IInv'
    <3>1. frame' \in [Producers -> Frames \cup {None}]
      <4>1. PICK hw \in Surfaces :
                frame' = [frame EXCEPT ![p] = [pts |-> Most(0, now - startedAt), hw |-> hw]]
        BY <2>10 DEF SubmitStamps
      <4>2. [pts |-> Most(0, now - startedAt), hw |-> hw] \in Frames
        BY <2>0, RecorderAssumption DEF Most, Frames
      <4> QED
        BY <4>1, <4>2 DEF IInv, TypeOK
    <3>2. /\ count' \in Counts /\ count'.pushed = count.pushed /\ count'.passed = count.passed
          /\ count'.written = count.written
      <4>1. count \in Counts /\ count' = [count EXCEPT !.decoded = @ + 1]
        BY <2>0, <2>10 DEF SubmitStamps
      <4> QED
        BY <4>1 DEF Counts
    <3>3. UNCHANGED <<now, accepting, stopping, settings, error, queue, dropped, audioQueue,
                      readback, enc, ui, block, due, output>>
      BY <2>10 DEF SubmitStamps
    <3> QED
      BY <3>1, <3>2, <3>3 DEF IInv, TypeOK, StopFits, EncoderFits, CountsFit, LastFits,
         ReadbackFits, PtsIncrease, NoHiddenReadback
  <2>11. ASSUME NEW p \in Producers, SubmitQueues(p) PROVE IInv'
    <3>1. /\ frame[p] # None /\ frame' = [frame EXCEPT ![p] = None]
          /\ UNCHANGED <<now, accepting, stopping, settings, error, audioQueue, readback, enc,
                         ui, block, due, output>>
      BY <2>11 DEF SubmitQueues
    <3>2. frame' \in [Producers -> Frames \cup {None}] /\ frame[p] \in Frames
      BY <3>1 DEF IInv, TypeOK
    <3>3. CASE UNCHANGED <<queue, dropped, count>>
      BY <3>1, <3>2, <3>3 DEF IInv, TypeOK, StopFits, EncoderFits, CountsFit, LastFits,
         ReadbackFits, PtsIncrease, NoHiddenReadback
    <3>4. CASE accepting /\ Puts(frame[p])
      <4>1. /\ queue' \in Seq(Frames) /\ queue' # <<>> /\ dropped' \in Nat
            /\ Len(queue') + dropped' = Len(queue) + dropped + 1
        <5> DEFINE full == Len(queue) >= QueueLimit(frame[p])
        <5>1. QueueLimit(frame[p]) \in Nat \ {0}
          BY RecorderAssumption DEF QueueLimit
        <5>2. /\ queue' = Append(IF full THEN Tail(queue) ELSE queue, frame[p])
              /\ dropped' = dropped + IF full THEN 1 ELSE 0
          BY <3>4 DEF Puts
        <5>3. CASE full
          <6>1. queue # <<>> /\ Tail(queue) \in Seq(Frames) /\ Len(Tail(queue)) = Len(queue) - 1
            BY <2>0, <5>1, <5>3
          <6>2. queue' = Append(Tail(queue), frame[p]) /\ dropped' = dropped + 1
            BY <5>2, <5>3
          <6> QED
            BY <2>0, <3>2, <6>1, <6>2
        <5>4. CASE ~full
          <6>1. queue' = Append(queue, frame[p]) /\ dropped' = dropped
            <7>1. queue' = Append(queue, frame[p]) /\ dropped' = dropped + 0
              BY <5>2, <5>4, Zenon
            <7> QED
              BY <2>0, <7>1
          <6> QED
            BY <2>0, <3>2, <6>1
        <5> QED
          BY <5>3, <5>4
      <4>2. /\ count' \in Counts /\ count'.pushed = count.pushed + 1
            /\ count'.passed = count.passed /\ count'.written = count.written
        <5>1. count \in Counts /\ count' = [count EXCEPT !.pushed = @ + 1]
          BY <2>0, <3>4 DEF Puts
        <5> QED
          BY <5>1 DEF Counts
      <4>3. TypeOK'
        BY <3>1, <3>2, <4>1, <4>2 DEF IInv, TypeOK
      <4>4. CountsFit'
        <5>1. count \in Counts /\ Len(queue) \in Nat /\ Len(queue') \in Nat /\ dropped \in Nat
          BY <2>0, <4>1
        <5>2. CountsFit /\ UNCHANGED <<error, enc>> /\ InHand' = InHand /\ InHand \in {0, 1}
          BY <3>1 DEF IInv
        <5>3. ASSUME ~error
              PROVE  count'.pushed = count'.written + dropped' + count'.passed + Len(queue')
                                       + InHand
          <6>1. PICK n \in Nat, w \in Nat, d \in Nat, o \in Nat, l \in Nat, i \in Nat :
                    /\ n = count.pushed /\ w = count.written /\ d = dropped
                    /\ o = count.passed /\ l = Len(queue) /\ i = InHand
            BY <5>1, <5>2 DEF Counts
          <6>2. PICK d1 \in Nat, l1 \in Nat : d1 = dropped' /\ l1 = Len(queue')
            BY <4>1, <5>1
          <6>3. n = w + d + o + l + i
            BY <5>2, <5>3, <6>1 DEF CountsFit
          <6>4. l1 + d1 = l + d + 1
            BY <4>1, <6>1, <6>2
          <6>5. n + 1 = w + d1 + o + l1 + i
            BY <6>3, <6>4
          <6> QED
            BY <4>2, <6>1, <6>2, <6>5
        <5> QED
          BY <4>1, <5>2, <5>3 DEF CountsFit
      <4>5. StopFits' /\ EncoderFits'
        BY <3>1, <3>4, <4>1 DEF IInv, StopFits, EncoderFits
      <4> QED
        BY <3>1, <4>3, <4>4, <4>5 DEF IInv, LastFits, ReadbackFits, PtsIncrease,
           NoHiddenReadback
    <3> QED
      BY <2>11, <3>3, <3>4 DEF SubmitQueues
  <2> QED
    BY <2>1, <2>2, <2>3, <2>4, <2>5, <2>6, <2>7, <2>8, <2>9, <2>10, <2>11 DEF Stop
<1>3. Init => IInv
  <2> SUFFICES ASSUME Init PROVE IInv
    OBVIOUS
  <2>1. /\ enc \in Locals(enc.pcm) /\ enc.pc = "off" /\ ~enc.opened /\ ~enc.finish
        /\ enc.item = None /\ ~enc.resident /\ ~enc.gpuInput
    <3>1. enc = [Fresh EXCEPT !.pc = "off"]
      BY DEF Init
    <3>2. /\ Fresh \in Locals(Fresh.pcm) /\ ~Fresh.opened /\ ~Fresh.finish
          /\ Fresh.item = None /\ ~Fresh.resident /\ ~Fresh.gpuInput
      BY DEF Fresh, Locals, Places
    <3> QED
      BY <3>1, <3>2 DEF Locals, Places
  <2>2. /\ count \in Counts /\ count.pushed = 0 /\ count.written = 0 /\ count.passed = 0
    BY DEF Init, Counts
  <2>3. TypeOK
    <3>1. now \in 0..MaxTime /\ startedAt \in 0..now /\ mode \in Modes
      BY RecorderAssumption DEF Init
    <3>2. {accepting, stopping, error, due} \subseteq BOOLEAN
      BY DEF Init
    <3>3. queue \in Seq(Frames) /\ audioQueue \in Seq(Blocks) /\ video \in Seq(Int)
      BY DEF Init
    <3>4. frame \in [Producers -> Frames \cup {None}] /\ block \in Blocks \cup {None}
      BY DEF Init
    <3> QED
      BY <2>1, <2>2, <3>1, <3>2, <3>3, <3>4 DEF Init, TypeOK
  <2>4. CountsFit
    BY <2>1, <2>2 DEF Init, CountsFit, InHand
  <2> QED
    BY <2>1, <2>3, <2>4 DEF Init, IInv, StopFits, EncoderFits, LastFits, ReadbackFits,
       PtsIncrease, NoHiddenReadback
<1>4. IInv /\ [Next]_vars => IInv'
  <2>1. ASSUME IInv, UNCHANGED vars PROVE IInv'
    BY <2>1 DEF vars, IInv, TypeOK, StopFits, EncoderFits, CountsFit, InHand, LastFits,
       ReadbackFits, PtsIncrease, NoHiddenReadback
  <2> QED
    BY <2>1, <1>1, <1>2 DEF Next
<1> QED
  BY <1>3, <1>4, PTL DEF Spec

\* write_video() and close_file() give the muxer increasing timestamps only: each goes
\* on from the last, whatever order the pictures and restarts came in.
THEOREM TimestampsIncrease == Spec => []PtsIncrease
<1>1. IInv => PtsIncrease
  BY DEF IInv
<1> QED
  BY <1>1, Invariance, PTL

\* submit() looks at accepting_ under the lock, and stop() asks under the same lock:
\* when the encoder thread has ended without an error, every picture accepted is in
\* the file, was dropped from a full queue or passed over.
THEOREM PicturesAccounted == Spec => []EveryPictureAccounted
<1>1. IInv => EveryPictureAccounted
  <2> SUFFICES ASSUME IInv, enc.pc \in {"off", "ended"}, ~error
               PROVE  /\ count.pushed = count.written + dropped + count.passed
                      /\ count.pushed > 0 => file = "saved"
    BY DEF EveryPictureAccounted
  <2>1. queue = <<>> /\ InHand = 0 /\ (enc.opened => file = "saved")
    BY DEF IInv, EncoderFits, InHand
  <2>2. count \in Counts /\ dropped \in Nat
    BY DEF IInv, TypeOK
  <2> QED
    BY <2>1, <2>2 DEF IInv, CountsFit, Counts
<1> QED
  BY <1>1, Invariance, PTL

\* For a first picture in the GPU's memory, GPU mode takes only an encoder that is fed
\* from there, and nothing is fetched for such a one (of a file that begins with a
\* picture in plain memory nothing is said).
THEOREM NothingFetched == Spec => []NoHiddenReadback
<1>1. IInv => NoHiddenReadback
  BY DEF IInv
<1> QED
  BY <1>1, Invariance, PTL
=============================================================================
