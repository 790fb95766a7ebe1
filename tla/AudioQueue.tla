----------------------------- MODULE AudioQueue -----------------------------
(***************************************************************************)
(* The PCM queue of src/audio/audio_receiver.cpp: the receive thread puts  *)
(* decoded packets in, the play-out thread takes them out, and the control *)
(* thread flushes, pauses, resumes, changes the mode and replaces the      *)
(* receiver (StreamSession::stop_stream and setup_stream).  All three work *)
(* under pcm_mutex_, so an action is a critical section.                   *)
(*                                                                         *)
(* A block is [rtp, len, src]: its RTP timestamp, its length in stereo     *)
(* frames, and which frame of the sender's music it begins with, which the *)
(* program does not know.  Timestamps are taken modulo RtpMod, 2^32 in the *)
(* program.  When a block is due is left open: the play-out thread may     *)
(* play it, wait, or (synchronised) drop it as late.                       *)
(*                                                                         *)
(* A packet whose first copies are lost or held up may come when later     *)
(* ones have been put in.  No copy of it has been seen, so it is decoded,  *)
(* and goes in at the back: nothing sorts the queue.                       *)
(***************************************************************************)
EXTENDS Integers, Sequences, FiniteSets, SequencesExt

CONSTANTS RtpMod,   \* number of RTP timestamps
          Limit,    \* frames in five seconds
          PktLen,   \* frames in a packet
          Pauses,   \* lengths of pauses that are restored, in frames
          Jitter,   \* by how much the sender's pause may differ from ours
          Leads,    \* how far a FLUSH's boundary is from the next timestamp
          Epochs,   \* timestamps a stream may begin with
          MaxSrc,   \* bound: frames of music sent
          MaxHeldUp,\* bound: packets that are held up at a time
          MaxOps    \* bound: operations of the control thread

ASSUME AudioAssumption ==
    /\ RtpMod \in Nat \ {0} /\ RtpMod % 2 = 0
    /\ PktLen \in Nat \ {0} /\ Limit \in Nat /\ PktLen <= Limit
    /\ Pauses \subseteq 1..RtpMod
    /\ Jitter \subseteq Int /\ Leads \subseteq Int
    /\ Epochs \subseteq 0..RtpMod - 1
    /\ MaxSrc \in Nat /\ MaxHeldUp \in Nat /\ MaxOps \in Nat

VARIABLES pcm,       \* pcm_queue_
          queued,    \* queued_samples_, in frames
          boundary,  \* flush_boundary_, or None
          paused,    \* paused_pcm_
          imported,  \* imported_pause_
          sync,      \* synchronize_
          clear,     \* clear_output_
          sink,      \* SDL's queue: sound from before the last FLUSH, or after
          sent,      \* frames of music sent so far
          ahead,     \* timestamp of a frame of music minus its number
          heldUp,    \* packets that are held up, as they will be decoded
          mixed,     \* one of them has gone into the queue, or the saved tail,
                     \*   since both were last empty
          ops        \* operations of the control thread so far

queue == <<pcm, queued, boundary, paused, imported>>
out   == <<clear, sink>>
net   == <<sent, ahead, heldUp>>
queueVars  == <<queue, out, net, mixed, sync, ops>>

None  == -1
Rtp   == 0..RtpMod - 1
Wrap(x) == x % RtpMod
Block(r, n, s) == [rtp |-> Wrap(r), len |-> n, src |-> s]
End(b) == Wrap(b.rtp + b.len)
Least(m, n) == IF m < n THEN m ELSE n

\* trim_before(): drops what is strictly before the boundary.  A difference of
\* more than half of the timestamps is a boundary that has expired.  A name with
\* a suffix after _ is a mutated form of the definition that follows it.
Excess_NoWrap(b, r) == IF r > b.rtp THEN Least(r - b.rtp, b.len) ELSE 0
Excess(b, r) ==
    LET difference == Wrap(r - b.rtp)
    IN  IF difference >= RtpMod \div 2 THEN 0 ELSE Least(difference, b.len)
TrimBefore(b, r) ==
    LET n == Excess(b, r) IN Block(b.rtp + n, b.len - n, b.src + n)

\* The blocks that are not empty, in their order.
Filled(q) ==
    LET kept == {i \in DOMAIN q : q[i].len > 0} IN
    [k \in 1..Cardinality(kept) |->
        q[CHOOSE i \in kept : Cardinality({j \in kept : j <= i}) = k]]

\* The loops of flush() and resume() over the queue.
TrimQueue(q, r) == Filled([i \in DOMAIN q |-> TrimBefore(q[i], r)])

\* How many frames a queue has: a frame is a block and a number in it.
FramesOf(q) == UNION {{i} \X (1..q[i].len) : i \in DOMAIN q}
Frames(q) == Cardinality(FramesOf(q))
Shifted(q, n) == [i \in DOMAIN q |-> [q[i] EXCEPT !.rtp = Wrap(@ + n)]]

QueueInit ==
    /\ pcm = <<>> /\ queued = 0 /\ boundary = None
    /\ paused = <<>> /\ imported = FALSE
    /\ sync \in BOOLEAN
    /\ clear = FALSE /\ sink = {}
    /\ sent = 0 /\ ahead \in Epochs /\ heldUp = {} /\ mixed = FALSE /\ ops = 0

-----------------------------------------------------------------------------
(* The receive thread                                                      *)

\* "Bound decoded PCM to five seconds": how many blocks the loop takes off the
\* front before a block of n frames goes in.
Surplus(q, m, n) ==
    Cardinality({k \in 1..Len(q) :
        \A j \in 0..k - 1 : m - Frames(SubSeq(q, 1, j)) + n > Limit})

\* A block that comes after the FLUSH of a pause: what lies between the saved
\* tail and the boundary is saved too.
Drained(b) ==
    LET d == TrimBefore(b, End(Last(paused)))
        remaining == Wrap(boundary - d.rtp)
    IN  IF /\ d.rtp = End(Last(paused)) /\ remaining <= Limit
           /\ d.len > 0 /\ remaining > 0
        THEN Append(paused, [d EXCEPT !.len = Least(d.len, remaining)])
        ELSE paused

\* The new block's timestamp is where the tail saved from the previous receiver
\* ends.  `late`: the two minutes are over.
Imports(b, late) ==
    IF late \/ paused = <<>> THEN <<>>
    ELSE Shifted(paused, b.rtp - End(Last(paused)))

Counted_Tail(tail, b) == b.len
Counted(tail, b) == Frames(tail) + b.len

Enqueues(b, late) ==
    LET k    == Surplus(pcm, queued, b.len)
        kept == SubSeq(pcm, k + 1, Len(pcm))
        tail == IF imported THEN Imports(b, late) ELSE <<>>
        live == IF boundary # None THEN TrimBefore(b, boundary) ELSE b
        new  == IF live.len > 0 THEN <<live>> ELSE <<>>
    IN  /\ pcm' = kept \o tail \o new
        /\ queued' = queued - Frames(SubSeq(pcm, 1, k)) + Counted(tail, live)
        /\ boundary' = IF new # <<>> THEN None ELSE boundary
        /\ paused' = IF imported THEN <<>>
                     ELSE IF boundary # None /\ paused # <<>> THEN Drained(b)
                     ELSE paused
        /\ imported' = FALSE

\* The sender's next packet, as it will be decoded.
Packet == Block(sent + ahead, PktLen, sent)
SendsNext == sent < MaxSrc /\ sent' = sent + PktLen

\* All copies of it are lost, or one is received, decoded and put in.
Lost ==
    /\ SendsNext
    /\ UNCHANGED <<queue, out, ahead, heldUp, sync, ops>>

Received ==
    /\ SendsNext
    /\ \E late \in BOOLEAN : Enqueues(Packet, late)
    /\ UNCHANGED <<out, ahead, heldUp, sync, ops>>

\* All copies of it that have come so far are lost; and one comes after all.
FallsBehind ==
    /\ SendsNext /\ Cardinality(heldUp) < MaxHeldUp
    /\ heldUp' = heldUp \cup {Packet}
    /\ UNCHANGED <<queue, out, ahead, sync, ops>>

CatchesUp ==
    /\ \E b \in heldUp, late \in BOOLEAN :
          Enqueues(b, late) /\ heldUp' = heldUp \ {b}
    /\ UNCHANGED <<out, sent, ahead, sync, ops>>

-----------------------------------------------------------------------------
(* The play-out thread.  It looks at clear_output_ in the critical section *)
(* in which it pushes.                                                     *)

ClearsSink ==
    /\ clear
    /\ sink' = {} /\ clear' = FALSE
    /\ UNCHANGED <<queue, net, sync, ops>>

Takes ==
    /\ pcm # <<>>
    /\ queued' = queued - Head(pcm).len
    /\ pcm' = Tail(pcm)
    /\ UNCHANGED <<boundary, paused, imported, net, sync, ops>>

MayPlay_Unchecked == TRUE
MayPlay == ~clear

Plays ==
    /\ MayPlay /\ Takes
    /\ sink' = sink \cup {"new"}
    /\ UNCHANGED clear

DropsLate ==
    /\ MayPlay /\ sync /\ Takes
    /\ UNCHANGED out

-----------------------------------------------------------------------------
(* The control thread                                                      *)

Operates == ops < MaxOps /\ ops' = ops + 1

ClearsOutput ==
    /\ clear' = TRUE
    /\ sink' = IF sink = {} THEN {} ELSE {"old"}

\* flush() without a boundary.
FlushesAll ==
    /\ pcm' = <<>> /\ queued' = 0 /\ boundary' = None
    /\ imported' = FALSE /\ paused' = <<>>
    /\ ClearsOutput

FlushAll ==
    /\ Operates /\ FlushesAll
    /\ UNCHANGED <<net, sync>>

\* flush(boundary): what is queued is saved for a resume, except while a tail
\* from the previous receiver still waits for its first packet.
Saved(q) == IF sync THEN q ELSE <<>>

FlushTo(r) ==
    /\ Operates
    /\ IF imported THEN UNCHANGED paused ELSE paused' = Saved(pcm)
    /\ boundary' = r
    /\ pcm' = TrimQueue(pcm, r)
    /\ queued' = queued - (Frames(pcm) - Frames(TrimQueue(pcm, r)))
    /\ ClearsOutput
    /\ UNCHANGED <<imported, net, sync>>

\* resume() after a pause that is too short, too long, or of a mirror's audio.
ResumeDiscards ==
    /\ Operates /\ ~imported /\ paused # <<>>
    /\ paused' = <<>>
    /\ UNCHANGED <<pcm, queued, boundary, imported, out, net, sync>>

\* resume() after a pause of n frames: the saved tail goes in front of what has
\* come since, n later, and what would overlap it is dropped.  The sender's
\* timestamps have gone on, too.
Overlaps_Kept(q, r) == q
Overlaps(q, r) == TrimQueue(q, r)

Resume(n) ==
    LET tail == Shifted(paused, n)
        end  == End(Last(tail))
    IN  /\ Operates /\ ~imported /\ paused # <<>> /\ sync
        /\ pcm' = tail \o Overlaps(pcm, end)
        /\ queued' = Frames(pcm')
        /\ boundary' = end
        /\ paused' = <<>>
        /\ \E j \in Jitter : ahead' = Wrap(ahead + n + j)
        /\ UNCHANGED <<imported, out, sent, heldUp, sync>>

\* The track has changed.
DiscardPause ==
    /\ Operates
    /\ paused' = <<>> /\ imported' = FALSE
    /\ UNCHANGED <<pcm, queued, boundary, out, net, sync>>

\* A mirror stream comes or goes.
SetSynchronized ==
    /\ Operates
    /\ sync' = ~sync
    /\ FlushesAll
    /\ UNCHANGED net

\* TEARDOWN of the audio stream, and SETUP of another one, whose timestamps have
\* nothing to do with those of the first, and with a socket of its own.  A mirror
\* may have come or gone.
Recreate(r, synchronize) ==
    /\ Operates
    /\ pcm' = <<>> /\ queued' = 0 /\ boundary' = None
    /\ paused' = IF synchronize THEN Saved(paused) ELSE <<>>
    /\ imported' = (paused' # <<>>)
    /\ clear' = FALSE /\ sink' = {}
    /\ ahead' = Wrap(r - sent) /\ heldUp' = {}
    /\ sync' = synchronize
    /\ UNCHANGED sent

-----------------------------------------------------------------------------
QueueControl ==
    \/ FlushAll \/ (\E d \in Leads : FlushTo(Wrap(sent + ahead + d)))
    \/ ResumeDiscards \/ (\E n \in Pauses : Resume(n))
    \/ DiscardPause \/ SetSynchronized
    \/ (\E r \in Epochs, y \in BOOLEAN : Recreate(r, y))

Holds == pcm # <<>> \/ paused # <<>>

QueueNext ==
    \/ /\ \/ Lost \/ Received \/ FallsBehind
          \/ ClearsSink \/ Plays \/ DropsLate
          \/ QueueControl
       /\ mixed' = (mixed /\ Holds')
    \/ CatchesUp /\ mixed' = Holds'

QueueSpec == QueueInit /\ [][QueueNext]_queueVars

-----------------------------------------------------------------------------
(* Properties.                                                             *)

Blocks == [rtp : Rtp, len : 1..PktLen, src : Nat]

QueueTypeOK ==
    /\ pcm \in Seq(Blocks) /\ paused \in Seq(Blocks)
    /\ queued \in Nat
    /\ boundary \in Rtp \cup {None}
    /\ imported \in BOOLEAN /\ sync \in BOOLEAN /\ clear \in BOOLEAN
    /\ sink \subseteq {"old", "new"}
    /\ sent \in Nat /\ ahead \in Rtp /\ heldUp \subseteq Blocks /\ mixed \in BOOLEAN
    /\ ops \in 0..MaxOps

\* queued_samples_ is kept by hand at eight places (three ways in, four ways out,
\* resume) and the five-second bound relies on it: it is what the queue holds.
CounterIsSum == queued = Frames(pcm)

\* The queue is played from the front with nothing put in order: whatever is
\* lost, flushed, saved, shifted and spliced, no block begins before the one in
\* front of it has ended, across a wrap of the timestamps too.  The sender's own
\* clock must not have stood still in a pause (Jitter).  One packet that comes
\* late spoils the order (audio_receiver.cpp:522), and by the saved tail that of
\* what is spliced on it, until all of it is played or discarded.
InOrder(q) ==
    \A i \in 1..Len(q) - 1 : Wrap(q[i + 1].rtp - End(q[i])) < RtpMod \div 2
QueueInOrder == mixed \/ (InOrder(pcm) /\ InOrder(paused))

\* "The saved tail precedes newly transmitted audio.  Suppress any overlap"
\* (audio_receiver.cpp:178): in the queue, music is neither repeated nor out of
\* order, although all that resume() and the import see are timestamps.  This too
\* only while no packet that came late is in it.
MusicInOrder ==
    \/ mixed
    \/ \A q \in {pcm, paused} : \A i \in 1..Len(q) - 1 :
        q[i + 1].src >= q[i].src + q[i].len

\* "After FLUSH is observed no already-dequeued PCM can be reinserted into SDL"
\* (audio_receiver.cpp:627-628): the device never has sound from before a FLUSH
\* in front of sound from after it.
SinkIsOfOneFlush == sink # {"old", "new"}
=============================================================================
