------------------------------- MODULE Mirror -------------------------------
(***************************************************************************)
(* The mirror stream of one session: setup_stream(110) of                  *)
(* src/airplay/streams.cpp makes a MirrorListener with its decryption and  *)
(* its decoder, the phone connects and sends frames, and reader_loop() of  *)
(* src/airplay/mirror_listener.cpp decrypts, parses and decodes them       *)
(* (src/crypto/mirror_decrypt.cpp, src/airplay/h264_nal.cpp,               *)
(* src/video/h264_decoder.cpp) and hands the pictures to the renderer.     *)
(*                                                                         *)
(* The cipher is a running one: position n of the keystream deciphers what *)
(* the phone enciphered at n, and a frame takes one position.  A config is *)
(* known by the number of the frame it came in; 0 is no config.  The phone *)
(* and libavcodec are external.                                            *)
(***************************************************************************)
EXTENDS Naturals, Sequences, FiniteSets

CONSTANTS Codecs,     \* what the phone may encode with
          Faults,     \* may fail: "key", "find", "alloc", "gpu", "open"; may come: "malformed"
          MaxFrames,  \* bound: frames the phone sends
          MaxWire,    \* bound: frames on the way
          MaxConns,   \* bound: connections
          MaxSetups   \* bound: SETUP of the mirror stream

ASSUME MirrorAssumption ==
    /\ "h264" \in Codecs /\ Codecs \subseteq {"h264", "hevc"}
    /\ Faults \subseteq {"key", "find", "alloc", "gpu", "open", "malformed"}
    /\ MaxFrames \in Nat /\ MaxWire \in Nat /\ MaxConns \in Nat /\ MaxSetups \in Nat

VARIABLES phone,    \* the phone's side of the stream
          wire,     \* frames it sent that are not read yet
          conn,     \* the connection: "none", "open", "closed"
          keyed,    \* decrypt_ is set
          rx,       \* position of its keystream
          dec,      \* decoder_
          shown,    \* the last picture handed to the renderer
          lost,     \* encrypted frames since the last SETUP that a connection lost or
                    \* that were too short to be deciphered
          broken,   \* configs refused, and those whose first picture was not decoded
          failed,   \* codecs an open of which has failed since the last SETUP
          count     \* frames sent, connections, SETUPs

ghosts == <<lost, broken, failed>>
vars   == <<phone, wire, conn, keyed, rx, dec, shown, ghosts, count>>

None == [none |-> TRUE]

\* The phone before its first frame: its codec, its last config, its position in
\* the keystream, and whether a picture that needs no other must come next.
Silent == [codec |-> "h264", config |-> 0, tx |-> 0, idr |-> TRUE]

\* Impl: ctx is "null", "closed" (allocated, not open) or what it is open for, `id`
\* is codec_id, `want` hwaccel_requested, `gpu` the backend, `sets` the cached
\* parameter sets and their codec, `active` those libavcodec has seen in the stream.
NewImpl(want) == [ctx |-> "null", id |-> "h264", want |-> want, gpu |-> FALSE,
                  sets |-> 0, of |-> "h264", active |-> 0]

Init ==
    /\ phone = Silent /\ wire = <<>> /\ conn = "none"
    /\ keyed = FALSE /\ rx = 0 /\ dec = None /\ shown = None
    /\ lost = 0 /\ broken = {} /\ failed = {}
    /\ count = [frames |-> 0, conns |-> 0, setups |-> 0]
-----------------------------------------------------------------------------
(* The decoder.                                                            *)

\* Impl::open(): [ok, impl].  codec_id changes before the context is open, and a
\* decoder that does not open on the GPU is tried in software.
OpensSoftware(d) ==
    {[ok |-> TRUE, impl |-> [d EXCEPT !.ctx = d.id, !.gpu = FALSE]]}
    \cup (IF "alloc" \in Faults THEN {[ok |-> FALSE, impl |-> [d EXCEPT !.ctx = "null"]]} ELSE {})
    \cup (IF "open" \in Faults
          THEN {[ok |-> FALSE, impl |-> [d EXCEPT !.ctx = "closed"]]} ELSE {})

Opens(d, c) ==
    LET fresh == [d EXCEPT !.id = c, !.active = 0]
    IN  (IF "find" \in Faults THEN {[ok |-> FALSE, impl |-> d]} ELSE {})
        \cup (IF d.want THEN {[ok |-> TRUE, impl |-> [fresh EXCEPT !.ctx = c, !.gpu = TRUE]]}
              ELSE {})
        \cup (IF ~d.want \/ "gpu" \in Faults THEN OpensSoftware(fresh) ELSE {})

\* A config: `lead` is its first byte, `box` the box inside a sample entry, `sets`
\* what its arrays hold, `whole` is FALSE when it ends inside one of them.
Blobs == [lead : {0, 1}, box : {"none", "avcC", "hvcC"}, sets : {{"sps", "pps"}, {"vps", "sps", "pps"}},
          whole : BOOLEAN]

BlobsOf(c) ==
    {b \in Blobs : /\ (b.lead = 0) = (b.box # "none")
                   /\ b.sets = IF c = "h264" THEN {"sps", "pps"} ELSE {"vps", "sps", "pps"}
                   /\ b.box # "none" => (b.box = "avcC") = (c = "h264")
                   /\ b.whole \/ "malformed" \in Faults}

\* find_inner_config_box(): a sample entry cut short has no whole box in it.
Unwrapped(b) == b.lead = 1 \/ b.whole

\* parse_avcc() and parse_hvcc(): neither takes the other's record.
Parses(b, c) ==
    /\ b.whole
    /\ b.sets = IF c = "h264" THEN {"sps", "pps"} ELSE {"vps", "sps", "pps"}

\* set_parameter_sets_from_avcc(): the outcomes for the config of frame n.  The
\* decoder is opened again when the codec is another one.
Reopens_Never(d, c) == {[ok |-> TRUE, impl |-> d]}
Reopens(d, c) == IF d.id = c THEN {[ok |-> TRUE, impl |-> d]} ELSE Opens(d, c)

Configures(d, b, n) ==
    LET cs == {c \in Codecs : Unwrapped(b) /\ Parses(b, c)}
    IN  IF cs = {} THEN {[ok |-> FALSE, impl |-> d]}
        ELSE LET c == CHOOSE x \in cs : TRUE
             IN  {IF r.ok THEN [r EXCEPT !.impl = [@ EXCEPT !.sets = n, !.of = c]] ELSE r
                     : r \in Reopens(d, c)}

\* decode(): an IDR goes with the cached sets in front of it.
Prefixed(d, f) == IF f.kind = "idr" /\ d.sets # 0 THEN d.sets ELSE d.active

\* libavcodec: a packet of its codec, with sets it knows, may give a picture.
Gives(d, f) == d.ctx = f.codec /\ Prefixed(d, f) # 0
-----------------------------------------------------------------------------
(* The control thread.                                                     *)

\* enable_decrypt(): the decoder is made only when there is a key.
MakesDecoder(key) == key

\* setup_stream(110): a new listener in the place of the old
\* one, which is stopped.
Setup ==
    /\ count.setups < MaxSetups
    /\ count' = [count EXCEPT !.setups = @ + 1]
    /\ phone' = Silent /\ wire' = <<>> /\ conn' = "none" /\ rx' = 0
    /\ lost' = 0 /\ failed' = {}
    /\ UNCHANGED <<shown, broken>>
    /\ \E key \in {TRUE} \cup (IF "key" \in Faults THEN {FALSE} ELSE {}) :
        /\ keyed' = key
        /\ IF MakesDecoder(key)
           THEN \E want \in BOOLEAN : \E r \in Opens(NewImpl(want), "h264") :
                    dec' = IF r.ok THEN r.impl ELSE None
           ELSE dec' = None
-----------------------------------------------------------------------------
(* The phone (external).                                                   *)

\* A connection begins with a config and a picture that needs no other.
Connects ==
    /\ count.setups > 0 /\ conn = "none" /\ count.conns < MaxConns
    /\ conn' = "open" /\ count' = [count EXCEPT !.conns = @ + 1]
    /\ phone' = [phone EXCEPT !.config = 0, !.idr = TRUE]
    /\ UNCHANGED <<wire, keyed, rx, dec, shown, ghosts>>

Frame(kind, blob) ==
    [n |-> count.frames + 1, kind |-> kind, codec |-> phone.codec, blob |-> blob,
     config |-> phone.config, at |-> phone.tx, whole |-> TRUE, body |-> "nals"]

Sends(f) ==
    /\ conn = "open" /\ count.frames < MaxFrames /\ Len(wire) < MaxWire
    /\ wire' = Append(wire, f)
    /\ count' = [count EXCEPT !.frames = @ + 1]
    /\ UNCHANGED <<conn, keyed, rx, dec, shown, ghosts>>

\* The first config, a rotation, another resolution or another codec.
SendsConfig ==
    \E c \in Codecs : \E b \in BlobsOf(c) :
        /\ Sends([Frame("config", b) EXCEPT !.codec = c])
        /\ phone' = [phone EXCEPT !.codec = c, !.config = count.frames + 1, !.idr = TRUE]

\* The body of a picture's frame: NAL units, something else, or one to four bytes.
Bodies == {"nals"} \cup (IF "malformed" \in Faults THEN {"garbage", "short"} ELSE {})

SendsPicture ==
    /\ phone.config # 0
    /\ \E kind \in IF phone.idr THEN {"idr"} ELSE {"idr", "delta"} : \E body \in Bodies :
            Sends([Frame(kind, None) EXCEPT !.body = body])
    /\ phone' = [phone EXCEPT !.tx = @ + 1, !.idr = FALSE]

\* A heartbeat or a report, or a header with a size that cannot be.
SendsOther ==
    /\ \E kind \in {"report"} \cup (IF "malformed" \in Faults THEN {"huge"} ELSE {}) :
            Sends(Frame(kind, None))
    /\ UNCHANGED phone

\* It closes the connection after its last frame, or the connection breaks and
\* what is on the way is lost, but for a part of the first frame.
Closes ==
    /\ conn = "open"
    /\ conn' = "closed"
    /\ UNCHANGED <<phone, wire, keyed, rx, dec, shown, ghosts, count>>

Encrypted(f) == f.kind \in {"idr", "delta"}
Ciphers(w) == {i \in 1..Len(w) : Encrypted(w[i]) /\ w[i].whole}

Breaks ==
    /\ conn = "open" /\ wire # <<>>
    /\ conn' = "closed"
    /\ wire' \in {<<>>, <<[Head(wire) EXCEPT !.whole = FALSE]>>}
    /\ lost' = lost + Cardinality(Ciphers(wire))
    /\ UNCHANGED <<phone, keyed, rx, dec, shown, broken, failed, count>>
-----------------------------------------------------------------------------
(* reader_loop(): one step for a frame.                                    *)

Reads(kinds) ==
    /\ wire # <<>> /\ conn # "none"
    /\ Head(wire).kind \in kinds /\ Head(wire).whole
    /\ wire' = Tail(wire)

\* Every config goes to the decoder, not only the first.
Forwards_First(d, f) == d.sets = 0
Forwards(d, f) == d # None

ReadsConfig ==
    LET f == Head(wire) IN
    /\ Reads({"config"})
    /\ IF dec # None /\ Forwards(dec, f)
       THEN \E r \in Configures(dec, f.blob, f.n) :
                /\ dec' = r.impl
                /\ broken' = IF r.ok THEN broken ELSE broken \cup {f.n}
                /\ failed' = IF r.impl.ctx \in {"null", "closed"}
                             THEN failed \cup {r.impl.id} ELSE failed
       ELSE UNCHANGED <<dec, broken, failed>>
    /\ UNCHANGED <<phone, conn, keyed, rx, shown, lost, count>>

\* Encrypted frames.  Those of one to four bytes are not deciphered
\* (mirror_listener.cpp:481), though the phone's keystream has gone on.  For all
\* others decrypt() comes first whatever becomes of the frame.
Deciphers(f) == f.body # "short"

Advances_IfDecoded(f, parsed) == IF parsed /\ dec # None THEN rx + 1 ELSE rx
Advances(f, parsed) == rx + 1

\* parse_nals_avcc_to_annexb(): what was not deciphered in step is no NAL stream.
ParsesNals(f) == f.at = rx /\ f.body = "nals"

Broken(f) == IF f.kind = "idr" THEN broken \cup {f.config} ELSE broken

ReadsUnkeyed ==
    /\ ~keyed /\ Reads({"idr", "delta"})
    /\ UNCHANGED <<phone, conn, keyed, rx, dec, shown, ghosts, count>>

ReadsShort ==
    /\ keyed /\ Reads({"idr", "delta"}) /\ ~Deciphers(Head(wire))
    /\ lost' = lost + 1 /\ broken' = Broken(Head(wire))
    /\ UNCHANGED <<phone, conn, keyed, rx, dec, shown, failed, count>>

\* Malformed, or no decoder, or no context, or libavcodec gives nothing: an error,
\* or EAGAIN on the way in (the packet is not sent again) or out.
ReadsDark ==
    LET f == Head(wire) IN
    /\ keyed /\ Reads({"idr", "delta"}) /\ Deciphers(f)
    /\ rx' = Advances(f, ParsesNals(f))
    /\ IF ParsesNals(f) /\ dec # None /\ Gives(dec, f)
       THEN dec' \in {dec, [dec EXCEPT !.active = Prefixed(dec, f)]}
       ELSE UNCHANGED dec
    /\ broken' = Broken(f)
    /\ UNCHANGED <<phone, conn, keyed, shown, lost, failed, count>>

ReadsPicture ==
    LET f == Head(wire) IN
    /\ keyed /\ Reads({"idr", "delta"}) /\ Deciphers(f)
    /\ ParsesNals(f) /\ dec # None /\ Gives(dec, f)
    /\ rx' = Advances(f, TRUE)
    /\ dec' = [dec EXCEPT !.active = Prefixed(dec, f)]
    /\ shown' = [n |-> f.n, at |-> f.at, need |-> f.config, sets |-> Prefixed(dec, f),
                 gpu |-> dec.gpu]
    /\ UNCHANGED <<phone, conn, keyed, ghosts, count>>

ReadsOther ==
    /\ Reads({"report"})
    /\ UNCHANGED <<phone, conn, keyed, rx, dec, shown, ghosts, count>>

\* The loop ends: closed between two frames or inside one, or a size that cannot
\* be, after which nothing of this connection is read.  accept_loop() goes on.
LoopEnds ==
    /\ \/ wire = <<>> /\ conn = "closed"
       \/ wire # <<>> /\ ~Head(wire).whole
       \/ wire # <<>> /\ Head(wire).whole /\ Head(wire).kind = "huge"
    /\ conn' = "none" /\ wire' = <<>>
    /\ lost' = lost + Cardinality(Ciphers(wire))
    /\ UNCHANGED <<phone, keyed, rx, dec, shown, broken, failed, count>>

Reader == \/ ReadsConfig \/ ReadsUnkeyed \/ ReadsShort \/ ReadsDark \/ ReadsPicture
          \/ ReadsOther \/ LoopEnds
Next == \/ Setup \/ Connects \/ SendsConfig \/ SendsPicture \/ SendsOther \/ Closes
        \/ Breaks \/ Reader
Spec == Init /\ [][Next]_vars
-----------------------------------------------------------------------------
Impls == [ctx : Codecs \cup {"null", "closed"}, id : Codecs, want : BOOLEAN, gpu : BOOLEAN,
          sets : Nat, of : Codecs, active : Nat]
Frames == [n : Nat, kind : {"config", "idr", "delta", "report", "huge"}, codec : Codecs,
           blob : Blobs \cup {None}, config : Nat, at : Nat, whole : BOOLEAN,
           body : {"nals", "garbage", "short"}]

TypeOK ==
    /\ phone \in [codec : Codecs, config : Nat, tx : Nat, idr : BOOLEAN]
    /\ wire \in Seq(Frames)
    /\ conn \in {"none", "open", "closed"} /\ keyed \in BOOLEAN
    /\ rx \in Nat /\ lost \in Nat
    /\ dec \in Impls \cup {None}
    /\ shown = None \/ shown \in [n : Nat, at : Nat, need : Nat, sets : Nat, gpu : BOOLEAN]
    /\ broken \subseteq Nat /\ failed \subseteq Codecs
    /\ count \in [frames : 0..MaxFrames, conns : 0..MaxConns, setups : 0..MaxSetups]

\* mirror_decrypt.h: "used as a CONTINUOUS stream across all encrypted frames of
\* the session".  No frame the reader deciphers and then refuses or cannot decode
\* puts the keystream out of step; what does, for good, is a frame a connection
\* loses, and an encrypted frame of one to four bytes, which is not deciphered.
InStep == keyed => phone.tx = rx + lost + Cardinality(Ciphers(wire))

\* mirror_listener.cpp: "Every SPS/PPS (initial and resolution changes) is
\* forwarded to the decoder."  A picture is decoded with the parameter sets the
\* phone sent last before it, through rotations and changes of codec, unless
\* those were refused or the picture they came with could not be decoded.
ShownWithItsSets == shown = None \/ shown.sets = shown.need \/ shown.need \in broken

\* h264_decoder.cpp, "reinit the decoder on codec change": the sets in front of an
\* IDR are of the codec the context is open for, unless one did not open.
DecoderReady ==
    dec # None /\ dec.sets # 0 => dec.ctx = dec.of \/ dec.id \in failed
-----------------------------------------------------------------------------
(* The inductive invariant behind the safety properties.                   *)

\* What is on the way: whole frames, or the part of one that a break leaves; each
\* knows the config before it.
Whole == \A i \in 1..Len(wire) : wire[i].whole
After(f) == IF f.kind = "config" THEN f.n ELSE f.config
WireFits ==
    /\ conn = "none" => wire = <<>>
    /\ conn = "open" => Whole
    /\ Whole \/ Len(wire) = 1
    /\ phone.config <= count.frames
    /\ \A i \in 1..Len(wire) : /\ wire[i].config < wire[i].n /\ wire[i].n <= count.frames
                               /\ Encrypted(wire[i]) => wire[i].config # 0
                               /\ wire[i].kind = "config" =>
                                    \A j \in (i + 1)..Len(wire) : wire[i].n <= wire[j].config
                               /\ i # Len(wire) => wire[i + 1].config = After(wire[i])

\* The phone goes on from what is on the way.
PhoneFits ==
    conn = "open" =>
        /\ wire # <<>> => phone.config = After(wire[Len(wire)])
        /\ \A i \in 1..Len(wire) : wire[i].kind = "config" => wire[i].n <= phone.config

\* The whole encrypted frames on the way are at the positions that the reader has
\* not come to and that are not lost, in order.
PositionsFit ==
    keyed => /\ {wire[i].at : i \in Ciphers(wire)} = (rx + lost)..(phone.tx - 1)
             /\ rx + lost <= phone.tx
             /\ \A i, j \in Ciphers(wire) : i < j => wire[i].at < wire[j].at

\* A context is open for codec_id, and the cached sets are of it, unless it failed.
DecoderFits ==
    dec # None => /\ keyed
                  /\ dec.ctx = dec.id \/ dec.id \in failed
                  /\ dec.sets # 0 => dec.of = dec.id \/ dec.id \in failed

\* The config before what the reader comes to next is the decoder's, and before a
\* picture that needs others libavcodec has seen it, or will.
Live == (conn = "open" \/ wire # <<>>) /\ Whole
Current == IF wire = <<>> THEN phone.config ELSE Head(wire).config
Started(c, i) ==
    \/ c \in broken
    \/ c = Current /\ dec.active = c
    \/ \E j \in 1..(i - 1) : wire[j].kind = "idr" /\ wire[j].config = c
SetsFit ==
    Live /\ dec # None =>
        /\ Current # 0 => dec.sets = Current \/ Current \in broken
        /\ \A i \in 1..Len(wire) : wire[i].kind = "delta" => Started(wire[i].config, i)
        /\ conn = "open" /\ ~phone.idr => Started(phone.config, Len(wire) + 1)

IInv ==
    /\ TypeOK /\ WireFits /\ PhoneFits /\ PositionsFit /\ DecoderFits /\ SetsFit
    /\ ShownWithItsSets
=============================================================================
