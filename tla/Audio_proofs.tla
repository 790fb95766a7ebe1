----------------------------- MODULE Audio_proofs -----------------------------
(* Proofs about the audio path: the packet filter (AudioFilter), the queue    *)
(* behind it (AudioQueue) and the session's badge (NowPlaying), three models  *)
(* that share no state.                                                       *)
EXTENDS AudioFilter, AudioQueue, NowPlaying, FiniteSetTheorems, TLAPS

\* 65536, 8192 and 1024 leave room for copies up to 7168 packets late.
WindowCovers == Late + Every <= Window /\ Window + Late < SeqNumbers

\* Remainders: numbers closer than a turn have different ones, a number may be taken
\* modulo M before it is added or subtracted, and what stays below M is kept.
LEMMA Turns ==
    ASSUME NEW M \in Nat \ {0}
    PROVE  /\ \A x \in Int : x % M \in 0..M - 1
           /\ \A x, y \in Int : 0 < x - y /\ x - y < M => x % M # y % M
           /\ \A x, y \in Int : ((x % M) + y) % M = (x + y) % M
           /\ \A x, y \in Int : (y - (x % M)) % M = (y - x) % M
           /\ \A x, y \in Int : (x % M) + y \in 0..M - 1 => (x + y) % M = (x % M) + y
<1>1. \A x \in Int : /\ x % M \in 0..M - 1 /\ x \div M \in Int
                     /\ x = M * (x \div M) + (x % M)
  OBVIOUS
<1>2. ASSUME NEW r \in 0..M - 1, NEW s \in 0..M - 1, NEW k \in Int, r - s = M * k
      PROVE  k = 0 /\ r = s
  <2>1. CASE k >= 1
    <3>1. M * k >= M
      BY <2>1
    <3> QED
      BY <1>2, <3>1
  <2>2. CASE k <= -1
    <3>1. M * k <= -M
      BY <2>2
    <3> QED
      BY <1>2, <3>1
  <2> QED
    BY <1>2, <2>1, <2>2
\* Whole turns make no difference.
<1>3. ASSUME NEW x \in Int, NEW y \in Int, NEW k \in Int, x - y = M * k PROVE x % M = y % M
  <2> DEFINE p == x \div M
             q == y \div M
             r == x % M
             s == y % M
  <2>1. p \in Int /\ q \in Int /\ x = M * p + r /\ y = M * q + s /\ r \in 0..M - 1 /\ s \in 0..M - 1
    BY <1>1
  <2> HIDE DEF p, q, r, s
  <2>2. M * (k - p + q) = M * k - M * p + M * q
    BY <2>1
  <2> DEFINE Mk == M * k
             Mp == M * p
             Mq == M * q
  <2>3. Mk \in Int /\ Mp \in Int /\ Mq \in Int /\ x - y = Mk /\ x = Mp + r /\ y = Mq + s
        /\ M * (k - p + q) = Mk - Mp + Mq
    BY <1>3, <2>1, <2>2
  <2> HIDE DEF Mk, Mp, Mq
  <2>4. r - s = Mk - Mp + Mq
    BY <2>1, <2>3
  <2>5. r - s = M * (k - p + q) /\ k - p + q \in Int
    BY <2>1, <2>3, <2>4
  <2>6. r = s
    BY <1>2, <2>1, <2>5
  <2> QED
    BY <2>6 DEF r, s
<1>4. ASSUME NEW x \in Int, NEW y \in Int, 0 < x - y, x - y < M PROVE x % M # y % M
  <2> SUFFICES ASSUME x % M = y % M PROVE FALSE
    OBVIOUS
  <2> DEFINE p == x \div M
             q == y \div M
  <2>1. p \in Int /\ q \in Int /\ x = M * p + (x % M) /\ y = M * q + (y % M)
        /\ x % M \in Int
    BY <1>1
  <2> HIDE DEF p, q
  <2>2. (x - y) - 0 = M * (p - q) /\ p - q \in Int
    BY <2>1
  <2>3. x - y \in 0..M - 1 /\ 0 \in 0..M - 1
    BY <1>4
  <2> QED
    BY <1>2, <1>4, <2>2, <2>3
<1>5. ASSUME NEW x \in Int, NEW y \in Int
      PROVE  /\ ((x % M) + y) % M = (x + y) % M
             /\ (y - (x % M)) % M = (y - x) % M
  <2> DEFINE p == x \div M
             r == x % M
  <2>1. p \in Int /\ -p \in Int /\ x = M * p + r /\ r \in Int
    BY <1>1
  <2> HIDE DEF p, r
  <2>2. M * (-p) = -(M * p) /\ M * p \in Int
    BY <2>1
  <2>3. (r + y) - (x + y) = M * (-p) /\ (y - r) - (y - x) = M * p
    BY <2>1, <2>2
  <2>4. r + y \in Int /\ x + y \in Int /\ y - r \in Int /\ y - x \in Int
    BY <2>1
  <2>5. (r + y) % M = (x + y) % M
    BY <1>3, <2>1, <2>3, <2>4
  <2>6. (y - r) % M = (y - x) % M
    BY <1>3, <2>1, <2>3, <2>4
  <2> QED
    BY <2>5, <2>6 DEF r
<1>6. ASSUME NEW x \in Int, NEW y \in Int, (x % M) + y \in 0..M - 1
      PROVE  (x + y) % M = (x % M) + y
  <2> DEFINE z == (x % M) + y
  <2>1. z \in 0..M - 1 /\ z % M = (x + y) % M
    BY <1>5, <1>6
  <2> HIDE DEF z
  <2>2. z % M \in 0..M - 1 /\ z \div M \in Int /\ z = M * (z \div M) + (z % M)
    <3>1. z \in Int
      BY <2>1
    <3> QED
      BY <1>1, <3>1, Zenon
  <2>3. z % M = z
    BY <1>2, <2>1, <2>2
  <2> QED
    BY <2>1, <2>3 DEF z
<1> QED
  BY <1>1, <1>4, <1>5, <1>6

\* DecodedOnce is not inductive: what keeps a late copy out is that every frame
\* it may be a copy of still has its sequence number among those seen.
Remembers(n) ==
    /\ n \in Int /\ n >= -1
    /\ decoded \subseteq 0..n
    /\ \A f \in decoded : f >= n - Late => SeqNumber(f) \in seen
    /\ again = {}

\* A packet put into the window, or already there, leaves every recent number
\* remembered: what is forgotten for it lies behind all of them.
LEMMA ArrivalRemembers ==
    ASSUME WindowCovers, NEW n \in Int, Remembers(n),
           NEW f \in (n - Late)..n, f >= 0, Arrives(f)
    PROVE  Remembers(n)'
\* Forgetting a stretch behind one recent packet forgets no recent packet.
<1>1. ASSUME NEW e \in (n - Late)..n, NEW g \in (n - Late)..n
      PROVE  SeqNumber(g) \notin Stretch(e)
  <2> USE FilterAssumption
  <2> SUFFICES ASSUME NEW k \in 0..Every - 1 PROVE g % SeqNumbers # (e - Window + k) % SeqNumbers
    BY DEF Stretch, SeqNumber
  <2> DEFINE h == e - Window + k
  <2>1. h \in Int /\ 0 < g - h /\ g - h < SeqNumbers
    BY DEF WindowCovers
  <2> QED
    BY <2>1, Turns
<1> USE FilterAssumption
<1>2. CASE IsDuplicate(f)
  <2>1. seen' = seen /\ decoded' = decoded /\ again' = again
    BY <1>2 DEF Arrives
  <2> QED
    BY <2>1 DEF Remembers, SeqNumber
<1>3. CASE ~IsDuplicate(f)
  <2>1. f \notin decoded
    BY <1>3 DEF IsDuplicate, Remembers, SeqNumber
  <2>2. again' = {} /\ decoded' = decoded \cup {f}
    BY <1>3, <2>1 DEF Arrives, Remembers
  <2>3. ASSUME NEW g \in decoded', g >= n - Late PROVE SeqNumber(g) \in seen'
    <3>1. g \in (n - Late)..n
      BY <2>2, <2>3 DEF Remembers
    <3>2. SeqNumber(g) \in seen \cup {SeqNumber(f)}
      BY <2>2, <2>3 DEF Remembers
    <3>3. SeqNumber(g) \notin Stretch(f)
      BY <3>1, <1>1
    <3> QED
      BY <1>3, <3>2, <3>3 DEF Arrives
  <2> QED
    BY <2>2, <2>3 DEF Remembers, SeqNumber
<1> QED
  BY <1>2, <1>3

(* Copies that come within the window behind the newest packet are never     *)
(* decoded again, for any loss, repetition and order (the seen_seq filter of *)
(* audio_receiver.cpp:398-429).                                              *)
THEOREM EachFrameOnce ==
    ASSUME WindowCovers
    PROVE  FilterSpec => []DecodedOnce
<1>1. Remembers(newest) => DecodedOnce
  BY DEF Remembers, DecodedOnce
\* No arrival, fresh, repeated or late, decodes a second time or forgets what may
\* still be repeated.
<1>2. Remembers(newest) /\ [FilterNext]_filterVars => Remembers(newest)'
  <2> SUFFICES ASSUME Remembers(newest), [FilterNext]_filterVars PROVE Remembers(newest)'
    OBVIOUS
  <2> USE FilterAssumption
  <2>0. newest \in Int /\ newest >= -1
    BY DEF Remembers
  \* The newest packet after the step, as a number, which no step changes.
  <2> SUFFICES ASSUME NEW n \in Int, n = newest' PROVE Remembers(n)'
    <3>1. newest' \in Int
      BY <2>0 DEF FilterNext, filterVars, ArrivesNew, ArrivesAgain, ArrivesSmall, PacketLost,
         ArrivesLate
    <3> QED
      BY <3>1 DEF Remembers
  <2>1. Remembers(n)
    <3>1. n = newest \/ n = newest + 1
      BY <2>0 DEF FilterNext, filterVars, ArrivesNew, ArrivesAgain, ArrivesSmall, PacketLost,
         ArrivesLate
    <3>2. decoded \subseteq 0..n
      BY <2>0, <3>1 DEF Remembers
    <3>3. \A f \in decoded : f >= n - Late => SeqNumber(f) \in seen
      <4> SUFFICES ASSUME NEW f \in decoded, f >= n - Late PROVE f >= newest - Late
        BY DEF Remembers
      <4> QED
        BY <2>0, <3>1, <3>2
    <3>4. n >= -1 /\ again = {}
      BY <2>0, <3>1 DEF Remembers
    <3> QED
      BY <3>2, <3>3, <3>4, SMTT(30) DEF Remembers
  <2>2. CASE ArrivesNew
    BY <2>0, <2>1, <2>2, ArrivalRemembers DEF ArrivesNew
  <2>3. CASE ArrivesAgain
    BY <2>0, <2>1, <2>3, ArrivalRemembers DEF ArrivesAgain
  <2>4. ASSUME NEW d \in 1..Late, ArrivesLate(d) PROVE Remembers(n)'
    <3>1. n - d \in (n - Late)..n /\ n - d >= 0 /\ Arrives(n - d)
      BY <2>0, <2>4 DEF ArrivesLate
    <3> QED
      BY <2>1, <3>1, ArrivalRemembers
  <2>5. CASE ArrivesSmall \/ PacketLost \/ UNCHANGED filterVars
    BY <2>1, <2>5 DEF ArrivesSmall, PacketLost, filterVars, filter, music, Remembers, SeqNumber
  <2> QED
    BY <2>2, <2>3, <2>4, <2>5 DEF FilterNext
<1>3. FilterInit => Remembers(newest)
  BY DEF FilterInit, Remembers
<1> QED
  BY <1>1, <1>2, <1>3, PTL DEF FilterSpec
-----------------------------------------------------------------------------
(* SinkIsOfOneFlush is not inductive: Plays adds sound from after the FLUSH, *)
(* and only clear_output_ says that none from before it is left.             *)
SinkInv ==
    /\ clear \in BOOLEAN
    /\ IF clear THEN sink \subseteq {"old"} ELSE sink \subseteq {"new"}

(* In every behaviour the device never holds sound from before a FLUSH in    *)
(* front of sound from after it (play-out loop, audio_receiver.cpp:566-634). *)
THEOREM SinkSafe == QueueSpec => []SinkIsOfOneFlush
<1>1. QueueInit => SinkInv
  BY DEF QueueInit, SinkInv
<1>2. SinkInv /\ [QueueNext]_queueVars => SinkInv'
  <2> SUFFICES ASSUME SinkInv, [QueueNext]_queueVars PROVE SinkInv'
    OBVIOUS
  <2>1. ASSUME UNCHANGED <<clear, sink>> PROVE SinkInv'
    BY <2>1 DEF SinkInv
  <2>2. CASE ClearsSink
    BY <2>2 DEF ClearsSink, SinkInv
  <2>3. CASE Plays
    BY <2>3 DEF Plays, MayPlay, SinkInv
  <2>4. CASE Lost \/ Received \/ FallsBehind \/ CatchesUp \/ DropsLate
    BY <2>1, <2>4 DEF Lost, Received, FallsBehind, CatchesUp, DropsLate, out
  \* A flush raises the flag: what the device holds is then from before it.
  <2>5. ASSUME ClearsOutput PROVE SinkInv'
    BY <2>5 DEF ClearsOutput, SinkInv
  <2>6. CASE \/ FlushAll \/ SetSynchronized
             \/ \E d \in Leads : FlushTo(Wrap(sent + ahead + d))
    BY <2>5, <2>6 DEF FlushAll, SetSynchronized, FlushTo, FlushesAll
  <2>7. CASE ResumeDiscards \/ DiscardPause \/ \E n \in Pauses : Resume(n)
    BY <2>1, <2>7 DEF ResumeDiscards, DiscardPause, Resume, out
  <2>8. CASE \E r \in Epochs, y \in BOOLEAN : Recreate(r, y)
    BY <2>8 DEF Recreate, SinkInv
  <2>9. CASE UNCHANGED queueVars
    BY <2>1, <2>9 DEF queueVars, out
  <2> QED
    BY <2>2, <2>3, <2>4, <2>6, <2>7, <2>8, <2>9 DEF QueueNext, QueueControl
<1>3. SinkInv => SinkIsOfOneFlush
  <2> SUFFICES ASSUME SinkInv, sink = {"old", "new"} PROVE FALSE
    BY DEF SinkIsOfOneFlush
  <2>1. "old" \in sink /\ "new" \in sink
    OBVIOUS
  <2> QED
    BY <2>1 DEF SinkInv
<1> QED
  BY <1>1, <1>2, <1>3, PTL DEF QueueSpec
-----------------------------------------------------------------------------
\* How many frames a queue has adds up: none for an empty one, those of the block for
\* one block, and for a queue put behind another the sum of both.
LEMMA FramesAdd ==
    /\ \A q \in Seq(Blocks) : Frames(q) \in Nat
    /\ Frames(<<>>) = 0
    /\ \A b \in Blocks : Frames(<<b>>) = b.len
    /\ \A q, r \in Seq(Blocks) : Frames(q \o r) = Frames(q) + Frames(r)
<1> USE AudioAssumption
<1>1. \A q, x : x \in FramesOf(q) <=> \E i \in DOMAIN q : \E k \in 1..q[i].len : x = <<i, k>>
  <2> SUFFICES ASSUME NEW q, NEW x
               PROVE  x \in FramesOf(q)
                        <=> \E i \in DOMAIN q : \E k \in 1..q[i].len : x = <<i, k>>
    OBVIOUS
  <2>1. x \in FramesOf(q) <=> \E i \in DOMAIN q : x \in {i} \X (1..q[i].len)
    BY DEF FramesOf
  <2> QED
    BY <2>1
<1>2. ASSUME NEW q \in Seq(Blocks) PROVE IsFiniteSet(FramesOf(q)) /\ Frames(q) \in Nat
  <2>1. IsFiniteSet((1..Len(q)) \X (1..PktLen))
    <3>1. 1 \in Int /\ Len(q) \in Int /\ PktLen \in Int
      OBVIOUS
    <3>2. IsFiniteSet(1..Len(q)) /\ IsFiniteSet(1..PktLen)
      BY <3>1, FS_Interval
    <3> QED
      BY <3>2, FS_Product
  <2>2. FramesOf(q) \subseteq (1..Len(q)) \X (1..PktLen)
    <3> SUFFICES ASSUME NEW i \in DOMAIN q, NEW k \in 1..q[i].len
                 PROVE  i \in 1..Len(q) /\ k \in 1..PktLen
      BY <1>1
    <3>1. i \in 1..Len(q) /\ q[i] \in Blocks
      OBVIOUS
    <3>2. q[i].len \in 1..PktLen
      BY <3>1 DEF Blocks
    <3> QED
      BY <3>1, <3>2
  <2> QED
    BY <2>1, <2>2, FS_Subset, FS_CardinalityType DEF Frames
<1>3. Frames(<<>>) = 0
  <2>1. FramesOf(<<>>) = {}
    BY <1>1
  <2> QED
    BY <2>1, FS_EmptySet DEF Frames
<1>4. ASSUME NEW b \in Blocks PROVE Frames(<<b>>) = b.len
  <2> DEFINE f == [k \in 1..b.len |-> <<1, k>>]
  <2>1. b.len \in Nat
    BY DEF Blocks
  <2>2. \A x : x \in FramesOf(<<b>>) <=> \E k \in 1..b.len : x = <<1, k>>
    BY <1>1
  <2>3. f \in Bijection(1..b.len, FramesOf(<<b>>))
    <3>1. f \in [1..b.len -> FramesOf(<<b>>)]
      BY <2>2
    <3>2. \A x, y \in 1..b.len : f[x] = f[y] => x = y
      OBVIOUS
    <3>3. \A x \in FramesOf(<<b>>) : \E k \in 1..b.len : f[k] = x
      BY <2>2
    <3> QED
      BY <3>1, <3>2, <3>3 DEF Bijection, Injection, IsInjective, Surjection
  <2> HIDE DEF f
  <2> QED
    BY <2>1, <2>3, FS_CountingElements DEF ExistsBijection, Frames
<1>5. ASSUME NEW q \in Seq(Blocks), NEW r \in Seq(Blocks)
      PROVE  Frames(q \o r) = Frames(q) + Frames(r)
  <2> DEFINE f == [x \in FramesOf(r) |-> <<x[1] + Len(q), x[2]>>]
             behind == {<<x[1] + Len(q), x[2]>> : x \in FramesOf(r)}
  <2>1. /\ q \o r \in Seq(Blocks) /\ Len(q) \in Nat
        /\ DOMAIN q = 1..Len(q) /\ DOMAIN r = 1..Len(r)
        /\ DOMAIN (q \o r) = 1..Len(q) + Len(r) /\ Len(r) \in Nat
        /\ \A i \in 1..Len(q) : (q \o r)[i] = q[i]
        /\ \A i \in 1..Len(r) : (q \o r)[i + Len(q)] = r[i]
    OBVIOUS
  <2>2. \A x \in FramesOf(r) : x[1] \in 1..Len(r) /\ x = <<x[1], x[2]>>
    BY <1>1, <2>1
  <2>3. f \in Bijection(FramesOf(r), behind)
    <3>1. f \in [FramesOf(r) -> behind]
      OBVIOUS
    <3>2. ASSUME NEW x \in FramesOf(r), NEW y \in FramesOf(r), f[x] = f[y] PROVE x = y
      <4>1. x[1] + Len(q) = y[1] + Len(q) /\ x[2] = y[2]
        BY <3>2
      <4>2. x[1] = y[1]
        BY <2>1, <2>2, <4>1
      <4>3. x = <<x[1], x[2]>> /\ y = <<y[1], y[2]>>
        BY <2>2
      <4> QED
        BY <4>1, <4>2, <4>3
    <3>3. \A x \in behind : \E y \in FramesOf(r) : f[y] = x
      OBVIOUS
    <3> QED
      BY <3>1, <3>2, <3>3 DEF Bijection, Injection, IsInjective, Surjection
  <2>4. IsFiniteSet(behind) /\ Cardinality(behind) = Frames(r)
    <3> HIDE DEF f, behind
    <3> QED
      BY <1>2, <2>3, FS_Bijection DEF ExistsBijection, Frames
  <2>5. FramesOf(q) \cap behind = {}
    BY <1>1, <2>1, <2>2
  <2>6. FramesOf(q \o r) = FramesOf(q) \cup behind
    <3>1. ASSUME NEW x \in FramesOf(q \o r) PROVE x \in FramesOf(q) \cup behind
      <4>0. PICK i \in 1..Len(q) + Len(r) : \E k \in 1..(q \o r)[i].len : x = <<i, k>>
        <5>1. \E i \in DOMAIN (q \o r) : \E k \in 1..(q \o r)[i].len : x = <<i, k>>
          <6> DEFINE both == q \o r
          <6>1. x \in FramesOf(both)
            BY <3>1
          <6> HIDE DEF both
          <6>2. \E i \in DOMAIN both : \E k \in 1..both[i].len : x = <<i, k>>
            BY <1>1, <6>1
          <6> QED
            BY <6>2 DEF both
        <5> QED
          BY <2>1, <5>1
      <4>1. PICK k \in 1..(q \o r)[i].len : x = <<i, k>>
        BY <4>0
      <4>2. CASE i \in 1..Len(q)
        BY <1>1, <2>1, <4>1, <4>2
      <4>3. CASE i \notin 1..Len(q)
        <5>1. i - Len(q) \in 1..Len(r) /\ (i - Len(q)) + Len(q) = i
          BY <2>1, <4>3
        <5>2. (q \o r)[i] = r[i - Len(q)]
          BY <2>1, <5>1
        <5>3. <<i - Len(q), k>> \in FramesOf(r)
          BY <1>1, <2>1, <4>1, <5>1, <5>2
        <5> QED
          BY <4>1, <5>1, <5>3
      <4> QED
        BY <4>2, <4>3
    <3>2. ASSUME NEW x \in FramesOf(q) PROVE x \in FramesOf(q \o r)
      <4>1. PICK i \in DOMAIN q : \E k \in 1..q[i].len : x = <<i, k>>
        BY <1>1
      <4>2. i \in DOMAIN (q \o r) /\ (q \o r)[i] = q[i]
        BY <2>1
      <4> QED
        BY <1>1, <4>1, <4>2
    <3>3. ASSUME NEW x \in behind PROVE x \in FramesOf(q \o r)
      <4>1. PICK y \in FramesOf(r) : x = <<y[1] + Len(q), y[2]>>
        OBVIOUS
      <4>0. PICK i \in 1..Len(r) : \E k \in 1..r[i].len : y = <<i, k>>
        BY <1>1, <2>1
      <4>2. PICK k \in 1..r[i].len : y = <<i, k>>
        BY <4>0
      <4>3. i + Len(q) \in DOMAIN (q \o r) /\ (q \o r)[i + Len(q)] = r[i]
        BY <2>1
      <4> QED
        BY <1>1, <4>1, <4>2, <4>3
    <3> HIDE DEF behind
    <3> QED
      BY <3>1, <3>2, <3>3
  <2>7. IsFiniteSet(FramesOf(q)) /\ Frames(q) \in Nat /\ Frames(r) \in Nat
    BY <1>2
  <2> HIDE DEF behind
  <2>8. Cardinality(FramesOf(q) \cup behind)
          = Cardinality(FramesOf(q)) + Cardinality(behind) - Cardinality(FramesOf(q) \cap behind)
    BY <2>4, <2>7, FS_Union
  <2>9. Cardinality(FramesOf(q) \cap behind) = 0
    BY <2>5, FS_EmptySet
  <2> QED
    BY <2>4, <2>6, <2>7, <2>8, <2>9 DEF Frames
<1> QED
  BY <1>2, <1>3, <1>4, <1>5

\* Timestamps are taken modulo RtpMod, and a block that is trimmed keeps what is not
\* before the boundary: at most what it had.
LEMMA Trimmed ==
    ASSUME NEW b \in Blocks, NEW r \in Rtp
    PROVE  LET d == TrimBefore(b, r) IN
           /\ d \in [rtp : Rtp, len : 0..PktLen, src : Nat]
           /\ d.len > 0 => d \in Blocks
           /\ Excess(b, r) \in 0..b.len
<1> USE AudioAssumption
<1>1. b.rtp \in Rtp /\ b.len \in 1..PktLen /\ b.src \in Nat
  BY DEF Blocks
<1>2. \A x \in Int : Wrap(x) \in Rtp
  BY DEF Wrap, Rtp
<1>3. Excess(b, r) \in 0..b.len
  <2>1. Wrap(r - b.rtp) \in Nat
    BY <1>1, <1>2 DEF Rtp
  <2> QED
    BY <1>1, <2>1 DEF Excess, Least
<1> DEFINE n == Excess(b, r)
<1> HIDE DEF n
<1>4. n \in 0..b.len
  BY <1>3 DEF n
<1>5. TrimBefore(b, r) = [rtp |-> Wrap(b.rtp + n), len |-> b.len - n, src |-> b.src + n]
  BY DEF TrimBefore, Block, n
<1>6. Wrap(b.rtp + n) \in Rtp /\ b.len - n \in 0..PktLen /\ b.src + n \in Nat
  BY <1>1, <1>2, <1>4 DEF Rtp
<1> HIDE DEF Rtp
<1> QED
  BY <1>3, <1>5, <1>6 DEF Blocks

\* The loops over the queue leave a queue of blocks: every place of the new one is
\* taken by a block that is not empty, and those that are left keep their order.
LEMMA TrimsQueue ==
    ASSUME NEW q \in Seq(Blocks), NEW r \in Rtp
    PROVE  /\ TrimQueue(q, r) \in Seq(Blocks)
           /\ \E f \in [1..Len(TrimQueue(q, r)) -> 1..Len(q)] :
                 /\ \A i, j \in 1..Len(TrimQueue(q, r)) : i < j => f[i] < f[j]
                 /\ \A i \in 1..Len(TrimQueue(q, r)) : TrimQueue(q, r)[i] = TrimBefore(q[f[i]], r)
<1> DEFINE trimmed == [i \in DOMAIN q |-> TrimBefore(q[i], r)]
           kept == {i \in DOMAIN trimmed : trimmed[i].len > 0}
           n == Cardinality(kept)
           UpTo(i) == {j \in kept : j <= i}
           rank == [i \in kept |-> Cardinality(UpTo(i))]
<1>1. kept \subseteq 1..Len(q) /\ IsFiniteSet(kept) /\ n \in Nat
  <2>1. IsFiniteSet(1..Len(q)) /\ kept \subseteq 1..Len(q)
    BY FS_Interval
  <2> QED
    BY <2>1, FS_Subset, FS_CardinalityType
<1>2. \A i \in kept : trimmed[i] \in Blocks
  <2> SUFFICES ASSUME NEW i \in kept PROVE TrimBefore(q[i], r) \in Blocks
    OBVIOUS
  <2>1. q[i] \in Blocks /\ TrimBefore(q[i], r).len > 0
    OBVIOUS
  <2> QED
    BY <2>1, Trimmed
<1>3. TrimQueue(q, r)
        = [k \in 1..n |-> trimmed[CHOOSE i \in kept : Cardinality(UpTo(i)) = k]]
  <2>1. TrimQueue(q, r) = Filled(trimmed)
    BY DEF TrimQueue
  <2> HIDE DEF trimmed
  <2> QED
    BY <2>1 DEF Filled
<1> HIDE DEF trimmed
<1>4. ASSUME NEW i \in kept PROVE rank[i] \in 1..n /\ IsFiniteSet(UpTo(i))
  <2>1. UpTo(i) \subseteq kept /\ i \in UpTo(i)
    BY <1>1
  <2>2. IsFiniteSet(UpTo(i)) /\ Cardinality(UpTo(i)) <= n
    BY <1>1, <2>1, FS_Subset
  <2>3. Cardinality(UpTo(i)) \in Nat /\ Cardinality(UpTo(i)) # 0
    BY <2>1, <2>2, FS_CardinalityType, FS_EmptySet
  <2>4. rank[i] = Cardinality(UpTo(i))
    OBVIOUS
  <2> HIDE DEF rank, n, UpTo
  <2> QED
    BY <1>1, <2>2, <2>3, <2>4
<1>5. ASSUME NEW i \in kept, NEW j \in kept, i < j PROVE rank[i] # rank[j]
  <2>1. UpTo(i) \subseteq UpTo(j) /\ j \in UpTo(j) \ UpTo(i)
    BY <1>1, <1>5
  <2>2. IsFiniteSet(UpTo(j))
    BY <1>4
  <2>3. Cardinality(UpTo(i)) # Cardinality(UpTo(j))
    BY <2>1, <2>2, FS_Subset
  <2> QED
    BY <2>3
<1> HIDE DEF rank, n
<1>6. rank \in Injection(kept, 1..n)
  <2>1. rank \in [kept -> 1..n] /\ DOMAIN rank = kept
    <3>1. rank = [i \in kept |-> Cardinality(UpTo(i))]
      BY DEF rank
    <3> QED
      BY <1>4, <3>1
  <2>2. ASSUME NEW i \in kept, NEW j \in kept, rank[i] = rank[j] PROVE i = j
    <3>1. i \in Int /\ j \in Int
      BY <1>1
    <3>2. ~(i < j) /\ ~(j < i)
      BY <1>5, <2>2
    <3> QED
      BY <3>1, <3>2
  <2> QED
    BY <2>1, <2>2 DEF Injection, IsInjective
<1> HIDE DEF kept, UpTo
<1>7. \A k \in 1..n : \E i \in kept : Cardinality(UpTo(i)) = k
  <2>1. IsFiniteSet(1..n) /\ Cardinality(1..n) = n
    BY <1>1, FS_Interval
  <2>2. rank \in Surjection(kept, 1..n)
    BY <1>6, <2>1, FS_Injection DEF n
  <2> QED
    BY <2>2 DEF Surjection, rank
<1> DEFINE place(k) == CHOOSE i \in kept : Cardinality(UpTo(i)) = k
<1>8. \A k \in 1..n : place(k) \in kept /\ Cardinality(UpTo(place(k))) = k
  BY <1>7
<1> HIDE DEF place
<1>9. \A k \in 1..n : trimmed[place(k)] \in Blocks
  BY <1>2, <1>8
<1>10. TrimQueue(q, r) = [k \in 1..n |-> trimmed[place(k)]]
  BY <1>3 DEF place
<1>11. TrimQueue(q, r) \in Seq(Blocks) /\ Len(TrimQueue(q, r)) = n
  BY <1>1, <1>9, <1>10
<1>12. \A i \in kept : i \in 1..Len(q) /\ i \in Int
  BY <1>1
<1>13. ASSUME NEW k \in 1..n, NEW l \in 1..n, k < l PROVE place(k) < place(l)
  <2>1. /\ place(k) \in kept /\ Cardinality(UpTo(place(k))) = k
        /\ place(l) \in kept /\ Cardinality(UpTo(place(l))) = l
    BY <1>8
  <2>2. place(k) \in Int /\ place(l) \in Int
    BY <1>12, <2>1
  <2>3. CASE place(l) <= place(k)
    <3>1. \A j \in kept : j <= place(l) => j <= place(k)
      BY <1>12, <2>2, <2>3
    <3>2. UpTo(place(l)) \subseteq UpTo(place(k)) /\ IsFiniteSet(UpTo(place(k)))
      BY <1>4, <2>1, <3>1 DEF UpTo
    <3>3. Cardinality(UpTo(place(l))) <= Cardinality(UpTo(place(k)))
      BY <3>2, FS_Subset
    <3> QED
      BY <1>1, <1>13, <2>1, <3>3
  <2> QED
    BY <2>2, <2>3
<1>14. ASSUME NEW k \in 1..n PROVE trimmed[place(k)] = TrimBefore(q[place(k)], r)
  <2>1. place(k) \in DOMAIN q
    BY <1>8, <1>12
  <2> QED
    BY <2>1 DEF trimmed
<1> DEFINE f == [k \in 1..n |-> place(k)]
<1>15. /\ f \in [1..n -> 1..Len(q)] /\ \A k, l \in 1..n : k < l => f[k] < f[l]
       /\ \A k \in 1..n : TrimQueue(q, r)[k] = TrimBefore(q[f[k]], r)
  BY <1>8, <1>10, <1>12, <1>13, <1>14
<1> HIDE DEF f
<1> QED
  BY <1>11, <1>15

\* The counter is right and the queues hold blocks, from the start and after every
\* step of each thread.
CounterInv == QueueTypeOK /\ CounterIsSum

LEMMA CounterInvariance == QueueSpec => []CounterInv
<1> USE AudioAssumption
<1>1. QueueInit => CounterInv
  <2>1. Frames(<<>>) = 0
    BY FramesAdd
  <2> QED
    <3> SUFFICES ASSUME QueueInit PROVE CounterInv
      OBVIOUS
    <3>1. /\ pcm = <<>> /\ queued = 0 /\ boundary = None /\ paused = <<>> /\ imported = FALSE
          /\ sync \in BOOLEAN /\ clear = FALSE /\ sink = {} /\ sent = 0 /\ ops = 0
          /\ heldUp = {} /\ mixed = FALSE
      BY DEF QueueInit
    <3>2. ahead \in Rtp /\ 0 \in 0..MaxOps /\ 0 \in Nat /\ <<>> \in Seq(Blocks)
      BY DEF QueueInit, Rtp
    <3>3. QueueTypeOK
      BY <3>1, <3>2 DEF QueueTypeOK
    <3> QED
      BY <2>1, <3>1, <3>3 DEF CounterInv, CounterIsSum
\* What comes in, or out, of a queue of blocks, and is counted.
<1>2. ASSUME NEW q \in Seq(Blocks), NEW r \in Seq(Blocks)
      PROVE  q \o r \in Seq(Blocks) /\ Frames(q) \in Nat /\ Frames(q \o r) = Frames(q) + Frames(r)
  BY FramesAdd
<1>3. ASSUME NEW q \in Seq(Blocks), NEW k \in 0..Len(q)
      PROVE  /\ SubSeq(q, 1, k) \in Seq(Blocks) /\ SubSeq(q, k + 1, Len(q)) \in Seq(Blocks)
             /\ Frames(q) = Frames(SubSeq(q, 1, k)) + Frames(SubSeq(q, k + 1, Len(q)))
  <2>1. SubSeq(q, 1, k) \in Seq(Blocks) /\ SubSeq(q, k + 1, Len(q)) \in Seq(Blocks)
    OBVIOUS
  <2>2. q = SubSeq(q, 1, k) \o SubSeq(q, k + 1, Len(q))
    <3> DEFINE u == SubSeq(q, 1, k)
               v == SubSeq(q, k + 1, Len(q))
               s == u \o v
    <3>1. k \in Nat /\ Len(q) \in Nat /\ k <= Len(q)
      OBVIOUS
    <3>2. Len(u) = k /\ Len(v) = Len(q) - k /\ u \in Seq(Blocks) /\ v \in Seq(Blocks)
      BY <2>1, <3>1
    <3>3. \A i \in 1..k : u[i] = q[i]
      BY <3>1
    <3>4. \A i \in 1..Len(q) - k : v[i] = q[k + i]
      BY <3>1
    <3> HIDE DEF u, v
    <3>5. s \in Seq(Blocks) /\ Len(s) = Len(q)
      BY <3>1, <3>2
    <3>6. ASSUME NEW i \in 1..Len(q) PROVE s[i] = q[i]
      <4>1. CASE i <= k
        BY <3>1, <3>2, <3>3, <4>1
      <4>2. CASE i > k
        <5>1. s[i] = v[i - k]
          BY <3>1, <3>2, <4>2
        <5>2. i - k \in 1..Len(q) - k /\ k + (i - k) = i
          BY <3>1, <4>2
        <5> QED
          BY <3>4, <5>1, <5>2
      <4> HIDE DEF s
      <4>3. i <= k \/ i > k
        BY <3>1
      <4> QED
        BY <4>1, <4>2, <4>3
    <3> HIDE DEF s
    <3>7. s = q
      BY <3>5, <3>6
    <3> QED
      BY <3>7 DEF s, u, v
  <2> QED
    BY <1>2, <2>1, <2>2
<1>4. ASSUME NEW q \in Seq(Blocks), NEW n \in Int PROVE Shifted(q, n) \in Seq(Blocks)
  <2>1. \A x \in Int : Wrap(x) \in Rtp
    BY DEF Wrap, Rtp
  <2>2. ASSUME NEW i \in DOMAIN q PROVE [q[i] EXCEPT !.rtp = Wrap(@ + n)] \in Blocks
    <3>1. q[i] \in Blocks
      OBVIOUS
    <3>2. q[i].rtp + n \in Int
      BY <3>1 DEF Blocks, Rtp
    <3>3. Wrap(q[i].rtp + n) \in Rtp
      BY <2>1, <3>2
    <3> QED
      BY <3>1, <3>3 DEF Blocks
  <2>3. Shifted(q, n) = [i \in 1..Len(q) |-> [q[i] EXCEPT !.rtp = Wrap(@ + n)]]
    BY DEF Shifted
  <2> QED
    BY <2>2, <2>3
<1>5. ASSUME NEW q \in Seq(Blocks), q # <<>>
      PROVE  Last(q) \in Blocks /\ End(Last(q)) \in Rtp
  <2>1. Last(q) \in Blocks
    BY <1>5 DEF Last
  <2> QED
    BY <2>1 DEF End, Wrap, Rtp, Blocks
<1>6. ASSUME NEW b \in Blocks PROVE <<b>> \in Seq(Blocks) /\ Frames(<<b>>) = b.len
  <2>1. <<b>> \in Seq(Blocks)
    OBVIOUS
  <2> QED
    BY <2>1, FramesAdd
<1>7. Frames(<<>>) = 0 /\ <<>> \in Seq(Blocks)
  BY FramesAdd
\* A decoded block: what is too much goes out, the saved tail and the block go in.
<1>8. ASSUME CounterInv, NEW b \in Blocks, NEW late \in BOOLEAN, Enqueues(b, late)
      PROVE  /\ pcm' \in Seq(Blocks) /\ paused' \in Seq(Blocks) /\ queued' = Frames(pcm')
             /\ boundary' \in Rtp \cup {None} /\ imported' \in BOOLEAN
  <2> DEFINE k == Surplus(pcm, queued, b.len)
             kept == SubSeq(pcm, k + 1, Len(pcm))
             tail == IF imported THEN Imports(b, late) ELSE <<>>
             live == IF boundary # None THEN TrimBefore(b, boundary) ELSE b
             new == IF live.len > 0 THEN <<live>> ELSE <<>>
  <2>1. /\ pcm \in Seq(Blocks) /\ paused \in Seq(Blocks) /\ queued = Frames(pcm)
        /\ boundary \in Rtp \cup {None} /\ b.rtp \in Rtp /\ b.len \in 1..PktLen
    BY <1>8 DEF CounterInv, QueueTypeOK, CounterIsSum, Blocks
  <2>2. k \in 0..Len(pcm)
    <3> DEFINE off == {i \in 1..Len(pcm) :
                          \A j \in 0..i - 1 : queued - Frames(SubSeq(pcm, 1, j)) + b.len > Limit}
    <3>1. IsFiniteSet(1..Len(pcm)) /\ Cardinality(1..Len(pcm)) = Len(pcm) /\ Len(pcm) \in Nat
      <4>1. 1 \in Int /\ Len(pcm) \in Int /\ Len(pcm) \in Nat
        BY <2>1
      <4>2. IsFiniteSet(1..Len(pcm))
              /\ Cardinality(1..Len(pcm)) = IF 1 > Len(pcm) THEN 0 ELSE Len(pcm) - 1 + 1
        BY <4>1, FS_Interval
      <4> QED
        BY <4>1, <4>2
    <3>2. off \subseteq 1..Len(pcm)
      OBVIOUS
    <3>3. Cardinality(off) \in Nat /\ Cardinality(off) <= Len(pcm)
      BY <3>1, <3>2, FS_Subset, FS_CardinalityType
    <3>4. k = Cardinality(off)
      BY DEF Surplus
    <3> HIDE DEF k, off
    <3> QED
      BY <3>1, <3>3, <3>4
  <2>3. tail \in Seq(Blocks)
    <3>1. ASSUME paused # <<>> PROVE b.rtp - End(Last(paused)) \in Int
      BY <1>5, <2>1, <3>1 DEF Rtp
    <3> QED
      BY <1>4, <1>7, <2>1, <3>1 DEF Imports
  <2>4. live.len \in Nat /\ (live.len > 0 => live \in Blocks)
    <3>1. CASE boundary = None
      BY <2>1, <3>1
    <3>2. CASE boundary # None
      <4>1. TrimBefore(b, boundary).len \in 0..PktLen
              /\ (TrimBefore(b, boundary).len > 0 => TrimBefore(b, boundary) \in Blocks)
        BY <2>1, <3>2, Trimmed
      <4> QED
        BY <3>2, <4>1
    <3> QED
      BY <3>1, <3>2
  <2>5. new \in Seq(Blocks) /\ Frames(new) = live.len
    <3> HIDE DEF live
    <3> QED
      BY <1>6, <1>7, <2>4
  <2>6. /\ pcm' = kept \o tail \o new
        /\ queued' = queued - Frames(SubSeq(pcm, 1, k)) + (Frames(tail) + live.len)
        /\ boundary' = IF new # <<>> THEN None ELSE boundary
        /\ imported' = FALSE
    BY <1>8 DEF Enqueues, Counted
  <2>7. paused' \in Seq(Blocks)
    <3>1. paused' = IF imported THEN <<>>
                    ELSE IF boundary # None /\ paused # <<>> THEN Drained(b) ELSE paused
      BY <1>8 DEF Enqueues
    <3>2. ASSUME boundary # None, paused # <<>> PROVE Drained(b) \in Seq(Blocks)
      <4> DEFINE d == TrimBefore(b, End(Last(paused)))
                 remaining == Wrap(boundary - d.rtp)
                 saved == [d EXCEPT !.len = Least(d.len, remaining)]
      <4>1. d \in [rtp : Rtp, len : 0..PktLen, src : Nat]
        BY <1>5, <2>1, <3>2, Trimmed
      <4>2. remaining \in Nat
        <5>1. boundary \in Int /\ d.rtp \in Int
          BY <2>1, <3>2, <4>1 DEF Rtp
        <5> HIDE DEF d
        <5> QED
          BY <5>1 DEF Wrap
      <4>3. ASSUME d.len > 0, remaining > 0 PROVE saved \in Blocks
        <5>1. Least(d.len, remaining) \in 1..PktLen
          <6> HIDE DEF d, remaining
          <6> QED
            BY <4>1, <4>2, <4>3 DEF Least
        <5> HIDE DEF d, remaining
        <5> QED
          BY <4>1, <5>1 DEF Blocks
      <4>4. \/ Drained(b) = paused
            \/ d.len > 0 /\ remaining > 0 /\ Drained(b) = Append(paused, saved)
        BY DEF Drained
      <4> HIDE DEF saved, d, remaining
      <4> QED
        BY <2>1, <4>3, <4>4
    <3> QED
      BY <1>7, <2>1, <3>1, <3>2
  <2> HIDE DEF k, kept, tail, live, new
  <2>8. /\ SubSeq(pcm, 1, k) \in Seq(Blocks) /\ kept \in Seq(Blocks)
        /\ Frames(pcm) = Frames(SubSeq(pcm, 1, k)) + Frames(kept)
    BY <1>3, <2>1, <2>2 DEF kept
  <2>9. kept \o tail \in Seq(Blocks) /\ Frames(kept \o tail) = Frames(kept) + Frames(tail)
    BY <1>2, <2>3, <2>8
  <2>10. /\ kept \o tail \o new \in Seq(Blocks)
         /\ Frames(kept \o tail \o new) = Frames(kept) + Frames(tail) + live.len
    BY <1>2, <2>5, <2>9
  <2>11. /\ Frames(pcm) \in Nat /\ Frames(SubSeq(pcm, 1, k)) \in Nat /\ Frames(kept) \in Nat
         /\ Frames(tail) \in Nat /\ live.len \in Nat
    BY <2>1, <2>3, <2>4, <2>8, FramesAdd
  <2>12. queued' = Frames(kept) + Frames(tail) + live.len
    BY <2>1, <2>6, <2>8, <2>11
  <2> QED
    BY <2>1, <2>6, <2>7, <2>10, <2>12
<1>9. CounterInv /\ [QueueNext]_queueVars => CounterInv'
  <2> SUFFICES ASSUME CounterInv, [QueueNext]_queueVars PROVE CounterInv'
    OBVIOUS
  <2>0. /\ pcm \in Seq(Blocks) /\ paused \in Seq(Blocks) /\ queued = Frames(pcm) /\ queued \in Nat
        /\ boundary \in Rtp \cup {None} /\ imported \in BOOLEAN /\ sync \in BOOLEAN
        /\ clear \in BOOLEAN /\ sink \subseteq {"old", "new"}
        /\ sent \in Nat /\ ahead \in Rtp /\ heldUp \subseteq Blocks /\ ops \in 0..MaxOps
    BY DEF CounterInv, QueueTypeOK, CounterIsSum
  <2>1. ASSUME pcm' \in Seq(Blocks), paused' \in Seq(Blocks), queued' = Frames(pcm'),
               boundary' \in Rtp \cup {None}, imported' \in BOOLEAN, sync' \in BOOLEAN,
               clear' \in BOOLEAN, sink' \subseteq {"old", "new"},
               sent' \in Nat, ahead' \in Rtp, heldUp' \subseteq Blocks, ops' \in 0..MaxOps
        PROVE  CounterInv'
    <3>1. Frames(pcm') \in Nat
      BY <2>1, FramesAdd
    <3>2. mixed' \in BOOLEAN
      <4>1. CASE UNCHANGED queueVars
        BY <4>1 DEF queueVars, CounterInv, QueueTypeOK
      <4>2. CASE QueueNext
        BY <4>2, Zenon DEF QueueNext, Holds
      <4> QED
        BY <4>1, <4>2
    <3> QED
      BY <2>1, <3>1, <3>2 DEF CounterInv, QueueTypeOK, CounterIsSum
  <2>2. \A x \in Int : Wrap(x) \in Rtp
    BY DEF Wrap, Rtp
  <2>3. Packet \in Blocks
    <3>1. sent + ahead \in Int /\ PktLen \in 1..PktLen
      BY <2>0 DEF Rtp
    <3>2. Wrap(sent + ahead) \in Rtp
      BY <2>2, <3>1
    <3> QED
      BY <2>0, <3>1, <3>2 DEF Packet, Block, Blocks
  <2>4. CASE Lost \/ FallsBehind
    <3>1. heldUp' \subseteq Blocks
      BY <2>0, <2>4, <2>3 DEF Lost, FallsBehind
    <3>2. UNCHANGED <<queue, out, ahead, sync, ops>> /\ sent' = sent + PktLen
      BY <2>4 DEF Lost, FallsBehind, SendsNext
    <3> QED
      BY <2>0, <2>1, <3>1, <3>2 DEF queue, out
  <2>5. CASE CatchesUp
    <3>1. PICK b \in heldUp, late \in BOOLEAN : Enqueues(b, late) /\ heldUp' = heldUp \ {b}
      BY <2>5 DEF CatchesUp
    <3>2. /\ pcm' \in Seq(Blocks) /\ paused' \in Seq(Blocks) /\ queued' = Frames(pcm')
          /\ boundary' \in Rtp \cup {None} /\ imported' \in BOOLEAN
      <4>1. b \in Blocks
        BY <2>0
      <4> QED
        BY <1>8, <3>1, <4>1
    <3>3. UNCHANGED <<out, sent, ahead, sync, ops>>
      BY <2>5 DEF CatchesUp
    <3> QED
      BY <2>0, <2>1, <3>1, <3>2, <3>3 DEF out
  <2>6. CASE Received
    <3>1. PICK late \in BOOLEAN : Enqueues(Packet, late)
      BY <2>6 DEF Received
    <3>2. Packet \in Blocks
      BY <2>3
    <3>3. /\ pcm' \in Seq(Blocks) /\ paused' \in Seq(Blocks) /\ queued' = Frames(pcm')
          /\ boundary' \in Rtp \cup {None} /\ imported' \in BOOLEAN
      BY <1>8, <3>1, <3>2
    <3>4. sent' = sent + PktLen /\ UNCHANGED <<out, ahead, heldUp, sync, ops>>
      BY <2>6 DEF Received, SendsNext
    <3> QED
      BY <2>0, <2>1, <3>3, <3>4 DEF out
  <2>7. CASE ClearsSink
    BY <2>0, <2>1, <2>7 DEF ClearsSink, queue, net
  \* A block taken out: it was counted, and the others are.
  <2>8. CASE Plays \/ DropsLate
    <3>1. Takes /\ sink' \subseteq {"old", "new"} /\ clear' = clear
      BY <2>0, <2>8 DEF Plays, DropsLate, out
    <3>2. pcm # <<>> /\ queued' = queued - Head(pcm).len /\ pcm' = Tail(pcm)
      BY <3>1 DEF Takes
    <3>3. Head(pcm) \in Blocks /\ Tail(pcm) \in Seq(Blocks) /\ pcm = <<Head(pcm)>> \o Tail(pcm)
      BY <2>0, <3>2
    <3>4. Frames(pcm) = Head(pcm).len + Frames(Tail(pcm)) /\ Head(pcm).len \in Nat
            /\ Frames(Tail(pcm)) \in Nat
      <4>1. <<Head(pcm)>> \in Seq(Blocks) /\ Frames(<<Head(pcm)>>) = Head(pcm).len
        BY <1>6, <3>3
      <4>2. Frames(<<Head(pcm)>> \o Tail(pcm)) = Frames(<<Head(pcm)>>) + Frames(Tail(pcm))
        BY <1>2, <3>3, <4>1
      <4> QED
        BY <3>3, <4>1, <4>2, FramesAdd DEF Blocks
    <3>5. queued' = Frames(pcm')
      BY <2>0, <3>2, <3>4
    <3> QED
      BY <2>0, <2>1, <3>1, <3>2, <3>3, <3>5 DEF Takes, net
  <2>9. ASSUME ClearsOutput PROVE clear' \in BOOLEAN /\ sink' \subseteq {"old", "new"}
    BY <2>9 DEF ClearsOutput
  <2>10. ASSUME Operates PROVE ops' \in 0..MaxOps
    BY <2>0, <2>10 DEF Operates
  <2>11. CASE FlushAll \/ SetSynchronized
    BY <1>7, <2>0, <2>1, <2>9, <2>10, <2>11 DEF FlushAll, SetSynchronized, FlushesAll, net
  <2>12. ASSUME NEW d \in Leads, FlushTo(Wrap(sent + ahead + d)) PROVE CounterInv'
    <3> DEFINE r == Wrap(sent + ahead + d)
    <3>1. r \in Rtp
      <4>1. sent + ahead + d \in Int
        BY <2>0 DEF Rtp
      <4> QED
        BY <2>2, <4>1
    <3> HIDE DEF r
    <3>2. FlushTo(r)
      BY <2>12 DEF r
    <3>3. TrimQueue(pcm, r) \in Seq(Blocks)
      BY <2>0, <3>1, TrimsQueue
    <3>4. pcm' = TrimQueue(pcm, r) /\ queued' = queued - (Frames(pcm) - Frames(TrimQueue(pcm, r)))
      BY <3>2 DEF FlushTo
    <3>5. queued' = Frames(pcm')
      <4>1. Frames(pcm) \in Nat /\ Frames(TrimQueue(pcm, r)) \in Nat
        BY <2>0, <3>3, FramesAdd
      <4> QED
        BY <2>0, <3>4, <4>1
    <3>6. paused' \in Seq(Blocks)
      BY <1>7, <2>0, <3>2 DEF FlushTo, Saved
    <3>7. Operates /\ ClearsOutput /\ boundary' = r /\ UNCHANGED <<imported, net, sync>>
      BY <3>2 DEF FlushTo
    <3> QED
      BY <2>0, <2>1, <2>9, <2>10, <3>1, <3>3, <3>4, <3>5, <3>6, <3>7 DEF net
  <2>13. CASE ResumeDiscards \/ DiscardPause
    BY <1>7, <2>0, <2>1, <2>10, <2>13 DEF ResumeDiscards, DiscardPause, out, net
  <2>14. ASSUME NEW n \in Pauses, Resume(n) PROVE CounterInv'
    <3> DEFINE tail == Shifted(paused, n)
               end == End(Last(tail))
    <3>1. /\ Operates /\ paused # <<>> /\ pcm' = tail \o Overlaps(pcm, end)
          /\ queued' = Frames(pcm') /\ boundary' = end /\ paused' = <<>>
          /\ \E j \in Jitter : ahead' = Wrap(ahead + n + j)
          /\ UNCHANGED <<imported, out, sent, heldUp, sync>>
      BY <2>14 DEF Resume
    <3>2. n \in Int
      OBVIOUS
    <3>3. tail \in Seq(Blocks) /\ tail # <<>>
      <4>1. Len(tail) = Len(paused)
        BY <2>0 DEF Shifted
      <4>2. Len(paused) # 0
        BY <2>0, <3>1
      <4> QED
        BY <1>4, <2>0, <3>2, <4>1, <4>2
    <3> HIDE DEF tail
    <3>4. end \in Rtp
      BY <1>5, <3>3
    <3> HIDE DEF end
    <3>5. pcm' \in Seq(Blocks)
      BY <2>0, <3>1, <3>3, <3>4, TrimsQueue DEF Overlaps
    <3>6. ahead' \in Rtp
      BY <2>0, <2>2, <3>1, <3>2 DEF Rtp
    <3> QED
      BY <1>7, <2>0, <2>1, <2>10, <3>1, <3>4, <3>5, <3>6 DEF out
  <2>15. ASSUME NEW r \in Epochs, NEW y \in BOOLEAN, Recreate(r, y) PROVE CounterInv'
    <3>1. ahead' \in Rtp
      BY <2>0, <2>2, <2>15 DEF Recreate, Rtp
    <3>2. paused' \in Seq(Blocks)
      BY <1>7, <2>0, <2>15 DEF Recreate, Saved
    <3> QED
      BY <1>7, <2>0, <2>1, <2>10, <2>15, <3>1, <3>2 DEF Recreate
  <2>16. CASE UNCHANGED queueVars
    BY <2>0, <2>1, <2>16 DEF queueVars, queue, out, net
  <2> QED
    BY <2>4, <2>6, <2>7, <2>8, <2>11, <2>12, <2>13, <2>14, <2>15, <2>16, <2>5
       DEF QueueNext, QueueControl
<1> QED
  BY <1>1, <1>9, PTL DEF QueueSpec

\* queued_samples_, which receive, play-out and control thread keep by hand, is what
\* pcm_queue_ holds, whatever is put in, trimmed, taken off, saved and put back.
THEOREM CounterExact == QueueSpec => []CounterIsSum
<1>1. CounterInv => CounterIsSum
  BY DEF CounterInv
<1> QED
  BY <1>1, CounterInvariance, PTL

-----------------------------------------------------------------------------
\* The order of the queues.  A timestamp says where a block lies only for half a turn,
\* so the proof keeps, for each block, how far it lies behind the next packet's.
Due == Wrap(sent + ahead)
Lag(b, mark) == Wrap(mark - b.rtp)
Later(mark, s) == Wrap(mark + s)

\* The oldest block is at most so far behind when no pause is longer than K.
Age(K) == sent + K * ops

\* 2^32 timestamps and a queue of seconds leave room for a stream of half a day.
WithinHalfATurn(K) ==
    /\ Jitter \subseteq Nat /\ \A n \in Pauses, j \in Jitter : n + j <= K
    /\ MaxSrc + PktLen + K * MaxOps <= RtpMod \div 2

\* The blocks of a queue lie one behind the other, in time and in the music, and all of
\* them before the mark and the music that are to come.
Placed(q, mark, age, upto) ==
    /\ \A i \in DOMAIN q :
          /\ q[i].len <= Lag(q[i], mark) /\ Lag(q[i], mark) <= age
          /\ q[i].src + q[i].len <= upto
    /\ \A i, j \in DOMAIN q : i < j =>
          /\ Lag(q[j], mark) + q[i].len <= Lag(q[i], mark)
          /\ q[i].src + q[i].len <= q[j].src

\* What is left of a queue that is taken from the front.
IsRest(r, q) == \E k \in Nat : \A i \in 1..Len(r) : k + i \in 1..Len(q) /\ r[i] = q[k + i]

\* A queue of blocks that are left from another, in their order and perhaps trimmed,
\* looked at from a mark that is s later.
Remains(r, then, since, q, mark, s) ==
    \E f \in [1..Len(r) -> 1..Len(q)], c \in [1..Len(r) -> Nat] :
        /\ \A i, j \in 1..Len(r) : i < j => f[i] < f[j]
        /\ \A i \in 1..Len(r) : /\ r[i].len = q[f[i]].len - c[i]
                                /\ r[i].src = q[f[i]].src + c[i]
                                /\ Lag(r[i], then) = Lag(q[f[i]], mark) + s - c[i]
                                /\ r[i].len <= Lag(r[i], then) /\ Lag(r[i], then) <= since

\* What a boundary leaves of a block ends where the block did.
IsLeft(d, b, end, mark) ==
    /\ Excess(b, end) \in Nat
    /\ d.len = b.len - Excess(b, end) /\ d.len > 0
    /\ d.src = b.src + Excess(b, end)
    /\ Lag(d, mark) = Lag(b, mark) - Excess(b, end)

\* A mark that is put off by s, or brought forward no further than to where a block ends.
Moves(q, mark, s, since) ==
    \A i \in DOMAIN q : q[i].len <= Lag(q[i], mark) + s /\ Lag(q[i], mark) + s <= since

\* What has come since a pause ends with the saved tail, or has later music.
Past(b, z, mark) ==
    \/ Lag(z, mark) - z.len <= Lag(b, mark) - b.len
    \/ z.src + z.len <= b.src
Follows(q, saved, mark) == saved # <<>> => \A i \in DOMAIN q : Past(q[i], Last(saved), mark)

\* The order of the queues is not inductive: what resume() puts in front must also go
\* on where the rest begins.  A tail of the previous receiver has a clock of its own.
\* Late packets disturb it, but not for longer than until both queues are empty.
InTurn(K) ==
    /\ sent < MaxSrc + PktLen
    /\ imported => pcm = <<>>
    /\ Placed(pcm, Due, Age(K), sent)
    /\ IF imported THEN \E mark \in Rtp : Placed(paused, mark, Age(K), sent)
       ELSE Placed(paused, Due, Age(K), sent) /\ Follows(pcm, paused, Due)
OrderInv(K) == sent < MaxSrc + PktLen /\ (mixed \/ InTurn(K))

LEMMA OrderInvariance ==
    ASSUME NEW K \in Nat, WithinHalfATurn(K)
    PROVE  QueueSpec => [](OrderInv(K) /\ QueueInOrder)
<1>1. /\ \A x \in Int : Wrap(x) \in Rtp /\ Wrap(x) \in Int
      /\ RtpMod \in Nat /\ RtpMod > 0 /\ Rtp = 0..RtpMod - 1 /\ PktLen \in Nat
  BY Turns, AudioAssumption DEF Wrap, Rtp
<1>2. ASSUME NEW x \in Int, NEW y \in Int
      PROVE  /\ Wrap(Wrap(x) + y) = Wrap(x + y) /\ Wrap(y - Wrap(x)) = Wrap(y - x)
             /\ Wrap(x) + y \in Rtp => Wrap(x + y) = Wrap(x) + y
  <2>1. /\ ((x % RtpMod) + y) % RtpMod = (x + y) % RtpMod
        /\ (y - (x % RtpMod)) % RtpMod = (y - x) % RtpMod
        /\ (x % RtpMod) + y \in 0..RtpMod - 1 => (x + y) % RtpMod = (x % RtpMod) + y
    <3>1. RtpMod \in Nat \ {0}
      BY <1>1
    <3> QED
      BY <3>1, Turns, Zenon
  <2> QED
    BY <2>1, Zenon DEF Wrap, Rtp
<1>3. ASSUME NEW x \in Rtp PROVE Wrap(x) = x
  <2>0. \A y \in Rtp : y \in Int
    BY <1>1
  <2>1. x \in Int /\ x + 0 = x /\ Wrap(x) \in Rtp /\ Wrap(x) \in Int
    BY <1>1, <2>0
  <2>2. Wrap(Wrap(x) + 0) = Wrap(x + 0)
    BY <1>2, <2>1
  <2> DEFINE w == Wrap(x)
  <2>3. w % RtpMod = x % RtpMod
    BY <2>1, <2>2 DEF Wrap
  <2>4. w \in 0..RtpMod - 1 /\ x \in 0..RtpMod - 1 /\ RtpMod \in Nat \ {0}
    BY <1>1, <2>1
  <2> HIDE DEF w
  <2>5. ~(0 < w - x /\ w - x < RtpMod) /\ ~(0 < x - w /\ x - w < RtpMod)
    <3>1. \A y, z \in Int : 0 < y - z /\ y - z < RtpMod => y % RtpMod # z % RtpMod
      BY <2>4, Turns
    <3>2. w \in Int /\ x \in Int
      BY <2>4
    <3> QED
      BY <2>3, <3>1, <3>2
  <2> QED
    BY <2>4, <2>5 DEF w
<1>4. ASSUME NEW b \in Blocks
      PROVE  /\ b.rtp \in Rtp /\ b.rtp \in Int /\ b.src \in Nat
             /\ b.len \in Nat /\ b.len > 0 /\ b.len <= PktLen
  <2>1. b.rtp \in Rtp /\ b.src \in Nat /\ b.len \in 1..PktLen
    BY DEF Blocks
  <2>2. PktLen \in Nat
    BY <1>1
  <2>3. b.len \in Nat /\ b.len > 0 /\ b.len <= PktLen
    BY <2>1, <2>2
  <2>4. b.rtp \in Int
    <3>1. \A x \in Rtp : x \in Int
      BY <1>1
    <3> QED
      BY <2>1, <3>1
  <2> QED
    BY <2>1, <2>3, <2>4
<1>5. ASSUME NEW b \in Blocks, NEW mark \in Rtp PROVE Lag(b, mark) \in Rtp /\ Lag(b, mark) \in Nat
  <2>1. mark - b.rtp \in Int
    <3>1. \A x \in Rtp : x \in Int
      BY <1>1
    <3>2. mark \in Int /\ b.rtp \in Int
      BY <1>4, <3>1
    <3> QED
      BY <3>2
  <2>2. Wrap(mark - b.rtp) \in Rtp
    BY <1>1, <2>1
  <2> QED
    BY <1>1, <2>2 DEF Lag
\* A mark, or a block, or both, that are put off.
<1>6. ASSUME NEW b, b.rtp \in Int, NEW mark \in Int, NEW k \in Int, Lag(b, mark) + k \in Rtp
      PROVE  Lag(b, Wrap(mark + k)) = Lag(b, mark) + k
  <2> DEFINE r == b.rtp
             w == Wrap(mark + k)
             u == mark - r
  <2>1. r \in Int /\ -r \in Int /\ mark + k \in Int /\ u \in Int
    BY <1>6
  <2> HIDE DEF r
  <2>2. w \in Int /\ Wrap(w + (-r)) = Wrap((mark + k) + (-r))
    <3> DEFINE t == mark + k
    <3>1. t \in Int /\ -r \in Int
      BY <2>1
    <3> HIDE DEF t
    <3>2. Wrap(t) \in Int /\ Wrap(Wrap(t) + (-r)) = Wrap(t + (-r))
      BY <1>1, <1>2, <3>1, Zenon
    <3> QED
      BY <3>2, Zenon DEF t
  <2>3. w - r = w + (-r) /\ (mark + k) + (-r) = u + k
    BY <2>1, <2>2
  <2> HIDE DEF w, u
  <2>4. Wrap(u) + k \in Rtp
    BY <1>6 DEF Lag, u, r
  <2>5. Wrap(u + k) = Wrap(u) + k
    BY <1>2, <1>6, <2>1, <2>4
  <2>6. Wrap(w - r) = Wrap(u) + k
    BY <2>2, <2>3, <2>5
  <2> QED
    BY <2>6 DEF Lag, w, u, r
<1>7. ASSUME NEW b, b.rtp \in Int, NEW d, NEW mark \in Int, NEW n \in Int,
             d.rtp = Wrap(b.rtp + n), Lag(b, mark) - n \in Rtp
      PROVE  Lag(d, mark) = Lag(b, mark) - n
  <2> DEFINE r == b.rtp
             u == mark - r
  <2>1. r \in Int /\ r + n \in Int /\ u \in Int /\ -n \in Int
    BY <1>7
  <2>2. mark - (r + n) = u + (-n)
    BY <1>7
  <2>3. Wrap(mark - Wrap(r + n)) = Wrap(mark - (r + n))
    BY <1>2, <1>7, <2>1
  <2> HIDE DEF u
  <2>4. Wrap(u) \in Int /\ Wrap(u) - n \in Rtp
    BY <1>1, <1>7, <2>1 DEF Lag, u
  <2>5. Wrap(u) + (-n) \in Rtp /\ Wrap(u) + (-n) = Wrap(u) - n
    BY <1>7, <2>4
  <2>6. Wrap(u + (-n)) = Wrap(u) - n
    BY <1>2, <2>1, <2>5
  <2>7. Wrap(mark - Wrap(r + n)) = Wrap(u) - n
    BY <2>2, <2>3, <2>6
  <2> QED
    BY <1>7, <2>7 DEF Lag, u
<1>8. ASSUME NEW b, b.rtp \in Int, NEW d, NEW mark \in Int, NEW n \in Int,
             d.rtp = Wrap(b.rtp + n)
      PROVE  Lag(d, Wrap(mark + n)) = Lag(b, mark)
  <2> DEFINE t == b.rtp + n
             w == Wrap(mark + n)
  <2>1. t \in Int /\ -t \in Int /\ mark + n \in Int /\ (mark + n) + (-t) = mark - b.rtp
    BY <1>8
  <2>2. w \in Int /\ Wrap(w + (-t)) = Wrap((mark + n) + (-t))
    BY <1>1, <1>2, <2>1
  <2> HIDE DEF t, w
  <2>3. w - t = w + (-t)
    BY <2>1, <2>2
  <2>4. Wrap(w - Wrap(t)) = Wrap(w - t)
    BY <1>2, <2>1, <2>2
  <2>5. Wrap(w - Wrap(t)) = Wrap(mark - b.rtp)
    BY <2>1, <2>2, <2>3, <2>4
  <2> QED
    BY <1>8, <2>5 DEF Lag, t, w
<1>9. ASSUME NEW q \in Seq(Blocks), NEW r \in Seq(Blocks), NEW mark \in Rtp, NEW then \in Rtp,
             NEW age \in Int, NEW since \in Int, NEW upto \in Int, NEW more \in Int, upto <= more,
             NEW s \in Int, Placed(q, mark, age, upto), Remains(r, then, since, q, mark, s)
      PROVE  Placed(r, then, since, more)
  <2>0. PICK f \in [1..Len(r) -> 1..Len(q)], c \in [1..Len(r) -> Nat] :
           /\ \A i, j \in 1..Len(r) : i < j => f[i] < f[j]
           /\ \A i \in 1..Len(r) : /\ r[i].len = q[f[i]].len - c[i]
                                   /\ r[i].src = q[f[i]].src + c[i]
                                   /\ Lag(r[i], then) = Lag(q[f[i]], mark) + s - c[i]
                                   /\ r[i].len <= Lag(r[i], then) /\ Lag(r[i], then) <= since
    BY <1>9 DEF Remains
  <2>1. DOMAIN q = 1..Len(q) /\ DOMAIN r = 1..Len(r) /\ Len(q) \in Nat /\ Len(r) \in Nat
        /\ (\A i \in 1..Len(r) : r[i] \in Blocks) /\ (\A i \in 1..Len(q) : q[i] \in Blocks)
    OBVIOUS
  <2>2. ASSUME NEW i \in 1..Len(r)
        PROVE  /\ r[i].len <= Lag(r[i], then) /\ Lag(r[i], then) <= since
               /\ r[i].src + r[i].len <= more
    <3> DEFINE m == q[f[i]].src
               n == q[f[i]].len
               k == c[i]
    <3>1. m + n <= upto /\ f[i] \in 1..Len(q)
      BY <1>9, <2>1 DEF Placed
    <3>2. m \in Nat /\ n \in Nat /\ k \in Nat
      <4>1. q[f[i]] \in Blocks /\ c[i] \in Nat
        BY <2>1, <3>1
      <4> QED
        BY <1>4, <4>1
    <3>3. r[i].src = m + k /\ r[i].len = n - k
      BY <2>0
    <3> HIDE DEF m, n, k
    <3>4. upto <= more
      BY <1>9
    <3>5. (m + k) + (n - k) <= more
      BY <3>1, <3>2, <3>4
    <3> QED
      BY <2>0, <3>3, <3>5
  <2>3. ASSUME NEW i \in 1..Len(r), NEW j \in 1..Len(r), i < j
        PROVE  /\ Lag(r[j], then) + r[i].len <= Lag(r[i], then)
               /\ r[i].src + r[i].len <= r[j].src
    <3> DEFINE m == q[f[i]].src
               n == q[f[i]].len
               l == Lag(q[f[i]], mark)
               k == c[i]
               m2 == q[f[j]].src
               l2 == Lag(q[f[j]], mark)
               k2 == c[j]
    <3>1. f[i] \in 1..Len(q) /\ f[j] \in 1..Len(q) /\ f[i] < f[j]
      BY <2>0, <2>3
    <3>2. l2 + n <= l /\ m + n <= m2
      BY <1>9, <2>1, <3>1 DEF Placed
    <3>3. /\ m \in Nat /\ n \in Nat /\ k \in Nat /\ m2 \in Nat /\ k2 \in Nat
          /\ l \in Nat /\ l2 \in Nat
      <4>1. q[f[i]] \in Blocks /\ q[f[j]] \in Blocks /\ c[i] \in Nat /\ c[j] \in Nat
        BY <2>1, <3>1
      <4> QED
        BY <1>4, <1>5, <4>1
    <3>4. /\ r[i].src = m + k /\ r[i].len = n - k /\ r[j].src = m2 + k2
          /\ Lag(r[i], then) = l + s - k /\ Lag(r[j], then) = l2 + s - k2
      BY <2>0
    <3> HIDE DEF m, n, l, k, m2, l2, k2
    <3>5. (l2 + s - k2) + (n - k) <= l + s - k /\ (m + k) + (n - k) <= m2 + k2
      BY <3>2, <3>3
    <3> QED
      BY <3>4, <3>5
  <2> QED
    BY <2>1, <2>2, <2>3 DEF Placed
<1>10. ASSUME NEW q \in Seq(Blocks), NEW r \in Seq(Blocks), NEW mark, NEW age, NEW upto,
             Placed(q, mark, age, upto), Placed(r, mark, age, upto),
             \A i \in DOMAIN q, j \in DOMAIN r :
                /\ Lag(r[j], mark) + q[i].len <= Lag(q[i], mark)
                /\ q[i].src + q[i].len <= r[j].src
      PROVE  q \o r \in Seq(Blocks) /\ Placed(q \o r, mark, age, upto)
  <2> DEFINE s == q \o r
             m == Len(q)
  <2>1. /\ s \in Seq(Blocks) /\ m \in Nat /\ Len(r) \in Nat /\ Len(s) = m + Len(r)
        /\ DOMAIN q = 1..m /\ DOMAIN r = 1..Len(r) /\ DOMAIN s = 1..Len(s)
        /\ \A i \in 1..m : s[i] = q[i]
        /\ \A i \in 1..Len(r) : s[m + i] = r[i]
    OBVIOUS
  <2> HIDE DEF s, m
  <2>2. ASSUME NEW i \in 1..Len(s)
        PROVE  \/ i \in 1..m /\ s[i] = q[i]
               \/ i - m \in 1..Len(r) /\ s[i] = r[i - m]
    <3>1. CASE i <= m
      BY <2>1, <3>1
    <3>2. CASE i > m
      <4>1. i - m \in 1..Len(r) /\ m + (i - m) = i
        BY <2>1, <3>2
      <4>2. s[m + (i - m)] = r[i - m]
        BY <2>1, <4>1
      <4> QED
        BY <4>1, <4>2
    <3> QED
      BY <2>1, <3>1, <3>2
  <2>3. ASSUME NEW i \in 1..Len(s)
        PROVE  /\ s[i].len <= Lag(s[i], mark) /\ Lag(s[i], mark) <= age
               /\ s[i].src + s[i].len <= upto
    BY <1>10, <2>1, <2>2 DEF Placed
  <2>4. ASSUME NEW i \in 1..Len(s), NEW j \in 1..Len(s), i < j
        PROVE  /\ Lag(s[j], mark) + s[i].len <= Lag(s[i], mark)
               /\ s[i].src + s[i].len <= s[j].src
    <3>1. CASE i \in 1..m /\ j \in 1..m
      BY <1>10, <2>1, <2>4, <3>1 DEF Placed
    <3>2. CASE i \in 1..m /\ j \notin 1..m
      <4>1. j - m \in 1..Len(r) /\ s[j] = r[j - m] /\ s[i] = q[i]
        BY <2>1, <2>2, <3>2
      <4> QED
        BY <1>10, <2>1, <3>2, <4>1
    <3>3. CASE i \notin 1..m
      <4>1. j \notin 1..m /\ i - m < j - m
        BY <2>1, <2>4, <3>3
      <4>2. i - m \in 1..Len(r) /\ s[i] = r[i - m] /\ j - m \in 1..Len(r) /\ s[j] = r[j - m]
        BY <2>2, <3>3, <4>1
      <4> QED
        BY <1>10, <2>1, <4>1, <4>2 DEF Placed
    <3> QED
      BY <3>1, <3>2, <3>3
  <2>5. Placed(s, mark, age, upto)
    BY <2>1, <2>3, <2>4 DEF Placed
  <2> QED
    BY <2>1, <2>5 DEF s
<1>11. \A mark, age, upto : Placed(<<>>, mark, age, upto)
  BY DEF Placed
<1>12. ASSUME NEW q \in Seq(Blocks), NEW mark \in Rtp, NEW age \in Int, NEW upto \in Int,
              Placed(q, mark, age, upto), NEW s \in Seq(Blocks), IsRest(s, q)
       PROVE  /\ Placed(s, mark, age, upto)
              /\ \A i \in DOMAIN s : \E j \in DOMAIN q : s[i] = q[j]
  <2>0. PICK k \in Nat : \A i \in 1..Len(s) : k + i \in 1..Len(q) /\ s[i] = q[k + i]
    BY <1>12 DEF IsRest
  <2> DEFINE f == [i \in 1..Len(s) |-> k + i]
             c == [i \in 1..Len(s) |-> 0]
  <2>1. /\ Len(s) \in Nat /\ DOMAIN s = 1..Len(s) /\ DOMAIN q = 1..Len(q)
        /\ \A i \in 1..Len(s) : k + i \in 1..Len(q) /\ s[i] = q[k + i]
    BY <2>0
  <2>2. /\ f \in [1..Len(s) -> 1..Len(q)] /\ c \in [1..Len(s) -> Nat]
        /\ \A i, j \in 1..Len(s) : i < j => f[i] < f[j]
        /\ \A i \in 1..Len(s) : f[i] \in 1..Len(q) /\ s[i] = q[f[i]] /\ c[i] = 0
    BY <2>1
  <2> HIDE DEF f, c
  <2>3. ASSUME NEW i \in 1..Len(s)
        PROVE  /\ s[i].len = q[f[i]].len - c[i] /\ s[i].src = q[f[i]].src + c[i]
               /\ Lag(s[i], mark) = Lag(q[f[i]], mark) + 0 - c[i]
               /\ s[i].len <= Lag(s[i], mark) /\ Lag(s[i], mark) <= age
    <3>1. s[i] \in Blocks /\ q[f[i]] = s[i] /\ c[i] = 0 /\ f[i] \in DOMAIN q
      BY <2>1, <2>2
    <3>2. s[i].len \in Nat /\ s[i].src \in Nat /\ Lag(s[i], mark) \in Nat
      BY <1>4, <1>5, <3>1
    <3>3. s[i].len <= Lag(s[i], mark) /\ Lag(s[i], mark) <= age
      BY <1>12, <3>1 DEF Placed
    <3>4. \A x \in Nat : x - 0 = x /\ x + 0 = x /\ x + 0 - 0 = x
      OBVIOUS
    <3>5. s[i].len - 0 = s[i].len /\ s[i].src + 0 = s[i].src
          /\ Lag(s[i], mark) + 0 - 0 = Lag(s[i], mark)
      BY <3>2, <3>4
    <3> QED
      BY <3>1, <3>3, <3>5
  <2>4. Remains(s, mark, age, q, mark, 0)
    BY <2>2, <2>3 DEF Remains
  <2>5. Placed(s, mark, age, upto)
    <3>1. Placed(q, mark, age, upto) /\ upto <= upto /\ 0 \in Int
      BY <1>12
    <3> QED
      BY <1>9, <2>1, <2>4, <3>1
  <2>6. \A i \in DOMAIN s : \E j \in DOMAIN q : s[i] = q[j]
    BY <2>1
  <2> QED
    BY <2>1, <2>5, <2>6
\* The loops of flush() and resume(): what is left of a block ends where the block did.
<1>13. ASSUME NEW q \in Seq(Blocks), NEW mark \in Rtp, NEW age \in Int, NEW upto \in Int,
              Placed(q, mark, age, upto), NEW end \in Rtp,
              NEW r, r = TrimQueue(q, end)
       PROVE  /\ r \in Seq(Blocks) /\ Placed(r, mark, age, upto)
              /\ \A i \in DOMAIN r : \E j \in DOMAIN q : IsLeft(r[i], q[j], end, mark)
  <2>1. r \in Seq(Blocks) /\ DOMAIN r = 1..Len(r) /\ DOMAIN q = 1..Len(q)
    BY <1>13, TrimsQueue
  <2>2. PICK f \in [1..Len(r) -> 1..Len(q)] :
           /\ \A i, j \in 1..Len(r) : i < j => f[i] < f[j]
           /\ \A i \in 1..Len(r) : r[i] = TrimBefore(q[f[i]], end)
    BY <1>13, TrimsQueue
  <2> DEFINE c == [i \in 1..Len(r) |-> Excess(q[f[i]], end)]
  <2>3. ASSUME NEW i \in 1..Len(r)
        PROVE  LET b == q[f[i]]
                   k == Excess(b, end)
               IN  /\ f[i] \in DOMAIN q /\ k \in Nat
                   /\ r[i].len = b.len - k /\ r[i].len > 0 /\ r[i].src = b.src + k
                   /\ Lag(r[i], mark) = Lag(b, mark) - k
                   /\ r[i].len <= Lag(r[i], mark) /\ Lag(r[i], mark) <= age
    <3> DEFINE b == q[f[i]]
               k == Excess(b, end)
    <3>1. f[i] \in DOMAIN q /\ b \in Blocks /\ r[i] \in Blocks /\ r[i] = TrimBefore(b, end)
      BY <2>1, <2>2
    <3>2. b.len <= Lag(b, mark) /\ Lag(b, mark) <= age
      BY <1>13, <3>1 DEF Placed
    <3> HIDE DEF b
    <3>3. k \in 0..b.len
      BY <3>1, Trimmed
    <3>4. r[i] = [rtp |-> Wrap(b.rtp + k), len |-> b.len - k, src |-> b.src + k]
      BY <3>1 DEF TrimBefore, Block
    <3> HIDE DEF k
    <3>5. r[i].rtp = Wrap(b.rtp + k) /\ r[i].len = b.len - k /\ r[i].src = b.src + k
      BY <3>4
    <3>6. /\ b.rtp \in Int /\ b.len \in Nat /\ Lag(b, mark) \in Rtp /\ Lag(b, mark) \in Nat
          /\ r[i].len > 0 /\ mark \in Int /\ k \in Nat /\ k \in Int
      <4>1. \A x \in Rtp : x \in Int
        BY <1>1
      <4>2. b.rtp \in Int /\ b.len \in Nat /\ Lag(b, mark) \in Rtp /\ Lag(b, mark) \in Nat
        BY <1>4, <1>5, <3>1
      <4> QED
        BY <1>4, <3>1, <3>3, <4>1, <4>2
    <3>7. Lag(b, mark) - k \in Rtp /\ b.len - k <= Lag(b, mark) - k /\ Lag(b, mark) - k <= age
      <4> DEFINE l == Lag(b, mark)
                 n == b.len
      <4>1. RtpMod \in Nat /\ Rtp = 0..RtpMod - 1
        BY <1>1
      <4>2. l \in Nat /\ n \in Nat /\ k \in Nat /\ l \in Rtp /\ n <= l /\ l <= age /\ k \in 0..n
        BY <3>2, <3>3, <3>6
      <4> HIDE DEF l, n
      <4>3. l - k \in 0..RtpMod - 1 /\ n - k <= l - k /\ l - k <= age
        BY <4>1, <4>2
      <4> QED
        BY <4>1, <4>3 DEF l, n
    <3>8. Lag(r[i], mark) = Lag(b, mark) - k
      BY <1>7, <3>5, <3>6, <3>7
    <3> QED
      BY <3>1, <3>5, <3>6, <3>7, <3>8 DEF b, k
  <2>4. c \in [1..Len(r) -> Nat] /\ \A i \in 1..Len(r) : c[i] = Excess(q[f[i]], end)
    BY <2>3
  <2> HIDE DEF c
  <2>5. ASSUME NEW i \in 1..Len(r)
        PROVE  /\ r[i].len = q[f[i]].len - c[i] /\ r[i].src = q[f[i]].src + c[i]
               /\ Lag(r[i], mark) = Lag(q[f[i]], mark) + 0 - c[i]
               /\ r[i].len <= Lag(r[i], mark) /\ Lag(r[i], mark) <= age
    <3> DEFINE l == Lag(q[f[i]], mark)
               e == Excess(q[f[i]], end)
    <3>1. l \in Nat /\ e \in Nat
      <4>1. q[f[i]] \in Blocks
        BY <2>1
      <4> QED
        BY <1>5, <2>3, <4>1
    <3>2. /\ r[i].len = q[f[i]].len - e /\ r[i].src = q[f[i]].src + e
          /\ Lag(r[i], mark) = l - e
          /\ r[i].len <= Lag(r[i], mark) /\ Lag(r[i], mark) <= age
      BY <2>3
    <3>3. c[i] = e
      BY <2>4
    <3> HIDE DEF l, e
    <3>4. l + 0 - e = l - e
      BY <3>1
    <3> QED
      BY <3>2, <3>3, <3>4 DEF l
  <2>6. Remains(r, mark, age, q, mark, 0)
    BY <2>2, <2>4, <2>5 DEF Remains
  <2>7. Placed(r, mark, age, upto)
    BY <1>9, <1>13, <2>1, <2>6
  <2>8. \A i \in 1..Len(r) : f[i] \in DOMAIN q /\ IsLeft(r[i], q[f[i]], end, mark)
    BY <2>3 DEF IsLeft
  <2> QED
    BY <2>1, <2>7, <2>8
<1>14. ASSUME NEW q \in Seq(Blocks), NEW mark \in Rtp, NEW age \in Int, NEW upto \in Int,
              Placed(q, mark, age, upto), NEW s \in Int, NEW since \in Int,
              since < RtpMod, Moves(q, mark, s, since)
       PROVE  /\ Placed(q, Later(mark, s), since, upto)
              /\ \A i \in DOMAIN q : Lag(q[i], Later(mark, s)) = Lag(q[i], mark) + s
  <2> DEFINE then == Wrap(mark + s)
             f == [i \in 1..Len(q) |-> i]
             c == [i \in 1..Len(q) |-> 0]
  <2>1. mark \in Int /\ mark + s \in Int /\ then \in Rtp
    <3>1. \A x \in Rtp : x \in Int
      BY <1>1
    <3>2. mark \in Int /\ mark + s \in Int
      BY <3>1
    <3> QED
      BY <1>1, <3>2
  <2>2. DOMAIN q = 1..Len(q) /\ \A i \in 1..Len(q) : q[i] \in Blocks
    OBVIOUS
  <2>3. ASSUME NEW i \in 1..Len(q) PROVE Lag(q[i], then) = Lag(q[i], mark) + s
    <3> DEFINE l == Lag(q[i], mark)
    <3>1. q[i].rtp \in Int /\ q[i].len \in Nat /\ l \in Nat
      BY <1>4, <1>5, <2>2
    <3>2. q[i].len <= l + s /\ l + s <= since
      BY <1>14, <2>2 DEF Moves
    <3> HIDE DEF l
    <3>3. RtpMod \in Nat /\ Rtp = 0..RtpMod - 1 /\ since < RtpMod
      BY <1>1, <1>14
    <3>4. l + s \in Rtp
      BY <3>1, <3>2, <3>3
    <3> QED
      BY <1>6, <2>1, <3>1, <3>4 DEF l
  <2> HIDE DEF then
  <2>4. /\ f \in [1..Len(q) -> 1..Len(q)] /\ c \in [1..Len(q) -> Nat]
        /\ \A i, j \in 1..Len(q) : i < j => f[i] < f[j]
        /\ \A i \in 1..Len(q) : f[i] = i /\ c[i] = 0
    OBVIOUS
  <2> HIDE DEF f, c
  <2>5. ASSUME NEW i \in 1..Len(q)
        PROVE  /\ q[i].len = q[f[i]].len - c[i] /\ q[i].src = q[f[i]].src + c[i]
               /\ Lag(q[i], then) = Lag(q[f[i]], mark) + s - c[i]
               /\ q[i].len <= Lag(q[i], then) /\ Lag(q[i], then) <= since
    <3>1. q[i].len \in Nat /\ q[i].src \in Nat /\ Lag(q[i], mark) \in Nat
      BY <1>4, <1>5, <2>2
    <3>2. q[i].len - 0 = q[i].len /\ q[i].src + 0 = q[i].src
          /\ Lag(q[i], mark) + s - 0 = Lag(q[i], mark) + s
      BY <3>1
    <3>3. q[i].len <= Lag(q[i], mark) + s /\ Lag(q[i], mark) + s <= since
      BY <1>14, <2>2 DEF Moves
    <3>4. f[i] = i /\ c[i] = 0 /\ Lag(q[i], then) = Lag(q[i], mark) + s
      BY <2>3, <2>4
    <3> QED
      BY <3>2, <3>3, <3>4
  <2>6. Remains(q, then, since, q, mark, s)
    BY <2>4, <2>5 DEF Remains
  <2>7. Placed(q, then, since, upto)
    <3>1. upto <= upto /\ Placed(q, mark, age, upto)
      BY <1>14
    <3> QED
      BY <1>9, <2>1, <2>6, <3>1
  <2> QED
    BY <2>2, <2>3, <2>7 DEF then, Later
\* No block ends later, nor has later music, than the last.
<1>15. ASSUME NEW q \in Seq(Blocks), q # <<>>, NEW mark \in Rtp, NEW age \in Int, NEW upto \in Int,
              Placed(q, mark, age, upto)
       PROVE  /\ Last(q) \in Blocks /\ Len(q) \in DOMAIN q /\ Last(q) = q[Len(q)]
              /\ Last(q).len <= Lag(Last(q), mark) /\ Lag(Last(q), mark) <= age
              /\ Last(q).src + Last(q).len <= upto
              /\ \A i \in DOMAIN q :
                    /\ Lag(Last(q), mark) - Last(q).len <= Lag(q[i], mark) - q[i].len
                    /\ q[i].src + q[i].len <= Last(q).src + Last(q).len
  <2> DEFINE z == Last(q)
  <2>1. DOMAIN q = 1..Len(q) /\ Len(q) \in DOMAIN q /\ z = q[Len(q)] /\ z \in Blocks
    BY <1>15 DEF Last
  <2> HIDE DEF z
  <2>2. z.len \in Nat /\ z.src \in Nat /\ Lag(z, mark) \in Nat
    BY <1>4, <1>5, <2>1
  <2>3. ASSUME NEW i \in DOMAIN q
        PROVE  /\ Lag(z, mark) - z.len <= Lag(q[i], mark) - q[i].len
               /\ q[i].src + q[i].len <= z.src + z.len
    <3> DEFINE l == Lag(q[i], mark)
               m == q[i].src
               n == q[i].len
               zl == Lag(z, mark)
               zm == z.src
               zn == z.len
    <3>1. l \in Nat /\ m \in Nat /\ n \in Nat /\ zl \in Nat /\ zm \in Nat /\ zn \in Nat
      <4>1. q[i] \in Blocks
        BY <2>1
      <4> QED
        BY <1>4, <1>5, <2>2, <4>1
    <3>2. CASE i = Len(q)
      BY <2>1, <2>2, <3>2
    <3>3. CASE i # Len(q)
      <4>1. i < Len(q)
        BY <2>1, <3>3
      <4>2. zl + n <= l /\ m + n <= zm
        BY <1>15, <2>1, <4>1 DEF Placed
      <4> HIDE DEF l, m, n, zl, zm, zn
      <4>3. zl - zn <= l - n /\ m + n <= zm + zn
        BY <3>1, <4>2
      <4> QED
        BY <4>3 DEF l, m, n, zl, zm, zn
    <3> QED
      BY <3>2, <3>3
  <2>4. z.len <= Lag(z, mark) /\ Lag(z, mark) <= age /\ z.src + z.len <= upto
    BY <1>15, <2>1 DEF Placed
  <2> QED
    BY <2>1, <2>3, <2>4 DEF z
<1>16. ASSUME NEW q \in Seq(Blocks), NEW mark \in Rtp, NEW age \in Int, NEW upto \in Int,
              Placed(q, mark, age, upto), NEW n \in Int, NEW r, r = Shifted(q, n)
       PROVE  /\ r \in Seq(Blocks) /\ Placed(r, Wrap(mark + n), age, upto)
              /\ Len(r) = Len(q) /\ DOMAIN r = DOMAIN q
              /\ \A i \in DOMAIN q :
                    /\ r[i].rtp = Wrap(q[i].rtp + n) /\ r[i].len = q[i].len /\ r[i].src = q[i].src
                    /\ Lag(r[i], Wrap(mark + n)) = Lag(q[i], mark)
  <2> DEFINE then == Wrap(mark + n)
  <2>1. mark \in Int /\ mark + n \in Int /\ then \in Rtp
    <3>1. \A x \in Rtp : x \in Int
      BY <1>1
    <3>2. mark \in Int /\ mark + n \in Int
      BY <3>1
    <3> QED
      BY <1>1, <3>2
  <2>2. DOMAIN q = 1..Len(q) /\ Len(q) \in Nat /\ \A i \in 1..Len(q) : q[i] \in Blocks
    OBVIOUS
  <2>3. r = [i \in 1..Len(q) |-> [q[i] EXCEPT !.rtp = Wrap(@ + n)]]
    BY <1>16, <2>2 DEF Shifted
  <2>4. ASSUME NEW i \in 1..Len(q)
        PROVE  /\ r[i].rtp = Wrap(q[i].rtp + n) /\ r[i].len = q[i].len /\ r[i].src = q[i].src
               /\ r[i] \in Blocks /\ Lag(r[i], then) = Lag(q[i], mark)
    <3>1. /\ q[i] \in Blocks /\ q[i] = [rtp |-> q[i].rtp, len |-> q[i].len, src |-> q[i].src]
          /\ q[i].len \in 1..PktLen /\ q[i].src \in Nat
      BY <2>2 DEF Blocks
    <3>2. q[i].rtp \in Int /\ Wrap(q[i].rtp + n) \in Rtp
      <4>1. q[i].rtp \in Int
        BY <1>4, <3>1
      <4>2. q[i].rtp + n \in Int
        BY <4>1
      <4> QED
        BY <1>1, <4>1, <4>2
    <3>3. r[i] = [rtp |-> Wrap(q[i].rtp + n), len |-> q[i].len, src |-> q[i].src]
      BY <2>3, <3>1
    <3>4. r[i].rtp = Wrap(q[i].rtp + n) /\ r[i].len = q[i].len /\ r[i].src = q[i].src
      BY <3>3
    <3>5. r[i] \in Blocks
      BY <3>1, <3>2, <3>3 DEF Blocks
    <3>6. Lag(r[i], Wrap(mark + n)) = Lag(q[i], mark)
      BY <1>8, <2>1, <3>2, <3>4
    <3> QED
      BY <3>4, <3>5, <3>6
  <2>5. r \in Seq(Blocks) /\ Len(r) = Len(q) /\ DOMAIN r = 1..Len(q)
    <3>1. r \in [1..Len(q) -> Blocks]
      BY <2>3, <2>4
    <3>2. Len(q) \in Nat
      BY <2>2
    <3> QED
      BY <3>1, <3>2
  <2> HIDE DEF then
  <2>6. Placed(r, then, age, upto)
    <3>1. \A i \in 1..Len(q) : /\ q[i].len <= Lag(q[i], mark) /\ Lag(q[i], mark) <= age
                               /\ q[i].src + q[i].len <= upto
      BY <1>16, <2>2 DEF Placed
    <3>2. \A i, j \in 1..Len(q) : i < j =>
             /\ Lag(q[j], mark) + q[i].len <= Lag(q[i], mark)
             /\ q[i].src + q[i].len <= q[j].src
      BY <1>16, <2>2 DEF Placed
    <3> QED
      BY <2>4, <2>5, <3>1, <3>2 DEF Placed
  <2> QED
    BY <2>2, <2>4, <2>5, <2>6 DEF then
\* Nothing that is kept is as old as half a turn.
<1>17. RtpMod \div 2 \in Nat /\ RtpMod = (RtpMod \div 2) + (RtpMod \div 2) /\ RtpMod \div 2 < RtpMod
       /\ PktLen <= RtpMod \div 2
  <2>1. RtpMod \in Nat /\ RtpMod > 0 /\ RtpMod % 2 = 0
    BY AudioAssumption
  <2>2. RtpMod \div 2 \in Nat /\ RtpMod = (RtpMod \div 2) + (RtpMod \div 2)
    BY <2>1
  <2>3. K * MaxOps \in Nat
    BY AudioAssumption
  <2>4. PktLen \in Nat /\ MaxSrc \in Nat /\ MaxSrc + PktLen + K * MaxOps <= RtpMod \div 2
    BY AudioAssumption DEF WithinHalfATurn
  <2> QED
    BY <2>1, <2>2, <2>3, <2>4
<1>18. ASSUME NEW m \in Nat, m < MaxSrc + PktLen, NEW n \in 0..MaxOps
       PROVE  m + K * n \in Nat /\ m + K * n < RtpMod \div 2 /\ m + K * n < RtpMod
  <2>1. n \in Nat /\ MaxOps - n \in Nat /\ MaxOps = n + (MaxOps - n)
    BY AudioAssumption
  <2>2. K * n \in Nat /\ K * (MaxOps - n) \in Nat
    BY <2>1
  <2>3. K * MaxOps = K * n + K * (MaxOps - n)
    <3>1. \A x, y \in Nat : K * (x + y) = K * x + K * y
      OBVIOUS
    <3> QED
      BY <2>1, <3>1
  <2> DEFINE k == K * n
             l == K * (MaxOps - n)
             h == RtpMod \div 2
  <2>4. /\ k \in Nat /\ l \in Nat /\ K * MaxOps = k + l /\ PktLen \in Nat /\ MaxSrc \in Nat
        /\ h \in Nat /\ h < RtpMod /\ RtpMod \in Nat
    BY <1>17, <2>2, <2>3, AudioAssumption
  <2>5. MaxSrc + PktLen + (k + l) <= h
    BY <2>4 DEF WithinHalfATurn
  <2> HIDE DEF k, l, h
  <2>6. m + k \in Nat /\ m + k < h /\ m + k < RtpMod
    BY <1>18, <2>4, <2>5
  <2> QED
    BY <2>6 DEF k, h
<1>19. ASSUME NEW q \in Seq(Blocks), NEW mark \in Rtp, NEW age \in Int, NEW upto \in Int,
              NEW since \in Int, NEW more \in Int, age <= since, upto <= more,
              Placed(q, mark, age, upto)
       PROVE  Placed(q, mark, since, more)
  <2>1. \A i \in DOMAIN q : q[i] \in Blocks
    OBVIOUS
  <2>2. ASSUME NEW i \in DOMAIN q PROVE Lag(q[i], mark) <= since /\ q[i].src + q[i].len <= more
    <3> DEFINE l == Lag(q[i], mark)
               m == q[i].src
               n == q[i].len
    <3>1. m \in Nat /\ n \in Nat /\ l \in Nat
      BY <1>4, <1>5, <2>1
    <3>2. l <= age /\ m + n <= upto
      BY <1>19 DEF Placed
    <3> HIDE DEF l, m, n
    <3>3. l <= since /\ m + n <= more
      BY <1>19, <3>1, <3>2
    <3> QED
      BY <3>3 DEF l, m, n
  <2> QED
    BY <1>19, <2>2 DEF Placed
<1>20. ASSUME NEW q \in Seq(Blocks), NEW r \in Seq(Blocks), NEW p, NEW mark,
              Follows(q, p, mark), Follows(r, p, mark)
       PROVE  Follows(q \o r, p, mark)
  <2> DEFINE s == q \o r
             m == Len(q)
  <2>1. /\ m \in Nat /\ Len(r) \in Nat /\ DOMAIN s = 1..m + Len(r)
        /\ DOMAIN q = 1..m /\ DOMAIN r = 1..Len(r)
        /\ \A i \in 1..m : s[i] = q[i]
        /\ \A i \in 1..Len(r) : s[m + i] = r[i]
    OBVIOUS
  <2> HIDE DEF s, m
  <2>2. ASSUME p # <<>>, NEW i \in DOMAIN s PROVE Past(s[i], Last(p), mark)
    <3>1. CASE i <= m
      BY <1>20, <2>1, <2>2, <3>1 DEF Follows
    <3>2. CASE i > m
      <4>1. i - m \in 1..Len(r) /\ m + (i - m) = i
        BY <2>1, <3>2
      <4>2. s[i] = r[i - m]
        BY <2>1, <4>1
      <4> QED
        BY <1>20, <2>1, <2>2, <4>1, <4>2 DEF Follows
    <3> QED
      BY <2>1, <3>1, <3>2
  <2>3. Follows(s, p, mark)
    BY <2>2 DEF Follows
  <2> QED
    BY <2>3 DEF s
\* Both marks put off by as much.
<1>21. ASSUME NEW b \in Blocks, NEW z \in Blocks, NEW mark \in Rtp, NEW then \in Rtp, NEW s \in Int,
              Past(b, z, mark), Lag(b, then) = Lag(b, mark) + s, Lag(z, then) = Lag(z, mark) + s
       PROVE  Past(b, z, then)
  <2> DEFINE l == Lag(b, mark)
             m == Lag(z, mark)
             n == b.len
             k == z.len
  <2>1. l \in Nat /\ m \in Nat /\ n \in Nat /\ k \in Nat
    BY <1>4, <1>5
  <2>2. Lag(b, then) = l + s /\ Lag(z, then) = m + s
    BY <1>21
  <2>3. m - k <= l - n \/ z.src + k <= b.src
    BY <1>21 DEF Past
  <2> HIDE DEF l, m, n, k
  <2>4. m - k <= l - n => (m + s) - k <= (l + s) - n
    BY <2>1
  <2> QED
    BY <2>2, <2>3, <2>4 DEF Past, n, k
<1>22. ASSUME NEW q \in Seq(Blocks), NEW mark \in Rtp, NEW age \in Nat, NEW upto \in Nat,
              Placed(q, mark, age, upto), age + PktLen < RtpMod
       PROVE  /\ Placed(q, Wrap(mark + PktLen), age + PktLen, upto + PktLen)
              /\ \A i \in DOMAIN q : /\ Lag(q[i], Wrap(mark + PktLen)) = Lag(q[i], mark) + PktLen
                                     /\ PktLen <= Lag(q[i], Wrap(mark + PktLen)) - q[i].len
  <2>1. PktLen \in Nat /\ PktLen \in Int /\ age + PktLen \in Int /\ upto + PktLen \in Int
        /\ upto <= upto + PktLen
    BY <1>1
  <2>2. ASSUME NEW i \in DOMAIN q
        PROVE  /\ q[i].len <= Lag(q[i], mark) + PktLen /\ Lag(q[i], mark) + PktLen <= age + PktLen
               /\ PktLen <= (Lag(q[i], mark) + PktLen) - q[i].len
    <3> DEFINE l == Lag(q[i], mark)
               n == q[i].len
    <3>0. q[i] \in Blocks
      OBVIOUS
    <3>1. l \in Nat /\ n \in Nat
      BY <1>4, <1>5, <3>0
    <3>2. n <= l /\ l <= age
      BY <1>22 DEF Placed
    <3> HIDE DEF l, n
    <3>3. n <= l + PktLen /\ l + PktLen <= age + PktLen /\ PktLen <= (l + PktLen) - n
      BY <2>1, <3>1, <3>2
    <3> QED
      BY <3>3 DEF l, n
  <2>3. /\ Placed(q, Wrap(mark + PktLen), age + PktLen, upto + PktLen)
        /\ \A i \in DOMAIN q : Lag(q[i], Wrap(mark + PktLen)) = Lag(q[i], mark) + PktLen
    <3>1. /\ Placed(q, mark, age, upto) /\ age + PktLen < RtpMod /\ upto <= upto + PktLen
          /\ \A i \in DOMAIN q : /\ q[i].len <= Lag(q[i], mark) + PktLen
                                 /\ Lag(q[i], mark) + PktLen <= age + PktLen
      BY <1>22, <2>1, <2>2
    <3> DEFINE since == age + PktLen
               more == upto + PktLen
    <3>2. /\ age \in Int /\ upto \in Int /\ since \in Int /\ more \in Int /\ PktLen \in Int
          /\ since <= since /\ upto <= more /\ since < RtpMod
      BY <2>1, <3>1
    <3>3. Later(mark, PktLen) \in Rtp
      <4>1. \A x \in Rtp : x \in Int
        BY <1>1
      <4>2. mark + PktLen \in Int
        BY <2>1, <4>1
      <4> QED
        BY <1>1, <4>2 DEF Later
    <3>4. Placed(q, mark, age, upto) /\ Moves(q, mark, PktLen, since)
      BY <3>1 DEF Moves
    <3> HIDE DEF since, more
    <3>5. /\ Placed(q, Later(mark, PktLen), since, upto)
          /\ \A i \in DOMAIN q : Lag(q[i], Later(mark, PktLen)) = Lag(q[i], mark) + PktLen
      BY <1>14, <3>2, <3>4
    <3>6. Placed(q, Later(mark, PktLen), since, more)
      BY <1>19, <3>2, <3>5, <3>3
    <3> QED
      BY <3>5, <3>6 DEF since, more, Later
  <2> QED
    BY <2>2, <2>3
\* A block of the packet that has come lies behind everything there was.
<1>23. ASSUME NEW q \in Seq(Blocks), NEW mark \in Rtp, NEW age \in Nat, NEW upto \in Nat,
              Placed(q, mark, age, upto), age + PktLen < RtpMod,
              NEW d \in Blocks, d.len <= Lag(d, Wrap(mark + PktLen)),
              Lag(d, Wrap(mark + PktLen)) <= PktLen,
              upto <= d.src, d.src + d.len <= upto + PktLen
       PROVE  /\ q \o <<d>> \in Seq(Blocks)
              /\ Placed(q \o <<d>>, Wrap(mark + PktLen), age + PktLen, upto + PktLen)
  <2> DEFINE then == Wrap(mark + PktLen)
             l == Lag(d, then)
             n == d.len
  <2>1. /\ Placed(q, then, age + PktLen, upto + PktLen)
        /\ \A i \in DOMAIN q : PktLen <= Lag(q[i], then) - q[i].len
    BY <1>22, <1>23
  <2>2. then \in Rtp
    <3>1. mark + PktLen \in Int
      BY <1>1
    <3> QED
      BY <1>1, <3>1
  <2> HIDE DEF then
  <2>3. l \in Nat /\ n \in Nat /\ PktLen \in Nat /\ n <= l /\ l <= PktLen /\ d.src \in Nat
    BY <1>1, <1>4, <1>5, <1>23, <2>2 DEF then
  <2>4. Placed(<<d>>, then, age + PktLen, upto + PktLen)
    <3> HIDE DEF l, n
    <3>1. n <= l /\ l <= age + PktLen
      BY <2>3
    <3>2. n <= Lag(d, then) /\ Lag(d, then) <= age + PktLen
      BY <3>1 DEF l
    <3>3. <<d>> \in Seq(Blocks) /\ DOMAIN <<d>> = {1} /\ <<d>>[1] = d
      OBVIOUS
    <3>4. d.src + n <= upto + PktLen
      BY <1>23 DEF n
    <3> QED
      BY <3>2, <3>3, <3>4 DEF Placed, n
  <2>5. ASSUME NEW i \in DOMAIN q, NEW j \in DOMAIN <<d>>
        PROVE  /\ Lag(<<d>>[j], then) + q[i].len <= Lag(q[i], then)
               /\ q[i].src + q[i].len <= <<d>>[j].src
    <3>0. <<d>>[j] = d /\ q[i] \in Blocks
      OBVIOUS
    <3> DEFINE l2 == Lag(q[i], then)
               n2 == q[i].len
               m2 == q[i].src
               m == d.src
    <3>1. l2 \in Nat /\ n2 \in Nat /\ m2 \in Nat /\ m \in Nat
      BY <1>4, <1>5, <2>2, <3>0
    <3>2. PktLen <= l2 - n2
      BY <2>1
    <3>3. m2 + n2 <= upto /\ upto <= m
      BY <1>23 DEF Placed
    <3> HIDE DEF l, n, l2, n2, m2, m
    <3>4. l + n2 <= l2 /\ m2 + n2 <= m
      BY <2>3, <3>1, <3>2, <3>3
    <3> QED
      BY <3>0, <3>4 DEF l, l2, n2, m2, m
  <2>6. <<d>> \in Seq(Blocks)
    OBVIOUS
  <2>7. q \o <<d>> \in Seq(Blocks) /\ Placed(q \o <<d>>, then, age + PktLen, upto + PktLen)
    BY <1>10, <2>1, <2>4, <2>5, <2>6
  <2> QED
    BY <2>7 DEF then
<1>24. ASSUME CounterInv, InTurn(K)
       PROVE  /\ pcm \in Seq(Blocks) /\ paused \in Seq(Blocks) /\ imported \in BOOLEAN
              /\ sent \in Nat /\ sent < MaxSrc + PktLen /\ ops \in 0..MaxOps
              /\ ahead \in Rtp /\ ahead \in Int /\ Due \in Rtp /\ Due \in Int
              /\ Age(K) \in Nat /\ Age(K) < RtpMod \div 2 /\ Age(K) < RtpMod
  <2>1. /\ pcm \in Seq(Blocks) /\ paused \in Seq(Blocks) /\ imported \in BOOLEAN
        /\ sent \in Nat /\ ops \in 0..MaxOps /\ ahead \in Rtp
    BY <1>24 DEF CounterInv, QueueTypeOK
  <2>2. sent < MaxSrc + PktLen
    BY <1>24 DEF InTurn
  <2>3. \A x \in Rtp : x \in Int
    BY <1>1
  <2>4. sent + ahead \in Int
    BY <2>1, <2>3
  <2>5. Age(K) \in Nat /\ Age(K) < RtpMod \div 2 /\ Age(K) < RtpMod
    BY <1>18, <2>1, <2>2 DEF Age
  <2> QED
    BY <1>1, <2>1, <2>2, <2>3, <2>4, <2>5 DEF Due
<1>25. QueueInit => OrderInv(K)
  <2> SUFFICES ASSUME QueueInit PROVE InTurn(K)
    BY DEF OrderInv, InTurn
  <2>1. 0 < MaxSrc + PktLen
    BY AudioAssumption
  <2>2. pcm = <<>> /\ paused = <<>> /\ imported = FALSE /\ sent = 0
    BY DEF QueueInit
  <2>3. Follows(pcm, paused, Due)
    BY <2>2 DEF Follows
  <2> QED
    BY <1>11, <2>1, <2>2, <2>3 DEF InTurn
\* What stays where it is while a packet is lost, received, or an operation made.
<1>26. ASSUME CounterInv, InTurn(K), CounterInv', sent' = sent + PktLen, sent < MaxSrc,
              UNCHANGED <<ahead, ops>>
       PROVE  /\ sent' < MaxSrc + PktLen /\ sent' = sent + PktLen
              /\ Due' = Later(Due, PktLen) /\ Due' = Wrap(Due + PktLen) /\ Due' \in Rtp
              /\ Age(K)' = Age(K) + PktLen /\ Age(K) + PktLen < RtpMod
              /\ Age(K)' \in Nat /\ Age(K)' < RtpMod \div 2
  <2>0. /\ sent \in Nat /\ sent < MaxSrc + PktLen /\ ops \in 0..MaxOps
        /\ ahead \in Rtp /\ ahead \in Int /\ Due \in Rtp /\ Due \in Int
    BY <1>24, <1>26
  <2>1. sent' \in Nat /\ sent' = sent + PktLen /\ sent' < MaxSrc + PktLen /\ PktLen \in Nat
    BY <1>1, <1>26, <2>0, AudioAssumption
  <2>2. Age(K)' = sent' + K * ops
    BY <1>26 DEF Age
  <2>3. sent' + K * ops \in Nat /\ sent' + K * ops < RtpMod \div 2 /\ sent' + K * ops < RtpMod
    BY <1>18, <2>0, <2>1
  <2>4. K * ops \in Nat
    BY <2>0
  <2>5. sent' + K * ops = (sent + K * ops) + PktLen
    BY <2>0, <2>1, <2>4
  <2>6. Due' = Wrap((sent + ahead) + PktLen) /\ sent + ahead \in Int
    <3>1. sent' + ahead = (sent + ahead) + PktLen
      BY <2>0, <2>1
    <3> QED
      BY <1>26, <2>0, <3>1 DEF Due
  <2>7. Wrap(Wrap(sent + ahead) + PktLen) = Wrap((sent + ahead) + PktLen)
    BY <1>2, <2>1, <2>6
  <2>8. Due' \in Rtp
    <3>1. (sent + ahead) + PktLen \in Int
      BY <2>1, <2>6
    <3> QED
      BY <1>1, <2>6, <3>1
  <2> QED
    BY <2>1, <2>2, <2>3, <2>5, <2>6, <2>7, <2>8 DEF Due, Age, Later
<1>27. ASSUME CounterInv, InTurn(K), CounterInv', sent' = sent + PktLen, sent < MaxSrc,
              UNCHANGED <<ahead, ops>>
       PROVE  /\ Placed(pcm, Due', Age(K)', sent')
              /\ imported => \E mark \in Rtp : Placed(paused, mark, Age(K)', sent')
              /\ ~imported => Placed(paused, Due', Age(K)', sent') /\ Follows(pcm, paused, Due')
  <2>0. /\ pcm \in Seq(Blocks) /\ paused \in Seq(Blocks) /\ sent \in Nat /\ Age(K) \in Nat
        /\ Due \in Rtp
    BY <1>24, <1>27
  <2>1. /\ Due' = Wrap(Due + PktLen) /\ Due' \in Rtp /\ Age(K)' = Age(K) + PktLen
        /\ Age(K) + PktLen < RtpMod /\ sent' = sent + PktLen /\ Age(K)' \in Nat
    BY <1>26, <1>27
  <2>2. ASSUME NEW q \in Seq(Blocks), Placed(q, Due, Age(K), sent)
        PROVE  /\ Placed(q, Due', Age(K)', sent')
               /\ \A i \in DOMAIN q : Lag(q[i], Due') = Lag(q[i], Due) + PktLen
    BY <1>22, <2>0, <2>1, <2>2
  <2>3. Placed(pcm, Due, Age(K), sent)
    BY <1>27 DEF InTurn
  <2>4. ASSUME imported PROVE \E mark \in Rtp : Placed(paused, mark, Age(K)', sent')
    <3>1. PICK mark \in Rtp : Placed(paused, mark, Age(K), sent)
      BY <1>27, <2>4 DEF InTurn
    <3> DEFINE age == Age(K)
               since == Age(K)'
               more == sent'
    <3>2. age \in Int /\ since \in Int /\ age <= since /\ sent \in Int /\ more \in Int /\ sent <= more
      BY <1>1, <2>0, <2>1
    <3>3. Placed(paused, mark, age, sent)
      BY <3>1
    <3> HIDE DEF age, since, more
    <3>4. Placed(paused, mark, since, more)
      BY <1>19, <2>0, <3>2, <3>3
    <3> QED
      BY <3>4 DEF since, more
  <2>5. ASSUME ~imported
        PROVE  Placed(paused, Due', Age(K)', sent') /\ Follows(pcm, paused, Due')
    <3>1. Placed(paused, Due, Age(K), sent) /\ Follows(pcm, paused, Due)
      BY <1>27, <2>5 DEF InTurn
    <3>2. ASSUME paused # <<>>, NEW i \in DOMAIN pcm PROVE Past(pcm[i], Last(paused), Due')
      <4>1. Last(paused) \in Blocks /\ Len(paused) \in DOMAIN paused
              /\ Last(paused) = paused[Len(paused)] /\ pcm[i] \in Blocks
        BY <2>0, <3>2 DEF Last
      <4>2. Past(pcm[i], Last(paused), Due)
        BY <3>1, <3>2 DEF Follows
      <4>3. Lag(pcm[i], Due') = Lag(pcm[i], Due) + PktLen
        BY <2>0, <2>2, <2>3
      <4>4. Lag(Last(paused), Due') = Lag(Last(paused), Due) + PktLen
        BY <2>0, <2>2, <3>1, <4>1
      <4>5. PktLen \in Int
        BY <1>1
      <4> QED
        BY <1>21, <2>0, <2>1, <4>1, <4>2, <4>3, <4>4, <4>5
    <3> QED
      BY <2>0, <2>2, <3>1, <3>2 DEF Follows
  <2> QED
    BY <2>0, <2>2, <2>3, <2>4, <2>5
<1>28. ASSUME CounterInv, InTurn(K), CounterInv', Lost \/ FallsBehind
       PROVE  InTurn(K)'
  <2>1. /\ sent' = sent + PktLen /\ sent < MaxSrc /\ UNCHANGED <<ahead, ops>>
        /\ pcm' = pcm /\ paused' = paused /\ imported' = imported
    BY <1>28 DEF Lost, FallsBehind, SendsNext, queue
  <2>2. /\ Placed(pcm, Due', Age(K)', sent')
        /\ imported => \E mark \in Rtp : Placed(paused, mark, Age(K)', sent')
        /\ ~imported => Placed(paused, Due', Age(K)', sent') /\ Follows(pcm, paused, Due')
    BY <1>27, <1>28, <2>1
  <2>3. sent' < MaxSrc + PktLen
    BY <1>26, <1>28, <2>1
  <2>4. imported => pcm = <<>>
    BY <1>28 DEF InTurn
  <2> QED
    BY <2>1, <2>2, <2>3, <2>4 DEF InTurn
<1>29. ASSUME NEW b \in Blocks, NEW then \in Rtp, Lag(b, then) = PktLen, b.len = PktLen,
              NEW r \in Rtp, NEW d, d = TrimBefore(b, r), NEW k, k = Excess(b, r)
       PROVE  /\ k \in 0..PktLen /\ k \in Nat
              /\ d.rtp = Wrap(b.rtp + k) /\ d.len = PktLen - k /\ d.src = b.src + k
              /\ Lag(d, then) = PktLen - k
              /\ d.len > 0 => d \in Blocks
  <2>1. k \in 0..PktLen /\ (d.len > 0 => d \in Blocks) /\ PktLen \in Nat
    BY <1>1, <1>29, Trimmed
  <2>2. d = [rtp |-> Wrap(b.rtp + k), len |-> PktLen - k, src |-> b.src + k]
    BY <1>29 DEF TrimBefore, Block
  <2>3. k \in Nat /\ b.rtp \in Int /\ then \in Int /\ k \in Int
    <3>1. \A x \in Rtp : x \in Int
      BY <1>1
    <3> QED
      BY <1>4, <2>1, <3>1
  <2>4. PktLen - k \in Rtp
    <3>1. PktLen < RtpMod /\ RtpMod \in Nat
      BY <1>1, <1>17, <2>1
    <3>2. PktLen - k \in 0..RtpMod - 1
      BY <2>1, <3>1
    <3> QED
      BY <1>1, <3>2
  <2>5. d.rtp = Wrap(b.rtp + k) /\ d.len = PktLen - k /\ d.src = b.src + k
    BY <2>2
  <2>6. Lag(d, then) = PktLen - k
    <3>1. Lag(b, then) - k \in Rtp
      BY <1>29, <2>4
    <3>2. Lag(d, then) = Lag(b, then) - k
      BY <1>7, <2>3, <2>5, <3>1
    <3> QED
      BY <1>29, <3>2
  <2> QED
    BY <2>1, <2>3, <2>5, <2>6
\* How far a block's end lies behind the mark.
<1>30. ASSUME NEW b \in Blocks, NEW mark \in Rtp, b.len <= Lag(b, mark)
       PROVE  /\ End(b) \in Rtp /\ End(b) \in Int /\ Lag(b, mark) - b.len \in Nat
              /\ Wrap(mark - End(b)) = Lag(b, mark) - b.len
  <2>1. b.rtp \in Int /\ b.len \in Nat /\ Lag(b, mark) \in Nat /\ Lag(b, mark) \in Rtp
    BY <1>4, <1>5
  <2>2. End(b) \in Rtp /\ End(b) \in Int /\ mark \in Int
    <3>1. \A x \in Rtp : x \in Int
      BY <1>1
    <3>2. b.rtp + b.len \in Int
      BY <2>1
    <3> QED
      BY <1>1, <3>1, <3>2 DEF End
  <2>3. Lag(b, mark) - b.len \in Nat /\ Lag(b, mark) - b.len \in Rtp
    <3> DEFINE l == Lag(b, mark)
               m == b.len
    <3>1. l \in Nat /\ m \in Nat /\ m <= l /\ l \in 0..RtpMod - 1 /\ RtpMod \in Nat
      BY <1>1, <1>30, <2>1
    <3> HIDE DEF l, m
    <3>2. l - m \in Nat /\ l - m \in 0..RtpMod - 1
      BY <3>1
    <3> QED
      BY <1>1, <3>2 DEF l, m
  <2> DEFINE d == [rtp |-> End(b)]
  <2>4. d.rtp = Wrap(b.rtp + b.len)
    BY DEF End
  <2>5. Lag(d, mark) = Lag(b, mark) - b.len
    BY <1>7, <2>1, <2>2, <2>3, <2>4
  <2> QED
    BY <2>2, <2>3, <2>5 DEF Lag
\* The tail of the previous receiver, put so that it ends where the new packet begins.
<1>31. ASSUME NEW q \in Seq(Blocks), q # <<>>, NEW mark \in Rtp, NEW age \in Int, age < RtpMod,
              NEW upto \in Int, Placed(q, mark, age, upto),
              NEW due \in Rtp, NEW r, r = Shifted(q, due - End(Last(q)))
       PROVE  r \in Seq(Blocks) /\ Placed(r, due, age, upto)
  <2> DEFINE z == Last(q)
             n == due - End(z)
             e == Lag(z, mark) - z.len
             then == Wrap(mark + n)
  <2>1. /\ z \in Blocks /\ z.len <= Lag(z, mark) /\ Lag(z, mark) <= age
        /\ Len(q) \in DOMAIN q /\ z = q[Len(q)]
    BY <1>15, <1>31
  <2>2. \A x \in Rtp : x \in Int
    BY <1>1
  <2> HIDE DEF z
  <2>3. End(z) \in Int /\ e \in Nat /\ Wrap(mark - End(z)) = e
    BY <1>30, <2>1
  <2>4. mark \in Int /\ due \in Int
    BY <2>2
  <2>5. z.len \in Nat
    BY <1>4, <2>1
  <2> HIDE DEF e
  <2>6. n \in Int /\ then \in Rtp /\ mark + n \in Int
    <3>1. n \in Int /\ mark + n \in Int
      BY <2>3, <2>4
    <3> QED
      BY <1>1, <3>1
  <2>7. Later(then, -e) = due
    <3> DEFINE u == mark - End(z)
    <3>1. u \in Int /\ -e \in Int /\ due - e \in Int /\ Wrap(u) = e
      BY <2>3, <2>4, <2>5
    <3>2. (mark + n) + (-e) = u + (due - e)
      BY <2>3, <2>4
    <3> HIDE DEF u
    <3>3. Wrap(Wrap(mark + n) + (-e)) = Wrap((mark + n) + (-e))
      BY <1>2, <2>6, <3>1
    <3>4. Wrap(Wrap(u) + (due - e)) = Wrap(u + (due - e))
      BY <1>2, <3>1
    <3>5. e + (due - e) = due
      BY <2>3, <2>4
    <3>6. Wrap(due) = due
      BY <1>3
    <3> QED
      BY <3>1, <3>2, <3>3, <3>4, <3>5, <3>6 DEF Later
  <2> HIDE DEF n
  <2>8. /\ r \in Seq(Blocks) /\ Placed(r, then, age, upto) /\ Len(r) = Len(q) /\ DOMAIN r = DOMAIN q
        /\ r[Len(q)].len = z.len /\ Lag(r[Len(q)], then) = Lag(z, mark)
    BY <1>16, <1>31, <2>1, <2>6 DEF n, z
  <2> HIDE DEF then
  <2>9. Moves(r, then, -e, age)
    <3>1. r # <<>>
      BY <2>1, <2>8
    <3>2. \A i \in DOMAIN r : Lag(Last(r), then) - Last(r).len <= Lag(r[i], then) - r[i].len
      BY <1>15, <2>6, <2>8, <3>1
    <3>3. Last(r) = r[Len(q)]
      BY <2>8 DEF Last
    <3>4. Lag(Last(r), then) - Last(r).len = e
      BY <2>8, <3>3 DEF e
    <3>5. ASSUME NEW i \in DOMAIN r
          PROVE  r[i].len <= Lag(r[i], then) + (-e) /\ Lag(r[i], then) + (-e) <= age
      <4> DEFINE l == Lag(r[i], then)
                 m == r[i].len
      <4>1. r[i] \in Blocks
        BY <2>8
      <4>2. l \in Nat /\ m \in Nat
        BY <1>4, <1>5, <2>6, <4>1
      <4>3. e <= l - m /\ l <= age
        BY <2>8, <3>2, <3>4 DEF Placed
      <4> HIDE DEF l, m
      <4>4. m <= l + (-e) /\ l + (-e) <= age
        BY <2>3, <4>2, <4>3
      <4> QED
        BY <4>4 DEF l, m
    <3> QED
      BY <3>5 DEF Moves
  <2>10. -e \in Int
    BY <2>3
  <2>11. Placed(r, Later(then, -e), age, upto)
    BY <1>14, <1>31, <2>6, <2>8, <2>9, <2>10
  <2> QED
    BY <2>7, <2>8, <2>11
\* The packet that has come: the queue with what is put in front of it and behind it, and
\* the saved tail with what the pause still adds to it.
<1>32. ASSUME CounterInv, InTurn(K), CounterInv', sent' = sent + PktLen, sent < MaxSrc,
              UNCHANGED <<ahead, ops>>,
              NEW late \in BOOLEAN, NEW b, b = Block(sent + ahead, PktLen, sent),
              Enqueues(b, late)
       PROVE  InTurn(K)'
  <2> DEFINE k == Surplus(pcm, queued, b.len)
             kept == SubSeq(pcm, k + 1, Len(pcm))
             tail == IF imported THEN Imports(b, late) ELSE <<>>
             live == IF boundary # None THEN TrimBefore(b, boundary) ELSE b
             new == IF live.len > 0 THEN <<live>> ELSE <<>>
             then == Due'
             age == Age(K)
  <2>0. /\ pcm \in Seq(Blocks) /\ paused \in Seq(Blocks) /\ imported \in BOOLEAN /\ sent \in Nat
        /\ ahead \in Int /\ Due \in Rtp /\ Due \in Int /\ age \in Nat /\ age < RtpMod
        /\ boundary \in Rtp \cup {None}
    BY <1>24, <1>32 DEF CounterInv, QueueTypeOK
  <2>1. /\ then = Wrap(Due + PktLen) /\ then \in Rtp /\ Age(K)' = age + PktLen
        /\ age + PktLen < RtpMod /\ sent' < MaxSrc + PktLen /\ PktLen \in Nat
    BY <1>1, <1>26, <1>32
  <2>2. /\ b.rtp = Due /\ b.len = PktLen /\ b.src = sent /\ b \in Blocks /\ Lag(b, then) = PktLen
    <3>1. b = [rtp |-> Due, len |-> PktLen, src |-> sent]
      BY <1>32 DEF Block, Due
    <3>2. PktLen \in 1..PktLen
      BY AudioAssumption
    <3>3. b \in Blocks /\ b.rtp = Due /\ b.len = PktLen /\ b.src = sent
      BY <2>0, <3>1, <3>2 DEF Blocks
    <3>4. Lag(b, Due) = 0
      <4>1. Due - Due = 0 /\ 0 \in Rtp
        BY <1>1, <2>0
      <4> QED
        BY <1>3, <3>3, <4>1 DEF Lag
    <3>5. 0 + PktLen = PktLen /\ PktLen \in Rtp
      <4>1. PktLen \in 0..RtpMod - 1
        BY <1>1, <1>17
      <4> QED
        BY <1>1, <4>1
    <3>6. Lag(b, Wrap(Due + PktLen)) = Lag(b, Due) + PktLen
      <4>1. Lag(b, Due) + PktLen \in Rtp /\ b.rtp \in Int /\ PktLen \in Int
        BY <2>0, <2>1, <3>3, <3>4, <3>5
      <4> QED
        BY <1>6, <2>0, <4>1
    <3> QED
      BY <2>1, <3>3, <3>4, <3>5, <3>6
  <2>3. k \in Nat
    <3> DEFINE off == {i \in 1..Len(pcm) :
                          \A j \in 0..i - 1 : queued - Frames(SubSeq(pcm, 1, j)) + b.len > Limit}
    <3>1. 1 \in Int /\ Len(pcm) \in Int
      BY <2>0
    <3>2. IsFiniteSet(1..Len(pcm)) /\ off \subseteq 1..Len(pcm)
      BY <3>1, FS_Interval
    <3>3. Cardinality(off) \in Nat
      BY <3>2, FS_Subset, FS_CardinalityType
    <3> QED
      BY <3>3 DEF Surplus
  <2>4. /\ pcm' = kept \o tail \o new
        /\ paused' = IF imported THEN <<>>
                     ELSE IF boundary # None /\ paused # <<>> THEN Drained(b) ELSE paused
        /\ imported' = FALSE
    BY <1>32 DEF Enqueues
  <2>5. PICK n \in Nat :
           /\ n \in 0..PktLen /\ live.len = PktLen - n /\ live.src = sent + n
           /\ Lag(live, then) = PktLen - n /\ (live.len > 0 => live \in Blocks)
           /\ boundary # None => n = Excess(b, boundary)
    <3>1. CASE boundary = None
      <4>1. live = b
        BY <3>1
      <4>2. PktLen - 0 = PktLen /\ sent + 0 = sent /\ 0 \in 0..PktLen /\ 0 \in Nat
        BY <2>0, <2>1
      <4> HIDE DEF live
      <4> QED
        BY <2>2, <3>1, <4>1, <4>2
    <3>2. CASE boundary # None
      <4> DEFINE m == Excess(b, boundary)
      <4>1. live = TrimBefore(b, boundary) /\ boundary \in Rtp
        BY <2>0, <3>2
      <4> HIDE DEF live, m
      <4>2. /\ m \in 0..PktLen /\ m \in Nat /\ live.len = PktLen - m /\ live.src = b.src + m
            /\ Lag(live, then) = PktLen - m /\ (live.len > 0 => live \in Blocks)
        BY <1>29, <2>1, <2>2, <4>1 DEF m
      <4> QED
        BY <2>2, <4>2 DEF m
    <3> QED
      BY <3>1, <3>2
  <2> HIDE DEF k, live, then, age
  <2>6. /\ kept \in Seq(Blocks) /\ Placed(kept, Due, age, sent)
        /\ \A i \in DOMAIN kept : \E j \in DOMAIN pcm : kept[i] = pcm[j]
    <3>1. Placed(pcm, Due, age, sent)
      BY <1>32 DEF InTurn, age
    <3>2. age \in Int /\ sent \in Int
      BY <2>0
    <3>3. kept \in Seq(Blocks) /\ \A i \in 1..Len(kept) : k + i \in 1..Len(pcm) /\ kept[i] = pcm[k + i]
      <4>1. ASSUME NEW q \in Seq(Blocks), NEW m \in Nat
            PROVE  /\ SubSeq(q, m + 1, Len(q)) \in Seq(Blocks)
                   /\ \A i \in 1..Len(SubSeq(q, m + 1, Len(q))) :
                        m + i \in 1..Len(q) /\ SubSeq(q, m + 1, Len(q))[i] = q[m + i]
        OBVIOUS
      <4>2. /\ SubSeq(pcm, k + 1, Len(pcm)) \in Seq(Blocks)
            /\ \A i \in 1..Len(SubSeq(pcm, k + 1, Len(pcm))) :
                  k + i \in 1..Len(pcm) /\ SubSeq(pcm, k + 1, Len(pcm))[i] = pcm[k + i]
        BY <2>0, <2>3, <4>1, Zenon
      <4> QED
        BY <4>2, Zenon
    <3> HIDE DEF kept
    <3>4. IsRest(kept, pcm)
      BY <2>3, <3>3 DEF IsRest
    <3> QED
      BY <1>12, <2>0, <3>1, <3>2, <3>3, <3>4
  <2>7. /\ kept \o tail \in Seq(Blocks) /\ Placed(kept \o tail, Due, age, sent)
        /\ ~imported => kept \o tail = kept
    <3>1. CASE ~imported
      <4>1. tail = <<>>
        BY <3>1
      <4>2. kept \o <<>> = kept
        BY <2>6
      <4> QED
        BY <2>6, <4>1, <4>2
    <3>2. CASE imported
      <4>1. pcm = <<>>
        BY <1>32, <3>2 DEF InTurn
      <4>2. kept = <<>>
        <5>1. \A i \in DOMAIN kept : FALSE
          BY <2>6, <4>1
        <5> HIDE DEF kept
        <5> QED
          BY <2>6, <5>1
      <4>3. tail \in Seq(Blocks) /\ Placed(tail, Due, age, sent)
        <5>1. CASE late \/ paused = <<>>
          <6>1. tail = <<>>
            BY <3>2, <5>1 DEF Imports
          <6>2. <<>> \in Seq(Blocks) /\ Placed(<<>>, Due, age, sent)
            BY <1>11
          <6> HIDE DEF tail
          <6> QED
            BY <6>1, <6>2
        <5>2. CASE ~(late \/ paused = <<>>)
          <6>1. tail = Shifted(paused, Due - End(Last(paused)))
            BY <2>2, <3>2, <5>2 DEF Imports
          <6>2. PICK mark \in Rtp : Placed(paused, mark, age, sent)
            BY <1>32, <3>2 DEF InTurn, age
          <6>3. age \in Int /\ sent \in Int
            BY <2>0
          <6> HIDE DEF tail
          <6> QED
            BY <1>31, <2>0, <5>2, <6>1, <6>2, <6>3
        <5> QED
          BY <5>1, <5>2
      <4> HIDE DEF tail, kept
      <4>4. <<>> \o tail = tail
        BY <4>3
      <4> QED
        BY <3>2, <4>2, <4>3, <4>4
    <3> QED
      BY <3>1, <3>2
  <2> DEFINE front == kept \o tail
  <2>8. /\ live.len > 0 => live \in Blocks /\ pcm' = front \o <<live>>
        /\ ~(live.len > 0) => pcm' = front
    <3>1. live.len > 0 => new = <<live>>
      OBVIOUS
    <3>2. ~(live.len > 0) => new = <<>>
      OBVIOUS
    <3> HIDE DEF new, kept, tail
    <3>3. front \o <<>> = front
      BY <2>7
    <3> QED
      BY <2>4, <2>5, <3>1, <3>2, <3>3
  <2> HIDE DEF new, kept, tail
  <2>9. Placed(pcm', then, age + PktLen, sent + PktLen)
    <3> HIDE DEF front
    <3>1. front \in Seq(Blocks) /\ Placed(front, Due, age, sent)
      BY <2>7 DEF front
    <3>2. CASE live.len > 0
      <4>1. /\ live.len <= Lag(live, then) /\ Lag(live, then) <= PktLen
            /\ sent <= live.src /\ live.src + live.len <= sent + PktLen
        <5> DEFINE l == live.len
                   m == live.src
                   g == Lag(live, then)
        <5>1. l = PktLen - n /\ m = sent + n /\ g = PktLen - n /\ n \in 0..PktLen
          BY <2>5
        <5> HIDE DEF l, m, g
        <5>2. l <= g /\ g <= PktLen /\ sent <= m /\ m + l <= sent + PktLen
          BY <2>0, <2>1, <5>1
        <5> QED
          BY <5>2 DEF l, m, g
      <4>2. live \in Blocks /\ pcm' = front \o <<live>>
        BY <2>8, <3>2
      <4> QED
        BY <1>23, <2>0, <2>1, <3>1, <4>1, <4>2
    <3>3. CASE ~(live.len > 0)
      BY <1>22, <2>0, <2>1, <2>8, <3>1, <3>3
    <3> QED
      BY <3>2, <3>3
  <2>10. ASSUME ~imported
         PROVE  Placed(paused', then, age + PktLen, sent + PktLen) /\ Follows(pcm', paused', then)
    <3>1. /\ Placed(paused, Due, age, sent)
          /\ Placed(paused, then, age + PktLen, sent + PktLen) /\ Follows(pcm, paused, then)
      BY <1>27, <1>32, <2>1, <2>10 DEF InTurn, age, then
    <3>2. front = kept
      BY <2>7, <2>10
    <3>3. Follows(kept, paused, then)
      BY <2>6, <3>1 DEF Follows
    <3>4. CASE paused' = paused
      <4>1. ASSUME live.len > 0 PROVE Follows(<<live>>, paused, then)
        <5>1. ASSUME paused # <<>> PROVE Last(paused).src + Last(paused).len <= live.src
          <6>1. Last(paused) \in Blocks /\ Last(paused).src + Last(paused).len <= sent
            <7>1. age \in Int /\ sent \in Int
              BY <2>0
            <7> QED
              BY <1>15, <2>0, <3>1, <5>1, <7>1
          <6> DEFINE m == Last(paused).src
                     l == Last(paused).len
          <6>2. m \in Nat /\ l \in Nat
            BY <1>4, <6>1
          <6>3. m + l <= sent /\ live.src = sent + n
            BY <2>5, <6>1
          <6> HIDE DEF m, l
          <6>4. m + l <= live.src
            BY <2>0, <6>2, <6>3
          <6> QED
            BY <6>4 DEF m, l
        <5> QED
          BY <5>1 DEF Follows, Past
      <4> HIDE DEF front
      <4>2. ASSUME live.len > 0 PROVE Follows(pcm', paused', then)
        <5>1. <<live>> \in Seq(Blocks) /\ pcm' = kept \o <<live>>
          BY <2>8, <3>2, <4>2
        <5> QED
          BY <1>20, <2>6, <3>3, <3>4, <4>1, <4>2, <5>1
      <4>3. ASSUME ~(live.len > 0) PROVE Follows(pcm', paused', then)
        BY <2>8, <3>2, <3>3, <3>4, <4>3
      <4> QED
        BY <3>1, <3>4, <4>2, <4>3
    <3>5. CASE paused' # paused
      <4> DEFINE z == Last(paused)
                 d == TrimBefore(b, End(z))
                 kd == Excess(b, End(z))
                 rem == Wrap(boundary - d.rtp)
                 e == [d EXCEPT !.len = Least(d.len, rem)]
      <4>1. /\ boundary # None /\ paused # <<>> /\ boundary \in Rtp /\ boundary \in Int
            /\ paused' = Append(paused, e) /\ d.len > 0 /\ rem > 0
        <5>1. boundary # None /\ paused # <<>> /\ paused' = Drained(b)
          BY <2>4, <2>10, <3>5
        <5>2. boundary \in Rtp /\ \A x \in Rtp : x \in Int
          BY <1>1, <2>0, <5>1
        <5> QED
          BY <3>5, <5>1, <5>2 DEF Drained
      <4>2. z \in Blocks /\ End(z) \in Rtp
        <5>1. z \in Blocks
          BY <2>0, <4>1 DEF Last
        <5>2. z.rtp + z.len \in Int
          BY <1>4, <5>1
        <5> QED
          BY <1>1, <5>1, <5>2 DEF End
      <4> HIDE DEF z
      <4>3. /\ kd \in 0..PktLen /\ kd \in Nat
            /\ d.rtp = Wrap(Due + kd) /\ d.len = PktLen - kd /\ d.src = sent + kd
            /\ Lag(d, then) = PktLen - kd /\ d \in Blocks
        <5>1. d = TrimBefore(b, End(z)) /\ kd = Excess(b, End(z))
          OBVIOUS
        <5> HIDE DEF d, kd
        <5>2. /\ kd \in 0..PktLen /\ kd \in Nat
              /\ d.rtp = Wrap(b.rtp + kd) /\ d.len = PktLen - kd /\ d.src = b.src + kd
              /\ Lag(d, then) = PktLen - kd /\ (d.len > 0 => d \in Blocks)
          BY <1>29, <2>1, <2>2, <4>2, <5>1
        <5>3. d.len > 0
          BY <4>1 DEF d
        <5> QED
          BY <2>2, <5>2, <5>3
      <4> HIDE DEF d, kd
      <4>4. rem \in Nat /\ Wrap(boundary - Due) = Wrap(rem + kd)
        <5> DEFINE u == boundary - (Due + kd)
        <5>1. Due + kd \in Int /\ u \in Int /\ u + kd = boundary - Due
          BY <2>0, <4>1, <4>3
        <5>2. rem = Wrap(u)
          BY <1>2, <4>1, <4>3, <5>1
        <5> HIDE DEF u, rem
        <5>3. rem \in Rtp /\ Wrap(rem + kd) = Wrap(u + kd)
          BY <1>1, <1>2, <4>3, <5>1, <5>2
        <5>4. rem \in Nat
          BY <1>1, <5>3
        <5> QED
          BY <5>1, <5>3, <5>4
      <4> HIDE DEF rem
      <4> DEFINE w == Least(d.len, rem)
      <4>5. /\ w \in 1..PktLen - kd /\ w \in Nat /\ PktLen - kd \in Nat
            /\ w = PktLen - kd \/ (rem < PktLen - kd /\ w = rem)
        BY <2>1, <4>1, <4>3, <4>4 DEF Least
      <4>6. e.rtp = d.rtp /\ e.src = sent + kd /\ e.len = w /\ e \in Blocks
        <5>1. d = [rtp |-> d.rtp, len |-> d.len, src |-> d.src] /\ d.rtp \in Rtp /\ d.src \in Nat
          BY <4>3 DEF Blocks
        <5> HIDE DEF w
        <5>2. e = [rtp |-> d.rtp, len |-> w, src |-> d.src]
          BY <5>1 DEF w
        <5>3. w \in 1..PktLen
          BY <2>1, <4>3, <4>5
        <5> HIDE DEF e
        <5> QED
          BY <4>3, <5>1, <5>2, <5>3 DEF Blocks
      <4> HIDE DEF e, w
      <4>7. Lag(e, then) = PktLen - kd
        BY <4>3, <4>6 DEF Lag
      <4>8. /\ Append(paused, e) = paused \o <<e>> /\ paused' # <<>> /\ Last(paused') = e
        <5>1. \A q \in Seq(Blocks), c \in Blocks :
                 Append(q, c) = q \o <<c>> /\ Append(q, c) # <<>> /\ Last(Append(q, c)) = c
          BY DEF Last
        <5> QED
          BY <2>0, <4>1, <4>6, <5>1
      <4>9. Placed(paused', then, age + PktLen, sent + PktLen)
        <5>1. /\ e.len <= Lag(e, then) /\ Lag(e, then) <= PktLen
              /\ sent <= e.src /\ e.src + e.len <= sent + PktLen
          <6> DEFINE l == e.len
                     m == e.src
                     g == Lag(e, then)
          <6>1. l = w /\ m = sent + kd /\ g = PktLen - kd
            BY <4>6, <4>7
          <6> HIDE DEF l, m, g
          <6>2. l <= g /\ g <= PktLen /\ sent <= m /\ m + l <= sent + PktLen
            BY <2>0, <2>1, <4>3, <4>5, <6>1
          <6> QED
            BY <6>2 DEF l, m, g
        <5> QED
          BY <1>23, <2>0, <2>1, <3>1, <4>1, <4>6, <4>8, <5>1
      <4>10. Follows(kept, paused', then)
        <5>1. ASSUME NEW i \in DOMAIN kept PROVE Past(kept[i], e, then)
          <6>1. PktLen <= Lag(kept[i], then) - kept[i].len
            BY <1>22, <2>0, <2>1, <2>6
          <6> DEFINE l == Lag(kept[i], then)
                     m == kept[i].len
          <6>2. kept[i] \in Blocks
            BY <2>6
          <6>3. l \in Nat /\ m \in Nat
            BY <1>4, <1>5, <2>1, <6>2
          <6> HIDE DEF l, m
          <6>4. PktLen <= l - m
            BY <6>1 DEF l, m
          <6>5. (PktLen - kd) - w <= l - m
            BY <2>1, <4>3, <4>5, <6>3, <6>4
          <6> QED
            BY <4>6, <4>7, <6>5 DEF Past, l, m
        <5> QED
          BY <4>8, <5>1 DEF Follows
      <4>11. ASSUME live.len > 0 PROVE Follows(<<live>>, paused', then)
        <5>1. CASE w = PktLen - kd
          <6>1. Lag(e, then) - e.len = 0 /\ Lag(live, then) - live.len = 0
            BY <2>1, <2>5, <4>3, <4>6, <4>7, <5>1
          <6>2. Past(live, e, then)
            BY <6>1 DEF Past
          <6> QED
            BY <4>8, <6>2 DEF Follows
        <5>2. CASE rem < PktLen - kd /\ w = rem
          <6>1. rem + kd \in Nat /\ rem + kd < PktLen
            BY <2>1, <4>3, <4>4, <5>2
          <6>2. rem + kd < RtpMod \div 2 /\ rem + kd \in Rtp
            <7> DEFINE g == rem + kd
                       h == RtpMod \div 2
            <7>1. g \in Nat /\ g < PktLen /\ h \in Nat /\ PktLen <= h /\ h < RtpMod
              BY <1>17, <6>1
            <7> HIDE DEF g, h
            <7>2. g < h /\ g \in 0..RtpMod - 1
              BY <1>1, <2>1, <7>1
            <7> QED
              BY <1>1, <7>2 DEF g, h
          <6>3. Wrap(boundary - Due) = rem + kd
            BY <1>3, <4>4, <6>2
          <6>4. n = rem + kd
            <7>1. n = Excess(b, boundary)
              BY <2>5, <4>1
            <7>2. RtpMod \div 2 \in Nat
              BY <1>17
            <7> DEFINE g == rem + kd
                       h == RtpMod \div 2
            <7>3. n = IF g >= h THEN 0 ELSE Least(g, PktLen)
              BY <2>2, <6>3, <7>1 DEF Excess
            <7>4. g \in Nat /\ g < PktLen /\ h \in Nat /\ g < h
              BY <6>1, <6>2, <7>2
            <7> HIDE DEF g, h
            <7>5. n = g
              BY <2>1, <7>3, <7>4 DEF Least
            <7> QED
              BY <7>5 DEF g
          <6>5. e.src + e.len <= live.src
            BY <2>0, <2>5, <4>3, <4>4, <4>6, <5>2, <6>4
          <6> QED
            BY <4>8, <6>5 DEF Follows, Past
        <5> QED
          BY <4>5, <5>1, <5>2
      <4>12. Follows(pcm', paused', then)
        <5> HIDE DEF front
        <5>1. CASE live.len > 0
          <6>1. <<live>> \in Seq(Blocks) /\ pcm' = kept \o <<live>>
            BY <2>8, <3>2, <5>1
          <6> QED
            BY <1>20, <2>6, <4>10, <4>11, <5>1, <6>1
        <5>2. CASE ~(live.len > 0)
          BY <2>8, <3>2, <4>10, <5>2
        <5> QED
          BY <5>1, <5>2
      <4> QED
        BY <4>9, <4>12
    <3> QED
      BY <3>4, <3>5
  <2>11. imported => paused' = <<>>
    BY <2>4
  <2>12. /\ Placed(pcm', then, Age(K)', sent') /\ Placed(paused', then, Age(K)', sent')
         /\ Follows(pcm', paused', then)
    BY <1>11, <1>32, <2>0, <2>1, <2>9, <2>10, <2>11 DEF Follows
  <2> QED
    BY <2>1, <2>4, <2>12 DEF InTurn, then
<1>33. ASSUME CounterInv, InTurn(K), CounterInv', Received PROVE InTurn(K)'
  <2>1. sent' = sent + PktLen /\ sent < MaxSrc /\ UNCHANGED <<ahead, ops>>
    BY <1>33 DEF Received, SendsNext
  <2>2. PICK late \in BOOLEAN : Enqueues(Block(sent + ahead, PktLen, sent), late)
    BY <1>33 DEF Received, Packet
  <2> QED
    BY <1>32, <1>33, <2>1, <2>2
<1>34. ASSUME CounterInv, InTurn(K), Takes, UNCHANGED ops PROVE InTurn(K)'
  <2>1. /\ pcm # <<>> /\ pcm' = Tail(pcm)
        /\ paused' = paused /\ imported' = imported /\ sent' = sent /\ ahead' = ahead /\ ops' = ops
    BY <1>34 DEF Takes, net
  <2>2. /\ ~imported /\ sent < MaxSrc + PktLen
        /\ Placed(pcm, Due, Age(K), sent) /\ Placed(paused, Due, Age(K), sent)
        /\ Follows(pcm, paused, Due)
    BY <1>34, <2>1 DEF InTurn
  <2>3. pcm \in Seq(Blocks) /\ Due \in Rtp /\ Age(K) \in Int /\ sent \in Int
    BY <1>24, <1>34
  <2>4. Tail(pcm) \in Seq(Blocks) /\ IsRest(Tail(pcm), pcm)
    <3>1. ASSUME NEW q \in Seq(Blocks), q # <<>>
          PROVE  /\ Tail(q) \in Seq(Blocks)
                 /\ \A i \in 1..Len(Tail(q)) : 1 + i \in 1..Len(q) /\ Tail(q)[i] = q[1 + i]
      BY <3>1
    <3>2. Tail(pcm) \in Seq(Blocks) /\ \A i \in 1..Len(Tail(pcm)) :
             1 + i \in 1..Len(pcm) /\ Tail(pcm)[i] = pcm[1 + i]
      BY <2>1, <2>3, <3>1, Zenon
    <3>3. 1 \in Nat
      OBVIOUS
    <3> QED
      BY <3>2, <3>3, Zenon DEF IsRest
  <2> DEFINE rest == Tail(pcm)
  <2>5. rest \in Seq(Blocks) /\ IsRest(rest, pcm)
    BY <2>4
  <2> HIDE DEF rest
  <2>6. /\ Placed(rest, Due, Age(K), sent)
        /\ \A i \in DOMAIN rest : \E j \in DOMAIN pcm : rest[i] = pcm[j]
    BY <1>12, <2>2, <2>3, <2>5
  <2>7. Follows(rest, paused, Due)
    BY <2>2, <2>6 DEF Follows
  <2>8. Due' = Due /\ Age(K)' = Age(K) /\ pcm' = rest
    BY <2>1 DEF Due, Age, rest
  <2> QED
    BY <2>1, <2>2, <2>6, <2>7, <2>8 DEF InTurn
<1>35. ASSUME InTurn(K), UNCHANGED <<queue, net, ops>> PROVE InTurn(K)'
  BY <1>35 DEF InTurn, queue, net, Due, Age, Placed, Lag, Follows, Past
\* An operation of the control thread: a pause of up to K may be over.
<1>36. ASSUME CounterInv, InTurn(K), CounterInv', Operates, sent' = sent
       PROVE  /\ Age(K)' = Age(K) + K /\ Age(K) <= Age(K)' /\ Age(K)' \in Nat
              /\ Age(K)' < RtpMod \div 2 /\ Age(K)' < RtpMod
  <2>1. /\ sent \in Nat /\ sent < MaxSrc + PktLen /\ ops \in 0..MaxOps /\ Age(K) \in Nat
    BY <1>24, <1>36
  <2>2. ops' = ops + 1 /\ ops' \in 0..MaxOps
    BY <1>36 DEF CounterInv, QueueTypeOK, Operates
  <2>3. Age(K)' = sent + K * (ops + 1)
    BY <1>36, <2>2 DEF Age
  <2>4. sent + K * (ops + 1) < RtpMod \div 2 /\ sent + K * (ops + 1) < RtpMod
    BY <1>18, <2>1, <2>2
  <2>5. K * (ops + 1) = K * ops + K
    BY <2>1
  <2>6. K * ops \in Nat
    BY <2>1
  <2>7. sent + (K * ops + K) = (sent + K * ops) + K
    BY <2>1, <2>6
  <2>8. Age(K)' = Age(K) + K
    BY <2>3, <2>5, <2>7 DEF Age
  <2> QED
    BY <2>1, <2>3, <2>4, <2>8
<1>37. ASSUME CounterInv, InTurn(K), CounterInv', Operates, sent' = sent,
              pcm' = <<>>, paused' = <<>>, imported' = FALSE
       PROVE  InTurn(K)'
  <2>1. sent' < MaxSrc + PktLen /\ Follows(pcm', paused', Due')
    BY <1>37 DEF InTurn, Follows
  <2> QED
    BY <1>11, <1>37, <2>1 DEF InTurn
<1>38. ASSUME CounterInv, InTurn(K), CounterInv', NEW r \in Rtp, FlushTo(r) PROVE InTurn(K)'
  <2> DEFINE age == Age(K)
             since == Age(K)'
             q == pcm'
  <2>1. /\ Operates /\ sent' = sent /\ ahead' = ahead /\ imported' = imported
        /\ q = TrimQueue(pcm, r)
        /\ paused' = IF imported THEN paused ELSE IF sync THEN pcm ELSE <<>>
    BY <1>38 DEF FlushTo, Saved, net
  <2>2. /\ pcm \in Seq(Blocks) /\ paused \in Seq(Blocks) /\ Due \in Rtp /\ sent \in Int
        /\ age \in Int /\ since \in Int /\ age <= since /\ Due' = Due
    BY <1>24, <1>36, <1>38, <2>1 DEF Due
  <2> HIDE DEF age, since
  <2>3. Placed(pcm, Due, age, sent) /\ sent < MaxSrc + PktLen
    BY <1>38 DEF InTurn, age
  <2> HIDE DEF q
  <2>4. /\ q \in Seq(Blocks) /\ Placed(q, Due, age, sent)
        /\ \A i \in DOMAIN q : \E j \in DOMAIN pcm : IsLeft(q[i], pcm[j], r, Due)
    BY <1>13, <2>1, <2>2, <2>3
  <2>5. Placed(q, Due, since, sent) /\ Placed(pcm, Due, since, sent)
    BY <1>19, <2>2, <2>3, <2>4
  <2>6. CASE imported
    <3>1. pcm = <<>>
      BY <1>38, <2>6 DEF InTurn
    <3>2. q = <<>>
      <4>1. \A i \in DOMAIN q : FALSE
        BY <2>4, <3>1
      <4> QED
        BY <2>4, <4>1
    <3>3. PICK mark \in Rtp : Placed(paused, mark, age, sent)
      BY <1>38, <2>6 DEF InTurn, age
    <3>4. Placed(paused, mark, since, sent)
      BY <1>19, <2>2, <3>3
    <3>5. \E m \in Rtp : Placed(paused, m, since, sent)
      BY <3>4
    <3> QED
      BY <2>1, <2>2, <2>3, <2>5, <2>6, <3>2, <3>5 DEF InTurn, q, since
  <2>7. CASE ~imported
    <3>1. Placed(paused', Due, since, sent)
      BY <1>11, <2>1, <2>5, <2>7
    <3>2. ASSUME pcm # <<>>, NEW i \in DOMAIN q PROVE Past(q[i], Last(pcm), Due)
      <4>1. PICK j \in DOMAIN pcm : IsLeft(q[i], pcm[j], r, Due)
        BY <2>4
      <4>2. Lag(Last(pcm), Due) - Last(pcm).len <= Lag(pcm[j], Due) - pcm[j].len
        BY <1>15, <2>2, <2>3, <3>2
      <4> DEFINE l == Lag(pcm[j], Due)
                 n == pcm[j].len
                 k == Excess(pcm[j], r)
      <4>3. pcm[j] \in Blocks
        BY <2>2
      <4>4. l \in Nat /\ n \in Nat /\ k \in Nat /\ q[i].len = n - k /\ Lag(q[i], Due) = l - k
        BY <1>4, <1>5, <2>2, <4>1, <4>3 DEF IsLeft
      <4>5. Lag(Last(pcm), Due) - Last(pcm).len <= l - n
        BY <4>2
      <4> HIDE DEF l, n, k
      <4>6. (l - k) - (n - k) = l - n
        BY <4>4
      <4> QED
        BY <4>4, <4>5, <4>6 DEF Past
    <3>3. Follows(q, paused', Due)
      BY <2>1, <2>7, <3>2 DEF Follows
    <3> QED
      BY <2>1, <2>2, <2>3, <2>5, <2>7, <3>1, <3>3 DEF InTurn, q, since
  <2> QED
    BY <2>6, <2>7
<1>39. ASSUME CounterInv, InTurn(K), CounterInv', ResumeDiscards \/ DiscardPause
       PROVE  InTurn(K)'
  <2> DEFINE age == Age(K)
             since == Age(K)'
  <2>1. /\ Operates /\ sent' = sent /\ ahead' = ahead /\ imported' = FALSE
        /\ pcm' = pcm /\ paused' = <<>>
    <3>1. imported \in BOOLEAN
      BY <1>24, <1>39
    <3> QED
      BY <1>39, <3>1 DEF ResumeDiscards, DiscardPause, net
  <2>2. /\ pcm \in Seq(Blocks) /\ Due \in Rtp /\ sent \in Int
        /\ age \in Int /\ since \in Int /\ age <= since /\ Due' = Due
    BY <1>24, <1>36, <1>39, <2>1 DEF Due
  <2> HIDE DEF age, since
  <2>3. Placed(pcm, Due, age, sent) /\ sent < MaxSrc + PktLen
    BY <1>39 DEF InTurn, age
  <2>4. Placed(pcm, Due, since, sent)
    BY <1>19, <2>2, <2>3
  <2>5. Follows(pcm, <<>>, Due)
    BY DEF Follows
  <2> QED
    BY <1>11, <2>1, <2>2, <2>3, <2>4, <2>5 DEF InTurn, since
\* The tail that is handed on keeps its order; its clock is no longer the sender's.
<1>40. ASSUME CounterInv, InTurn(K), CounterInv', NEW r \in Epochs, NEW y \in BOOLEAN,
              Recreate(r, y)
       PROVE  InTurn(K)'
  <2> DEFINE age == Age(K)
             since == Age(K)'
  <2>1. /\ Operates /\ sent' = sent /\ imported' = (paused' # <<>>)
        /\ pcm' = <<>> /\ (paused' = paused \/ paused' = <<>>)
    BY <1>40 DEF Recreate, Saved
  <2>2. /\ paused \in Seq(Blocks) /\ Due \in Rtp /\ sent \in Int
        /\ age \in Int /\ since \in Int /\ age <= since /\ sent < MaxSrc + PktLen
    BY <1>24, <1>36, <1>40, <2>1
  <2> HIDE DEF age, since
  <2>3. PICK mark \in Rtp : Placed(paused, mark, age, sent)
    BY <1>40, <2>2 DEF InTurn, age
  <2>4. Placed(paused, mark, since, sent)
    BY <1>19, <2>2, <2>3
  <2>5. CASE paused' = <<>>
    BY <1>37, <1>40, <2>1, <2>5
  <2>6. CASE paused' # <<>>
    <3>1. imported' /\ paused' = paused
      BY <2>1, <2>6
    <3>2. \E m \in Rtp : Placed(paused, m, since, sent)
      BY <2>4
    <3> QED
      BY <1>11, <2>1, <2>2, <3>1, <3>2 DEF InTurn, since
  <2> QED
    BY <2>5, <2>6
\* What is left of a block behind a boundary, which lies e before the mark.
<1>41. ASSUME NEW b \in Blocks, NEW mark \in Rtp, NEW end \in Rtp, NEW e \in Nat,
              Wrap(mark - end) = e, Lag(b, mark) < RtpMod \div 2, Excess(b, end) < b.len
       PROVE  Lag(b, mark) - Excess(b, end) <= e /\ Lag(b, mark) - e < b.len
  <2> DEFINE l == Lag(b, mark)
             k == Excess(b, end)
             m == b.len
             h == RtpMod \div 2
  <2>1. /\ l \in Nat /\ m \in Nat /\ k \in Nat /\ h \in Nat /\ h < RtpMod /\ RtpMod \in Nat
        /\ m > 0 /\ l < h /\ k < m
    <3>1. k \in 0..b.len
      BY Trimmed
    <3>2. k \in Nat
      BY <1>4, <3>1
    <3> QED
      BY <1>1, <1>4, <1>5, <1>17, <1>41, <3>2
  <2>2. CASE l < e
    <3> HIDE DEF l, k, m, h
    <3>1. l - k <= e /\ l - e < m
      BY <2>1, <2>2
    <3> QED
      BY <3>1 DEF l, k, m
  <2>3. CASE e <= l
    <3>1. Wrap(end - b.rtp) = l - e
      <4> DEFINE u == mark - b.rtp
                 v == mark - end
      <4>1. u \in Int /\ v \in Int /\ end - b.rtp = u - v /\ -v \in Int /\ -e \in Int
        <5>1. mark \in Int /\ end \in Int /\ b.rtp \in Int
          BY <1>1, <1>4
        <5> QED
          BY <5>1
      <4>2. Wrap(u) = l /\ Wrap(v) = e
        BY <1>41 DEF Lag
      <4> HIDE DEF u, v, l, h
      <4>3. Wrap(u - Wrap(v)) = Wrap(u - v)
        BY <1>2, <4>1
      <4>4. l + (-e) \in Rtp
        <5>1. l + (-e) \in 0..RtpMod - 1
          BY <2>1, <2>3
        <5> QED
          BY <1>1, <5>1
      <4>5. Wrap(u + (-e)) = l + (-e)
        BY <1>2, <4>1, <4>2, <4>4
      <4>6. u + (-e) = u - e /\ l + (-e) = l - e
        BY <2>1, <4>1
      <4> QED
        BY <4>1, <4>2, <4>3, <4>5, <4>6
    <3> DEFINE g == l - e
    <3>2. k = IF g >= h THEN 0 ELSE Least(g, m)
      BY <3>1 DEF Excess
    <3> HIDE DEF l, k, m, h
    <3>3. g < h /\ g \in Nat
      BY <2>1, <2>3
    <3>4. k = g
      BY <2>1, <3>2, <3>3 DEF Least
    <3>5. l - k <= e /\ l - e < m
      BY <2>1, <2>3, <3>4
    <3> QED
      BY <3>5 DEF l, k, m
  <2> QED
    BY <2>1, <2>2, <2>3
\* The saved tail goes on where the rest, of which it drops what overlaps, begins.
<1>42. ASSUME CounterInv, InTurn(K), CounterInv', NEW n \in Pauses, Resume(n)
       PROVE  InTurn(K)'
  <2> DEFINE age == Age(K)
             since == Age(K)'
             tail == Shifted(paused, n)
             end == End(Last(tail))
             rest == TrimQueue(pcm, end)
  <2>1. /\ Operates /\ sent' = sent /\ imported' = FALSE /\ imported = FALSE
        /\ paused # <<>> /\ paused' = <<>> /\ pcm' = tail \o rest
    <3>1. imported \in BOOLEAN
      BY <1>24, <1>42
    <3> QED
      BY <1>42, <3>1 DEF Resume, Overlaps
  <2>2. PICK j \in Jitter : ahead' = Wrap(ahead + n + j)
    BY <1>42 DEF Resume
  <2>3. n \in Nat /\ n > 0 /\ j \in Nat /\ n + j \in Nat /\ n + j <= K
    <3>1. n \in 1..RtpMod
      BY AudioAssumption
    <3>2. j \in Nat /\ n + j <= K
      BY DEF WithinHalfATurn
    <3> QED
      BY <1>1, <3>1, <3>2
  <2>4. /\ pcm \in Seq(Blocks) /\ paused \in Seq(Blocks) /\ Due \in Rtp /\ Due \in Int
        /\ sent \in Nat /\ sent \in Int /\ ahead \in Int /\ sent < MaxSrc + PktLen
        /\ age \in Nat /\ age \in Int /\ since \in Nat /\ since \in Int /\ since = age + K
        /\ since < RtpMod \div 2 /\ since < RtpMod
    BY <1>24, <1>36, <1>42, <2>1
  <2>5. /\ Placed(pcm, Due, age, sent) /\ Placed(paused, Due, age, sent)
        /\ Follows(pcm, paused, Due)
    BY <1>42, <2>1 DEF InTurn
  <2> DEFINE then == Due'
             mark == Wrap(Due + n)
  <2>6. mark \in Rtp /\ then = Later(mark, j) /\ then = Later(Due, n + j) /\ then \in Rtp
    <3> DEFINE u == sent + ahead
               v == ahead + n + j
    <3>1. u \in Int /\ v \in Int /\ u + n \in Int /\ v + sent = u + (n + j)
          /\ (u + n) + j = u + (n + j) /\ Due + n \in Int
      BY <2>3, <2>4
    <3>2. then = Wrap(sent + Wrap(v))
      BY <2>1, <2>2 DEF Due
    <3>3. Due = Wrap(u)
      BY DEF Due
    <3> HIDE DEF u, v, then, mark
    <3>4. Wrap(v) \in Int /\ Wrap(u) \in Int /\ sent + Wrap(v) = Wrap(v) + sent
      <4> DEFINE x == Wrap(v)
      <4>1. x \in Int /\ Wrap(u) \in Int
        BY <1>1, <3>1
      <4> HIDE DEF x
      <4>2. sent + x = x + sent
        BY <2>4, <4>1
      <4> QED
        BY <4>1, <4>2 DEF x
    <3>5. Wrap(Wrap(v) + sent) = Wrap(v + sent)
      BY <1>2, <2>4, <3>1
    <3>6. then = Wrap(u + (n + j))
      BY <3>1, <3>2, <3>4, <3>5
    <3>7. Wrap(Wrap(u) + (n + j)) = Wrap(u + (n + j)) /\ Wrap(Wrap(u) + n) = Wrap(u + n)
      <4>1. n \in Int /\ n + j \in Int
        BY <2>3
      <4> QED
        BY <1>2, <3>1, <4>1
    <3>8. Wrap(Wrap(u + n) + j) = Wrap((u + n) + j)
      <4>1. u + n \in Int /\ j \in Int
        BY <2>3, <3>1
      <4> QED
        BY <1>2, <4>1
    <3>9. then \in Rtp /\ Wrap(Due + n) \in Rtp
      <4>1. u + (n + j) \in Int
        BY <2>3, <3>1
      <4> QED
        BY <1>1, <3>1, <3>6, <4>1
    <3> QED
      BY <3>1, <3>3, <3>6, <3>7, <3>8, <3>9 DEF Later, mark
  <2> HIDE DEF age, since, then
  <2>7. /\ tail \in Seq(Blocks) /\ Placed(tail, mark, age, sent)
        /\ Len(tail) = Len(paused) /\ DOMAIN tail = DOMAIN paused
        /\ \A i \in DOMAIN paused :
              /\ tail[i].len = paused[i].len /\ tail[i].src = paused[i].src
              /\ Lag(tail[i], mark) = Lag(paused[i], Due)
    BY <1>16, <2>3, <2>4, <2>5
  <2> HIDE DEF tail, mark
  <2>8. ASSUME NEW q \in Seq(Blocks), NEW m \in Rtp, Placed(q, m, age, sent),
               NEW s \in Nat, s <= K, then = Later(m, s)
        PROVE  /\ Placed(q, then, since, sent)
               /\ \A i \in DOMAIN q : Lag(q[i], then) = Lag(q[i], m) + s
    <3>1. ASSUME NEW i \in DOMAIN q PROVE q[i].len <= Lag(q[i], m) + s /\ Lag(q[i], m) + s <= since
      <4> DEFINE l == Lag(q[i], m)
                 w == q[i].len
      <4>1. q[i] \in Blocks
        OBVIOUS
      <4>2. l \in Nat /\ w \in Nat /\ w <= l /\ l <= age
        BY <1>4, <1>5, <2>8, <4>1 DEF Placed
      <4> HIDE DEF l, w
      <4>3. w <= l + s /\ l + s <= since
        BY <2>4, <2>8, <4>2
      <4> QED
        BY <4>3 DEF l, w
    <3>2. Moves(q, m, s, since) /\ s \in Int
      BY <3>1 DEF Moves
    <3> QED
      BY <1>14, <2>4, <2>8, <3>2
  <2>9. /\ Placed(tail, then, since, sent)
        /\ \A i \in DOMAIN tail : Lag(tail[i], then) = Lag(tail[i], mark) + j
    <3>1. j <= K
      BY <2>3
    <3> QED
      BY <2>3, <2>6, <2>7, <2>8, <3>1
  <2>10. /\ Placed(pcm, then, since, sent)
         /\ \A i \in DOMAIN pcm : Lag(pcm[i], then) = Lag(pcm[i], Due) + (n + j)
    BY <2>3, <2>4, <2>5, <2>6, <2>8
  <2> DEFINE z == Last(paused)
             y == Last(tail)
             e == Lag(y, then) - y.len
  <2>11. /\ y \in Blocks /\ z \in Blocks /\ tail # <<>> /\ y.len <= Lag(y, then)
         /\ \A i \in DOMAIN tail : /\ Lag(y, then) - y.len <= Lag(tail[i], then) - tail[i].len
                                   /\ tail[i].src + tail[i].len <= y.src + y.len
         /\ y.src = z.src /\ y.len = z.len /\ Lag(y, then) = Lag(z, Due) + j
    <3>1. tail # <<>>
      BY <2>1, <2>4, <2>7
    <3>2. Len(paused) \in DOMAIN paused /\ z = paused[Len(paused)] /\ y = tail[Len(paused)]
          /\ z \in Blocks
      BY <2>1, <2>4, <2>7 DEF Last
    <3>3. y.src = z.src /\ y.len = z.len /\ Lag(y, then) = Lag(z, Due) + j
      BY <2>7, <2>9, <3>2
    <3>4. /\ y \in Blocks /\ y.len <= Lag(y, then)
          /\ \A i \in DOMAIN tail : /\ Lag(y, then) - y.len <= Lag(tail[i], then) - tail[i].len
                                    /\ tail[i].src + tail[i].len <= y.src + y.len
      BY <1>15, <2>4, <2>6, <2>7, <2>9, <3>1
    <3> QED
      BY <3>1, <3>2, <3>3, <3>4
  <2> HIDE DEF z, y
  <2>12. end \in Rtp /\ e \in Nat /\ Wrap(then - end) = e
    BY <1>30, <2>6, <2>11 DEF y
  <2> HIDE DEF end
  <2>13. /\ rest \in Seq(Blocks) /\ Placed(rest, then, since, sent)
         /\ \A i \in DOMAIN rest : \E m \in DOMAIN pcm : IsLeft(rest[i], pcm[m], end, then)
    <3> DEFINE p == pcm
    <3>1. rest = TrimQueue(p, end) /\ p \in Seq(Blocks) /\ Placed(p, then, since, sent)
      BY <2>4, <2>10
    <3> HIDE DEF rest, p
    <3>2. then \in Rtp /\ since \in Int /\ sent \in Int /\ end \in Rtp
      BY <2>4, <2>6, <2>12
    <3>3. rest \in Seq(Blocks) /\ Placed(rest, then, since, sent)
      BY <1>13, <3>1, <3>2
    <3>4. \A i \in DOMAIN rest : \E m \in DOMAIN p : IsLeft(rest[i], p[m], end, then)
      BY <1>13, <3>1, <3>2
    <3> QED
      BY <3>3, <3>4 DEF p
  <2> HIDE DEF rest
  <2>14. ASSUME NEW i \in DOMAIN rest
         PROVE  Lag(rest[i], then) <= e /\ y.src + y.len <= rest[i].src
    <3>1. PICK m \in DOMAIN pcm : IsLeft(rest[i], pcm[m], end, then)
      BY <2>13
    <3> DEFINE b == pcm[m]
               k == Excess(b, end)
               l == Lag(b, Due)
               w == b.len
               a == b.src
    <3>2. b \in Blocks /\ b.len <= Lag(b, then) /\ Lag(b, then) <= since
          /\ Lag(b, then) = Lag(b, Due) + (n + j)
      BY <2>4, <2>10 DEF Placed
    <3>3. l \in Nat /\ w \in Nat /\ a \in Nat /\ k \in Nat /\ Lag(b, then) = l + (n + j)
      BY <1>4, <1>5, <2>4, <3>1, <3>2 DEF IsLeft
    <3>4. /\ rest[i].len = w - k /\ rest[i].len > 0 /\ rest[i].src = a + k
          /\ Lag(rest[i], then) = Lag(b, then) - k
      BY <3>1 DEF IsLeft
    <3>5. Lag(b, then) < RtpMod \div 2 /\ Excess(b, end) < b.len
      <4> DEFINE g == Lag(b, then)
                 h == RtpMod \div 2
      <4>1. g \in Nat /\ g <= since /\ h \in Nat /\ since < h
        <5>1. g \in Nat /\ g <= since
          BY <1>5, <2>6, <3>2
        <5> QED
          BY <1>17, <2>4, <5>1
      <4> HIDE DEF g, h, b, k, w, l, a, e
      <4>2. g < h /\ k < w
        BY <2>4, <3>3, <3>4, <4>1
      <4> QED
        BY <4>2 DEF g, h, k, w
    <3>6. Lag(b, then) - k <= e /\ Lag(b, then) - e < w
      BY <1>41, <2>6, <2>12, <3>2, <3>5
    <3>7. Past(b, z, Due)
      BY <2>1, <2>5 DEF Follows, z
    <3> HIDE DEF b, k, l, w, a, e
    <3>8. CASE z.src + z.len <= a
      <4> DEFINE zm == z.src
                 zn == z.len
      <4>1. zm \in Nat /\ zn \in Nat /\ zm + zn <= a
        BY <1>4, <2>11, <3>8
      <4> HIDE DEF zm, zn
      <4>2. zm + zn <= a + k
        BY <3>3, <4>1
      <4> QED
        BY <2>11, <3>4, <3>6, <4>2 DEF zm, zn
    <3>9. CASE Lag(z, Due) - z.len <= l - w
      <4> DEFINE zl == Lag(z, Due)
                 zn == z.len
      <4>1. zl \in Nat /\ zn \in Nat /\ zl - zn <= l - w
        BY <1>4, <1>5, <2>4, <2>11, <3>9
      <4>2. e = (zl + j) - zn
        BY <2>11 DEF e
      <4> HIDE DEF zl, zn
      <4>3. ~((l + (n + j)) - e < w)
        BY <2>3, <3>3, <4>1, <4>2
      <4> QED
        BY <3>3, <3>6, <4>3
    <3> QED
      BY <3>7, <3>8, <3>9 DEF Past, l, w, a
  <2>15. ASSUME NEW i \in DOMAIN tail, NEW m \in DOMAIN rest
         PROVE  /\ Lag(rest[m], then) + tail[i].len <= Lag(tail[i], then)
                /\ tail[i].src + tail[i].len <= rest[m].src
    <3> DEFINE l == Lag(tail[i], then)
               w == tail[i].len
               a == tail[i].src
               rl == Lag(rest[m], then)
               ra == rest[m].src
               s == y.src + y.len
    <3>1. tail[i] \in Blocks /\ rest[m] \in Blocks
      BY <2>7, <2>13
    <3>2. l \in Nat /\ w \in Nat /\ a \in Nat /\ rl \in Nat /\ ra \in Nat /\ s \in Nat
      BY <1>4, <1>5, <2>6, <2>11, <3>1
    <3>3. e <= l - w /\ a + w <= s
      BY <2>11
    <3>4. rl <= e /\ s <= ra
      BY <2>14
    <3> HIDE DEF l, w, a, rl, ra, s, e
    <3>5. rl + w <= l /\ a + w <= ra
      BY <2>12, <3>2, <3>3, <3>4
    <3> QED
      BY <3>5 DEF l, w, a, rl, ra
  <2>16. Placed(pcm', then, since, sent)
    BY <1>10, <2>1, <2>7, <2>9, <2>13, <2>15
  <2>17. Follows(pcm', <<>>, then)
    BY DEF Follows
  <2> QED
    BY <1>11, <2>1, <2>4, <2>16, <2>17 DEF InTurn, since, then
<1>43. ASSUME CounterInv, CounterInv', InTurn(K),
              \/ Lost \/ Received \/ FallsBehind
              \/ ClearsSink \/ Plays \/ DropsLate \/ QueueControl
       PROVE  InTurn(K)'
  <2>1. CASE Lost \/ FallsBehind \/ Received
    BY <1>28, <1>33, <1>43, <2>1
  <2>2. CASE ClearsSink
    BY <1>35, <1>43, <2>2 DEF ClearsSink, queue, net
  <2>3. CASE Plays \/ DropsLate
    BY <1>34, <1>43, <2>3 DEF Plays, DropsLate, Takes
  <2>4. CASE FlushAll \/ SetSynchronized
    BY <1>37, <1>43, <2>4 DEF FlushAll, SetSynchronized, FlushesAll, net
  <2>5. ASSUME NEW d \in Leads, FlushTo(Wrap(sent + ahead + d)) PROVE InTurn(K)'
    <3>1. Wrap(sent + ahead + d) \in Rtp
      <4>1. sent \in Nat /\ ahead \in Int /\ d \in Int
        BY <1>24, <1>43, AudioAssumption
      <4>2. sent + ahead + d \in Int
        BY <4>1
      <4> QED
        BY <1>1, <4>2
    <3> QED
      BY <1>38, <1>43, <2>5, <3>1
  <2>6. CASE ResumeDiscards \/ DiscardPause
    BY <1>39, <1>43, <2>6
  <2>7. ASSUME NEW n \in Pauses, Resume(n) PROVE InTurn(K)'
    BY <1>42, <1>43, <2>7
  <2>8. ASSUME NEW r \in Epochs, NEW y \in BOOLEAN, Recreate(r, y) PROVE InTurn(K)'
    BY <1>40, <1>43, <2>8
  <2> QED
    BY <1>43, <2>1, <2>2, <2>3, <2>4, <2>5, <2>6, <2>7, <2>8 DEF QueueControl
\* A step that leaves nothing in either queue, or of which nothing comes late, puts the
\* order right, or keeps it.
<1>44. CounterInv /\ CounterInv' /\ OrderInv(K) /\ [QueueNext]_queueVars => OrderInv(K)'
  <2> SUFFICES ASSUME CounterInv, CounterInv', OrderInv(K), [QueueNext]_queueVars
               PROVE  OrderInv(K)'
    OBVIOUS
  <2>1. sent' < MaxSrc + PktLen
    <3>1. sent' = sent \/ SendsNext
      BY Zenon DEF QueueNext, QueueControl, queueVars, queue, net, out, Lost, Received, FallsBehind,
                   CatchesUp, ClearsSink, Plays, DropsLate, Takes, FlushAll, FlushTo,
                   ResumeDiscards, DiscardPause, SetSynchronized, Recreate, Resume
    <3>2. sent \in Nat /\ sent < MaxSrc + PktLen
      BY DEF CounterInv, QueueTypeOK, OrderInv
    <3>3. MaxSrc \in Nat /\ PktLen \in Nat
      BY AudioAssumption
    <3> QED
      BY <3>1, <3>2, <3>3 DEF SendsNext
  <2>2. ASSUME ~Holds' PROVE InTurn(K)'
    <3>1. pcm' = <<>> /\ paused' = <<>>
      BY <2>2 DEF Holds
    <3>2. 0 \in Rtp /\ Follows(pcm', paused', Due')
      BY <1>1, <3>1 DEF Follows
    <3> QED
      BY <1>11, <2>1, <3>1, <3>2 DEF InTurn
  <2>3. CASE UNCHANGED queueVars
    BY <1>35, <2>3 DEF OrderInv, queueVars, queue, net
  <2>4. CASE /\ \/ Lost \/ Received \/ FallsBehind
                \/ ClearsSink \/ Plays \/ DropsLate \/ QueueControl
             /\ mixed' = (mixed /\ Holds')
    <3>1. CASE mixed /\ Holds'
      BY <2>1, <2>4, <3>1 DEF OrderInv
    <3>2. CASE ~mixed
      BY <1>43, <2>1, <2>4, <3>2 DEF OrderInv
    <3> QED
      BY <2>1, <2>2, <3>1, <3>2 DEF OrderInv
  <2>5. CASE CatchesUp /\ mixed' = Holds'
    BY <2>1, <2>2, <2>5 DEF OrderInv
  <2> QED
    BY <2>3, <2>4, <2>5 DEF QueueNext
\* Each block begins where, or after, the one in front of it has ended.
<1>45. CounterInv /\ OrderInv(K) => QueueInOrder
  <2> SUFFICES ASSUME CounterInv, InTurn(K) PROVE QueueInOrder
    BY DEF OrderInv, QueueInOrder
  <2>1. /\ pcm \in Seq(Blocks) /\ paused \in Seq(Blocks) /\ Due \in Rtp
        /\ Age(K) \in Nat /\ Age(K) < RtpMod \div 2
    BY <1>24
  <2>2. ASSUME NEW q \in Seq(Blocks), NEW mark \in Rtp, Placed(q, mark, Age(K), sent)
        PROVE  InOrder(q)
    <3> SUFFICES ASSUME NEW i \in 1..Len(q) - 1
                 PROVE  Wrap(q[i + 1].rtp - End(q[i])) < RtpMod \div 2
      BY DEF InOrder
    <3> DEFINE b == q[i]
               d == q[i + 1]
               lb == Lag(b, mark)
               ld == Lag(d, mark)
               m == b.len
               u == mark - b.rtp
               v == mark - d.rtp
    <3>1. /\ i \in DOMAIN q /\ i + 1 \in DOMAIN q /\ i < i + 1
          /\ b \in Blocks /\ d \in Blocks
      OBVIOUS
    <3>2. ld + m <= lb /\ lb <= Age(K)
      BY <2>2, <3>1 DEF Placed
    <3> HIDE DEF b, d
    <3>3. /\ lb \in Nat /\ lb \in Rtp /\ ld \in Nat /\ m \in Nat
          /\ b.rtp \in Int /\ d.rtp \in Int
      BY <1>4, <1>5, <3>1
    <3>4. mark \in Int
      <4>1. \A x \in Rtp : x \in Int
        BY <1>1
      <4> QED
        BY <4>1
    <3>5. u \in Int /\ v \in Int /\ b.rtp + m \in Int /\ lb = Wrap(u) /\ ld = Wrap(v)
          /\ d.rtp - (b.rtp + m) = (u - m) - v
      <4>1. lb = Wrap(u) /\ ld = Wrap(v)
        BY DEF Lag
      <4> HIDE DEF lb, ld, m
      <4> DEFINE r == b.rtp
                 s == d.rtp
      <4>2. r \in Int /\ s \in Int /\ m \in Int
        BY <3>3
      <4>3. u \in Int /\ v \in Int
        BY <3>3, <3>4
      <4> HIDE DEF r, s
      <4>4. r + m \in Int /\ s - (r + m) = ((mark - r) - m) - (mark - s)
        BY <3>4, <4>2
      <4> QED
        BY <4>1, <4>3, <4>4 DEF r, s
    <3>6. Wrap(d.rtp - End(b)) = Wrap(d.rtp - (b.rtp + m))
      BY <1>2, <3>3, <3>5 DEF End
    <3> HIDE DEF lb, ld, m, u, v
    <3>7. Wrap((u - m) - ld) = Wrap((u - m) - v)
      <4>1. u - m \in Int
        BY <3>3, <3>5
      <4> QED
        BY <1>2, <3>5, <4>1
    <3>8. Wrap(u + (-m - ld)) = lb + (-m - ld)
      <4>1. -m - ld \in Int
        BY <3>3
      <4>2. lb \in 0..RtpMod - 1 /\ RtpMod \in Nat
        BY <1>1, <3>3
      <4>3. lb + (-m - ld) \in 0..RtpMod - 1
        BY <3>2, <3>3, <4>2
      <4>4. lb + (-m - ld) \in Rtp
        BY <1>1, <4>3
      <4> QED
        BY <1>2, <3>5, <4>1, <4>4
    <3>9. u + (-m - ld) = (u - m) - ld
      BY <3>3, <3>5
    <3> DEFINE h == RtpMod \div 2
               w == Wrap(d.rtp - End(b))
    <3>10. w = lb + (-m - ld)
      BY <3>5, <3>6, <3>7, <3>8, <3>9
    <3>11. h \in Nat /\ Age(K) < h
      BY <1>17, <2>1
    <3> HIDE DEF w, h
    <3>12. w < h
      BY <2>1, <3>2, <3>3, <3>10, <3>11
    <3> QED
      BY <3>12 DEF w, h, b, d
  <2>3. InOrder(pcm)
    BY <2>1, <2>2 DEF InTurn
  <2>4. InOrder(paused)
    BY <2>1, <2>2 DEF InTurn
  <2> QED
    BY <2>3, <2>4 DEF QueueInOrder
<1> QED
  BY <1>25, <1>44, <1>45, CounterInvariance, PTL DEF QueueSpec

\* What receive, play-out and control thread put in, trim, save and put back stays in
\* the order of its timestamps, across a wrap too, for streams of up to half a turn: for
\* any packets that are lost, and while none has come late since the queues were empty.
THEOREM QueuePlaysInOrder ==
    ASSUME NEW K \in Nat, WithinHalfATurn(K)
    PROVE  QueueSpec => []QueueInOrder
  BY OrderInvariance, PTL

\* What resume() and the import splice is neither repeated nor out of order, though all
\* that they see of the music are timestamps: under the same condition.
THEOREM MusicPlaysInOrder ==
    ASSUME NEW K \in Nat, WithinHalfATurn(K)
    PROVE  QueueSpec => []MusicInOrder
<1>1. CounterInv /\ OrderInv(K) => MusicInOrder
  <2> SUFFICES ASSUME CounterInv, InTurn(K) PROVE MusicInOrder
    BY DEF OrderInv, MusicInOrder
  <2>1. pcm \in Seq(Blocks) /\ paused \in Seq(Blocks)
    BY DEF CounterInv, QueueTypeOK
  <2>2. ASSUME NEW q \in Seq(Blocks), NEW mark, Placed(q, mark, Age(K), sent),
               NEW i \in 1..Len(q) - 1
        PROVE  q[i + 1].src >= q[i].src + q[i].len
    <3>1. /\ i \in DOMAIN q /\ i + 1 \in DOMAIN q /\ i < i + 1
          /\ q[i] \in Blocks /\ q[i + 1] \in Blocks
      OBVIOUS
    <3>2. q[i].src + q[i].len <= q[i + 1].src
      BY <2>2, <3>1 DEF Placed
    <3>3. q[i].src \in Nat /\ q[i].len \in Int /\ q[i + 1].src \in Nat
      BY <3>1, AudioAssumption DEF Blocks
    <3> QED
      BY <3>2, <3>3
  <2>3. \A i \in 1..Len(pcm) - 1 : pcm[i + 1].src >= pcm[i].src + pcm[i].len
    BY <2>1, <2>2 DEF InTurn
  <2>4. \A i \in 1..Len(paused) - 1 : paused[i + 1].src >= paused[i].src + paused[i].len
    BY <2>1, <2>2 DEF InTurn
  <2> QED
    BY <2>3, <2>4 DEF MusicInOrder
<1> QED
  BY <1>1, CounterInvariance, OrderInvariance, PTL

-----------------------------------------------------------------------------
(* Whatever the receiver's thread was doing when its session ended, no pause  *)
(* outlives it (clear_session() after the receiver is joined): the idle       *)
(* screen is paused only by a request that came with no device shown.         *)
THEOREM PauseEnds == PlayingSpec => []PauseEndsWithSession
\* No step of any thread puts a request out of step with the receiver: a thread that
\* may still push has a session, or one that is being set up.
<1>1. ASSUME RestsFit, [PlayingNext]_playingVars
      PROVE  RestsFit'
  <2> USE <1>1
  <2> USE NowPlayingAssumption DEF NoSession, RestsFit, Teardown, ConnectionEnds
  <2>1. CASE UNCHANGED <<shown, todo, flag, rx>>
    BY <2>1 DEF flag
  <2>2. CASE Receiver
    <3>1. rx.pc # "off" /\ UNCHANGED <<shown, todo>>
      BY <2>2 DEF Receiver, Receives, PushesOne, Silence,
         Watches, control
    <3> QED
      BY <3>1 DEF Off
  <2>3. CASE Requests
    BY <2>3 DEF Requests, Setup, Flush, Record, Rate,
       Ends, Serves, badge, flag
  <2>4. CASE ControlSteps
    \* The steps a request may be at, and what each leaves of it.
    <3>1. ASSUME NEW step, Doing(step)
          PROVE
          /\ step = "receiver" =>
               todo = <<"receiver", "device", "update">> /\ todo' = <<"device", "update">>
          /\ step = "device" => todo = <<"device", "update">> /\ todo' = <<"update">>
          /\ step = "update" => todo = <<"update">> /\ todo' = <<>>
          /\ step = "erase" => todo = <<"erase">> /\ todo' = <<>>
          /\ step = "grace" => todo = <<"grace", "pause">> /\ todo' = <<"pause">>
          /\ step = "pause" => todo = <<"pause">> /\ todo' = <<>>
          /\ step = "play" => todo = <<"play">> /\ todo' = <<>>
          /\ step = "streams" =>
               \/ /\ todo = <<"streams", "buttons", "flags", "no_device", "update">>
                  /\ todo' = <<"buttons", "flags", "no_device", "update">>
               \/ /\ todo = <<"streams", "buttons", "flags", "no_device", "erase">>
                  /\ todo' = <<"buttons", "flags", "no_device", "erase">>
          /\ step = "buttons" =>
               \/ /\ todo = <<"buttons", "flags", "no_device", "update">>
                  /\ todo' = <<"flags", "no_device", "update">>
               \/ /\ todo = <<"buttons", "flags", "no_device", "erase">>
                  /\ todo' = <<"flags", "no_device", "erase">>
          /\ step = "flags" =>
               \/ todo = <<"flags", "no_device", "update">> /\ todo' = <<"no_device", "update">>
               \/ todo = <<"flags", "no_device", "erase">> /\ todo' = <<"no_device", "erase">>
          /\ step = "no_device" =>
               \/ todo = <<"no_device", "update">> /\ todo' = <<"update">>
               \/ todo = <<"no_device", "erase">> /\ todo' = <<"erase">>
      <4> USE <3>1 DEF Doing
      <4>1. ASSUME todo = <<"receiver", "device", "update">>
            PROVE  step = "receiver" /\ todo' = <<"device", "update">>
        BY <4>1
      <4>2. ASSUME todo = <<"device", "update">>
            PROVE  step = "device" /\ todo' = <<"update">>
        BY <4>2
      <4>3. ASSUME todo = <<"update">> PROVE step = "update" /\ todo' = <<>>
        BY <4>3
      <4>4. ASSUME todo = <<"erase">> PROVE step = "erase" /\ todo' = <<>>
        BY <4>4
      <4>5. ASSUME todo = <<"grace", "pause">>
            PROVE  step = "grace" /\ todo' = <<"pause">>
        BY <4>5
      <4>6. ASSUME todo = <<"pause">> PROVE step = "pause" /\ todo' = <<>>
        BY <4>6
      <4>7. ASSUME todo = <<"play">> PROVE step = "play" /\ todo' = <<>>
        BY <4>7
      <4>8. ASSUME todo = <<"streams", "buttons", "flags", "no_device", "update">>
            PROVE  step = "streams" /\ todo' = <<"buttons", "flags", "no_device", "update">>
        BY <4>8
      <4>9. ASSUME todo = <<"streams", "buttons", "flags", "no_device", "erase">>
            PROVE  step = "streams" /\ todo' = <<"buttons", "flags", "no_device", "erase">>
        BY <4>9
      <4>10. ASSUME todo = <<"buttons", "flags", "no_device", "update">>
            PROVE  step = "buttons" /\ todo' = <<"flags", "no_device", "update">>
        BY <4>10
      <4>11. ASSUME todo = <<"buttons", "flags", "no_device", "erase">>
            PROVE  step = "buttons" /\ todo' = <<"flags", "no_device", "erase">>
        BY <4>11
      <4>12. ASSUME todo = <<"flags", "no_device", "update">>
            PROVE  step = "flags" /\ todo' = <<"no_device", "update">>
        BY <4>12
      <4>13. ASSUME todo = <<"flags", "no_device", "erase">>
            PROVE  step = "flags" /\ todo' = <<"no_device", "erase">>
        BY <4>13
      <4>14. ASSUME todo = <<"no_device", "update">>
            PROVE  step = "no_device" /\ todo' = <<"update">>
        BY <4>14
      <4>15. ASSUME todo = <<"no_device", "erase">>
            PROVE  step = "no_device" /\ todo' = <<"erase">>
        BY <4>15
      <4>16. todo # <<>>
        OBVIOUS
      <4> QED
        BY <4>1, <4>2, <4>3, <4>4, <4>5, <4>6, <4>7, <4>8, <4>9, <4>10, <4>11,
           <4>12, <4>13, <4>14, <4>15, <4>16
    <3> USE DEF badge, flag
    <3>2. CASE StartsReceiver
      BY <3>2, <3>1 DEF StartsReceiver
    <3>3. CASE SetsDevice
      BY <3>3, <3>1 DEF SetsDevice
    <3>4. CASE StopsStreams
      BY <3>4, <3>1 DEF StopsStreams
    <3>5. CASE NotesFlush
      BY <3>5, <3>1 DEF NotesFlush
    <3>6. CASE SetsRate
      <4>1. UNCHANGED <<shown, rx>> /\ todo' = <<>> /\ todo \in {<<"play">>, <<"pause">>}
        BY <3>6, <3>1 DEF SetsRate
      <4>2. shown = NoSession => rx = Off
        BY <4>1
      <4>3. shown = NoSession => playing' \/ stray'
        BY <3>6, Zenon DEF SetsRate
      <4> QED
        BY <4>1, <4>2, <4>3
    <3>7. CASE ClearsButtons
      BY <3>7, <3>1 DEF ClearsButtons
    <3>8. CASE ClearsFlags
      BY <3>8, <3>1 DEF ClearsFlags
    <3>9. CASE ClearsDevice
      BY <3>9, <3>1 DEF ClearsDevice
    <3>10. CASE Updates \/ Erases
      BY <3>10, <3>1 DEF Updates, Erases
    <3> QED
      BY <2>4, <3>2, <3>3, <3>4, <3>5, <3>7, <3>8, <3>9, <3>10, <3>6 DEF ControlSteps
  <2>5. CASE \/ Sends \/ GraceEnds \/ Presses \/ Tells
             \/ Resolves \/ Main \/ UNCHANGED playingVars
    BY <2>1, <2>5 DEF Sends, GraceEnds, Presses, Tells,
       Resolves, Main, TakesRequest, SendsCommand,
       FinishesCommand, Looks, SetsAvailable, MainOnly,
       playingVars, control, badge, flag
  <2> QED
    BY <2>2, <2>3, <2>4, <2>5 DEF PlayingNext

<1>2. PlayingInit => RestsFit
  BY DEF PlayingInit, RestsFit
<1>3. RestsFit => PauseEndsWithSession
  BY DEF RestsFit, PauseEndsWithSession
<1>4. RestsFit /\ [PlayingNext]_playingVars => RestsFit'
  BY <1>1
<1> QED
  BY <1>2, <1>3, <1>4, PTL DEF PlayingSpec
=============================================================================
