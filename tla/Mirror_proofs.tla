---------------------------- MODULE Mirror_proofs -----------------------------
(***************************************************************************)
(* Proofs about Mirror, for any of the codecs and faults and any number of *)
(* frames, connections and SETUPs.                                         *)
(***************************************************************************)
EXTENDS Mirror, FiniteSetTheorems, TLAPS

\* The frames on the way are as many as the positions between the two sides.
LEMMA Counted ==
  ASSUME TypeOK, PositionsFit, keyed
  PROVE  phone.tx = rx + lost + Cardinality(Ciphers(wire))
<1> DEFINE S == Ciphers(wire)
           T == (rx + lost)..(phone.tx - 1)
           f == [i \in S |-> wire[i].at]
<1>1. /\ rx + lost \in Int /\ phone.tx - 1 \in Int /\ rx + lost <= phone.tx
      /\ rx \in Nat /\ lost \in Nat /\ phone.tx \in Nat /\ Len(wire) \in Nat
  BY DEF TypeOK, PositionsFit
<1>2. IsFiniteSet(S)
  <2>1. IsFiniteSet(1..Len(wire))
    BY <1>1, FS_Interval
  <2>2. S \in SUBSET (1..Len(wire))
    BY DEF Ciphers
  <2> QED
    BY <2>1, <2>2, FS_Subset
<1>3. {wire[i].at : i \in S} = T /\ \A i, j \in S : i < j => wire[i].at < wire[j].at
  BY DEF PositionsFit
<1>4. S \subseteq Nat
  BY <1>1 DEF Ciphers
<1>5. \A i \in S : wire[i].at \in Nat
  <2>1. \A i \in 1..Len(wire) : wire[i] \in Frames
    BY DEF TypeOK
  <2> QED
    BY <2>1 DEF Ciphers, Frames
<1>6. f \in Bijection(S, T)
  <2> HIDE DEF S
  <2>1. f \in [S -> T]
    BY <1>3
  <2>2. \A i, j \in S : f[i] = f[j] => i = j
    BY <1>3, <1>4, <1>5
  <2>3. \A t \in T : \E i \in S : f[i] = t
    BY <1>3
  <2> QED
    BY <2>1, <2>2, <2>3 DEF Bijection, Injection, IsInjective, Surjection
<1>7. Cardinality(S) = Cardinality(T)
  BY <1>2, <1>6, FS_Bijection DEF ExistsBijection
<1>8. Cardinality(T) = IF rx + lost > phone.tx - 1 THEN 0 ELSE phone.tx - 1 - (rx + lost) + 1
  BY <1>1, FS_Interval
<1>9. Cardinality(S) \in Nat
  BY <1>2, FS_CardinalityType
<1> HIDE DEF S, T
<1>10. phone.tx = rx + lost + Cardinality(S)
  BY <1>1, <1>7, <1>8
<1> QED
  BY <1>10 DEF S

\* Impl::open() gives a context for the codec asked for, or fails with none for
\* the codec it has already written down, or leaves everything as it was.
LEMMA Opened ==
  ASSUME NEW d \in Impls, NEW c \in Codecs, NEW r \in Opens(d, c)
  PROVE  /\ r \in [ok : BOOLEAN, impl : Impls]
         /\ r.impl.sets = d.sets /\ r.impl.of = d.of
         /\ r.ok => r.impl.ctx = c /\ r.impl.id = c
         /\ ~r.ok => r.impl = d \/ (r.impl.ctx \in {"null", "closed"} /\ r.impl.id = c)
<1> DEFINE fresh == [d EXCEPT !.id = c, !.active = 0]
<1>1. fresh \in Impls /\ fresh.id = c /\ fresh.sets = d.sets /\ fresh.of = d.of
  BY DEF Impls
<1>2. CASE r = [ok |-> FALSE, impl |-> d]
  BY <1>2
<1>3. CASE r = [ok |-> TRUE, impl |-> [fresh EXCEPT !.ctx = c, !.gpu = TRUE]]
  BY <1>1, <1>3 DEF Impls
<1>4. CASE r \in OpensSoftware(fresh)
  <2> HIDE DEF fresh
  <2>1. CASE r = [ok |-> TRUE, impl |-> [fresh EXCEPT !.ctx = fresh.id, !.gpu = FALSE]]
    BY <1>1, <2>1 DEF Impls
  <2>2. CASE r = [ok |-> FALSE, impl |-> [fresh EXCEPT !.ctx = "null"]]
    BY <1>1, <2>2 DEF Impls
  <2>3. CASE r = [ok |-> FALSE, impl |-> [fresh EXCEPT !.ctx = "closed"]]
    BY <1>1, <2>3 DEF Impls
  <2> QED
    BY <1>4, <2>1, <2>2, <2>3 DEF OpensSoftware
<1> QED
  BY <1>2, <1>3, <1>4 DEF Opens

\* A frame the phone sends goes on from the one before it.
LEMMA Sent ==
  ASSUME IInv, NEW f \in Frames, Sends(f), f.whole,
         f.n = count.frames + 1, f.config = phone.config, f.at = phone.tx,
         Encrypted(f) => phone.config # 0,
         f.kind = "delta" => ~phone.idr,
         phone' \in [codec : Codecs, config : Nat, tx : Nat, idr : BOOLEAN],
         phone'.config = After(f),
         phone'.tx = IF Encrypted(f) THEN phone.tx + 1 ELSE phone.tx,
         ~phone'.idr => f.kind # "config" /\ (f.kind = "idr" \/ ~phone.idr)
  PROVE  IInv'
<1> DEFINE n == Len(wire)
<1>1. /\ n \in Nat /\ Len(wire') = n + 1 /\ wire' \in Seq(Frames) /\ wire' # <<>>
      /\ \A i \in 1..n : wire'[i] = wire[i] /\ wire[i] \in Frames
      /\ wire'[n + 1] = f /\ Head(wire') = wire'[1] /\ (wire # <<>> => Head(wire) = wire[1])
  <2>1. wire \in Seq(Frames) /\ wire' = Append(wire, f)
    BY DEF Sends, IInv, TypeOK
  <2> QED
    BY <2>1
<1>2. /\ conn = "open" /\ count'.frames = count.frames + 1 /\ count.frames \in Nat
      /\ count' \in [frames : 0..MaxFrames, conns : 0..MaxConns, setups : 0..MaxSetups]
      /\ UNCHANGED <<conn, keyed, rx, dec, shown, lost, broken, failed>>
  <2>1. /\ count \in [frames : 0..MaxFrames, conns : 0..MaxConns, setups : 0..MaxSetups]
        /\ count.frames < MaxFrames /\ count' = [count EXCEPT !.frames = count.frames + 1]
        /\ conn = "open"
    BY DEF Sends, IInv, TypeOK
  <2>2. count.frames \in Nat /\ count.frames + 1 \in 0..MaxFrames
    BY <2>1, MirrorAssumption
  <2> QED
    BY <2>1, <2>2 DEF Sends, ghosts
<1>3. phone.config \in Nat /\ phone.tx \in Nat /\ rx \in Nat /\ lost \in Nat
  BY DEF IInv, TypeOK
<1>4. /\ Whole /\ Whole' /\ phone.config <= count.frames
      /\ \A i \in 1..n : wire[i].kind = "config" => wire[i].n <= phone.config
      /\ n # 0 => phone.config = After(wire[n])
  BY <1>1, <1>2 DEF IInv, WireFits, PhoneFits, Whole
<1>5. TypeOK'
  BY <1>1, <1>2 DEF IInv, TypeOK
<1>6. /\ \A i \in 1..n : After(wire[i])' = After(wire[i])
      /\ f.kind = "config" => After(f) = count.frames + 1
      /\ f.kind # "config" => After(f) = phone.config
  BY <1>1 DEF After
<1>7. WireFits'
  <2>1. ASSUME NEW i \in 1..(n + 1)
        PROVE  /\ wire'[i].config < wire'[i].n /\ wire'[i].n <= count'.frames
               /\ Encrypted(wire'[i]) => wire'[i].config # 0
               /\ wire'[i].kind = "config" =>
                    \A j \in (i + 1)..(n + 1) : wire'[i].n <= wire'[j].config
               /\ i # n + 1 => wire'[i + 1].config = After(wire'[i])
    <3>1. CASE i = n + 1
      BY <1>1, <1>2, <1>3, <1>4, <3>1
    <3>2. CASE i \in 1..n
      <4>1. /\ wire[i].config < wire[i].n /\ wire[i].n <= count.frames
            /\ Encrypted(wire[i]) => wire[i].config # 0
            /\ wire[i].kind = "config" => \A j \in (i + 1)..n : wire[i].n <= wire[j].config
            /\ i # n => wire[i + 1].config = After(wire[i])
        BY <3>2 DEF IInv, WireFits
      <4>2. wire[i].n \in Nat /\ wire'[i] = wire[i]
        BY <1>1, <3>2 DEF Frames
      <4>3. wire[i].kind = "config" => \A j \in (i + 1)..(n + 1) : wire[i].n <= wire'[j].config
        BY <1>1, <1>4, <3>2, <4>1
      <4>4. wire'[i + 1].config = After(wire[i])
        BY <1>1, <1>4, <3>2, <4>1
      <4> QED
        BY <1>2, <4>1, <4>2, <4>3, <4>4
    <3> QED
      BY <1>1, <3>1, <3>2
  <2>2. phone'.config <= count'.frames
    BY <1>2, <1>3, <1>4, <1>6
  <2> QED
    BY <1>1, <1>2, <1>4, <2>1, <2>2 DEF WireFits, After
<1>8. PhoneFits'
  <2>1. phone'.config = After(wire'[n + 1])
    BY <1>1
  <2>2. ASSUME NEW i \in 1..(n + 1), wire'[i].kind = "config" PROVE wire'[i].n <= phone'.config
    <3>1. CASE i = n + 1
      BY <1>1, <1>2, <1>6, <2>2, <3>1
    <3>2. CASE i \in 1..n
      <4>1. wire[i].n <= phone.config /\ wire[i].n <= count.frames /\ wire[i].n \in Nat
        BY <1>1, <1>4, <2>2, <3>2 DEF IInv, WireFits, Frames
      <4> QED
        BY <1>1, <1>2, <1>3, <1>6, <3>2, <4>1
    <3> QED
      BY <1>1, <3>1, <3>2
  <2> QED
    BY <1>1, <2>1, <2>2 DEF PhoneFits, After
<1>9. PositionsFit'
  <2> SUFFICES ASSUME keyed PROVE PositionsFit'
    BY <1>2 DEF PositionsFit
  <2>1. /\ {wire[i].at : i \in Ciphers(wire)} = (rx + lost)..(phone.tx - 1)
        /\ rx + lost <= phone.tx
        /\ \A i, j \in Ciphers(wire) : i < j => wire[i].at < wire[j].at
    BY DEF IInv, PositionsFit
  <2>2. Ciphers(wire)' = Ciphers(wire) \cup (IF Encrypted(f) THEN {n + 1} ELSE {})
    BY <1>1 DEF Ciphers, Encrypted
  <2>3. \A i \in Ciphers(wire) : i \in 1..n /\ wire'[i] = wire[i]
                                 /\ wire[i].at \in (rx + lost)..(phone.tx - 1)
    BY <1>1, <2>1 DEF Ciphers
  <2>4. CASE ~Encrypted(f)
    <3>1. {wire'[i].at : i \in Ciphers(wire)'} = {wire[i].at : i \in Ciphers(wire)}
      BY <2>2, <2>3, <2>4
    <3>2. \A i, j \in Ciphers(wire)' : i < j => wire'[i].at < wire'[j].at
      BY <2>1, <2>2, <2>3, <2>4
    <3> QED
      BY <1>2, <2>1, <2>4, <3>1, <3>2 DEF PositionsFit
  <2>5. CASE Encrypted(f)
    <3>1. {wire'[i].at : i \in Ciphers(wire)'} = {wire[i].at : i \in Ciphers(wire)} \cup {phone.tx}
      BY <1>1, <2>2, <2>3, <2>5
    <3>2. (rx + lost)..phone.tx = ((rx + lost)..(phone.tx - 1)) \cup {phone.tx}
      BY <1>3, <2>1
    <3>3. \A i, j \in Ciphers(wire)' : i < j => wire'[i].at < wire'[j].at
      BY <1>1, <1>3, <2>1, <2>2, <2>3, <2>5, SMTT(30)
    <3>4. phone'.tx - 1 = phone.tx /\ rx + lost <= phone'.tx
      BY <1>3, <2>1, <2>5
    <3> QED
      BY <1>2, <2>1, <3>1, <3>2, <3>3, <3>4 DEF PositionsFit
  <2> QED
    BY <2>4, <2>5
<1>10. SetsFit'
  <2> SUFFICES ASSUME dec # None PROVE SetsFit'
    BY <1>2 DEF SetsFit
  <2>1. Live /\ Current' = Current
    BY <1>1, <1>2, <1>4 DEF Live, Current
  <2>2. \A c, i : i <= n + 1 /\ i \in Nat /\ Started(c, i) => Started(c, i)'
    BY <1>1, <1>2, <2>1 DEF Started
  <2>3. ASSUME NEW i \in 1..(n + 1), wire'[i].kind = "delta"
        PROVE  Started(wire[i].config, i)'
    <3>1. CASE i = n + 1
      <4>1. Started(phone.config, n + 1)
        BY <1>1, <1>2, <2>1, <2>3, <3>1 DEF IInv, SetsFit
      <4> QED
        BY <1>1, <2>2, <3>1, <4>1
    <3>2. CASE i \in 1..n
      <4>1. Started(wire[i].config, i)
        BY <1>1, <2>1, <2>3, <3>2 DEF IInv, SetsFit
      <4> QED
        BY <1>1, <2>2, <3>2, <4>1
    <3> QED
      BY <1>1, <3>1, <3>2
  <2>4. ASSUME ~phone'.idr PROVE Started(phone.config, Len(wire) + 1)'
    <3>1. phone'.config = phone.config
      BY <1>6, <2>4
    <3>2. CASE f.kind = "idr"
      BY <1>1, <3>1, <3>2 DEF Started
    <3>3. CASE ~phone.idr
      <4>1. Started(phone.config, n + 1)
        BY <1>2, <2>1, <3>3 DEF IInv, SetsFit
      <4> QED
        BY <1>1, <1>2, <2>1, <3>1, <4>1 DEF Started
    <3> QED
      BY <2>4, <3>2, <3>3
  <2> QED
    BY <1>1, <1>2, <2>1, <2>3, <2>4 DEF SetsFit, IInv
<1> QED
  BY <1>2, <1>5, <1>7, <1>8, <1>9, <1>10 DEF IInv, DecoderFits, ShownWithItsSets

\* What is left on the way when the reader has read a frame.
Taken(f) ==
  LET n == Len(wire) IN
  /\ n \in Nat /\ n >= 1 /\ wire[1] = f /\ Len(wire') = n - 1 /\ wire' \in Seq(Frames)
  /\ \A i \in 1..n : wire[i] \in Frames
  /\ \A i \in 1..(n - 1) : wire'[i] = wire[i + 1]
  /\ wire # <<>> /\ Head(wire) = f /\ (wire' = <<>> <=> n = 1)
  /\ n > 1 => Head(wire') = wire'[1]

\* What the reader comes to, and what is left on the way behind it.
LEMMA Read ==
  ASSUME IInv, NEW f, Taken(f), conn # "none", f.whole,
         UNCHANGED <<phone, conn, keyed, count>>, rx' \in Nat, lost' \in Nat,
         keyed /\ Encrypted(f) => rx' + lost' = rx + lost + 1,
         keyed /\ ~Encrypted(f) => rx' + lost' = rx + lost,
         broken \subseteq broken',
         dec' # None =>
             /\ dec # None
             /\ After(f) # 0 /\ (f.kind = "config" \/ dec.sets = f.config \/ f.config \in broken)
                  => dec'.sets = After(f) \/ After(f) \in broken'
             /\ f.kind # "config" =>
                  dec'.active = dec.active \/ f.config \in broken' \/ f.kind = "idr"
             /\ f.kind = "idr" => \/ dec'.active = f.config \/ f.config \in broken'
                                  \/ dec.sets # f.config /\ f.config \notin broken
  PROVE  /\ f \in Frames /\ (Encrypted(f) => f.config # 0)
         /\ wire' \in Seq(Frames) /\ WireFits' /\ PhoneFits' /\ PositionsFit' /\ SetsFit'
         /\ dec # None /\ f.config # 0 => dec.sets = f.config \/ f.config \in broken
         /\ dec # None /\ f.kind = "delta" => dec.active = f.config \/ f.config \in broken
<1> DEFINE n == Len(wire)
<1>1. /\ n \in Nat /\ n >= 1 /\ wire[1] = f /\ Len(wire') = n - 1 /\ wire' \in Seq(Frames)
      /\ \A i \in 1..n : wire[i] \in Frames
      /\ \A i \in 1..(n - 1) : wire'[i] = wire[i + 1]
      /\ wire # <<>> /\ Head(wire) = f /\ (wire' = <<>> <=> n = 1)
      /\ n > 1 => Head(wire') = wire'[1]
  BY DEF Taken
<1> HIDE DEF n
<1>2. Whole /\ Whole' /\ Live /\ Current = f.config
  <2>1. Whole \/ n = 1
    BY DEF IInv, WireFits, n
  <2>2. Whole
    BY <1>1, <2>1 DEF Whole, n
  <2> QED
    BY <1>1, <2>2 DEF Whole, Live, Current, n
<1>3. /\ \A i \in 1..n : /\ wire[i].config < wire[i].n /\ wire[i].n <= count.frames
                         /\ Encrypted(wire[i]) => wire[i].config # 0
                         /\ wire[i].kind = "config" =>
                              \A j \in (i + 1)..n : wire[i].n <= wire[j].config
                         /\ i # n => wire[i + 1].config = After(wire[i])
      /\ \A i \in 1..n : wire[i].config \in Nat /\ wire[i].n \in Nat /\ wire[i].at \in Nat
  BY <1>1 DEF IInv, WireFits, Frames, n
<1>4. WireFits'
  <2>1. ASSUME NEW i \in 1..(n - 1)
        PROVE  /\ wire'[i].config < wire'[i].n /\ wire'[i].n <= count'.frames
               /\ Encrypted(wire'[i]) => wire'[i].config # 0
               /\ wire'[i].kind = "config" =>
                    \A j \in (i + 1)..(n - 1) : wire'[i].n <= wire'[j].config
               /\ i # n - 1 => wire'[i + 1].config = After(wire'[i])
    <3>1. i + 1 \in 1..n /\ wire'[i] = wire[i + 1]
      BY <1>1
    <3>2. \A j \in (i + 1)..(n - 1) : j + 1 \in (i + 2)..n /\ wire'[j] = wire[j + 1]
      BY <1>1
    <3>3. i # n - 1 => wire'[i + 1] = wire[i + 2]
      BY <1>1
    <3> QED
      BY <1>3, <3>1, <3>2, <3>3
  <2> QED
    BY <1>1, <1>2, <2>1 DEF IInv, WireFits, After
<1>5. PhoneFits'
  <2> SUFFICES ASSUME conn = "open" PROVE PhoneFits'
    BY DEF PhoneFits
  <2>1. n # 1 => wire'[n - 1] = wire[n]
    BY <1>1
  <2>2. \A i \in 1..(n - 1) : i + 1 \in 1..n /\ wire'[i] = wire[i + 1]
    BY <1>1
  <2> QED
    BY <1>1, <2>1, <2>2 DEF IInv, PhoneFits, After, n
<1>6. PositionsFit'
  <2> SUFFICES ASSUME keyed PROVE PositionsFit'
    BY DEF PositionsFit
  <2>1. /\ {wire[i].at : i \in Ciphers(wire)} = (rx + lost)..(phone.tx - 1)
        /\ rx + lost <= phone.tx
        /\ \A i, j \in Ciphers(wire) : i < j => wire[i].at < wire[j].at
        /\ rx \in Nat /\ lost \in Nat /\ phone.tx \in Nat
    BY DEF IInv, PositionsFit, TypeOK
  <2>2. Ciphers(wire)' = {i \in 1..(n - 1) : i + 1 \in Ciphers(wire)}
    BY <1>1 DEF Ciphers, Encrypted, n
  <2>3. \A i \in Ciphers(wire)' : i + 1 \in Ciphers(wire) /\ wire'[i] = wire[i + 1] /\ i \in Nat
    BY <1>1, <2>2
  <2>4. \A i, j \in Ciphers(wire)' : i < j => wire'[i].at < wire'[j].at
    BY <2>1, <2>3
  <2>5. \A k \in Ciphers(wire) :
          k \in 1..n /\ (k # 1 => k - 1 \in Ciphers(wire)' /\ wire'[k - 1] = wire[k])
    BY <1>1, <2>2 DEF Ciphers, n
  <2>6. CASE ~Encrypted(f)
    <3>1. 1 \notin Ciphers(wire)
      BY <1>1, <2>6 DEF Ciphers
    <3>2. {wire'[i].at : i \in Ciphers(wire)'} = {wire[i].at : i \in Ciphers(wire)}
      BY <2>3, <2>5, <3>1
    <3> QED
      BY <2>1, <2>4, <2>6, <3>2 DEF PositionsFit
  <2>7. CASE Encrypted(f)
    <3>1. 1 \in Ciphers(wire)
      BY <1>1, <2>7 DEF Ciphers
    <3>2. {wire[i].at : i \in Ciphers(wire)} = {wire'[i].at : i \in Ciphers(wire)'} \cup {f.at}
      <4>1. \A k \in Ciphers(wire) : k # 1 => k - 1 \in Ciphers(wire)' /\ wire'[k - 1] = wire[k]
        BY <2>5
      <4>2. \A i \in Ciphers(wire)' : i + 1 \in Ciphers(wire) /\ wire'[i] = wire[i + 1]
        BY <2>3
      <4> QED
        BY <1>1, <3>1, <4>1, <4>2
    <3>3. ASSUME NEW i \in Ciphers(wire)' PROVE f.at < wire'[i].at
      <4>1. i \in 1..(n - 1) /\ i + 1 \in Ciphers(wire) /\ wire'[i] = wire[i + 1]
        BY <2>2, <2>3
      <4>2. 1 < i + 1
        BY <1>1, <4>1
      <4> QED
        BY <1>1, <2>1, <3>1, <4>1, <4>2
    <3>4. f.at \in Nat /\ \A i \in Ciphers(wire)' : wire'[i].at \in Nat
      BY <1>1, <1>3, <2>2, <2>3
    <3>5. f.at = rx + lost /\ rx + lost < phone.tx
      <4>1. f.at \in (rx + lost)..(phone.tx - 1)
        BY <2>1, <3>2
      <4>2. rx + lost \in (rx + lost)..(phone.tx - 1)
        BY <2>1, <3>4, <4>1
      <4>3. rx + lost = f.at \/ \E i \in Ciphers(wire)' : rx + lost = wire'[i].at
        BY <2>1, <3>2, <4>2
      <4> QED
        BY <2>1, <3>3, <3>4, <4>1, <4>3
    <3>6. {wire'[i].at : i \in Ciphers(wire)'} = (rx + lost + 1)..(phone.tx - 1)
      BY <2>1, <3>2, <3>3, <3>4, <3>5
    <3>7. rx' + lost' = rx + lost + 1 /\ rx + lost + 1 <= phone.tx
      <4>1. rx' + lost' = rx + lost + 1
        BY <2>7
      <4> DEFINE p == phone.tx
                 q == rx + lost
      <4>2. q \in Nat /\ p \in Nat /\ q < p
        BY <2>1, <3>5
      <4> HIDE DEF p, q
      <4>3. q + 1 <= p
        BY <4>2
      <4> QED
        BY <4>1, <4>3 DEF p, q
    <3> QED
      BY <2>1, <2>4, <2>7, <3>6, <3>7 DEF PositionsFit
  <2> QED
    BY <2>6, <2>7
<1>7. /\ dec # None /\ f.config # 0 => dec.sets = f.config \/ f.config \in broken
      /\ dec # None /\ f.kind = "delta" => dec.active = f.config \/ f.config \in broken
  <2>1. dec # None /\ f.config # 0 => dec.sets = f.config \/ f.config \in broken
    BY <1>2 DEF IInv, SetsFit
  <2>2. dec # None /\ f.kind = "delta" => Started(f.config, 1)
    BY <1>1, <1>2 DEF IInv, SetsFit
  <2> QED
    BY <2>1, <2>2 DEF Started
<1>8. SetsFit'
  <2> SUFFICES ASSUME Live', dec' # None PROVE SetsFit'
    BY DEF SetsFit
  <2>1. Current' = After(f)
    <3>1. CASE n = 1
      BY <1>1, <3>1 DEF Live, Current, IInv, PhoneFits, n
    <3>2. CASE n # 1
      BY <1>1, <1>3, <3>2 DEF Current
    <3> QED
      BY <3>1, <3>2
  <2>2. Current' # 0 => dec'.sets = Current' \/ Current' \in broken'
    BY <1>7, <2>1 DEF After
  <2>3. ASSUME NEW c, NEW i \in 1..n, Started(c, i + 1),
               f.kind = "config" => c \in Nat /\ f.n <= c
        PROVE  Started(c, i)'
    <3>1. CASE c \in broken
      BY <3>1 DEF Started
    <3>2. CASE c = Current /\ dec.active = c
      <4>1. f.kind # "config" /\ c = f.config
        BY <1>1, <1>2, <1>3, <2>3, <3>2
      <4>2. f.kind = "idr" => c # 0
        BY <1>1, <1>3, <4>1 DEF Encrypted
      <4> QED
        BY <1>7, <2>1, <2>3, <3>2, <4>1, <4>2 DEF Started, After
    <3>3. CASE \E j \in 1..((i + 1) - 1) : wire[j].kind = "idr" /\ wire[j].config = c
      <4>1. PICK j \in 1..i : wire[j].kind = "idr" /\ wire[j].config = c
        BY <2>3, <3>3
      <4>2. CASE j = 1
        <5>1. f.kind = "idr" /\ f.config = c /\ c # 0
          BY <1>1, <1>3, <4>1, <4>2 DEF Encrypted
        <5> QED
          BY <1>7, <2>1, <5>1 DEF Started, After
      <4>3. CASE j # 1 /\ j \in 1..n
        <5>1. j - 1 \in 1..(i - 1) /\ wire'[j - 1] = wire[j]
          BY <1>1, <4>1, <4>3
        <5> QED
          BY <4>1, <5>1 DEF Started
      <4> QED
        BY <1>1, <4>1, <4>2, <4>3
    <3> QED
      BY <2>3, <3>1, <3>2, <3>3 DEF Started
  <2>4. ASSUME NEW i \in 1..(n - 1), wire'[i].kind = "delta" PROVE Started(wire[i].config, i)'
    BY <1>1, <1>2, <1>3, <2>3, <2>4 DEF IInv, SetsFit, Encrypted, n
  <2>5. ASSUME conn = "open", ~phone.idr PROVE Started(phone.config, Len(wire) + 1)'
    BY <1>1, <1>2, <1>3, <2>3, <2>5 DEF IInv, SetsFit, PhoneFits, TypeOK, n
  <2> QED
    BY <1>1, <2>2, <2>4, <2>5 DEF SetsFit
<1> QED
  BY <1>1, <1>3, <1>4, <1>5, <1>6, <1>7, <1>8

\* What the two sides of the stream and the decoder agree on holds from the start
\* and after every step of the phone, of the control thread and of the reader.
LEMMA Invariance == Spec => []IInv
\* set_parameter_sets_from_avcc() caches the sets it was given, or changes nothing
\* but what an open that fails does.
<1>1. ASSUME NEW d \in Impls, NEW b, NEW n \in Nat, NEW r \in Configures(d, b, n)
      PROVE  /\ r \in [ok : BOOLEAN, impl : Impls]
             /\ r.ok => /\ r.impl.sets = n /\ r.impl.of = r.impl.id
                        /\ \/ r.impl.ctx = r.impl.id
                           \/ r.impl.ctx = d.ctx /\ r.impl.id = d.id
             /\ ~r.ok => /\ r.impl.sets = d.sets /\ r.impl.of = d.of
                         /\ r.impl = d \/ r.impl.ctx \in {"null", "closed"}
  <2> USE <1>1
  <2> DEFINE cs == {c \in Codecs : Unwrapped(b) /\ Parses(b, c)}
             c == CHOOSE x \in cs : TRUE
  <2>1. CASE cs = {}
    <3>1. r = [ok |-> FALSE, impl |-> d]
      BY <2>1 DEF Configures
    <3> QED
      BY <3>1
  <2>2. CASE cs # {}
    <3>1. c \in Codecs
      BY <2>2
    <3> HIDE DEF c
    <3>2. PICK q \in Reopens(d, c) :
            r = IF q.ok THEN [q EXCEPT !.impl = [@ EXCEPT !.sets = n, !.of = c]] ELSE q
      BY <2>2 DEF Configures, c
    <3>3. /\ q \in [ok : BOOLEAN, impl : Impls]
          /\ q.impl.sets = d.sets /\ q.impl.of = d.of
          /\ q.ok => q.impl.id = c /\ (q.impl.ctx = c \/ q.impl = d)
          /\ ~q.ok => q.impl = d \/ q.impl.ctx \in {"null", "closed"}
      <4>1. CASE q = [ok |-> TRUE, impl |-> d] /\ d.id = c
        BY <4>1
      <4>2. CASE q \in Opens(d, c)
        BY <3>1, <4>2, Opened DEF Impls
      <4> QED
        BY <3>2, <4>1, <4>2 DEF Reopens
    <3>4. CASE ~q.ok
      BY <3>2, <3>3, <3>4
    <3>5. CASE q.ok
      <4>1. r = [q EXCEPT !.impl = [q.impl EXCEPT !.sets = n, !.of = c]]
        BY <3>2, <3>5
      <4>2. PICK e : e = [q.impl EXCEPT !.sets = n, !.of = c]
        OBVIOUS
      <4>3. e \in Impls /\ e.sets = n /\ e.of = c /\ e.id = q.impl.id /\ e.ctx = q.impl.ctx
        BY <3>1, <3>3, <4>2 DEF Impls
      <4>4. r.impl = e /\ r.ok /\ r \in [ok : BOOLEAN, impl : Impls]
        BY <3>3, <3>5, <4>1, <4>2, <4>3
      <4> QED
        BY <3>3, <3>5, <4>3, <4>4
    <3> QED
      BY <3>3, <3>4, <3>5
  <2> QED
    BY <2>1, <2>2
\* A new listener, and what the phone does: it connects, sends, closes, or the
\* connection breaks.
<1>2. /\ IInv
      /\ Setup \/ Connects \/ SendsConfig \/ SendsPicture \/ SendsOther \/ Closes \/ Breaks
      => IInv'
  <2> SUFFICES ASSUME IInv
               PROVE  \/ Setup \/ Connects \/ SendsConfig \/ SendsPicture
                       \/ SendsOther \/ Closes \/ Breaks
                      => IInv'
    OBVIOUS
  <2> USE MirrorAssumption
  <2>1. /\ phone \in [codec : Codecs, config : Nat, tx : Nat, idr : BOOLEAN]
        /\ count \in [frames : 0..MaxFrames, conns : 0..MaxConns, setups : 0..MaxSetups]
        /\ count.frames \in Nat /\ rx \in Nat /\ lost \in Nat
        /\ wire \in Seq(Frames) /\ Len(wire) \in Nat
    BY DEF IInv, TypeOK
  <2>2. ASSUME Setup PROVE IInv'
    <3>1. /\ phone' = Silent /\ wire' = <<>> /\ conn' = "none" /\ rx' = 0 /\ lost' = 0
          /\ failed' = {} /\ UNCHANGED <<shown, broken>>
          /\ count' = [count EXCEPT !.setups = count.setups + 1] /\ count.setups < MaxSetups
      BY <2>2 DEF Setup
    <3>2. keyed' \in BOOLEAN /\ dec' \in Impls \cup {None} /\ DecoderFits'
      <4>1. PICK key \in BOOLEAN :
              /\ keyed' = key
              /\ IF key THEN \E want \in BOOLEAN : \E r \in Opens(NewImpl(want), "h264") :
                                 dec' = IF r.ok THEN r.impl ELSE None
                 ELSE dec' = None
        <5>1. PICK key \in {TRUE} \cup (IF "key" \in Faults THEN {FALSE} ELSE {}) :
                /\ keyed' = key
                /\ IF key THEN \E want \in BOOLEAN : \E r \in Opens(NewImpl(want), "h264") :
                                   dec' = IF r.ok THEN r.impl ELSE None
                   ELSE dec' = None
          BY <2>2, Zenon DEF Setup, MakesDecoder
        <5>2. key \in BOOLEAN
          OBVIOUS
        <5> QED
          BY <5>1, <5>2, Zenon
      <4>2. CASE dec' = None
        BY <4>1, <4>2 DEF DecoderFits
      <4>3. CASE key /\ dec' # None
        <5> PICK want \in BOOLEAN : \E r \in Opens(NewImpl(want), "h264") :
                                      dec' = IF r.ok THEN r.impl ELSE None
          BY <4>1, <4>3
        <5>1. PICK r \in Opens(NewImpl(want), "h264") : r.ok /\ dec' = r.impl
          BY <4>3
        <5>2. NewImpl(want) \in Impls /\ NewImpl(want).sets = 0
          BY DEF NewImpl, Impls
        <5>3. r.impl \in Impls /\ r.impl.sets = 0 /\ r.impl.ctx = r.impl.id
          BY <5>1, <5>2, Opened
        <5> QED
          BY <4>1, <4>3, <5>1, <5>3 DEF DecoderFits
      <4> QED
        BY <4>1, <4>2, <4>3
    <3>3. TypeOK'
      BY <2>1, <3>1, <3>2 DEF IInv, TypeOK, Silent
    <3>4. WireFits' /\ PhoneFits' /\ SetsFit'
      BY <2>1, <3>1 DEF WireFits, PhoneFits, SetsFit, Live, Whole, Silent
    <3>5. PositionsFit'
      BY <3>1 DEF PositionsFit, Ciphers, Silent
    <3> QED
      BY <3>1, <3>2, <3>3, <3>4, <3>5 DEF IInv, ShownWithItsSets
  <2>3. ASSUME Connects PROVE IInv'
    <3>1. /\ conn = "none" /\ conn' = "open" /\ count' = [count EXCEPT !.conns = count.conns + 1]
          /\ count.conns < MaxConns /\ phone' = [phone EXCEPT !.config = 0, !.idr = TRUE]
          /\ UNCHANGED <<wire, keyed, rx, dec, shown, lost, broken, failed>>
          /\ wire = <<>>
      BY <2>3 DEF Connects, ghosts, IInv, WireFits
    <3>2. TypeOK'
      <4>1. phone' \in [codec : Codecs, config : Nat, tx : Nat, idr : BOOLEAN]
        BY <2>1, <3>1
      <4>2. count' \in [frames : 0..MaxFrames, conns : 0..MaxConns, setups : 0..MaxSetups]
        BY <2>1, <3>1
      <4> QED
        BY <3>1, <4>1, <4>2 DEF IInv, TypeOK
    <3>3. WireFits' /\ PhoneFits'
      BY <2>1, <3>1 DEF WireFits, PhoneFits, Whole
    <3>4. PositionsFit' /\ SetsFit'
      BY <2>1, <3>1 DEF IInv, PositionsFit, SetsFit, Current, Ciphers
    <3> QED
      BY <3>1, <3>2, <3>3, <3>4 DEF IInv, DecoderFits, ShownWithItsSets
  <2>4. ASSUME NEW kind \in {"config", "idr", "delta", "report", "huge"}, NEW b \in Blobs \cup {None}
        PROVE  /\ Frame(kind, b) \in Frames
               /\ Frame(kind, b).kind = kind /\ Frame(kind, b).whole
               /\ Frame(kind, b).n = count.frames + 1 /\ Frame(kind, b).at = phone.tx
               /\ Frame(kind, b).config = phone.config
    <3>1. Frame(kind, b) \in Frames
      BY <2>1, SMTT(20) DEF Frame, Frames
    <3> QED
      BY <3>1 DEF Frame
  <2>5. ASSUME SendsConfig PROVE IInv'
    <3> PICK c \in Codecs : \E b \in BlobsOf(c) :
            /\ Sends([Frame("config", b) EXCEPT !.codec = c])
            /\ phone' = [phone EXCEPT !.codec = c, !.config = count.frames + 1, !.idr = TRUE]
      BY <2>5 DEF SendsConfig
    <3>1. PICK b \in BlobsOf(c) :
            /\ Sends([Frame("config", b) EXCEPT !.codec = c])
            /\ phone' = [phone EXCEPT !.codec = c, !.config = count.frames + 1, !.idr = TRUE]
      OBVIOUS
    <3>2. PICK f : f = [Frame("config", b) EXCEPT !.codec = c]
      OBVIOUS
    <3>3. b \in Blobs
      BY DEF BlobsOf
    <3>4. /\ f \in Frames /\ f.kind = "config" /\ f.whole /\ f.n = count.frames + 1
          /\ f.at = phone.tx /\ f.config = phone.config
      BY <2>4, <3>2, <3>3 DEF Frames
    <3>5. /\ phone' \in [codec : Codecs, config : Nat, tx : Nat, idr : BOOLEAN]
          /\ phone'.config = count.frames + 1 /\ phone'.tx = phone.tx /\ phone'.idr
      <4>1. phone' = [phone EXCEPT !.codec = c, !.config = count.frames + 1, !.idr = TRUE]
        BY <3>1
      <4>2. count.frames + 1 \in Nat
        BY <2>1
      <4> QED
        BY <2>1, <4>1, <4>2
    <3> QED
      BY <3>1, <3>2, <3>4, <3>5, Sent DEF After, Encrypted
  <2>6. ASSUME SendsPicture PROVE IInv'
    <3>1. PICK kind \in {"idr", "delta"}, body \in Bodies :
            /\ Sends([Frame(kind, None) EXCEPT !.body = body])
            /\ phone.idr => kind = "idr"
      BY <2>6 DEF SendsPicture
    <3>2. PICK f : f = [Frame(kind, None) EXCEPT !.body = body]
      OBVIOUS
    <3>3. /\ f \in Frames /\ f.kind = kind /\ f.whole /\ f.n = count.frames + 1
          /\ f.at = phone.tx /\ f.config = phone.config
      BY <2>4, <3>2 DEF Frames, Bodies
    <3>4. /\ phone.config # 0
          /\ phone' \in [codec : Codecs, config : Nat, tx : Nat, idr : BOOLEAN]
          /\ phone'.config = phone.config /\ phone'.tx = phone.tx + 1
      <4>1. /\ phone' = [phone EXCEPT !.tx = phone.tx + 1, !.idr = FALSE] /\ phone.config # 0
        BY <2>6 DEF SendsPicture
      <4>2. PICK m \in Nat : m = phone.tx + 1
        BY <2>1
      <4>3. phone' = [phone EXCEPT !.tx = m, !.idr = FALSE]
        BY <4>1, <4>2
      <4> QED
        BY <2>1, <4>1, <4>2, <4>3
    <3> QED
      BY <3>1, <3>2, <3>3, <3>4, Sent DEF After, Encrypted
  <2>7. ASSUME SendsOther PROVE IInv'
    <3>1. PICK kind \in {"report", "huge"} : Sends(Frame(kind, None))
      BY <2>7 DEF SendsOther
    <3>2. PICK f : f = Frame(kind, None)
      OBVIOUS
    <3>3. phone' = phone
      BY <2>7 DEF SendsOther
    <3> QED
      BY <2>1, <2>4, <3>1, <3>2, <3>3, Sent DEF After, Encrypted
  <2>8. ASSUME Closes PROVE IInv'
    <3>1. /\ conn = "open" /\ conn' = "closed"
          /\ UNCHANGED <<phone, wire, keyed, rx, dec, shown, lost, broken, failed, count>>
      BY <2>8 DEF Closes, ghosts
    <3>2. TypeOK' /\ WireFits' /\ PhoneFits' /\ PositionsFit'
      BY <3>1 DEF IInv, TypeOK, WireFits, Whole, PhoneFits, PositionsFit, Ciphers
    <3>3. SetsFit'
      BY <2>1, <3>1 DEF IInv, SetsFit, Live, Whole, Current, Started
    <3> QED
      BY <3>1, <3>2, <3>3 DEF IInv, DecoderFits, ShownWithItsSets
  <2>9. ASSUME Breaks PROVE IInv'
    <3>1. /\ conn = "open" /\ conn' = "closed" /\ wire # <<>>
          /\ lost' = lost + Cardinality(Ciphers(wire))
          /\ UNCHANGED <<phone, keyed, rx, dec, shown, broken, failed, count>>
      BY <2>9 DEF Breaks
    <3>2. PICK f \in Frames : /\ ~f.whole /\ f.config = wire[1].config /\ f.n = wire[1].n
                              /\ f.kind = wire[1].kind
                              /\ wire' = <<>> \/ wire' = <<f>>
      <4>1. wire[1] \in Frames /\ Head(wire) = wire[1]
        BY <2>1, <3>1
      <4>2. [wire[1] EXCEPT !.whole = FALSE] \in Frames
        BY <4>1 DEF Frames
      <4> QED
        BY <2>9, <4>1, <4>2 DEF Breaks, Frames
    <3>3. lost' \in Nat /\ Cardinality(Ciphers(wire)) \in Nat
      <4>1. IsFiniteSet(1..Len(wire))
        BY <2>1, FS_Interval
      <4>2. Ciphers(wire) \in SUBSET (1..Len(wire))
        BY DEF Ciphers
      <4>3. IsFiniteSet(Ciphers(wire))
        BY <4>1, <4>2, FS_Subset
      <4> QED
        BY <2>1, <3>1, <4>3, FS_CardinalityType
    <3>4. TypeOK'
      <4>1. wire' \in Seq(Frames)
        <5>1. <<>> \in Seq(Frames) /\ <<f>> \in Seq(Frames)
          OBVIOUS
        <5> QED
          BY <3>2, <5>1
      <4> QED
        BY <2>1, <3>1, <3>3, <4>1 DEF IInv, TypeOK
    <3>5. WireFits' /\ PhoneFits'
      <4>1. f.config < f.n /\ f.n <= count.frames /\ (Encrypted(f) => f.config # 0)
        BY <2>1, <3>1, <3>2 DEF IInv, WireFits, Encrypted
      <4>2. PhoneFits'
        BY <3>1 DEF PhoneFits
      <4>3. phone'.config <= count'.frames
        BY <3>1 DEF IInv, WireFits
      <4>4. CASE wire' = <<>>
        <5>1. 1..Len(wire') = {}
          BY <4>4
        <5>2. Whole'
          BY <5>1 DEF Whole
        <5> QED
          BY <3>1, <4>2, <4>3, <5>1, <5>2 DEF WireFits
      <4>5. CASE wire' = <<f>>
        <5>1. Len(wire') = 1 /\ 1..Len(wire') = {1} /\ wire'[1] = f
          BY <4>5
        <5>2. \A j \in 2..Len(wire') : FALSE
          BY <5>1
        <5> QED
          BY <3>1, <4>1, <4>2, <4>3, <5>1, <5>2 DEF WireFits, Encrypted
      <4> QED
        BY <3>2, <4>2, <4>4, <4>5
    <3>6. Ciphers(wire)' = {} /\ (wire' # <<>> => ~Whole')
      BY <2>1, <3>1, <3>2, SMTT(30) DEF Ciphers, Whole
    <3>7. PositionsFit'
      <4>1. ASSUME keyed PROVE phone.tx = rx + lost'
        <5>1. phone.tx = rx + lost + Cardinality(Ciphers(wire))
          BY <4>1, Counted DEF IInv
        <5>2. lost' = lost + Cardinality(Ciphers(wire)) /\ lost' - lost \in Int
          BY <2>1, <3>1, <3>3
        <5> DEFINE k == Cardinality(Ciphers(wire))
        <5>3. k \in Nat
          BY <3>3
        <5> HIDE DEF k
        <5> QED
          BY <2>1, <5>1, <5>2, <5>3 DEF k
      <4> QED
        <5>1. keyed => (rx + lost')..(phone.tx - 1) = {} /\ rx + lost' <= phone.tx
          BY <2>1, <3>3, <4>1
        <5>2. {wire'[i].at : i \in Ciphers(wire)'} = {}
          BY <3>6
        <5> QED
          BY <3>1, <3>6, <5>1, <5>2 DEF PositionsFit
    <3>8. SetsFit'
      BY <3>1, <3>6 DEF SetsFit, Live
    <3> QED
      BY <3>1, <3>4, <3>5, <3>7, <3>8 DEF IInv, DecoderFits, ShownWithItsSets
  <2> QED
    BY <2>2, <2>3, <2>5, <2>6, <2>7, <2>8, <2>9
\* reader_loop(), a frame at a time, and its end.
<1>3. IInv /\ Reader => IInv'
  <2> SUFFICES ASSUME IInv PROVE Reader => IInv'
    OBVIOUS
  <2> DEFINE f == Head(wire)
  <2>1. /\ rx \in Nat /\ lost \in Nat /\ phone.tx \in Nat /\ wire \in Seq(Frames)
        /\ dec \in Impls \cup {None} /\ keyed \in BOOLEAN
        /\ broken \subseteq Nat /\ failed \subseteq Codecs
    BY DEF IInv, TypeOK
  <2>2. ASSUME NEW kinds, Reads(kinds)
        PROVE  Taken(f) /\ conn # "none" /\ f.whole /\ f.kind \in kinds /\ f \in Frames
    <3>1. wire # <<>> /\ wire' = Tail(wire)
      BY <2>2 DEF Reads
    <3>2. /\ Len(wire) \in Nat /\ Len(wire) >= 1 /\ wire[1] = f
          /\ \A i \in 1..Len(wire) : wire[i] \in Frames
      BY <2>1, <3>1
    <3>3. /\ Len(wire') = Len(wire) - 1 /\ wire' \in Seq(Frames)
          /\ \A i \in 1..(Len(wire) - 1) : wire'[i] = wire[i + 1]
      BY <2>1, <3>1
    <3>4. (wire' = <<>> <=> Len(wire) = 1) /\ (Len(wire) > 1 => Head(wire') = wire'[1])
      BY <3>2, <3>3
    <3> QED
      BY <2>2, <3>1, <3>2, <3>3, <3>4 DEF Reads, Taken
  <2> HIDE DEF f
  <2>3. ASSUME ReadsConfig PROVE IInv'
    <3>1. /\ Reads({"config"}) /\ UNCHANGED <<phone, conn, keyed, rx, shown, lost, count>>
          /\ IF dec # None
             THEN \E r \in Configures(dec, f.blob, f.n) :
                      /\ dec' = r.impl
                      /\ broken' = IF r.ok THEN broken ELSE broken \cup {f.n}
                      /\ failed' = IF r.impl.ctx \in {"null", "closed"}
                                   THEN failed \cup {r.impl.id} ELSE failed
             ELSE UNCHANGED <<dec, broken, failed>>
      BY <2>3 DEF ReadsConfig, Forwards, f
    <3>2. Taken(f) /\ conn # "none" /\ f.whole /\ f.kind = "config" /\ f \in Frames /\ f.n \in Nat
      BY <2>2, <3>1 DEF Frames
    <3>3. /\ dec' \in Impls \cup {None} /\ broken' \subseteq Nat /\ failed' \subseteq Codecs
          /\ broken \subseteq broken' /\ failed \subseteq failed'
          /\ dec' # None => dec # None /\ (dec'.sets = f.n \/ f.n \in broken')
          /\ DecoderFits'
      <4>1. CASE dec = None
        BY <2>1, <3>1, <4>1 DEF IInv, DecoderFits
      <4>2. CASE dec # None
        <5>1. PICK r \in Configures(dec, f.blob, f.n) :
                      /\ dec' = r.impl
                      /\ broken' = IF r.ok THEN broken ELSE broken \cup {f.n}
                      /\ failed' = IF r.impl.ctx \in {"null", "closed"}
                                   THEN failed \cup {r.impl.id} ELSE failed
          BY <3>1, <4>2
        <5>2. /\ r \in [ok : BOOLEAN, impl : Impls]
              /\ r.ok => /\ r.impl.sets = f.n /\ r.impl.of = r.impl.id
                         /\ \/ r.impl.ctx = r.impl.id
                            \/ r.impl.ctx = dec.ctx /\ r.impl.id = dec.id
              /\ ~r.ok => /\ r.impl.sets = dec.sets /\ r.impl.of = dec.of
                          /\ r.impl = dec \/ r.impl.ctx \in {"null", "closed"}
          BY <2>1, <3>2, <4>2, <1>1
        <5>3. r.impl \in Impls /\ r.impl.id \in Codecs /\ broken \subseteq broken'
              /\ failed \subseteq failed' /\ failed' \subseteq Codecs /\ broken' \subseteq Nat
          BY <2>1, <3>2, <5>1, <5>2 DEF Impls
        <5>4. keyed /\ (dec.ctx = dec.id \/ dec.id \in failed)
                    /\ (dec.sets # 0 => dec.of = dec.id \/ dec.id \in failed)
          BY <4>2 DEF IInv, DecoderFits
        <5>5. DecoderFits'
          <6>1. CASE r.ok
            BY <3>1, <5>1, <5>2, <5>3, <5>4, <6>1 DEF DecoderFits
          <6>2. CASE ~r.ok /\ r.impl = dec
            BY <3>1, <5>1, <5>3, <5>4, <6>2 DEF DecoderFits
          <6>3. CASE r.impl.ctx \in {"null", "closed"}
            BY <3>1, <5>1, <5>4, <6>3 DEF DecoderFits
          <6> QED
            BY <5>2, <6>1, <6>2, <6>3
        <5> QED
          BY <4>2, <5>1, <5>2, <5>3, <5>5
      <4> QED
        BY <4>1, <4>2
    <3>4. f.kind = "config" /\ After(f) = f.n /\ ~Encrypted(f)
      BY <3>2 DEF After, Encrypted
    <3>5. wire' \in Seq(Frames) /\ WireFits' /\ PhoneFits' /\ PositionsFit' /\ SetsFit'
      BY <2>1, <3>1, <3>2, <3>3, <3>4, Read
    <3>6. TypeOK' /\ ShownWithItsSets'
      BY <3>1, <3>3, <3>5 DEF IInv, TypeOK, ShownWithItsSets
    <3> QED
      BY <3>3, <3>5, <3>6 DEF IInv
  <2>4. ASSUME ReadsUnkeyed \/ ReadsOther PROVE IInv'
    <3>1. /\ \/ Reads({"idr", "delta"}) /\ ~keyed
             \/ Reads({"report"})
          /\ UNCHANGED <<phone, conn, keyed, rx, dec, shown, lost, broken, failed, count>>
      BY <2>4 DEF ReadsUnkeyed, ReadsOther, ghosts
    <3>2. /\ Taken(f) /\ conn # "none" /\ f.whole
          /\ \/ f.kind \in {"idr", "delta"} /\ ~keyed
             \/ f.kind = "report"
      BY <2>2, <3>1
    <3>3. /\ ~keyed => dec = None
          /\ keyed => ~Encrypted(f)
          /\ After(f) = f.config /\ (dec' # None => f.kind = "report")
      BY <3>1, <3>2 DEF IInv, DecoderFits, Encrypted, After
    <3>4. wire' \in Seq(Frames) /\ WireFits' /\ PhoneFits' /\ PositionsFit' /\ SetsFit'
      BY <2>1, <3>1, <3>2, <3>3, Read
    <3>5. TypeOK' /\ DecoderFits' /\ ShownWithItsSets'
      BY <3>1, <3>4 DEF IInv, TypeOK, DecoderFits, ShownWithItsSets
    <3> QED
      BY <3>4, <3>5 DEF IInv
  <2>5. ASSUME NEW d, d = [dec EXCEPT !.active = Prefixed(dec, f)], dec # None
        PROVE  /\ d \in Impls /\ d.active = Prefixed(dec, f)
               /\ d.sets = dec.sets /\ d.ctx = dec.ctx /\ d.id = dec.id /\ d.of = dec.of
    <3>1. Prefixed(dec, f) \in Nat
      BY <2>1, <2>5 DEF Prefixed, Impls
    <3> QED
      BY <2>1, <2>5, <3>1 DEF Impls
  <2>6. ASSUME Reads({"idr", "delta"}), keyed, rx' \in Nat, lost' \in Nat,
               rx' + lost' = rx + lost + 1, UNCHANGED <<phone, conn, keyed, count, failed>>,
               broken' = broken \/ broken' = Broken(f),
               \/ UNCHANGED dec
               \/ dec # None /\ dec' = [dec EXCEPT !.active = Prefixed(dec, f)],
               \/ broken' = Broken(f)
               \/ dec # None /\ dec' = [dec EXCEPT !.active = Prefixed(dec, f)]
        PROVE  /\ f \in Frames /\ f.config # 0
               /\ dec' \in Impls \cup {None} /\ broken' \subseteq Nat /\ broken \subseteq broken'
               /\ wire' \in Seq(Frames) /\ WireFits' /\ PhoneFits' /\ PositionsFit' /\ SetsFit'
               /\ DecoderFits'
               /\ dec # None => dec.sets = f.config \/ f.config \in broken
               /\ dec # None /\ f.kind = "delta" => dec.active = f.config \/ f.config \in broken
    <3>1. /\ Taken(f) /\ conn # "none" /\ f.whole /\ f.kind \in {"idr", "delta"} /\ f \in Frames
          /\ Encrypted(f) /\ After(f) = f.config /\ f.config \in Nat
      BY <2>2, <2>6 DEF Encrypted, After, Frames
    <3>2. f.config # 0
      BY <3>1 DEF IInv, WireFits, Taken
    <3>3. /\ dec' \in Impls \cup {None} /\ (dec' # None => dec # None)
          /\ dec' # None => /\ dec'.sets = dec.sets /\ dec'.ctx = dec.ctx
                            /\ dec'.id = dec.id /\ dec'.of = dec.of
                            /\ dec'.active = dec.active \/ dec'.active = Prefixed(dec, f)
      BY <2>1, <2>5, <2>6
    <3>4. broken \subseteq broken' /\ broken' \subseteq Nat
      BY <2>1, <2>6, <3>1 DEF Broken
    <3>5. f.kind = "delta" => Prefixed(dec, f) = dec.active
      BY DEF Prefixed
    <3>6. f.kind = "idr" /\ dec' # None =>
            \/ dec'.active = f.config \/ f.config \in broken'
            \/ dec.sets # f.config /\ f.config \notin broken
      <4>1. CASE broken' = Broken(f)
        BY <4>1 DEF Broken
      <4>2. CASE dec # None /\ dec' = [dec EXCEPT !.active = Prefixed(dec, f)]
        <5>1. dec'.active = Prefixed(dec, f)
          BY <2>5, <4>2
        <5> QED
          BY <3>2, <3>4, <5>1 DEF Prefixed
      <4> QED
        BY <2>6, <4>1, <4>2
    <3>7. /\ wire' \in Seq(Frames) /\ WireFits' /\ PhoneFits' /\ PositionsFit' /\ SetsFit'
          /\ dec # None => dec.sets = f.config \/ f.config \in broken
          /\ dec # None /\ f.kind = "delta" => dec.active = f.config \/ f.config \in broken
      BY <2>6, <3>1, <3>2, <3>3, <3>4, <3>5, <3>6, Read
    <3>8. DecoderFits'
      BY <2>6, <3>3 DEF IInv, DecoderFits
    <3> QED
      BY <3>1, <3>2, <3>3, <3>4, <3>7, <3>8
  <2>7. ASSUME ReadsDark PROVE IInv'
    <3>1. /\ Reads({"idr", "delta"}) /\ keyed /\ rx' = rx + 1 /\ broken' = Broken(f)
          /\ UNCHANGED <<phone, conn, keyed, shown, lost, failed, count>>
          /\ \/ UNCHANGED dec
             \/ dec # None /\ dec' = [dec EXCEPT !.active = Prefixed(dec, f)]
      BY <2>7 DEF ReadsDark, Advances, f
    <3>4. rx' \in Nat /\ lost' \in Nat /\ rx' + lost' = rx + lost + 1
      BY <2>1, <3>1
    <3>2. /\ dec' \in Impls \cup {None} /\ broken' \subseteq Nat /\ broken \subseteq broken'
          /\ wire' \in Seq(Frames) /\ WireFits' /\ PhoneFits' /\ PositionsFit' /\ SetsFit'
          /\ DecoderFits'
      BY <2>6, <3>1, <3>4
    <3>3. TypeOK' /\ ShownWithItsSets'
      BY <2>1, <3>1, <3>2, <3>4 DEF IInv, TypeOK, ShownWithItsSets
    <3> QED
      BY <3>2, <3>3 DEF IInv
  <2>10. ASSUME ReadsShort PROVE IInv'
    <3>1. /\ Reads({"idr", "delta"}) /\ keyed /\ lost' = lost + 1 /\ broken' = Broken(f)
          /\ UNCHANGED <<phone, conn, keyed, rx, dec, shown, failed, count>>
      BY <2>10 DEF ReadsShort, f
    <3>2. rx' \in Nat /\ lost' \in Nat /\ rx' + lost' = rx + lost + 1
      BY <2>1, <3>1
    <3>3. /\ dec' \in Impls \cup {None} /\ broken' \subseteq Nat /\ broken \subseteq broken'
          /\ wire' \in Seq(Frames) /\ WireFits' /\ PhoneFits' /\ PositionsFit' /\ SetsFit'
          /\ DecoderFits'
      BY <2>6, <3>1, <3>2
    <3>4. TypeOK' /\ ShownWithItsSets'
      BY <2>1, <3>1, <3>2, <3>3 DEF IInv, TypeOK, ShownWithItsSets
    <3> QED
      BY <3>3, <3>4 DEF IInv
  <2>8. ASSUME ReadsPicture PROVE IInv'
    <3>1. /\ Reads({"idr", "delta"}) /\ keyed /\ rx' = rx + 1 /\ UNCHANGED broken
          /\ UNCHANGED <<phone, conn, keyed, lost, failed, count>>
          /\ dec # None /\ dec' = [dec EXCEPT !.active = Prefixed(dec, f)]
          /\ shown' = [n |-> f.n, at |-> f.at, need |-> f.config, sets |-> Prefixed(dec, f),
                       gpu |-> dec.gpu]
      BY <2>8 DEF ReadsPicture, Advances, ghosts, f
    <3>2. /\ f \in Frames /\ f.config # 0
          /\ dec' \in Impls \cup {None}
          /\ wire' \in Seq(Frames) /\ WireFits' /\ PhoneFits' /\ PositionsFit' /\ SetsFit'
          /\ DecoderFits'
          /\ dec.sets = f.config \/ f.config \in broken
          /\ f.kind = "delta" => dec.active = f.config \/ f.config \in broken
      <4>1. rx' \in Nat /\ lost' \in Nat /\ rx' + lost' = rx + lost + 1
        BY <2>1, <3>1
      <4> QED
        BY <2>6, <3>1, <4>1
    <3>3. Prefixed(dec, f) = f.config \/ f.config \in broken
      <4>1. f.kind \in {"idr", "delta"}
        BY <2>2, <3>1
      <4> QED
        BY <3>2, <4>1 DEF Prefixed
    <3>4. ShownWithItsSets'
      BY <3>1, <3>3 DEF ShownWithItsSets
    <3>5. shown' \in [n : Nat, at : Nat, need : Nat, sets : Nat, gpu : BOOLEAN]
      <4>1. Prefixed(dec, f) \in Nat /\ dec.gpu \in BOOLEAN
        BY <2>1, <3>1 DEF Prefixed, Impls
      <4> QED
        BY <3>1, <3>2, <4>1 DEF Frames
    <3>6. TypeOK'
      <4>1. phone' = phone /\ count' = count /\ conn' = conn /\ keyed' = keyed /\ lost' = lost
            /\ failed' = failed /\ rx' \in Nat
        BY <2>1, <3>1
      <4>2. /\ phone' \in [codec : Codecs, config : Nat, tx : Nat, idr : BOOLEAN]
            /\ count' \in [frames : 0..MaxFrames, conns : 0..MaxConns, setups : 0..MaxSetups]
        BY <4>1 DEF IInv, TypeOK
      <4>3. conn' \in {"none", "open", "closed"} /\ keyed' \in BOOLEAN /\ lost' \in Nat
        BY <4>1 DEF IInv, TypeOK
      <4>4. failed' \subseteq Codecs
        BY <2>1, <4>1
      <4>5. broken' \subseteq Nat
        BY <2>1, <3>1
      <4> QED
        BY <3>2, <3>5, <4>1, <4>2, <4>3, <4>4, <4>5, Zenon DEF TypeOK
    <3> QED
      BY <3>2, <3>4, <3>6 DEF IInv
  <2>9. ASSUME LoopEnds PROVE IInv'
    <3>1. /\ conn' = "none" /\ wire' = <<>> /\ lost' = lost + Cardinality(Ciphers(wire))
          /\ UNCHANGED <<phone, keyed, rx, dec, shown, broken, failed, count>>
      BY <2>9 DEF LoopEnds
    <3>2. Cardinality(Ciphers(wire)) \in Nat
      <4>1. IsFiniteSet(1..Len(wire))
        BY <2>1, FS_Interval
      <4>2. Ciphers(wire) \in SUBSET (1..Len(wire))
        BY DEF Ciphers
      <4>3. IsFiniteSet(Ciphers(wire))
        BY <4>1, <4>2, FS_Subset
      <4> QED
        BY <4>3, FS_CardinalityType
    <3>3. lost' \in Nat /\ (keyed => phone.tx = rx + lost')
      <4>1. keyed => phone.tx = rx + lost + Cardinality(Ciphers(wire))
        BY Counted DEF IInv
      <4> DEFINE k == Cardinality(Ciphers(wire))
      <4>2. k \in Nat /\ lost' = lost + k /\ (keyed => phone.tx = rx + lost + k)
        BY <3>1, <3>2, <4>1
      <4> HIDE DEF k
      <4> QED
        BY <2>1, <4>2
    <3>4. TypeOK'
      <4>1. wire' \in Seq(Frames)
        BY <3>1
      <4> QED
        BY <2>1, <3>1, <3>3, <4>1 DEF IInv, TypeOK
    <3>5. 1..Len(wire') = {} /\ wire' = <<>>
      BY <3>1
    <3>6. Whole' /\ ~Live' /\ Ciphers(wire)' = {}
      BY <3>1, <3>5 DEF Whole, Live, Ciphers
    <3>7. WireFits' /\ PhoneFits' /\ SetsFit'
      BY <3>1, <3>5, <3>6 DEF IInv, WireFits, PhoneFits, SetsFit
    <3>8. PositionsFit'
      <4>1. keyed => (rx + lost')..(phone.tx - 1) = {} /\ rx + lost' <= phone.tx
        BY <2>1, <3>3
      <4>2. {wire'[i].at : i \in Ciphers(wire)'} = {}
        BY <3>6
      <4> QED
        BY <3>1, <3>6, <4>1, <4>2 DEF PositionsFit
    <3> QED
      BY <3>1, <3>4, <3>7, <3>8 DEF IInv, DecoderFits, ShownWithItsSets
  <2> QED
    BY <2>3, <2>4, <2>7, <2>8, <2>9, <2>10 DEF Reader
<1>4. Init => IInv
  <2> SUFFICES ASSUME Init PROVE IInv
    OBVIOUS
  <2>1. TypeOK
    <3>1. /\ phone \in [codec : Codecs, config : Nat, tx : Nat, idr : BOOLEAN]
          /\ count \in [frames : 0..MaxFrames, conns : 0..MaxConns, setups : 0..MaxSetups]
      BY MirrorAssumption DEF Init, Silent
    <3>2. <<>> \in Seq(Frames)
      OBVIOUS
    <3> QED
      BY <3>1, <3>2 DEF Init, TypeOK
  <2>2. WireFits /\ PhoneFits /\ SetsFit
    BY DEF Init, WireFits, PhoneFits, SetsFit, Live, Whole, Silent
  <2> QED
    BY <2>1, <2>2 DEF Init, IInv, PositionsFit, DecoderFits, ShownWithItsSets
<1>5. ASSUME IInv, UNCHANGED vars PROVE IInv'
  BY <1>5 DEF vars, ghosts, IInv, TypeOK, WireFits, Whole, PhoneFits, PositionsFit, Ciphers,
     DecoderFits, SetsFit, Live, Current, Started, ShownWithItsSets
<1>6. IInv /\ [Next]_vars => IInv'
  BY <1>5, <1>2, <1>3 DEF Next
<1> QED
  BY <1>4, <1>6, PTL DEF Spec

\* mirror_decrypt.h: the keystream is continuous.  decrypt() runs for every encrypted
\* frame of five bytes or more before reader_loop() looks at it: whatever of these is
\* refused or not decoded, the reader is behind the phone by what is on the way, what
\* a connection lost and the shorter frames it has skipped.
THEOREM KeystreamInStep == Spec => []InStep
<1>1. IInv => InStep
  BY Counted DEF IInv, InStep
<1> QED
  BY <1>1, Invariance, PTL

\* reader_loop() gives every config to the decoder, and decode() puts the cached sets
\* in front of every IDR: a picture is decoded with the sets the phone sent last
\* before it, but for those refused or lost with their picture.
THEOREM LastSetsShown == Spec => []ShownWithItsSets
<1>1. IInv => ShownWithItsSets
  BY DEF IInv
<1> QED
  BY <1>1, Invariance, PTL

\* Impl::open() writes codec_id before the context is open: the cached sets are of
\* the codec the context is open for, unless an open for codec_id has failed.
THEOREM ReadyForItsSets == Spec => []DecoderReady
<1>1. IInv => DecoderReady
  BY DEF IInv, DecoderFits, DecoderReady
<1> QED
  BY <1>1, Invariance, PTL
=============================================================================
