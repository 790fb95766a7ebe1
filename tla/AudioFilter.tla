---------------------------- MODULE AudioFilter ----------------------------
(***************************************************************************)
(* The filter of audio packets at the head of AudioReceiver::thread_fn     *)
(* (src/audio/audio_receiver.cpp).  The sender sends a packet more than    *)
(* once, the network loses, repeats and reorders them, and the receiver    *)
(* decodes a sequence number it has not seen.  What it has seen is a set   *)
(* of sequence numbers, of which a stretch is forgotten every so often.    *)
(*                                                                         *)
(* A packet is the number of its frame of music; its sequence number is    *)
(* that modulo SeqNumbers (65536).  Every (1024) and Window (8192) are the *)
(* constants of the code; small instances keep their order.                *)
(***************************************************************************)
EXTENDS Integers, FiniteSets

CONSTANTS SeqNumbers, \* how many there are
          Window,   \* how far behind the stretch that is forgotten begins
          Every,    \* its length, and how many packets come between
          Copies,   \* how often the sender sends a packet, one after the other
          Late,     \* how far behind the newest packet a stray copy may be
          MaxFrame  \* bound: frames of music

ASSUME FilterAssumption ==
    /\ {SeqNumbers, Window, Every, Copies} \subseteq Nat \ {0}
    /\ Every <= Window /\ Window < SeqNumbers
    /\ {Late, MaxFrame} \subseteq Nat

VARIABLES seen,     \* seen_seq
          pkts,     \* pkts, modulo Every
          newest,   \* the newest packet sent, -1 before the first
          copies,   \* how often it has been received
          decoded,  \* frames handed to the decoder
          again     \* frames handed to it more than once

filter == <<seen, pkts>>
music  == <<decoded, again>>
filterVars   == <<filter, newest, copies, music>>

\* A name with a suffix after _ is a mutated form of the definition that follows.
SeqNumber(f) == f % SeqNumbers

FilterInit ==
    /\ seen = {} /\ pkts = 0
    /\ newest = -1 /\ copies = Copies
    /\ decoded = {} /\ again = {}

\* The stretch forgotten when f is the packet at hand.
Stretch_Ahead(f) == {SeqNumber(f + k) : k \in 0..Every - 1}
Stretch(f) == {SeqNumber(f - Window + k) : k \in 0..Every - 1}

\* ++pkts, and the test: the stretch is forgotten only when a packet that is
\* not a duplicate happens to be the one that completes the count.
IsDuplicate(f) == SeqNumber(f) \in seen

Arrives(f) ==
    /\ pkts' = (pkts + 1) % Every
    /\ IF IsDuplicate(f)
       THEN UNCHANGED <<seen, decoded, again>>
       ELSE /\ seen' = IF pkts' = 0 THEN (seen \cup {SeqNumber(f)}) \ Stretch(f)
                       ELSE seen \cup {SeqNumber(f)}
            /\ decoded' = decoded \cup {f}
            /\ again' = IF f \in decoded THEN again \cup {f} ELSE again

\* The next packet, after the last copy of the one before.
ArrivesNew ==
    /\ copies = Copies /\ newest < MaxFrame
    /\ newest' = newest + 1 /\ copies' = 1
    /\ Arrives(newest + 1)

ArrivesAgain ==
    /\ newest >= 0 /\ copies < Copies
    /\ copies' = copies + 1
    /\ Arrives(newest)
    /\ UNCHANGED newest

\* The network loses every copy of a packet.
PacketLost ==
    /\ copies = Copies /\ newest < MaxFrame
    /\ newest' = newest + 1
    /\ UNCHANGED <<filter, copies, music>>

\* A copy that the network has delayed.
ArrivesLate(d) ==
    /\ newest >= d
    /\ Arrives(newest - d)
    /\ UNCHANGED <<newest, copies>>

\* A packet too small to be audio is counted and not filtered.
ArrivesSmall ==
    /\ newest >= 0
    /\ pkts' = (pkts + 1) % Every
    /\ UNCHANGED <<seen, newest, copies, music>>

FilterNext ==
    \/ ArrivesNew \/ ArrivesAgain \/ ArrivesSmall
    \/ PacketLost
    \/ \E d \in 1..Late : ArrivesLate(d)

FilterSpec == FilterInit /\ [][FilterNext]_filterVars

-----------------------------------------------------------------------------
(* Properties.                                                             *)

FilterTypeOK ==
    /\ seen \subseteq 0..SeqNumbers - 1 /\ pkts \in 0..Every - 1
    /\ newest \in -1..MaxFrame /\ copies \in 1..Copies
    /\ decoded \subseteq 0..MaxFrame
    /\ again \subseteq decoded

\* "So the decoder only sees each audio frame once" (audio_receiver.cpp:256-259),
\* whatever is delayed and repeated by less than the window.
DecodedOnce == again = {}
=============================================================================
