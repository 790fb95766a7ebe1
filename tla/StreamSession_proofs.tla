------------------------ MODULE StreamSession_proofs -------------------------
(***************************************************************************)
(* Proofs about StreamSession, for any set of descriptors and any number   *)
(* of requests and of strangers.  A step is looked at one descriptor at a  *)
(* time: it keeps it, frees it or gives it to one holder, and then Passes  *)
(* says who owns what.  Took is what is left of a request, Borrows what    *)
(* the threads use of what others own.                                     *)
(***************************************************************************)
EXTENDS StreamSession, TLAPS

\* What a step of a script finds and leaves: the steps after a join are the ones
\* that close what the thread used.
LEMMA Took ==
  ASSUME todo \in Rests, NEW step, Now(step), Done
  PROVE  /\ todo' \in Rests
         /\ step # "stop_mirror" /\ todo' \in NoListener => todo \in NoListener
         /\ step # "stop_audio" /\ todo' \in NoReceiver => todo \in NoReceiver
         /\ step # "drop_ntp" /\ todo' \in NoClient => todo \in NoClient
         /\ todo' \in Bound => todo \in Bound
         /\ todo \in Bound => todo' \in Bound \/ step = "start_audio"
         /\ todo' \in Timed => todo \in Timed
         /\ step = "start_mirror" => todo \in NoListener /\ todo' \notin NoListener
         /\ step = "start_audio" => /\ todo \in Bound /\ todo \in NoReceiver
                                    /\ todo' \notin Bound /\ todo' \notin NoReceiver
         /\ step = "start_ntp" => todo \in Timed /\ todo' \notin NoClient
         /\ step \in {"drop_ntp", "close_own", "close_channels", "close_audio"} =>
              todo \in NoReceiver
         /\ step \in {"close_own", "close_channels"} => todo \in NoClient /\ todo' \notin Timed
<1> USE DEF Now, Done, Rests, Whole, Ending, Bound, Timed, NoClient, NoReceiver, NoListener,
            TeardownScript
<1>1. CASE todo = <<"stop_ntp", "start_ntp">>
  BY <1>1
<1>2. CASE todo = <<"start_ntp">>
  BY <1>2
<1>3. CASE todo = <<"bind_ctrl", "bind_timing">>
  BY <1>3
<1>4. CASE todo = <<"bind_timing">>
  BY <1>4
<1>5. CASE todo = <<"bind_ctrl">>
  BY <1>5
<1>6. CASE todo = <<"stop_mirror", "start_mirror">>
  BY <1>6
<1>7. CASE todo = <<"start_mirror">>
  BY <1>7
<1>8. CASE todo = <<"stop_audio", "start_audio">>
  BY <1>8
<1>9. CASE todo = <<"start_audio">>
  BY <1>9
<1>10. CASE todo = <<"stop_mirror", "synchronize", "close_mirror">>
  BY <1>10
<1>11. CASE todo = <<"synchronize", "close_mirror">>
  BY <1>11
<1>12. CASE todo = <<"close_mirror">>
  BY <1>12
<1>13. CASE todo = <<"stop_audio", "close_audio">>
  BY <1>13
<1>14. CASE todo = <<"close_audio">>
  BY <1>14
<1>15. CASE todo = <<"close_other">>
  BY <1>15
<1>16. CASE todo = TeardownScript
  BY <1>16
<1>17. CASE todo = <<"stop_audio", "stop_ntp", "drop_ntp", "close_own", "close_channels">>
  BY <1>17
<1>18. CASE todo = <<"stop_ntp", "drop_ntp", "close_own", "close_channels">>
  BY <1>18
<1>19. CASE todo = <<"drop_ntp", "close_own", "close_channels">>
  BY <1>19
<1>20. CASE todo = <<"close_own", "close_channels">>
  BY <1>20
<1>21. CASE todo = <<"close_channels">>
  BY <1>21
<1>22. todo # <<>>
  OBVIOUS
<1> QED
  BY <1>1, <1>2, <1>3, <1>4, <1>5, <1>6, <1>7, <1>8, <1>9, <1>10, <1>11, <1>12, <1>13, <1>14,
     <1>15, <1>16, <1>17, <1>18, <1>19, <1>20, <1>21, <1>22

\* What a step may do to one descriptor: nothing, leave it to nobody and not of
\* the session, or give it to one alone.
Kept(f) == sock'[f] = sock[f] /\ \A q \in Holders : Holds(q, f)' <=> Holds(q, f)
Freed(f) == sock'[f] \in {"free", "other"} /\ \A q \in Holders : ~Holds(q, f)'
Given(f, p) == sock'[f] \in Role[p] /\ \A q \in Holders : Holds(q, f)' <=> q = p

\* The channels keep their own sockets when no channel is added, or one whose
\* sockets no channel held.
Channelled ==
  \/ channels' \subseteq channels
  \/ \E new : /\ channels' = channels \cup {new}
              /\ \A ch \in channels : ch.socks \cap new.socks = {}

USE DEF Holders, Fields, Types

\* A step that does one of the three to every descriptor keeps what the holders
\* hold in its role, and everything with one owner.
LEMMA Passes ==
  ASSUME IInv, Channelled,
         \A f \in Fds : Kept(f) \/ Freed(f) \/ \E p \in Holders : Given(f, p)
  PROVE  RolesFit' /\ OneOwner'
<1>1. ASSUME NEW f \in Fds, NEW p \in Holders, Holds(p, f)' PROVE sock'[f] \in Role[p]
  BY <1>1 DEF IInv, RolesFit, Kept, Freed, Given
<1>2. ASSUME NEW f \in Fds
      PROVE  LET owners == Owners(f)'
             IN  IF sock'[f] \in Session THEN \E p \in owners : owners = {p} ELSE owners = {}
  <2>1. CASE Kept(f)
    <3>1. Owners(f)' = Owners(f)
      BY <2>1 DEF Owners, Kept
    <3> QED
      BY <2>1, <3>1 DEF IInv, OneOwner, Kept
  <2>2. CASE Freed(f)
    <3>1. Owners(f)' = {}
      BY <2>2 DEF Owners, Freed
    <3> QED
      BY <2>2, <3>1 DEF Freed, Session
  <2>3. ASSUME NEW p \in Holders, Given(f, p) PROVE Owners(f)' = {p} /\ sock'[f] \in Session
    BY <2>3 DEF Owners, Given, Role, Session
  <2> QED
    BY <1>2, <2>1, <2>2, <2>3
<1>3. \A ch, dh \in channels' : ch # dh => ch.socks \cap dh.socks = {}
  BY DEF IInv, OneOwner, Channelled
<1> QED
  BY <1>1, <1>2, <1>3 DEF RolesFit, OneOwner

\* A descriptor has one holder at most, it is what its holder takes it for, and a
\* free one has none.
LEMMA Held ==
  ASSUME IInv
  PROVE  /\ \A f \in Fds : \A p, q \in Holders : Holds(p, f) /\ Holds(q, f) => p = q
         /\ \A f \in Fds : \A p \in Holders : Holds(p, f) => sock[f] \in Role[p]
         /\ \A f \in Free : \A p \in Holders : ~Holds(p, f)
<1>1. \A f \in Fds : \A p, q \in Holders : Holds(p, f) /\ Holds(q, f) => p = q
  BY DEF IInv, OneOwner, Owners
<1>2. \A f \in Fds : \A p \in Holders : Holds(p, f) => sock[f] \in Session
  BY DEF IInv, OneOwner, Owners
<1> QED
  BY <1>1, <1>2 DEF IInv, RolesFit, Free, Session

\* What is borrowed stays what it is when its holder keeps it.
LEMMA Borrows ==
  ASSUME IInv, UNCHANGED ntp,
         audio' # None => /\ audio # None
                          /\ audio'.control = audio.control /\ audio'.clock = audio.clock
                          /\ \A f \in Fds : Holds("audio", f) => Holds("audio", f)',
         \A f \in Fds : Holds("ap2_timing", f) \/ Holds("lost", f) =>
                          /\ sock'[f] = sock[f]
                          /\ Holds("ap2_timing", f)' \/ Holds("lost", f)'
  PROVE  BorrowsFit'
  BY DEF IInv, BorrowsFit, TypeOK, Receivers, Clients

\* One of the session's sockets is bound, and the one before it is nobody's to
\* close from then on.
LEMMA Binds ==
  ASSUME IInv, NEW d \in Free, NEW x \in {"data", "ctrl", "timing"},
         sock' = Opened(d, x), own' = [own EXCEPT ![x] = d],
         lost' = lost \cup ({own[x]} \ {None}),
         UNCHANGED <<channels, mirror, audio, ntp, bound>>
  PROVE  /\ sock' \in [Fds -> Session \cup {"free", "other"}]
         /\ own' \in [Fields -> Known] /\ lost' \subseteq Fds
         /\ own'["ap2_timing"] = own["ap2_timing"]
         /\ RolesFit' /\ OneOwner' /\ BorrowsFit'
<1> USE SessionAssumption
<1>1. /\ sock' \in [Fds -> Session \cup {"free", "other"}]
      /\ own' \in [Fields -> Known] /\ lost' \subseteq Fds
      /\ own'["ap2_timing"] = own["ap2_timing"]
      /\ d \in Fds /\ own \in [Fields -> Known]
  BY DEF IInv, TypeOK, Opened, Session, Known, Free
<1>2. \A p \in Holders : ~Holds(p, d)
  BY Held
<1>3. Given(d, x)
  BY <1>1, <1>2 DEF Given, Holds, Opened, IInv, TypeOK, Role, Known
<1>4. ASSUME NEW g \in Fds \ {d}, g # own[x] PROVE Kept(g)
  BY <1>1, <1>4 DEF Kept, Holds, Opened, IInv, TypeOK
<1>5. ASSUME NEW g \in Fds \ {d}, g = own[x] PROVE Given(g, "lost")
  <2>1. Holds(x, g)
    BY <1>5 DEF Holds
  <2>2. sock[g] \in Role["lost"] /\ \A q \in Holders \ {x} : ~Holds(q, g)
    BY <2>1, Held DEF Role, Session
  <2>3. \A q \in Holders : Holds(q, g)' <=> q = "lost"
    BY <1>1, <1>5, <2>2 DEF Holds, IInv, TypeOK
  <2>4. sock'[g] = sock[g]
    BY DEF Opened, IInv, TypeOK
  <2> QED
    BY <2>2, <2>3, <2>4 DEF Given
<1>6. RolesFit' /\ OneOwner'
  BY <1>3, <1>4, <1>5, Passes DEF Channelled
<1>7. ASSUME NEW g \in Fds, Holds("audio", g) \/ Holds("ap2_timing", g) \/ Holds("lost", g)
      PROVE  Kept(g)
  <2>1. g # d
    BY <1>2, <1>7
  <2>2. g # own[x]
    BY <1>7, Held DEF Holds
  <2> QED
    BY <1>4, <2>1, <2>2
<1>8. BorrowsFit'
  BY <1>7, Borrows DEF Kept
<1> QED
  BY <1>1, <1>6, <1>8

\* What is left of a request after a step fits when the step that ends the
\* listener, the receiver or the client has ended it.
LEMMA Scripts ==
  ASSUME IInv, NEW step, Now(step), Done,
         \/ mirror' = None
         \/ step # "stop_mirror" /\ mirror # None
         \/ step = "start_mirror",
         \/ audio' = None
         \/ step # "stop_audio" /\ audio # None
         \/ step = "start_audio",
         \/ ntp' = None
         \/ step # "drop_ntp" /\ ntp # None
         \/ step = "start_ntp",
         IF step = "start_audio" THEN bound' = <<>> ELSE bound' = bound,
         step # "close_own" => own'["ap2_timing"] = own["ap2_timing"]
  PROVE  ScriptFits'
<1>1. todo \in Rests
  BY DEF IInv, ScriptFits
<1>2. todo' \in NoListener => mirror' = None
  BY <1>1, Took DEF IInv, ScriptFits
<1>3. todo' \in NoReceiver => audio' = None
  BY <1>1, Took DEF IInv, ScriptFits
<1>4. todo' \in NoClient => ntp' = None
  BY <1>1, Took DEF IInv, ScriptFits
<1>5. todo' \in Bound <=> bound' # <<>>
  BY <1>1, Took DEF IInv, ScriptFits
<1>6. todo' \in Timed => own'["ap2_timing"] # None
  BY <1>1, Took DEF IInv, ScriptFits
<1> QED
  BY <1>1, <1>2, <1>3, <1>4, <1>5, <1>6, Took DEF ScriptFits

\* What the threads borrow, and who is to close a socket, fits from the start and
\* after every step of the phone's requests, of the threads and of the process.
LEMMA Invariance == Spec => []IInv
\* nullptr is no listener, no receiver and no client.
<1>1. None \notin Listeners \cup Receivers \cup Clients
  BY DEF None, Listeners, Receivers, Clients
\* The steps of the mirror's, the audio's and the NTP client's threads, and what
\* the rest of the process opens and closes, keep the invariant.
<1>2. IInv /\ (Threads \/ Others) => IInv'
  <2> SUFFICES ASSUME IInv, Threads \/ Others PROVE IInv'
    OBVIOUS
  <2> USE SessionAssumption, <1>1
  <2>1. UNCHANGED <<own, channels, bound, lost, todo, requests>>
    BY DEF Threads, MirrorLoops, MirrorWaits, MirrorAccepts, MirrorKeeps, MirrorReads, MirrorCloses,
           MirrorOnly, AudioLeaves, NtpResolves, NtpLeaves, NtpOnly, Others, OthersOpen, OthersClose
  <2>2. ASSUME UNCHANGED sock,
               UNCHANGED mirror \/ /\ mirror # None /\ mirror' \in Listeners
                                   /\ mirror'.listener = mirror.listener
                                   /\ mirror'.held = mirror.held
                                   /\ HeldFits',
               UNCHANGED audio \/ /\ audio # None /\ audio' \in Receivers
                                  /\ audio'.data = audio.data /\ audio'.control = audio.control
                                  /\ audio'.clock = audio.clock,
               UNCHANGED ntp \/ (ntp # None /\ ntp' \in Clients /\ ntp'.sock = ntp.sock)
        PROVE  IInv'
    <3>1. \A f \in Fds, p \in Holders : Holds(p, f)' <=> Holds(p, f)
      BY <2>1, <2>2 DEF Holds
    <3>2. RolesFit' /\ OneOwner'
      BY <2>1, <2>2, <3>1, Passes DEF Kept, Channelled
    <3>3. TypeOK'
      BY <2>1, <2>2 DEF IInv, TypeOK
    <3>4. BorrowsFit'
      BY <2>2, <3>1 DEF IInv, BorrowsFit, TypeOK, Receivers, Clients
    <3>5. ScriptFits' /\ HeldFits'
      BY <2>1, <2>2 DEF IInv, ScriptFits, HeldFits
    <3> QED
      BY <3>2, <3>3, <3>4, <3>5 DEF IInv
  <2>3. CASE MirrorLoops \/ MirrorWaits \/ MirrorReads
    <3>1. mirror \in Listeners /\ UNCHANGED <<sock, audio, ntp>>
      BY <2>3 DEF MirrorLoops, MirrorWaits, MirrorReads, MirrorOnly, Mirror, IInv, TypeOK
    <3>2. /\ mirror' \in Listeners
          /\ mirror'.listener = mirror.listener /\ mirror'.held = mirror.held /\ HeldFits'
      BY <2>3, <3>1 DEF MirrorLoops, MirrorWaits, MirrorReads, Mirror, Listeners, IInv, HeldFits
    <3> QED
      BY <2>2, <3>1, <3>2
  <2>4. ASSUME NEW t \in {"receive", "playout"}, AudioLeaves(t) PROVE IInv'
    <3>1. audio \in Receivers /\ audio' = [audio EXCEPT !.threads = @ \ {t}]
      BY <2>4 DEF AudioLeaves, IInv, TypeOK
    <3>2. /\ audio' \in Receivers /\ audio'.clock = audio.clock
          /\ audio'.data = audio.data /\ audio'.control = audio.control
      BY <3>1 DEF Receivers
    <3> QED
      BY <2>2, <2>4, <3>1, <3>2 DEF AudioLeaves
  <2>5. CASE NtpResolves \/ NtpLeaves
    <3>1. ntp \in Clients /\ UNCHANGED <<sock, mirror, audio>>
      BY <2>5 DEF NtpResolves, NtpLeaves, NtpOnly, IInv, TypeOK
    <3>2. ntp' \in Clients /\ ntp'.sock = ntp.sock
      BY <2>5, <3>1 DEF NtpResolves, NtpLeaves, Clients
    <3> QED
      BY <2>2, <3>1, <3>2
  <2>6. ASSUME MirrorAccepts PROVE IInv'
    <3>1. PICK f \in Free : /\ sock' = Opened(f, "client")
                            /\ mirror' = [mirror EXCEPT !.at = "accepted", !.held = f]
      BY <2>6 DEF MirrorAccepts
    <3>2. /\ mirror \in Listeners /\ mirror.held = None /\ f \in Fds /\ sock[f] = "free"
          /\ UNCHANGED <<audio, ntp>>
      BY <2>6, <3>1 DEF MirrorAccepts, Mirror, MirrorOnly, IInv, TypeOK, HeldFits, Free
    <3>3. /\ mirror' \in Listeners /\ mirror'.listener = mirror.listener /\ mirror'.held = f
          /\ mirror'.at = "accepted"
      BY <3>1, <3>2 DEF Listeners, Known
    <3>4. TypeOK'
      BY <2>1, <3>1, <3>2, <3>3 DEF IInv, TypeOK, Opened, Session
    <3>5. /\ \A g \in Fds \ {f} : Kept(g)
          /\ Given(f, "client")
      <4>1. "client" \notin Fields /\ \A ch \in channels : ch.type # "client"
        BY DEF Fields, Types, IInv, TypeOK
      <4>2. \A g \in Fds, q \in Holders : Holds(q, g)' <=> IF q = "client" THEN g = f
                                                             ELSE Holds(q, g)
        BY <2>1, <3>1, <3>2, <3>3, <4>1 DEF Holds
      <4>3. \A g \in Fds : ~Holds("client", g)
        BY <3>2, <4>1 DEF Holds
      <4>4. f \in Free /\ sock'[f] = "client" /\ \A g \in Fds \ {f} : sock'[g] = sock[g]
        BY <3>1, <3>2 DEF Opened, IInv, TypeOK, Free
      <4>5. \A q \in Holders : ~Holds(q, f)
        BY <4>4, Held
      <4> QED
        BY <3>2, <4>2, <4>3, <4>4, <4>5 DEF Kept, Given, Role
    <3>6. RolesFit' /\ OneOwner'
      BY <2>1, <3>5, Passes DEF Channelled
    <3>7. BorrowsFit'
      BY <3>1, <3>2, <3>5, Held DEF IInv, BorrowsFit, TypeOK, Receivers, Clients, Kept, Free
    <3>8. ScriptFits' /\ HeldFits'
      BY <2>1, <3>2, <3>3 DEF IInv, ScriptFits, HeldFits
    <3> QED
      BY <3>4, <3>6, <3>7, <3>8 DEF IInv
  <2>7. ASSUME UNCHANGED <<audio, ntp>>, mirror \in Listeners, mirror' \in Listeners,
               mirror'.listener = mirror.listener, mirror'.held = None,
               sock' = Close({mirror.held})
        PROVE  IInv'
    <3>1. TypeOK'
      BY <2>1, <2>7 DEF IInv, TypeOK, Close
    <3>2. \A g \in Fds : IF g = mirror.held THEN Freed(g) ELSE Kept(g)
      <4>1. "client" \notin Fields /\ \A ch \in channels : ch.type # "client"
        BY DEF Fields, Types, IInv, TypeOK
      <4>2. \A g \in Fds, q \in Holders : Holds(q, g)' <=> q # "client" /\ Holds(q, g)
        BY <2>1, <2>7, <4>1 DEF Holds
      <4>3. \A g \in Fds : Holds("client", g) <=> g = mirror.held
        BY <2>7, <4>1 DEF Holds
      <4>4. \A g \in Fds : sock'[g] = IF g = mirror.held THEN "free" ELSE sock[g]
        BY <2>7 DEF Close, IInv, TypeOK
      <4>5. \A g \in Fds, q \in Holders : Holds("client", g) /\ Holds(q, g) => q = "client"
        BY Held DEF Holders
      <4> QED
        BY <4>2, <4>3, <4>4, <4>5 DEF Kept, Freed
    <3>3. RolesFit' /\ OneOwner'
      BY <2>1, <3>2, Passes DEF Channelled
    <3>4. BorrowsFit'
      <4>1. mirror.held # None => Holds("client", mirror.held) /\ mirror.held \in Fds
        BY <2>7 DEF Holds, Listeners, Known
      <4> QED
        BY <2>7, <3>2, <4>1, Held DEF IInv, BorrowsFit, TypeOK, Receivers, Clients, Kept
    <3>5. ScriptFits' /\ HeldFits'
      BY <2>1, <2>7 DEF IInv, ScriptFits, HeldFits
    <3> QED
      BY <3>1, <3>3, <3>4, <3>5 DEF IInv
  <2>8. CASE MirrorKeeps
    <3>1. CASE mirror.running
      <4>1. mirror \in Listeners /\ UNCHANGED <<sock, audio, ntp>>
        BY <2>8, <3>1 DEF MirrorKeeps, Mirror, MirrorOnly, IInv, TypeOK
      <4>2. /\ mirror' \in Listeners
            /\ mirror'.listener = mirror.listener /\ mirror'.held = mirror.held /\ HeldFits'
        BY <2>8, <3>1, <4>1 DEF MirrorKeeps, Listeners, IInv, HeldFits
      <4> QED
        BY <2>2, <4>1, <4>2
    <3>2. CASE ~mirror.running
      <4>1. mirror \in Listeners /\ UNCHANGED <<audio, ntp>>
        BY <2>8 DEF MirrorKeeps, Mirror, MirrorOnly, IInv, TypeOK
      <4>2. /\ mirror' \in Listeners /\ mirror'.listener = mirror.listener /\ mirror'.held = None
            /\ sock' = Close({mirror.held})
        BY <2>8, <3>2, <4>1 DEF MirrorKeeps, Listeners, Known
      <4> QED
        BY <2>7, <4>1, <4>2
    <3> QED
      BY <3>1, <3>2
  <2>9. CASE MirrorCloses
    <3>1. /\ mirror \in Listeners /\ UNCHANGED <<audio, ntp>>
          /\ sock' = Close({mirror.held})
      BY <2>9 DEF MirrorCloses, Mirror, MirrorOnly, IInv, TypeOK
    <3>2. /\ Forgotten(mirror) \in Listeners /\ Forgotten(mirror).listener = mirror.listener
          /\ Forgotten(mirror).held = None
      BY <3>1 DEF Forgotten, Listeners, Known
    <3>3. mirror' \in Listeners /\ mirror'.listener = mirror.listener /\ mirror'.held = None
      BY <2>9, <3>2 DEF MirrorCloses, Listeners
    <3> QED
      BY <2>7, <3>1, <3>3
  <2>10. ASSUME NEW f \in Fds, OthersOpen(f) \/ OthersClose(f) PROVE IInv'
    <3>1. /\ sock[f] \in {"free", "other"} /\ sock'[f] \in {"free", "other"}
          /\ sock' \in [Fds -> Session \cup {"free", "other"}]
          /\ \A g \in Fds \ {f} : sock'[g] = sock[g]
          /\ UNCHANGED <<mirror, audio, ntp>>
      BY <2>10 DEF OthersOpen, OthersClose, Opened, Close, IInv, TypeOK
    <3>2. TypeOK'
      BY <2>1, <3>1 DEF IInv, TypeOK
    <3>3. \A g \in Fds, p \in Holders : Holds(p, g)' <=> Holds(p, g)
      BY <2>1, <3>1 DEF Holds
    <3>4. \A p \in Holders : ~Holds(p, f)
      BY <3>1, Held DEF Role, Session
    <3>5. RolesFit' /\ OneOwner'
      BY <2>1, <3>1, <3>3, <3>4, Passes DEF Kept, Freed, Channelled
    <3>6. BorrowsFit' /\ ScriptFits' /\ HeldFits'
      BY <2>1, <3>1, <3>3, <3>4
         DEF IInv, BorrowsFit, TypeOK, Receivers, Clients, ScriptFits, HeldFits
    <3> QED
      BY <3>2, <3>5, <3>6 DEF IInv
  <2> QED
    BY <2>3, <2>4, <2>5, <2>6, <2>8, <2>9, <2>10 DEF Threads, Others
\* A request begins; a second SETUP writes over what the first one bound.
<1>3. IInv /\ Requested => IInv'
  <2> SUFFICES ASSUME IInv, Requested PROVE IInv'
    OBVIOUS
  <2> USE SessionAssumption, <1>1
  <2>1. /\ todo = <<>> /\ bound = <<>> /\ UNCHANGED <<mirror, audio, ntp>>
        /\ requests' \in 0..Requests
    <3>1. todo = <<>> /\ UNCHANGED <<mirror, audio, ntp>> /\ requests' = requests + 1
          /\ requests < Requests
      BY DEF Requested, Request, SetupSession, SetupLegacy, SetupMirror, SetupAudio, SetupOther,
             Teardown, StopStream
    <3> QED
      BY <3>1 DEF IInv, TypeOK, ScriptFits, Bound
  <2>2. HeldFits'
    BY <2>1 DEF IInv, HeldFits
  <2>3. ASSUME NEW f \in Free
        PROVE  f \in Fds /\ sock[f] = "free" /\ \A p \in Holders : ~Holds(p, f)
    BY Held DEF Free
  <2>4. CASE SetupSession
    <3>1. PICK e \in Free, t \in Free :
             /\ e # t
             /\ sock' = Open2(e, "event", t, "timing")
             /\ own' = [own EXCEPT !["event"] = e, !["ap2_timing"] = t]
             /\ lost' = lost \cup ({own["event"], own["ap2_timing"]} \ {None})
      BY <2>4 DEF SetupSession
    <3>2. /\ UNCHANGED <<channels, bound>> /\ todo' \in {<<>>, <<"stop_ntp", "start_ntp">>}
          /\ e \in Fds /\ t \in Fds
      BY <2>3, <2>4 DEF SetupSession
    <3>3. TypeOK'
      BY <2>1, <3>1, <3>2 DEF IInv, TypeOK, Open2, Session, Known
    <3>4. Given(e, "event") /\ Given(t, "ap2_timing")
      BY <2>1, <2>3, <3>1, <3>2 DEF Given, Holds, Open2, IInv, TypeOK, Role, Known
    <3>5. ASSUME NEW g \in Fds \ {e, t}
          PROVE  IF g \in {own["event"], own["ap2_timing"]} THEN Given(g, "lost") ELSE Kept(g)
      <4>1. sock'[g] = sock[g] /\ g # None
        BY <3>1 DEF Open2, IInv, TypeOK
      <4>2. CASE g \notin {own["event"], own["ap2_timing"]}
        BY <2>1, <3>1, <3>2, <4>1, <4>2 DEF Kept, Holds, IInv, TypeOK
      <4>3. CASE g \in {own["event"], own["ap2_timing"]}
        <5>1. Holds("event", g) \/ Holds("ap2_timing", g)
          BY <4>3 DEF Holds
        <5>2. /\ sock[g] \in Role["lost"]
              /\ \A q \in Holders \ {"event", "ap2_timing"} : ~Holds(q, g)
          BY <5>1, Held DEF Role, Session
        <5>3. \A q \in Holders : Holds(q, g)' <=> q = "lost"
          BY <2>1, <3>1, <3>2, <4>1, <4>3, <5>2 DEF Holds, IInv, TypeOK
        <5> QED
          BY <4>1, <4>3, <5>2, <5>3 DEF Given
      <4> QED
        BY <4>2, <4>3
    <3>6. RolesFit' /\ OneOwner'
      BY <3>2, <3>4, <3>5, Passes DEF Channelled
    <3>7. BorrowsFit'
      <4>1. ASSUME NEW g \in Fds, Holds("audio", g) PROVE Kept(g)
        <5>1. g \notin {e, t}
          BY <2>3, <4>1
        <5>2. g \notin {own["event"], own["ap2_timing"]}
          BY <4>1, Held DEF Holds
        <5> QED
          BY <3>5, <5>1, <5>2
      <4>2. ASSUME NEW g \in Fds, Holds("ap2_timing", g) \/ Holds("lost", g)
            PROVE  Kept(g) \/ Given(g, "lost")
        BY <2>3, <3>5, <4>2
      <4>3. ASSUME NEW g \in Fds, sock[g] = "timing" PROVE sock'[g] = sock[g]
        BY <2>3, <3>1, <4>3 DEF Open2, IInv, TypeOK
      <4>4. (audio # None => Holds("audio", audio.control) /\ (audio.clock => ntp # None))'
        BY <2>1, <4>1 DEF IInv, BorrowsFit, TypeOK, Receivers, Kept
      <4>5. (ntp # None => /\ sock[ntp.sock] = "timing"
                           /\ Holds("ap2_timing", ntp.sock) \/ Holds("lost", ntp.sock))'
        BY <2>1, <4>2, <4>3 DEF IInv, BorrowsFit, TypeOK, Clients, Kept, Given
      <4> QED
        BY <4>4, <4>5 DEF BorrowsFit
    <3>8. ScriptFits'
      <4>1. todo' \in Rests /\ todo' \notin NoListener \cup NoReceiver \cup NoClient \cup Bound
        BY <3>2 DEF Rests, Whole, Ending, Bound, Timed, NoClient, NoReceiver, NoListener
      <4>2. own'["ap2_timing"] # None
        BY <3>1, <3>2 DEF IInv, TypeOK
      <4> QED
        BY <2>1, <3>2, <4>1, <4>2 DEF ScriptFits
    <3> QED
      BY <2>2, <3>3, <3>6, <3>7, <3>8 DEF IInv
  <2>5. CASE SetupLegacy
    <3>1. PICK d \in Free : /\ sock' = Opened(d, "data") /\ own' = [own EXCEPT !["data"] = d]
                            /\ lost' = lost \cup ({own["data"]} \ {None})
      BY <2>5 DEF SetupLegacy
    <3>2. /\ UNCHANGED <<channels, bound>>
          /\ todo' \in {<<>>, <<"bind_ctrl">>, <<"bind_timing">>, <<"bind_ctrl", "bind_timing">>}
      BY <2>5 DEF SetupLegacy
    <3>3. /\ sock' \in [Fds -> Session \cup {"free", "other"}]
          /\ own' \in [Fields -> Known] /\ lost' \subseteq Fds
          /\ RolesFit' /\ OneOwner' /\ BorrowsFit'
      BY <2>1, <3>1, <3>2, Binds
    <3>4. TypeOK'
      BY <2>1, <3>2, <3>3 DEF IInv, TypeOK
    <3>5. /\ todo' \in Rests
          /\ todo' \notin NoListener \cup NoReceiver \cup NoClient \cup Bound \cup Timed
      BY <3>2 DEF Rests, Whole, Ending, Bound, Timed, NoClient, NoReceiver, NoListener
    <3> QED
      BY <2>1, <2>2, <3>2, <3>3, <3>4, <3>5 DEF IInv, ScriptFits
  <2>6. CASE SetupMirror \/ Teardown \/ \E type \in Types : StopStream(type)
    <3>1. UNCHANGED <<sock, own, channels, bound, lost>>
      BY <2>6 DEF SetupMirror, Teardown, StopStream
    <3>2. todo' \in {<<"stop_mirror", "start_mirror">>, TeardownScript,
                     <<"stop_mirror", "synchronize", "close_mirror">>, <<"close_mirror">>,
                     <<"stop_audio", "close_audio">>, <<"close_other">>}
      BY <2>6 DEF SetupMirror, Teardown, StopStream, StopScript
    <3>3. /\ todo' \in Rests
          /\ todo' \notin NoListener \cup NoReceiver \cup NoClient \cup Bound \cup Timed
      <4>1. TeardownScript \notin NoListener \cup NoReceiver \cup NoClient \cup Bound \cup Timed
        BY DEF TeardownScript, Ending, Bound, Timed, NoClient, NoReceiver, NoListener
      <4>2. CASE todo' = TeardownScript
        BY <4>1, <4>2 DEF Rests, Whole
      <4>3. CASE todo' # TeardownScript
        BY <3>2, <4>3 DEF Rests, Whole, Ending, Bound, Timed, NoClient, NoReceiver, NoListener
      <4> QED
        BY <4>2, <4>3
    <3>4. \A g \in Fds, p \in Holders : Holds(p, g)' <=> Holds(p, g)
      BY <2>1, <3>1 DEF Holds
    <3>5. RolesFit' /\ OneOwner'
      BY <3>1, <3>4, Passes DEF Kept, Channelled
    <3>6. BorrowsFit'
      BY <2>1, <3>1, <3>4, Borrows
    <3>7. TypeOK'
      BY <2>1, <3>1 DEF IInv, TypeOK
    <3> QED
      BY <2>1, <2>2, <3>1, <3>3, <3>5, <3>6, <3>7 DEF IInv, ScriptFits
  <2>7. CASE SetupAudio
    <3>1. PICK d \in Free, c \in Free : /\ d # c /\ sock' = Open2(d, "data", c, "ctrl")
                                        /\ bound' = <<d, c>>
      BY <2>7 DEF SetupAudio
    <3>2. /\ UNCHANGED <<own, channels, lost>> /\ todo' = <<"stop_audio", "start_audio">>
          /\ d \in Fds /\ c \in Fds
      BY <2>3, <2>7 DEF SetupAudio
    <3>3. TypeOK'
      BY <2>1, <3>1, <3>2 DEF IInv, TypeOK, Open2, Session
    <3>4. bound' # <<>> /\ bound'[1] = d /\ bound'[2] = c
      BY <3>1
    <3>5. Given(d, "bound_data") /\ Given(c, "bound_ctrl")
      BY <2>1, <2>3, <3>1, <3>2, <3>4 DEF Given, Holds, Open2, IInv, TypeOK, Role
    <3>6. ASSUME NEW g \in Fds \ {d, c} PROVE Kept(g)
      BY <2>1, <3>1, <3>2, <3>4 DEF Kept, Holds, Open2, IInv, TypeOK
    <3>7. RolesFit' /\ OneOwner'
      BY <3>2, <3>5, <3>6, Passes DEF Channelled
    <3>8. BorrowsFit'
      BY <2>1, <2>3, <3>6, Borrows DEF Kept
    <3>9. ScriptFits'
      <4>1. /\ todo' \in Rests /\ todo' \in Bound
            /\ todo' \notin NoListener \cup NoReceiver \cup NoClient \cup Timed
        BY <3>2 DEF Rests, Whole, Ending, Bound, Timed, NoClient, NoReceiver, NoListener
      <4> QED
        BY <3>4, <4>1 DEF ScriptFits
    <3> QED
      BY <2>2, <3>3, <3>7, <3>8, <3>9 DEF IInv
  <2>8. CASE SetupOther
    <3>1. PICK d \in Free, c \in Free :
             /\ d # c /\ sock' = Open2(d, "data", c, "ctrl")
             /\ channels' = channels \cup {[type |-> "other", socks |-> {d, c}]}
      BY <2>8 DEF SetupOther
    <3>2. UNCHANGED <<own, todo, bound, lost>> /\ d \in Fds /\ c \in Fds
      BY <2>3, <2>8 DEF SetupOther
    <3>3. TypeOK'
      BY <2>1, <3>1, <3>2 DEF IInv, TypeOK, Open2, Session
    <3>4. \A ch \in channels : d \notin ch.socks /\ c \notin ch.socks
      BY <2>3, <3>2 DEF Holds, IInv, TypeOK
    <3>5. ASSUME NEW g \in {d, c} PROVE Given(g, "other")
      <4>1. sock'[g] \in Role["other"]
        BY <3>1, <3>2 DEF Open2, IInv, TypeOK, Role
      <4>2. \A q \in Holders : ~Holds(q, g)
        BY <2>3
      <4> DEFINE new == [type |-> "other", socks |-> {d, c}]
      <4>3. \A q : (\E ch \in channels' : ch.type = q /\ g \in ch.socks) <=> q = "other"
        <5>1. new.type = "other" /\ g \in new.socks
          OBVIOUS
        <5>2. new \in channels' /\ \A ch \in channels' : ch = new \/ g \notin ch.socks
          BY <3>1, <3>4
        <5> HIDE DEF new
        <5> QED
          BY <5>1, <5>2
      <4>4. \A q \in Holders : Holds(q, g)' <=> q = "other"
        BY <2>1, <3>2, <4>2, <4>3 DEF Holds, IInv, TypeOK
      <4> QED
        BY <4>1, <4>4 DEF Given
    <3>6. ASSUME NEW g \in Fds \ {d, c} PROVE Kept(g)
      BY <2>1, <3>1, <3>2 DEF Kept, Holds, Open2, IInv, TypeOK
    <3>7. Channelled
      <4> DEFINE new == [type |-> "other", socks |-> {d, c}]
      <4>1. new.socks = {d, c}
        OBVIOUS
      <4>2. \A ch \in channels : ch.socks \cap new.socks = {}
        BY <3>4, <4>1
      <4> QED
        BY <3>1, <4>2 DEF Channelled
    <3>8. RolesFit' /\ OneOwner'
      BY <3>5, <3>6, <3>7, Passes
    <3>9. BorrowsFit'
      BY <2>1, <2>3, <3>6, Borrows DEF Kept
    <3>10. ScriptFits'
      BY <2>1, <3>2 DEF IInv, ScriptFits
    <3> QED
      BY <2>2, <3>3, <3>8, <3>9, <3>10 DEF IInv
  <2> QED
    BY <2>4, <2>5, <2>6, <2>7, <2>8 DEF Requested
\* The steps of the control thread keep the invariant: a stop that does nothing, one
\* that raises the flag, the join and its close, a start, a close.
<1>4. IInv /\ Control => IInv'
  <2> SUFFICES ASSUME IInv, Control PROVE IInv'
    OBVIOUS
  <2> USE SessionAssumption, <1>1
  <2>1. /\ todo \in Rests /\ mirror \in Listeners \cup {None}
        /\ audio \in Receivers \cup {None} /\ ntp \in Clients \cup {None}
    BY DEF IInv, ScriptFits, TypeOK
  <2>2. ASSUME UNCHANGED <<sock, own, channels, bound, lost, requests>>,
               mirror' \in Listeners \cup {None}, audio' \in Receivers \cup {None},
               ntp' \in Clients \cup {None},
               IF mirror = None THEN mirror' = None
               ELSE /\ mirror' # None
                    /\ mirror'.listener = mirror.listener /\ mirror'.held = mirror.held,
               IF audio = None THEN audio' = None
               ELSE /\ audio' # None /\ audio'.data = audio.data
                    /\ audio'.control = audio.control /\ audio'.clock = audio.clock
        PROVE  /\ TypeOK' /\ RolesFit' /\ OneOwner'
               /\ \A g \in Fds, p \in Holders : Holds(p, g)' <=> Holds(p, g)
    <3>1. \A g \in Fds, p \in Holders : Holds(p, g)' <=> Holds(p, g)
      BY <2>2 DEF Holds
    <3>2. RolesFit' /\ OneOwner'
      BY <2>2, <3>1, Passes DEF Kept, Channelled
    <3>3. TypeOK'
      BY <2>2 DEF IInv, TypeOK
    <3> QED
      BY <3>1, <3>2, <3>3
  <2>3. CASE \/ Skips("stop_mirror", mirror) \/ Skips("stop_audio", audio) \/ Skips("stop_ntp", ntp)
             \/ NtpStopped
    <3>1. UNCHANGED <<sock, own, channels, mirror, audio, ntp, bound, lost, requests>>
      BY <2>3 DEF Skips, NtpStopped
    <3>2. /\ TypeOK' /\ RolesFit' /\ OneOwner'
          /\ \A g \in Fds, p \in Holders : Holds(p, g)' <=> Holds(p, g)
      BY <2>1, <2>2, <3>1
    <3>3. BorrowsFit' /\ HeldFits'
      BY <3>1, <3>2, Borrows DEF IInv, HeldFits
    <3>4. ScriptFits'
      <4>1. CASE Skips("stop_mirror", mirror)
        BY <3>1, <4>1, Scripts DEF Skips
      <4>2. CASE Skips("stop_audio", audio)
        BY <3>1, <4>2, Scripts DEF Skips
      <4>3. CASE Skips("stop_ntp", ntp) \/ NtpStopped
        BY <3>1, <4>3, Scripts DEF Skips, NtpStopped
      <4> QED
        BY <2>3, <4>1, <4>2, <4>3
    <3> QED
      BY <3>2, <3>3, <3>4 DEF IInv
  <2>4. CASE StopsMirror
    <3>1. /\ mirror \in Listeners /\ UNCHANGED <<audio, ntp, todo>>
          /\ UNCHANGED <<sock, own, channels, bound, lost, requests>>
      BY <2>1, <2>4 DEF StopsMirror
    <3>2. /\ mirror' \in Listeners /\ mirror'.listener = mirror.listener
          /\ mirror'.held = mirror.held /\ mirror'.at = mirror.at
      BY <2>4, <3>1 DEF StopsMirror, Listeners
    <3>3. /\ TypeOK' /\ RolesFit' /\ OneOwner'
          /\ \A g \in Fds, p \in Holders : Holds(p, g)' <=> Holds(p, g)
      BY <2>1, <2>2, <3>1, <3>2
    <3>4. BorrowsFit' /\ HeldFits' /\ ScriptFits'
      BY <3>1, <3>2, <3>3, Borrows DEF IInv, HeldFits, ScriptFits
    <3> QED
      BY <3>3, <3>4 DEF IInv
  <2>5. CASE StopsAudio
    <3>1. /\ audio \in Receivers /\ UNCHANGED <<mirror, ntp, todo>>
          /\ UNCHANGED <<sock, own, channels, bound, lost, requests>>
      BY <2>1, <2>5 DEF StopsAudio
    <3>2. /\ audio' \in Receivers /\ audio'.data = audio.data
          /\ audio'.control = audio.control /\ audio'.clock = audio.clock
      BY <2>5, <3>1 DEF StopsAudio, Receivers
    <3>3. /\ TypeOK' /\ RolesFit' /\ OneOwner'
          /\ \A g \in Fds, p \in Holders : Holds(p, g)' <=> Holds(p, g)
      BY <2>1, <2>2, <3>1, <3>2
    <3>4. BorrowsFit' /\ HeldFits' /\ ScriptFits'
      BY <3>1, <3>2, <3>3, Borrows DEF IInv, HeldFits, ScriptFits
    <3> QED
      BY <3>3, <3>4 DEF IInv
  <2>6. CASE StopsNtp
    <3>1. /\ ntp \in Clients /\ UNCHANGED <<mirror, audio, todo>>
          /\ UNCHANGED <<sock, own, channels, bound, lost, requests>>
      BY <2>1, <2>6 DEF StopsNtp
    <3>2. ntp' \in Clients /\ ntp'.sock = ntp.sock
      BY <2>6, <3>1 DEF StopsNtp, Clients
    <3>3. /\ TypeOK' /\ RolesFit' /\ OneOwner'
          /\ \A g \in Fds, p \in Holders : Holds(p, g)' <=> Holds(p, g)
      BY <2>1, <2>2, <3>1, <3>2
    <3>4. BorrowsFit'
      BY <3>1, <3>2, <3>3 DEF IInv, BorrowsFit, TypeOK, Receivers, Clients
    <3>5. HeldFits' /\ ScriptFits'
      BY <3>1, <3>2 DEF IInv, HeldFits, ScriptFits
    <3> QED
      BY <3>3, <3>4, <3>5 DEF IInv
  <2>7. CASE Synchronizes
    <3>1. /\ Now("synchronize") /\ Done /\ UNCHANGED <<mirror, ntp>>
          /\ UNCHANGED <<sock, own, channels, bound, lost, requests>>
      BY <2>7 DEF Synchronizes
    <3>2. IF audio = None THEN audio' = None
          ELSE /\ audio' \in Receivers /\ audio'.data = audio.data
               /\ audio'.control = audio.control /\ audio'.clock = audio.clock
      BY <2>1, <2>7 DEF Synchronizes, Receivers
    <3>3. /\ TypeOK' /\ RolesFit' /\ OneOwner'
          /\ \A g \in Fds, p \in Holders : Holds(p, g)' <=> Holds(p, g)
      BY <2>1, <2>2, <3>1, <3>2
    <3>4. BorrowsFit' /\ HeldFits'
      BY <3>1, <3>2, <3>3, Borrows DEF IInv, HeldFits
    <3>5. ScriptFits'
      BY <3>1, <3>2, Scripts
    <3> QED
      BY <3>3, <3>4, <3>5 DEF IInv
  <2>8. CASE StartsNtp
    <3>1. /\ Now("start_ntp") /\ Done /\ UNCHANGED <<mirror, audio>>
          /\ UNCHANGED <<sock, own, channels, bound, lost, requests>>
          /\ ntp' = [running |-> TRUE, at |-> "resolves", sock |-> own["ap2_timing"]]
      BY <2>8 DEF StartsNtp
    <3>2. own["ap2_timing"] \in Fds
      BY <2>1, <3>1, Took DEF IInv, ScriptFits, TypeOK, Known
    <3>3. ntp' \in Clients /\ ntp'.sock = own["ap2_timing"]
      BY <3>1, <3>2 DEF Clients
    <3>4. /\ TypeOK' /\ RolesFit' /\ OneOwner'
          /\ \A g \in Fds, p \in Holders : Holds(p, g)' <=> Holds(p, g)
      BY <2>1, <2>2, <3>1, <3>3
    <3>5. Holds("ap2_timing", own["ap2_timing"]) /\ sock[own["ap2_timing"]] = "timing"
      <4>1. Holds("ap2_timing", own["ap2_timing"])
        BY DEF Holds
      <4> QED
        BY <3>2, <4>1, Held DEF Role
    <3>6. BorrowsFit'
      BY <3>1, <3>2, <3>3, <3>4, <3>5 DEF IInv, BorrowsFit, TypeOK, Receivers
    <3>7. HeldFits' /\ ScriptFits'
      BY <3>1, Scripts DEF IInv, HeldFits
    <3> QED
      BY <3>4, <3>6, <3>7 DEF IInv
  <2>9. CASE DropsNtp
    <3>1. /\ Now("drop_ntp") /\ Done /\ ntp' = None /\ UNCHANGED <<mirror, audio>>
          /\ UNCHANGED <<sock, own, channels, bound, lost, requests>>
      BY <2>9 DEF DropsNtp
    <3>2. audio = None
      BY <2>1, <3>1, Took DEF IInv, ScriptFits
    <3>3. TypeOK' /\ RolesFit' /\ OneOwner'
      BY <2>1, <2>2, <3>1
    <3>4. BorrowsFit'
      BY <3>1, <3>2 DEF BorrowsFit
    <3>5. HeldFits' /\ ScriptFits'
      BY <3>1, Scripts DEF IInv, HeldFits
    <3> QED
      BY <3>3, <3>4, <3>5 DEF IInv
  <2>10. CASE MirrorStopped
    <3>1. /\ Now("stop_mirror") /\ Done /\ mirror' = None /\ mirror # None /\ mirror.at = "done"
          /\ sock' = Close({mirror.listener})
          /\ UNCHANGED <<own, channels, audio, ntp, bound, lost, requests>>
      BY <2>10 DEF MirrorStopped
    <3>2. mirror.listener \in Fds /\ mirror.held = None
      BY <2>1, <3>1 DEF Listeners, IInv, HeldFits
    <3>3. TypeOK'
      BY <3>1 DEF IInv, TypeOK, Close
    <3>4. Holds("listener", mirror.listener)
      BY <3>1 DEF Holds
    <3>5. \A g \in Fds : IF g = mirror.listener THEN Freed(g) ELSE Kept(g)
      BY <3>1, <3>2, <3>4, Held DEF Kept, Freed, Holds, Close, IInv, TypeOK
    <3>6. RolesFit' /\ OneOwner'
      BY <3>1, <3>5, Passes DEF Channelled
    <3>7. BorrowsFit'
      BY <3>1, <3>2, <3>4, <3>5, Held, Borrows DEF Kept
    <3>8. HeldFits' /\ ScriptFits'
      BY <3>1, Scripts DEF HeldFits
    <3> QED
      BY <3>3, <3>6, <3>7, <3>8 DEF IInv
  <2>11. CASE AudioStopped
    <3>1. /\ Now("stop_audio") /\ Done /\ audio' = None /\ audio # None
          /\ sock' = Close({audio.data})
          /\ UNCHANGED <<own, channels, mirror, ntp, bound, lost, requests>>
      BY <2>11 DEF AudioStopped
    <3>2. audio.data \in Fds
      BY <2>1, <3>1 DEF Receivers
    <3>3. TypeOK'
      BY <3>1 DEF IInv, TypeOK, Close
    <3>4. Holds("receiver", audio.data)
      BY <3>1 DEF Holds
    <3>5. \A g \in Fds : IF g = audio.data THEN Freed(g) ELSE Kept(g)
      BY <3>1, <3>2, <3>4, Held DEF Kept, Freed, Holds, Close, IInv, TypeOK
    <3>6. RolesFit' /\ OneOwner'
      BY <3>1, <3>5, Passes DEF Channelled
    <3>7. BorrowsFit'
      BY <3>1, <3>2, <3>4, <3>5, Held, Borrows DEF Kept
    <3>8. HeldFits' /\ ScriptFits'
      BY <3>1, Scripts DEF IInv, HeldFits
    <3> QED
      BY <3>3, <3>6, <3>7, <3>8 DEF IInv
  <2>12. ASSUME NEW x \in {"ctrl", "timing"}, NEW step \in {"bind_ctrl", "bind_timing"},
                BindsLegacy(step, x, x)
         PROVE  IInv'
    <3>1. Now(step) /\ UNCHANGED <<channels, mirror, audio, ntp, bound, requests>> /\ HeldFits'
      BY <2>12 DEF BindsLegacy, IInv, HeldFits
    <3>2. ASSUME NEW f \in Free, Done, sock' = Opened(f, x), own' = [own EXCEPT ![x] = f],
                 lost' = lost \cup ({own[x]} \ {None})
          PROVE  IInv'
      <4>1. /\ sock' \in [Fds -> Session \cup {"free", "other"}]
            /\ own' \in [Fields -> Known] /\ lost' \subseteq Fds
            /\ own'["ap2_timing"] = own["ap2_timing"]
            /\ RolesFit' /\ OneOwner' /\ BorrowsFit'
        BY <3>1, <3>2, Binds
      <4>2. TypeOK'
        BY <3>1, <4>1 DEF IInv, TypeOK
      <4>3. ScriptFits'
        BY <3>1, <3>2, <4>1, Scripts
      <4> QED
        BY <3>1, <4>1, <4>2, <4>3 DEF IInv
    <3>3. ASSUME todo' = TeardownScript, UNCHANGED <<sock, own, lost>> PROVE IInv'
      <4>1. /\ TypeOK' /\ RolesFit' /\ OneOwner'
            /\ \A g \in Fds, p \in Holders : Holds(p, g)' <=> Holds(p, g)
        BY <2>1, <2>2, <3>1, <3>3
      <4>2. BorrowsFit'
        BY <3>1, <3>3, <4>1, Borrows
      <4>3. /\ TeardownScript \in Rests
            /\ TeardownScript \notin NoListener \cup NoReceiver \cup NoClient \cup Bound \cup Timed
        BY DEF TeardownScript, Rests, Whole, Ending, Bound, Timed, NoClient, NoReceiver, NoListener
      <4>4. bound = <<>>
        <5>1. todo \in {<<"bind_ctrl", "bind_timing">>, <<"bind_ctrl">>, <<"bind_timing">>}
          BY <2>1, <2>12, <3>1 DEF Now, Rests, Whole, Ending, Bound, Timed, NoClient, NoReceiver,
                NoListener, TeardownScript
        <5>2. todo \notin Bound
          BY <5>1 DEF Bound
        <5> QED
          BY <5>2 DEF IInv, ScriptFits
      <4> QED
        BY <3>1, <3>3, <4>1, <4>2, <4>3, <4>4 DEF IInv, ScriptFits
    <3> QED
      BY <2>12, <3>2, <3>3 DEF BindsLegacy
  <2>13. CASE StartsMirror
    <3>1. /\ Now("start_mirror") /\ Done /\ UNCHANGED <<own, ntp, bound, lost, requests>>
          /\ mirror = None
      BY <2>1, <2>13, Took DEF StartsMirror, IInv, ScriptFits
    <3>2. CASE UNCHANGED <<sock, mirror, audio, channels>>
      <4>1. /\ TypeOK' /\ RolesFit' /\ OneOwner'
            /\ \A g \in Fds, p \in Holders : Holds(p, g)' <=> Holds(p, g)
        BY <2>1, <2>2, <3>1, <3>2
      <4>2. BorrowsFit' /\ HeldFits' /\ ScriptFits'
        BY <3>1, <3>2, <4>1, Borrows, Scripts DEF HeldFits
      <4> QED
        BY <4>1, <4>2 DEF IInv
    <3>3. ASSUME NEW f \in Free, sock' = Opened(f, "listener"),
                 mirror' = [running |-> TRUE, at |-> "loop", listener |-> f, held |-> None,
                            client |-> None],
                 audio' = IF audio = None THEN None ELSE [audio EXCEPT !.sync = FALSE],
                 channels' = channels \cup {[type |-> "mirror", socks |-> {}]}
          PROVE  IInv'
      <4>1. /\ f \in Fds /\ sock[f] = "free" /\ \A p \in Holders : ~Holds(p, f)
        BY Held DEF Free
      <4>2. /\ mirror' \in Listeners /\ mirror'.listener = f /\ mirror'.held = None
            /\ mirror' # None
        <5>1. mirror' \in Listeners
          BY <3>3, <4>1, SMTT(20) DEF Listeners, Known
        <5>2. mirror'.listener = f /\ mirror'.held = None
          BY <3>3
        <5> QED
          BY <5>1, <5>2
      <4>3. IF audio = None THEN audio' = None
            ELSE /\ audio' \in Receivers /\ audio'.data = audio.data
                 /\ audio'.control = audio.control /\ audio'.clock = audio.clock
        BY <2>1, <3>3 DEF Receivers
      <4>4. TypeOK'
        BY <3>1, <3>3, <4>1, <4>2, <4>3 DEF IInv, TypeOK, Opened, Session
      <4>5. \A q, g : (\E ch \in channels' : ch.type = q /\ g \in ch.socks)
                        <=> \E ch \in channels : ch.type = q /\ g \in ch.socks
        <5> DEFINE new == [type |-> "mirror", socks |-> {}]
        <5>1. new.socks = {} /\ channels' = channels \cup {new}
          BY <3>3
        <5> HIDE DEF new
        <5> QED
          BY <5>1
      <4>6. Channelled
        <5> DEFINE new == [type |-> "mirror", socks |-> {}]
        <5>1. channels' = channels \cup {new} /\ \A ch \in channels : ch.socks \cap new.socks = {}
          BY <3>3
        <5> QED
          BY <5>1 DEF Channelled
      <4>7. Given(f, "listener") /\ \A g \in Fds \ {f} : Kept(g)
        <5>1. \A q \in Holders : Holds(q, f)' <=> q = "listener"
          BY <3>1, <4>1, <4>2, <4>3, <4>5 DEF Holds, IInv, TypeOK
        <5>2. \A g \in Fds \ {f}, q \in Holders : Holds(q, g)' <=> Holds(q, g)
          BY <3>1, <4>1, <4>2, <4>3, <4>5 DEF Holds, IInv, TypeOK
        <5> QED
          BY <3>3, <4>1, <5>1, <5>2 DEF Given, Kept, Opened, IInv, TypeOK, Role
      <4>8. RolesFit' /\ OneOwner'
        BY <4>6, <4>7, Passes
      <4>9. BorrowsFit'
        BY <3>1, <4>1, <4>3, <4>7, Borrows DEF Kept
      <4>10. HeldFits' /\ ScriptFits'
        BY <3>1, <4>2, <4>3, Scripts DEF HeldFits
      <4> QED
        BY <4>4, <4>8, <4>9, <4>10 DEF IInv
    <3> QED
      BY <2>13, <3>2, <3>3 DEF StartsMirror
  <2>14. CASE StartsAudio
    <3>1. /\ Now("start_audio") /\ Done /\ bound' = <<>> /\ bound # <<>> /\ audio = None
          /\ channels' = channels \cup {[type |-> "audio", socks |-> {bound[2]}]}
          /\ UNCHANGED <<own, mirror, ntp, lost, requests>>
      BY <2>1, <2>14, Took DEF StartsAudio, IInv, ScriptFits
    <3>2. PICK d \in Fds, c \in Fds : /\ bound[1] = d /\ bound[2] = c
                                      /\ Holds("bound_data", d) /\ Holds("bound_ctrl", c)
      BY <3>1 DEF IInv, TypeOK, Holds
    <3>3. /\ d # c /\ sock[d] = "data" /\ sock[c] = "ctrl"
          /\ \A q \in Holders \ {"bound_data"} : ~Holds(q, d)
          /\ \A q \in Holders \ {"bound_ctrl"} : ~Holds(q, c)
      BY <3>2, Held DEF Role
    <3>4. \A ch \in channels : c \notin ch.socks /\ d \notin ch.socks /\ ch.type \in Types
      BY <3>2, <3>3 DEF Holds, IInv, TypeOK
    <3> DEFINE new == [type |-> "audio", socks |-> {c}]
    <3>5. new.type = "audio" /\ new.socks = {c} /\ channels' = channels \cup {new}
      BY <3>1, <3>2
    <3> HIDE DEF new
    <3>6. \A q, g : (\E ch \in channels' : ch.type = q /\ g \in ch.socks)
                      <=> \/ \E ch \in channels : ch.type = q /\ g \in ch.socks
                          \/ q = "audio" /\ g = c
      BY <3>5
    <3>7. Channelled
      BY <3>4, <3>5 DEF Channelled
    <3>8. new \in [type : Types, socks : SUBSET Fds]
      BY DEF new
    <3>9. ASSUME NEW heard \in BOOLEAN,
                 IF heard
                 THEN /\ audio' \in Receivers /\ audio'.data = d /\ audio'.control = c
                      /\ (audio'.clock => ntp # None)
                      /\ sock' = sock
                 ELSE audio' = None /\ sock' = Close({d})
          PROVE  IInv'
      <4>1. TypeOK'
        BY <3>1, <3>5, <3>8, <3>9 DEF IInv, TypeOK, Close
      <4>2. Given(c, "audio")
        <5>1. \A q \in Holders : Holds(q, c)' <=> q = "audio"
          BY <3>1, <3>3, <3>4, <3>6, <3>9 DEF Holds
        <5>2. sock'[c] = "ctrl"
          BY <3>3, <3>9 DEF Close
        <5> QED
          BY <5>1, <5>2 DEF Given, Role
      <4>3. IF heard THEN Given(d, "receiver") ELSE Freed(d)
        <5>1. \A q \in Holders : Holds(q, d)' <=> (heard /\ q = "receiver")
          BY <3>1, <3>3, <3>4, <3>6, <3>9 DEF Holds
        <5>2. sock'[d] = IF heard THEN "data" ELSE "free"
          BY <3>3, <3>9 DEF Close
        <5> QED
          BY <5>1, <5>2 DEF Given, Freed, Role
      <4>4. \A g \in Fds \ {c, d} : Kept(g)
        BY <3>1, <3>2, <3>6, <3>9 DEF Kept, Holds, Close, IInv, TypeOK
      <4>5. RolesFit' /\ OneOwner'
        BY <3>2, <3>7, <4>2, <4>3, <4>4, Passes
      <4>6. BorrowsFit'
        <5>1. audio' # None => /\ Holds("audio", audio.control)'
                               /\ audio'.clock => ntp # None
          BY <3>2, <3>9, <4>2 DEF Given
        <5>2. ASSUME NEW g \in Fds, Holds("ap2_timing", g) \/ Holds("lost", g) PROVE Kept(g)
          BY <3>3, <4>4, <5>2
        <5> QED
          BY <3>1, <5>1, <5>2 DEF IInv, BorrowsFit, TypeOK, Clients, Kept
      <4>7. HeldFits' /\ ScriptFits'
        BY <2>1, <3>1, Scripts DEF IInv, HeldFits
      <4> QED
        BY <4>1, <4>5, <4>6, <4>7 DEF IInv
    <3>10. CASE /\ audio' = [running |-> TRUE, threads |-> {"receive", "playout"}, data |-> d,
                             control |-> c, clock |-> ntp # None, sync |-> Synchronised]
                /\ UNCHANGED sock
      <4>1. audio' \in Receivers
        BY <3>2, <3>10, SMTT(20) DEF Receivers, Synchronised
      <4>2. audio'.data = d /\ audio'.control = c /\ (audio'.clock => ntp # None)
        BY <3>10
      <4> QED
        BY <3>9, <3>10, <4>1, <4>2
    <3>11. CASE sock' = Close({d}) /\ UNCHANGED audio
      BY <3>1, <3>9, <3>11
    <3> QED
      BY <2>14, <3>2, <3>10, <3>11 DEF StartsAudio
  <2>15. CASE ClosesOwn
    <3>1. /\ Now("close_own") /\ Done /\ own' = Closed
          /\ sock' = Close({own[x] : x \in Fields})
          /\ audio = None /\ ntp = None
          /\ UNCHANGED <<channels, mirror, audio, ntp, bound, lost, requests>>
      BY <2>1, <2>15, Took DEF ClosesOwn, IInv, ScriptFits
    <3>2. TypeOK'
      BY <3>1 DEF IInv, TypeOK, Close, Closed, Known
    <3>3. ASSUME NEW g \in Fds, NEW x \in Fields, own[x] = g PROVE Freed(g)
      <4>1. Holds(x, g)
        BY <3>3 DEF Holds
      <4>2. \A q \in Holders \ {x} : ~Holds(q, g)
        BY <4>1, Held
      <4>3. g # None /\ \A y \in Fields : own'[y] = None
        BY <3>1 DEF Closed
      <4>4. \A q \in Holders : ~Holds(q, g)'
        <5>1. \A ch \in channels' : ch.type # x
          BY <3>1 DEF IInv, TypeOK
        <5>2. ASSUME NEW q \in Holders, q # x PROVE ~Holds(q, g)'
          BY <3>1, <4>2, <4>3, <5>2 DEF Holds
        <5> QED
          BY <4>3, <5>1, <5>2 DEF Holds
      <4> QED
        BY <3>1, <3>3, <4>4 DEF Freed, Close, IInv, TypeOK
    <3>4. ASSUME NEW g \in Fds, \A x \in Fields : own[x] # g PROVE Kept(g)
      BY <3>1, <3>4 DEF Kept, Holds, Close, Closed, IInv, TypeOK
    <3>5. RolesFit' /\ OneOwner'
      BY <3>1, <3>3, <3>4, Passes DEF Channelled
    <3>6. BorrowsFit' /\ HeldFits'
      BY <3>1 DEF BorrowsFit, IInv, HeldFits
    <3>7. ScriptFits'
      BY <2>1, <3>1, Scripts
    <3> QED
      BY <3>2, <3>5, <3>6, <3>7 DEF IInv
  <2>16. ASSUME NEW step, NEW types \in SUBSET Types, ClosesChannels(step, types),
                step \in {"close_mirror", "close_audio", "close_other", "close_channels"},
                "audio" \in types => step \in {"close_audio", "close_channels"}
         PROVE  IInv'
    <3>1. /\ Now(step) /\ Done
          /\ sock' = Close(UNION {ch.socks : ch \in Closing(types)})
          /\ channels' = channels \ Closing(types)
          /\ UNCHANGED <<own, mirror, audio, ntp, bound, lost, requests>>
      BY <2>16 DEF ClosesChannels, Forgets
    <3>2. "audio" \in types => audio = None
      BY <2>1, <2>16, <3>1, Took DEF IInv, ScriptFits
    <3>3. TypeOK'
      BY <3>1 DEF IInv, TypeOK, Close
    <3>4. ASSUME NEW g \in Fds, NEW t \in types, Holds(t, g) PROVE Freed(g)
      <4>1. PICK ch \in channels : ch.type = t /\ g \in ch.socks
        BY <3>4, Held DEF Holds
      <4>2. sock'[g] = "free"
        BY <3>1, <4>1 DEF Close, Closing
      <4>3. \A q \in Holders \ {t} : ~Holds(q, g)
        BY <3>4, Held
      <4>4. \A q \in Holders : ~Holds(q, g)'
        BY <3>1, <4>3 DEF Holds, Closing
      <4> QED
        BY <4>2, <4>4 DEF Freed
    <3>5. ASSUME NEW g \in Fds, \A t \in types : ~Holds(t, g) PROVE Kept(g)
      <4>1. g \notin UNION {ch.socks : ch \in Closing(types)}
        BY <3>5 DEF Holds, Closing
      <4>2. \A q \in Holders : Holds(q, g)' <=> Holds(q, g)
        BY <3>1, <3>5 DEF Holds, Closing
      <4> QED
        BY <3>1, <4>1, <4>2 DEF Kept, Close, IInv, TypeOK
    <3>6. RolesFit' /\ OneOwner'
      BY <3>1, <3>4, <3>5, Passes DEF Channelled
    <3>7. BorrowsFit'
      <4>1. ASSUME NEW g \in Fds, Holds("ap2_timing", g) \/ Holds("lost", g) PROVE Kept(g)
        BY <3>5, <4>1, Held
      <4>2. ASSUME NEW g \in Fds, audio # None, Holds("audio", g) PROVE Kept(g)
        BY <3>2, <3>5, <4>2, Held
      <4> QED
        BY <3>1, <4>1, <4>2, Borrows DEF Kept
    <3>8. HeldFits' /\ ScriptFits'
      BY <2>1, <2>16, <3>1, Scripts DEF IInv, HeldFits
    <3> QED
      BY <3>3, <3>6, <3>7, <3>8 DEF IInv
  <2>17. CASE \/ BindsLegacy("bind_ctrl", "ctrl", "ctrl")
              \/ BindsLegacy("bind_timing", "timing", "timing")
    BY <2>12, <2>17
  <2>18. CASE \/ ClosesChannels("close_mirror", {"mirror"})
              \/ ClosesChannels("close_audio", {"audio"})
              \/ ClosesChannels("close_other", {"other"}) \/ ClosesChannels("close_channels", Types)
    BY <2>16, <2>18
  <2> QED
    BY <2>3, <2>4, <2>5, <2>6, <2>7, <2>8, <2>9, <2>10, <2>11, <2>13, <2>14, <2>15, <2>17, <2>18
       DEF Control
<1>5. Init => IInv
  <2> SUFFICES ASSUME Init PROVE IInv
    OBVIOUS
  <2>1. \A p \in Holders, f \in Fds : ~Holds(p, f)
    BY SessionAssumption DEF Init, Holds, Closed
  <2>2. TypeOK
    BY SessionAssumption DEF Init, TypeOK, Closed, Known
  <2>3. RolesFit /\ OneOwner
    BY <2>1 DEF Init, RolesFit, OneOwner, Owners, Session
  <2>4. BorrowsFit /\ HeldFits
    BY DEF Init, BorrowsFit, HeldFits
  <2>5. ScriptFits
    BY DEF Init, ScriptFits, Rests, Whole, Ending, Bound, Timed, NoClient, NoReceiver, NoListener
  <2> QED
    BY <2>2, <2>3, <2>4, <2>5 DEF IInv
<1>6. ASSUME IInv, UNCHANGED vars PROVE IInv'
  <2>1. \A p \in Holders, f \in Fds : Holds(p, f)' <=> Holds(p, f)
    BY <1>6 DEF vars, Holds
  <2>2. RolesFit' /\ OneOwner'
    BY <1>6, <2>1, Passes DEF vars, Kept, Channelled
  <2>3. TypeOK' /\ BorrowsFit' /\ HeldFits' /\ ScriptFits'
    BY <1>6, <2>1, Borrows DEF vars, IInv, TypeOK, HeldFits, ScriptFits
  <2> QED
    BY <2>2, <2>3 DEF IInv
<1>7. IInv /\ [Next]_vars => IInv'
  BY <1>6, <1>3, <1>4, <1>2 DEF Next
<1> QED
  BY <1>5, <1>7, PTL DEF Spec

\* stop_stream(), setup_stream() and teardown() join a thread before they close
\* what it borrows: a thread that is not joined finds its sockets open, in their
\* role, and the audio receiver's clock in its place.
THEOREM ThreadsBorrow == Spec => []BorrowedIsOpen
<1>1. IInv => BorrowedIsOpen
  <2> SUFFICES ASSUME IInv PROVE BorrowedIsOpen
    OBVIOUS
  <2>1. mirror # None => /\ sock[mirror.listener] = "listener"
                         /\ mirror.held # None => sock[mirror.held] = "client"
    <3>1. ASSUME mirror # None PROVE mirror.listener \in Fds /\ mirror.held \in Known
      BY <3>1 DEF IInv, TypeOK, Listeners
    <3>2. mirror # None => /\ Holds("listener", mirror.listener)
                           /\ mirror.held # None => Holds("client", mirror.held)
      BY DEF Holds
    <3> QED
      BY <3>1, <3>2, Held DEF Role, Known
  <2>2. audio # None => /\ sock[audio.data] = "data" /\ sock[audio.control] = "ctrl"
                        /\ audio.clock => ntp # None
    <3>1. ASSUME audio # None PROVE audio.data \in Fds /\ audio.control \in Fds
      BY <3>1 DEF IInv, TypeOK, Receivers
    <3>2. audio # None => Holds("receiver", audio.data) /\ Holds("audio", audio.control)
      BY DEF Holds, IInv, BorrowsFit
    <3> QED
      BY <3>1, <3>2, Held DEF Role, IInv, BorrowsFit
  <2> QED
    BY <2>1, <2>2 DEF IInv, BorrowsFit, BorrowedIsOpen
<1> QED
  BY <1>1, Invariance, PTL

\* teardown(), stop_stream() and the two ways to set a stream up keep the sockets
\* apart: each open socket of the session is one holder's to close, and no holder
\* is left with a number that is closed or a stranger's.
THEOREM SocketsOwned == Spec => []OneOwner
<1>1. IInv => OneOwner
  BY DEF IInv
<1> QED
  BY <1>1, Invariance, PTL
=============================================================================
