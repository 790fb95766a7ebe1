------------------------------ MODULE Hls_proofs ------------------------------
(* Proofs about HLS playback: the /reverse sockets that the receiver asks the *)
(* phone over (ReverseChannel) and what it does with the answers (HlsFetch),  *)
(* two models that share no state.                                            *)
EXTENDS ReverseChannel, HlsFetch, FiniteSetTheorems, TLAPS

\* Which descriptor is whose, and, while no connection names two sessions, that a
\* registered one is open, holds from the start and after every step.
LEMMA ReverseInvariance == ReverseSpec => []ReverseIInv
<1>1. ReverseInit => ReverseIInv
  BY ReverseAssumption DEF ReverseInit, ReverseIInv, ReverseTypeOK, DescriptorsFit, RegisteredIsOpen
<1>2. ReverseIInv /\ [ReverseNext]_registry => ReverseIInv'
  <2> SUFFICES ASSUME ReverseIInv, [ReverseNext]_registry PROVE ReverseIInv'
    OBVIOUS
  <2> USE ReverseAssumption DEF ReverseIInv, ReverseTypeOK, DescriptorsFit, OneName,
                                RegisteredIsOpen
  <2>1. ASSUME NEW c \in Conns, NEW f \in Fds, Accepts(c, f) PROVE ReverseIInv'
    <3>1. ReverseTypeOK' /\ DescriptorsFit'
      BY <2>1 DEF Accepts, Unused
    <3>2. ASSUME OneName PROVE RegisteredIsOpen'
      BY <2>1, <3>2 DEF Accepts
    <3> QED
      BY <3>1, <3>2
  <2>2. ASSUME NEW c \in Conns, PhoneGoes(c) PROVE ReverseIInv'
    BY <2>2 DEF PhoneGoes
  <2>3. ASSUME NEW c \in Conns, NEW s \in Ids, Registers(c, s) PROVE ReverseIInv'
    <3>1. ReverseTypeOK' /\ DescriptorsFit'
      BY <2>3 DEF Registers
    <3>2. ASSUME OneName, NEW r \in Ids, fds'[r] # Unset
          PROVE  \E d \in Conns : fdOf'[d] = fds'[r] /\ stage'[d] = "open"
                                    /\ named'[d] = r
      <4>1. CASE r = s
        BY <2>3, <4>1 DEF Registers
      <4>2. CASE r # s
        <5>1. PICK d \in Conns : fdOf[d] = fds[r] /\ stage[d] = "open" /\ named[d] = r
          BY <2>3, <3>2, <4>2 DEF Registers
        <5>2. d # c
          BY <2>3, <3>2, <4>2, <5>1 DEF Registers
        <5> QED
          BY <2>3, <4>2, <5>1, <5>2 DEF Registers
      <4> QED
        BY <4>1, <4>2
    <3> QED
      BY <3>1, <3>2
  <2>4. ASSUME NEW c \in Conns, Unregisters(c) PROVE ReverseIInv'
    <3>1. ReverseTypeOK' /\ DescriptorsFit'
      BY <2>4 DEF Unregisters, Erased
    <3>2. ASSUME OneName, NEW r \in Ids, fds'[r] # Unset
          PROVE  \E d \in Conns : fdOf'[d] = fds'[r] /\ stage'[d] = "open"
                                    /\ named'[d] = r
      <4>1. fds[r] = fds'[r] /\ r # named[c]
        BY <2>4, <3>2 DEF Unregisters, Erased
      <4>2. PICK d \in Conns : fdOf[d] = fds[r] /\ stage[d] = "open" /\ named[d] = r
        BY <3>2, <4>1
      <4> QED
        BY <2>4, <4>1, <4>2 DEF Unregisters
    <3> QED
      BY <3>1, <3>2
  <2>5. ASSUME NEW c \in Conns, Closes(c) PROVE ReverseIInv'
    <3>1. ReverseTypeOK' /\ DescriptorsFit'
      BY <2>5 DEF Closes
    <3>2. ASSUME OneName PROVE RegisteredIsOpen'
      BY <2>5, <3>2 DEF Closes
    <3> QED
      BY <3>1, <3>2
  <2>6. CASE UNCHANGED registry
    BY <2>6 DEF registry
  <2> QED
    BY <2>1, <2>2, <2>3, <2>4, <2>5, <2>6 DEF ReverseNext
<1> QED
  BY <1>1, <1>2, PTL DEF ReverseSpec

\* reverse_channel.h, "keeps the socket alive and the session-ID entry until
\* the TCP connection closes": what is registered is open, and the session's
\* own, when no connection names two sessions.
THEOREM RegisteredSocketsAreOpen ==
  ASSUME OneName
  PROVE  ReverseSpec => []RegisteredIsOpen
<1>1. ReverseIInv => RegisteredIsOpen
  BY OneName DEF ReverseIInv
<1> QED
  BY <1>1, ReverseInvariance, PTL

-----------------------------------------------------------------------------
(* HlsFetch.                                                                  *)

\* The lines that get a local path are numbered without a gap, and the URLs that
\* the paths stand for are theirs, in that order.
LEMMA Numbered ==
    ASSUME NEW text, IsText(text)
    PROVE  /\ Originals(text) \in Seq(ToSet(Originals(text)))
           /\ \A i \in Rewritten(text) :
                 /\ Rank(text, i) \in Nat
                 /\ Rank(text, i) + 1 <= Len(Originals(text))
                 /\ Originals(text)[Rank(text, i) + 1] = text[i].url
<1> DEFINE R == Rewritten(text)
           Before(i) == {j \in R : j < i}
           n == Cardinality(R)
<1>1. R \subseteq 1..Len(text) /\ IsFiniteSet(R) /\ n \in Nat
  <2>1. R \subseteq 1..Len(text) /\ IsFiniteSet(1..Len(text))
    BY FS_Interval DEF Rewritten, IsText
  <2>2. IsFiniteSet(R)
    BY <2>1, FS_Subset
  <2> QED
    BY <2>1, <2>2, FS_CardinalityType
<1>2. ASSUME NEW i \in R PROVE IsFiniteSet(Before(i)) /\ Rank(text, i) \in Nat /\ Rank(text, i) < n
  <2>1. Before(i) \subseteq R /\ i \in R \ Before(i) /\ i \in Int
    BY <1>1
  <2>2. IsFiniteSet(Before(i)) /\ Cardinality(Before(i)) <= n
        /\ (n = Cardinality(Before(i)) => R = Before(i))
    BY <1>1, <2>1, FS_Subset
  <2>3. Cardinality(Before(i)) \in Nat
    BY <2>2, FS_CardinalityType
  <2>4. Rank(text, i) = Cardinality(Before(i))
    BY DEF Rank
  <2> QED
    BY <1>1, <2>1, <2>2, <2>3, <2>4
<1>3. \A i \in R : Rank(text, i) \in Nat /\ Rank(text, i) < n
  BY <1>2
<1>4. ASSUME NEW i \in R, NEW j \in R, j < i PROVE Rank(text, j) < Rank(text, i)
  <2>1. Before(j) \subseteq Before(i) /\ j \in Before(i) \ Before(j)
    BY <1>1, <1>4
  <2>2. IsFiniteSet(Before(i)) /\ IsFiniteSet(Before(j))
        /\ Rank(text, i) \in Nat /\ Rank(text, j) \in Nat
    BY <1>1, <1>2
  <2>3. Cardinality(Before(j)) <= Cardinality(Before(i))
        /\ (Cardinality(Before(i)) = Cardinality(Before(j)) => Before(i) = Before(j))
    BY <2>1, <2>2, FS_Subset
  <2> QED
    BY <2>1, <2>2, <2>3 DEF Rank
<1> HIDE DEF R, Before, n
<1>5. ASSUME NEW i \in R PROVE (CHOOSE j \in R : Rank(text, j) = (Rank(text, i) + 1) - 1) = i
  <2>1. ASSUME NEW j \in R, Rank(text, j) = Rank(text, i) PROVE j = i
    <3>1. i \in Int /\ j \in Int /\ Rank(text, i) \in Nat
      BY <1>1, <1>3
    <3>2. ~(j < i) /\ ~(i < j)
      BY <1>4, <2>1, <3>1
    <3> QED
      BY <3>1, <3>2
  <2>2. (Rank(text, i) + 1) - 1 = Rank(text, i)
    BY <1>3
  <2> QED
    BY <2>1, <2>2
<1>6. Originals(text) = [k \in 1..n |->
                           text[CHOOSE i \in R : Rank(text, i) = k - 1].url]
  BY DEF Originals, R, n
<1>7. DOMAIN Originals(text) = 1..n /\ Originals(text) \in [1..n -> ToSet(Originals(text))]
  BY <1>6 DEF ToSet
<1>8. Originals(text) \in Seq(ToSet(Originals(text))) /\ Len(Originals(text)) = n
  BY <1>1, <1>7, SMT
<1>9. ASSUME NEW i \in R PROVE Originals(text)[Rank(text, i) + 1] = text[i].url
  <2>1. Rank(text, i) + 1 \in 1..n
    BY <1>1, <1>3
  <2> QED
    BY <1>5, <1>6, <2>1
<1> QED
  BY <1>1, <1>3, <1>8, <1>9 DEF R

\* Expansion changes URLs and nothing else.
LEMMA ExpandedIsText ==
    ASSUME NEW n \in 1..MaxGen, NEW l \in Lists
    PROVE  IsText(Expanded(Playlists[n][l]))
<1> DEFINE text == Playlists[n][l]
           out  == Expanded(text)
<1>1. IsText(text)
  BY HlsAssumption
<1>2. DOMAIN out = DOMAIN text
  BY DEF Expanded
<1>3. ASSUME NEW i \in DOMAIN text
      PROVE  out[i].kind = text[i].kind /\ DOMAIN out[i] = DOMAIN text[i]
  BY <1>3 DEF Expanded
<1> HIDE DEF out
<1>4. Len(out) = Len(text)
  BY <1>1, <1>2 DEF IsText
<1> QED
  BY <1>1, <1>3, <1>4 DEF IsText, out

\* Paths that lead home still do while the session's paths stay as they are, and
\* what it may have stays the same with its generation and the late answers.
LEMMA SamePaths ==
    /\ UNCHANGED segmap =>
          \A s, l, n, text : Leads(s, l, n, text)' <=> Leads(s, l, n, text)
    /\ UNCHANGED <<gen, late>> =>
          /\ \A s, w : Gens(s, w)' = Gens(s, w)
          /\ \A s, u : Known(s, u)' <=> Known(s, u)
<1>1. ASSUME UNCHANGED <<gen, late>>, NEW s, NEW w PROVE Gens(s, w)' = Gens(s, w)
  BY <1>1 DEF Gens
<1>2. ASSUME UNCHANGED <<gen, late>>, NEW s, NEW u PROVE Known(s, u)' <=> Known(s, u)
  BY <1>1, <1>2 DEF Known
<1> QED
  BY <1>1, <1>2 DEF Leads

\* With one handler thread, a session is busy with what that thread does.
LEMMA BusyHere ==
    ASSUME OneHandler, NEW t \in Handlers
    PROVE  /\ \A s, places : Busy(s, places) <=> h[t].sid = s /\ h[t].at \in places
           /\ \A s, places : Busy(s, places)' <=> h'[t].sid = s /\ h'[t].at \in places
           /\ \A u \in Handlers : u = t
BY DEF OneHandler, Busy

\* Steps that leave the session and the store alone: the player is stopped, or the
\* handler goes on to a place where it has nothing in hand.
Rests == {"idle", "play.stop", "play.clear", "action.start", "end.player", "end.active"}

\* A transfer from the CDN begins.
Relays(t) == GetResolves(t) /\ Goes(t, "resolve", "relay") /\ UNCHANGED served

\* With one control connection's thread the invariant holds: it holds at the start,
\* and every step of a handler, of a getter and of the player preserves it.
LEMMA FetchInvariance ==
    ASSUME OneHandler
    PROVE  Spec => []IInv
<1>1. ASSUME IInv, NEW t \in Handlers,
             \/ \E s \in Sids : PlayStarts(t, s)
             \/ PlayStopsPlayer(t) \/ ActionStopsPlayer(t) \/ ActionStartsPlayer(t)
             \/ TeardownStarts(t) \/ EndStopsPlayer(t) \/ EndDeactivates(t)
             \/ Disconnect \/ PlayerEnds
      PROVE  IInv'
  <2> USE <1>1
  <2> USE HlsAssumption
  <2>0. HandlersFit /\ RequestsFit /\ YoungFit /\ GettersFit /\ StoreFits
    BY DEF IInv
  <2>1. UNCHANGED <<gen, late, nextId, tags, master, media, seg, segmap, asked>>
    BY DEF PlayStarts, At, PlayStopsPlayer, ActionStopsPlayer, ActionStartsPlayer, TeardownStarts,
           EndStopsPlayer, EndDeactivates, Disconnect, PlayerEnds, session, store
  <2>2. UNCHANGED g \/ Halts
    BY DEF PlayStarts, At, PlayStopsPlayer, ActionStopsPlayer, ActionStartsPlayer, TeardownStarts,
           EndStopsPlayer, EndDeactivates, Disconnect, PlayerEnds
  <2>3. ASSUME ActionStopsPlayer(t)
        PROVE  /\ h' = [h EXCEPT ![t] = [at |-> "action.start", sid |-> h[t].sid,
                                         ask |-> [h[t].ask EXCEPT !.gen = gen[h[t].sid]]]]
               /\ h[t].at = "action.stop" /\ h[t].sid \in Sids
               /\ [h[t].ask EXCEPT !.gen = gen[h[t].sid]] \in Asks
    <3>1. h[t].at = "action.stop" /\ h[t].sid \in Sids /\ gen[h[t].sid] \in 0..MaxGen
          /\ h[t].ask \in Asks
      BY <2>0, <2>3 DEF ActionStopsPlayer, HandlersFit, RequestsFit, Storing
    <3>2. h'[t] = [at |-> "action.start", sid |-> h[t].sid,
                   ask |-> [h[t].ask EXCEPT !.gen = gen[h[t].sid]]]
      BY <2>0, <2>3 DEF ActionStopsPlayer, HandlersFit
    <3> QED
      BY <2>0, <2>3, <3>1, <3>2 DEF ActionStopsPlayer, HandlersFit, Asks
  <2>4. UNCHANGED h \/ (h[t].at \in Rests \cup {"action.stop"} /\ h'[t].at \in Rests)
    <3>1. CASE \E s \in Sids : PlayStarts(t, s)
      BY <2>0, <3>1 DEF PlayStarts, At, Rests, HandlersFit
    <3>2. CASE PlayStopsPlayer(t) \/ TeardownStarts(t) \/ EndStopsPlayer(t)
      BY <2>0, <3>2 DEF PlayStopsPlayer, TeardownStarts, EndStopsPlayer, Step, Rests, HandlersFit
    <3>3. CASE ActionStopsPlayer(t)
      BY <2>0, <2>3, <3>3 DEF Rests, HandlersFit
    <3>4. CASE ActionStartsPlayer(t) \/ EndDeactivates(t)
      BY <2>0, <3>4 DEF ActionStartsPlayer, EndDeactivates, Done, Rests, Resting, At, HandlersFit
    <3>5. CASE Disconnect \/ PlayerEnds
      BY <3>5 DEF Disconnect, PlayerEnds
    <3> QED
      BY <3>1, <3>2, <3>3, <3>4, <3>5
  <2>5. HandlersFit'
    <3>1. CASE \E s \in Sids : PlayStarts(t, s)
      <4>1. PICK s \in Sids : PlayStarts(t, s)
        BY <3>1
      <4>2. NoAsk \in Asks
        BY DEF NoAsk, Request, Asks
      <4> QED
        BY <2>0, <2>1, <4>1, <4>2, BusyHere DEF PlayStarts, At, HandlersFit, Bumping, Asking,
           Storing, Ending
    <3>2. CASE PlayStopsPlayer(t) \/ TeardownStarts(t) \/ EndStopsPlayer(t)
      BY <2>0, <2>1, <3>2, BusyHere DEF PlayStopsPlayer, TeardownStarts, EndStopsPlayer, Step,
         HandlersFit, Bumping, Asking, Storing, Ending
    <3>3. CASE ActionStopsPlayer(t)
      BY <2>0, <2>1, <2>3, <3>3, BusyHere DEF HandlersFit, Bumping, Asking, Storing, Ending
    <3>4. CASE ActionStartsPlayer(t) \/ EndDeactivates(t)
      BY <2>0, <2>1, <3>4, BusyHere DEF ActionStartsPlayer, EndDeactivates, Done, Resting, At, NoAsk,
         Request, HandlersFit, Asks, Bumping, Asking, Storing, Ending
    <3>5. CASE Disconnect \/ PlayerEnds
      BY <2>0, <2>1, <3>5, SamePaths DEF Disconnect, PlayerEnds, HandlersFit, Asks
    <3> QED
      BY <3>1, <3>2, <3>3, <3>4, <3>5
  <2>6. RequestsFit'
    BY <2>0, <2>1 DEF RequestsFit, PlayStarts, At, PlayStopsPlayer, ActionStopsPlayer,
       ActionStartsPlayer, TeardownStarts, EndStopsPlayer, EndDeactivates, Disconnect,
       PlayerEnds, Asks
  <2>7. YoungFit'
    <3>1. \A u \in Getters : g'[u].sid = g[u].sid /\ g'[u].prev = g[u].prev
      BY <2>0, <2>2 DEF Halts, GettersFit, GettersType
    <3>2. ASSUME NEW s \in Sids, gen[s] = 0
          PROVE  /\ h'[t].sid = s => h'[t].at \in Bumping
                 /\ Busy(s, Bumping) => Busy(s, Bumping)'
      <4>0. h[t].sid = s => h[t].at \in Bumping
        BY <2>0, <3>2 DEF YoungFit
      <4>1. CASE \E r \in Sids : PlayStarts(t, r)
        BY <2>0, <4>1, BusyHere DEF PlayStarts, At, HandlersFit, Bumping
      <4>2. CASE PlayStopsPlayer(t) \/ TeardownStarts(t) \/ EndStopsPlayer(t)
        BY <2>0, <4>0, <4>2, BusyHere DEF PlayStopsPlayer, TeardownStarts, EndStopsPlayer, Step,
           HandlersFit, Bumping
      <4>3. CASE ActionStopsPlayer(t)
        BY <2>0, <2>3, <4>0, <4>3, BusyHere DEF HandlersFit, Bumping
      <4>4. CASE ActionStartsPlayer(t) \/ EndDeactivates(t)
        BY <2>0, <4>0, <4>4, BusyHere DEF ActionStartsPlayer, EndDeactivates, Done, Resting, At,
           HandlersFit, Bumping
      <4>5. CASE Disconnect \/ PlayerEnds
        BY <4>0, <4>5, BusyHere DEF Disconnect, PlayerEnds
      <4> QED
        BY <4>1, <4>2, <4>3, <4>4, <4>5
    <3> QED
      BY <2>0, <2>1, <3>1, <3>2, BusyHere DEF YoungFit
  <2>8. GettersFit'
    <3>1. ASSUME NEW u \in Getters
          PROVE  /\ DOMAIN g' = Getters /\ DOMAIN g'[u] = DOMAIN g[u] /\ g'[u].live \in BOOLEAN
                 /\ g'[u].at = g[u].at /\ g'[u].what = g[u].what /\ g'[u].id = g[u].id
                 /\ g'[u].sid = g[u].sid /\ g'[u].force = g[u].force
                 /\ g'[u].body = g[u].body /\ g'[u].prev = g[u].prev
      <4>1. CASE UNCHANGED g
        BY <2>0, <4>1 DEF GettersFit, GettersType
      <4>2. CASE Halts
        <5>1. g'[u] = [g[u] EXCEPT !.live = FALSE]
          BY <4>2 DEF Halts
        <5>2. DOMAIN g' = Getters /\ DOMAIN g'[u] = DOMAIN g[u]
          BY <2>0, <4>2, <5>1 DEF Halts, GettersFit, GettersType
        <5>3. DOMAIN g[u] = {"at", "what", "sid", "id", "force", "body", "prev", "live"}
          BY <2>0 DEF GettersFit, GettersType
        <5> QED
          BY <5>1, <5>2, <5>3
      <4> QED
        BY <2>2, <4>1, <4>2
    <3>2. GettersType'
      <4>1. ASSUME NEW u \in Getters PROVE IsList(g[u].body) /\ IsList(g[u].prev)
        BY <2>0 DEF GettersFit, GettersType
      <4>2. ASSUME NEW u \in Getters PROVE IsList(g'[u].body) /\ IsList(g'[u].prev)
        BY <3>1, <4>1
      <4>3. DOMAIN g' = Getters
        BY <2>0, <2>2 DEF Halts, GettersFit, GettersType
      <4> QED
        BY <2>0, <3>1, <4>2, <4>3 DEF GettersFit, GettersType
    <3>3. ASSUME NEW u \in Getters PROVE Unsent(u)' <=> Unsent(u)
      BY <3>1 DEF Unsent
    <3>4. UNCHANGED h \/ h'[t].at \notin Asking
      BY <2>4 DEF Rests, Asking
    <3> QED
      BY <2>0, <2>1, <3>1, <3>3, <3>4, <3>2, BusyHere DEF GettersFit
  <2>9. StoreFits'
    <3>1. \A u \in Getters : /\ g'[u].prev = g[u].prev /\ g'[u].sid = g[u].sid
                             /\ g'[u].what = g[u].what
      BY <2>0, <2>2 DEF Halts, GettersFit, GettersType
    <3>2. \A s : /\ Busy(s, Clearing)' => Busy(s, Clearing)
                 /\ Busy(s, {"play.tag"}) <=> Busy(s, {"play.tag"})'
                 /\ Busy(s, {"play.tag", "play.unmap"}) <=> Busy(s, {"play.tag", "play.unmap"})'
      BY <2>4, BusyHere DEF Clearing, Rests
    <3>3. DOMAIN g' = Getters
      BY <2>0, <2>2 DEF Halts, GettersFit, GettersType
    <3>4. \A s, l, b : Fits(s, l, b) => Fits(s, l, b)'
      BY <2>1, <3>2, SamePaths DEF Fits
    <3>5. /\ \A s \in Sids, l \in Lists : Fits(s, l, media[s][l])'
          /\ \A u \in Getters : (g[u].prev.gen # 0 => Fits(g[u].sid, g[u].what, g[u].prev))'
      BY <2>0, <2>1, <3>1, <3>4 DEF StoreFits
    <3> QED
      BY <2>0, <2>1, <3>2, <3>5, SamePaths DEF StoreFits, IsList
  <2>10. ASSUME OneSession PROVE PlayerFits'
    <3>0. PlayerFits
      BY <2>10 DEF IInv
    <3>1. \A u \in Getters : /\ g'[u].body = g[u].body /\ g'[u].sid = g[u].sid
                             /\ g'[u].what = g[u].what /\ g'[u].force = g[u].force
                             /\ Halts => ~g'[u].live
      BY <2>0, <2>2 DEF Halts, GettersFit, GettersType
    <3>2. \A s : Busy(s, Clearing)' => Busy(s, Clearing)
      BY <2>4, BusyHere DEF Clearing, Rests
    <3>3. \A u \in Getters : g'[u].force => Fits(g[u].sid, g[u].what, g[u].body)'
      BY <2>1, <3>0, <3>1, <3>2, SamePaths DEF PlayerFits, Fits
    <3>4. CASE Halts
      BY <3>1, <3>3, <3>4 DEF PlayerFits, Halts
    <3>5. CASE ~Halts
      <4>1. served' = served /\ h'[t].at \notin Silent
            /\ (h[t].at \in Ending => h'[t].at \in Ending)
        <5>1. CASE \E s \in Sids : PlayStarts(t, s)
          BY <2>0, <5>1 DEF PlayStarts, At, HandlersFit, Ending, Silent, playing
        <5>2. CASE TeardownStarts(t)
          BY <2>0, <5>2 DEF TeardownStarts, Step, HandlersFit, Ending, Silent, playing
        <5>3. CASE ActionStartsPlayer(t) \/ EndDeactivates(t)
          BY <2>0, <5>3 DEF ActionStartsPlayer, EndDeactivates, Done, Resting, At, HandlersFit, Ending,
             Silent, playing
        <5> QED
          BY <3>5, <5>1, <5>2, <5>3 DEF PlayStopsPlayer, ActionStopsPlayer, EndStopsPlayer,
             Disconnect, PlayerEnds
      <4> QED
        BY <2>1, <3>0, <3>1, <3>3, <4>1, BusyHere, SamePaths DEF PlayerFits
    <3> QED
      BY <3>4, <3>5
  <2> QED
    BY <2>5, <2>6, <2>7, <2>8, <2>9, <2>10 DEF IInv
\* A /play or a /stop empties the session.
<1>2. ASSUME IInv, NEW t \in Handlers,
             PlayClears(t) \/ \E s \in Sids : StopClears(t, s)
      PROVE  IInv'
  <2> USE <1>2
  \* What clearing a session's playlists leaves of them, and of those that getters
  \* hold: they are old.
  <2>1. ASSUME IInv, NEW s \in Sids, ClearsLists(s)
        PROVE  /\ GettersType'
               /\ \A u \in Getters :
                     /\ g'[u].at = g[u].at /\ g'[u].what = g[u].what /\ g'[u].id = g[u].id
                     /\ g'[u].sid = g[u].sid /\ g'[u].force = g[u].force
                     /\ g'[u].live = g[u].live
                     /\ g'[u].prev.gen = g[u].prev.gen /\ g'[u].body.gen = g[u].body.gen
                     /\ g[u].sid = s => g'[u].prev.old /\ g'[u].body.old
                     /\ g[u].sid # s => g'[u] = g[u]
               /\ \A u \in Getters : Unsent(u)' <=> Unsent(u)
               /\ DOMAIN master' = Sids /\ DOMAIN media' = Sids
               /\ \A r \in Sids \ {s} : master'[r] = master[r] /\ media'[r] = media[r]
               /\ master'[s] = 0 /\ DOMAIN media'[s] = Lists
               /\ \A l \in Lists : media'[s][l] = NoList
    <3> USE <2>1
    <3>1. GettersType /\ StoreFits
      BY DEF IInv, GettersFit
    <3>2. /\ DOMAIN master' = Sids /\ DOMAIN media' = Sids
          /\ \A r \in Sids \ {s} : master'[r] = master[r] /\ media'[r] = media[r]
          /\ master'[s] = 0 /\ DOMAIN media'[s] = Lists
          /\ \A l \in Lists : media'[s][l] = NoList
      BY <3>1 DEF ClearsLists, StoreFits
    <3>3. ASSUME NEW u \in Getters
          PROVE  /\ g'[u].at = g[u].at /\ g'[u].what = g[u].what /\ g'[u].id = g[u].id
                 /\ g'[u].sid = g[u].sid /\ g'[u].force = g[u].force
                 /\ g'[u].live = g[u].live
                 /\ g'[u].prev.gen = g[u].prev.gen /\ g'[u].body.gen = g[u].body.gen
                 /\ g[u].sid = s => g'[u].prev.old /\ g'[u].body.old
                 /\ g[u].sid # s => g'[u] = g[u]
                 /\ DOMAIN g'[u] = DOMAIN g[u]
                 /\ IsList(g'[u].prev) /\ IsList(g'[u].body)
      <4>1. /\ DOMAIN g[u] = {"at", "what", "sid", "id", "force", "body", "prev", "live"}
            /\ IsList(g[u].prev) /\ IsList(g[u].body)
        BY <3>1 DEF GettersType
      <4>2. CASE g[u].sid # s
        <5>1. g'[u] = g[u]
          BY <4>2 DEF ClearsLists
        <5> QED
          BY <4>1, <4>2, <5>1
      <4>3. CASE g[u].sid = s
        <5> DEFINE p == [g[u].prev EXCEPT !.old = TRUE]
                   b == [g[u].body EXCEPT !.old = TRUE]
        <5>1. /\ p.gen = g[u].prev.gen /\ p.old = TRUE /\ IsList(p)
              /\ b.gen = g[u].body.gen /\ b.old = TRUE /\ IsList(b)
          BY <4>1 DEF IsList
        <5>2. g'[u] = [g[u] EXCEPT !.prev = p, !.body = b]
          BY <4>1, <4>3 DEF ClearsLists
        <5> HIDE DEF p, b
        <5>3. g'[u].prev = p /\ g'[u].body = b /\ DOMAIN g'[u] = DOMAIN g[u]
          BY <4>1, <5>2
        <5>4. /\ g'[u].at = g[u].at /\ g'[u].what = g[u].what /\ g'[u].id = g[u].id
              /\ g'[u].sid = g[u].sid /\ g'[u].force = g[u].force /\ g'[u].live = g[u].live
          BY <4>1, <5>2
        <5> QED
          BY <4>3, <5>1, <5>3, <5>4
      <4> QED
        BY <4>2, <4>3
    <3>4. GettersType'
      <4>1. DOMAIN g' = Getters
        BY DEF ClearsLists
      <4> QED
        BY <3>1, <3>3, <4>1 DEF GettersType
    <3>5. \A u \in Getters : Unsent(u)' <=> Unsent(u)
      BY <3>3 DEF Unsent
    <3> QED
      BY <3>2, <3>3, <3>4, <3>5
  <2> USE HlsAssumption
  <2>0. HandlersFit /\ RequestsFit /\ YoungFit /\ GettersFit /\ StoreFits
    BY DEF IInv
  <2>2. PICK s \in Sids :
          /\ ClearsLists(s)
          /\ UNCHANGED <<active, gen, late, nextId, tags, seg, segmap, player, served, asked>>
          /\ \/ /\ h[t].at = "play.clear" /\ h[t].sid = s
                /\ h' = [h EXCEPT ![t].at = "play.bump"]
             \/ /\ h[t].at = "idle" /\ s \in Created
                /\ h' = [h EXCEPT ![t] = At("stop.drop", s)]
    <3>1. CASE PlayClears(t)
      <4>1. h[t].sid \in Sids
        BY <2>0, <3>1 DEF PlayClears, Step, HandlersFit, Bumping
      <4> QED
        BY <3>1, <4>1 DEF PlayClears, Step, session, playing
    <3>2. CASE \E s \in Sids : StopClears(t, s)
      BY <3>2 DEF StopClears, Step, session, playing
    <3> QED
      BY <3>1, <3>2
  <2>3. /\ h'[t].sid = s /\ h'[t].at \in {"play.bump", "stop.drop"}
        /\ h[t].sid \in {s, None} /\ h[t].at \in {"play.clear", "idle"}
        /\ h[t].at = "play.clear" => h[t].sid = s /\ h'[t].at = "play.bump"
        /\ h[t].at = "idle" => h[t].sid = None /\ h'[t].at = "stop.drop" /\ gen[s] # 0
    <3>1. h[t].at = "idle" /\ s \in Created => gen[s] # 0
      BY <2>0, BusyHere DEF HandlersFit, Created, RequestsFit
    <3> QED
      BY <2>0, <2>2, <3>1 DEF HandlersFit, At
  <2>4. HandlersFit'
    <3>1. NoAsk \in Asks
      BY DEF NoAsk, Request, Asks
    <3> QED
      BY <2>0, <2>2, <2>3, <3>1, BusyHere DEF HandlersFit, At, Bumping, Asking, Storing, Ending
  <2>5. RequestsFit'
    BY <2>0, <2>2 DEF RequestsFit, Asks
  <2>6. YoungFit'
    <3>1. NoList.gen = 0
      BY DEF NoList, Stored
    <3>2. \A r \in Sids, l \in Lists : media[r][l].gen = 0 => media'[r][l].gen = 0
      BY <2>2, <3>1, <2>1
    <3> QED
      BY <2>0, <2>2, <2>3, <3>2, <2>1, BusyHere DEF YoungFit, Bumping
  <2>7. GettersFit'
    <3>1. h'[t].at \notin Asking
      BY <2>3 DEF Asking
    <3> QED
      BY <2>0, <2>2, <3>1, <2>1, BusyHere DEF GettersFit
  <2>8. \A r \in Sids \ {s} : ~Busy(r, Clearing)'
    BY <2>3, BusyHere
  <2>9. StoreFits'
    <3>1. \A r \in Sids, l \in Lists : IsList(media'[r][l]) /\ Fits(r, l, media[r][l])'
      <4>1. ASSUME NEW l \in Lists PROVE IsList(media'[s][l]) /\ Fits(s, l, media[s][l])'
        <5>1. media'[s][l] = NoList
          BY <2>2, <2>1
        <5>2. IsList(NoList) /\ NoList.gen = 0
          BY DEF NoList, Stored, IsList
        <5> QED
          BY <5>1, <5>2 DEF Fits
      <4>2. ASSUME NEW r \in Sids \ {s}, NEW l \in Lists
            PROVE  IsList(media'[r][l]) /\ Fits(r, l, media[r][l])'
        BY <2>0, <2>2, <2>8, <4>2, <2>1, SamePaths DEF Fits, StoreFits
      <4> QED
        BY <4>1, <4>2
    <3>2. ASSUME NEW u \in Getters, g'[u].prev.gen # 0
          PROVE  Fits(g[u].sid, g[u].what, g[u].prev)'
      <4>1. CASE g[u].sid = s
        BY <2>2, <4>1, <2>1 DEF Fits
      <4>2. CASE g[u].sid # s
        <5>1. g'[u] = g[u] /\ g[u].prev.gen # 0
          BY <2>2, <3>2, <4>2, <2>1
        <5>2. g[u].sid \in Sids \ {s}
          BY <2>0, <4>2, <5>1 DEF GettersFit, GettersType
        <5> QED
          BY <2>0, <2>2, <2>8, <5>1, <5>2, SamePaths DEF Fits, StoreFits
      <4> QED
        BY <4>1, <4>2
    <3>3. ASSUME NEW r \in Sids
          PROVE  /\ master'[r] \in {0} \cup Gens(r, "master")
                 /\ Busy(r, Clearing)' => master'[r] = 0
                 /\ DOMAIN media'[r] = Lists
      BY <2>0, <2>2, <2>8, <2>1 DEF StoreFits
    <3>4. ASSUME NEW r \in Sids
          PROVE  ~Busy(r, {"play.tag"}) /\ ~Busy(r, {"play.tag", "play.unmap"})
      BY <2>3, BusyHere
    <3>5. DOMAIN master' = Sids /\ DOMAIN media' = Sids /\ DOMAIN seg' = Sids
          /\ segmap' \in [Sids -> Seq(AllUrls)]
      BY <2>0, <2>2, <2>1 DEF StoreFits
    <3> QED
      BY <2>0, <2>2, <3>1, <3>2, <3>3, <3>4, <3>5, SamePaths DEF StoreFits
  <2>10. ASSUME OneSession PROVE PlayerFits'
    <3>0. PlayerFits
      BY <2>10 DEF IInv
    <3>1. ASSUME h'[t].at \in Silent
          PROVE  player' = NoPlayer /\ served' = {} /\ \A u \in Getters : ~g'[u].live
      BY <2>2, <2>3, <3>0, <3>1, <2>1 DEF PlayerFits, Silent
    <3>2. ASSUME NEW u \in Getters, g'[u].force PROVE Fits(g[u].sid, g[u].what, g[u].body)'
      <4>1. g[u].sid = s
        BY <2>0, <2>2, <2>10, <3>2, <2>1 DEF OneSession, GettersFit, GettersType
      <4> QED
        BY <2>2, <4>1, <2>1 DEF Fits
    <3>3. h'[t].at \in Ending \/ served' = {}
      BY <2>2, <2>3, <3>0 DEF PlayerFits, Silent, Ending
    <3>4. \A p \in served : p.sid \in Sids /\ p.what \in Lists
      BY <3>0 DEF PlayerFits
    <3> QED
      BY <2>2, <3>1, <3>2, <3>3, <3>4, BusyHere DEF PlayerFits
  <2> QED
    BY <2>4, <2>5, <2>6, <2>7, <2>9, <2>10 DEF IInv
\* The rest of a /play, and of a /stop: the new generation and its request, the
\* segments and the local paths.
<1>3. ASSUME IInv, NEW t \in Handlers,
             PlayBumps(t) \/ PlayTags(t) \/ PlayUnmaps(t) \/ PlaySends(t) \/ StopDrops(t)
      PROVE  IInv'
  <2> USE <1>3
  <2> USE HlsAssumption
  <2>0. HandlersFit /\ RequestsFit /\ YoungFit /\ GettersFit /\ StoreFits
    BY DEF IInv
  <2>1. PICK s \in Sids : /\ s = h[t].sid
                         /\ UNCHANGED <<active, player, served, g, master, media>>
    BY <2>0 DEF PlayBumps, PlayTags, PlayUnmaps, PlaySends, StopDrops, Step, Done, session, store,
       playing, HandlersFit, Bumping, Asking
  <2>2. \A u \in Getters : Unsent(u)' <=> Unsent(u)
    BY <2>1 DEF Unsent
  <2>3. GettersType'
    BY <2>0, <2>1 DEF GettersFit, GettersType
  <2>4. CASE PlayBumps(t)
    <3> DEFINE q == Request(s, nextId[s], "master", gen[s] + 1)
    <3>1. /\ h' = [h EXCEPT ![t] = [at |-> "play.tag", sid |-> s, ask |-> q]]
          /\ h[t].at = "play.bump"
          /\ gen' = [gen EXCEPT ![s] = gen[s] + 1]
          /\ nextId' = [nextId EXCEPT ![s] = nextId[s] + 1]
          /\ late' = [late EXCEPT ![s] = {}]
          /\ UNCHANGED <<tags, seg, segmap, asked>>
      BY <2>1, <2>4 DEF PlayBumps, store
    <3>2. gen[s] \in 0..MaxGen /\ gen[s] < MaxGen /\ nextId[s] \in Nat
      BY <2>0, <2>1, <3>1 DEF HandlersFit, RequestsFit, Bumping
    <3>3. q \in Asks
      BY <2>1, <3>2 DEF Asks, Request
    <3>4. \A m \in asked : m.sid = s => m.id < nextId[s]
      BY <2>0 DEF RequestsFit
    <3>5. HandlersFit'
      <4>1. \A m \in asked : m.sid = s => m.id # nextId[s]
        BY <3>2, <3>4
      <4>2. q.id = nextId[s] /\ q = Request(s, q.id, "master", gen[s] + 1)
        BY DEF Request
      <4>3. h' \in [Handlers -> [at : {"idle", "end.active"} \cup Bumping \cup Asking
                                        \cup Ending \cup Storing,
                                sid : Sids \cup {None}, ask : Asks]]
        BY <2>0, <3>1, <3>3 DEF HandlersFit, Asking
      <4>4. h'[t].at = "play.tag" /\ h'[t].sid = s /\ h'[t].ask = q
        BY <2>0, <3>1 DEF HandlersFit
      <4>5. gen'[s] = gen[s] + 1 /\ nextId'[s] = nextId[s] + 1 /\ UNCHANGED asked
        BY <2>0, <3>1 DEF RequestsFit
      <4> HIDE DEF q
      <4> QED
        BY <3>2, <4>1, <4>2, <4>3, <4>4, <4>5, BusyHere DEF HandlersFit, Bumping, Asking, Storing,
           Ending
    <3>6. RequestsFit'
      <4>1. ASSUME NEW m \in asked
            PROVE  /\ m.sid \in Sids /\ m.what \in Whats
                   /\ m.gen <= gen'[m.sid] /\ m.id < nextId'[m.sid]
        <5>1. m \in Asks /\ m.sid \in Sids /\ m.gen <= gen[m.sid] /\ m.id < nextId[m.sid]
              /\ m.what \in Whats
          BY <2>0 DEF RequestsFit
        <5> QED
          BY <2>0, <3>1, <3>2, <5>1 DEF RequestsFit, Asks
      <4>2. ASSUME NEW r \in Sids PROVE tags'[r] \subseteq Nat \X (0..gen'[r])
        BY <2>0, <3>1, <3>2 DEF RequestsFit
      <4>3. gen' \in [Sids -> 0..MaxGen] /\ nextId' \in [Sids -> Nat]
            /\ late' \in [Sids -> SUBSET (Whats \X (1..MaxGen))]
        <5>1. gen[s] + 1 \in 0..MaxGen /\ nextId[s] + 1 \in Nat
          BY <3>2
        <5> QED
          BY <2>0, <2>1, <3>1, <5>1 DEF RequestsFit
      <4> QED
        BY <2>0, <2>1, <3>1, <4>1, <4>2, <4>3 DEF RequestsFit, Asks
    <3>7. YoungFit'
      BY <2>0, <2>1, <3>1, <3>2, BusyHere DEF YoungFit, RequestsFit
    <3>8. GettersFit'
      <4>1. ASSUME NEW u \in Getters, Unsent(u)
            PROVE  /\ g[u].id < nextId'[g[u].sid]
                   /\ g[u].sid = s => g[u].id # nextId[s]
        <5>1. g[u].sid \in Sids /\ g[u].id \in Nat /\ g[u].id < nextId[g[u].sid]
          BY <2>0, <4>1 DEF GettersFit, GettersType, Unsent
        <5> QED
          BY <2>0, <3>1, <3>2, <5>1 DEF RequestsFit
      <4>2. h'[t].at \in Asking /\ h'[t].sid = s /\ h'[t].ask.id = nextId[s]
        BY <2>0, <3>1 DEF HandlersFit, Asking, Request
      <4> QED
        BY <2>0, <2>1, <2>2, <2>3, <3>1, <4>1, <4>2, BusyHere DEF GettersFit
    <3>9. StoreFits'
      <4>1. /\ Busy(s, Clearing) /\ Busy(s, {"play.tag"})' /\ Busy(s, {"play.tag", "play.unmap"})'
            /\ \A r \in Sids \ {s} : ~Busy(r, Clearing)'
        <5>1. h'[t].at = "play.tag" /\ h'[t].sid = s
          BY <2>0, <3>1 DEF HandlersFit
        <5> QED
          BY <2>1, <3>1, <5>1, BusyHere DEF Clearing
      <4>0. ASSUME NEW r \in Sids \ {s}
            PROVE  /\ \A w : Gens(r, w)' = Gens(r, w)
                   /\ \A u : Known(r, u)' <=> Known(r, u)
        BY <2>0, <3>1 DEF RequestsFit, Gens, Known
      <4>2. ASSUME NEW r \in Sids \ {s}, NEW l, NEW b PROVE Fits(r, l, b) => Fits(r, l, b)'
        BY <3>1, <4>0, <4>1, SamePaths DEF Fits
      <4>3. ASSUME NEW l, NEW b PROVE Fits(s, l, b) => Fits(s, l, b)'
        BY <4>1 DEF Fits
      <4>4. \A r \in Sids : \A l, b : Fits(r, l, b) => Fits(r, l, b)'
        BY <4>2, <4>3
      <4>5. \A r \in Sids, l \in Lists : IsList(media'[r][l]) /\ Fits(r, l, media[r][l])'
        BY <2>0, <2>1, <4>4 DEF StoreFits
      <4>6. \A u \in Getters : g'[u].prev.gen # 0 => Fits(g[u].sid, g[u].what, g[u].prev)'
        BY <2>0, <2>1, <4>4 DEF StoreFits, GettersFit, GettersType
      <4>7. ASSUME NEW r \in Sids
            PROVE  /\ (master[r] \in {0} \cup Gens(r, "master"))'
                   /\ Busy(r, Clearing)' => master'[r] = 0
                   /\ (seg[r] \in {0} \cup Gens(r, "seg") \/ Busy(r, {"play.tag"}))'
        <5>1. CASE r = s
          BY <2>0, <2>1, <3>1, <4>1, <5>1 DEF StoreFits
        <5>2. CASE r # s
          <6>1. ~Busy(r, {"play.tag"}) /\ gen'[r] = gen[r]
            BY <2>0, <2>1, <3>1, <5>2, BusyHere DEF RequestsFit
          <6> QED
            BY <2>0, <2>1, <3>1, <4>0, <4>1, <5>2, <6>1 DEF StoreFits
        <5> QED
          BY <5>1, <5>2
      <4>8. \A r \in Sids \ {s} : gen'[r] = gen[r] /\ ~Busy(r, {"play.tag", "play.unmap"})
        BY <2>0, <3>1, BusyHere DEF RequestsFit
      <4> QED
        BY <2>0, <2>1, <3>1, <4>0, <4>1, <4>5, <4>6, <4>7, <4>8 DEF StoreFits
    <3>10. ASSUME OneSession PROVE PlayerFits'
      <4>1. PlayerFits /\ h[t].at \in Silent
        BY <3>1, <3>10 DEF IInv, Silent
      <4>2. Busy(s, Clearing) /\ \A r \in Sids : r = s
        BY <2>1, <3>1, <3>10, BusyHere DEF OneSession, Clearing
      <4>3. \A r \in Sids : \A l, b : Fits(r, l, b) => Fits(r, l, b)'
        BY <4>2 DEF Fits
      <4>4. \A u \in Getters : g'[u].force => Fits(g[u].sid, g[u].what, g[u].body)'
        BY <2>0, <2>1, <4>1, <4>3 DEF PlayerFits, GettersFit, GettersType
      <4> QED
        BY <2>1, <4>1, <4>4 DEF PlayerFits
    <3> QED
      BY <3>5, <3>6, <3>7, <3>8, <3>9, <3>10 DEF IInv
  <2>5. CASE PlayTags(t)
    <3>1. /\ h' = [h EXCEPT ![t].at = "play.unmap"] /\ h[t].at = "play.tag"
          /\ seg' = [seg EXCEPT ![s] = 0]
          /\ tags' = [tags EXCEPT ![s] = {<<h[t].ask.id, h[t].ask.gen>>}]
          /\ UNCHANGED <<gen, late, nextId, segmap, asked>>
      BY <2>1, <2>5 DEF PlayTags, Step
    <3>2. /\ h[t].ask.gen = gen[s] /\ h[t].ask.id \in Nat /\ gen[s] \in 0..MaxGen
          /\ \A m \in asked : m.sid = s => m.id # h[t].ask.id
      <4>1. /\ h[t].ask = Request(s, h[t].ask.id, "master", gen[s]) /\ h[t].ask \in Asks
            /\ \A m \in asked : m.sid = s => m.id # h[t].ask.id
        BY <2>0, <2>1, <3>1 DEF HandlersFit, Asking
      <4>2. h[t].ask.gen = gen[s] /\ h[t].ask.id \in Nat
        BY <4>1 DEF Request, Asks
      <4> QED
        BY <2>0, <4>1, <4>2 DEF RequestsFit
    <3>3. HandlersFit'
      BY <2>0, <2>1, <3>1, BusyHere DEF HandlersFit, Bumping, Asking, Storing, Ending
    <3>4. RequestsFit'
      <4>1. ASSUME NEW r \in Sids PROVE tags'[r] \subseteq Nat \X (0..gen[r])
        BY <2>0, <3>1, <3>2 DEF RequestsFit
      <4>2. ASSUME NEW m \in asked, NEW p \in tags'[m.sid], p[1] = m.id
            PROVE  p[2] <= m.gen
        <5>1. m.sid # s
          BY <2>0, <3>1, <3>2, <4>2 DEF RequestsFit
        <5>2. m.sid \in Sids /\ p \in tags[m.sid]
          BY <2>0, <3>1, <4>2, <5>1 DEF RequestsFit
        <5> QED
          BY <2>0, <4>2, <5>2 DEF RequestsFit
      <4>3. DOMAIN tags' = Sids
        BY <2>0, <3>1 DEF RequestsFit
      <4> QED
        BY <2>0, <2>1, <3>1, <4>1, <4>2, <4>3 DEF RequestsFit, Asks
    <3>5. YoungFit'
      BY <2>0, <2>1, <3>1, BusyHere DEF YoungFit, RequestsFit, HandlersFit, Bumping
    <3>6. GettersFit'
      <4>1. h[t].at \in Asking /\ h'[t].sid = h[t].sid /\ h'[t].ask = h[t].ask
        BY <2>0, <3>1 DEF HandlersFit, Asking
      <4> QED
        BY <2>0, <2>1, <2>2, <2>3, <3>1, <4>1, BusyHere DEF GettersFit
    <3>7. StoreFits'
      <4>1. /\ \A r : Busy(r, Clearing) <=> Busy(r, Clearing)'
            /\ \A r : Busy(r, {"play.tag", "play.unmap"})
                         <=> Busy(r, {"play.tag", "play.unmap"})'
            /\ \A r : Busy(r, {"play.tag"}) => r = s
        BY <2>0, <2>1, <3>1, BusyHere DEF HandlersFit, Clearing
      <4>2. \A r, l, b : Fits(r, l, b) => Fits(r, l, b)'
        BY <3>1, <4>1, SamePaths DEF Fits
      <4>3. /\ \A r \in Sids, l \in Lists : Fits(r, l, media[r][l])'
            /\ \A u \in Getters : g'[u].prev.gen # 0 => Fits(g[u].sid, g[u].what, g[u].prev)'
        BY <2>0, <2>1, <4>2 DEF StoreFits
      <4>4. /\ DOMAIN seg' = Sids
            /\ \A r \in Sids : seg'[r] \in {0} \cup Gens(r, "seg")
        BY <2>0, <3>1, <4>1 DEF StoreFits
      <4> QED
        BY <2>0, <2>1, <3>1, <4>1, <4>3, <4>4, SamePaths DEF StoreFits, IsList
    <3>8. ASSUME OneSession PROVE PlayerFits'
      <4>1. PlayerFits /\ h[t].at \in Silent
        BY <3>1, <3>8 DEF IInv, Silent
      <4>2. \A r : Busy(r, Clearing) <=> Busy(r, Clearing)'
        BY <2>0, <2>1, <3>1, BusyHere DEF HandlersFit, Clearing
      <4>3. \A u \in Getters : g'[u].force => Fits(g[u].sid, g[u].what, g[u].body)'
        BY <2>1, <3>1, <4>1, <4>2, SamePaths DEF PlayerFits, Fits
      <4> QED
        BY <2>1, <4>1, <4>3 DEF PlayerFits
    <3> QED
      BY <3>3, <3>4, <3>5, <3>6, <3>7, <3>8 DEF IInv
  \* The session is empty when its local paths go.
  <2>6. CASE PlayUnmaps(t) \/ StopDrops(t)
    <3>1. /\ \/ h[t].at = "play.unmap" /\ h' = [h EXCEPT ![t].at = "play.send"] /\ UNCHANGED seg
                /\ UNCHANGED late
             \/ /\ h[t].at = "stop.drop" /\ h' = [h EXCEPT ![t].at = "end.player"]
                /\ seg' = [seg EXCEPT ![s] = 0] /\ late' = [late EXCEPT ![s] = {}]
          /\ segmap' = [segmap EXCEPT ![s] = <<>>]
          /\ UNCHANGED <<gen, nextId, tags, asked>>
      BY <2>1, <2>6 DEF PlayUnmaps, StopDrops, Step, session
    <3>2. HandlersFit'
      BY <2>0, <2>1, <3>1, BusyHere DEF HandlersFit, Bumping, Asking, Storing, Ending
    <3>3. RequestsFit'
      BY <2>0, <2>1, <3>1 DEF RequestsFit, Asks
    <3>4. YoungFit'
      BY <2>0, <2>1, <3>1, BusyHere DEF YoungFit, HandlersFit, Bumping
    <3>5. GettersFit'
      <4>1. /\ h'[t].sid = h[t].sid /\ h'[t].ask = h[t].ask
            /\ h'[t].at \in Asking => h[t].at \in Asking
        BY <2>0, <3>1 DEF HandlersFit, Asking
      <4> QED
        BY <2>0, <2>1, <2>2, <2>3, <3>1, <4>1, BusyHere DEF GettersFit
    <3>6. /\ Busy(s, Clearing) /\ \A r \in Sids \ {s} : ~Busy(r, Clearing)
          /\ \A r : ~Busy(r, Clearing)' /\ ~Busy(r, {"play.tag"})
          /\ \A r : ~Busy(r, {"play.tag", "play.unmap"})'
          /\ \A r \in Sids \ {s} : ~Busy(r, {"play.tag", "play.unmap"})
      BY <2>0, <2>1, <3>1, BusyHere DEF HandlersFit, Clearing
    <3>10. ASSUME NEW r \in Sids \ {s}
           PROVE  /\ \A w : Gens(r, w)' = Gens(r, w)
                  /\ \A u : Known(r, u)' <=> Known(r, u)
      BY <2>0, <3>1 DEF RequestsFit, Gens, Known
    <3>7. ASSUME NEW r \in Sids, NEW l, NEW b, Fits(r, l, b) PROVE Fits(r, l, b)'
      <4>1. CASE r = s
        BY <3>6, <3>7, <4>1 DEF Fits
      <4>2. CASE r # s
        <5>1. segmap'[r] = segmap[r]
          BY <2>0, <3>1, <4>2 DEF StoreFits
        <5>2. Leads(r, l, b.gen, b.text) => Leads(r, l, b.gen, b.text)'
          BY <5>1 DEF Leads
        <5> QED
          BY <3>1, <3>6, <3>7, <3>10, <4>2, <5>2 DEF Fits
      <4> QED
        BY <4>1, <4>2
    <3>8. StoreFits'
      <4>1. /\ \A r \in Sids, l \in Lists : Fits(r, l, media[r][l])'
            /\ \A u \in Getters : g'[u].prev.gen # 0 => Fits(g[u].sid, g[u].what, g[u].prev)'
        BY <2>0, <2>1, <3>7 DEF StoreFits, GettersFit, GettersType
      <4>2. /\ DOMAIN seg' = Sids
            /\ \A r \in Sids : (seg[r] \in {0} \cup Gens(r, "seg"))'
            /\ \A r \in Sids : (master[r] \in {0} \cup Gens(r, "master"))'
        <5>1. master'[s] = 0 /\ (UNCHANGED <<gen, late, seg>> \/ seg'[s] = 0)
          BY <2>0, <2>1, <3>1, <3>6 DEF StoreFits
        <5>2. ASSUME NEW r \in Sids \ {s} PROVE seg'[r] = seg[r] /\ master'[r] = master[r]
          BY <2>0, <2>1, <3>1 DEF StoreFits
        <5>3. DOMAIN seg' = Sids
          BY <2>0, <3>1 DEF StoreFits
        <5>4. \A r \in Sids : /\ seg[r] \in {0} \cup Gens(r, "seg")
                             /\ master[r] \in {0} \cup Gens(r, "master")
          BY <2>0, <3>6 DEF StoreFits
        <5> QED
          BY <3>10, <5>1, <5>2, <5>3, <5>4, SamePaths
      <4>3. /\ segmap' \in [Sids -> Seq(AllUrls)] /\ segmap'[s] = <<>>
            /\ \A r \in Sids \ {s} : segmap'[r] = segmap[r]
        BY <2>0, <3>1 DEF StoreFits
      <4> QED
        BY <2>0, <2>1, <3>1, <3>6, <3>10, <4>1, <4>2, <4>3 DEF StoreFits, IsList, ToSet
    <3>9. ASSUME OneSession PROVE PlayerFits'
      <4>0. PlayerFits
        BY <3>9 DEF IInv
      <4>1. \A u \in Getters : g'[u].force => Fits(g[u].sid, g[u].what, g[u].body)'
        BY <2>0, <2>1, <3>7, <4>0 DEF PlayerFits, GettersFit, GettersType
      <4>2. h'[t].at \notin Silent /\ (h'[t].at \in Ending \/ served' = {})
        BY <2>0, <2>1, <3>1, <4>0 DEF PlayerFits, Silent, Ending, HandlersFit
      <4> QED
        BY <2>1, <4>0, <4>1, <4>2, BusyHere DEF PlayerFits
    <3> QED
      BY <3>2, <3>3, <3>4, <3>5, <3>8, <3>9 DEF IInv
  <2>7. CASE PlaySends(t)
    <3>1. /\ h' = [h EXCEPT ![t] = Resting] /\ h[t].at = "play.send"
          /\ asked' \in {asked, asked \cup {h[t].ask}}
          /\ UNCHANGED <<gen, late, nextId, tags, seg, segmap>>
      BY <2>7 DEF PlaySends, Done, session, store
    <3>2. /\ h[t].ask = Request(s, h[t].ask.id, "master", gen[s])
          /\ h[t].ask \in Asks /\ h[t].ask.id < nextId[s] /\ gen[s] \in 0..MaxGen
      BY <2>0, <2>1, <3>1 DEF HandlersFit, Asking, RequestsFit
    <3>3. HandlersFit'
      <4>1. NoAsk \in Asks
        BY DEF NoAsk, Request, Asks
      <4> QED
        BY <2>0, <3>1, <4>1, BusyHere DEF HandlersFit, Resting, At, Bumping, Asking, Storing, Ending
    <3>4. RequestsFit'
      <4>1. ASSUME NEW m \in asked'
            PROVE  /\ m \in Asks /\ m.sid \in Sids /\ m.what \in Whats
                   /\ m.gen <= gen[m.sid] /\ m.id < nextId[m.sid]
                   /\ \A p \in tags[m.sid] : p[1] = m.id => p[2] <= m.gen
        <5>1. CASE m \in asked
          BY <2>0, <5>1 DEF RequestsFit
        <5>2. CASE m = h[t].ask
          <6>1. m.sid = s /\ m.gen = gen[s] /\ m.what = "master" /\ m.id < nextId[s]
            BY <3>2, <5>2 DEF Request
          <6>2. \A p \in tags[s] : p[2] <= gen[s]
            BY <2>0, <3>2 DEF RequestsFit
          <6> QED
            BY <3>2, <5>2, <6>1, <6>2 DEF Whats
        <5> QED
          BY <3>1, <5>1, <5>2
      <4> QED
        BY <2>0, <2>1, <3>1, <4>1 DEF RequestsFit
    <3>5. YoungFit'
      BY <2>0, <2>1, <3>1, BusyHere DEF YoungFit, HandlersFit, Bumping, Resting, At
    <3>6. GettersFit'
      <4>1. /\ h'[t].at \notin Asking /\ h[t].at \in Asking
            /\ h[t].ask.sid = s
        BY <2>0, <3>1, <3>2 DEF HandlersFit, Asking, Resting, At, Request
      <4>2. ASSUME NEW u \in Getters, Unsent(u), NEW m \in asked', m.sid = g[u].sid
            PROVE  m.id # g[u].id
        BY <2>0, <2>1, <3>1, <4>1, <4>2, BusyHere DEF GettersFit
      <4> QED
        BY <2>0, <2>1, <2>2, <2>3, <3>1, <4>1, <4>2, BusyHere DEF GettersFit
    <3>7. /\ \A r : ~Busy(r, Clearing)' /\ ~Busy(r, Clearing)
          /\ \A r : ~Busy(r, {"play.tag", "play.unmap"}) /\ ~Busy(r, {"play.tag"})
      BY <2>0, <3>1, BusyHere DEF HandlersFit, Clearing, Resting, At
    <3>8. \A r, l, b : Fits(r, l, b) => Fits(r, l, b)'
      BY <3>1, <3>7, SamePaths DEF Fits
    <3>9. StoreFits'
      BY <2>0, <2>1, <3>1, <3>7, <3>8, SamePaths DEF StoreFits, IsList
    <3>10. ASSUME OneSession PROVE PlayerFits'
      <4>0. PlayerFits
        BY <3>10 DEF IInv
      <4>1. h'[t].at \notin Silent \cup Ending /\ h[t].at \notin Silent \cup Ending
        BY <2>0, <3>1 DEF HandlersFit, Silent, Ending, Resting, At
      <4> QED
        BY <2>1, <3>1, <3>8, <4>0, <4>1, BusyHere, SamePaths DEF PlayerFits
    <3> QED
      BY <3>3, <3>4, <3>5, <3>6, <3>9, <3>10 DEF IInv
  <2> QED
    BY <2>4, <2>5, <2>6, <2>7
\* The phone's answer: an answer found current is one to the session's current
\* generation, and what it brings is stored for that generation.
<1>4. ASSUME IInv, NEW t \in Handlers,
             \/ \E m \in asked : ActionChecks(t, m) \/ ActionTrusts(t, m)
             \/ ActionStores(t)
      PROVE  IInv'
  <2> USE <1>4
  <2> USE HlsAssumption
  <2>0. HandlersFit /\ RequestsFit /\ YoungFit /\ GettersFit /\ StoreFits
    BY DEF IInv
  <2>1. UNCHANGED <<active, gen, nextId, player, served, g>>
    BY DEF ActionChecks, ActionTrusts, ActionStores, session, playing
  <2>2. /\ \A u \in Getters : Unsent(u)' <=> Unsent(u)
        /\ GettersType'
    BY <2>0, <2>1 DEF Unsent, GettersFit, GettersType
  <2>3. CASE \E m \in asked : ActionChecks(t, m) \/ ActionTrusts(t, m)
    <3>1. PICK m \in asked : ActionChecks(t, m) \/ ActionTrusts(t, m)
      BY <2>3
    <3>2. h[t].at = "idle" /\ asked' \subseteq asked /\ UNCHANGED <<master, media, seg, segmap>>
      BY <3>1 DEF ActionChecks, ActionTrusts, store
    <3>3. CASE ActionChecks(t, m) /\ ~IsCurrent(m)
      <4>1. UNCHANGED <<tags, late, h>>
        BY <3>3 DEF ActionChecks
      <4>2. HandlersFit' /\ RequestsFit' /\ YoungFit' /\ GettersFit'
        BY <2>0, <2>1, <2>2, <3>2, <4>1, SamePaths DEF HandlersFit, RequestsFit, YoungFit, GettersFit, Busy, Asks
      <4>3. \A r, l, b : Fits(r, l, b) <=> Fits(r, l, b)'
        BY <2>1, <3>2, <4>1, SamePaths DEF Fits, Busy
      <4>4. StoreFits'
        BY <2>0, <2>1, <3>2, <4>1, <4>3, SamePaths DEF StoreFits, Busy, IsList
      <4>5. ASSUME OneSession PROVE PlayerFits'
        <5>1. PlayerFits
          BY <4>5 DEF IInv
        <5> QED
          BY <2>1, <3>2, <4>1, <4>3, <5>1, SamePaths DEF PlayerFits
      <4> QED
        BY <4>2, <4>4, <4>5 DEF IInv
    \* The answer is taken: it is current, or what it brings is noted as late.
    <3>4. CASE ActionTrusts(t, m) \/ (ActionChecks(t, m) /\ IsCurrent(m))
      <4>0. m \in Asks /\ m.sid \in Sids /\ m.what \in Whats /\ m.gen \in 0..MaxGen
            /\ m.gen <= gen[m.sid] /\ gen \in [Sids -> 0..MaxGen]
            /\ late \in [Sids -> SUBSET (Whats \X (1..MaxGen))]
        BY <2>0 DEF RequestsFit, Asks
      <4> DEFINE news == {<<m.what, m.gen>>} \ {<<m.what, gen[m.sid]>>}
      <4>1. /\ tags' = [tags EXCEPT ![m.sid] = {p \in @ : p[1] # m.id}] \/ UNCHANGED tags
            /\ h' = [h EXCEPT ![t] = [at |-> "action.store", sid |-> m.sid, ask |-> m]]
            /\ UNCHANGED late \/ late' = [late EXCEPT ![m.sid] = @ \cup news]
        BY <3>4 DEF ActionChecks, ActionTrusts
      <4>13. /\ late' \in [Sids -> SUBSET (Whats \X (1..MaxGen))]
             /\ \A r \in Sids : late[r] \subseteq late'[r]
        <5>1. m.gen # 0 => news \subseteq Whats \X (1..MaxGen)
          BY <4>0
        <5>2. ActionTrusts(t, m) => m.gen # 0
          BY DEF ActionTrusts
        <5>3. ActionChecks(t, m) => UNCHANGED late
          BY DEF ActionChecks
        <5> HIDE DEF news
        <5> QED
          BY <3>4, <4>0, <4>1, <5>1, <5>2, <5>3
      <4>14. \A r \in Sids : \A w : Gens(r, w) \subseteq Gens(r, w)'
        BY <2>1, <4>13 DEF Gens
      <4>15. \A r \in Sids : \A u : Known(r, u) => Known(r, u)'
        BY <4>14 DEF Known
      <4>16. gen[m.sid] # 0
        <5>1. CASE ActionTrusts(t, m)
          BY <4>0, <5>1 DEF ActionTrusts
        <5>2. CASE IsCurrent(m)
          <6>1. tags[m.sid] # {} /\ ~Busy(m.sid, Bumping)
            BY <3>2, <5>2, BusyHere DEF IsCurrent, Bumping
          <6> QED
            BY <2>0, <4>0, <6>1 DEF YoungFit
        <5> QED
          BY <3>4, <5>1, <5>2
      <4>2. m.gen \in Gens(m.sid, m.what)'
        <5>1. CASE ActionTrusts(t, m)
          <6>1. late' = [late EXCEPT ![m.sid] = @ \cup news] /\ m.gen # 0
            BY <5>1 DEF ActionTrusts
          <6>2. <<m.what, m.gen>> \in late'[m.sid] \/ m.gen = gen[m.sid]
            BY <4>0, <6>1
          <6> QED
            BY <2>1, <4>0, <6>1, <6>2 DEF Gens
        <5>2. CASE IsCurrent(m)
          <6>1. gen[m.sid] <= m.gen
            BY <2>0, <5>2 DEF RequestsFit, IsCurrent
          <6>2. m.gen = gen[m.sid]
            BY <4>0, <6>1
          <6> QED
            BY <2>1, <6>2 DEF Gens
        <5> QED
          BY <3>4, <5>1, <5>2
      <4>3. m = Request(m.sid, m.id, m.what, m.gen)
        BY <4>0 DEF Asks, Request
      <4>4. HandlersFit'
        BY <2>0, <2>1, <3>2, <4>0, <4>1, <4>2, <4>3, BusyHere DEF HandlersFit, Bumping, Asking,
           Storing, Ending
      <4>5. RequestsFit'
        <5>1. DOMAIN tags' = Sids /\ \A r \in Sids : tags'[r] \subseteq tags[r]
          BY <2>0, <4>0, <4>1 DEF RequestsFit
        <5> QED
          BY <2>0, <2>1, <3>2, <4>13, <5>1 DEF RequestsFit, Asks
      <4>6. YoungFit'
        <5>2. h'[t].sid = m.sid /\ \A r : ~Busy(r, Bumping)
          BY <2>0, <3>2, <4>1, BusyHere DEF HandlersFit, Bumping
        <5>3. \A r \in Sids : tags[r] = {} => tags'[r] = {}
          BY <2>0, <4>0, <4>1 DEF RequestsFit
        <5>4. ASSUME NEW r \in Sids, gen[r] = 0, h'[t].sid = r PROVE FALSE
          BY <4>16, <5>2, <5>4
        <5> QED
          BY <2>0, <2>1, <3>2, <5>2, <5>3, <5>4, BusyHere DEF YoungFit
      <4>7. h'[t].at = "action.store"
        BY <2>0, <4>1 DEF HandlersFit
      <4>8. GettersFit'
        BY <2>0, <2>1, <2>2, <3>2, <4>7, BusyHere DEF GettersFit, Asking
      <4>9. /\ \A r : ~Busy(r, Clearing) /\ ~Busy(r, Clearing)'
            /\ \A r : ~Busy(r, {"play.tag"}) /\ ~Busy(r, {"play.tag", "play.unmap"})
        BY <3>2, <4>7, BusyHere DEF Clearing
      <4>10. \A r \in Sids : \A l, b : Fits(r, l, b) => Fits(r, l, b)'
        BY <2>1, <3>2, <4>9, <4>14, SamePaths DEF Fits
      <4>11. StoreFits'
        <5>1. \A u \in Getters : g[u].prev.gen # 0 => g[u].sid \in Sids
          BY <2>0 DEF GettersFit, GettersType
        <5> QED
          BY <2>0, <2>1, <3>2, <4>9, <4>10, <4>14, <4>15, <5>1 DEF StoreFits, IsList
      <4>12. ASSUME OneSession PROVE PlayerFits'
        <5>1. PlayerFits
          BY <4>12 DEF IInv
        <5>2. h'[t].at \notin Silent /\ h[t].at \notin Ending
          BY <3>2, <4>7 DEF Silent, Ending
        <5>3. \A u \in Getters : g[u].force => g[u].sid \in Sids
          BY <2>0 DEF GettersFit, GettersType
        <5> QED
          BY <2>1, <3>2, <4>10, <5>1, <5>2, <5>3, BusyHere, SamePaths DEF PlayerFits
      <4> QED
        BY <4>4, <4>5, <4>6, <4>8, <4>11, <4>12 DEF IInv
    <3> QED
      BY <3>1, <3>3, <3>4
  <2>4. CASE ActionStores(t)
    <3>1. PICK s \in Sids : s = h[t].sid
      BY <2>0, <2>4 DEF ActionStores, HandlersFit, Storing
    <3>2. PICK m \in Asks : /\ m = h[t].ask /\ m.sid = s /\ m.what \in Whats
                            /\ m.gen \in Gens(s, m.what)
      <4>1. h[t].ask \in Asks /\ h[t].ask.what \in Whats
            /\ h[t].ask = Request(s, h[t].ask.id, h[t].ask.what, h[t].ask.gen)
            /\ h[t].ask.gen \in Gens(s, h[t].ask.what)
        BY <2>0, <2>4, <3>1 DEF ActionStores, HandlersFit
      <4>2. h[t].ask.sid = s
        BY <4>1 DEF Request
      <4> QED
        BY <4>1, <4>2
    <3>3. h[t].at = "action.store" /\ UNCHANGED <<tags, late, asked>>
      BY <2>4 DEF ActionStores, session
    <3>4. gen[s] \in 1..MaxGen /\ m.gen \in 1..MaxGen
      <4>1. gen[s] # 0
        BY <2>0, <3>1, <3>3 DEF YoungFit, Bumping
      <4> QED
        BY <2>0, <3>2, <4>1 DEF RequestsFit, Gens
    <3>5. \/ h' = [h EXCEPT ![t] = Resting]
          \/ m.what = "master" /\ h' = [h EXCEPT ![t].at = "action.stop"]
      BY <2>4, <3>2 DEF ActionStores, Step, Done, Whats
    <3>6. /\ h'[t].at \in {"idle", "action.stop"}
          /\ h'[t].at = "idle" => h'[t].sid = None
          /\ h'[t].at = "action.stop" => h'[t].sid = s
      BY <2>0, <3>1, <3>5 DEF HandlersFit, Resting, At
    <3>7. HandlersFit'
      <4>1. NoAsk \in Asks
        BY DEF NoAsk, Request, Asks
      <4> QED
        BY <2>0, <2>1, <3>1, <3>3, <3>5, <4>1, BusyHere DEF HandlersFit, Resting, At, Bumping, Asking,
           Storing, Ending
    <3>8. RequestsFit' /\ YoungFit'
      <4>1. RequestsFit'
        BY <2>0, <2>1, <3>3 DEF RequestsFit, Asks
      <4>2. \A r : ~Busy(r, Bumping)
        BY <3>3, BusyHere DEF Bumping
      <4>3. \A r \in Sids : gen[r] = 0 => h'[t].sid # r
        BY <3>4, <3>6, HlsAssumption
      <4>4. \A r \in Sids, l \in Lists : gen[r] = 0 => media'[r][l] = media[r][l]
        <5>1. CASE m.what \in Lists
          <6>1. PICK v : media' = [media EXCEPT ![s][m.what] = v]
            BY <2>4, <3>2, <5>1 DEF ActionStores, StoresList
          <6> QED
            BY <2>0, <3>4, <6>1 DEF StoreFits
        <5>2. CASE m.what \notin Lists
          BY <2>4, <3>2, <5>2 DEF ActionStores, Whats
        <5> QED
          BY <5>1, <5>2
      <4> QED
        BY <2>0, <2>1, <3>3, <4>1, <4>2, <4>3, <4>4, BusyHere DEF YoungFit
    <3>9. GettersFit'
      BY <2>0, <2>1, <2>2, <3>3, <3>6, BusyHere DEF GettersFit, Asking
    <3>10. /\ \A r : ~Busy(r, Clearing) /\ ~Busy(r, Clearing)'
           /\ \A r : ~Busy(r, {"play.tag"}) /\ ~Busy(r, {"play.tag", "play.unmap"})
      BY <3>3, <3>6, BusyHere DEF Clearing
    <3>11. ASSUME UNCHANGED <<media, segmap>>,
                  \/ m.what = "master" /\ master' = [master EXCEPT ![s] = m.gen] /\ UNCHANGED seg
                  \/ m.what = "seg" /\ seg' = [seg EXCEPT ![s] = m.gen] /\ UNCHANGED master
           PROVE  StoreFits' /\ (OneSession => PlayerFits')
      <4>1. \A r, l, b : Fits(r, l, b) <=> Fits(r, l, b)'
        BY <2>1, <3>3, <3>10, <3>11, SamePaths DEF Fits
      <4>2. /\ DOMAIN master' = Sids /\ DOMAIN seg' = Sids
            /\ \A r \in Sids : master'[r] \in {0} \cup Gens(r, "master")
            /\ \A r \in Sids : seg'[r] \in {0} \cup Gens(r, "seg")
        BY <2>0, <3>2, <3>10, <3>11 DEF StoreFits
      <4>3. StoreFits'
        <5>1. UNCHANGED <<media, segmap>>
          BY <3>11
        <5>2. /\ \A r \in Sids, l \in Lists : IsList(media[r][l])' /\ Fits(r, l, media[r][l])'
              /\ \A u \in Getters : (g[u].prev.gen # 0 => Fits(g[u].sid, g[u].what, g[u].prev))'
          BY <2>0, <2>1, <4>1, <5>1 DEF StoreFits, IsList
        <5> QED
          BY <2>0, <2>1, <3>3, <3>10, <4>2, <5>1, <5>2, SamePaths DEF StoreFits
      <4>4. ASSUME OneSession PROVE PlayerFits'
        <5>1. PlayerFits
          BY <4>4 DEF IInv
        <5>2. h'[t].at \notin Silent /\ h[t].at \notin Ending
          BY <3>3, <3>6 DEF Silent, Ending
        <5> QED
          BY <2>1, <3>11, <4>1, <5>1, <5>2, BusyHere, SamePaths DEF PlayerFits
      <4> QED
        BY <4>3, <4>4
    <3>12. CASE m.what \notin Lists
      <4>1. /\ UNCHANGED <<media, segmap>>
            /\ \/ m.what = "master" /\ master' = [master EXCEPT ![s] = m.gen] /\ UNCHANGED seg
               \/ m.what = "seg" /\ seg' = [seg EXCEPT ![s] = m.gen] /\ UNCHANGED master
        BY <2>4, <3>2, <3>12 DEF ActionStores, Whats
      <4> QED
        BY <3>7, <3>8, <3>9, <3>11, <4>1 DEF IInv
    <3>13. CASE m.what \in Lists
      <4>0. PICK n \in 1..MaxGen, from \in Nat : n = m.gen /\ from = Len(segmap[s])
        BY <2>0, <3>4 DEF StoreFits
      <4> DEFINE home == Expanded(Playlists[n][m.what])
                 urls == Originals(home)
      <4>1. /\ UNCHANGED <<master, seg>>
            /\ media' = [media EXCEPT ![s][m.what] = Stored(n, Localised(home, from))]
            /\ segmap' = [segmap EXCEPT ![s] =
                             SubSeq(segmap[s], 1, from) \o urls
                               \o SubSeq(segmap[s], from + Len(urls) + 1, Len(segmap[s]))]
        BY <2>0, <2>4, <3>2, <3>13, <4>0 DEF ActionStores, StoresList, NextPath, StoreFits
      <4>2. /\ segmap[s] \in Seq(AllUrls) /\ Len(segmap[s]) = from
            /\ urls \in Seq(ToSet(urls)) /\ Len(urls) \in Nat
            /\ \A i \in Rewritten(home) : /\ Rank(home, i) \in Nat
                                         /\ Rank(home, i) + 1 <= Len(urls)
                                         /\ urls[Rank(home, i) + 1] = home[i].url
        <5>1. IsText(home)
          BY <3>13, ExpandedIsText
        <5> HIDE DEF home
        <5>2. /\ urls \in Seq(ToSet(urls))
              /\ \A i \in Rewritten(home) : /\ Rank(home, i) \in Nat
                                           /\ Rank(home, i) + 1 <= Len(urls)
                                           /\ urls[Rank(home, i) + 1] = home[i].url
          BY <5>1, Numbered
        <5> HIDE DEF urls
        <5>3. Len(urls) \in Nat
          BY <5>2
        <5>4. segmap[s] \in Seq(AllUrls)
          BY <2>0 DEF StoreFits
        <5> QED
          BY <4>0, <5>2, <5>3, <5>4
      <4>3. UrlsOf(n, m.what) \subseteq AllUrls /\ ToSet(urls) = UrlsOf(n, m.what)
        BY <3>13 DEF AllUrls, UrlsOf
      <4> HIDE DEF home, urls
      <4>4. segmap'[s] = segmap[s] \o urls /\ \A r \in Sids \ {s} : segmap'[r] = segmap[r]
        <5>1. SubSeq(segmap[s], 1, from) = segmap[s]
          BY <4>2
        <5>2. SubSeq(segmap[s], from + Len(urls) + 1, Len(segmap[s])) = <<>>
          BY <4>2
        <5>3. (segmap[s] \o urls) \o <<>> = segmap[s] \o urls
          BY <4>2, <4>3
        <5> QED
          BY <2>0, <4>1, <5>1, <5>2, <5>3 DEF StoreFits
      <4>5. /\ segmap'[s] \in Seq(AllUrls) /\ Len(segmap'[s]) = from + Len(urls)
            /\ \A k \in 1..from : segmap'[s][k] = segmap[s][k]
            /\ \A k \in 1..Len(urls) : segmap'[s][from + k] = urls[k]
        <5>1. ASSUME NEW old \in Seq(AllUrls), NEW new \in Seq(AllUrls)
              PROVE  /\ old \o new \in Seq(AllUrls) /\ Len(old \o new) = Len(old) + Len(new)
                     /\ \A k \in 1..Len(old) : (old \o new)[k] = old[k]
                     /\ \A k \in 1..Len(new) : (old \o new)[Len(old) + k] = new[k]
          OBVIOUS
        <5>2. urls \in Seq(AllUrls)
          BY <4>2, <4>3
        <5>3. segmap[s] \in Seq(AllUrls)
          BY <4>2
        <5> QED
          <6>1. /\ segmap[s] \o urls \in Seq(AllUrls)
                /\ Len(segmap[s] \o urls) = Len(segmap[s]) + Len(urls)
                /\ \A k \in 1..Len(segmap[s]) : (segmap[s] \o urls)[k] = segmap[s][k]
                /\ \A k \in 1..Len(urls) : (segmap[s] \o urls)[Len(segmap[s]) + k] = urls[k]
            BY <5>1, <5>2, <5>3
          <6> QED
            BY <4>2, <4>4, <6>1
      <4>6. Leads(s, m.what, n, Localised(home, from))'
        <5>1. from \in 0..Len(segmap'[s])
          BY <4>2, <4>5
        <5>2. ASSUME NEW i \in Rewritten(home)
              PROVE  /\ from + Rank(home, i) + 1 <= Len(segmap'[s])
                     /\ segmap'[s][from + Rank(home, i) + 1] = home[i].url
          <6>1. Rank(home, i) + 1 \in 1..Len(urls)
                /\ from + Rank(home, i) + 1 = from + (Rank(home, i) + 1)
            BY <4>2
          <6> QED
            BY <4>2, <4>5, <6>1
        <5> QED
          BY <5>1, <5>2 DEF Leads, home
      <4>7. \A r \in Sids : Len(segmap[r]) \in Nat /\ Len(segmap[r]) <= Len(segmap'[r])
        <5>1. ASSUME NEW r \in Sids PROVE Len(segmap[r]) \in Nat
          <6>1. segmap[r] \in Seq(AllUrls)
            BY <2>0 DEF StoreFits
          <6> QED
            BY <6>1
        <5>2. ASSUME NEW r \in Sids PROVE Len(segmap[r]) <= Len(segmap'[r])
          <6>1. CASE r = s
            BY <4>2, <4>5, <6>1
          <6>2. CASE r # s
            <7>1. segmap'[r] = segmap[r]
              BY <4>4, <6>2
            <7> QED
              BY <5>1, <7>1
          <6> QED
            BY <6>1, <6>2
        <5> QED
          BY <5>1, <5>2
      <4>8. ASSUME NEW r \in Sids, NEW l \in Lists, NEW v \in 1..MaxGen, NEW text,
                   Leads(r, l, v, text)
            PROVE  Leads(r, l, v, text)'
        <5>1. CASE r = s
          <6> DEFINE there == Expanded(Playlists[v][l])
          <6>1. \A i \in Rewritten(there) : Rank(there, i) \in Nat
            BY ExpandedIsText, Numbered
          <6>2. PICK k \in 0..from :
                  /\ text = Localised(there, k)
                  /\ \A i \in Rewritten(there) :
                        /\ k + Rank(there, i) + 1 <= from
                        /\ segmap[s][k + Rank(there, i) + 1] = there[i].url
            BY <4>0, <4>8, <5>1 DEF Leads
          <6> HIDE DEF there
          <6>3. \A i \in Rewritten(there) : k + Rank(there, i) + 1 \in 1..from
            BY <4>2, <6>1, <6>2
          <6>4. k \in 0..Len(segmap'[s])
                /\ \A i \in Rewritten(there) :
                      /\ k + Rank(there, i) + 1 <= Len(segmap'[s])
                      /\ segmap'[s][k + Rank(there, i) + 1] = there[i].url
            BY <4>2, <4>5, <6>2, <6>3
          <6> QED
            BY <5>1, <6>2, <6>4 DEF Leads, there
        <5>2. CASE r # s
          BY <4>4, <4>8, <5>2 DEF Leads
        <5> QED
          BY <5>1, <5>2
      <4>9. ASSUME NEW r \in Sids, NEW l \in Lists, NEW b, IsList(b), Fits(r, l, b)
            PROVE  Fits(r, l, b)'
        <5>1. b.gen # 0 => b.gen \in 1..MaxGen
          BY <4>9 DEF IsList
        <5> QED
          BY <2>1, <3>3, <3>10, <4>8, <4>9, <5>1, SamePaths DEF Fits
      <4>10. StoreFits'
        <5>1. ASSUME NEW r \in Sids, NEW l \in Lists
              PROVE  IsList(media'[r][l]) /\ Fits(r, l, media[r][l])'
          <6>1. CASE r = s /\ l = m.what
            <7>1. media'[r][l] = Stored(n, Localised(home, from))
              BY <2>0, <4>1, <6>1 DEF StoreFits
            <7>2. IsList(media'[r][l])
              BY <4>0, <7>1, HlsAssumption DEF Stored, IsList
            <7>3. /\ media'[r][l].gen = n /\ media'[r][l].text = Localised(home, from)
                  /\ n \in Gens(r, l)' /\ ~Busy(r, Clearing)'
              BY <2>1, <3>2, <3>3, <3>10, <4>0, <6>1, <7>1, SamePaths DEF Stored
            <7> QED
              BY <4>6, <6>1, <7>2, <7>3 DEF Fits
          <6>2. CASE r # s \/ l # m.what
            <7>1. media'[r][l] = media[r][l] /\ IsList(media[r][l]) /\ Fits(r, l, media[r][l])
              BY <2>0, <4>1, <6>2 DEF StoreFits
            <7>2. ASSUME NEW b, b = media[r][l] PROVE Fits(r, l, b)'
              BY <4>9, <7>1, <7>2
            <7> QED
              BY <7>1, <7>2 DEF Fits
          <6> QED
            BY <6>1, <6>2
        <5>2. \A u \in Getters : g'[u].prev.gen # 0 => Fits(g[u].sid, g[u].what, g[u].prev)'
          BY <2>0, <2>1, <4>9 DEF StoreFits, GettersFit, GettersType
        <5>3. DOMAIN media' = Sids /\ \A r \in Sids : DOMAIN media'[r] = Lists
          BY <2>0, <4>1 DEF StoreFits
        <5>4. segmap' \in [Sids -> Seq(AllUrls)]
          BY <2>0, <4>1, <4>4, <4>5 DEF StoreFits
        <5>5. ASSUME NEW r \in Sids PROVE \A u \in ToSet(segmap'[r]) : Known(r, u)
          <6>1. CASE r = s
            <7> DEFINE here == {u \in AllUrls : Known(s, u)}
            <7>1. \A k \in 1..from : segmap[s][k] \in here
              <8>1. \A u \in ToSet(segmap[s]) : Known(s, u)
                BY <2>0, <3>10 DEF StoreFits
              <8>2. DOMAIN segmap[s] = 1..from /\ (segmap[s] = <<>> => from = 0)
                BY <4>2
              <8>3. \A k \in DOMAIN segmap[s] : segmap[s][k] \in ToSet(segmap[s]) \cap AllUrls
                BY <4>2 DEF ToSet
              <8> QED
                BY <8>1, <8>2, <8>3
            <7>2. \A k \in 1..Len(urls) : urls[k] \in here
              <8>1. DOMAIN urls = 1..Len(urls)
                BY <4>2
              <8>2. \A k \in DOMAIN urls : urls[k] \in ToSet(urls)
                BY DEF ToSet
              <8>3. ToSet(urls) \subseteq here
                BY <3>2, <3>13, <4>0, <4>3 DEF Known
              <8> HIDE DEF here
              <8> QED
                BY <8>1, <8>2, <8>3
            <7> HIDE DEF here
            <7>3. ASSUME NEW k \in 1..Len(segmap'[s]) PROVE segmap'[s][k] \in here
              <8>1. CASE k <= from
                <9>1. k \in 1..from
                  BY <4>2, <4>5, <8>1
                <9>2. segmap'[s][k] = segmap[s][k]
                  BY <4>5, <9>1
                <9> QED
                  BY <7>1, <9>1, <9>2
              <8>2. CASE k > from
                <9>1. k - from \in 1..Len(urls) /\ k = from + (k - from)
                  BY <4>2, <4>5, <8>2
                <9> QED
                  BY <4>5, <7>2, <9>1
              <8> QED
                BY <4>2, <8>1, <8>2
            <7> QED
              <8>1. \A u \in here : Known(s, u)
                BY DEF here
              <8>2. \A u \in ToSet(segmap'[s]) : u \in here
                BY <4>2, <4>5, <7>3 DEF ToSet
              <8> QED
                BY <6>1, <8>1, <8>2
          <6>2. CASE r # s
            BY <2>0, <3>10, <4>4, <6>2 DEF StoreFits
          <6> QED
            BY <6>1, <6>2
        <5>6. /\ DOMAIN master' = Sids /\ DOMAIN seg' = Sids
              /\ \A r \in Sids : (master[r] \in {0} \cup Gens(r, "master"))'
              /\ \A r \in Sids : (seg[r] \in {0} \cup Gens(r, "seg"))'
          BY <2>0, <2>1, <3>3, <3>10, <4>1, SamePaths DEF StoreFits
        <5>7. \A r \in Sids, l \in Lists : IsList(media[r][l])' /\ Fits(r, l, media[r][l])'
          BY <5>1 DEF IsList
        <5>8. \A u \in Getters : (g[u].prev.gen # 0)' => Fits(g[u].sid, g[u].what, g[u].prev)'
          BY <2>1, <5>2
        <5>9. \A r \in Sids : \A u \in ToSet(segmap'[r]) : Known(r, u)'
          BY <2>1, <3>3, <5>5, SamePaths
        <5> QED
          BY <3>10, <5>3, <5>4, <5>6, <5>7, <5>8, <5>9 DEF StoreFits
      <4>11. ASSUME OneSession PROVE PlayerFits'
        <5>1. PlayerFits
          BY <4>11 DEF IInv
        <5>2. h'[t].at \notin Silent /\ h[t].at \notin Ending
          BY <3>3, <3>6 DEF Silent, Ending
        <5>3. \A u \in Getters : g'[u].force => Fits(g[u].sid, g[u].what, g[u].body)'
          BY <2>0, <2>1, <4>9, <5>1 DEF PlayerFits, GettersFit, GettersType
        <5>4. ASSUME NEW p \in served, ~p.of.old
              PROVE  /\ p.of.gen \in 1..MaxGen
                     /\ \E text \in {Localised(Expanded(Playlists[p.of.gen][p.what]), k) :
                                        k \in 0..Len(segmap'[p.sid])} :
                           /\ p.of.text = Forwarded(text)
                           /\ Leads(p.sid, p.what, p.of.gen, text)'
          <6>1. /\ p.of.gen \in 1..MaxGen /\ p.sid \in Sids /\ p.what \in Lists
                /\ \E text \in {Localised(Expanded(Playlists[p.of.gen][p.what]), k) :
                                   k \in 0..Len(segmap[p.sid])} :
                      /\ p.of.text = Forwarded(text)
                      /\ Leads(p.sid, p.what, p.of.gen, text)
            BY <5>1, <5>2, <5>4, BusyHere DEF PlayerFits
          <6>2. 0..Len(segmap[p.sid]) \subseteq 0..Len(segmap'[p.sid])
            BY <4>7, <6>1
          <6> QED
            BY <4>8, <6>1, <6>2
        <5> QED
          BY <2>1, <5>1, <5>2, <5>3, <5>4, BusyHere DEF PlayerFits
      <4> QED
        BY <3>7, <3>8, <3>9, <4>10, <4>11 DEF IInv
    <3> QED
      BY <3>12, <3>13
  <2> QED
    BY <2>3, <2>4
\* The end of a GET: a segment is taken, a refresh that failed puts back what it had
\* set aside, and the player is given a playlist that fits.
<1>5. ASSUME IInv, NEW t \in Getters,
             \/ GetServesCached(t) \/ (GetResolves(t) /\ Answers(t)) \/ GetRelayed(t)
             \/ GetFinds(t) \/ GetSendFails(t) \/ GetArrives(t) \/ GetTimesOut(t)
      PROVE  IInv'
  <2> USE <1>5
  <2> USE HlsAssumption
  <2>0. HandlersFit /\ RequestsFit /\ YoungFit /\ GettersFit /\ StoreFits
    BY DEF IInv
  <2>1. /\ UNCHANGED <<active, gen, late, nextId, tags, asked, player, h, master, segmap>>
        /\ g' = [g EXCEPT ![t] = Waiting0]
        /\ UNCHANGED seg \/ seg' = [seg EXCEPT ![g[t].sid] = 0]
    BY DEF GetServesCached, GetResolves, GetRelayed, GetFinds, GetSendFails, GetArrives, GetTimesOut,
       GetUnchanged, Answers, Gives, Takes, Restores, store, session
  <2>2. \/ UNCHANGED media
        \/ g[t].prev.gen # 0 /\ media' = [media EXCEPT ![g[t].sid][g[t].what] = g[t].prev]
    BY DEF GetServesCached, GetResolves, GetRelayed, GetFinds, GetSendFails, GetArrives, GetTimesOut,
       Takes, Restores, store
  <2>3. \/ UNCHANGED served
        \/ /\ g[t].what \in Lists /\ g[t].live
           /\ \E s, list :
                 /\ s \in Sids
                 /\ served' = served \cup {Given(s, g[t].what, list)}
                 /\ list.gen # 0
                 /\ (g[t].force /\ s = g[t].sid /\ list = g[t].body) \/ list = media[s][g[t].what]
    <3>1. CASE GetServesCached(t)
      <4>1. CASE g[t].what \in Lists
        <5>1. PICK s \in Holders(g[t].what) : Gives(t, s, media[s][g[t].what])
          BY <3>1, <4>1 DEF GetServesCached, Preferred
        <5>2. s \in Sids /\ media[s][g[t].what].gen # 0
          BY <4>1, <5>1 DEF Holders
        <5>3. PICK list : list = media[s][g[t].what] /\ Gives(t, s, list) /\ list.gen # 0
          BY <5>1, <5>2
        <5> QED
          BY <4>1, <5>2, <5>3 DEF Gives
      <4>2. CASE g[t].what \notin Lists
        BY <3>1, <4>2 DEF GetServesCached, Gives
      <4> QED
        BY <4>1, <4>2
    <3>2. CASE (GetResolves(t) /\ Answers(t)) \/ GetRelayed(t)
      BY <3>2 DEF GetRelayed, Answers
    <3>3. CASE GetFinds(t) \/ GetArrives(t)
      <4>1. CASE g[t].what = "seg"
        BY <3>3, <4>1 DEF GetFinds, GetArrives, Takes, Answers
      <4>2. CASE g[t].what # "seg"
        <5>1. /\ g[t].what \in Lists /\ g[t].sid \in Sids
              /\ media[g[t].sid][g[t].what].gen # 0
              /\ Gives(t, g[t].sid, media[g[t].sid][g[t].what])
          BY <2>0, <3>3, <4>2 DEF GetFinds, GetArrives, Present, Takes, GettersFit
        <5>2. PICK s, list : /\ s \in Sids /\ list = media[s][g[t].what]
                             /\ Gives(t, s, list) /\ list.gen # 0
          BY <5>1
        <5> QED
          BY <5>1, <5>2 DEF Gives
      <4> QED
        BY <4>1, <4>2
    <3>4. CASE GetSendFails(t) \/ GetTimesOut(t)
      <4>1. CASE ~g[t].force
        BY <3>4, <4>1 DEF GetSendFails, GetTimesOut, Restores, Answers
      <4>2. CASE g[t].force
        <5>1. /\ g[t].what \in Lists /\ g[t].sid \in Sids /\ g[t].body.gen # 0
              /\ Gives(t, g[t].sid, g[t].body)
          BY <2>0, <3>4, <4>2 DEF GetSendFails, GetTimesOut, Restores, GettersFit, GettersType
        <5> QED
          BY <4>2, <5>1 DEF Gives
      <4> QED
        BY <4>1, <4>2
    <3> QED
      BY <3>1, <3>2, <3>3, <3>4
  <2>4. /\ \A r, places : Busy(r, places) <=> Busy(r, places)'
        /\ \A r, l, b : Fits(r, l, b) <=> Fits(r, l, b)'
    BY <2>1, SamePaths DEF Busy, Fits
  <2>5. /\ DOMAIN media' = Sids /\ \A r \in Sids : DOMAIN media'[r] = Lists
        /\ \A r \in Sids, l \in Lists :
              media'[r][l] = media[r][l]
                \/ (r = g[t].sid /\ l = g[t].what /\ media'[r][l] = g[t].prev /\ g[t].prev.gen # 0)
    <3>1. DOMAIN media = Sids /\ \A r \in Sids : DOMAIN media[r] = Lists
      BY <2>0 DEF StoreFits
    <3>2. CASE UNCHANGED media
      BY <3>1, <3>2
    <3>3. CASE ~UNCHANGED media
      <4>1. PICK s, w, v : /\ g[t].prev.gen # 0 /\ s = g[t].sid /\ w = g[t].what /\ v = g[t].prev
                           /\ media' = [media EXCEPT ![s][w] = v]
        BY <2>2, <3>3
      <4>2. /\ DOMAIN media' = Sids
            /\ \A r \in Sids : media'[r] = IF r = s THEN [media[r] EXCEPT ![w] = v] ELSE media[r]
        BY <3>1, <4>1
      <4>3. ASSUME NEW r \in Sids
            PROVE  /\ DOMAIN media'[r] = Lists
                   /\ \A l \in Lists : media'[r][l] = IF r = s /\ l = w THEN v ELSE media[r][l]
        BY <3>1, <4>2
      <4> QED
        BY <4>1, <4>2, <4>3
    <3> QED
      BY <3>2, <3>3
  <2>6. /\ DOMAIN g' = Getters /\ g'[t] = Waiting0
        /\ \A u \in Getters \ {t} : g'[u] = g[u]
    BY <2>0, <2>1 DEF GettersFit, GettersType
  <2>7. HandlersFit' /\ RequestsFit'
    BY <2>0, <2>1, SamePaths DEF HandlersFit, RequestsFit, Asks
  <2>8. YoungFit'
    <3>1. \A r \in Sids, l \in Lists : gen[r] = 0 => media'[r][l].gen = 0
      BY <2>0, <2>5 DEF YoungFit
    <3>2. g'[t].sid = None
      BY <2>6 DEF Waiting0
    <3> QED
      BY <2>0, <2>1, <2>4, <2>6, <3>1, <3>2 DEF YoungFit
  <2>9. GettersFit'
    <3>1. IsList(NoList) /\ NoList.gen = 0
      BY DEF IsList, NoList, Stored
    <3>2. /\ DOMAIN g'[t] = {"at", "what", "sid", "id", "force", "body", "prev", "live"}
          /\ g'[t].at = "idle" /\ g'[t].what = "none" /\ g'[t].sid = None /\ g'[t].id = 0
          /\ g'[t].force = FALSE /\ g'[t].live = FALSE
          /\ g'[t].body = NoList /\ g'[t].prev = NoList
      BY <2>6 DEF Waiting0
    <3>3. GettersType'
      <4>1. ASSUME NEW u \in Getters PROVE IsList(g'[u].body) /\ IsList(g'[u].prev)
        BY <2>0, <2>6, <3>1, <3>2 DEF GettersFit, GettersType
      <4>2. ASSUME NEW u \in Getters
            PROVE  /\ DOMAIN g'[u] = {"at", "what", "sid", "id", "force", "body", "prev", "live"}
                   /\ g'[u].at \in {"idle", "look", "resolve", "relay", "choose", "check",
                                      "tag", "send", "wait"}
                   /\ g'[u].what \in Whats \cup {"none", "path"} /\ g'[u].id \in Nat
                   /\ g'[u].sid \in Sids \cup {None}
                   /\ g'[u].force \in BOOLEAN /\ g'[u].live \in BOOLEAN
        <5>1. CASE u = t
          <6>1. 0 \in Nat
            OBVIOUS
          <6> QED
            BY <3>2, <5>1, <6>1, Zenon
        <5>2. CASE u # t
          BY <2>0, <2>6, <5>2 DEF GettersFit, GettersType
        <5> QED
          BY <5>1, <5>2
      <4> QED
        BY <2>6, <4>1, <4>2 DEF GettersType, IsList
    <3>4. ~Unsent(t)' /\ \A u \in Getters \ {t} : Unsent(u)' <=> Unsent(u)
      BY <2>6, <3>2 DEF Unsent
    <3>5. "none" \notin Whats
      BY DEF Whats
    <3> QED
      BY <2>0, <2>1, <2>6, <3>1, <3>2, <3>3, <3>4, <3>5 DEF GettersFit
  <2>10. StoreFits'
    <3>1. \A r \in Sids, l \in Lists : IsList(media[r][l])' /\ Fits(r, l, media[r][l])'
      <4>1. ASSUME NEW r \in Sids, NEW l \in Lists
            PROVE  IsList(media'[r][l]) /\ Fits(r, l, media'[r][l])
        <5>1. IsList(media[r][l]) /\ Fits(r, l, media[r][l])
          BY <2>0 DEF StoreFits
        <5>2. IsList(g[t].prev) /\ (g[t].prev.gen # 0 => Fits(g[t].sid, g[t].what, g[t].prev))
          BY <2>0 DEF StoreFits, GettersFit, GettersType
        <5> QED
          BY <2>5, <5>1, <5>2
      <4>2. ASSUME NEW r \in Sids, NEW l \in Lists PROVE Fits(r, l, media[r][l])'
        <5>1. PICK b : b = media'[r][l] /\ Fits(r, l, b)'
          BY <2>4, <4>1
        <5> QED
          BY <5>1 DEF Fits
      <4> QED
        BY <4>1, <4>2 DEF IsList
    <3>2. \A u \in Getters : g'[u].prev.gen # 0 =>
             g'[u] = g[u] /\ Fits(g[u].sid, g[u].what, g[u].prev)
      BY <2>0, <2>6 DEF StoreFits, Waiting0, NoList, Stored
    <3>3. /\ DOMAIN seg' = Sids
          /\ \A r \in Sids : seg'[r] \in {seg[r], 0}
      BY <2>0, <2>1 DEF StoreFits
    <3> QED
      BY <2>0, <2>1, <2>4, <2>5, <3>1, <3>2, <3>3, SamePaths DEF StoreFits
  <2>11. ASSUME OneSession PROVE PlayerFits'
    <3>1. PlayerFits
      BY <2>11 DEF IInv
    <3>2. \A u \in Getters : g'[u].live => g[u].live
      BY <2>6 DEF Waiting0
    <3>3. \A u \in Getters : g'[u].force =>
             g'[u] = g[u] /\ Fits(g[u].sid, g[u].what, g[u].body)
      BY <2>6, <3>1 DEF PlayerFits, Waiting0
    <3>4. CASE UNCHANGED served
      BY <2>1, <2>4, <3>1, <3>2, <3>3, <3>4, SamePaths DEF PlayerFits
    <3>5. CASE ~UNCHANGED served
      <4>1. PICK s, list :
              /\ s \in Sids
              /\ served' = served \cup {Given(s, g[t].what, list)}
              /\ g[t].what \in Lists /\ g[t].live /\ list.gen # 0
              /\ (g[t].force /\ s = g[t].sid /\ list = g[t].body) \/ list = media[s][g[t].what]
        BY <2>3, <3>5
      <4>2. IsList(list) /\ Fits(s, g[t].what, list)
        BY <2>0, <3>1, <4>1 DEF StoreFits, PlayerFits, GettersFit, GettersType
      <4> DEFINE new == Given(s, g[t].what, list)
                 of == new.of
      <4>3. /\ new.sid = s /\ new.what = g[t].what
            /\ of.gen = list.gen /\ of.old = list.old /\ of.text = Forwarded(list.text)
        BY <4>2 DEF IsList, Served, Given
      <4> HIDE DEF of
      <4>4. \A u \in Handlers : h[u].at \notin Silent
        BY <3>1, <4>1 DEF PlayerFits
      <4>5. of.old \/
            /\ of.gen \in 1..MaxGen
            /\ \E text \in {Localised(Expanded(Playlists[of.gen][g[t].what]), k) :
                               k \in 0..Len(segmap[s])} :
                  /\ of.text = Forwarded(text)
                  /\ Leads(s, g[t].what, of.gen, text)
        <5>1. CASE list.old
          BY <4>3, <5>1
        <5>2. CASE ~list.old
          <6>1. list.gen \in 1..MaxGen /\ Leads(s, g[t].what, list.gen, list.text)
            BY <4>1, <4>2, <5>2 DEF Fits, IsList
          <6>2. \E k \in 0..Len(segmap[s]) :
                   list.text = Localised(Expanded(Playlists[list.gen][g[t].what]), k)
            BY <6>1 DEF Leads
          <6> QED
            BY <4>3, <6>1, <6>2
        <5> QED
          BY <5>1, <5>2
      <4>6. served' = served \cup {new} /\ new.of = of
        BY <4>1 DEF of
      <4> HIDE DEF new
      <4>7. ASSUME NEW p \in served'
            PROVE  /\ p.sid \in Sids /\ p.what \in Lists
                   /\ p.of.old \/ (\E u \in Handlers : h[u].at \in Ending) \/
                      /\ p.of.gen \in 1..MaxGen
                      /\ \E text \in {Localised(Expanded(Playlists[p.of.gen][p.what]), k) :
                                         k \in 0..Len(segmap[p.sid])} :
                            /\ p.of.text = Forwarded(text)
                            /\ Leads(p.sid, p.what, p.of.gen, text)
        <5>1. CASE p \in served
          BY <3>1, <5>1 DEF PlayerFits
        <5>2. CASE p = new
          BY <4>1, <4>3, <4>5, <4>6, <5>2
        <5> QED
          BY <4>6, <5>1, <5>2
      <4>8. /\ \A u \in Handlers : h'[u].at \notin Silent
            /\ \A u \in Getters : g'[u].force => Fits(g[u].sid, g[u].what, g[u].body)'
        BY <2>1, <2>4, <3>3, <4>4
      <4> QED
        BY <2>1, <4>7, <4>8, SamePaths DEF PlayerFits
    <3> QED
      BY <3>4, <3>5
  <2> QED
    BY <2>7, <2>8, <2>9, <2>10, <2>11 DEF IInv
\* The steps of a GET before its answer: from the first look to the request sent.
<1>6. ASSUME IInv, NEW t \in Getters,
             \/ \E w \in Lists \cup {"master", "seg", "path"} : GetStarts(t, w)
             \/ GetRefreshes(t) \/ GetMisses(t) \/ GetChooses(t) \/ GetMustAsk(t)
             \/ GetTags(t) \/ GetSends(t) \/ Relays(t)
      PROVE  IInv'
  <2> USE <1>6
  <2> USE HlsAssumption
  <2>0. HandlersFit /\ RequestsFit /\ YoungFit /\ GettersFit /\ StoreFits
    BY DEF IInv
  <2> DEFINE fields == {"at", "what", "sid", "id", "force", "body", "prev", "live"}
  <2>1. UNCHANGED <<active, gen, late, player, served, h, master, seg, segmap>>
    BY DEF GetStarts, GetRefreshes, GetMisses, GetChooses, GetMustAsk, GetTags, GetSends,
       Relays, GetResolves, GetUnchanged, session, store, playing
  <2>2. /\ \A r, places : Busy(r, places) <=> Busy(r, places)'
        /\ \A r, l, b : Fits(r, l, b) <=> Fits(r, l, b)'
    BY <2>1, SamePaths DEF Busy, Fits
  <2>3. DOMAIN g = Getters /\ DOMAIN g[t] = fields
    BY <2>0 DEF GettersFit, GettersType
  <2>4. DOMAIN g' = Getters /\ \A u \in Getters \ {t} : g'[u] = g[u]
    BY <2>3 DEF GetStarts, GetRefreshes, GetMisses, GetChooses, GetMustAsk, GetTags, GetSends, Goes,
       Relays
  \* A getter that has no request yet.
  <2>5. CASE (\E w \in Lists \cup {"master", "seg", "path"} : GetStarts(t, w))
             \/ GetRefreshes(t) \/ GetMisses(t) \/ Relays(t)
    <3>1. UNCHANGED <<nextId, tags, asked, media>>
      BY <2>5 DEF GetStarts, GetRefreshes, GetMisses, Relays, GetResolves, session, store
    <3>2. /\ DOMAIN g'[t] = fields
          /\ g'[t].at \in {"look", "resolve", "relay", "choose"}
          /\ g'[t].at \in {"resolve", "relay"} <=> g'[t].what \notin Whats
          /\ g'[t].what \in Whats \cup {"none", "path"} /\ g'[t].id \in Nat
          /\ g'[t].live \in BOOLEAN /\ IsList(g'[t].prev) /\ g'[t].prev.gen = 0
          /\ \/ g'[t].sid = None /\ g'[t].force = FALSE /\ IsList(g'[t].body)
             \/ /\ g'[t].at = "choose" /\ g'[t].force = TRUE
                /\ g'[t].sid \in Sids /\ g'[t].what \in Lists
                /\ g'[t].body = media[g'[t].sid][g'[t].what] /\ g'[t].body.gen # 0
          /\ g'[t].live => g[t].live \/ player # NoPlayer
      <4>1. ASSUME NEW w \in Lists \cup {"master", "seg", "path"}, GetStarts(t, w)
            PROVE  /\ DOMAIN g'[t] = fields
                   /\ g'[t].at = IF w = "seg" THEN "choose"
                                 ELSE IF w = "path" THEN "resolve" ELSE "look"
                   /\ g'[t].what = w /\ g'[t].id = 0 /\ g'[t].live = TRUE
                   /\ g'[t].prev = NoList /\ g'[t].body = NoList
                   /\ g'[t].sid = None /\ g'[t].force = FALSE /\ player # NoPlayer
        BY <2>3, <4>1 DEF GetStarts, Waiting0
      <4>2. IsList(NoList) /\ NoList.gen = 0
        BY DEF IsList, NoList, Stored
      <4>3. CASE \E w \in Lists \cup {"master", "seg", "path"} : GetStarts(t, w)
        <5>1. PICK w \in Lists \cup {"master", "seg", "path"} : GetStarts(t, w)
          BY <4>3
        <5>2. w = "path" \/ w \in Whats
          BY DEF Whats
        <5>3. "path" \notin Whats
          BY DEF Whats
        <5>4. /\ g'[t].at \in {"look", "resolve", "choose"}
              /\ g'[t].at \in {"resolve", "relay"} <=> g'[t].what \notin Whats
          BY <4>1, <5>1, <5>2, <5>3, HlsAssumption DEF Whats
        <5>5. g'[t].id \in Nat /\ g'[t].what \in Whats \cup {"path"}
          <6>1. 0 \in Nat /\ g'[t].id = 0 /\ g'[t].what = w
            BY <4>1, <5>1
          <6> QED
            BY <5>2, <6>1, Zenon
        <5> QED
          BY <4>1, <4>2, <5>1, <5>4, <5>5
      <4>4. g[t].at = "look" => /\ g[t].sid = None /\ g[t].force = FALSE /\ g[t].prev.gen = 0
                                /\ IsList(g[t].prev) /\ IsList(g[t].body)
                                /\ g[t].what \in Whats /\ g[t].id \in Nat
                                /\ g[t].live \in BOOLEAN
        BY <2>0 DEF GettersFit, GettersType
      <4>5. "path" \notin Whats
        BY DEF Whats
      <4>6. CASE GetRefreshes(t)
        <5>1. PICK s \in Holders(g[t].what) :
                /\ g[t].at = "look" /\ g[t].what \in Lists
                /\ g' = [g EXCEPT ![t].at = "choose", ![t].force = TRUE, ![t].sid = s,
                                  ![t].body = media[s][g[t].what]]
          BY <4>6 DEF GetRefreshes, Preferred
        <5>2. s \in Sids /\ media[s][g[t].what].gen # 0
          BY <5>1 DEF Holders
        <5>3. /\ DOMAIN g'[t] = fields /\ g'[t].at = "choose" /\ g'[t].force = TRUE /\ g'[t].sid = s
              /\ g'[t].body = media[s][g[t].what] /\ g'[t].what = g[t].what /\ g'[t].id = g[t].id
              /\ g'[t].prev = g[t].prev /\ g'[t].live = g[t].live
          BY <2>3, <5>1
        <5> QED
          BY <4>4, <4>5, <5>1, <5>2, <5>3
      <4>7. CASE GetMisses(t)
        <5>1. /\ DOMAIN g'[t] = fields /\ g[t].at = "look" /\ g'[t].at = "choose"
              /\ g'[t].force = g[t].force /\ g'[t].sid = g[t].sid /\ g'[t].body = g[t].body
              /\ g'[t].what = g[t].what /\ g'[t].id = g[t].id /\ g'[t].prev = g[t].prev
              /\ g'[t].live = g[t].live
          BY <2>3, <4>7 DEF GetMisses, Goes
        <5> QED
          BY <4>4, <4>5, <5>1
      <4>8. CASE Relays(t)
        <5>1. /\ g[t].sid = None /\ g[t].force = FALSE /\ g[t].prev.gen = 0
              /\ IsList(g[t].prev) /\ IsList(g[t].body)
              /\ g[t].what \in {"none", "path"} \ Whats
              /\ g[t].id \in Nat /\ g[t].live \in BOOLEAN
          BY <2>0, <4>8 DEF Relays, Goes, GettersFit, GettersType
        <5>2. /\ DOMAIN g'[t] = fields /\ g'[t].at = "relay"
              /\ g'[t].force = g[t].force /\ g'[t].sid = g[t].sid /\ g'[t].body = g[t].body
              /\ g'[t].what = g[t].what /\ g'[t].id = g[t].id /\ g'[t].prev = g[t].prev
              /\ g'[t].live = g[t].live
          BY <2>3, <4>8 DEF Relays, Goes
        <5> QED
          BY <5>1, <5>2
      <4> QED
        BY <2>5, <4>3, <4>6, <4>7, <4>8
    <3>3. HandlersFit' /\ RequestsFit'
      BY <2>0, <2>1, <3>1, SamePaths DEF HandlersFit, RequestsFit, Asks
    <3>4. YoungFit'
      <4>1. \A r \in Sids : gen[r] = 0 => g'[t].sid # r
        BY <2>0, <3>2 DEF YoungFit
      <4> QED
        BY <2>0, <2>1, <2>2, <2>4, <3>1, <3>2, <4>1 DEF YoungFit
    <3>5. GettersFit'
      <4>1. ~Unsent(t)' /\ \A u \in Getters \ {t} : Unsent(u)' <=> Unsent(u)
        BY <2>4, <3>2 DEF Unsent
      <4>2. IsList(g'[t].body)
        BY <2>0, <3>2 DEF StoreFits
      <4>3. GettersType'
        <5>1. ASSUME NEW u \in Getters PROVE IsList(g'[u].body) /\ IsList(g'[u].prev)
          BY <2>0, <2>4, <3>2, <4>2 DEF GettersFit, GettersType
        <5>2. ASSUME NEW u \in Getters
              PROVE  /\ DOMAIN g'[u] = fields
                     /\ g'[u].at \in {"idle", "look", "resolve", "relay", "choose", "check",
                                       "tag", "send", "wait"}
                     /\ g'[u].what \in Whats \cup {"none", "path"} /\ g'[u].id \in Nat
                     /\ g'[u].sid \in Sids \cup {None}
                     /\ g'[u].force \in BOOLEAN /\ g'[u].live \in BOOLEAN
          <6>1. CASE u = t
            BY <3>2, <6>1
          <6>2. CASE u # t
            BY <2>0, <2>4, <6>2 DEF GettersFit, GettersType
          <6> QED
            BY <6>1, <6>2
        <5> QED
          BY <2>4, <5>1, <5>2 DEF GettersType, IsList
      <4>4. "path" \notin Whats
        BY DEF Whats
      <4> QED
        BY <2>0, <2>1, <2>4, <3>1, <3>2, <4>1, <4>3, <4>4 DEF GettersFit
    <3>6. StoreFits'
      <4>1. \A u \in Getters : g'[u].prev.gen # 0 =>
               g'[u] = g[u] /\ Fits(g[u].sid, g[u].what, g[u].prev)
        BY <2>0, <2>4, <3>2 DEF StoreFits
      <4>2. \A r \in Sids, l \in Lists : Fits(r, l, media[r][l])'
        BY <2>0, <2>2, <3>1 DEF StoreFits
      <4> QED
        BY <2>0, <2>1, <2>2, <3>1, <4>1, <4>2, SamePaths DEF StoreFits, IsList
    <3>7. ASSUME OneSession PROVE PlayerFits'
      <4>1. PlayerFits
        BY <3>7 DEF IInv
      <4>2. \A u \in Getters : g'[u].force => Fits(g[u].sid, g[u].what, g[u].body)'
        BY <2>0, <2>2, <2>4, <3>2, <4>1 DEF PlayerFits, StoreFits
      <4>3. \A u \in Handlers : h[u].at \in Silent => \A v \in Getters : ~g'[v].live
        BY <2>4, <3>2, <4>1 DEF PlayerFits
      <4> QED
        BY <2>1, <2>2, <4>1, <4>2, <4>3, SamePaths DEF PlayerFits
    <3> QED
      BY <3>3, <3>4, <3>5, <3>6, <3>7 DEF IInv
  \* A getter that is given its request's id, tags it, and sends it.
  <2>6. CASE GetChooses(t)
    <3>1. PICK s \in Created :
            /\ g[t].at = "choose"
            /\ nextId' = [nextId EXCEPT ![s] = @ + 1]
            /\ g' = [g EXCEPT ![t].at = "check", ![t].sid = s, ![t].id = nextId[s]]
            /\ UNCHANGED <<tags, asked, media>>
      BY <2>6 DEF GetChooses, Preferred, store
    <3>2. s \in Sids /\ nextId[s] \in Nat
      BY <2>0, <3>1 DEF Created, RequestsFit
    <3>3. /\ DOMAIN g'[t] = fields /\ g'[t].at = "check" /\ g'[t].sid = s /\ g'[t].id = nextId[s]
          /\ g'[t].what = g[t].what /\ g'[t].force = g[t].force /\ g'[t].live = g[t].live
          /\ g'[t].body = g[t].body /\ g'[t].prev = g[t].prev
      BY <2>3, <3>1
    <3>4. g[t].prev.gen = 0 /\ g[t].what \in Whats
      BY <2>0, <3>1 DEF GettersFit
    <3>5. /\ DOMAIN nextId' = Sids /\ nextId'[s] = nextId[s] + 1
          /\ \A r \in Sids : nextId'[r] \in Nat /\ nextId[r] <= nextId'[r]
      BY <2>0, <3>1, <3>2 DEF RequestsFit
    <3>6. \A m \in asked : m \in Asks /\ m.sid \in Sids /\ m.id < nextId[m.sid]
      BY <2>0 DEF RequestsFit
    <3>7. HandlersFit'
      <4>1. ASSUME NEW u \in Handlers, h[u].at \in Asking PROVE h[u].ask.id < nextId'[h[u].sid]
        <5>1. h[u].sid \in Sids /\ h[u].ask.id < nextId[h[u].sid] /\ h[u].ask.id \in Nat
          BY <2>0, <4>1 DEF HandlersFit, Asks
        <5> QED
          BY <2>0, <3>5, <5>1 DEF RequestsFit
      <4> QED
        BY <2>0, <2>1, <3>1, <4>1, SamePaths DEF HandlersFit
    <3>8. RequestsFit'
      <4>1. \A m \in asked : m.id < nextId'[m.sid]
        BY <2>0, <3>5, <3>6 DEF RequestsFit, Asks
      <4> QED
        BY <2>0, <2>1, <3>1, <3>5, <4>1 DEF RequestsFit, Asks
    <3>9. YoungFit'
      <4>1. gen[s] = 0 => Busy(s, Bumping)
        BY <2>0, <3>1, <3>2 DEF Created, YoungFit, Busy, RequestsFit
      <4> QED
        BY <2>0, <2>1, <2>2, <2>4, <3>1, <3>3, <3>4, <4>1 DEF YoungFit
    <3>10. GettersFit'
      <4>1. Unsent(t)' /\ \A u \in Getters \ {t} : Unsent(u)' <=> Unsent(u)
        BY <2>4, <3>3 DEF Unsent
      <4>2. ASSUME NEW u \in Getters \ {t}, Unsent(u)
            PROVE  /\ g[u].id < nextId'[g[u].sid]
                   /\ g[u].sid = s => g[u].id # nextId[s]
        <5>1. g[u].sid \in Sids /\ g[u].id \in Nat /\ g[u].id < nextId[g[u].sid]
          BY <2>0, <4>2 DEF GettersFit, GettersType, Unsent
        <5> QED
          BY <2>0, <3>2, <3>5, <5>1 DEF RequestsFit
      <4>3. ASSUME NEW u \in Handlers, h[u].sid = s, h[u].at \in Asking
            PROVE  h[u].ask.id # nextId[s]
        <5>1. h[u].ask.id < nextId[s] /\ h[u].ask.id \in Nat
          BY <2>0, <4>3 DEF HandlersFit, Asks
        <5> QED
          BY <3>2, <5>1
      <4>4. \A m \in asked : m.sid = s => m.id # nextId[s]
        BY <3>2, <3>6 DEF Asks
      <4>5. GettersType'
        <5>1. ASSUME NEW u \in Getters PROVE IsList(g'[u].body) /\ IsList(g'[u].prev)
          BY <2>0, <2>4, <3>3 DEF GettersFit, GettersType
        <5>2. ASSUME NEW u \in Getters
              PROVE  /\ DOMAIN g'[u] = fields
                     /\ g'[u].at \in {"idle", "look", "resolve", "relay", "choose", "check",
                                       "tag", "send", "wait"}
                     /\ g'[u].what \in Whats \cup {"none", "path"} /\ g'[u].id \in Nat
                     /\ g'[u].sid \in Sids \cup {None}
                     /\ g'[u].force \in BOOLEAN /\ g'[u].live \in BOOLEAN
          <6>1. CASE u = t
            BY <2>0, <3>2, <3>3, <6>1 DEF GettersFit, GettersType
          <6>2. CASE u # t
            BY <2>0, <2>4, <6>2 DEF GettersFit, GettersType
          <6> QED
            BY <6>1, <6>2
        <5> QED
          BY <2>4, <5>1, <5>2 DEF GettersType, IsList
      <4>6. nextId[s] < nextId'[s]
        BY <3>2, <3>5
      <4> QED
        BY <2>0, <2>1, <2>4, <3>1, <3>2, <3>3, <3>4, <4>1, <4>2, <4>3, <4>4, <4>5, <4>6
           DEF GettersFit
    <3>11. StoreFits'
      <4>1. \A u \in Getters : g'[u].prev.gen # 0 =>
               g'[u] = g[u] /\ Fits(g[u].sid, g[u].what, g[u].prev)
        BY <2>0, <2>4, <3>3, <3>4 DEF StoreFits
      <4>2. \A r \in Sids, l \in Lists : Fits(r, l, media[r][l])'
        BY <2>0, <2>2, <3>1 DEF StoreFits
      <4>3. UNCHANGED media
        BY <3>1
      <4> QED
        BY <2>0, <2>1, <2>2, <4>1, <4>2, <4>3, SamePaths DEF StoreFits, IsList
  \* With one session, a refresh asks the session whose playlist it has at hand.
    <3>12. ASSUME OneSession PROVE PlayerFits'
      <4>1. PlayerFits
        BY <3>12 DEF IInv
      <4>2. g[t].force => g[t].sid = s
        BY <2>0, <3>2, <3>12 DEF OneSession, GettersFit, GettersType
      <4>3. \A u \in Getters : g'[u].force => Fits(g[u].sid, g[u].what, g[u].body)'
        BY <2>2, <2>4, <3>3, <4>1, <4>2 DEF PlayerFits
      <4>4. \A u \in Handlers : h[u].at \in Silent => \A v \in Getters : ~g'[v].live
        BY <2>4, <3>3, <4>1 DEF PlayerFits
      <4> QED
        BY <2>1, <2>2, <4>1, <4>3, <4>4, SamePaths DEF PlayerFits
    <3> QED
      BY <3>7, <3>8, <3>9, <3>10, <3>11, <3>12 DEF IInv
  <2>7. CASE GetMustAsk(t) \/ GetTags(t) \/ GetSends(t)
    <3>1. PICK s \in Sids :
            /\ s = g[t].sid /\ g[t].at \in {"check", "tag", "send"} /\ g[t].what \in Whats
            /\ g[t].id \in Nat
      BY <2>0, <2>7 DEF GetMustAsk, GetTags, GetSends, Goes, GettersFit, GettersType
    <3>2. UNCHANGED nextId
      BY <2>7 DEF GetMustAsk, GetTags, GetSends, session
    <3>3. /\ DOMAIN g'[t] = fields /\ g'[t].at \in {"tag", "send", "wait"}
          /\ g'[t].what = g[t].what /\ g'[t].sid = s /\ g'[t].id = g[t].id
          /\ g'[t].force = g[t].force /\ g'[t].body = g[t].body /\ g'[t].live = g[t].live
      <4>1. CASE GetTags(t) \/ GetSends(t)
        BY <2>3, <3>1, <4>1 DEF GetTags, GetSends, Goes
      <4>2. CASE GetMustAsk(t)
        <5>1. \/ g' = [g EXCEPT ![t].at = "tag"]
              \/ g' = [g EXCEPT ![t].at = "tag", ![t].prev = media[s][g[t].what]]
          BY <3>1, <4>2 DEF GetMustAsk, Goes
        <5> QED
          BY <2>3, <3>1, <5>1
      <4> QED
        BY <2>7, <4>1, <4>2
    <3>4. \/ UNCHANGED media /\ g'[t].prev = g[t].prev
          \/ /\ g[t].what \in Lists /\ g[t].at = "check"
             /\ g'[t].prev = media[s][g[t].what] /\ media[s][g[t].what].gen # 0
             /\ media' = [media EXCEPT ![s][g[t].what] = NoList]
      <4>1. CASE GetTags(t) \/ GetSends(t)
        BY <2>3, <4>1 DEF GetTags, GetSends, Goes, store
      <4>2. CASE GetMustAsk(t) /\ ~Present(t)
        BY <2>3, <4>2 DEF GetMustAsk, Goes
      <4>3. CASE GetMustAsk(t) /\ Present(t)
        <5>1. g[t].what \in Lists /\ g[t].what # "seg"
          BY <2>0, <4>3 DEF GetMustAsk, GettersFit
        <5>2. media[s][g[t].what].gen # 0
          BY <3>1, <4>3, <5>1 DEF Present
        <5>3. /\ g[t].at = "check" /\ media' = [media EXCEPT ![s][g[t].what] = NoList]
              /\ g' = [g EXCEPT ![t].at = "tag", ![t].prev = media[s][g[t].what]]
          BY <3>1, <4>3 DEF GetMustAsk
        <5> QED
          BY <2>3, <5>1, <5>2, <5>3
      <4> QED
        BY <2>7, <4>1, <4>2, <4>3
    <3>5. /\ IsList(NoList) /\ NoList.gen = 0
          /\ DOMAIN media' = Sids /\ \A r \in Sids : DOMAIN media'[r] = Lists
          /\ \A r \in Sids, l \in Lists : media'[r][l] \in {media[r][l], NoList}
      <4>1. DOMAIN media = Sids /\ \A r \in Sids : DOMAIN media[r] = Lists
        BY <2>0 DEF StoreFits
      <4>2. IsList(NoList) /\ NoList.gen = 0
        BY DEF IsList, NoList, Stored
      <4> QED
        BY <3>1, <3>4, <4>1, <4>2
    <3>6. \A m \in asked : m.sid = s => m.id # g[t].id
      BY <2>0, <3>1 DEF GettersFit, Unsent
    <3>7. \/ UNCHANGED tags
          \/ /\ UNCHANGED asked
             /\ tags' = [tags EXCEPT ![s] = @ \cup {<<g[t].id, gen[s]>>}]
      BY <2>7, <3>1 DEF GetMustAsk, GetTags, GetSends, session
    <3>8. \/ UNCHANGED asked
          \/ /\ g'[t].at = "wait"
             /\ asked' = asked \cup {Request(s, g[t].id, g[t].what, gen[s])}
      BY <2>3, <2>7, <3>1 DEF GetMustAsk, GetTags, GetSends, Goes
    <3> DEFINE q == Request(s, g[t].id, g[t].what, gen[s])
    <3>9. /\ q.sid = s /\ q.id = g[t].id /\ q.what = g[t].what /\ q.gen = gen[s]
          /\ q \in Asks /\ gen[s] \in 0..MaxGen
      BY <2>0, <3>1 DEF Request, Asks, Whats, RequestsFit
    <3> HIDE DEF q
    <3>10. g[t].id < nextId[s]
      BY <2>0, <3>1 DEF GettersFit, Unsent
    <3>11. HandlersFit'
      <4>1. \A u \in Handlers : h[u].sid = s /\ h[u].at \in Asking => h[u].ask.id # g[t].id
        BY <2>0, <3>1 DEF GettersFit, Unsent
      <4>2. asked' \in {asked, asked \cup {q}}
        BY <3>8 DEF q
      <4> QED
        BY <2>0, <2>1, <3>2, <3>9, <4>1, <4>2, SamePaths DEF HandlersFit
    <3>12. RequestsFit'
      <4>1. CASE UNCHANGED asked /\ UNCHANGED tags
        BY <2>0, <2>1, <3>2, <4>1 DEF RequestsFit, Asks
      <4>2. CASE UNCHANGED asked /\ ~UNCHANGED tags
        <5>1. tags' = [tags EXCEPT ![s] = @ \cup {<<g[t].id, gen[s]>>}]
          BY <3>7, <4>2
        <5>2. ASSUME NEW r \in Sids PROVE tags'[r] \subseteq Nat \X (0..gen[r])
          BY <2>0, <3>1, <3>9, <5>1 DEF RequestsFit
        <5>3. ASSUME NEW m \in asked, NEW p \in tags'[m.sid], p[1] = m.id PROVE p[2] <= m.gen
          <6>1. m.sid \in Sids /\ p \in tags[m.sid]
            BY <2>0, <3>6, <5>1, <5>3 DEF RequestsFit
          <6> QED
            BY <2>0, <5>3, <6>1 DEF RequestsFit
        <5>4. DOMAIN tags' = Sids
          BY <2>0, <5>1 DEF RequestsFit
        <5> QED
          BY <2>0, <2>1, <3>2, <4>2, <5>2, <5>3, <5>4 DEF RequestsFit, Asks
      <4>3. CASE ~UNCHANGED asked
        <5>1. UNCHANGED tags /\ asked' = asked \cup {q}
          BY <3>7, <3>8, <4>3 DEF q
        <5>2. \A p \in tags[s] : p[2] <= gen[s]
          BY <2>0, <3>9 DEF RequestsFit
        <5> QED
          BY <2>0, <2>1, <3>1, <3>2, <3>9, <3>10, <5>1, <5>2 DEF RequestsFit, Asks
      <4> QED
        BY <4>1, <4>2, <4>3
    <3>13. YoungFit'
      <4>1. gen[s] = 0 => Busy(s, Bumping) /\ g'[t].prev.gen = 0
        BY <2>0, <3>1, <3>4 DEF YoungFit
      <4>2. \A r \in Sids, l \in Lists : gen[r] = 0 => media'[r][l].gen = 0
        BY <2>0, <3>5 DEF YoungFit
      <4>3. \A r \in Sids \ {s} : tags'[r] = tags[r]
        BY <2>0, <3>7 DEF RequestsFit
      <4>4. \A u \in Getters : g'[u].sid = g[u].sid
        BY <2>4, <3>1, <3>3
      <4>5. \A u \in Getters, r \in Sids : gen[r] = 0 /\ g[u].sid = r => g'[u].prev.gen = 0
        BY <2>0, <2>4, <3>1, <4>1 DEF YoungFit
      <4>6. \A r \in Sids : gen[r] = 0 =>
               Busy(r, Bumping) \/ (tags'[r] = {} /\ \A u \in Getters : g[u].sid # r)
        BY <2>0, <4>1, <4>3 DEF YoungFit
      <4>7. \A r \in Sids : gen[r] = 0 => \A u \in Handlers : h[u].sid = r => h[u].at \in Bumping
        BY <2>0 DEF YoungFit
      <4> QED
        BY <2>1, <2>2, <4>2, <4>4, <4>5, <4>6, <4>7 DEF YoungFit
    <3>14. GettersFit'
      <4>1. /\ \A u \in Getters \ {t} : Unsent(u)' <=> Unsent(u)
            /\ Unsent(t) /\ (Unsent(t)' => UNCHANGED asked)
        BY <2>4, <3>1, <3>3, <3>8 DEF Unsent
      <4>2. IsList(g'[t].prev) /\ (g'[t].prev.gen # 0 => g'[t].what \in Lists)
        BY <2>0, <3>1, <3>3, <3>4 DEF StoreFits, GettersFit, GettersType
      <4>3. GettersType'
        <5>1. ASSUME NEW u \in Getters PROVE IsList(g'[u].body) /\ IsList(g'[u].prev)
          BY <2>0, <2>4, <3>3, <4>2 DEF GettersFit, GettersType
        <5> QED
          BY <2>0, <2>4, <3>1, <3>3, <5>1 DEF GettersFit, GettersType, IsList
      <4>4. ASSUME NEW u \in Getters, Unsent(u)', NEW m \in asked', m.sid = g'[u].sid
            PROVE  m.id # g'[u].id
        <5>1. Unsent(u) /\ g'[u].sid = g[u].sid /\ g'[u].id = g[u].id
          BY <2>4, <3>1, <3>3, <4>1, <4>4
        <5>2. CASE m \in asked
          BY <2>0, <4>4, <5>1, <5>2 DEF GettersFit
        <5>3. CASE m \notin asked
          <6>1. m = q /\ u # t
            BY <3>8, <4>1, <4>4, <5>3 DEF q
          <6> QED
            BY <2>0, <3>1, <3>9, <4>1, <4>4, <5>1, <6>1 DEF GettersFit
        <5> QED
          BY <5>2, <5>3
      <4>5. ASSUME NEW u \in Getters
            PROVE  /\ g'[u].sid = g[u].sid /\ g'[u].id = g[u].id /\ (Unsent(u)' => Unsent(u))
                   /\ g'[u].what = g[u].what /\ g'[u].force = g[u].force /\ g'[u].body = g[u].body
        BY <2>4, <3>1, <3>3, <4>1
      <4>6. ASSUME NEW u \in Getters
            PROVE  /\ g'[u].at \in {"idle", "resolve", "relay"} <=> g'[u].what \notin Whats
                   /\ g'[u].at \in {"idle", "look", "resolve", "relay"} => g'[u].sid = None
                   /\ g'[u].at \in {"check", "tag", "send", "wait"} => g'[u].sid \in Sids
                   /\ g'[u].at \notin {"tag", "send", "wait"} => g'[u].prev.gen = 0
                   /\ g'[u].prev.gen # 0 => g'[u].what \in Lists
        <5>1. CASE u = t
          BY <3>1, <3>3, <4>2, <5>1
        <5>2. CASE u # t
          BY <2>0, <2>4, <5>2 DEF GettersFit
        <5> QED
          BY <5>1, <5>2
      <4> QED
        BY <2>0, <2>1, <3>2, <4>3, <4>4, <4>5, <4>6 DEF GettersFit
    <3>15. StoreFits'
      <4>1. ASSUME NEW u \in Getters, g'[u].prev.gen # 0
            PROVE  Fits(g'[u].sid, g'[u].what, g'[u].prev)
        BY <2>0, <2>4, <3>1, <3>3, <3>4, <4>1 DEF StoreFits
      <4>2. ASSUME NEW r \in Sids, NEW l \in Lists
            PROVE  IsList(media'[r][l]) /\ Fits(r, l, media'[r][l])
        <5>1. Fits(r, l, NoList)
          BY <3>5 DEF Fits
        <5> QED
          BY <2>0, <3>5, <5>1 DEF StoreFits
      <4>3. \A u \in Getters : (g[u].prev.gen # 0 => Fits(g[u].sid, g[u].what, g[u].prev))'
        BY <2>2, <4>1
      <4>4. \A r \in Sids, l \in Lists : IsList(media[r][l])' /\ Fits(r, l, media[r][l])'
        BY <2>2, <4>2 DEF IsList
      <4> QED
        BY <2>0, <2>1, <2>2, <3>5, <4>3, <4>4, SamePaths DEF StoreFits
    <3>16. ASSUME OneSession PROVE PlayerFits'
      <4>1. PlayerFits
        BY <3>16 DEF IInv
      <4>2. \A u \in Getters : g'[u].force => Fits(g[u].sid, g[u].what, g[u].body)'
        BY <2>2, <2>4, <3>1, <3>3, <4>1 DEF PlayerFits
      <4>3. \A u \in Handlers : h[u].at \in Silent => \A v \in Getters : ~g'[v].live
        BY <2>4, <3>3, <4>1 DEF PlayerFits
      <4> QED
        BY <2>1, <2>2, <4>1, <4>2, <4>3, SamePaths DEF PlayerFits
    <3> QED
      BY <3>11, <3>12, <3>13, <3>14, <3>15, <3>16 DEF IInv
  <2> QED
    BY <2>5, <2>6, <2>7
<1> USE HlsAssumption
<1>7. Init => IInv
  <2> SUFFICES ASSUME Init PROVE IInv
    OBVIOUS
  <2>1. /\ IsList(NoList) /\ NoList.gen = 0 /\ NoAsk \in Asks
        /\ {"none", "path"} \cap Whats = {} /\ 0 \in Nat /\ 1 \in Nat /\ 0 \in 0..MaxGen
    BY DEF IsList, NoList, Stored, NoAsk, Request, Asks, Whats
  <2>2. /\ \A t \in Handlers : h[t] = Resting
        /\ Resting.at = "idle" /\ Resting.sid = None /\ Resting.ask = NoAsk
    BY DEF Init, Resting, At
  <2>3. /\ \A t \in Getters : g[t] = Waiting0
        /\ DOMAIN Waiting0 = {"at", "what", "sid", "id", "force", "body", "prev", "live"}
        /\ Waiting0.at = "idle" /\ Waiting0.what = "none" /\ Waiting0.sid = None
        /\ Waiting0.id = 0 /\ Waiting0.force = FALSE /\ Waiting0.live = FALSE
        /\ Waiting0.body = NoList /\ Waiting0.prev = NoList
    BY DEF Init, Waiting0
  <2>4. HandlersFit
    <3>1. Resting \in [at : {"idle"}, sid : {None}, ask : Asks]
      BY <2>1 DEF Resting, At
    <3> QED
      BY <2>2, <3>1 DEF Init, HandlersFit, Bumping, Asking, Storing, Ending
  <2>5. RequestsFit
    BY <2>1 DEF Init, RequestsFit
  <2>6. YoungFit
    BY <2>1, <2>2, <2>3 DEF Init, YoungFit
  <2>7. GettersFit
    <3>1. GettersType
      BY <2>1, <2>3, Zenon DEF Init, GettersType
    <3> QED
      BY <2>1, <2>3, <3>1 DEF Init, GettersFit, Unsent
  <2>8. StoreFits
    <3>1. \A s, places : "idle" \notin places => ~Busy(s, places)
      BY <2>2 DEF Busy
    <3>2. \A s \in Sids : segmap[s] = <<>> /\ <<>> \in Seq(AllUrls)
      BY DEF Init
    <3> QED
      BY <2>1, <2>3, <3>1, <3>2 DEF Init, StoreFits, Fits, Clearing, ToSet
  <2>9. PlayerFits
    BY <2>2, <2>3 DEF Init, PlayerFits, Silent
  <2> QED
    BY <2>4, <2>5, <2>6, <2>7, <2>8, <2>9 DEF IInv
<1>8. IInv /\ [Next]_vars => IInv'
  <2> SUFFICES ASSUME IInv, [Next]_vars PROVE IInv'
    OBVIOUS
  <2>1. CASE UNCHANGED vars
    <3>1. /\ UNCHANGED <<active, gen, late, nextId, tags, master, media, seg, segmap, player, served,
                         asked, h, g>>
      BY <2>1 DEF vars, store, session, playing
    <3>2. /\ \A s, places : Busy(s, places) <=> Busy(s, places)'
          /\ \A s, l, b : Fits(s, l, b) <=> Fits(s, l, b)'
          /\ \A t \in Getters : Unsent(t) <=> Unsent(t)'
      BY <3>1, SamePaths DEF Busy, Fits, Unsent
    <3>3. /\ HandlersFit /\ RequestsFit /\ YoungFit /\ GettersFit /\ StoreFits
      BY DEF IInv
    <3>4. HandlersFit' /\ RequestsFit'
      BY <3>1, <3>3, SamePaths DEF HandlersFit, RequestsFit, Asks
    <3>5. YoungFit' /\ GettersFit'
      BY <3>1, <3>2, <3>3 DEF YoungFit, GettersFit, GettersType, IsList
    <3>6. StoreFits'
      BY <3>1, <3>2, <3>3, SamePaths DEF StoreFits, IsList
    <3>7. OneSession => PlayerFits'
      BY <3>1, <3>2, SamePaths DEF IInv, PlayerFits
    <3> QED
      BY <3>4, <3>5, <3>6, <3>7 DEF IInv
  <2>2. CASE \E t \in Handlers : Handler(t)
    BY <2>2, <1>1, <1>2, <1>3, <1>4 DEF Handler
  <2>3. CASE Disconnect \/ PlayerEnds
    <3>1. PICK t : t \in Handlers
      BY DEF OneHandler
    <3> QED
      BY <2>3, <3>1, <1>1
  <2>4. CASE \E t \in Getters, w \in Lists \cup {"master", "seg", "path"} : GetStarts(t, w)
    BY <2>4, <1>6
  <2>5. CASE \E t \in Getters : GetSteps(t) \/ GetRelayed(t)
    <3>1. \A t : GetResolves(t) => Answers(t) \/ Relays(t)
      BY DEF GetResolves, Relays
    <3> QED
      BY <2>5, <3>1, <1>5, <1>6 DEF GetSteps
  <2> QED
    BY <2>1, <2>2, <2>3, <2>4, <2>5 DEF Next
<1> QED
  BY <1>7, <1>8, PTL DEF Spec

\* However late and in whatever order the phone answers, what a session serves was
\* asked for in its current generation, whatever the number of sessions, of local
\* workers, of generations and of requests: the test of request_generations and the
\* reset of /play see to it together.  What an answer without an id brings is not
\* tested, and is excepted by its kind and generation.  The hypothesis is that one thread handles the
\* phone's requests, as it does for one phone with one control connection: with two
\* an answer found current can be stored after the /play that makes it stale.
THEOREM ContentStaysCurrent ==
    ASSUME OneHandler
    PROVE  Spec => []ContentIsCurrent
<1>1. IInv => ContentIsCurrent
  <2> SUFFICES ASSUME IInv, NEW s \in Sids, ~Resetting(s)
               PROVE  /\ master[s] \in {0} \cup Gens(s, "master")
                      /\ seg[s] \in {0} \cup Gens(s, "seg")
                      /\ \A l \in Lists :
                            media[s][l].gen \in {0} \cup Gens(s, l) \/ media[s][l].old
                      /\ \A u \in ToSet(segmap[s]) : Known(s, u)
    BY DEF ContentIsCurrent
  <2>1. ~Busy(s, {"play.tag"}) /\ ~Busy(s, {"play.tag", "play.unmap"})
    BY DEF Resetting, Busy
  <2>2. \A l \in Lists : Fits(s, l, media[s][l])
    BY DEF IInv, StoreFits
  <2> QED
    BY <2>1, <2>2 DEF IInv, StoreFits, Fits
<1> QED
  BY <1>1, FetchInvariance, PTL

\* Every local path that a playlist of the running player holds leads to the segment
\* the phone named on its line, for every text of the playlists, however often they
\* are refreshed and however many share the paths: they are numbered without a gap
\* from the end of seg_url_map, which only a reset shortens, and a reset stops the
\* player first.  The second hypothesis is the one the code states, "single iPhone =
\* single session" (hls_session.cpp): with two, a refresh may ask another session.
THEOREM PathsAlwaysLeadHome ==
    ASSUME OneHandler, OneSession
    PROVE  Spec => []PathsLeadHome
<1>1. IInv => PathsLeadHome
  <2> SUFFICES ASSUME IInv, NEW p \in served, ~p.of.old,
                      \A t \in Handlers : h[t].at \notin Ending,
                      NEW i \in Rewritten(Expanded(Playlists[p.of.gen][p.what]))
               PROVE  LET n == p.of.text[i].url.path[1] + 1 IN
                      /\ n \in DOMAIN segmap[p.sid]
                      /\ segmap[p.sid][n] = Expanded(Playlists[p.of.gen][p.what])[i].url
    BY DEF PathsLeadHome, Ending
  <2> DEFINE home == Expanded(Playlists[p.of.gen][p.what])
  <2>1. PICK text : /\ p.sid \in Sids /\ p.what \in Lists /\ p.of.gen \in 1..MaxGen
                    /\ p.of.text = Forwarded(text)
                    /\ Leads(p.sid, p.what, p.of.gen, text)
    BY DEF IInv, PlayerFits
  <2>2. PICK k \in Nat : /\ text = Localised(home, k)
                         /\ k + Rank(home, i) + 1 <= Len(segmap[p.sid])
                         /\ segmap[p.sid][k + Rank(home, i) + 1] = home[i].url
    <3>1. PICK k \in 0..Len(segmap[p.sid]) :
            /\ text = Localised(home, k)
            /\ \A j \in Rewritten(home) :
                  /\ k + Rank(home, j) + 1 <= Len(segmap[p.sid])
                  /\ segmap[p.sid][k + Rank(home, j) + 1] = home[j].url
      BY <2>1 DEF Leads
    <3>2. segmap[p.sid] \in Seq(AllUrls)
      BY <2>1 DEF IInv, StoreFits
    <3>3. k \in Nat /\ i \in Rewritten(home)
      BY <3>1, <3>2
    <3> HIDE DEF home
    <3> QED
      BY <3>1, <3>3
  <2>3. IsText(home) /\ Rank(home, i) \in Nat
    BY <2>1, ExpandedIsText, Numbered
  <2> HIDE DEF home
  <2>4. i \in Rewritten(home)
    BY DEF home
  <2>5. i \in DOMAIN home /\ "url" \in DOMAIN home[i]
    BY <2>3, <2>4 DEF Rewritten, Rewrites, IsText
  <2>6. /\ i \in DOMAIN text /\ text[i] = [home[i] EXCEPT !.url = Url("seg", <<k + Rank(home, i)>>)]
    BY <2>2, <2>4, <2>5 DEF Localised
  <2>7. text[i].url = Url("seg", <<k + Rank(home, i)>>)
    BY <2>5, <2>6
  <2>8. p.of.text[i] = text[i]
    BY <2>1, <2>6, <2>7 DEF Forwarded, Url
  <2>9. p.of.text[i].url.path[1] = k + Rank(home, i)
    BY <2>7, <2>8 DEF Url
  <2>10. segmap[p.sid] \in Seq(AllUrls)
    BY <2>1 DEF IInv, StoreFits
  <2>11. k + Rank(home, i) + 1 \in DOMAIN segmap[p.sid]
    BY <2>2, <2>3, <2>10
  <2> QED
    BY <2>2, <2>9, <2>11 DEF home
<1> QED
  BY <1>1, FetchInvariance, PTL
=============================================================================
