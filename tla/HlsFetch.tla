------------------------------ MODULE HlsFetch ------------------------------
(***************************************************************************)
(* HLS playback by proxy: handlers of src/airplay/routes.cpp (/play,       *)
(* /action, /stop, TEARDOWN) on the control connections' threads, the      *)
(* registry of src/airplay/hls_session.cpp they share with the workers of  *)
(* the local server (src/airplay/hls_local_server.cpp), and the player.    *)
(*                                                                         *)
(* The player GETs playlists and segments from the local server, which     *)
(* asks the phone for what it has not got (an FCUP request on the          *)
(* session's /reverse channel) and waits for the phone's POST /action.     *)
(* Each /play starts a new generation of its session; a master playlist    *)
(* and a segment are the number of the generation they were asked for in   *)
(* (0 is none), a media playlist is its text, localised by HlsText.  All   *)
(* videos use the same paths: one master, the media playlists Lists, one   *)
(* segment asked of the phone, and the /seg/<n> paths of the media         *)
(* playlists.  The phone may answer late, in any order, twice or never,    *)
(* and with or without the id of the request it answers.  (It leaves a     *)
(* request unanswered that a session sent before its first generation.)    *)
(* Every session has its /reverse channel (ReverseChannel models those).   *)
(***************************************************************************)
EXTENDS Naturals, HlsText

CONSTANTS Sids,      \* X-Apple-Session-IDs
          Handlers,  \* threads of control connections
          Getters,   \* workers of the local server
          None,
          Lists,     \* media playlists
          Playlists, \* what the phone answers: by generation and playlist
          MaxGen,    \* bound: number of /play of a session
          MaxId,     \* bound: FCUP requests of a session
          Refreshes  \* whether a media playlist may lack EXT-X-ENDLIST

ASSUME HlsAssumption ==
    /\ None \notin Sids
    /\ MaxGen \in Nat /\ MaxId \in Nat
    /\ Refreshes \in BOOLEAN
    /\ Lists \cap {"none", "master", "seg", "path"} = {}
    /\ \A n \in 1..MaxGen, l \in Lists : IsText(Playlists[n][l])

VARIABLES active,   \* active_session_id_
          gen,      \* playback_generation
          nextId,   \* next_request_id
          tags,     \* request_generations: pairs <<id, generation>>
          master,   \* master_playlist
          media,    \* media_playlists
          seg,      \* segment_data, segment_redirect
          segmap,   \* seg_url_map: the URLs of /seg/0, /seg/1, ...
          player,   \* the session and generation the player plays
          served,   \* the media playlists this player has got
          asked,    \* FCUP requests under way, and their answers
          late,     \* what answers without an id have brought since the last
                    \* reset though asked for in an earlier generation: pairs
                    \* <<what, generation>>
          h,        \* the handler threads
          g         \* the getter threads

store   == <<master, media, seg, segmap>>
session == <<gen, nextId, tags, late>>
playing == <<player, served>>
vars    == <<active, session, store, playing, asked, h, g>>

NoPlayer == [sid |-> None, gen |-> 0]

\* A media playlist in media_playlists.  One that a refresh has set aside is
\* `old` once its session has been emptied.
Stored(n, text) == [gen |-> n, old |-> FALSE, text |-> text]
NoList == Stored(0, <<>>)
Request(s, i, w, n) == [sid |-> s, id |-> i, what |-> w, gen |-> n]

\* A handler thread at rest, and a getter.  `ask` is the answer at hand or the
\* request to send; `body` is the playlist at hand and `prev` the
\* previous_playlist, `live` says that the player whose GET it is still runs.
NoAsk    == Request(None, 0, "none", 0)
At(place, s) == [at |-> place, sid |-> s, ask |-> NoAsk]
Resting  == At("idle", None)
Waiting0 == [at |-> "idle", what |-> "none", sid |-> None, id |-> 0,
             force |-> FALSE, body |-> NoList, prev |-> NoList, live |-> FALSE]

Init ==
    /\ active = None /\ player = NoPlayer /\ served = {} /\ asked = {}
    /\ gen = [s \in Sids |-> 0] /\ nextId = [s \in Sids |-> 1]
    /\ tags = [s \in Sids |-> {}] /\ late = [s \in Sids |-> {}]
    /\ master = [s \in Sids |-> 0]
    /\ media = [s \in Sids |-> [l \in Lists |-> NoList]]
    /\ seg = [s \in Sids |-> 0] /\ segmap = [s \in Sids |-> <<>>]
    /\ h = [t \in Handlers |-> Resting]
    /\ g = [t \in Getters |-> Waiting0]

\* Sessions in the registry: get_or_create() of the first /play.  Nothing ever
\* removes one.
Created == {s \in Sids : gen[s] > 0 \/ \E t \in Handlers : h[t].sid = s}

\* Steps of a handler thread t: from one place in the handler to the next.
Step(t, from, to) == h[t].at = from /\ h' = [h EXCEPT ![t].at = to]
Done(t, from)     == h[t].at = from /\ h' = [h EXCEPT ![t] = Resting]

\* The playlists of session s are cleared, without a lock.
ClearsLists(s) ==
    /\ master' = [master EXCEPT ![s] = 0]
    /\ media' = [media EXCEPT ![s] = [l \in Lists |-> NoList]]
    /\ g' = [t \in Getters |-> IF g[t].sid # s THEN g[t]
                  ELSE [g[t] EXCEPT !.prev.old = TRUE, !.body.old = TRUE]]

\* hls_player->stop().  A name with a suffix after _ is a mutated form of the
\* definition that follows it.
Halts ==
    /\ player' = NoPlayer /\ served' = {}
    /\ g' = [t \in Getters |-> [g[t] EXCEPT !.live = FALSE]]

-----------------------------------------------------------------------------
(* POST /play                                                              *)

PlayStarts(t, s) ==
    /\ h[t].at = "idle" /\ gen[s] < MaxGen
    /\ active' = s
    /\ h' = [h EXCEPT ![t] = At("play.stop", s)]
    /\ UNCHANGED <<session, store, playing, asked, g>>

PlayStopsPlayer(t) ==
    /\ Step(t, "play.stop", "play.clear")
    /\ Halts
    /\ UNCHANGED <<active, session, store, asked>>

\* reset_hls_media_state(): the playlists, which it clears without a lock ...
PlayClears(t) ==
    /\ Step(t, "play.clear", "play.bump")
    /\ ClearsLists(h[t].sid)
    /\ UNCHANGED <<active, session, seg, segmap, playing, asked>>

\* ... the generation and the id of the master request ...
PlayBumps(t) ==
    LET s == h[t].sid IN
    /\ h[t].at = "play.bump"
    /\ gen' = [gen EXCEPT ![s] = @ + 1]
    /\ nextId' = [nextId EXCEPT ![s] = @ + 1]
    /\ late' = [late EXCEPT ![s] = {}]
    /\ h' = [h EXCEPT ![t] = [at |-> "play.tag", sid |-> s,
                 ask |-> Request(s, nextId[s], "master", gen[s] + 1)]]
    /\ UNCHANGED <<active, tags, store, playing, asked, g>>

\* ... the segments and the tags, under seg_mtx ...
PlayTags(t) ==
    LET s == h[t].sid IN
    /\ Step(t, "play.tag", "play.unmap")
    /\ seg' = [seg EXCEPT ![s] = 0]
    /\ tags' = [tags EXCEPT ![s] = {<<h[t].ask.id, h[t].ask.gen>>}]
    /\ UNCHANGED <<active, gen, nextId, late, master, media, segmap, playing,
                   asked, g>>

\* ... and the local paths, under seg_url_mtx.
PlayUnmaps(t) ==
    /\ Step(t, "play.unmap", "play.send")
    /\ segmap' = [segmap EXCEPT ![h[t].sid] = <<>>]
    /\ UNCHANGED <<active, session, master, media, seg, playing, asked, g>>

PlaySends(t) ==
    /\ Done(t, "play.send")
    /\ asked' \in {asked, asked \cup {h[t].ask}}
    /\ UNCHANGED <<active, session, store, playing, g>>

-----------------------------------------------------------------------------
(* POST /action                                                            *)

\* The test of the answer's id, under seg_mtx, if it has one.
IsCurrent_Unchecked(m) == TRUE
IsCurrent(m) == <<m.id, gen[m.sid]>> \in tags[m.sid]

ActionChecks(t, m) ==
    /\ h[t].at = "idle" /\ m \in asked
    /\ IF IsCurrent(m)
       THEN /\ tags' = [tags EXCEPT ![m.sid] = {p \in @ : p[1] # m.id}]
            /\ h' = [h EXCEPT ![t] = [at |-> "action.store", sid |-> m.sid,
                                      ask |-> m]]
       ELSE UNCHANGED <<tags, h>>
    /\ UNCHANGED <<active, gen, nextId, late, store, playing, asked, g>>

\* An answer without an id is taken as it comes.  (Bound: it is the last answer
\* to its request, as every one adds to the paths.)
ActionTrusts(t, m) ==
    /\ h[t].at = "idle" /\ m \in asked /\ m.gen # 0
    /\ asked' = asked \ {m}
    /\ late' = [late EXCEPT ![m.sid] =
                   @ \cup ({<<m.what, m.gen>>} \ {<<m.what, gen[m.sid]>>})]
    /\ h' = [h EXCEPT ![t] = [at |-> "action.store", sid |-> m.sid, ask |-> m]]
    /\ UNCHANGED <<active, gen, nextId, tags, store, playing, g>>

\* A media playlist is expanded, and given local paths that go on from those
\* handed out since the last reset.
NextPath_Zero(s) == 0
NextPath(s) == Len(segmap[s])

StoresList(s, l, n) ==
    LET text == Expanded(Playlists[n][l])
        urls == Originals(text)
        from == NextPath(s)
    IN /\ media' = [media EXCEPT ![s][l] = Stored(n, Localised(text, from))]
       /\ segmap' = [segmap EXCEPT ![s] =
                       SubSeq(@, 1, from) \o urls
                         \o SubSeq(@, from + Len(urls) + 1, Len(@))]

\* The playlists are stored without a lock, a segment under seg_mtx.
ActionStores(t) ==
    LET m == h[t].ask IN
    /\ h[t].at = "action.store"
    /\ CASE m.what = "master" ->
              /\ master' = [master EXCEPT ![m.sid] = m.gen]
              /\ Step(t, "action.store", "action.stop")
              /\ UNCHANGED <<media, seg, segmap>>
         [] m.what \in Lists ->
              /\ StoresList(m.sid, m.what, m.gen)
              /\ Done(t, "action.store")
              /\ UNCHANGED <<master, seg>>
         [] m.what = "seg" ->
              /\ seg' = [seg EXCEPT ![m.sid] = m.gen]
              /\ Done(t, "action.store")
              /\ UNCHANGED <<master, media, segmap>>
    /\ UNCHANGED <<active, session, playing, asked, g>>

\* The master playlist has arrived: the generation is read for the end
\* callback, the player is stopped, and started on the local master.
ActionStopsPlayer(t) ==
    /\ h[t].at = "action.stop"
    /\ h' = [h EXCEPT ![t].at = "action.start", ![t].ask.gen = gen[h[t].sid]]
    /\ Halts
    /\ UNCHANGED <<active, session, store, asked>>

ActionStartsPlayer(t) ==
    /\ Done(t, "action.start")
    /\ player' = [sid |-> h[t].sid, gen |-> h[t].ask.gen]
    /\ UNCHANGED <<active, session, store, served, asked, g>>

-----------------------------------------------------------------------------
(* POST /stop, TEARDOWN, the Disconnect button, the end of the video       *)

StopClears(t, s) ==
    /\ h[t].at = "idle" /\ s \in Created
    /\ h' = [h EXCEPT ![t] = At("stop.drop", s)]
    /\ ClearsLists(s)
    /\ UNCHANGED <<active, session, seg, segmap, playing, asked>>

StopDrops(t) ==
    LET s == h[t].sid IN
    /\ Step(t, "stop.drop", "end.player")
    /\ seg' = [seg EXCEPT ![s] = 0]
    /\ segmap' = [segmap EXCEPT ![s] = <<>>]
    /\ late' = [late EXCEPT ![s] = {}]
    /\ UNCHANGED <<active, gen, nextId, tags, master, media, playing, asked, g>>

\* TEARDOWN, with or without X-Apple-Session-ID: what it does to the streams
\* and to the device is in DeviceSlot.
TeardownStarts(t) ==
    /\ Step(t, "idle", "end.player")
    /\ UNCHANGED <<active, session, store, playing, asked, g>>

EndStopsPlayer(t) ==
    /\ Step(t, "end.player", "end.active")
    /\ Halts
    /\ UNCHANGED <<active, session, store, asked>>

EndDeactivates(t) ==
    /\ Done(t, "end.active")
    /\ \/ active' = None
       \/ h[t].sid = None /\ active' = active
    /\ UNCHANGED <<session, store, playing, asked, g>>

\* disconnect_clients(): its callback runs when no handler is at work.
Disconnect ==
    /\ \A t \in Handlers : h[t].at = "idle"
    /\ active # None \/ player # NoPlayer
    /\ active' = None
    /\ Halts
    /\ UNCHANGED <<session, store, asked, h>>

PlayerEnds ==
    /\ player # NoPlayer
    /\ Halts
    /\ UNCHANGED <<active, session, store, asked, h>>

-----------------------------------------------------------------------------
(* A GET of the local server                                               *)

Goes(t, from, to) == g[t].at = from /\ g' = [g EXCEPT ![t].at = to]
GetUnchanged == UNCHANGED <<active, gen, player, h>>

\* The answer without a playlist, and the one with playlist `list` of s.
Answers(t) == g' = [g EXCEPT ![t] = Waiting0] /\ UNCHANGED served
Given(s, w, list) ==
    [sid |-> s, what |-> w, of |-> [list EXCEPT !.text = Served(@, FALSE)]]
Gives(t, s, list) ==
    /\ g' = [g EXCEPT ![t] = Waiting0]
    /\ served' = IF g[t].what \in Lists /\ g[t].live
                 THEN served \cup {Given(s, g[t].what, list)} ELSE served

GetStarts(t, w) ==
    /\ g[t].at = "idle" /\ player # NoPlayer
    /\ \A s \in Sids : nextId[s] <= MaxId
    /\ g' = [g EXCEPT ![t] =
               [Waiting0 EXCEPT !.what = w, !.live = TRUE,
                  !.at = CASE w = "seg" -> "choose"
                           [] w = "path" -> "resolve"
                           [] OTHER -> "look"]]
    /\ UNCHANGED <<active, session, store, playing, asked, h>>

\* The active session first, then the others.
Preferred(S) ==
    IF active \in S THEN {active} ELSE S

Holders(w) ==
    {s \in Sids : IF w = "master" THEN master[s] # 0 ELSE media[s][w].gen # 0}

\* lookup_playlist(), under mtx_.  A master is served as it is, and so is a
\* media playlist that has EXT-X-ENDLIST.
GetServesCached(t) ==
    /\ g[t].at = "look"
    /\ \E s \in Preferred(Holders(g[t].what)) :
          Gives(t, s, IF g[t].what \in Lists THEN media[s][g[t].what] ELSE NoList)
    /\ UNCHANGED <<session, store, asked>> /\ GetUnchanged

\* Any other is asked for again; the one at hand is served if that fails.
GetRefreshes(t) ==
    /\ g[t].at = "look" /\ g[t].what \in Lists /\ Refreshes
    /\ \E s \in Preferred(Holders(g[t].what)) :
          g' = [g EXCEPT ![t].at = "choose", ![t].force = TRUE, ![t].sid = s,
                         ![t].body = media[s][g[t].what]]
    /\ UNCHANGED <<session, store, served, asked>> /\ GetUnchanged

GetMisses(t) ==
    /\ Goes(t, "look", "choose")
    /\ Holders(g[t].what) = {}
    /\ UNCHANGED <<session, store, served, asked>> /\ GetUnchanged

\* resolve_segment_path(): 404, or the URL of the segment, and the transfer from
\* the CDN begins ...
GetResolves(t) ==
    /\ g[t].at = "resolve"
    /\ \/ Goes(t, "resolve", "relay") /\ UNCHANGED served
       \/ Answers(t)
    /\ UNCHANGED <<session, store, asked>> /\ GetUnchanged

\* ... which ends when the CDN or the player ends it: there is no timeout.
GetRelayed(t) ==
    /\ g[t].at = "relay"
    /\ Answers(t)
    /\ UNCHANGED <<session, store, asked>> /\ GetUnchanged

\* fetch_playlist() and fetch_segment(): the session and the request's id,
\* under mtx_.
GetChooses(t) ==
    /\ g[t].at = "choose"
    /\ \E s \in Preferred(Created) :
          /\ nextId' = [nextId EXCEPT ![s] = @ + 1]
          /\ g' = [g EXCEPT ![t].at = "check", ![t].sid = s,
                            ![t].id = nextId[s]]
    /\ UNCHANGED <<tags, late, store, served, asked>> /\ GetUnchanged

\* Under seg_mtx: what is waited for is there already.  A playlist that is not
\* a media playlist is never found among the media playlists.
Present(t) ==
    LET s == g[t].sid IN
    CASE g[t].what = "seg" -> seg[s] # 0
      [] g[t].what \in Lists -> media[s][g[t].what].gen # 0
      [] OTHER -> FALSE

\* A segment is handed over, a playlist is kept.
Takes(t) ==
    LET s == g[t].sid IN
    /\ IF g[t].what = "seg"
       THEN seg' = [seg EXCEPT ![s] = 0] /\ Answers(t)
       ELSE Gives(t, s, media[s][g[t].what]) /\ UNCHANGED seg
    /\ UNCHANGED <<master, media, segmap>>

GetFinds(t) ==
    /\ g[t].at = "check" /\ Present(t) /\ ~g[t].force
    /\ Takes(t)
    /\ UNCHANGED <<session, asked>> /\ GetUnchanged

\* The old playlist is kept aside while it is refreshed.
GetMustAsk(t) ==
    LET s == g[t].sid IN
    /\ g[t].at = "check" /\ (Present(t) => g[t].force)
    /\ IF Present(t)
       THEN /\ g' = [g EXCEPT ![t].at = "tag", ![t].prev = media[s][g[t].what]]
            /\ media' = [media EXCEPT ![s][g[t].what] = NoList]
       ELSE Goes(t, "check", "tag") /\ UNCHANGED media
    /\ UNCHANGED <<session, master, seg, segmap, served, asked>> /\ GetUnchanged

GetTags(t) ==
    LET s == g[t].sid IN
    /\ Goes(t, "tag", "send")
    /\ tags' = [tags EXCEPT ![s] = @ \cup {<<g[t].id, gen[s]>>}]
    /\ UNCHANGED <<nextId, late, store, served, asked>> /\ GetUnchanged

GetSends(t) ==
    /\ Goes(t, "send", "wait")
    /\ asked' = asked \cup {Request(g[t].sid, g[t].id, g[t].what, gen[g[t].sid])}
    /\ UNCHANGED <<session, store, served>> /\ GetUnchanged

\* A refresh that fails puts the old playlist back, and serves the body at hand.
Restores(t) ==
    LET s == g[t].sid IN
    /\ IF g[t].prev.gen # 0
       THEN media' = [media EXCEPT ![s][g[t].what] = g[t].prev]
       ELSE UNCHANGED media
    /\ IF g[t].force THEN Gives(t, s, g[t].body) ELSE Answers(t)
    /\ UNCHANGED <<master, seg, segmap>>

GetSendFails(t) ==
    /\ g[t].at = "send"
    /\ Restores(t)
    /\ UNCHANGED <<session, asked>> /\ GetUnchanged

GetArrives(t) ==
    /\ g[t].at = "wait" /\ Present(t)
    /\ Takes(t)
    /\ UNCHANGED <<session, asked>> /\ GetUnchanged

GaveUp_Never(t) == FALSE
GaveUp(t) == ~Present(t)

GetTimesOut(t) ==
    /\ g[t].at = "wait" /\ GaveUp(t)
    /\ Restores(t)
    /\ UNCHANGED <<session, asked>> /\ GetUnchanged

-----------------------------------------------------------------------------
Handler(t) ==
    \/ \E s \in Sids : PlayStarts(t, s) \/ StopClears(t, s)
    \/ PlayStopsPlayer(t) \/ PlayClears(t) \/ PlayBumps(t) \/ PlayTags(t)
    \/ PlayUnmaps(t) \/ PlaySends(t)
    \/ \E m \in asked : ActionChecks(t, m) \/ ActionTrusts(t, m)
    \/ ActionStores(t) \/ ActionStopsPlayer(t) \/ ActionStartsPlayer(t)
    \/ StopDrops(t) \/ TeardownStarts(t) \/ EndStopsPlayer(t)
    \/ EndDeactivates(t)

GetSteps(t) ==
    \/ GetServesCached(t) \/ GetRefreshes(t) \/ GetMisses(t) \/ GetResolves(t)
    \/ GetChooses(t) \/ GetFinds(t) \/ GetMustAsk(t) \/ GetTags(t)
    \/ GetSends(t) \/ GetSendFails(t) \/ GetArrives(t) \/ GetTimesOut(t)

Next ==
    \/ \E t \in Handlers : Handler(t)
    \/ Disconnect \/ PlayerEnds
    \/ \E t \in Getters, w \in Lists \cup {"master", "seg", "path"} :
          GetStarts(t, w)
    \/ \E t \in Getters : GetSteps(t) \/ GetRelayed(t)

Spec == Init /\ [][Next]_vars

\* The workers of the local server run; the wait for the phone is bounded, the
\* one for the CDN is not.
FairSpec == Spec /\ \A t \in Getters : WF_vars(GetSteps(t))

-----------------------------------------------------------------------------
(* Properties.                                                             *)

Asks == [sid : Sids \cup {None}, id : Nat, gen : 0..MaxGen,
         what : Lists \cup {"none", "master", "seg"}]

TypeOK ==
    /\ active \in Sids \cup {None}
    /\ gen \in [Sids -> 0..MaxGen]
    /\ nextId \in [Sids -> Nat]
    /\ \A s \in Sids : tags[s] \subseteq Nat \X (0..MaxGen)
    /\ master \in [Sids -> 0..MaxGen] /\ seg \in [Sids -> 0..MaxGen]
    /\ \A s \in Sids, l \in Lists : media[s][l].gen \in 0..MaxGen
    /\ player \in [sid : Sids, gen : 1..MaxGen] \cup {NoPlayer}
    /\ asked \subseteq Asks
    /\ \A s \in Sids : late[s] \subseteq (Lists \cup {"master", "seg"}) \X (1..MaxGen)
    /\ \A t \in Handlers : h[t].sid \in Sids \cup {None} /\ h[t].ask \in Asks
    /\ \A t \in Getters : g[t].sid \in Sids \cup {None} /\ g[t].prev.gen \in 0..MaxGen

\* A thread between the new generation of s and the end of its reset.
Resetting(s) ==
    \E t \in Handlers : h[t].sid = s /\ h[t].at \in {"play.tag", "play.unmap"}

\* What /seg/<n> paths lead to for the video of generation n.
UrlsOf(n, l) == ToSet(Originals(Expanded(Playlists[n][l])))

\* The generations that the content w of s may be of: its own, and those an
\* answer without an id has brought.
Gens(s, w) == {gen[s]} \cup {n \in 1..MaxGen : <<w, n>> \in late[s]}

\* A URL of a media playlist of these generations.
Known(s, u) == \E l \in Lists : \E n \in Gens(s, l) : u \in UrlsOf(n, l)

\* "request_generations: FCUP request id -> playback_generation": however late
\* and in whatever order the phone answers, what a session serves was asked
\* for in its current generation.  There are two exceptions.  An answer without
\* an id is not checked (routes.cpp:1132): it may bring the kind of content it
\* carries, and its paths, from the generation it was asked for in, until the
\* next /play or /stop.  And a media playlist that a refresh had set aside is put
\* back when it fails: a /play or a /stop in between has emptied the session,
\* and the code does not look.
ContentIsCurrent ==
    \A s \in Sids : ~Resetting(s) =>
        /\ master[s] \in {0} \cup Gens(s, "master")
        /\ seg[s] \in {0} \cup Gens(s, "seg")
        /\ \A l \in Lists : media[s][l].gen \in {0} \cup Gens(s, l) \/ media[s][l].old
        /\ \A u \in ToSet(segmap[s]) : Known(s, u)

\* "HlsLocalServer reads this when the media player actually asks for a
\* segment" (hls_session.h:48-50): while it runs, every local path in every
\* media playlist the player has been given leads to the segment the phone
\* named on that line, however many playlists share the paths and however
\* often they are refreshed.  Excepted are playlists put back as above, and a
\* /stop that has emptied the paths and is about to stop the player.
PathsLeadHome ==
    \A p \in served :
        LET home == Expanded(Playlists[p.of.gen][p.what]) IN
        \/ p.of.old
        \/ \E t \in Handlers : h[t].at \in {"stop.drop", "end.player"}
        \/ \A i \in Rewritten(home) :
              LET n == p.of.text[i].url.path[1] + 1 IN
              n \in DOMAIN segmap[p.sid] /\ segmap[p.sid][n] = home[i].url

\* A GET ends whatever the phone does, or comes to the transfer of a segment
\* from the CDN, which has no timeout and no interrupt.  The local server could
\* not stop otherwise: its handlers do not look at the cancelled flag while they
\* wait.
GetsEnd == \A t \in Getters : g[t].at # "idle" ~> g[t].at \in {"idle", "relay"}

-----------------------------------------------------------------------------
(* The inductive invariant behind ContentIsCurrent and PathsLeadHome, for  *)
(* one handler thread; behind the second for one session, too.             *)

OneHandler == \E t : Handlers = {t}
OneSession == \A r, s \in Sids : r = s

\* The handler is in the middle of something with session s.
Busy(s, places) == \E t \in Handlers : h[t].sid = s /\ h[t].at \in places

Bumping == {"play.stop", "play.clear", "play.bump"}
Asking  == {"play.tag", "play.unmap", "play.send"}
Clearing == {"play.bump", "play.tag", "play.unmap", "stop.drop"}
Silent  == {"play.clear", "play.bump", "play.tag", "play.unmap"}
Ending  == {"stop.drop", "end.player"}
Storing == {"action.store", "action.stop", "action.start"}
Whats   == Lists \cup {"master", "seg"}

HandlersFit ==
    /\ h \in [Handlers -> [at : {"idle", "end.active"} \cup Bumping \cup Asking
                                   \cup Ending \cup Storing,
                           sid : Sids \cup {None}, ask : Asks]]
    /\ \A t \in Handlers : LET s == h[t].sid IN
          /\ h[t].at = "idle" => s = None
          /\ h[t].at \in Bumping \cup Asking \cup Storing \cup {"stop.drop"} => s \in Sids
          /\ h[t].at \in Bumping => gen[s] < MaxGen
          /\ h[t].at \in Asking =>
                /\ h[t].ask = Request(s, h[t].ask.id, "master", gen[s])
                /\ h[t].ask.id < nextId[s]
                /\ \A m \in asked : m.sid = s => m.id # h[t].ask.id
          /\ h[t].at = "action.store" =>
                /\ h[t].ask = Request(s, h[t].ask.id, h[t].ask.what, h[t].ask.gen)
                /\ h[t].ask.what \in Whats
                /\ h[t].ask.gen \in Gens(s, h[t].ask.what)

\* A request is asked for once, in no later generation than it is sent in, and
\* by its id the tags know it.
RequestsFit ==
    /\ active \in Sids \cup {None}
    /\ late \in [Sids -> SUBSET (Whats \X (1..MaxGen))]
    /\ gen \in [Sids -> 0..MaxGen] /\ nextId \in [Sids -> Nat] /\ DOMAIN tags = Sids
    /\ \A s \in Sids : tags[s] \subseteq Nat \X (0..gen[s])
    /\ asked \subseteq Asks
    /\ \A m \in asked :
          /\ m.sid \in Sids /\ m.what \in Whats
          /\ m.gen <= gen[m.sid] /\ m.id < nextId[m.sid]
          /\ \A p \in tags[m.sid] : p[1] = m.id => p[2] <= m.gen

\* Nothing is asked of a session whose first /play is still to come, and it has
\* no playlist.
YoungFit ==
    \A s \in Sids : gen[s] = 0 =>
        /\ \A l \in Lists : media[s][l].gen = 0
        /\ \A t \in Getters : g[t].sid = s => g[t].prev.gen = 0
        /\ \A t \in Handlers : h[t].sid = s => h[t].at \in Bumping
        /\ \/ Busy(s, Bumping)
           \/ tags[s] = {} /\ \A t \in Getters : g[t].sid # s

IsList(b) == DOMAIN b = {"gen", "old", "text"} /\ b.gen \in 0..MaxGen /\ b.old \in BOOLEAN

\* Getters whose request has been given its id and not been sent.
Unsent(t) == g[t].at \in {"check", "tag", "send"}

GettersType ==
    /\ DOMAIN g = Getters
    /\ \A t \in Getters :
          /\ DOMAIN g[t] = {"at", "what", "sid", "id", "force", "body", "prev", "live"}
          /\ g[t].at \in {"idle", "look", "resolve", "relay", "choose", "check", "tag",
                         "send", "wait"}
          /\ g[t].what \in Whats \cup {"none", "path"} /\ g[t].id \in Nat
          /\ g[t].sid \in Sids \cup {None} /\ g[t].force \in BOOLEAN /\ g[t].live \in BOOLEAN
          /\ IsList(g[t].body) /\ IsList(g[t].prev)

GettersFit ==
    /\ GettersType
    /\ \A t \in Getters :
          /\ g[t].at \in {"idle", "resolve", "relay"} <=> g[t].what \notin Whats
          /\ g[t].at \in {"idle", "look", "resolve", "relay"} => g[t].sid = None
          /\ g[t].sid = None => ~g[t].force
          /\ g[t].at \in {"check", "tag", "send", "wait"} => g[t].sid \in Sids
          /\ g[t].at \notin {"tag", "send", "wait"} => g[t].prev.gen = 0
          /\ g[t].prev.gen # 0 \/ g[t].force => g[t].what \in Lists
          /\ g[t].force => g[t].body.gen # 0
          /\ Unsent(t) =>
                /\ g[t].id < nextId[g[t].sid]
                /\ \A m \in asked : m.sid = g[t].sid => m.id # g[t].id
                /\ \A u \in Getters :
                      u # t /\ Unsent(u) /\ g[u].sid = g[t].sid => g[u].id # g[t].id
                /\ \A u \in Handlers :
                      h[u].sid = g[t].sid /\ h[u].at \in Asking => h[u].ask.id # g[t].id

\* The local paths of media playlist l of generation n, as `text` has them, lead
\* home by the paths of s.
Leads(s, l, n, text) ==
    LET home == Expanded(Playlists[n][l]) IN
    \E k \in 0..Len(segmap[s]) :
        /\ text = Localised(home, k)
        /\ \A i \in Rewritten(home) :
              /\ k + Rank(home, i) + 1 <= Len(segmap[s])
              /\ segmap[s][k + Rank(home, i) + 1] = home[i].url

\* A list that a session s has, or a getter holds, for playlist l.
Fits(s, l, b) ==
    b.gen = 0 \/ b.old \/
        /\ b.gen \in Gens(s, l) /\ ~Busy(s, Clearing)
        /\ Leads(s, l, b.gen, b.text)

AllUrls == UNION {UrlsOf(n, l) : n \in 1..MaxGen, l \in Lists}

StoreFits ==
    /\ DOMAIN master = Sids /\ DOMAIN media = Sids /\ DOMAIN seg = Sids
    /\ segmap \in [Sids -> Seq(AllUrls)]
    /\ \A s \in Sids :
          /\ master[s] \in {0} \cup Gens(s, "master")
          /\ Busy(s, Clearing) => master[s] = 0
          /\ seg[s] \in {0} \cup Gens(s, "seg") \/ Busy(s, {"play.tag"})
          /\ \/ \A u \in ToSet(segmap[s]) : Known(s, u)
             \/ Busy(s, {"play.tag", "play.unmap"})
          /\ DOMAIN media[s] = Lists
          /\ \A l \in Lists : IsList(media[s][l]) /\ Fits(s, l, media[s][l])
    /\ \A t \in Getters : g[t].prev.gen # 0 => Fits(g[t].sid, g[t].what, g[t].prev)

\* What the player has been given, and what it may still be given when a refresh
\* fails.  While a /play empties the session there is no player.
PlayerFits ==
    /\ \A t \in Handlers : h[t].at \in Silent =>
          player = NoPlayer /\ served = {} /\ \A u \in Getters : ~g[u].live
    /\ \A t \in Getters : g[t].force => Fits(g[t].sid, g[t].what, g[t].body)
    /\ \A p \in served :
          /\ p.sid \in Sids /\ p.what \in Lists
          /\ p.of.old \/ (\E t \in Handlers : h[t].at \in Ending) \/
             /\ p.of.gen \in 1..MaxGen
             /\ \E text \in {Localised(Expanded(Playlists[p.of.gen][p.what]), k) :
                                k \in 0..Len(segmap[p.sid])} :
                   /\ p.of.text = Forwarded(text)
                   /\ Leads(p.sid, p.what, p.of.gen, text)

IInv ==
    /\ HandlersFit /\ RequestsFit /\ YoungFit /\ GettersFit /\ StoreFits
    /\ OneSession => PlayerFits
=============================================================================
