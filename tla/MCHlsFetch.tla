----------------------------- MODULE MCHlsFetch -----------------------------
(* Model checking HlsFetch: two videos of two media playlists, condensed    *)
(* with and without names, plain, and with an initialisation segment.       *)
EXTENDS HlsFetch

Segment(n, l, k) == Url("cdn", <<"base", n, l, k>>)
Header(n, l) == [kind |-> "condensed", url |-> Url("cdn", <<"base", n, l>>),
                 params |-> <<"begin">>, prefix |-> <<"yt">>]
Uri(url) == [kind |-> "uri", url |-> url]
ExtInf == [kind |-> "extinf"]

MCPlaylists == <<
    [a |-> <<Header(1, "a"), ExtInf, Uri(Url("phone", <<"yt", "0">>))>>,
     b |-> <<Header(1, "b"), ExtInf,
             Uri(Url("phone", <<"yt", "p", "begin", "0">>))>>],
    [a |-> <<[kind |-> "map", url |-> Segment(2, "a", "init")], ExtInf,
             Uri(Segment(2, "a", "0"))>>,
     b |-> <<ExtInf, Uri(Segment(2, "b", "0"))>>] >>

-----------------------------------------------------------------------------
(* The text of playlists, over bounded playlists.                          *)

List(rows, U(_)) == FlattenSeq([k \in DOMAIN rows |-> <<ExtInf, Uri(U(rows[k]))>>])
InPairs(names, row) == FlattenSeq([k \in DOMAIN names |-> <<names[k], row[k]>>])

ExpandsAll ==
    \A params \in {<<"begin">>, <<"begin", "len">>}, path \in {<<>>, <<"p">>},
       slash \in {<<>>, <<"">>} :
    \A rows \in BoundedSeq([DOMAIN params -> {"0", "1"}], 2) :
        LET head == [kind |-> "condensed", url |-> Url("cdn", <<"base">>),
                     params |-> params, prefix |-> <<"yt">>]
            Full(row)   == Url("cdn", <<"base">> \o path \o InPairs(params, row) \o slash)
            Pairs(row)  == Url("phone", <<"yt">> \o path \o InPairs(params, row) \o slash)
            Values(row) == Url("phone", <<"yt">> \o row \o slash)
            Expands(U(_)) ==
                Expanded(<<head>> \o List(rows, U)) = <<head>> \o List(rows, Full)
        IN Expands(Pairs) /\ (path = <<>> => Expands(Values))

\* "After expansion the segment URIs point directly at the CDN"
\* (hls_session.h:184): expansion undoes what the phone did, whether it left
\* the names in, behind some path, or sent the values alone, with or without
\* a trailing slash.  Whichever playlist it is that a session has stored:
ExpansionUndoes == (\E s \in Sids : segmap[s] # <<>>) => ExpandsAll

\* Masters of up to three renditions before up to two variants.  DEFAULT and
\* AUTOSELECT are bare words in HLS; some renditions have them in quotes.
Rendition(type, group, language, default, auto, quotes) ==
    [kind |-> "media", type |-> type, url |-> Url("phone", <<group, "m3u8">>),
     attributes |-> <<Attribute("GROUP-ID", group, TRUE),
                      Attribute("LANGUAGE", language, TRUE),
                      Attribute("DEFAULT", default, quotes),
                      Attribute("AUTOSELECT", auto, quotes),
                      Attribute("URI", "m3u8", TRUE)>>]
Renditions ==
    {Rendition("AUDIO", "hi", la, de, "YES", FALSE) :
            la \in {"fr", "en"}, de \in {"YES", "NO"}}
        \cup {Rendition("AUDIO", "lo", la, "YES", "YES", FALSE) : la \in {"fr", "en"}}
        \cup {Rendition("AUDIO", "hi", "en", de, au, TRUE) : de, au \in {"YES", "NO"}}
        \cup {Rendition("SUBTITLES", "hi", "fr", "YES", "YES", FALSE)}
Variant(group) == [kind |-> "variant", group |-> group]
Masters ==
    {rs \o FlattenSeq([k \in DOMAIN vs |->
                <<Variant(vs[k]), Uri(Url("phone", <<"v", vs[k]>>))>>]) :
        rs \in BoundedSeq(Renditions, 3), vs \in BoundedSeq({"hi", "lo", ""}, 2)}

\* The audio rendition is to be, by the function's comment, "French if available,
\* then DEFAULT=YES, AUTOSELECT=YES, then the first one seen"
\* (hls_session.cpp:634-635).  The code looks for a YES in quotes, so that a
\* bare one counts for nothing: after French it is the first one seen.
Has(line, name, value) ==
    \E i \in DOMAIN line.attributes : line.attributes[i] = Attribute(name, value, TRUE)
Virtues(line) ==
    <<Has(line, "LANGUAGE", "fr"), Has(line, "DEFAULT", "YES"), Has(line, "AUTOSELECT", "YES")>>
Prefers(a, b) ==
    \E k \in 1..3 : Virtues(a)[k] /\ ~Virtues(b)[k] /\
        \A i \in 1..(k - 1) : Virtues(a)[i] = Virtues(b)[i]

Of(text, kind) == SelectSeq(text, LAMBDA line : line.kind = kind)

AllMastersPlay ==
    \A text \in Masters :
        LET out == Served(text, TRUE)
            sound == Of(out, "media")
            fits == SelectSeq(Of(text, "media"), LAMBDA line :
                       /\ line.type = "AUDIO"
                       /\ Group(text) # "" => Has(line, "GROUP-ID", Group(text)))
        IN /\ Len(Of(out, "variant")) = Min({1, Len(Of(text, "variant"))})
           /\ Len(Of(out, "uri")) = Len(Of(out, "variant"))
           /\ Of(out, "variant") # <<>> =>
                 Of(out, "uri")[1].url = Url("local", <<"v", Of(text, "variant")[1].group>>)
           /\ Len(sound) = Min({1, Len(fits)})
           /\ sound # <<>> =>
                 /\ sound[1].url.at = "local"
                 /\ \E c \in DOMAIN fits :
                       /\ fits[c].attributes = sound[1].attributes
                       /\ \A k \in DOMAIN fits : ~Prefers(fits[k], fits[c])
                       /\ \A k \in 1..(c - 1) : Prefers(fits[c], fits[k])

\* The player is offered one variant with its own URL, all of it local, and the
\* sound that goes with it, if the phone's master has any ("keeping only
\* compatible renditions"): a French one, a quoted DEFAULT or AUTOSELECT, or
\* the first, in that order.  Whichever master a session has stored:
MastersPlay == (\E s \in Sids : master[s] # 0) => AllMastersPlay
=============================================================================
