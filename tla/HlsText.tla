------------------------------ MODULE HlsText ------------------------------
(***************************************************************************)
(* What the program does to the text of a playlist: the functions at the   *)
(* end of src/airplay/hls_session.cpp (the expansion of YouTube's          *)
(* condensed playlists, the rewriting of their URLs to local /seg/<n>      *)
(* paths, the choice of one variant of a master) and rewrite_urls() of     *)
(* src/airplay/hls_local_server.cpp.                                       *)
(*                                                                         *)
(* A playlist is a sequence of lines, a line a record with a `kind`:       *)
(*    "condensed"  the #YT-EXT-CONDENSED-URL header: its BASE-URI as url,  *)
(*                 params, prefix                                          *)
(*    "extinf"     #EXTINF, before a segment's URL                         *)
(*    "uri"        a URL on a line of its own                              *)
(*    "map"        a tag with a URI="..." attribute                        *)
(*    "variant"    #EXT-X-STREAM-INF, with the audio group it names        *)
(*    "media"      #EXT-X-MEDIA: its type, its URI as url, and its other   *)
(*                 attributes in their order                               *)
(*    "tag"        any other tag                                           *)
(* A URL says where it leads ("phone" for mlhls://localhost/, "cdn",       *)
(* "root" for a path, "relative", "local" for http://localhost:<port>/,    *)
(* "seg" for the local /seg/<n>) and its path, the tokens between slashes: *)
(* the empty token at the end is a trailing slash.  None of the definitions*)
(* looks at anything else of a line.                                       *)
(***************************************************************************)
EXTENDS Integers, Sequences, FiniteSetsExt, SequencesExt

Url(at, path) == [at |-> at, path |-> path]

\* The tags whose attribute is a URL, and a text: its lines have the URL that
\* their kind says.
Tagged == {"condensed", "map", "media"}
IsText(text) ==
    /\ Len(text) \in Nat /\ DOMAIN text = 1..Len(text)
    /\ \A i \in DOMAIN text :
          text[i].kind \in Tagged \cup {"uri"} => "url" \in DOMAIN text[i]

-----------------------------------------------------------------------------
(* expand_yt_condensed_playlist()                                          *)

\* The header counts only with all of its attributes.
Headers(text) ==
    {i \in DOMAIN text :
        /\ text[i].kind = "condensed"
        /\ text[i].url.path # <<>> /\ text[i].params # <<>>
        /\ text[i].prefix # <<>>}

IsChunk(line, prefix) ==
    line.kind = "uri" /\ line.url.at = "phone" /\ IsPrefix(prefix, line.url.path)

\* A chunk is looked for after the next #EXTINF, and that one is used up.
Announced(text, i, prefix) ==
    \E j \in 1..(i - 1) :
        /\ text[j].kind = "extinf"
        /\ \A k \in (j + 1)..(i - 1) : ~IsChunk(text[k], prefix)

\* The tokens of a condensed path, without the empty ones.
Parts(path) == SelectSeq(path, LAMBDA t : t # "")

\* Newer phones send names and values, older ones the values alone: the first
\* name tells, wherever it stands.  A name with a suffix after _ is a mutated
\* form of the definition that follows it.
HasNames_InFront(params, parts) == parts # <<>> /\ parts[1] = params[1]
HasNames(params, parts) == \E i \in DOMAIN parts : parts[i] = params[1]

Named(params, parts) ==
    [j \in 1..(2 * Len(params)) |->
        IF j % 2 = 1 THEN params[(j + 1) \div 2]
        ELSE IF j \div 2 <= Len(parts) THEN parts[j \div 2] ELSE ""]

Unfolded(params, path) ==
    LET parts  == Parts(path)
        tokens == IF HasNames(params, parts) THEN parts ELSE Named(params, parts)
    IN IF path # <<>> /\ Last(path) = "" /\ Last(tokens) # ""
       THEN Append(tokens, "") ELSE tokens

Expanded(text) ==
    IF Headers(text) = {} THEN text
    ELSE LET head == text[Min(Headers(text))]
             From(path) == SubSeq(path, Len(head.prefix) + 1, Len(path))
         IN [i \in DOMAIN text |->
               IF IsChunk(text[i], head.prefix) /\ Announced(text, i, head.prefix)
               THEN [text[i] EXCEPT !.url =
                       Url("cdn", head.url.path \o Unfolded(head.params, From(@.path)))]
               ELSE text[i]]

-----------------------------------------------------------------------------
(* rewrite_segments_to_local() and rewrite_urls()                          *)

\* The lines whose URL gets a local path: all lines that are a URL, and the
\* tags with an attribute whose name ends in URI (BASE-URI does), unless it is
\* relative.
Rewrites(line) ==
    \/ line.kind = "uri"
    \/ line.kind \in Tagged /\ line.url.at \in {"phone", "cdn", "root"}

Rewritten(text) == {i \in DOMAIN text : Rewrites(text[i])}

\* How many of them come before line i.
Rank(text, i) == Cardinality({j \in Rewritten(text) : j < i})

\* The text with local paths, which go on from seg_url_counter, and the URLs
\* they stand for, in their order.
Localised(text, counter) ==
    [i \in DOMAIN text |->
        IF i \in Rewritten(text)
        THEN [text[i] EXCEPT !.url = Url("seg", <<counter + Rank(text, i)>>)]
        ELSE text[i]]

Originals(text) ==
    [k \in 1..Cardinality(Rewritten(text)) |->
        text[CHOOSE i \in Rewritten(text) : Rank(text, i) = k - 1].url]

Forwarded(text) ==
    [i \in DOMAIN text |->
        IF text[i].kind \in Tagged \cup {"uri"} /\ text[i].url.at = "phone"
        THEN [text[i] EXCEPT !.url.at = "local"] ELSE text[i]]

-----------------------------------------------------------------------------
(* filter_master_to_single_variant()                                       *)

Variants(text) == {i \in DOMAIN text : text[i].kind = "variant"}
Audio(text) ==
    {i \in DOMAIN text : text[i].kind = "media" /\ text[i].type = "AUDIO"}

\* The group of the first variant; without one every rendition will do.
Group(text) ==
    IF Variants(text) = {} THEN "" ELSE text[Min(Variants(text))].group

\* quoted(): the first string in quotes after the name of an attribute, its own
\* value or a later attribute's.
Attribute(name, value, quotes) == [name |-> name, value |-> value, quotes |-> quotes]
Quoted(line, name) ==
    LET Is(i) == line.attributes[i].name = name
        after == {j \in DOMAIN line.attributes :
                    line.attributes[j].quotes /\ \E i \in 1..j : Is(i)}
    IN IF after = {} THEN "" ELSE line.attributes[Min(after)].value

Fitting_Any(text) == Audio(text)
Fitting(text) ==
    {i \in Audio(text) :
        Group(text) # "" => Quoted(text[i], "GROUP-ID") = Group(text)}

Score(line) ==
    1 + (IF Quoted(line, "AUTOSELECT") = "YES" THEN 10 ELSE 0)
      + (IF Quoted(line, "DEFAULT") = "YES" THEN 20 ELSE 0)
      + (IF Quoted(line, "LANGUAGE") = "fr" THEN 100 ELSE 0)

\* The first of those with the best score.
Chosen(text) ==
    {i \in Fitting(text) : \A j \in Fitting(text) :
        /\ Score(text[j]) <= Score(text[i])
        /\ j < i => Score(text[j]) < Score(text[i])}

\* The line after a variant goes with it, whatever it is.
Follows(text) ==
    LET f[i \in 0..Len(text)] == i > 1 /\ text[i - 1].kind = "variant" /\ ~f[i - 1]
    IN {i \in DOMAIN text : f[i]}

Kept(text, i) ==
    CASE i \in Follows(text) -> i - 1 = Min(Variants(text))
      [] text[i].kind = "media" -> i \in Chosen(text)
      [] text[i].kind = "variant" -> i = Min(Variants(text))
      [] OTHER -> TRUE

Filtered(text) ==
    LET kept == SelectSeq([i \in DOMAIN text |-> i], LAMBDA i : Kept(text, i))
    IN [k \in DOMAIN kept |-> text[kept[k]]]

\* What the player gets for a stored playlist.
Served(text, isMaster) ==
    IF isMaster THEN Filtered(Forwarded(text)) ELSE Forwarded(text)
=============================================================================
