-------------------------- MODULE MCReverseChannel --------------------------
(* Model checking ReverseChannel: every connection but the last names s1.   *)
(* Control is checked with it, over bounded streams and requests.           *)
EXTENDS ReverseChannel, Control

CONSTANTS s1, s2, c4,
          MaxPiece,    \* bound: 4 KB, what a recv() returns at most
          MaxStream,   \* bound: tokens of a stream
          MaxRequests  \* bound: requests of the handshake

MCNames == [c \in Conns |-> IF c = c4 THEN {s2} ELSE {s1}]

-----------------------------------------------------------------------------
(* Requests on the wire, in every way of cutting them into pieces.         *)

Message(method, body) == [method |-> method, body |-> body]
Bodies == {<<>>, <<Text>>, <<Crlf, Crlf>>, <<RequestLine("POST"), Crlf, Crlf>>}
Messages == {Message("POST", b) : b \in Bodies}
               \cup {Message("HTTP/1.1", <<>>), Message("HTTP/1.1", <<Crlf, Crlf>>)}

\* Without a body, or with another header before the length.
Wire(m) ==
    <<RequestLine(m.method), Crlf>>
       \o (IF m.body = <<>> THEN <<>> ELSE <<Text, Crlf, Length(Len(m.body)), Crlf>>)
       \o <<Crlf>> \o m.body

WireOf(ms) == FlattenSeq([i \in DOMAIN ms |-> Wire(ms[i])])

Pieces(s, ends) ==
    LET e == SelectSeq([i \in DOMAIN s |-> i], LAMBDA i : i \in ends \/ i = Len(s))
    IN [k \in DOMAIN e |-> SubSeq(s, IF k = 1 THEN 1 ELSE e[k - 1] + 1, e[k])]

Cuts(s) ==
    {p \in {Pieces(s, ends) : ends \in SUBSET (1..(Len(s) - 1))} :
        \A k \in DOMAIN p : Len(p[k]) <= MaxPiece}

AllWhole ==
    \A ms \in {ms \in BoundedSeq(Messages, 3) \ {<<>>} : Len(WireOf(ms)) <= MaxStream} :
        \A pieces \in Cuts(WireOf(ms)) :
            LET r == FoldLeft(Receives, NewReader, pieces) IN
            /\ r.open /\ r.buffer = <<>> /\ r.read = ms
            /\ Answered(r.read) = SelectSeq(ms, LAMBDA m : m.method # "HTTP/1.1")

\* "On success, out is fully populated and the body has exactly Content-Length
\* bytes" (rtsp_parser.h:44-46): however the stream is cut, whatever the bodies
\* contain, and with the answers to FCUP requests in between, every request is
\* read once, whole and in order, and no answer is taken for a request that
\* needs one.  Whatever the registry holds:
RequestsWhole == (\E c \in Conns : stage[c] = "open") => AllWhole

-----------------------------------------------------------------------------
(* The handshake, with every order and repetition of its requests.         *)

Whats == {"verify1", "verify2", "fp1", "fp3", "setup"}
Requests == [what : Whats, wellFormed : BOOLEAN] \ [what : {"setup"}, wellFormed : {FALSE}]

\* The phone knows what it was answered.
NewPhone == [secret |-> 0, signs |-> FALSE, keymsg |-> 0, ready |-> FALSE]
Learns(phone, q, ok) ==
    CASE q.what = "verify1" /\ ok -> [phone EXCEPT !.secret = q.n, !.signs = TRUE]
      [] q.what \in {"verify1", "verify2"} -> [phone EXCEPT !.signs = FALSE]
      [] q.what = "fp3" /\ ok -> [phone EXCEPT !.keymsg = q.n, !.ready = TRUE]
      [] q.what \in {"fp1", "fp3"} -> [phone EXCEPT !.ready = FALSE]
      [] OTHER -> phone

\* What the phone may rely on with the answer to q.
Agrees(phone, q, answer) ==
    /\ q.what = "verify2" /\ q.wellFormed /\ phone.signs => answer.ok
    /\ q.what = "setup" /\ phone.ready =>
          answer.session.key = <<[ekey |-> q.n, keymsg |-> phone.keymsg,
                                  secret |-> phone.secret]>>

Exchange(a, r) ==
    LET q == [what |-> r.what, wellFormed |-> r.wellFormed, n |-> a.n,
              cipher |-> <<a.phone.secret, 1>>]
        answer == Handles(a.session, q)
    IN [session |-> answer.session, phone |-> Learns(a.phone, q, answer.ok),
        n |-> a.n + 1, agree |-> a.agree /\ Agrees(a.phone, q, answer)]

AllAgree ==
    \A rs \in [1..MaxRequests -> Requests] :
        FoldLeft(Exchange, [session |-> NewSession, phone |-> NewPhone,
                            n |-> 1, agree |-> TRUE], rs).agree

\* "Skipping this step leaves the stream key off by a hash and the H.264
\* payloads decrypt to noise" (routes.cpp:348-349): whatever was tried, refused
\* and begun again before, a phone that was answered 200 to the second message
\* of fp-setup gets a stream key made of that message, of its newest secret and
\* of its SETUP's ekey, and a phone that signs after its round 1 is accepted.
KeysAgree == (\E c \in Conns : stage[c] = "open") => AllAgree
=============================================================================
