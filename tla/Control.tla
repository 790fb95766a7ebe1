------------------------------ MODULE Control ------------------------------
(***************************************************************************)
(* One control connection, whose thread does one thing after another: how  *)
(* RequestReader (src/airplay/rtsp_parser.cpp) finds the requests in what  *)
(* recv() returns, which of them Server::handle_client() answers, and the  *)
(* keys the two parties agree on: pair-verify, fp-setup and the session    *)
(* SETUP (src/crypto/pair_verify.cpp, src/crypto/fairplay.cpp and their    *)
(* handlers in src/airplay/routes.cpp).  What ReverseChannel registers is  *)
(* the socket of such a connection: on it the phone sends its answers to   *)
(* FCUP requests as well, and the reader takes them for requests.          *)
(*                                                                         *)
(* A stream is a sequence of tokens: a request line, a Content-Length with *)
(* its number of tokens, a CRLF, or text (another header, or body).  A key *)
(* or message that is new each time is the number of the request that made *)
(* it.  The calls of the crypto library are taken to succeed.              *)
(***************************************************************************)
EXTENDS Naturals, Sequences, FiniteSetsExt, SequencesExt

CONSTANT MaxHead   \* 64 KB: the size a request's head may reach

-----------------------------------------------------------------------------
(* RequestReader                                                           *)

Token(t, v, n)  == [t |-> t, v |-> v, n |-> n]
Crlf            == Token("crlf", "", 0)
RequestLine(v)  == Token("line", v, 0)
Length(n)       == Token("length", "", n)
Text            == Token("text", "", 0)

HeadEnds(b) == {i \in 1..(Len(b) - 1) : b[i] = Crlf /\ b[i + 1] = Crlf}

BodyOffset(b) == Min(HeadEnds(b)) + 1

\* A later header of the same name replaces an earlier one; without any, the
\* request has no body.
ContentLength(b) ==
    LET fields == {i \in 1..BodyOffset(b) : b[i].t = "length"}
    IN IF fields = {} THEN 0 ELSE b[Max(fields)].n

Need(b) == BodyOffset(b) + ContentLength(b)

\* What is left of a pipelined request.  A name with a suffix after _ is a
\* mutated form of the definition that follows it.
Leftover_Dropped(b) == <<>>
Leftover(b) == SubSeq(b, Need(b) + 1, Len(b))

\* The requests that are whole are taken out of the buffer one by one.  One
\* without a request line ends the connection.
TakesOne(r) ==
    LET b == r.buffer IN
    IF ~r.open \/ HeadEnds(b) = {} THEN r
    ELSE IF b[1].t # "line" THEN [r EXCEPT !.open = FALSE]
    ELSE IF Len(b) < Need(b) THEN r
    ELSE [r EXCEPT !.buffer = Leftover(b),
                   !.read = Append(@, [method |-> b[1].v,
                                       body |-> SubSeq(b, BodyOffset(b) + 1, Need(b))])]

\* recv() is called when there is no whole request, for the head, whose size is
\* limited, or for the body.
Receives(r, piece) ==
    LET b == r.buffer \o piece IN
    IF ~r.open \/ (HeadEnds(r.buffer) = {} /\ Len(b) > MaxHead)
    THEN [r EXCEPT !.open = FALSE]
    ELSE FoldLeft(LAMBDA a, token : TakesOne(a), [r EXCEPT !.buffer = b], b)

NewReader == [buffer |-> <<>>, read |-> <<>>, open |-> TRUE]

\* "Just drop silently": the phone's answers to FCUP requests.
Silent(request) == request.method = "HTTP/1.1"

Answered(read) == SelectSeq(read, LAMBDA request : ~Silent(request))

-----------------------------------------------------------------------------
(* The keys.  A request q is the q.n-th of its connection; what the phone  *)
(* does with what it got before is in q.cipher.  Handlers give the session *)
(* after the request and whether the answer is 200.  0 is no request.      *)

NewSession ==
    [pv |-> "Fresh", secret |-> 0, cipher |-> <<0, 0>>,
     fp |-> "none", keymsg |-> 0, key |-> <<>>]

Gives(s, ok) == [session |-> s, ok |-> ok]
FailsVerify(s) == Gives([s EXCEPT !.pv = "Failed"], FALSE)
FailsPlay(s)   == Gives([s EXCEPT !.fp = "Failed"], FALSE)

\* The secret both derive from their ephemeral keys, new in every round 1.
Secret_Kept(s, q) == IF s.secret = 0 THEN q.n ELSE s.secret
Secret(s, q) == q.n

\* A cipher is its secret and how far its counter has got.
NewCipher(secret) == <<secret, 0>>
Advanced(cipher) == [cipher EXCEPT ![2] = @ + 1]

\* It is new in every round 1, and the signature sent moves its counter on.
HandlesMessage1(s, q) ==
    IF ~q.wellFormed THEN FailsVerify(s)
    ELSE LET secret == Secret(s, q)
         IN Gives([s EXCEPT !.pv = "Round1Done", !.secret = secret,
                            !.cipher = Advanced(NewCipher(secret))], TRUE)

\* The phone's signature is read with the counter where round 1 left it.
Verifies(s, q) == q.cipher = s.cipher

HandlesMessage2(s, q) ==
    IF s.pv # "Round1Done" \/ ~q.wellFormed THEN FailsVerify(s)
    ELSE LET read == [s EXCEPT !.cipher = Advanced(@)]
         IN IF Verifies(s, q) THEN Gives([read EXCEPT !.pv = "Verified"], TRUE)
            ELSE FailsVerify(read)

HandlesMsg1(s) == Gives([s EXCEPT !.fp = "ExpectMsg3"], TRUE)

HandlesMsg3(s, q) ==
    IF s.fp # "ExpectMsg3" THEN FailsPlay(s)
    ELSE Gives([s EXCEPT !.fp = "Done", !.keymsg = q.n], TRUE)

HandlesFpSetup(s, q) ==
    IF ~q.wellFormed THEN FailsPlay(s)
    ELSE IF q.what = "fp1" THEN HandlesMsg1(s) ELSE HandlesMsg3(s, q)

\* decrypt_stream_key(), and the hash with the secret.
StreamKey(s, q) == [ekey |-> q.n, keymsg |-> s.keymsg, secret |-> s.secret]

\* A session SETUP goes on without a key, or with the one of an earlier SETUP.
HandlesSetup(s, q) ==
    Gives(IF s.fp = "Done" THEN [s EXCEPT !.key = <<StreamKey(s, q)>>] ELSE s, TRUE)

Handles(s, q) ==
    CASE q.what = "verify1" -> HandlesMessage1(s, q)
      [] q.what = "verify2" -> HandlesMessage2(s, q)
      [] q.what \in {"fp1", "fp3"} -> HandlesFpSetup(s, q)
      [] OTHER -> HandlesSetup(s, q)
=============================================================================
