--------------------------- MODULE RequestParser ----------------------------
(***************************************************************************)
(* http_request_parser: the callbacks llhttp makes while a request is fed  *)
(* to it piece by piece, and what they gather in request_.                 *)
(*                                                                         *)
(* A text is a sequence of letters; a letter stands for a run of           *)
(* characters that matters to the code: a separator, a number, a part of a *)
(* name or a value.  A piece of input is a record                          *)
(*   [cb   : the callback it makes llhttp call,                            *)
(*    text : the text passed to it,                                        *)
(*    last : it is the last piece of its message,                          *)
(*    of   : the number of its message in the client's stream,             *)
(*    head : what llhttp itself takes from the message's head]             *)
(* so a name, a value or a body that arrives in parts makes one callback   *)
(* for each part.                                                          *)
(***************************************************************************)
EXTENDS Integers, Sequences, SequencesExt, TLC

CONSTANTS
  Lower,    \* std::tolower on letters: upper-case letters to lower-case ones
  Number    \* the decimal numbers among the letters

EmptyText == <<>>
Name == [host     |-> <<"ho", "st">>,
         length   |-> <<"content-", "length">>,
         encoding |-> <<"transfer-", "encoding">>]

\* to_lower_ascii
ToLower(text) ==
  [i \in DOMAIN text |-> IF text[i] \in DOMAIN Lower THEN Lower[text[i]] ELSE text[i]]

-----------------------------------------------------------------------------
(***************************************************************************)
(* parse_host_port.                                                        *)
(***************************************************************************)
Space == " "

Positions(text, letter) == {i \in DOMAIN text : text[i] = letter}

\* The text without the blanks around it.
Trimmed(text) ==
  LET kept == DOMAIN text \ Positions(text, Space)
  IN  IF kept = {} THEN EmptyText ELSE SubSeq(text, Min(kept), Max(kept))

\* static_cast<uint16_t>(strtoul(...)): 0 for a text that is no number.
ToPort(text) ==
  IF text # EmptyText /\ Head(text) \in DOMAIN Number THEN Number[Head(text)] % (2 ^ 16) ELSE 0

From(text, i) == SubSeq(text, i, Len(text))

\* An address in brackets and a port, or a text with one colon; any other text
\* is a host.
SplitHostPort(t) ==
  LET colons == Positions(t, ":")
      closing == Positions(t, "]")
      whole == [host |-> t, port |-> 0]
  IN  IF t # EmptyText /\ Head(t) = "["
      THEN IF closing = {} THEN whole
           ELSE LET end == Min(closing)
                IN  [host |-> SubSeq(t, 2, end - 1),
                     port |-> IF end + 1 \in colons THEN ToPort(From(t, end + 2)) ELSE 0]
      ELSE IF \E i \in colons : colons = {i}
      THEN [host |-> SubSeq(t, 1, Min(colons) - 1), port |-> ToPort(From(t, Min(colons) + 1))]
      ELSE whole

\* (TLC evaluates the trimmed text once where a quantifier binds it.)
ParseHostPort(text) == CHOOSE a \in {SplitHostPort(t) : t \in {Trimmed(text)}} : TRUE

-----------------------------------------------------------------------------
(***************************************************************************)
(* The parser object: parse_state_, request_, the header being gathered,   *)
(* and the state of llhttp.                                                *)
(***************************************************************************)
NoHead == [method |-> "", keep_alive |-> FALSE, upgrade |-> FALSE]   \* upgrade: F_UPGRADE, F_CONNECTION_UPGRADE

NewRequest ==
  [method |-> "", url |-> EmptyText, version |-> EmptyText, host |-> EmptyText, port |-> 0,
   chunked |-> FALSE, keep_alive |-> FALSE, is_connect |-> FALSE,
   headers |-> <<>>, body |-> EmptyText]

NewParser ==
  [state |-> "reading", req |-> NewRequest, field |-> EmptyText, value |-> EmptyText,
   lastWasValue |-> FALSE, ll |-> "start", errno |-> "ok", head |-> NoHead, of |-> 0]

ClearRequestRuntime(p) ==
  [p EXCEPT !.req = NewRequest, !.field = EmptyText, !.value = EmptyText, !.lastWasValue = FALSE]

\* Mutant: the fields of the message before are not cleared.
OnMessageBeginKeeps(p) == [p EXCEPT !.state = "reading"]

OnMessageBegin(p) == [ClearRequestRuntime(p) EXCEPT !.state = "reading"]

OnUrl(p, text) == [p EXCEPT !.req.url = @ \o text]

OnVersion(p, text) == [p EXCEPT !.req.version = @ \o text]

\* A later field of the same name replaces the value.
FinishPendingHeader(p) ==
  IF p.field = EmptyText THEN p
  ELSE [p EXCEPT !.req.headers = (ToLower(p.field) :> p.value) @@ @]

OnHeaderField(p, text) ==
  LET q == IF p.lastWasValue
           THEN [FinishPendingHeader(p) EXCEPT !.field = EmptyText, !.value = EmptyText,
                                               !.lastWasValue = FALSE]
           ELSE p
  IN  [q EXCEPT !.field = @ \o text]

OnHeaderValue(p, text) == [p EXCEPT !.value = @ \o text, !.lastWasValue = TRUE]

PostProcessHeaders(p) ==
  LET r == p.req
      given == DOMAIN r.headers
      chunked == Name.encoding \in given
                   /\ Positions(ToLower(r.headers[Name.encoding]), "chunked") # {}
      target == IF r.is_connect THEN ParseHostPort(r.url)
                ELSE IF Name.host \in given THEN ParseHostPort(r.headers[Name.host])
                ELSE [host |-> r.host, port |-> r.port]
      port == IF ~r.is_connect /\ Name.host \in given /\ target.port = 0 THEN 80 ELSE target.port
  IN  [p EXCEPT !.req.chunked = chunked, !.req.host = target.host, !.req.port = port]

OnHeadersComplete(p) ==
  PostProcessHeaders([FinishPendingHeader(p) EXCEPT
                        !.req.method = p.head.method,
                        !.req.keep_alive = p.head.keep_alive,
                        !.req.is_connect = p.head.method = "CONNECT"])

OnBody(p, text) == [p EXCEPT !.req.body = @ \o text]

OnMessageComplete(p) == [p EXCEPT !.state = "complete"]

-----------------------------------------------------------------------------
(***************************************************************************)
(* llhttp_execute: one callback for each piece.  llhttp is at the start of  *)
(* a message, inside one, or past the last one of the connection; it goes  *)
(* on with the next message, except that it pauses after one that changes  *)
(* the protocol.                                                           *)
(***************************************************************************)
Callback(p, piece) ==
  CASE piece.cb = "begin"   -> [OnMessageBegin(p) EXCEPT !.head = piece.head, !.of = piece.of, !.ll = "inside"]
    [] piece.cb = "url"     -> OnUrl(p, piece.text)
    [] piece.cb = "version" -> OnVersion(p, piece.text)
    [] piece.cb = "field"   -> OnHeaderField(p, piece.text)
    [] piece.cb = "value"   -> OnHeaderValue(p, piece.text)
    [] piece.cb = "headers" -> OnHeadersComplete(p)
    [] piece.cb = "body"    -> OnBody(p, piece.text)
    [] OTHER                -> p

\* The bytes that no state of llhttp takes for a part of a request.
Unparsable == {"bad", "tunnel"}

\* llhttp__before_headers_complete
Upgrades(head) == head.upgrade \/ head.method = "CONNECT"

\* The pause comes before llhttp__after_message_complete.
MessageEnds(p) ==
  [OnMessageComplete(p) EXCEPT !.ll = IF p.head.keep_alive THEN "start" ELSE "closed",
                               !.errno = IF Upgrades(p.head) THEN "upgrade" ELSE "ok"]

\* Between two messages line ends are skipped, and only a message may begin.
Feed(p, piece) ==
  IF p.ll # "inside" /\ piece.cb = "headers" THEN p
  ELSE IF \/ p.ll = "closed"
          \/ piece.cb \in Unparsable
          \/ p.ll = "start" /\ piece.cb # "begin"
  THEN [p EXCEPT !.errno = "error"]
  ELSE IF piece.last THEN MessageEnds(Callback(p, piece))
  ELSE Callback(p, piece)

\* http_request_parser::parse, once llhttp_execute has returned.
Parsed(p) ==
  IF p.errno = "ok" THEN p
  ELSE IF p.errno = "upgrade" THEN [p EXCEPT !.state = "tunnel", !.errno = "ok"]
  ELSE [p EXCEPT !.state = "error"]

IsMessageComplete(p) == p.state \in {"complete", "tunnel"}

ResetForNextMessage(p) ==
  [ClearRequestRuntime(p) EXCEPT !.state = "reading", !.ll = "start", !.errno = "ok", !.head = NoHead]
=============================================================================
