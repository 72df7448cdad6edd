------------------------------ MODULE Request ------------------------------
(***************************************************************************)
(* What a handler thread reads from its client, and how requestParse       *)
(* (EmbeddableWebServer.h) takes it apart: character by character, across  *)
(* as many calls of recv as the network likes.  The headers live in one    *)
(* pool of characters, one NUL-terminated string after the other.          *)
(***************************************************************************)
EXTENDS HttpChars, Integers, Sequences, SequencesExt, FiniteSetsExt

CONSTANTS
  Requests,                    \* what clients send; a path is a sequence of plain and
                               \* escaped characters
  MethodMax, PathMax, VersionMax,  \* sizeof ( request->method ) - 1, ...
  REQUEST_MAX_HEADERS, REQUEST_HEADERS_MAX_MEMORY, REQUEST_MAX_BODY_LENGTH,
  SEND_RECV_BUFFER_SIZE

\* A path is of characters that stand for themselves, "+" among them, and of
\* percent signs with the digits of a number.
Pieces == {p \in Seq(Nat) : \/ Len(p) = 1 /\ p[1] \notin {SP, PERCENT}
                            \/ Len(p) = 3 /\ p[1] = PERCENT /\ {p[2], p[3]} \subseteq 0 .. 9}

HeaderNames == Seq(Nat \ {COLON, CR, NUL})
HeaderValues == {v \in Seq(Nat \ {CR, NUL}) : v # <<>> => v[1] # SP}

(* What a client sends is made of lines; the pool has room for something.  *)
RequestAssumption ==
  /\ MethodMax \in Nat /\ PathMax \in Nat /\ VersionMax \in Nat
  /\ REQUEST_MAX_HEADERS \in Nat /\ REQUEST_MAX_BODY_LENGTH \in Nat
  /\ REQUEST_HEADERS_MAX_MEMORY \in Nat /\ REQUEST_HEADERS_MAX_MEMORY > 5
  /\ SEND_RECV_BUFFER_SIZE \in Nat
  /\ \A r \in Requests :
       /\ r.method \in Seq(Nat \ {SP}) /\ r.version \in Seq(Nat \ {CR})
       /\ r.path \in Seq(Pieces)
       /\ r.headers \in Seq([name : HeaderNames, value : HeaderValues])
       /\ r.body \in Seq(Nat)

VARIABLES
  sent,     \* the request of the client
  left,     \* the part of it that has not been received
  request,  \* struct Request
  hpc        \* "recv", "found" when the request is to be answered, "closed"

requestVars == <<sent, left, request>>
recvVars == <<requestVars, hpc>>

IsDigits(c) == c <= 9
---------------------------------------------------------------------------
(* URLDecode.  Two digits are read by sscanf with "%02x", which is content *)
(* with the first.                                                         *)

DecodeChar(d, c) ==
  CASE d.state = "normal" /\ c = PERCENT -> [d EXCEPT !.state = "first"]
    [] d.state = "normal" /\ c # PERCENT ->
         [d EXCEPT !.out = Append(@, IF c = PLUS THEN SP ELSE c)]
    [] d.state = "first" -> [d EXCEPT !.state = "second", !.digit = c]
    [] d.state = "second" ->
         [d EXCEPT !.state = "normal",
                   !.out = IF ~IsDigits(d.digit) THEN @
                           ELSE Append(@, IF IsDigits(c) THEN 16 * d.digit + c ELSE d.digit)]

URLDecode(encoded) ==
  LET decoded[k \in 0 .. Len(encoded)] ==
        IF k = 0 THEN [state |-> "normal", digit |-> NUL, out |-> <<>>]
        ELSE DecodeChar(decoded[k - 1], encoded[k])
  IN  decoded[Len(encoded)].out
---------------------------------------------------------------------------
(* The pool.  A string that has not been started is at None.               *)

None == -1
NoString == [at |-> None, length |-> 0]

\* sizeof('\0'): a character constant of C is an int.
PoolLimit == REQUEST_HEADERS_MAX_MEMORY - 1 - 4

PoolFull(r) == r.headersStringPoolOffset >= PoolLimit

\* Without the terminator of the string before.
StartAdjacent(r) == [r EXCEPT !.string = [at |-> r.headersStringPoolOffset, length |-> 0]]

poolStringStartNewString(r) ==
  IF r.headersStringPoolOffset = 0 THEN [r EXCEPT !.string = [at |-> 0, length |-> 0]]
  ELSE IF PoolFull(r)
       THEN [r EXCEPT !.string = NoString, !.warnings = @ \cup {"headersStringPoolExhausted"}]
       ELSE [r EXCEPT !.headersStringPoolOffset = @ + 1,
                      !.string = [at |-> r.headersStringPoolOffset + 1, length |-> 0]]

poolStringAppendChar(r, c) ==
  IF PoolFull(r) THEN [r EXCEPT !.warnings = @ \cup {"headersStringPoolExhausted"}]
  ELSE [r EXCEPT !.pool = [@ EXCEPT ![r.string.at + r.string.length] = c],
                 !.string.length = @ + 1,
                 !.headersStringPoolOffset = @ + 1]

\* A character more for the name or the value of the header that is being read.
Stored(r, field, c) ==
  LET on == [r EXCEPT !.string = r.header[field]]
      started == IF on.string.at = None THEN poolStringStartNewString(on) ELSE on
      appended == poolStringAppendChar(started, c)
  IN  [appended EXCEPT !.header[field] = appended.string]

\* The string that begins at a place of the pool.
CString(pool, at) ==
  LET end == CHOOSE e \in DOMAIN pool : /\ e >= at /\ pool[e] = NUL
                                        /\ \A k \in at .. e - 1 : pool[k] # NUL
  IN  [k \in 1 .. end - at |-> pool[at + k - 1]]

headerInRequest(name, r) ==
  {r.headers[k].value : k \in {k \in DOMAIN r.headers :
     /\ CString(r.pool, r.headers[k].name.at) = name
     /\ \A j \in 1 .. k - 1 : CString(r.pool, r.headers[j].name.at) # name}}
---------------------------------------------------------------------------
(* requestParse, by the state it is in.                                    *)

NoHeader == [name |-> NoString, value |-> NoString]

stateHeaderNameIfSpaceLeft(r) ==
  IF Len(r.headers) >= REQUEST_MAX_HEADERS
  THEN [r EXCEPT !.state = "EatHeaders", !.warnings = @ \cup {"tooManyHeaders"}]
  ELSE [r EXCEPT !.state = IF "headersStringPoolExhausted" \in r.warnings THEN "EatHeaders"
                           ELSE "HeaderName"]

\* A character of the method, the path or the version.
Kept(r, field, max, warning, c) ==
  IF Len(r[field]) < max THEN [r EXCEPT ![field] = Append(@, c)]
  ELSE [r EXCEPT !.warnings = @ \cup {warning}]

ParseMethod(r, c) ==
  IF c = SP THEN [r EXCEPT !.state = "Path"]
  ELSE Kept(r, "method", MethodMax, "methodTruncated", c)

ParsePath(r, c) ==
  IF c = SP THEN [r EXCEPT !.state = "Version", !.pathDecoded = URLDecode(r.path)]
  ELSE Kept(r, "path", PathMax, "pathTruncated", c)

ParseVersion(r, c) ==
  IF c = CR THEN [r EXCEPT !.state = "CR"]
  ELSE Kept(r, "version", VersionMax, "versionTruncated", c)

ParseHeaderName(r, c) ==
  IF c = COLON THEN [r EXCEPT !.state = "HeaderValue"]
  ELSE IF c = CR THEN [r EXCEPT !.state = "CR"]
  ELSE Stored(r, "name", c)

\* A header is done when it has a name and a value; the next one begins empty.
FilledOut(r) == r.header.name.length > 0 /\ r.header.value.length > 0

ParseHeaderValue(r, c) ==
  IF c = SP /\ r.header.value.length = 0 THEN r
  ELSE IF c = CR
       THEN [r EXCEPT !.state = "CR",
                      !.headers = IF FilledOut(r) THEN Append(@, r.header) ELSE @,
                      !.header = IF FilledOut(r) THEN NoHeader ELSE @]
       ELSE Stored(r, "value", c)

ParseCR(r, c) == IF c = LF THEN [r EXCEPT !.state = "CRLF"] ELSE stateHeaderNameIfSpaceLeft(r)

\* The first character of a header is parsed again, as that.
ParseCRLF(r, c) ==
  LET next == stateHeaderNameIfSpaceLeft(r)
  IN  IF c = CR THEN [r EXCEPT !.state = "CRLFCR"]
      ELSE IF next.state = "HeaderName" THEN ParseHeaderName(next, c) ELSE next

\* sscanf with "%ld": a number where the text begins, with a sign or without.
Scanned(text) ==
  {text[1] : k \in {k \in {1} : k <= Len(text) /\ IsDigits(text[k])}}
  \cup {IF text[1] = DASH THEN -text[2] ELSE text[2] :
          k \in {k \in {2} : k <= Len(text) /\ text[1] \in {DASH, PLUS} /\ IsDigits(text[k])}}

\* A Content-Length that is no number is ignored.
ContentLengths(r) ==
  UNION {Scanned(CString(r.pool, value.at)) : value \in headerInRequest(<<ContentLength>>, r)}

ParseCRLFCR(r, c) ==
  IF c # LF THEN stateHeaderNameIfSpaceLeft(r)
  ELSE IF ContentLengths(r) = {} THEN [r EXCEPT !.state = "Done"]
  ELSE [r EXCEPT !.state = "Body",
                 !.capacity = LET n == CHOOSE n \in ContentLengths(r) : TRUE
                              IN  IF n > REQUEST_MAX_BODY_LENGTH THEN REQUEST_MAX_BODY_LENGTH
                                  ELSE IF n < 0 THEN 0 ELSE n]

ParseEatHeaders(r, c) == IF c = CR THEN [r EXCEPT !.state = "CR"] ELSE r

ParseBody(r, c) ==
  LET body == IF Len(r.body) < r.capacity THEN Append(r.body, c) ELSE r.body
  IN  [r EXCEPT !.body = body, !.state = IF Len(body) = r.capacity THEN "Done" ELSE @]

ParseDone(r, c) ==
  IF r.capacity = 0 THEN r ELSE [r EXCEPT !.warnings = @ \cup {"bodyTruncated"}]

ParseChar(r, c) ==
  CASE r.state = "Method" -> ParseMethod(r, c)
    [] r.state = "Path" -> ParsePath(r, c)
    [] r.state = "Version" -> ParseVersion(r, c)
    [] r.state = "HeaderName" -> ParseHeaderName(r, c)
    [] r.state = "HeaderValue" -> ParseHeaderValue(r, c)
    [] r.state = "CR" -> ParseCR(r, c)
    [] r.state = "CRLF" -> ParseCRLF(r, c)
    [] r.state = "CRLFCR" -> ParseCRLFCR(r, c)
    [] r.state = "EatHeaders" -> ParseEatHeaders(r, c)
    [] r.state = "Body" -> ParseBody(r, c)
    [] r.state = "Done" -> ParseDone(r, c)

requestParse(r, fragment) ==
  LET parsed[k \in 0 .. Len(fragment)] ==
        IF k = 0 THEN r ELSE ParseChar(parsed[k - 1], fragment[k])
  IN  parsed[Len(fragment)]
---------------------------------------------------------------------------
(* The handler thread, up to the answer.                                   *)

\* What is sent for a request.
HeaderLine(h) == h.name \o <<COLON, SP>> \o h.value \o <<CR, LF>>
HeadOf(r) == r.method \o <<SP>> \o FlattenSeq(r.path) \o <<SP>> \o r.version \o <<CR, LF>>
             \o FlattenSeq([k \in DOMAIN r.headers |-> HeaderLine(r.headers[k])]) \o <<CR, LF>>
Wire(r) == HeadOf(r) \o r.body

\* calloc: everything is 0.
NoRequest ==
  [state |-> "Method", method |-> <<>>, path |-> <<>>, pathDecoded |-> <<>>, version |-> <<>>,
   headers |-> <<>>, header |-> NoHeader, string |-> NoString,
   pool |-> [k \in 0 .. REQUEST_HEADERS_MAX_MEMORY - 1 |-> NUL], headersStringPoolOffset |-> 0,
   body |-> <<>>, capacity |-> 0, warnings |-> {}]

\* recv returns what has come so far, or less.
Recv ==
  /\ hpc = "recv" /\ left # <<>>
  /\ \E n \in 1 .. Min({Len(left), SEND_RECV_BUFFER_SIZE}) :
       /\ request' = requestParse(request, SubSeq(left, 1, n))
       /\ left' = SubSeq(left, n + 1, Len(left))
  /\ hpc' = IF request'.state = "Done" THEN "found" ELSE "recv"
  /\ UNCHANGED sent

\* The client closes its end, or the connection fails: there is no answer.
RecvEnds == hpc = "recv" /\ hpc' = "closed" /\ UNCHANGED requestVars

RequestInit ==
  /\ sent \in Requests
  /\ left = Wire(sent)
  /\ request = NoRequest
  /\ hpc = "recv"

RequestNext == Recv \/ RecvEnds

RequestSpec == RequestInit /\ [][RequestNext]_recvVars
---------------------------------------------------------------------------
(* What a request is, written without the parser.                          *)

Shorter(s, max) == SubSeq(s, 1, IF Len(s) < max THEN Len(s) ELSE max)

\* The plain characters, and the two digits that follow a percent sign.
Decoded(piece) == CASE piece = <<PLUS>> -> SP
                    [] Len(piece) = 3 -> 16 * piece[2] + piece[3]
                    [] OTHER -> piece[1]

\* An escape the path is cut off in is lost.
DecodedPath(r) ==
  LET whole == {n \in 0 .. Len(r.path) : Len(FlattenSeq(SubSeq(r.path, 1, n))) <= PathMax}
      n == CHOOSE n \in whole : \A m \in whole : m <= n
  IN  [k \in 1 .. n |-> Decoded(r.path[k])]

\* The strings lie in the pool one after the other, and what would lie beyond
\* its limit is lost, with all headers after it.
NameAt(r, k) ==
  LET at[j \in 1 .. k] ==
        IF j = 1 THEN 0
        ELSE at[j - 1] + Len(r.headers[j - 1].name) + 1 + Len(r.headers[j - 1].value) + 1
  IN  at[k]

ValueAt(r, k) == NameAt(r, k) + Len(r.headers[k].name) + 1

KeptHeaders(r) ==
  LET fits == {k \in DOMAIN r.headers : k <= REQUEST_MAX_HEADERS /\ ValueAt(r, k) < PoolLimit}
  IN  [k \in 1 .. Cardinality(fits) |->
         [name |-> r.headers[k].name,
          value |-> Shorter(r.headers[k].value, PoolLimit - ValueAt(r, k))]]

\* The length of the body, as far as the server takes it; none without the header.
BodyLengths(r) ==
  LET kept == KeptHeaders(r)
      named == {k \in DOMAIN kept : kept[k].name = <<ContentLength>>}
      numbers == UNION {Scanned(kept[k].value) : k \in {k \in named : k = Min(named)}}
  IN  {IF n < 0 THEN 0 ELSE Min({n, REQUEST_MAX_BODY_LENGTH}) : n \in numbers}

WellFormed(r) == \A k \in DOMAIN r.headers : r.headers[k].name # <<>> /\ r.headers[k].value # <<>>

(* However a request is cut into fragments, the handler takes it for       *)
(* complete with the last character of its head and of the body its        *)
(* Content-Length promises, neither earlier nor later, and has then what   *)
(* the client sent: the line and the headers as far as there is room for   *)
(* them, with a warning for each part that was cut, the decoded path, and  *)
(* the body (requestParse, URLDecode, the recv loop of                     *)
(* connectionHandlerThread).  A Content-Length of 0 is the exception: the  *)
(* parser waits for one more character (EmbeddableWebServer.h:1424-1445).  *)
(* So are headers without a name or a value, which spoil the next one.     *)
RequestExact ==
  WellFormed(sent) =>
    LET awaits == Len(HeadOf(sent)) + (IF BodyLengths(sent) = {} THEN 0
                                       ELSE Max(BodyLengths(sent) \cup {1}))
        path == FlattenSeq(sent.path)
    IN  /\ request.state = "Done" <=> Len(Wire(sent)) - Len(left) >= awaits
        /\ request.state = "Done" =>
             /\ request.method = Shorter(sent.method, MethodMax)
             /\ request.path = Shorter(path, PathMax)
             /\ request.pathDecoded = DecodedPath(sent)
             /\ request.version = Shorter(sent.version, VersionMax)
             /\ [k \in DOMAIN request.headers |->
                   [name |-> CString(request.pool, request.headers[k].name.at),
                    value |-> CString(request.pool, request.headers[k].value.at)]]
                = KeptHeaders(sent)
             /\ request.body = Shorter(sent.body, Max(BodyLengths(sent) \cup {0}))
             /\ "pathTruncated" \in request.warnings <=> Len(path) > PathMax
             /\ KeptHeaders(sent) # sent.headers =>
                  request.warnings \cap {"tooManyHeaders", "headersStringPoolExhausted"} # {}
=============================================================================
