------------------------------- MODULE Serve -------------------------------
(***************************************************************************)
(* What a handler thread answers: createResponseForRequest (ews.c), the    *)
(* lookup of the file, the range, and the loop that sends the file in      *)
(* pieces while it may change on the disk (EmbeddableWebServer.h).         *)
(*                                                                         *)
(* A page made by the server is one piece of data, HTML.  A character of a *)
(* file is its offset.                                                     *)
(***************************************************************************)
EXTENDS Request

CONSTANTS
  Directory,  \* not a length
  Tree,       \* what paths in the root lead to: the length of a file, or Directory
  Index       \* the name index.html

(* A piece of a file has room in the buffer; what is no directory is as    *)
(* long as it is.                                                          *)
ServeAssumption ==
  /\ RequestAssumption
  /\ SEND_RECV_BUFFER_SIZE > 0 /\ Directory \notin Nat
  /\ \A path \in DOMAIN Tree : Tree[path] \in Nat \cup {Directory}

VARIABLES
  response,  \* struct Response: its code, and the path of the file, or NoFile
  size,      \* the length of the file: it may shrink while it is sent
  answer,    \* what the client has got: heads, each with what follows it
  at,        \* where fread goes on
  remaining, \* bytesRemaining
  failed     \* has something failed that is not the client's

serveVars == <<response, size, answer, at, remaining, failed>>
httpVars == <<recvVars, serveVars>>

HTML == -3
NoSize == -4
NoFile == <<>>

SendEnds == hpc' = "closed"
---------------------------------------------------------------------------
(* Which file.                                                             *)

\* pathEscapesDocumentRoot, character by character.
EscapeChar(d, c) ==
  CASE d.state = "first" -> IF c = SLASH THEN [d EXCEPT !.state = "sep"]
                            ELSE IF c = DOT THEN [d EXCEPT !.state = "dot"]
                            ELSE [state |-> "normal", depth |-> d.depth + 1]
    [] d.state = "normal" -> IF c = SLASH THEN [d EXCEPT !.state = "sep"] ELSE d
    [] d.state = "sep" -> IF c = DOT THEN [d EXCEPT !.state = "dot"]
                          ELSE IF c = SLASH THEN d
                          ELSE [state |-> "normal", depth |-> d.depth + 1]
    [] d.state = "dot" -> IF c = SLASH THEN [d EXCEPT !.state = "sep"]
                          ELSE IF c = DOT THEN [state |-> "normal", depth |-> d.depth - 1]
                          ELSE [d EXCEPT !.state = "normal"]

pathEscapesDocumentRoot(path) ==
  FoldLeft(EscapeChar, [state |-> "first", depth |-> 0], path).depth < 0

Page(code) == [code |-> code, file |-> NoFile]
File(path) == [code |-> 200, file |-> path]

\* The path without the slashes it begins with.
SuffixOf(path) ==
  LET first == {k \in DOMAIN path : path[k] # SLASH}
  IN  IF first = {} THEN <<>> ELSE SubSeq(path, Min(first), Len(path))

IndexOf(path) == IF path = <<>> THEN <<Index>> ELSE path \o <<SLASH, Index>>

\* A path names a file or a directory; the index of a directory replaces it.
FileOf(path) ==
  IF path \notin DOMAIN Tree THEN Page(404)
  ELSE IF Tree[path] # Directory THEN File(path)
  ELSE IF IndexOf(path) \in DOMAIN Tree /\ Tree[IndexOf(path)] # Directory
       THEN File(IndexOf(path))
  ELSE Page(200)

responseAllocServeFileFromRequestPath(decoded) ==
  IF decoded = <<>> \/ decoded[1] # SLASH THEN Page(400)
  ELSE IF pathEscapesDocumentRoot(SuffixOf(decoded)) THEN Page(403)
  ELSE FileOf(SuffixOf(decoded))

Serve(r) ==
  CASE r.path = <<SLASH>> -> Page(200)
    [] r.path = <<SLASH, QUESTION>> -> responseAllocServeFileFromRequestPath(<<SLASH>>)
    [] OTHER -> responseAllocServeFileFromRequestPath(r.pathDecoded)

\* The lookup fails, or the listing of a directory.
createResponseForRequest ==
  /\ hpc = "found"
  /\ \/ response' = Serve(request) /\ UNCHANGED failed
     \/ response' = Page(500) /\ failed' = TRUE
  /\ size' = IF response'.file = NoFile THEN NoSize ELSE Tree[response'.file]
  /\ hpc' = "send"
  /\ UNCHANGED <<requestVars, answer, at, remaining>>
---------------------------------------------------------------------------
(* Ranges.  A number that is not there is -1.                              *)

\* The three forms sscanf is tried with, in this order.
ParseRange(value, fileLength) ==
  LET has(k, c) == k <= Len(value) /\ value[k] = c
      number(k) == k <= Len(value) /\ IsDigits(value[k])
      suffix_len == IF value[3] > fileLength THEN fileLength ELSE value[3]
  IN  IF ~has(1, BYTES) THEN {}
      ELSE IF number(2) /\ has(3, DASH) /\ number(4)
           THEN {[start |-> value[2], end |-> value[4]]}
      ELSE IF has(2, DASH) /\ number(3)
           THEN {[start |-> fileLength - suffix_len, end |-> fileLength - 1]}
      ELSE IF number(2) THEN {[start |-> value[2], end |-> fileLength - 1]}
      ELSE {}

Unclamped(r, fileLength) == r

Clamped(r, fileLength) ==
  [start |-> IF r.start < 0 THEN 0 ELSE r.start,
   end |-> IF r.end >= fileLength THEN fileLength - 1 ELSE r.end]

RangesOf(r, fileLength) ==
  {Clamped(g, fileLength) : g \in UNION {ParseRange(CString(r.pool, v.at), fileLength) :
                                           v \in headerInRequest(<<RangeName>>, r)}}

\* rangeStart and rangeEnd of a whole file.
Whole(fileLength) == [start |-> 0, end |-> IF fileLength > 0 THEN fileLength - 1 ELSE 0]

NotSatisfiable(g, fileLength) == g.start > g.end \/ g.start >= fileLength
---------------------------------------------------------------------------
(* Sending.  send fails when the client is gone; what it took of a piece   *)
(* before that is not known.                                               *)

HeadWith(code, length, first) ==
  [code |-> code, length |-> length, first |-> first, data |-> <<>>]

\* The n characters of a file from a place on.
PieceAt(from, n) == [k \in 1 .. n |-> from + k - 1]

\* A head and what has followed it, and a piece more.
Followed(head, piece) == [head EXCEPT !.data = @ \o piece]

\* sendResponseBody.
SendPage(code) ==
  /\ \E data \in {<<>>, <<HTML>>} :
       /\ answer' = Append(answer, Followed(HeadWith(code, 1, 0), data))
       /\ failed' = (failed \/ data = <<>>)
  /\ SendEnds
  /\ UNCHANGED <<requestVars, response, size, at, remaining>>

SendFails ==
  /\ failed' = TRUE
  /\ SendEnds
  /\ UNCHANGED <<requestVars, response, size, answer, at, remaining>>

sendResponseBody == hpc = "send" /\ response.file = NoFile /\ (SendPage(response.code) \/ SendFails)

\* The file cannot be opened, or not be read.
FileFails ==
  /\ hpc = "send" /\ response.file # NoFile
  /\ \E code \in {404, 500} : answer' = <<Followed(HeadWith(code, 1, 0), <<HTML>>)>>
  /\ failed' = TRUE
  /\ SendEnds
  /\ UNCHANGED <<requestVars, response, size, at, remaining>>

SendFileHead(code, g) ==
  /\ answer' = <<HeadWith(code, g.end - g.start + 1, g.start)>>
  /\ at' = g.start
  /\ remaining' = g.end - g.start + 1
  /\ hpc' = "loop"
  /\ UNCHANGED <<requestVars, response, size, failed>>

sendResponseFile ==
  /\ hpc = "send" /\ response.file # NoFile
  /\ LET ranges == RangesOf(request, size)
     IN  \/ ranges = {} /\ SendFileHead(response.code, Whole(size))
         \/ \E g \in ranges : IF NotSatisfiable(g, size) THEN SendPage(416) ELSE SendFileHead(206, g)
         \/ SendFails

\* One turn of the loop.  A short read ends it: feof.
Chunk == LET toRead == Min({remaining, SEND_RECV_BUFFER_SIZE})
         IN  Max({0, Min({toRead, size - at})})

SendChunk ==
  /\ hpc = "loop" /\ remaining > 0 /\ Chunk > 0
  /\ answer' = <<Followed(answer[1], PieceAt(at, Chunk))>>
  /\ at' = at + Chunk
  /\ remaining' = remaining - Chunk
  /\ hpc' = IF Chunk < Min({remaining, SEND_RECV_BUFFER_SIZE}) THEN "closed" ELSE "loop"
  /\ UNCHANGED <<requestVars, response, size, failed>>

DoneWhenAllSent ==
  /\ hpc = "loop" /\ remaining = 0
  /\ SendEnds
  /\ UNCHANGED <<requestVars, serveVars>>

SendDone ==
  /\ hpc = "loop" /\ (remaining = 0 \/ Chunk = 0)
  /\ SendEnds
  /\ UNCHANGED <<requestVars, serveVars>>

\* send fails after some of the piece, or all of it.
ChunkFails ==
  /\ hpc = "loop" /\ remaining > 0 /\ Chunk > 0
  /\ \E n \in 0 .. Chunk : answer' = <<Followed(answer[1], PieceAt(at, n))>>
  /\ failed' = TRUE
  /\ SendEnds
  /\ UNCHANGED <<requestVars, response, size, at, remaining>>

\* fread fails: the error page follows what has been sent.
ReadFails ==
  /\ hpc = "loop" /\ remaining > 0
  /\ answer' = Append(answer, Followed(HeadWith(500, 1, 0), <<HTML>>))
  /\ failed' = TRUE
  /\ SendEnds
  /\ UNCHANGED <<requestVars, response, size, at, remaining>>

\* Another program truncates the file.
Truncate ==
  /\ hpc = "loop" /\ size > 0
  /\ size' \in 0 .. size - 1
  /\ failed' = TRUE
  /\ UNCHANGED <<recvVars, response, answer, at, remaining>>

ServeInit ==
  /\ RequestInit
  /\ response = Page(0) /\ size = NoSize /\ answer = <<>> /\ at = 0 /\ remaining = 0
  /\ failed = FALSE

ServeNext ==
  \/ RequestNext /\ UNCHANGED serveVars
  \/ createResponseForRequest
  \/ sendResponseBody
  \/ FileFails
  \/ sendResponseFile
  \/ SendChunk
  \/ SendDone
  \/ ChunkFails
  \/ ReadFails
  \/ Truncate

\* The thread goes on; the client need not send, and nothing has to fail.
Answering == \/ createResponseForRequest \/ sendResponseBody \/ sendResponseFile
             \/ SendChunk \/ SendDone

ServeSpec == ServeInit /\ [][ServeNext]_httpVars /\ WF_httpVars(Answering)
---------------------------------------------------------------------------
(* What the client asked for, written without the server.                  *)

\* The offsets a range names in a file of n characters.
Named(value, n) ==
  {x \in 0 .. n - 1 : \/ Len(value) = 4 /\ value[2] <= x /\ x <= value[4]
                      \/ Len(value) = 3 /\ value[2] = DASH /\ x >= n - value[3]
                      \/ Len(value) = 3 /\ value[3] = DASH /\ value[2] <= x}

IsRange(value) ==
  \/ Len(value) = 4 /\ value[1] = BYTES /\ IsDigits(value[2]) /\ value[3] = DASH /\ IsDigits(value[4])
  \/ Len(value) = 3 /\ value[1] = BYTES /\ value[2] = DASH /\ IsDigits(value[3])
  \/ Len(value) = 3 /\ value[1] = BYTES /\ IsDigits(value[2]) /\ value[3] = DASH

\* The value of the first Range header the server has kept.
RangeValues(r) ==
  LET kept == KeptHeaders(r)
      named == {k \in DOMAIN kept : kept[k].name = <<RangeName>>}
  IN  {kept[k].value : k \in {k \in named : k = Min(named)}}

RangeHeader(r) == {value \in RangeValues(r) : IsRange(value)}

\* What begins as a range in bytes is one, of one of the forms.
RangeClear(r) == \A value \in RangeValues(r) : value # <<>> /\ value[1] = BYTES => IsRange(value)

\* There is an answer, and it is no page of an error.
FileAnswered == answer # <<>> /\ response.file # NoFile /\ answer[1].code \notin {404, 500}

InOrder(S) == [k \in 1 .. Cardinality(S) |-> CHOOSE x \in S : Cardinality({y \in S : y <= x}) = k]

(* The client gets the characters its Range header names, or all of the    *)
(* file, in order and with the length, the first offset and the code that  *)
(* belong to them, and 416 if the file has none of them, whatever form the *)
(* range has and wherever it ends; when something fails, or the file is    *)
(* truncated, a part of them from the first on.  The file is the one the   *)
(* path names, or the index of that directory (sendResponseFile,           *)
(* responseAllocServeFileFromRequestPath).  The length of an empty file    *)
(* without a range is left out, and so are several ranges in one header,   *)
(* a Range header that is cut off, and the requests RequestExact excepts.  *)
FileExact ==
  WellFormed(sent) /\ RangeClear(sent) /\ FileAnswered =>
    LET n == Tree[response.file]
        wanted == IF RangeHeader(sent) = {} THEN 0 .. n - 1
                  ELSE UNION {Named(value, n) : value \in RangeHeader(sent)}
        contents == InOrder(wanted)
        got == answer[1]
        named == IF request.path = <<SLASH, QUESTION>> THEN <<>> ELSE SuffixOf(DecodedPath(sent))
    IN  /\ response.file \in {named, IndexOf(named)}
        /\ got.code = 416 <=> RangeHeader(sent) # {} /\ wanted = {}
        /\ got.code # 416 =>
             /\ got.code = IF RangeHeader(sent) = {} THEN 200 ELSE 206
             /\ IsPrefix(got.data, contents)
             /\ wanted # {} => got.length = Len(contents) /\ got.first = contents[1]
             /\ hpc = "closed" /\ ~failed => got.data = contents

(* A request that is complete is dealt with: the loop ends, also if the    *)
(* file ends before what was promised (EmbeddableWebServer.h:1905-1932).   *)
RequestClosed == hpc = "found" ~> hpc = "closed"

(* EmbeddableWebServer.h:1763 provides for empty files: the client should  *)
(* get what the head promises.                                             *)
LengthKept ==
  hpc = "closed" /\ ~failed /\ answer # <<>> => Len(answer[1].data) = answer[1].length
=============================================================================
