---------------------------- MODULE OutputLog ----------------------------
(***************************************************************************)
(* The log of QEMU's output (src/ui_start.c, src/ui_end.c): a fixed buffer *)
(* that one thread per QEMU process fills from a pipe, and that the UI     *)
(* thread displays every frame, lets the user edit and clears.  Nobody     *)
(* takes a lock, so every access to output_offset and every pass over      *)
(* output is a step of its own.  The buffer has OUTBUF_SZ + 1 cells, here  *)
(* Size + 1.                                                               *)
(***************************************************************************)
EXTENDS Integers, Sequences, FiniteSets

CONSTANTS
  Size,     \* OUTBUF_SZ
  Data,     \* the bytes QEMU writes and the user types, each a character
  NUL,
  Readers   \* threads running read_pipe_thread

ASSUME SizeAssumption == Size \in Nat /\ Size >= 2
ASSUME NulAssumption == NUL \notin Data

VARIABLES
  output, output_offset,   \* nk.ini->output, nk.ini->output_offset
  rpc,                     \* where each reader is, "none" if there is none
  chunk,                   \* its local buffer and read_size
  loaded,                  \* output_offset as loaded for +=
  upc, len,                \* UI thread, and its local len while it draws
  since,                   \* history: the bytes read since the log was cleared
  torn,                    \* history: has the UI interfered with a reader, or
                           \* the user edited the log, since
  overlapped               \* history: were there ever two readers at once

rvars == <<rpc, chunk, loaded>>
uvars == <<upc, len>>
vars == <<output, output_offset, rvars, uvars, since, torn, overlapped>>
---------------------------------------------------------------------------
Cells   == 0 .. Size
RStates == {"none", "read", "zero", "rewind", "copy", "load", "store", "terminate"}
UStates == {"idle", "rewind", "draw"}
Chunks  == UNION {[1 .. n -> Data] : n \in 1 .. Size - 1}

Live      == {r \in Readers : rpc[r] # "none"}
Appending == {r \in Readers : rpc[r] \notin {"none", "read"}}

(* ZeroMemory(output, OUTBUF_SZ) leaves the last cell alone.               *)
Zeroed == [i \in Cells |-> IF i < Size THEN NUL ELSE output[i]]

(* memcpy; cells beyond the array belong to something else.                *)
Copied(c) == [i \in Cells |-> LET k == i - output_offset + 1
                              IN  IF k \in 1 .. Len(c) THEN c[k] ELSE output[i]]

(* strlen, the number of cells before the first NUL, and the text it       *)
(* delimits.                                                               *)
StrLen(a) == Cardinality({i \in Cells : \A j \in 0 .. i : a[j] # NUL})
Shown == [i \in 1 .. StrLen(output) |-> output[i - 1]]

Init ==
  /\ output = [i \in Cells |-> NUL]
  /\ output_offset = 0
  /\ rpc = [r \in Readers |-> "none"]
  /\ chunk = [r \in Readers |-> << >>]
  /\ loaded = [r \in Readers |-> 0]
  /\ upc = "idle"
  /\ len = 0
  /\ since = << >>
  /\ torn = FALSE
  /\ overlapped = FALSE
---------------------------------------------------------------------------
(* Readers.                                                                *)

Goto(r, from, to) == rpc[r] = from /\ rpc' = [rpc EXCEPT ![r] = to]

(* run_qemu creates the thread.  The reader of a QEMU process just killed  *)
(* may still have a pipe to empty.                                         *)
Spawn(r) ==
  /\ upc = "idle"
  /\ Goto(r, "none", "read")
  /\ overlapped' = (overlapped \/ Live # {})
  /\ UNCHANGED <<output, output_offset, chunk, loaded, uvars, since, torn>>

(* Mutant: room for the bytes and none for the terminator.                 *)
ReadChunkTight(r) ==
  \E c \in Chunks :
    /\ Goto(r, "read", IF output_offset + Len(c) > Size THEN "zero" ELSE "copy")
    /\ chunk' = [chunk EXCEPT ![r] = c]
    /\ torn' = (torn \/ upc # "idle")
    /\ UNCHANGED <<output, output_offset, loaded, uvars, since, overlapped>>

(* Mutant: no test for room.                                               *)
ReadChunkUnchecked(r) ==
  \E c \in Chunks :
    /\ Goto(r, "read", "copy")
    /\ chunk' = [chunk EXCEPT ![r] = c]
    /\ torn' = (torn \/ upc # "idle")
    /\ UNCHANGED <<output, output_offset, loaded, uvars, since, overlapped>>

(* ReadFile returns at most OUTBUF_SZ - 1 bytes; then the test for room.   *)
ReadChunk(r) ==
  \E c \in Chunks :
    /\ Goto(r, "read", IF output_offset + Len(c) >= Size THEN "zero" ELSE "copy")
    /\ chunk' = [chunk EXCEPT ![r] = c]
    /\ torn' = (torn \/ upc # "idle")
    /\ UNCHANGED <<output, output_offset, loaded, uvars, since, overlapped>>

(* The pipe is closed: the thread ends.                                    *)
ReadEnd(r) ==
  /\ Goto(r, "read", "none")
  /\ UNCHANGED <<output, output_offset, chunk, loaded, uvars, since, torn, overlapped>>

(* ui_reset_log called by the reader, in two steps.                        *)
ReaderZero(r) ==
  /\ Goto(r, "zero", "rewind")
  /\ output' = Zeroed
  /\ since' = << >>
  /\ UNCHANGED <<output_offset, chunk, loaded, uvars, torn, overlapped>>

ReaderRewind(r) ==
  /\ Goto(r, "rewind", "copy")
  /\ output_offset' = 0
  /\ UNCHANGED <<output, chunk, loaded, uvars, since, torn, overlapped>>

Copy(r) ==
  /\ Goto(r, "copy", "load")
  /\ output' = Copied(chunk[r])
  /\ since' = IF torn \/ overlapped THEN << >> ELSE since \o chunk[r]
  /\ UNCHANGED <<output_offset, chunk, loaded, uvars, torn, overlapped>>

(* output_offset += read_size, a load and a store.                         *)
LoadOffset(r) ==
  /\ Goto(r, "load", "store")
  /\ loaded' = [loaded EXCEPT ![r] = output_offset]
  /\ UNCHANGED <<output, output_offset, chunk, uvars, since, torn, overlapped>>

StoreOffset(r) ==
  /\ Goto(r, "store", "terminate")
  /\ output_offset' = loaded[r] + Len(chunk[r])
  /\ UNCHANGED <<output, chunk, loaded, uvars, since, torn, overlapped>>

Terminate(r) ==
  /\ Goto(r, "terminate", "read")
  /\ output' = [output EXCEPT ![IF output_offset < Size THEN output_offset ELSE Size - 1] = NUL]
  /\ UNCHANGED <<output_offset, chunk, loaded, uvars, since, torn, overlapped>>

Reader(r) ==
  \/ Spawn(r) \/ ReadChunk(r) \/ ReadEnd(r) \/ ReaderZero(r) \/ ReaderRewind(r)
  \/ Copy(r) \/ LoadOffset(r) \/ StoreOffset(r) \/ Terminate(r)
---------------------------------------------------------------------------
(* The UI thread.  A clearing no reader interferes with starts a new,      *)
(* untorn log.                                                             *)

(* ui_reset_log called for the Refresh and Start buttons.                  *)
UiZero ==
  /\ upc = "idle"
  /\ upc' = "rewind"
  /\ output' = Zeroed
  /\ since' = << >>
  /\ torn' = (Appending # {})
  /\ UNCHANGED <<output_offset, rvars, len, overlapped>>

(* Mutant: the offset is kept.                                             *)
UiRewindNot ==
  /\ upc = "rewind"
  /\ upc' = "idle"
  /\ UNCHANGED <<output, output_offset, rvars, len, since, torn, overlapped>>

UiRewind ==
  /\ upc = "rewind"
  /\ upc' = "idle"
  /\ output_offset' = 0
  /\ UNCHANGED <<output, rvars, len, since, torn, overlapped>>

(* nk_edit_string_zero_terminated measures the text, at most OUTBUF_SZ - 1 *)
(* bytes of it, ...                                                        *)
DrawBegin ==
  /\ upc = "idle"
  /\ upc' = "draw"
  /\ len' = IF StrLen(output) < Size - 1 THEN StrLen(output) ELSE Size - 1
  /\ torn' = (torn \/ Appending # {})
  /\ UNCHANGED <<output, output_offset, rvars, since, overlapped>>

(* ... lets the user edit it in place, since the widget is not read-only   *)
(* and the Insert key puts it into insert mode: a character goes in if     *)
(* there is room for it and the terminator, ...                            *)
Type(i, b) ==
  /\ upc = "draw"
  /\ i <= len /\ len + 1 < Size
  /\ output' = [x \in Cells |-> IF x = i THEN b
                                ELSE IF x \in i + 1 .. len THEN output[x - 1] ELSE output[x]]
  /\ len' = len + 1
  /\ torn' = TRUE
  /\ UNCHANGED <<output_offset, rvars, upc, since, overlapped>>

(* ... a character or a selection of n is deleted, ...                     *)
Erase(i, n) ==
  /\ upc = "draw"
  /\ i + n <= len
  /\ output' = [x \in Cells |-> IF x \in i .. len - n - 1 THEN output[x + n] ELSE output[x]]
  /\ len' = len - n
  /\ torn' = TRUE
  /\ UNCHANGED <<output_offset, rvars, upc, since, overlapped>>

(* ... and terminates it where it then ends.  output_offset stays.         *)
DrawEnd ==
  /\ upc = "draw"
  /\ upc' = "idle"
  /\ output' = [output EXCEPT ![len] = NUL]
  /\ len' = 0
  /\ UNCHANGED <<output_offset, rvars, since, torn, overlapped>>

Next ==
  \/ \E r \in Readers : Reader(r)
  \/ UiZero \/ UiRewind \/ DrawBegin \/ DrawEnd
  \/ \E i \in Cells, b \in Data : Type(i, b)
  \/ \E i \in Cells, n \in 1 .. Size : Erase(i, n)

Spec == Init /\ [][Next]_vars
---------------------------------------------------------------------------
TypeOK ==
  /\ output \in [Cells -> Data \cup {NUL}]
  /\ output_offset \in Nat
  /\ rpc \in [Readers -> RStates]
  /\ chunk \in [Readers -> Seq(Data)]
  /\ loaded \in [Readers -> Nat]
  /\ upc \in UStates
  /\ len \in 0 .. Size - 1
  /\ since \in Seq(Data)
  /\ torn \in BOOLEAN
  /\ overlapped \in BOOLEAN

(* A reader writes within the first OUTBUF_SZ bytes, terminator included,  *)
(* and the offset stays within them, whenever the UI clears or draws the   *)
(* log and the user edits it in between (ui_start.c:57-65).  It takes that *)
(* no two readers were ever at work at once, which the launcher does not   *)
(* see to.                                                                 *)
InBounds ==
  ~overlapped =>
    /\ output_offset < Size
    /\ \A r \in Readers : rpc[r] = "copy" => output_offset + Len(chunk[r]) < Size

(* There is a terminator for the UI's strlen to find (ui_end.c:211).       *)
Terminated == ~overlapped => \E i \in Cells : output[i] = NUL

(* Between the steps, the log shows exactly what was read since it was     *)
(* cleared, in order, provided that the UI did not clear or draw it while  *)
(* a reader appended, and that the user did not edit it; and a clearing    *)
(* repairs a log disturbed or edited in that way, for the output to come   *)
(* (ui_start.c:57-65, ui_end.c:209-212).                                   *)
LogExact ==
  ~torn /\ ~overlapped /\ Appending = {} /\ upc = "idle" =>
    Shown = since /\ output_offset = Len(since)
---------------------------------------------------------------------------
(* The inductive invariant behind InBounds: while there is one reader, a   *)
(* chunk past the test for room still fits, whatever the UI does to the    *)
(* offset, and so does the offset it stores.                               *)
OneReader == ~overlapped => \A r, s \in Live : r = s

Room ==
  ~overlapped =>
    /\ output_offset < Size
    /\ \A r \in Readers :
         /\ rpc[r] \in {"zero", "rewind"} => Len(chunk[r]) < Size
         /\ rpc[r] \in {"copy", "load"} => output_offset + Len(chunk[r]) < Size
         /\ rpc[r] = "store" => loaded[r] + Len(chunk[r]) < Size

LastCell == ~overlapped => output[Size] = NUL

(* The invariant behind LogExact.  While nobody has torn the log, its      *)
(* first cells hold what was read since it was cleared; the offset and the *)
(* terminator follow the text, except in the steps of a reader or of the   *)
(* UI that are about to restore them.                                      *)
At(S) == \E r \in Readers : rpc[r] \in S

Untorn ==
  /\ upc # "idle" => Appending = {}
  /\ Len(since) < Size
  /\ \A i \in 1 .. Len(since) : output[i - 1] = since[i]
  /\ ~At({"load", "store", "terminate"}) => output[Len(since)] = NUL
  /\ upc # "rewind" /\ ~At({"rewind", "load", "store"}) => output_offset = Len(since)
  /\ upc = "rewind" \/ At({"rewind"}) => Len(since) = 0
  /\ upc = "draw" => len = Len(since)
  /\ \A r \in Readers :
       /\ rpc[r] \in {"load", "store"} => output_offset + Len(chunk[r]) = Len(since)
       /\ rpc[r] = "store" => loaded[r] = output_offset

LogKept == ~torn /\ ~overlapped => Untorn

IInv == TypeOK /\ OneReader /\ Room /\ LastCell /\ LogKept
===========================================================================
