------------------------------ MODULE Inflate ------------------------------
(***************************************************************************)
(* How wimldr calls a decompressor (wim.c: wim_chunk, main.c:              *)
(* add_bootmgr): without a buffer, for the length, and if that did not     *)
(* fail once more, to fill a buffer of this length; whether the second     *)
(* call fails is not looked at.  Lznt1, Xca and Lzx extend this module.    *)
(*                                                                         *)
(* The data begin with what an encoder makes of a text; len may be less    *)
(* than that, since a resource may say so and add_bootmgr only guesses     *)
(* where compressed data begin.                                            *)
(***************************************************************************)
EXTENDS Integers, Sequences, SequencesExt, FiniteSetsExt

CONSTANTS
  Cuts,      \* how much shorter than the data the length told may be
  Expected   \* does the caller know how long the text is, as wim_chunk does

VARIABLES
  text,      \* what was compressed: bytes
  data,      \* the compressed data
  len,       \* and the length of them that is told
  buf,       \* is there a buffer
  out_len,   \* bytes decompressed in this call
  out,       \* those in the buffer
  measured,  \* what the first call returned
  pc         \* "start", steps of the decompressor, "done" or "failed"

inputs == <<text, data, len>>
inflateVars == <<inputs, buf, out_len, out, measured, pc>>

At(offset) == data[offset + 1]

InflateInit == buf = FALSE /\ out_len = 0 /\ out = <<>> /\ measured = 0 /\ pc = "start"

Told == {Len(data) - cut : cut \in {c \in Cuts : c <= Len(data)}}

Emit(bytes) == /\ out_len' = out_len + Len(bytes)
               /\ out' = IF buf THEN out \o bytes ELSE out

\* Byte by byte, from what may be written only now.
Copy(distance, length) ==
  /\ out_len' = out_len + length
  /\ out' = IF buf
            THEN out \o [i \in 1 .. length |-> out[Len(out) - distance + 1 + ((i - 1) % distance)]]
            ELSE out

Fail == pc' = "failed" /\ UNCHANGED <<inputs, buf, out_len, out, measured>>

\* result is what the buffer is left with.
Return(result) ==
  CASE buf -> pc' = "done" /\ out' = result /\ UNCHANGED <<inputs, buf, out_len, measured>>
    [] ~buf /\ Expected /\ out_len # Len(text) -> Fail
    [] OTHER -> /\ buf' = TRUE /\ measured' = out_len
                /\ out_len' = 0 /\ pc' = "start"
                /\ UNCHANGED <<inputs, out>>
---------------------------------------------------------------------------
(* What an encoder may do: cut a text into literals and matches, each of   *)
(* which repeats what is at some distance before it.                       *)

Literal(at, byte) == [at |-> at, length |-> 1, distance |-> 0, byte |-> byte]
Match(at, length, distance) == [at |-> at, length |-> length, distance |-> distance, byte |-> 0]

Repeats(t, p, length, distance) ==
  /\ distance < p
  /\ p + length - 1 <= Len(t)
  /\ \A i \in p .. p + length - 1 : t[i] = t[i - distance]

Parses(t, shortest) ==
  LET from[p \in 1 .. Len(t) + 1] ==
        IF p > Len(t) THEN {<<>>}
        ELSE {<<Literal(p - 1, t[p])>> \o rest : rest \in from[p + 1]}
             \cup UNION {{<<Match(p - 1, m[1], m[2])>> \o rest : rest \in from[p + m[1]]} :
                           m \in {m \in (shortest .. Len(t)) \X (1 .. Len(t)) :
                                    Repeats(t, p, m[1], m[2])}}
  IN  from[1]

(* The data say what was compressed: both calls give the same length, the  *)
(* second one fills the buffer with the text, and with data cut short only *)
(* a part of it; and the second call does not fail when the first did not. *)
Inflated ==
  /\ pc = "failed" => ~buf /\ len < Len(data)
  /\ pc = "done" => Len(out) = measured /\ IsPrefix(out, text)
  /\ buf /\ len = Len(data) => measured = Len(text)
============================================================================
