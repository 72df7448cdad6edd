--------------------------------- MODULE Bcd ---------------------------------
(***************************************************************************)
(* patch_bcd (patch.c): in what is read of the file BCD, each suffix that  *)
(* is not the firmware's (".exe" or ".efi", with its terminator) is        *)
(* replaced.  The file is read in sectors, as many at a time as the reader *)
(* likes; what is read is patched by itself.                               *)
(***************************************************************************)
EXTENDS Integers, Sequences

CONSTANTS
  Search, Replace,   \* BCD_SEARCH, BCD_REPLACE: sequences of cells
  VDISK_SECTOR_SIZE, \* in cells
  Bcds               \* the files: sequences of cells

\* Both suffixes are as long, and only begin with the dot they begin with.
BcdAssumption ==
  /\ VDISK_SECTOR_SIZE \in Nat \ {0}
  /\ \A s \in Bcds : s = [k \in 1 .. Len(s) |-> s[k]] /\ Len(s) \in Nat
  /\ Len(Search) \in Nat \ {0} /\ Len(Replace) = Len(Search)
  /\ Search = [k \in 1 .. Len(Search) |-> Search[k]]
  /\ \A m \in 2 .. Len(Search) : Search[m] # Search[1] /\ Replace[m] # Search[1]

VARIABLES
  bcd,       \* the file as it is
  piece_at,  \* where the piece begins
  piece,     \* what has been read
  tried,     \* how far the loop has come, in the piece
  patching   \* "idle", "loop" or "read"

bcdVars == <<bcd, piece_at, piece, tried, patching>>

Least(a, b) == IF a < b THEN a ELSE b

\* The occurrence at position k, from 0, of a sequence.
Occurs(s, k) == k + Len(Search) <= Len(s) /\ SubSeq(s, k + 1, k + Len(Search)) = Search

Patched(s, k) == [j \in 1 .. Len(s) |->
                    IF j \in k + 1 .. k + Len(Search) THEN Replace[j - k] ELSE s[j]]

\* Sectors are read; what is behind the end of the file is not patched.
ReadBcd ==
  /\ patching = "idle"
  /\ \E sector, n \in 0 .. Len(bcd) :
       /\ n > 0 /\ sector * VDISK_SECTOR_SIZE < Len(bcd)
       /\ piece_at' = sector * VDISK_SECTOR_SIZE
       /\ piece' = SubSeq(bcd, piece_at' + 1, Least(Len(bcd), piece_at' + n * VDISK_SECTOR_SIZE))
  /\ tried' = 0 /\ patching' = "loop"
  /\ UNCHANGED bcd

\* The loop ends with the last suffix that something follows.
More == patching = "loop" /\ tried + Len(Search) < Len(piece)

\* The loop begins where the last match ended.
Jump == /\ More
        /\ IF Occurs(piece, tried)
           THEN piece' = Patched(piece, tried) /\ tried' = tried + Len(Search) + 1
           ELSE UNCHANGED piece /\ tried' = tried + 1
        /\ UNCHANGED <<bcd, piece_at, patching>>

patch_bcd == /\ More
             /\ piece' = IF Occurs(piece, tried) THEN Patched(piece, tried) ELSE piece
             /\ tried' = tried + 1
             /\ UNCHANGED <<bcd, piece_at, patching>>

ReturnBcd == /\ patching = "loop" /\ ~More
             /\ patching' = "read"
             /\ UNCHANGED <<bcd, piece_at, piece, tried>>

BcdInit == /\ bcd \in Bcds
           /\ piece_at = 0 /\ piece = <<>> /\ tried = 0 /\ patching = "idle"

BcdNext == ReadBcd \/ patch_bcd \/ ReturnBcd

BcdSpec == BcdInit /\ [][BcdNext]_bcdVars
---------------------------------------------------------------------------
\* What the piece was when it had been read, and the suffixes in it at the first
\* n positions.
Unpatched == SubSeq(bcd, piece_at + 1, piece_at + Len(piece))
SuffixesBefore(n) == {k \in 0 .. n - 1 : Occurs(Unpatched, k)}

\* Those suffixes are replaced, and nothing else.
PatchedUpTo(n) ==
  \A j \in 1 .. Len(piece) :
    LET cover == {k \in SuffixesBefore(n) : j \in k + 1 .. k + Len(Search)}
    IN  IF cover = {} THEN piece[j] = bcd[piece_at + j]
        ELSE \E k \in cover : piece[j] = Replace[j - k]

(* Exactly the suffixes that lie in what was read and do not end with it   *)
(* are replaced, and everything else is delivered as it is in the file:    *)
(* the loop (patch.c:847-853) misses none next to one another, and does    *)
(* not look into its own replacements.                                     *)
SuffixesPatched == patching = "read" => PatchedUpTo(Len(piece) - Len(Search))

(* All suffixes that are read are replaced, as patch.c:843 says: "Patch    *)
(* any occurrences of ".exe" to ".efi"".                                   *)
AllPatched ==
  patching = "read" =>
    \A j \in 1 .. Len(piece), k \in 0 .. Len(bcd) - 1 :
      Occurs(bcd, k) /\ piece_at + j \in k + 1 .. k + Len(Search) =>
        piece[j] = Replace[piece_at + j - k]

(* The loop has replaced the suffixes it has passed, and not looked beyond *)
(* the last one it may replace.                                            *)
BcdInv ==
  /\ bcd \in Bcds /\ patching \in {"idle", "loop", "read"}
  /\ piece_at \in Nat /\ tried \in Nat
  /\ piece = [k \in 1 .. Len(piece) |-> piece[k]] /\ Len(piece) \in Nat
  /\ patching # "idle" =>
       /\ piece_at + Len(piece) <= Len(bcd)
       /\ tried = 0 \/ tried + Len(Search) <= Len(piece)
       /\ PatchedUpTo(tried)
  /\ SuffixesPatched
=============================================================================
