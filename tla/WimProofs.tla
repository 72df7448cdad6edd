----------------------------- MODULE WimProofs -----------------------------
(***************************************************************************)
(* Proofs about WimRead, for any resources and chunk length: the chunk     *)
(* cache is coherent, and a read gives the bytes of the resource.  About   *)
(* Bcd: patch_bcd replaces the suffixes it comes by and nothing else, for  *)
(* files of any length and suffixes of any length.  And about WimPatch: a  *)
(* read of a piece of the patched image, wherever it begins and ends,      *)
(* gives the cells the image has there.                                    *)
(***************************************************************************)
EXTENDS WimRead, Bcd, WimPatch, SequenceTheorems, FiniteSetTheorems, WellFoundedInduction, TLAPS

\* A sequence of n cells.
OfCells(s, n) == s = [c \in 1 .. n |-> s[c]]

(* Where a suffix is: an occurrence, cell by cell.                         *)
LEMMA OccursCells ==
  ASSUME BcdAssumption, NEW n \in Nat, NEW s, OfCells(s, n), NEW k \in Nat
  PROVE  Occurs(s, k) <=> /\ k + Len(Search) <= n
                          /\ \A m \in 1 .. Len(Search) : s[k + m] = Search[m]
<1> DEFINE L == Len(Search)
<1>0. L \in Nat /\ L > 0 /\ Len(s) = n /\ Search = [m \in 1 .. L |-> Search[m]]
  BY DEF BcdAssumption, OfCells
<1>1. ASSUME k + L <= n
      PROVE  SubSeq(s, k + 1, k + L) = [m \in 1 .. L |-> s[k + m]]
  <2>1. SubSeq(s, k + 1, k + L) = [m \in 1 .. L |-> s[(k + 1) + m - 1]]
    BY <1>0, <1>1
  <2>2. \A m \in 1 .. L : (k + 1) + m - 1 = k + m
    BY <1>0
  <2> QED
    BY <2>1, <2>2
<1>2. ASSUME k + L <= n
      PROVE  SubSeq(s, k + 1, k + L) = Search <=> \A m \in 1 .. L : s[k + m] = Search[m]
  <2> HIDE DEF L
  <2> QED
    BY <1>0, <1>1, <1>2
<1> QED
  BY <1>0, <1>2 DEF Occurs

(* The piece as it was read.                                               *)
LEMMA UnpatchedCells ==
  ASSUME BcdAssumption, BcdInv, patching # "idle"
  PROVE  /\ Unpatched = [c \in 1 .. Len(piece) |-> Unpatched[c]]
         /\ \A c \in 1 .. Len(piece) : Unpatched[c] = bcd[piece_at + c]
<1> DEFINE n == Len(piece)
<1>1. /\ n \in Nat /\ piece_at \in Nat /\ piece_at + n <= Len(bcd)
      /\ Len(bcd) \in Nat /\ bcd = [c \in 1 .. Len(bcd) |-> bcd[c]]
  BY DEF BcdInv, BcdAssumption
<1>2. Unpatched = [c \in 1 .. n |-> bcd[(piece_at + 1) + c - 1]]
  <2> HIDE DEF n
  <2>1. SubSeq(bcd, piece_at + 1, piece_at + n) = [c \in 1 .. n |-> bcd[(piece_at + 1) + c - 1]]
    BY <1>1
  <2> QED
    BY <2>1 DEF Unpatched, n
<1>3. \A c \in 1 .. n : (piece_at + 1) + c - 1 = piece_at + c
  BY <1>1
<1> QED
  BY <1>2, <1>3

LEMMA Inside ==
  ASSUME NEW t \in Nat, NEW c \in 0 .. t - 1, NEW L \in Nat, t + 1 \in c + 1 .. c + L
  PROVE  /\ (t + 1) - c \in 2 .. L /\ (t + 1) - c \in 1 .. L
         /\ c + ((t + 1) - c) = t + 1 /\ c \in Nat
OBVIOUS

(* One turn of the loop: because a suffix begins with a character that is  *)
(* nowhere else in either suffix, what has been replaced before neither    *)
(* hides one nor looks like one.                                           *)
LEMMA SameCells ==
  ASSUME BcdAssumption,
         NEW n \in Nat, NEW t \in Nat, NEW L \in Nat \ {0}, L = Len(Search), t + L < n,
         NEW u, OfCells(u, n), NEW p, OfCells(p, n),
         \A j \in 1 .. n :
           (\A k \in 0 .. t - 1 : ~(Occurs(u, k) /\ j \in k + 1 .. k + L)) => p[j] = u[j],
         \A j \in 1 .. n : \A k \in 0 .. t - 1 :
           Occurs(u, k) /\ j \in k + 1 .. k + L =>
             \E c \in 0 .. t - 1 : /\ Occurs(u, c) /\ j \in c + 1 .. c + L
                                   /\ p[j] = Replace[j - c]
  PROVE  Occurs(p, t) <=> Occurs(u, t)
<1>1. \A k \in Nat : Occurs(u, k) <=> k + L <= n /\ \A m \in 1 .. L : u[k + m] = Search[m]
  BY OccursCells
<1>2. Occurs(p, t) <=> \A m \in 1 .. L : p[t + m] = Search[m]
  <2>1. \A k \in Nat : Occurs(p, k) <=> k + L <= n /\ \A m \in 1 .. L : p[k + m] = Search[m]
    BY OccursCells
  <2> QED
    BY <2>1
<1>3. Occurs(u, t) <=> \A m \in 1 .. L : u[t + m] = Search[m]
  BY <1>1
<1>4. 1 \in 1 .. L /\ t + 1 \in 1 .. n
  OBVIOUS
<1>5. \A m \in 2 .. L : Search[m] # Search[1] /\ Replace[m] # Search[1]
  BY DEF BcdAssumption
<1>6. CASE \E k \in 0 .. t - 1 : Occurs(u, k) /\ t + 1 \in k + 1 .. k + L
  <2>1. PICK c \in 0 .. t - 1 : /\ Occurs(u, c) /\ t + 1 \in c + 1 .. c + L
                               /\ p[t + 1] = Replace[(t + 1) - c]
    BY <1>4, <1>6
  <2>2. /\ (t + 1) - c \in 2 .. L /\ (t + 1) - c \in 1 .. L
        /\ c + ((t + 1) - c) = t + 1 /\ c \in Nat
    BY <2>1, Inside
  <2>3. p[t + 1] # Search[1]
    BY <1>5, <2>1, <2>2
  <2>4. u[t + 1] = Search[(t + 1) - c]
    BY <1>1, <2>1, <2>2
  <2>5. u[t + 1] # Search[1]
    BY <1>5, <2>2, <2>4
  <2> QED
    BY <1>2, <1>3, <1>4, <2>3, <2>5
<1>7. CASE \A k \in 0 .. t - 1 : ~(Occurs(u, k) /\ t + 1 \in k + 1 .. k + L)
  <2>1. ASSUME NEW m \in 1 .. L, NEW k \in 0 .. t - 1, Occurs(u, k), t + m \in k + 1 .. k + L
        PROVE  t + 1 \in k + 1 .. k + L
    <3>1. t + m <= k + L
      BY <2>1
    <3>2. k + 1 <= t + 1 /\ t + 1 <= t + m
      BY <2>1
    <3> QED
      BY <3>1, <3>2
  <2>2. ASSUME NEW m \in 1 .. L PROVE p[t + m] = u[t + m]
    <3>1. t + m \in 1 .. n
      OBVIOUS
    <3> QED
      BY <1>7, <2>1, <3>1
  <2> QED
    BY <1>2, <1>3, <2>2
<1> QED
  BY <1>6, <1>7

LEMMA SameOccurrence ==
  ASSUME BcdAssumption, BcdInv, More
  PROVE  Occurs(piece, tried) <=> Occurs(Unpatched, tried)
<1> DEFINE n == Len(piece)
           L == Len(Search)
           u == Unpatched
<1>1. /\ n \in Nat /\ tried \in Nat /\ L \in Nat \ {0} /\ tried + L < n
      /\ OfCells(piece, n) /\ OfCells(u, n)
      /\ \A c \in 1 .. n : u[c] = bcd[piece_at + c]
  BY UnpatchedCells DEF BcdInv, BcdAssumption, More, OfCells
<1>2. /\ \A j \in 1 .. n :
           (\A k \in 0 .. tried - 1 : ~(Occurs(u, k) /\ j \in k + 1 .. k + L))
             => piece[j] = u[j]
      /\ \A j \in 1 .. n : \A k \in 0 .. tried - 1 :
           Occurs(u, k) /\ j \in k + 1 .. k + L =>
             \E c \in 0 .. tried - 1 : /\ Occurs(u, c) /\ j \in c + 1 .. c + L
                                       /\ piece[j] = Replace[j - c]
  <2>1. PatchedUpTo(tried)
    BY DEF BcdInv, More
  <2> QED
    BY <1>1, <2>1 DEF PatchedUpTo, SuffixesBefore
<1>3. L = Len(Search)
  OBVIOUS
<1> HIDE DEF u, n, L
<1>4. Occurs(piece, tried) <=> Occurs(u, tried)
  BY <1>1, <1>2, <1>3, SameCells
<1> QED
  BY <1>4 DEF u

LEMMA PatchStep == ASSUME BcdAssumption, BcdInv, patch_bcd PROVE BcdInv'
<1> DEFINE n == Len(piece)
           L == Len(Search)
           u == Unpatched
           Covers(j, k) == Occurs(u, k) /\ j \in k + 1 .. k + L
<1>1. /\ n \in Nat /\ tried \in Nat /\ L \in Nat \ {0} /\ tried + L < n
      /\ piece = [c \in 1 .. n |-> piece[c]] /\ patching = "loop"
      /\ \A c \in 1 .. n : u[c] = bcd[piece_at + c]
  BY UnpatchedCells DEF BcdInv, BcdAssumption, More, patch_bcd
<1>2. /\ tried' = tried + 1
      /\ bcd' = bcd /\ piece_at' = piece_at /\ patching' = "loop"
  BY DEF patch_bcd, More
<1>3. /\ piece' = [c \in 1 .. n |-> piece'[c]]
      /\ \A j \in 1 .. n : piece'[j] = IF Covers(j, tried) THEN Replace[j - tried] ELSE piece[j]
  <2>1. piece' = IF Occurs(u, tried) THEN Patched(piece, tried) ELSE piece
    BY SameOccurrence DEF patch_bcd
  <2>2. Patched(piece, tried) = [j \in 1 .. n |-> IF j \in tried + 1 .. tried + L
                                                 THEN Replace[j - tried] ELSE piece[j]]
    BY DEF Patched
  <2>3. CASE Occurs(u, tried)
    BY <2>1, <2>2, <2>3
  <2>4. CASE ~Occurs(u, tried)
    BY <1>1, <2>1, <2>4
  <2> QED
    BY <2>3, <2>4
<1>4. Len(piece') = n
  <2> HIDE DEF n
  <2> QED
    BY <1>1, <1>3
<1>5. Unpatched' = u
  BY <1>2, <1>4 DEF Unpatched
<1>6. /\ \A j \in 1 .. n :
           (\A k \in 0 .. tried - 1 : ~Covers(j, k)) => piece[j] = u[j]
      /\ \A j \in 1 .. n : \A k \in 0 .. tried - 1 :
           Covers(j, k) => \E c \in 0 .. tried - 1 : Covers(j, c) /\ piece[j] = Replace[j - c]
  BY <1>1 DEF BcdInv, PatchedUpTo, SuffixesBefore
<1>7. ASSUME NEW j \in 1 .. n, \A k \in 0 .. tried : ~Covers(j, k)
      PROVE  piece'[j] = bcd[piece_at + j]
  BY <1>1, <1>3, <1>6, <1>7
<1>8. ASSUME NEW j \in 1 .. n, NEW k \in 0 .. tried, Covers(j, k)
      PROVE  \E c \in 0 .. tried : Covers(j, c) /\ piece'[j] = Replace[j - c]
  <2>1. CASE Covers(j, tried)
    BY <1>1, <1>3, <2>1
  <2>2. CASE ~Covers(j, tried)
    <3>1. k \in 0 .. tried - 1
      BY <1>1, <1>8, <2>2
    <3>2. PICK c \in 0 .. tried - 1 : Covers(j, c) /\ piece[j] = Replace[j - c]
      BY <1>6, <1>8, <3>1
    <3> QED
      BY <1>1, <1>3, <2>2, <3>2
  <2> QED
    BY <2>1, <2>2
<1>9. \A k : Occurs(u, k)' = Occurs(u, k)
  BY <1>5 DEF Occurs
<1>10. PatchedUpTo(tried)'
  <2> HIDE DEF n
  <2>1. (tried + 1) - 1 = tried
    BY <1>1
  <2>2. SuffixesBefore(tried)' = {k \in 0 .. tried : Occurs(u, k)}
    BY <1>2, <1>5, <2>1 DEF SuffixesBefore, Occurs
  <2> QED
    BY <1>2, <1>4, <1>7, <1>8, <2>2 DEF PatchedUpTo
<1>11. SuffixesPatched'
  BY <1>2 DEF SuffixesPatched
<1> HIDE DEF n, L, u
<1> QED
  BY <1>1, <1>2, <1>3, <1>4, <1>10, <1>11 DEF BcdInv, L, n

LEMMA TimesNat == ASSUME NEW x \in Nat, NEW y \in Nat PROVE x * y \in Nat
OBVIOUS

LEMMA LeastBetween ==
  ASSUME NEW x \in Nat, NEW y \in Nat, NEW z \in Nat, x <= y, x <= z
  PROVE  Least(z, y) \in Nat /\ x <= Least(z, y) /\ Least(z, y) <= z
BY DEF Least

(* Where a piece ends, when it begins in the file.                         *)
LEMMA PieceEnd ==
  ASSUME NEW a \in Nat, NEW length \in Nat, a < length, NEW n \in Nat, NEW size \in Nat,
         NEW end, end = Least(length, a + n * size)
  PROVE  end \in Nat /\ a <= end /\ end <= length
<1>1. PICK span \in Nat : span = n * size
  BY TimesNat
<1>2. PICK reach \in Nat : reach = a + span /\ a <= reach
  OBVIOUS
<1>3. a <= length /\ end = Least(length, reach)
  BY <1>1, <1>2
<1> QED
  BY <1>2, <1>3, LeastBetween

LEMMA SliceCells ==
  ASSUME NEW s, NEW a \in Nat, NEW e \in Nat, a <= e
  PROVE  /\ OfCells(SubSeq(s, a + 1, e), e - a) /\ Len(SubSeq(s, a + 1, e)) = e - a
         /\ \A c \in 1 .. e - a : SubSeq(s, a + 1, e)[c] = s[a + c]
<1> DEFINE n == e - a
<1>1. n \in Nat /\ e = a + n
  OBVIOUS
<1> HIDE DEF n
<1>2. SubSeq(s, a + 1, a + n) = [c \in 1 .. n |-> s[(a + 1) + c - 1]]
  BY <1>1
<1>3. \A c \in 1 .. n : (a + 1) + c - 1 = a + c
  BY <1>1
<1>4. Len(SubSeq(s, a + 1, a + n)) = n
  BY <1>1, <1>2
<1>5. \A c \in 1 .. n : SubSeq(s, a + 1, a + n)[c] = s[a + c]
  BY <1>2, <1>3
<1>6. OfCells(SubSeq(s, a + 1, a + n), n)
  BY <1>2 DEF OfCells
<1> QED
  BY <1>1, <1>4, <1>5, <1>6 DEF n

(* A piece as it is read: it lies in the file, and nothing of it is tried. *)
LEMMA ReadStep == ASSUME BcdAssumption, BcdInv, ReadBcd PROVE BcdInv'
<1> DEFINE length == Len(bcd)
<1>1. /\ length \in Nat /\ OfCells(bcd, length) /\ bcd' = bcd /\ bcd \in Bcds
      /\ tried' = 0 /\ patching' = "loop" /\ VDISK_SECTOR_SIZE \in Nat \ {0}
  BY DEF BcdInv, BcdAssumption, ReadBcd, OfCells
<1>2. PICK sector \in 0 .. length, n \in 0 .. length :
        /\ n > 0 /\ sector * VDISK_SECTOR_SIZE < length
        /\ piece_at' = sector * VDISK_SECTOR_SIZE
        /\ piece' = SubSeq(bcd, piece_at' + 1, Least(length, piece_at' + n * VDISK_SECTOR_SIZE))
  BY DEF ReadBcd
<1> DEFINE end == Least(length, piece_at' + n * VDISK_SECTOR_SIZE)
<1>3. piece_at' \in Nat /\ piece_at' < length
  <2>1. sector \in Nat /\ VDISK_SECTOR_SIZE \in Nat
    BY <1>1, <1>2
  <2> QED
    BY <1>2, <2>1, TimesNat
<1>4. end \in Nat /\ piece_at' <= end /\ end <= length
  <2>1. length \in Nat /\ n \in Nat /\ VDISK_SECTOR_SIZE \in Nat
    BY <1>1, <1>2
  <2>2. end = Least(length, piece_at' + n * VDISK_SECTOR_SIZE)
    OBVIOUS
  <2> HIDE DEF end, length
  <2> QED
    BY <1>3, <2>1, <2>2, PieceEnd
<1> HIDE DEF end
<1>5. /\ OfCells(piece', end - piece_at') /\ Len(piece') = end - piece_at'
      /\ \A c \in 1 .. end - piece_at' : piece'[c] = bcd[piece_at' + c]
  <2>1. piece' = SubSeq(bcd, piece_at' + 1, end)
    BY <1>2 DEF end
  <2> QED
    BY <1>3, <1>4, <2>1, SliceCells
<1>6. piece_at' + Len(piece') <= length
  <2>1. \A a, e : a \in Nat /\ e \in Nat => a + (e - a) = e
    OBVIOUS
  <2>2. piece_at' + Len(piece') = end
    BY <1>3, <1>4, <1>5, <2>1
  <2> QED
    BY <1>4, <2>2
<1>7. SuffixesBefore(tried)' = {}
  BY <1>1 DEF SuffixesBefore
<1>8. \A c \in 1 .. Len(piece') : piece'[c] = bcd[piece_at' + c]
  BY <1>5
<1>9. PatchedUpTo(tried)'
  BY <1>1, <1>7, <1>8 DEF PatchedUpTo
<1>10. Len(piece') \in Nat /\ piece' = [c \in 1 .. Len(piece') |-> piece'[c]]
  BY <1>3, <1>4, <1>5 DEF OfCells
<1>11. SuffixesPatched'
  BY <1>1 DEF SuffixesPatched
<1> QED
  BY <1>1, <1>3, <1>6, <1>9, <1>10, <1>11 DEF BcdInv

(* The loop ends where no further suffix can be followed by anything.      *)
LEMMA ReturnStep == ASSUME BcdAssumption, BcdInv, ReturnBcd PROVE BcdInv'
<1> DEFINE n == Len(piece)
           L == Len(Search)
<1>1. /\ n \in Nat /\ tried \in Nat /\ L \in Nat \ {0} /\ tried + L >= n
      /\ tried = 0 \/ tried + L <= n
      /\ PatchedUpTo(tried) /\ patching = "loop" /\ patching' = "read"
  BY DEF BcdInv, BcdAssumption, More, ReturnBcd
<1>2. /\ bcd' = bcd /\ piece_at' = piece_at /\ piece' = piece /\ tried' = tried
  BY DEF ReturnBcd
<1>3. 0 .. tried - 1 = 0 .. (n - L) - 1
  <2> HIDE DEF n, L
  <2> QED
    BY <1>1
<1>4. SuffixesBefore(n - L) = SuffixesBefore(tried)
  BY <1>3 DEF SuffixesBefore
<1>5. PatchedUpTo(n - L)
  BY <1>1, <1>4 DEF PatchedUpTo
<1>6. PatchedUpTo(n - L)' /\ PatchedUpTo(tried)'
  BY <1>1, <1>2, <1>5 DEF PatchedUpTo, SuffixesBefore, Occurs, Unpatched
<1>7. SuffixesPatched'
  BY <1>6 DEF SuffixesPatched
<1> QED
  BY <1>1, <1>2, <1>6, <1>7 DEF BcdInv

(* In what is read of BCD, exactly the suffixes that something follows are *)
(* replaced (patch.c:834-855), whatever the suffixes and the file.         *)
THEOREM BcdPatched == ASSUME BcdAssumption PROVE BcdSpec => []SuffixesPatched
<1>1. BcdInit => BcdInv
  <2> SUFFICES ASSUME BcdInit PROVE BcdInv
    OBVIOUS
  <2>1. /\ bcd \in Bcds /\ piece_at = 0 /\ piece = <<>> /\ tried = 0 /\ patching = "idle"
    BY DEF BcdInit
  <2>2. Len(piece) = 0 /\ piece = [k \in 1 .. 0 |-> piece[k]]
    BY <2>1
  <2> QED
    BY <2>1, <2>2 DEF BcdInv, SuffixesPatched
<1>2. BcdInv /\ [BcdNext]_bcdVars => BcdInv'
  <2> SUFFICES ASSUME BcdInv, [BcdNext]_bcdVars PROVE BcdInv'
    OBVIOUS
  <2>1. CASE ReadBcd
    BY <2>1, ReadStep
  <2>2. CASE patch_bcd
    BY <2>2, PatchStep
  <2>3. CASE ReturnBcd
    BY <2>3, ReturnStep
  <2>4. CASE UNCHANGED bcdVars
    BY <2>4 DEF bcdVars, BcdInv, SuffixesPatched, PatchedUpTo, SuffixesBefore, Occurs, Unpatched
  <2> QED
    BY <2>1, <2>2, <2>3, <2>4 DEF BcdNext
<1>3. BcdInv => SuffixesPatched
  BY DEF BcdInv
<1> QED
  BY <1>1, <1>2, <1>3, PTL DEF BcdSpec
---------------------------------------------------------------------------
(* Division by the length of a chunk. *)
LEMMA DivMod ==
  ASSUME NEW n \in Nat \ {0}, NEW i \in Int
  PROVE  /\ i \div n \in Int /\ i % n \in 0 .. n - 1
         /\ i = n * (i \div n) + (i % n)
  OBVIOUS

LEMMA Spacing ==
  ASSUME NEW n \in Nat \ {0}, NEW a \in Int, NEW b \in Int, a < b
  PROVE  n * a + n <= n * b
  OBVIOUS

LEMMA DivUnique ==
  ASSUME NEW n \in Nat \ {0}, NEW q \in Int, NEW p \in Int,
         NEW x \in 0 .. n - 1, NEW y \in 0 .. n - 1,
         n * q + x = n * p + y
  PROVE  q = p /\ x = y
  BY Spacing

LEMMA DivNat ==
  ASSUME NEW n \in Nat \ {0}, NEW i \in Nat
  PROVE  i \div n \in Nat
  <1> DEFINE q == i \div n
             m == i % n
  <1>1. q \in Int /\ m \in 0 .. n - 1 /\ i = n * q + m
    BY DivMod
  <1>2. SUFFICES ASSUME q < 0 PROVE FALSE
    BY <1>1
  <1>3. n * q + n <= n * 0
    BY <1>1, <1>2, Spacing
  <1>4. QED
    BY <1>1, <1>3

(* Places of one chunk divide alike. *)
LEMMA SameChunk ==
  ASSUME NEW n \in Nat \ {0}, NEW i \in Nat, NEW j \in Nat, (i % n) + j < n
  PROVE  (i + j) \div n = i \div n /\ (i + j) % n = (i % n) + j
  <1> DEFINE q == i \div n
             m == i % n
             s == (i + j) \div n
             t == (i + j) % n
  <1>1. q \in Int /\ m \in 0 .. n - 1 /\ i = n * q + m
    BY DivMod
  <1>2. s \in Int /\ t \in 0 .. n - 1 /\ i + j = n * s + t
    BY DivMod
  <1>3. n * s + t = n * q + (m + j) /\ m + j \in 0 .. n - 1
    BY <1>1, <1>2
  <1> HIDE DEF q, m, s, t
  <1>4. s = q /\ t = m + j
    BY <1>1, <1>2, <1>3, DivUnique
  <1>5. QED
    BY <1>4 DEF q, m, s, t

(* The constants, one fact at a time. *)
LEMMA Constants ==
  /\ ChunkLen \in Nat \ {0}
  /\ NULL \notin DOMAIN FileLen
  /\ Offsets \subseteq Nat /\ Lens \subseteq Nat
  /\ \A r \in Resources : /\ r.file \in DOMAIN FileLen
                          /\ r.offset \in Nat /\ r.len \in Nat /\ r.zlen \in Nat
                          /\ r.compressed \in BOOLEAN
  /\ \A r, s \in Resources : r.file = s.file /\ r.offset = s.offset => r = s
  BY WimReadAssumption

LEMMA ChunksNat == \A r \in Resources : Chunks(r) \in Nat
  <1> TAKE r \in Resources
  <1>1. r.len + ChunkLen - 1 \in Nat
    BY Constants
  <1>2. QED
    BY <1>1, Constants, DivNat DEF Chunks

LEMMA ChunksLenInt == \A r \in Resources : ChunksLen(r) \in Int
  BY WimReadAssumption, ChunksNat DEF ChunksLen

(* Chunk c begins within the resource if and only if there is a chunk c. *)
LEMMA ChunkCount ==
  ASSUME NEW r \in Resources, NEW c \in Nat
  PROVE  c < Chunks(r) <=> c * ChunkLen < r.len
  <1> DEFINE n == ChunkLen
             q == Chunks(r)
             m == (r.len + ChunkLen - 1) % ChunkLen
  <1>1. n \in Nat \ {0} /\ r.len \in Nat /\ q \in Nat
    BY Constants, ChunksNat
  <1> DEFINE i == r.len + ChunkLen - 1
  <1>2. i \in Int
    BY <1>1
  <1> HIDE DEF i
  <1>3. m \in 0 .. n - 1 /\ i = n * q + m
    BY <1>2, <1>1, DivMod DEF Chunks, i
  <1>4. i = r.len + n - 1
    BY DEF i
  <1> HIDE DEF n, q, m
  <1>5. ASSUME c < q PROVE n * c < r.len
    <2>1. n * c + n <= n * q
      BY <1>1, <1>5, Spacing
    <2>2. n * c \in Int /\ n * q \in Int
      BY <1>1
    <2>3. QED
      BY <1>1, <1>3, <1>4, <2>1, <2>2
  <1>6. ASSUME ~(c < q) PROVE ~(n * c < r.len)
    <2>1. n * q <= n * c
      <3>1. CASE q = c
        BY <1>1, <3>1
      <3>2. CASE q < c
        BY <1>1, <3>2, Spacing
      <3>3. QED
        BY <1>1, <1>6, <3>1, <3>2
    <2>2. n * c \in Int /\ n * q \in Int
      BY <1>1
    <2>3. QED
      BY <1>1, <1>3, <1>4, <2>1, <2>2
  <1>7. QED
    BY <1>1, <1>5, <1>6 DEF n, q

(* wim.c's length of a chunk is what is left of the resource. *)
LEMMA ExpectedLen ==
  ASSUME NEW r \in Resources, NEW c \in Nat, c * ChunkLen < r.len
  PROVE  expected_out_len(r, c) = Holds(r, c) /\ Holds(r, c) \in 1 .. ChunkLen
  <1> DEFINE n == ChunkLen
             q == Chunks(r)
             i == -r.len
             p == i \div n
             m == i % n
  <1>1. n \in Nat \ {0} /\ r.len \in Nat /\ q \in Nat
    BY Constants, ChunksNat
  <1>2. c < q
    BY ChunkCount DEF q
  <1>3. (c + 1) * n < r.len <=> c + 1 < q
    BY ChunkCount DEF n, q
  <1>4. i \in Int
    BY <1>1
  <1>5. i = -r.len
    OBVIOUS
  <1> HIDE DEF i
  <1>6. p \in Int /\ m \in 0 .. n - 1 /\ i = n * p + m
    BY <1>1, <1>4, DivMod
  <1>7. p \in Int /\ m \in 0 .. n - 1 /\ -r.len = n * p + m
    BY <1>5, <1>6
  <1>8. n * c \in Int /\ n * p \in Int /\ (c + 1) * n = n * c + n /\ c * n = n * c
    BY <1>1, <1>7
  <1> HIDE DEF n, q, p, m
  <1>9. CASE c + 1 < q
    BY <1>1, <1>3, <1>8, <1>9 DEF expected_out_len, Holds, n, q
  <1>10. CASE c + 1 = q
    <2>1. n * c < r.len /\ r.len <= n * c + n
      BY <1>1, <1>3, <1>8, <1>10 DEF n
    <2>2. n * (-p) + 0 = r.len + m
      BY <1>1, <1>7, <1>8
    <2>3. -p = c + 1
      <3>1. CASE -p < c + 1
        <4>1. n * (-p) + n <= n * (c + 1)
          BY <1>1, <1>7, <3>1, Spacing
        <4>2. n * (c + 1) = n * c + n /\ n * (-p) \in Int
          BY <1>1, <1>7
        <4>3. QED
          BY <1>1, <1>7, <1>8, <2>1, <2>2, <4>1, <4>2
      <3>2. CASE c + 1 < -p
        <4>1. n * (c + 1) + n <= n * (-p)
          BY <1>1, <1>7, <3>2, Spacing
        <4>2. n * (c + 1) = n * c + n /\ n * (-p) \in Int
          BY <1>1, <1>7
        <4>3. QED
          BY <1>1, <1>7, <1>8, <2>1, <2>2, <4>1, <4>2
      <3>3. QED
        BY <1>7, <3>1, <3>2
    <2>4. n * c + n = r.len + m
      <3>1. n * (-p) = n * c + n
        BY <1>1, <2>3
      <3>2. QED
        BY <1>1, <1>7, <2>2, <3>1
    <2>5. n - m = r.len - n * c
      BY <1>1, <1>7, <1>8, <2>4
    <2>6. expected_out_len(r, c) = n - m
      BY <1>1, <1>10, <1>5 DEF expected_out_len, n, m, q
    <2>7. Holds(r, c) = r.len - n * c
      <3>1. CASE (c + 1) * n <= r.len
        BY <1>1, <1>8, <2>1, <3>1 DEF Holds, n
      <3>2. CASE ~((c + 1) * n <= r.len)
        BY <1>8, <3>2 DEF Holds, n
      <3>3. QED
        BY <3>1, <3>2
    <2>8. QED
      BY <1>1, <1>8, <2>1, <2>5, <2>6, <2>7 DEF n
  <1>11. QED
    BY <1>1, <1>2, <1>9, <1>10

(* wim_chunk_offset finds the starts of the chunks, and the end of the last. *)
LEMMA ChunkStart ==
  ASSUME NEW r \in Resources, r.compressed, r.len # 0, NEW c \in Nat
  PROVE  wim_chunk_offset(r, c) =
           IF ChunksLen(r) > r.zlen \/ StartOf(r, c) > r.zlen THEN {} ELSE {StartOf(r, c)}
  <1>1. c < Chunks(r) <=> c * ChunkLen < r.len
    BY ChunkCount
  <1>2. /\ Chunks(r) \in Nat /\ ChunksLen(r) \in Int /\ r.zlen \in Nat /\ r.len \in Nat
        /\ c * ChunkLen \in Nat
    BY ChunksNat, ChunksLenInt, Constants
  <1>3. CASE c = 0
    BY <1>2, <1>3 DEF wim_chunk_offset, StartOf
  <1>4. CASE c # 0 /\ c >= Chunks(r)
    <2>1. StartOf(r, c) = r.zlen
      BY <1>1, <1>2, <1>4 DEF StartOf
    <2>2. QED
      BY <1>2, <1>4, <2>1 DEF wim_chunk_offset
  <1>5. CASE c # 0 /\ ~(c >= Chunks(r))
    <2>1. StartOf(r, c) = ChunksLen(r) + r.table[c]
      BY <1>1, <1>2, <1>5 DEF StartOf
    <2>2. wim_chunk_offset(r, c) =
            IF ChunksLen(r) > r.zlen THEN {} ELSE {o \in {StartOf(r, c)} : o <= r.zlen}
      BY <1>5, <2>1 DEF wim_chunk_offset
    <2>3. StartOf(r, c) \in Int
      <3>1. r.table[c] \in Nat
        BY <1>2, <1>5, WimReadAssumption
      <3>2. QED
        BY <1>2, <2>1, <3>1
    <2>4. CASE StartOf(r, c) <= r.zlen
      <3>1. ~(StartOf(r, c) > r.zlen)
        BY <1>2, <2>3, <2>4
      <3>2. {o \in {StartOf(r, c)} : o <= r.zlen} = {StartOf(r, c)}
        BY <2>4
      <3>3. QED
        BY <2>2, <3>1, <3>2
    <2>5. CASE ~(StartOf(r, c) <= r.zlen)
      <3>1. StartOf(r, c) > r.zlen
        BY <1>2, <2>3, <2>5
      <3>2. {o \in {StartOf(r, c)} : o <= r.zlen} = {}
        BY <2>5
      <3>3. QED
        BY <2>2, <3>1, <3>2
    <2>6. QED
      BY <2>4, <2>5
  <1>6. QED
    BY <1>3, <1>4, <1>5

(* What wim_chunk puts into the buffer are the bytes of the chunk, and it  *)
(* fails only if there are none.                                           *)
LEMMA ChunkBytes ==
  ASSUME NEW r \in Resources, r.compressed, NEW c \in Nat, c * ChunkLen < r.len
  PROVE  /\ \A b \in wim_chunk(r, c) :
              /\ DOMAIN b = 0 .. Holds(r, c) - 1
              /\ \A i \in DOMAIN b : b[i] \in InChunk(r, c, i)
         /\ wim_chunk(r, c) = {} => \A i \in Nat : InChunk(r, c, i) = {}
  <1> DEFINE s == StartOf(r, c)
             t == StartOf(r, c + 1)
             h == Holds(r, c)
             Bytes(first, zlen) ==
               IF zlen = expected_out_len(r, c)
               THEN {[i \in 0 .. zlen - 1 |-> Raw(r.file, r.offset + first + i)]}
               ELSE {[i \in 0 .. n - 1 |-> Unpacked(r.file, r.offset + first, zlen, i)] :
                       n \in {r.out[c]} \cap {expected_out_len(r, c)}}
             bad == ChunksLen(r) > r.zlen \/ s > r.zlen \/ t > r.zlen
  <1>1. r.len # 0 /\ c + 1 \in Nat
    BY Constants
  <1>2. wim_chunk_offset(r, c) = IF ChunksLen(r) > r.zlen \/ s > r.zlen THEN {} ELSE {s}
    BY <1>1, ChunkStart
  <1>3. wim_chunk_offset(r, c + 1) =
          IF ChunksLen(r) > r.zlen \/ t > r.zlen THEN {} ELSE {t}
    BY <1>1, ChunkStart
  <1>4. expected_out_len(r, c) = h
    BY ExpectedLen
  <1>5. wim_chunk(r, c) =
          UNION {UNION {Bytes(a, b - a) : b \in wim_chunk_offset(r, c + 1)} :
                   a \in wim_chunk_offset(r, c)}
    BY DEF wim_chunk
  <1> HIDE DEF s, t, Bytes
  <1>6. CASE bad
    <2>1. wim_chunk(r, c) = {}
      BY <1>2, <1>3, <1>5, <1>6
    <2>2. \A i \in Nat : InChunk(r, c, i) = {}
      BY <1>6 DEF InChunk, s, t
    <2>3. QED
      BY <2>1, <2>2
  <1>7. CASE ~bad
    <2>1. wim_chunk(r, c) = Bytes(s, t - s)
      BY <1>2, <1>3, <1>5, <1>7
    <2>2. CASE t - s = h
      <3>1. Bytes(s, t - s) = {[i \in 0 .. h - 1 |-> Raw(r.file, r.offset + s + i)]}
        BY <1>4, <2>2 DEF Bytes
      <3>2. \A i : InChunk(r, c, i) = {Raw(r.file, r.offset + s + i)}
        BY <1>7, <2>2 DEF InChunk, s, t
      <3>3. wim_chunk(r, c) # {}
        BY <2>1, <3>1
      <3>4. ASSUME NEW b \in wim_chunk(r, c)
            PROVE  DOMAIN b = 0 .. h - 1 /\ \A i \in DOMAIN b : b[i] \in InChunk(r, c, i)
        <4> HIDE DEF h
        <4>1. b = [i \in 0 .. h - 1 |-> Raw(r.file, r.offset + s + i)]
          BY <2>1, <3>1
        <4>2. DOMAIN b = 0 .. h - 1 /\ \A i \in 0 .. h - 1 : b[i] = Raw(r.file, r.offset + s + i)
          BY <4>1
        <4>3. QED
          BY <4>2, <3>2
      <3>5. QED
        BY <3>3, <3>4
    <2>3. CASE t - s # h /\ r.out[c] = h
      <3>1. Bytes(s, t - s) =
              {[i \in 0 .. h - 1 |-> Unpacked(r.file, r.offset + s, t - s, i)]}
        BY <1>4, <2>3 DEF Bytes
      <3>2. \A i : InChunk(r, c, i) = {Unpacked(r.file, r.offset + s, t - s, i)}
        BY <1>7, <2>3 DEF InChunk, s, t
      <3>3. wim_chunk(r, c) # {}
        BY <2>1, <3>1
      <3>4. ASSUME NEW b \in wim_chunk(r, c)
            PROVE  DOMAIN b = 0 .. h - 1 /\ \A i \in DOMAIN b : b[i] \in InChunk(r, c, i)
        <4> HIDE DEF h
        <4>1. b = [i \in 0 .. h - 1 |-> Unpacked(r.file, r.offset + s, t - s, i)]
          BY <2>1, <3>1
        <4>2. DOMAIN b = 0 .. h - 1 /\ \A i \in 0 .. h - 1 : b[i] = Unpacked(r.file, r.offset + s, t - s, i)
          BY <4>1
        <4>3. QED
          BY <4>2, <3>2
      <3>5. QED
        BY <3>3, <3>4
    <2>4. CASE t - s # h /\ r.out[c] # h
      <3>1. Bytes(s, t - s) = {}
        BY <1>4, <2>4 DEF Bytes
      <3>2. \A i : InChunk(r, c, i) = {}
        BY <1>7, <2>4 DEF InChunk, s, t
      <3>3. QED
        BY <2>1, <3>1, <3>2
    <2>5. QED
      BY <2>2, <2>3, <2>4
  <1>8. QED
    BY <1>6, <1>7

THEOREM InitInv == Init => IInv
  <1> SUFFICES ASSUME Init PROVE IInv
    OBVIOUS
  <1>1. Fields
    BY Constants DEF Init, Fields
  <1>2. CacheCoherent
    BY Constants DEF Init, CacheCoherent
  <1>3. Progress /\ ReadExact /\ FailsForCause
    BY DEF Init, Progress, ReadExact, FailsForCause, Copied, NoBytes
  <1>4. QED
    BY <1>1, <1>2, <1>3 DEF IInv

(* The fragment of a turn lies in one chunk. *)
LEMMA Turn ==
  ASSUME IInv, rc = "reading", len # 0
  PROVE  /\ chunk_ \in Nat /\ chunk_ * ChunkLen < resource.len
         /\ skip_len \in 0 .. ChunkLen - 1
         /\ frag_len \in 1 .. len /\ skip_len + frag_len <= ChunkLen
         /\ skip_len + frag_len <= Holds(resource, chunk_)
  <1>1. /\ offset \in Nat /\ len \in Nat /\ from \in Nat /\ count \in Nat
        /\ offset + len = from + count /\ from + count <= resource.len
    BY DEF IInv, Fields, Progress
  <1>2. ChunkLen \in Nat \ {0} /\ resource.len \in Nat
    BY Constants DEF IInv, Fields
  <1>3. chunk_ \in Nat
    BY <1>1, <1>2, DivNat DEF chunk_
  <1>4. skip_len \in 0 .. ChunkLen - 1 /\ offset = ChunkLen * chunk_ + skip_len
    BY <1>1, <1>2, DivMod DEF chunk_, skip_len
  <1>5. frag_len \in 1 .. len /\ skip_len + frag_len <= ChunkLen
    BY <1>1, <1>2, <1>4 DEF frag_len
  <1>6. ChunkLen * chunk_ \in Nat /\ chunk_ * ChunkLen = ChunkLen * chunk_
        /\ (chunk_ + 1) * ChunkLen = ChunkLen * chunk_ + ChunkLen
    BY <1>2, <1>3
  <1>7. Holds(resource, chunk_) \in {ChunkLen, resource.len - ChunkLen * chunk_}
    BY <1>6 DEF Holds
  <1>8. ChunkLen * chunk_ + skip_len + frag_len <= resource.len
    BY <1>1, <1>2, <1>4, <1>5, <1>6
  <1>9. chunk_ * ChunkLen < resource.len
    BY <1>1, <1>2, <1>4, <1>5, <1>6, <1>8
  <1>10. skip_len + frag_len <= Holds(resource, chunk_)
    BY <1>1, <1>2, <1>4, <1>5, <1>6, <1>7, <1>8
  <1>11. QED
    BY <1>3, <1>4, <1>5, <1>9, <1>10

(* Copying a fragment of the right chunk keeps what is copied right. *)
LEMMA CopyKeeps ==
  ASSUME IInv, rc = "reading", len # 0, NEW B, Copy(B),
         \A i \in 0 .. Holds(resource, chunk_) - 1 : B[i] \in InChunk(resource, chunk_, i)
  PROVE  offset' \in Nat /\ len' \in Nat /\ Progress'
  <1> DEFINE done == offset - from
  <1>1. /\ offset \in Nat /\ len \in Nat /\ from \in Nat /\ count \in Nat
        /\ resource.compressed /\ from + count <= resource.len
        /\ offset + len = from + count /\ from <= offset
        /\ Copied(done)
    BY DEF IInv, Fields, Progress
  <1>2. /\ chunk_ \in Nat /\ skip_len \in 0 .. ChunkLen - 1 /\ frag_len \in 1 .. len
        /\ skip_len + frag_len <= ChunkLen
        /\ skip_len + frag_len <= Holds(resource, chunk_)
    BY Turn
  <1>3. ChunkLen \in Nat \ {0} /\ resource.len \in Nat
    BY Constants DEF IInv, Fields
  <1>4. /\ offset' = offset + frag_len /\ len' = len - frag_len
        /\ from' = from /\ count' = count /\ resource' = resource /\ rc' = rc
        /\ data' = Appended(data, B, skip_len, frag_len)
    BY DEF Copy, args
  <1>5. done \in Nat
    BY <1>1
  <1>6. data' = [k \in 0 .. done + frag_len - 1 |->
                   IF k < done THEN data[k] ELSE B[skip_len + k - done]]
    BY <1>4 DEF Appended
  <1>7. ASSUME NEW k \in 0 .. done + frag_len - 1
        PROVE  data'[k] \in ByteOf(resource, from + k)
    <2>1. CASE k < done
      <3>1. k \in 0 .. done - 1 /\ data'[k] = data[k]
        BY <1>2, <1>5, <1>6, <1>7, <2>1
      <3>2. QED
        BY <1>1, <3>1 DEF Copied
    <2>2. CASE ~(k < done)
      <3> DEFINE j == k - done
      <3>1. j \in 0 .. frag_len - 1 /\ from + k = offset + j /\ skip_len + k - done = skip_len + j
        BY <1>1, <1>2, <1>5, <2>2
      <3>2. data'[k] = B[skip_len + j]
        BY <1>6, <2>2, <3>1
      <3>3. (offset % ChunkLen) + j < ChunkLen
        BY <1>1, <1>2, <1>3, <3>1 DEF skip_len
      <3>4. (offset + j) \div ChunkLen = chunk_ /\ (offset + j) % ChunkLen = skip_len + j
        <4>1. j \in Nat
          BY <1>1, <1>2, <3>1
        <4> HIDE DEF j
        <4>2. QED
          BY <1>1, <1>3, <3>3, <4>1, SameChunk DEF chunk_, skip_len
      <3>5. Holds(resource, chunk_) \in Int
        BY <1>2, <1>3 DEF Holds
      <3>6. skip_len + j \in 0 .. Holds(resource, chunk_) - 1
        BY <1>1, <1>2, <1>3, <3>1, <3>5
      <3>7. B[skip_len + j] \in InChunk(resource, chunk_, skip_len + j)
        BY <3>6
      <3>8. ByteOf(resource, from + k) = InChunk(resource, chunk_, skip_len + j)
        BY <1>1, <3>1, <3>4 DEF ByteOf
      <3>9. QED
        BY <3>2, <3>7, <3>8
    <2>3. QED
      BY <2>1, <2>2
  <1>8. offset' \in Nat /\ len' \in Nat /\ offset' - from' = done + frag_len
        /\ offset' + len' = from' + count' /\ from' <= offset'
    BY <1>1, <1>2, <1>4
  <1>9. Copied(offset - from)'
    <2> DEFINE n == offset' - from'
               m == done + frag_len
    <2>1. m - 1 = done + frag_len - 1
      BY <1>2, <1>5
    <2>2. DOMAIN data' = 0 .. m - 1
      BY <1>6, <2>1
    <2>3. \A k \in 0 .. m - 1 : data'[k] \in ByteOf(resource, from + k)
      BY <1>7, <2>1
    <2>4. n = m /\ from' = from /\ resource' = resource
      BY <1>4, <1>8
    <2> HIDE DEF n, m
    <2>5. /\ DOMAIN data' = 0 .. n - 1
          /\ \A k \in 0 .. n - 1 : data'[k] \in ByteOf(resource', from' + k)
      BY <2>2, <2>3, <2>4
    <2>6. QED
      BY <2>5 DEF Copied, n
  <1>10. QED
    BY <1>1, <1>4, <1>8, <1>9 DEF Progress

THEOREM StepInv == IInv /\ [Next]_vars => IInv'
  <1> SUFFICES ASSUME IInv, [Next]_vars PROVE IInv'
    OBVIOUS
  <1> USE DEF cache, args
  <1>1. CASE wim_read
    <2>1. PICK r \in Resources, o \in Offsets, n \in Lens :
            /\ resource' = r /\ from' = o /\ count' = n
            /\ offset' = o /\ len' = n
            /\ \/ /\ TooShort(r, o, n)
                  /\ rc' = "error" /\ data' = NoBytes
               \/ /\ ~TooShort(r, o, n) /\ ~r.compressed
                  /\ rc' = "ok"
                  /\ data' = [k \in 0 .. n - 1 |-> Raw(r.file, r.offset + o + k)]
               \/ /\ ~TooShort(r, o, n) /\ r.compressed
                  /\ rc' = "reading" /\ data' = NoBytes
      BY <1>1 DEF wim_read
    <2>2. /\ UNCHANGED <<cached_file, cached_resource_offset, cached_chunk, wim_chunk_buffer>>
          /\ o \in Nat /\ n \in Nat /\ r.len \in Nat /\ r.offset \in Nat
      BY <1>1, Constants DEF wim_read
    <2>3. Fields'
      BY <2>1, <2>2 DEF IInv, Fields
    <2>4. CacheCoherent'
      BY <2>2 DEF IInv, CacheCoherent
    <2>5. CASE rc' = "error"
      <3>1. FailsForCause'
        BY <2>1, <2>5 DEF FailsForCause, TooShort
      <3>2. Progress' /\ ReadExact'
        BY <2>5 DEF Progress, ReadExact
      <3>3. QED
        BY <2>3, <2>4, <3>1, <3>2 DEF IInv
    <2>6. CASE rc' = "ok"
      <3>1. ~r.compressed /\ data' = [k \in 0 .. n - 1 |-> Raw(r.file, r.offset + o + k)]
        BY <2>1, <2>6
      <3>2. DOMAIN data' = 0 .. count' - 1
        BY <2>1, <3>1
      <3>3. ASSUME NEW k \in 0 .. count' - 1
            PROVE  data'[k] \in ByteOf(resource', from' + k)
        <4>1. data'[k] = Raw(r.file, r.offset + o + k)
          BY <2>1, <3>1
        <4>2. ByteOf(resource', from' + k) = {Raw(r.file, r.offset + (o + k))}
          BY <2>1, <3>1 DEF ByteOf
        <4>3. r.offset + o + k = r.offset + (o + k)
          BY <2>2
        <4>4. QED
          BY <4>1, <4>2, <4>3
      <3>4. Copied(count)'
        BY <3>2, <3>3 DEF Copied
      <3>5. Progress' /\ ReadExact' /\ FailsForCause'
        BY <2>6, <3>4 DEF Progress, ReadExact, FailsForCause
      <3>6. QED
        BY <2>3, <2>4, <3>5 DEF IInv
    <2>7. CASE rc' = "reading"
      <3>1. r.compressed /\ ~TooShort(r, o, n) /\ data' = NoBytes
        BY <2>1, <2>7
      <3>2. o + n <= r.len /\ offset' - from' = 0
        BY <2>1, <2>2, <3>1 DEF TooShort
      <3>3. Copied(offset - from)'
        BY <3>1, <3>2 DEF Copied, NoBytes
      <3>4. Progress'
        BY <2>1, <2>2, <3>1, <3>2, <3>3 DEF Progress
      <3>5. ReadExact' /\ FailsForCause'
        BY <2>7 DEF ReadExact, FailsForCause
      <3>6. QED
        BY <2>3, <2>4, <3>4, <3>5 DEF IInv
    <2>8. QED
      BY <2>1, <2>5, <2>6, <2>7
  <1>2. CASE Hit
    <2>1. /\ rc = "reading" /\ len # 0 /\ IsCached /\ Copy(wim_chunk_buffer)
          /\ UNCHANGED <<cached_file, cached_resource_offset, cached_chunk, wim_chunk_buffer>>
      BY <1>2 DEF Hit
    <2>2. resource \in Resources
      BY DEF IInv, Fields
    <2>3. \A i \in 0 .. Holds(resource, chunk_) - 1 :
            wim_chunk_buffer[i] \in InChunk(resource, chunk_, i)
      BY <2>1, <2>2 DEF IInv, CacheCoherent, IsCached
    <2>4. offset' \in Nat /\ len' \in Nat /\ Progress'
      BY <2>1, <2>3, CopyKeeps
    <2>5. Fields'
      BY <2>1, <2>4 DEF IInv, Fields, Copy
    <2>6. CacheCoherent'
      BY <2>1 DEF IInv, CacheCoherent
    <2>7. ReadExact' /\ FailsForCause'
      BY <2>1 DEF Copy, ReadExact, FailsForCause
    <2>8. QED
      BY <2>4, <2>5, <2>6, <2>7 DEF IInv
  <1>3. CASE Miss
    <2>1. PICK b \in wim_chunk(resource, chunk_) : wim_chunk_buffer' = Overwritten(b)
      BY <1>3 DEF Miss
    <2>2. /\ rc = "reading" /\ len # 0
          /\ cached_file' = resource.file
          /\ cached_resource_offset' = resource.offset
          /\ cached_chunk' = chunk_
          /\ Copy(wim_chunk_buffer')
      BY <1>3 DEF Miss
    <2>3. /\ resource \in Resources /\ resource.compressed
          /\ chunk_ \in Nat /\ chunk_ * ChunkLen < resource.len
      BY <2>2, Turn DEF IInv, Fields, Progress
    <2>4. /\ DOMAIN b = 0 .. Holds(resource, chunk_) - 1
          /\ \A i \in DOMAIN b : b[i] \in InChunk(resource, chunk_, i)
      BY <2>3, ChunkBytes
    <2>5. Holds(resource, chunk_) \in 1 .. ChunkLen
      BY <2>3, ExpectedLen
    <2>6. \A i \in 0 .. Holds(resource, chunk_) - 1 :
            wim_chunk_buffer'[i] \in InChunk(resource, chunk_, i)
      <3>1. ChunkLen \in Nat
        BY Constants
      <3>2. \A i \in DOMAIN b : i \in 0 .. ChunkLen - 1
        BY <2>4, <2>5, <3>1
      <3>3. \A i \in DOMAIN b : wim_chunk_buffer'[i] = b[i]
        BY <2>1, <3>2 DEF Overwritten
      <3>4. QED
        BY <2>4, <3>3
    <2>7. offset' \in Nat /\ len' \in Nat /\ Progress'
      <3>1. PICK B : B = wim_chunk_buffer'
        OBVIOUS
      <3>2. Copy(B) /\ \A i \in 0 .. Holds(resource, chunk_) - 1 :
                         B[i] \in InChunk(resource, chunk_, i)
        BY <2>2, <2>6, <3>1
      <3>3. QED
        BY <2>2, <3>2, CopyKeeps
    <2>8. Fields'
      BY <2>2, <2>3, <2>7, Constants DEF IInv, Fields, Copy
    <2>9. CacheCoherent'
      <3>1. SUFFICES ASSUME NEW r \in Resources, cached_file' = r.file,
                            cached_resource_offset' = r.offset
                     PROVE  /\ r.compressed /\ cached_chunk' * ChunkLen < r.len
                            /\ \A i \in 0 .. Holds(r, cached_chunk') - 1 :
                                 wim_chunk_buffer'[i] \in InChunk(r, cached_chunk', i)
        BY DEF CacheCoherent
      <3>2. r = resource
        BY <2>2, <2>3, <3>1, Constants
      <3>3. QED
        BY <2>2, <2>3, <2>6, <3>2
    <2>10. ReadExact' /\ FailsForCause'
      BY <2>2 DEF Copy, ReadExact, FailsForCause
    <2>11. QED
      BY <2>7, <2>8, <2>9, <2>10 DEF IInv
  <1>4. CASE Fail
    <2>1. /\ rc = "reading" /\ len # 0 /\ wim_chunk(resource, chunk_) = {} /\ rc' = "error"
          /\ UNCHANGED <<cached_file, cached_resource_offset, cached_chunk, wim_chunk_buffer,
                         resource, from, count, offset, len, data>>
      BY <1>4 DEF Fail
    <2>2. /\ resource \in Resources /\ resource.compressed
          /\ chunk_ \in Nat /\ chunk_ * ChunkLen < resource.len
          /\ skip_len \in Nat
      BY <2>1, Turn DEF IInv, Fields, Progress
    <2>3. \A i \in Nat : InChunk(resource, chunk_, i) = {}
      BY <2>1, <2>2, ChunkBytes
    <2>4. ByteOf(resource, offset) = {}
      BY <2>2, <2>3 DEF ByteOf, chunk_, skip_len
    <2>5. offset - from \in 0 .. count - 1 /\ from + (offset - from) = offset
      BY <2>1 DEF IInv, Fields, Progress
    <2>6. \E k \in 0 .. count - 1 : ByteOf(resource, from + k) = {}
      BY <2>4, <2>5
    <2>7. FailsForCause'
      BY <2>1, <2>6 DEF FailsForCause
    <2>8. Fields'
      BY <2>1 DEF IInv, Fields
    <2>9. CacheCoherent'
      BY <2>1 DEF IInv, CacheCoherent
    <2>10. Progress' /\ ReadExact'
      BY <2>1 DEF Progress, ReadExact
    <2>11. QED
      BY <2>7, <2>8, <2>9, <2>10 DEF IInv
  <1>5. CASE Return
    <2>1. /\ rc = "reading" /\ len = 0 /\ rc' = "ok"
          /\ UNCHANGED <<cached_file, cached_resource_offset, cached_chunk, wim_chunk_buffer,
                         resource, from, count, offset, len, data>>
      BY <1>5 DEF Return
    <2>2. offset - from = count /\ Copied(offset - from)
      BY <2>1 DEF IInv, Fields, Progress
    <2>3. Copied(count)'
      BY <2>1, <2>2 DEF Copied
    <2>4. Fields'
      BY <2>1 DEF IInv, Fields
    <2>5. CacheCoherent'
      BY <2>1 DEF IInv, CacheCoherent
    <2>6. Progress' /\ ReadExact' /\ FailsForCause'
      BY <2>1, <2>3 DEF Progress, ReadExact, FailsForCause
    <2>7. QED
      BY <2>4, <2>5, <2>6 DEF IInv
  <1>6. CASE UNCHANGED vars
    BY <1>6 DEF vars, IInv, Fields, CacheCoherent, Progress, ReadExact, FailsForCause,
                Copied
  <1>7. QED
    BY <1>1, <1>2, <1>3, <1>4, <1>5, <1>6 DEF Next

THEOREM Invariant == Spec => []IInv
  BY InitInv, StepInv, PTL DEF Spec

(* The buffer always holds the chunk its key names. *)
THEOREM CacheKept == Spec => []CacheCoherent
  <1>1. IInv => CacheCoherent
    BY DEF IInv
  <1>2. QED
    BY <1>1, Invariant, PTL

(* A read that succeeds gives the bytes asked for. *)
THEOREM ReadsExactly == Spec => []ReadExact
  <1>1. IInv => ReadExact
    BY DEF IInv
  <1>2. QED
    BY <1>1, Invariant, PTL

(* A read fails only for its own arguments. *)
THEOREM FailuresCaused == Spec => []FailsForCause
  <1>1. IInv => FailsForCause
    BY DEF IInv
  <1>2. QED
    BY <1>1, Invariant, PTL
---------------------------------------------------------------------------
(* WimPatch.                                                               *)

\* The order of the numbers, for the least of a set of them and for induction.
LEMMA NatLess == IsWellFoundedOn({ss \in Nat \X Nat : ss[1] < ss[2]}, Nat)
BY NatLessThanWellFounded DEF OpToRel

LEMMA LeastElement ==
  ASSUME NEW T, T \subseteq Nat, T # {}
  PROVE  \E x \in T : \A y \in T : x <= y
<1> DEFINE R == {ss \in Nat \X Nat : ss[1] < ss[2]}
<1>1. IsWellFoundedOn(R, Nat)
  BY NatLess
<1>2. PICK x \in T : \A y \in T : ~ (<<y, x>> \in R)
  <2> HIDE DEF R
  <2> QED
    BY <1>1, WFMin
<1>3. ASSUME NEW y \in T PROVE x <= y
  <2>1. ~(y < x)
    BY <1>2
  <2> QED
    BY <2>1
<1> QED
  BY <1>3

LEMMA SetInduction ==
  ASSUME NEW T, 0 \in T, \A n \in Nat : n \in T => n + 1 \in T
  PROVE  Nat \subseteq T
<1> DEFINE F == Nat \ T
<1>1. SUFFICES ASSUME F # {} PROVE FALSE
  OBVIOUS
<1>2. PICK x \in F : \A y \in F : x <= y
  BY <1>1, LeastElement
<1>3. x - 1 \in Nat /\ x - 1 \notin F
  BY <1>2
<1> QED
  BY <1>2, <1>3

---------------------------------------------------------------------------
(* Regions over what is read.                                              *)

\* As wim_construct_region makes it.
Fitting(r) == /\ r.offset \in Nat /\ r.len \in Nat
              /\ DOMAIN r.cells = 0 .. r.len - 1

Covers(r, p) == p \in r.offset .. r.offset + r.len - 1

\* A cell of a piece after a region has been laid over it.
Laid(given, r, at) ==
  [i \in DOMAIN given |-> IF Covers(r, at + i) THEN r.cells[(at + i) - r.offset] ELSE given[i]]

\* An image's length, from its domain.
LEMMA LengthIs ==
  ASSUME NEW n \in Nat, NEW f, DOMAIN f = 0 .. n - 1
  PROVE  Length(f) = n
<1>1. Cardinality(0 .. n - 1) = IF 0 > n - 1 THEN 0 ELSE n - 1 - 0 + 1
  BY FS_Interval
<1> QED
  BY <1>1 DEF Length

\* Data that is a piece of n cells.
IsPiece(given, n) == given = [i \in 0 .. n - 1 |-> given[i]]

\* wim_patch_region lays the region over the cells it covers, and only these.
LEMMA RegionLaid ==
  ASSUME NEW r, Fitting(r), NEW n \in Nat, NEW given, IsPiece(given, n), NEW at \in Nat
  PROVE  wim_patch_region(given, r, at) = Laid(given, r, at)
<1> DEFINE skip == IF r.offset > at THEN r.offset - at ELSE 0
           rel == at + skip - r.offset
           length == IF n - skip > r.len - rel THEN r.len - rel ELSE n - skip
<1>1. r.offset \in Nat /\ r.len \in Nat /\ skip \in Nat /\ rel \in Nat
  BY DEF Fitting
<1>2. Length(given) = n /\ DOMAIN given = 0 .. n - 1
  <2>1. DOMAIN given = 0 .. n - 1
    BY DEF IsPiece
  <2> QED
    BY <2>1, LengthIs
<1>3. wim_patch_region(given, r, at) =
        IF skip >= n \/ rel >= r.len THEN given
        ELSE [i \in 0 .. n - 1 |->
                IF i \in skip .. skip + length - 1 THEN r.cells[rel + i - skip] ELSE given[i]]
  BY <1>2 DEF wim_patch_region
<1>4. CASE skip >= n \/ rel >= r.len
  <2>1. ASSUME NEW i \in 0 .. n - 1 PROVE ~Covers(r, at + i)
    BY <1>1, <1>4 DEF Covers
  <2>2. Laid(given, r, at) = [i \in 0 .. n - 1 |-> given[i]]
    BY <1>2, <2>1 DEF Laid
  <2> QED
    BY <1>3, <1>4, <2>2 DEF IsPiece
<1>5. CASE ~(skip >= n \/ rel >= r.len)
  <2>1. ASSUME NEW i \in 0 .. n - 1
        PROVE  /\ i \in skip .. skip + length - 1 <=> Covers(r, at + i)
               /\ rel + i - skip = (at + i) - r.offset
    <3>1. PICK o \in Nat, l \in Nat : o = r.offset /\ l = r.len
      BY <1>1
    <3>2. /\ skip = IF o > at THEN o - at ELSE 0
          /\ rel = at + skip - o
          /\ length = IF n - skip > l - rel THEN l - rel ELSE n - skip
      BY <3>1
    <3>3. Covers(r, at + i) <=> at + i \in o .. o + l - 1
      BY <3>1 DEF Covers
    <3>4. skip < n /\ rel < l
      BY <1>1, <1>5, <3>1
    <3> HIDE DEF skip, rel, length
    <3>5. PICK s, q, e : s \in Nat /\ q \in Nat /\ s = skip /\ q = rel /\ e = length
      BY <1>1
    <3>6. /\ i \in s .. s + e - 1 <=> at + i \in o .. o + l - 1
          /\ q + i - s = at + i - o
      <4>1. s = IF o > at THEN o - at ELSE 0
        BY <3>2, <3>5
      <4>2. q = at + s - o /\ q < l /\ s < n
        BY <3>2, <3>4, <3>5
      <4>3. e = IF n - s > l - q THEN l - q ELSE n - s
        BY <3>2, <3>5
      <4> QED
        <5>1. CASE o > at
          BY <4>1, <4>2, <4>3, <5>1
        <5>2. CASE ~(o > at)
          BY <4>1, <4>2, <4>3, <5>2
        <5> QED
          BY <5>1, <5>2
    <3> QED
      BY <3>1, <3>3, <3>5, <3>6
  <2> HIDE DEF skip, rel, length
  <2>2. [i \in 0 .. n - 1 |->
           IF i \in skip .. skip + length - 1 THEN r.cells[rel + i - skip] ELSE given[i]] =
        Laid(given, r, at)
    BY <1>2, <2>1 DEF Laid
  <2> QED
    BY <1>3, <1>5, <2>2
<1> QED
  BY <1>4, <1>5

\* What the first regions make of a cell.
OverOf(regions, k, p) == {j \in 1 .. k : Covers(regions[j], p)}
\* The last of the regions 1..k that covers p, as a set; what the regions leave at p.
LastOf(regions, k, p) ==
  {j \in OverOf(regions, k, p) : \A i \in OverOf(regions, k, p) : i <= j}
AnyOf(T) == CHOOSE j \in T : TRUE
CellOf(regions, k, p, under) ==
  IF LastOf(regions, k, p) = {} THEN under
  ELSE LET r == regions[AnyOf(LastOf(regions, k, p))] IN r.cells[p - r.offset]

\* One region more covers a cell or leaves it.
LEMMA CellStep ==
  ASSUME NEW regions, NEW k \in Nat, NEW p, NEW under
  PROVE  CellOf(regions, k + 1, p, under) =
           IF Covers(regions[k + 1], p)
           THEN LET r == regions[k + 1] IN r.cells[p - r.offset]
           ELSE CellOf(regions, k, p, under)
<1>1. CASE Covers(regions[k + 1], p)
  <2>1. LastOf(regions, k + 1, p) = {k + 1}
    BY <1>1 DEF LastOf, OverOf
  <2>2. AnyOf(LastOf(regions, k + 1, p)) = k + 1
    BY <2>1 DEF AnyOf
  <2> QED
    BY <1>1, <2>1, <2>2 DEF CellOf
<1>2. CASE ~Covers(regions[k + 1], p)
  <2>1. OverOf(regions, k + 1, p) = OverOf(regions, k, p)
    BY <1>2 DEF OverOf
  <2>2. LastOf(regions, k + 1, p) = LastOf(regions, k, p)
    BY <2>1 DEF LastOf
  <2> QED
    BY <1>2, <2>2 DEF CellOf
<1> QED
  BY <1>1, <1>2

LEMMA CellNext ==
  ASSUME NEW s, NEW t, NEW j \in Nat, NEW k \in Nat, s[j + 1] = t[k + 1], NEW p, NEW under, NEW u,
         CellOf(s, j, p, under) = CellOf(t, k, p, u)
  PROVE  CellOf(s, j + 1, p, under) = CellOf(t, k + 1, p, u)
<1>1. CellOf(s, j + 1, p, under) = IF Covers(s[j + 1], p) THEN s[j + 1].cells[p - s[j + 1].offset]
                                   ELSE CellOf(s, j, p, under)
  BY CellStep
<1>2. CellOf(t, k + 1, p, u) = IF Covers(t[k + 1], p) THEN t[k + 1].cells[p - t[k + 1].offset]
                               ELSE CellOf(t, k, p, u)
  BY CellStep
<1> QED
  BY <1>1, <1>2

\* The cell as a region leaves it that finds x there.
Over(r, p, x) == IF Covers(r, p) THEN r.cells[p - r.offset] ELSE x

LEMMA CellOver ==
  ASSUME NEW regions, NEW k \in Nat, NEW p, NEW under
  PROVE  CellOf(regions, k + 1, p, under) = Over(regions[k + 1], p, CellOf(regions, k, p, under))
BY CellStep DEF Over

LEMMA CellZero == ASSUME NEW regions, NEW p, NEW under PROVE CellOf(regions, 0, p, under) = under
BY DEF CellOf, LastOf, OverOf

\* The cells of a piece, from the first regions.
LaidOver(regions, given, n, at, k) ==
  [i \in 0 .. n - 1 |-> CellOf(regions, k, at + i, given[i])]

\* One more region laid over the data.
LEMMA LaidStep ==
  ASSUME NEW regions, NEW m \in Nat, \A k \in 1 .. m : Fitting(regions[k]),
         NEW n \in Nat, NEW given, NEW at \in Nat, NEW k \in Nat, k + 1 <= m
  PROVE  wim_patch_region(LaidOver(regions, given, n, at, k), regions[k + 1], at) =
           LaidOver(regions, given, n, at, k + 1)
<1> DEFINE d == LaidOver(regions, given, n, at, k)
<1>1. IsPiece(d, n) /\ DOMAIN d = 0 .. n - 1
      /\ \A i \in 0 .. n - 1 : d[i] = CellOf(regions, k, at + i, given[i])
  BY DEF LaidOver, IsPiece
<1>2. Fitting(regions[k + 1])
  OBVIOUS
<1> HIDE DEF d
<1>3. wim_patch_region(d, regions[k + 1], at) = Laid(d, regions[k + 1], at)
  BY <1>1, <1>2, RegionLaid
<1>4. ASSUME NEW i \in 0 .. n - 1
      PROVE  CellOf(regions, k + 1, at + i, given[i]) =
               IF Covers(regions[k + 1], at + i)
               THEN regions[k + 1].cells[(at + i) - regions[k + 1].offset] ELSE d[i]
  <2>1. PICK p, u : p = at + i /\ u = given[i]
    OBVIOUS
  <2>2. PICK r : r = regions[k + 1]
    OBVIOUS
  <2>3. CellOf(regions, k + 1, p, u) =
          IF Covers(r, p) THEN r.cells[p - r.offset] ELSE CellOf(regions, k, p, u)
    <3>1. CellOf(regions, k + 1, p, u) = Over(regions[k + 1], p, CellOf(regions, k, p, u))
      BY CellOver
    <3> QED
      BY <2>2, <3>1 DEF Over
  <2>4. d[i] = CellOf(regions, k, p, u)
    BY <1>1, <2>1
  <2>5. CASE Covers(r, p)
    BY <2>1, <2>2, <2>3, <2>5, Zenon
  <2>6. CASE ~Covers(r, p)
    BY <2>1, <2>2, <2>3, <2>4, <2>6, Zenon
  <2> QED
    BY <2>5, <2>6
<1>5. Laid(d, regions[k + 1], at) = LaidOver(regions, given, n, at, k + 1)
  BY <1>1, <1>4 DEF Laid, LaidOver
<1> QED
  BY <1>3, <1>5 DEF d

\* patch_wim lays all the regions, in their order.
LEMMA AllLaid ==
  ASSUME NEW m \in Nat, Len(patch.regions) = m, \A k \in 1 .. m : Fitting(patch.regions[k]),
         NEW n \in Nat, NEW given, IsPiece(given, n), NEW at \in Nat, ~Nothing
  PROVE  patch_wim(given, at) = LaidOver(patch.regions, given, n, at, m)
<1> DEFINE regions == patch.regions
           Is(f) == f = [k \in 0 .. m |-> IF k = 0 THEN given
                                          ELSE wim_patch_region(f[k - 1], regions[k], at)]
           over == CHOOSE f : Is(f)
           laid(k) == LaidOver(regions, given, n, at, k)
           d == [k \in 0 .. m |-> laid(k)]
<1>1. laid(0) = given
  BY CellZero DEF LaidOver, IsPiece
<1>2. ASSUME NEW k \in 0 .. m, k # 0 PROVE wim_patch_region(laid(k - 1), regions[k], at) = laid(k)
  <2>1. PICK j \in Nat : k = j + 1 /\ j = k - 1
    BY <1>2
  <2>2. wim_patch_region(laid(j), regions[j + 1], at) = laid(j + 1)
    <3> HIDE DEF regions
    <3>1. \A l \in 1 .. m : Fitting(regions[l])
      BY DEF regions
    <3> QED
      BY <2>1, <3>1, LaidStep
  <2> QED
    BY <2>1, <2>2
<1>3. Is(d)
  <2>1. ASSUME NEW k \in 0 .. m
        PROVE  laid(k) = IF k = 0 THEN given ELSE wim_patch_region(d[k - 1], regions[k], at)
    <3>1. CASE k = 0
      BY <1>1, <3>1
    <3>2. CASE k # 0
      <4>1. d[k - 1] = laid(k - 1)
        BY <3>2
      <4> QED
        BY <1>2, <3>2, <4>1
    <3> QED
      BY <3>1, <3>2
  <2> HIDE DEF laid
  <2> QED
    BY <2>1
<1>4. Is(over)
  BY <1>3
<1>5. patch_wim(given, at) = over[m]
  BY DEF patch_wim
<1>6. over[0] = given /\ \A k \in 0 .. m : k # 0 => over[k] = wim_patch_region(over[k - 1], regions[k], at)
  <2> HIDE DEF over, regions
  <2>1. 0 \in 0 .. m
    OBVIOUS
  <2> QED
    BY <1>4, <2>1
<1> DEFINE T == {k \in Nat : k <= m => over[k] = laid(k)}
<1> HIDE DEF over, regions, laid
<1>7. 0 \in T
  BY <1>1, <1>6
<1>8. ASSUME NEW j \in Nat, j \in T PROVE j + 1 \in T
  <2>1. SUFFICES ASSUME j + 1 <= m PROVE over[j + 1] = laid(j + 1)
    OBVIOUS
  <2>2. PICK k \in 0 .. m : k = j + 1 /\ k - 1 = j /\ k # 0
    BY <2>1
  <2>3. over[j] = laid(j)
    BY <1>8, <2>1
  <2> QED
    BY <1>2, <1>6, <2>2, <2>3
<1>9. m \in T
  <2> HIDE DEF T
  <2> QED
    BY <1>7, <1>8, SetInduction
<1> QED
  BY <1>5, <1>9 DEF laid, regions

\* What the regions leave is what Whole has there.
LEMMA PieceOfWhole ==
  ASSUME NEW m \in Nat, Len(patch.regions) = m, NEW p \in 0 .. xlen - 1, xlen \in Int
  PROVE  Whole[p] = CellOf(patch.regions, m, p, IF p < Length(base) THEN base[p] ELSE 0)
<1>1. LastRegion(p) = LastOf(patch.regions, m, p)
  BY DEF LastRegion, LastOf, OverOf, Covers
<1>2. Underneath(p, 1)[0] = IF p < Length(base) THEN base[p] ELSE 0
  <2>1. 0 \in 0 .. 1 - 1 /\ p + 0 = p
    OBVIOUS
  <2> QED
    BY <2>1 DEF Underneath
<1>3. Whole[p] = IF LastRegion(p) = {} THEN Underneath(p, 1)[0]
                 ELSE LET r == patch.regions[AnyOf(LastRegion(p))] IN r.cells[p - r.offset]
  BY DEF Whole, AnyOf
<1> QED
  BY <1>1, <1>2, <1>3 DEF CellOf

\* A read gives as many cells as it asks for.
LEMMA ReadDomain ==
  ASSUME NEW m \in Nat, Len(patch.regions) = m, \A k \in 1 .. m : Fitting(patch.regions[k]),
         xlen \in Int, NEW n \in Nat, NEW at \in 0 .. xlen - n
  PROVE  DOMAIN patch_wim(Underneath(at, n), at) = 0 .. n - 1
<1> DEFINE under == Underneath(at, n)
<1>1. IsPiece(under, n) /\ DOMAIN under = 0 .. n - 1
  BY DEF Underneath, IsPiece
<1> HIDE DEF under
<1>2. CASE Nothing
  BY <1>1, <1>2 DEF patch_wim, under
<1>3. CASE ~Nothing
  <2>1. patch_wim(under, at) = LaidOver(patch.regions, under, n, at, m)
    BY <1>1, <1>3, AllLaid
  <2>2. DOMAIN LaidOver(patch.regions, under, n, at, m) = 0 .. n - 1
    BY DEF LaidOver
  <2> QED
    BY <2>1, <2>2 DEF under
<1> QED
  BY <1>2, <1>3

\* Each of them is the one of the whole image.
LEMMA ReadFits ==
  ASSUME NEW m \in Nat, Len(patch.regions) = m, \A k \in 1 .. m : Fitting(patch.regions[k]),
         Nothing => m = 0, xlen \in Int,
         NEW n \in Nat, NEW at \in 0 .. xlen - n, NEW i \in 0 .. n - 1
  PROVE  /\ DOMAIN patch_wim(Underneath(at, n), at) = 0 .. n - 1
         /\ patch_wim(Underneath(at, n), at)[i] = Whole[at + i]
<1> DEFINE under == Underneath(at, n)
<1>1. PICK p \in 0 .. xlen - 1 : p = at + i
  OBVIOUS
<1>2. under[i] = IF p < Length(base) THEN base[p] ELSE 0
  BY <1>1 DEF Underneath
<1>3. IsPiece(under, n)
  BY DEF Underneath, IsPiece
<1>4. Whole[p] = CellOf(patch.regions, m, p, under[i])
  BY <1>2, PieceOfWhole
<1> HIDE DEF under
<1>5. CASE Nothing
  <2>1. patch_wim(under, at) = under
    BY <1>5 DEF patch_wim
  <2>2. CellOf(patch.regions, m, p, under[i]) = under[i]
    BY <1>5, CellZero
  <2> QED
    BY <1>1, <1>3, <1>4, <2>1, <2>2 DEF IsPiece, under
<1>6. CASE ~Nothing
  <2>1. patch_wim(under, at) = LaidOver(patch.regions, under, n, at, m)
    BY <1>3, <1>6, AllLaid
  <2>2. /\ DOMAIN LaidOver(patch.regions, under, n, at, m) = 0 .. n - 1
        /\ LaidOver(patch.regions, under, n, at, m)[i] = CellOf(patch.regions, m, at + i, under[i])
    BY DEF LaidOver
  <2> QED
    BY <1>1, <1>4, <2>1, <2>2 DEF under
<1> QED
  BY <1>5, <1>6
---------------------------------------------------------------------------
(* What is read of an image are numbers.                                   *)

\* What is read from an image are numbers (wim.c:48-60, 332-370).
IsImage(img) == Length(img) \in Nat /\ img \in [0 .. Length(img) - 1 -> Nat]
IsResource(res) == res.offset \in Nat /\ res.len \in Nat
IsHeader(h) == IsResource(h.lookup) /\ IsResource(h.boot)

\* Places that are aligned are places.
LEMMA AlignNat ==
  ASSUME AlignTo \in Nat \ {0}, NEW n \in Nat
  PROVE  wim_align(n) \in Nat /\ wim_align(n) >= n
<1>1. PICK x \in Nat : x = (n + AlignTo) - 1 /\ x = n + (AlignTo - 1)
  OBVIOUS
<1>2. PICK q \in Nat : q = x \div AlignTo /\ x = AlignTo * q + (x % AlignTo)
                      /\ x % AlignTo \in 0 .. AlignTo - 1
  OBVIOUS
<1>3. PICK y \in Nat : y = q * AlignTo /\ y = AlignTo * q
  OBVIOUS
<1>4. y >= n
  BY <1>1, <1>2, <1>3
<1>5. wim_align(n) = y
  BY <1>1, <1>2, <1>3 DEF wim_align
<1> QED
  BY <1>4, <1>5

LEMMA CellNat ==
  ASSUME NEW img, IsImage(img), NEW p \in Nat, p < Length(img)
  PROVE  img[p] \in Nat
BY DEF IsImage

LEMMA HeaderFits ==
  ASSUME NEW img, IsImage(img), NEW h \in wim_header(img)
  PROVE  IsHeader(h)
<1>1. ~(HeaderLen > Length(img)) /\ Length(img) \in Nat
  BY DEF wim_header, IsImage
<1>2. \A p \in 0 .. 7 : img[p] \in Nat
  BY <1>1, CellNat DEF HeaderLen
<1>3. /\ h.lookup = Resource(img, 0) /\ h.boot = Resource(img, 4)
  BY <1>1 DEF wim_header
<1>4. img[0 + 1] \in Nat /\ img[0 + 2] \in Nat /\ img[4 + 1] \in Nat /\ img[4 + 2] \in Nat
  BY <1>2
<1> QED
  BY <1>3, <1>4 DEF IsHeader, IsResource, Resource

LEMMA CellsRead ==
  ASSUME NEW img, IsImage(img), NEW res, IsResource(res), NEW at \in Nat, NEW n \in Nat,
         NEW c \in ReadCells(img, res, at, n)
  PROVE  /\ at + n <= res.len /\ res.offset + res.len <= Length(img)
         /\ \A i \in 0 .. n - 1 : c[i] = img[res.offset + at + i] /\ c[i] \in Nat
<1>1. /\ Length(img) \in Nat /\ res.offset \in Nat /\ res.len \in Nat
  BY DEF IsImage, IsResource
<1>2. ~(at + n > res.len \/ res.offset + res.len > Length(img))
  BY DEF ReadCells
<1>3. c = [i \in 0 .. n - 1 |-> img[res.offset + at + i]]
  BY <1>2 DEF ReadCells
<1>4. ASSUME NEW i \in 0 .. n - 1
      PROVE  img[res.offset + at + i] \in Nat
  <2>1. PICK p \in Nat : p = res.offset + at + i /\ p < Length(img)
    BY <1>1, <1>2
  <2> QED
    BY <2>1, CellNat
<1> QED
  BY <1>1, <1>2, <1>3, <1>4

\* The metadata chosen is a resource.
LEMMA MetadataFits ==
  ASSUME NEW img, IsImage(img), NEW h, IsHeader(h), NEW chosen,
         NEW boot \in wim_metadata(img, h, chosen)
  PROVE  IsResource(boot)
<1>1. CASE chosen = 0
  BY <1>1 DEF wim_metadata, IsHeader
<1>2. CASE chosen # 0
  <2>1. PICK k \in Entries(h) : boot = AsResource(LookupEntry(img, h, k))
    BY <1>2 DEF wim_metadata
  <2>2. ~Unreadable(img, h)
    BY <1>2 DEF wim_metadata
  <2>3. k \in Nat /\ k * EntryLen \in Nat /\ EntryLen \in Nat
    BY <2>1 DEF Entries, EntryLen
  <2>4. PICK c : c \in ReadCells(img, h.lookup, k * EntryLen, EntryLen)
    BY <2>1, <2>2 DEF Unreadable
  <2>5. PICK o \in Nat : o = k * EntryLen
    BY <2>3
  <2>6. IsResource(h.lookup)
    BY DEF IsHeader
  <2>7. \A i \in 0 .. 3 : img[h.lookup.offset + o + i] \in Nat
    <3>1. \A i \in 0 .. 4 - 1 : c[i] = img[h.lookup.offset + o + i] /\ c[i] \in Nat
      BY <2>4, <2>5, <2>6, CellsRead DEF EntryLen
    <3> QED
      BY <3>1
  <2>8. /\ img[h.lookup.offset + o + 1] \in Nat /\ img[h.lookup.offset + o + 2] \in Nat
    BY <2>7
  <2>9. boot.offset = img[h.lookup.offset + o + 1] /\ boot.len = img[h.lookup.offset + o + 2]
    BY <2>1, <2>5 DEF AsResource, LookupEntry
  <2> QED
    BY <2>8, <2>9 DEF IsResource
<1> QED
  BY <1>1, <1>2

IsDirent(d) == d.offset \in Nat /\ d.entry.subdir \in Nat

\* Entries of directories, a search of one, and the way to System32 (wim.c:383-471).
LEMMA DirentAtFits ==
  ASSUME NEW img, IsImage(img), NEW meta, IsResource(meta), NEW at \in Nat,
         NEW d \in DirentAt(img, meta, at)
  PROVE  d.subdir \in Nat
<1>1. PICK c \in ReadCells(img, meta, at, DirentLen) : d = Dirent(c)
  BY DEF DirentAt
<1>2. \A i \in 0 .. 4 - 1 : c[i] \in Nat
  BY <1>1, CellsRead DEF DirentLen
<1>3. c[1] \in Nat
  BY <1>2
<1> QED
  BY <1>1, <1>3 DEF Dirent

LEMMA DirentFits ==
  ASSUME NEW img, IsImage(img), NEW meta, IsResource(meta), NEW name, NEW first \in Nat,
         NEW d \in wim_direntry(img, meta, name, first)
  PROVE  IsDirent(d)
<1> DEFINE compared(at) == UNION {Compare(img, meta, name, at, e) : e \in DirentAt(img, meta, at)}
           GoesOn(at) == FALSE \in compared(at)
<1>1. PICK at, e : /\ at \in Reached(img, meta, first, GoesOn)
                   /\ e \in DirentAt(img, meta, at)
                   /\ d = [offset |-> at, entry |-> e]
  BY DEF wim_direntry, Then
<1>2. at \in Nat
  BY <1>1 DEF Reached, IsResource
<1>3. e.subdir \in Nat
  BY <1>1, <1>2, DirentAtFits
<1> QED
  BY <1>1, <1>2, <1>3 DEF IsDirent

\* The first entries a path of three leads to, the next ones, and the last.
Below(img, meta, name, dirs) ==
  Then(dirs, LAMBDA d : wim_direntry(img, meta, name, d.entry.subdir))

LEMMA BelowFits ==
  ASSUME NEW img, IsImage(img), NEW meta, IsResource(meta), NEW name, NEW dirs,
         \A d \in dirs : IsDirent(d)
  PROVE  \A d \in Below(img, meta, name, dirs) : IsDirent(d)
<1> SUFFICES ASSUME NEW d \in Below(img, meta, name, dirs) PROVE IsDirent(d)
  OBVIOUS
<1>1. PICK e \in dirs : d \in wim_direntry(img, meta, name, e.entry.subdir)
  BY DEF Below, Then
<1>2. e.entry.subdir \in Nat
  BY DEF IsDirent
<1> QED
  BY <1>1, <1>2, DirentFits

LEMMA PathFits ==
  ASSUME AlignTo \in Nat \ {0}, NEW img, IsImage(img), NEW meta, IsResource(meta),
         NEW d \in wim_path(img, meta, InjectDir)
  PROVE  IsDirent(d)
<1> DEFINE LevelIs(f, first) ==
             f = [k \in 1 .. Len(InjectDir) |->
                    IF k = 1 THEN wim_direntry(img, meta, InjectDir[1], first)
                    ELSE Then(f[k - 1], LAMBDA e : wim_direntry(img, meta, InjectDir[k], e.entry.subdir))]
           level(first) == CHOOSE f : LevelIs(f, first)
<1>1. Len(InjectDir) = 3
  BY DEF InjectDir
<1>2. PICK s \in ReadCells(img, meta, 0, SecurityLen) :
        d \in level(wim_align(s[0]))[Len(InjectDir)]
  BY DEF wim_path, Then
<1>3. PICK first \in Nat : first = wim_align(s[0])
  <2>1. \A i \in 0 .. 2 - 1 : s[i] \in Nat
    BY <1>2, CellsRead DEF SecurityLen
  <2>2. s[0] \in Nat
    BY <2>1
  <2> QED
    BY <2>2, AlignNat
<1>4. LevelIs(level(first), first)
  <2> DEFINE one == wim_direntry(img, meta, InjectDir[1], first)
             two == Below(img, meta, InjectDir[2], one)
             three == Below(img, meta, InjectDir[3], two)
             f == [k \in 1 .. 3 |-> IF k = 1 THEN one ELSE IF k = 2 THEN two ELSE three]
  <2>1. f[1] = one /\ f[2] = two /\ f[3] = three
    OBVIOUS
  <2>2. ASSUME NEW k \in 1 .. 3
        PROVE  (IF k = 1 THEN one ELSE IF k = 2 THEN two ELSE three) =
               IF k = 1 THEN one ELSE Below(img, meta, InjectDir[k], f[k - 1])
    <3>1. CASE k = 1
      BY <3>1
    <3>2. CASE k = 2
      BY <2>1, <3>2
    <3>3. CASE k = 3
      BY <2>1, <3>3
    <3> QED
      BY <3>1, <3>2, <3>3
  <2> HIDE DEF one, two, three
  <2>3. f = [k \in 1 .. 3 |-> IF k = 1 THEN one ELSE Below(img, meta, InjectDir[k], f[k - 1])]
    BY <2>2
  <2>4. LevelIs(f, first)
    BY <1>1, <2>3 DEF one, Below
  <2> QED
    BY <2>4
<1> DEFINE g == level(first)
<1> HIDE DEF level
<1>5. /\ g[1] = wim_direntry(img, meta, InjectDir[1], first)
      /\ g[2] = Below(img, meta, InjectDir[2], g[1])
      /\ g[3] = Below(img, meta, InjectDir[3], g[2])
  <2> HIDE DEF g
  <2>1. LevelIs(g, first)
    BY <1>4 DEF g
  <2>2. g = [k \in 1 .. 3 |-> IF k = 1 THEN wim_direntry(img, meta, InjectDir[1], first)
                              ELSE Below(img, meta, InjectDir[k], g[k - 1])]
    BY <1>1, <2>1 DEF Below
  <2> QED
    BY <2>2
<1> HIDE DEF g, LevelIs
<1>6. \A e \in g[1] : IsDirent(e)
  BY <1>5, DirentFits
<1>7. \A e \in g[2] : IsDirent(e)
  BY <1>5, <1>6, BelowFits
<1>8. \A e \in g[3] : IsDirent(e)
  BY <1>5, <1>7, BelowFits
<1> QED
  BY <1>1, <1>2, <1>3, <1>8 DEF g

\* The length of a directory.
LEMMA DirLenFits ==
  ASSUME NEW img, NEW meta, IsResource(meta), NEW first \in Nat,
         NEW n \in wim_dir_len(img, meta, first)
  PROVE  n \in Nat
<1> DEFINE lenAt(at) == ReadCells(img, meta, at, 1)
           GoesOn(at) == \E l \in lenAt(at) : l[0] # 0
<1>1. PICK at : at \in Reached(img, meta, first, GoesOn) /\ n = at - first
  BY DEF wim_dir_len
<1>2. at \in Nat /\ first <= at
  BY <1>1 DEF Reached, IsResource
<1> QED
  BY <1>1, <1>2

\* What a loop makes of a, its i-th iteration by g[i].
LoopIs(f, m, a, g) == f = [i \in 0 .. m |-> IF i = 0 THEN a ELSE g[i][f[i - 1]]]

\* A loop of m steps from a, each a function on S, has results in S.
LEMMA LoopExists ==
  ASSUME NEW m \in Nat, NEW S, NEW a \in S, NEW g, \A k \in 1 .. m : g[k] \in [S -> S]
  PROVE  \E f \in [0 .. m -> S] : LoopIs(f, m, a, g)
<1> DEFINE P(k, f) == /\ f \in [0 .. m -> S] /\ f[0] = a
                      /\ \A i \in 1 .. k : f[i] = g[i][f[i - 1]]
           T == {k \in Nat : k <= m => \E f : P(k, f)}
<1>1. 0 \in T
  <2>1. P(0, [i \in 0 .. m |-> a])
    OBVIOUS
  <2> QED
    BY <2>1
<1>2. ASSUME NEW k \in Nat, k \in T PROVE k + 1 \in T
  <2>1. SUFFICES ASSUME k + 1 <= m PROVE \E f : P(k + 1, f)
    OBVIOUS
  <2>2. PICK f : P(k, f)
    BY <1>2, <2>1
  <2> DEFINE x == g[k + 1][f[k]]
             h == [i \in 0 .. m |-> IF i = k + 1 THEN x ELSE f[i]]
  <2>3. x \in S
    <3>1. k + 1 \in 1 .. m /\ k \in 0 .. m
      BY <2>1
    <3>2. g[k + 1] \in [S -> S] /\ f[k] \in S
      BY <2>2, <3>1
    <3> QED
      BY <3>2
  <2> HIDE DEF x
  <2>4. h \in [0 .. m -> S] /\ h[0] = a
    BY <2>2, <2>3
  <2>5. ASSUME NEW i \in 1 .. k + 1 PROVE h[i] = g[i][h[i - 1]]
    <3>1. CASE i = k + 1
      <4>1. h[i] = x /\ h[i - 1] = f[k]
        BY <2>1, <3>1
      <4> QED
        BY <3>1, <4>1 DEF x
    <3>2. CASE i \in 1 .. k
      <4>1. h[i] = f[i] /\ h[i - 1] = f[i - 1]
        BY <2>1, <3>2
      <4> QED
        BY <2>2, <3>2, <4>1
    <3> QED
      BY <3>1, <3>2
  <2> QED
    BY <2>4, <2>5
<1>3. m \in T
  <2> HIDE DEF T
  <2> QED
    BY <1>1, <1>2, SetInduction
<1>4. PICK f : P(m, f)
  BY <1>3
<1>5. \A i \in 0 .. m : f[i] = IF i = 0 THEN a ELSE g[i][f[i - 1]]
  BY <1>4
<1>6. f = [i \in 0 .. m |-> f[i]]
  BY <1>4
<1>7. f = [i \in 0 .. m |-> IF i = 0 THEN a ELSE g[i][f[i - 1]]]
  BY <1>5, <1>6
<1> QED
  BY <1>4, <1>7 DEF LoopIs

\* The places where the contents of files end.
LEMMA EndsFit ==
  ASSUME NEW files, NEW m \in Nat, Len(files) = m, Length(base) \in Nat,
         \A k \in 1 .. m : Len(files[k].contents) \in Nat
  PROVE  \A k \in 0 .. m : EndOf(files)[k] \in Nat /\ EndOf(files)[k] >= Length(base)
<1> DEFINE Is(f) == f = [i \in 0 .. m |-> IF i = 0 THEN Length(base)
                                          ELSE f[i - 1] + Len(files[i].contents)]
           end == CHOOSE f : Is(f)
           g == [i \in 1 .. m |-> [x \in Nat |-> x + Len(files[i].contents)]]
<1>1. EndOf(files) = end
  BY DEF EndOf
<1>2. \E f : Is(f)
  <2>1. \A k \in 1 .. m : g[k] \in [Nat -> Nat]
    OBVIOUS
  <2>2. PICK f \in [0 .. m -> Nat] : LoopIs(f, m, Length(base), g)
    <3> HIDE DEF g
    <3> QED
      BY <2>1, LoopExists
  <2>3. ASSUME NEW i \in 0 .. m, i # 0 PROVE g[i][f[i - 1]] = f[i - 1] + Len(files[i].contents)
    <3>1. i \in 1 .. m /\ f[i - 1] \in Nat
      BY <2>2, <2>3
    <3> QED
      BY <3>1
  <2>4. \A i \in 0 .. m : (IF i = 0 THEN Length(base) ELSE g[i][f[i - 1]]) =
                           IF i = 0 THEN Length(base) ELSE f[i - 1] + Len(files[i].contents)
    BY <2>3
  <2>5. f = [i \in 0 .. m |-> IF i = 0 THEN Length(base) ELSE g[i][f[i - 1]]]
    BY <2>2 DEF LoopIs
  <2> HIDE DEF g
  <2>6. Is(f)
    BY <2>4, <2>5
  <2> QED
    BY <2>6
<1>3. Is(end)
  BY <1>2
<1> HIDE DEF end
<1>4. end[0] = Length(base) /\ \A i \in 1 .. m : end[i] = end[i - 1] + Len(files[i].contents)
  <2>1. 0 \in 0 .. m /\ \A i \in 1 .. m : i \in 0 .. m /\ i # 0
    OBVIOUS
  <2> QED
    BY <1>3, <2>1
<1> DEFINE T == {k \in Nat : k <= m => end[k] \in Nat /\ end[k] >= Length(base)}
<1>5. 0 \in T
  BY <1>4
<1>6. ASSUME NEW k \in Nat, k \in T PROVE k + 1 \in T
  <2>1. SUFFICES ASSUME k + 1 <= m PROVE end[k + 1] \in Nat /\ end[k + 1] >= Length(base)
    OBVIOUS
  <2>2. PICK j \in 1 .. m : j = k + 1 /\ j - 1 = k
    BY <2>1
  <2>3. end[k] \in Nat /\ end[k] >= Length(base)
    BY <1>6, <2>1
  <2>4. end[j] = end[j - 1] + Len(files[j].contents)
    BY <1>4
  <2>5. PICK l \in Nat : l = Len(files[j].contents)
    OBVIOUS
  <2>6. end[j] = end[k] + l
    BY <2>2, <2>4, <2>5
  <2> QED
    BY <2>2, <2>3, <2>6
<1>7. \A k \in Nat : k \in T
  <2> HIDE DEF T
  <2> QED
    BY <1>5, <1>6, SetInduction
<1>8. \A k \in 0 .. m : k \in Nat /\ k <= m
  OBVIOUS
<1> QED
  BY <1>1, <1>7, <1>8
---------------------------------------------------------------------------
(* Regions as wim_construct_patch makes them.                              *)

\* A list of regions as wim_construct_region makes them.
AllFit(s) == (\E T : s \in Seq(T)) /\ \A k \in 1 .. Len(s) : Fitting(s[k])

LEMMA FitBoth ==
  ASSUME NEW s, AllFit(s), NEW t, AllFit(t)
  PROVE  AllFit(s \o t)
<1>1. PICK T : s \in Seq(T) /\ t \in Seq(T)
  <2>1. PICK T1, T2 : s \in Seq(T1) /\ t \in Seq(T2)
    BY DEF AllFit
  <2>2. s \in Seq(T1 \cup T2) /\ t \in Seq(T1 \cup T2)
    BY <2>1
  <2> QED
    BY <2>2
<1>2. s \o t \in Seq(T) /\ Len(s \o t) = Len(s) + Len(t) /\ Len(s) \in Nat /\ Len(t) \in Nat
  BY <1>1
<1>3. ASSUME NEW k \in 1 .. Len(s \o t) PROVE Fitting((s \o t)[k])
  <2>1. CASE k <= Len(s)
    <3>1. k \in 1 .. Len(s) /\ (s \o t)[k] = s[k]
      BY <1>1, <1>2, <2>1
    <3> QED
      BY <3>1 DEF AllFit
  <2>2. CASE ~(k <= Len(s))
    <3>1. PICK j \in 1 .. Len(t) : j = k - Len(s)
      <4>1. PICK a \in Nat, b \in Nat : a = Len(s) /\ b = Len(t)
        BY <1>2
      <4>2. k \in 1 .. a + b /\ ~(k <= a)
        BY <1>2, <2>2, <4>1
      <4>3. k - a \in 1 .. b
        BY <4>2
      <4> QED
        BY <4>1, <4>3
    <3>2. (s \o t)[k] = t[j]
      BY <1>1, <1>2, <2>2, <3>1
    <3> QED
      BY <3>2 DEF AllFit
  <2> QED
    BY <2>1, <2>2
<1> QED
  BY <1>2, <1>3 DEF AllFit

(* What a sequence of regions makes of a cell: the last one that covers it. *)
Painted(s, p, under) == CellOf(s, Len(s), p, under)
AllAbove(s, x) == \A k \in 1 .. Len(s) : s[k].offset >= x

LEMMA CellSame ==
  ASSUME NEW s, NEW t, NEW k \in Nat, \A j \in 1 .. k : s[j] = t[j], NEW p, NEW under
  PROVE  CellOf(s, k, p, under) = CellOf(t, k, p, under)
<1>1. OverOf(s, k, p) = OverOf(t, k, p)
  BY DEF OverOf
<1>2. LastOf(s, k, p) = LastOf(t, k, p)
  BY <1>1 DEF LastOf
<1>3. CASE LastOf(s, k, p) = {}
  BY <1>2, <1>3 DEF CellOf
<1>4. CASE LastOf(s, k, p) # {}
  <2>1. AnyOf(LastOf(s, k, p)) \in 1 .. k
    <3>1. AnyOf(LastOf(s, k, p)) \in LastOf(s, k, p)
      BY <1>4 DEF AnyOf
    <3> QED
      BY <3>1 DEF LastOf, OverOf
  <2>2. s[AnyOf(LastOf(s, k, p))] = t[AnyOf(LastOf(s, k, p))]
    BY <2>1
  <2> QED
    BY <1>2, <1>4, <2>2 DEF CellOf
<1> QED
  BY <1>3, <1>4

LEMMA PaintedBoth ==
  ASSUME NEW s, AllFit(s), NEW t, AllFit(t), NEW p, NEW under
  PROVE  Painted(s \o t, p, under) = Painted(t, p, Painted(s, p, under))
<1>1. PICK T : s \in Seq(T) /\ t \in Seq(T)
  <2>1. PICK T1, T2 : s \in Seq(T1) /\ t \in Seq(T2)
    BY DEF AllFit
  <2>2. s \in Seq(T1 \cup T2) /\ t \in Seq(T1 \cup T2)
    BY <2>1
  <2> QED
    BY <2>2
<1>2. PICK a \in Nat, b \in Nat : a = Len(s) /\ b = Len(t) /\ Len(s \o t) = a + b
  BY <1>1
<1> DEFINE st == s \o t
           u == Painted(s, p, under)
           K == {k \in Nat : k <= b => CellOf(st, a + k, p, under) = CellOf(t, k, p, u)}
<1>3. \A j \in 1 .. a : st[j] = s[j]
  BY <1>1, <1>2
<1>4. \A j \in 1 .. b : st[a + j] = t[j]
  <2> SUFFICES ASSUME NEW j \in 1 .. b PROVE st[a + j] = t[j]
    OBVIOUS
  <2>1. PICK i : i = a + j /\ i \in 1 .. a + b /\ i > a /\ i - a = j
    OBVIOUS
  <2>2. st[i] = t[i - a]
    BY <1>1, <1>2, <2>1
  <2> QED
    BY <2>1, <2>2
<1> HIDE DEF st, u
<1>5. 0 \in K
  <2>1. CellOf(st, a, p, under) = u
    BY <1>2, <1>3, CellSame DEF u, Painted
  <2>2. CellOf(t, 0, p, u) = u
    BY CellZero
  <2> QED
    BY <2>1, <2>2
<1>6. ASSUME NEW k \in Nat, k \in K PROVE k + 1 \in K
  <2>1. SUFFICES ASSUME k + 1 <= b PROVE CellOf(st, a + (k + 1), p, under) = CellOf(t, k + 1, p, u)
    OBVIOUS
  <2>2. PICK m \in Nat : m = a + k /\ m + 1 = a + (k + 1)
    OBVIOUS
  <2>3. st[m + 1] = t[k + 1]
    BY <1>4, <2>1, <2>2
  <2>4. CellOf(st, m, p, under) = CellOf(t, k, p, u)
    BY <1>6, <2>1, <2>2
  <2>7. CellOf(st, m + 1, p, under) = CellOf(t, k + 1, p, u)
    BY <2>3, <2>4, CellNext
  <2> QED
    BY <2>2, <2>7
<1>7. b \in K
  <2> HIDE DEF K
  <2> QED
    BY <1>5, <1>6, SetInduction
<1> QED
  BY <1>2, <1>7 DEF st, u, Painted

\* Regions behind a cell leave it alone.
LEMMA PaintedAbove ==
  ASSUME NEW s, AllFit(s), NEW p \in Int, NEW x \in Int, p < x, AllAbove(s, x), NEW under
  PROVE  Painted(s, p, under) = under
<1>1. ASSUME NEW k \in 1 .. Len(s) PROVE ~Covers(s[k], p)
  <2>1. s[k].offset >= x /\ s[k].offset \in Nat
    BY DEF AllAbove, AllFit, Fitting
  <2> QED
    BY <2>1 DEF Covers
<1>2. OverOf(s, Len(s), p) = {}
  BY <1>1 DEF OverOf
<1> QED
  BY <1>2 DEF Painted, CellOf, LastOf

\* A cell that no region covers.
LEMMA PaintedOutside ==
  ASSUME NEW s, NEW p, \A k \in 1 .. Len(s) : ~Covers(s[k], p), NEW under
  PROVE  Painted(s, p, under) = under
<1>1. OverOf(s, Len(s), p) = {}
  BY DEF OverOf
<1> QED
  BY <1>1 DEF Painted, CellOf, LastOf

\* One that no later one covers.
LEMMA PaintedLast ==
  ASSUME NEW s, AllFit(s), NEW p \in Int, NEW k \in 1 .. Len(s), Covers(s[k], p),
         \A j \in 1 .. Len(s) : j > k => ~Covers(s[j], p), NEW under
  PROVE  Painted(s, p, under) = s[k].cells[p - s[k].offset]
<1>1. LastOf(s, Len(s), p) = {k}
  <2>1. k \in OverOf(s, Len(s), p)
    BY DEF OverOf
  <2>2. \A j \in OverOf(s, Len(s), p) : j \in Int /\ j <= k
    BY DEF OverOf
  <2>3. k \in Int
    OBVIOUS
  <2>4. k \in LastOf(s, Len(s), p)
    BY <2>1, <2>2 DEF LastOf
  <2>5. ASSUME NEW j \in LastOf(s, Len(s), p) PROVE j = k
    <3>1. j \in OverOf(s, Len(s), p) /\ k <= j
      BY <2>1 DEF LastOf
    <3> QED
      BY <2>2, <2>3, <3>1
  <2> QED
    BY <2>4, <2>5
<1>2. AnyOf(LastOf(s, Len(s), p)) = k
  BY <1>1 DEF AnyOf
<1> QED
  BY <1>1, <1>2 DEF Painted, CellOf

LEMMA AboveBoth ==
  ASSUME NEW s, AllFit(s), NEW t, AllFit(t), NEW x, AllAbove(s, x), AllAbove(t, x)
  PROVE  AllAbove(s \o t, x)
<1>1. PICK T : s \in Seq(T) /\ t \in Seq(T)
  <2>1. PICK T1, T2 : s \in Seq(T1) /\ t \in Seq(T2)
    BY DEF AllFit
  <2>2. s \in Seq(T1 \cup T2) /\ t \in Seq(T1 \cup T2)
    BY <2>1
  <2> QED
    BY <2>2
<1>2. PICK a \in Nat, b \in Nat : a = Len(s) /\ b = Len(t) /\ Len(s \o t) = a + b
  BY <1>1
<1>3. ASSUME NEW k \in 1 .. a + b PROVE (s \o t)[k].offset >= x
  <2>1. CASE k <= a
    <3>1. k \in 1 .. a /\ (s \o t)[k] = s[k]
      BY <1>1, <1>2, <2>1
    <3> QED
      BY <1>2, <3>1 DEF AllAbove
  <2>2. CASE ~(k <= a)
    <3>1. PICK j \in 1 .. b : j = k - a
      BY <2>2
    <3>2. (s \o t)[k] = t[j]
      BY <1>1, <1>2, <2>2, <3>1
    <3> QED
      BY <1>2, <3>2 DEF AllAbove
  <2> QED
    BY <2>1, <2>2
<1> QED
  BY <1>2, <1>3 DEF AllAbove

LEMMA FitOne == ASSUME NEW r, Fitting(r) PROVE AllFit(<<r>>)
<1>1. <<r>> \in Seq({r})
  OBVIOUS
<1>2. Len(<<r>>) = 1 /\ \A k \in 1 .. 1 : <<r>>[k] = r
  OBVIOUS
<1> QED
  BY <1>1, <1>2 DEF AllFit

LEMMA FitTwo == ASSUME NEW r, Fitting(r), NEW s, Fitting(s) PROVE AllFit(<<r, s>>)
<1>1. <<r, s>> \in Seq({r, s})
  OBVIOUS
<1>2. Len(<<r, s>>) = 2 /\ \A k \in 1 .. 2 : <<r, s>>[k] = r \/ <<r, s>>[k] = s
  OBVIOUS
<1> QED
  BY <1>1, <1>2 DEF AllFit

LEMMA FitThree ==
  ASSUME NEW r, Fitting(r), NEW s, Fitting(s), NEW t, Fitting(t)
  PROVE  AllFit(<<r, s, t>>)
<1>1. <<r, s, t>> \in Seq({r, s, t})
  OBVIOUS
<1>2. /\ Len(<<r, s, t>>) = 3
      /\ \A k \in 1 .. 3 : <<r, s, t>>[k] = r \/ <<r, s, t>>[k] = s \/ <<r, s, t>>[k] = t
  OBVIOUS
<1> QED
  BY <1>1, <1>2 DEF AllFit

LEMMA FitEach ==
  ASSUME NEW n \in Nat, NEW s, DOMAIN s = 1 .. n, s = [i \in 1 .. n |-> s[i]],
         \A i \in 1 .. n : Fitting(s[i])
  PROVE  AllFit(s)
<1>1. s \in Seq({s[i] : i \in 1 .. n}) /\ Len(s) = n
  OBVIOUS
<1> QED
  BY <1>1 DEF AllFit

\* What wim_construct_region makes, of cells of each kind.
LEMMA RegionFits ==
  ASSUME NEW at \in Nat, NEW n \in Nat, NEW cells, DOMAIN cells = 0 .. n - 1
  PROVE  /\ Fitting(wim_construct_region(at, cells))
         /\ wim_construct_region(at, cells).offset = at
         /\ wim_construct_region(at, cells).len = n
         /\ wim_construct_region(at, cells).cells = cells
<1>1. Length(cells) = n
  BY LengthIs
<1> QED
  BY <1>1 DEF wim_construct_region, Fitting

LEMMA CellsFit ==
  ASSUME NEW at \in Nat, NEW seq, Len(seq) \in Nat
  PROVE  Fitting(wim_construct_region(at, Cells(seq)))
<1>1. DOMAIN Cells(seq) = 0 .. Len(seq) - 1
  BY DEF Cells
<1> QED
  BY <1>1, RegionFits

LEMMA CopyFits ==
  ASSUME NEW at \in Nat, NEW n \in Nat, NEW res, NEW place
  PROVE  Fitting(wim_construct_region(at, CopyOf(res, place, n)))
<1>1. DOMAIN CopyOf(res, place, n) = 0 .. n - 1
  BY DEF CopyOf
<1> QED
  BY <1>1, RegionFits

IsFile(f) == f.name \in Nat /\ f.hash \in Nat /\ Len(f.contents) \in Nat

\* What lies where in a patch p that injects: the header, the files, the lookup
\* table with the new image's entry and the files' behind it, and the metadata.
TableLen(h, n) == h.lookup.len + (n + 1) * EntryLen
NewTable(h, n, at) == [flags |-> 0, offset |-> at, len |-> TableLen(h, n)]
NewImage(p, bootAt) == [flags |-> Metadata, offset |-> bootAt, len |-> p.end - bootAt]
HeaderPart(p) == <<wim_construct_region(0, HeaderCells(p.header))>>
TableCells(img, h) == [i \in 0 .. h.lookup.len - 1 |-> img[h.lookup.offset + i]]
TablePart(img, p, h, at, bootAt) ==
  <<wim_construct_region(at, TableCells(img, h)),
    wim_construct_region(at + h.lookup.len, EntryCells(NewImage(p, bootAt), 0))>>

FileEntriesAt(s, n, first) ==
  /\ Len(s) = n
  /\ \A i \in 1 .. n : /\ s[i].offset = first + i * EntryLen /\ s[i].len = EntryLen
                       /\ s[i].cells[0] = 0

IsInjection(img, p, h, number, n, at, bootAt, s2, s4, s5, s6) ==
  /\ p.header = NewHeader(NewTable(h, n, at), NewImage(p, bootAt), number)
  /\ p.regions = HeaderPart(p) \o s2 \o TablePart(img, p, h, at, bootAt) \o s4 \o s5 \o s6
  /\ AllFit(HeaderPart(p)) /\ AllFit(TablePart(img, p, h, at, bootAt))
  /\ AllFit(s2) /\ AllFit(s4) /\ AllFit(s5) /\ AllFit(s6)
  /\ Length(img) <= at /\ at + TableLen(h, n) <= bootAt /\ bootAt <= p.end
  /\ AllAbove(s2, Length(img)) /\ AllAbove(s5, bootAt) /\ AllAbove(s6, bootAt)
  /\ FileEntriesAt(s4, n, at + h.lookup.len)

\* So the regions that wim_construct_patch injects with lie.
LEMMA RegionsFit ==
  ASSUME AlignTo \in Nat \ {0}, Length(base) \in Nat, Len(injected) \in Nat,
         \A k \in 1 .. Len(injected) : IsFile(injected[k]),
         NEW h, IsHeader(h), NEW boot, IsResource(boot), NEW number,
         NEW dir, IsDirent(dir), NEW dirLen \in Nat
  PROVE  LET p == InjectRegions(h, boot, number, dir, dirLen)
         IN  /\ p.end \in Nat
             /\ \E at, bootAt \in Nat : \E s2, s4, s5, s6 :
                  IsInjection(base, p, h, number, Len(injected), at, bootAt, s2, s4, s5, s6)
<1> DEFINE files == injected
           n == Len(files)
           fileAt(i) == EndOf(files)[i - 1]
           lookupAt == wim_align(EndOf(files)[n])
           bootEntryAt == lookupAt + h.lookup.len
           entryAt(i) == bootEntryAt + i * EntryLen
           lookupEnd == entryAt(n + 1)
           bootAt == wim_align(lookupEnd)
           subdir == wim_align(bootAt + boot.len)
           direntAt(i) == subdir + (i - 1) * wim_align(PatchEntryLen)
           copyAt == direntAt(n + 1)
           end == copyAt + dirLen + 1
           newLookup == [flags |-> 0, offset |-> lookupAt, len |-> lookupEnd - lookupAt]
           newBoot == [flags |-> Metadata, offset |-> bootAt, len |-> end - bootAt]
           newHeader == NewHeader(newLookup, newBoot, number)
           s1 == <<wim_construct_region(0, HeaderCells(newHeader))>>
           s2 == [i \in 1 .. n |-> wim_construct_region(fileAt(i), Cells(files[i].contents))]
           s3 == <<wim_construct_region(lookupAt, CopyOf(h.lookup, 0, h.lookup.len)),
                   wim_construct_region(bootEntryAt, EntryCells(newBoot, 0))>>
           s4 == [i \in 1 .. n |->
                    wim_construct_region(entryAt(i), EntryCells(FileEntry(fileAt(i), files[i]),
                                                                files[i].hash))]
           s5 == <<wim_construct_region(bootAt, CopyOf(boot, 0, boot.len)),
                   wim_construct_region(bootAt + dir.offset + SubdirAt, Cells(<<subdir - bootAt>>)),
                   wim_construct_region(copyAt, CopyOf(boot, dir.entry.subdir, dirLen))>>
           s6 == [i \in 1 .. n |-> wim_construct_region(direntAt(i), DirentCells(files[i]))]
<1>0. /\ InjectRegions(h, boot, number, dir, dirLen).end = end
      /\ InjectRegions(h, boot, number, dir, dirLen).header = newHeader
      /\ InjectRegions(h, boot, number, dir, dirLen).regions = s1 \o s2 \o s3 \o s4 \o s5 \o s6
  BY DEF InjectRegions
<1> HIDE DEF s1, s2, s3, s4, s5, s6, newHeader, end
<1>1. PICK p : /\ p = InjectRegions(h, boot, number, dir, dirLen)
               /\ p.end = end /\ p.header = newHeader
               /\ p.regions = s1 \o s2 \o s3 \o s4 \o s5 \o s6
  BY <1>0
<1> USE DEF s1, s2, s3, s4, s5, s6, newHeader, end
<1>2. /\ n \in Nat /\ h.lookup.len \in Nat /\ boot.len \in Nat /\ dir.offset \in Nat
      /\ \A i \in 1 .. n : IsFile(files[i])
  BY DEF IsHeader, IsResource, IsDirent
<1>3. \A k \in 0 .. n : EndOf(files)[k] \in Nat /\ EndOf(files)[k] >= Length(base)
  <2>1. \A k \in 1 .. n : Len(files[k].contents) \in Nat
    BY <1>2 DEF IsFile
  <2> HIDE DEF files
  <2> QED
    BY <1>2, <2>1, EndsFit
<1> HIDE DEF files
<1>4. /\ lookupAt \in Nat /\ lookupAt >= Length(base)
      /\ \A i \in 1 .. n : fileAt(i) \in Nat /\ fileAt(i) >= Length(base)
  <2>1. /\ EndOf(files)[n] \in Nat /\ EndOf(files)[n] >= Length(base)
        /\ \A i \in 1 .. n : EndOf(files)[i - 1] \in Nat /\ EndOf(files)[i - 1] >= Length(base)
    <3>1. n \in 0 .. n /\ \A i \in 1 .. n : i - 1 \in 0 .. n
      BY <1>2
    <3> HIDE DEF n
    <3> QED
      BY <1>3, <3>1
  <2>2. PICK x \in Nat : x = EndOf(files)[n] /\ x >= Length(base)
    BY <2>1
  <2>3. wim_align(x) \in Nat /\ wim_align(x) >= x
    BY AlignNat
  <2> QED
    BY <2>1, <2>2, <2>3
<1> HIDE DEF n, fileAt, lookupAt
<1>5. /\ bootEntryAt \in Nat /\ lookupEnd \in Nat /\ \A i \in 1 .. n : entryAt(i) \in Nat
      /\ bootEntryAt = lookupAt + h.lookup.len
      /\ lookupEnd = lookupAt + TableLen(h, n)
      /\ \A i \in 1 .. n : entryAt(i) = bootEntryAt + i * EntryLen
  <2>1. bootEntryAt \in Nat
    BY <1>2, <1>4
  <2> HIDE DEF bootEntryAt
  <2>2. n \in Nat
    BY <1>2 DEF n
  <2>3. \A i \in 1 .. n + 1 : entryAt(i) \in Nat
    BY <2>1, <2>2 DEF EntryLen
  <2>4. n + 1 \in 1 .. n + 1 /\ \A i \in 1 .. n : i \in 1 .. n + 1
    BY <2>2
  <2>5. lookupEnd = lookupAt + TableLen(h, n)
    BY <1>2, <1>4, <2>2 DEF bootEntryAt, TableLen, EntryLen
  <2>6. bootEntryAt = lookupAt + h.lookup.len
    BY DEF bootEntryAt
  <2> QED
    BY <2>1, <2>3, <2>4, <2>5, <2>6
<1> HIDE DEF bootEntryAt, lookupEnd, entryAt
<1>6. bootAt \in Nat /\ bootAt >= lookupEnd
  BY <1>5, AlignNat
<1> HIDE DEF bootAt
<1>7. subdir \in Nat /\ subdir >= bootAt
  <2>1. PICK x \in Nat : x = bootAt + boot.len
    BY <1>2, <1>6
  <2>2. subdir = wim_align(x)
    BY <2>1
  <2>3. wim_align(x) \in Nat /\ wim_align(x) >= x
    BY AlignNat
  <2> HIDE DEF subdir
  <2> QED
    BY <1>2, <1>6, <2>1, <2>2, <2>3
<1> HIDE DEF subdir
<1>8. /\ copyAt \in Nat /\ \A i \in 1 .. n : direntAt(i) \in Nat
      /\ copyAt >= bootAt /\ \A i \in 1 .. n : direntAt(i) >= bootAt
  <2>1. PICK w \in Nat : w = wim_align(PatchEntryLen)
    BY AlignNat DEF PatchEntryLen, DirentLen
  <2>2. \A i \in 1 .. n + 1 : (i - 1) * w \in Nat
    BY <1>2
  <2>3. n + 1 \in 1 .. n + 1 /\ \A i \in 1 .. n : i \in 1 .. n + 1
    BY <1>2
  <2>4. \A i \in 1 .. n + 1 : subdir + (i - 1) * w \in Nat /\ subdir + (i - 1) * w >= bootAt
    <3> SUFFICES ASSUME NEW i \in 1 .. n + 1
                 PROVE  subdir + (i - 1) * w \in Nat /\ subdir + (i - 1) * w >= bootAt
      OBVIOUS
    <3>1. PICK x \in Nat : x = (i - 1) * w
      BY <2>2
    <3> QED
      BY <1>6, <1>7, <3>1
  <2> QED
    BY <2>1, <2>3, <2>4
<1> HIDE DEF copyAt, direntAt
<1>9. end \in Nat /\ end >= bootAt
  BY <1>6, <1>8
<1>17. newBoot = NewImage(p, bootAt) /\ newLookup = NewTable(h, n, lookupAt)
  <2>1. (lookupAt + TableLen(h, n)) - lookupAt = TableLen(h, n)
    <3>1. TableLen(h, n) \in Nat
      BY <1>2 DEF TableLen, EntryLen, n
    <3> QED
      BY <1>4, <3>1
  <2>2. lookupEnd - lookupAt = TableLen(h, n)
    BY <1>5, <2>1
  <2> QED
    BY <1>1, <2>2 DEF NewImage, NewTable
<1> HIDE DEF end, newLookup, newBoot, newHeader
<1>10. AllFit(s1)
  <2>1. Fitting(wim_construct_region(0, HeaderCells(newHeader)))
    BY CellsFit DEF HeaderCells
  <2> QED
    BY <2>1, FitOne
<1>11. AllFit(s2)
  <2>1. \A i \in 1 .. n : Fitting(wim_construct_region(fileAt(i), Cells(files[i].contents)))
    BY <1>2, <1>4, CellsFit DEF IsFile
  <2> QED
    BY <1>2, <2>1, FitEach
<1>12. AllFit(s3)
  <2>1. Fitting(wim_construct_region(lookupAt, CopyOf(h.lookup, 0, h.lookup.len)))
    BY <1>2, <1>4, CopyFits
  <2>2. Fitting(wim_construct_region(bootEntryAt, EntryCells(newBoot, 0)))
    BY <1>5, CellsFit DEF EntryCells
  <2> QED
    BY <2>1, <2>2, FitTwo
<1>13. AllFit(s4)
  <2>1. \A i \in 1 .. n :
          Fitting(wim_construct_region(entryAt(i), EntryCells(FileEntry(fileAt(i), files[i]),
                                                              files[i].hash)))
    BY <1>5, CellsFit DEF EntryCells
  <2> QED
    BY <1>2, <2>1, FitEach
<1>14. AllFit(s5)
  <2>1. Fitting(wim_construct_region(bootAt, CopyOf(boot, 0, boot.len)))
    BY <1>2, <1>6, CopyFits
  <2>2. Fitting(wim_construct_region(bootAt + dir.offset + SubdirAt, Cells(<<subdir - bootAt>>)))
    <3>1. bootAt + dir.offset + SubdirAt \in Nat
      BY <1>2, <1>6 DEF SubdirAt
    <3> QED
      BY <3>1, CellsFit
  <2>3. Fitting(wim_construct_region(copyAt, CopyOf(boot, dir.entry.subdir, dirLen)))
    BY <1>8, CopyFits
  <2> QED
    BY <2>1, <2>2, <2>3, FitThree
<1>15. AllFit(s6)
  <2>1. \A i \in 1 .. n : Fitting(wim_construct_region(direntAt(i), DirentCells(files[i])))
    BY <1>8, CellsFit DEF DirentCells
  <2> QED
    BY <1>2, <2>1, FitEach
<1> HIDE DEF s1, s2, s3, s4, s5, s6
<1>16. AllAbove(s2, Length(base)) /\ AllAbove(s5, bootAt) /\ AllAbove(s6, bootAt)
  <2>1. AllAbove(s2, Length(base))
    BY <1>2, <1>4 DEF s2, AllAbove, wim_construct_region
  <2>2. AllAbove(s5, bootAt)
    <3>1. bootAt + dir.offset + SubdirAt >= bootAt
      BY <1>2, <1>6 DEF SubdirAt
    <3>2. /\ Len(s5) = 3 /\ s5[1].offset = bootAt /\ s5[2].offset = bootAt + dir.offset + SubdirAt
          /\ s5[3].offset = copyAt
      BY DEF s5, wim_construct_region
    <3>3. \A k \in 1 .. 3 : k = 1 \/ k = 2 \/ k = 3
      OBVIOUS
    <3>4. bootAt >= bootAt
      BY <1>6
    <3> QED
      BY <1>8, <3>1, <3>2, <3>3, <3>4 DEF AllAbove
  <2>3. AllAbove(s6, bootAt)
    BY <1>2, <1>8 DEF s6, AllAbove, wim_construct_region
  <2> QED
    BY <2>1, <2>2, <2>3
<1>18. FileEntriesAt(s4, n, bootEntryAt)
  <2>1. Len(s4) = n /\ n \in Nat
    BY <1>2 DEF s4, n
  <2>2. ASSUME NEW i \in 1 .. n
        PROVE  /\ s4[i].offset = bootEntryAt + i * EntryLen /\ s4[i].len = EntryLen
               /\ s4[i].cells[0] = 0
    <3>1. PICK e : e = EntryCells(FileEntry(fileAt(i), files[i]), files[i].hash)
      OBVIOUS
    <3>2. s4[i] = wim_construct_region(entryAt(i), e)
      BY <3>1 DEF s4
    <3>3. DOMAIN e = 0 .. EntryLen - 1 /\ e[0] = 0
      BY <3>1 DEF EntryCells, Cells, EntryLen, FileEntry
    <3>4. EntryLen \in Nat
      BY DEF EntryLen
    <3>5. entryAt(i) \in Nat /\ entryAt(i) = bootEntryAt + i * EntryLen
      BY <1>5
    <3>6. PICK x \in Nat : x = entryAt(i) /\ x = bootEntryAt + i * EntryLen
      BY <3>5
    <3>9. PICK l \in Nat : l = EntryLen /\ DOMAIN e = 0 .. l - 1
      BY <3>3, <3>4
    <3>7. /\ wim_construct_region(x, e).offset = x /\ wim_construct_region(x, e).len = l
          /\ wim_construct_region(x, e).cells = e
      BY <3>9, RegionFits
    <3>8. s4[i] = wim_construct_region(x, e)
      BY <3>2, <3>6
    <3> QED
      BY <3>3, <3>6, <3>7, <3>8, <3>9
  <2> QED
    BY <2>1, <2>2 DEF FileEntriesAt
<1>19. s1 = HeaderPart(p) /\ s3 = TablePart(base, p, h, lookupAt, bootAt)
  <2>1. CopyOf(h.lookup, 0, h.lookup.len) = TableCells(base, h)
    <3>1. h.lookup.offset \in Nat
      BY DEF IsHeader, IsResource
    <3>2. h.lookup.offset + 0 = h.lookup.offset
      BY <3>1
    <3> QED
      BY <3>2 DEF CopyOf, TableCells
  <2> QED
    BY <1>1, <1>5, <1>17, <2>1 DEF s1, s3, HeaderPart, TablePart
<1>20. IsInjection(base, p, h, number, n, lookupAt, bootAt, s2, s4, s5, s6)
  <2>1. p.header = NewHeader(NewTable(h, n, lookupAt), NewImage(p, bootAt), number)
    BY <1>1, <1>17 DEF newHeader
  <2>2. /\ Length(base) <= lookupAt /\ lookupAt + TableLen(h, n) <= bootAt /\ bootAt <= p.end
    BY <1>1, <1>4, <1>5, <1>6, <1>9
  <2>3. FileEntriesAt(s4, n, lookupAt + h.lookup.len)
    BY <1>5, <1>18
  <2> QED
    BY <1>1, <1>10, <1>11, <1>12, <1>13, <1>14, <1>15, <1>16, <1>19, <2>1, <2>2, <2>3 DEF IsInjection
<1> QED
  BY <1>1, <1>4, <1>6, <1>9, <1>20 DEF n, files

\* In particular they fit.
LEMMA InjectionFits ==
  ASSUME NEW img, NEW p, NEW h, NEW number, NEW n, NEW at, NEW bootAt,
         NEW s2, NEW s4, NEW s5, NEW s6, IsInjection(img, p, h, number, n, at, bootAt, s2, s4, s5, s6)
  PROVE  AllFit(p.regions)
BY FitBoth DEF IsInjection

\* What six lists of regions, one after the other, make of a cell.
LEMMA PaintedSix ==
  ASSUME NEW s1, AllFit(s1), NEW s2, AllFit(s2), NEW s3, AllFit(s3), NEW s4, AllFit(s4),
         NEW s5, AllFit(s5), NEW s6, AllFit(s6), NEW x, NEW u
  PROVE  Painted(s1 \o s2 \o s3 \o s4 \o s5 \o s6, x, u) =
           Painted(s6, x, Painted(s5, x, Painted(s4, x,
             Painted(s3, x, Painted(s2, x, Painted(s1, x, u))))))
<1>1. AllFit(s1 \o s2) /\ Painted(s1 \o s2, x, u) = Painted(s2, x, Painted(s1, x, u))
  BY FitBoth, PaintedBoth
<1> DEFINE a == s1 \o s2
           b == a \o s3
           c == b \o s4
           d == c \o s5
<1>2. AllFit(a) /\ Painted(a, x, u) = Painted(s2, x, Painted(s1, x, u))
  BY <1>1
<1> HIDE DEF a
<1>3. AllFit(b) /\ Painted(b, x, u) = Painted(s3, x, Painted(a, x, u))
  BY <1>2, FitBoth, PaintedBoth
<1> HIDE DEF b
<1>4. AllFit(c) /\ Painted(c, x, u) = Painted(s4, x, Painted(b, x, u))
  BY <1>3, FitBoth, PaintedBoth
<1> HIDE DEF c
<1>5. AllFit(d) /\ Painted(d, x, u) = Painted(s5, x, Painted(c, x, u))
  BY <1>4, FitBoth, PaintedBoth
<1> HIDE DEF d
<1>6. Painted(d \o s6, x, u) = Painted(s6, x, Painted(d, x, u))
  BY <1>5, PaintedBoth
<1> QED
  BY <1>2, <1>3, <1>4, <1>5, <1>6 DEF a, b, c, d

\* The cells of an injection: the header, the lookup table as it was, the new
\* image's entry, and the flags of the files' entries.
CellsInjected(img, p, h, n, at, bootAt, u) ==
  /\ \A x \in 0 .. HeaderLen - 1 : Painted(p.regions, x, u) = HeaderCells(p.header)[x]
  /\ \A x \in 0 .. h.lookup.len - 1 : Painted(p.regions, at + x, u) = TableCells(img, h)[x]
  /\ \A x \in 0 .. EntryLen - 1 :
       Painted(p.regions, (at + h.lookup.len) + x, u) = EntryCells(NewImage(p, bootAt), 0)[x]
  /\ \A i \in 1 .. n : Painted(p.regions, (at + h.lookup.len) + i * EntryLen, u) = 0

LEMMA InjectedCells ==
  ASSUME NEW img, Length(img) \in Nat, Length(img) >= HeaderLen,
         NEW p, p.end \in Nat, NEW h, h.lookup.len \in Nat, NEW number,
         NEW n \in Nat, NEW at \in Nat, NEW bootAt \in Nat, NEW s2, NEW s4, NEW s5, NEW s6,
         IsInjection(img, p, h, number, n, at, bootAt, s2, s4, s5, s6), NEW u
  PROVE  CellsInjected(img, p, h, n, at, bootAt, u)
<1> DEFINE s1 == HeaderPart(p)
           s3 == TablePart(img, p, h, at, bootAt)
<1>1. /\ AllFit(s1) /\ AllFit(s2) /\ AllFit(s3) /\ AllFit(s4) /\ AllFit(s5) /\ AllFit(s6)
      /\ p.regions = s1 \o s2 \o s3 \o s4 \o s5 \o s6
      /\ Length(img) <= at /\ at + TableLen(h, n) <= bootAt
      /\ AllAbove(s2, Length(img)) /\ AllAbove(s5, bootAt) /\ AllAbove(s6, bootAt)
      /\ FileEntriesAt(s4, n, at + h.lookup.len)
  BY DEF IsInjection
<1>2. PICK l \in Nat, first \in Nat : l = h.lookup.len /\ first = at + l
  OBVIOUS
<1>3. first + (n + 1) * 4 <= bootAt /\ first >= at
  BY <1>1, <1>2 DEF TableLen, EntryLen
<1>4. AllAbove(s4, first + 4)
  <2>1. ASSUME NEW i \in 1 .. n PROVE s4[i].offset >= first + 4
    <3>1. s4[i].offset = first + i * 4
      BY <1>1, <1>2 DEF FileEntriesAt, EntryLen
    <3> QED
      BY <3>1
  <2>2. Len(s4) = n
    BY <1>1 DEF FileEntriesAt
  <2> QED
    BY <2>1, <2>2 DEF AllAbove
<1>5. PICK r1, r2, r3 :
        /\ s1 = <<r1>> /\ s3 = <<r2, r3>>
        /\ r1 = wim_construct_region(0, HeaderCells(p.header))
        /\ r2 = wim_construct_region(at, TableCells(img, h))
        /\ r3 = wim_construct_region(first, EntryCells(NewImage(p, bootAt), 0))
  BY <1>2 DEF HeaderPart, TablePart
<1>6. /\ r1.offset = 0 /\ r1.len = 8 /\ r1.cells = HeaderCells(p.header)
      /\ r2.offset = at /\ r2.len = l /\ r2.cells = TableCells(img, h)
      /\ r3.offset = first /\ r3.len = 4 /\ r3.cells = EntryCells(NewImage(p, bootAt), 0)
  <2>1. DOMAIN HeaderCells(p.header) = 0 .. 8 - 1
    BY DEF HeaderCells, Cells
  <2>2. DOMAIN TableCells(img, h) = 0 .. l - 1
    BY <1>2 DEF TableCells
  <2>3. DOMAIN EntryCells(NewImage(p, bootAt), 0) = 0 .. 4 - 1
    BY DEF EntryCells, Cells
  <2>5. r1.offset = 0 /\ r1.len = 8 /\ r1.cells = HeaderCells(p.header)
    <3>1. PICK e \in Nat, x \in Nat : e = 8 /\ x = 0
      OBVIOUS
    <3>2. PICK c : c = HeaderCells(p.header) /\ DOMAIN c = 0 .. e - 1
      BY <2>1, <3>1
    <3>4. DOMAIN c = 0 .. e - 1
      BY <3>2
    <3>3. /\ wim_construct_region(x, c).offset = x /\ wim_construct_region(x, c).len = e
          /\ wim_construct_region(x, c).cells = c
      BY <3>4, RegionFits
    <3> QED
      BY <1>5, <3>1, <3>2, <3>3
  <2>6. r2.offset = at /\ r2.len = l /\ r2.cells = TableCells(img, h)
    <3>1. PICK e \in Nat, x \in Nat : e = l /\ x = at
      OBVIOUS
    <3>2. PICK c : c = TableCells(img, h) /\ DOMAIN c = 0 .. e - 1
      BY <2>2, <3>1
    <3>4. DOMAIN c = 0 .. e - 1
      BY <3>2
    <3>3. /\ wim_construct_region(x, c).offset = x /\ wim_construct_region(x, c).len = e
          /\ wim_construct_region(x, c).cells = c
      BY <3>4, RegionFits
    <3> QED
      BY <1>5, <3>1, <3>2, <3>3
  <2>7. r3.offset = first /\ r3.len = 4 /\ r3.cells = EntryCells(NewImage(p, bootAt), 0)
    <3>1. PICK e \in Nat, x \in Nat : e = 4 /\ x = first
      OBVIOUS
    <3>2. PICK c : c = EntryCells(NewImage(p, bootAt), 0) /\ DOMAIN c = 0 .. e - 1
      BY <2>3, <3>1
    <3>4. DOMAIN c = 0 .. e - 1
      BY <3>2
    <3>3. /\ wim_construct_region(x, c).offset = x /\ wim_construct_region(x, c).len = e
          /\ wim_construct_region(x, c).cells = c
      BY <3>4, RegionFits
    <3> QED
      BY <1>5, <3>1, <3>2, <3>3
  <2> QED
    BY <2>5, <2>6, <2>7
<1>7. /\ Len(s1) = 1 /\ s1[1] = r1
      /\ Len(s3) = 2 /\ s3[1] = r2 /\ s3[2] = r3
      /\ AllAbove(s3, at)
  <2>1. Len(s1) = 1 /\ s1[1] = r1 /\ Len(s3) = 2 /\ s3[1] = r2 /\ s3[2] = r3
    BY <1>5
  <2>2. \A k \in 1 .. 2 : k = 1 \/ k = 2
    OBVIOUS
  <2>3. r2.offset >= at /\ r3.offset >= at
    BY <1>3, <1>6
  <2> QED
    BY <2>1, <2>2, <2>3 DEF AllAbove
<1> DEFINE W(x) == Painted(p.regions, x, u)
           upTo1(x) == Painted(s1, x, u)
           upTo2(x) == Painted(s2, x, upTo1(x))
           upTo3(x) == Painted(s3, x, upTo2(x))
           upTo4(x) == Painted(s4, x, upTo3(x))
<1> HIDE DEF s1, s3
<1>8. ASSUME NEW x \in Int PROVE W(x) = Painted(s6, x, Painted(s5, x, upTo4(x)))
  <2>1. Painted(s1 \o s2 \o s3 \o s4 \o s5 \o s6, x, u) =
          Painted(s6, x, Painted(s5, x, Painted(s4, x,
            Painted(s3, x, Painted(s2, x, Painted(s1, x, u))))))
    <3>1. AllFit(s1) /\ AllFit(s2) /\ AllFit(s3) /\ AllFit(s4) /\ AllFit(s5) /\ AllFit(s6)
      BY <1>1
    <3> QED
      BY <3>1, PaintedSix, SMTT(60)
  <2>2. p.regions = s1 \o s2 \o s3 \o s4 \o s5 \o s6
    BY <1>1
  <2> QED
    BY <2>1, <2>2, Zenon
<1>9. ASSUME NEW x \in Int, x < bootAt PROVE W(x) = upTo4(x)
  <2> HIDE DEF upTo4
  <2>1. Painted(s5, x, upTo4(x)) = upTo4(x)
    BY <1>1, <1>9, PaintedAbove
  <2>2. Painted(s6, x, upTo4(x)) = upTo4(x)
    BY <1>1, <1>9, PaintedAbove
  <2> QED
    BY <1>8, <2>1, <2>2
<1> HIDE DEF W
<1>10. ASSUME NEW x \in Int, x < first + 4 PROVE W(x) = upTo3(x)
  <2> HIDE DEF upTo3
  <2>1. x < bootAt
    BY <1>3, <1>10
  <2>2. PICK y \in Int : y = first + 4
    OBVIOUS
  <2>3. Painted(s4, x, upTo3(x)) = upTo3(x)
    BY <1>1, <1>4, <1>10, <2>2, PaintedAbove
  <2> QED
    BY <1>9, <2>1, <2>3
<1>11. ASSUME NEW x \in 0 .. HeaderLen - 1 PROVE W(x) = HeaderCells(p.header)[x]
  <2>1. x \in Int /\ x \in 0 .. 7 /\ x < Length(img) /\ x < at
    BY <1>1 DEF HeaderLen
  <2>2. W(x) = upTo3(x)
    BY <1>3, <1>10, <2>1
  <2>3. upTo3(x) = upTo2(x)
    <3> HIDE DEF upTo2
    <3> QED
      BY <1>1, <1>7, <2>1, PaintedAbove
  <2>4. upTo2(x) = upTo1(x)
    <3> HIDE DEF upTo1
    <3>1. Length(img) \in Int
      OBVIOUS
    <3> QED
      BY <1>1, <2>1, <3>1, PaintedAbove
  <2>5. Covers(s1[1], x)
    BY <1>6, <1>7, <2>1 DEF Covers
  <2>6. 1 \in 1 .. Len(s1) /\ \A j \in 1 .. Len(s1) : j > 1 => ~Covers(s1[j], x)
    BY <1>7
  <2>7. upTo1(x) = s1[1].cells[x - s1[1].offset]
    BY <1>1, <2>1, <2>5, <2>6, PaintedLast
  <2>8. x - 0 = x
    BY <2>1
  <2> HIDE DEF upTo1, upTo2, upTo3
  <2> QED
    BY <1>6, <1>7, <2>2, <2>3, <2>4, <2>7, <2>8
<1>12. ASSUME NEW x \in 0 .. h.lookup.len - 1 PROVE W(at + x) = TableCells(img, h)[x]
  <2>1. PICK y \in Int : y = at + x /\ y < first /\ y \in at .. at + l - 1 /\ y - at = x
    BY <1>2
  <2>2. W(y) = upTo3(y)
    BY <1>10, <2>1
  <2>3. Covers(s3[1], y) /\ ~Covers(s3[2], y)
    BY <1>6, <1>7, <2>1 DEF Covers
  <2>4. 1 \in 1 .. Len(s3) /\ \A j \in 1 .. Len(s3) : j > 1 => ~Covers(s3[j], y)
    <3>1. \A j \in 1 .. 2 : j > 1 => j = 2
      OBVIOUS
    <3> QED
      BY <1>7, <2>3, <3>1
  <2>5. upTo3(y) = s3[1].cells[y - s3[1].offset]
    <3> HIDE DEF upTo2
    <3> QED
      BY <1>1, <2>3, <2>4, PaintedLast
  <2> HIDE DEF upTo3
  <2> QED
    BY <1>6, <1>7, <2>1, <2>2, <2>5
<1>13. ASSUME NEW x \in 0 .. EntryLen - 1
       PROVE  W((at + h.lookup.len) + x) = EntryCells(NewImage(p, bootAt), 0)[x]
  <2>6. x \in 0 .. 3
    BY DEF EntryLen
  <2>7. PICK z \in Int : z = first + x
    BY <2>6
  <2>8. z < first + 4 /\ z \in first .. first + 4 - 1 /\ z - first = x
    BY <2>6, <2>7
  <2>9. z = (at + h.lookup.len) + x
    BY <1>2, <2>7
  <2>1. PICK y \in Int : y = first + x /\ y < first + 4 /\ y \in first .. first + 4 - 1
                         /\ y - first = x /\ y = (at + h.lookup.len) + x
    BY <2>7, <2>8, <2>9
  <2>2. W(y) = upTo3(y)
    BY <1>10, <2>1
  <2>3. Covers(s3[2], y)
    BY <1>6, <1>7, <2>1 DEF Covers
  <2>4. 2 \in 1 .. Len(s3) /\ \A j \in 1 .. Len(s3) : j > 2 => ~Covers(s3[j], y)
    BY <1>7
  <2>5. upTo3(y) = s3[2].cells[y - s3[2].offset]
    <3> HIDE DEF upTo2
    <3> QED
      BY <1>1, <2>3, <2>4, PaintedLast
  <2> HIDE DEF upTo3
  <2> QED
    BY <1>6, <1>7, <2>1, <2>2, <2>5
<1>14. ASSUME NEW i \in 1 .. n PROVE W((at + h.lookup.len) + i * EntryLen) = 0
  <2>1. PICK y \in Int : /\ y = first + i * 4 /\ y < bootAt /\ y - y = 0
                         /\ y = (at + h.lookup.len) + i * EntryLen
    BY <1>2, <1>3 DEF EntryLen
  <2>2. W(y) = upTo4(y)
    BY <1>9, <2>1
  <2>3. \A j \in 1 .. n : s4[j].offset = first + j * 4 /\ s4[j].len = 4 /\ s4[j].cells[0] = 0
    BY <1>1, <1>2 DEF FileEntriesAt, EntryLen
  <2>4. Covers(s4[i], y) /\ s4[i].offset = y /\ s4[i].cells[0] = 0
    <3>1. y \in y .. y + 4 - 1
      OBVIOUS
    <3>2. s4[i].offset = y /\ s4[i].len = 4
      BY <2>1, <2>3
    <3> QED
      BY <2>3, <3>1, <3>2 DEF Covers
  <2>5. ASSUME NEW j \in 1 .. n, j > i PROVE ~Covers(s4[j], y)
    <3>1. PICK o \in Int : o = s4[j].offset /\ o > y
      BY <2>1, <2>3, <2>5
    <3> QED
      BY <2>3, <3>1 DEF Covers
  <2>6. i \in 1 .. Len(s4) /\ \A j \in 1 .. Len(s4) : j > i => ~Covers(s4[j], y)
    BY <1>1, <2>5 DEF FileEntriesAt
  <2>7. upTo4(y) = s4[i].cells[y - s4[i].offset]
    <3> HIDE DEF upTo3
    <3> QED
      BY <1>1, <2>4, <2>6, PaintedLast
  <2> HIDE DEF upTo4
  <2> QED
    BY <2>1, <2>2, <2>4, <2>7
<1> QED
  BY <1>11, <1>12, <1>13, <1>14 DEF W, CellsInjected

\* The files injected are files of the disk.
LEMMA InjectedFit ==
  ASSUME NEW T, wim_files \in Seq(T), \A f \in T : f.inject \in BOOLEAN
  PROVE  injected \in Seq(T)
<1> DEFINE m == Len(wim_files)
           Is(f) == f = [i \in 0 .. m |->
                           IF i = 0 THEN << >>
                           ELSE IF wim_files[i].inject THEN Append(f[i - 1], wim_files[i])
                           ELSE f[i - 1]]
           upTo == CHOOSE f : Is(f)
           g == [i \in 1 .. m |-> [s \in Seq(T) |-> IF wim_files[i].inject
                                                   THEN Append(s, wim_files[i]) ELSE s]]
<1>1. injected = upTo[m]
  BY DEF injected
<1>2. m \in Nat /\ \A i \in 1 .. m : wim_files[i] \in T
  OBVIOUS
<1> HIDE DEF m
<1>3. \A i \in 1 .. m : g[i] \in [Seq(T) -> Seq(T)]
  BY <1>2
<1>4. PICK f \in [0 .. m -> Seq(T)] : LoopIs(f, m, << >>, g)
  <2>1. << >> \in Seq(T)
    OBVIOUS
  <2> HIDE DEF g
  <2> QED
    BY <1>2, <1>3, <2>1, LoopExists
<1>5. ASSUME NEW i \in 0 .. m
      PROVE  (IF i = 0 THEN << >> ELSE g[i][f[i - 1]]) =
             IF i = 0 THEN << >>
             ELSE IF wim_files[i].inject THEN Append(f[i - 1], wim_files[i]) ELSE f[i - 1]
  <2>1. CASE i = 0
    BY <2>1
  <2>2. CASE i # 0
    <3>1. i \in 1 .. m /\ f[i - 1] \in Seq(T)
      BY <1>2, <1>4, <2>2
    <3>2. g[i][f[i - 1]] = IF wim_files[i].inject THEN Append(f[i - 1], wim_files[i]) ELSE f[i - 1]
      BY <3>1
    <3> QED
      BY <2>2, <3>2
  <2> QED
    BY <2>1, <2>2
<1>6. f = [i \in 0 .. m |-> IF i = 0 THEN << >> ELSE g[i][f[i - 1]]]
  BY <1>4 DEF LoopIs
<1>7. Is(upTo)
  <2> HIDE DEF g
  <2>1. Is(f)
    BY <1>5, <1>6
  <2> QED
    BY <2>1
<1> HIDE DEF upTo, g
<1>8. \A i \in 0 .. m : upTo[i] = IF i = 0 THEN << >>
                                 ELSE IF wim_files[i].inject THEN Append(upTo[i - 1], wim_files[i])
                                 ELSE upTo[i - 1]
  BY <1>7
<1> DEFINE K == {k \in Nat : k <= m => upTo[k] \in Seq(T)}
<1>9. 0 \in K
  <2>3. 0 \in 0 .. m
    BY <1>2
  <2>1. upTo[0] = << >>
    BY <1>8, <2>3
  <2>2. << >> \in Seq(T)
    OBVIOUS
  <2> QED
    BY <2>1, <2>2
<1>10. ASSUME NEW k \in Nat, k \in K PROVE k + 1 \in K
  <2>1. SUFFICES ASSUME k + 1 <= m PROVE upTo[k + 1] \in Seq(T)
    OBVIOUS
  <2>2. PICK i \in 1 .. m : i = k + 1 /\ i - 1 = k /\ i \in 0 .. m /\ i # 0
    BY <1>2, <2>1
  <2>3. upTo[k] \in Seq(T)
    BY <1>10, <1>2, <2>1
  <2>4. upTo[i] = IF wim_files[i].inject THEN Append(upTo[k], wim_files[i]) ELSE upTo[k]
    BY <1>8, <2>2
  <2>5. wim_files[i] \in T
    BY <1>2
  <2>6. CASE wim_files[i].inject
    BY <2>2, <2>3, <2>4, <2>5, <2>6
  <2>7. CASE ~wim_files[i].inject
    BY <2>2, <2>3, <2>4, <2>7
  <2> QED
    BY <2>6, <2>7
<1>11. m \in K
  <2> HIDE DEF K
  <2> QED
    BY <1>2, <1>9, <1>10, SetInduction
<1> QED
  BY <1>1, <1>2, <1>11
---------------------------------------------------------------------------
(* Lookup tables.                                                          *)

Metas(img, h) == {k \in Entries(h) : IsMetadata(LookupEntry(img, h, k))}

\* A table of q whole entries.
LEMMA EntriesAre ==
  ASSUME NEW h, NEW q \in Nat, h.lookup.len = q * EntryLen
  PROVE  Entries(h) = 0 .. q - 1
<1>1. PICK l \in Nat : l = h.lookup.len /\ l = q * 4
  BY DEF EntryLen
<1>2. ASSUME NEW k \in 0 .. l PROVE (k + 1) * 4 <= l <=> k \in 0 .. q - 1
  BY <1>1
<1>3. ASSUME NEW k \in 0 .. q - 1 PROVE k \in 0 .. l
  BY <1>1
<1> QED
  BY <1>1, <1>2, <1>3 DEF Entries, EntryLen

LEMMA ReadableTable ==
  ASSUME NEW img, Length(img) \in Nat, NEW h, h.lookup.offset \in Nat,
         NEW q \in Nat, h.lookup.len = q * EntryLen
  PROVE  Unreadable(img, h) <=> q # 0 /\ h.lookup.offset + h.lookup.len > Length(img)
<1>1. PICK l \in Nat : l = h.lookup.len /\ l = q * 4
  BY DEF EntryLen
<1>2. Entries(h) = 0 .. q - 1
  BY EntriesAre
<1>3. ASSUME NEW k \in 0 .. q - 1
      PROVE  ReadCells(img, h.lookup, k * EntryLen, EntryLen) = {}
               <=> h.lookup.offset + h.lookup.len > Length(img)
  <2>1. ~(k * 4 + 4 > l)
    BY <1>1
  <2> QED
    BY <1>1, <2>1 DEF ReadCells, EntryLen
<1>4. q # 0 => 0 \in 0 .. q - 1
  OBVIOUS
<1> QED
  BY <1>2, <1>3, <1>4 DEF Unreadable

\* What is counted.
LEMMA CountIs ==
  ASSUME NEW img, NEW h, NEW q \in Nat, Entries(h) = 0 .. q - 1, NEW c \in wim_count(img, h)
  PROVE  /\ ~Unreadable(img, h)
         /\ IsFiniteSet(Metas(img, h)) /\ c = Cardinality(Metas(img, h)) /\ c \in Nat
<1>1. ~Unreadable(img, h) /\ c = Cardinality(Metas(img, h))
  BY DEF wim_count, Metas
<1>2. IsFiniteSet(0 .. q - 1)
  BY FS_Interval
<1>3. Metas(img, h) \subseteq 0 .. q - 1
  BY DEF Metas
<1>4. IsFiniteSet(Metas(img, h))
  BY <1>2, <1>3, FS_Subset
<1> QED
  BY <1>1, <1>4, FS_CardinalityType

\* The metadata up to an entry, as a set.
LEMMA FoundIs ==
  ASSUME NEW img, NEW h, NEW k
  PROVE  Found(img, h, k) = Cardinality({j \in Metas(img, h) : j <= k})
<1>1. {j \in Entries(h) : j <= k /\ IsMetadata(LookupEntry(img, h, j))} =
        {j \in Metas(img, h) : j <= k}
  BY DEF Metas
<1> QED
  BY <1>1 DEF Found

\* No number is that of two images.
LEMMA FoundOnce ==
  ASSUME NEW img, NEW h, IsFiniteSet(Metas(img, h)), Metas(img, h) \subseteq Nat,
         NEW j \in Metas(img, h), NEW k \in Metas(img, h), j < k
  PROVE  Found(img, h, j) < Found(img, h, k)
<1> DEFINE M == Metas(img, h)
           upTo(i) == {m \in M : m <= i}
<1>1. IsFiniteSet(upTo(j)) /\ IsFiniteSet(upTo(k))
  BY FS_Subset
<1>2. upTo(j) \subseteq upTo(k) /\ k \in upTo(k) /\ k \notin upTo(j)
  OBVIOUS
<1>3. upTo(j) # upTo(k)
  BY <1>2
<1>4. Cardinality(upTo(j)) < Cardinality(upTo(k))
  <2> HIDE DEF upTo
  <2>1. Cardinality(upTo(j)) <= Cardinality(upTo(k)) /\ Cardinality(upTo(j)) # Cardinality(upTo(k))
    BY <1>1, <1>2, <1>3, FS_Subset
  <2> QED
    BY <1>1, <2>1, FS_CardinalityType
<1> QED
  BY <1>4, FoundIs

LEMMA FoundWithin ==
  ASSUME NEW img, NEW h, IsFiniteSet(Metas(img, h)), NEW k
  PROVE  Found(img, h, k) \in Nat /\ Found(img, h, k) <= Cardinality(Metas(img, h))
<1>1. PICK U : U = {j \in Metas(img, h) : j <= k} /\ U \subseteq Metas(img, h)
  OBVIOUS
<1> QED
  BY <1>1, FoundIs, FS_Subset, FS_CardinalityType

\* An image's table in another image.
SameTable(img, at, b, o, q) == \A x \in 0 .. q * EntryLen - 1 : img[at + x] = b[o + x]

LEMMA SameEntry ==
  ASSUME NEW img, NEW b, NEW g, NEW h, NEW at \in Nat, g.lookup.offset = at,
         NEW o \in Nat, h.lookup.offset = o, NEW q \in Nat, NEW k \in 0 .. q - 1,
         SameTable(img, at, b, o, q)
  PROVE  LookupEntry(img, g, k) = LookupEntry(b, h, k)
<1>1. PICK z \in Nat : z = k * 4 /\ z + 3 <= q * 4 - 1
  OBVIOUS
<1>2. \A d \in 0 .. 3 : img[at + (z + d)] = b[o + (z + d)]
  <2>1. \A d \in 0 .. 3 : z + d \in 0 .. q * 4 - 1
    BY <1>1
  <2> QED
    BY <2>1 DEF EntryLen, SameTable
<1>3. \A d \in 0 .. 3 : img[(at + z) + d] = b[(o + z) + d]
  <2>1. \A d \in 0 .. 3 : (at + z) + d = at + (z + d) /\ (o + z) + d = o + (z + d)
    OBVIOUS
  <2> QED
    BY <1>2, <2>1
<1>4. /\ img[at + z] = b[o + z] /\ img[(at + z) + 1] = b[(o + z) + 1]
      /\ img[(at + z) + 2] = b[(o + z) + 2] /\ img[(at + z) + 3] = b[(o + z) + 3]
  <2>1. (at + z) + 0 = at + z /\ (o + z) + 0 = o + z
    OBVIOUS
  <2> QED
    BY <1>3, <2>1
<1> QED
  BY <1>1, <1>4 DEF LookupEntry, EntryLen

\* One more image, and files behind it.
LEMMA TableGrown ==
  ASSUME NEW b, NEW h, NEW img, NEW g, NEW q \in Nat, NEW n \in Nat,
         Entries(h) = 0 .. q - 1, Entries(g) = 0 .. q + n,
         \A k \in 0 .. q - 1 : LookupEntry(img, g, k) = LookupEntry(b, h, k),
         IsMetadata(LookupEntry(img, g, q)),
         \A k \in q + 1 .. q + n : ~IsMetadata(LookupEntry(img, g, k)),
         ~Unreadable(img, g), NEW c \in wim_count(b, h)
  PROVE  /\ c \in Nat /\ wim_count(img, g) = {c + 1}
         /\ wim_metadata(img, g, c + 1) = {AsResource(LookupEntry(img, g, q))}
<1> DEFINE M == Metas(b, h)
           N == Metas(img, g)
<1>1. IsFiniteSet(M) /\ c = Cardinality(M) /\ c \in Nat
  BY CountIs
<1>2. M \subseteq 0 .. q - 1
  BY DEF Metas
<1>3. N = M \cup {q}
  <2>1. \A k \in 0 .. q + n : k \in 0 .. q - 1 \/ k = q \/ k \in q + 1 .. q + n
    OBVIOUS
  <2>2. q \in 0 .. q + n /\ \A k \in 0 .. q - 1 : k \in 0 .. q + n
    OBVIOUS
  <2>3. \A k \in 0 .. q - 1 : k \in M <=> k \in N
    BY <2>2 DEF Metas
  <2>4. q \in N
    BY <2>2 DEF Metas
  <2>5. \A k \in q + 1 .. q + n : k \notin N
    BY DEF Metas
  <2>6. N \subseteq 0 .. q + n
    BY DEF Metas
  <2> HIDE DEF M, N
  <2> QED
    BY <1>2, <2>1, <2>3, <2>4, <2>5, <2>6
<1>4. q \notin M
  BY <1>2
<1> HIDE DEF M, N
<1>5. IsFiniteSet(N) /\ Cardinality(N) = c + 1
  BY <1>1, <1>3, <1>4, FS_AddElement
<1>6. wim_count(img, g) = {c + 1}
  <2>1. wim_count(img, g) = {Cardinality(Metas(img, g))}
    BY Zenon DEF wim_count, Metas
  <2> QED
    BY <1>5, <2>1 DEF N
<1>7. Found(img, g, q) = c + 1
  <2>2. \A j \in N : j <= q
    <3>1. \A j \in 0 .. q - 1 : j <= q
      OBVIOUS
    <3>2. q <= q
      OBVIOUS
    <3> QED
      BY <1>2, <1>3, <3>1, <3>2
  <2>1. {j \in N : j <= q} = N
    BY <2>2
  <2> QED
    BY <1>5, <2>1, FoundIs DEF N
<1>8. ASSUME NEW j \in M PROVE Found(img, g, j) # c + 1
  <2>1. j < q /\ j \in N /\ q \in N /\ N \subseteq Nat
    BY <1>2, <1>3
  <2>2. Found(img, g, j) < Found(img, g, q)
    BY <1>5, <2>1, FoundOnce DEF N
  <2>3. Found(img, g, j) \in Nat
    BY <1>5, FoundWithin DEF N
  <2> QED
    BY <1>1, <1>7, <2>2, <2>3
<1>9. {k \in N : Found(img, g, k) = c + 1} = {q}
  BY <1>3, <1>7, <1>8
<1>10. wim_metadata(img, g, c + 1) =
         {AsResource(LookupEntry(img, g, k)) : k \in {k \in N : Found(img, g, k) = c + 1}}
  <2>1. c + 1 # 0
    BY <1>1
  <2>2. {j \in Entries(g) : /\ IsMetadata(LookupEntry(img, g, j)) /\ Found(img, g, j) = c + 1} =
          {k \in N : Found(img, g, k) = c + 1}
    BY DEF N, Metas
  <2> QED
    BY <2>1, <2>2 DEF wim_metadata
<1>11. wim_metadata(img, g, c + 1) = {AsResource(LookupEntry(img, g, q))}
  BY <1>9, <1>10
<1> QED
  BY <1>1, <1>6, <1>11

\* What a patch's header is read back as.
IsHeaderRecord(g) ==
  /\ g = [lookup |-> g.lookup, images |-> g.images, boot |-> g.boot, boot_index |-> g.boot_index]
  /\ g.lookup = [flags |-> g.lookup.flags, offset |-> g.lookup.offset, len |-> g.lookup.len]
  /\ g.boot = [flags |-> g.boot.flags, offset |-> g.boot.offset, len |-> g.boot.len]

LEMMA HeaderBack ==
  ASSUME NEW img, Length(img) \in Nat, Length(img) >= HeaderLen, NEW g, IsHeaderRecord(g),
         \A x \in 0 .. HeaderLen - 1 : img[x] = HeaderCells(g)[x]
  PROVE  wim_header(img) = {g}
<1>1. \A x \in 0 .. 7 : img[x] = HeaderCells(g)[x]
  BY DEF HeaderLen
<1>2. PICK s : s = <<g.lookup.flags, g.lookup.offset, g.lookup.len, g.images,
                     g.boot.flags, g.boot.offset, g.boot.len, g.boot_index>>
  OBVIOUS
<1>3. HeaderCells(g) = [i \in 0 .. 7 |-> s[i + 1]]
  BY <1>2 DEF HeaderCells, Cells
<1>4. /\ img[0] = s[1] /\ img[1] = s[2] /\ img[2] = s[3] /\ img[3] = s[4]
      /\ img[4] = s[5] /\ img[5] = s[6] /\ img[6] = s[7] /\ img[7] = s[8]
  BY <1>1, <1>3
<1>5. /\ img[0] = g.lookup.flags /\ img[0 + 1] = g.lookup.offset /\ img[0 + 2] = g.lookup.len
      /\ img[3] = g.images
      /\ img[4] = g.boot.flags /\ img[4 + 1] = g.boot.offset /\ img[4 + 2] = g.boot.len
      /\ img[7] = g.boot_index
  BY <1>2, <1>4
<1>6. Resource(img, 0) = g.lookup /\ Resource(img, 4) = g.boot
  BY <1>5 DEF Resource, IsHeaderRecord
<1>7. ~(HeaderLen > Length(img))
  BY DEF HeaderLen
<1>8. g = [lookup |-> Resource(img, 0), images |-> img[3], boot |-> Resource(img, 4), boot_index |-> img[7]]
  BY <1>5, <1>6 DEF IsHeaderRecord
<1> QED
  BY <1>7, <1>8 DEF wim_header

---------------------------------------------------------------------------
(* BootConsistent.                                                         *)

\* The header with the image chosen, and the patch the image of number k gets.
WithIndex(h, boot, k) == IF k = 0 THEN h ELSE [h EXCEPT !.boot = boot, !.boot_index = k]

IsHeaderOnly(img, p, g) == p.header = g /\ p.end = Length(img) /\ p.regions = HeaderPart(p)

Injects(img, p, g) ==
  \E c \in wim_count(img, g) : \E n, at, bootAt \in Nat : \E s2, s4, s5, s6 :
    IsInjection(img, p, g, c, n, at, bootAt, s2, s4, s5, s6)

Built(img, k, p) ==
  /\ p.end \in Nat /\ AllFit(p.regions)
  /\ \E h \in wim_header(img) : \E boot \in wim_metadata(img, h, k) :
       \/ IsHeaderOnly(img, p, WithIndex(h, boot, k))
       \/ Injects(img, p, WithIndex(h, boot, k))

\* The header says of an image what is in its table.
Consistent(img, end) ==
  \E g : /\ wim_header(img) = {g}
         /\ wim_metadata(img, g, g.boot_index) = {g.boot} /\ g.boot_index <= g.images
         /\ wim_count(img, g) = {g.images}
         /\ g.boot.offset + g.boot.len <= end

LEMMA InjectsConsistent ==
  ASSUME NEW b, Length(b) \in Nat, Length(b) >= HeaderLen, NEW p, p.end \in Nat,
         NEW g, IsHeader(g), NEW q \in Nat, g.lookup.len = q * EntryLen, Injects(b, p, g),
         NEW img, DOMAIN img = 0 .. p.end - 1,
         \A x \in 0 .. p.end - 1 : \E u : img[x] = Painted(p.regions, x, u)
  PROVE  Consistent(img, p.end)
<1>1. PICK c \in wim_count(b, g) : \E n, at, bootAt \in Nat : \E s2, s4, s5, s6 :
          IsInjection(b, p, g, c, n, at, bootAt, s2, s4, s5, s6)
  BY DEF Injects
<1>2. PICK n \in Nat, at \in Nat, bootAt \in Nat : \E s2, s4, s5, s6 :
          IsInjection(b, p, g, c, n, at, bootAt, s2, s4, s5, s6)
  BY <1>1
<1>3. PICK s2, s4, s5, s6 : IsInjection(b, p, g, c, n, at, bootAt, s2, s4, s5, s6)
  BY <1>2
<1>4. /\ p.header = NewHeader(NewTable(g, n, at), NewImage(p, bootAt), c)
      /\ Length(b) <= at /\ at + TableLen(g, n) <= bootAt /\ bootAt <= p.end
  BY <1>3 DEF IsInjection
<1>5. PICK l \in Nat, o \in Nat : l = g.lookup.len /\ l = q * 4 /\ o = g.lookup.offset
  BY DEF IsHeader, IsResource, EntryLen
<1>6. PICK first \in Nat : first = at + q * 4 /\ first = at + g.lookup.len
  BY <1>5
<1>7. PICK t \in Nat : /\ t = TableLen(g, n) /\ t = ((q + n) + 1) * 4
                      /\ at + t <= p.end /\ at + t = first + (n + 1) * 4
  BY <1>4, <1>5, <1>6 DEF TableLen, EntryLen
<1>8. PICK e \in Nat : e = p.end
  OBVIOUS
<1>9. Length(img) = e
  BY <1>8, LengthIs
<1>10. \A u : CellsInjected(b, p, g, n, at, bootAt, u)
  <2>1. g.lookup.len \in Nat
    BY <1>5
  <2> QED
    BY <1>3, <2>1, InjectedCells
<1>11. \A x \in 0 .. HeaderLen - 1 : img[x] = HeaderCells(p.header)[x]
  <2>2. at >= 8 /\ at + t <= e
    BY <1>4, <1>7, <1>8 DEF HeaderLen
  <2>3. e >= 8
    BY <2>2
  <2>4. \A x \in 0 .. 7 : x \in 0 .. e - 1
    BY <2>3
  <2>1. \A x \in 0 .. HeaderLen - 1 : x \in 0 .. p.end - 1
    BY <1>8, <2>4 DEF HeaderLen
  <2> QED
    BY <1>10, <2>1 DEF CellsInjected
<1>12. SameTable(img, at, b, o, q)
  <2> SUFFICES ASSUME NEW x \in 0 .. q * EntryLen - 1 PROVE img[at + x] = b[o + x]
    BY DEF SameTable
  <2>1. x \in 0 .. g.lookup.len - 1 /\ x \in 0 .. q * 4 - 1
    BY <1>5 DEF EntryLen
  <2>2. at + x \in 0 .. p.end - 1
    BY <1>6, <1>7, <1>8, <2>1
  <2>3. TableCells(b, g)[x] = b[o + x]
    BY <1>5, <2>1 DEF TableCells
  <2> QED
    BY <1>10, <2>1, <2>2, <2>3 DEF CellsInjected
<1>13. \A x \in 0 .. 3 : img[first + x] = EntryCells(NewImage(p, bootAt), 0)[x]
  <2> SUFFICES ASSUME NEW x \in 0 .. 3
               PROVE  img[first + x] = EntryCells(NewImage(p, bootAt), 0)[x]
    OBVIOUS
  <2>1. first + x \in 0 .. p.end - 1
    BY <1>6, <1>7, <1>8
  <2>2. x \in 0 .. EntryLen - 1
    BY DEF EntryLen
  <2>3. \A u : Painted(p.regions, first + x, u) = EntryCells(NewImage(p, bootAt), 0)[x]
    BY <1>6, <1>10, <2>2 DEF CellsInjected
  <2> QED
    BY <2>1, <2>3
<1>14. \A i \in 1 .. n : img[first + i * 4] = 0
  <2> SUFFICES ASSUME NEW i \in 1 .. n PROVE img[first + i * 4] = 0
    OBVIOUS
  <2>1. first + i * 4 \in 0 .. p.end - 1
    BY <1>6, <1>7, <1>8
  <2>2. \A u : Painted(p.regions, first + i * 4, u) = 0
    BY <1>6, <1>10 DEF EntryLen, CellsInjected
  <2> QED
    BY <2>1, <2>2
<1> DEFINE G == p.header
<1>15. /\ G.lookup = NewTable(g, n, at) /\ G.boot = NewImage(p, bootAt)
       /\ G.images = c + 1 /\ G.boot_index = c + 1
       /\ IsHeaderRecord(G)
  BY <1>4 DEF NewHeader, IsHeaderRecord, NewTable, NewImage
<1> HIDE DEF G
<1>16. wim_header(img) = {G}
  <2>1. Length(img) \in Nat /\ Length(img) >= HeaderLen
    BY <1>4, <1>7, <1>8, <1>9 DEF HeaderLen
  <2> QED
    BY <1>11, <1>15, <2>1, HeaderBack DEF G
<1>17. G.lookup.offset = at /\ G.lookup.len = t
  <2>1. G.lookup.offset = at /\ G.lookup.len = TableLen(g, n)
    BY <1>15 DEF NewTable
  <2> QED
    BY <1>7, <2>1
<1>18. Entries(g) = 0 .. q - 1
  BY EntriesAre
<1>19. Entries(G) = 0 .. q + n
  <2>1. PICK z \in Nat : z = (q + n) + 1 /\ t = z * EntryLen /\ z - 1 = q + n
    BY <1>7 DEF EntryLen
  <2>2. Entries(G) = 0 .. z - 1
    BY <1>17, <2>1, EntriesAre
  <2> QED
    BY <2>1, <2>2
<1>20. \A k \in 0 .. q - 1 : LookupEntry(img, G, k) = LookupEntry(b, g, k)
  <2>1. G.lookup.offset = at
    BY <1>17
  <2>2. g.lookup.offset = o
    BY <1>5
  <2> SUFFICES ASSUME NEW k \in 0 .. q - 1 PROVE LookupEntry(img, G, k) = LookupEntry(b, g, k)
    OBVIOUS
  <2> QED
    BY <1>12, <2>1, <2>2, SameEntry
<1>21. LookupEntry(img, G, q) = [flags |-> Metadata, offset |-> bootAt, len |-> p.end - bootAt, hash |-> 0]
  <2>1. PICK s : s = <<Metadata, bootAt, p.end - bootAt, 0>>
    OBVIOUS
  <2>2. EntryCells(NewImage(p, bootAt), 0) = [i \in 0 .. 3 |-> s[i + 1]]
    BY <2>1 DEF EntryCells, Cells, NewImage
  <2>3. /\ img[first + 0] = s[1] /\ img[first + 1] = s[2] /\ img[first + 2] = s[3] /\ img[first + 3] = s[4]
    BY <1>13, <2>2
  <2>4. /\ img[first] = Metadata /\ img[first + 1] = bootAt /\ img[first + 2] = p.end - bootAt
        /\ img[first + 3] = 0
    BY <2>1, <2>3
  <2>5. G.lookup.offset + q * EntryLen = first
    BY <1>6, <1>17 DEF EntryLen
  <2> QED
    BY <2>4, <2>5 DEF LookupEntry
<1>22. IsMetadata(LookupEntry(img, G, q)) /\ AsResource(LookupEntry(img, G, q)) = G.boot
  BY <1>15, <1>21 DEF IsMetadata, AsResource, NewImage
<1>23. ASSUME NEW k \in q + 1 .. q + n PROVE ~IsMetadata(LookupEntry(img, G, k))
  <2>1. PICK i \in 1 .. n : i = k - q
    OBVIOUS
  <2>2. at + k * 4 = first + i * 4
    BY <1>6, <2>1
  <2>3. G.lookup.offset + k * EntryLen = first + i * 4
    BY <1>17, <2>2 DEF EntryLen
  <2>4. LookupEntry(img, G, k).flags = 0
    BY <1>14, <2>3 DEF LookupEntry
  <2> QED
    BY <2>4 DEF IsMetadata, Metadata
<1>24. ~Unreadable(img, G)
  <2>1. PICK z \in Nat : z = (q + n) + 1 /\ t = z * EntryLen
    BY <1>7 DEF EntryLen
  <2>2. ~(at + t > e)
    BY <1>7, <1>8
  <2>3. Length(img) \in Nat /\ G.lookup.offset \in Nat /\ G.lookup.len = z * EntryLen
    BY <1>9, <1>17, <2>1
  <2>4. Unreadable(img, G) <=> z # 0 /\ G.lookup.offset + G.lookup.len > Length(img)
    BY <2>3, ReadableTable
  <2> QED
    BY <1>9, <1>17, <2>2, <2>4
<1>25. /\ c \in Nat /\ wim_count(img, G) = {c + 1}
       /\ wim_metadata(img, G, c + 1) = {AsResource(LookupEntry(img, G, q))}
  BY <1>18, <1>19, <1>20, <1>22, <1>23, <1>24, TableGrown
<1>26. G.boot.offset + G.boot.len <= p.end
  <2>1. G.boot.offset = bootAt /\ G.boot.len = e - bootAt
    BY <1>8, <1>15 DEF NewImage
  <2>2. bootAt + (e - bootAt) <= e
    OBVIOUS
  <2> QED
    BY <1>8, <2>1, <2>2
<1>27. G.boot_index <= G.images
  BY <1>15, <1>25
<1> QED
  BY <1>15, <1>16, <1>22, <1>25, <1>26, <1>27 DEF Consistent

\* A table read alike in two images says the same.
LEMMA TableKept ==
  ASSUME NEW b, NEW h, NEW img, NEW g, Entries(g) = Entries(h),
         \A k \in Entries(h) : LookupEntry(img, g, k) = LookupEntry(b, h, k),
         ~Unreadable(b, h), ~Unreadable(img, g)
  PROVE  /\ wim_count(img, g) = wim_count(b, h)
         /\ \A k : k # 0 => wim_metadata(img, g, k) = wim_metadata(b, h, k)
<1>1. Metas(img, g) = Metas(b, h)
  BY DEF Metas
<1>2. wim_count(img, g) = {Cardinality(Metas(img, g))} /\ wim_count(b, h) = {Cardinality(Metas(b, h))}
  BY Zenon DEF wim_count, Metas
<1>3. \A j : Found(img, g, j) = Found(b, h, j)
  BY <1>1, FoundIs
<1>4. ASSUME NEW k, k # 0 PROVE wim_metadata(img, g, k) = wim_metadata(b, h, k)
  <2>1. {j \in Entries(g) : IsMetadata(LookupEntry(img, g, j)) /\ Found(img, g, j) = k} =
          {j \in Entries(h) : IsMetadata(LookupEntry(b, h, j)) /\ Found(b, h, j) = k}
    BY <1>3
  <2>2. PICK J : /\ J = {j \in Entries(h) : IsMetadata(LookupEntry(b, h, j)) /\ Found(b, h, j) = k}
                 /\ J \subseteq Entries(h)
    OBVIOUS
  <2>3. /\ wim_metadata(img, g, k) = {AsResource(LookupEntry(img, g, j)) : j \in J}
        /\ wim_metadata(b, h, k) = {AsResource(LookupEntry(b, h, j)) : j \in J}
    BY <1>4, <2>1, <2>2 DEF wim_metadata
  <2> QED
    BY <2>2, <2>3
<1> QED
  BY <1>1, <1>2, <1>4

\* What ImagesAssumption says of an image and its header.
WellMade(b, h) ==
  /\ h.lookup.offset >= HeaderLen /\ h.lookup.len % EntryLen = 0
  /\ wim_metadata(b, h, h.boot_index) = {h.boot}
  /\ wim_count(b, h) = {h.images} /\ h.boot_index <= h.images
  /\ \A k \in 0 .. h.images : \A m \in wim_metadata(b, h, k) : m.offset + m.len <= Length(b)

LEMMA WholeEntries ==
  ASSUME NEW l \in Nat, l % EntryLen = 0
  PROVE  \E q \in Nat : l = q * EntryLen
<1>1. PICK m \in Nat \ {0} : m = EntryLen
  BY DEF EntryLen
<1>2. PICK q \in Nat : q = l \div m /\ l = m * q + (l % m)
  OBVIOUS
<1>3. l = q * EntryLen
  BY <1>1, <1>2
<1> QED
  BY <1>3

\* The header with the image chosen.
LEMMA IndexChosen ==
  ASSUME NEW b, IsImage(b), NEW h \in wim_header(b), WellMade(b, h), NEW k \in Nat,
         NEW boot \in wim_metadata(b, h, k)
  PROVE  LET g == WithIndex(h, boot, k)
         IN  /\ g.lookup = h.lookup /\ g.images = h.images /\ IsHeaderRecord(g)
             /\ g.boot_index \in Nat
             /\ wim_metadata(b, h, g.boot_index) = {g.boot} /\ g.boot_index <= h.images
             /\ g.boot.offset + g.boot.len <= Length(b)
<1> DEFINE g == WithIndex(h, boot, k)
<1>1. h = [lookup |-> Resource(b, 0), images |-> b[3], boot |-> Resource(b, 4), boot_index |-> b[7]]
      /\ ~(HeaderLen > Length(b))
  BY DEF wim_header
<1>2. IsHeaderRecord(h)
  BY <1>1 DEF IsHeaderRecord, Resource
<1>3. h.boot_index \in Nat /\ h.images \in Nat
  <2>1. 3 \in 0 .. Length(b) - 1 /\ 7 \in 0 .. Length(b) - 1
    BY <1>1 DEF IsImage, HeaderLen
  <2>2. b[3] \in Nat /\ b[7] \in Nat
    BY <2>1 DEF IsImage
  <2> QED
    BY <1>1, <2>2
<1>4. IsHeader(h)
  BY HeaderFits
<1>5. PICK q \in Nat : h.lookup.len = q * EntryLen
  BY <1>4, WholeEntries DEF WellMade, IsHeader, IsResource
<1>6. Entries(h) = 0 .. q - 1
  BY <1>5, EntriesAre
<1>7. CASE k = 0
  <2>1. g = h
    BY <1>7 DEF WithIndex
  <2>2. h.boot_index \in 0 .. h.images /\ h.boot \in wim_metadata(b, h, h.boot_index)
    BY <1>3 DEF WellMade
  <2>3. h.boot.offset + h.boot.len <= Length(b)
    BY <2>2 DEF WellMade
  <2> QED
    BY <1>2, <1>3, <2>1, <2>3 DEF WellMade
<1>8. CASE k # 0
  <2>1. g = [lookup |-> h.lookup, images |-> h.images, boot |-> boot, boot_index |-> k]
    BY <1>1, <1>8 DEF WithIndex
  <2>2. /\ ~Unreadable(b, h) /\ IsFiniteSet(Metas(b, h)) /\ h.images = Cardinality(Metas(b, h))
    <3>1. h.images \in wim_count(b, h)
      BY DEF WellMade
    <3> QED
      BY <1>6, <3>1, CountIs
  <2>3. wim_metadata(b, h, k) = {AsResource(LookupEntry(b, h, j)) : j \in {i \in Metas(b, h) : Found(b, h, i) = k}}
    <3>1. {j \in Entries(h) : IsMetadata(LookupEntry(b, h, j)) /\ Found(b, h, j) = k} =
            {i \in Metas(b, h) : Found(b, h, i) = k}
      BY DEF Metas
    <3> QED
      BY <1>8, <2>2, <3>1 DEF wim_metadata
  <2>4. PICK j \in Metas(b, h) : Found(b, h, j) = k /\ boot = AsResource(LookupEntry(b, h, j))
    BY <2>3
  <2>5. Metas(b, h) \subseteq Nat
    BY <1>6 DEF Metas
  <2>6. ASSUME NEW i \in Metas(b, h), Found(b, h, i) = k PROVE i = j
    <3>1. i < j => Found(b, h, i) < Found(b, h, j)
      BY <2>2, <2>5, FoundOnce
    <3>2. j < i => Found(b, h, j) < Found(b, h, i)
      BY <2>2, <2>5, FoundOnce
    <3>3. i \in Nat /\ j \in Nat
      BY <2>5
    <3> QED
      BY <2>4, <2>6, <3>1, <3>2, <3>3
  <2>7. wim_metadata(b, h, k) = {boot}
    <3>1. {i \in Metas(b, h) : Found(b, h, i) = k} = {j}
      BY <2>4, <2>6
    <3> QED
      BY <2>3, <2>4, <3>1
  <2>8. k <= h.images
    BY <2>2, <2>4, FoundWithin
  <2>9. boot.offset + boot.len <= Length(b)
    <3>1. k \in 0 .. h.images
      BY <1>3, <2>8
    <3> QED
      BY <3>1 DEF WellMade
  <2>10. IsHeaderRecord(g)
    <3>1. boot = [flags |-> boot.flags, offset |-> boot.offset, len |-> boot.len]
      BY <2>4 DEF AsResource
    <3> QED
      BY <1>2, <2>1, <3>1 DEF IsHeaderRecord
  <2> HIDE DEF g
  <2>11. g.lookup = h.lookup /\ g.images = h.images /\ g.boot = boot /\ g.boot_index = k
    BY <2>1
  <2> QED
    BY <2>7, <2>8, <2>9, <2>10, <2>11 DEF g
<1> QED
  BY <1>7, <1>8

LEMMA HeaderOnlyConsistent ==
  ASSUME NEW b, IsImage(b), NEW h \in wim_header(b), WellMade(b, h), NEW k \in Nat,
         NEW boot \in wim_metadata(b, h, k),
         NEW p, AllFit(p.regions), IsHeaderOnly(b, p, WithIndex(h, boot, k)),
         NEW img, DOMAIN img = 0 .. Length(b) - 1,
         \A x \in 0 .. Length(b) - 1 : img[x] = Painted(p.regions, x, b[x])
  PROVE  Consistent(img, Length(b))
<1>1. PICK g : g = WithIndex(h, boot, k)
  OBVIOUS
<1>2. /\ g.lookup = h.lookup /\ g.images = h.images /\ IsHeaderRecord(g) /\ g.boot_index \in Nat
      /\ wim_metadata(b, h, g.boot_index) = {g.boot} /\ g.boot_index <= h.images
      /\ g.boot.offset + g.boot.len <= Length(b)
  BY <1>1, IndexChosen
<1>3. PICK e \in Nat : e = Length(b) /\ e >= 8
  BY DEF IsImage, wim_header, HeaderLen
<1>4. Length(img) = e
  BY <1>3, LengthIs
<1>5. PICK r : /\ r = wim_construct_region(0, HeaderCells(g)) /\ p.regions = <<r>>
  BY <1>1 DEF IsHeaderOnly, HeaderPart
<1>6. r.offset = 0 /\ r.len = 8 /\ r.cells = HeaderCells(g)
  <2>1. PICK w \in Nat, x \in Nat : w = 8 /\ x = 0
    OBVIOUS
  <2>5. DOMAIN HeaderCells(g) = 0 .. 8 - 1
    BY DEF HeaderCells, Cells
  <2>2. PICK c : c = HeaderCells(g) /\ DOMAIN c = 0 .. w - 1
    BY <2>1, <2>5
  <2>3. DOMAIN c = 0 .. w - 1
    BY <2>2
  <2>4. /\ wim_construct_region(x, c).offset = x /\ wim_construct_region(x, c).len = w
        /\ wim_construct_region(x, c).cells = c
    BY <2>3, RegionFits
  <2> QED
    BY <1>5, <2>1, <2>2, <2>4
<1>7. Len(p.regions) = 1 /\ p.regions[1] = r
  BY <1>5
<1>8. \A x \in 0 .. HeaderLen - 1 : img[x] = HeaderCells(g)[x]
  <2> SUFFICES ASSUME NEW x \in 0 .. HeaderLen - 1 PROVE img[x] = HeaderCells(g)[x]
    OBVIOUS
  <2>1. x \in 0 .. Length(b) - 1 /\ x \in 0 .. 7 /\ x - 0 = x
    BY <1>3 DEF HeaderLen
  <2>2. Covers(p.regions[1], x)
    BY <1>6, <1>7, <2>1 DEF Covers
  <2>3. 1 \in 1 .. Len(p.regions) /\ \A j \in 1 .. Len(p.regions) : j > 1 => ~Covers(p.regions[j], x)
    BY <1>7
  <2>4. Painted(p.regions, x, b[x]) = p.regions[1].cells[x - p.regions[1].offset]
    BY <2>1, <2>2, <2>3, PaintedLast
  <2> QED
    BY <1>6, <1>7, <2>1, <2>4
<1>9. \A x \in 8 .. e - 1 : img[x] = b[x]
  <2> SUFFICES ASSUME NEW x \in 8 .. e - 1 PROVE img[x] = b[x]
    OBVIOUS
  <2>1. x \in 0 .. Length(b) - 1
    BY <1>3
  <2>2. \A j \in 1 .. Len(p.regions) : ~Covers(p.regions[j], x)
    <3>1. ~Covers(r, x)
      BY <1>6 DEF Covers
    <3>2. \A j \in 1 .. 1 : j = 1
      OBVIOUS
    <3> QED
      BY <1>7, <3>1, <3>2
  <2>3. Painted(p.regions, x, b[x]) = b[x]
    BY <2>2, PaintedOutside
  <2> QED
    BY <2>1, <2>3
<1>10. IsHeader(h)
  BY HeaderFits
<1>11. PICK q \in Nat : h.lookup.len = q * EntryLen
  BY <1>10, WholeEntries DEF WellMade, IsHeader, IsResource
<1>12. Entries(h) = 0 .. q - 1 /\ Entries(g) = 0 .. q - 1
  <2>1. g.lookup.len = q * EntryLen
    BY <1>2, <1>11
  <2> QED
    BY <1>11, <2>1, EntriesAre
<1>13. PICK o \in Nat : o = h.lookup.offset /\ o = g.lookup.offset /\ o >= 8
  BY <1>2, <1>10 DEF IsHeader, IsResource, WellMade, HeaderLen
<1>14. ~Unreadable(b, h)
  BY DEF WellMade, wim_count
<1>15. q # 0 => o + q * 4 <= e
  <2>1. Unreadable(b, h) <=> q # 0 /\ h.lookup.offset + h.lookup.len > Length(b)
    <3>1. h.lookup.offset \in Nat
      BY <1>10 DEF IsHeader, IsResource
    <3> QED
      BY <1>3, <1>11, <3>1, ReadableTable
  <2>2. h.lookup.len = q * 4
    BY <1>11 DEF EntryLen
  <2> QED
    BY <1>3, <1>13, <1>14, <2>1, <2>2
<1>16. SameTable(img, o, b, o, q)
  <2> SUFFICES ASSUME NEW x \in 0 .. q * EntryLen - 1 PROVE img[o + x] = b[o + x]
    BY DEF SameTable
  <2>1. x \in 0 .. q * 4 - 1 /\ q # 0
    BY DEF EntryLen
  <2>2. o + x \in 8 .. e - 1
    BY <1>13, <1>15, <2>1
  <2> QED
    BY <1>9, <2>2
<1>17. \A j \in Entries(h) : LookupEntry(img, g, j) = LookupEntry(b, h, j)
  <2>1. g.lookup.offset = o /\ h.lookup.offset = o
    BY <1>13
  <2> SUFFICES ASSUME NEW j \in 0 .. q - 1 PROVE LookupEntry(img, g, j) = LookupEntry(b, h, j)
    BY <1>12
  <2> QED
    BY <1>16, <2>1, SameEntry
<1>18. ~Unreadable(img, g)
  <2>1. g.lookup.offset \in Nat /\ g.lookup.len = q * EntryLen /\ Length(img) \in Nat
    BY <1>2, <1>4, <1>11, <1>13
  <2>2. Unreadable(img, g) <=> q # 0 /\ g.lookup.offset + g.lookup.len > Length(img)
    BY <2>1, ReadableTable
  <2>3. g.lookup.len = q * 4
    BY <2>1 DEF EntryLen
  <2> QED
    BY <1>4, <1>13, <1>15, <2>2, <2>3
<1>19. /\ wim_count(img, g) = wim_count(b, h)
       /\ \A i : i # 0 => wim_metadata(img, g, i) = wim_metadata(b, h, i)
  BY <1>12, <1>14, <1>17, <1>18, TableKept
<1>20. wim_metadata(img, g, g.boot_index) = {g.boot}
  <2>1. CASE g.boot_index = 0
    BY <2>1 DEF wim_metadata
  <2>2. CASE g.boot_index # 0
    BY <1>2, <1>19, <2>2
  <2> QED
    BY <2>1, <2>2
<1>21. wim_header(img) = {g}
  <2>1. Length(img) \in Nat /\ Length(img) >= HeaderLen
    BY <1>3, <1>4 DEF HeaderLen
  <2>2. IsHeaderRecord(g)
    BY <1>2
  <2> QED
    BY <1>8, <2>1, <2>2, HeaderBack
<1>22. wim_count(img, g) = {g.images} /\ g.boot_index <= g.images
  BY <1>2, <1>19 DEF WellMade
<1> QED
  BY <1>2, <1>20, <1>21, <1>22 DEF Consistent

---------------------------------------------------------------------------
(* PiecesFit.                                                              *)

\* The image and the options stay; files are added.
FileInvariant == /\ base \in Images /\ index \in Nat /\ rawwim \in BOOLEAN
                 /\ wim_files \in Seq(Files)

\* Whatever wim_construct_patch gives is a list of such regions, laid out as Built says.
LEMMA PatchFits ==
  ASSUME WimPatchAssumption, FileInvariant, NEW p \in wim_construct_patch
  PROVE  p.end \in Nat /\ AllFit(p.regions) /\ Built(base, index, p)
<1> DEFINE patched(h, boot) == WithIndex(h, boot, index)
<1>1. AlignTo \in Nat \ {0} /\ IsImage(base) /\ Length(base) \in Nat
  BY DEF WimPatchAssumption, FileInvariant, IsImage
<1>2. PICK h, boot :
        /\ h \in wim_header(base) /\ boot \in wim_metadata(base, h, index)
        /\ \/ p = HeaderOnly(patched(h, boot))
           \/ \E number, dir, dirLen :
                /\ number \in wim_count(base, patched(h, boot))
                /\ dir \in wim_path(base, boot, InjectDir)
                /\ dirLen \in wim_dir_len(base, boot, dir.entry.subdir)
                /\ p = InjectRegions(patched(h, boot), boot, number, dir, dirLen)
  <2> DEFINE lengths(header, boot, number, dir) ==
               UNION {{InjectRegions(header, boot, number, dir, dirLen)} :
                        dirLen \in wim_dir_len(base, boot, dir.entry.subdir)}
             paths(header, boot, number) ==
               UNION {lengths(header, boot, number, dir) : dir \in wim_path(base, boot, InjectDir)}
             inject(header, boot) ==
               UNION {paths(header, boot, number) : number \in wim_count(base, header)}
             construct(h, boot) ==
               IF rawwim \/ injected = <<>> THEN {HeaderOnly(patched(h, boot))}
               ELSE inject(patched(h, boot), boot)
             chosen(h) == UNION {construct(h, boot) : boot \in wim_metadata(base, h, index)}
  <2>1. wim_construct_patch = UNION {chosen(h) : h \in wim_header(base)}
    BY DEF wim_construct_patch, Then, WithIndex
  <2> HIDE DEF chosen
  <2>2. PICK h \in wim_header(base) : p \in chosen(h)
    BY <2>1
  <2> USE DEF chosen
  <2> HIDE DEF construct
  <2>3. PICK boot \in wim_metadata(base, h, index) : p \in construct(h, boot)
    BY <2>2
  <2> HIDE DEF patched
  <2>4. CASE rawwim \/ injected = <<>>
    BY <2>2, <2>3, <2>4 DEF construct
  <2>5. CASE ~(rawwim \/ injected = <<>>)
    <3>1. p \in inject(patched(h, boot), boot)
      BY <2>3, <2>5 DEF construct
    <3> HIDE DEF lengths, paths
    <3>2. PICK number \in wim_count(base, patched(h, boot)) : p \in paths(patched(h, boot), boot, number)
      BY <3>1
    <3>3. PICK dir \in wim_path(base, boot, InjectDir) : p \in lengths(patched(h, boot), boot, number, dir)
      BY <3>2 DEF paths
    <3>4. PICK dirLen \in wim_dir_len(base, boot, dir.entry.subdir) :
            p = InjectRegions(patched(h, boot), boot, number, dir, dirLen)
      BY <3>3 DEF lengths
    <3> QED
      BY <2>2, <2>3, <3>3, <3>4
  <2> QED
    BY <2>4, <2>5
<1>3. IsHeader(h)
  BY <1>1, <1>2, HeaderFits
<1>4. IsResource(boot)
  BY <1>1, <1>2, <1>3, MetadataFits
<1>5. IsHeader(patched(h, boot))
  <2>1. CASE index = 0
    BY <1>3, <2>1 DEF WithIndex
  <2>2. CASE index # 0
    <3>1. patched(h, boot).lookup = h.lookup /\ patched(h, boot).boot = boot
      BY <1>2, <2>2 DEF wim_header, WithIndex
    <3> QED
      BY <1>3, <1>4, <3>1 DEF IsHeader
  <2> QED
    BY <2>1, <2>2
<1> HIDE DEF patched
<1>6. CASE p = HeaderOnly(patched(h, boot))
  <2>1. Fitting(wim_construct_region(0, HeaderCells(patched(h, boot))))
    BY CellsFit DEF HeaderCells
  <2>2. p.end \in Nat /\ AllFit(p.regions)
    BY <1>1, <1>6, <2>1, FitOne DEF HeaderOnly
  <2>3. IsHeaderOnly(base, p, WithIndex(h, boot, index))
    BY <1>6 DEF HeaderOnly, IsHeaderOnly, HeaderPart, patched
  <2> QED
    BY <1>2, <2>2, <2>3 DEF Built
<1>7. CASE \E number, dir, dirLen :
             /\ number \in wim_count(base, patched(h, boot))
             /\ dir \in wim_path(base, boot, InjectDir)
             /\ dirLen \in wim_dir_len(base, boot, dir.entry.subdir)
             /\ p = InjectRegions(patched(h, boot), boot, number, dir, dirLen)
  <2>1. PICK number, dir, dirLen :
          /\ number \in wim_count(base, patched(h, boot))
          /\ dir \in wim_path(base, boot, InjectDir)
          /\ dirLen \in wim_dir_len(base, boot, dir.entry.subdir)
          /\ p = InjectRegions(patched(h, boot), boot, number, dir, dirLen)
    BY <1>7
  <2>2. IsDirent(dir)
    BY <1>1, <1>4, <2>1, PathFits
  <2>3. dirLen \in Nat
    BY <1>4, <2>1, <2>2, DirLenFits DEF IsDirent
  <2>4. injected \in Seq(Files)
    BY InjectedFit DEF WimPatchAssumption, FileInvariant
  <2>5. Len(injected) \in Nat /\ \A k \in 1 .. Len(injected) : IsFile(injected[k])
    <3>1. \A f \in Files : IsFile(f)
      BY DEF WimPatchAssumption, IsFile
    <3> QED
      BY <2>4, <3>1
  <2>6. /\ p.end \in Nat
        /\ \E at, bootAt \in Nat : \E s2, s4, s5, s6 :
             IsInjection(base, p, patched(h, boot), number, Len(injected), at, bootAt, s2, s4, s5, s6)
    BY <1>1, <1>4, <1>5, <2>1, <2>2, <2>3, <2>5, RegionsFit
  <2>7. p.end \in Nat /\ AllFit(p.regions)
    BY <2>6, InjectionFits
  <2>8. Injects(base, p, WithIndex(h, boot, index))
    BY <2>1, <2>5, <2>6 DEF Injects, patched
  <2> QED
    BY <1>2, <2>7, <2>8 DEF Built
<1> QED
  BY <1>2, <1>6, <1>7

\* So the image the regions make says of itself what is in its table.
LEMMA WholeConsistent ==
  ASSUME WimPatchAssumption, ImagesAssumption, FileInvariant,
         Built(base, index, patch), xlen = patch.end
  PROVE  BootConsistent
<1>1. IsImage(base) /\ Length(base) \in Nat /\ index \in Nat /\ base \in Images
  BY DEF WimPatchAssumption, FileInvariant, IsImage
<1>2. PICK h, boot :
        /\ h \in wim_header(base) /\ boot \in wim_metadata(base, h, index)
        /\ \/ IsHeaderOnly(base, patch, WithIndex(h, boot, index))
           \/ Injects(base, patch, WithIndex(h, boot, index))
  BY DEF Built
<1>3. WellMade(base, h)
  BY <1>1, <1>2 DEF ImagesAssumption, WellMade
<1>4. patch.end \in Nat /\ AllFit(patch.regions)
  BY DEF Built
<1>5. PICK m \in Nat : Len(patch.regions) = m
  BY <1>4 DEF AllFit
<1>6. ASSUME NEW x \in 0 .. xlen - 1
      PROVE  Whole[x] = Painted(patch.regions, x, IF x < Length(base) THEN base[x] ELSE 0)
  BY <1>4, <1>5, PieceOfWhole DEF Painted
<1>7. DOMAIN Whole = 0 .. xlen - 1
  BY DEF Whole
<1>8. Length(base) >= HeaderLen
  BY <1>1, <1>2 DEF wim_header, HeaderLen
<1>9. ASSUME IsHeaderOnly(base, patch, WithIndex(h, boot, index))
      PROVE  Consistent(Whole, xlen)
  <2>1. xlen = Length(base)
    BY <1>9 DEF IsHeaderOnly
  <2>2. ASSUME NEW x \in 0 .. Length(base) - 1
        PROVE  Whole[x] = Painted(patch.regions, x, base[x])
    <3>1. x < Length(base)
      BY <1>1
    <3> QED
      BY <1>6, <2>1, <3>1
  <2>3. DOMAIN Whole = 0 .. Length(base) - 1
    BY <1>7, <2>1
  <2> QED
    BY <1>1, <1>2, <1>3, <1>4, <1>9, <2>1, <2>2, <2>3, HeaderOnlyConsistent
<1>10. ASSUME Injects(base, patch, WithIndex(h, boot, index))
       PROVE  Consistent(Whole, xlen)
  <2>1. IsHeader(h) /\ IsResource(boot)
    BY <1>1, <1>2, HeaderFits, MetadataFits
  <2>2. PICK g : g = WithIndex(h, boot, index)
    OBVIOUS
  <2>3. g.lookup = h.lookup /\ g.boot \in {h.boot, boot}
    <3>1. h = [lookup |-> h.lookup, images |-> h.images, boot |-> h.boot, boot_index |-> h.boot_index]
      BY <1>2 DEF wim_header
    <3> QED
      BY <2>2, <3>1 DEF WithIndex
  <2>4. IsHeader(g)
    BY <2>1, <2>3 DEF IsHeader
  <2>5. PICK q \in Nat : g.lookup.len = q * EntryLen
    BY <1>3, <2>1, <2>3, WholeEntries DEF WellMade, IsHeader, IsResource
  <2>6. \A x \in 0 .. patch.end - 1 : \E u : Whole[x] = Painted(patch.regions, x, u)
    BY <1>6
  <2>7. DOMAIN Whole = 0 .. patch.end - 1
    BY <1>7
  <2>8. Injects(base, patch, g)
    BY <1>10, <2>2
  <2> QED
    BY <1>1, <1>4, <1>8, <2>4, <2>5, <2>6, <2>7, <2>8, InjectsConsistent
<1>11. Consistent(Whole, xlen)
  BY <1>2, <1>9, <1>10
<1>12. PICK g : /\ wim_header(Whole) = {g}
                /\ wim_metadata(Whole, g, g.boot_index) = {g.boot} /\ g.boot_index <= g.images
                /\ wim_count(Whole, g) = {g.images}
                /\ g.boot.offset + g.boot.len <= xlen
  BY <1>11 DEF Consistent
<1>13. Headers(Whole) = g
  BY <1>12 DEF Headers
<1> QED
  BY <1>12, <1>13 DEF BootConsistent

\* What holds between the actions: the regions fit, there are none where nothing
\* is patched or nothing has been yet, and then nothing has been read; a patch
\* is built from the image and the index.
WimPatchInvariant ==
  /\ FileInvariant
  /\ xlen \in Nat /\ AllFit(patch.regions)
  /\ Nothing \/ wim_pc = "adding" => patch.regions = <<>>
  /\ wim_pc \in {"adding", "patched", "dead"} => read = NoRead
  /\ PiecesFit
  /\ wim_pc = "patched" /\ ~Nothing => Built(base, index, patch) /\ xlen = patch.end

\* The invariant holds at first, and each action keeps it.
LEMMA PatchInvariantInit ==
  ASSUME WimPatchAssumption, WimPatchInit
  PROVE  WimPatchInvariant
<1>1. FileInvariant
  BY DEF WimPatchAssumption, WimPatchInit, FileInvariant
<1>2. patch.regions = <<>> /\ read = NoRead /\ xlen = 0 /\ wim_pc = "adding"
  BY DEF WimPatchInit, NoPatch
<1>3. AllFit(<<>>)
  <2>1. <<>> \in Seq({}) /\ Len(<<>>) = 0
    OBVIOUS
  <2> QED
    BY <2>1 DEF AllFit
<1>4. DOMAIN NoRead.data = {}
  BY DEF NoRead
<1>5. PiecesFit
  BY <1>2, <1>4 DEF PiecesFit
<1> QED
  BY <1>1, <1>2, <1>3, <1>5 DEF WimPatchInvariant

LEMMA PatchInvariantStep ==
  ASSUME WimPatchAssumption, WimPatchInvariant, [WimPatchNext]_wimPatchVars
  PROVE  WimPatchInvariant'
<1>0. DOMAIN NoRead.data = {}
  BY DEF NoRead
<1>1. CASE AddWimFile
  <2>1. FileInvariant'
    BY <1>1 DEF AddWimFile, WimPatchInvariant, FileInvariant, wimConfig
  <2>2. /\ wim_pc = "adding" /\ read = NoRead
        /\ UNCHANGED <<base, index, rawwim, patch, xlen, read, wim_pc>>
    BY <1>1 DEF AddWimFile, WimPatchInvariant, wimConfig
  <2>3. PiecesFit'
    BY <1>0, <2>2 DEF PiecesFit
  <2> QED
    BY <2>1, <2>2, <2>3 DEF WimPatchInvariant, Nothing
<1>2. CASE PatchWimFile
  <2>1. /\ wim_pc = "adding" /\ wim_pc' = "patched" /\ read = NoRead
        /\ UNCHANGED <<base, index, rawwim, wim_files, read>>
        /\ patch.regions = <<>>
    BY <1>2 DEF PatchWimFile, WimPatchInvariant, wimConfig
  <2>2. FileInvariant' /\ (Nothing' <=> Nothing)
    BY <2>1 DEF WimPatchInvariant, FileInvariant, Nothing
  <2>3. PiecesFit'
    BY <1>0, <2>1 DEF PiecesFit
  <2>4. CASE Nothing
    <3>1. xlen' = Length(base) /\ patch' = patch
      BY <1>2, <2>4 DEF PatchWimFile
    <3>2. Length(base) \in Nat
      BY DEF WimPatchAssumption, WimPatchInvariant, FileInvariant
    <3> QED
      BY <2>1, <2>2, <2>3, <2>4, <3>1, <3>2 DEF WimPatchInvariant
  <2>5. CASE ~Nothing
    <3>1. PICK p \in wim_construct_patch : xlen' = p.end /\ patch' = p
      BY <1>2, <2>5 DEF PatchWimFile
    <3>2. p.end \in Nat /\ AllFit(p.regions) /\ Built(base, index, p)
      BY <3>1, PatchFits DEF WimPatchInvariant
    <3> QED
      BY <2>1, <2>2, <2>3, <2>5, <3>1, <3>2 DEF WimPatchInvariant
  <2> QED
    BY <2>4, <2>5
<1>3. CASE PatchFails
  <2>1. /\ wim_pc = "adding" /\ wim_pc' = "dead" /\ read = NoRead
        /\ UNCHANGED <<base, index, rawwim, wim_files, patch, xlen, read>>
    BY <1>3 DEF PatchFails, WimPatchInvariant, wimConfig
  <2>2. PiecesFit'
    BY <1>0, <2>1 DEF PiecesFit
  <2> QED
    BY <2>1, <2>2 DEF WimPatchInvariant, FileInvariant, Nothing
<1>4. CASE ReadPatched
  <2>1. /\ UNCHANGED <<base, index, rawwim, wim_files, patch, xlen>>
        /\ wim_pc = "patched" /\ wim_pc' = "read"
    BY <1>4 DEF ReadPatched, wimConfig
  <2>2. PICK n \in ReadLens : \E place \in 0 .. xlen - n :
          read' = [offset |-> place, data |-> patch_wim(Underneath(place, n), place)]
    BY <1>4 DEF ReadPatched
  <2>3. PICK at \in 0 .. xlen - n :
          read' = [offset |-> at, data |-> patch_wim(Underneath(at, n), at)]
    BY <2>2
  <2>4. n \in Nat
    BY DEF WimPatchAssumption
  <2>5. PICK m \in Nat : Len(patch.regions) = m
    BY DEF WimPatchInvariant, AllFit
  <2>6. /\ \A k \in 1 .. m : Fitting(patch.regions[k])
        /\ Nothing => m = 0
        /\ xlen \in Int
    BY <2>5 DEF WimPatchInvariant, AllFit
  <2>7. \A i \in 0 .. n - 1 : /\ DOMAIN read'.data = 0 .. n - 1
                              /\ read'.data[i] = Whole[at + i]
    BY <2>3, <2>4, <2>5, <2>6, ReadFits
  <2>8. DOMAIN read'.data = 0 .. n - 1
    BY <2>3, <2>4, <2>5, <2>6, ReadDomain
  <2>9. Whole' = Whole
    BY <2>1 DEF Whole, LastRegion, Underneath
  <2>10. PiecesFit'
    BY <2>3, <2>7, <2>8, <2>9 DEF PiecesFit
  <2> QED
    BY <2>1, <2>10 DEF WimPatchInvariant, FileInvariant, Nothing
<1>5. CASE UNCHANGED wimPatchVars
  <2>1. UNCHANGED <<base, index, rawwim, wim_files, patch, xlen, read, wim_pc>>
    BY <1>5 DEF wimPatchVars, wimConfig
  <2>2. Whole' = Whole
    BY <2>1 DEF Whole, LastRegion, Underneath
  <2>3. PiecesFit'
    BY <2>1, <2>2 DEF PiecesFit, WimPatchInvariant
  <2> QED
    BY <2>1, <2>3 DEF WimPatchInvariant, FileInvariant, Nothing
<1> QED
  BY <1>1, <1>2, <1>3, <1>4, <1>5 DEF WimPatchNext

(* A read of the patched image gives, at each place, what the last region   *)
(* over it has there, or the image itself, wherever the read begins and     *)
(* ends (patch.c:514-549, 780-816): PiecesFit, for any image, files and     *)
(* reads.                                                                   *)
THEOREM PiecesAgree == ASSUME WimPatchAssumption PROVE WimPatchSpec => []PiecesFit
<1>1. WimPatchInit => WimPatchInvariant
  BY PatchInvariantInit
<1>2. WimPatchInvariant /\ [WimPatchNext]_wimPatchVars => WimPatchInvariant'
  BY PatchInvariantStep
<1>3. WimPatchInvariant => PiecesFit
  BY DEF WimPatchInvariant
<1> QED BY <1>1, <1>2, <1>3, PTL DEF WimPatchSpec

(* Whatever the header of the patched image names as the one to boot, its   *)
(* lookup table has at the number the header says, the number of images is  *)
(* the table's and the image's metadata end within the file (patch.c:       *)
(* 640-764): BootConsistent, for any images made as the tools make them,    *)
(* any index, and any files injected.                                       *)
THEOREM BootNamed ==
  ASSUME WimPatchAssumption, ImagesAssumption
  PROVE  WimPatchSpec => []BootConsistent
<1>1. WimPatchInit => WimPatchInvariant
  BY PatchInvariantInit
<1>2. WimPatchInvariant /\ [WimPatchNext]_wimPatchVars => WimPatchInvariant'
  BY PatchInvariantStep
<1>3. WimPatchInvariant => BootConsistent
  <2>1. CASE wim_pc = "patched" /\ ~Nothing
    BY <2>1, WholeConsistent DEF WimPatchInvariant
  <2>2. CASE ~(wim_pc = "patched" /\ ~Nothing)
    BY <2>2 DEF BootConsistent
  <2> QED
    BY <2>1, <2>2
<1> QED BY <1>1, <1>2, <1>3, PTL DEF WimPatchSpec
=============================================================================
