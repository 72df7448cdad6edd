--------------------------- MODULE LauncherProofs ---------------------------
(***************************************************************************)
(* Proofs about the launcher: SizesKept of Sizes, HttpServesTftp of Pxe,   *)
(* SettingsLoaded of Settings, with what is needed about numbers as text   *)
(* (what snprintf writes, wcstol reads), and the safety of Session.        *)
(***************************************************************************)
EXTENDS Sizes, Pxe, Settings, Session, WellFoundedInduction, SequenceTheorems, TLAPS

(***************************************************************************)
(* Sizes, for any resolutions from 96 dots up and any widths: saving an    *)
(* unchanged window loses one pixel at most.                               *)
(***************************************************************************)
LEMMA DivMod ==
  ASSUME NEW n \in Nat \ {0}, NEW i \in Nat
  PROVE  /\ i \div n \in Nat /\ i % n \in 0 .. n - 1
         /\ i = n * (i \div n) + (i % n)
  OBVIOUS

LEMMA ProductNat ==
  ASSUME NEW a \in Nat, NEW b \in Nat
  PROVE  a * b \in Nat
  OBVIOUS

LEMMA ProductMonotone ==
  ASSUME NEW a \in Nat, NEW x \in Nat, NEW y \in Nat, x <= y
  PROVE  a * x <= a * y
  OBVIOUS

(* Scaling up by a / b and down again, both truncated. *)
LEMMA RoundTrip ==
  ASSUME NEW a \in Nat \ {0}, NEW b \in Nat \ {0}, b <= a, NEW n \in Nat
  PROVE  /\ (n * a) \div b \in Nat
         /\ (((n * a) \div b) * b) \div a \in Nat
         /\ (((n * a) \div b) * b) \div a \in {n - 1, n}
  <1> DEFINE p == n * a
             q == p \div b
             r == p % b
             s == q * b
             m == s \div a
             t == s % a
  <1>1. p \in Nat
    BY ProductNat
  <1>2. q \in Nat /\ r \in 0 .. b - 1 /\ p = b * q + r
    <2> HIDE DEF p
    <2> QED
      BY <1>1, DivMod
  <1>3. s \in Nat /\ s = b * q
    <2> HIDE DEF q
    <2> QED
      BY <1>2, ProductNat
  <1>4. m \in Nat /\ t \in 0 .. a - 1 /\ s = a * m + t
    <2> HIDE DEF s
    <2> QED
      BY <1>3, DivMod
  <1> HIDE DEF q, r, s, m, t
  <1>5. a * m + t + r = a * n /\ a * m \in Nat /\ a * n \in Nat
    BY <1>2, <1>3, <1>4, ProductNat
  <1>6. ~(m > n)
    <2>1. SUFFICES ASSUME m >= n + 1 PROVE FALSE
      BY <1>4
    <2>2. a * (n + 1) <= a * m
      BY <2>1, <1>4, ProductMonotone
    <2>3. a * (n + 1) = a * n + a
      OBVIOUS
    <2>4. QED
      BY <2>2, <2>3, <1>5, <1>4, <1>2
  <1>7. ~(m < n - 1)
    <2>1. SUFFICES ASSUME m + 2 <= n PROVE FALSE
      BY <1>4
    <2>2. a * (m + 2) <= a * n
      BY <2>1, <1>4, ProductMonotone
    <2>3. a * (m + 2) = a * m + a + a
      BY <1>4
    <2>4. QED
      BY <2>2, <2>3, <1>5, <1>4, <1>2
  <1>8. m \in {n - 1, n}
    BY <1>4, <1>6, <1>7
  <1>9. QED
    BY <1>2, <1>4, <1>8 DEF q, m, s
---------------------------------------------------------------------------
(* Factors the size may be saved with while it is unchanged. *)
Factors == {<<1, 1>>} \cup {<<dpi, USER_DEFAULT_SCREEN_DPI>> : dpi \in Dpis}

LEMMA FactorBounds ==
  ASSUME SizesAssumption, NEW f \in Factors
  PROVE  f[1] \in Nat \ {0} /\ f[2] \in Nat \ {0} /\ f[2] <= f[1]
  BY DEF SizesAssumption, Factors, USER_DEFAULT_SCREEN_DPI

(* An untouched window has the loaded size, scaled by the present factor. *)
SizesTypeOK == ini \in Nat /\ loaded \in Nat /\ nkwidth \in Nat

Untouched == /\ dpi_factor \in Factors
             /\ nkwidth = Scaled(loaded, dpi_factor)

\* While nothing is touched the factor is one a launch sets; any other factor
\* is of a move, and positive too.
Positive == dpi_factor[1] \in Nat \ {0} /\ dpi_factor[2] \in Nat \ {0} /\ m_dpi \in Nat \ {0}

SizesInv == SizesTypeOK /\ Positive /\ (~touched => Untouched) /\ SizesKept

LEMMA QuotientNat ==
  ASSUME NEW n \in Nat, NEW f, f[1] \in Nat \ {0}, f[2] \in Nat \ {0}
  PROVE  Scaled(n, f) \in Nat /\ Unscaled(n, f) \in Nat
  <1>1. n * f[1] \in Nat /\ n * f[2] \in Nat
    BY ProductNat
  <1>2. (n * f[1]) \div f[2] \in Nat
    <2> DEFINE p == n * f[1]
    <2>1. p \in Nat
      BY <1>1
    <2> HIDE DEF p
    <2>2. p \div f[2] \in Nat
      BY <2>1, DivMod
    <2>3. QED
      BY <2>2 DEF p
  <1>3. (n * f[2]) \div f[1] \in Nat
    <2> DEFINE p == n * f[2]
    <2>1. p \in Nat
      BY <1>1
    <2> HIDE DEF p
    <2>2. p \div f[1] \in Nat
      BY <2>1, DivMod
    <2>3. QED
      BY <2>2 DEF p
  <1>4. QED
    BY <1>2, <1>3 DEF Scaled, Unscaled

LEMMA SizesInitInv == ASSUME SizesAssumption, SizesInit PROVE SizesInv
  <1>1. ini \in Nat
    BY DEF SizesInit, SizesAssumption
  <1>2. Scaled(ini, <<1, 1>>) = ini
    BY <1>1 DEF Scaled
  <1>3. QED
    BY <1>1, <1>2 DEF SizesInit, SizesInv, SizesTypeOK, Positive, Untouched, Factors, SizesKept, USER_DEFAULT_SCREEN_DPI

LEMMA ScaledUnit == ASSUME NEW n \in Nat PROVE Scaled(n, <<1, 1>>) = n
  BY DEF Scaled

LEMMA LaunchInv == ASSUME SizesAssumption, SizesInv, Launch PROVE SizesInv'
  <1>1. PICK dpi \in Dpis : nkctx_set_dpi_scaling(ini, USER_DEFAULT_SCREEN_DPI, dpi)
    BY DEF Launch
  <1>2. dpi_factor' \in Factors /\ m_dpi' \in Nat \ {0} /\ nkwidth' = Scaled(ini, dpi_factor')
    <2>1. CASE dpi_scaling
      BY <1>1, <2>1 DEF nkctx_set_dpi_scaling, Factors, SizesAssumption, USER_DEFAULT_SCREEN_DPI
    <2>2. CASE ~dpi_scaling
      <3>1. dpi_factor' = <<1, 1>> /\ nkwidth' = ini /\ m_dpi' = USER_DEFAULT_SCREEN_DPI
        BY <1>1, <2>2 DEF nkctx_set_dpi_scaling
      <3>2. Scaled(ini, <<1, 1>>) = ini
        BY ScaledUnit DEF SizesInv, SizesTypeOK
      <3>3. QED
        BY <3>1, <3>2 DEF Factors, USER_DEFAULT_SCREEN_DPI
    <2>3. QED
      BY <2>1, <2>2
  <1>3. dpi_factor'[1] \in Nat \ {0} /\ dpi_factor'[2] \in Nat \ {0}
    BY <1>2, FactorBounds
  <1>4. ini' = ini /\ loaded' = ini /\ ini \in Nat
    BY DEF Launch, SizesInv, SizesTypeOK
  <1>5. nkwidth' \in Nat
    BY <1>2, <1>3, <1>4, QuotientNat
  <1>6. SizesTypeOK' /\ Positive'
    BY <1>2, <1>3, <1>4, <1>5 DEF SizesTypeOK, Positive
  <1>7. Untouched'
    BY <1>2, <1>4 DEF Untouched
  <1>8. SizesKept'
    BY <1>4 DEF SizesKept
  <1>9. QED
    BY <1>6, <1>7, <1>8 DEF SizesInv

LEMMA MoveInv == ASSUME SizesAssumption, SizesInv, NEW dpi \in Dpis, Move(dpi) PROVE SizesInv'
  <1>1. touched' /\ ini' = ini /\ loaded' = loaded
    BY DEF Move
  <1>2. CASE dpi_scaling
    <2>1. dpi_factor' = <<dpi, m_dpi>> /\ m_dpi' = dpi /\ nkwidth' = Scaled(nkwidth, <<dpi, m_dpi>>)
      BY <1>2 DEF Move, nkctx_set_dpi_scaling
    <2>2. dpi \in Nat \ {0} /\ m_dpi \in Nat \ {0} /\ nkwidth \in Nat
      BY DEF SizesAssumption, SizesInv, SizesTypeOK, Positive, USER_DEFAULT_SCREEN_DPI
    <2>3. nkwidth' \in Nat
      BY <2>1, <2>2, QuotientNat
    <2>4. Positive'
      BY <2>1, <2>2 DEF Positive
    <2>5. QED
      BY <1>1, <2>3, <2>4 DEF SizesInv, SizesTypeOK, SizesKept
  <1>3. CASE ~dpi_scaling
    BY <1>1, <1>3 DEF Move, SizesInv, SizesTypeOK, Positive, SizesKept
  <1>4. QED
    BY <1>2, <1>3

LEMMA SaveInv == ASSUME SizesAssumption, SizesInv, Save PROVE SizesInv'
  <1>1. ini' = Unscaled(nkwidth, dpi_factor)
    BY DEF Save
  <1>2. /\ nkwidth' = nkwidth /\ dpi_factor' = dpi_factor /\ m_dpi' = m_dpi
        /\ loaded' = loaded /\ touched' = touched
    BY DEF Save
  <1>3. ini' \in Nat
    BY <1>1, QuotientNat DEF SizesInv, SizesTypeOK, Positive
  <1>4. ASSUME ~touched PROVE ini' \in {loaded - 1, loaded}
    <2>1. dpi_factor \in Factors /\ nkwidth = Scaled(loaded, dpi_factor) /\ loaded \in Nat
      BY <1>4 DEF SizesInv, Untouched, SizesTypeOK
    <2>2. /\ dpi_factor[1] \in Nat \ {0} /\ dpi_factor[2] \in Nat \ {0}
          /\ dpi_factor[2] <= dpi_factor[1]
      BY <2>1, FactorBounds
    <2>3. (((loaded * dpi_factor[1]) \div dpi_factor[2]) * dpi_factor[2]) \div dpi_factor[1]
            \in {loaded - 1, loaded}
      BY <2>1, <2>2, RoundTrip
    <2>4. QED
      BY <1>1, <2>1, <2>3 DEF Scaled, Unscaled
  <1>5. SizesTypeOK' /\ Positive'
    BY <1>2, <1>3 DEF SizesInv, SizesTypeOK, Positive
  <1>6. ~touched' => Untouched'
    BY <1>2 DEF SizesInv, Untouched
  <1>7. SizesKept'
    BY <1>2, <1>4 DEF SizesKept
  <1>8. QED
    BY <1>5, <1>6, <1>7 DEF SizesInv

LEMMA SizesStepInv == ASSUME SizesAssumption, SizesInv, [SizesNext]_sizesVars PROVE SizesInv'
  <1>1. CASE Launch
    BY <1>1, LaunchInv
  <1>2. ASSUME NEW dpi \in Dpis, Move(dpi) PROVE SizesInv'
    BY <1>2, MoveInv
  <1>3. ASSUME NEW width \in Widths, Resize(width) PROVE SizesInv'
    BY <1>3 DEF Resize, SizesAssumption, SizesInv, SizesTypeOK, Positive, SizesKept
  <1>4. CASE Save
    BY <1>4, SaveInv
  <1>5. CASE UNCHANGED sizesVars
    BY <1>5 DEF sizesVars, SizesInv, SizesTypeOK, Positive, Untouched, Scaled, SizesKept
  <1>6. QED
    BY <1>1, <1>2, <1>3, <1>4, <1>5 DEF SizesNext

(* Whatever the resolutions and the size, saving a window that was neither *)
(* resized nor moved changes its size in zemu.ini by one pixel at most     *)
(* (ini.c:141-155, nkstyle.c:15-26).                                       *)
THEOREM SizesStay == ASSUME SizesAssumption PROVE SizesSpec => []SizesKept
  <1>1. SizesInit => SizesInv
    BY SizesInitInv
  <1>2. SizesInv /\ [SizesNext]_sizesVars => SizesInv'
    BY SizesStepInv
  <1>3. SizesInv => SizesKept
    BY DEF SizesInv
  <1>4. QED
    BY <1>1, <1>2, <1>3, PTL DEF SizesSpec
---------------------------------------------------------------------------
(***************************************************************************)
(* Pxe, for any drives, directories and typed paths.                       *)
(***************************************************************************)
\* The directory QEMU has is the one the server has, completed; what the server
\* has is a path that was set when both were started.
Paired == root # <<>> => /\ IsPath(root[1])
                         /\ tftp = rel_to_abs(fix_dir_path(root[1]))

PxeInv == IsPath(net_tftp) /\ cwd \in Dirs /\ Paired

LEMMA WithSlashes ==
  ASSUME NEW p, IsPath(p), NEW n \in Nat
  PROVE  [p EXCEPT !.slashes = n] = [drive |-> p.drive, names |-> p.names, slashes |-> n]
  <1>1. p \in [drive : {p.drive}, names : {p.names}, slashes : Nat]
    BY DEF IsPath
  <1> QED BY <1>1

(* A backslash at the end less, as in Browse and CopyPath.                 *)
LEMMA Shorter ==
  ASSUME NEW p, IsPath(p), p.slashes > 0
  PROVE  [p EXCEPT !.slashes = @ - 1]
           = [drive |-> p.drive, names |-> p.names, slashes |-> p.slashes - 1]
  <1>1. p.slashes - 1 \in Nat
    BY DEF IsPath
  <1> QED BY <1>1, WithSlashes

(* Completing a path gives a path.                                         *)
LEMMA FixedIsPath ==
  ASSUME PxeAssumption, NEW p, IsPath(p)
  PROVE  IsPath(fix_dir_path(p))
  <1>1. CASE p = Empty
    BY <1>1 DEF fix_dir_path, PxeAssumption
  <1>2. CASE p # Empty /\ p.slashes > 0
    BY <1>2, Shorter DEF fix_dir_path, IsPath
  <1>3. CASE p # Empty /\ ~(p.slashes > 0)
    BY <1>3 DEF fix_dir_path
  <1> QED BY <1>1, <1>2, <1>3

(* Of a path that is not empty, only a backslash is taken.                 *)
LEMMA FixKeeps ==
  ASSUME NEW p, IsPath(p), p # Empty
  PROVE  fix_dir_path(p).drive = p.drive /\ fix_dir_path(p).names = p.names
  <1>1. CASE p.slashes > 0
    BY <1>1, Shorter DEF fix_dir_path
  <1>2. CASE ~(p.slashes > 0)
    BY <1>2 DEF fix_dir_path
  <1> QED BY <1>1, <1>2

(* Where files are looked for under an absolute path.                      *)
LEMMA UnderAbsolute ==
  ASSUME NEW p, is_absolute_path(p)
  PROVE  Under(p) = [drive |-> p.drive, names |-> p.names, slashes |-> 0]
  <1>1. p # Empty
    BY DEF is_absolute_path, Empty
  <1> QED BY <1>1 DEF Under

(* Completing a path and making it absolute leads nowhere else, if what is *)
(* relative is relative to the program's directory.                        *)
LEMMA SameUnder ==
  ASSUME PxeAssumption, NEW p, IsPath(p), p # Empty, is_absolute_path(p) \/ cwd = pwd
  PROVE  Under(p) = Under(rel_to_abs(fix_dir_path(p)))
  <1> DEFINE q == fix_dir_path(p)
  <1>1. IsPath(q)
    BY FixedIsPath
  <1>2. q.drive = p.drive /\ q.names = p.names
    BY FixKeeps
  <1>3. CASE is_absolute_path(p)
    <2>1. is_absolute_path(q)
      BY <1>2, <1>3 DEF is_absolute_path
    <2>2. rel_to_abs(q) = q
      BY <2>1 DEF rel_to_abs
    <2> QED BY <1>1, <1>2, <1>3, <2>1, <2>2, UnderAbsolute
  <1>4. CASE ~is_absolute_path(p)
    <2> DEFINE r == [drive |-> pwd.drive, names |-> pwd.names \o p.names, slashes |-> q.slashes]
    <2>1. rel_to_abs(q) = r
      BY <1>2, <1>4 DEF rel_to_abs, is_absolute_path
    <2>2. IsPath(r) /\ is_absolute_path(r)
      BY <1>1 DEF IsPath, is_absolute_path, PxeAssumption
    <2>3. Under(r) = [drive |-> pwd.drive, names |-> pwd.names \o p.names, slashes |-> 0]
      <3>1. r.drive = pwd.drive /\ r.names = pwd.names \o p.names
        OBVIOUS
      <3> HIDE DEF r
      <3> QED BY <2>2, <3>1, UnderAbsolute
    <2>4. Under(p) = [drive |-> pwd.drive, names |-> pwd.names \o p.names, slashes |-> 0]
      BY <1>4 DEF Under, is_absolute_path
    <2> QED BY <2>1, <2>3, <2>4
  <1> QED BY <1>3, <1>4

LEMMA PxeInvInit ==
  ASSUME PxeAssumption, PxeInit
  PROVE  PxeInv
  BY DEF PxeInit, PxeInv, Paired, IsPath, Empty

LEMMA PxeInvStep ==
  ASSUME PxeAssumption, PxeInv, [PxeNext]_pxeVars
  PROVE  PxeInv'
  <1> USE DEF PxeInv, Paired
  <1>1. CASE TypePath
    BY <1>1 DEF TypePath, PxeAssumption
  <1>2. CASE Browse
    <2>1. IsPath(net_tftp')
      <3>1. CASE net_tftp' \in Dirs
        BY <3>1 DEF PxeAssumption
      <3>2. CASE net_tftp.slashes > 0 /\ net_tftp' = [net_tftp EXCEPT !.slashes = @ - 1]
        BY <3>2, Shorter DEF IsPath
      <3>3. CASE net_tftp' = net_tftp
        BY <3>3
      <3> QED BY <1>2, <3>1, <3>2, <3>3 DEF Browse
    <2> QED BY <1>2, <2>1 DEF Browse
  <1>3. CASE FileDialog
    BY <1>3 DEF FileDialog
  <1>4. CASE CopyPath
    BY <1>4, FixedIsPath DEF CopyPath
  <1>5. CASE StartServers
    BY <1>5, FixedIsPath DEF StartServers
  <1>6. CASE StopServers
    BY <1>6 DEF StopServers
  <1>7. CASE UNCHANGED pxeVars
    BY <1>7 DEF pxeVars
  <1> QED BY <1>1, <1>2, <1>3, <1>4, <1>5, <1>6, <1>7 DEF PxeNext

(* While QEMU runs, its TFTP server and the HTTP server have the same      *)
(* files, with the exceptions HttpServesTftp names (ui_start.c:126,        *)
(* cmdline.c:136-137).                                                     *)
THEOREM SameDirectory == ASSUME PxeAssumption PROVE PxeSpec => []HttpServesTftp
  <1>1. PxeInit => PxeInv
    BY PxeInvInit
  <1>2. PxeInv /\ [PxeNext]_pxeVars => PxeInv'
    BY PxeInvStep
  <1>3. PxeInv => HttpServesTftp
    BY SameUnder DEF PxeInv, Paired, HttpServesTftp
  <1> QED BY <1>1, <1>2, <1>3, PTL DEF PxeSpec
---------------------------------------------------------------------------
(***************************************************************************)
(* Numbers as text.  Induction is by the least number that is different.   *)
(***************************************************************************)
LEMMA NatLess == IsWellFoundedOn({ss \in Nat \X Nat : ss[1] < ss[2]}, Nat)
BY NatLessThanWellFounded DEF OpToRel

LEMMA LeastElement ==
  ASSUME NEW T, T \subseteq Nat, T # {}
  PROVE  \E x \in T : \A y \in T : x <= y
<1> DEFINE R == {ss \in Nat \X Nat : ss[1] < ss[2]}
<1>1. IsWellFoundedOn(R, Nat)
  BY NatLess
<1>2. PICK x \in T : \A y \in T : ~ (<<y, x>> \in R)
  <2> HIDE DEF R
  <2> QED
    BY <1>1, WFMin
<1>3. ASSUME NEW y \in T PROVE x <= y
  <2>1. ~(y < x)
    BY <1>2
  <2> QED
    BY <2>1
<1> QED
  BY <1>3

LEMMA SetInduction ==
  ASSUME NEW T, 0 \in T, \A n \in Nat : n \in T => n + 1 \in T
  PROVE  Nat \subseteq T
<1> DEFINE F == Nat \ T
<1>1. SUFFICES ASSUME F # {} PROVE FALSE
  OBVIOUS
<1>2. PICK x \in F : \A y \in F : x <= y
  BY <1>1, LeastElement
<1>3. x - 1 \in Nat /\ x - 1 \notin F
  BY <1>2
<1> QED
  BY <1>2, <1>3

(* A function that is defined from one number to the next, up to a number. *)
Steps(S) == [Nat -> [S -> S]]

Iterates(f, S, base, step, m) ==
  f \in [0 .. m -> S] /\ f[0] = base /\ \A k \in 1 .. m : f[k] = step[k][f[k - 1]]

LEMMA Recursion ==
  ASSUME NEW S, NEW base \in S, NEW step \in Steps(S), NEW m \in Nat
  PROVE  \E f : Iterates(f, S, base, step, m)
<1> DEFINE T == {n \in Nat : \E f : Iterates(f, S, base, step, n)}
<1>1. 0 \in T
  <2>1. Iterates([k \in 0 .. 0 |-> base], S, base, step, 0)
    BY DEF Iterates
  <2> QED
    BY <2>1
<1>2. ASSUME NEW n \in Nat, n \in T PROVE n + 1 \in T
  <2>1. PICK f : Iterates(f, S, base, step, n)
    BY <1>2
  <2> DEFINE g == [k \in 0 .. n + 1 |-> IF k = n + 1 THEN step[n + 1][f[n]] ELSE f[k]]
  <2>2. f[n] \in S /\ step[n + 1][f[n]] \in S
    BY <2>1 DEF Iterates, Steps
  <2>3. g \in [0 .. n + 1 -> S]
    BY <2>1, <2>2 DEF Iterates
  <2>4. /\ \A k \in 0 .. n : g[k] = f[k]
        /\ g[n + 1] = step[n + 1][f[n]]
    OBVIOUS
  <2> HIDE DEF g
  <2>5. ASSUME NEW k \in 1 .. n + 1 PROVE g[k] = step[k][g[k - 1]]
    <3>1. k - 1 \in 0 .. n /\ (k \in 1 .. n \/ k = n + 1)
      OBVIOUS
    <3> QED
      BY <2>1, <2>4, <3>1 DEF Iterates
  <2>6. Iterates(g, S, base, step, n + 1)
    BY <2>1, <2>3, <2>4, <2>5 DEF Iterates
  <2> QED
    BY <2>6
<1> HIDE DEF T
<1>3. m \in T
  BY <1>1, <1>2, SetInduction
<1> QED
  BY <1>3 DEF T
---------------------------------------------------------------------------
(* wcstol.                                                                 *)

Read(s, f) ==
  /\ f \in [0 .. Len(s) -> Nat] /\ f[0] = 0
  /\ \A k \in 1 .. Len(s) :
       f[k] = IF \E j \in 1 .. k : s[j] >= Base(s) THEN f[k - 1] ELSE Base(s) * f[k - 1] + s[k]

LEMMA wcstolReads ==
  ASSUME NEW s \in Seq(0 .. 9)
  PROVE  \E f : Read(s, f) /\ wcstol(s) = f[Len(s)]
<1> DEFINE Valid(k) == ~\E j \in 1 .. k : s[j] >= Base(s)
           m == Len(s)
           Is(f) == f = [k \in 0 .. m |-> IF k = 0 THEN 0
                                          ELSE IF \E j \in 1 .. k : s[j] >= Base(s) THEN f[k - 1]
                                          ELSE Base(s) * f[k - 1] + s[k]]
           step == [k \in Nat |-> [v \in Nat |->
                      IF k \notin 1 .. m \/ ~Valid(k) THEN v ELSE Base(s) * v + s[k]]]
<1>1. m \in Nat /\ Base(s) \in Nat /\ \A k \in 1 .. m : s[k] \in Nat
  BY ElementOfSeq DEF Base
<1>2. step \in [Nat -> [Nat -> Nat]]
  <2>1. ASSUME NEW k \in 1 .. m, NEW v \in Nat PROVE Base(s) * v + s[k] \in Nat
    <3>1. Base(s) * v \in Nat
      BY <1>1 DEF Base
    <3> QED
      BY <1>1, <3>1
  <2> HIDE DEF m, Valid
  <2> QED
    BY <2>1
<1>3. PICK f \in [0 .. m -> Nat] : f[0] = 0 /\ \A k \in 1 .. m : f[k] = step[k][f[k - 1]]
  <2> HIDE DEF step, m
  <2>1. step \in Steps(Nat)
    BY <1>2 DEF Steps
  <2>2. PICK f : Iterates(f, Nat, 0, step, m)
    BY <1>1, <2>1, Recursion
  <2> QED
    BY <2>2 DEF Iterates
<1>4. \A k \in 1 .. m : f[k] = IF \E j \in 1 .. k : s[j] >= Base(s) THEN f[k - 1]
                               ELSE Base(s) * f[k - 1] + s[k]
  <2>1. ASSUME NEW k \in 1 .. m
        PROVE  step[k][f[k - 1]] = IF \E j \in 1 .. k : s[j] >= Base(s) THEN f[k - 1]
                                      ELSE Base(s) * f[k - 1] + s[k]
    <3>1. f[k - 1] \in Nat /\ k \in Nat
      BY <1>1
    <3>2. step[k][f[k - 1]] = IF k \notin 1 .. m \/ ~Valid(k) THEN f[k - 1]
                              ELSE Base(s) * f[k - 1] + s[k]
      <4> HIDE DEF m, Valid
      <4> QED
        BY <3>1
    <3> QED
      BY <3>2
  <2> QED
    BY <1>3, <2>1
<1>5. Is(f)
  BY <1>1, <1>3, <1>4
<1> DEFINE read == CHOOSE g : Is(g)
<1>6. Is(read)
  BY <1>5
<1>7. wcstol(s) = read[m]
  BY DEF wcstol
<1> DEFINE T == {k \in Nat : k \in 0 .. m => read[k] \in Nat}
<1>8. /\ read = [k \in 0 .. m |-> read[k]] /\ read[0] = 0
      /\ \A k \in 1 .. m : read[k] = IF \E j \in 1 .. k : s[j] >= Base(s) THEN read[k - 1]
                                     ELSE Base(s) * read[k - 1] + s[k]
  <2> HIDE DEF read
  <2>1. 0 \in 0 .. m /\ \A k \in 1 .. m : k \in 0 .. m /\ k # 0
    BY <1>1
  <2>2. \A k \in 0 .. m : read[k] = IF k = 0 THEN 0
                                    ELSE IF \E j \in 1 .. k : s[j] >= Base(s) THEN read[k - 1]
                                    ELSE Base(s) * read[k - 1] + s[k]
    BY <1>6
  <2>3. read = [k \in 0 .. m |-> read[k]]
    BY <1>6
  <2> HIDE DEF m
  <2> QED
    BY <2>1, <2>2, <2>3
<1> HIDE DEF read
<1>9. 0 \in T
  BY <1>8
<1>10. ASSUME NEW k \in Nat, k \in T PROVE k + 1 \in T
  <2>1. SUFFICES ASSUME k + 1 \in 0 .. m PROVE read[k + 1] \in Nat
    OBVIOUS
  <2>2. k + 1 \in 1 .. m /\ k \in 0 .. m /\ (k + 1) - 1 = k
    BY <1>1, <2>1
  <2>3. read[k] \in Nat /\ s[k + 1] \in Nat
    BY <1>1, <1>10, <2>2
  <2>4. Base(s) * read[k] \in Nat
    BY <2>3 DEF Base
  <2>5. read[k + 1] = read[k] \/ read[k + 1] = Base(s) * read[k] + s[k + 1]
    BY <1>8, <2>2
  <2> QED
    BY <2>3, <2>4, <2>5
<1>11. Nat \subseteq T
  <2> HIDE DEF T
  <2> QED
    BY <1>9, <1>10, SetInduction
<1>12. Read(s, read)
  <2>1. \A k \in 0 .. m : read[k] \in Nat
    BY <1>1, <1>11
  <2> QED
    BY <1>8, <2>1 DEF Read
<1> QED
  BY <1>7, <1>12

(* Without a digit that ends it, a number is read to its end.              *)
LEMMA Uniform ==
  ASSUME NEW s \in Seq(0 .. 9), Base(s) = 10, NEW f, Read(s, f)
  PROVE  \A k \in 1 .. Len(s) : f[k] = 10 * f[k - 1] + s[k]
<1>1. \A j \in 1 .. Len(s) : ~(s[j] >= 10)
  BY ElementOfSeq
<1>2. ASSUME NEW k \in 1 .. Len(s) PROVE ~\E j \in 1 .. k : s[j] >= 10
  <2>1. \A j \in 1 .. k : j \in 1 .. Len(s)
    OBVIOUS
  <2> QED
    BY <1>1, <2>1
<1> QED
  BY <1>2 DEF Read

LEMMA wcstolNat == ASSUME NEW s \in Seq(0 .. 9) PROVE wcstol(s) \in Nat
<1>1. PICK f : Read(s, f) /\ wcstol(s) = f[Len(s)]
  BY wcstolReads
<1>2. Len(s) \in 0 .. Len(s)
  OBVIOUS
<1> QED
  BY <1>1, <1>2 DEF Read

LEMMA wcstolDigit == ASSUME NEW d \in 0 .. 9 PROVE wcstol(<<d>>) = d
<1>1. <<d>> \in Seq(0 .. 9) /\ Len(<<d>>) = 1 /\ <<d>>[1] = d
  OBVIOUS
<1>2. PICK f : Read(<<d>>, f) /\ wcstol(<<d>>) = f[1]
  BY <1>1, wcstolReads
<1>3. Base(<<d>>) \in {8, 10} /\ d < Base(<<d>>)
  BY <1>1 DEF Base
<1>4. f[0] = 0 /\ f[1] = Base(<<d>>) * f[0] + d
  BY <1>1, <1>2, <1>3 DEF Read
<1> QED
  BY <1>2, <1>3, <1>4

(* One more digit.                                                         *)
LEMMA wcstolAppend ==
  ASSUME NEW s, Canonical(s), NEW d \in 0 .. 9
  PROVE  /\ Canonical(Append(s, d))
         /\ wcstol(Append(s, d)) = 10 * wcstol(s) + d
<1> DEFINE t == Append(s, d)
           m == Len(s)
<1>1. /\ s \in Seq(0 .. 9) /\ m \in Nat /\ m >= 1 /\ s[1] # 0
      /\ t \in Seq(0 .. 9) /\ Len(t) = m + 1 /\ t[m + 1] = d
      /\ \A k \in 1 .. m : t[k] = s[k]
  BY DEF Canonical
<1> HIDE DEF t, m
<1>2. t[1] = s[1] /\ t # <<>>
  BY <1>1
<1>3. Base(s) = 10 /\ Base(t) = 10 /\ Canonical(t)
  BY <1>1, <1>2 DEF Base, Canonical
<1>4. PICK f : Read(s, f) /\ wcstol(s) = f[m]
  BY <1>1, wcstolReads DEF m
<1>5. PICK g : Read(t, g) /\ wcstol(t) = g[m + 1]
  BY <1>1, wcstolReads
<1>6. /\ \A k \in 1 .. m : f[k] = 10 * f[k - 1] + s[k]
      /\ \A k \in 1 .. m + 1 : g[k] = 10 * g[k - 1] + t[k]
      /\ f[0] = 0 /\ g[0] = 0
  <2>1. \A k \in 1 .. m : f[k] = 10 * f[k - 1] + s[k]
    BY <1>1, <1>3, <1>4, Uniform DEF m
  <2>2. \A k \in 1 .. Len(t) : g[k] = 10 * g[k - 1] + t[k]
    BY <1>1, <1>3, <1>5, Uniform
  <2> QED
    BY <1>1, <1>4, <1>5, <2>1, <2>2 DEF Read
<1> DEFINE T == {k \in Nat : k \in 0 .. m => f[k] = g[k]}
<1>7. 0 \in T
  BY <1>6
<1>8. ASSUME NEW k \in Nat, k \in T PROVE k + 1 \in T
  <2>1. SUFFICES ASSUME k + 1 \in 0 .. m PROVE f[k + 1] = g[k + 1]
    OBVIOUS
  <2>2. k + 1 \in 1 .. m /\ k + 1 \in 1 .. m + 1 /\ k \in 0 .. m /\ (k + 1) - 1 = k
    BY <1>1, <2>1
  <2> QED
    BY <1>1, <1>6, <1>8, <2>2
<1>9. Nat \subseteq T
  <2> HIDE DEF T
  <2> QED
    BY <1>7, <1>8, SetInduction
<1>10. f[m] = g[m] /\ g[m + 1] = 10 * g[m] + d
  <2>1. m \in 0 .. m /\ m + 1 \in 1 .. m + 1 /\ (m + 1) - 1 = m
    BY <1>1
  <2> QED
    BY <1>1, <1>6, <1>9, <2>1
<1> QED
  BY <1>3, <1>4, <1>5, <1>10 DEF t
---------------------------------------------------------------------------
(* DigitsOf.                                                               *)

Tens(k) == k \div 10
Ones(k) == k % 10

Writes(f, n) ==
  f = [k \in 0 .. n |-> IF k < 10 THEN <<k>> ELSE Append(f[Tens(k)], Ones(k))]

LEMMA Tenth ==
  ASSUME NEW k \in Nat, k >= 10
  PROVE  /\ Tens(k) \in Nat /\ 1 <= Tens(k) /\ Tens(k) < k /\ Ones(k) \in 0 .. 9
         /\ k = 10 * Tens(k) + Ones(k)
BY DEF Tens, Ones

LEMMA TenthOf ==
  ASSUME NEW v \in Nat, v >= 1, NEW d \in 0 .. 9
  PROVE  /\ 10 * v + d \in Nat /\ 10 * v + d >= 10
         /\ Tens(10 * v + d) = v /\ Ones(10 * v + d) = d
BY DEF Tens, Ones

LEMMA WritesExists == ASSUME NEW n \in Nat PROVE \E f : Writes(f, n)
<1> DEFINE T == {m \in Nat : \E f : Writes(f, m)}
<1>1. 0 \in T
  <2>1. Writes([k \in 0 .. 0 |-> <<k>>], 0)
    BY DEF Writes
  <2> QED
    BY <2>1
<1>2. ASSUME NEW m \in Nat, m \in T PROVE m + 1 \in T
  <2>1. PICK f : Writes(f, m)
    BY <1>2
  <2> DEFINE top == IF m + 1 < 10 THEN <<m + 1>> ELSE Append(f[Tens(m + 1)], Ones(m + 1))
             g == [k \in 0 .. m + 1 |-> IF k = m + 1 THEN top ELSE f[k]]
  <2>2. g = [k \in 0 .. m + 1 |-> g[k]] /\ g[m + 1] = top /\ \A k \in 0 .. m : g[k] = f[k]
    <3> HIDE DEF top
    <3> QED
      OBVIOUS
  <2>3. ASSUME NEW k \in 0 .. m + 1
        PROVE  g[k] = IF k < 10 THEN <<k>> ELSE Append(g[Tens(k)], Ones(k))
    <3> HIDE DEF g
    <3>1. CASE k < 10
      <4>1. k = m + 1 \/ (k \in 0 .. m /\ f[k] = <<k>>)
        BY <2>1, <3>1 DEF Writes
      <4> QED
        BY <2>2, <3>1, <4>1
    <3>2. CASE k >= 10
      <4>0. k \in Nat /\ k <= m + 1 /\ k >= 10
        BY <3>2
      <4>3. PICK q \in Nat : q = Tens(k) /\ q < k
        BY <4>0, Tenth
      <4>1. Tens(k) \in 0 .. m
        BY <4>0, <4>3
      <4>2. g[Tens(k)] = f[Tens(k)]
        BY <2>2, <4>1
      <4>4. CASE k = m + 1
        <5>1. g[k] = top /\ ~(m + 1 < 10)
          BY <2>2, <3>2, <4>4
        <5>2. g[k] = Append(f[Tens(k)], Ones(k))
          BY <4>4, <5>1
        <5> QED
          BY <3>2, <4>2, <5>2
      <4>5. CASE k \in 0 .. m
        <5>1. f[k] = IF k < 10 THEN <<k>> ELSE Append(f[Tens(k)], Ones(k))
          BY <2>1, <4>5 DEF Writes
        <5>2. g[k] = f[k]
          BY <2>2, <4>5
        <5> QED
          BY <4>2, <5>1, <5>2
      <4> QED
        BY <4>0, <4>4, <4>5
    <3> QED
      BY <3>1, <3>2
  <2>4. Writes(g, m + 1)
    <3> HIDE DEF g
    <3> QED
      BY <2>2, <2>3 DEF Writes
  <2> QED
    BY <2>4
<1>3. Nat \subseteq T
  <2> HIDE DEF T
  <2> QED
    BY <1>1, <1>2, SetInduction
<1> QED
  BY <1>3

LEMMA DigitsOfWrites ==
  ASSUME NEW n \in Nat
  PROVE  \E f : Writes(f, n) /\ DigitsOf(n) = f[n]
<1> DEFINE digits == CHOOSE f : Writes(f, n)
<1>1. Writes(digits, n)
  BY WritesExists
<1>2. DigitsOf(n) = digits[n]
  BY DEF DigitsOf, Writes, Tens, Ones
<1> QED
  BY <1>1, <1>2

LEMMA WritesAgree ==
  ASSUME NEW n \in Nat, NEW m \in Nat, NEW f, NEW g, Writes(f, n), Writes(g, m),
         NEW i \in Nat, i <= n, i <= m
  PROVE  f[i] = g[i]
<1> DEFINE D == {k \in Nat : k <= n /\ k <= m /\ f[k] # g[k]}
<1>1. SUFFICES ASSUME D # {} PROVE FALSE
  OBVIOUS
<1>2. PICK k \in D : \A j \in D : k <= j
  BY <1>1, LeastElement
<1>3. k \in 0 .. n /\ k \in 0 .. m /\ f[k] # g[k]
  BY <1>2
<1>4. /\ f[k] = IF k < 10 THEN <<k>> ELSE Append(f[Tens(k)], Ones(k))
      /\ g[k] = IF k < 10 THEN <<k>> ELSE Append(g[Tens(k)], Ones(k))
  BY <1>3 DEF Writes
<1>5. k \in Nat /\ k >= 10
  BY <1>3, <1>4
<1>6. Tens(k) \in Nat /\ Tens(k) < k
  BY <1>5, Tenth
<1>7. f[Tens(k)] = g[Tens(k)]
  BY <1>2, <1>3, <1>6
<1> QED
  BY <1>3, <1>4, <1>7

LEMMA DigitsOfDigit == ASSUME NEW d \in 0 .. 9 PROVE DigitsOf(d) = <<d>>
<1>1. PICK f : Writes(f, d) /\ DigitsOf(d) = f[d]
  BY DigitsOfWrites
<1>2. d \in 0 .. d /\ d < 10
  OBVIOUS
<1> QED
  BY <1>1, <1>2 DEF Writes

LEMMA DigitsOfMore ==
  ASSUME NEW n \in Nat, n >= 10
  PROVE  DigitsOf(n) = Append(DigitsOf(Tens(n)), Ones(n))
<1>1. PICK f : Writes(f, n) /\ DigitsOf(n) = f[n]
  BY DigitsOfWrites
<1>2. Tens(n) \in Nat /\ Tens(n) < n
  BY Tenth
<1>3. PICK g : Writes(g, Tens(n)) /\ DigitsOf(Tens(n)) = g[Tens(n)]
  BY <1>2, DigitsOfWrites
<1>4. f[Tens(n)] = g[Tens(n)]
  BY <1>1, <1>2, <1>3, WritesAgree
<1>5. n \in 0 .. n /\ ~(n < 10)
  OBVIOUS
<1>6. f[n] = IF n < 10 THEN <<n>> ELSE Append(f[Tens(n)], Ones(n))
  BY <1>1, <1>5 DEF Writes
<1> QED
  BY <1>1, <1>3, <1>4, <1>5, <1>6

(* What is written is canonical, and is read as the number it was.         *)
Reads(n) == /\ DigitsOf(n) \in Seq(0 .. 9)
            /\ n # 0 => Canonical(DigitsOf(n))
            /\ wcstol(DigitsOf(n)) = n

LEMMA NumberReadBack == ASSUME NEW i \in Nat PROVE Reads(i)
<1> DEFINE D == {k \in Nat : ~Reads(k)}
<1>1. SUFFICES ASSUME D # {} PROVE FALSE
  OBVIOUS
<1>2. PICK n \in D : \A j \in D : n <= j
  BY <1>1, LeastElement
<1>3. n \in Nat /\ ~Reads(n)
  BY <1>2
<1>4. CASE n < 10
  <2>1. n \in 0 .. 9
    BY <1>3, <1>4
  <2>2. DigitsOf(n) = <<n>> /\ wcstol(<<n>>) = n
    BY <2>1, DigitsOfDigit, wcstolDigit
  <2>3. <<n>> \in Seq(0 .. 9) /\ <<n>> # <<>> /\ <<n>>[1] = n
    BY <2>1
  <2> QED
    BY <1>3, <2>2, <2>3 DEF Reads, Canonical
<1>5. CASE n >= 10
  <2>1. /\ Tens(n) \in Nat /\ 1 <= Tens(n) /\ Tens(n) < n /\ Ones(n) \in 0 .. 9
        /\ n = 10 * Tens(n) + Ones(n)
    BY <1>3, <1>5, Tenth
  <2>2. Reads(Tens(n))
    <3>1. Tens(n) \notin D
      BY <1>2, <2>1
    <3> QED
      BY <2>1, <3>1
  <2>3. Canonical(DigitsOf(Tens(n))) /\ wcstol(DigitsOf(Tens(n))) = Tens(n)
    BY <2>1, <2>2 DEF Reads
  <2>4. DigitsOf(n) = Append(DigitsOf(Tens(n)), Ones(n))
    BY <1>3, <1>5, DigitsOfMore
  <2>5. Canonical(DigitsOf(n)) /\ wcstol(DigitsOf(n)) = n
    BY <2>1, <2>3, <2>4, wcstolAppend
  <2> QED
    BY <1>3, <2>5 DEF Reads, Canonical
<1> QED
  BY <1>3, <1>4, <1>5

LEMMA OneDigit ==
  ASSUME NEW s \in Seq(0 .. 9), Len(s) = 1
  PROVE  \E d \in 0 .. 9 : s = <<d>>
<1>1. s[1] \in 0 .. 9
  <2>1. 1 \in 1 .. Len(s)
    OBVIOUS
  <2> QED
    BY <2>1, ElementOfSeq
<1>2. s = <<s[1]>>
  <2> DEFINE u == <<s[1]>>
  <2>1. u \in Seq(0 .. 9) /\ Len(u) = 1 /\ u[1] = s[1]
    BY <1>1
  <2> HIDE DEF u
  <2>2. s = u
    BY <2>1, SeqEqual
  <2> QED
    BY <2>2 DEF u
<1> QED
  BY <1>1, <1>2

(* A canonical number is written as it was read.                           *)
Rewritten(s) == wcstol(s) >= 1 /\ DigitsOf(wcstol(s)) = s

LEMMA NumberKept == ASSUME NEW t, Canonical(t) PROVE wcstol(t) \in Nat /\ Rewritten(t)
<1> DEFINE Bad(s) == Canonical(s) /\ ~Rewritten(s)
           D == {n \in Nat : \E s : Bad(s) /\ Len(s) = n}
<1>1. Len(t) \in Nat /\ wcstol(t) \in Nat
  BY wcstolNat DEF Canonical
<1>2. SUFFICES ASSUME D # {} PROVE FALSE
  BY <1>1
<1>3. PICK n \in D : \A j \in D : n <= j
  <2> HIDE DEF Bad
  <2> QED
    BY <1>2, LeastElement
<1>4. PICK s : Bad(s) /\ Len(s) = n
  BY <1>3
<1>5. s \in Seq(0 .. 9) /\ n \in Nat /\ n >= 1 /\ s[1] # 0
  BY <1>3, <1>4 DEF Canonical
<1>6. CASE n = 1
  <2>1. PICK d \in 0 .. 9 : s = <<d>>
    BY <1>4, <1>5, <1>6, OneDigit
  <2>2. wcstol(s) = d /\ DigitsOf(d) = s
    BY <2>1, wcstolDigit, DigitsOfDigit
  <2>3. d >= 1
    BY <1>5, <2>1
  <2> QED
    BY <1>4, <2>2, <2>3 DEF Rewritten
<1>7. CASE n > 1
  <2> DEFINE front == [k \in 1 .. n - 1 |-> s[k]]
             v == wcstol(front)
  <2>1. front \in Seq(0 .. 9) /\ Len(front) = n - 1 /\ s[n] \in 0 .. 9
    BY <1>4, <1>5, <1>7, ElementOfSeq
  <2>2. s = Append(front, s[n])
    BY <1>4, <1>5, <1>7
  <2>3. front[1] = s[1] /\ front # <<>>
    BY <1>5, <1>7, <2>1
  <2>4. Canonical(front)
    BY <1>5, <2>1, <2>3 DEF Canonical
  <2> HIDE DEF front
  <2>5. Rewritten(front)
    <3>1. n - 1 \in Nat /\ n - 1 \notin D
      BY <1>3, <1>5
    <3> QED
      BY <2>1, <2>4, <3>1
  <2>6. v \in Nat /\ v >= 1 /\ DigitsOf(v) = front
    BY <2>1, <2>5, wcstolNat DEF Rewritten
  <2>7. wcstol(s) = 10 * v + s[n]
    BY <2>1, <2>2, <2>4, wcstolAppend
  <2> HIDE DEF v
  <2>8. /\ 10 * v + s[n] \in Nat /\ 10 * v + s[n] >= 10
        /\ Tens(10 * v + s[n]) = v /\ Ones(10 * v + s[n]) = s[n]
    BY <2>1, <2>6, TenthOf
  <2>9. DigitsOf(10 * v + s[n]) = Append(front, s[n])
    BY <2>6, <2>8, DigitsOfMore
  <2> QED
    BY <1>4, <2>2, <2>7, <2>8, <2>9 DEF Rewritten
<1> QED
  BY <1>5, <1>6, <1>7
---------------------------------------------------------------------------
(* Loading zemu.ini.                                                       *)

\* A key that is there holds a number.
Number(key) == key = <<>> \/ key[1] \in Seq(0 .. 9)

LEMMA GetNumNat ==
  ASSUME NEW section, NEW key, NEW n \in Nat, Number(zemu_ini[section][key])
  PROVE  GetNum(section, key, n) \in Nat
<1>1. DigitsOf(n) \in Seq(0 .. 9)
  BY NumberReadBack DEF Reads
<1>2. Get(section, key, DigitsOf(n)) \in Seq(0 .. 9)
  BY <1>1 DEF Get, Number
<1> QED
  BY <1>2, wcstolNat DEF GetNum

\* What snprintf wrote, get_ini_num reads.
LEMMA GetNumWritten ==
  ASSUME NEW section, NEW key, NEW n, NEW v \in Nat, zemu_ini[section][key] = <<DigitsOf(v)>>
  PROVE  GetNum(section, key, n) = v
<1>1. Get(section, key, DigitsOf(n)) = DigitsOf(v)
  BY DEF Get
<1> QED
  BY <1>1, NumberReadBack DEF GetNum, Reads

LEMMA KeysOK ==
  ASSUME FileOK, NEW arch \in Archs
  PROVE  /\ Number(zemu_ini[arch]["smp"]) /\ Number(zemu_ini[arch]["accel"])
         /\ Number(zemu_ini[arch]["irqchip"]) /\ Number(zemu_ini[arch]["fw"])
         /\ Number(zemu_ini[arch]["boot"])
BY DEF FileOK, Number

LEMMA SmpCanonical ==
  ASSUME FileOK, NEW arch \in Archs
  PROVE  Canonical(LoadedSmp(arch))
<1> DEFINE num == GetNum(arch, "smp", 4)
<1>1. num \in Nat
  BY KeysOK, GetNumNat
<1> HIDE DEF num
<1> DEFINE n == IF num <= 0 THEN 1 ELSE num
<1>2. n \in Nat /\ n # 0
  BY <1>1
<1>3. LoadedSmp(arch) = DigitsOf(n)
  BY DEF LoadedSmp, num
<1> HIDE DEF n
<1> QED
  BY <1>2, <1>3, NumberReadBack DEF Reads

LEMMA FwLoaded ==
  ASSUME FileOK, NEW arch \in Archs
  PROVE  LoadedFw(arch) \in FwMin(arch) .. FwMax(arch) /\ LoadedFw(arch) \in OfferedFw(arch)
<1> DEFINE fw == IF arch = "X64" THEN X64_EFI ELSE AA64_EFI
           num == GetNum(arch, "fw", fw)
<1>1. fw \in Nat
  BY DEF X64_EFI, AA64_EFI
<1>2. num \in Nat
  <2> HIDE DEF fw
  <2> QED
    BY <1>1, KeysOK, GetNumNat
<1>3. LoadedFw(arch) = Within(num, FwMin(arch), FwMax(arch), fw)
  BY DEF LoadedFw
<1> HIDE DEF num
<1>4. CASE arch = "X64"
  BY <1>2, <1>3, <1>4
     DEF Within, FwMin, FwMax, OfferedFw, X64_EFI, X86_BIOS, X86_EFI, AA64_EFI, ARM32_EFI
<1>5. CASE arch = "AA64"
  BY <1>2, <1>3, <1>5
     DEF Within, FwMin, FwMax, OfferedFw, X64_EFI, X86_BIOS, X86_EFI, AA64_EFI, ARM32_EFI
<1> QED
  BY <1>4, <1>5 DEF Archs

LEMMA Clamped ==
  ASSUME NEW n \in Nat, NEW max \in Nat
  PROVE  Within(n, 0, max, 0) \in 0 .. max
BY DEF Within

LEMMA ProfileLoaded ==
  ASSUME FileOK, NEW arch \in Archs
  PROVE  /\ IsProfile(arch, get_profile(arch))
         /\ Canonical(get_profile(arch).smp)
         /\ get_profile(arch).fw \in FwMin(arch) .. FwMax(arch)
<1> DEFINE p == get_profile(arch)
<1>1. DOMAIN p = Fields
  BY DEF get_profile, Fields
<1>2. p.smp = LoadedSmp(arch) /\ p.fw = LoadedFw(arch)
  BY DEF get_profile
<1>3. p.accel \in Accels
  <2>1. GetNum(arch, "accel", 0) \in Nat
    BY KeysOK, GetNumNat
  <2>2. p.accel = Within(GetNum(arch, "accel", 0), 0, 3, 0)
    BY DEF get_profile
  <2> QED
    BY <2>1, <2>2, Clamped DEF Accels
<1>4. p.boot \in 0 .. BOOT_MAX - 1
  <2>1. GetNum(arch, "boot", 0) \in Nat
    BY KeysOK, GetNumNat
  <2>2. p.boot = Within(GetNum(arch, "boot", 0), 0, 8, 0)
    BY DEF get_profile, BootVHD, BOOT_MAX
  <2> QED
    <3>1. Within(GetNum(arch, "boot", 0), 0, 8, 0) \in 0 .. 8
      BY <2>1, Clamped
    <3> HIDE DEF p
    <3> QED
      BY <2>2, <3>1 DEF BOOT_MAX
<1>5. p.irqchip \in BOOLEAN
  BY DEF get_profile
<1> HIDE DEF p
<1>6. Canonical(p.smp) /\ p.fw \in FwMin(arch) .. FwMax(arch) /\ p.fw \in OfferedFw(arch)
  BY <1>2, SmpCanonical, FwLoaded
<1>7. p.smp \in Seq(0 .. 9)
  BY <1>6 DEF Canonical
<1>8. IsProfile(arch, p)
  BY <1>1, <1>3, <1>4, <1>5, <1>6, <1>7 DEF IsProfile
<1> QED
  BY <1>6, <1>8 DEF p

\* What is loaded from a file that holds a profile, next to that profile.
LEMMA ProfileHeld ==
  ASSUME NEW arch \in Archs, NEW was, IsProfile(arch, was), FileHolds(arch, was)
  PROVE  LET now == get_profile(arch)
         IN  /\ now.model = was.model /\ now.accel = was.accel
             /\ now.irqchip = was.irqchip /\ now.boot = was.boot
             /\ was.smp # <<>> /\ was.smp[1] # 0 => now.smp = was.smp
             /\ was.netmac # "" => now.netmac = was.netmac
             /\ now.fw = was.fw \/ was.fw = ARM32_EFI
<1> DEFINE now == get_profile(arch)
<1>1. now.model = was.model
  <2>1. now.model = Get(arch, "model", "default") /\ zemu_ini[arch]["model"] = <<was.model>>
    BY DEF get_profile, FileHolds
  <2> QED
    BY <2>1 DEF Get
<1>2. now.accel = was.accel
  <2>1. was.accel \in 0 .. 3 /\ zemu_ini[arch]["accel"] = <<DigitsOf(was.accel)>>
    BY DEF FileHolds, IsProfile, Accels
  <2>2. GetNum(arch, "accel", 0) = was.accel
    BY <2>1, GetNumWritten
  <2>3. now.accel = Within(GetNum(arch, "accel", 0), 0, 3, 0)
    BY DEF get_profile
  <2> QED
    BY <2>1, <2>2, <2>3 DEF Within
<1>3. now.irqchip = was.irqchip
  <2>1. now.irqchip = (GetNum(arch, "irqchip", 0) # 0)
    BY DEF get_profile
  <2>2. CASE was.irqchip = TRUE
    <3>1. zemu_ini[arch]["irqchip"] = <<DigitsOf(1)>>
      BY <2>2 DEF FileHolds
    <3>2. GetNum(arch, "irqchip", 0) = 1
      BY <3>1, GetNumWritten
    <3> HIDE DEF now
    <3>3. (GetNum(arch, "irqchip", 0) # 0) = TRUE
      BY <3>2
    <3>4. now.irqchip = TRUE
      BY <2>1, <3>3, Zenon
    <3> QED
      BY <2>2, <3>4
  <2>3. CASE was.irqchip = FALSE
    <3>1. zemu_ini[arch]["irqchip"] = <<DigitsOf(0)>>
      BY <2>3 DEF FileHolds
    <3>2. GetNum(arch, "irqchip", 0) = 0
      BY <3>1, GetNumWritten
    <3> HIDE DEF now
    <3>3. now.irqchip = FALSE
      BY <2>1, <3>2
    <3> QED
      BY <2>3, <3>3
  <2> QED
    BY <2>2, <2>3 DEF IsProfile
<1>4. now.boot = was.boot
  <2>1. was.boot \in 0 .. 8 /\ zemu_ini[arch]["boot"] = <<DigitsOf(was.boot)>>
    <3>1. was.boot \in 0 .. 8
      BY DEF IsProfile, BOOT_MAX
    <3>2. zemu_ini[arch]["boot"] = <<DigitsOf(was.boot)>>
      BY DEF FileHolds
    <3> QED
      BY <3>1, <3>2
  <2>2. GetNum(arch, "boot", 0) = was.boot
    BY <2>1, GetNumWritten
  <2>3. now.boot = Within(GetNum(arch, "boot", 0), 0, 8, 0)
    BY DEF get_profile, BOOT_MAX, BootVHD
  <2> QED
    BY <2>1, <2>2, <2>3 DEF Within
<1>5. ASSUME was.smp # <<>>, was.smp[1] # 0 PROVE now.smp = was.smp
  <2>1. Canonical(was.smp)
    BY <1>5 DEF Canonical, IsProfile
  <2>2. GetNum(arch, "smp", 4) = wcstol(was.smp)
    <3>1. zemu_ini[arch]["smp"] = <<was.smp>>
      BY DEF FileHolds
    <3>2. Get(arch, "smp", DigitsOf(4)) = was.smp
      BY <3>1 DEF Get
    <3> QED
      BY <3>2 DEF GetNum
  <2>3. wcstol(was.smp) \in Nat /\ wcstol(was.smp) >= 1 /\ DigitsOf(wcstol(was.smp)) = was.smp
    BY <2>1, NumberKept DEF Rewritten
  <2>4. now.smp = DigitsOf(IF wcstol(was.smp) <= 0 THEN 1 ELSE wcstol(was.smp))
    BY <2>2 DEF get_profile, LoadedSmp
  <2> QED
    BY <2>3, <2>4
<1>6. ASSUME was.netmac # "" PROVE now.netmac = was.netmac
  <2>1. now.netmac = Get(arch, "netmac", "") /\ zemu_ini[arch]["netmac"] = <<was.netmac>>
    BY <1>6 DEF get_profile, FileHolds
  <2> QED
    BY <2>1 DEF Get
<1>7. now.fw = was.fw \/ was.fw = ARM32_EFI
  <2> DEFINE fw == IF arch = "X64" THEN X64_EFI ELSE AA64_EFI
  <2>1. was.fw \in Nat /\ was.fw \in OfferedFw(arch)
    BY DEF IsProfile, OfferedFw, X64_EFI, X86_BIOS, X86_EFI, AA64_EFI, ARM32_EFI
  <2>2. zemu_ini[arch]["fw"] = <<DigitsOf(was.fw)>>
    BY DEF FileHolds
  <2>3. GetNum(arch, "fw", fw) = was.fw
    <3> HIDE DEF fw
    <3> QED
      BY <2>1, <2>2, GetNumWritten
  <2>4. now.fw = Within(GetNum(arch, "fw", fw), FwMin(arch), FwMax(arch), fw)
    BY DEF get_profile, LoadedFw
  <2>5. now.fw = Within(was.fw, FwMin(arch), FwMax(arch), fw)
    BY <2>3, <2>4
  <2> HIDE DEF now
  <2> QED
    BY <2>1, <2>5 DEF Archs, OfferedFw, Within, FwMin, FwMax,
                      X64_EFI, X86_BIOS, X86_EFI, AA64_EFI, ARM32_EFI
<1> QED
  BY <1>1, <1>2, <1>3, <1>4, <1>5, <1>6, <1>7

LEMMA ArchHeld ==
  ASSUME NEW arch \in Archs,
         zemu_ini["Qemu"].arch = <<DigitsOf(IF arch = "X64" THEN 0 ELSE 1)>>
  PROVE  LoadedArch = arch
<1> DEFINE n == IF arch = "X64" THEN 0 ELSE 1
<1>1. n \in 0 .. 1
  OBVIOUS
<1>2. GetNum("Qemu", "arch", 0) = n
  <2> HIDE DEF n
  <2> QED
    BY <1>1, GetNumWritten DEF n
<1> QED
  BY <1>2 DEF LoadedArch, Within, Archs
---------------------------------------------------------------------------
(* The steps.                                                              *)

\* What is loaded from a file that keeps the invariant satisfies it.
Loads == qemu_arch = LoadedArch /\ profile = LoadedProfiles /\ fresh = TRUE

LEMMA LoadInv ==
  ASSUME FileOK, SavedHeld, Loads
  PROVE  SettingsInv
<1>1. \A arch \in Archs : profile[arch] = get_profile(arch)
  BY DEF Loads, LoadedProfiles
<1>2. qemu_arch \in Archs /\ DOMAIN profile = Archs
  BY DEF Loads, LoadedArch, LoadedProfiles, Archs
<1>3. ASSUME NEW arch \in Archs
      PROVE  /\ IsProfile(arch, profile[arch]) /\ Canonical(profile[arch].smp)
             /\ profile[arch].fw \in FwMin(arch) .. FwMax(arch)
  BY <1>1, ProfileLoaded
<1>4. ProfilesOK
  BY <1>2, <1>3 DEF ProfilesOK
<1>5. ASSUME saved # <<>>
      PROVE  qemu_arch = saved[1].qemu_arch
  <2>1. /\ saved[1].qemu_arch \in Archs
        /\ zemu_ini["Qemu"].arch = <<DigitsOf(IF saved[1].qemu_arch = "X64" THEN 0 ELSE 1)>>
    BY <1>5 DEF SavedHeld
  <2> QED
    BY <2>1, ArchHeld DEF Loads
<1>6. ASSUME saved # <<>>, NEW arch \in Archs
      PROVE  LET now == profile[arch]
                 was == saved[1].profile[arch]
             IN  /\ \A field \in {"model", "accel", "irqchip", "boot"} : now[field] = was[field]
                 /\ was.smp # <<>> /\ was.smp[1] # 0 => now.smp = was.smp
                 /\ now.smp # <<>> /\ now.smp[1] # 0
                 /\ was.netmac # "" => now.netmac = was.netmac
                 /\ now.fw = was.fw \/ was.fw = ARM32_EFI
  <2> DEFINE now == profile[arch]
             was == saved[1].profile[arch]
  <2>1. now = get_profile(arch) /\ Canonical(now.smp)
    BY <1>1, <1>3
  <2>2. IsProfile(arch, was) /\ FileHolds(arch, was)
    BY <1>6 DEF SavedHeld
  <2> HIDE DEF now, was
  <2>3. /\ now.model = was.model /\ now.accel = was.accel
        /\ now.irqchip = was.irqchip /\ now.boot = was.boot
        /\ was.smp # <<>> /\ was.smp[1] # 0 => now.smp = was.smp
        /\ was.netmac # "" => now.netmac = was.netmac
        /\ now.fw = was.fw \/ was.fw = ARM32_EFI
    BY <2>1, <2>2, ProfileHeld
  <2>4. now.smp # <<>> /\ now.smp[1] # 0
    BY <2>1 DEF Canonical
  <2>5. \A field \in {"model", "accel", "irqchip", "boot"} : now[field] = was[field]
    BY <2>3
  <2> QED
    BY <2>3, <2>4, <2>5 DEF now, was
<1>7. ASSUME NEW arch \in Archs
      PROVE  /\ profile[arch].fw \in OfferedFw(arch) /\ profile[arch].accel \in Accels
             /\ profile[arch].boot \in 0 .. BOOT_MAX - 1
  BY <1>3 DEF IsProfile
<1>8. SettingsLoaded
  BY <1>5, <1>6, <1>7 DEF SettingsLoaded
<1> QED
  BY <1>4, <1>8 DEF SettingsInv

LEMMA SettingsInitInv == ASSUME SettingsAssumption, SettingsInit PROVE SettingsInv
<1>1. zemu_ini \in Inis /\ saved = <<>> /\ Loads
  BY DEF SettingsInit, Loads
<1>2. FileOK
  <2>1. ASSUME NEW arch \in Archs, NEW key \in {"smp", "accel", "irqchip", "fw", "boot"}
        PROVE  zemu_ini[arch][key] = <<>> \/ zemu_ini[arch][key][1] \in Seq(0 .. 9)
    BY <1>1 DEF SettingsAssumption, Archs, IsNumberKey, IsNumber
  <2>2. zemu_ini["Qemu"].arch = <<>> \/ zemu_ini["Qemu"].arch[1] \in Seq(0 .. 9)
    BY <1>1 DEF SettingsAssumption, IsNumberKey, IsNumber
  <2> QED
    BY <2>1, <2>2 DEF FileOK
<1>3. SavedHeld
  BY <1>1 DEF SavedHeld
<1> QED
  BY <1>1, <1>2, <1>3, LoadInv

LEMMA EditInv ==
  ASSUME SettingsAssumption, SettingsInv, NEW field \in DOMAIN profile[qemu_arch], Edit(field)
  PROVE  SettingsInv'
<1>1. qemu_arch \in Archs /\ IsProfile(qemu_arch, profile[qemu_arch]) /\ field \in Fields
  BY DEF SettingsInv, ProfilesOK, IsProfile
<1>2. PICK v \in Choice(field) : profile' = [profile EXCEPT ![qemu_arch][field] = v]
  BY DEF Edit
<1>3. /\ zemu_ini' = zemu_ini /\ qemu_arch' = qemu_arch /\ saved' = saved /\ fresh' = FALSE
  BY DEF Edit, Edited
<1> DEFINE p == profile[qemu_arch]
           q == [p EXCEPT ![field] = v]
<1>4. IsProfile(qemu_arch, q)
  <2>0. DOMAIN q = Fields /\ q[field] = v /\ \A f \in Fields : f # field => q[f] = p[f]
    BY <1>1 DEF IsProfile
  <2>1. /\ p.smp \in Seq(0 .. 9) /\ p.accel \in Accels /\ p.irqchip \in BOOLEAN
        /\ p.fw \in OfferedFw(qemu_arch) /\ p.boot \in 0 .. BOOT_MAX - 1
    BY <1>1 DEF IsProfile
  <2>2. /\ field = "smp" => v \in Seq(0 .. 9)
        /\ field = "accel" => v \in Accels
        /\ field = "irqchip" => v \in BOOLEAN
        /\ field = "fw" => v \in OfferedFw(qemu_arch)
        /\ field = "boot" => v \in 0 .. BOOT_MAX - 1
    <3>1. CASE field = "smp"
      BY <1>2, <3>1 DEF Choice, SettingsAssumption, IsNumber
    <3>2. CASE field = "accel"
      BY <1>2, <3>2 DEF Choice
    <3>3. CASE field = "irqchip"
      BY <1>2, <3>3 DEF Choice
    <3>4. CASE field = "fw"
      BY <1>2, <3>4 DEF Choice
    <3>5. CASE field = "boot"
      BY <1>2, <3>5 DEF Choice, OfferedBoot, BootTargets, BootVHD, BootVFD, BootWIM, BootDIR, BOOT_MAX
    <3> QED
      BY <3>1, <3>2, <3>3, <3>4, <3>5
  <2> HIDE DEF p, q
  <2>3. q.smp \in Seq(0 .. 9)
    BY <2>0, <2>1, <2>2 DEF Fields
  <2>4. q.accel \in Accels
    BY <2>0, <2>1, <2>2 DEF Fields
  <2>5. q.irqchip \in BOOLEAN
    <3>1. CASE field = "irqchip"
      BY <2>0, <2>2, <3>1
    <3>2. CASE field # "irqchip"
      BY <2>0, <2>1, <3>2 DEF Fields
    <3> QED
      BY <3>1, <3>2
  <2>6. q.fw \in OfferedFw(qemu_arch)
    BY <2>0, <2>1, <2>2 DEF Fields
  <2>7. q.boot \in 0 .. BOOT_MAX - 1
    BY <2>0, <2>1, <2>2 DEF Fields
  <2> QED
    BY <2>0, <2>3, <2>4, <2>5, <2>6, <2>7 DEF IsProfile
<1>5. /\ DOMAIN profile' = Archs
      /\ \A arch \in Archs : profile'[arch] = IF arch = qemu_arch THEN q ELSE profile[arch]
  BY <1>1, <1>2 DEF SettingsInv, ProfilesOK
<1> HIDE DEF q
<1>6. ASSUME NEW arch \in Archs PROVE IsProfile(arch, profile'[arch])
  BY <1>4, <1>5 DEF SettingsInv, ProfilesOK
<1>7. ProfilesOK'
  BY <1>1, <1>3, <1>5, <1>6 DEF ProfilesOK
<1>8. FileOK'
  BY <1>3 DEF SettingsInv, FileOK
<1>9. SavedHeld'
  BY <1>3 DEF SettingsInv, SavedHeld, FileHolds
<1>10. SettingsLoaded'
  BY <1>3 DEF SettingsLoaded
<1> QED
  BY <1>7, <1>8, <1>9, <1>10 DEF SettingsInv

LEMMA ChooseArchInv ==
  ASSUME SettingsInv, NEW arch \in Archs, ChooseArch(arch)
  PROVE  SettingsInv'
<1>1. /\ zemu_ini' = zemu_ini /\ profile' = profile /\ saved' = saved
      /\ qemu_arch' = arch /\ fresh' = FALSE
  BY DEF ChooseArch, Edited
<1>2. FileOK' /\ SettingsLoaded'
  BY <1>1 DEF SettingsInv, FileOK, SettingsLoaded
<1>3. ProfilesOK'
  BY <1>1 DEF SettingsInv, ProfilesOK
<1>4. SavedHeld'
  BY <1>1 DEF SettingsInv, SavedHeld, FileHolds
<1> QED
  BY <1>2, <1>3, <1>4 DEF SettingsInv

LEMMA SaveSettingsInv == ASSUME SettingsInv, ui_ini_save PROVE SettingsInv'
<1>1. /\ qemu_arch' = qemu_arch /\ profile' = profile /\ fresh' = fresh
      /\ saved' = <<[qemu_arch |-> qemu_arch, profile |-> profile]>>
  BY DEF ui_ini_save
<1>2. /\ \A arch \in Archs : zemu_ini'[arch] = set_profile(arch)
      /\ zemu_ini'["Qemu"].arch = <<DigitsOf(IF qemu_arch = "X64" THEN 0 ELSE 1)>>
  BY DEF ui_ini_save, Archs
<1>3. /\ qemu_arch \in Archs /\ FileOK
      /\ \A arch \in Archs : IsProfile(arch, profile[arch])
  BY DEF SettingsInv, ProfilesOK
<1>4. ASSUME NEW n \in Nat PROVE DigitsOf(n) \in Seq(0 .. 9)
  BY NumberReadBack DEF Reads
<1>5. ProfilesOK'
  BY <1>1 DEF SettingsInv, ProfilesOK
<1>6. FileOK'
  <2>1. ASSUME NEW arch \in Archs, NEW key \in {"smp", "accel", "irqchip", "fw", "boot"}
        PROVE  zemu_ini'[arch][key][1] \in Seq(0 .. 9)
    <3> DEFINE p == profile[arch]
    <3>1. /\ p.smp \in Seq(0 .. 9) /\ p.accel \in Nat
          /\ (IF p.irqchip THEN 1 ELSE 0) \in Nat
      BY <1>3 DEF IsProfile, Accels
    <3>2. p.fw \in Nat /\ p.boot \in Nat
      BY <1>3 DEF IsProfile, OfferedFw, X64_EFI, X86_BIOS, X86_EFI, AA64_EFI, ARM32_EFI, BOOT_MAX
    <3>3. /\ set_profile(arch)["smp"][1] = p.smp
          /\ set_profile(arch)["accel"][1] = DigitsOf(p.accel)
          /\ set_profile(arch)["irqchip"][1] = DigitsOf(IF p.irqchip THEN 1 ELSE 0)
          /\ set_profile(arch)["fw"][1] = DigitsOf(p.fw)
          /\ set_profile(arch)["boot"][1] = DigitsOf(p.boot)
      BY DEF set_profile
    <3> HIDE DEF p
    <3> QED
      BY <1>2, <1>4, <3>1, <3>2, <3>3
  <2>2. zemu_ini'["Qemu"].arch[1] \in Seq(0 .. 9)
    BY <1>2, <1>4
  <2> QED
    BY <2>1, <2>2 DEF FileOK
<1>7. SavedHeld'
  <2>1. ASSUME NEW arch \in Archs PROVE FileHolds(arch, profile[arch])'
    <3> DEFINE p == profile[arch]
               keys == set_profile(arch)
    <3>1. zemu_ini'[arch] = keys /\ profile'[arch] = p
      BY <1>1, <1>2
    <3>2. /\ keys.smp = <<p.smp>> /\ keys.model = <<p.model>> /\ keys.accel = <<DigitsOf(p.accel)>>
          /\ keys.irqchip = <<DigitsOf(IF p.irqchip THEN 1 ELSE 0)>>
          /\ p.netmac # "" => keys.netmac = <<p.netmac>>
          /\ keys.fw = <<DigitsOf(p.fw)>> /\ keys.boot = <<DigitsOf(p.boot)>>
      BY DEF set_profile
    <3> HIDE DEF p, keys
    <3> QED
      BY <3>1, <3>2 DEF FileHolds
  <2>2. saved'[1].qemu_arch = qemu_arch /\ saved'[1].profile = profile
    BY <1>1
  <2> QED
    BY <1>1, <1>2, <1>3, <2>1, <2>2 DEF SavedHeld, FileHolds
<1>8. SettingsLoaded'
  <2>1. SUFFICES ASSUME fresh PROVE SettingsLoaded'
    BY <1>1 DEF SettingsLoaded
  <2>2. saved'[1].qemu_arch = qemu_arch /\ saved'[1].profile = profile
    BY <1>1
  <2>3. \A arch \in Archs : /\ profile[arch].fw \in OfferedFw(arch)
                            /\ profile[arch].accel \in Accels
                            /\ profile[arch].boot \in 0 .. BOOT_MAX - 1
                            /\ profile[arch].smp # <<>> /\ profile[arch].smp[1] # 0
    BY <2>1 DEF SettingsInv, ProfilesOK, IsProfile, Canonical
  <2> QED
    BY <1>1, <2>2, <2>3 DEF SettingsLoaded
<1> QED
  BY <1>5, <1>6, <1>7, <1>8 DEF SettingsInv

LEMMA LoadInvAfter == FileOK' /\ SavedHeld' /\ Loads' => SettingsInv'
<1>1. FileOK /\ SavedHeld /\ Loads => SettingsInv
  BY LoadInv
<1> QED
  BY <1>1, PTL

LEMMA ReloadInv == ASSUME SettingsInv, Reload PROVE SettingsInv'
<1>1. /\ zemu_ini' = zemu_ini /\ saved' = saved
      /\ qemu_arch' = LoadedArch /\ profile' = LoadedProfiles /\ fresh' = TRUE
  BY DEF Reload
<1>2. LoadedArch' = LoadedArch
  BY <1>1 DEF LoadedArch, GetNum, Get
<1>3. LoadedProfiles' = LoadedProfiles
  BY <1>1 DEF LoadedProfiles, get_profile, LoadedSmp, LoadedFw, GetNum, Get
<1>4. Loads'
  BY <1>1, <1>2, <1>3 DEF Loads
<1>5. FileOK' /\ SavedHeld'
  BY <1>1 DEF SettingsInv, FileOK, SavedHeld, FileHolds
<1> QED
  BY <1>4, <1>5, LoadInvAfter

LEMMA SettingsStepInv ==
  ASSUME SettingsAssumption, SettingsInv, [SettingsNext]_settingsVars
  PROVE  SettingsInv'
<1>1. ASSUME NEW field \in DOMAIN profile[qemu_arch], Edit(field) PROVE SettingsInv'
  BY <1>1, EditInv
<1>2. ASSUME NEW arch \in Archs, ChooseArch(arch) PROVE SettingsInv'
  BY <1>2, ChooseArchInv
<1>3. CASE ui_ini_save
  BY <1>3, SaveSettingsInv
<1>4. CASE Reload
  BY <1>4, ReloadInv
<1>5. CASE UNCHANGED settingsVars
  <2>1. /\ zemu_ini' = zemu_ini /\ qemu_arch' = qemu_arch /\ profile' = profile
        /\ saved' = saved /\ fresh' = fresh
    BY <1>5 DEF settingsVars
  <2> QED
    BY <2>1 DEF SettingsInv, FileOK, ProfilesOK, SavedHeld, FileHolds, SettingsLoaded
<1> QED
  BY <1>1, <1>2, <1>3, <1>4, <1>5 DEF SettingsNext

(* Whatever was in zemu.ini, whatever is chosen and saved, in any order:   *)
(* what is loaded selects entries of the lists it indexes and is what was  *)
(* saved last, but for the three things SettingsLoaded names (ui.c:51-95,  *)
(* 153-199, ini.c:82-105).                                                 *)
THEOREM SettingsReload == ASSUME SettingsAssumption PROVE SettingsSpec => []SettingsLoaded
<1>1. SettingsInit => SettingsInv
  BY SettingsInitInv
<1>2. SettingsInv /\ [SettingsNext]_settingsVars => SettingsInv'
  BY SettingsStepInv
<1>3. SettingsInv => SettingsLoaded
  BY DEF SettingsInv
<1> QED
  BY <1>1, <1>2, <1>3, PTL DEF SettingsSpec
(***************************************************************************)
(* Session, for any number of processes and connections.                   *)
(***************************************************************************)
(* The launcher holds no process it could still be running.                *)
NoneActive == handle = Null \/ proc[handle] = "exited"

(* What the UI thread knows at each step of the frame: Start is offered,   *)
(* and ews_stop entered, only without a live QEMU, and the server is down  *)
(* when Start is offered or the launcher is gone.                          *)
FrameInv ==
  /\ ui = "button" /\ ~is_running => NoneActive
  /\ phase \in {"stopping", "draining"} => NoneActive /\ ui \in {"mem", "start", "end"}
  /\ ui = "gone" => phase = "off"

(* The inductive invariant of Session, from which the safety properties    *)
(* follow (ui_start.c:70-87 and 118-244).                                  *)
IInv == TypeOK /\ NeverLost /\ NoSecondServer /\ ServerOwned /\ FrameInv

USE NullAssumption

LEMMA InitInv == Init => IInv
BY DEF Init, Server!SInit, IInv, TypeOK, NeverLost, NoSecondServer, ServerOwned, FrameInv,
       NoneActive, UiStates, ProcStates, ReaderStates, Phases
---------------------------------------------------------------------------
(* Finding QEMU running or not at one of the three checks.                 *)
LEMMA CheckStep ==
  ASSUME NEW at \in {"mem", "start", "end"}, NEW next \in {"mem", "start", "button"},
         \/ at = "mem" /\ next = "start"
         \/ at = "start" /\ next = "button"
         \/ at = "end" /\ next = "mem",
         IInv, CheckRunning(at, next)
  PROVE  IInv'
<1> USE DEF IInv, NoneActive, procs, server
<1>1. CASE FoundRunning(at, next)
  BY <1>1 DEF FoundRunning, StillActive, TypeOK, NeverLost, NoSecondServer, ServerOwned,
              FrameInv, UiStates
<1>2. CASE FoundStopped(at, next)
  BY <1>2 DEF FoundStopped, StillActive, TypeOK, NeverLost, NoSecondServer, ServerOwned,
              FrameInv, UiStates, ProcStates
<1>3. CASE EnterStop(at)
  BY <1>3 DEF EnterStop, Server!SStop, StillActive, TypeOK, NeverLost, NoSecondServer,
              ServerOwned, FrameInv, UiStates, Phases
<1>4. CASE LeaveStop(at, next)
  BY <1>4 DEF LeaveStop, Server!SOff, TypeOK, NeverLost, NoSecondServer, ServerOwned,
              FrameInv, UiStates, Phases
<1> QED
  BY <1>1, <1>2, <1>3, <1>4 DEF CheckRunning

(* Every step keeps the invariant.                                         *)
LEMMA StepInv == IInv /\ [Next]_vars => IInv'
<1> SUFFICES ASSUME IInv, [Next]_vars PROVE IInv'
  OBVIOUS
<1>1. CASE CheckMem \/ CheckStart \/ CheckEnd
  <2>1. CASE CheckRunning("mem", "start")
    BY <2>1, CheckStep
  <2>2. CASE CheckRunning("start", "button")
    BY <2>2, CheckStep
  <2>3. CASE CheckRunning("end", "mem")
    BY <2>3, CheckStep
  <2> QED
    BY <1>1, <2>1, <2>2, <2>3 DEF CheckMem, CheckStart, CheckEnd
<1> USE DEF IInv, procs, server
<1>2. CASE NoClick
  BY <1>2 DEF NoClick, TypeOK, NeverLost, NoSecondServer, ServerOwned, FrameInv,
              NoneActive, UiStates
<1>3. CASE StartFailed
  BY <1>3 DEF StartFailed, Server!SStart, TypeOK, NeverLost, NoSecondServer, ServerOwned,
              FrameInv, NoneActive, UiStates, Phases
<1>4. ASSUME NEW p \in Procs, StartQemu(p) PROVE IInv'
  <2> USE <1>4 DEF StartQemu, Server!SStart
  <2>1. \A q \in Procs : proc[q] # "alive"
    BY DEF NeverLost, FrameInv, NoneActive
  <2>2. PICK s \in {"reading", "ended"} : reader' = [reader EXCEPT ![p] = s]
    OBVIOUS
  <2>3. TypeOK'
    BY <2>2 DEF TypeOK, UiStates, ProcStates, ReaderStates, Phases
  <2>4. NeverLost'
    BY <2>1 DEF NeverLost, TypeOK
  <2> QED
    BY <2>3, <2>4 DEF NoSecondServer, ServerOwned, FrameInv
<1>5. CASE StopQemu
  BY <1>5 DEF StopQemu, TypeOK, NeverLost, NoSecondServer, ServerOwned, FrameInv,
              NoneActive, UiStates, ProcStates
<1>6. CASE StopFails
  BY <1>6 DEF StopFails, TypeOK, NeverLost, NoSecondServer, ServerOwned, FrameInv,
              NoneActive, UiStates
<1>7. CASE Quit
  BY <1>7 DEF Quit, TypeOK, NeverLost, NoSecondServer, ServerOwned, FrameInv,
              NoneActive, UiStates, Phases, ReaderStates
<1>8. ASSUME NEW p \in Procs, ProcExit(p) PROVE IInv'
  <2>1. PICK s \in {"exited", "odd"} : proc' = [proc EXCEPT ![p] = s]
    BY <1>8 DEF ProcExit
  <2>2. \/ handle = Null
        \/ handle # p /\ proc'[handle] = proc[handle]
        \/ handle = p /\ proc[p] = "alive" /\ proc'[p] = s
    BY <1>8, <2>1 DEF ProcExit, TypeOK
  <2> QED
    BY <1>8, <2>1, <2>2 DEF ProcExit, TypeOK, NeverLost, NoSecondServer, ServerOwned,
                            FrameInv, NoneActive, ProcStates
<1>9. ASSUME NEW p \in Procs, ReaderEnd(p) \/ Forget(p) PROVE IInv'
  BY <1>9 DEF ReaderEnd, Forget, TypeOK, NeverLost, NoSecondServer, ServerOwned, FrameInv,
              NoneActive, ProcStates, ReaderStates
<1>10. CASE LeaveLoop
  BY <1>10 DEF LeaveLoop, Server!SDrain, TypeOK, NeverLost, NoSecondServer, ServerOwned,
               FrameInv, NoneActive, Phases
<1>11. ASSUME NEW c \in Conns, BeginRequest(c) \/ EndRequest(c) PROVE IInv'
  BY <1>11 DEF BeginRequest, EndRequest, Server!SBegin, Server!SEnd, TypeOK, NeverLost,
               NoSecondServer, ServerOwned, FrameInv, NoneActive
<1>12. CASE UNCHANGED vars
  BY <1>12 DEF vars, TypeOK, NeverLost, NoSecondServer, ServerOwned, FrameInv, NoneActive
<1> QED
  BY <1>1, <1>2, <1>3, <1>4, <1>5, <1>6, <1>7, <1>8, <1>9, <1>10, <1>11, <1>12
  DEF Next, UiStep

(* IInv is an invariant of Session.                                        *)
THEOREM Invariant == Spec => []IInv
BY InitInv, StepInv, PTL DEF Spec
---------------------------------------------------------------------------
(* The variables have their types, and the handle is that of a process     *)
(* which was created and not killed (ui_start.c:147-151, 182, 197-200).    *)
THEOREM TypeCorrect == Spec => []TypeOK
BY Invariant, PTL DEF IInv

(* A QEMU that was not told to end is the one the launcher knows.          *)
THEOREM QemuKept == Spec => []NeverLost
BY Invariant, PTL DEF IInv

(* At most one QEMU lives while the launcher is there, but for one that    *)
(* Stop has terminated and Windows has not yet removed.                    *)
THEOREM SingleQemu ==
  Spec => [](\A p, q \in Procs :
               proc[p] = "alive" /\ proc[q] = "alive" /\ ui # "gone" => p = q)
<1>1. IInv => \A p, q \in Procs :
                proc[p] = "alive" /\ proc[q] = "alive" /\ ui # "gone" => p = q
  BY DEF IInv, NeverLost
<1> QED
  BY <1>1, Invariant, PTL

(* run_qemu never overwrites the pointer to a running server.              *)
THEOREM ServerKept == Spec => []NoSecondServer
BY Invariant, PTL DEF IInv

(* A server without a QEMU does not outlive the frame.                     *)
THEOREM ServerHasQemu == Spec => []ServerOwned
BY Invariant, PTL DEF IInv
=============================================================================
