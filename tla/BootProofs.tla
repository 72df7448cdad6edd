---------------------------- MODULE BootProofs ----------------------------
(***************************************************************************)
(* Proofs about Boot, for any archives, volumes and images: which boot     *)
(* manager is started, that no file of the image shadows another, and that *)
(* the patch of boot.wim lists all files it has to inject.  And about      *)
(* Relocate: wherever the initrd is moved, it is found there and nothing   *)
(* else is touched, for any memory map and any page size.                  *)
(***************************************************************************)
EXTENDS Boot, Relocate, SequenceTheorems, TLAPS

Kinds == {"given", "embedded", "initrd"}

\* STRING; that these are strings is not known to the provers.
Texts == STRING \cup Kinds \cup BootPaths \cup OtherPaths
         \cup {"boot.wim", "bootmgr.exe", "bootx64.efi", "boot.sdi", "BCD", "wim"}

FileRecords == [name : Texts, from : Texts, at : Seq(Texts)]

States == {"cpio", "initrd", "volumes", "files", "patch", "wim", "started", "dead"}

TypeOK ==
  /\ platform \in {"bios", "efi"} /\ packed \in BOOLEAN
  /\ image \cap Kinds = {}
  /\ volumes \in Seq([signed : BOOLEAN, files : Seq(Texts)])
  /\ source \in Seq(Texts) /\ initrd \in Seq(Texts)
  /\ vdisk_files \in Seq(FileRecords)
  /\ bootmgr \in 0 .. LastFile /\ bootwim \in Nat
  /\ patched \in SUBSET Seq(FileRecords)
  /\ todo \in Seq(BootPaths \cup OtherPaths)
  /\ wim_file_idx \in Nat
  /\ pc \in States

(* Each platform has its own first steps; only bootmgr embeds anything;    *)
(* until boot.wim has been patched nothing is taken from the image; a boot *)
(* manager is never started unless there is one.                           *)
Early == {"cpio", "initrd", "volumes", "files", "patch"}

Phases ==
  /\ pc = "cpio" => platform = "bios"
  /\ pc \in {"initrd", "volumes", "files"} => platform = "efi"
  /\ platform = "efi" => ~packed /\ \A k \in 1 .. LastFile : ~IsFrom(k, "embedded")
  /\ pc = "started" => bootmgr # 0
  /\ pc \in Early => patched = {} /\ \A k \in 1 .. LastFile : vdisk_files[k].from \in Kinds

(* The boot manager is looked for in the image first, and only if none has *)
(* been found.                                                             *)
LookedFor ==
  pc = "wim" => \/ bootmgr = 0 /\ todo = <<BootPath>> \o wim_paths
                \/ todo \in Seq(OtherPaths)

OwnName(name) == IF platform = "bios" THEN name = "bootmgr.exe" ELSE IsLoader(name)

Own(k) == IsFrom(k, "given") /\ OwnName(vdisk_files[k].name)

NoOther == \A k \in 1 .. LastFile :
             ~Own(k) /\ ~IsFrom(k, "embedded")
             /\ (IsFrom(k, "given") /\ vdisk_files[k].name = "bootmgr" => ~packed)

(* Where the chosen boot manager comes from.                               *)
Chosen ==
  \/ bootmgr # 0 /\ Own(bootmgr) /\ \A k \in 1 .. LastFile : Own(k) => k <= bootmgr
  \/ bootmgr # 0 /\ IsFrom(bootmgr, "embedded") /\ \A k \in 1 .. LastFile : ~Own(k)
  \/ bootmgr = 0 /\ NoOther
  \/ bootmgr # 0 /\ pc \notin Early /\ IsFrom(bootmgr, BootPath) /\ NoOther

(* The patch lists what has to be injected.                                *)
Complete ==
  pc \in {"wim", "started"} =>
    \A k \in 1 .. LastFile, listed \in patched :
      Injectable(vdisk_files[k].name) => k <= Len(listed)

IInv == TypeOK /\ Phases /\ LookedFor /\ Chosen /\ NoShadow /\ Complete
---------------------------------------------------------------------------
LEMMA Consed ==
  ASSUME NEW S, NEW x \in S, NEW s \in Seq(S)
  PROVE  /\ <<x>> \o s \in Seq(S) /\ <<x>> \o s # <<>>
         /\ Head(<<x>> \o s) = x /\ Tail(<<x>> \o s) = s
  OBVIOUS

LEMMA WimPaths ==
  /\ wim_paths \in Seq(OtherPaths) /\ BootPath \in BootPaths
  /\ BootPath \notin OtherPaths
  BY DEF wim_paths, OtherPaths, Sdi, Bcd, BootPath, BootPaths

LEMMA Named ==
  ASSUME NEW path \in BootPaths \cup OtherPaths
  PROVE  NameOf(path) \in Texts /\ path \in Texts /\ path \notin Kinds
  <1>1. path \in Texts /\ path \notin Kinds
    BY DEF BootPaths, OtherPaths, Kinds, Texts
  <1>2. NameOf(path) \in Texts
    <2>1. CASE path \in BootPaths
      BY <2>1 DEF BootPaths, NameOf, efi_bootarch, Texts
    <2>2. CASE path \in OtherPaths
      BY <2>2, <1>1 DEF OtherPaths, NameOf, efi_bootarch, Texts
    <2>3. QED
      BY <2>1, <2>2
  <1>3. QED
    BY <1>1, <1>2

(* What adding one file to the disk changes.                               *)
LEMMA Appended ==
  ASSUME TypeOK, NEW name \in Texts, NEW from \in Texts,
         vdisk_files' = Append(vdisk_files, File(name, from))
  PROVE  /\ vdisk_files' \in Seq(FileRecords) /\ LastFile' = LastFile + 1 /\ LastFile \in Nat
         /\ \A k \in 1 .. LastFile : vdisk_files'[k] = vdisk_files[k]
         /\ vdisk_files'[LastFile + 1].name = name
         /\ vdisk_files'[LastFile + 1].from = from
  <1> DEFINE f == File(name, from)
  <1>1. f \in FileRecords /\ f.name = name /\ f.from = from
    BY DEF TypeOK, FileRecords, File
  <1> HIDE DEF f
  <1>2. vdisk_files \in Seq(FileRecords) /\ vdisk_files' = Append(vdisk_files, f)
    BY DEF TypeOK, f
  <1>3. QED
    BY <1>1, <1>2 DEF LastFile

LEMMA SeqMono ==
  ASSUME NEW S, NEW T, S \subseteq T
  PROVE  Seq(S) \subseteq Seq(T)
  OBVIOUS

LEMMA InitInv == ASSUME BootAssumption, BootInit PROVE IInv
  <1>1. Archives \subseteq Seq(Texts)
    <2>1. STRING \subseteq Texts
      BY DEF Texts
    <2>2. Seq(STRING) \subseteq Seq(Texts)
      BY <2>1, SeqMono
    <2>3. QED
      BY <2>2 DEF BootAssumption
  <1>2. Volumes \subseteq Seq([signed : BOOLEAN, files : Seq(Texts)])
    <2>1. Seq(STRING) \subseteq Seq(Texts)
      BY SeqMono DEF Texts
    <2>2. [signed : BOOLEAN, files : Seq(STRING)] \subseteq [signed : BOOLEAN, files : Seq(Texts)]
      BY <2>1
    <2> DEFINE V == [signed : BOOLEAN, files : Seq(STRING)]
               W == [signed : BOOLEAN, files : Seq(Texts)]
    <2>3. V \subseteq W
      BY <2>2
    <2> HIDE DEF V, W
    <2>4. Seq(V) \subseteq Seq(W)
      BY <2>3, SeqMono
    <2>5. Volumes \subseteq Seq(V)
      BY DEF BootAssumption, V
    <2>6. QED
      BY <2>4, <2>5 DEF W
  <1>3. image \cap Kinds = {}
    BY DEF BootInit, BootAssumption, Kinds
  <1>4. vdisk_files = <<>> /\ LastFile = 0 /\ vdisk_files \in Seq(FileRecords)
    BY DEF BootInit, LastFile
  <1>5. initrd \in Seq(Texts) /\ todo \in Seq(BootPaths \cup OtherPaths)
    <2>1. "wim" \in Texts
      BY DEF Texts
    <2>2. QED
      BY <2>1 DEF BootInit
  <1>6. source \in Seq(Texts) /\ volumes \in Seq([signed : BOOLEAN, files : Seq(Texts)])
    <2>1. <<>> \in Seq(Texts) /\ <<>> \in Seq([signed : BOOLEAN, files : Seq(Texts)])
      OBVIOUS
    <2>2. (source \in Archives \/ source = <<>>) /\ (volumes \in Volumes \/ volumes = <<>>)
      BY DEF BootInit
    <2>3. QED
      BY <1>1, <1>2, <2>1, <2>2
  <1>7. TypeOK
    <2>1. platform \in {"bios", "efi"} /\ packed \in BOOLEAN /\ pc \in States
      BY DEF BootInit, States
    <2>2. bootmgr \in 0 .. LastFile /\ bootwim \in Nat /\ wim_file_idx \in Nat
      BY <1>4 DEF BootInit
    <2>3. patched \in SUBSET Seq(FileRecords)
      BY DEF BootInit
    <2>4. QED
      BY <1>3, <1>4, <1>5, <1>6, <2>1, <2>2, <2>3 DEF TypeOK
  <1>8. Phases /\ LookedFor /\ Complete
    BY <1>4 DEF BootInit, Phases, LookedFor, Complete
  <1>9. Chosen /\ NoShadow
    BY <1>4 DEF BootInit, Chosen, NoOther, NoShadow
  <1>10. QED
    BY <1>7, <1>8, <1>9 DEF IInv

LEMMA DieInv == ASSUME IInv, Die PROVE IInv'
  <1>1. /\ UNCHANGED <<platform, packed, image, volumes, source, initrd, vdisk_files, bootmgr,
                       bootwim, patched, todo, wim_file_idx>>
        /\ pc' = "dead"
    BY DEF Die, given
  <1>2. LastFile' = LastFile
    BY <1>1 DEF LastFile
  <1>3. TypeOK'
    BY <1>1, <1>2 DEF IInv, TypeOK, States
  <1>4. Phases' /\ LookedFor' /\ Complete'
    BY <1>1, <1>2 DEF IInv, Phases, LookedFor, Complete, Early, IsFrom
  <1>5. Chosen'
    BY <1>1, <1>2 DEF IInv, Chosen, NoOther, Own, OwnName, IsFrom, IsLoader, efi_bootarch,
                      BootPath, Early
  <1>6. NoShadow'
    BY <1>1, <1>2 DEF IInv, NoShadow
  <1>7. QED
    BY <1>3, <1>4, <1>5, <1>6 DEF IInv

(* Nothing of the image is on the disk yet.                                *)
LEMMA EarlyNoShadow ==
  ASSUME image \cap Kinds = {}, \A k \in 1 .. LastFile : vdisk_files[k].from \in Kinds
  PROVE  NoShadow
  BY DEF NoShadow

(* A file that is not a boot manager is added.                             *)
LEMMA ChosenKept ==
  ASSUME TypeOK, Chosen, UNCHANGED <<platform, packed, bootmgr>>,
         NEW name \in Texts, NEW from \in Texts,
         vdisk_files' = Append(vdisk_files, File(name, from)),
         pc \in Early \/ pc' \notin Early,
         from # "embedded",
         from = "given" => /\ pc \in Early /\ ~OwnName(name)
                           /\ (name = "bootmgr" /\ packed => bootmgr # 0)
  PROVE  Chosen'
  <1>0. PICK n : n = LastFile
    OBVIOUS
  <1>1. /\ LastFile' = n + 1 /\ LastFile = n /\ n \in Nat
        /\ \A k \in 1 .. n : vdisk_files'[k] = vdisk_files[k]
        /\ vdisk_files'[n + 1].name = name
        /\ vdisk_files'[n + 1].from = from
    BY <1>0, Appended
  <1>2. \A k \in 1 .. LastFile' : k \in 1 .. n \/ k = n + 1
    BY <1>1
  <1>3. \A k \in 1 .. n : (Own(k)' <=> Own(k)) /\ \A x : IsFrom(k, x)' <=> IsFrom(k, x)
    BY <1>1 DEF Own, OwnName, IsFrom
  <1>4. ~Own(n + 1)'
    BY <1>1 DEF Own, OwnName, IsFrom
  <1>5. bootmgr # 0 => bootmgr \in 1 .. n
    BY <1>1 DEF TypeOK
  <1>6. CASE bootmgr # 0 /\ Own(bootmgr) /\ \A k \in 1 .. n : Own(k) => k <= bootmgr
    BY <1>2, <1>3, <1>4, <1>5, <1>6 DEF Chosen
  <1>7. CASE bootmgr # 0 /\ IsFrom(bootmgr, "embedded") /\ \A k \in 1 .. n : ~Own(k)
    BY <1>2, <1>3, <1>4, <1>5, <1>7 DEF Chosen
  <1>8. ASSUME NoOther, bootmgr = 0 \/ pc \notin Early PROVE NoOther'
    <2>1. \A k \in 1 .. n :
            ~Own(k)' /\ ~IsFrom(k, "embedded")'
            /\ (IsFrom(k, "given")' /\ vdisk_files'[k].name = "bootmgr" => ~packed')
      BY <1>1, <1>3, <1>8 DEF NoOther
    <2>2. /\ ~Own(n + 1)' /\ ~IsFrom(n + 1, "embedded")'
          /\ (IsFrom(n + 1, "given")' /\ vdisk_files'[n + 1].name = "bootmgr" => ~packed')
      BY <1>1, <1>4, <1>8 DEF IsFrom
    <2>3. QED
      BY <1>2, <2>1, <2>2 DEF NoOther
  <1>9. CASE bootmgr = 0 /\ NoOther
    BY <1>8, <1>9 DEF Chosen
  <1>10. CASE bootmgr # 0 /\ pc \notin Early /\ IsFrom(bootmgr, BootPath) /\ NoOther
    <2>1. BootPath' = BootPath
      BY DEF BootPath
    <2>2. IsFrom(bootmgr, BootPath)'
      BY <1>1, <1>5, <1>10, <2>1 DEF IsFrom
    <2>3. QED
      BY <1>8, <1>10, <2>2 DEF Chosen
  <1>11. QED
    BY <1>1, <1>6, <1>7, <1>9, <1>10 DEF Chosen

(* A boot manager is given.                                                *)
LEMMA ChosenGiven ==
  ASSUME TypeOK, UNCHANGED platform, NEW name \in Texts, OwnName(name),
         vdisk_files' = Append(vdisk_files, File(name, "given")),
         bootmgr' = LastFile + 1
  PROVE  Chosen'
  <1>1. "given" \in Texts
    BY DEF Texts, Kinds
  <1>2. /\ LastFile' = LastFile + 1 /\ LastFile \in Nat
        /\ vdisk_files'[LastFile + 1].name = name
        /\ vdisk_files'[LastFile + 1].from = "given"
    BY <1>1, Appended
  <1>3. Own(bootmgr)'
    BY <1>2 DEF Own, OwnName, IsFrom
  <1>4. \A k \in 1 .. LastFile' : k <= bootmgr'
    BY <1>2
  <1>5. QED
    BY <1>2, <1>3, <1>4 DEF Chosen
---------------------------------------------------------------------------
(* One file is added while nothing has been taken from the image.          *)
LEMMA EarlyAppend ==
  ASSUME IInv, UNCHANGED <<platform, packed, image>>, NEW name \in Texts, NEW from \in Kinds,
         vdisk_files' = Append(vdisk_files, File(name, from)),
         from = "embedded" => platform = "bios",
         pc \in Early
  PROVE  /\ \A k \in 1 .. LastFile' : vdisk_files'[k].from \in Kinds
         /\ platform = "efi" => ~packed /\ \A k \in 1 .. LastFile' : vdisk_files'[k].from # "embedded"
         /\ NoShadow'
  <1>0. PICK n : n = LastFile
    OBVIOUS
  <1>1. from \in Texts
    BY DEF Texts
  <1>2. /\ LastFile' = n + 1 /\ LastFile = n /\ n \in Nat
        /\ \A k \in 1 .. n : vdisk_files'[k] = vdisk_files[k]
        /\ vdisk_files'[n + 1].from = from
    BY <1>0, <1>1, Appended DEF IInv
  <1>3. \A k \in 1 .. LastFile' : k \in 1 .. n \/ k = n + 1
    BY <1>2
  <1>4. \A k \in 1 .. n : vdisk_files[k].from \in Kinds
    BY <1>2 DEF IInv, Phases
  <1>5. \A k \in 1 .. LastFile' : vdisk_files'[k].from \in Kinds
    BY <1>2, <1>3, <1>4
  <1>6. platform = "efi" => ~packed /\ \A k \in 1 .. n : vdisk_files[k].from # "embedded"
    BY <1>2 DEF IInv, Phases, IsFrom
  <1>7. platform = "efi" => ~packed /\ \A k \in 1 .. LastFile' : vdisk_files'[k].from # "embedded"
    BY <1>2, <1>3, <1>6
  <1>8. NoShadow'
    BY <1>5 DEF NoShadow, IInv, TypeOK
  <1>9. QED
    BY <1>5, <1>7, <1>8

LEMMA CpioInv == ASSUME IInv, cpio_extract PROVE IInv'
  <1>1. CASE Full \/ (Embedded(Head(source)) /\ LastFile + 1 >= VDISK_MAX_FILES)
    BY <1>1, DieInv DEF cpio_extract
  <1>2. CASE ~(Full \/ (Embedded(Head(source)) /\ LastFile + 1 >= VDISK_MAX_FILES))
    <2> DEFINE name == Head(source)
    <2>1. /\ pc = "cpio" /\ source # <<>> /\ add_file(name) /\ source' = Tail(source)
          /\ UNCHANGED <<platform, packed, image, volumes, bootwim, patched, todo, wim_file_idx, pc>>
      BY <1>2 DEF cpio_extract, given
    <2>2. name \in Texts /\ source' \in Seq(Texts)
      BY <2>1 DEF IInv, TypeOK
    <2>3. platform = "bios" /\ patched = {} /\ pc' = "cpio" /\ pc \in Early /\ pc' \in Early
      BY <2>1 DEF IInv, Phases, Early
    <2>4. "given" \in Texts /\ "embedded" \in Texts /\ "bootmgr.exe" \in Texts
      BY DEF Texts, Kinds
    <2>5. TypeOK /\ Chosen
      BY DEF IInv
    <2> HIDE DEF name
    <2>6. CASE ~Embedded(name)
      <3>1. /\ vdisk_files' = Append(vdisk_files, File(name, "given"))
            /\ bootmgr' = IF name = "bootmgr.exe" THEN LastFile + 1 ELSE bootmgr
            /\ initrd' = initrd
        BY <2>1, <2>6 DEF add_file
      <3>2. /\ vdisk_files' \in Seq(FileRecords) /\ LastFile' = LastFile + 1 /\ LastFile \in Nat
        BY <2>2, <2>4, <2>5, <3>1, Appended
      <3>3. TypeOK'
        BY <2>1, <2>2, <3>1, <3>2 DEF IInv, TypeOK, States
      <3>4. /\ \A k \in 1 .. LastFile' : vdisk_files'[k].from \in Kinds
            /\ NoShadow'
        BY <2>1, <2>2, <2>3, <3>1, EarlyAppend DEF Kinds
      <3>5. Phases' /\ LookedFor' /\ Complete'
        BY <2>1, <2>3, <3>4 DEF Phases, LookedFor, Complete, Early
      <3>6. Chosen'
        <4>1. CASE name = "bootmgr.exe"
          <5>1. OwnName(name)
            BY <2>3, <4>1 DEF OwnName
          <5>2. QED
            BY <2>1, <2>2, <2>5, <3>1, <4>1, <5>1, ChosenGiven
        <4>2. CASE name # "bootmgr.exe"
          <5>1. ~OwnName(name) /\ (name = "bootmgr" /\ packed => bootmgr # 0)
            BY <2>3, <2>6, <4>2 DEF OwnName, Embedded
          <5>2. bootmgr' = bootmgr
            BY <3>1, <4>2
          <5>3. QED
            BY <2>1, <2>2, <2>3, <2>4, <2>5, <3>1, <5>1, <5>2, ChosenKept
        <4>3. QED
          BY <4>1, <4>2
      <3>7. QED
        BY <3>3, <3>4, <3>5, <3>6 DEF IInv
    <2>7. CASE Embedded(name)
      <3>0. PICK n : n = LastFile
        OBVIOUS
      <3> DEFINE f == File(name, "given")
                 g == [name |-> "bootmgr.exe", from |-> "embedded", at |-> initrd']
      <3>1. /\ vdisk_files' = vdisk_files \o <<f, g>> /\ bootmgr' = n + 2 /\ initrd' = <<"bootmgr.exe">> \o initrd
        BY <2>1, <2>7, <3>0 DEF add_file
      <3>2. initrd' \in Seq(Texts)
        BY <2>4, <2>5, <3>1 DEF TypeOK
      <3>3. f \in FileRecords /\ g \in FileRecords
        BY <2>2, <2>4, <2>5, <3>2 DEF FileRecords, File, TypeOK
      <3>4. /\ f.name = "bootmgr" /\ f.from = "given" /\ g.name = "bootmgr.exe" /\ g.from = "embedded"
            /\ bootmgr = 0
        BY <2>7 DEF File, Embedded
      <3> HIDE DEF f, g
      <3>5. /\ vdisk_files' \in Seq(FileRecords) /\ LastFile' = n + 2 /\ LastFile = n /\ n \in Nat
            /\ \A k \in 1 .. n : vdisk_files'[k] = vdisk_files[k]
            /\ vdisk_files'[n + 1] = f /\ vdisk_files'[n + 2] = g
        BY <2>5, <3>0, <3>1, <3>3 DEF TypeOK, LastFile
      <3>6. \A k \in 1 .. LastFile' : k \in 1 .. n \/ k = n + 1 \/ k = n + 2
        BY <3>5
      <3>7. TypeOK'
        BY <2>1, <2>2, <3>1, <3>2, <3>5 DEF IInv, TypeOK, States
      <3>8. \A k \in 1 .. LastFile' : vdisk_files'[k].from \in Kinds
        <4>1. \A k \in 1 .. n : vdisk_files[k].from \in Kinds
          BY <2>3, <3>5 DEF IInv, Phases
        <4>2. QED
          BY <3>4, <3>5, <3>6, <4>1 DEF Kinds
      <3>9. Phases' /\ LookedFor' /\ Complete'
        BY <2>1, <2>3, <3>8 DEF Phases, LookedFor, Complete, Early
      <3>10. NoShadow'
        BY <2>1, <2>5, <3>8 DEF NoShadow, TypeOK
      <3>11. Chosen'
        <4>1. NoOther
          BY <2>5, <3>4 DEF Chosen
        <4>2. \A k \in 1 .. n : ~Own(k)'
          BY <2>1, <3>5, <4>1 DEF NoOther, Own, OwnName, IsFrom
        <4>3. ~Own(n + 1)' /\ ~Own(n + 2)' /\ IsFrom(bootmgr, "embedded")'
          BY <2>1, <2>3, <3>1, <3>4, <3>5 DEF Own, OwnName, IsFrom
        <4>4. \A k \in 1 .. LastFile' : ~Own(k)'
          BY <3>6, <4>2, <4>3
        <4>5. QED
          BY <3>1, <3>5, <4>3, <4>4 DEF Chosen
      <3>12. QED
        BY <3>7, <3>9, <3>10, <3>11 DEF IInv
    <2>8. QED
      BY <2>6, <2>7
  <1>3. QED
    BY <1>1, <1>2

(* boot.wim is added, and nothing of Early but pc changes else.            *)
LEMMA BootWimInv ==
  ASSUME IInv, AddBootWim \/ efi_extract_wim
  PROVE  IInv'
  <1>1. CASE Die
    BY <1>1, DieInv
  <1>2. CASE ~Die
    <2>1. /\ vdisk_files' = Append(vdisk_files, File("boot.wim", "initrd"))
          /\ bootwim' = LastFile + 1
          /\ \/ pc = "cpio" /\ pc' = "patch"
             \/ pc = "initrd" /\ pc' = "volumes"
          /\ UNCHANGED <<platform, packed, image, volumes, source, initrd, bootmgr, patched, todo, wim_file_idx>>
      BY <1>2 DEF AddBootWim, efi_extract_wim, given
    <2>2. pc \in Early /\ pc' \in Early /\ patched' = {} /\ (pc = "initrd" => platform = "efi")
      BY <2>1 DEF IInv, Phases, Early
    <2>3. "boot.wim" \in Texts /\ "initrd" \in Texts /\ "initrd" \in Kinds
      BY DEF Texts, Kinds
    <2>4. TypeOK /\ Chosen
      BY DEF IInv
    <2>5. vdisk_files' \in Seq(FileRecords) /\ LastFile' = LastFile + 1 /\ LastFile \in Nat
      BY <2>1, <2>3, <2>4, Appended
    <2>6. TypeOK'
      BY <2>1, <2>4, <2>5 DEF TypeOK, States
    <2>7. /\ \A k \in 1 .. LastFile' : vdisk_files'[k].from \in Kinds
          /\ platform = "efi" => ~packed /\ \A k \in 1 .. LastFile' : vdisk_files'[k].from # "embedded"
          /\ NoShadow'
      BY <2>1, <2>2, <2>3, EarlyAppend
    <2>8. Phases' /\ LookedFor' /\ Complete'
      BY <2>1, <2>2, <2>7 DEF Phases, LookedFor, Complete, IsFrom
    <2>9. Chosen'
      BY <2>1, <2>2, <2>3, <2>4, ChosenKept
    <2>10. QED
      BY <2>6, <2>7, <2>8, <2>9 DEF IInv
  <1>3. QED
    BY <1>1, <1>2

LEMMA ExtractInv == ASSUME IInv, extract_by_handle PROVE IInv'
  <1>1. CASE Die
    BY <1>1, DieInv
  <1>2. CASE ~Die
    <2> DEFINE name == Head(source)
    <2>1. /\ pc = "files" /\ source # <<>>
          /\ vdisk_files' = Append(vdisk_files, File(name, "given"))
          /\ bootmgr' = IF IsLoader(name) THEN LastFile + 1 ELSE bootmgr
          /\ source' = Tail(source)
          /\ UNCHANGED <<platform, packed, image, volumes, initrd, bootwim, patched, todo, wim_file_idx, pc>>
      BY <1>2 DEF extract_by_handle, given
    <2>2. name \in Texts /\ source' \in Seq(Texts)
      BY <2>1 DEF IInv, TypeOK
    <2>3. platform = "efi" /\ ~packed /\ patched = {} /\ pc \in Early /\ pc' = "files"
      BY <2>1 DEF IInv, Phases, Early
    <2>4. "given" \in Texts /\ "given" \in Kinds
      BY DEF Texts, Kinds
    <2>5. TypeOK /\ Chosen
      BY DEF IInv
    <2> HIDE DEF name
    <2>6. vdisk_files' \in Seq(FileRecords) /\ LastFile' = LastFile + 1 /\ LastFile \in Nat
      BY <2>1, <2>2, <2>4, <2>5, Appended
    <2>7. TypeOK'
      BY <2>1, <2>2, <2>5, <2>6 DEF TypeOK, States
    <2>8. /\ \A k \in 1 .. LastFile' : vdisk_files'[k].from \in Kinds
          /\ \A k \in 1 .. LastFile' : vdisk_files'[k].from # "embedded"
          /\ NoShadow'
      BY <2>1, <2>2, <2>3, <2>4, EarlyAppend
    <2>9. Phases' /\ LookedFor' /\ Complete'
      BY <2>1, <2>3, <2>8 DEF Phases, LookedFor, Complete, IsFrom
    <2>10. Chosen'
      <3>1. OwnName(name) <=> IsLoader(name)
        BY <2>3 DEF OwnName
      <3>2. CASE IsLoader(name)
        BY <2>1, <2>2, <2>5, <3>1, <3>2, ChosenGiven
      <3>3. CASE ~IsLoader(name)
        <4>1. bootmgr' = bootmgr
          BY <2>1, <3>3
        <4>2. QED
          BY <2>1, <2>2, <2>3, <2>4, <2>5, <3>1, <3>3, <4>1, ChosenKept
      <3>4. QED
        BY <3>2, <3>3
    <2>11. QED
      BY <2>7, <2>8, <2>9, <2>10 DEF IInv
  <1>3. QED
    BY <1>1, <1>2

(* The steps from volume to volume, and to the patch.                      *)
LEMMA VolumeInv ==
  ASSUME IInv, SkipVolume \/ OpenVolume \/ FilesRead
  PROVE  IInv'
  <1>1. /\ UNCHANGED <<platform, packed, image, initrd, vdisk_files, bootmgr, bootwim, patched, todo, wim_file_idx>>
        /\ pc \in {"volumes", "files"} /\ pc' \in {"volumes", "files", "patch"}
    BY DEF SkipVolume, Skipped, OpenVolume, FilesRead, given
  <1>2. volumes' \in Seq([signed : BOOLEAN, files : Seq(Texts)]) /\ source' \in Seq(Texts)
    <2> DEFINE W == [signed : BOOLEAN, files : Seq(Texts)]
    <2>1. volumes \in Seq(W) /\ source \in Seq(Texts)
      BY DEF IInv, TypeOK
    <2> HIDE DEF W
    <2>2. volumes # <<>> => Head(volumes) \in W
      BY <2>1
    <2>3. volumes # <<>> => Head(volumes).files \in Seq(Texts)
      BY <2>2 DEF W
    <2>4. volumes # <<>> => Tail(volumes) \in Seq(W)
      BY <2>1
    <2>5. QED
      BY <2>1, <2>3, <2>4 DEF SkipVolume, Skipped, OpenVolume, FilesRead, W
  <1>3. LastFile' = LastFile
    BY <1>1 DEF LastFile
  <1>4. TypeOK'
    BY <1>1, <1>2, <1>3 DEF IInv, TypeOK, States
  <1>5. Phases' /\ LookedFor' /\ Complete'
    BY <1>1, <1>3 DEF IInv, Phases, LookedFor, Complete, Early, IsFrom
  <1>6. Chosen'
    BY <1>1, <1>3 DEF IInv, Chosen, NoOther, Own, OwnName, IsFrom, IsLoader, efi_bootarch, BootPath, Early
  <1>7. NoShadow'
    BY <1>1, <1>3 DEF IInv, NoShadow
  <1>8. QED
    BY <1>4, <1>5, <1>6, <1>7 DEF IInv

LEMMA PatchInv == ASSUME IInv, PatchWim PROVE IInv'
  <1>1. CASE Die
    BY <1>1, DieInv
  <1>2. CASE ~Die
    <2>1. /\ pc = "patch" /\ pc' = "wim" /\ patched' = {vdisk_files}
          /\ todo' = (IF bootmgr = 0 THEN <<BootPath>> ELSE <<>>) \o wim_paths
          /\ UNCHANGED <<platform, packed, image, volumes, source, initrd, vdisk_files, bootmgr, bootwim, wim_file_idx>>
      BY <1>2 DEF PatchWim, given, Listed, IInv, Phases, Early
    <2>2. BootPath' = BootPath /\ wim_paths' = wim_paths
      BY <2>1 DEF BootPath, wim_paths, Sdi, Bcd
    <2>3. \/ bootmgr = 0 /\ todo' = <<BootPath>> \o wim_paths
          \/ todo' \in Seq(OtherPaths)
      <3>1. wim_paths \in Seq(OtherPaths)
        BY WimPaths
      <3>2. <<>> \o wim_paths = wim_paths
        BY <3>1
      <3>3. QED
        BY <2>1, <3>1, <3>2
    <2>4. todo' \in Seq(BootPaths \cup OtherPaths)
      <3>1. Seq(OtherPaths) \subseteq Seq(BootPaths \cup OtherPaths)
        BY SeqMono
      <3>2. <<BootPath>> \o wim_paths \in Seq(BootPaths \cup OtherPaths)
        BY <3>1, WimPaths, Consed
      <3>3. QED
        BY <2>3, <3>1, <3>2
    <2>5. LastFile' = LastFile
      BY <2>1 DEF LastFile
    <2>6. TypeOK'
      BY <2>1, <2>4, <2>5 DEF IInv, TypeOK, States
    <2>7. Phases'
      BY <2>1, <2>5 DEF IInv, Phases, Early, IsFrom
    <2>8. LookedFor'
      BY <2>1, <2>2, <2>3 DEF LookedFor
    <2>9. Complete'
      BY <2>1, <2>5 DEF Complete, LastFile
    <2>10. Chosen'
      BY <2>1, <2>2, <2>5 DEF IInv, Chosen, NoOther, Own, OwnName, IsFrom, IsLoader, efi_bootarch, Early
    <2>11. NoShadow'
      BY <2>1, <2>5 DEF IInv, NoShadow
    <2>12. QED
      BY <2>6, <2>7, <2>8, <2>9, <2>10, <2>11 DEF IInv
  <1>3. QED
    BY <1>1, <1>2

LEMMA WimAddInv == ASSUME BootAssumption, IInv, wim_add_file PROVE IInv'
  <1> DEFINE path == Head(todo)
  <1>1. CASE Die
    BY <1>1, DieInv
  <1>2. SUFFICES ASSUME ~Die PROVE IInv'
    BY <1>1
  <1>3. /\ pc = "wim" /\ pc' = "wim" /\ todo # <<>> /\ todo' = Tail(todo)
        /\ UNCHANGED <<platform, packed, image, volumes, source, initrd, bootwim, patched>>
    BY <1>2 DEF wim_add_file, given
  <1>4. path \in BootPaths \cup OtherPaths /\ todo' \in Seq(BootPaths \cup OtherPaths)
    BY <1>3 DEF IInv, TypeOK
  <1>5. /\ todo' \in Seq(OtherPaths)
        /\ (path \in OtherPaths /\ path # BootPath) \/ (path = BootPath /\ bootmgr = 0)
    <2>1. CASE bootmgr = 0 /\ todo = <<BootPath>> \o wim_paths
      <3>1. BootPath \in BootPaths \cup OtherPaths /\ wim_paths \in Seq(BootPaths \cup OtherPaths)
        <4>1. Seq(OtherPaths) \subseteq Seq(BootPaths \cup OtherPaths)
          BY SeqMono
        <4>2. QED
          BY <4>1, WimPaths
      <3>2. Head(todo) = BootPath /\ Tail(todo) = wim_paths
        BY <2>1, <3>1, Consed
      <3>3. QED
        BY <1>3, <2>1, <3>2, WimPaths
    <2>2. CASE todo \in Seq(OtherPaths)
      BY <1>3, <2>2, WimPaths
    <2>3. QED
      BY <1>3, <2>1, <2>2 DEF IInv, LookedFor
  <1>6. LookedFor'
    BY <1>5 DEF LookedFor
  <1>7. BootPath' = BootPath
    BY <1>3 DEF BootPath
  <1> HIDE DEF path
  <1>8. CASE UNCHANGED <<vdisk_files, bootmgr, wim_file_idx>>
    <2>1. LastFile' = LastFile
      BY <1>8 DEF LastFile
    <2>2. TypeOK'
      BY <1>3, <1>4, <1>8, <2>1 DEF IInv, TypeOK, States
    <2>3. Phases' /\ Complete' /\ NoShadow'
      BY <1>3, <1>8, <2>1 DEF IInv, Phases, Complete, NoShadow, Early, IsFrom
    <2>4. Chosen'
      BY <1>3, <1>7, <1>8, <2>1 DEF IInv, Chosen, NoOther, Own, OwnName, IsFrom, IsLoader, efi_bootarch, Early
    <2>5. QED
      BY <1>6, <2>2, <2>3, <2>4 DEF IInv
  <1>9. CASE ~UNCHANGED <<vdisk_files, bootmgr, wim_file_idx>>
    <2>0. PICK n : n = LastFile
      OBVIOUS
    <2>1. /\ ~Known(path) /\ wim_file_idx' = wim_file_idx + 1
          /\ vdisk_files' = Append(vdisk_files, File(NameOf(path), path))
          /\ bootmgr' = IF path = BootPath THEN n + 1 ELSE bootmgr
      BY <1>2, <1>9, <2>0 DEF wim_add_file, path
    <2>2. NameOf(path) \in Texts /\ path \in Texts /\ path \notin Kinds
      BY <1>4, Named
    <2>3. /\ vdisk_files' \in Seq(FileRecords) /\ LastFile' = n + 1 /\ LastFile = n /\ n \in Nat
          /\ \A k \in 1 .. n : vdisk_files'[k] = vdisk_files[k]
          /\ vdisk_files'[n + 1].name = NameOf(path) /\ vdisk_files'[n + 1].from = path
      BY <2>0, <2>1, <2>2, Appended DEF IInv
    <2>4. \A k \in 1 .. LastFile' : k \in 1 .. n \/ k = n + 1
      BY <2>3
    <2>5. TypeOK'
      <3>1. bootmgr \in 0 .. n /\ wim_file_idx \in Nat
        BY <2>3 DEF IInv, TypeOK
      <3>2. bootmgr' \in 0 .. LastFile' /\ wim_file_idx' \in Nat
        <4>1. (bootmgr' = n + 1 \/ bootmgr' = bootmgr) /\ wim_file_idx' = wim_file_idx + 1
          BY <2>1
        <4>2. LastFile' = n + 1 /\ n \in Nat
          BY <2>3
        <4>3. QED
          BY <3>1, <4>1, <4>2
      <3>3. /\ platform' \in {"bios", "efi"} /\ packed' \in BOOLEAN
            /\ image' \cap Kinds = {} /\ pc' \in States
        BY <1>3 DEF IInv, TypeOK, States
      <3>4. /\ volumes' \in Seq([signed : BOOLEAN, files : Seq(Texts)])
            /\ source' \in Seq(Texts) /\ initrd' \in Seq(Texts) /\ bootwim' \in Nat
            /\ patched' \in SUBSET Seq(FileRecords)
        BY <1>3 DEF IInv, TypeOK
      <3>5. QED
        BY <1>4, <2>3, <3>2, <3>3, <3>4 DEF TypeOK
    <2>6. Phases'
      <3>1. platform = "efi" => ~packed /\ \A k \in 1 .. n : vdisk_files[k].from # "embedded"
        BY <2>3 DEF IInv, Phases, IsFrom
      <3>2. platform = "efi" => \A k \in 1 .. LastFile' : vdisk_files'[k].from # "embedded"
        BY <2>2, <2>3, <2>4, <3>1 DEF Kinds
      <3>3. QED
        BY <1>3, <3>1, <3>2 DEF Phases, Early, IsFrom
    <2>7. Complete'
      <3>1. ~Injectable(NameOf(path))
        BY <1>4 DEF BootAssumption
      <3>2. \A k \in 1 .. n, listed \in patched : Injectable(vdisk_files[k].name) => k <= Len(listed)
        BY <1>3, <2>3 DEF IInv, Complete
      <3>3. \A k \in 1 .. LastFile', listed \in patched :
              Injectable(vdisk_files'[k].name) => k <= Len(listed)
        BY <2>3, <2>4, <3>1, <3>2
      <3>4. QED
        BY <1>3, <3>3 DEF Complete
    <2>8. NoShadow'
      <3>1. \A k \in 1 .. n : vdisk_files[k].name # NameOf(path)
        BY <2>1, <2>3 DEF Known, Names
      <3>2. \A k, j \in 1 .. n :
              vdisk_files[k].from \in image /\ j # k => vdisk_files[j].name # vdisk_files[k].name
        BY <2>3 DEF IInv, NoShadow
      <3>3. SUFFICES ASSUME NEW k \in 1 .. LastFile', vdisk_files'[k].from \in image',
                            NEW j \in (1 .. LastFile') \ {k}
                     PROVE  vdisk_files'[j].name # vdisk_files'[k].name
        BY DEF NoShadow
      <3>4. CASE k \in 1 .. n /\ j \in 1 .. n
        BY <1>3, <2>3, <3>2, <3>3, <3>4
      <3>5. CASE k = n + 1 /\ j \in 1 .. n
        BY <2>3, <3>1, <3>5
      <3>6. CASE k \in 1 .. n /\ j = n + 1
        BY <2>3, <3>1, <3>6
      <3>7. QED
        BY <2>4, <3>3, <3>4, <3>5, <3>6
    <2>9. Chosen'
      <3>1. CASE path = BootPath /\ bootmgr = 0
        <4>1. NoOther
          BY <3>1 DEF IInv, Chosen
        <4>2. \A k \in 1 .. n :
                ~Own(k)' /\ ~IsFrom(k, "embedded")'
                /\ (IsFrom(k, "given")' /\ vdisk_files'[k].name = "bootmgr" => ~packed')
          BY <1>3, <2>3, <4>1 DEF NoOther, Own, OwnName, IsFrom
        <4>3. /\ ~Own(n + 1)' /\ ~IsFrom(n + 1, "embedded")' /\ ~IsFrom(n + 1, "given")'
          BY <2>2, <2>3 DEF Own, IsFrom, Kinds
        <4>4. NoOther'
          BY <2>4, <4>2, <4>3 DEF NoOther
        <4>5. bootmgr' = n + 1 /\ bootmgr' # 0
          BY <2>1, <2>3, <3>1
        <4>6. IsFrom(bootmgr, BootPath)'
          BY <1>7, <2>3, <3>1, <4>5 DEF IsFrom
        <4>7. QED
          BY <1>3, <4>4, <4>5, <4>6 DEF Chosen, Early
      <3>2. CASE path \in OtherPaths /\ path # BootPath
        <4>1. bootmgr' = bootmgr
          BY <2>1, <3>2
        <4>2. path # "embedded" /\ path # "given" /\ pc' \notin Early
          BY <1>3, <2>2 DEF Kinds, Early
        <4>3. TypeOK /\ Chosen
          BY DEF IInv
        <4>4. QED
          BY <1>3, <2>1, <2>2, <4>1, <4>2, <4>3, ChosenKept
      <3>3. QED
        BY <1>5, <3>1, <3>2 DEF path
    <2>10. QED
      BY <1>6, <2>5, <2>6, <2>7, <2>8, <2>9 DEF IInv
  <1>10. QED
    BY <1>8, <1>9

LEMMA StartInv == ASSUME IInv, Start PROVE IInv'
  <1>1. CASE Die
    BY <1>1, DieInv
  <1>2. CASE ~Die
    <2>1. /\ pc = "wim" /\ pc' = "started" /\ bootmgr # 0
          /\ UNCHANGED <<platform, packed, image, volumes, source, initrd, vdisk_files, bootmgr, bootwim,
                         patched, todo, wim_file_idx>>
      BY <1>2 DEF Start, given
    <2>2. LastFile' = LastFile
      BY <2>1 DEF LastFile
    <2>3. TypeOK'
      BY <2>1, <2>2 DEF IInv, TypeOK, States
    <2>4. Phases' /\ LookedFor' /\ Complete' /\ NoShadow'
      BY <2>1, <2>2 DEF IInv, Phases, LookedFor, Complete, NoShadow, Early, IsFrom
    <2>5. Chosen'
      BY <2>1, <2>2 DEF IInv, Chosen, NoOther, Own, OwnName, IsFrom, IsLoader, efi_bootarch, BootPath, Early
    <2>6. QED
      BY <2>3, <2>4, <2>5 DEF IInv
  <1>3. QED
    BY <1>1, <1>2

LEMMA StutterInv == ASSUME IInv, UNCHANGED bootVars PROVE IInv'
  <1>1. /\ UNCHANGED <<platform, packed, image, volumes, source, initrd, vdisk_files, bootmgr, bootwim,
                       patched, todo, wim_file_idx, pc>>
    BY DEF bootVars, given
  <1>2. LastFile' = LastFile
    BY <1>1 DEF LastFile
  <1>3. TypeOK'
    BY <1>1, <1>2 DEF IInv, TypeOK
  <1>4. Phases' /\ Complete' /\ NoShadow'
    BY <1>1, <1>2 DEF IInv, Phases, Complete, NoShadow, IsFrom
  <1>5. LookedFor'
    BY <1>1 DEF IInv, LookedFor, BootPath, wim_paths, Sdi, Bcd
  <1>6. Chosen'
    BY <1>1, <1>2 DEF IInv, Chosen, NoOther, Own, OwnName, IsFrom, IsLoader, efi_bootarch, BootPath
  <1>7. QED
    BY <1>3, <1>4, <1>5, <1>6 DEF IInv

LEMMA StepInv == ASSUME BootAssumption, IInv, [BootNext]_bootVars PROVE IInv'
  <1>1. CASE cpio_extract
    BY <1>1, CpioInv
  <1>2. CASE AddBootWim \/ efi_extract_wim
    BY <1>2, BootWimInv
  <1>3. CASE SkipVolume \/ OpenVolume \/ FilesRead
    BY <1>3, VolumeInv
  <1>4. CASE NoVolume
    BY <1>4, DieInv DEF NoVolume
  <1>5. CASE extract_by_handle
    BY <1>5, ExtractInv
  <1>6. CASE PatchWim
    BY <1>6, PatchInv
  <1>7. CASE wim_add_file
    BY <1>7, WimAddInv
  <1>8. CASE Start
    BY <1>8, StartInv
  <1>9. CASE UNCHANGED bootVars
    BY <1>9, StutterInv
  <1>10. QED
    BY <1>1, <1>2, <1>3, <1>4, <1>5, <1>6, <1>7, <1>8, <1>9 DEF BootNext

LEMMA Invariant == ASSUME BootAssumption PROVE BootSpec => []IInv
  <1>1. BootInit => IInv
    BY InitInv
  <1>2. IInv /\ [BootNext]_bootVars => IInv'
    BY StepInv
  <1>3. QED
    BY <1>1, <1>2, PTL DEF BootSpec
---------------------------------------------------------------------------
(* No file of the image is on the disk beside another of its name          *)
(* (wimfile.c:99-103).                                                     *)
THEOREM NothingShadowed == ASSUME BootAssumption PROVE BootSpec => []NoShadow
  <1>1. IInv => NoShadow
    BY DEF IInv
  <1>2. QED
    BY <1>1, Invariant, PTL

(* The patch of boot.wim lists every file that has to be injected          *)
(* (efifile.c:296-304, main.c:456-465, patch.c:696-705).                   *)
THEOREM NothingMissed == ASSUME BootAssumption PROVE BootSpec => []PatchComplete
  <1>1. IInv => PatchComplete
    BY DEF IInv, Complete, PatchComplete
  <1>2. QED
    BY <1>1, Invariant, PTL

(* What is started is the last boot manager given, else the embedded one,  *)
(* else that of the image (main.c:362-371, 459-463, efifile.c:284-302).    *)
THEOREM RightBootmgr == ASSUME BootAssumption PROVE BootSpec => []BootmgrPreferred
  <1>1. ASSUME IInv PROVE BootmgrPreferred
    <2> DEFINE own == IF platform = "bios" THEN Given("bootmgr.exe")
                      ELSE Given(efi_bootarch) \cup Given("bootmgfw.efi")
               embedded == {k \in 1 .. LastFile : IsFrom(k, "embedded")}
    <2>1. own = {k \in 1 .. LastFile : Own(k)}
      <3>1. CASE platform = "bios"
        BY <3>1 DEF Own, OwnName, Given
      <3>2. CASE platform # "bios"
        BY <3>2 DEF Own, OwnName, Given, IsLoader
      <3>3. QED
        BY <3>1, <3>2
    <2>2. SUFFICES ASSUME pc = "started"
          PROVE  IF own # {} THEN bootmgr \in Best(own)
                 ELSE IF embedded # {} THEN bootmgr \in embedded
                 ELSE /\ IsFrom(bootmgr, BootPath)
                      /\ platform = "bios" => ~packed \/ Given("bootmgr") = {}
      BY DEF BootmgrPreferred
    <2>3. bootmgr \in 1 .. LastFile /\ bootmgr # 0
      BY <1>1, <2>2 DEF IInv, TypeOK, Phases
    <2> HIDE DEF own
    <2>4. CASE Own(bootmgr) /\ \A k \in 1 .. LastFile : Own(k) => k <= bootmgr
      BY <2>1, <2>3, <2>4 DEF Best
    <2>5. CASE IsFrom(bootmgr, "embedded") /\ \A k \in 1 .. LastFile : ~Own(k)
      BY <2>1, <2>3, <2>5
    <2>6. CASE IsFrom(bootmgr, BootPath) /\ NoOther
      <3>1. own = {} /\ embedded = {}
        BY <2>1, <2>6 DEF NoOther
      <3>2. ~packed \/ Given("bootmgr") = {}
        BY <2>6 DEF NoOther, Given
      <3>3. QED
        BY <2>6, <3>1, <3>2
    <2>7. QED
      BY <1>1, <2>3, <2>4, <2>5, <2>6 DEF IInv, Chosen
  <1>2. QED
    BY <1>1, Invariant, PTL
---------------------------------------------------------------------------
LEMMA TimesNat == ASSUME NEW x \in Nat, NEW y \in Nat PROVE x * y \in Nat
OBVIOUS

\* The first address of a large page.
First(p) == p * PAGE_SIZE_2MB

LEMMA Divided ==
  ASSUME NEW n \in Nat \ {0}, NEW i \in Nat
  PROVE  /\ i \div n \in Int /\ i % n \in 0 .. n - 1
         /\ i = (i \div n) * n + (i % n)
OBVIOUS

LEMMA Apart ==
  ASSUME NEW n \in Nat \ {0}, NEW a \in Int, NEW b \in Int, a < b
  PROVE  a * n + n <= b * n
OBVIOUS

LEMMA Quotient ==
  ASSUME NEW n \in Nat \ {0}, NEW i \in Nat
  PROVE  i \div n \in Nat
<1> DEFINE q == i \div n
           m == i % n
<1>1. q \in Int /\ m \in 0 .. n - 1 /\ i = q * n + m
  BY Divided
<1>2. SUFFICES ASSUME q < 0 PROVE FALSE
  BY <1>1
<1>3. q * n + n <= 0 * n
  BY <1>1, <1>2, Apart
<1> QED
  BY <1>1, <1>3

LEMMA AlignedBelow ==
  ASSUME NEW n \in Nat \ {0}, NEW i \in Nat
  PROVE  AlignDown(i, n) \in Nat /\ AlignDown(i, n) <= i
<1>1. PICK q \in Nat : q = i \div n
  BY Quotient
<1>2. q * n \in Nat
  BY TimesNat
<1>3. i % n \in 0 .. n - 1 /\ i = q * n + (i % n)
  BY <1>1, Divided
<1> QED
  BY <1>1, <1>2, <1>3 DEF AlignDown

(* An address is in its large page, and in no other.                       *)
LEMMA FirstNat ==
  ASSUME RelocateAssumption, NEW p \in Nat PROVE First(p) \in Nat
BY TimesNat DEF First, RelocateAssumption

LEMMA FirstPlus ==
  ASSUME RelocateAssumption, NEW p \in Nat, NEW q \in Nat
  PROVE  First(p + q) = First(p) + First(q)
BY DEF First, RelocateAssumption

LEMMA FirstNext ==
  ASSUME RelocateAssumption, NEW p \in Nat, NEW q \in Nat, p < q
  PROVE  First(p) + PAGE_SIZE_2MB <= First(q)
BY Apart DEF First, RelocateAssumption

LEMMA InPage ==
  ASSUME RelocateAssumption, NEW a \in Nat
  PROVE  /\ LargePage(a) \in Nat /\ a % PAGE_SIZE_2MB \in 0 .. PAGE_SIZE_2MB - 1
         /\ a = First(LargePage(a)) + (a % PAGE_SIZE_2MB)
BY Divided, Quotient DEF First, LargePage, RelocateAssumption

LEMMA PageIs ==
  ASSUME RelocateAssumption, NEW a \in Nat, NEW p \in Nat,
         NEW x \in 0 .. PAGE_SIZE_2MB - 1, a = First(p) + x
  PROVE  LargePage(a) = p /\ a % PAGE_SIZE_2MB = x
<1> DEFINE q == LargePage(a)
           y == a % PAGE_SIZE_2MB
<1>1. q \in Nat /\ y \in 0 .. PAGE_SIZE_2MB - 1 /\ a = First(q) + y
  BY InPage
<1>2. First(p) \in Nat /\ First(q) \in Nat /\ PAGE_SIZE_2MB \in Nat
  BY <1>1, FirstNat DEF RelocateAssumption
<1> HIDE DEF q, y
<1>3. ~(p < q) /\ ~(q < p)
  BY <1>1, <1>2, FirstNext
<1>4. p = q
  BY <1>1, <1>3
<1> QED
  BY <1>1, <1>2, <1>4 DEF q, y

LEMMA PageMonotone ==
  ASSUME RelocateAssumption, NEW a \in Nat, NEW b \in Nat, a <= b
  PROVE  LargePage(a) <= LargePage(b)
<1> DEFINE p == LargePage(a)
           q == LargePage(b)
           x == a % PAGE_SIZE_2MB
           y == b % PAGE_SIZE_2MB
<1>1. /\ p \in Nat /\ x \in 0 .. PAGE_SIZE_2MB - 1 /\ a = First(p) + x
      /\ q \in Nat /\ y \in 0 .. PAGE_SIZE_2MB - 1 /\ b = First(q) + y
  BY InPage
<1>2. First(p) \in Nat /\ First(q) \in Nat /\ PAGE_SIZE_2MB \in Nat
  BY <1>1, FirstNat DEF RelocateAssumption
<1> HIDE DEF p, q, x, y
<1>3. ~(q < p)
  BY <1>1, <1>2, FirstNext
<1> QED
  BY <1>1, <1>3 DEF p, q

(* Moved by whole pages, an address stays where it is in its page.         *)
LEMMA PageShifted ==
  ASSUME RelocateAssumption, NEW a \in Nat, NEW n \in Nat
  PROVE  /\ LargePage(a + First(n)) = LargePage(a) + n
         /\ (a + First(n)) % PAGE_SIZE_2MB = a % PAGE_SIZE_2MB
<1>1. PICK p \in Nat, x \in 0 .. PAGE_SIZE_2MB - 1 :
        p = LargePage(a) /\ x = a % PAGE_SIZE_2MB /\ a = First(p) + x
  BY InPage
<1>2. First(p) \in Nat /\ First(n) \in Nat /\ PAGE_SIZE_2MB \in Nat
  BY <1>1, FirstNat DEF RelocateAssumption
<1>3. p + n \in Nat /\ First(p + n) = First(p) + First(n)
  BY FirstPlus
<1>4. a + First(n) \in Nat /\ a + First(n) = First(p + n) + x
  BY <1>1, <1>2, <1>3
<1> QED
  BY <1>1, <1>3, <1>4, PageIs

(* Below the end of memory there is a large page for every address, one of *)
(* them the window's.                                                      *)
LEMMA PagesHold ==
  ASSUME RelocateAssumption, NEW a \in 0 .. ADDR_4GB - 1
  PROVE  a \in 0 .. Top - 1 /\ LargePage(a) \in Pages /\ Window \in Pages
<1>1. a \in Nat /\ Top - 1 \in Nat /\ a <= Top - 1
      /\ PAGE_SIZE_2MB \in Nat /\ PAGE_SIZE_2MB <= Top - 1
  BY DEF RelocateAssumption
<1>2. /\ LargePage(a) \in Nat /\ LargePage(PAGE_SIZE_2MB) \in Nat /\ LargePage(Top - 1) \in Nat
      /\ LargePage(a) <= LargePage(Top - 1)
      /\ LargePage(PAGE_SIZE_2MB) <= LargePage(Top - 1)
  BY <1>1, InPage, PageMonotone
<1> QED
  BY <1>1, <1>2 DEF Pages, Window, COPY_WINDOW

(* The initrd lies below 4GB.                                              *)
LEMMA InitrdBelow ==
  ASSUME RelocateAssumption, RelocateTypeOK
  PROVE  /\ initrd_len \in Nat \ {0} /\ place \in Nat /\ loaded \in Nat
         /\ done \in 0 .. initrd_len /\ ADDR_4GB \in Nat /\ Top \in Nat /\ ADDR_4GB <= Top
         /\ place + initrd_len <= ADDR_4GB
         /\ \A k \in 0 .. initrd_len - 1 : place + k \in 0 .. ADDR_4GB - 1
<1>1. /\ initrd_len \in Nat \ {0} /\ place \in Nat /\ loaded \in Nat
      /\ done \in 0 .. initrd_len /\ ADDR_4GB \in Nat /\ Top \in Nat /\ ADDR_4GB <= Top
      /\ place + initrd_len <= ADDR_4GB
  BY DEF RelocateAssumption, RelocateTypeOK
<1> QED
  BY <1>1

LEMMA NotCopied == ASSUME done = 0, NEW p PROVE ~CopiedPage(p)
BY DEF CopiedPage

LEMMA RelocateStart == ASSUME RelocateAssumption, RelocateInit PROVE RelocateInv
<1>1. /\ e820 \in Maps /\ next = 1 /\ paging \in BOOLEAN
      /\ loaded \in InitrdPlaces /\ initrd_len \in InitrdLens /\ place = loaded
      /\ mem = [a \in 0 .. Top - 1 |-> a] /\ pd = [p \in Pages |-> p]
      /\ done = 0 /\ dest = 0 /\ stage = "low"
  BY DEF RelocateInit, Content, Pages
<1>2. RelocateTypeOK
  <2>1. place \in Nat /\ initrd_len \in Nat \ {0} /\ place + initrd_len <= ADDR_4GB
    BY <1>1 DEF RelocateAssumption
  <2>2. pd \in [Pages -> Nat]
    BY <1>1 DEF Pages
  <2> QED
    BY <1>1, <2>1, <2>2 DEF RelocateTypeOK
<1>3. LowCopy
  <2>1. \A a \in 0 .. ADDR_4GB - 1 : mem[a] = a
    BY <1>1, PagesHold
  <2> QED
    BY <1>1, <1>2, <2>1, InitrdBelow DEF LowCopy, Content
<1>4. HighCopy
  <2>1. Window \in Pages
    BY <1>2, InitrdBelow, PagesHold
  <2> QED
    BY <1>1, <2>1, NotCopied DEF HighCopy
<1> QED
  BY <1>1, <1>2, <1>3, <1>4 DEF RelocateInv, Stages, Fragments, DestinationUsable

(* Whatever leaves everything but the place in the map.                    *)
LEMMA MapStep ==
  ASSUME RelocateInv, next' \in Nat \ {0},
         UNCHANGED <<e820, paging, loaded, place, initrd_len, mem, pd, done, dest, stage>>
  PROVE  RelocateInv'
<1>1. RelocateTypeOK'
  BY DEF RelocateInv, RelocateTypeOK
<1>2. Stages' /\ LowCopy' /\ DestinationUsable'
  BY DEF RelocateInv, Stages, LowCopy, DestinationUsable, InRam, RegionEnd
<1>3. Fragments'
  BY DEF RelocateInv, Fragments, Distance, Offset, Source
<1>4. HighCopy'
  BY DEF RelocateInv, HighCopy, CopiedPage, Distance
<1> QED
  BY <1>1, <1>2, <1>3, <1>4 DEF RelocateInv

LEMMA StayLowStep == ASSUME RelocateAssumption, RelocateInv, StayLow PROVE RelocateInv'
<1>1. /\ stage = "low" /\ done = 0 /\ place = loaded
      /\ stage' = "high" /\ next' = 1
      /\ UNCHANGED <<e820, paging, loaded, place, initrd_len, mem, pd, done, dest>>
  BY DEF StayLow, RelocateInv, Stages
<1>2. RelocateTypeOK'
  BY <1>1 DEF RelocateInv, RelocateTypeOK
<1>3. Stages' /\ LowCopy' /\ Fragments' /\ DestinationUsable'
  BY <1>1 DEF RelocateInv, Stages, LowCopy, Fragments, DestinationUsable
<1>4. HighCopy'
  BY <1>1 DEF RelocateInv, HighCopy, CopiedPage, Distance
<1> QED
  BY <1>2, <1>3, <1>4 DEF RelocateInv

LEMMA StayHighStep == ASSUME RelocateAssumption, RelocateInv, StayHigh PROVE RelocateInv'
<1>1. /\ stage = "high" /\ done = 0 /\ stage' = "started" /\ dest' = place
      /\ UNCHANGED <<e820, next, paging, loaded, place, initrd_len, mem, pd, done>>
  BY DEF StayHigh, RelocateInv, Stages
<1>2. RelocateTypeOK'
  BY <1>1 DEF RelocateInv, RelocateTypeOK
<1>3. Stages' /\ LowCopy' /\ Fragments'
  BY <1>1 DEF RelocateInv, Stages, LowCopy, Fragments
<1>4. DestinationUsable'
  BY <1>1 DEF RelocateInv, DestinationUsable, InRam, RegionEnd
<1>5. HighCopy'
  BY <1>1, NotCopied DEF RelocateInv, HighCopy, CopiedPage
<1> QED
  BY <1>2, <1>3, <1>4, <1>5 DEF RelocateInv

(* What the map says of an entry that is used.                             *)
LEMMA RegionIs ==
  ASSUME RelocateAssumption, RelocateTypeOK, Usable
  PROVE  /\ next \in DOMAIN e820 /\ Region.usable /\ Region = e820[next]
         /\ Region.start \in Nat /\ Region.len \in Nat
         /\ RegionEnd(Region) = Region.start + Region.len
         /\ RegionEnd(Region) \in Nat /\ RegionEnd(Region) <= Top
<1>1. e820 \in Seq([start : Nat, len : Nat, usable : BOOLEAN]) /\ e820 \in Maps
  BY DEF RelocateAssumption, RelocateTypeOK
<1>2. next \in DOMAIN e820 /\ Region.usable
  BY <1>1 DEF Usable, RelocateTypeOK
<1>3. Region \in [start : Nat, len : Nat, usable : BOOLEAN]
  <2> DEFINE entries == [start : Nat, len : Nat, usable : BOOLEAN]
  <2>1. next \in 1 .. Len(e820) /\ e820 \in Seq(entries)
    BY <1>1, <1>2
  <2> HIDE DEF entries
  <2>2. e820[next] \in entries
    BY <2>1, ElementOfSeq
  <2> QED
    BY <2>2 DEF Region, entries
<1>4. Region.start \in Nat /\ Region.len \in Nat
  BY <1>3
<1>5. Region.start + Region.len <= Top
  BY <1>1, <1>2 DEF RelocateAssumption, Region
<1> QED
  BY <1>2, <1>4, <1>5 DEF RegionEnd, Region

(* The move below 2GB, in one copy, overlapping or not.                    *)
LEMMA MoveLowStep == ASSUME RelocateAssumption, RelocateInv, MoveLow PROVE RelocateInv'
<1> DEFINE to == LowStart(Region)
<1>1. /\ stage = "low" /\ done = 0 /\ place = loaded /\ Usable /\ LowFits(Region)
      /\ mem' = memmove(place, to, initrd_len) /\ place' = to
      /\ stage' = "high" /\ next' = 1
      /\ UNCHANGED <<e820, paging, loaded, initrd_len, pd, done, dest>>
  BY DEF MoveLow, RelocateInv, Stages
<1>2. /\ initrd_len \in Nat \ {0} /\ place \in Nat /\ loaded \in Nat
      /\ ADDR_4GB \in Nat /\ Top \in Nat /\ ADDR_4GB <= Top
      /\ place + initrd_len <= ADDR_4GB
      /\ ADDR_1MB \in Nat /\ ADDR_2GB \in Nat /\ ADDR_2GB <= ADDR_4GB
  BY InitrdBelow DEF RelocateInv, RelocateAssumption
<1>3. /\ next \in DOMAIN e820 /\ Region.usable /\ Region = e820[next]
      /\ Region.start \in Nat /\ RegionEnd(Region) \in Nat
  BY <1>1, RegionIs DEF RelocateInv
<1>4. PICK end \in Nat : /\ end = LowEnd(Region) /\ end <= ADDR_2GB
                         /\ end <= RegionEnd(Region) /\ initrd_len <= end
  <2>1. LowEnd(Region) \in Nat /\ LowEnd(Region) <= ADDR_2GB /\ LowEnd(Region) <= RegionEnd(Region)
    BY <1>2, <1>3 DEF LowEnd
  <2>2. initrd_len <= LowEnd(Region)
    BY <1>1, <1>2, <2>1 DEF LowFits
  <2> QED
    BY <2>1, <2>2
<1>5. to \in Nat /\ to <= end - initrd_len
  <2>1. end - initrd_len \in Nat
    BY <1>2, <1>4
  <2>2. PAGE_SIZE \in Nat \ {0}
    BY DEF RelocateAssumption
  <2> QED
    BY <1>4, <2>1, <2>2, AlignedBelow DEF LowStart
<1>6. Region.start <= to /\ ADDR_1MB <= to
  BY <1>1, <1>2, <1>3, <1>5 DEF LowFits
<1> HIDE DEF to
<1>7. to + initrd_len <= end /\ to + initrd_len <= ADDR_4GB
  BY <1>2, <1>4, <1>5
<1>8. RelocateTypeOK'
  <2>1. mem' = [a \in 0 .. Top - 1 |-> mem'[a]]
    <3>1. DOMAIN mem = 0 .. Top - 1
      BY DEF RelocateInv, RelocateTypeOK
    <3> QED
      BY <1>1, <3>1 DEF memmove
  <2>2. place' \in Nat /\ place' + initrd_len' <= ADDR_4GB
    BY <1>1, <1>5, <1>7
  <2> QED
    BY <1>1, <2>1, <2>2 DEF RelocateInv, RelocateTypeOK
<1>9. /\ \A k \in 0 .. initrd_len - 1 : mem[place + k] = Content(loaded + k)
      /\ \A a \in 0 .. ADDR_4GB - 1 :
           a \in place .. place + initrd_len - 1 \/ mem[a] = Content(a)
  BY DEF RelocateInv, LowCopy
<1>10. \A a \in 0 .. ADDR_4GB - 1 :
         mem'[a] = IF a \in to .. to + initrd_len - 1 THEN mem[a - to + place] ELSE mem[a]
  <2>1. mem = [a \in 0 .. Top - 1 |-> mem[a]]
    BY DEF RelocateInv, RelocateTypeOK
  <2>2. \A a \in 0 .. ADDR_4GB - 1 : a \in 0 .. Top - 1
    BY <1>2
  <2> QED
    BY <1>1, <2>1, <2>2 DEF memmove
<1>11. ASSUME NEW k \in 0 .. initrd_len - 1
       PROVE  mem'[to + k] = Content(loaded + k)
  <2>1. /\ to + k \in 0 .. ADDR_4GB - 1 /\ to + k \in to .. to + initrd_len - 1
        /\ (to + k) - to + place = place + k
    BY <1>2, <1>5, <1>7
  <2> QED
    BY <1>9, <1>10, <2>1
<1>12. ASSUME NEW a \in 0 .. ADDR_4GB - 1, a \notin to .. to + initrd_len - 1
       PROVE  mem'[a] = Content(a)
  <2>1. mem'[a] = mem[a]
    BY <1>10, <1>12
  <2>2. CASE a \in place .. place + initrd_len - 1
    <3>1. a - place \in 0 .. initrd_len - 1 /\ place + (a - place) = a
      BY <1>2, <2>2
    <3> QED
      BY <1>1, <1>9, <2>1, <3>1
  <2> QED
    BY <1>9, <2>1, <2>2
<1>13. LowCopy'
  BY <1>1, <1>11, <1>12 DEF LowCopy, Content
<1>14. Stages' /\ Fragments'
  BY <1>1 DEF Stages, Fragments
<1>15. HighCopy'
  BY <1>1, NotCopied DEF RelocateInv, HighCopy, CopiedPage
<1>16. DestinationUsable'
  <2>1. /\ Region.start <= place' /\ place' + initrd_len' <= RegionEnd(Region)
        /\ place' >= ADDR_1MB /\ place' + initrd_len' <= ADDR_2GB
    BY <1>1, <1>2, <1>3, <1>4, <1>5, <1>6, <1>7
  <2>2. InRam(place, place + initrd_len)'
    BY <1>1, <1>3, <2>1 DEF InRam, RegionEnd
  <2> QED
    BY <1>1, <2>1, <2>2 DEF DestinationUsable
<1> QED
  BY <1>8, <1>13, <1>14, <1>15, <1>16 DEF RelocateInv

(* The place above 4GB: as many large pages on as there is room.           *)
LEMMA MoveHighStep == ASSUME RelocateAssumption, RelocateInv, MoveHigh PROVE RelocateInv'
<1>1. /\ stage = "high" /\ done = 0 /\ Usable /\ HighFits(Region)
      /\ dest' = HighStart(Region) /\ done' = 0 /\ stage' = "copy"
      /\ UNCHANGED <<e820, next, paging, loaded, place, initrd_len, mem, pd>>
  BY DEF MoveHigh, RelocateInv, Stages
<1>2. /\ initrd_len \in Nat \ {0} /\ place \in Nat
      /\ ADDR_4GB \in Nat /\ Top \in Nat /\ place + initrd_len <= ADDR_4GB
  BY InitrdBelow DEF RelocateInv
<1>3. /\ next \in DOMAIN e820 /\ Region.usable /\ Region = e820[next]
      /\ Region.start \in Nat /\ RegionEnd(Region) \in Nat /\ RegionEnd(Region) <= Top
  BY <1>1, RegionIs DEF RelocateInv
<1>4. PICK room \in Nat : /\ room = RegionEnd(Region) - (place + initrd_len)
                          /\ RegionEnd(Region) >= ADDR_4GB
  <2>1. RegionEnd(Region) >= ADDR_4GB
    BY <1>1 DEF HighFits
  <2>2. RegionEnd(Region) - (place + initrd_len) \in Nat
    BY <1>2, <1>3, <2>1
  <2> QED
    BY <2>1, <2>2
<1>5. PICK n \in Nat : /\ n = room \div PAGE_SIZE_2MB
                       /\ First(n) \in Nat /\ First(n) <= room
                       /\ AlignDown(room, PAGE_SIZE_2MB) = First(n)
  <2>1. PAGE_SIZE_2MB \in Nat \ {0}
    BY DEF RelocateAssumption
  <2> QED
    BY <2>1, AlignedBelow, Quotient DEF AlignDown, First
<1>6. dest' = First(n) + (place + initrd_len) - initrd_len
  BY <1>1, <1>4, <1>5 DEF HighStart
<1>7. dest' \in Nat /\ dest' = place + First(n) /\ dest' + initrd_len <= RegionEnd(Region)
  <2>1. /\ dest' = First(n) + place /\ dest' \in Nat
        /\ First(n) <= RegionEnd(Region) - (place + initrd_len)
    BY <1>2, <1>4, <1>5, <1>6
  <2> QED
    BY <1>2, <1>3, <1>5, <2>1
<1>8. Region.start <= dest' /\ ADDR_4GB <= dest'
  BY <1>1, <1>2, <1>3, <1>7 DEF HighFits
<1>9. RelocateTypeOK'
  BY <1>1, <1>7, <1>2 DEF RelocateInv, RelocateTypeOK
<1>10. Stages' /\ LowCopy'
  BY <1>1 DEF RelocateInv, Stages, LowCopy
<1>11. Fragments'
  <2>1. Distance' = n * PAGE_SIZE_2MB
    <3>1. Distance' = First(n)
      BY <1>1, <1>2, <1>5, <1>7 DEF Distance
    <3> QED
      BY <3>1 DEF First
  <2>2. dest' + initrd_len' <= Top
    BY <1>1, <1>2, <1>3, <1>7
  <2>3. dest' >= ADDR_4GB
    BY <1>2, <1>7, <1>8
  <2>4. done' \in {0, initrd_len'} \/ Offset' = 0
    BY <1>1
  <2> QED
    BY <2>1, <2>2, <2>3, <2>4 DEF Fragments
<1>12. HighCopy'
  <2>1. \A p \in Pages \ {Window} : pd'[p] = p
    BY <1>1, NotCopied DEF RelocateInv, HighCopy
  <2>2. \A p : ~CopiedPage(p)'
    BY <1>1 DEF CopiedPage
  <2>3. Pages' = Pages /\ Window' = Window
    BY DEF Pages, Window, COPY_WINDOW, LargePage
  <2> QED
    BY <1>1, <2>1, <2>2, <2>3 DEF HighCopy
<1>13. DestinationUsable'
  <2>1. InRam(dest, dest + initrd_len)'
    BY <1>1, <1>3, <1>7, <1>8 DEF InRam, RegionEnd
  <2>2. InRam(place, place + initrd_len)' = InRam(place, place + initrd_len)
    BY <1>1 DEF InRam, RegionEnd
  <2>3. dest' >= ADDR_4GB
    BY <1>2, <1>7, <1>8
  <2> QED
    BY <1>1, <2>1, <2>2, <2>3 DEF RelocateInv, DestinationUsable
<1> QED
  BY <1>9, <1>10, <1>11, <1>12, <1>13 DEF RelocateInv

LEMMA RestoreStep == ASSUME RelocateAssumption, RelocateInv, RestoreWindow PROVE RelocateInv'
<1>1. /\ stage = "copy" /\ done = initrd_len /\ stage' = "started"
      /\ pd' = [pd EXCEPT ![Window] = Window]
      /\ UNCHANGED <<e820, next, paging, loaded, place, initrd_len, mem, done, dest>>
  BY DEF RestoreWindow, Window
<1>2. pd \in [Pages -> Nat] /\ Window \in Pages /\ Window \in Nat
  <2>1. place + 0 \in 0 .. ADDR_4GB - 1
    BY InitrdBelow DEF RelocateInv
  <2>2. Window \in Pages
    BY <2>1, PagesHold
  <2> QED
    BY <2>2 DEF RelocateInv, RelocateTypeOK, Pages
<1>3. RelocateTypeOK'
  <2>1. pd' \in [Pages -> Nat]
    BY <1>1, <1>2
  <2> QED
    BY <1>1, <2>1 DEF RelocateInv, RelocateTypeOK, Pages, LargePage
<1>4. Stages' /\ LowCopy'
  BY <1>1 DEF RelocateInv, Stages, LowCopy
<1>5. Fragments'
  BY <1>1 DEF RelocateInv, Fragments, Distance, Offset, Source
<1>6. HighCopy'
  <2>1. pd'[Window] = Window /\ \A p \in Pages \ {Window} : pd'[p] = pd[p]
    BY <1>1, <1>2
  <2>2. \A p : CopiedPage(p)' = CopiedPage(p)
    BY <1>1 DEF CopiedPage
  <2>3. Pages' = Pages /\ Window' = Window /\ Distance' = Distance
    BY <1>1 DEF Pages, Window, COPY_WINDOW, LargePage, Distance
  <2>4. \A p \in Pages \ {Window} :
          pd'[p] = IF CopiedPage(p)' THEN p + LargePage(Distance)' ELSE p
    BY <2>1, <2>2, <2>3 DEF RelocateInv, HighCopy, LargePage
  <2>5. \A k \in 0 .. done' - 1 :
          LargePage(place' + k) # Window => mem'[place' + k + Distance'] = Content(loaded' + k)
    BY <1>1, <2>3 DEF RelocateInv, HighCopy
  <2> QED
    BY <2>1, <2>3, <2>4, <2>5 DEF HighCopy, LargePage, Content
<1>7. DestinationUsable'
  BY <1>1 DEF RelocateInv, DestinationUsable, InRam, RegionEnd
<1> QED
  BY <1>3, <1>4, <1>5, <1>6, <1>7 DEF RelocateInv

(* What a copy is about: it stays in one large page, and begins a page     *)
(* that has not been copied.                                               *)
LEMMA Fragment ==
  ASSUME RelocateAssumption, RelocateTypeOK, Fragments, stage = "copy", done < initrd_len
  PROVE  /\ Source \in 0 .. ADDR_4GB - 1 /\ Source = place + done
         /\ FragLen \in Nat \ {0} /\ done + FragLen <= initrd_len
         /\ Offset \in Nat /\ Offset + FragLen <= PAGE_SIZE_2MB
         /\ Source = First(LargePage(Source)) + Offset /\ LargePage(Source) \in Nat
         /\ done + FragLen = initrd_len \/ Offset + FragLen = PAGE_SIZE_2MB
         /\ done = 0 \/ Offset = 0
<1>1. /\ initrd_len \in Nat \ {0} /\ place \in Nat /\ done \in 0 .. initrd_len
      /\ \A k \in 0 .. initrd_len - 1 : place + k \in 0 .. ADDR_4GB - 1
  BY InitrdBelow
<1>2. Source \in 0 .. ADDR_4GB - 1 /\ Source = place + done
  BY <1>1 DEF Source
<1>3. Source \in Nat
  BY <1>2
<1>4. /\ Offset \in 0 .. PAGE_SIZE_2MB - 1 /\ LargePage(Source) \in Nat
      /\ Source = First(LargePage(Source)) + Offset
  BY <1>3, InPage DEF Offset
<1>5. Remaining \in Nat \ {0} /\ Remaining = initrd_len - done /\ PAGE_SIZE_2MB \in Nat
  BY <1>1 DEF Remaining, RelocateAssumption
<1>6. FragLen = Remaining \/ FragLen = PAGE_SIZE_2MB - Offset
  BY DEF FragLen
<1>7. FragLen <= Remaining /\ FragLen <= PAGE_SIZE_2MB - Offset
  BY <1>4, <1>5 DEF FragLen
<1>8. done = 0 \/ Offset = 0
  BY <1>1 DEF Fragments
<1> QED
  BY <1>1, <1>2, <1>4, <1>5, <1>6, <1>7, <1>8

(* What comes before a fragment lies in earlier pages, what is in it in    *)
(* its own.                                                                *)
LEMMA FragmentPages ==
  ASSUME RelocateAssumption, RelocateTypeOK, Fragments, stage = "copy", done < initrd_len
  PROVE  /\ ~CopiedPage(LargePage(Source))
         /\ \A j \in 0 .. FragLen - 1 : LargePage(Source + j) = LargePage(Source)
<1> DEFINE s == LargePage(Source)
<1>1. /\ Source \in Nat /\ Source = place + done /\ place \in Nat /\ done \in Nat
      /\ FragLen \in Nat /\ Offset \in Nat /\ Offset + FragLen <= PAGE_SIZE_2MB
      /\ Source = First(s) + Offset /\ s \in Nat /\ PAGE_SIZE_2MB \in Nat
      /\ done = 0 \/ (Offset = 0 /\ Source = First(s))
  <2>1. First(s) + 0 = First(s)
    BY Fragment, FirstNat
  <2> QED
    BY Fragment, InitrdBelow, <2>1 DEF RelocateAssumption
<1>2. First(s) \in Nat
  BY <1>1, FirstNat
<1> HIDE DEF s
<1>3. ASSUME NEW k \in 0 .. done - 1 PROVE LargePage(place + k) # s
  <2>1. Source = First(s) /\ place + k < First(s) /\ place + k \in Nat
    BY <1>1, <1>3
  <2>2. place + k = First(LargePage(place + k)) + ((place + k) % PAGE_SIZE_2MB)
        /\ ((place + k) % PAGE_SIZE_2MB) \in 0 .. PAGE_SIZE_2MB - 1
    BY <2>1, InPage
  <2> QED
    BY <1>2, <2>1, <2>2
<1>4. ASSUME NEW j \in 0 .. FragLen - 1 PROVE LargePage(Source + j) = s
  <2>1. /\ Source + j \in Nat /\ Offset + j \in 0 .. PAGE_SIZE_2MB - 1
        /\ Source + j = First(s) + (Offset + j)
    BY <1>1, <1>2
  <2> QED
    BY <1>1, <2>1, PageIs
<1> QED
  BY <1>3, <1>4 DEF CopiedPage, s

LEMMA CopyStep == ASSUME RelocateAssumption, RelocateInv, CopyPage PROVE RelocateInv'
<1> DEFINE to == LargePage(dest + done)
           s == LargePage(Source)
           window == [pd EXCEPT ![Window] = to]
           from(a) == window[s] * PAGE_SIZE_2MB + (a - to * PAGE_SIZE_2MB)
           written == to * PAGE_SIZE_2MB + Offset .. to * PAGE_SIZE_2MB + Offset + FragLen - 1
<1>1. /\ stage = "copy" /\ done < initrd_len
      /\ mem' = [a \in DOMAIN mem |-> IF a \in written THEN mem[from(a)] ELSE mem[a]]
      /\ pd' = [window EXCEPT ![s] = to]
      /\ done' = done + FragLen
      /\ UNCHANGED <<e820, next, paging, loaded, place, initrd_len, dest, stage>>
  BY DEF CopyPage, Window
<1>2. RelocateTypeOK /\ Fragments
  BY DEF RelocateInv
<1>3. /\ initrd_len \in Nat \ {0} /\ place \in Nat /\ loaded \in Nat /\ done \in Nat
      /\ ADDR_4GB \in Nat /\ Top \in Nat /\ ADDR_4GB <= Top
      /\ place + initrd_len <= ADDR_4GB /\ PAGE_SIZE_2MB \in Nat \ {0}
      /\ dest \in Nat /\ dest >= ADDR_4GB /\ dest + initrd_len <= Top
  BY <1>1, <1>2, InitrdBelow DEF Fragments, RelocateTypeOK, RelocateAssumption
<1>4. PICK n \in Nat : Distance = First(n) /\ First(n) \in Nat /\ dest = place + First(n)
  <2>1. PICK n \in Nat : Distance = n * PAGE_SIZE_2MB
    BY <1>1, <1>2 DEF Fragments
  <2>2. Distance = First(n) /\ First(n) \in Nat
    BY <2>1, FirstNat DEF First
  <2>3. dest = place + First(n)
    BY <1>3, <2>2 DEF Distance
  <2> QED
    BY <2>2, <2>3
<1>5. /\ Source \in 0 .. ADDR_4GB - 1 /\ Source \in Nat /\ Source = place + done
      /\ FragLen \in Nat \ {0} /\ done + FragLen <= initrd_len
      /\ Offset \in Nat /\ Offset + FragLen <= PAGE_SIZE_2MB
      /\ Source = First(s) + Offset /\ s \in Nat
      /\ done + FragLen = initrd_len \/ Offset + FragLen = PAGE_SIZE_2MB
  BY <1>1, <1>2, Fragment
<1>6. First(s) \in Nat /\ First(s + n) = First(s) + First(n)
  BY <1>5, FirstNat, FirstPlus
<1>7. to = s + n
  <2>1. dest + done = Source + First(n)
    BY <1>3, <1>4, <1>5
  <2> QED
    BY <1>5, <2>1, PageShifted
<1>8. s \in Pages /\ Window \in Pages
  BY <1>5, PagesHold
<1>9. /\ ~CopiedPage(s)
      /\ \A j \in 0 .. FragLen - 1 : LargePage(Source + j) = s
  BY <1>1, <1>2, FragmentPages
<1>10. pd \in [Pages -> Nat] /\ (s # Window => pd[s] = s)
  <2>1. pd \in [Pages -> Nat]
    BY <1>2 DEF RelocateTypeOK
  <2>2. ASSUME s # Window PROVE pd[s] = s
    <3>1. s \in Pages \ {Window}
      BY <1>8, <2>2
    <3> HIDE DEF s
    <3> QED
      BY <3>1, <1>9 DEF RelocateInv, HighCopy
  <2> QED
    BY <2>1, <2>2
<1>11. written = dest + done .. dest + done + FragLen - 1
  <2>1. to * PAGE_SIZE_2MB = First(s) + First(n)
    BY <1>6, <1>7 DEF First
  <2>2. to * PAGE_SIZE_2MB + Offset = dest + done
    BY <1>3, <1>4, <1>5, <1>6, <2>1
  <2> QED
    BY <2>2
<1>12. s # Window => \A a \in written : from(a) = a - First(n)
  <2>1. to * PAGE_SIZE_2MB = First(s) + First(n)
    BY <1>6, <1>7 DEF First
  <2>2. ASSUME s # Window PROVE window[s] * PAGE_SIZE_2MB = First(s)
    <3>1. window[s] = s
      BY <1>8, <1>10, <2>2
    <3> QED
      BY <3>1 DEF First
  <2>3. \A a \in written : a \in Int
    BY <1>3, <1>5, <1>11
  <2>4. ASSUME s # Window, NEW a \in Int PROVE from(a) = a - First(n)
    <3>1. from(a) = First(s) + (a - (First(s) + First(n)))
      BY <2>1, <2>2, <2>4
    <3> HIDE DEF from
    <3> QED
      BY <1>4, <1>6, <3>1
  <2> HIDE DEF from, written
  <2> QED
    BY <2>3, <2>4
<1> HIDE DEF to, from, written
<1>13. pd' \in [Pages -> Nat] /\ pd'[s] = s + n
       /\ \A p \in Pages : p # Window /\ p # s => pd'[p] = pd[p]
  <2>1. to \in Nat
    BY <1>5, <1>7
  <2> HIDE DEF s
  <2> QED
    BY <1>1, <1>7, <1>8, <1>10, <2>1
<1>14. /\ DOMAIN mem = 0 .. Top - 1 /\ mem' = [a \in 0 .. Top - 1 |-> mem'[a]]
       /\ \A a \in 0 .. Top - 1 : mem'[a] = IF a \in written THEN mem[from(a)] ELSE mem[a]
  <2>1. DOMAIN mem = 0 .. Top - 1
    BY <1>2 DEF RelocateTypeOK
  <2> QED
    BY <1>1, <2>1
<1>15. done' \in 0 .. initrd_len /\ done' = done + FragLen
  BY <1>1, <1>3, <1>5
<1> HIDE DEF s, window
<1>16. RelocateTypeOK'
  BY <1>1, <1>2, <1>13, <1>14, <1>15 DEF RelocateTypeOK, Pages, LargePage
<1>17. Stages'
  BY <1>1 DEF RelocateInv, Stages
<1>18. \A a \in 0 .. ADDR_4GB - 1 : a \in 0 .. Top - 1 /\ mem'[a] = mem[a]
  <2>1. \A a \in 0 .. ADDR_4GB - 1 : a \in 0 .. Top - 1 /\ a \notin written
    BY <1>3, <1>11
  <2> QED
    BY <1>14, <2>1
<1>19. LowCopy'
  <2>1. \A k \in 0 .. initrd_len - 1 : place + k \in 0 .. ADDR_4GB - 1
    BY <1>3
  <2> QED
    BY <1>1, <1>18, <2>1 DEF RelocateInv, LowCopy, Content
<1>20. Fragments'
  <2>1. dest' >= ADDR_4GB /\ dest' + initrd_len' <= Top
    BY <1>1, <1>3
  <2>2. Distance' = n * PAGE_SIZE_2MB
    BY <1>1, <1>4 DEF Distance, First
  <2>3. done' = initrd_len \/ Offset' = 0
    <3>1. SUFFICES ASSUME Offset + FragLen = PAGE_SIZE_2MB PROVE Offset' = 0
      BY <1>5, <1>15
    <3>2. Source' = place + done + FragLen
      BY <1>1, <1>3, <1>5, <1>15 DEF Source
    <3>3. First(s + 1) = First(s) + First(1) /\ First(1) = PAGE_SIZE_2MB
      BY <1>3, <1>5, FirstPlus DEF First
    <3>4. /\ Source' \in Nat /\ Source' = First(s + 1) + 0
          /\ s + 1 \in Nat /\ 0 \in 0 .. PAGE_SIZE_2MB - 1
      BY <1>3, <1>5, <1>6, <3>1, <3>2, <3>3
    <3> QED
      BY <3>4, PageIs DEF Offset
  <2> QED
    BY <1>1, <2>1, <2>2, <2>3 DEF Fragments
<1>21. \A p : CopiedPage(p)' <=> CopiedPage(p) \/ p = s
  <2>1. \A k \in done .. done + FragLen - 1 : LargePage(place + k) = s
    <3>1. ASSUME NEW k \in done .. done + FragLen - 1 PROVE LargePage(place + k) = s
      <4>1. k - done \in 0 .. FragLen - 1 /\ Source + (k - done) = place + k
        BY <1>3, <1>5, <3>1
      <4> QED
        BY <1>9, <4>1
    <3> QED
      BY <3>1
  <2>2. \A k : k \in 0 .. done' - 1 <=> k \in 0 .. done - 1 \/ k \in done .. done + FragLen - 1
    BY <1>3, <1>5, <1>15
  <2>3. done \in done .. done + FragLen - 1
    BY <1>3, <1>5
  <2>4. \A p : CopiedPage(p)' <=> \E k \in 0 .. done' - 1 : p = LargePage(place + k)
    BY <1>1 DEF CopiedPage, LargePage
  <2> QED
    BY <2>1, <2>2, <2>3, <2>4 DEF CopiedPage
<1>22. LargePage(Distance) = n
  <2>1. 0 \in 0 .. PAGE_SIZE_2MB - 1 /\ First(n) = First(n) + 0
    BY <1>3, <1>4
  <2> QED
    BY <1>4, <2>1, PageIs
<1>23. \A p \in Pages \ {Window} : pd'[p] = IF CopiedPage(p)' THEN p + n ELSE p
  <2>1. \A p \in Pages \ {Window} : pd[p] = IF CopiedPage(p) THEN p + n ELSE p
    BY <1>22 DEF RelocateInv, HighCopy
  <2> QED
    BY <1>13, <1>21, <2>1
<1>24. ASSUME NEW k \in 0 .. done' - 1, LargePage(place + k) # Window
       PROVE  mem'[place + k + First(n)] = Content(loaded + k)
  <2>1. k \in Nat /\ k < initrd_len /\ place + k + First(n) = dest + k
        /\ dest + k \in 0 .. Top - 1
    BY <1>3, <1>4, <1>5, <1>15, <1>24
  <2>2. CASE k < done
    <3>1. dest + k \notin written
      BY <1>3, <1>11, <2>1, <2>2
    <3>2. k \in 0 .. done - 1
      BY <1>3, <2>1, <2>2
    <3>3. mem[place + k + Distance] = Content(loaded + k)
      BY <1>24, <3>2 DEF RelocateInv, HighCopy
    <3> QED
      BY <1>4, <1>14, <2>1, <3>1, <3>3
  <2>3. CASE k >= done
    <3>1. k - done \in 0 .. FragLen - 1 /\ Source + (k - done) = place + k
      BY <1>3, <1>5, <1>15, <1>24, <2>3
    <3>2. s # Window
      BY <1>9, <1>24, <3>1
    <3>3. dest + k \in written
      BY <1>3, <1>5, <1>11, <2>1, <3>1
    <3>4. from(dest + k) = (dest + k) - First(n)
      BY <1>12, <3>2, <3>3
    <3>5. (dest + k) - First(n) = place + k
      BY <1>3, <1>4, <2>1
    <3>6. mem'[dest + k] = mem[place + k]
      BY <1>14, <2>1, <3>3, <3>4, <3>5
    <3>7. k \in 0 .. initrd_len - 1
      BY <1>3, <2>1
    <3> QED
      BY <2>1, <3>6, <3>7 DEF RelocateInv, LowCopy
  <2> QED
    BY <1>3, <2>1, <2>2, <2>3
<1>25. HighCopy'
  <2>1. /\ Pages' = Pages /\ Window' = Window /\ Distance' = First(n)
        /\ LargePage(Distance)' = n
    BY <1>1, <1>4, <1>22 DEF Pages, Window, COPY_WINDOW, LargePage, Distance
  <2>2. \A k \in 0 .. done' - 1 :
          LargePage(place' + k) # Window => mem'[place' + k + Distance'] = Content(loaded' + k)
    BY <1>1, <1>24, <2>1
  <2> QED
    BY <1>1, <1>23, <2>1, <2>2 DEF HighCopy, LargePage, Content
<1>26. DestinationUsable'
  BY <1>1 DEF RelocateInv, DestinationUsable, InRam, RegionEnd
<1> QED
  BY <1>16, <1>17, <1>19, <1>20, <1>25, <1>26 DEF RelocateInv

LEMMA RelocateStep ==
  ASSUME RelocateAssumption, RelocateInv, [RelocateNext]_relocateVars
  PROVE  RelocateInv'
<1>1. next \in Nat \ {0} /\ next + 1 \in Nat \ {0}
  BY DEF RelocateInv, RelocateTypeOK
<1>2. CASE Skip
  BY <1>1, <1>2, MapStep DEF Skip
<1>3. CASE NextLow
  BY <1>1, <1>3, MapStep DEF NextLow
<1>4. CASE NextHigh
  BY <1>1, <1>4, MapStep DEF NextHigh
<1>5. CASE UNCHANGED relocateVars
  BY <1>1, <1>5, MapStep DEF relocateVars
<1>6. CASE MoveLow
  BY <1>6, MoveLowStep
<1>7. CASE StayLow
  BY <1>7, StayLowStep
<1>8. CASE MoveHigh
  BY <1>8, MoveHighStep
<1>9. CASE StayHigh
  BY <1>9, StayHighStep
<1>10. CASE CopyPage
  BY <1>10, CopyStep
<1>11. CASE RestoreWindow
  BY <1>11, RestoreStep
<1> QED
  BY <1>2, <1>3, <1>4, <1>5, <1>6, <1>7, <1>8, <1>9, <1>10, <1>11 DEF RelocateNext

(* Where the addresses of the initrd lead when the moves are over.         *)
LEMMA FoundThere == ASSUME RelocateAssumption, RelocateInv PROVE InitrdReadable
<1> SUFFICES ASSUME stage = "started", NEW k \in 0 .. initrd_len - 1
             PROVE  mem[Translate(place + k)] = Content(loaded + k)
  BY DEF InitrdReadable
<1>1. /\ initrd_len \in Nat \ {0} /\ place \in Nat /\ place + k \in 0 .. ADDR_4GB - 1
      /\ place + k \in Nat /\ done \in {0, initrd_len} /\ PAGE_SIZE_2MB \in Nat
  <2>1. place + k \in 0 .. ADDR_4GB - 1 /\ ADDR_4GB \in Nat
    BY InitrdBelow DEF RelocateInv
  <2> QED
    BY <2>1, InitrdBelow DEF RelocateInv, Stages, RelocateAssumption
<1>2. LargePage(place + k) \in Pages /\ Window \in Pages
  BY <1>1, PagesHold
<1>3. PICK p \in Pages, x \in 0 .. PAGE_SIZE_2MB - 1 :
        /\ p = LargePage(place + k) /\ p \in Nat /\ x = (place + k) % PAGE_SIZE_2MB
        /\ place + k = First(p) + x
  BY <1>1, <1>2, InPage
<1>4. mem[place + k] = Content(loaded + k) /\ pd[Window] = Window
  BY DEF RelocateInv, LowCopy, HighCopy
<1>5. Translate(place + k) = First(pd[p]) + x
  BY <1>3 DEF Translate, First
<1>6. CASE p = Window \/ done = 0
  <2>1. pd[p] = p
    BY <1>3, <1>4, <1>6, NotCopied DEF RelocateInv, HighCopy
  <2> QED
    BY <1>3, <1>4, <1>5, <2>1
<1>7. CASE p # Window /\ done = initrd_len
  <2>1. done > 0 /\ k \in 0 .. done - 1
    BY <1>1, <1>7
  <2>2. PICK n \in Nat : Distance = First(n) /\ First(n) \in Nat
    BY <2>1, FirstNat DEF RelocateInv, Fragments, First
  <2>3. LargePage(Distance) = n
    <3>1. 0 \in 0 .. PAGE_SIZE_2MB - 1 /\ First(n) = First(n) + 0
      BY <2>2 DEF RelocateAssumption
    <3> QED
      BY <2>2, <3>1, PageIs
  <2>4. CopiedPage(p)
    BY <1>3, <2>1 DEF CopiedPage
  <2>5. pd[p] = p + n
    BY <1>3, <1>7, <2>3, <2>4 DEF RelocateInv, HighCopy
  <2>6. First(pd[p]) = First(p) + First(n) /\ First(p) \in Nat
    BY <1>3, <2>5, FirstPlus, FirstNat
  <2>7. First(pd[p]) + x = place + k + Distance
    BY <1>3, <2>2, <2>6
  <2>8. mem[place + k + Distance] = Content(loaded + k)
    BY <1>3, <1>7, <2>1 DEF RelocateInv, HighCopy
  <2> QED
    BY <1>5, <2>7, <2>8
<1> QED
  BY <1>1, <1>6, <1>7

LEMMA NothingElse == ASSUME RelocateAssumption, RelocateInv PROVE MemoryKept
<1> SUFFICES ASSUME stage = "started" PROVE RestKept
  BY DEF MemoryKept, RelocateInv, RestKept
<1>1. /\ initrd_len \in Nat /\ place \in Nat /\ done \in 0 .. initrd_len /\ DOMAIN pd = Pages
  BY InitrdBelow DEF RelocateInv, RelocateTypeOK
<1>2. ASSUME NEW p \in Pages \ InitrdPages PROVE pd[p] = p
  <2>1. ~CopiedPage(p)
    <3>1. SUFFICES ASSUME NEW k \in 0 .. done - 1, p = LargePage(place + k) PROVE FALSE
      BY DEF CopiedPage
    <3>2. place + k \in place .. place + initrd_len - 1
      BY <1>1
    <3> QED
      BY <1>2, <3>1, <3>2 DEF InitrdPages
  <2> QED
    BY <2>1 DEF RelocateInv, HighCopy
<1> QED
  BY <1>1, <1>2 DEF RelocateInv, LowCopy, RestKept

(* Whatever the memory map, the initrd's place and length and the size of  *)
(* the pages, the initrd is found where it is looked for when the boot     *)
(* manager starts (main.c:387-414, paging.c:194-257).                      *)
THEOREM InitrdFound == ASSUME RelocateAssumption PROVE RelocateSpec => []InitrdReadable
<1>1. RelocateInit => RelocateInv
  BY RelocateStart
<1>2. RelocateInv /\ [RelocateNext]_relocateVars => RelocateInv'
  BY RelocateStep
<1>3. RelocateInv => InitrdReadable
  BY FoundThere
<1> QED
  BY <1>1, <1>2, <1>3, PTL DEF RelocateSpec

(* And no other page is remapped by then, no other memory below 4GB        *)
(* written to, and it is only ever moved to usable RAM.                    *)
THEOREM RestUntouched == ASSUME RelocateAssumption PROVE RelocateSpec => []MemoryKept
<1>1. RelocateInit => RelocateInv
  BY RelocateStart
<1>2. RelocateInv /\ [RelocateNext]_relocateVars => RelocateInv'
  BY RelocateStep
<1>3. RelocateInv => MemoryKept
  BY NothingElse
<1> QED
  BY <1>1, <1>2, <1>3, PTL DEF RelocateSpec
===========================================================================
