-------------------------------- MODULE Boot --------------------------------
(***************************************************************************)
(* How wimldr fills the virtual disk before it starts Windows' boot        *)
(* manager: main.c with a CPIO archive and an initrd in memory, efimain.c  *)
(* and efifile.c with the initrd in a file system of the loader and the    *)
(* other files in the root directory of a volume that is searched for.     *)
(* What is in the WIM image goes after what was given explicitly           *)
(* (wimfile.c).                                                            *)
(*                                                                         *)
(* Each loop is one step per file; the boot manager is not modelled once   *)
(* it has been read.                                                       *)
(***************************************************************************)
EXTENDS Integers, Sequences

CONSTANTS
  Archives,         \* CPIO archives: sequences of names
  Volumes,          \* sequences of volumes: [signed, files]
  ImagePaths,       \* sets of paths that the chosen image of the WIM holds
  Injectable(_),    \* wim_inject_file
  VDISK_MAX_FILES, WIM_MAX_FILES

VARIABLES
  platform,     \* "bios" or "efi"
  volumes,      \* the volumes not yet looked at
  source,       \* files left to extract: of the archive, or of a directory
  damaged,      \* the archive ends in something else than a trailer
  packed,       \* bootmgr embeds a compressed bootmgr.exe
  image,        \* the paths in the image of index nt_cmdline->index; none if unreadable
  initrd,       \* what is in memory from `initrd` on
  vdisk_files,  \* [name, from, at]: from is "given", "embedded", "initrd" or a path
  bootmgr,      \* the file that will be started, of vdisk_files; 0 for NULL
  bootwim,      \* boot.wim, of vdisk_files; 0 for NULL
  patched,      \* what vdisk_files was when patch_wim listed it, one or none
  todo,         \* paths not yet looked for in the WIM
  wim_file_idx, \* slots of wim_files used
  pc            \* what is done next

given == <<platform, damaged, packed, image>>
bootVars == <<given, volumes, source, initrd, vdisk_files, bootmgr, bootwim, patched, todo,
              wim_file_idx, pc>>

File(name, from) == [name |-> name, from |-> from, at |-> initrd]
LastFile == Len(vdisk_files)
Names == {vdisk_files[k].name : k \in 1 .. LastFile}
Full == LastFile >= VDISK_MAX_FILES   \* "Too many files"

\* The boot manager, and the boot files that Windows has in its image.
BootPath == IF platform = "bios" THEN "PXE\\bootmgr.exe" ELSE "EFI\\bootmgfw.efi"
Sdi == IF platform = "bios" THEN "PCAT\\boot.sdi" ELSE "DVD\\EFI\\boot.sdi"
Bcd == IF platform = "bios" THEN "PCAT\\BCD" ELSE "DVD\\EFI\\BCD"
wim_paths == <<Sdi, Bcd, "Fonts\\segmono_boot.ttf", "Fonts\\segoen_slboot.ttf",
               "Fonts\\segoe_slboot.ttf", "Fonts\\wgl4_boot.ttf", "sms\\boot.sdi">>

efi_bootarch == "bootx64.efi"

\* The name a path is added under.
NameOf(path) ==
  CASE path = "PXE\\bootmgr.exe"  -> "bootmgr.exe"
    [] path = "EFI\\bootmgfw.efi" -> efi_bootarch
    [] path \in {"PCAT\\boot.sdi", "DVD\\EFI\\boot.sdi", "sms\\boot.sdi"} -> "boot.sdi"
    [] path \in {"PCAT\\BCD", "DVD\\EFI\\BCD"} -> "BCD"
    [] OTHER -> path

\* The paths that are looked for in the image; none of these files is injected
\* into it again.
BootPaths == {"PXE\\bootmgr.exe", "EFI\\bootmgfw.efi"}
OtherPaths == {"PCAT\\boot.sdi", "DVD\\EFI\\boot.sdi", "PCAT\\BCD", "DVD\\EFI\\BCD",
               "Fonts\\segmono_boot.ttf", "Fonts\\segoen_slboot.ttf", "Fonts\\segoe_slboot.ttf",
               "Fonts\\wgl4_boot.ttf", "sms\\boot.sdi"}

BootAssumption ==
  /\ Archives \subseteq Seq(STRING)
  /\ Volumes \subseteq Seq([signed : BOOLEAN, files : Seq(STRING)])
  /\ ImagePaths \subseteq SUBSET (STRING \ {"given", "embedded", "initrd"})
  /\ VDISK_MAX_FILES \in Nat /\ WIM_MAX_FILES \in Nat
  /\ \A path \in BootPaths \cup OtherPaths : ~Injectable(NameOf(path))
---------------------------------------------------------------------------
Die == /\ pc' = "dead"
       /\ UNCHANGED <<given, volumes, source, initrd, vdisk_files, bootmgr, bootwim, patched, todo,
                      wim_file_idx>>

(* main.c *)

\* bootmgr.exe replaces one found before; one that bootmgr embeds does not.
EmbeddedWins(name) == name = "bootmgr" /\ packed   \* even over a bootmgr.exe

Embedded(name) == name = "bootmgr" /\ bootmgr = 0 /\ packed

\* The decompressed bootmgr.exe is put in front of the initrd, in memory.
add_file(name) ==
  IF Embedded(name)
  THEN /\ initrd' = <<"bootmgr.exe">> \o initrd
       /\ vdisk_files' = vdisk_files \o
            <<File(name, "given"), [name |-> "bootmgr.exe", from |-> "embedded", at |-> initrd']>>
       /\ bootmgr' = LastFile + 2
  ELSE /\ vdisk_files' = Append(vdisk_files, File(name, "given"))
       /\ bootmgr' = IF name = "bootmgr.exe" THEN LastFile + 1 ELSE bootmgr
       /\ UNCHANGED initrd

cpio_extract ==
  /\ pc = "cpio" /\ source # <<>>
  /\ IF Full \/ (Embedded(Head(source)) /\ LastFile + 1 >= VDISK_MAX_FILES) THEN Die
     ELSE /\ add_file(Head(source))
          /\ source' = Tail(source)
          /\ UNCHANGED <<given, volumes, bootwim, patched, todo, wim_file_idx, pc>>

\* main: the archive is done, boot.wim is added from what `initrd` now is.
AddBootWim ==
  /\ pc = "cpio" /\ source = <<>>
  /\ IF damaged \/ Full THEN Die
     ELSE /\ vdisk_files' = Append(vdisk_files, File("boot.wim", "initrd"))
          /\ bootwim' = LastFile + 1
          /\ pc' = "patch"
          /\ UNCHANGED <<given, volumes, source, initrd, bootmgr, patched, todo, wim_file_idx>>
---------------------------------------------------------------------------
(* efifile.c *)

\* boot.wim is patched as soon as it is there.
PatchEarly ==
  /\ pc = "initrd"
  /\ vdisk_files' = Append(vdisk_files, File("boot.wim", "initrd"))
  /\ bootwim' = LastFile + 1 /\ patched' = {vdisk_files'}
  /\ pc' = "volumes"
  /\ UNCHANGED <<given, volumes, source, initrd, bootmgr, todo, wim_file_idx>>

\* boot.wim comes first; its patch waits for the other files.
efi_extract_wim ==
  /\ pc = "initrd"
  /\ \/ Die    \* no initrd, or the file system fails
     \/ /\ vdisk_files' = Append(vdisk_files, File("boot.wim", "initrd"))
        /\ bootwim' = LastFile + 1
        /\ pc' = "volumes"
        /\ UNCHANGED <<given, volumes, source, initrd, bootmgr, patched, todo, wim_file_idx>>

\* No file system, no root directory or no file _.QEMU_HDA._: passed over before
\* anything of it is added.
Skipped == pc = "volumes" /\ volumes # <<>> /\ ~Head(volumes).signed

SkipVolume ==
  /\ Skipped
  /\ volumes' = Tail(volumes)
  /\ UNCHANGED <<given, source, initrd, vdisk_files, bootmgr, bootwim, patched, todo,
                 wim_file_idx, pc>>

\* "hda not found"
NoVolume == pc = "volumes" /\ volumes = <<>> /\ Die

\* The root directory of the volume, one file after the other.
OpenVolume ==
  /\ pc = "volumes" /\ volumes # <<>> /\ ~Skipped
  /\ pc' = "files"
  /\ source' = Head(volumes).files
  /\ UNCHANGED <<given, volumes, initrd, vdisk_files, bootmgr, bootwim, patched, todo,
                 wim_file_idx>>

IsLoader(name) == name \in {efi_bootarch, "bootmgfw.efi"}

extract_by_handle ==
  /\ pc = "files" /\ source # <<>>
  /\ \/ Die    \* the directory or the file cannot be read, or "Too many files"
     \/ LET name == Head(source) IN
        /\ ~Full
        /\ vdisk_files' = Append(vdisk_files, File(name, "given"))
        /\ bootmgr' = IF IsLoader(name) THEN LastFile + 1 ELSE bootmgr
        /\ source' = Tail(source)
        /\ UNCHANGED <<given, volumes, initrd, bootwim, patched, todo, wim_file_idx, pc>>

FilesRead ==
  /\ pc = "files" /\ source = <<>>
  /\ pc' = "patch"
  /\ UNCHANGED <<given, volumes, source, initrd, vdisk_files, bootmgr, bootwim, patched, todo, wim_file_idx>>
---------------------------------------------------------------------------
(* Both: patch boot.wim, then take from it what has not been given.        *)

\* boot.wim is the WIM image if nothing has been put in front of it.
Readable(path) == path \in image /\ vdisk_files[bootwim].at[1] = "wim"

\* The files there are when the patch is constructed, which is once.
Listed == IF patched = {} THEN {vdisk_files} ELSE patched

\* The boot manager is looked for if it is missing, then the other files.
PatchWim ==
  /\ pc = "patch"
  /\ \/ (\A path \in image : ~Readable(path)) /\ Die   \* "Could not patch WIM", if it has to be
     \/ /\ patched' = Listed
        /\ todo' = (IF bootmgr = 0 THEN <<BootPath>> ELSE <<>>) \o wim_paths
        /\ pc' = "wim"
        /\ UNCHANGED <<given, volumes, source, initrd, vdisk_files, bootmgr, bootwim, wim_file_idx>>

\* Looked for under its path, whatever has its name.
KnownPath(path) == \E k \in 1 .. LastFile : vdisk_files[k].from = path
Known(path) == NameOf(path) \in Names

wim_add_file ==
  /\ pc = "wim" /\ todo # <<>>
  /\ LET path == Head(todo) IN
     IF wim_file_idx >= WIM_MAX_FILES THEN Die
     ELSE IF Known(path) \/ ~Readable(path)
     THEN /\ todo' = Tail(todo)
          /\ UNCHANGED <<given, volumes, source, initrd, vdisk_files, bootmgr, bootwim, patched,
                         wim_file_idx, pc>>
     ELSE IF Full THEN Die
     ELSE /\ wim_file_idx' = wim_file_idx + 1
          /\ vdisk_files' = Append(vdisk_files, File(NameOf(path), path))
          /\ bootmgr' = IF path = BootPath THEN LastFile + 1 ELSE bootmgr
          /\ todo' = Tail(todo)
          /\ UNCHANGED <<given, volumes, source, initrd, bootwim, patched, pc>>

\* main: "no bootmgr.exe"; extract_by_handle: "no bootmgfw.efi found".
Start ==
  /\ pc = "wim" /\ todo = <<>>
  /\ IF bootmgr = 0 THEN Die
     ELSE /\ pc' = "started"
          /\ UNCHANGED <<given, volumes, source, initrd, vdisk_files, bootmgr, bootwim, patched, todo,
                         wim_file_idx>>

BootInit ==
  /\ \/ /\ platform = "bios" /\ pc = "cpio"
        /\ source \in Archives /\ volumes = <<>> /\ damaged \in BOOLEAN /\ packed \in BOOLEAN
     \/ /\ platform = "efi" /\ pc = "initrd"
        /\ source = <<>> /\ volumes \in Volumes /\ damaged = FALSE /\ packed = FALSE
  /\ image \in ImagePaths
  /\ initrd = <<"wim">> /\ vdisk_files = <<>> /\ bootmgr = 0 /\ bootwim = 0
  /\ patched = {} /\ todo = <<>> /\ wim_file_idx = 0

BootNext == \/ cpio_extract \/ AddBootWim
            \/ efi_extract_wim \/ SkipVolume \/ NoVolume \/ OpenVolume \/ extract_by_handle \/ FilesRead
            \/ PatchWim \/ wim_add_file \/ Start

BootSpec == BootInit /\ [][BootNext]_bootVars
---------------------------------------------------------------------------
IsFrom(k, from) == vdisk_files[k].from = from
Given(name) == {k \in 1 .. LastFile : IsFrom(k, "given") /\ vdisk_files[k].name = name}
Best(S) == {k \in S : \A j \in S : j <= k}

(* The boot manager started is the one given, the last one if several are, *)
(* and for EFI one of the firmware's architecture; else the one embedded   *)
(* in bootmgr; only then the one in the image (main.c:362-371, 459-463,    *)
(* efifile.c:284-292, 298-302).                                            *)
BootmgrPreferred ==
  pc = "started" =>
    LET own == IF platform = "bios" THEN Given("bootmgr.exe")
               ELSE Given(efi_bootarch) \cup Given("bootmgfw.efi")
        embedded == {k \in 1 .. LastFile : IsFrom(k, "embedded")}
    IN  IF own # {} THEN bootmgr \in Best(own)
        ELSE IF embedded # {} THEN bootmgr \in embedded
        ELSE IsFrom(bootmgr, BootPath) /\ (platform = "bios" => ~packed \/ Given("bootmgr") = {})

(* A file of the image is never added beside another one of its name,      *)
(* whether that was given, embedded or in the image too (wimfile.c:99-103).*)
NoShadow ==
  \A k \in 1 .. LastFile :
    vdisk_files[k].from \in image =>
      \A j \in (1 .. LastFile) \ {k} : vdisk_files[j].name # vdisk_files[k].name

(* Every file that has to be injected into the boot image was there when   *)
(* the patch listed the files: none is added later (efifile.c:296-304,     *)
(* main.c:456-465, patch.c:696-705).                                       *)
PatchComplete ==
  pc = "started" =>
    \A k \in 1 .. LastFile, listed \in patched :
      Injectable(vdisk_files[k].name) => k <= Len(listed)

(* boot.wim is the initrd, as main.c:451 says: "Extract boot.wim from      *)
(* initrd".                                                                *)
BootWimIsInitrd == pc = "started" => vdisk_files[bootwim].at = <<"wim">>
=============================================================================
