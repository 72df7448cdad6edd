------------------------------ MODULE Settings ------------------------------
(***************************************************************************)
(* The settings of the launcher: how zemu.ini is loaded when it starts     *)
(* (load_ini, ui_ini_init, get_profile) and written by the Save button     *)
(* (save_ini, ui_ini_save, set_profile), and what the panels let the user  *)
(* choose in between (ui_dir.c, ui_cpu.c, ui_fw.c, ui_dev.c, ui_boot.c).   *)
(*                                                                         *)
(* Each kind of setting is there once in each profile: smp is a number in  *)
(* a text (as mem is), model a text (as machine, vgadev, netdev, usbctrl   *)
(* and audiodev), accel a choice of a list, irqchip a box; netmac, fw and  *)
(* boot are by themselves.  A number in a text is a sequence of digits;    *)
(* no text is quoted or ends in blanks.                                    *)
(***************************************************************************)
EXTENDS Integers, Sequences

CONSTANTS
  Inis,       \* what zemu.ini may hold at first
  Numbers,    \* what the user types for a number: sequences of digits
  Models,     \* texts, "" among them
  Macs,       \* addresses, "" among them
  MaxEdits    \* bound: choices of the user

MaxDigits == 9  \* bound: of a number; one of ten may be beyond LONG_MAX, where wcstol stops
IsNumber(s) == s \in Seq(0 .. 9) /\ Len(s) <= MaxDigits
IsKey(k) == k = <<>> \/ k = <<k[1]>>
IsNumberKey(k) == k = <<>> \/ (k = <<k[1]>> /\ IsNumber(k[1]))

\* Where there is a number in zemu.ini, it is one that could be typed.
SettingsAssumption ==
  /\ \A s \in Numbers : IsNumber(s)
  /\ \A file \in Inis :
       /\ file = [X64 |-> file["X64"], AA64 |-> file["AA64"], Qemu |-> file["Qemu"]]
       /\ \A arch \in {"X64", "AA64"} :
            /\ file[arch] = [smp |-> file[arch].smp, model |-> file[arch].model,
                             accel |-> file[arch].accel, irqchip |-> file[arch].irqchip,
                             netmac |-> file[arch].netmac, fw |-> file[arch].fw,
                             boot |-> file[arch].boot]
            /\ \A key \in {"smp", "accel", "irqchip", "fw", "boot"} : IsNumberKey(file[arch][key])
            /\ IsKey(file[arch].model) /\ IsKey(file[arch].netmac)
       /\ IsNumberKey(file["Qemu"].arch)

VARIABLES
  zemu_ini,  \* of each key of each section the value, <<v>>, or <<>>
  qemu_arch, \* the architecture, and with it the profile, that is shown
  profile,   \* nk.ini->profile
  saved,     \* what Save has found, <<s>>, or <<>>
  fresh,     \* nothing has been chosen since the settings were loaded
  edits      \* how many choices the user has made

settingsVars == <<zemu_ini, qemu_arch, profile, saved, fresh, edits>>

Archs == {"X64", "AA64"}

\* ZEMU_FW, and its ranges for the two architectures.
X64_EFI == 0
X86_BIOS == 1
X86_EFI == 2
AA64_EFI == 3
ARM32_EFI == 4
FwMin(arch) == IF arch = "X64" THEN X64_EFI ELSE AA64_EFI
FwMax(arch) == IF arch = "X64" THEN X86_EFI ELSE AA64_EFI

\* ZEMU_BOOT_TARGET: four of nine.
BootVHD == 0
BootVFD == 4
BootWIM == 7
BootDIR == 8
BootTargets == {BootVHD, BootVFD, BootWIM, BootDIR}
BOOT_MAX == 9

\* ZEMU_ACCEL.
Accels == 0 .. 3
---------------------------------------------------------------------------
(* zemu.ini.  A number is written as its digits and read by wcstol in base *)
(* 0: a leading zero makes it octal, and an 8 or 9 ends it then.           *)

DigitsOf(n) ==
  LET digits[k \in 0 .. n] == IF k < 10 THEN <<k>> ELSE Append(digits[k \div 10], k % 10)
  IN  digits[n]

Base(digits) == IF digits # <<>> /\ digits[1] = 0 THEN 8 ELSE 10

wcstol(digits) ==
  LET read[k \in 0 .. Len(digits)] ==
        IF k = 0 THEN 0
        ELSE IF \E j \in 1 .. k : digits[j] >= Base(digits) THEN read[k - 1]
        ELSE Base(digits) * read[k - 1] + digits[k]
  IN  read[Len(digits)]

Get(section, key, fallback) ==
  IF zemu_ini[section][key] = <<>> THEN fallback ELSE zemu_ini[section][key][1]

\* get_ini_num: a number that is not there is written into the buffer first.
GetNum(section, key, fallback) == wcstol(Get(section, key, DigitsOf(fallback)))
---------------------------------------------------------------------------
(* get_profile and ui_ini_init.                                            *)

NotClamped(n, min, max, fallback) == n

Within(n, min, max, fallback) == IF n < min \/ n > max THEN fallback ELSE n

LoadedFw(arch) ==
  LET fw == IF arch = "X64" THEN X64_EFI ELSE AA64_EFI
  IN  Within(GetNum(arch, "fw", fw), FwMin(arch), FwMax(arch), fw)

LoadedSmp(arch) ==
  LET num == GetNum(arch, "smp", 4) IN DigitsOf(IF num <= 0 THEN 1 ELSE num)

get_profile(arch) ==
  [smp |-> LoadedSmp(arch),
   model |-> Get(arch, "model", "default"),
   accel |-> Within(GetNum(arch, "accel", 0), 0, 3, 0),
   irqchip |-> GetNum(arch, "irqchip", 0) # 0,
   netmac |-> Get(arch, "netmac", ""),
   fw |-> LoadedFw(arch),
   boot |-> Within(GetNum(arch, "boot", BootVHD), 0, BOOT_MAX - 1, BootVHD)]

LoadedArch == IF Within(GetNum("Qemu", "arch", 0), 0, 1, 0) = 0 THEN "X64" ELSE "AA64"

LoadedProfiles == [arch \in Archs |-> get_profile(arch)]
---------------------------------------------------------------------------
(* The panels.                                                             *)

IS_BIOS == qemu_arch = "X64" /\ profile[qemu_arch].fw = X86_BIOS

OfferedFw(arch) == IF arch = "X64" THEN {X64_EFI, X86_BIOS, X86_EFI} ELSE {AA64_EFI, ARM32_EFI}

\* The targets that are not disabled for the architecture and the firmware.
OfferedBoot ==
  BootTargets \ ((IF qemu_arch = "AA64" THEN {BootVFD} ELSE {})
             \cup (IF qemu_arch = "AA64" /\ profile[qemu_arch].fw = ARM32_EFI THEN {BootWIM} ELSE {})
             \cup (IF IS_BIOS THEN {BootDIR} ELSE {}))

Choice(field) ==
  CASE field = "smp" -> Numbers
    [] field = "model" -> Models
    [] field = "accel" -> IF qemu_arch = "X64" THEN Accels ELSE {}
    [] field = "irqchip" -> BOOLEAN
    [] field = "netmac" -> Macs
    [] field = "fw" -> OfferedFw(qemu_arch)
    [] field = "boot" -> OfferedBoot

Edited == edits < MaxEdits /\ edits' = edits + 1 /\ fresh' = FALSE

Edit(field) ==
  /\ Edited
  /\ \E v \in Choice(field) : profile' = [profile EXCEPT ![qemu_arch][field] = v]
  /\ UNCHANGED <<zemu_ini, qemu_arch, saved>>

ChooseArch(arch) ==
  /\ Edited
  /\ qemu_arch' = arch
  /\ UNCHANGED <<zemu_ini, profile, saved>>
---------------------------------------------------------------------------
(* set_profile and ui_ini_save: an empty address is not written.           *)

set_profile(arch) ==
  LET p == profile[arch]
  IN  [smp |-> <<p.smp>>, model |-> <<p.model>>, accel |-> <<DigitsOf(p.accel)>>,
       irqchip |-> <<DigitsOf(IF p.irqchip THEN 1 ELSE 0)>>,
       netmac |-> IF p.netmac # "" THEN <<p.netmac>> ELSE zemu_ini[arch].netmac,
       fw |-> <<DigitsOf(p.fw)>>, boot |-> <<DigitsOf(p.boot)>>]

ui_ini_save ==
  /\ zemu_ini' = [X64 |-> set_profile("X64"), AA64 |-> set_profile("AA64"),
             Qemu |-> [arch |-> <<DigitsOf(IF qemu_arch = "X64" THEN 0 ELSE 1)>>]]
  /\ saved' = <<[qemu_arch |-> qemu_arch, profile |-> profile]>>
  /\ UNCHANGED <<qemu_arch, profile, fresh, edits>>

\* The launcher is closed, or ends, and is started again.
Reload ==
  /\ qemu_arch' = LoadedArch
  /\ profile' = LoadedProfiles
  /\ fresh' = TRUE
  /\ UNCHANGED <<zemu_ini, saved, edits>>

SettingsInit ==
  /\ zemu_ini \in Inis
  /\ qemu_arch = LoadedArch /\ profile = LoadedProfiles
  /\ saved = <<>> /\ fresh = TRUE /\ edits = 0

SettingsNext == \/ \E field \in DOMAIN profile[qemu_arch] : Edit(field)
                \/ \E arch \in Archs : ChooseArch(arch)
                \/ ui_ini_save
                \/ Reload

SettingsSpec == SettingsInit /\ [][SettingsNext]_settingsVars
---------------------------------------------------------------------------
(* What the launcher loads, from whatever file, selects an entry of each   *)
(* list it indexes (edit_accel, qemu_fw, the targets); and it is what was  *)
(* saved last, in both profiles, but for three things: a number that is    *)
(* not positive or begins with 0 is replaced by what wcstol makes of it,   *)
(* an empty address by the one saved before, and the firmware of 32-bit    *)
(* ARM by the one of 64 bits (ui.c:51-95, 153-199).                        *)
SettingsLoaded ==
  fresh =>
    /\ \A arch \in Archs : /\ profile[arch].fw \in OfferedFw(arch)
                           /\ profile[arch].accel \in Accels
                           /\ profile[arch].boot \in 0 .. BOOT_MAX - 1
    /\ saved # <<>> =>
         /\ qemu_arch = saved[1].qemu_arch
         /\ \A arch \in Archs :
              LET now == profile[arch]
                  was == saved[1].profile[arch]
              IN  /\ \A field \in {"model", "accel", "irqchip", "boot"} : now[field] = was[field]
                  /\ was.smp # <<>> /\ was.smp[1] # 0 => now.smp = was.smp
                  /\ now.smp # <<>> /\ now.smp[1] # 0
                  /\ was.netmac # "" => now.netmac = was.netmac
                  /\ now.fw = was.fw \/ was.fw = ARM32_EFI

(* README.md:15 lists 32-bit ARM among the environments, and ui_fw.c:28    *)
(* offers it: the firmware that was saved should be the one that is loaded. *)
FirmwareKept ==
  fresh /\ saved # <<>> => \A arch \in Archs : profile[arch].fw = saved[1].profile[arch].fw
---------------------------------------------------------------------------
(* The inductive invariant: the profiles hold what the panels offer, and   *)
(* zemu.ini holds what was saved.                                          *)
Fields == {"smp", "model", "accel", "irqchip", "netmac", "fw", "boot"}

\* A number as snprintf writes it.
Canonical(s) == s \in Seq(0 .. 9) /\ s # <<>> /\ s[1] # 0

IsProfile(arch, p) ==
  /\ DOMAIN p = Fields
  /\ p.smp \in Seq(0 .. 9) /\ p.accel \in Accels /\ p.irqchip \in BOOLEAN
  /\ p.fw \in OfferedFw(arch) /\ p.boot \in 0 .. BOOT_MAX - 1

FileHolds(arch, p) ==
  LET keys == zemu_ini[arch]
  IN  /\ keys.smp = <<p.smp>> /\ keys.model = <<p.model>> /\ keys.accel = <<DigitsOf(p.accel)>>
      /\ keys.irqchip = <<DigitsOf(IF p.irqchip THEN 1 ELSE 0)>>
      /\ p.netmac # "" => keys.netmac = <<p.netmac>>
      /\ keys.fw = <<DigitsOf(p.fw)>> /\ keys.boot = <<DigitsOf(p.boot)>>

FileOK == /\ \A arch \in Archs : \A key \in {"smp", "accel", "irqchip", "fw", "boot"} :
               zemu_ini[arch][key] = <<>> \/ zemu_ini[arch][key][1] \in Seq(0 .. 9)
          /\ zemu_ini["Qemu"].arch = <<>> \/ zemu_ini["Qemu"].arch[1] \in Seq(0 .. 9)

ProfilesOK == /\ DOMAIN profile = Archs /\ qemu_arch \in Archs
              /\ \A arch \in Archs : IsProfile(arch, profile[arch])
              /\ fresh => \A arch \in Archs : /\ Canonical(profile[arch].smp)
                                               /\ profile[arch].fw \in FwMin(arch) .. FwMax(arch)

SavedHeld == saved # <<>> =>
  /\ saved[1].qemu_arch \in Archs
  /\ zemu_ini["Qemu"].arch = <<DigitsOf(IF saved[1].qemu_arch = "X64" THEN 0 ELSE 1)>>
  /\ \A arch \in Archs : /\ IsProfile(arch, saved[1].profile[arch])
                          /\ FileHolds(arch, saved[1].profile[arch])

SettingsInv == FileOK /\ ProfilesOK /\ SavedHeld /\ SettingsLoaded
=============================================================================
