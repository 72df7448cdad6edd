----------------------------- MODULE MCLauncher -----------------------------
(***************************************************************************)
(* The parts of the launcher that share no state, each on small instances  *)
(* of its own.  A behaviour runs one of them; the variables of the others  *)
(* keep a value of no meaning.  Variables with the same name in several    *)
(* parts are used by each.                                                 *)
(***************************************************************************)
EXTENDS Devices, Sizes, Settings, Pxe, Serve

CONSTANT Parts   \* those to check

VARIABLES
  part,                          \* the one that runs
  script, step, buffer, starts   \* Aml
---------------------------------------------------------------------------
(* Settings: no file, one as it is saved, and two with values out of range *)
(* and numbers in octal.                                                   *)

NoKeys == [key \in {"smp", "model", "accel", "irqchip", "netmac", "fw", "boot"} |-> <<>>]

WrittenKeys ==
  [smp |-> <<<<2>>>>, model |-> <<"m1">>, accel |-> <<<<3>>>>, irqchip |-> <<<<1>>>>,
   netmac |-> <<"52-54">>, fw |-> <<<<2>>>>, boot |-> <<<<8>>>>]

OddKeys ==
  [smp |-> <<<<0, 1, 2>>>>, model |-> <<"">>, accel |-> <<<<4>>>>, irqchip |-> <<<<2>>>>,
   netmac |-> <<"">>, fw |-> <<<<5>>>>, boot |-> <<<<9>>>>]

MCInis ==
  {[X64 |-> x64, AA64 |-> aa64, Qemu |-> [arch |-> arch]] :
     x64 \in {NoKeys, WrittenKeys, OddKeys}, aa64 \in {NoKeys, OddKeys},
     arch \in {<<>>, <<<<1>>>>, <<<<2>>>>}}

MCNumbers == {<<>>, <<0>>, <<6, 4>>, <<1, 0, 2, 4>>, <<0, 1, 7>>, <<0, 8>>}
---------------------------------------------------------------------------
(* Sizes: monitors at 100, 125 and 150 %, and one in between.              *)

MCDpis == {96, 110, 120, 144}
---------------------------------------------------------------------------
(* Pxe: two drives; the program is in a directory of one of them.          *)

Path(drive, names, slashes) == [drive |-> drive, names |-> names, slashes |-> slashes]

MCTyped ==
  {Path("C", <<"zemu">>, 0), Path("D", <<>>, 1), Path("D", <<"pxe">>, 1),
   Path("none", <<>>, 0), Path("none", <<"pxe">>, 0), Path("none", <<"zemu", "pxe">>, 1)}

MCPwd == Path("C", <<"zemu">>, 0)
MCDirs == {MCPwd, Path("C", <<>>, 0), Path("D", <<"pxe">>, 0)}
---------------------------------------------------------------------------
(* Serve.                                                                  *)

MCDirectory == -2

A == 25
B == 24

Header(name, values) == {[name |-> name, value |-> v] : v \in values}

\* Ranges of every form, at the ends of the files and beyond, and one the
\* server does not know.
Ranges ==
  {<<BYTES, n, DASH, m>> : n, m \in {0, 2, 4, 5}} \cup {<<BYTES, DASH, n>> : n \in {0, 2, 6}}
  \cup {<<BYTES, n, DASH>> : n \in {0, 4, 5}} \cup {<<A, 2>>}

Lengths == Header(<<ContentLength>>, {<<0>>, <<2>>, <<4>>, <<DASH, 2>>, <<A>>})

Request_(path, headers, body) ==
  [method |-> <<A, B>>, path |-> path, version |-> <<B>>, headers |-> headers, body |-> body]

\* /ab, cut at /a; /%13 for a dot; /+%19; /../a; the root in both forms.
MCPaths ==
  {<<<<SLASH>>, <<A>>, <<B>>, <<B>>, <<PERCENT, 1, 3>>>>, <<<<SLASH>>, <<PERCENT, 1, 3>>>>,
   <<<<SLASH>>, <<PLUS>>, <<PERCENT, 1, 9>>>>, <<<<SLASH>>, <<DOT>>, <<DOT>>, <<SLASH>>, <<A>>>>,
   <<<<SLASH>>>>, <<<<SLASH>>, <<QUESTION>>>>, <<<<SLASH>>, <<SLASH>>, <<A>>>>}

\* Files of 5 characters, of one, and none; a directory with an index, one
\* where a directory has its name.
MCTree == <<A>> :> 5 @@ <<A, B, B>> :> 5 @@ <<DOT>> :> 0 @@ <<SP, A>> :> 1
          @@ <<>> :> MCDirectory @@ <<99>> :> MCDirectory
          @@ <<B>> :> MCDirectory @@ <<B, SLASH, 99>> :> 2

MCRequests ==
  {Request_(<<<<SLASH>>, <<A>>>>, h, b) :
     h \in SeqOf(Lengths \cup Header(<<B>>, {<<A>>, <<B, B, B, B>>}), 3), b \in {<<>>, <<5, 6, 7, 8>>}}
  \cup {Request_(p, <<h>>, <<>>) : p \in MCPaths, h \in Header(<<B>>, {<<B>>})}
  \cup {Request_(p, <<h>>, <<>>) : p \in {<<<<SLASH>>, <<A>>>>, <<<<SLASH>>, <<DOT>>>>, <<<<SLASH>>, <<B>>>>},
                                   h \in Header(<<RangeName>>, Ranges)}

---------------------------------------------------------------------------
(* Aml.                                                                    *)

T == INSTANCE Aml WITH Percents <- 0 .. 100, max <- 476
---------------------------------------------------------------------------
ASSUME PartsAssumption ==
  SizesAssumption /\ PxeAssumption /\ SettingsAssumption /\ ServeAssumption

\* The variables of one part only, and what they are when it does not run.
devicesVars == <<lists, boot, boot_pos, slots, slot, clicked, shown, cmd, fault>>
amlVars == <<script, step, buffer, starts>>

NoDevices == /\ d_info = NoLists /\ d_count = NoCounts
             /\ boot = "image" /\ boot_pos = NoCounts
             /\ add_dev = UnusedSlots /\ add_dev_count = 0
             /\ slot = 1 /\ clicked = FALSE /\ shown = NoDrive /\ cmd = NoCmd /\ fault = "none"
NoSettings == zemu_ini = 0 /\ qemu_arch = 0 /\ profile = 0 /\ saved = 0 /\ fresh = FALSE /\ edits = 0
NoSizes == /\ ini = 0 /\ nkwidth = 0 /\ dpi_factor = 0 /\ m_dpi = 0 /\ dpi_scaling = 0
           /\ loaded = 0 /\ touched = TRUE
NoPxe == net_tftp = 0 /\ cwd = 0 /\ root = <<>> /\ tftp = 0
NoHttp == /\ sent = Request_(<<>>, <<[name |-> <<>>, value |-> <<>>]>>, <<>>)
          /\ left = <<>> /\ request = 0 /\ hpc = "recv"
          /\ response = 0 /\ size = 0 /\ answer = <<>> /\ at = 0 /\ remaining = 0 /\ failed = FALSE
NoAml == script = 0 /\ step = 0 /\ buffer = 0 /\ starts = 0

PartInit ==
  \/ part = "devices" /\ Init /\ NoSettings /\ NoSizes /\ NoPxe /\ NoHttp /\ NoAml
  \/ part = "settings" /\ SettingsInit /\ NoDevices /\ NoSizes /\ NoPxe /\ NoHttp /\ NoAml /\ pc = "idle"
  \/ part = "sizes" /\ SizesInit /\ NoDevices /\ NoSettings /\ NoPxe /\ NoHttp /\ NoAml /\ pc = "idle"
  \/ part = "pxe" /\ PxeInit /\ NoDevices /\ NoSettings /\ NoSizes /\ NoHttp /\ NoAml /\ pc = "idle"
  \/ part = "http" /\ ServeInit /\ NoDevices /\ NoSettings /\ NoSizes /\ NoPxe /\ NoAml /\ pc = "idle"
  \/ part = "aml" /\ T!Init /\ NoDevices /\ NoSettings /\ NoSizes /\ NoPxe /\ NoHttp /\ pc = "idle"

PartsInit == part \in Parts /\ PartInit

StepDevices == /\ part = "devices" /\ Next
               /\ UNCHANGED <<part, settingsVars, sizesVars, pxeVars, httpVars, amlVars>>
StepSettings == /\ part = "settings" /\ SettingsNext
                /\ UNCHANGED <<part, devicesVars, sizesVars, pxeVars, httpVars, amlVars, pc>>
StepSizes == /\ part = "sizes" /\ SizesNext
             /\ UNCHANGED <<part, devicesVars, settingsVars, pxeVars, httpVars, amlVars, pc>>
StepPxe == /\ part = "pxe" /\ PxeNext
           /\ UNCHANGED <<part, devicesVars, settingsVars, sizesVars, httpVars, amlVars, pc>>
StepAml == /\ part = "aml" /\ T!Next
           /\ UNCHANGED <<part, devicesVars, settingsVars, sizesVars, pxeVars, httpVars, pc>>

OthersThanHttp == <<part, devicesVars, settingsVars, sizesVars, pxeVars, amlVars, pc>>

StepHttp == part = "http" /\ ServeNext /\ UNCHANGED OthersThanHttp
StepAnswering == part = "http" /\ Answering /\ UNCHANGED OthersThanHttp

PartsNext == StepDevices \/ StepSettings \/ StepSizes \/ StepPxe \/ StepAml \/ StepHttp

partsVars == <<OthersThanHttp, httpVars>>

\* Of the parts only the handler thread of the server has fairness.
PartsSpec == PartsInit /\ [][PartsNext]_partsVars /\ WF_partsVars(StepAnswering)
---------------------------------------------------------------------------
(* The properties of the parts, as their modules state and explain them;   *)
(* only that of Aml has another name here.                                 *)

(* The lengths of packages (write_file.c:233-267).                         *)
AmlReadable == part = "aml" => T!AmlReadable
=============================================================================
