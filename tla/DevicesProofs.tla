--------------------------- MODULE DevicesProofs ---------------------------
(***************************************************************************)
(* Proofs about Devices, for any drives and any number of slots.           *)
(*                                                                         *)
(* Start reads a list within its bounds because the boot panel has put the *)
(* position right earlier in the same frame, and because a list that is    *)
(* there is replaced only by a click: a frame whose click is still free    *)
(* when the buttons are drawn has the list its boot panel drew, or had     *)
(* none, whose place a slot of the same type may have filled.  Framed says *)
(* this of the phases after the boot panel.                                *)
(***************************************************************************)
EXTENDS Devices, SequenceTheorems, TLAPS

Drawn == pc \in {"menu", "slot", "start"} /\ ~clicked

(* What is offered can be opened.                                          *)
OfferedReal ==
  \A t \in Types : \A i \in 1 .. d_count[t] : d_info[t][i] \in DriveNums

(* While the click of the frame is free, the position in the boot list is  *)
(* what the panel left: the drive shown; or, if the panel showed none, the *)
(* first of a list that is still empty or that a slot has found since.     *)
Framed ==
  Drawn => IF boot \notin Types THEN shown = NoDrive
           ELSE IF shown # NoDrive
           THEN /\ boot_pos[boot] < d_count[boot]
                /\ d_info[boot][boot_pos[boot] + 1] = shown
           ELSE /\ boot_pos[boot] = 0
                /\ d_count[boot] = 0 \/ HasSlot(boot)

(* A slot in use is a snapshot unless its user said otherwise.             *)
SlotsSafe == \A i \in 1 .. add_dev_count : add_dev[i].snapshot \/ add_dev[i].cleared

(* A command line lives until the next frame begins.                       *)
CmdFresh == pc # "boot" => cmd = NoCmd /\ fault = "none"

IInv == /\ TypeOK /\ OfferedReal /\ Framed /\ SlotsSafe /\ CmdFresh
        /\ BootDriveListed /\ BootDriveShown /\ WritableByChoice

(* A list is a sequence of drives and of failed ones.                      *)
LEMMA ListType ==
  ASSUME NEW s \in DiskLists
  PROVE  s \in Seq(DriveNums \cup {Failed}) /\ Len(s) \in Nat
<1>1. PICK n \in 1 .. MaxDrives : s \in [1 .. n -> DriveNums \cup {Failed}]
  BY DEF DiskLists
<1>2. n \in Nat
  BY <1>1, DevicesAssumption
<1>. QED
  BY <1>1, <1>2

(* What Fetch gives keeps the types, and its offer is within the list and  *)
(* real.                                                                   *)
LEMMA FetchType ==
  ASSUME TypeOK, OfferedReal, NEW t \in Types, NEW got \in Fetch(t)
  PROVE  /\ got.info \in Seq(DriveNums \cup {Failed})
         /\ got.count \in Nat
         /\ got.count <= Len(got.info)
         /\ \A i \in 1 .. got.count : got.info[i] \in DriveNums
<1>1. CASE d_info[t] # <<>>
  BY <1>1 DEF Fetch, TypeOK, OfferedReal
<1>2. CASE d_info[t] = <<>> /\ got = [info |-> <<>>, count |-> 0]
  BY <1>2
<1>3. CASE /\ d_info[t] = <<>>
           /\ got \in {l \in [info : DiskLists, count : 0 .. MaxDrives] : Offered(l)}
  <2>1. got.info \in Seq(DriveNums \cup {Failed}) /\ Len(got.info) \in Nat
    BY <1>3, ListType
  <2>2. /\ got.count \in Nat
        /\ got.count <= Len(got.info)
        /\ \A i \in 1 .. got.count : got.info[i] # Failed
    BY <1>3, DevicesAssumption DEF Offered
  <2>3. ASSUME NEW i \in 1 .. got.count PROVE got.info[i] \in DriveNums
    <3>1. i \in 1 .. Len(got.info)
      BY <2>1, <2>2
    <3>2. got.info[i] \in DriveNums \cup {Failed}
      BY <2>1, <3>1, ElementOfSeq
    <3>. QED
      BY <2>2, <3>2
  <2>. QED
    BY <2>1, <2>2, <2>3
<1>. QED
  BY <1>1, <1>2, <1>3 DEF Fetch, get_disk_list

(* Setting a list to one that Fetch gives, or to none, keeps the types of  *)
(* the lists.                                                              *)
LEMMA ListsKept ==
  ASSUME TypeOK, OfferedReal, NEW t \in Types, NEW l, SetList(t, l),
         l.info \in Seq(DriveNums \cup {Failed}), l.count \in Nat,
         l.count <= Len(l.info), \A i \in 1 .. l.count : l.info[i] \in DriveNums
  PROVE  /\ d_info' \in [Types -> Seq(DriveNums \cup {Failed})]
         /\ d_count' \in [Types -> Nat]
         /\ \A u \in Types : d_count'[u] <= Len(d_info'[u])
         /\ OfferedReal'
         /\ d_info'[t] = l.info /\ d_count'[t] = l.count
         /\ \A u \in Types \ {t} : d_info'[u] = d_info[u] /\ d_count'[u] = d_count[u]
BY DEF SetList, TypeOK, OfferedReal

LEMMA RefreshedType ==
  /\ Refreshed.info \in Seq(DriveNums \cup {Failed}) /\ Refreshed.count \in Nat
  /\ Refreshed.count <= Len(Refreshed.info)
  /\ \A i \in 1 .. Refreshed.count : Refreshed.info[i] \in DriveNums
BY DEF Refreshed

THEOREM InitInv == Init => IInv
<1>. SUFFICES ASSUME Init PROVE IInv
  OBVIOUS
<1>1. Unused \in Slot /\ NoDrive \in DriveNums \cup {NoDrive}
  BY DevicesAssumption DEF Unused, Slot
<1>2. NoCmd \in [by : {"none", "copy", "start"}, add : SUBSET Drive,
                 boot : DriveNums \cup {Failed, NoDrive}]
  BY DEF NoCmd
<1>3. /\ NoLists \in [Types -> Seq(DriveNums \cup {Failed})] /\ NoCounts \in [Types -> Nat]
      /\ \A t \in Types : NoCounts[t] <= Len(NoLists[t])
  BY DEF NoLists, NoCounts
<1>4. UnusedSlots \in [1 .. MaxAddDev -> Slot] /\ 0 \in 0 .. MaxAddDev /\ 1 \in 1 .. MaxAddDev + 1
  BY <1>1, DevicesAssumption DEF UnusedSlots
<1>5. TypeOK
  BY <1>1, <1>2, <1>3, <1>4 DEF Init, TypeOK
<1>. QED
  BY <1>5 DEF Init, IInv, OfferedReal, Framed, Drawn, SlotsSafe, CmdFresh, BootDriveListed,
              BootDriveShown, WritableByChoice, NoCounts, NoCmd

(* The boot panel.                                                         *)
LEMMA BootStep ==
  ASSUME IInv, ui_qemu_boot
  PROVE  IInv'
<1>1. PICK b \in Targets : /\ boot' = b
                          /\ IF b \in Types THEN BootDrive(b) ELSE BootImage(b)
  BY DEF ui_qemu_boot
<1>2. /\ pc' = "menu" /\ cmd' = NoCmd /\ add_dev' = add_dev /\ add_dev_count' = add_dev_count
      /\ slot' = slot /\ fault' = fault /\ fault = "none"
  BY DEF ui_qemu_boot, slots
<1>3. NoCmd \in [by : {"none", "copy", "start"}, add : SUBSET Drive,
                 boot : DriveNums \cup {Failed, NoDrive}]
  BY DEF NoCmd
<1>4. SlotsSafe' /\ CmdFresh' /\ BootDriveListed' /\ BootDriveShown' /\ WritableByChoice'
  BY <1>2 DEF IInv, SlotsSafe, CmdFresh, BootDriveListed, BootDriveShown, WritableByChoice, NoCmd
<1>5. CASE b \notin Types
  <2>1. /\ d_info' = d_info /\ d_count' = d_count /\ boot_pos' = boot_pos
        /\ shown' = NoDrive /\ clicked' \in BOOLEAN
    BY <1>1, <1>5 DEF BootImage, lists
  <2>2. TypeOK'
    BY <1>1, <1>2, <1>3, <2>1 DEF IInv, TypeOK
  <2>3. OfferedReal' /\ Framed'
    BY <1>1, <1>5, <2>1 DEF IInv, OfferedReal, Framed
  <2>. QED
    BY <1>4, <2>2, <2>3 DEF IInv
<1>6. CASE b \in Types
  <2>1. PICK got \in Fetch(b) :
          LET pos == Clamp(boot_pos[b], got.count)
          IN  /\ shown' = IF got.count = 0 THEN NoDrive ELSE got.info[pos + 1]
              /\ \/ /\ clicked' = (b # boot)
                    /\ boot_pos' = [boot_pos EXCEPT ![b] = pos]
                    /\ SetList(b, got)
                 \/ /\ clicked' = TRUE
                    /\ \E pick \in 0 .. got.count - 1 : boot_pos' = [boot_pos EXCEPT ![b] = pick]
                    /\ SetList(b, got)
                 \/ /\ clicked' = TRUE
                    /\ boot_pos' = [boot_pos EXCEPT ![b] = pos]
                    /\ SetList(b, Refreshed)
    BY <1>1, <1>6 DEF BootDrive
  <2>2. /\ got.info \in Seq(DriveNums \cup {Failed}) /\ got.count \in Nat
        /\ got.count <= Len(got.info)
        /\ \A i \in 1 .. got.count : got.info[i] \in DriveNums
    BY <1>6, FetchType DEF IInv
  <2>. DEFINE pos == Clamp(boot_pos[b], got.count)
  <2>3. boot_pos[b] \in Nat
    BY <1>6 DEF IInv, TypeOK
  <2>4. pos \in Nat /\ (pos = 0 \/ pos < got.count) /\ (got.count # 0 => pos + 1 \in 1 .. got.count)
    BY <2>2, <2>3 DEF Clamp
  <2>5. SetList(b, got) \/ SetList(b, Refreshed)
    BY <2>1
  <2>6. /\ d_info' \in [Types -> Seq(DriveNums \cup {Failed})]
        /\ d_count' \in [Types -> Nat]
        /\ \A u \in Types : d_count'[u] <= Len(d_info'[u])
        /\ OfferedReal'
    BY <1>6, <2>2, <2>5, ListsKept, RefreshedType DEF IInv
  <2>7. boot_pos' \in [Types -> Nat]
    <3>1. ASSUME NEW pick \in 0 .. got.count - 1, boot_pos' = [boot_pos EXCEPT ![b] = pick]
          PROVE  boot_pos' \in [Types -> Nat]
      <4>1. pick \in Nat
        BY <2>2
      <4>2. boot_pos \in [Types -> Nat]
        BY DEF IInv, TypeOK
      <4>. QED
        BY <3>1, <4>1, <4>2
    <3>2. ASSUME boot_pos' = [boot_pos EXCEPT ![b] = pos]
          PROVE  boot_pos' \in [Types -> Nat]
      BY <2>4, <3>2 DEF IInv, TypeOK
    <3>3. \/ \E pick \in 0 .. got.count - 1 : boot_pos' = [boot_pos EXCEPT ![b] = pick]
          \/ boot_pos' = [boot_pos EXCEPT ![b] = pos]
      BY <2>1, Zenon
    <3>. QED
      BY <3>1, <3>2, <3>3
  <2>8. shown' \in DriveNums \cup {NoDrive}
    <3>1. shown' = IF got.count = 0 THEN NoDrive ELSE got.info[pos + 1]
      BY <2>1
    <3>. QED
      BY <2>2, <2>4, <3>1
  <2>9. clicked' \in BOOLEAN
    <3>1. clicked' = (b # boot) \/ clicked' = TRUE
      BY <2>1
    <3>. QED
      BY <3>1
  <2>10. TypeOK'
    BY <1>1, <1>2, <1>3, <2>6, <2>7, <2>8, <2>9 DEF IInv, TypeOK
  <2>11. Framed'
    <3>1. SUFFICES ASSUME ~clicked' PROVE Framed'
      BY DEF Framed, Drawn
    <3>2. boot_pos' = [boot_pos EXCEPT ![b] = pos] /\ SetList(b, got)
      BY <2>1, <3>1
    <3>3. boot_pos'[b] = pos /\ d_info'[b] = got.info /\ d_count'[b] = got.count
      BY <1>6, <2>2, <3>2, ListsKept DEF IInv, TypeOK
    <3>4. shown' = IF got.count = 0 THEN NoDrive ELSE got.info[pos + 1]
      BY <2>1
    <3>5. CASE got.count = 0
      <4>1. pos = 0 /\ shown' = NoDrive
        BY <2>4, <3>4, <3>5
      <4>. QED
        BY <1>1, <1>6, <3>3, <3>5, <4>1 DEF Framed
    <3>6. CASE got.count # 0
      <4>1. pos + 1 \in 1 .. got.count /\ pos < got.count
        BY <2>2, <2>4, <3>6
      <4>2. shown' = got.info[pos + 1] /\ shown' \in DriveNums
        BY <2>2, <3>4, <3>6, <4>1
      <4>3. shown' # NoDrive
        BY <4>2, DevicesAssumption DEF NoDrive
      <4>. QED
        BY <1>1, <1>6, <3>3, <4>1, <4>2, <4>3 DEF Framed
    <3>. QED
      BY <3>5, <3>6
  <2>. QED
    BY <1>4, <2>6, <2>10, <2>11 DEF IInv
<1>. QED
  BY <1>5, <1>6

(* The menu of the panel of additional devices.                            *)
LEMMA MenuStep ==
  ASSUME IInv, (\E t \in Types : Add(t)) \/ RemoveLast \/ SkipMenu
  PROVE  IInv'
<1>. USE DevicesAssumption
<1>1. /\ UNCHANGED <<d_info, d_count, boot, boot_pos, shown, cmd, fault>>
      /\ pc = "menu" /\ pc' = "slot" /\ slot' = 1
      /\ clicked' = clicked \/ clicked' = TRUE
  BY DEF Add, RemoveLast, SkipMenu, lists, slots
<1>2. cmd = NoCmd /\ fault = "none"
  BY <1>1 DEF IInv, CmdFresh
<1>3. OfferedReal' /\ CmdFresh' /\ BootDriveListed' /\ BootDriveShown' /\ WritableByChoice'
  BY <1>1, <1>2 DEF IInv, OfferedReal, CmdFresh, BootDriveListed, BootDriveShown,
                    WritableByChoice, NoCmd, TypeOK
<1>7. Framed'
  <2>1. SUFFICES ASSUME ~clicked' PROVE Framed'
    BY DEF Framed, Drawn
  \* Only a click changes the slots.
  <2>2. UNCHANGED <<add_dev, add_dev_count>> /\ ~clicked
    <3>1. ~(\E t \in Types : Add(t)) /\ ~RemoveLast
      BY <2>1, Zenon DEF Add, RemoveLast
    <3>2. SkipMenu
      BY <3>1
    <3>. QED
      BY <2>1, <3>2, Zenon DEF SkipMenu, slots
  <2>3. Drawn /\ Framed
    BY <1>1, <2>2 DEF IInv, Drawn
  <2>. QED
    BY <1>1, <2>2, <2>3 DEF Framed, HasSlot
<1>4. /\ add_dev' \in [1 .. MaxAddDev -> Slot] /\ add_dev_count' \in 0 .. MaxAddDev
      /\ SlotsSafe'
  <2>1. ASSUME NEW t \in Types, Add(t)
        PROVE  /\ add_dev' \in [1 .. MaxAddDev -> Slot] /\ add_dev_count' \in 0 .. MaxAddDev
               /\ SlotsSafe'
    <3>. DEFINE n == add_dev_count + 1
    <3>0. add_dev_count \in 0 .. MaxAddDev
      BY DEF IInv, TypeOK
    <3>1. n \in 1 .. MaxAddDev /\ add_dev_count' = n
      <4>1. add_dev_count < MaxAddDev /\ add_dev_count' = add_dev_count + 1
        BY <2>1 DEF Add
      <4>. QED
        BY <3>0, <4>1
    <3>2. add_dev' = [add_dev EXCEPT ![n] = [add_dev[n] EXCEPT !.type = t, !.is_active = TRUE,
                                               !.snapshot = TRUE, !.cleared = FALSE]]
      BY <2>1 DEF Add
    <3>3. add_dev[n] \in Slot
      BY <3>1 DEF IInv, TypeOK
    <3>4. [add_dev[n] EXCEPT !.type = t, !.is_active = TRUE, !.snapshot = TRUE, !.cleared = FALSE]
            \in Slot
      BY <3>3 DEF Slot
    <3>5. add_dev' \in [1 .. MaxAddDev -> Slot]
      BY <3>1, <3>2, <3>4 DEF IInv, TypeOK
    <3>6. add_dev'[n].snapshot
      BY <3>1, <3>2, <3>3 DEF IInv, TypeOK, Slot
    <3>7. \A i \in 1 .. MaxAddDev : i # n => add_dev'[i] = add_dev[i]
      BY <3>1, <3>2 DEF IInv, TypeOK
    <3>8. SlotsSafe'
      <4>1. SlotsSafe /\ \A i \in 1 .. n : i = n \/ i \in 1 .. add_dev_count
        BY <3>0 DEF IInv
      <4>. QED
        BY <3>0, <3>1, <3>6, <3>7, <4>1 DEF SlotsSafe
    <3>. QED
      BY <3>1, <3>5, <3>8
  <2>2. ASSUME RemoveLast
        PROVE  /\ add_dev' \in [1 .. MaxAddDev -> Slot] /\ add_dev_count' \in 0 .. MaxAddDev
               /\ SlotsSafe'
    BY <2>2 DEF IInv, TypeOK, SlotsSafe, RemoveLast
  <2>3. ASSUME SkipMenu
        PROVE  /\ add_dev' \in [1 .. MaxAddDev -> Slot] /\ add_dev_count' \in 0 .. MaxAddDev
               /\ SlotsSafe'
    BY <2>3 DEF IInv, TypeOK, SlotsSafe, SkipMenu, slots
  <2>. QED
    BY <2>1, <2>2, <2>3
<1>5. slot' \in 1 .. MaxAddDev + 1 /\ clicked' \in BOOLEAN
  <2>1. clicked \in BOOLEAN
    BY DEF IInv, TypeOK
  <2>2. clicked' = clicked \/ clicked' = TRUE
    BY <1>1, Zenon
  <2>3. slot' = 1
    BY <1>1, Zenon
  <2>4. clicked' \in BOOLEAN
    BY <2>1, <2>2
  <2>. QED
    BY <2>3, <2>4
<1>6. TypeOK'
  BY <1>1, <1>4, <1>5 DEF IInv, TypeOK
<1>. QED
  BY <1>3, <1>4, <1>6, <1>7 DEF IInv

(* A click on the switches of a slot keeps its type, and clears snapshot   *)
(* only together with saying so.                                           *)
LEMMA ClickedType ==
  ASSUME NEW d \in Slot, NEW c \in Clicked(d)
  PROVE  c \in Slot /\ (d.snapshot \/ d.cleared => c.snapshot \/ c.cleared)
BY DEF Clicked, Slot

(* A slot of the panel of additional devices.                              *)
LEMMA SlotStep ==
  ASSUME IInv, DrawSlot
  PROVE  IInv'
<1>. USE DevicesAssumption
<1>1. PICK d \in {add_dev[slot]} \cup (IF clicked THEN {} ELSE Clicked(add_dev[slot])) :
        IF d.is_device
        THEN DrawDevice(d, ~clicked /\ d = add_dev[slot] /\ d.is_active)
        ELSE DrawFile(d)
  BY DEF DrawSlot
<1>2. /\ UNCHANGED <<boot, boot_pos, add_dev_count, pc, shown, cmd, fault>>
      /\ pc = "slot" /\ slot' = slot + 1 /\ slot <= add_dev_count
  BY DEF DrawSlot, NextSlot
<1>3. cmd = NoCmd /\ fault = "none"
  BY <1>2 DEF IInv, CmdFresh
<1>4. CmdFresh' /\ BootDriveListed' /\ BootDriveShown' /\ WritableByChoice'
  BY <1>2, <1>3 DEF CmdFresh, BootDriveListed, BootDriveShown, WritableByChoice, NoCmd
<1>5. slot \in 1 .. MaxAddDev /\ slot \in 1 .. add_dev_count /\ slot' \in 1 .. MaxAddDev + 1
  <2>1. slot \in 1 .. MaxAddDev + 1 /\ add_dev_count \in 0 .. MaxAddDev
    BY DEF IInv, TypeOK
  <2>. QED
    BY <1>2, <2>1
<1>6. add_dev \in [1 .. MaxAddDev -> Slot] /\ add_dev[slot] \in Slot
  BY <1>5 DEF IInv, TypeOK
<1>7. d \in Slot /\ (d.snapshot \/ d.cleared)
  <2>1. add_dev[slot].snapshot \/ add_dev[slot].cleared
    BY <1>5 DEF IInv, SlotsSafe
  <2>. QED
    BY <1>1, <1>6, <2>1, ClickedType
\* What every way of drawing the slot comes to.
<1>8. ASSUME NEW c \in Slot, c.snapshot \/ c.cleared, add_dev' = [add_dev EXCEPT ![slot] = c]
      PROVE  add_dev' \in [1 .. MaxAddDev -> Slot] /\ SlotsSafe'
  <2>1. add_dev' \in [1 .. MaxAddDev -> Slot]
    BY <1>6, <1>8
  <2>2. \A i \in 1 .. MaxAddDev : add_dev'[i] = IF i = slot THEN c ELSE add_dev[i]
    BY <1>6, <1>8
  <2>3. SlotsSafe /\ add_dev_count \in 0 .. MaxAddDev
    BY DEF IInv, TypeOK
  <2>. QED
    BY <1>2, <1>8, <2>1, <2>2, <2>3 DEF SlotsSafe
<1>9. CASE ~d.is_device
  <2>1. /\ add_dev' = [add_dev EXCEPT ![slot] = d]
        /\ clicked' = (clicked \/ d # add_dev[slot])
        /\ UNCHANGED <<d_info, d_count>>
    BY <1>1, <1>9 DEF DrawFile, lists
  <2>2. clicked' \in BOOLEAN /\ (~clicked' => ~clicked)
    BY <2>1 DEF IInv, TypeOK
  <2>3. OfferedReal' /\ Framed'
    <3>1. ~clicked' => add_dev' = add_dev
      BY <1>6, <2>1, <2>2 DEF IInv, TypeOK
    <3>. QED
      BY <1>2, <2>1, <2>2, <3>1 DEF IInv, OfferedReal, Framed, Drawn, HasSlot
  <2>4. TypeOK'
    BY <1>2, <1>5, <1>7, <1>8, <2>1, <2>2 DEF IInv, TypeOK
  <2>. QED
    BY <1>4, <1>7, <1>8, <2>1, <2>3, <2>4 DEF IInv
<1>10. CASE d.is_device
  <2>. DEFINE mayClick == ~clicked /\ d = add_dev[slot] /\ d.is_active
  <2>1. DrawDevice(d, mayClick)
    BY <1>1, <1>10
  <2>2. PICK got \in Fetch(d.type) :
          LET c == [d EXCEPT !.id = Clamp(d.id, got.count)]
          IN  \/ /\ add_dev' = [add_dev EXCEPT ![slot] = c]
                 /\ SetList(d.type, got)
                 /\ clicked' = (clicked \/ d # add_dev[slot])
              \/ /\ mayClick
                 /\ \E pick \in 0 .. got.count - 1 :
                      add_dev' = [add_dev EXCEPT ![slot] = [c EXCEPT !.id = pick]]
                 /\ SetList(d.type, got)
                 /\ clicked' = TRUE
              \/ /\ mayClick
                 /\ add_dev' = [add_dev EXCEPT ![slot] = c]
                 /\ SetList(d.type, Refreshed)
                 /\ clicked' = TRUE
    BY <2>1 DEF DrawDevice
  <2>3. d.type \in Types /\ d.id \in Nat
    BY <1>7 DEF Slot
  <2>4. /\ got.info \in Seq(DriveNums \cup {Failed}) /\ got.count \in Nat
        /\ got.count <= Len(got.info)
        /\ \A i \in 1 .. got.count : got.info[i] \in DriveNums
    BY <2>3, FetchType DEF IInv
  <2>. DEFINE c == [d EXCEPT !.id = Clamp(d.id, got.count)]
  <2>5. c \in Slot /\ (c.snapshot \/ c.cleared)
    BY <1>7, <2>3 DEF Slot, Clamp
  <2>6. \/ add_dev' = [add_dev EXCEPT ![slot] = c]
        \/ \E pick \in 0 .. got.count - 1 : add_dev' = [add_dev EXCEPT ![slot] = [c EXCEPT !.id = pick]]
    BY <2>2, Zenon
  <2>7. add_dev' \in [1 .. MaxAddDev -> Slot] /\ SlotsSafe'
    <3>1. ASSUME NEW pick \in 0 .. got.count - 1,
                 add_dev' = [add_dev EXCEPT ![slot] = [c EXCEPT !.id = pick]]
          PROVE  add_dev' \in [1 .. MaxAddDev -> Slot] /\ SlotsSafe'
      <4>1. pick \in Nat
        BY <2>4
      <4>2. [c EXCEPT !.id = pick] \in Slot /\ ([c EXCEPT !.id = pick].snapshot \/ [c EXCEPT !.id = pick].cleared)
        BY <2>5, <4>1 DEF Slot
      <4>. QED
        BY <1>8, <3>1, <4>2
    <3>. QED
      BY <1>8, <2>5, <2>6, <3>1
  <2>8. SetList(d.type, got) \/ SetList(d.type, Refreshed)
    BY <2>2
  <2>9. /\ d_info' \in [Types -> Seq(DriveNums \cup {Failed})]
        /\ d_count' \in [Types -> Nat]
        /\ \A u \in Types : d_count'[u] <= Len(d_info'[u])
        /\ OfferedReal'
    BY <2>3, <2>4, <2>8, ListsKept, RefreshedType DEF IInv
  <2>10. clicked' = (clicked \/ d # add_dev[slot]) \/ clicked' = TRUE
    BY <2>2
  <2>11. clicked' \in BOOLEAN
    BY <2>10 DEF IInv, TypeOK
  <2>12. TypeOK'
    BY <1>2, <1>5, <2>7, <2>9, <2>11 DEF IInv, TypeOK
  <2>13. Framed'
    <3>1. SUFFICES ASSUME ~clicked' PROVE Framed'
      BY DEF Framed, Drawn
    <3>2. ~clicked /\ SetList(d.type, got)
      BY <2>2, <3>1
    <3>3. /\ d_info'[d.type] = got.info /\ d_count'[d.type] = got.count
          /\ \A u \in Types \ {d.type} : d_info'[u] = d_info[u] /\ d_count'[u] = d_count[u]
      BY <2>3, <2>4, <3>2, ListsKept DEF IInv
    <3>4. Framed /\ Drawn
      BY <1>2, <3>2 DEF IInv, Drawn
    <3>9. d = add_dev[slot] /\ add_dev' = [add_dev EXCEPT ![slot] = c]
      BY <2>2, <3>1
    <3>10. \A i \in 1 .. MaxAddDev : /\ add_dev'[i].is_device = add_dev[i].is_device
                                     /\ add_dev'[i].type = add_dev[i].type
      BY <1>6, <3>9 DEF Slot
    <3>11. (\A t \in Types : HasSlot(t)' <=> HasSlot(t)) /\ HasSlot(d.type)
      <4>1. add_dev_count \in 0 .. MaxAddDev
        BY DEF IInv, TypeOK
      <4>. QED
        BY <1>2, <1>5, <1>10, <3>9, <3>10, <4>1 DEF HasSlot
    <3>5. boot \in Types => boot_pos[boot] \in Nat /\ d_count[boot] \in Nat /\ d_count[boot] <= Len(d_info[boot])
      BY DEF IInv, TypeOK
    <3>6. CASE boot \in Types /\ boot = d.type /\ d_info[boot] = <<>>
      <4>1. d_count[boot] = 0 /\ shown = NoDrive
        BY <3>4, <3>5, <3>6 DEF Framed
      <4>. QED
        BY <1>2, <3>4, <3>6, <3>11, <4>1 DEF Framed
    <3>7. CASE boot \in Types /\ boot = d.type /\ d_info[boot] # <<>>
      <4>1. got.info = d_info[boot] /\ got.count = d_count[boot]
        BY <3>7 DEF Fetch
      <4>. QED
        BY <1>2, <3>3, <3>4, <3>7, <3>11, <4>1 DEF Framed
    <3>8. CASE boot \notin Types \/ boot # d.type
      BY <1>2, <3>3, <3>4, <3>8, <3>11 DEF Framed
    <3>. QED
      BY <3>6, <3>7, <3>8
  <2>. QED
    BY <1>4, <2>7, <2>9, <2>12, <2>13 DEF IInv
<1>. QED
  BY <1>9, <1>10

(* Copy, Start and the end of a frame.                                     *)
LEMMA StartStep ==
  ASSUME IInv, SlotsDone \/ Copy \/ Start \/ NoButton
  PROVE  IInv'
<1>. USE DevicesAssumption
<1>1. /\ UNCHANGED <<d_info, d_count, boot, boot_pos, add_dev, add_dev_count, shown>>
      /\ pc # "boot"
  BY DEF SlotsDone, Copy, Start, NoButton, EndOfFrame, lists, slots
<1>2. cmd = NoCmd /\ fault = "none"
  BY <1>1 DEF IInv, CmdFresh
<1>3. OfferedReal' /\ SlotsSafe'
  BY <1>1 DEF IInv, OfferedReal, SlotsSafe
<1>4. CASE SlotsDone
  BY <1>1, <1>2, <1>3, <1>4 DEF IInv, TypeOK, SlotsDone, Framed, Drawn, HasSlot, CmdFresh,
                                BootDriveListed, BootDriveShown, WritableByChoice, NoCmd
<1>5. CASE Copy \/ Start \/ NoButton
  <2>1. pc' = "boot" /\ slot' = 1 /\ clicked' = FALSE
    BY <1>5 DEF Copy, Start, NoButton, EndOfFrame
  <2>2. Framed' /\ CmdFresh'
    BY <2>1 DEF Framed, Drawn, CmdFresh
  \* What a button that made a command line makes true.
  <2>3. ASSUME NEW by \in {"copy", "start"}, get_cmdline(by), Drawn,
               by = "start" => check_valid
        PROVE  /\ cmd' \in [by : {"none", "copy", "start"}, add : SUBSET Drive,
                             boot : DriveNums \cup {Failed, NoDrive}]
               /\ fault' \in {"none", "copy", "start"}
               /\ BootDriveListed' /\ BootDriveShown' /\ WritableByChoice'
    <3>1. CASE boot \in Types /\ boot_pos[boot] + 1 \notin DOMAIN d_info[boot]
      <4>1. fault' = by /\ cmd' = NoCmd
        BY <1>2, <2>3, <3>1 DEF get_cmdline
      <4>2. by # "start"
        <5>1. /\ boot_pos[boot] \in Nat /\ d_count[boot] \in Nat
              /\ d_info[boot] \in Seq(DriveNums \cup {Failed})
              /\ d_count[boot] <= Len(d_info[boot])
          BY <3>1 DEF IInv, TypeOK
        <5>2. boot_pos[boot] = 0 \/ boot_pos[boot] < d_count[boot]
          BY <2>3, <3>1 DEF IInv, Framed
        <5>. QED
          BY <2>3, <3>1, <5>1, <5>2 DEF check_valid
      <4>. QED
        BY <2>3, <4>1, <4>2 DEF NoCmd, BootDriveListed, BootDriveShown, WritableByChoice
    <3>2. CASE ~(boot \in Types /\ boot_pos[boot] + 1 \notin DOMAIN d_info[boot])
      <4>. DEFINE drive == IF boot \in Types THEN d_info[boot][boot_pos[boot] + 1] ELSE NoDrive
      <4>1. fault' = "none" /\ cmd' = [by |-> by, add |-> append_qemu_hdb, boot |-> drive]
        BY <1>2, <2>3, <3>2 DEF get_cmdline
      <4>2. \A i \in 1 .. add_dev_count : i \in 1 .. MaxAddDev /\ add_dev[i] \in Slot
        BY DEF IInv, TypeOK
      <4>3. append_qemu_hdb \in SUBSET Drive
        BY <4>2 DEF append_qemu_hdb, Drive, Slot
      <4>4. boot \in Types => d_info[boot] \in Seq(DriveNums \cup {Failed})
        BY DEF IInv, TypeOK
      <4>5. drive \in DriveNums \cup {Failed, NoDrive}
        <5>1. CASE boot \in Types
          <6>1. boot_pos[boot] + 1 \in 1 .. Len(d_info[boot])
            BY <3>2, <4>4, <5>1
          <6>. QED
            BY <4>4, <5>1, <6>1, ElementOfSeq
        <5>. QED
          BY <5>1
      <4>6. cmd' \in [by : {"none", "copy", "start"}, add : SUBSET Drive,
                      boot : DriveNums \cup {Failed, NoDrive}]
        BY <2>3, <4>1, <4>3, <4>5
      <4>7. BootDriveListed'
        <5>1. CASE by = "start" /\ boot \in Types
          <6>1. boot_pos[boot] \in Nat /\ d_count[boot] \in Nat
            BY <5>1 DEF IInv, TypeOK
          <6>2. boot_pos[boot] = 0 \/ boot_pos[boot] < d_count[boot]
            BY <2>3, <5>1 DEF IInv, Framed
          <6>3. boot_pos[boot] + 1 \in 1 .. d_count[boot]
            BY <2>3, <5>1, <6>1, <6>2 DEF check_valid
          <6>. QED
            BY <1>1, <4>1, <5>1, <6>3 DEF BootDriveListed
        <5>2. CASE ~(by = "start" /\ boot \in Types)
          BY <1>1, <4>1, <5>2 DEF BootDriveListed
        <5>. QED
          BY <5>1, <5>2
      <4>8. BootDriveShown'
        <5>1. CASE by = "start" /\ boot \in Types
          <6>1. drive = d_info[boot][boot_pos[boot] + 1] /\ d_count[boot] # 0
            BY <2>3, <5>1 DEF check_valid
          <6>2. CASE shown # NoDrive
            BY <1>1, <2>3, <4>1, <5>1, <6>1, <6>2 DEF IInv, Framed, BootDriveShown
          <6>3. CASE shown = NoDrive
            <7>1. boot_pos[boot] = 0 /\ HasSlot(boot)
              BY <2>3, <5>1, <6>1, <6>3 DEF IInv, Framed
            <7>. QED
              BY <1>1, <4>1, <5>1, <6>1, <6>3, <7>1 DEF BootDriveShown, HasSlot
          <6>. QED
            BY <6>2, <6>3
        <5>2. CASE ~(by = "start" /\ boot \in Types)
          BY <1>1, <4>1, <5>2 DEF BootDriveShown
        <5>. QED
          BY <5>1, <5>2
      <4>9. WritableByChoice'
        <5>1. \A e \in append_qemu_hdb : e.slot \in 1 .. add_dev_count /\ e.snapshot = add_dev[e.slot].snapshot
          BY DEF append_qemu_hdb
        <5>2. cmd'.add = append_qemu_hdb
          BY <4>1
        <5>. QED
          BY <1>1, <5>1, <5>2 DEF IInv, SlotsSafe, WritableByChoice
      <4>. QED
        BY <4>1, <4>6, <4>7, <4>8, <4>9
    <3>. QED
      BY <3>1, <3>2
  \* And one that did not.
  <2>4. ASSUME UNCHANGED <<cmd, fault>>
        PROVE  /\ cmd' \in [by : {"none", "copy", "start"}, add : SUBSET Drive,
                             boot : DriveNums \cup {Failed, NoDrive}]
               /\ fault' \in {"none", "copy", "start"}
               /\ BootDriveListed' /\ BootDriveShown' /\ WritableByChoice'
    BY <1>1, <1>2, <2>4 DEF NoCmd, BootDriveListed, BootDriveShown, WritableByChoice
  <2>5. /\ cmd' \in [by : {"none", "copy", "start"}, add : SUBSET Drive,
                      boot : DriveNums \cup {Failed, NoDrive}]
        /\ fault' \in {"none", "copy", "start"}
        /\ BootDriveListed' /\ BootDriveShown' /\ WritableByChoice'
    <3>1. CASE Copy
      BY <2>3, <3>1 DEF Copy, Drawn
    <3>2. CASE Start
      BY <2>3, <2>4, <3>2 DEF Start, Drawn
    <3>3. CASE NoButton
      BY <2>4, <3>3 DEF NoButton
    <3>. QED
      BY <1>5, <3>1, <3>2, <3>3
  <2>6. TypeOK'
    <3>1. slot' \in 1 .. MaxAddDev + 1
      BY <2>1
    <3>2. pc' \in {"boot", "menu", "slot", "start"}
      BY <2>1
    <3>3. clicked' \in BOOLEAN
      BY <2>1
    <3>. QED
      BY <1>1, <2>5, <3>1, <3>2, <3>3 DEF IInv, TypeOK
  <2>. QED
    BY <1>3, <2>2, <2>5, <2>6 DEF IInv
<1>. QED
  BY <1>4, <1>5

LEMMA InitPrimed == Init' => IInv'
BY InitInv, PTL

THEOREM StepInv == IInv /\ [Next]_vars => IInv'
<1>. SUFFICES ASSUME IInv, [Next]_vars PROVE IInv'
  OBVIOUS
<1>1. CASE Relaunch
  <2>1. Init'
    BY <1>1 DEF Relaunch, Init
  <2>. QED
    BY <2>1, InitPrimed
<1>2. CASE UNCHANGED vars
  BY <1>2 DEF vars, lists, slots, IInv, TypeOK, OfferedReal, Framed, Drawn, SlotsSafe, CmdFresh,
              BootDriveListed, BootDriveShown, WritableByChoice, HasSlot
<1>. QED
  BY <1>1, <1>2, BootStep, MenuStep, SlotStep, StartStep DEF Next

THEOREM Invariant == Spec => []IInv
<1>. QED
  BY InitInv, StepInv, PTL DEF Spec

(* Positions, lists, slots and command lines keep their types.             *)
THEOREM TypeCorrect == Spec => []TypeOK
<1>1. IInv => TypeOK
  BY DEF IInv
<1>. QED
  BY <1>1, Invariant, PTL

(* Start never reads a list out of its bounds, and the drive it names is   *)
(* in the list.                                                            *)
THEOREM StartReadsList == Spec => []BootDriveListed
<1>1. IInv => BootDriveListed
  BY DEF IInv
<1>. QED
  BY <1>1, Invariant, PTL

(* The drive booted from is the one that was shown; when none was, it is   *)
(* the first of a list that a slot of its type has found since.            *)
THEOREM ShownIsBooted == Spec => []BootDriveShown
<1>1. IInv => BootDriveShown
  BY DEF IInv
<1>. QED
  BY <1>1, Invariant, PTL

(* No additional drive is opened for writing by what its slot held before. *)
THEOREM NoStrayWrites == Spec => []WritableByChoice
<1>1. IInv => WritableByChoice
  BY DEF IInv
<1>. QED
  BY <1>1, Invariant, PTL
=============================================================================
