------------------------------ MODULE Devices ------------------------------
(***************************************************************************)
(* The physical drives the launcher offers and names to QEMU: the lists of *)
(* dev.c, the boot panel (ui_boot.c), the panel of additional devices      *)
(* (ui_hdb.c), and what Copy and Start make of them (ui_start.c,           *)
(* cmdline.c).  One frame draws the panels in this order; the mouse clicks *)
(* on one of them at most.                                                 *)
(*                                                                         *)
(* Drives come and go as they please: what an enumeration finds is chosen  *)
(* anew each time.  Paths of image files are left out.                     *)
(***************************************************************************)
EXTENDS Integers, Sequences

CONSTANTS
  Types,       \* ZEMU_DEV_TYPE: hard disks and CD drives
  CD,          \* ZEMU_DEV_CD
  DriveNums,   \* STORAGE_DEVICE_NUMBER.DeviceNumber
  MaxDrives,   \* bound: interfaces found by one enumeration
  MaxAddDev    \* MAX_ADD_DEV

Failed == -1   \* (DWORD)-1, the index of a drive that cannot be opened
NoDrive == -2  \* not a number of a drive

ASSUME DevicesAssumption ==
  /\ Types \ {CD} # {}
  /\ DriveNums \subseteq Nat
  /\ MaxDrives \in Nat
  /\ MaxAddDev \in Nat \ {0}

VARIABLES
  d_info,         \* the list of each type; <<>> is NULL
  d_count,        \* how much of it is offered
  boot,           \* nk.ini->cur->boot: a type, or "image" for other targets
  boot_pos,       \* boot_hd and boot_cd
  add_dev,        \* the slots of additional devices
  add_dev_count,
  pc,             \* what is drawn next: "boot", "menu", "slot" or "start"
  slot,           \* the slot drawn next
  clicked,        \* has this frame used its click
  shown,          \* the drive the boot panel shows in this frame
  cmd,            \* the command line made in this frame
  fault           \* "none", or the button whose handler read a list out of range

lists == <<d_info, d_count>>
slots == <<add_dev, add_dev_count>>
vars == <<lists, boot, boot_pos, slots, pc, slot, clicked, shown, cmd, fault>>

Targets == Types \cup {"image"}
Slot == [type : Types, is_device : BOOLEAN, is_active : BOOLEAN,
         snapshot : BOOLEAN, id : Nat,
         cleared : BOOLEAN]  \* has the user cleared snapshot since Add
Drive == [num : Nat, type : Types, snapshot : BOOLEAN, slot : 1 .. MaxAddDev]
NoCmd == [by |-> "none", boot |-> NoDrive, add |-> {}]
---------------------------------------------------------------------------
(* dev.c: the list is sorted by number, compared as int; the drives before *)
(* the first that failed are offered.                                      *)

compare_disk_id(a, b) == a - b

Sorted(s) == \A i \in 2 .. Len(s) : compare_disk_id(s[i - 1], s[i]) <= 0

Distinct(s) == \A i, j \in 1 .. Len(s) : s[i] = s[j] /\ s[i] # Failed => i = j

DiskLists == {s \in UNION {[1 .. n -> DriveNums \cup {Failed}] : n \in 1 .. MaxDrives} :
                Sorted(s) /\ Distinct(s)}

\* The loop over the sorted list stops at the first drive that failed.
Offered(l) == /\ l.count <= Len(l.info)
              /\ l.count = Len(l.info) \/ l.info[l.count + 1] = Failed
              /\ \A i \in 1 .. l.count : l.info[i] # Failed

\* What get_disk_list may leave; without any interface, or if the
\* enumeration or calloc fails, there is still no list.
get_disk_list == {l \in [info : DiskLists, count : 0 .. MaxDrives] : Offered(l)}
                   \cup {[info |-> <<>>, count |-> 0]}

FetchAlways(t) == get_disk_list

\* A panel asks for the list only if there is none.
Fetch(t) == IF d_info[t] = <<>> THEN get_disk_list
            ELSE {[info |-> d_info[t], count |-> d_count[t]]}

Refreshed == [info |-> <<>>, count |-> 0]

SetList(t, l) == /\ d_info'  = [d_info EXCEPT ![t] = l.info]
                 /\ d_count' = [d_count EXCEPT ![t] = l.count]

\* A position beyond the list goes back to its first entry.
Clamp(pos, count) == IF pos >= count THEN 0 ELSE pos
---------------------------------------------------------------------------
(* ui_boot.c: a click chooses the target, an entry of the list (which is   *)
(* shown from the next frame on), or Refresh.                              *)

BootImage(b) ==
  /\ shown' = NoDrive
  /\ clicked' = (b # boot)
  /\ UNCHANGED <<lists, boot_pos>>

BootDrive(b) ==
  \E got \in Fetch(b) :
    LET pos == Clamp(boot_pos[b], got.count)
    IN  /\ shown' = IF got.count = 0 THEN NoDrive ELSE got.info[pos + 1]
        /\ \/ /\ clicked' = (b # boot)
              /\ boot_pos' = [boot_pos EXCEPT ![b] = pos]
              /\ SetList(b, got)
           \/ /\ b = boot
              /\ clicked' = TRUE
              /\ \E pick \in 0 .. got.count - 1 : boot_pos' = [boot_pos EXCEPT ![b] = pick]
              /\ SetList(b, got)
           \/ /\ b = boot
              /\ clicked' = TRUE
              /\ boot_pos' = [boot_pos EXCEPT ![b] = pos]
              /\ SetList(b, Refreshed)

ui_qemu_boot ==
  /\ pc = "boot" /\ fault = "none"
  /\ \E b \in Targets :
       /\ boot' = b
       /\ IF b \in Types THEN BootDrive(b) ELSE BootImage(b)
  /\ pc' = "menu"
  /\ cmd' = NoCmd
  /\ UNCHANGED <<slots, slot, fault>>
---------------------------------------------------------------------------
(* ui_hdb.c: Add leaves the path, the position and the kind of what the    *)
(* slot held before.  Add is disabled when the slots are used up, Remove   *)
(* when none is.                                                           *)

AddKeepSnapshot(t) ==
  /\ pc = "menu" /\ ~clicked
  /\ add_dev_count < MaxAddDev
  /\ add_dev' = [add_dev EXCEPT ![add_dev_count + 1].type = t,
                                ![add_dev_count + 1].is_active = TRUE,
                                ![add_dev_count + 1].cleared = FALSE]
  /\ add_dev_count' = add_dev_count + 1
  /\ clicked' = TRUE
  /\ pc' = "slot" /\ slot' = 1
  /\ UNCHANGED <<lists, boot, boot_pos, shown, cmd, fault>>

Add(t) ==
  /\ pc = "menu" /\ ~clicked
  /\ add_dev_count < MaxAddDev
  /\ add_dev' = [add_dev EXCEPT ![add_dev_count + 1].type = t,
                                ![add_dev_count + 1].is_active = TRUE,
                                ![add_dev_count + 1].snapshot = TRUE,
                                ![add_dev_count + 1].cleared = FALSE]
  /\ add_dev_count' = add_dev_count + 1
  /\ clicked' = TRUE
  /\ pc' = "slot" /\ slot' = 1
  /\ UNCHANGED <<lists, boot, boot_pos, shown, cmd, fault>>

RemoveLast ==
  /\ pc = "menu" /\ ~clicked
  /\ add_dev_count > 0
  /\ add_dev_count' = add_dev_count - 1
  /\ clicked' = TRUE
  /\ pc' = "slot" /\ slot' = 1
  /\ UNCHANGED <<lists, boot, boot_pos, add_dev, shown, cmd, fault>>

SkipMenu ==
  /\ pc = "menu"
  /\ pc' = "slot" /\ slot' = 1
  /\ UNCHANGED <<lists, boot, boot_pos, slots, clicked, shown, cmd, fault>>

\* The slot after a click on its switches, which are disabled, the first one
\* excepted, while it is not active.  A CD has no box for snapshot.
Clicked(d) ==
  {[d EXCEPT !.is_active = ~d.is_active]} \cup
  (IF ~d.is_active THEN {}
   ELSE {[d EXCEPT !.is_device = ~d.is_device]} \cup
        IF d.type = CD THEN {}
        ELSE {[d EXCEPT !.snapshot = ~d.snapshot, !.cleared = d.snapshot]})

NextSlot == /\ slot' = slot + 1
            /\ UNCHANGED <<boot, boot_pos, add_dev_count, pc, shown, cmd, fault>>

\* The rest of the slot's rows: a file's, which do nothing here, or a
\* device's, with its list and Refresh.
DrawDevice(d, mayClick) ==
  \E got \in Fetch(d.type) :
    LET c == [d EXCEPT !.id = Clamp(d.id, got.count)]
    IN  \/ /\ add_dev' = [add_dev EXCEPT ![slot] = c]
           /\ SetList(d.type, got)
           /\ clicked' = (clicked \/ d # add_dev[slot])
        \/ /\ mayClick
           /\ \E pick \in 0 .. got.count - 1 :
                add_dev' = [add_dev EXCEPT ![slot] = [c EXCEPT !.id = pick]]
           /\ SetList(d.type, got)
           /\ clicked' = TRUE
        \/ /\ mayClick
           /\ add_dev' = [add_dev EXCEPT ![slot] = c]
           /\ SetList(d.type, Refreshed)
           /\ clicked' = TRUE

DrawFile(d) ==
  /\ add_dev' = [add_dev EXCEPT ![slot] = d]
  /\ clicked' = (clicked \/ d # add_dev[slot])
  /\ UNCHANGED lists

DrawSlot ==
  /\ pc = "slot" /\ slot <= add_dev_count
  /\ \E d \in {add_dev[slot]} \cup (IF clicked THEN {} ELSE Clicked(add_dev[slot])) :
       IF d.is_device
       THEN DrawDevice(d, ~clicked /\ d = add_dev[slot] /\ d.is_active)
       ELSE DrawFile(d)
  /\ NextSlot

SlotsDone ==
  /\ pc = "slot" /\ slot > add_dev_count
  /\ pc' = "start"
  /\ UNCHANGED <<lists, boot, boot_pos, slots, slot, clicked, shown, cmd, fault>>
---------------------------------------------------------------------------
(* ui_start.c and cmdline.c.  The options of the additional devices take   *)
(* the position for the number; those of files are left out.               *)

append_qemu_hdb ==
  {[num |-> add_dev[i].id, type |-> add_dev[i].type,
    snapshot |-> add_dev[i].snapshot, slot |-> i] :
      i \in {j \in 1 .. add_dev_count : add_dev[j].is_active /\ add_dev[j].is_device}}

get_cmdline(button) ==
  IF boot \in Types /\ boot_pos[boot] + 1 \notin DOMAIN d_info[boot]
  THEN /\ fault' = button
       /\ UNCHANGED cmd
  ELSE /\ cmd' = [by |-> button, add |-> append_qemu_hdb,
                  boot |-> IF boot \in Types THEN d_info[boot][boot_pos[boot] + 1]
                           ELSE NoDrive]
       /\ UNCHANGED fault

ValidAlways == TRUE

check_valid == boot \in Types => d_count[boot] # 0

EndOfFrame == /\ pc' = "boot" /\ slot' = 1 /\ clicked' = FALSE
              /\ UNCHANGED <<lists, boot, boot_pos, slots, shown>>

Copy == /\ pc = "start" /\ ~clicked
        /\ get_cmdline("copy")
        /\ EndOfFrame

\* Start, while no QEMU runs.
Start == /\ pc = "start" /\ ~clicked
         /\ IF check_valid THEN get_cmdline("start") ELSE UNCHANGED <<cmd, fault>>
         /\ EndOfFrame

NoButton == /\ pc = "start"
            /\ UNCHANGED <<cmd, fault>>
            /\ EndOfFrame

Unused == [type |-> CHOOSE t \in Types : t # CD, is_device |-> FALSE, is_active |-> FALSE,
           snapshot |-> FALSE, id |-> 0, cleared |-> FALSE]

NoLists == [t \in Types |-> <<>>]
NoCounts == [t \in Types |-> 0]
UnusedSlots == [i \in 1 .. MaxAddDev |-> Unused]

Init ==
  /\ d_info = NoLists /\ d_count = NoCounts
  /\ boot \in Targets /\ boot_pos = NoCounts
  /\ add_dev = UnusedSlots /\ add_dev_count = 0
  /\ pc = "boot" /\ slot = 1 /\ clicked = FALSE
  /\ shown = NoDrive /\ cmd = NoCmd /\ fault = "none"

\* The access violation ends the launcher; the user starts it again.
Relaunch ==
  /\ fault # "none"
  /\ d_info' = NoLists /\ d_count' = NoCounts
  /\ boot' \in Targets /\ boot_pos' = NoCounts
  /\ add_dev' = UnusedSlots /\ add_dev_count' = 0
  /\ pc' = "boot" /\ slot' = 1 /\ clicked' = FALSE
  /\ shown' = NoDrive /\ cmd' = NoCmd /\ fault' = "none"

Next == \/ ui_qemu_boot
        \/ \E t \in Types : Add(t)
        \/ RemoveLast
        \/ SkipMenu
        \/ DrawSlot
        \/ SlotsDone
        \/ Copy
        \/ Start
        \/ NoButton
        \/ Relaunch

Spec == Init /\ [][Next]_vars
---------------------------------------------------------------------------
(* The types of the variables: a list is never offered beyond its end      *)
(* (dev.c:217-227).                                                        *)
TypeOK ==
  /\ d_info \in [Types -> Seq(DriveNums \cup {Failed})]
  /\ d_count \in [Types -> Nat]
  /\ \A t \in Types : d_count[t] <= Len(d_info[t])
  /\ boot \in Targets
  /\ boot_pos \in [Types -> Nat]
  /\ add_dev \in [1 .. MaxAddDev -> Slot]
  /\ add_dev_count \in 0 .. MaxAddDev
  /\ pc \in {"boot", "menu", "slot", "start"}
  /\ slot \in 1 .. MaxAddDev + 1
  /\ clicked \in BOOLEAN
  /\ shown \in DriveNums \cup {NoDrive}
  /\ cmd \in [by : {"none", "copy", "start"}, add : SUBSET Drive,
              boot : DriveNums \cup {Failed, NoDrive}]
  /\ fault \in {"none", "copy", "start"}

(* Whatever was plugged in or out, refreshed by another panel or chosen in *)
(* a longer list before, Start reads the list within its bounds, and hands *)
(* QEMU a drive that is in it (ui_boot.c:48-52, ui_start.c:21-24,          *)
(* cmdline.c:212-221).                                                     *)
BootDriveListed ==
  /\ fault # "start"
  /\ cmd.by = "start" /\ boot \in Types =>
       \E i \in 1 .. d_count[boot] : d_info[boot][i] = cmd.boot

HasSlot(t) == \E i \in 1 .. add_dev_count : add_dev[i].is_device /\ add_dev[i].type = t

(* The physical drive QEMU boots from is the one the boot panel showed     *)
(* when Start was clicked, not another that has taken its position since.  *)
(* While the panel said that there was none (ui_boot.c:56-57), Start boots *)
(* from one all the same if a slot for devices of that type has found a    *)
(* list later in the frame (ui_hdb.c:74-75), and only then: from the first *)
(* drive of the list, which the boot panel never showed.                   *)
BootDriveShown ==
  cmd.by = "start" /\ boot \in Types =>
    IF shown # NoDrive THEN cmd.boot = shown
    ELSE cmd.boot = d_info[boot][1] /\ HasSlot(boot)

(* An additional drive is written to only if the user has cleared its      *)
(* snapshot box since adding it, whatever its slot held before             *)
(* (ui_hdb.c:29-42).                                                       *)
WritableByChoice == \A d \in cmd.add : d.snapshot \/ add_dev[d.slot].cleared

(* dev.c:222 labels a drive in the lists with its number, and cmdline.c:213 *)
(* names the boot drive by it: an additional drive should be one of its    *)
(* type's list too.                                                        *)
AdditionalListed ==
  cmd.by = "start" =>
    \A d \in cmd.add : \E i \in 1 .. d_count[d.type] : d_info[d.type][i] = d.num
=============================================================================
