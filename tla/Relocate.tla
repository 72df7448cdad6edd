------------------------------ MODULE Relocate ------------------------------
(***************************************************************************)
(* How wimldr moves the initrd, which holds boot.wim, out of Windows' way: *)
(* below 2GB before anything is read from it (main.c, relocate_memory_low) *)
(* and, with paging, above 4GB before the boot manager is started          *)
(* (paging.c, relocate_memory_high), by way of the system's memory map     *)
(* (memmap.c).                                                             *)
(*                                                                         *)
(* Memory is a function from physical addresses to contents, the page      *)
(* directory one from large pages to large pages.  The second move is one  *)
(* step per large page, as in the code.                                    *)
(***************************************************************************)
EXTENDS Integers, Sequences

CONSTANTS
  PAGE_SIZE, PAGE_SIZE_2MB,
  ADDR_1MB, ADDR_2GB, ADDR_4GB,
  Top,                \* bound: the end of the addresses
  Maps,               \* memory maps: sequences of [start, len, usable]
  InitrdPlaces, InitrdLens  \* where the initrd may have been loaded, and how long it may be

COPY_WINDOW == PAGE_SIZE_2MB

\* 4GB is at a large page, with the window somewhere below it.  The initrd is loaded where
\* 32-bit addresses reach, and no map goes beyond the last address.
RelocateAssumption ==
  /\ PAGE_SIZE \in Nat \ {0} /\ PAGE_SIZE_2MB \in Nat \ {0}
  /\ ADDR_1MB \in Nat /\ ADDR_2GB \in Nat /\ ADDR_4GB \in Nat /\ Top \in Nat
  /\ ADDR_2GB <= ADDR_4GB /\ ADDR_4GB <= Top /\ ADDR_4GB % PAGE_SIZE_2MB = 0
  /\ PAGE_SIZE_2MB < ADDR_4GB
  /\ Maps \subseteq Seq([start : Nat, len : Nat, usable : BOOLEAN])
  /\ \A map \in Maps : \A k \in DOMAIN map : map[k].start + map[k].len <= Top
  /\ InitrdPlaces \subseteq Nat /\ InitrdLens \subseteq Nat \ {0}
  /\ \A a \in InitrdPlaces, n \in InitrdLens : a + n <= ADDR_4GB

VARIABLES
  e820,        \* the memory map
  next,        \* the entry memmap_next looks at next
  paging,      \* paging is available
  loaded,      \* where the initrd was at first
  place,       \* where it begins
  initrd_len,  \* how long it is
  mem,         \* physical memory
  pd,          \* the page directory
  done,        \* relocate_memory_high: how much has been copied
  dest,        \* where to: initrd_phys
  stage        \* "low", "high", "copy" or "started"

relocateVars == <<e820, next, paging, loaded, place, initrd_len, mem, pd, done, dest, stage>>

AlignDown(a, n) == (a \div n) * n
LargePage(a) == a \div PAGE_SIZE_2MB
Translate(a) == pd[LargePage(a)] * PAGE_SIZE_2MB + (a % PAGE_SIZE_2MB)
---------------------------------------------------------------------------
(* memmap.c: memmap_next passes over what is not usable RAM.               *)

Region == e820[next]
RegionEnd(r) == r.start + r.len

\* There is another entry, and it is usable.
Usable == next <= Len(e820) /\ Region.usable

Skip ==
  /\ stage \in {"low", "high"} /\ next <= Len(e820) /\ ~Region.usable
  /\ next' = next + 1
  /\ UNCHANGED <<e820, paging, loaded, place, initrd_len, mem, pd, done, dest, stage>>
---------------------------------------------------------------------------
(* main.c: relocate_memory_low, to the highest place below 2GB of the      *)
(* first region that has one.                                              *)

LowEnd(r) == IF RegionEnd(r) > ADDR_2GB THEN ADDR_2GB ELSE RegionEnd(r)
LowStart(r) == AlignDown(LowEnd(r) - initrd_len, PAGE_SIZE)
LowFits(r) == LowEnd(r) >= initrd_len /\ LowStart(r) >= r.start /\ LowStart(r) >= ADDR_1MB

\* Cells copied one after the other, from the first.
Overrun(from, to, n) ==
  LET cell[i \in Nat] == IF i >= n THEN 0
                         ELSE IF to > from /\ i >= to - from
                              THEN cell[i - (to - from)] ELSE mem[from + i]
  IN  [a \in DOMAIN mem |-> IF a \in to .. to + n - 1 THEN cell[a - to] ELSE mem[a]]

memmove(from, to, n) ==
  [a \in DOMAIN mem |-> IF a \in to .. to + n - 1 THEN mem[a - to + from] ELSE mem[a]]

MoveLow ==
  /\ stage = "low" /\ Usable /\ LowFits(Region)
  /\ mem' = memmove(place, LowStart(Region), initrd_len)
  /\ place' = LowStart(Region)
  /\ stage' = "high" /\ next' = 1
  /\ UNCHANGED <<e820, paging, loaded, initrd_len, pd, done, dest>>

NextLow ==
  /\ stage = "low" /\ Usable /\ ~LowFits(Region)
  /\ next' = next + 1
  /\ UNCHANGED <<e820, paging, loaded, place, initrd_len, mem, pd, done, dest, stage>>

\* Left where it is.
StayLow ==
  /\ stage = "low" /\ next > Len(e820)
  /\ stage' = "high" /\ next' = 1
  /\ UNCHANGED <<e820, paging, loaded, place, initrd_len, mem, pd, done, dest>>
---------------------------------------------------------------------------
(* paging.c: relocate_memory_high, to a place above 4GB that lies within   *)
(* its large page as the initrd does.                                      *)

\* Within the region, or below it.
HighAnywhere(r) == RegionEnd(r) >= ADDR_4GB

HighStart(r) ==
  LET end == place + initrd_len
  IN  AlignDown(RegionEnd(r) - end, PAGE_SIZE_2MB) + end - initrd_len

HighFits(r) == RegionEnd(r) >= ADDR_4GB /\ HighStart(r) >= r.start /\ HighStart(r) >= ADDR_4GB

MoveHigh ==
  /\ stage = "high" /\ paging /\ Usable /\ HighFits(Region)
  /\ dest' = HighStart(Region) /\ done' = 0
  /\ stage' = "copy"
  /\ UNCHANGED <<e820, next, paging, loaded, place, initrd_len, mem, pd>>

NextHigh ==
  /\ stage = "high" /\ paging /\ Usable /\ ~HighFits(Region)
  /\ next' = next + 1
  /\ UNCHANGED <<e820, paging, loaded, place, initrd_len, mem, pd, done, dest, stage>>

StayHigh ==
  /\ stage = "high" /\ (~paging \/ next > Len(e820))
  /\ dest' = place /\ stage' = "started"
  /\ UNCHANGED <<e820, next, paging, loaded, place, initrd_len, mem, pd, done>>

Source == place + done
Offset == Source % PAGE_SIZE_2MB
Remaining == initrd_len - done
FragLen == IF PAGE_SIZE_2MB - Offset > Remaining THEN Remaining ELSE PAGE_SIZE_2MB - Offset

\* The window and then the page itself are mapped to the destination; the copy
\* goes through the window, from what the initrd's addresses lead to by then.
CopyPage ==
  LET to == LargePage(dest + done)
      window == [pd EXCEPT ![LargePage(COPY_WINDOW)] = to]
      from(a) == window[LargePage(Source)] * PAGE_SIZE_2MB + (a - to * PAGE_SIZE_2MB)
  IN  /\ stage = "copy" /\ done < initrd_len
      /\ mem' = [a \in DOMAIN mem |->
                   IF a \in to * PAGE_SIZE_2MB + Offset .. to * PAGE_SIZE_2MB + Offset + FragLen - 1
                   THEN mem[from(a)] ELSE mem[a]]
      /\ pd' = [window EXCEPT ![LargePage(Source)] = to]
      /\ done' = done + FragLen
      /\ UNCHANGED <<e820, next, paging, loaded, place, initrd_len, dest, stage>>

\* The window is left where it points.
LeaveWindow ==
  /\ stage = "copy" /\ done = initrd_len
  /\ stage' = "started"
  /\ UNCHANGED <<e820, next, paging, loaded, place, initrd_len, mem, pd, done, dest>>

RestoreWindow ==
  /\ stage = "copy" /\ done = initrd_len
  /\ pd' = [pd EXCEPT ![LargePage(COPY_WINDOW)] = LargePage(COPY_WINDOW)]
  /\ stage' = "started"
  /\ UNCHANGED <<e820, next, paging, loaded, place, initrd_len, mem, done, dest>>
---------------------------------------------------------------------------
\* Every cell of memory has contents of its own.
Content(a) == a

RelocateInit ==
  /\ e820 \in Maps /\ next = 1 /\ paging \in BOOLEAN
  /\ loaded \in InitrdPlaces /\ initrd_len \in InitrdLens /\ place = loaded
  /\ mem = [a \in 0 .. Top - 1 |-> Content(a)]
  /\ pd = [p \in 0 .. LargePage(Top - 1) |-> p]
  /\ done = 0 /\ dest = 0 /\ stage = "low"

RelocateNext == \/ Skip \/ MoveLow \/ NextLow \/ StayLow
                \/ MoveHigh \/ NextHigh \/ StayHigh \/ CopyPage \/ RestoreWindow

RelocateSpec == RelocateInit /\ [][RelocateNext]_relocateVars
---------------------------------------------------------------------------
InitrdPages == {LargePage(a) : a \in place .. place + initrd_len - 1}

(* When the boot manager is started, the addresses of the initrd lead to   *)
(* what was loaded, wherever it has been moved to (main.c:387-414,         *)
(* paging.c:194-257).                                                      *)
InitrdReadable ==
  stage = "started" =>
    \A k \in 0 .. initrd_len - 1 : mem[Translate(place + k)] = Content(loaded + k)

(* No address outside the large pages of the initrd leads elsewhere than   *)
(* it did, the copy window included (paging.c:231-250), and nothing below  *)
(* 4GB has been written to but the initrd's place.                         *)
RestKept ==
  stage = "started" =>
    /\ \A p \in DOMAIN pd \ InitrdPages : pd[p] = p
    /\ \A a \in 0 .. ADDR_4GB - 1 :
         a \in place .. place + initrd_len - 1 \/ mem[a] = Content(a)

(* The initrd is only moved to usable memory: below 2GB and above 1MB, or  *)
(* above 4GB (main.c:395-406, paging.c:209-218).                           *)
InRam(first, last) ==
  \E k \in DOMAIN e820 : /\ e820[k].usable
                         /\ e820[k].start <= first /\ last <= RegionEnd(e820[k])

DestinationUsable ==
  /\ stage # "low" /\ place # loaded =>
       /\ InRam(place, place + initrd_len)
       /\ place >= ADDR_1MB /\ place + initrd_len <= ADDR_2GB
  /\ stage = "copy" => InRam(dest, dest + initrd_len) /\ dest >= ADDR_4GB

(* Nothing else is moved, remapped or overwritten, and what is used is RAM. *)
MemoryKept == RestKept /\ DestinationUsable
---------------------------------------------------------------------------
(* The inductive invariant.  The initrd stays readable at its place below  *)
(* 4GB; each large page that has been copied is remapped as a whole, by    *)
(* the distance of the move, and what was in it has moved by that distance. *)
(* Only the page of the window is excepted: what it leads to changes with  *)
(* every page, until it is mapped to itself again.                         *)
Pages == 0 .. LargePage(Top - 1)
Window == LargePage(COPY_WINDOW)
Distance == dest - place

\* Of the large pages, those that have been copied so far.
CopiedPage(p) == \E k \in 0 .. done - 1 : p = LargePage(place + k)

RelocateTypeOK ==
  /\ e820 \in Maps /\ next \in Nat \ {0} /\ paging \in BOOLEAN
  /\ loaded \in InitrdPlaces /\ initrd_len \in InitrdLens /\ place \in Nat
  /\ place + initrd_len <= ADDR_4GB
  /\ mem = [a \in 0 .. Top - 1 |-> mem[a]]
  /\ pd \in [Pages -> Nat]
  /\ done \in 0 .. initrd_len /\ dest \in Nat
  /\ stage \in {"low", "high", "copy", "started"}

Stages ==
  /\ stage = "low" => place = loaded
  /\ stage \in {"low", "high"} => done = 0
  /\ stage = "started" => done \in {0, initrd_len}

LowCopy ==
  /\ \A k \in 0 .. initrd_len - 1 : mem[place + k] = Content(loaded + k)
  /\ \A a \in 0 .. ADDR_4GB - 1 : a \in place .. place + initrd_len - 1 \/ mem[a] = Content(a)

Fragments ==
  stage = "copy" \/ done > 0 =>
    /\ dest >= ADDR_4GB /\ dest + initrd_len <= Top
    /\ \E n \in Nat : Distance = n * PAGE_SIZE_2MB
    /\ done \in {0, initrd_len} \/ Offset = 0

HighCopy ==
  /\ \A p \in Pages \ {Window} :
       pd[p] = IF CopiedPage(p) THEN p + LargePage(Distance) ELSE p
  /\ stage # "copy" => pd[Window] = Window
  /\ \A k \in 0 .. done - 1 :
       LargePage(place + k) # Window => mem[place + k + Distance] = Content(loaded + k)

RelocateInv ==
  RelocateTypeOK /\ Stages /\ LowCopy /\ Fragments /\ HighCopy /\ DestinationUsable
=============================================================================
