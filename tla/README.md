# TLA+ models of ZenEmu

ZenEmu is a Windows launcher for QEMU. One program, `emu.exe` (`src/`, `include/`,
`ews/`), edits settings, builds QEMU's command line, runs QEMU and shows its output, and
serves PXE boots over HTTP. A second program, `wimldr/`, runs inside the guest: it
collects the files of a Windows PE boot, presents them as a FAT32 disk and starts the
Windows boot manager. This directory models both, checks the models with TLC on small
instances and proves the main invariants with TLAPS for every instance.

    tlc -config MCEws_server.cfg MCEws        # check a run
    tlapm EwsProofs.tla                       # check proofs

`PROJECT.json` lists the components, the runs, the hazards with the properties that cover
them, the theorems, for each definition the lines it models, and for each property a
mutation of the code that breaks it.

## 1. The system

### 1.1 The launcher

| component | state | operations | what makes it correct |
|---|---|---|---|
| session (`ui_start.c`, `ui_end.c`, `ui_mem.c`, `nkctx.c`) | `output_handle`, `ews`, the frame the UI thread is drawing | three checks per frame whether QEMU runs; Start, Stop; exit of QEMU, of the reader thread, of the launcher | the launcher never loses a QEMU it did not end; at most one server, and none without a QEMU; Start comes back |
| output log (`ui_start.c`, `ui_end.c`) | `output`, `output_offset` | `read_pipe_thread` appends; `ui_reset_log` clears, from the UI or from the reader; the edit widget measures the text, lets the user type into it and delete from it, and terminates it again | no write outside the buffer; always terminated; shows what QEMU wrote until the user edits it, and again once it is cleared |
| HTTP server life cycle (`ews.c`, `EmbeddableWebServer.h`) | `struct Server`: `shouldRun`, `listenerfd`, `stopped`, `activeConnectionCount`; the global counters; one `struct Connection` per client | `ews_start`, `ews_stop`, accept thread, handler threads | memory is freed after its last use; no wakeup is lost; stopping ends |
| HTTP requests (`EmbeddableWebServer.h`, `ews.c`) | `struct Request` of one connection | incremental parser, path check, whole-file and range responses | parsing does not depend on how the bytes arrive; no path leaves the root; a range lies in the file |
| command line (`cmdline.c`) | `static_cmdline`, `static_offset` | `get_cmdline` and its parts; `fix_dir_path` changes the settings it reads | devices named are the devices chosen; TFTP and HTTP serve one directory; a full buffer is noticed |
| boot and additional devices (`dev.c`, `ui_boot.c`, `ui_hdb.c`) | the lists `d_info`/`d_count`, positions in them, slots `add_dev` | list, refresh, choose, add, remove | a position is within its list; a choice still names the disk that was chosen; nothing is written to without being asked for |
| settings (`ui.c`, `ini.c`, `nkstyle.c`, `nkctx.c`) | `ZEMU_INI_DATA` with two profiles, its file, resolution, size of the window | load, check, choose, save, change of monitor | what is saved is what is loaded; what is loaded is valid; sizes do not drift |
| battery tables (`write_file.c`) | an AML buffer | package begin/finalize | the lengths in the table are those of its contents |

Interactions. Everything in the launcher runs on one UI thread that draws frames, with
these exceptions: one thread per QEMU that reads its output, the accept thread of the
HTTP server and one thread per HTTP connection. The UI and the reader share the log
without a lock. The session owns the server; `ews_stop` blocks the UI thread until the
accept thread and all handlers are through. QEMU is another process and ends when it likes.

### 1.2 wimldr

| component | what it does | what makes it correct |
|---|---|---|
| boot flow (`main.c`, `efimain.c`, `cmdline.c`, `cpio.c`, `efifile.c`, `wimfile.c`) | parse the command line, collect files from an archive, a volume and the image, patch, start the boot manager | every file is there once and under the right name; the right boot manager is started; nothing to inject is late |
| virtual disk (`vdisk.c`) | synthesises each sector of a FAT32 disk on demand | a read is the concatenation of reads of its sectors; cluster chains end and do not cross |
| WIM reader (`wim.c`) | finds and decompresses resources, one chunk cached | reads do not depend on what was read before |
| patches (`patch.c`) | regions over and behind the image inject files; a pattern in BCD is replaced | the image read piece by piece is one whole, valid image with the files in it and nothing lost |
| decompressors (`lzx.c`, `lznt1.c`, `xca.c`, `huffman.c`) | called twice, for the length and to fill a buffer of it | what was compressed comes out; both calls agree on the length |
| memory and BIOS services (`memmap.c`, `paging.c`, `int13.c`) | memory map, two moves of the initrd, INT 13 | the initrd is where it is looked for, nothing else has moved; a request maps to the sectors it names |

wimldr is single-threaded and calls back from firmware at arbitrary points, so its hazards
are numeric edges, stale caches and sequences of calls, where the launcher's are
interleavings, failures between two steps and waiting.

### 1.3 What is hard

* **Interleaving.** Accept thread, handlers and `ews_stop` around the release of the
  server; reader and UI around the log.
* **Failures between steps.** `socket`, `bind`, `accept`, `CreateThread`,
  `CreatePipe`, `CreateProcess` and `TerminateProcess` can fail after other steps have
  taken effect.
* **Waiting.** The UI thread waits in `ews_stop` with no timeout for threads that wait for
  clients with no timeout.
* **Staleness.** Positions in refreshed lists, slots used again, a buffer offset read before a
  reset, a cached chunk, a patch constructed once, a page directory changed under a copy.
* **Order.** Files found in any order and more than once; requests cut anywhere by the
  network; the current directory changed by any file dialog.
* **Numeric edges.** Full buffers, fragments at region borders, length encodings that include
  themselves.

## 2. Modules

| module | models | builds on |
|---|---|---|
| `Ews` | server threads | |
| `EwsService` | what the server promises its owner: the abstract specification | |
| `EwsProps` | properties, refinement mapping and inductive invariant of `Ews` | `Ews`, `EwsService` |
| `Session` | frames of the UI thread, QEMU processes, readers | composed with `EwsService` (the server as its owner sees it) |
| `OutputLog` | log buffer, its reader threads, the UI | |
| `Devices` | lists of drives, boot panel, slots of additional devices, Start and Copy | |
| `Settings` | `zemu.ini`: load, check, choose, save | |
| `Sizes` | size of the window across resolutions and `zemu.ini` | |
| `Pxe` | the directory of network boot, as HTTP and as TFTP see it | |
| `Aml` | the battery's ACPI table and the lengths of its packages | |
| `HttpChars`, `Request` | the parser of requests and the loop of `recv` | |
| `Serve` | what is answered: file, range, failures | `Request` |
| `VDisk`, `VDiskProps` | the virtual disk; a driver for FAT32 as reference | |
| `WimRead` | reads of a resource through the cached chunk | |
| `Wim` | header, lookup table, metadata and directories of an image | |
| `WimPatch` | regions over the image, files injected | `Wim` |
| `Bcd` | replacement of suffixes in BCD | |
| `Boot` | collecting the files, choosing the boot manager | |
| `Relocate` | both moves of the initrd, memory and page directory | |
| `Huffman` | alphabets built from lengths of codes, and the lookup of symbols | |
| `Inflate` | how decompressors are called; what an encoder may do with a text | |
| `Lznt1`, `Xca`, `Lzx` | the decompressors step by step, and an encoder of each format | `Inflate`, `Huffman` |
| `MCEws`, `MCSession`, `MCOutputLog` | instances for TLC | |
| `MCLauncher` | the sum of `Devices`, `Settings`, `Sizes`, `Pxe`, `Aml` and `Serve` | |
| `MCWimldr` | the sum of `WimRead`, `WimPatch`, `Boot`, `Relocate`, `Bcd`, `VDiskProps`, `Huffman`, `Lznt1`, `Xca` and `Lzx` | |
| `EwsProofs`, `OutputLogProofs`, `DevicesProofs`, `VDiskProofs` | proofs about each of these | the module |
| `LauncherProofs`, `HttpProofs`, `BootProofs`, `WimProofs` | proofs about `Session`, `Sizes`, `Pxe` and `Settings`; `Request` and `Serve`; `Boot` and `Relocate`; `WimRead`, `WimPatch` and `Bcd` | these |

`Session` uses the server through `EwsService` only, and `Ews` is shown to implement
`EwsService` (checked and proved), so what `Session` says of launcher and server holds
with the real server in the place of the abstract one.

`MCLauncher` and `MCWimldr` are *sums*: their components share no state, so that checking
them together would multiply states and find nothing. The initial state chooses one part
(`part`), only its actions are taken, and the variables of the others keep a value of no
meaning. The parts with theorems are extended (`Devices`, `Sizes`, `Settings`, `Pxe` and `Serve`; `WimRead`,
`Boot`, `Relocate`, `Bcd` and `VDiskProps`), the others are instances with their parameters given in
place; properties of both are restated as `part = … => S!Property`. The constant `Parts` narrows a run
to the part a finding is about.

### 2.1 Ews

`opc` is where the owner is inside `ews_stop`, `apc` where the accept thread is in
`acceptConnectionsUntilStoppedInternal`, `conn[c]` where connection `c` and its handler
thread are. The fields of `struct Server` keep their names (`count` is
`activeConnectionCount`, `listener` is `listenerfd`, `active` is the global
`counters.activeConnections`). A critical section that cannot block inside is one action,
with one exception: `serverStop` clears `shouldRun` and closes the socket in two actions,
because the accept thread reads both without the lock, and `Drain` waits for the lock in
between. Testing a condition and going to sleep on it is one action
(`pthread_cond_wait` releases the mutex and sleeps atomically); a signal moves the sleeper
back to its test; sleepers also wake for no reason.

Every call that can fail does: `socket`, `bind` (also because the socket has been closed in
the meantime), `listen`, `accept`, `CreateThread`. A handler reads until it has a request
or the peer is gone (`HandlerRecv` is one action, as nothing is shared while it reads).

### 2.2 EwsService

The server as `ews_start` and `ews_stop` present it: off, on, stopping (a handler may still
be created), draining (no more handlers). The mapping takes `phase` from `opc` and, inside
`ews_stop`, from whether the accept thread has left its loop, and `serving` from the
handlers that still dereference the server.

### 2.3 Session

One action per step of a frame: the check before the memory panel, the check in the start
panel, the button, the check in the end panel. Each check is `ui_is_qemu_running` with its
side effect: without a running QEMU it stops the server, entering `ews_stop` (`EnterStop`)
and leaving it when the last handler is through (`LeaveStop`); between the two the UI
thread does nothing else. A frame handles at most one click. `StartFailed` and `StartQemu`
are `run_qemu` with each of its failures; `TerminateProcess` only begins the end of a
process (`dying`), and its handle is closed at once. A process may exit with the code 259,
which `GetExitCodeProcess` also returns for a running process (`odd`). `GetExitCodeProcess`
itself is taken not to fail, as its handle comes from `CreateProcess` with every right.

### 2.4 OutputLog

The reader's chunk is read, tested against the room left, perhaps preceded by a reset, then
copied, the offset loaded, stored, and the terminator written: one action each, as the UI
thread runs in between without a lock. `ui_reset_log` is two actions. The edit widget
(`include/nuklear.h:28658`, a vendored file) measures the text at the beginning (`DrawBegin`) and
writes a terminator at the end (`DrawEnd`). In between it edits the text in place: the log is made
without `NK_EDIT_READ_ONLY` (`ui_end.c:211`), and the Insert key (`nuklear_gdip.h:976`) brings the
widget into insert mode (`nuklear.h:27243`), where the user types (`Type`) and deletes
characters or a selection (`Erase`); overwriting is the one after the other. A character is one
cell, the cursor is anywhere. `output_offset` does not follow the edits. `since` is a
history variable, what was read since the log was last cleared; `torn` says that the UI got in
between the steps of a reader or that the user edited the log since then, `overlapped` that two readers
were ever at work at once.

### 2.5 VDisk

The operators have the names of the functions that build sectors; `BuildSectors` is what
`vdisk_read` calls for a fragment and `FragEnd` where it cuts it. A sector's data is a
record of the fields of its structure, a set of directory entries, or bytes of a file, each
of which is known by file and offset. `Fragment` is one turn of the loop of `vdisk_read`,
`AddFile`, `AddFileDies` and `PatchFile` are the calls that prepare the files. The geometry
is a parameter: every number of `vdisk.h` that others are computed from is a CONSTANT, and
the computed ones are computed as there, 32-bit wrap included (`WordSize`, `Wide`).
`GeometryAssumption` is what the numbers have to satisfy, and `vdisk.h`'s do. The length in a
directory entry has a width of its own (`SizeWord`, 2^32), which the files stay below.

`VDiskProps` reads the disk as a driver would that knows FAT32 and nothing of `vdisk.c`: boot
record, cluster chains, directories by path, contents of files.

### 2.6 Devices

A frame is drawn in the order of the code, `pc` says what comes next: boot panel, menu, each
slot of the panel of additional devices, Start. The boot panel and each slot of a device fetch
the list of their type when there is none, and a Refresh button drops it (`Refreshed`); a list is
what an enumeration finds at that moment: any drives in the order `qsort` gives them, failed
ones (`index == -1`) first, so that `d_count` ends before them. An enumeration that finds
nothing leaves no list, and the next panel tries again. `shown` is the drive the boot panel drew
in this frame, `NoDrive` if its list was empty. `clicked` is that a frame has one mouse click.
An index out of range reads past the list: `fault` is that, and ends the launcher; `Relaunch`
starts it again. Files and directories to boot from are one choice, `"image"`, and have no
contents.

### 2.7 Settings, Sizes, Pxe

`Settings` has one setting of each kind in each of the two profiles: a number in a text, a
text, a choice of a list, a box, and the three with rules of their own. A number is its
digits, as `wcstol` with base 0 reads them, octal included; a missing key is the empty sequence.
No text is quoted or ends in blanks (`GetPrivateProfileString` would strip these). Numbers in
the file have up to `MaxDigits` = 9 digits: beyond `LONG_MAX`, `wcstol` stops counting.

`Sizes` computes with integers: a size times a fraction, truncated as by `(int)`. How a
`double` rounds the product before that is left out.

`Pxe` has paths as drive, names and trailing backslashes, resolved against the program's
directory (`rel_to_abs`) or, by Windows, against the current one, which file dialogs change.
The network and HTTP are on, and no path begins with a backslash.

### 2.8 Request, Serve

A character is a number, and the names and words the parser compares with are one character each
(`HttpChars`). `recv` delivers any non-empty part of what is left, up to the buffer;
`requestParse` takes its characters one by one, with the states of the code, the bounded fields,
and the headers as strings in one pool, so that a string that overruns its place is seen. A
`Content-Length` is a sign or none and a number of one character; a negative one is taken for 0,
what is no number for none. A client sends lines (`RequestAssumption`): no separator inside of
what it ends, no NUL in headers, no header value that begins with a blank, which the parser
skips, and in the path digits behind every percent sign. `Serve` decides on the file, the range
and the pages of errors, and sends the file chunk by chunk while `send` and `fread` may fail and
the file shrinks. The slash and the backslash are one character. (`pathEscapesDocumentRoot`
treats them alike, except after a dot.)

### 2.9 WimRead

`Begin` is the entry of `wim_read` with its checks, `ReadChunk` a turn of its loop, reading
through `wim_chunk`: cached chunk, table of offsets, raw or compressed. The reader does not
know the bytes: each is known by where it comes from, and a decompressor is a length per chunk, or
failure. `ByteOf` says which byte a resource has at a place by the format alone.

### 2.10 Wim, WimPatch, Bcd

`Wim` reads an image, a function from places to fields, as `wim.c` does, failure included: an
operator gives a set of at most one result. `WimPatch` constructs the patch with the
loops of `patch.c` in their order (header, directories on the way to `System32`, files, lookup
table), each region at the place and of the length the code gives it, and applies it to a
read of any piece. The same operators of `Wim` then judge the result, together with
`Whole`, the image with the regions laid over it in order. Names, hashes and times are fields of one cell.
`Bcd` is the loop of `patch_bcd` over one read.

### 2.11 Boot

One step per file: of the archive (BIOS), of the root directory of each volume (EFI), then
per path looked for in the image. `vdisk_files` records for each file where it came from;
`initrd` is what is in memory from there on. `patched` is what the list of files was when
`patch_wim` was first called and listed it, which is what makes the order of calls matter.

### 2.12 Aml

A table is the sequence of calls `write_battery_aml` makes: bytes to be written, the start
of a package and its end. `aml_finalize_package` makes room in front of the contents and
writes the length there. A byte is known by the call that wrote it, so that one overwritten
or out of place is seen by `AmlReadable`, which reads the table by the definition of AML.

### 2.13 Huffman, Inflate, Lznt1, Xca, Lzx

`Huffman` is one operator that builds the tables and two that look a symbol up by them,
including the pointer that leads to in front of `raw` in an alphabet without symbols.
`Inflate` is the caller: one call without a buffer, then one with a buffer of the length the
first returned, whose result is not looked at. Each decompressor takes one symbol, value, block
or length a step. The width of bytes, words and codes, the sizes of blocks, alphabets and windows
are CONSTANTS.

Data come from an encoder, part of each module: it takes *any* way to cut a text into literals
and matches (`Parses`), not the one a good encoder would find, and any tables of lengths that
have codes for what is used. The data may be told shorter than they are (`Cuts`): both callers can
do so, `wim_chunk` by a table of offsets, `add_bootmgr` as it only guesses where data begin.

### 2.14 Relocate

Memory is a function from addresses to what was there at first, so a cell that is
overwritten or read from elsewhere is seen. `MoveLow` is `relocate_memory_low`; the second move is
a step per large page (`CopyPage`): window and page are mapped, in this order, and the copy
reads through the page directory as it is by then.

## 3. Runs

| run | instance | what it shows |
|---|---|---|
| `server` | 3 connections | the server is freed only when nobody uses it, the counters are exact, no wakeup is lost, `EwsService` is implemented, `ews_stop` returns once `bind` succeeded, every client is answered or disconnected |
| `server_stop` (violation) | 1 connection | without a successful `bind`, `ews_stop` waits for ever |
| `session` | 3 processes, 2 connections | no QEMU is lost, no server overwritten or left without a QEMU, servers without a QEMU are stopped, Start comes back |
| `output_log` | buffer of 4 cells, 2 values, 2 readers, symmetric | bounds and terminator of the log, whatever the user types; its contents until the UI disturbs or the user edits it, and again after the next clearing |
| `launcher` | 3 drives of 2 types and a slot; 18 files of settings; 4 resolutions; 6 typed paths and 3 directories; battery tables for every percentage, with and without power; 876 requests, 5 files and 2 directories | Start hands QEMU the drive that was shown, if one was; additional drives are written to by choice only; settings survive; sizes lose a pixel at most; HTTP serves what TFTP serves; the battery's table is read as it was written; requests are parsed alike however they are cut; a client gets exactly its range; every request is closed |
| `launcher_additional` (violation) | `Devices` | an additional drive is named by its position |
| `launcher_firmware` (violation) | `Settings` | the firmware of 32-bit ARM is not loaded |
| `launcher_empty_file` (violation) | `Serve` | an empty file is announced as one byte |
| `wimldr` | 8 resources, 6 offsets, 5 lengths; 4 images, 4 files, 4 indexes; archives of up to 3 and directories of up to 2 files, 24 images; 50 memory maps, 4 places, 5 lengths; BCD of up to 5 suffixes; disks of up to 3 files of 0, 36, 37 or 432 bytes, patched and extended or not, reads from every sector, 2, 5 and 50 at a time; every table of lengths up to 4 of 5 codes; some 300 texts in three formats | reads do not depend on those before; patched images are whole, bootable and lose nothing; the right boot manager is started, no name is shadowed, no injection is late; the initrd arrives and nothing else moves; suffixes are replaced; a FAT32 driver finds exactly the files added, in each directory, and reads their bytes; a read is the concatenation of reads of its sectors, and returns; what was compressed is decompressed |
| `wimldr_initrd` (violation) | `Boot` | `boot.wim` may begin with an executable |
| `wimldr_bcd` (violation) | `Bcd` | a suffix at the end of a read is missed |
| `wimldr_xca` (violation) | `Xca` | symbols read ahead are lost at the end of the data |

Bounds. Two connections are enough for one handler to finish while another one runs and the
accept thread sleeps; with three, one can be in the backlog as well. Three processes: one
running, one dying whose reader still drains its pipe, one exited and not forgotten. A
buffer of four cells has room for one chunk after another and for one that needs a reset;
chunks have up to `Size - 1` cells as in `ReadFile(…, OUTBUF_SZ - 1, …)`. No counter of these
is bounded artificially: slots are finite and used again. `MCOutputLog` stops exploring once two
readers overlapped (constraint `Lone`), as its properties say nothing from then on.

`Devices` finds up to `MaxDrives` = 3 drives with two numbers, so that a list can have one failed
drive and two good ones, and one drive can be on the list twice; one slot of additional
devices is enough for it to be used again. `Settings` allows two choices (`MaxEdits`) with any
number of saves and restarts. `Sizes` stops at `MaxWidth` = 30, more than twice what the
user chooses, which only repeated moves reach. The pool of `Request` has 13 characters, a buffer of `recv` 2, so that
a header, a body or an escape is cut at each place; requests have up to three headers where
two are kept.

The disk of `MCWimldr` has 208 sectors of 9 bytes, 4 to a cluster, with a FAT entry to a byte:
the smallest in which every region of the real one exists, the directories' clusters are in
the first sector of the FAT, there is unused space before the first file and after the last,
and the last slot ends at `WordSize`, as the 2 TB disk's does at 2^32. Reads of 50 sectors cross
from one file's slot (48) to the next. Disks are read when all three files are there and have
37 bytes.

The resources of `wimldr` have chunks of 4 bytes and up to four of them: a short last one, a
broken one in the middle, one that is not compressed, offsets of both widths, and two at the
same place of different files. The images have one or two metadata resources, with and
without `System32`, and one that is no image. In `Relocate`, with large pages of 4 cells,
initrds of 1 to 7 cells span up to three pages at every offset. `Boot` has room for 8
files, which the longest archive with the fullest image exceeds.

The texts of `Lznt1`, in bytes of 4 bits, are all of 7 bytes of two values and all of 4 of three,
two longer ones and pairs of blocks; a match loses a bit of its length after 4, 8, … bytes. `Xca` has
bytes of 2 bits, words of 4 and a new alphabet after 8 bytes of output; its texts are all of 6
bytes of two values and four that take two alphabets, with three tables of lengths, one of them
without a code for some symbols. No text of `Xca` is a multiple of 8 long. `Lzx` has bytes of
4 bits, words of 8 and 10 position slots, of which the last ones have aligned offsets; seven texts
have matches at every kind of slot, one longer than a symbol can say, jumps, one of them in the
target of another, and blocks of every type in every order of two.

Deadlock is checked except where the system really stops: in `Session` (the launcher may be
closed and all QEMUs gone), in the parts of `wimldr` (wimldr dies, or hands over to
Windows), and in `Serve` (a connection is closed).

Fairness. Threads are scheduled (weak fairness of the accept thread, of each handler, of
`ews_stop` once entered, of the UI thread, which a timer makes draw). A `recv` ends,
because the client sends its request or disconnects: this is assumed of the clients, the
code has no timeout. Nothing is assumed to make the owner start or stop a server, a client
connect, a QEMU exit or a user click. `Session` assumes of the server that it leaves its
loop and that its handlers end: what `server` shows of `Ews` once `bind` succeeded. Of the parts of the
sums, `Serve` and `VDisk` have liveness: the handler goes on (`Answering`), while the client may stay
silent and nothing has to fail; and a read of the disk goes on once it has begun (`Reading`).

### Findings

* `server_stop`: `acceptConnectionsUntilStoppedInternal` returns early, without setting
  `stopped`, when `socket()` or `bind()` fails, port 80 being taken for example; `serverStop` then waits
  on `stoppedCond` for ever, and with it the UI thread. The same happens with a free port
  when `ews_stop` closes the socket before `bind()`. The wait is not even needed: `ews_stop`
  joins the accept thread right after it.
* `launcher_additional`: `cmdline.c:309` passes `dev->id`, a position, where `cmdline.c:213`
  passes the number of the drive; the panel may even show "no device".
* `launcher_firmware`: `ZEMU_FW_ARM_MAX` is `ZEMU_FW_AA64_EFI`, so a saved `ZEMU_FW_ARM32_EFI` is taken
  for out of range.
* `launcher_empty_file`: `rangeEnd` of an empty file is 0, a length of `rangeEnd - rangeStart + 1` is
  one; the client waits for a byte, or takes the answer for broken.
* `wimldr_initrd`: with a `bootmgr` that embeds `bootmgr.exe`, `initrd` has been moved to the
  decompressed file when `boot.wim` is added from it.
* `wimldr_bcd`: the loop stops one place early, and a suffix across two reads is in neither.
* `wimldr_xca`: the loop of `xca_decompress` ends when `src` is at the end of the data, while up to
  two words are still in `accum`: the last symbols are lost when they fit into these together with
  the end marker. And a match of three bytes at distance 1 with no more than one byte behind it is
  taken for the end marker, whose symbol it has.

### Limits

* A failed `accept()` ends the accept thread for good, as `errno` is set from
  `WSAGetLastError()` and so is never `EINTR` or `EBADF`: `ClientsReleased` is that clients are
  released then, not that the server accepts on.
* `InBounds`, `Terminated` and `LogExact` hold while readers do not overlap; pressing Stop and
  Start before the old QEMU's pipe is drained makes them overlap, and then nothing bounds
  what is written. `LogExact` excludes the time after the UI cleared or drew the log in the
  middle of an append, or the user edited it, until the next clearing: QEMU's output then goes to
  where the text ended before, over its end or behind its terminator.
* `BootDriveShown` says of a frame whose boot panel showed no device only which drive is booted: Start
  asks whether there is a list (`ui_start.c:21-24`), which a slot may have fetched after the panel was
  drawn. It is the first drive of that list.
* `NeverLost` and the other properties of `Session` take `GetExitCodeProcess` (`ui_start.c:75`) not
  to fail. If it did, the launcher would take a QEMU that runs for one that has ended: it would stop
  its server, forget it and offer Start.
* `RestartPossible` is for exit codes other than 259. `StopReturnsOnceBound` is for connections
  whose thread could be created: `pthread_create` reports a failed `CreateThread` as
  success, and the count never comes down.
* Copy reads a list that is not there when no drive has been found (`cmdline.c:214`);
  `BootDriveListed` is about Start, which checks (`ui_start.c:21-24`).
* `FilesReadable` is for files shorter than 2^32 bytes (`GeometryAssumption`): the length of a
  longer one wraps in its directory entry (`vdisk.c:203`), as FAT32 has no room for it.
* `MemoryKept` excludes what lies in the same 2 MB page as the initrd's first or last bytes: these
  pages are mapped elsewhere as a whole (`paging.c:240`).
* `SectorsExact` is for reads that are not empty and do not cross from the
  unused space into the first file, which a FAT driver has no reason for: a fragment is not
  cut at the first file. With a 32-bit `unsigned long` it excepts reads that reach the last room for
  a file, the end of which wraps to 0 (`NoWrap`, `vdisk.c:555`).
* `RequestExact` excepts a `Content-Length` of 0, for which the parser waits for one more
  character, and headers without a name or a value. `FileExact` excepts the length of an empty
  file, several ranges in one header, and a `Range` header the pool has cut.
* `HttpServesTftp` excepts a relative path while the current directory is not the
  program's, and a path never typed, which HTTP takes for the root of a drive.
* `SizesKept` is for one launch without a move: a pixel may be lost at each, and after a move
  the size is saved by the factor of that move.
* `AmlReadable` is for the tables the launcher writes. A package with contents of 63 bytes, or of
  4094 or 4095, would have the byte behind its length overwritten (`write_file.c:261`), as its
  length takes a byte more when it counts itself; none of these tables has one.
* `Inflated` is for valid data, whole or cut short at some place, not for damaged ones. For `Xca` it is
  for data in which the end is clear (`EndsClear`; the finding has the others).
  `Lzx` blocks whose header says the default length are alone in their data, as it is that of a whole
  chunk: an uncompressed one behind another block could lose a word that was read ahead.
* `SuffixesPatched` is for suffixes inside what is read and not at its end.

## 4. Proofs

TLAPS proves, for every value of the constants that the named assumption of the module
allows:

| module | theorems |
|---|---|
| `EwsProofs` | `TypeCorrect`, `MemorySafe`, `CountCorrect`, `WakeupsKept`, the action properties `StopDrains` and `StopsAccepting`, and `Refinement` (`Spec => ImplementsService`), for finite `Conns` |
| `OutputLogProofs` | `TypeCorrect`, `BoundsKept`, `AlwaysTerminated` and `LogShowsOutput` (`LogExact`), for any size of the buffer |
| `DevicesProofs` | `TypeCorrect`, `StartReadsList`, `ShownIsBooted`, `NoStrayWrites`, for any drives and slots |
| `LauncherProofs` | `TypeCorrect`, `QemuKept`, `SingleQemu`, `ServerKept` and `ServerHasQemu` of `Session`; `SizesStay`, for any resolutions from 96 dots up; `SameDirectory` (`HttpServesTftp`), for any drives, directories and typed paths; `SettingsReload` (`SettingsLoaded`), for any file, values and order of choices, saves and restarts |
| `HttpProofs` | `RequestRead` (`RequestExact`), for any requests, limits of the parser and fragments; `FileSent` (`FileExact`), for any tree of files of any lengths, ranges and size of the buffer as well |
| `BootProofs` | `NothingShadowed`, `NothingMissed`, `RightBootmgr`, for any archives, volumes and images; `InitrdFound` (`InitrdReadable`) and `RestUntouched` (`MemoryKept`), for any memory map, large page, place and length of the initrd |
| `WimProofs` | `CacheKept`, `ReadsExactly` and `FailuresCaused` of `WimRead`, for any resources, lengths of chunks and reads; `BcdPatched` (`SuffixesPatched`), for any suffixes, files and reads; `PiecesAgree` (`PiecesFit`), for any image, files, index and reads; `BootNamed` (`BootConsistent`), for any images made as `ImagesAssumption` says, index and files |
| `VDiskProofs` | `SectorsBuilt` (`SectorsExact`) and `FilesFound` (`FilesReadable`), for any geometry of the disk, files and reads |

The assumptions of `Ews`, `Session`, `OutputLog`, `Devices` and `WimRead` are `ASSUME`s that TLC
evaluates; those of `Sizes`, `Pxe`, `Settings`, `Request`, `Serve`, `Boot`, `Relocate`, `Bcd`,
`WimPatch` and `VDisk` (`SizesAssumption` and so on, `GeometryAssumption`) are hypotheses of the
theorems, and `MCLauncher` and `MCWimldr` evaluate them for their instances. `WimReadAssumption`
has what the format promises: the chunks of a resource are in order, and no two resources of a
file begin at the same place. `BootAssumption` says that none of the files wimldr looks for in
the image is one it injects, which is what `wim_inject_file` sees to. `GeometryAssumption` has
the order of things on the disk that `vdisk.h` takes for granted: whole clusters, directories
within the first sector of the FAT and before the first file, no file in that sector, and no
file in the disk's last two clusters, as the FAT is computed for `VDISK_CLUSTERS` entries though
the first cluster has the number 2.

*Ews.* That the server is freed only when nobody uses it is not inductive: it needs that
the accept thread has gone only after its handlers (`ThreadInv`), that the counter it
waited for counts them (`CountExact`), that it has at most one connection in hand
(`InHandInv`, for accepting and counting are two steps), and that the server exists while
the owner has it (`OwnerInv`). `BacklogInv` is what makes `accept` and closing the socket
keep the counts. The counting steps are lemmas on cardinalities, and every step that moves
one connection from one state to another is an instance of one of them.

*OutputLog.* A chunk that passed the test for room still fits when it is copied, although
the UI may have moved the offset: the UI only moves it to 0 (`Room`), and editing does not move it.
This takes that there is one reader (`OneReader`). The last cell is never written with anything but a
terminator (`LastCell`), by the user neither, since the widget ends the text one cell before.
For `LogExact` the invariant says for each step of an append what of the output is in the buffer and
where the offset is (`Untorn`), so long as the UI has not got in between (`LogKept`).

*Session.* A handle is stored only when Start was offered, which takes that the last check
of the frame found no QEMU running; no one but the UI thread makes one run in between
(`FrameInv`, the invariant's part on `is_running`).

*Devices.* Start reads its list within bounds because the boot panel put the position right in
the same frame, and a list that is there is only replaced by a click: as long as the frame's
click is free, what the panel drew is what Start reads, and when it drew none, the list is still
empty or a slot of that type has fetched it (`Framed`). What is offered can be opened
(`OfferedReal`), and a slot in use is a snapshot unless its user said otherwise (`SlotsSafe`).

*Sizes.* The proof is the arithmetic of `RoundTrip`: multiplying by `a / b >= 1`, truncating,
and back, truncating again, gives the number or one less; and that without a move the factor
saved with is the one loaded with (`Untouched`).

*Pxe.* While the servers run, TFTP's directory is HTTP's, completed and made absolute (`Paired`), and
neither step leads elsewhere (`SameUnder`).

*Settings.* The numbers of the file are digits (`FileOK`), the profiles are valid
(`ProfilesOK`), and what was saved last is in the file (`SavedHeld`). It rests on numbers being
read by `wcstol` as `snprintf` wrote them, whatever their length. That is an induction over
digits, done by hand: a least number for which it failed would, without its last digit, give a
lesser one.

*Request.* What the parser has after each character of a request is a function of that
character's place (`ParsedOf`), and a fragment goes on where the one before it ended
(`FragmentRead`), so that the invariant is only that `request` is its value at what has been
received (`ReadInv`); the rest is about that function. It is followed along the request: each
part of the first line is kept as far as it has room (`LineRead`), an escape that is cut off
leaves nothing in the decoded path (`DecodedIs`); each name and value lies in the pool where the
lengths before it put it (`NameAt`, `ValueAt`), terminated by what was there when the request
was allocated, until the pool is full, and from then on, or when there is a header too many,
nothing is kept (`HeaderRead`, `HeadersRead`). So the headers are the kept ones, and the length
of the body is that of the first `Content-Length` among them. Before the end of the head and of
that body the request is not complete, and then it stays so. Each of these is an induction done
by hand, on a set of numbers; `FlattenSeq` and the loops are first given a name as functions
(`FlattensIs`, `ParseLoopExists`).

*Serve.* What a client names of a file is a span of its characters, and the range the server
takes from the first `Range` header it has kept, clamped to the file, is that span or cannot be
satisfied (`RangesAre`); that the header it finds is this one is `RequestExact` again
(`Complete`). The invariant (`AnswerAt`) says of each place of the handler what the client has:
from the head on, the first `m` of the `l` characters the head has promised, with `at` and
`remaining` those of `m` (`InLoop`). While nothing has failed the file is as long as it was, so
a short read comes only at the end of an empty file (`ChunkAt`); after a truncation only what
has been sent counts.

*WimRead.* The invariant is `CacheCoherent`, that the buffer holds the chunk its key names, and
`Progress`, that what has been copied is what was asked for from the start. The key is
set only after the buffer has been filled without failure. The lemmas relate the table of
offsets as the code reads it to the format: `ChunkCount`, `ChunkStart`.

*Bcd.* After each turn, exactly the suffixes that begin before the place looked at are replaced
(`PatchedUpTo`). Because a suffix begins with a character that is nowhere else in it or in what
replaces it, what has been replaced neither hides a suffix nor looks like one
(`SameOccurrence`).

*WimPatch.* Each region is a place, a length and as many cells (`AllFit`): that is what the
invariant says of the patch, and what takes most of the proof (`RegionsFit`), as it needs every
place and length of `wim_construct_patch` to be a number, those that come out of the loops over
directories and files included (`PathFits`, `DirLenFits`, `EndsFit`). One region laid over a
piece changes exactly the cells it covers (`RegionLaid`), so all of them leave at each cell what
the last one over it has there (`CellOf`, `AllLaid`), or what was there. `WimPatchAssumption`
only says that images and files are numbers and lists of them. For `BootConsistent` the
invariant also has how the patch was built (`Built`): the header alone, or with the six groups
of regions behind the image (`IsInjection`). As the later groups begin behind the new table
(`PaintedAbove`), the whole image reads the table as the old one, the entry of the new image and
the entries of the files (`InjectedCells`). A table that grows by one entry of metadata counts
one more, and the last number is the new image's (`TableGrown`); one that is kept says what it
said (`TableKept`), and the number `IndexChosen` has is the only one its image has
(`FoundOnce`). `ImagesAssumption` is what the tools that make WIM images promise: a table of
whole entries behind the header, a number of images that is the table's, and metadata within the
file.

*Boot.* `Chosen` says of the boot manager at every moment where it comes from and that nothing
better has been found; it takes that the image is looked at only when the given files are
through (`Phases`) and for the boot manager first (`LookedFor`). The provers do not know that a
literal is a string, so types of names are subsets of `Texts`, `STRING` with the literals.

*Relocate.* The initrd stays where it was below 4GB (`LowCopy`), as the second move writes only
above. Every large page copied so far is remapped as a whole, by the distance of the move, a
multiple of a large page (`Fragments`), and what was in it is that much higher (`HighCopy`). The
page of the copy window is excepted until the window is mapped to itself again, as what it leads
to changes with every page.

*VDisk.* A fragment lies in one region or in one file's room (`OneRegion`, `FileSlot`), and what
a builder makes of it is what it makes of its sectors one by one (`FatShift`, `DirShift`,
`FileShift`); a read has always given the sectors from its start to where it is (`ReadKept`),
which makes the invariant. For `FilesReadable` the invariant is only that the files are those
before `file_index`, within their room (`DiskInv`); the rest is about one state. At every sector
there is at most one region (`RegionAt`); the entries of the FAT are at their places (`NextIs`)
and a file's end is in none of the others' chains (`MarkerIs`, `FileEntries`), an empty file's
included, whose mark is in front of its first cluster; a file's clusters are its room in order
(`FileSectorAt`). Paths and chains are recursive functions, and what they are is shown as the
numbers of `Settings` are (`PathLeads`, `ChainIs`).

Only model-checked: liveness, for which the prover is not made; `PatchExact` of `WimPatch`,
which would take what the searches through directories find in the patched image; what the
decompressors make of their data (`Inflated`), an induction over texts and encodings of any
shape; and `AmlReadable`, for which TLC tries all there is to try: the tables differ in the
percentage and the power only.

## 5. Not modelled, and what is left

* The rest of the command line: each option is written out of one setting; the limit of the
  buffer and the quoting of paths would need the text itself.
* SMBIOS: a record of constants; the header of the ACPI table and its checksum.
* Decompressors on damaged data: what they then read, and write, is no property of the format.
* INT 13 and the loader of PE images: one table of requests each, without state.
* wimldr's own command line, console and C library; `efiboot.c` and `efiblock.c`, which hand
  firmware interfaces through.
* Third-party code (Nuklear and lodepng, half of the lines of the repository, and the EFI
  headers), tables of translations, assembly, the build-time ELF converter, scripts and binary
  images; the layout of the user interface.
