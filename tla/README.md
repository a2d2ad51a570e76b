# A verification project for X-Changer-OS

X-Changer-OS is a BIOS for an Xbox modchip, derived from Cromwell. It starts from
flash, initialises the machine, shows a menu and lets its user flash one of the
banks of the modchip from a CD or over the network, lock or unlock the hard
disk, change EEPROM settings or start Linux. This directory holds TLA+ models of
its core, the TLC configurations that check them and TLAPS proofs about them.

The one operation that can turn the console into a brick is the reflash, so the
project begins there: the flash engine, the two ways that lead to it (the CD
session and the web server) and the heap that all of them allocate from. Around
this core it models what starts the console and what else can harm it or leave it
waiting: the second boot loader, the SMBus with the EEPROM settings, the hard disk
lock with its menus and buttons, the DHCP client under the network loop, and
starting Linux from FATX.

## 1. Inventory

| Component | State | Operations | Interaction | What is hard |
|---|---|---|---|---|
| Flash engine (`drivers/flash`) | address under work, retry counters, success flag, content of the chip | identify, erase, program, verify, retry, reboot | called by the CD session and the web server; callback for progress | a chip that obeys in part, retries, power loss, a whole-chip erase |
| Heap (`lib/misc/BootLibrary.c`) | one byte per 16K cluster | `malloc`, `free` | everyone, the USB interrupt included | long sequences of calls, the end of the arena, marks that must be recognised later |
| CD session (`boot/LoadLinux.c`, `fs/cdrom`) | step, number of probes, size read, image in memory | probe, ask, wait, load, check, flash | menu action before, flash engine after | disc exchanged in between, read errors, unsigned results |
| Web server (`lwip/webserver.c`) | one `http_state` and one upload buffer per connection, registered callbacks | accept, receive, sent, poll, error | TCP calls it, it calls the flash engine | order of events after a close, PCBs taken over, time-outs, partial uploads |
| TCP (`lwip/tcp*.c`) | PCB lists, send buffer | third-party | calls the web server | two PCBs only |
| Network loop (`lwip/ebd.c`) | deadline, divisor, first minute | poll, run timers, fall back to a fixed address | drives TCP and DHCP | timers starve under traffic |
| DHCP client (`lwip/dhcp.c`) | state, tries, request and lease timers, addresses | discover, select, renew, rebind, release, bind | driven by the network loop | replies at any time, stale lease timers, timers that wrap |
| Second boot loader (`boot_rom`) | try, bank, retries of the challenge | check itself, answer the PIC, copy, hash, unpack | starts the BIOS | 100 tries over four banks, an unanswered PIC resets the console |
| SMBus (`drivers/pci/i2cio.c`) | controller registers | read, write with retries | EEPROM, PIC, interrupt handler | no limit on waiting, registers shared with a handler |
| Interrupts (`drivers/pci/BootInterrupts.c`) | tray state, ticks | PIC, timer, USB handlers | preempt the main program | interleaving with SMBus and heap |
| EEPROM settings (`lib/eeprom`) | settings and checksums | set widescreen, set video standard | SMBus | power loss between data and checksum |
| Menus (`menu`) | selected item, window, time-out, quit flag | move, select, back, confirm | pads in, actions out | stale flags, window and selection |
| Hard disk lock (`menu/actions/HddMenuActions.c`, `drivers/ide`) | passwords and lock of the drive, error bit | lock, unlock, show the password | menus before, IDE after | two commands that power loss or an error may part |
| FATX and Linux loader (`fs/fatx`, `boot/LoadLinux.c`) | chain table, cluster buffer, files in memory | open, search, load, start | IDE below, menu above | damaged chains, failed reads nobody reports |
| USB wrapper and pads (`drivers/usb/sys`) | pad slots, key states, timers | connect, disconnect, edge detection | menus, reflash retry | slots reused, missed edges |
| Third-party code | | | | USB core and host driver, Etherboot, GRUB file systems, gzip, JPEG, SHA-1, video encoders: left out |

`PROJECT.json` lists each component with its status, and under `hazards` what is
hard to test in this code, at the line where it bites. Correctness of each
modelled component is stated in section 3.

## 2. Plan

1. `Reflash`, `BootFlash`: contract and engine. *Done, proved.*
2. `BootHeap`: allocator. *Done, proved.*
3. `WebServer`: upload over the network. *Done, proved.*
4. `FlashSession`: CD session composed with `Reflash`. *Done, proved.*
5. `Loader`: second boot loader and PIC challenge. *Done, proved.*
6. `SmBus`: the bus, its two users and the EEPROM settings on top, with power
   loss. *Done, proved.*
7. `HddLock`: buttons, text menu, confirmation, ATA security commands. *Done,
   proved.*
8. `Dhcp`: network loop and DHCP client. *Done, proved.*
9. `Fatx`: FATX and the way to Linux. *Done, proved.*
10. Proofs: every safety invariant and action property of 1 to 9 that a run checks
    is proved; what remains model-checked is liveness. *Done.*
11. Still to be modelled: the icon menu with its time-out, pad slots and the timers
    of the USB wrapper, the timer interrupt, ATAPI requests, Linux from CD; the
    composition of the CD session with the heap (leaks of `BootIso9660GetFile`).

Abstract specifications: `Reflash` (done). In the other modules the contract is
small enough to be a property: "a setting and its checksum change together"
(`FaultlessIsConsistent`), "a valid bank is started if there is one"
(`FirstGoodBankStarts`, `ComesUp`), "the files that the configuration names"
(`StartsConfigured`, against reference definitions of chain and directory).

## 3. Modules

### Reflash

The contract of `BootReflashAndReset`: it refuses before it has touched the flash
and returns, or it never returns and reboots only when the image is complete;
power loss keeps whatever was there. `FlashSession` is built on it, `BootFlash`
implements it.

### BootFlash

`BootReflashAndReset` and the three functions of `BootFlash.c`. One step is one
turn of a C loop: `EraseSkip`/`ProgramSkip` for a byte that needs no work,
`Erase28`, `Erase29Block`, `Erase29Ignored`, `Program28`, `Program29` for the
commands of one try and the wait for them, `EraseGiveUp`/`ProgramGiveUp` when the tries
are used up, `EraseDone`/`ProgramDone` for the return. `dw`, `last` and `tries` are
the locals of whichever function runs; `dwLen` is `End - dw` and `dwSrc` is
`dw - StartOffset`. The callback of the UI always returns true, so the "Aborted"
returns are unreachable and absent.

The chip is external. It is modelled by what the code can observe: the command
set it answers, whether its identity is in the table, its lock, its length and its
content. A byte is the set of its 1 bits: erasing fills it, programming only
removes. A chip that is not `healthy` obeys any part of a command, may report an
error, and may recover at any time (`Heal`). It may also stay `busy`: all waits of
the code but the one after a 28xxx program command have no limit (`Wait`), so the
processor then stands still until `ChipReady`. A chip that ends its command at once
lets the loop go on in the same step. `orig` and `sent` are history variables; `sent`
counts commands, of which a try sends one on a 28xxx chip and up to three on a 29xxx
chip (0x50, then 0x30, then the chip erase 0x10).

Correct means: `RebootsOnlyComplete` (whatever the chip did), `OutsideUntouched`
(no sector without a byte of the region changes), `EraseWearBounded` (in one pass a
4K block is sent at most four erase commands on a 28xxx chip, eight on a 29xxx one,
nine if the whole chip is reflashed), `ProgrammingCanSucceed` (the program loop never
meets a byte only an erase could repair), `ProgramEstablishesImage`, `PassEnds` (a
pass ends if the chip does not stay busy for ever, and the 28xxx program loop in any
case), `RebootsOnceChipWorks` (failed passes do no lasting harm) and
`ImplementsReflash`.

### BootHeap

`malloc` and `free` over the cluster table. Each call is one step since it runs with
interrupts off. A table entry holds the mark `t_malloc` writes; `live` is the set of
blocks handed out, `leaked` the clusters of freed blocks that `t_free` failed to
clear. The table is longer than the arena, as in the code (16384 zeroed bytes for
1024 clusters), so that runs past the arena are part of the model. The sum that
`malloc` rounds is taken in a word of `WordSize`: a request near its end wraps, and
its caller gets a block of one cluster.

Correct means: areas are disjoint whatever the sequence of calls
(`AreasDisjoint`; the bytes asked for by a request that wraps are excepted, the
block it is given is not), freeing one block leaves the marks of the others alone
(`MarksIntact`), every taken cluster belongs to a block or a leak
(`ClustersAccounted`), and `free` releases the block (`FreeReleases`), with two
exceptions that the property spells out because the code has them: a block of
exactly five clusters, and one that ends two or more clusters past the arena.

### WebServer

The callbacks of `webserver.c` as actions per connection; the stack is the environment
that may deliver any event at any time, and when all PCBs are in use gives the PCB of
another connection to a new one (`KillPrio`, `Victim`, `SynKills`). A request is a
sequence of pieces (first line, `Content-Length`, other lines, empty line, pieces of
the body); what `handle_post` can find in a body is its shape. A local that the code
reads without having set it is a nondeterministic choice (`Parses`). `BodyAssumption`
says which clients are modelled: those that send no more of a body than they
announced. `order` is `tcp_active_pcbs`, in which `tcp_input` moves the connection
heard of to the front. `FlashReturns` stands for a refused reflash.

Correct means: a callback that uses the state is registered exactly while the
state exists (`StateIffReceiving`), buffers are owned (`BuffersOwned`), what is
flashed has the bank's size and was received to the end (`FlashFitsBank`), the
buffer an accepted image lies in is allocated until the image has been flashed, and
an image lost with its connection is flashed by nobody (`ImageStaysAllocated`), and
an answered connection is released (`AnsweredIsReleased`).

### FlashSession

The loop of `BootLoadFlashCD` and of `BootLoadUpdateFlash`, which differ only in the
file name and in where the size comes from, followed by the menu action that
restarts the console. The flash is the abstract `Reflash`. Discs differ in the size
of the file and in whether `read_file` may read its length from a stray address.
`io` is the call of `BootIso9660GetFile` (`GetFile`, `Return`). The user may change the
disc in the middle of it, and then the result is of either disc (`Mixed`).
`BootIdeReadSector` waits without limit for a drive that stays busy or does not
deliver its data: `DriveStalls`, and perhaps `DriveAnswers`.

Correct means: `StartsOldOrNew`, `FlashesOneDisc` and `FileIsDecided`: a found file is
decided on, if the drive answers in the end. Nothing but the drive can hold the
session up; the drive can.

### Loader

`BootStartBiosLoader` and `BootPerformPicChallengeResponseAction`. `CheckSelf` is the
hash over the loader's own copy; `TransferCompletes` and `TransferFails` are the four
reads and two writes of the challenge, each with `nRetriesToLive`; a challenge that
runs out of retries, whatever it returns, leads to the same search. `LoadMatches`,
`LoadDiffers` and `NoImage` are the turns of the loop over `loadretry`, with
`BankOf` and `ToNext` for the changes of bank at its fixed numbers. `config` is what
is left at `0x03A00020` for the image. `PicResets` is external: an unanswered PIC
resets the console once the challenge is behind it.

Correct means: `FirstGoodBankStarts` (each bank that may hold an image has its
share of the tries, in order; what runs is what was reported) and `ComesUp` (a
console with a good image runs it in the end, although the loader ignores a
failed challenge: it is the PIC's reset that tries again).

### SmBus

`WriteToSMBus` and `ReadfromSMBus` register by register (`Spin`, `OutAddress`,
`OutRegister`, `OutData`, `InStatus`, `ClearStatus`, `Start`, then `WriteReturns`,
`ReadDone`/`Fetch`, `Retry`, `GiveUp`). On top of them are the read of the EEPROM at
start, `SetVideoStandard`, `SetWidescreen` and the power commands; `EepromCRC` is the
checksum on bytes. `Interrupt` is `IntHandlerCSmc`, a step because it runs with
interrupts off; it may come between any two register accesses and leaves its own
address, data and status behind. Controller and devices are external: `Complete`
performs whatever the registers held at the start.

Correct means: `FaultlessIsConsistent` (without faults, settings and checksums agree
at rest), `DamageIsDetected` (one lost or misread byte, or power lost in the middle,
leaves no unknown video standard that the checksum calls valid; see below),
`EepromOnlyIntended` (an EEPROM byte changes only while the main program is writing
that very byte, or right after it, although a start may send a mixture of two
users' registers: the address register is written first, so a mixture goes to the
PIC) and `TransfersEnd`.

`faults` counts the operations that return without the byte in the EEPROM
(`Written`), the bytes read that are not those of the EEPROM, and power lost in an
update. It does happen in the code: an interrupt between the clearing of the status
and the poll lets an operation return before it has taken effect, and after an error
of the handler a retry may write a wrong value. That value may be what the PIC
answered to a read of the handler, and of the PIC's registers the code assumes
nothing: `Answers` takes them from `PicBytes`.

`DamageIsDetected` is about the first three bytes of the standard. `EepromCRC` turns
its data by one byte and keeps the upper half of each sum, so that the last byte of a
section is only ever the lower half of a word: a wrong value there changes the sum
only through a borrow, and may change nothing. Once the PIC may answer other values
than 0, the property is false for the fourth byte, which is 0 in every standard.

### HddLock

From a button to the platter. `xpad_irq`, `usb_kbd_irq` and `xremote_irq` are the
report handlers; `risefall_xpad_BUTTON` is the edge detection with its two thresholds.
The handlers interrupt it, so it is as many steps as it accesses what they change:
`rf` says where it is. It tests the keyboard's key (`KbdMatch`), the remote's repeat
flag (`FlagClear`) and its key (`IrMatch`), and clears what it matched (`ClearKey`,
and the step in which it returns); `PadTurn` is the section of the pad. `TextMenu`
asks for one button per step, in the order of its chain, on a stack of menus;
`Confirm` keeps its result in a global. `IssueAtaCommand`, `WriteMaster`, `WriteUser`
and `Identify` are the phases of `DriveSecurityChange`, sent to a disk (external) that
may fail any of them; power may fail between them.

Correct means: `OnePressOneAction` (a press acts once; a repeated packet of the remote
counts as a press where `FlagUnseen`: if it comes after the test of the flag and
before that of the key, or between the two assignments that clear them, the code
acts on it), `SecurityNeedsYes` (B in a later confirmation
returns the answer to an earlier one; no path makes that matter) and
`LockedHasMaster`.

### Dhcp

`run_lwip` over `dhcp.c`. The client is one record; each function of `dhcp.c` is an
operator from record to record, so that calls nest as in the code (`Timeout`
releases and discovers). `RecvAck`, `RecvNak` and `RecvOffer` are the branches of
`dhcp_recv`; `FineTick`, `CoarseTick` and `Fallback` are the turns of the loop. Timers
are unsigned and wrap.

Correct means: `BoundHasAddress`, `LeaseNotOverrun`, `FallbackSparesLease` and
`KeepsAsking`: an offer that is dropped has already stopped the request timer, so
the client asks again only because the timer at 0 wraps round, in the code after
65536 half seconds, or nine hours.

### Fatx

`LoadConfigFatX`, `LoadKernelFatX` and `BootMenuEntry` over `BootFATX.c`, one cluster
per step. A sector is a token, so `StartsConfigured` can compare what is in memory
with the file on the disk, sector by sector. A failed read keeps what the buffer
held, or what an earlier call left on the stack; a read of which the drive accepted
the command and does not deliver the data never returns (`DriveHangs`). `table` is the
chain table on the disk, `clusterChainMap` the copy that each opening reads into
fresh memory: if it is not read to its end the rest is what the heap held
(`ReadTable`, `Junk`). Memory is as `memory_layout.h` has it: the kernel has
`KernelRoom` before `INITRD_START`, and what is loaded there has `InitrdRoom` before
the heap. `LoadKernelFatX` compares no size with either, so a RAM disk overwrites the
end of a larger kernel (`Overwritten`), and a larger file runs over the heap
(`FitsMemory`; the model stops there). `stage` and `wanted` say where the program is
and which file it is after.

Correct means: `StartsConfigured`, stated against `ChainAt`, `EntriesAt`, `Trails` and
`Content`, which define chain, directory, path and file of a `Volume` without the
code's loops: the complete RAM disk and the complete kernel, or with a RAM disk as
much of the kernel as fits before it. And `LoadEnds`: unless the drive hangs, the
loading ends as long as no chain that is followed is a circle.

## 4. Runs

| Run | Shows | Bounds |
|---|---|---|
| `BootFlash_safety` | safety and refinement of the engine | region of 3 bytes, chips of 2, 3 and 5 bytes (too small, exact, larger), 4K block and sector of 2, one bit per byte: region and sector do not line up, two blocks, a neighbouring sector |
| `BootFlash_liveness` | passes end, retries succeed | 3 bytes, chips of 2 and 3 bytes, block 2, sector 1: two sectors share a retry counter, two blocks, the chip erase; a chip in trouble stays busy at any command |
| `BootHeap_safety` | the allocator's properties | arena of 9 clusters, table of 17, requests that need 1, 4, 5, 6 and 7 clusters, one that wraps a word of 128 and one too large: several blocks of each kind fit, and each kind can run past the arena |
| `BootHeap_null` | violated: `malloc` without memory returns NULL | same |
| `WebServer_safety` | safety of the server | 2 PCBs as in `lwipopts.h`, 3 connections so that one is taken over, 5 requests, body of 2 pieces, send buffer smaller than a page |
| `WebServer_liveness` | answered connections are released | 2 PCBs, 3 connections, a page and an upload |
| `FlashSession` | the session | 4 discs (256K, 512K, other size, without the file), changed at any moment, 3 probes instead of 16, a drive that stalls once in each call |
| `Loader` | the search over banks | the code's own 25 tries per bank and 100 in all, any mixture of good, bad and flaky banks, 2 retries instead of 400, 3 failed transfers: a challenge can fail once or be retried |
| `SmBus` | bus, settings, interrupts, power loss | sections of 8 and 3 bytes; one interrupt, one bus error, one update and one power loss in every position, 2 tries instead of 50, reasons that end the handler with a read, a write, or either; the PIC answers 2, which is also a byte of a standard |
| `HddLock` | buttons to ATA commands | one drive; A on the pad, UP and DOWN on the keyboard, BACK on the remote; 7 presses (enough to answer Yes, see a failure, and come to a second confirmation), one disk error, one power loss |
| `Dhcp` | client and fallback | two addresses, options given or not, waits of 1 to 3 ticks, timers that wrap at 5, tries at 4, 1 retry before release and 2 while rebinding: every limit and every wrap is met |
| `Fatx` | the way to Linux | every chain table over 4 clusters of 2 sectors, with links behind the partition; configuration in the root or a subdirectory, kernels and RAM disks that fit their areas of 2 and 3 sectors and such that do not; one failed read, of a cluster or of the table, whose place then holds a table with ends and a circle |

The violated property states what the repository says of `malloc`; `findings` in
`PROJECT.json` quotes the line. `CHECK_DEADLOCK FALSE` is used where the system may
really stop: a power loss, a halt, a restart, a started Linux, or no further
connection. `BootHeap`, `HddLock` and `Dhcp` check deadlock.

Bounds in guards that the code does not have are constants named `Max...`, the
number of events of the environment: `MaxConnects`, `MaxIrqs`, `MaxErrors`,
`MaxUpdates`, `MaxLosses`, `MaxReplies`, `MaxPresses`, `MaxFaults`. PCBs are
interchangeable, so `WebServer_safety` uses symmetry; no liveness run does.

### Where code and comments disagree

Seen while modelling, and modelled as the code has it:

* `BootFlash.c:392`: the program loop returns without its `*_END` callback, which
  `BootFlash.h:16` announces for every `*_START`.
* `BootLibrary.c:291`: a block may end behind the arena that `memory_layout.h:23`
  ends with `MEMORYMANAGEREND`.
* `webserver.c:258`: `start` and `end` are tested without having been set when a
  marker is missing, so the messages at 290 and 302 need not appear.
* `LoadLinux.c:484`: the result -1 is kept in an unsigned variable, so the message
  at 485 does not appear for a missing file.
* `2bBootStartBios.c`: `cromloadtry`, the try counter handed to the image, is always
  1.
* `HddMenuActions.c`: "This drive is now unlocked." is shown after a failure, too.
* `risefall.c:54` says of the packets of a key held on the remote "we ignore the
  multiple events this generates"; two windows for the interrupt let one through
  (`FlagUnseen`).
* `LoadLinux.c:264`: `LoadKernelFatX` does not use `MAX_KERNEL_SIZE`, which the loaders
  for CD and native partitions do (180, 383).
* `BootLibrary.c:390`: `malloc` of nearly 4 GB wraps and succeeds with one cluster.
* `MenuActions.c:144`: Linux is started whatever `LoadKernelFatX` returned.
* `DrawChildTextMenu` calls `TextMenu` without its second argument.
* `BootEEPROM.h:54` calls `Checksum2` the sum of the next 44 bytes; `BootEEPROM.c:124`
  sums 40, from the serial number to the video standard.

### Fairness

* `BootFlash`: weak fairness of `Step` (the processor keeps running), of
  `healthy /\ ChipReady` (a chip that works completes its command) and of `PressA` (a
  user who is asked to press A does so eventually). None for `Heal` or `PowerLoss`,
  and none for a chip in trouble, which may stay busy for ever: where that matters
  `PassEnds` has `[]<>~busy` as its condition.
* `WebServer`: weak fairness of `Poll(c)` only, nothing of the peer. `run_lwip`
  calls `tcp_tmr` whenever a poll of the card finds no packet after the deadline;
  the deadline is kept over packets, so one quiet moment is enough. Under traffic
  without a gap the timers do not run, and the property is not claimed.
* `FlashSession`: weak fairness of `Step` and of `PressA`. The user may change the
  disc without limit. None for `DriveAnswers`: `FileIsDecided` names it as its
  condition, `[]<>(io # "again")`.
* `Loader`: weak fairness of `Step` (a single program) and of `PicResets` (a timer in
  the PIC). Flaky banks may fail for ever; `ComesUp` asks for a good one.
* `SmBus`: weak fairness of `MainStep` and of the controller, which ends every
  transfer with success or an error. None for interrupts.
* `Dhcp`: weak fairness of `Tick`, the same quiet moment as for `WebServer`. None for
  replies.
* `Fatx`: weak fairness of `FatxNext`, the program alone. A drive that hangs is an
  outcome of its own (`stuck`).
* `HddLock` states safety only.

## 5. Proofs

All theorems hold for every value of the constants that satisfies the named
assumptions of the module, which TLC evaluates in every run. Most only give the
constants their types (`LayoutAssumption`, `HeapAssumption`, `SessionAssumption`,
`LoaderAssumption`, `WebAssumption`, `BusAssumption`, `InputAssumption`,
`DhcpAssumption`, `ImageAssumption`, `PathAssumption`). These say more:

* `BodyAssumption` (`WebServer`): a client sends no more of a body than it announced.
  Others are outside the model (section 6).
* `DrivesAssumption` (`HddLock`): the drives are 0 and 1, the two of the menu.
* `AddressAssumption` (`Dhcp`): no server offers the fixed address or 0.0.0.0; only
  then do the properties tell the fixed address from a leased one.
* `BusAssumption`, `SizeAssumption`, `SettingsAssumption` (`SmBus`): the serial number's
  section is made of whole words of four bytes, the shortened EEPROM has at most 256
  bytes, and it leaves the factory with one of the three standards.

Each proof follows one plan: an inductive invariant, a lemma per action, and the
properties as consequences. Each invariant was model-checked before it was proved.

**BootFlashProofs.** `RebootsOnlyComplete` is not inductive: it depends on the
verdict of the program loop. The invariant `IInv` adds `Fits` (once committed, the
region is inside the chip), `LoopInv` (bytes below `dw` are erased, in the erase
loop, or equal to the image, in the program loop, and those above still have
every bit they need) and `WearInv` (what the current block was sent is no more than
the tries already used can cost, `Cost`; blocks ahead were sent none). From it:
`TypeCorrect`, `ProgramCorrect`, `RebootSafe`, `ProgrammingPossible`,
`Confinement`, `WearBound` and `Refinement`, the step simulation of `Reflash`.

**BootHeapProofs.** `HInv` adds to the type that blocks have the clusters their
rounded request needs (`Sized`), separate from each other and from the leaks, and that
marks are what `t_malloc` wrote. The core is what `t_free` clears: on an intact
block the scan stops at the block's own end, so it clears nothing else
(`ClearsOnlyTheBlock`) and, but for the two exceptions, all of it
(`ClearsTheBlock`). From it: `HeapTypeCorrect`, `HeapMarksIntact`,
`HeapAccounting`, `HeapDisjoint`, `HeapReleases`.

**LoadLinuxProofs**, both tasks of `boot/LoadLinux.c`.

*Flashing from a CD.* `SInv` carries the contract of `Reflash` through the
session: a refused flash is intact, a rebooting one complete, and the image in
memory is of the disc whose size was checked. From it: `SessionStarts`,
`SessionFlashesOneDisc`.

*Linux from FATX.* The property compares memory with the disk only at the end, and
the program forgets on the way which directories it came through. `FatxInv` says
that they exist, as long as no read failed. `Searches`: the names already taken off
the path lead along a trail of directories to the one being searched, the cluster
at hand is on its chain, and none of the clusters before it held an entry at which
the search ends, so that an entry found now counts as an entry of that directory.
A chain with a circle brings the search back to clusters it has seen; `Walked`
therefore keeps the position where the cluster was met first, and that there are
no more of those than clusters is the pigeonhole principle (`WalkBound`).
`Copies`: what is in the buffer is what the first `k` clusters of a file hold, and
`fileSize` what remains; at the end marker with nothing remaining it is the whole
file, and the chain was long enough for it (`NextPart`, `CopyEnds`). The chain is a
recursive function; that it exists is proved by a least counterexample
(`ChainExists`, `ChainFacts`), after which no induction is needed. From it:
`FatxStartsConfigured`, with no bound on clusters, their size, the depth of paths,
the sizes of the memory areas or the damage to the table.

**LoaderProofs.** The loop has one counter and derives the bank from it, at four
fixed numbers; the property speaks of the tries each bank had. `LInv` adds what
relates the two: after `loadretry` tries the i-th bank of the order has been read
`Turns(i, loadretry)` times and the one whose turn it was is `flashbank`
(`FourBanks`, `OneBank`), and no bank that was read without success is a good one
(`SearchInv`). The arithmetic is division by the tries per bank (`Divided`). From
it: `LoaderStartsFirstGood`.

**WebServerProofs.** `WInv` speaks of each connection. `CallbackInv` ties state,
callbacks and TCP state together; `StateIffReceiving` alone says nothing of a
connection that is closing. `RequestInv` says what a client has still to send is
the rest of a request the server has taken note of, so that the body fits the
buffer; `ImageInv` says an accepted image came with the last piece of the body, and
so nothing that still arrives changes it; `FlashInv` finds the connection what is
flashed belongs to. The callbacks touch several connections only through a PCB that
is taken over. From it: `WebTypeCorrect`, `WebStateIffReceiving`, `WebBuffersOwned`,
`WebFlashFitsBank`, `WebImageStaysAllocated`.

**HddLockProofs.** `OnePressOneAction` counts what the user did against what the
program took from three devices with different memories. `PressInv` gives each device
at most one press outstanding and bounds their sum by the presses nobody used; a key
that was matched and not yet cleared has none left, whatever the interrupts put in its
place (`KbdWaits`, `IrWaits`). `SecurityNeedsYes` needs `AnswerInv`: where a password
can be computed, a Yes ends in the restart of the console, so an old answer still in
the global is No. `PhaseInv` keeps the order of the two passwords across errors, and
`MenuInv` the nesting of the menus. From it: `HddOnePressOneAction`,
`HddSecurityNeedsYes`, `HddLockedHasMaster`.

**DhcpProofs.** An ACK is bound with the address of the offer, which is not read
again. `DInv` carries it (`AddressInv`) from the offer through every state in which an
ACK is taken. `LeaseInv` says that timer and age of a bound lease add up to the time
granted, so that the timer, which wraps, leaves the state at 1 and never at 0;
`EarlyInv` says why the fallback of the first minute finds either no address or a
bound client. From it: `DhcpTypeCorrect`, `DhcpBoundHasAddress`,
`DhcpLeaseNotOverrun`, `DhcpFallbackSparesLease`.

**SmBusProofs.** `EepromOnlyIntended` is about registers two users write without a
lock. `HwInv` gives the reason it holds: an interrupt replaces the address together
with the rest, so registers that address the EEPROM are main's own; `FlightInv` says
so of a transfer under way, which may outlast the operation that started it, and
`TodoInv` that all that is pending is one task. `FaultlessIsConsistent` holds only at
rest; `SettingsInv` says what holds in between: there is a consistent content that
the pending writes lead to and that the copy in RAM already shows. That
`SetVideoStandard` and `SetWidescreen` begin such a task is the part that needs the
layout of the sections and that a checksum depends on its own section only
(`SumOfSection`, `PatchedSum`, `StandardArrives`, `WidescreenArrives`); that a sum is a
byte (`CRCByteType`) needs the loop as a recursive function, whose existence is
proved by a least counterexample (`LoopExists`). From it: `BusTypeCorrect`,
`BusFaultlessConsistent`, `BusEepromOnlyIntended`.

`DamageIsDetected` needs an invariant of its own, `DInv`, for everything that may
happen after one fault. Its first part is arithmetic: two sections that differ in
the upper half of one word only, among the words a sum takes, have different sums
(`LoopDiffers`, `UpperHalf`, `CRCTells`), so a serial number, a checksum and the rest of
the section leave a single value for each of the first three bytes of the standard
(`ByteTold`, `SumTells`). Its second part follows the eight writes of
`SetVideoStandard`: `TaskInv` says that what is pending is a suffix of them;
`MidwayInv` that, within them, all that was sent is in the EEPROM but for the one
byte `x` the fault was at, that the serial number in RAM is right if `x` is of the
standard, and that before the first fault the old standard still fits the old
checksum (`OldSum`), which is what a loss of power leaves to compare with; `RestInv`
that outside of them the content is safe, and that a transfer still under way
(`Late`), which an operation that returned too early left behind, can no longer
change that. From it: `BusDamageDetected`, for every serial number, layout and
answer of the PIC.

Only model-checked are the liveness properties (`PassEnds`, `RebootsOnceChipWorks`,
`AnsweredIsReleased`, `FileIsDecided`, `ComesUp`, `TransfersEnd`, `KeepsAsking`,
`LoadEnds`): they need fairness and are out of the prover's reach.

The type invariant of `FlashSession` is a conjunct of `SInv` and so part of
`SessionInvariance`.

## 6. Not modelled

* Bit-level command sequences, the toggle bit and the ID probe: what a wait sees is
  that the chip is busy or not.
* The progress bar, messages and colours.
* In `BootHeap`: a caller that frees what a failed `malloc` returned, which
  indexes far outside the table, and interrupts beyond the flag `iflag`.
* In `WebServer`: clients that send more than they announced, lines longer than
  the buffer, header parsing; segments, windows and retransmission of TCP.
* In `FlashSession`: the directory walk, memory overwritten by a stray length, and
  the descriptors that `BootIso9660GetFile` leaks each time it finds the file.
* In `Loader`: set-up of bus, memory and caches; SHA-1 and the unpacking, which
  either yield the image or do not.
* In `SmBus`: words and double words, which use the same path, the EEPROM's other
  fields, and the temperature and fan registers.
* In `HddLock`: the computation of the password, a second pad (all pads post to one
  slot), the scroll window of the text menu and the other menus.
* In `Dhcp`: options on the wire, transaction ids (a reply to an older request is
  ignored), the ARP check, which is not compiled in, and the 32-bit wrap of a lease
  time plus 30 seconds, which only makes the client ask earlier.
* In `Fatx`: the parser of `linuxboot.cfg`, 16 and 32 bit chain entries, what happens
  after a file ran over the heap.
* Third-party code: USB core and host driver, TCP segments and windows, PPP,
  Etherboot, GRUB file systems, gzip, JPEG, SHA-1, RC4. By far most of the lines
  of the repository are of this kind, or headers with register names, fonts and
  pictures: they are not this program's own logic, and so the share of the
  repository that is modelled stays small.
* The other components listed as `not_modelled` or `partly` in `PROJECT.json`, with
  the plan above.
