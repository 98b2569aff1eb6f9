# VexOS in TLA+

VexOS (`src/`) is a 64-bit kernel that a UEFI loader starts: it sets up paging
and a heap, enumerates USB keyboards and mice behind an xHCI controller, and
runs a small desktop whose main loop polls the hardware. It can start ring-3
tasks under a timer, and it keeps files on an ATA disk in a format of its own.
This directory holds TLA+ models of the parts with state worth checking, TLC
configurations for them, and TLAPS proofs of the safety properties the
configurations check.

Paths below are relative to `src/src/kernel/` unless they start with `src/`.

## 1. The system

| Component | State | Operations | What makes it hard | What makes it correct |
|---|---|---|---|---|
| Storage (`core/simplefs.c`, `drivers/ata_pio.c`) | superblock and directory, in memory and on disk; a FAT32 volume read in place; which of two drives is in use | choose a drive, mount, format, save, read | power failure and device errors between any two sector transfers; a directory of eight sectors written one by one; memory ahead of the disk; cluster chains that are scattered or damaged; a drive that does not identify itself once and is replaced by the other, the boot disk | files no save is being made of are never damaged; acknowledged saves survive; what a read returns is the file |
| Tasks (`tasking/task.c`, `cpu/idt.c`, `core/syscall.c`, `core/usermode.c`) | task table, saved frames, TSS.rsp0 | IRQ0, Task_Create, Task_Exit, system calls | the timer at every instruction of code that takes no lock | each task gets its own context back; everybody gets a turn |
| Heap (`mem/heap.c`) | node list inside the heap | Heap_Init, kmalloc, kfree | a structure shared with what it hands out; two walks that change it | blocks do not overlap; neighbours are merged; calls return |
| TRB rings (`drivers/usb/xhci/xhci.c`, `xhci_hid.c`) | ring, enqueue index, cycle bit; the controller's copy of both | push | two sides that agree by one bit per TRB, lap after lap | executed once each, in order, none lost |
| PCI scan and controller start (`drivers/pci.c`, `xhci.c` 1012-1177) | position of the scan, the one set of ring variables, registers of each controller | probe a function, take over, halt, reset, give memory, run | devices that answer for several functions, 64-bit addresses, firmware that owns and runs the controller, waits without a limit | each controller is started once, in order, on memory of its own; the scan ends |
| USB enumeration and polling (`xhci.c`, `xhci_hid.c`, `xhci_events.c`) | `g_devs`, the rings, the one event ring | commands, configuration descriptors, control transfers, waits, polling | late answers, time-outs, waits that read and drop the events of others; devices of several interfaces | boot ends; a polled device always has one transfer in flight |
| Port power and reset (`xhci.c`) | PORTSC of each port | reset and retry | a register that changes on its own, with write-1-to-clear bits | every connected port is made ready or given up |
| Pages (`mem/pmm.c`, `mem/vmm.c`, boot in `core/main.c`, `core/usermode.c`) | page bitmap, page tables | allocate, map, activate | the bitmap lies in the memory it describes, a mapping takes pages for its tables, a table can be written only where it is mapped; the heap wants contiguous pages | a page has one use; the kernel touches only what is mapped; ring 3 reaches its own pages only |
| HID reports (`xhci_hid.c` 1-207, `xhci_events.c` 133-290) | where the fields of a device's report are | parse a report descriptor, decode a report | a language of items with global and local state; bit fields across bytes, signs, several reports on one endpoint | the pointer is where the user moved it |
| Input (`core/input.c`, reports in `xhci_events.c`) | keyboard queue, last report, buttons, position of the pointer | report, push, pop, move, place | fills up when the desktop is slow; a key is what the last report did not have | keys arrive in order, and once |
| Desktop (`core/desktop.c`) | flags of the windows, focus, drags, texts, steps of the two wizards | the full-screen wizard, then one tick per frame | several flags per window, set and cleared in many places; one press acts on every window under the pointer | no window is dragged that is not shown; a shell that is shown listens; texts keep their terminator |
| RAM files (`core/ramfs.c`) | one copy per name | put (`ramfs_get` has no caller) | a replaced copy is not given back | the copy is a block of its own |
| PNG decoder (`core/png.c`) | none, but it takes memory as it goes | chunks, stored deflate blocks, filters, pixels | filters that refer to the row above, a stream cut anywhere, memory that runs out at each request | the picture of the file, or none |
| GDT/IDT, console, hardware profile, UEFI loader, scripts | set once | run once | order of set-up | |

`drivers/ahci.c` and `core/setup_wizard.c`, with its fake disk, are dead code:
nothing calls `ahci_init` or `setup_wizard_run`. The wizards the user sees are
in `core/desktop.c`.

Interactions. The main loop (`core/main.c` 320-365) calls the USB poll, which
feeds the input layer, then the desktop tick, which calls storage, the heap and
`launch_ring3_task`. Storage, USB and the desktop run on that loop only: they
are sequential, and what is concurrent with them is the hardware. Tasks are the
one part where kernel code is preempted. The heap takes its pages from PMM at
boot, drivers take theirs after it, and ring-3 tasks when they start; at run
time nothing gives a page back (`PMM_FreePage` has no caller).

## 2. Modules

| Module | Models | Relation |
|---|---|---|
| `FileStore` | what storage promises: a map from names to saves, where a name is in doubt while it is being saved | abstract |
| `Fat32` | what is on a FAT32 volume, which files it holds, and the scan of a directory sector | used by `SimpleFS` |
| `SimpleFS` | `simplefs.c` over `ata_pio.c`, as the desktop calls it | implements `FileStore`, once on each drive |
| `SimpleFS_proofs` | proofs | extends `SimpleFS` |
| `MCSimpleFS` | three FAT32 volumes, and what is on slave and master | instance of `SimpleFS` |
| `Processes` | programs that run as if alone | abstract |
| `Tasks` | task table, timer interrupt, system calls, main loop, ring-3 task | implements `Processes` |
| `Tasks_proofs` | proofs | extends `Tasks` |
| `Allocator` | disjoint blocks | abstract |
| `Heap` | `heap.c`, one step per turn of its loops | implements `Allocator` |
| `Png` | `png.c`: a file to a picture, and the memory asked for on the way; what the standard says a file holds | pure |
| `KernelHeap` | those who call `kmalloc` and `kfree`: wizard, desktop, ring-3 task, the command `wall` with `ramfs.c` | extends `Heap` and `Png` |
| `Heap_proofs` | proofs about both heaps, and about the PNG decoder | extends `KernelHeap` |
| `MCKernelHeap` | six files, made by an encoder that follows the PNG standard | instance of `KernelHeap` |
| `TrbQueue` | a queue of numbered requests | abstract |
| `TrbRing` | a TRB ring between driver and controller | implements `TrbQueue` |
| `HidReport` | the report descriptor parser, report decoding | pure |
| `PointerPath` | an interrupt ring with its device, `intr_buf`, `xhci_poll_events` for pointing devices, the pointer of `input.c` | extends `TrbRing` and `HidReport` |
| `TrbRing_proofs` | proofs about the ring, alone and with a device, and of what arrives of the user's movements | extends `PointerPath` |
| `MCPointerPath` | four devices with real descriptors | instance of `PointerPath` |
| `Pages` | `pmm.c`, `vmm.c`, boot up to the heap, drivers and the ring-3 task as takers of pages | below `Heap` and `Tasks`, which count pages |
| `Controllers` | `pci_enumerate`, and `xhci_init` up to the ports | extends `Pages` |
| `Controllers_proofs` | proofs about pages and controllers | extends `Controllers` |
| `MCControllers` | three machines | instance of `Controllers` |
| `PortReset` | one root port while the driver makes it ready | before `XhciHid`, which starts with ports that are ready |
| `PortReset_proofs` | proofs | extends `PortReset` |
| `KeyQueue` | a bounded queue of characters | abstract |
| `Desktop` | keyboard reports, `input.c`, the wizard, `desktop_tick` | its queue implements `KeyQueue`; its calls into storage and tasks are in `SimpleFS` and `Tasks` |
| `Desktop_proofs` | proofs | extends `Desktop` |
| `ConfigDescriptor` | the walk over a configuration descriptor in `xhci_ep0_get_config_and_set_config` | used by `XhciHid` |
| `XhciHid` | enumeration and polling over rings that are reliable queues (`TrbRing` says for how long they are) | above `TrbRing` and `PortReset` |
| `XhciHid_proofs` | proofs | extends `XhciHid` |
| `MCXhciHid` | the configuration descriptors of two devices | instance of `XhciHid` |

`PROJECT.json` maps every definition to the lines it models. Definitions whose
comment begins "Seeded fault" are not part of a model: each is a variant of a
definition with a plausible bug, and replacing the definition by it makes TLC
find a property violated.

**SimpleFS.** `disk` is a function from sector numbers to tagged records; `sb`,
`table`, `kind` and `present` are the globals `g_sb`, `g_table`, `g_kind`,
`g_storage.present`. The channel has two drives. `drive` is `g_storage.is_slave`,
`disk` the disk of that drive and `away` that of the other; `attached` are the
drives the machine has. Every mount starts with `ProbeSlave`, and where the slave
does not identify itself, because there is none or because of a fault, goes on with
`ProbeMaster`, as `ata_pio_init` does: whatever is on the master is then mounted,
perhaps formatted, read and written (`Use`). `switched` is history: the drive has
changed and `g_table` is still that of the other disk. (What `drive` is after a power
failure is of no account, because the first call is a mount.)
A call in progress is a record with a program counter, and
each step is one sector transfer: `MountFat`, `LoadSuper`,
`LoadTable`, `FormatSuper`, `FormatTable` are `simplefs_init`; `SaveBegin`,
`WriteData`, `StoreTable`, `StoreSuper` are `simplefs_write_file`; `ReadBegin`
and `ReadData` are `simplefs_read_file` on an SFS disk. On a FAT32 disk `MountFat`
reads the boot sector, `ScanRoot` and `NextRoot` walk the root directory, `ReadFat`
and `NextCluster` the chain of a file, with the bounds the code puts on both walks.
A reader has a buffer of a fixed size (the viewer) or of the size of the file
(`CallWall`). A transfer succeeds, is refused, or
(a write) is lost while `ata_pio_write28` reports success, which it does because
it does not look at the status after the data. `PowerFailure` clears the memory
at any moment. Every call of the desktop except the double click in the explorer
mounts first. History variables record the last save that returned 1 and the
names about which the disk makes no promise.

**Tasks.** A context is a pair of a task and a program point. The timer saves it
on the stack the hardware would use, the scheduler stores that stack in
`tasks[current].rsp`, and a task is resumed from what lies on the stack at its
rsp. Handlers run with interrupts off (interrupt gates), so each is one step;
everything else is interrupted between its stores (`CreateFrame`,
`CreateActive`, `CreateCount`). The main loop and the ring-3 program are the
programs.

**Heap.** `nodes`, `size`, `next`, `free` are the headers; each step is one turn
of the loop of `kmalloc` or `kfree`. `blocks` is history.

**TrbRing.** `ring`, `index`, `cycle` are the driver's; `deq`, `ccs` the
controller's. The three push functions are the same code; `Push` is
`xhci_cmd_ring_push`.

**PointerPath.** A behaviour has no device, and is `TrbRing` as it stands, or
follows the interrupt ring of one device. `layout` is what
`xhci_hid_try_parse_mouse_report_desc` found, or nothing if the descriptor was not
read. `StartPolling` and `ReadReport` push; `DeviceReports` is the controller
executing the TRB with what the device sends, `buf` is `intr_buf`. `hand` is where
the user has really moved the pointer: the device writes its report from that
movement with its own description of the fields, not with what the parser found,
so that parser and decoder are checked against the device.

**KernelHeap.** A behaviour is that of any caller (`pc = "any"`), or of the kernel:
`Wizard` to `WizardEnds`, `DesktopInit` to `DesktopBg`, `Launch` and `Launched`,
then `wall` again and again (`WallRead` to `WallDrawn`). Every request goes through
the turns of `Heap`. What the decoder makes of a file, and what it asks for on the
way, is computed once by `Png`; the requests are made one by one, and each may fail.

**XhciHid.** `pc`, `step`, `port`, `slot` are the driver's place in the
enumeration, `devs` is `g_devs`, and the rest are queues: commands, the stages
of control transfers of each device, the armed interrupt transfers and the one
event ring. The controller answers at once (`eager`) or on its own time. Interface
and endpoint of a device are what `ConfigDescriptor` finds in the bytes of its
configuration, and are compared with those the device has.

**Pages.** Addresses are page numbers. `used` is the bitmap, `tables` the pages
of the tables by level and part of the address space, `leaf` the entries of the
page tables, `forUser` the tables whose parent entry has `PAGE_USER`. A step is
one call of `VMM_MapPage`, with the allocation it is for: it takes a page for
each missing level, from the root down, and is a page fault if a table it writes
is not mapped in the tables that are active. `pc` goes through `PMM_Init`,
`VMM_Init`, the mappings of boot, `VMM_Activate` and the loop that grows the
heap (`HeapReady`); after that drivers take pages one at a time (`TakePage`) and map
registers, until `usermode_launch` starts the ring-3 task. `Controllers` says which
pages drivers take, and has the specification. `Bitmap` are the pages `PMM_Init` writes
the bitmap to, `Reserved` those `main.c` reserves for it (line 138, which truncates):
for some sizes `Reserved` is one page short. `VMM_Init` then takes that page for the
root table, which is as far as the model goes (`overlap`). The other end states are
`over` (a return of `usermode_launch`), `ring3`, `fault`, `astray` (a table over page 0)
and the two FATAL stops of `main.c`.

**Controllers.** `at` is the position of the scan on the bus, `stage` the place
in `pci_enumerate` or `xhci_init`, `mmio` the controller the driver's variables
describe, `ctl` every controller as the hardware sees it. A step is one function
probed, one register access, one wait that ends or one page taken; in between the
controller halts, ends its reset and becomes ready, and firmware gives up ownership
(`FirmwareReleases`) or never does. What a controller runs on are the pages it was
given, and it keeps them when the driver turns to the next one.

**PortReset.** `port` is PORTSC, `ps` the driver's copy, and each access of the
register is a step (`Read`, `Write`); between any two the port may connect,
train, end a reset, lose power or be unplugged. `Write(v, ...)` says what a
write of an old value does: PR starts a reset, a 1 in PED disables the port on a
controller that follows the xHCI specification to the letter (`strict`) and does
nothing on one that does not, as QEMU's. `Poll`, `Power` and `Polled` are the
scan's power polls; `Begin` to `ForceU0Write` are `xhci_force_port_ready`.
`reset` is the part of the attempt: the warm reset of a SuperSpeed port is
followed by the cold one. A wait either sees the port ready or gives up; it gives
up early if the port would still have changed.

**Desktop.** `down` is what the user holds, `prev` is `kbd_prev_keys`, `at` the key of
a report that is looked at next, as a report is read key by key, `ring` the queue
with both indices, `left` the button in `g_ptr`, `held` the button in
`prev_buttons`. A window is in `open` when its own flag says so (`g_show_shell`,
`g_explorer_open`, `g_viewer_open`, `g_app_open[APP_NOTEPAD]`, `g_setup_open`);
`listens` is the second flag of the shell, `g_app_open[APP_SHELL]`. A frame is
`Frame`, one `TakeKey` per character, then a press goes through the menu, the dock
and the windows in the order of `desktop_tick`, and `FrameEnd`. There is no
geometry: a press may hit any part of each window that is shown, or miss it, which
is what windows on top of each other allow. A shell command is told apart by the
window it opens, and storage behind it succeeds or fails.

## 3. Runs

| Run | Shows | Bounds |
|---|---|---|
| `simplefs` | acknowledged files survive; no step damages a bystander (`ImplementsStore`); reads are whole, and on an intact FAT32 volume follow the chain | two names in two directory entries, so that one entry fits a sector and the table needs two of its three sectors; two saves of up to two sectors; one fault; one power failure; a disk of 8 sectors, so that a second save of two sectors runs off its end. Two names are a victim and a bystander, two saves are an overwrite, and one fault or failure at any transfer or probe meets every step of a save. Four machines: an SFS slave (the image of `run.sh`) beside a FAT32 boot disk with scattered clusters; a blank slave alone; a master alone, FAT32 with two sectors a cluster, or damaged (a circular root, a chain that ends early, a free cluster). In the first the fault may be the IDENTIFY of the slave: the boot disk is mounted, listed and read in the middle of a session, and a later mount goes back |
| `simplefs_fat` | **finding**: the FAT32 boot disk is mounted in the place of the storage image, and formatted | an SFS slave beside a FAT32 master; two faults, the IDENTIFY and a read (where the FAT32 disk is the preferred one, the read suffices) |
| `trbring` | in-order execution, a queue, two laps complete; the pointer is where the user moved it; a report is read before the device may write the next | 8 TRBs, 6 in flight, 26 pushes: more than three laps, so every combination of cycle bit and lap occurs. No device, or one of four: relative with 8-bit fields, absolute with 16, 12-bit fields behind a report id with a keyboard beside them, 16-bit fields before the buttons. Each moves by its extremes of either sign. A screen of 5 by 3, so that every movement reaches an edge |
| `trbring_laps` | **finding**: the controller stops at the Link TRB after two laps | as above |
| `tasks` | contexts, stacks, programs, turns | three entries, one more than are ever used: the main loop and the one ring-3 task the flag allows (it is cleared only when `kmalloc` fails, before a task exists); up to 12 pages, twice what a task needs; two ticks a frame |
| `heap` | tiling, merging, honest failure, disjoint blocks, termination; what the kernel holds are blocks; a picture is shown whole or not at all | 300 bytes with 2-byte headers. Any caller asks for 60, 63 or 64: up to four blocks, splits with and without slack, merges of three neighbours. The kernel has a framebuffer of 12 bytes and repeats `wall` until the heap is full, so that requests are refused at different points of the decoder. Six files: all five filters, both colour types, stream and chunks cut in different places; three that are damaged so that there is no picture (a bad block, an end too early, a header for a larger picture), and one with a wrong byte among those of the pixels, which is shown as it is |
| `xhcihid` | boot ends; one transfer in flight; input arrives; the event ring has room; answers are of their commands | two ports with and without boot subclass and resize, a keyboard, and a mouse of two interfaces with several endpoints; one error or one early time-out; the controller at most one stage behind when the next transfer is pushed; an event ring with room for 29 events, 14 of each device and one for the early time-out: the 255 of the code are enough for 18 devices |
| `xhcihid_dropped` | **finding**: a device armed early goes mute | no trouble at all |
| `xhcihid_setconfig` | **finding**: the driver goes on before the device is configured | no trouble at all |
| `pages` | one use per page, except that a bitmap page `main.c` fails to reserve becomes the root table, at exactly the sizes where its count is short; faults only beyond the window; the heap in one piece; what ring 3 reaches; each controller started once on memory of its own; the scan ends | 28 sizes of the region, from 1 page to beyond the window of 44, most of them around the sizes at which memory runs out in boot, in a driver and in the launch; a page of bitmap describes 16 pages, and 17, 33 and 49 are the sizes for which one is missing from the reservation; the identity map of low memory reaches three pages into the region; tables of 4 entries, so that user and kernel mappings share tables on two levels; a heap of 3 pages; two slots of two functions; three machines: a card that answers for all functions, two controllers of which one lies above 4 GiB, a chipset that hides function 0; none or two scratchpads |
| `portreset` | the verdict is right; a usable port is not reset; the scan ends | no, a USB 2 or a USB 3 device; both kinds of controller; the 4 attempts of the code; two faults and two early waits, so that a fault meets every step and one more its handling |
| `desktop` | keys in order and once; flags of the windows; texts; steps of the wizards | four presses (a full queue, a lap of the ring, open-press-drag-close sequences); 3 cells, 2 keys a report and 2 a frame, so that both limits are reached; texts of one character; wizards of two steps |

Sizes differ widely: `simplefs`, `xhcihid` and `heap` have about a million states
each and take one to three minutes, `desktop` has more but is done in less than one,
as is `pages`, the other runs take seconds.

Deadlock is not checked where the system may stop: an exception halts the
machine (`tasks`), the bounded number of pushes is used up (`trbring`), and
polling an empty event ring changes nothing, so that it is no step of the model
(`xhcihid`). In `pages` boot stops at the end states above, in `portreset` when the port is
done, in `heap` when a desktop without a background has nothing more to ask for. `desktop` and `simplefs` never stop.

### Fairness

* `TrbRing`: the controller keeps fetching (weak). The driver need not push.
  `PointerPath` adds the device, which reports what it has, and the main loop,
  which polls (weak). The user need not act.
* `Tasks`: the timer ticks (weak). A program makes progress if it gets the CPU
  again and again (strong): it is on the CPU only between ticks, so its steps
  are enabled and disabled for ever, and a tick is a millisecond, long enough
  for many instructions. A stray task need not fault.
* `Heap` and `KernelHeap`: a call that was made runs on (weak).
* `XhciHid`: the driver runs (weak: it is one loop with nothing to block it; the
  waits have limits), the controller executes what is on its rings and a device
  with input and an armed endpoint reports (weak). The user need not type.
* `PortReset`: the driver runs, and the port ends what it began (weak). Faults,
  unplugging and loss of power need not happen.
* `Controllers`: the processor runs, and a controller halts, ends its reset and
  becomes ready when its registers ask for it (weak). Firmware need not release
  anything, and the user need not start a task.
* `Desktop` states safety only.
* `SimpleFS` has no fairness and no liveness property: every call is a bounded
  number of transfers.

### Findings

1. `core/simplefs.c` 434: if a read fails while a FAT32 disk is being mounted,
   the disk is formatted (`simplefs_fat`). The same happens without a failed read
   if the chain of the root directory is broken.
2. `drivers/ata_pio.c` 138: if the slave does not identify itself once, the master is
   mounted in its place, and with one failed read formatted, although the comment at
   128 prefers the slave "so the master can stay as the EFI boot disk" (the same run:
   both findings are steps of its counterexample).
3. `drivers/usb/xhci/xhci.c` 340: the Link TRB's cycle bit is never rewritten, so
   a ring dies after two laps: a keyboard after 510 reports (`trbring_laps`).
4. `drivers/usb/xhci/xhci_events.c` 100: waits drop the events of other devices,
   and a device whose interrupt event is dropped is never armed again
   (`xhcihid_dropped`).
5. `drivers/usb/xhci/xhci_events.c` 103: a wait takes any event of the slot for
   its answer, so requests are taken for done that are not
   (`xhcihid_setconfig`).

Seen while modelling, without a run of its own:

* `xhci.c` 493 (and 485, 530, 544, 524) writes PED back as 1, which disables the
  port on a strict controller; `xhci_force_port_ready` then resets a port that was
  usable, which the comment at 1249 wants to avoid. `UsableNotReset` and the second
  part of `VerdictRight` are stated for controllers that ignore the bit.
* `core/simplefs.c` 453: one failed read of a directory sector makes the code format the
  disk, which `src/Makefile` 81 calls persistent: all its files are gone. The model
  takes these steps, and no property forbids them: to `ImplementsStore` a format puts
  every name of its drive in doubt, and the other two invariants about saves leave out
  runs in which a read failed.
* `drivers/ata_pio.c` 222: the status after a write, and after the flush, is not looked
  at, so a save returns 1, and the notepad says "saved" (`core/desktop.c` 2236), for a
  sector that was not written. The model has lost writes; `AckedSavesSurvive` is about
  saves that lost none, and `ImplementsStore` about the files beside them.
* `core/main.c` 138: the number of bitmap pages to reserve truncates where `PMM_Init`
  rounds up. For 1 to 7 pages beyond a multiple of 32768 the page with the last byte of
  the bitmap is handed out, and `VMM_Init` makes it the root page table. `OneUse` states
  exactly this, and the run has three such sizes. `VMM_Init` then clears that byte with
  the table, so that the last pages of the region are free and the entry for the lowest
  addresses, once written, marks some of them as taken; taking the others sets flag bits
  in that entry. The model ends where this begins (`overlap`).
* A keyboard that reports roll-over makes every key still held be typed again.
* A press of the full-screen wizard's Finish is forgotten by `input_init` while
  the button is down: the next report presses on the desktop.
* Windows under each other all get a press, and two can be dragged at once.
* The set-up wizards say that a disk was partitioned and formatted; no code does it.
* `core/desktop.c` 1855 ("Make sure the notepad window is always on-screen") clamps
  before position and width are assigned.
* `core/simplefs.c` 434, once more: a read that fails makes the code format a disk that
  held files, and if a write of an empty table sector is lost then, an old entry stays.
  The next save of that name takes an earlier entry, is acknowledged, and leaves the
  second one, dead and beyond `next_free_lba`. That is why `FrontierCovers` is about the
  entry a reader finds, and why two other invariants hold as long as no read failed.
* A mount that went on to the master (finding 2) returns 1, and the save or read behind
  it is one of the master: "saved" is then said of a file on the wrong disk. A master
  that is no FAT32 volume is formatted without a second fault, and one that is the only
  disk of a machine at its first mount.
* If a mount that went on to the other drive fails before it has that drive's directory,
  the explorer keeps the old list, and a double click reads the sectors of the other
  disk. It takes a second failure, and `ReadsAreWhole` leaves it out (`switched`).
* `simplefs_read_file` on FAT32 returns success, and the full size, for a cluster
  chain that ends early. Of a damaged volume `ReadsAreWhole` says only that what was read
  is a beginning of the file.
* A command that completes after its wait gave up (`xhci_events.c` 88) leaves its
  completion on the event ring; the wait for the next command takes it, with its slot id,
  and every later command that of the one before. If it is a command of a port that has
  its slot (Evaluate Context, Configure Endpoint), the Enable Slot of the next port is
  given that slot, and Address Device overwrites its entry in `g_devs`. The run goes
  there, and stops at two ports that share a slot (`shared`); `CompletionsMatch` and
  `DevsKept` are stated for boots in which no wait gave up early.
* `xhci.c` 113 takes a short packet for a failure of the transfer. The model has one
  kind of failure, which halts EP0 (`ExecuteStage`); a short packet would not. No
  property depends on it.
* `png.c` looks at no checksum, neither the CRC of a chunk nor the Adler sum of the
  stream: a file whose pixel bytes are damaged shows a different picture. `WallShows` is
  about what the bytes say.
* `png.c` 183 adds the length of a chunk to its position in 32 bits. For a length near
  2^32, which no PNG may have, the sum wraps and the chunk passes for one that fits;
  the decoder then copies from beyond the file, or never comes to an end.
* `drivers/pci.c` 153: a second controller takes over the rings, `g_devs` and the
  registers of the first, which keeps running with its devices unserved.
* `xhci_init` writes USBCMD before it waits for CNR, and goes on while firmware still
  owns the controller.
* `xhci.c` 254: of a device with several HID interfaces the driver keeps the number of
  the last and the endpoint of the first, so its requests go to an interface it does
  not poll. The devices of the run have one HID interface each, so that
  `EagerBootFindsAll` does not meet this.
* Mice of subclass 1 are sent SET_PROTOCOL(boot), but their reports are decoded by the
  layout of the report descriptor. The two agree for most mice.
* The parser keeps the last report id of a descriptor with a mouse, lets Output items
  advance the position of input fields, never resets `seen_mouse_usage` and looks at
  two levels of collections. Absolute positions are sign-extended, and scaled by 0x7FFF
  whatever the logical maximum is.
* A tablet whose report descriptor could not be read stays mute: without a layout only
  boot mice are understood (`Understood`).
* The shell command `wall` gives nothing back: not the file, not the copy it replaces,
  none of the decoder's buffers. A few wallpapers fill the heap; the run shows that what
  is held stays good and the picture on the screen stays whole.
* The heap has room for one framebuffer and some slack, the desktop wants two. With a
  framebuffer well above 8 MiB there is no background buffer.

## 4. Proofs

Each theorem holds for every value of the constants that satisfies the named
assumptions. Every safety property the passing runs check is one of them; three have
a hypothesis about data as well, named in the table and explained below it.

| Module | Theorem | Property of a run | States |
|---|---|---|---|
| `TrbRing_proofs` | `RingInvariant`, `TypeCorrect` | `RingInv` | where the TRBs of this lap and the last one lie |
| | `InOrder`, `NeverOverwritten` | (both follow from `RingInv`) | what the controller fetches next is the oldest TRB in flight; no TRB in flight is overwritten |
| | `RingIsQueue` | `ImplementsQueue` | `TrbRing` implements `TrbQueue` |
| | `PathRingInvariant`, `PathInOrder`, `PathIsQueue` | the same | the same of `PointerPath`, whose every step is one of `TrbRing` or leaves the ring alone |
| | `BufferKept` | `BufferNotShared` | a report in `intr_buf` is not overwritten before it is decoded |
| | `PointerArrives` (if `ReportsDescribed`) | `PathInv` | the pointer is where the user moved it, for fields of any width up to 31 bits at any bit, signed or not |
| `Heap_proofs` | `HeapInvariant`, `AlwaysCoalesced`, `FailureIsHonest` | `HeapInv`, `Coalesced`, `FailsOnlyWhenFull` | tiling, merging, and that `kmalloc` fails only when nothing fits |
| | `HeapIsAllocator` | `ImplementsAllocator` | `Heap` implements `Allocator` |
| | `KernelHeapInvariant`, `KernelHeapCoalesced`, `KernelFailureIsHonest`, `KernelHeapIsAllocator` | the same | the same of `KernelHeap` |
| | `PointersStayGood` | `PointersHeld` | what the kernel holds are blocks of its own |
| | `WallIsPicture` (if `FilesHold`) | `WallShows` | a wallpaper is shown as its bytes say, for pictures of any size with any filters, or not at all |
| `Tasks_proofs` | `TaskInvariant`, `EveryContextKept` | `ContextsKept` | a task that is switched out keeps its context |
| | `StackFreeInRing3` | `Ring3StackFree` | the stack of the next interrupt of ring 3 holds nobody's context |
| | `TasksAreProcesses` | `ImplementsProcesses` | `Tasks` implements `Processes` |
| `SimpleFS_proofs` | `StorageInvariant`, `FrontierHolds` | `FrontierCovers` | files nobody saves lie below `next_free_lba` |
| | `OneEntry`, `AckedSavesStay` | `OneEntryPerName`, `AckedSavesSurvive` | unless a read or an IDENTIFY failed: one entry a name; acknowledged saves (that lost no write) stay |
| | `ReadsWhole` | `ReadsAreWhole` | what a read hands out is one save, of the disk the mount took, or the file of a FAT32 volume along its chain |
| | `StoreImplemented` | `ImplementsStore` | on each of the two drives `SimpleFS` implements `FileStore` |
| `XhciHid_proofs` | `EnumInvariant`, `HidInvariant` | `HidInv` | a polled device has one transfer in flight; the event ring has room |
| | `CompletionsAreOwn`, `DevicesKept` | `CompletionsMatch`, `DevsKept` | as long as no wait gave up early: a wait takes its own completion; no port takes over the slot of another |
| | `EagerBoot` (if `WalkFinds`) | `EagerBootFindsAll` | with a controller that answers at once every keyboard and mouse is polled after boot |
| `PortReset_proofs` | `PortInvariant`, `VerdictsAreRight` | `VerdictRight` | what the driver says of a port is so |
| | `UsableLeftAlone` | `UsableNotReset` | a usable port is not reset |
| `Controllers_proofs` | `PagesInvariant`, `EveryPageOneUse` | `OneUse` | no page is taken twice, whoever takes it, in a region of any size; the one page of the bitmap that `main.c` may fail to reserve becomes the root table, and no other page of the bitmap is taken |
| | `NoEarlyFault`, `HeapNeverScattered` | `FaultsOnlyBeyondWindow`, `HeapInOnePiece` | a fault means that the window is used up; the pages of the heap follow each other |
| | `KernelOutOfReach` | `RingThreeSees` | ring 3 reaches the pages mapped for it and no others |
| | `ControllerInvariant`, `ControllersSound` | `ControllersInv` | a controller is started once, in order, on memory of its own |
| `Desktop_proofs` | `KeysStayInOrder`, `KeysTypedOnce` | `KeysInOrder`, `TypedOnce` | the ring of `input.c` implements `KeyQueue`; a held key is typed once |
| | `DesktopInvariant`, `WindowsStayConsistent` | `WindowsConsistent` | flags, drags, texts and wizards agree |

### Assumptions

They are the ASSUMEs of the modules, and TLC evaluates them in the runs.
Those on sizes only exclude arrays without elements. The others are:

* `RingAssumption`: at least three TRBs, and a window smaller than the ring. The
  driver meets it because it waits for each command and control transfer and
  re-arms an interrupt ring from its completion. (A wait for a control transfer takes one
  of its three events, so EP0 may hold the TRBs of several requests; their number per
  device is bounded, and far below 255.)
* `HeapAssumption`: a header has at least one byte and the heap has room for one.
  `KernelHeapAssumption` is the size `main.c` gives the heap. `AsksAssumption`: what
  the decoder asks for is a sequence of sizes; it follows from the recursive
  definitions of `Png`, by an induction that is not done here.
* `PathAssumption`: a device moves by finitely many amounts its report can hold, on
  a screen that is not empty.
* `FsAssumption`: the directory fits its sectors, and the disk has room for it and
  for one file; slave and master are absent, blank, or hold an SFS image or a FAT32
  volume; the sectors of a FAT volume are of the kinds the FAT code tells
  apart, and what is said of a volume's files is so (`IsVolume`): each has a chain of
  clusters that leads through its sectors to its end, or on a damaged volume as far
  as it goes.
* `PagesAssumption`: the framebuffer, the registers and the user's addresses lie
  outside the region the kernel allocates from, and user addresses outside what boot
  maps; the identity map of low memory (128 MiB) does not reach beyond the window (256
  MiB of the region). It says nothing of the size of the region, nor, but for page 0,
  of where it begins, which the loader chooses. `ControllersAssumption`: a device does
  not answer for functions it lacks and have several at once, BARs say where registers
  are, and no two controllers have theirs at the same place.
* `HidAssumption`: configuration descriptors are sequences of bytes. Which bytes
  plays a part in one proof only, that of `EagerBoot`.

Three theorems compare what arrives with what was meant, and depend on a parser having
understood its input. That it has is their hypothesis, a predicate of the model that the
MC module of the run states as an ASSUME, so that TLC evaluates it:

* `ReportsDescribed` (`MCPointerPath`): the layout the report descriptor parser leaves
  behind says where the device puts its fields. What the driver then finds in a report
  is proved.
* `FilesHold` (`MCKernelHeap`): chunks and stored blocks of a file that gives a picture
  hold, by the PNG standard, the filtered bytes of the picture `holds` names: the
  original, or what damage to its bytes made of it. That the decoder undoes the filters
  and puts the pixels together is proved.
* `WalkFinds` (`MCXhciHid`): the walk over the configuration descriptor of a keyboard or
  mouse finds its HID interface and endpoint. That boot then polls the device is proved.

### Arguments

*Rings.* That the controller sees no stale TRB is not inductive. `RingInv` adds
where both sides are: the driver is in the controller's lap (`SameLap`) or one
ahead (`LapBehind`); the TRBs before the driver's index are of this lap
(`Fresh`), those after it are of the last one (`Stale`). Each step preserves it;
order and no overwriting follow, and the refinement maps `Push` and `Execute` to
the queue's steps and `FollowLink` to a stutter. For the buffer `PathSafe` adds that
no more reports are unread than TRBs were executed, and one TRB is in flight.

*Pointer.* `Following` says, of each point on the way from the user to the pointer, what
the reports that are still pending will do: read in order, they put the pointer where
the user has it (`Pending`). A step of the driver is then a matter of arithmetic. A
number the device writes in two's complement is read back (`SplitsUp`, `ReadsBack`), a
field is found again in the report whatever lies before and behind it (`FieldsAre`,
`FieldLies`), the boot layout is that of boot reports (`BootIsLayout`), and whatever the
descriptor is, the parser leaves numbers behind (`LayoutHasNumbers`).

*Heap.* That neighbours are merged between calls is not inductive either: `kfree`
leaves free neighbours until its walk reaches them, and only the node freed can
be one of them. `HeapInv` is the tiling, the ownership of blocks, and `WalkInv`:
what the walk in progress has passed is merged, or does not fit. The callers'
`KernelInv` adds which pointers are set at which point (`Early`) and what an answer
in `ret` will become (`Grants`): the background is freed by nobody who holds another
pointer to it. For `WallShows` a row of the file and the row above it are followed
through `unfilter_scanline` (`Unfiltered`, `RowsFound`): each byte is rebuilt from bytes
that were rebuilt before it, and the predictor of the code is that of the standard
(`Guessed`), so the rows are those of the picture.

*Tasks.* Whether a saved context is still there depends on the stack it lies on.
`TaskInv` says on which stack each context was saved (`Saved`), that TSS.rsp0 is the
stack of the one task in ring 3 (`RingZeroStack`), and that there is one such task,
because of the flag in `desktop.c` (`OneTask`).

*Storage.* Memory runs ahead of the disk while a save is in progress. `FsInv` is what
the disk keeps at every sector transfer (`DiskInv`), and what each phase of a call may
rely on: what of the directory was loaded (`Loading`), that memory mirrors the disk but
for names in doubt (`Ready`), that the save lies behind all other files (`SaveInv`),
that its sectors are written before an entry points to them (`DataInv`, `StoreInv`). A
power failure leaves `DiskInv`. `AwayInv` says the same of the disk of the drive that is
not in use, and that without a failed read the drive is the preferred one; a mount that
changes drives needs both (`Storage`), and starts with nothing known of the new disk.
The refinement needs no more: a step that changes what a bystander's name means, on
either drive, would break it. For `ReadsAreWhole`, `ReadInv` says that the directory in
memory leads to whole saves (`Listing`, of which a change of drives says nothing until
the new directory is there) and that the buffer holds the beginning of one (`Gathered`),
and `FatInv` that the walk over a FAT32 volume follows the chain of one of its files
(`FatReading`, `Followed`): the cluster at hand is the one the next sector is in.

*Enumeration.* `EnumInv` has seven parts. One transfer in flight (`Polled`) needs that
the driver works at the slot of its port and that this device is not polled yet
(`Working`), and that slots are handed out one per port (`Enabled`). Room on the event
ring is an account: what the controller has still to answer (`Load`: events, commands,
stages not executed, armed endpoints) is at most what the driver has asked for (`Asked`).
A transfer of three stages posts three events and its wait takes one, so up to 14 events
of each device are left; a wait that finds nothing has lost nothing, because its endpoint
is halted, unless it gave up early, which is counted. `Calm` says that without early
time-outs there is at most one command or completion, and that it is of the step the
driver is at. `EagerInv` is for a controller that answers at once: every event is a
success (`AllWell`) and one of the device waited for is there (`Answered`), so that it
does not matter which of its events a wait takes; ports get their slots in order
(`InOrder`), and a device behind the driver is polled as the walk found it (`Known`).

*Ports.* PORTSC changes on its own between two accesses. `PortInv` says what of the copy
in `ps` still holds: while the hardware has not failed (`Untroubled`), while no wait was
cut short (`Patient`), and on a port usable from the start (`LeftAlone`).

*Pages.* The bitmap is searched from its start and no page is given back, so free pages
are those above some page (`Lowest`). That no reserved page is taken, and no page twice,
is inductive with that (`KeptApart`). What `main.c` may leave out is one page, the first
behind those it reserves (`Quotients`, `OnePageShort`); as the lowest free page it is the
one `VMM_Init` takes for the root table (`Short`), and boot is followed no further. That faults
happen only beyond the window, and that the heap is in one piece, follow from the
order in which pages go out (`Mapping`, `WindowMapped`, `HeapOnly`). For `RingThreeSees`
`ForUser` says which tables the bit `PAGE_USER` was set on. *Controllers:* `CtlInv` says what
each stage of `xhci_init` has established (`Prepared`), and that the controllers started
are those the scan has passed (`Scanned`).

*Desktop.* The queue follows from the arithmetic of its two indices. A held key is not
typed again because it is in the last report or went down since (`InputInv`). Windows are
consistent only between presses: `DesktopInv` adds, from one part of a press to the next,
that a window the press has not come to is not dragged.

*Recursive functions.* A function defined by itself has to be shown to exist before it
can be reasoned about. `Recursion` does so for functions over 0 .. n, and where the
result is known it is its own witness. What it computes follows by `Climb`: a set of
numbers that has 0, and with each number the next, has them all (induction, said of a
set and not of a predicate, from the well-founded order of the numbers).

### Only model-checked

* Liveness: fairness and ENABLED are out of the prover's reach. `RingIsQueue` holds of a
  ring that stops, as finding 3 shows it does.
* The three hypotheses above: what `LayoutOf` makes of report descriptors, `Inflated`
  and `Stream` of PNG files, and `ConfigDescriptor` of configuration descriptors is
  compared with what was meant on the inputs of the instances only. They do not hold of
  every input: "Seen while modelling" names report descriptors and configurations the
  code misreads.

## 5. Not modelled

The UEFI loader, GDT/IDT tables, the console and the rest of the hardware profile
run once and keep no state that changes later. Dead code is left out:
`core/setup_wizard.c`, `drivers/ahci.c`, `ramfs_get`, `PMM_FreePage`. So are drawing,
the geometry of windows, scrolling, the bytes of files other than pictures, and the
contents of device and input contexts.

In the modelled parts: long reads and writes are one step per sector, and the port I/O
inside a sector is not; the 256 TRBs of a ring are 8; `PointerPath` has no transfer
errors (a failed transfer is in `XhciHid`); `Png` has no pictures whose size overflows
32 bits, and no chunk of 2^31 bytes or more, which the standard forbids and `png.c` 183
lets through (see above); `Controllers` scans one bus and leaves out the routing
registers of Intel chipsets; more than two USB devices are not; a slot that two ports
share after an early time-out is followed no further (`pc = "shared"`). `Controllers`
follows a second controller up to its start, not its devices. `KernelHeap` has a
framebuffer of which two fit the heap. `Pages` assumes that the user addresses at 1 GiB
lie outside the region, the devices and the framebuffer, and ends where a page of the
bitmap becomes the root table (`core/main.c` 138, above). `XhciHid` leaves the events of port status
changes out of its account of the event ring: there are a few per port, against a margin
of some two hundred with two devices. `KernelHeap` has the decoder read from its file
and buffers only.

## 6. Plan

1. Devices of several HID interfaces (`xhci.c` 254), with what is sent to which.
2. Two controllers with devices behind each, by composing `Controllers` and `XhciHid`.
3. A framebuffer of which only one fits the heap.
4. Proofs that drop hypotheses: the class of report descriptors the parser reads right,
   and that the blocks of a PNG stream are put together again.
