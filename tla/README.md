# A verification of the VNiX kernel

TLA+ modules that model the kernel in `src/`, TLC configurations that check them
on small instances, and TLAPS proofs for the frame allocator, paging, the AHCI and
USB drivers, the keyboard, the shell, and the terminal's framebuffer. Line numbers refer to files under
`src/`.

## 1. The system

The kernel is one sequential program. `kernel_main` (`kernel/kernel.c`) brings up
the terminal, the heap, the GDT and IDT, paging, the frame allocator, the
interrupt controllers, the keyboard, the drives and PCI, and then stays in
`shell_main`. There is one processor and no scheduler. What is concurrent is
the *environment*: interrupts, which run between any two instructions of the
main program; devices, which change their registers and the memory while the
driver polls them; and the processor itself, which walks the page tables and
caches what it finds. The repository also holds the boot loader's installer, a
program of the host that writes to a disk any of whose accesses may fail.

| Part | State | Operations | Hard because of | Module |
|---|---|---|---|---|
| Physical memory, `mm/pmm.c` | list of free frames, kept in the frames; two counters | `pmm_init`, `palloc`, `pfree` | owners overwrite the list nodes; unaligned, short and adjacent regions | `Pmm` |
| Heap, `mm/heapalloc/tlsf.c`, `klibc/stdlib.c` | blocks with boundary tags, two-level free lists and bitmaps | `malloc`, `calloc`, `realloc`, `free`, memalign, pools | orders of calls, splitting and merging inside memory that callers wrote; size limits | `TlsfMapping`, `TlsfBlocks`, `Tlsf` |
| Paging, `mm/vmm.c` | four levels of tables | `map_page`, `unmap_page` | the processor uses the tables while they change; frames run out | `Vmm` |
| AHCI, `drivers/storage/sata.c` | one port's registers, a heap block per call | five functions that issue a command and poll | an HBA that is slow, fails or hangs; counters at their ends | `Ahci`, `AhciPrdt` |
| Parallel ATA, `ata.c`, `atapi.c`, `storage.c` | two drives behind one set of registers | reads, writes, identifications | late answers, the status of the wrong drive, register limits | `Ata` |
| Storage registry, `stinit.c` | `storage_devices` | `storage_init` | one probe's leftovers meet the next | `Storage` |
| USB, `drivers/hci/ehci.c` | schedule of queue heads in frames, a port | start, port reset, control and bulk transfers, `msd_read_sector` | the controller still uses what the driver has freed; answers of commands given up | `Ehci` |
| PCI, `drivers/pci/pci.c` | none of its own | the scan, register sizes | bridges, several functions, second host bridges | `Pci` |
| Keyboard, `kernel/shell/keyboard.c` | modifiers, keys, characters held | the interrupt handler, `getc` | the handler runs in the middle of `getc`'s scan | `Keyboard` |
| Shell, `kernel/shell/shell.c` | a line buffer | editing, `execute` | a buffer that is never cleared, and its end | `Shell` |
| Terminal, `kernel/terminal/src/flanterm.c` | parser, cursor, scroll region, colours | every byte | sequences that are broken off, counts past the edges, attributes in any order | `Flanterm`, `TermGrid`, `TermUnicode` |
| Framebuffer, `flanterm_backends/fb.c` | grid, queue, map | putting, cursor, flush, layout | three views of a cell; a queue without a check | `FbQueue`, `FbLayout` |
| C library, `klibc`, `tools/serial.c`, `tools/math.c` | memory, `strtok`'s rest | strings, numbers, sorting, formatting | overlaps, sizes and widths at their limits | `Klibc`, `Printing` |
| Time, `kernel/time`, `tools/pit.c` | clock speed | delays | a clock that wraps | `Time` |
| Installer, `boot/limine.c` | one cached block, a log of undo data | bios-install, `--uninstall` | failures at any I/O, overlapping writes | `Limine` |

How they interact: `Vmm` and `Ehci` take frames from the frame allocator, which
is the set of `FrameAllocator`, the specification `Pmm` is proved to implement.
`Storage` runs the identifications of `Ata`, step by step. `Ahci` takes a heap
block per call; its heap is a set of blocks. The shell reads what `getc`
returns; `Shell` accepts any sequence of such characters. `FbQueue` implements
`TextGrid`, the plain grid of cells that the editing of `TermGrid` works on.

## 2. Modules

- **`FrameAllocator`**: what `palloc` and `pfree` promise, a set of frames.
- **`Pmm`**: `pmm_init` one loop iteration per step (`PmmInitEntry`,
  `PmmInitPage`, `PmmInitEntryEnd`, `PmmInitReturn`), `Palloc`, `Pfree`, and
  `OwnerWrites`, by which the owner of a frame overwrites the words in which a
  list node was. `chain` and `held` are history variables. `Pfree` is called
  only for frames the caller owns: `pfree` checks nothing, and the properties
  do not hold for a caller that frees twice. **`PmmProofs`** has the proofs.
- **`TlsfMapping`**: request rounding and size classes. **`TlsfBlocks`**: the
  static helpers of `tlsf.c` as functions from a heap to a heap; an assertion
  that fails is recorded. **`Tlsf`**: the entry points, one action each, as no
  interrupt handler allocates. **`Heap`**: what they promise.
- **`Vmm`**: `map_page` and `unmap_page` one level per step, interleaved with
  accesses by the processor, which fill the TLB, and with other users of frames.
  **`VmmWalks`** proves what one store into a table does to the walks, **`VmmProofs`**
  the properties.
- **`Ahci`**: each function is the sequence of its steps (`Program`); a step is
  one evaluation of a polling condition or a run of statements with at most one
  port access that matters. The HBA's four actions are external.
  **`AhciPrdt`**: the arithmetic of the descriptors. **`AhciProofs`** has the
  proofs about both.
- **`Ata`**: the same style, for two drives of any kind. Three things about the
  drives are assumptions and not code: no drive reads as zeros or as ones, a
  command clears ERR, and a drive that is busy or has DRQ set ignores a command
  (what QEMU does; the standard leaves it open).
- **`Storage`**: extends `Ata`; the probes of `storage_init` in their order, and
  then the calls a user of the drivers may make.
- **`Ehci`**: the driver one register access or memory access that matters per
  step, the controller (`Fetch`, `Execute`, `PortReset`, `ControllerObeys`),
  which keeps a copy of the queue head it is at and writes it back later, a
  device that answers in the order of its commands, and `Elsewhere`, the rest of
  the kernel, which takes and gives back frames. `scribbled` records that the
  controller wrote to a frame that had changed hands. **`EhciProofs`** has the
  proofs.
- **`Pci`**: the scan as a function from a machine to the sequence of the
  controllers it brings up.
- **`Keyboard`**: `keyboard_handler` once per byte, `getc` one key of its scan
  per step, and a keyboard with a short queue that sends make, repeat and break
  codes. **`KeyboardProofs`** has the proof.
- **`Shell`**: one step per character; `execute` cuts the line in place. The
  buffer starts with arbitrary contents, as the code does not initialize it.
  **`ShellProofs`** has the proofs.
- **`Flanterm`**: one step per buffer a program writes, each byte through the
  whole of `flanterm_putchar`: the parser, the cursor and the scroll region,
  modes, and the colours. **`TermGrid`**: what scrolling and the editing
  sequences do to the cells, as the code's loops, and `Wanted`, what
  console_codes(4) says of them, which `flanterm.c:46` names as the standard;
  `Differs` lists the cells where the two part. **`TermUnicode`**: decoding, the tables, and the widths.
- **`FbQueue`**: the grid, the queue and the map of the framebuffer, the flush one
  item per step, and the pixels as what was drawn last. `flanterm_fb_full_refresh`,
  which draws without emptying the queue, is no action: the kernel calls it once,
  at the end of `flanterm_fb_init` (`fb.c:1360`), when the queue is empty.
  **`TextGrid`**: what it
  promises. **`FbLayout`**: geometry, pixel addresses for every rotation, and the
  static pool. **`FbQueueProofs`** has the proofs about both.
- **`Klibc`**: strings over a memory of bytes, numbers, `bsearch` and `qsort`,
  the divisions. **`Printing`**: `printf`, `vsprintf`, `serial_printf`, `printk`.
- **`Time`**: the microsecond clock, delays with it and with the timer.
- **`Limine`**: the installer's path through `bios_install`, one read, write or
  flush per step, any of which may fail, up to `MaxFaults` times. The device is a
  stdio stream, which delays the last block written until the next `set_pos` or
  `fclose`; `set_pos` is that of a host with a long of 64 bits, one `fseek`. `lost`
  records that a delayed write failed; it is no state of the program.

The `MC` modules hold the values of the constants, with
`StorageMachines` and `TermBytes` for inputs that several of them use. `MCDevices`
and `MCConsole` hold several components that share nothing: `which` is chosen in
the initial state, and only that component moves. Operators described as a
plausible bug, or named for what they leave out, are wrong variants of the
definition that follows them; no specification uses them. They serve to check that each
property notices such a mistake.

## 3. Runs

`tlc -config X.cfg M` for each line of `runs` in `PROJECT.json`. All state spaces
are explored completely, but for the constraint of `vmm` explained below. Only
`usb` uses symmetry, of frames: its properties compare frames for equality and
choose none.

| Run | Question | Bounds |
|---|---|---|
| `pmm` | Is the list always a list, each frame with one owner, the counters exact, and the result a `FrameAllocator`? | five map entries: unaligned, unusable, shorter than a page, adjacent; two contents for owners' pages |
| `arithmetic` | Do the pure algorithms give what their reference definitions say: heap size classes, AHCI descriptors, editing and scrolling, character widths, pixel addresses and the pool, strings, numbers, formatting, the PCI scan, delays? | see below |
| `tlsf` | Does every order of `malloc`, `calloc`, `realloc`, `free` and memalign, with pools that come and go, keep the heap's structure and the owners' bytes? Is it a `Heap`? | adjacent pools of 168 and 64 bytes, up to five blocks; four size classes per level |
| `vmm` | Are tables private, translations current, and does a call change its page and no other? | two slots per table, three pages that share no, some or all tables, three frames |
| `devices` | ATA and registry: is what is registered identified, every working ATA drive found, what is reported as read or written so, in the right place? AHCI: does every path free its block, and start only stopped engines? Keyboard: does `getc` return only what was pressed? Installer: is a reported success one, and an undo complete? Does every bounded wait end? | every pair of ATA, ATAPI, absent, floating in time, late ATA and ATAPI drives, and no drives; room for two devices; registers scaled down, so that 255, 256 and 65535 sectors are 2, 3 and 7 and 65536 are 8; two polls per wait. AHCI counters of 2, wrapping at 7. Someone who races the scan with A, shift and caps lock, someone slower with five keys. 19 disks and command lines, up to three failures |
| `console` | Does the queue fit and a flush show the text, is it a `TextGrid`? Do sequences keep cursor, values and colours in order? Does Enter run what the screen shows? | one row of three cells, two characters; a terminal of 3 by 4 cells, five escape values of 8 bits, eight programs that write whole sequences or single bytes; a line buffer of 5 with any initial contents |
| `usb` | Does the driver hold no frame between calls, whichever step failed? Does a read that succeeds bring its own sector? | four frames, which is what the driver holds at most and one; two reads, one port reset or search |

Bounds of `arithmetic`: requests up to a 2 KiB block, with the kernel's 32
subdivisions, and as many sectors; terminals up to 3 by 4 cells with every
cursor, also behind a full line, region and count; every boundary of the character tables, alone and
after the first bytes of another character; framebuffers up to 8 by 7 pixels in
four rotations, cut and not; strings of up to four characters with sizes on
both sides of their lengths; all pairs of ints of 6 bits, all divisions of 12
bits by 6, arrays of up to five numbers; directives of every padding, length
and letter, with arguments at the limits of 6 and 12 bits; machines of three
buses; a microsecond clock of 4 bits, which wraps during the delays, on
processors of 3 and of 3.4 MHz.

`vmm` stops exploring behind a failed `palloc`: its properties say nothing there.
`usb` allows deadlock because a driver that gave up takes no further step. Where
a component has several environments (`machine`, `user`, `program`, `job`) they
are chosen in the initial state; a property that needs drives that answer in time
(`keepsUp`), or keys slower than the scan (`prompt`), names that in its premise.

Some properties have premises because the code does something else without
them. Each is named at the property, and what the code does there is in the list
below:

- `TransfersExact`: 1 to 65535 sectors; `DevicesListed`: the first word of an
  identification is not 0;
- `InstalledExactly` and `UndoneExactly`: a delayed write does not fail where nobody
  sees it;
- `TextEditedExactly`: not the cells of `Differs`, and no more rows than columns;
- `ColoursFollowAttributes`: the eight colours with bold or reverse video, but not
  both, and no ESC c (`PlainColours`);
- `StringsExact`: a size of `strlcpy` other than 0, and of `strlcat` not below the
  length of the string; `strtok` is held to all fields, the empty ones too;
- `PrintedExactly`: numbers that the directive's type holds in that formatter
  (`OnTerminal`, `OnSerial`), and no sign or prefix amid padding;
- `DelaysExact`: real time, less what the rates lose.

The bounds keep the boundaries: each counter, register or buffer is small enough
to be at its end, and one past it, in many states; each list has blocks before,
between and behind the one that is touched.

Several properties are conjunctions, for one question that has several sides:
`HeapWellFormed`, `CallersServed`, `TranslationsCurrent`, and those of `MCDevices`,
`MCConsole` and `MCArithmetic`. The conjuncts are in the component's module.

### Where the code and its text disagree

Each of these runs ends in a counterexample to a sentence of the repository.

| Run | The code | The text |
|---|---|---|
| `tlsf_realloc_too_large` | a `realloc` beyond the largest block cuts the block to size 0 and returns the old pointer | `tlsf.c:1203` |
| `ahci_timeout` | a read that ran out of time returns success, one that completes at the last poll a timeout | `sata.c:251`, `257` |
| `keyboard_shift` | shift released before its key: the character stays on, its next press is lost | `keyboard.c:371` |
| `storage_atapi` | the error IDENTIFY leaves on an ATAPI drive makes its own probe fail | `stinit.c:107` |
| `qsort` | the pivot is a place in the array, and another element may move there: four numbers are left out of order | `API-Info:267` |

Others were met while modelling and have no run of their own. They are outside
the bounds or premises of the passing runs, which say nothing about them.

Memory and storage:

- a `malloc` within 7 bytes of the top of `size_t` gets a 24 byte block
  (`tlsf.c:497`; `API-Info:105` "Allocates memory of the specified size");
- a huge page on the way down is taken for a table (`vmm.c:111`), if the boot
  loader's tables have one there; the user bit is not put into tables that exist
  (`vmm.c:95`; `vmm.c:87` "propagate down"); without a frame, frame 0 becomes a
  page table (`vmm.c:80`; `vmm.c:79` "must return 4K-aligned frame");
- PxCLB is not given the physical address of the command list (`sata.c:509`); the
  memory of an abandoned command is freed while the HBA may still write to it
  (`sata.c:253`); one page of the register region is mapped (`pci.c:122`);
- from 8065 sectors on AHCI descriptors lie past the command tables
  (`sata.c:169`; `sata.c:222` counts on 65535 sectors; `PrdtInTable` proves 8064);
- a count of 0 sectors, or of 65536, which is cut to 0 (`ata.c:176`), makes the
  drive offer the largest number of sectors, which nobody takes: the next command
  meets an open transfer;
- a drive whose identification begins with a word of 0 is refused with -2
  (`ata.c:307`) and not registered, whatever else it says;
- after a timeout, a drive's late sector is delivered to the next read or taken
  for the answer to the next identification (`ata.c:81`, under the QEMU
  assumption above); ERR of one failed command makes the next calls fail
  (`ata.c:97`); the flush does not wait for the last sector (`ata.c:274`);
- `drive_read` cuts counts to 16 bits and reports the short read as success
  (`storage.c:52`);
- `identify_atapi_useful_manual` reads the answer without waiting for it
  (`atapi.c:288`; `atapi.c:234` "Wait for data to be ready"); the run does not
  call it;
- registering any drive registers a SATA device nobody detected (`stinit.c:61`;
  `stinit.c:99` "sata_search already logs detected drives"); `DevicesListed` says
  exactly when;
- multi-function host bridges that read as bus 0 have it scanned once each
  (`pci.c:178`), and a bridge without a bus number starts the scan over.

USB (all of it is in `Ehci`, and `usb` runs it):

- no descriptor of a control transfer is ever marked active, so the wait for it
  ends at once and `find_mass_storage_device` never finds one (`ehci.c:454`
  and around); the schedule's address stays that of the transfer's freed frame
  (`ehci.c:54` "global persistent async list head");
- a halted bulk transfer passes for a good one, and only the tag of the status
  shows it; queue heads are freed without waiting for the controller to let go;
- the waits of `ehci_init` have no counter and its frame is not checked.

Terminal:

- ESC within a sequence: "start a new one" (`flanterm.c:571`), but nothing is
  started, and scrolling stays off, as it does after an unknown final byte; the
  private-mode mark survives CAN; an OSC that ESC breaks off keeps its offset;
- ESC c does not reset the text colours; bold in reverse video with default
  colours brightens the wrong one; bright, 256 and RGB colours are kept apart from
  the attributes, and the next change of bold replaces them;
- ESC 8 without an ESC 7 before it restores zeros: black on black (`fb.c:1137`);
- a cursor below a narrowed region leaves the screen at the next newline, and
  text is then not stored; with more rows than columns a character that wraps
  is put at a row cut to the columns (`fb.c:981`);
- against console_codes(4): with the cursor behind a full line, ESC [ K, J and X
  miss the line's last cell, and K and X blank cells of the next row
  (`fb.c:974`), as X does with a count past the line end; a character in insert
  mode there overwrites one of the next row; K 1 spares the cursor's cell, which
  J 1 erases (`flanterm.c:768`); J stops at the end of a narrowed region; @ 0 blanks
  the rest of the line; P past the line end clears cells left of the cursor; M
  deletes from the region's first row on, wherever the cursor is
  (`flanterm.c:656`); L below the region clears the cursor's row;
- a rotated screen larger than the limits is placed with the unrotated pitch.

Installer: the bytes of the write that failed are not restored (`limine.c:1129`
"If we failed, attempt to reverse install process"); a failure to store the undo
data is not reported; the fifth partition is stored before it is counted. The last
block written is in stdio's buffer when success is reported, and nobody looks at
the result of `fclose` (`limine.c:1140`). A write of the undo that stdio accepted may
fail at a later `set_pos`: the undo then repeats the entry it is at, not the one
whose write failed, and reports success. On a host with a long of 32 bits, which is
not modelled, `rewind` swallows the failure altogether (`limine.c:62`).

C library and time:

- `printf` prints the lower 32 bits of `%llx` and `%p`, and `%u` as a signed number
  (`itoa` takes an `int32_t`; `stdio.h:51` "unsigned decimal integer"); `%f` drops
  the zeros behind the point (`stdio.h:54` "6 decimal places"), and is unknown to
  the other two, which leave its argument for the next directive;
- zeros that pad a negative number stand before its sign, blanks that pad `%x` in
  `printf` behind its prefix; `%c` has no width there; the serial line knows no
  widths and no `%o`, reads `%ld` and `%lu` as ints, and takes no null string;
- `printk` formats into a static buffer of 1024 bytes without a bound
  (`serial.c:191`); `printf` before the terminal is there returns -1 (`stdio.c:49`),
  which `Printing` leaves out;
- `atoi` of a number that is no int overflows; `Klibc` cuts it to the width;
- `strlcpy` with size 0, and `strlcat` with a size below the string's length, have
  no bound; `strchr` does not find the NUL; `strtok` returns empty fields;
- the quotient of `__udivdi3` is cut to 32 bits;
- the clock's 0, once in 2^32 microseconds, ends a delay with -1 (`tsc.c:94`); a
  count of the timer is taken for a microsecond (`pit.c:79`), 16 % too little; the
  clock drops the part of a megahertz, so that delays at 3.4 MHz are 12 % short;
  the "average" clock speed is one measurement; the wait of
  `pit_get_is_legit` goes on only while it has lasted too long (`pit.c:99`).

## 4. Fairness

Safety needs none, and only `devices` has a liveness property, `WaitsEnd`.

- `Ahci`, `Storage`: weak fairness of the driver only; the processor executes it.
  Nothing is assumed of the devices, except where `which` is `"obedient ahci"`:
  there engines stop when told to, and the functions that spin without a counter
  return too. The ATA part is about drives that may never answer.
- `Keyboard`: weak fairness of the handler (interrupts are enabled before the
  shell starts, and nothing in it disables them), of `getc` and of its caller.

As one component moves in a behaviour, the conditions of different components
share three conjuncts; those of one component stay apart. `console` and `usb` state
no fairness: a program need not write, and a controller need not answer.

## 5. Proofs

**Frames.** `PmmProofs` proves, for every page size, direct map offset and memory map, and
whatever owners write: the inductive invariant `IInv`, `TypeOK`,
`FreeListIntact`, `NeverFreeAndHeld`, `CountersExact`, the action property
`PallocFresh`, and that `Pmm` implements `FrameAllocator`.

Assumptions: sizes are positive (`SizesAssumption`); usable entries of the map do
not overlap and none begins at address 0 (`MemMapAssumption`), which is the boot
protocol's promise. Addresses are natural numbers, without a width.

The argument: the listed properties are not inductive together, since nothing
in them says that the page `pmm_init` pushes next is new. `IInv` adds that every
known frame is an aligned page of an entry already visited, or of the current one
below `current` (`KnownFrames`), and where the loop is (`InitProgress`). Then a
pushed page is new because entries are disjoint and each is visited upwards.
`PushKeepsList` and `PopKeepsList` carry the list through `Pfree` and `Palloc`;
`OwnerWrites` cannot reach a node because no frame is both free and held.

**Framebuffer.** `FbQueueProofs` proves, for every screen size, every set of characters and
colours, and every order of writes, cursor moves and flushes: the queue never
outgrows its array (`FbQueueFits`), a flush shows the text and the cursor and
nothing else (`FbFlushShowsText`), and grid, queue and map together implement a
plain grid of cells in which every write takes effect and nothing else changes the
text (`FbImplementsTextGrid`; the history variable `wrote` keeps a write without
effect from passing as a stutter). Assumed is only that the screen has
a cell and that what is written is a character (`FbAssumption`).

The argument: that the queue fits follows from its items being of different
cells, and a sequence of different cells is no longer than there are cells
(`DistinctFits`). `IInv` of `FbQueue` says so, and that outside a flush map and
queue point at each other; during one only the items from `at` on do, save the
cursor's, which `draw_cursor` took off the map; and that the screen shows the
grid except where the old cursor is. Each action has a lemma (`PushKeeps`,
`DrawCursorStep`, `FlushItemKeeps`, `FlushEndKeeps`, `CursorKeeps`).

It also proves that the static pool holds the tables of every screen
(`FbPoolSuffices`): the limits bound the columns and rows, and so the cells and
the bytes.

**Paging.** `VmmProofs` proves, for every set of pages and frames and every way the
processor's accesses and other users of frames fall between the steps of a walk,
until a `palloc` fails: `PageTablesPrivate`, `TranslationsCurrent` and
`OnlyItsPageChanges`. Assumed of the boot loader's tables (`BootTablesAssumption`)
is what `vmm.c` relies on: they are a tree, and no page the kernel maps lies under a
huge page. The argument: `IInv` adds what a call knows between two steps, that the
table it stands at is the one its page's walk comes to at that level (`JobInv`),
and that a cached translation is current or the call's own, before its `invlpg`
(`TlbInv`). `LeafStored` and `LinkStored` say that an entry stored in one table of a
tree changes only the walks that pass through that entry, and that linking an empty
frame, which is nowhere in the tree, gives a tree and shows no page.

**AHCI.** `AhciProofs` proves, for every sequence of calls, every sector count and
timeout, and every behaviour of the adapter: `PortMemReturned` and
`CommandsOrderly`. `AhciConstants` asks only for the types of the constants and a
timeout that is not 0 (`sata.h:43` has 1000). The argument: which places a
function has, and what follows each, is computed from `Program`; `IInv` says what
the port does at each place (`PortInv`): from the first wait on ST and FRE are clear,
so an engine seen stopped stays stopped until the driver starts it, and an issued
command leaves PxCI only by being done. It also proves that the descriptors are
exact for 1 to 65535 sectors (`PrdtExact`), lie in the command tables for up to
8064 (`PrdtInTable`), and that the one descriptor of a SATAPI read is exact up to
2048 sectors (`SatapiExact`).

**USB.** `EhciProofs` proves, for every pool of frames and any number of reads and
searches: `UsbPagesReturned` and `ReadHonest`. Assumed is that NULL is not a frame.
The argument: `Shape` says which frames the driver holds at each place and that
they differ, `Owned` that frames are free, the rest of the kernel's or the
driver's. For `ReadHonest`, `FifoInv` says that a good status is right behind its
data in the device's queue, or the data is in the buffer, and `HeldInv` that a
transfer of an earlier read that the controller still works on is gone before a
data stage begins: it can only swallow the new command, not overtake its answer.

**Shell.** `ShellProofs` proves, for every buffer size, alphabet, command set and
initial contents: `ScreenShowsLine` and `RunsWhatIsShown`. Assumed is that NUL and
the control characters are not printable and that commands are words
(`ShellConstants`). `TypeOK /\ ScreenShowsLine` is inductive; that `execute` finds on
the buffer what `Meaning` finds on the screen needs where the scans for blanks,
word ends and NULs stop, the least such place (`NatHasLeast`).

**Keyboard.** `KeyboardProofs` proves `NoPhantomChar` for every layout, set of keys,
typist and queue length, wherever interrupts fall. `IInv` says that whatever the scan
would return next was pressed since it was returned last (`NextIsFresh`), and, as
E0 decides which break codes count, that prefixes and codes in the keyboard's
queue stay together (`Framed`).

The inductive invariants of `VmmProofs`, `EhciProofs`, `AhciProofs`, `ShellProofs` and
`KeyboardProofs` were checked by TLC on the instances of the runs before they were
proved; `Pmm`'s is a property of its run.

Model-checked only:

- `WaitsEnd`, as liveness under fairness is beyond the prover;
- the heap, the drives and the registry, and the installer;
- `KeysTracked`, which is about particular typists;
- all of `arithmetic`, and of `console` what is about `Flanterm`: `Klibc`, `Printing`,
  `Pci`, `Time` and `Flanterm` are recursive, and what a recursive definition computes
  for all inputs cannot be proved here.

## 6. Not modelled

With the reasons in `PROJECT.json`: the boot sequence and the GDT (straight-line),
the generated interrupt stubs, port access, floating point, the RISC-V header,
which is not compiled, and the file system headers, which declare types only.

Interrupt dispatch is a table filled at boot and indexed by the vector; its one
protocol, the end of interrupt, is written twice for the keyboard
(`keyboard.c:287`, `apic_irq.c:78`), without effect as interrupts do not nest. The
8259 is not part of the boot sequence; `PIC_Mask` and `PIC_Unmask` write to the first
controller for every line, and the request register is read from the second
twice.

Inside modelled parts: the contents HBA, drives and USB devices move (a sector is
an abstract value), the text commands print, the keyboard's command functions,
which nothing calls, `drive_read`'s SATA branches and `sata_search`'s port scan;
glyph bitmaps, the canvas and the alternative character set of the terminal; the
installer's `enroll-config`, command line and check sums; the predicates of
`limits.c`; `get_time_ms`, the choice of the clock, and the set-up of timer and
serial port. `stinit.h` and `storage.h` declare different types of the same name
`storage_device_t`; `Ata` follows `storage.h`, `Storage` follows `stinit.h`, and
they are not joined at `drive_read`.
