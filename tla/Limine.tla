------------------------------- MODULE Limine -------------------------------
(* limine bios-install (src/boot/limine.c): the boot stages are written to a *)
(* disk through a cache of one block, every write is logged so that it can   *)
(* be undone, and any I/O may fail.  The device is a stdio stream, which     *)
(* delays the last block written until it is moved or closed.                *)
(* Addresses are coarse.  Sector 0 is the MBR: boot code, timestamp, place   *)
(* of stage 2, active flag, disk id and partition entries.  Sectors 1 and 2  *)
(* hold the primary GPT or are free, a partition begins with sector 3, and   *)
(* sector 5 is the secondary GPT.                                            *)
EXTENDS Integers, Sequences, SequencesExt

CONSTANTS
  Cases,        \* the disks and the command lines: records, see Disk
  MaxFaults     \* how many I/O operations of a behaviour fail

VARIABLES
  job,          \* the disk and the command line of this behaviour
  dev,          \* the device, the cache, and the log of undo data
  pc, reg,      \* where bios_install is, and its local variables
  torn,         \* the addresses of the write that failed, if one did
  exit          \* "running", "success" or "failure"

vars == <<job, dev, pc, reg, torn, exit>>

SECTOR == 5
Addresses == 0 .. 29
CODE == 0
TIMESTAMP == 1
STAGE2_LOC == 2
FLAG == 3
ENTRIES == 4
GPT_HEADER == 5
GPT_ENTRIES == 10
PARTITION == 15
ISO_SIGNATURE == 22
GPT_SECONDARY == 25
STAGE2_SIZE == 7
HINT1080 == 6      \* the filesystem mark that is not in a partition's first sector
BlockSizes == <<SECTOR, 2 * SECTOR>>
NoBlock == -1

Span(loc, count) == loc .. loc + count - 1
All(S, v) == [a \in S |-> v]

(* A disk: job.gpt is "none", "ok" or "half" (no secondary header), job.parts *)
(* the entries of the GPT, job.iso whether it is an ISO image, job.flag and   *)
(* job.entry the MBR's, job.mark where a filesystem shows, if one does.       *)
Disk(j) ==
  [a \in Addresses |->
     CASE a = CODE -> IF j.mark = "first" THEN "fs" ELSE "code"
       [] a = TIMESTAMP -> "time"
       [] a = FLAG -> j.flag
       [] a = ENTRIES -> j.entry
       [] a = GPT_HEADER /\ j.gpt # "none" -> "EFI PART"
       [] a \in Span(GPT_ENTRIES, Len(j.parts)) -> j.parts[a - GPT_ENTRIES + 1]
       [] a = PARTITION /\ j.mark = "first" -> "fs"
       [] a = PARTITION + HINT1080 /\ j.mark = "1080" -> "fs"
       [] a = HINT1080 /\ j.mark = "1080" /\ j.gpt = "none" -> "fs"
       [] a = ISO_SIGNATURE /\ j.iso -> "CD001"
       [] a = GPT_SECONDARY /\ j.gpt = "ok" -> "EFI PART"
       [] OTHER -> "old"]
-----------------------------------------------------------------------------
(* An operation on the device has a set of outcomes [d, ok, data]; a failing  *)
(* one takes one of the faults.                                               *)
Outcome(d, ok) == [d |-> d, ok |-> ok, data |-> <<>>]
Faulty(d) == [d EXCEPT !.faults = @ - 1]

BlockOf(d, b) == Span(b * d.block_size, d.block_size)
Joined(f, g) == [a \in DOMAIN f \cup DOMAIN g |-> IF a \in DOMAIN g THEN g[a] ELSE f[a]]

(* The write that stdio delayed, which reaches the disk or fails: stdio drops *)
(* it then.  The failure is remembered in lost, which is no state of the      *)
(* program.                                                                   *)
Sent(d) == [d EXCEPT !.disk = Joined(@, d.delayed), !.delayed = <<>>]
Lost(d) ==
  IF d.delayed = <<>> \/ d.faults = 0 THEN {}
  ELSE {[Faulty(e) EXCEPT !.lost = TRUE] : e \in {Sent(d), [d EXCEPT !.delayed = <<>>]}}

(* fseek, which sends the delayed write first and fails with it: set_pos on a *)
(* host whose long has 64 bits.                                               *)
set_pos(d) == {Outcome(Sent(d), TRUE)} \cup {Outcome(e, FALSE) : e \in Lost(d)}

(* fwrite of the cached block: delayed, or a failure, which may still have    *)
(* reached the disk.                                                          *)
WriteBlock(d) ==
  LET block == [a \in BlockOf(d, d.cached_block) |-> d.cache[a]]
  IN {Outcome([d EXCEPT !.delayed = block, !.state = "clean"], TRUE)}
     \cup IF d.faults = 0 THEN {}
          ELSE {Outcome(Faulty(d), FALSE), Outcome(Faulty([d EXCEPT !.disk = Joined(@, block)]), FALSE)}

device_flush_cache(d) ==
  IF d.state = "clean" THEN {Outcome(d, TRUE)}
  ELSE UNION {IF o.ok THEN WriteBlock(o.d) ELSE {o} : o \in set_pos(d)}

(* fread: a failed one may leave an unknown cache under the number of the old *)
(* block.                                                                     *)
ReadBlock(d, b) ==
  {Outcome([d EXCEPT !.cache = [a \in BlockOf(d, b) |-> d.disk[a]], !.cached_block = b], TRUE)}
  \cup IF d.faults = 0 THEN {}
       ELSE {Outcome(Faulty(d), FALSE),
             Outcome(Faulty([d EXCEPT !.cache = [a \in DOMAIN @ |-> "junk"]]), FALSE)}

device_cache_block(d, b) ==
  IF d.cached_block = b THEN {Outcome(d, TRUE)}
  ELSE LET placed == UNION {IF o.ok THEN set_pos(o.d) ELSE {o} : o \in device_flush_cache(d)}
       IN UNION {IF o.ok THEN ReadBlock(o.d, b) ELSE {o} : o \in placed}

(* fclose, whose result nobody looks at.                                      *)
fclose(d) == {Sent(d)} \cup Lost(d)

(* The blocks of a range, in order, each brought in and then used.            *)
Through(d, loc, count, Use(_, _)) ==
  LET bs == d.block_size
      blocks == [i \in 1 .. (loc + count - 1) \div bs - loc \div bs + 1 |-> loc \div bs + i - 1]
      chunk(b) == Span(loc, count) \cap BlockOf(d, b)
  IN FoldLeft(LAMBDA outs, b :
                UNION {IF ~ o.ok THEN {o}
                       ELSE {IF c.ok THEN Use([c EXCEPT !.data = o.data], chunk(b)) ELSE c
                               : c \in device_cache_block(o.d, b)}
                         : o \in outs},
              {Outcome(d, TRUE)}, blocks)

device_read(d, loc, count) ==
  Through(d, loc, count,
          LAMBDA o, chunk : [o EXCEPT !.data = Joined(@, [a \in chunk |-> o.d.cache[a]])])

(* data is a function on the addresses written.                               *)
WriteBlocks(d, data) ==
  Through(d, Min(DOMAIN data), Cardinality(DOMAIN data),
          LAMBDA o, chunk : [o EXCEPT !.d.cache = [a \in DOMAIN @ |-> IF a \in chunk THEN data[a] ELSE @[a]],
                                      !.d.state = "dirty"])

(* The old contents are read first; they count as undo data only once the     *)
(* whole write has been done.                                                 *)
device_write(d, data) ==
  IF d.uninstalling THEN WriteBlocks(d, data)
  ELSE UNION {IF ~ r.ok THEN {r}
              ELSE {IF w.ok THEN [w EXCEPT !.d.log = Append(@, r.data)] ELSE w
                      : w \in WriteBlocks(r.d, data)}
                : r \in device_read(d, Min(DOMAIN data), Cardinality(DOMAIN data))}

Dropped(d) == [d EXCEPT !.state = "clean", !.cached_block = NoBlock]
-----------------------------------------------------------------------------
Init ==
  /\ job \in Cases
  /\ dev = [disk |-> Disk(job), cache |-> <<>>, cached_block |-> NoBlock, state |-> "clean",
            block_size |-> SECTOR, log |-> <<>>, uninstalling |-> FALSE, faults |-> MaxFaults,
            file |-> "none", delayed |-> <<>>, lost |-> FALSE]
  /\ pc = "init"
  /\ reg = [gpt |-> FALSE, converted |-> FALSE, active |-> FALSE, mbr |-> TRUE, i |-> 0, loc |-> GPT_HEADER,
            time |-> <<>>, table |-> <<>>, failed |-> FALSE]
  /\ torn = {}
  /\ exit = "running"

Goto(label) == pc' = label /\ UNCHANGED <<job, torn, exit>>

(* A cleanup that undoes the writes in the order they were done.              *)
CleanupInOrder(d) ==
  /\ dev' = [Dropped(d) EXCEPT !.uninstalling = TRUE, !.lost = FALSE]
  /\ pc' = "undo"
  /\ exit' = "failure"
  /\ reg' = [reg EXCEPT !.i = 1, !.failed = FALSE]
  /\ UNCHANGED job

(* goto cleanup with EXIT_FAILURE.  What was lost before needs no undo.       *)
Cleanup(d) ==
  /\ dev' = [Dropped(d) EXCEPT !.log = Reverse(@), !.uninstalling = TRUE, !.lost = FALSE]
  /\ pc' = "undo"
  /\ exit' = "failure"
  /\ reg' = [reg EXCEPT !.i = 1, !.failed = FALSE]
  /\ UNCHANGED job

Fail == Cleanup(dev) /\ UNCHANGED torn

Reading(loc, count, Then(_)) ==
  \E o \in device_read(dev, loc, count) :
    IF o.ok THEN dev' = o.d /\ Then(o.data) ELSE Cleanup(o.d) /\ UNCHANGED torn

Read1(loc, Then(_)) == Reading(loc, 1, LAMBDA data : Then(data[loc]))

Writing(data, Then) ==
  \E o \in device_write(dev, data) :
    IF o.ok THEN dev' = o.d /\ Then ELSE Cleanup(o.d) /\ torn' = DOMAIN data

(* The smallest block size the device answers to; block 0 is then cached.     *)
device_init ==
  /\ pc \in {"init", "again"}
  /\ \/ \E n \in 1 .. 2 :
          /\ n - 1 <= dev.faults
          /\ dev' = [dev EXCEPT !.block_size = BlockSizes[n], !.cached_block = 0, !.state = "clean",
                                !.cache = [a \in Span(0, BlockSizes[n]) |-> dev.disk[a]],
                                !.faults = @ - (n - 1)]
          /\ Goto(IF pc = "init" THEN "probe" ELSE "load")
          /\ UNCHANGED reg
     \/ /\ dev.faults >= 2
        /\ dev' = [dev EXCEPT !.faults = @ - 2]
        /\ pc' = "done" /\ exit' = "failure"
        /\ UNCHANGED <<job, reg, torn>>

(* A GPT of the first guess of the logical block size; the second guess looks *)
(* where no header is.                                                        *)
ProbeGpt ==
  /\ pc = "probe"
  /\ Read1(GPT_HEADER, LAMBDA v : /\ reg' = [reg EXCEPT !.gpt = v = "EFI PART"]
                                  /\ Goto(IF v = "EFI PART" THEN "secondary" ELSE "probe2"))

ProbeGptAgain ==
  /\ pc = "probe2"
  /\ Read1(GPT_ENTRIES + 4, LAMBDA v : UNCHANGED reg /\ Goto("mbr"))

ProbeSecondary ==
  /\ pc = "secondary"
  /\ \E o \in device_read(dev, GPT_SECONDARY, 1) :
       IF o.ok /\ o.data[GPT_SECONDARY] = "EFI PART"
         THEN dev' = o.d /\ UNCHANGED reg /\ Goto(IF job.convert THEN "iso" ELSE "part")
         ELSE Cleanup(o.d) /\ UNCHANGED torn

ProbeIso ==
  /\ pc = "iso"
  /\ Read1(ISO_SIGNATURE, LAMBDA v : /\ reg' = [reg EXCEPT !.i = 0]
                                     /\ Goto(IF v = "CD001" THEN "gather" ELSE "part"))

(* Every partition must have a type and a place that an MBR can express.      *)
Gather ==
  /\ pc = "gather"
  /\ Read1(GPT_ENTRIES + reg.i,
           LAMBDA v : IF v \in {"unused", "efi"}
                        THEN LET last == reg.i = Len(job.parts) - 1
                             IN /\ reg' = [reg EXCEPT !.i = IF last THEN 0 ELSE @ + 1]
                                /\ Goto(IF last THEN "nuke" ELSE "gather")
                        ELSE UNCHANGED reg /\ Goto("part"))

(* The protective MBR and the primary GPT, then the secondary one.            *)
Nuked == <<0, GPT_HEADER, GPT_ENTRIES, GPT_SECONDARY>>
Nuke ==
  /\ pc = "nuke"
  /\ Writing(All(Span(Nuked[reg.i + 1], SECTOR), "zero"),
             LET last == reg.i = Len(Nuked) - 1
             IN /\ reg' = [reg EXCEPT !.i = @ + 1, !.gpt = @ /\ ~ last, !.converted = last]
                /\ Goto(IF last THEN "entries" ELSE "nuke"))

(* A new disk id and the converted entries.                                   *)
WriteEntries ==
  /\ pc = "entries"
  /\ Writing(All({ENTRIES}, "converted"), UNCHANGED reg /\ Goto("mbr"))

(* The active flag of a partition entry, mended if forced.                    *)
CheckFlag ==
  /\ pc = "mbr"
  /\ Read1(FLAG, LAMBDA v : /\ reg' = [reg EXCEPT !.active = v \in {"active", "bad active"},
                                                  !.mbr = job.force \/ v \in {"zero", "active"}]
                            /\ Goto(IF v \in {"zero", "active"} \/ ~ job.force THEN "entry" ELSE "mend"))

MendFlag ==
  /\ pc = "mend"
  /\ Writing(All({FLAG}, IF reg.active THEN "active" ELSE "zero"), UNCHANGED reg /\ Goto("entry"))

(* A partition that starts below sector 63 leaves no room for stage 2.        *)
CheckEntry ==
  /\ pc = "entry"
  /\ \E o \in device_read(dev, ENTRIES, 1) :
       IF o.ok /\ o.data[ENTRIES] # "low"
         THEN dev' = o.d /\ reg' = [reg EXCEPT !.loc = 0] /\ Goto(IF reg.mbr THEN "hint" ELSE "nothing")
         ELSE Cleanup(o.d) /\ UNCHANGED torn

NoTable == pc = "nothing" /\ Fail

(* validate_or_force: a filesystem is refused, or its mark erased if forced.  *)
Validated == IF reg.gpt THEN "save time" ELSE IF reg.active THEN "save time" ELSE "activate"
Hint(at, here, erase, next) ==
  /\ pc = here
  /\ \E o \in device_read(dev, reg.loc + at, 1) :
       LET found == o.ok /\ o.data[reg.loc + at] = "fs"
       IN IF ~ o.ok \/ (found /\ ~ job.force)
            THEN Cleanup(o.d) /\ UNCHANGED torn
            ELSE dev' = o.d /\ UNCHANGED reg /\ Goto(IF found THEN erase ELSE next)
EraseHint(at, here, next) ==
  /\ pc = here
  /\ Writing(All({reg.loc + at}, "zero"), UNCHANGED reg /\ Goto(next))
validate_or_force ==
  \/ Hint(CODE, "hint", "erase", "hint 1080")
  \/ EraseHint(CODE, "erase", "hint 1080")
  \/ Hint(HINT1080, "hint 1080", "erase 1080", Validated)
  \/ EraseHint(HINT1080, "erase 1080", Validated)

Activate ==
  /\ pc = "activate"
  /\ Writing(All({FLAG}, "active"), UNCHANGED reg /\ Goto("save time"))

(* The partition of the command line, counted from 1 (0: none given).  One    *)
(* past the last is let through, and found unused.                            *)
Usable(v) == v = "bios" \/ (job.force /\ v \in {"efi", "other"})
ChosenPartition ==
  /\ pc = "part" /\ job.part # 0
  /\ IF job.part - 1 > Len(job.parts) THEN Fail
     ELSE \E o \in device_read(dev, GPT_ENTRIES + job.part - 1, 1) :
            IF o.ok /\ Usable(o.data[GPT_ENTRIES + job.part - 1])
              THEN dev' = o.d /\ reg' = [reg EXCEPT !.loc = PARTITION] /\ Goto("hint")
              ELSE Cleanup(o.d) /\ UNCHANGED torn

(* Or the first BIOS boot partition; "small" is one below 32 KiB.             *)
StartSearch ==
  /\ pc = "part" /\ job.part = 0
  /\ reg' = [reg EXCEPT !.i = 0] /\ Goto("search") /\ UNCHANGED dev
SearchPartition ==
  /\ pc = "search"
  /\ IF reg.i = Len(job.parts) THEN Fail
     ELSE \E o \in device_read(dev, GPT_ENTRIES + reg.i, 1) :
            LET v == IF o.ok THEN o.data[GPT_ENTRIES + reg.i] ELSE "small"
            IN IF v = "small" THEN Cleanup(o.d) /\ UNCHANGED torn
               ELSE IF v = "bios" THEN dev' = o.d /\ reg' = [reg EXCEPT !.loc = PARTITION] /\ Goto("hint")
               ELSE dev' = o.d /\ reg' = [reg EXCEPT !.i = @ + 1] /\ Goto("search")

(* The timestamp and the partition table survive the new boot sector.         *)
Stage2 == IF reg.gpt THEN PARTITION ELSE SECTOR
LocOf(loc) == IF loc = PARTITION THEN "at PARTITION" ELSE "at SECTOR"
SaveTime ==
  /\ pc = "save time"
  /\ Reading(TIMESTAMP, 1, LAMBDA data : reg' = [reg EXCEPT !.time = data] /\ Goto("save table"))
SaveTable ==
  /\ pc = "save table"
  /\ Reading(FLAG, 2, LAMBDA data : reg' = [reg EXCEPT !.table = data] /\ Goto("boot"))
WriteBoot ==
  /\ pc = "boot" /\ Writing(All(Span(0, SECTOR), "boot"), UNCHANGED reg /\ Goto("stage2"))
WriteStage2 ==
  /\ pc = "stage2"
  /\ Writing(All(Span(Stage2, STAGE2_SIZE), "stage2"), UNCHANGED reg /\ Goto("location"))
WriteLocation ==
  /\ pc = "location"
  /\ Writing(All({STAGE2_LOC}, LocOf(Stage2)), UNCHANGED reg /\ Goto("restore time"))
RestoreTime ==
  /\ pc = "restore time" /\ Writing(reg.time, UNCHANGED reg /\ Goto("restore table"))
RestoreTable ==
  /\ pc = "restore table" /\ Writing(reg.table, UNCHANGED reg /\ Goto("flush"))

Success(d) ==
  /\ dev' = [d EXCEPT !.log = Reverse(@)]
  /\ pc' = "store" /\ exit' = "success"
  /\ UNCHANGED <<job, reg, torn>>

(* An installation that leaves the last block in the cache.                   *)
FlushNever == pc = "flush" /\ Success(dev)

Flush ==
  /\ pc = "flush"
  /\ \E o \in device_flush_cache(dev) : IF o.ok THEN Success(o.d) ELSE Cleanup(o.d) /\ UNCHANGED torn

(* The undo data go to a file; a failure is not reported.  The process ends   *)
(* with the device closed.                                                    *)
Store ==
  /\ pc = "store"
  /\ \E d \in fclose(dev) :
       \/ dev' = [Dropped(d) EXCEPT !.file = "whole"]
       \/ d.faults > 0 /\ dev' = [Dropped(Faulty(d)) EXCEPT !.file = "part"]
  /\ pc' = "installed" /\ UNCHANGED <<job, reg, torn, exit>>
-----------------------------------------------------------------------------
(* bios-install --uninstall: another process, with the data of the file.      *)
RunUninstall ==
  /\ pc = "installed"
  /\ dev' = [dev EXCEPT !.uninstalling = TRUE, !.lost = FALSE]
  /\ pc' = "again" /\ exit' = "running"
  /\ UNCHANGED <<job, reg, torn>>

Load ==
  /\ pc = "load"
  /\ IF dev.file = "whole"
       THEN /\ dev' = Dropped(dev) /\ pc' = "undo"
            /\ reg' = [reg EXCEPT !.i = 1, !.failed = FALSE] /\ UNCHANGED exit
       ELSE pc' = "done" /\ exit' = "failure" /\ UNCHANGED <<dev, reg>>
  /\ UNCHANGED <<job, torn>>

(* uninstall: a write that fails is tried once more, from an empty cache.      *)
Retried(d, data) ==
  UNION {{[w EXCEPT !.ok = @ /\ f.ok] : w \in device_write(Dropped(f.d), data)}
           : f \in device_flush_cache(d)}
Undone(d, data) ==
  UNION {IF o.ok THEN {o} ELSE Retried(o.d, data) : o \in device_write(d, data)}

UndoOne ==
  /\ pc = "undo" /\ reg.i <= Len(dev.log)
  /\ \E o \in Undone(dev, dev.log[reg.i]) :
       /\ dev' = o.d
       /\ reg' = [reg EXCEPT !.i = @ + 1, !.failed = @ \/ ~ o.ok]
  /\ UNCHANGED <<job, pc, torn, exit>>

(* reg.failed at the end is the result of uninstall, negated; only --uninstall *)
(* makes it the exit status.  The device is closed.                            *)
UndoneAll(o) ==
  /\ dev' \in fclose(o.d)
  /\ reg' = [reg EXCEPT !.failed = @ \/ ~ o.ok]
  /\ pc' = IF exit = "running" THEN "uninstalled" ELSE "done"
  /\ exit' = IF exit = "running" /\ ~ reg'.failed THEN "success" ELSE "failure"
  /\ UNCHANGED <<job, torn>>

(* An undo that takes its last write for granted.                              *)
UndoEndUnflushed == pc = "undo" /\ reg.i > Len(dev.log) /\ UndoneAll(Outcome(dev, TRUE))

UndoEnd ==
  /\ pc = "undo" /\ reg.i > Len(dev.log)
  /\ \E o \in device_flush_cache(dev) : UndoneAll(o)

Done == pc \in {"done", "uninstalled"} /\ UNCHANGED vars

Install ==
  \/ device_init \/ ProbeGpt \/ ProbeGptAgain \/ ProbeSecondary \/ ProbeIso
  \/ Gather \/ Nuke \/ WriteEntries \/ CheckFlag \/ MendFlag \/ CheckEntry \/ NoTable
  \/ validate_or_force \/ Activate \/ ChosenPartition \/ StartSearch \/ SearchPartition
  \/ SaveTime \/ SaveTable \/ WriteBoot \/ WriteStage2 \/ WriteLocation \/ RestoreTime
  \/ RestoreTable \/ Flush \/ Store

Next == Install \/ RunUninstall \/ Load \/ UndoOne \/ UndoEnd \/ Done

Spec == Init /\ [][Next]_vars
-----------------------------------------------------------------------------
(* The disk after an installation: new boot code and stage 2, the place of     *)
(* stage 2 in the boot sector, and everything else as it was, but for a GPT    *)
(* that was converted and the flag that makes a partition active.              *)
Installed ==
  [a \in Addresses |->
     LET old == Disk(job)[a]
         nuked == reg.converted /\ \E i \in DOMAIN Nuked : a \in Span(Nuked[i], SECTOR)
     IN CASE a \in Span(Stage2, STAGE2_SIZE) -> "stage2"
          [] a = CODE -> "boot"
          [] a = STAGE2_LOC -> LocOf(Stage2)
          [] a = FLAG /\ ~ reg.gpt -> "active"
          [] a = ENTRIES /\ reg.converted -> "converted"
          [] OTHER -> IF nuked THEN "zero" ELSE old]

(* An installation that exits with success has put both boot stages on the    *)
(* disk, in the place the boot sector names, and kept the partition table,    *)
(* the timestamp and everything else, whatever blocks the cache held and      *)
(* whatever reads and writes failed before: provided that the last write,     *)
(* which stdio delays until fclose, did not fail there, where the installer   *)
(* does not look (limine.c:53-75, 256-302, 1091-1124, 1139-1140).             *)
SuccessExact == pc = "installed" /\ ~ dev.lost => dev.disk = Installed

(* A failed installation whose undo reports no failure has restored every     *)
(* byte of the disk, but for those of the write that failed, although the     *)
(* cache was dropped with writes in it, another write was delayed or lost and *)
(* the undo itself met failures: provided that no write of the undo failed    *)
(* after stdio had accepted it, for which the undo repeats the wrong write,   *)
(* or none (limine.c:490-540, 1126-1134).                                     *)
RestoredUnlessTorn ==
  pc = "done" /\ ~ reg.failed /\ exit = "failure" /\ dev.file = "none" /\ ~ dev.lost =>
    \A a \in Addresses \ torn : dev.disk[a] = Disk(job)[a]

(* --uninstall exits with success only if the disk is what it was before the  *)
(* installation, whatever failed on the way and was tried again, with the     *)
(* same proviso (limine.c:490-540, 708-723).                                  *)
HonestUninstall ==
  pc = "uninstalled" /\ exit = "success" /\ ~ dev.lost => dev.disk = Disk(job)
=============================================================================
