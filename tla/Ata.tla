-------------------------------- MODULE Ata --------------------------------
(* The two drives of a parallel ATA channel and the functions that read,    *)
(* write and identify them by programmed I/O, src/drivers/storage/ata.c and *)
(* atapi.c, with drive_read of storage.c for these drives.  The drives      *)
(* share the registers; a status that is read is that of the drive that is  *)
(* selected.                                                                *)
(*                                                                          *)
(* A step of the driver is one poll of the status, one block of data or a   *)
(* run of register writes.  Sector numbers and counts are scaled down: the  *)
(* limits of the 8, 16 and 28 bit registers are constants.                  *)
EXTENDS Integers, Sequences

CONSTANTS
  Machines,     \* the machines this may be: [kinds |-> what may be attached, of
                \*   "ATA", "ATAPI", "absent" and "floating"; keepsUp |-> whether
                \*   the drives answer before ata_wait_ready gives up; calls |->
                \*   the functions called, as in Pieces; lbas, counts |-> the
                \*   sectors asked for]
  Capacity,     \* the number of sectors of a drive
  Max8, Max16,  \* 255 and 65535
  Limit28,      \* 2^28
  Polls         \* how often ata_wait_ready reads the status, 100000

(* What the constants must be for this to model the code.                   *)
AtaConstants ==
  /\ \A m \in Machines : /\ m.kinds \subseteq {"ATA", "ATAPI", "absent", "floating"}
                         /\ m.lbas \subseteq Nat /\ m.counts \subseteq Nat
                         /\ m.keepsUp \in BOOLEAN
  /\ Max8 \in Nat \ {0} /\ Max16 \in Nat /\ Max8 < Max16
  /\ Capacity \in Nat /\ Limit28 \in Nat \ {0} /\ Polls \in Nat \ {0}

Drives == {0, 1}

VARIABLES
  machine, \* the machine this is
  kind,    \* what is attached as which drive
  sel,     \* the drive that is selected
  dev,     \* the state of the drives
  pc,      \* where the driver is
  call,    \* the call that is running, or the last one
  todo,    \* the commands it is made of that are not finished, the current first
  s, i,    \* the loop counters of a command's function and of ata_wait_ready
  xfer,    \* for each sector of the caller's buffer, what it was exchanged with
  ret      \* what the last call returned, or RUNNING

ataVars == <<machine, kind, sel, dev, pc, call, todo, s, i, xfer, ret>>

piece == Head(todo)
NoJob == [cmd |-> "NONE", lba |-> 0, count |-> 0]
Idle == [state |-> "idle", err |-> FALSE, job |-> NoJob, n |-> 0]
RUNNING == 1
UNREAD == [drive |-> -1, cmd |-> "NONE", lba |-> -1]

-----------------------------------------------------------------------------
(* The steps of the functions, in the order they are taken.                *)

ata_read_sector_28bit ==
  <<"check lba", "wait ready", "select", "command", "wait sector", "finish">>
ata_read_sector_28bit_manual == ata_read_sector_28bit

ata_read_sector_48bitSelectLate ==
  <<"wait ready", "command", "select", "wait sector", "finish">>

ata_read_sector_48bit ==
  <<"wait ready", "select", "command", "wait sector", "finish">>
ata_read_sector_48bit_manual == ata_read_sector_48bit

ata_flush_cache == <<"select again", "flush", "wait flush">>
ata_flush_cache_ext == ata_flush_cache

ata_write_sector_28bit ==
  <<"check lba", "wait ready", "select", "command", "wait sector">>
    \o ata_flush_cache \o <<"finish">>

ata_write_sector_48bit ==
  <<"wait ready", "select", "command", "wait sector">>
    \o ata_flush_cache_ext \o <<"finish">>

identify_ata == <<"select", "command", "wait data", "take", "check data", "finish">>
identify_ata_manual == identify_ata
identify_atapi == <<"select", "command", "wait data", "take", "finish">>
identify_atapi_manual == identify_atapi

atapi_read_sector ==
  <<"select", "wait ready", "command", "wait packet", "packet", "wait sector",
    "finish">>
atapi_read_sector_manual == atapi_read_sector

identify_atapi_useful ==
  <<"select", "wait ready", "command", "wait packet", "packet", "wait answer",
    "take", "finish">>
identify_atapi_useful_manual ==
  <<"select", "wait ready", "command", "wait packet", "packet", "take", "finish">>

Program ==
  [read28 |-> ata_read_sector_28bit,
   read48 |-> ata_read_sector_48bit,
   write28 |-> ata_write_sector_28bit,
   write48 |-> ata_write_sector_48bit,
   identify_ata |-> identify_ata,
   identify_ata_manual |-> identify_ata_manual,
   identify_atapi |-> identify_atapi,
   atapi_read |-> atapi_read_sector,
   identify_atapi_useful |-> identify_atapi_useful,
   identify_atapi_useful_manual |-> identify_atapi_useful_manual]

After(p, step) ==
  LET steps == Program[p.fn]
      at == CHOOSE k \in DOMAIN steps : steps[k] = step
  IN  steps[at + 1]

-----------------------------------------------------------------------------
(* The commands a call is made of: the sectors each asks for, and where in  *)
(* the caller's buffer they belong.                                         *)

Piece(fn, lba, count, at) == [fn |-> fn, lba |-> lba, count |-> count, at |-> at]

(* The reads of at most Max8 sectors that make up a longer one.            *)
ChunksUnclamped(lba, count) ==
  [k \in 1 .. (count + Max8 - 1) \div Max8 |->
     Piece("read28", lba + (k - 1) * Max8, Max8, (k - 1) * Max8)]

Chunks(lba, count) ==
  [k \in 1 .. (count + Max8 - 1) \div Max8 |->
     LET lba_reading == (k - 1) * Max8
         left == IF count - lba_reading > Max8 THEN Max8 ELSE count - lba_reading
     IN  Piece("read28", lba + lba_reading, left, lba_reading)]

(* A longer read below the limit is done in chunks, and then once more.    *)
ata_read_sector_auto(lba, count) ==
  IF lba < Limit28 /\ count <= Max8
    THEN <<Piece("read28", lba, count, 0)>>
    ELSE (IF lba + count < Limit28 THEN Chunks(lba, count) ELSE <<>>)
           \o <<Piece("read48", lba, count, 0)>>

ata_read_sector_semiauto(lba, count) == ata_read_sector_auto(lba, count)

ata_write_sector_auto(lba, count) ==
  <<Piece(IF lba < Limit28 /\ count <= Max8 THEN "write28" ELSE "write48",
          lba, count, 0)>>

(* The drive's type chooses the function; the count is cut to 16 bits.      *)
drive_read(drive, lba, count) ==
  IF kind[drive] = "ATA"
    THEN ata_read_sector_auto(lba, count % (Max16 + 1))
    ELSE <<Piece("atapi_read", lba, count % (Max16 + 1), 0)>>

Pieces(c) ==
  CASE c.fn = "drive_read" -> drive_read(c.drive, c.lba, c.count)
    [] c.fn = "ata_write_sector_auto" -> ata_write_sector_auto(c.lba, c.count % (Max16 + 1))
    [] OTHER -> <<Piece(c.fn, 0, 1, 0)>>

-----------------------------------------------------------------------------
(* The drives.                                                             *)

Present(d) == kind[d] \in {"ATA", "ATAPI"}

(* The status register: no drive reads as zeros or as ones.                *)
BSY == IF Present(sel) THEN dev[sel].state = "busy" ELSE kind[sel] = "floating"
DRQ == IF Present(sel) THEN dev[sel].state = "drq" ELSE kind[sel] = "floating"
ERR == IF Present(sel) THEN dev[sel].err ELSE kind[sel] = "floating"

(* A command is taken by an idle drive and clears ERR.                     *)
Commanded(d, cmd, lba, count) ==
  IF Present(d) /\ dev[d].state = "idle"
    THEN [dev EXCEPT ![d] = [state |-> "busy", err |-> FALSE, n |-> 0,
                             job |-> [cmd |-> cmd, lba |-> lba, count |-> count]]]
    ELSE dev

(* A block was exchanged with drive d, whose DRQ was set: after the last    *)
(* one that was read it is idle, one that was written it has to store.      *)
Exchanged(d) ==
  LET last == dev[d].n + 1 = dev[d].job.count
      written == dev[d].job.cmd \in {"WRITE", "WRITE_EXT"}
  IN  [dev EXCEPT ![d] = IF last /\ ~ written THEN Idle
                         ELSE [@ EXCEPT !.n = @ + 1, !.state = "busy"]]

Understood(d) ==
  IF kind[d] = "ATA" THEN dev[d].job.cmd \notin {"PACKET", "IDENTIFY_PACKET"}
                     ELSE dev[d].job.cmd \in {"PACKET", "IDENTIFY_PACKET", "READ10", "CAPACITY"}

(* The sector that is next exists; with 28 bits only some can be named.    *)
Reachable(d) ==
  LET lba == dev[d].job.lba + dev[d].n
  IN  /\ dev[d].job.cmd \in {"READ", "READ_EXT", "WRITE", "WRITE_EXT", "READ10"} => lba < Capacity
      /\ dev[d].job.cmd \in {"READ", "WRITE"} => lba < Limit28

DriveReady(d) ==
  /\ dev[d].state = "busy" /\ Understood(d)
  /\ \/ dev[d].n < dev[d].job.count /\ Reachable(d) /\ dev' = [dev EXCEPT ![d].state = "drq"]
     \/ dev[d].n = dev[d].job.count /\ dev' = [dev EXCEPT ![d] = Idle]
  /\ UNCHANGED <<machine, kind, sel, pc, call, todo, s, i, xfer, ret>>

DriveFails(d) ==
  /\ dev[d].state = "busy"
  /\ dev' = [dev EXCEPT ![d] = [Idle EXCEPT !.err = TRUE]]
  /\ UNCHANGED <<machine, kind, sel, pc, call, todo, s, i, xfer, ret>>

InitAta ==
  /\ machine \in Machines /\ kind \in [Drives -> machine.kinds]
  /\ sel = 0 /\ dev = [d \in Drives |-> Idle]
  /\ pc = "idle" /\ call = [fn |-> "NONE", drive |-> 0, lba |-> 0, count |-> 0]
  /\ todo = <<>> /\ s = 0 /\ i = 0
  /\ xfer = <<>> /\ ret = -1

-----------------------------------------------------------------------------
(* The driver.                                                             *)

Enter(fn, drive, lba, count) ==
  /\ pc = "idle"
  /\ call' = [fn |-> fn, drive |-> drive, lba |-> lba, count |-> count]
  /\ todo' = Pieces(call')
  /\ pc' = Program[Head(todo').fn][1]
  /\ xfer' = [k \in 0 .. count - 1 |-> UNREAD]
  /\ s' = 0 /\ i' = 0 /\ ret' = RUNNING
  /\ UNCHANGED <<machine, kind, sel, dev>>

Return(r) ==
  /\ pc' = "idle" /\ todo' = <<>> /\ s' = 0 /\ i' = 0 /\ ret' = r
  /\ UNCHANGED <<machine, kind, sel, dev, call, xfer>>

Then == pc' = After(piece, pc)

CheckLba ==
  /\ pc = "check lba"
  /\ IF piece.lba >= Limit28
       THEN Return(-3)
       ELSE Then /\ UNCHANGED <<machine, kind, sel, dev, call, todo, s, i, xfer, ret>>

Select ==
  /\ pc \in {"select", "select again"}
  /\ sel' = call.drive
  /\ Then
  /\ UNCHANGED <<machine, kind, dev, call, todo, s, i, xfer, ret>>

(* The value of ata_wait_ready after one more poll, or MORE.                *)
MORE == 1
ata_wait_readyForever(needs_drq) ==
  IF ERR THEN -2 ELSE IF ~ BSY /\ (needs_drq => DRQ) THEN 0 ELSE MORE

ata_wait_ready(needs_drq) ==
  IF ERR THEN -2
  ELSE IF ~ BSY /\ (needs_drq => DRQ) THEN 0
  ELSE IF i + 1 = Polls THEN -1 ELSE MORE

(* What the caller of ata_wait_ready returns when it fails with w.         *)
Failure(w) ==
  CASE pc = "wait flush" -> w
    [] pc \in {"wait ready", "wait data"} -> -1
    [] pc = "wait sector" /\ piece.fn = "atapi_read" -> -3
    [] pc = "wait answer" -> -3
    [] OTHER -> -2

Wait(needs_drq, next) ==
  LET w == ata_wait_ready(needs_drq)
  IN  /\ machine.keepsUp /\ BSY /\ Present(sel) => w # -1
      /\ CASE w = 0 -> /\ pc' = next /\ i' = 0
                       /\ UNCHANGED <<machine, kind, sel, dev, call, todo, s, xfer, ret>>
           [] w = MORE -> /\ i' = (i + 1) % Polls
                          /\ UNCHANGED <<machine, kind, sel, dev, pc, call, todo, s, xfer, ret>>
           [] OTHER -> Return(Failure(w))

WaitReady ==
  /\ pc \in {"wait ready", "wait packet", "wait data", "wait answer", "wait flush"}
  /\ Wait(pc \notin {"wait ready", "wait flush"}, After(piece, pc))

(* A count register of zero asks for one more than its largest value.      *)
Register(count, max) == IF count = 0 THEN max + 1 ELSE count

Command ==
  /\ pc \in {"command", "flush"}
  /\ LET f == piece.fn
         cmd == CASE pc = "flush" -> "FLUSH"
                  [] f = "read28" -> "READ"   [] f = "read48" -> "READ_EXT"
                  [] f = "write28" -> "WRITE" [] f = "write48" -> "WRITE_EXT"
                  [] f \in {"identify_ata", "identify_ata_manual"} -> "IDENTIFY"
                  [] f = "identify_atapi" -> "IDENTIFY_PACKET"
                  [] OTHER -> "PACKET"
         count == CASE pc = "flush" -> 0
                    [] f \in {"read28", "write28"} -> Register(piece.count % (Max8 + 1), Max8)
                    [] f \in {"read48", "write48"} -> Register(piece.count, Max16)
                    [] OTHER -> 1
     IN  dev' = Commanded(sel, cmd, piece.lba, count)
  /\ Then
  /\ UNCHANGED <<machine, kind, sel, call, todo, s, i, xfer, ret>>

(* The packet with the SCSI command is the block a PACKET command asks for. *)
Packet ==
  /\ pc = "packet"
  /\ dev' = IF dev[sel].job.cmd # "PACKET" THEN dev
            ELSE [dev EXCEPT ![sel] =
                   [@ EXCEPT !.state = "busy",
                             !.job = IF piece.fn = "atapi_read"
                               THEN [cmd |-> "READ10", lba |-> piece.lba, count |-> piece.count]
                               ELSE [cmd |-> "CAPACITY", lba |-> 0, count |-> 1]]]
  /\ Then
  /\ UNCHANGED <<machine, kind, sel, call, todo, s, i, xfer, ret>>

(* The loop over the sectors of a command.                                 *)
MoreSectorsShort == s < piece.count - 1

MoreSectors == s < piece.count

WaitSector ==
  /\ pc = "wait sector"
  /\ IF MoreSectors
       THEN Wait(TRUE, "transfer")
       ELSE Then /\ UNCHANGED <<machine, kind, sel, dev, call, todo, s, i, xfer, ret>>

Block == [drive |-> sel, cmd |-> dev[sel].job.cmd, lba |-> dev[sel].job.lba + dev[sel].n]

Transfer ==
  /\ pc = "transfer"
  /\ xfer' = [xfer EXCEPT ![piece.at + s] = Block]
  /\ dev' = Exchanged(sel)
  /\ s' = s + 1
  /\ pc' = "wait sector"
  /\ UNCHANGED <<machine, kind, sel, call, todo, i, ret>>

(* The data of an identification; what is read while DRQ is clear is not.  *)
Take ==
  /\ pc = "take"
  /\ IF DRQ THEN xfer' = [xfer EXCEPT ![0] = Block] /\ dev' = Exchanged(sel)
            ELSE UNCHANGED <<xfer, dev>>
  /\ Then
  /\ UNCHANGED <<machine, kind, sel, call, todo, s, i, ret>>

(* The first word of the data is not 0, or the drive is refused for it.    *)
CheckData ==
  /\ pc = "check data"
  /\ Then
  /\ UNCHANGED <<machine, kind, sel, dev, call, todo, s, i, xfer, ret>>

RefuseData == pc = "check data" /\ Return(-2)

Finish ==
  /\ pc = "finish"
  /\ IF Len(todo) = 1
       THEN Return(0)
       ELSE /\ todo' = Tail(todo)
            /\ pc' = Program[Head(todo').fn][1]
            /\ s' = 0 /\ i' = 0
            /\ UNCHANGED <<machine, kind, sel, dev, call, xfer, ret>>

Driver ==
  \/ CheckLba \/ Select \/ WaitReady \/ Command \/ Packet \/ WaitSector
  \/ Transfer \/ Take \/ CheckData \/ Finish

-----------------------------------------------------------------------------
(* The variables keep their types, and no transfer leaves the caller's      *)
(* buffer (ata.c:80-87).                                                    *)
TypeOK ==
  /\ sel \in Drives
  /\ \A d \in Drives : /\ dev[d].state \in {"idle", "busy", "drq"}
                       /\ dev[d].err \in BOOLEAN
                       /\ dev[d].n \in 0 .. dev[d].job.count
  /\ i \in 0 .. Polls - 1
  /\ pc = "transfer" => piece.at + s \in DOMAIN xfer
  /\ ret \in -3 .. RUNNING

Placed(cmds) ==
  \A k \in 0 .. call.count - 1 :
    /\ xfer[k].drive = call.drive
    /\ xfer[k].cmd \in cmds
    /\ xfer[k].lba = call.lba + k

(* A machine whose drives answer in time and whose callers ask for at least *)
(* one sector and no more than a count of 16 bits holds.                    *)
Regular == machine.keepsUp /\ machine.counts \subseteq 1 .. Max16

(* In such a machine a read that returns 0 has filled the caller's buffer   *)
(* with the sectors asked for, of the drive asked for: "return 0 on         *)
(* success" (storage.h:100); a write that returns 0 has handed every sector *)
(* of the buffer to its place on the drive asked for (ata.c:208-271).       *)
TransferExact ==
  Regular /\ pc = "idle" /\ ret = 0 =>
    /\ call.fn = "drive_read" => Placed({"READ", "READ_EXT", "READ10"})
    /\ call.fn = "ata_write_sector_auto" => Placed({"WRITE", "WRITE_EXT"})

(* A call that returns leaves no transfer open, which the next command      *)
(* would run into, in such a machine (ata.c:80-88).  Where a count of 0 is  *)
(* asked for, or 65536, which is cut to 0, the drive offers the largest     *)
(* number of sectors instead, and nobody takes them.                        *)
NothingLeftOpen == Regular /\ pc = "idle" => \A d \in Drives : dev[d].state = "idle"

(* Every call returns, also when the drives never answer (ata.h:90-102).    *)
CallsReturn == ~ machine.keepsUp /\ pc # "idle" ~> pc = "idle"
=============================================================================
