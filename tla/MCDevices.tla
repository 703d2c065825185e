----------------------------- MODULE MCDevices -----------------------------
(* The code that deals with devices, for TLC: the keyboard, an ATA channel,  *)
(* an AHCI port, and the installer with the disk it writes.  They share      *)
(* nothing and only one of them, `which`, takes steps; the others stay in an *)
(* initial state.                                                            *)
EXTENDS MCKeyboard, Ahci

VARIABLES
  which,
  machine, kind, sel, dev, pc, call, todo, s, i, xfer, ret,
  probe, asked, storage_devices, sata_temp_count, faulty,
  job, disk, step, reg, torn, exit

Sites == INSTANCE StorageMachines
ATA == INSTANCE Storage
  WITH Machines <- Sites!MCMachines, Capacity <- 8, Max8 <- 2, Max16 <- 7, Limit28 <- 6,
       Polls <- 2, MAX_STORAGE_DEVICES <- 2

MCBlocks == {300, 301}

(* Disks of each kind the installer tells apart, each with the options that  *)
(* matter to it.                                                             *)
Untouched == [gpt |-> "none", parts |-> <<>>, iso |-> FALSE, flag |-> "active", entry |-> "table",
          mark |-> "none", force |-> FALSE, convert |-> TRUE, part |-> 0]
Gpt(parts) == [Untouched EXCEPT !.gpt = "ok", !.parts = parts, !.flag = "zero"]
Iso(parts) == [Gpt(parts) EXCEPT !.iso = TRUE]
MCCases ==
  {Untouched, [Untouched EXCEPT !.flag = "zero"], [Untouched EXCEPT !.flag = "bad"],
   [Untouched EXCEPT !.flag = "bad", !.force = TRUE],
   [Untouched EXCEPT !.flag = "bad active", !.force = TRUE, !.mark = "1080"],
   [Untouched EXCEPT !.entry = "low"], [Untouched EXCEPT !.mark = "first"],
   [Untouched EXCEPT !.mark = "first", !.force = TRUE],
   [Gpt(<<"efi">>) EXCEPT !.gpt = "half"],
   Gpt(<<"efi", "bios">>), Gpt(<<"efi">>), Gpt(<<"small">>),
   [Gpt(<<"efi", "bios">>) EXCEPT !.convert = FALSE, !.part = 2],
   [Gpt(<<"efi", "unused">>) EXCEPT !.part = 1],
   [Gpt(<<"efi", "unused">>) EXCEPT !.part = 1, !.force = TRUE, !.mark = "first"],
   [Gpt(<<"efi", "unused">>) EXCEPT !.part = 3],
   [Gpt(<<"efi", "unused">>) EXCEPT !.part = 4],
   Iso(<<"efi", "unused">>), Iso(<<"efi", "bios">>)}
Installer == INSTANCE Limine
  WITH Cases <- MCCases, MaxFaults <- 3, dev <- disk, pc <- step

ASSUME DevicesAssumption == ATA!StorageConstants /\ AhciConstants

-----------------------------------------------------------------------------
ataVars == <<machine, kind, sel, dev, pc, call, todo, s, i, xfer, ret,
             probe, asked, storage_devices, sata_temp_count, faulty>>
installerVars == <<job, disk, step, reg, torn, exit>>
allVars == <<which, vars, ataVars, ahci_vars, installerVars>>

MCInit ==
  /\ which \in {"storage", "ahci", "obedient ahci", "keyboard", "installer"}
  /\ Init /\ ATA!Init /\ AhciInit /\ Installer!Init
  /\ which # "storage" => machine = Sites!InTime /\ kind = [d \in ATA!Drives |-> "absent"]
  /\ which \notin {"ahci", "obedient ahci"} => ~ port.st
  /\ which # "keyboard" => user = Typing
  /\ which # "installer" => job = Untouched

StorageDoes(A) ==
  which = "storage" /\ A /\ UNCHANGED <<which, vars, ahci_vars, installerVars>>
AhciDoes(A) ==
  which \in {"ahci", "obedient ahci"} /\ A /\ UNCHANGED <<which, vars, ataVars, installerVars>>
KeyboardDoes(A) ==
  which = "keyboard" /\ A /\ UNCHANGED <<which, ataVars, ahci_vars, installerVars>>
InstallerDoes(A) ==
  which = "installer" /\ A /\ UNCHANGED <<which, vars, ataVars, ahci_vars>>

MCNext ==
  \/ StorageDoes(ATA!Next)
  \/ AhciDoes(AhciNext)
  \/ KeyboardDoes(Next)
  \/ InstallerDoes(Installer!Next)

(* The fairness of the components' own specifications; as only one of them  *)
(* takes steps, three conditions are enough for all.  An HBA that is        *)
(* obedient stops an engine when it is told to.                             *)
Fairness ==
  /\ WF_allVars(\/ StorageDoes(ATA!storage_init)
                \/ AhciDoes(Driver)
                \/ KeyboardDoes(keyboard_handler))
  /\ WF_allVars(\/ which = "obedient ahci" /\ AhciDoes(HbaCommandEngine)
                \/ KeyboardDoes(getc))
  /\ WF_allVars(\/ which = "obedient ahci" /\ AhciDoes(HbaFisEngine)
                \/ KeyboardDoes(CallAgain))

MCSpec == MCInit /\ [][MCNext]_allVars /\ Fairness

-----------------------------------------------------------------------------
(* No transfer leaves the caller's buffer.  With drives that answer in time  *)
(* and callers that ask for 1 to 65535 sectors, a call that returns 0 has    *)
(* exchanged each sector of the buffer with its place on the drive asked     *)
(* for, and no call leaves a transfer open, which the next command would run *)
(* into (ata.c:62-283, storage.c:47-61).                                     *)
TransfersExact == ATA!TypeOK /\ ATA!TransferExact /\ ATA!NothingLeftOpen

(* The ATA and ATAPI devices of storage_devices are drives that are there,   *)
(* each listed once, and an ATA drive that works is listed, whatever the     *)
(* other one is or does, unless it identifies itself with a first word of 0. *)
(* Behind them there is one SATA device that nobody found, exactly if one of *)
(* them was found and there is room (stinit.c:54-105, sata.c:615-634).       *)
DevicesListed == ATA!RegisteredIdentified /\ ATA!AtaFound

(* The keyboard's record is exact whenever its bytes are read: shift is on   *)
(* while its key is down, and when keys come slowly no press is lost and no  *)
(* key that is up is remembered, although the handler interrupts the scan    *)
(* anywhere (keyboard.c:212-276, 359-375).                                   *)
KeysTracked == ShiftFollowsKey /\ NoLostPress /\ RevertedWhenUp

(* An installation that reports success has put both boot stages where the   *)
(* boot sector says and kept everything else, whatever blocks the cache held *)
(* and whatever reads and writes failed before, provided that the last       *)
(* write, which stdio delays until fclose, did not fail there, where the     *)
(* installer does not look (limine.c:53-75, 256-302, 1091-1124, 1139-1140).  *)
InstalledExactly == Installer!SuccessExact

(* An undo that reports no failure, after a failed installation or by        *)
(* --uninstall, has restored the disk, but for the bytes of the one write    *)
(* that failed, although the cache was dropped with writes in it, another    *)
(* write was delayed or lost and the undo itself met failures: provided that *)
(* no write of the undo failed after stdio had accepted it, for which the    *)
(* undo repeats the wrong write, or none (limine.c:490-540, 708-723,         *)
(* 1126-1134).                                                               *)
UndoneExactly == Installer!RestoredUnlessTorn /\ Installer!HonestUninstall

Waiting ==
  CASE which = "storage" -> ~ machine.keepsUp /\ pc # "idle"
    [] which = "ahci" -> ahci_pc = "stop" /\ ahci_call.fn \in Careful \cup {"read_sector"}
    [] which = "obedient ahci" -> ahci_pc = "stop"
    [] which = "keyboard" -> user.prompt /\ fresh # {}
    [] OTHER -> FALSE

Served ==
  CASE which = "storage" -> pc = "idle"
    [] which \in {"ahci", "obedient ahci"} -> ahci_pc = "idle"
    [] OTHER -> fresh = {}

(* Whoever waits for a device is served in the end: a call into the ATA      *)
(* driver returns although the drives never answer, or are not there         *)
(* (ata.h:90-102); a call                                                    *)
(* into the AHCI driver whose waits are counted returns whatever the HBA     *)
(* does, every call if the HBA stops its engines when told to                *)
(* (sata.c:126-259, 275-276, 339-340, 420-476); and when keys come slowly    *)
(* getc returns every press (keyboard.c:359-375).                            *)
WaitsEnd == Waiting ~> Served
=============================================================================
