------------------------------ MODULE Storage ------------------------------
(* storage_init, src/drivers/storage/stinit.c, over the channel of Ata: the *)
(* drives are identified one after the other and put into storage_devices.  *)
(* Once it is complete the functions of Ata may be called.                  *)
EXTENDS Ata, SequencesExt

CONSTANT MAX_STORAGE_DEVICES

(* What the constants must be for this to model the code.                   *)
StorageConstants == AtaConstants /\ MAX_STORAGE_DEVICES \in Nat

VARIABLES
  probe,            \* which identification is next
  asked,            \* it has been called
  storage_devices,  \* the devices registered, of a type and by their drive number
  sata_temp_count,  \* how many devices sata_init claims
  faulty            \* the drives that failed a command they understand meanwhile,
                    \*   or identified themselves with a first word of 0

storageVars == <<probe, asked, storage_devices, sata_temp_count, faulty>>
vars == <<ataVars, storageVars>>

(* The two loops, over the drives of the primary channel.                  *)
ProbesMasters == <<[fn |-> "identify_ata", drive |-> 0, type |-> "P"],
                   [fn |-> "identify_atapi_useful", drive |-> 0, type |-> "Q"]>>

Probes == <<[fn |-> "identify_ata", drive |-> 0, type |-> "P"],
            [fn |-> "identify_ata", drive |-> 1, type |-> "P"],
            [fn |-> "identify_atapi_useful", drive |-> 0, type |-> "Q"],
            [fn |-> "identify_atapi_useful", drive |-> 1, type |-> "Q"]>>

Complete == probe > Len(Probes) + 1

Init ==
  /\ InitAta
  /\ probe = 1 /\ asked = FALSE
  /\ storage_devices = <<>> /\ sata_temp_count = 0
  /\ faulty = {}

-----------------------------------------------------------------------------
(* sata_init invents its device.                                           *)
sata_init == sata_temp_count' = 1

register_device(device) ==
  IF Len(storage_devices) >= MAX_STORAGE_DEVICES
    THEN UNCHANGED <<storage_devices, sata_temp_count>>
    ELSE /\ storage_devices' = Append(storage_devices, device)
         /\ sata_init

Identify ==
  /\ probe <= Len(Probes) /\ ~ asked
  /\ Enter(Probes[probe].fn, Probes[probe].drive, 0, 1)
  /\ asked' = TRUE
  /\ UNCHANGED <<probe, storage_devices, sata_temp_count, faulty>>

IdentifiedAlways == pc = "idle"

Identified == ret = 0

RegisterDrive ==
  /\ asked /\ pc = "idle"
  /\ IF Identified
       THEN register_device([type |-> Probes[probe].type, drive |-> Probes[probe].drive])
       ELSE UNCHANGED <<storage_devices, sata_temp_count>>
  /\ probe' = probe + 1 /\ asked' = FALSE
  /\ UNCHANGED <<ataVars, faulty>>

(* The devices of sata_temp_devices, of which there is at most one.        *)
RegisterSata ==
  /\ probe = Len(Probes) + 1
  /\ IF sata_temp_count > 0
       THEN register_device([type |-> "S", drive |-> 0])
       ELSE UNCHANGED <<storage_devices, sata_temp_count>>
  /\ probe' = probe + 1
  /\ UNCHANGED <<ataVars, asked, faulty>>

Marked(d) == faulty' = IF Complete THEN faulty ELSE faulty \cup {d}

storage_init ==
  \/ Identify
  \/ RegisterDrive
  \/ RegisterSata
  \/ Driver /\ UNCHANGED storageVars
  \/ /\ RefuseData
     /\ Marked(call.drive)
     /\ UNCHANGED <<probe, asked, storage_devices, sata_temp_count>>

(* A call asks for sectors of a drive that is attached.                     *)
Ask(fn, d) ==
  /\ Complete
  /\ fn = "drive_read" => Present(d)
  /\ fn = "ata_write_sector_auto" => kind[d] = "ATA"
  /\ IF fn \in {"drive_read", "ata_write_sector_auto"}
       THEN \E lba \in machine.lbas, count \in machine.counts : Enter(fn, d, lba, count)
       ELSE Enter(fn, d, 0, 1)
  /\ UNCHANGED storageVars

DriveAnswers(d) ==
  \/ DriveReady(d) /\ UNCHANGED storageVars
  \/ /\ DriveFails(d)
     /\ IF Understood(d) THEN Marked(d) ELSE UNCHANGED faulty
     /\ UNCHANGED <<probe, asked, storage_devices, sata_temp_count>>

Next ==
  \/ storage_init
  \/ \E fn \in machine.calls, d \in Drives : Ask(fn, d)
  \/ \E d \in Drives : DriveAnswers(d)

(* The processor executes storage_init, and later the call that was made;   *)
(* of the drives nothing is assumed.                                        *)
Spec == Init /\ [][Next]_vars /\ WF_vars(storage_init)

-----------------------------------------------------------------------------
Real == {n \in DOMAIN storage_devices : storage_devices[n].type # "S"}

(* None is registered twice and they fit into storage_devices; with drives  *)
(* that answer in time an ATA or ATAPI device that is registered is there:  *)
(* its drive answered to the identification for its type.  The one SATA     *)
(* device is not: the last entry is one that no search has found, exactly   *)
(* if another drive was found and there was room (stinit.c:54-60, 100-105,  *)
(* sata.c:615-634).                                                         *)
RegisteredIdentified ==
  /\ Len(storage_devices) <= MAX_STORAGE_DEVICES
  /\ IsInjective(storage_devices)
  /\ machine.keepsUp =>
       \A d \in Drives :
         /\ [type |-> "P", drive |-> d] \in Range(storage_devices) => kind[d] = "ATA"
         /\ [type |-> "Q", drive |-> d] \in Range(storage_devices) => kind[d] = "ATAPI"
  /\ Complete =>
       DOMAIN storage_devices \ Real =
         IF Real = {} \/ Cardinality(Real) = MAX_STORAGE_DEVICES THEN {} ELSE {Cardinality(Real) + 1}

(* An ATA drive that works, answers in time and identifies itself with a    *)
(* first word other than 0 is found, whatever the other drive is or does    *)
(* (stinit.c:71-81).                                                        *)
AtaFound ==
  machine.keepsUp /\ Complete => \A d \in Drives :
    kind[d] = "ATA" /\ d \notin faulty =>
      \/ Len(storage_devices) = MAX_STORAGE_DEVICES
      \/ [type |-> "P", drive |-> d] \in Range(storage_devices)

(* The ATAPI drives that work are among the devices of "Storage             *)
(* initialization complete, %u device(s) found" (stinit.c:107).             *)
AtapiFound ==
  machine.keepsUp /\ Complete => \A d \in Drives :
    kind[d] = "ATAPI" /\ d \notin faulty =>
      \/ Len(storage_devices) = MAX_STORAGE_DEVICES
      \/ [type |-> "Q", drive |-> d] \in Range(storage_devices)
=============================================================================
