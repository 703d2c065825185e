------------------------------ MODULE AhciPrdt ------------------------------
(* The physical region descriptors of an AHCI read, src/drivers/storage/    *)
(* sata.c: how sata_ahci_read_sector and sata_ahci_read_sector_satapi cut   *)
(* the caller's buffer into the pieces the HBA fills one after the other.   *)
(* Addresses are counted from the start of the buffer.                      *)
EXTENDS Integers

SectorBytes == 512
EntryBytes  == 8192        \* the bytes one descriptor describes, at most
PerEntry    == 16          \* the sectors one descriptor describes, at most
DbcValues   == 4194304     \* dbc is a bit field of 22 bits
TableBytes  == 8192        \* sizeof(ahci_port_mem_t.ct)
PrdtOffset  == 128         \* offsetof(hba_cmd_tbl_t, prdt_entry)
PrdtBytes   == 16          \* sizeof(hba_prdt_entry_t)

prdt_entriesTruncated(sector_count) == sector_count \div PerEntry

prdt_entries(sector_count) ==
  LET entries == (sector_count + PerEntry - 1) \div PerEntry
  IN  IF entries > 65535 THEN 65535 ELSE entries

(* The index of the descriptor that is filled after the loop.              *)
LastEntry(sector_count) ==
  IF prdt_entries(sector_count) = 0 THEN 0 ELSE prdt_entries(sector_count) - 1

dba(i) == i * EntryBytes

dbc(sector_count, i) ==
  IF i < LastEntry(sector_count)
    THEN EntryBytes - 1
    ELSE ((sector_count - PerEntry * i) * SectorBytes - 1) % DbcValues

(* The one descriptor of sata_ahci_read_sector_satapi, sectors of 2048.    *)
satapi_dbc(sector_count) == (sector_count * 2048 - 1) % DbcValues

(* Each piece starts where the one before it ends, and they end where the   *)
(* sectors do.                                                              *)
Exact(sector_count) ==
  /\ \A i \in 0 .. LastEntry(sector_count) - 1 :
       dba(i) + dbc(sector_count, i) + 1 = dba(i + 1)
  /\ dba(LastEntry(sector_count)) + dbc(sector_count, LastEntry(sector_count)) + 1
       = sector_count * SectorBytes
  /\ prdt_entries(sector_count) = LastEntry(sector_count) + 1

(* The descriptors lie in the command tables of the ahci_port_mem_t.       *)
InTable(sector_count) ==
  PrdtOffset + (LastEntry(sector_count) + 1) * PrdtBytes <= TableBytes
=============================================================================
