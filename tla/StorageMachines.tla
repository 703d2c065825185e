-------------------------- MODULE StorageMachines --------------------------
(* The machines of Storage, for TLC: drives that answer in time, of every    *)
(* kind; drives that may take too long; and no drives.  The counts are 255   *)
(* (2), 256 (3) and 65535 (7); the callers of slow drives also ask for 65536 *)
(* sectors (8), which are cut to 0.                                          *)
ReadsAndWrites == {"drive_read", "ata_write_sector_auto"}
Identifications == {"identify_ata_manual", "identify_atapi", "identify_atapi_useful"}

InTime == [kinds |-> {"ATA", "ATAPI", "absent", "floating"}, keepsUp |-> TRUE,
           calls |-> ReadsAndWrites \cup Identifications,
           lbas |-> {0, 3, 5}, counts |-> {2, 3, 7}]
Slow   == [kinds |-> {"ATA", "ATAPI"}, keepsUp |-> FALSE,
           calls |-> ReadsAndWrites, lbas |-> {5}, counts |-> {2, 8}]
Empty  == [kinds |-> {"absent", "floating"}, keepsUp |-> FALSE,
           calls |-> Identifications, lbas |-> {}, counts |-> {}]

MCMachines == {InTime, Slow, Empty}
=============================================================================
