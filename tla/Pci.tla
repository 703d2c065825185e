--------------------------------- MODULE Pci ---------------------------------
(* The enumeration of the PCI buses (drivers/pci/pci.c).  A machine is a      *)
(* function from the places of its functions to what their configuration      *)
(* space says; a place that is not in it reads as vendor 0xFFFF.  The scan is *)
(* the sequence of the controllers it hands to a driver.                      *)
EXTENDS Integers, Sequences, SequencesExt

(* Devices of a bus, and functions of a device: 32 and 8.                     *)
CONSTANTS DevLimit, FuncLimit

Place(bus, device, func) == <<bus, device, func>>

(* The functions that are looked at: all of them if the header type of the    *)
(* first has its top bit set, else the first.                                 *)
func_limit(machine, bus, device) ==
  IF machine[Place(bus, device, 0)].multi THEN FuncLimit ELSE 1

(* A plausible bug: the functions of a device beyond the first are passed     *)
(* over.                                                                      *)
FunctionsFirst(machine, bus, device) ==
  IF Place(bus, device, 0) \notin DOMAIN machine THEN <<>> ELSE <<Place(bus, device, 0)>>

(* Places of the functions of a device that answer.                           *)
Functions(machine, bus, device) ==
  IF Place(bus, device, 0) \notin DOMAIN machine THEN <<>>
  ELSE SelectSeq([f \in 1 .. func_limit(machine, bus, device) |-> Place(bus, device, f - 1)],
                 LAMBDA p : p \in DOMAIN machine)

(* An AHCI controller is handed to sata_search, an EHCI controller to         *)
(* ehci_pci_init; below a bridge the scan goes on at once.  No record is kept *)
(* of the buses it is on: the evaluation ends only for buses that form a tree.*)
RECURSIVE scan_pci_bus(_, _)
scan_pci_bus(machine, bus) ==
  LET scan_pci_function(place) ==
        LET f == machine[place]
        IN CASE f.class = "bridge" -> scan_pci_bus(machine, f.secondary)
             [] f.class \in {"AHCI", "EHCI"} -> <<place>>
             [] OTHER -> <<>>
      scan_pci_device(device) ==
        FlattenSeq([i \in DOMAIN Functions(machine, bus, device) |->
                      scan_pci_function(Functions(machine, bus, device)[i])])
  IN FlattenSeq([d \in 1 .. DevLimit |-> scan_pci_device(d - 1)])

(* With several functions at the first place, each is taken for the host      *)
(* bridge of a bus, whose number is in the byte that is the secondary bus     *)
(* number of a bridge.                                                        *)
start_pci_enumeration(machine) ==
  IF ~ machine[Place(0, 0, 0)].multi
    THEN scan_pci_bus(machine, 0)
    ELSE LET hosts == SelectSeq([f \in 1 .. FuncLimit |-> Place(0, 0, f - 1)],
                                LAMBDA p : p \in DOMAIN machine)
         IN FlattenSeq([i \in DOMAIN hosts |-> scan_pci_bus(machine, machine[hosts[i]].secondary)])
-----------------------------------------------------------------------------
(* The size of the region of a base address register of BarBits, whose        *)
(* address can be changed from the bit 2^k up.                                *)
CONSTANT BarBits

BarModulus == 2 ^ BarBits

(* What the register reads after a write: the type bits below the address     *)
(* stay (external: the device).                                               *)
Written(bar, data) == ((data \div bar.size) * bar.size) + (bar.value % 16)

(* A plausible bug: the type bits are taken for bits of the size.             *)
pci_get_bar_sizeUnmasked(bar) ==
  LET size_mask == Written(bar, BarModulus - 1)
  IN [size |-> (BarModulus - size_mask) % BarModulus, value |-> Written(bar, bar.value)]

pci_get_bar_size(bar) ==
  LET size_mask == (Written(bar, BarModulus - 1) \div 16) * 16
  IN [size |-> (BarModulus - size_mask) % BarModulus, value |-> Written(bar, bar.value)]
=============================================================================
