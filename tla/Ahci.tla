-------------------------------- MODULE Ahci --------------------------------
(* One AHCI port, src/drivers/storage/sata.c: the five functions that issue *)
(* a command to the port and poll for its completion, interleaved with the  *)
(* host bus adapter (HBA), which starts and stops its engines, completes    *)
(* commands and raises errors when it likes, or never.                      *)
(*                                                                          *)
(* A step of the driver is one evaluation of a polling loop's condition, or *)
(* a run of statements in which at most one access to the port matters.     *)
EXTENDS Integers, Sequences

CONSTANTS
  Calls,          \* the functions called, as in Program
  SectorCounts,   \* the sector counts asked for
  Blocks,         \* the addresses at which malloc may place an ahci_port_mem_t
  SATA_WAIT_TIMEOUT, SATA_WAIT_TIMEOUT_PER_SECTOR,
  UINT_MAX        \* the largest value of the counter "timeout"

VARIABLES
  ahci_pc,        \* where the driver is
  ahci_call,      \* the function running, or the last one to run
  timeout,   \* its counter
  port_mem,  \* its ahci_port_mem_t, or NULL
  heap,      \* the blocks of the heap that are allocated
  port,      \* the registers of the port
  ahci_ret,       \* what the last call returned
  expired,   \* the wait for completion ended because the counter ran out
  done       \* the HBA completed the command of this call

ahci_vars == <<ahci_pc, ahci_call, timeout, port_mem, heap, port, ahci_ret, expired, done>>

NULL == -1

-----------------------------------------------------------------------------
(* The steps of the five functions, in the order they are taken.           *)

sata_ahci_read_sectorIssueFirst ==
  <<"stop", "wait CR", "wait FR", "build", "stop again", "spin engines",
    "issue", "start", "poll", "judge", "return">>

sata_ahci_read_sector ==
  <<"stop", "wait CR", "wait FR", "build", "stop again", "spin engines",
    "start", "issue", "poll", "judge", "return">>

sata_ahci_identifyNoFRWait ==
  <<"stop", "spin CR", "build", "start", "issue", "poll", "return">>

sata_ahci_identify ==
  <<"stop", "spin CR", "spin FR", "build", "start", "issue", "poll", "return">>

sata_ahci_identify_satapi ==
  <<"stop", "spin CR", "spin FR", "build", "start", "issue", "poll", "return">>

sata_ahci_identify_satapi_properly ==
  <<"stop", "wait engines", "build", "start", "issue", "poll", "judge", "return">>

sata_ahci_read_sector_satapi ==
  <<"stop", "wait engines", "build", "start", "issue", "poll", "judge", "slot",
    "return">>

Program ==
  [read_sector |-> sata_ahci_read_sector,
   identify |-> sata_ahci_identify,
   identify_satapi |-> sata_ahci_identify_satapi,
   identify_satapi_properly |-> sata_ahci_identify_satapi_properly,
   read_sector_satapi |-> sata_ahci_read_sector_satapi]

(* What the constants must be for this to model the code.                   *)
AhciConstants ==
  /\ Calls \subseteq DOMAIN Program
  /\ Blocks \subseteq Nat /\ SectorCounts \subseteq Nat
  /\ SATA_WAIT_TIMEOUT \in 1 .. UINT_MAX
  /\ SATA_WAIT_TIMEOUT_PER_SECTOR \in Nat
  /\ UINT_MAX \in Nat

(* The step of call c that follows the step s.                             *)
After(c, s) ==
  LET steps == Program[c.fn]
      at == CHOOSE i \in DOMAIN steps : steps[i] = s
  IN  steps[at + 1]

(* The functions that test the result of malloc and convert addresses.      *)
Careful == {"identify_satapi_properly", "read_sector_satapi"}

TFES == 30
ERR  == 31

AhciInit ==
  /\ ahci_pc = "idle"
  /\ ahci_call = [fn |-> "read_sector", count |-> 0]
  /\ timeout = 0 /\ port_mem = NULL /\ heap = {}
  /\ \E on \in BOOLEAN :      \* the firmware may have left the engines running
       port = [st |-> on, fre |-> on, cr |-> on, fr |-> on, ci |-> FALSE, is |-> {}]
  /\ ahci_ret = -1 /\ expired = FALSE /\ done = FALSE

-----------------------------------------------------------------------------
(* The HBA.                                                                *)

(* PxCMD.CR follows PxCMD.ST.                                              *)
HbaCommandEngine ==
  /\ port.cr # port.st
  /\ port' = [port EXCEPT !.cr = port.st]
  /\ UNCHANGED <<ahci_pc, ahci_call, timeout, port_mem, heap, ahci_ret, expired, done>>

(* PxCMD.FR follows PxCMD.FRE.                                             *)
HbaFisEngine ==
  /\ port.fr # port.fre
  /\ port' = [port EXCEPT !.fr = port.fre]
  /\ UNCHANGED <<ahci_pc, ahci_call, timeout, port_mem, heap, ahci_ret, expired, done>>

HbaComplete ==
  /\ port.ci /\ port.st /\ port.cr
  /\ port' = [port EXCEPT !.ci = FALSE]
  /\ done' = TRUE
  /\ UNCHANGED <<ahci_pc, ahci_call, timeout, port_mem, heap, ahci_ret, expired>>

HbaError ==
  /\ port.ci /\ port.st /\ port.cr
  /\ \E e \in {TFES, ERR} \ port.is : port' = [port EXCEPT !.is = @ \cup {e}]
  /\ UNCHANGED <<ahci_pc, ahci_call, timeout, port_mem, heap, ahci_ret, expired, done>>

(* What the port makes of a write to PxCMD that clears ST and FRE, and of   *)
(* a one written to PxCI: no command is accepted while ST is clear, and     *)
(* clearing ST drops the commands that are outstanding.                     *)
StoppedKeepsFre(p) == [p EXCEPT !.st = FALSE, !.ci = FALSE]
Stopped(p) == [p EXCEPT !.st = FALSE, !.fre = FALSE, !.ci = FALSE]
Started(p) == [p EXCEPT !.st = TRUE, !.fre = TRUE]
Issued(p)  == [p EXCEPT !.ci = @ \/ p.st]

-----------------------------------------------------------------------------
(* The driver.                                                             *)

(* free(port_mem) and the return.                                          *)
Return(r) ==
  /\ heap' = heap \ {port_mem}
  /\ port_mem' = NULL
  /\ ahci_pc' = "idle"
  /\ ahci_ret' = r
  /\ UNCHANGED <<ahci_call, port, expired, done>>

(* Entry: the arguments are checked, port_mem is allocated and the port is  *)
(* told its address (which is not modelled).  Without memory the careful    *)
(* functions fail; the others write through a null pointer, and             *)
(* page_fault_handler halts the machine.                                    *)
EnterCall(fn, n) ==
  /\ ahci_pc = "idle"
  /\ ahci_call' = [fn |-> fn, count |-> n]
  /\ expired' = FALSE /\ done' = FALSE
  /\ UNCHANGED timeout
  /\ \/ /\ fn = "read_sector_satapi" /\ n = 0
        /\ ahci_ret' = -1
        /\ UNCHANGED <<ahci_pc, port_mem, heap, port>>
     \/ /\ ~ (fn = "read_sector_satapi" /\ n = 0)
        /\ IF fn \in Careful THEN ahci_pc' = "idle" /\ ahci_ret' = -1
                             ELSE ahci_pc' = "halted" /\ UNCHANGED ahci_ret
        /\ UNCHANGED <<port_mem, heap, port>>
     \/ /\ ~ (fn = "read_sector_satapi" /\ n = 0)
        /\ \E mem \in Blocks \ heap :
             /\ port_mem' = mem
             /\ heap' = heap \cup {mem}
        /\ ahci_pc' = "stop"
        /\ UNCHANGED <<ahci_ret, port>>

Halted ==
  /\ ahci_pc = "halted"
  /\ UNCHANGED ahci_vars

Then == ahci_pc' = After(ahci_call, ahci_pc)
Again == UNCHANGED ahci_pc

(* ST and FRE are cleared, and the counter of the next wait is set.        *)
StopEngines ==
  /\ ahci_pc \in {"stop", "stop again"}
  /\ port' = Stopped(port)
  /\ timeout' = IF ahci_pc = "stop" THEN SATA_WAIT_TIMEOUT ELSE timeout
  /\ Then
  /\ UNCHANGED <<ahci_call, port_mem, heap, ahci_ret, expired, done>>

(* One evaluation of "cond && timeout--".                                  *)
Decrement == IF timeout = 0 THEN UINT_MAX ELSE timeout - 1
Enters(cond) == cond /\ timeout # 0
Countdown(cond) == timeout' = IF cond THEN Decrement ELSE timeout

(* The waits of sata_ahci_read_sector for one engine and then the other:    *)
(* the counter is looked at inside the loop.                                *)
WaitOneNoCheck(engine, code) ==
  /\ Countdown(engine)
  /\ IF Enters(engine) THEN Again ELSE Then
  /\ UNCHANGED <<ahci_call, port_mem, heap, port, ahci_ret, expired, done>>

WaitOne(engine, code) ==
  \/ /\ engine /\ Decrement = 0
     /\ Return(code)
     /\ UNCHANGED timeout
  \/ /\ engine /\ Decrement # 0
     /\ timeout' = Decrement
     /\ Again
     /\ UNCHANGED <<ahci_call, port_mem, heap, port, ahci_ret, expired, done>>
  \/ /\ ~ engine
     /\ timeout' = SATA_WAIT_TIMEOUT
     /\ Then
     /\ UNCHANGED <<ahci_call, port_mem, heap, port, ahci_ret, expired, done>>

WaitCR == ahci_pc = "wait CR" /\ WaitOne(port.cr, 6)
WaitFR == ahci_pc = "wait FR" /\ WaitOne(port.fr, 7)

(* The waits without a counter.                                            *)
Running ==
  CASE ahci_pc = "spin CR" -> port.cr
    [] ahci_pc = "spin FR" -> port.fr
    [] ahci_pc = "spin engines" -> port.cr \/ port.fr

Spin ==
  /\ ahci_pc \in {"spin CR", "spin FR", "spin engines"}
  /\ IF Running THEN Again ELSE Then
  /\ UNCHANGED <<ahci_call, timeout, port_mem, heap, port, ahci_ret, expired, done>>

(* The wait of the careful functions for both engines: the counter is       *)
(* looked at after the loop, where 0 is not the value of a counter that     *)
(* ran out.                                                                 *)
WaitEngines ==
  /\ ahci_pc = "wait engines"
  /\ Countdown(port.cr \/ port.fr)
  /\ IF ~ Enters(port.cr \/ port.fr) /\ timeout' = 0
       THEN Return(-1)
       ELSE /\ IF Enters(port.cr \/ port.fr) THEN Again ELSE Then
            /\ UNCHANGED <<ahci_call, port_mem, heap, port, ahci_ret, expired, done>>

(* The header, the command table and its descriptors are written and PxIS   *)
(* is cleared.                                                              *)
Build ==
  /\ ahci_pc = "build"
  /\ port' = [port EXCEPT !.is = {}]
  /\ Then
  /\ UNCHANGED <<ahci_call, timeout, port_mem, heap, ahci_ret, expired, done>>

Start ==
  /\ ahci_pc = "start"
  /\ port' = Started(port)
  /\ Then
  /\ UNCHANGED <<ahci_call, timeout, port_mem, heap, ahci_ret, expired, done>>

(* PxCI is written; the counter of the wait for completion is set.         *)
Issue ==
  /\ ahci_pc = "issue"
  /\ port' = Issued(port)
  /\ timeout' = IF ahci_call.fn \in {"read_sector", "read_sector_satapi"}
                  THEN (SATA_WAIT_TIMEOUT + ahci_call.count * SATA_WAIT_TIMEOUT_PER_SECTOR)
                         % (UINT_MAX + 1)
                  ELSE SATA_WAIT_TIMEOUT
  /\ Then
  /\ UNCHANGED <<ahci_call, port_mem, heap, ahci_ret, expired, done>>

(* The error bits of PxIS each function looks at while it polls.           *)
Watched ==
  CASE ahci_call.fn \in {"read_sector", "read_sector_satapi"} -> {TFES, ERR}
    [] ahci_call.fn \in {"identify", "identify_satapi"} -> {TFES}
    [] OTHER -> {}

Poll ==
  /\ ahci_pc = "poll"
  /\ Countdown(port.ci)
  /\ expired' = (port.ci /\ timeout = 0)
  /\ IF Enters(port.ci) THEN ahci_pc' = "check" ELSE Then
  /\ UNCHANGED <<ahci_call, port_mem, heap, port, ahci_ret, done>>

Check ==
  /\ ahci_pc = "check"
  /\ UNCHANGED timeout
  /\ \/ /\ port.is \cap Watched # {}
        /\ Return(IF ahci_call.fn = "read_sector_satapi" THEN -1 ELSE 8)
     \/ /\ port.is \cap Watched = {}
        /\ ahci_pc' = "poll"
        /\ UNCHANGED <<ahci_call, port_mem, heap, port, ahci_ret, expired, done>>

(* The look at the counter after the wait for completion.                  *)
JudgeLeaks ==
  /\ ahci_pc = "judge"
  /\ IF timeout = 0
       THEN /\ ahci_pc' = "idle" /\ ahci_ret' = 9 /\ port_mem' = NULL
            /\ UNCHANGED <<ahci_call, timeout, heap, port, expired, done>>
       ELSE /\ timeout' = SATA_WAIT_TIMEOUT
            /\ Then
            /\ UNCHANGED <<ahci_call, port_mem, heap, port, ahci_ret, expired, done>>

Judge ==
  /\ ahci_pc = "judge"
  /\ IF timeout = 0
       THEN /\ Return(IF ahci_call.fn = "read_sector" THEN 9 ELSE -1)
            /\ UNCHANGED timeout
       ELSE /\ timeout' = SATA_WAIT_TIMEOUT
            /\ Then
            /\ UNCHANGED <<ahci_call, port_mem, heap, port, ahci_ret, expired, done>>

(* sata_ahci_read_sector_satapi waits for the slot once more, and ignores   *)
(* how that ends.                                                           *)
WaitSlot ==
  /\ ahci_pc = "slot"
  /\ Countdown(port.ci)
  /\ IF Enters(port.ci) THEN Again ELSE Then
  /\ UNCHANGED <<ahci_call, port_mem, heap, port, ahci_ret, expired, done>>

Succeed == ahci_pc = "return" /\ Return(0) /\ UNCHANGED timeout

Driver ==
  \/ StopEngines \/ WaitCR \/ WaitFR \/ Spin \/ WaitEngines \/ Build
  \/ Start \/ Issue \/ Poll \/ Check \/ Judge \/ WaitSlot \/ Succeed

Hba == HbaCommandEngine \/ HbaFisEngine \/ HbaComplete \/ HbaError

AhciNext ==
  \/ \E fn \in Calls, n \in SectorCounts : EnterCall(fn, n)
  \/ Driver
  \/ Hba
  \/ Halted

(* The processor keeps executing the driver; of the HBA nothing is assumed. *)
AhciSpec == AhciInit /\ [][AhciNext]_ahci_vars /\ WF_ahci_vars(Driver)

(* An HBA that stops an engine when it is told to.                         *)
HbaStopsEngines == WF_ahci_vars(HbaCommandEngine) /\ WF_ahci_vars(HbaFisEngine)

-----------------------------------------------------------------------------
(* Every way out of every function gives back the ahci_port_mem_t it took,  *)
(* and only that (the calls of free in sata.c:110-607).                     *)
PortMemReturned ==
  heap = IF ahci_pc \in {"idle", "halted"} THEN {} ELSE {port_mem}

(* sata_ahci_read_sector and the two functions that spin start the engines  *)
(* only when both have stopped, whatever the HBA does with its time         *)
(* (sata.c:126-146, 206-207, 275-276 and 339-340).                          *)
StartOnlyWhenStopped ==
  ahci_pc = "start" /\ ahci_call.fn \notin Careful => ~ port.cr /\ ~ port.fr

(* A call that returns 0 had its command completed by the HBA, unless its   *)
(* wait ran out (sata.c:226-259, 312-324, 377-389, 462-476, 577-606).       *)
DoneUnlessExpired ==
  ahci_pc = "idle" /\ ahci_ret = 0 => done \/ expired

(* Both of the above: no command is started on a running engine, and none   *)
(* is reported done that the HBA did not do (sata.c:126-146, 226-259).      *)
CommandsOrderly == StartOnlyWhenStopped /\ DoneUnlessExpired

(* A call of a function whose waits are all counted returns, whatever the   *)
(* HBA does: sata_ahci_read_sector in spite of its uncounted wait           *)
(* (sata.c:207), the two careful functions although a counter that ran out  *)
(* does not stop them.                                                      *)
BoundedCallsReturn ==
  \A fn \in Careful \cup {"read_sector"} :
    (ahci_pc = "stop" /\ ahci_call.fn = fn) ~> ahci_pc = "idle"

(* Every call returns when the HBA stops its engines when told to: the      *)
(* identify functions spin on them without a counter (sata.c:275-276).      *)
CallsReturn == HbaStopsEngines => (ahci_pc = "stop" ~> ahci_pc = "idle")

(* sata_ahci_read_sector reports a timeout, 9, exactly when its wait ran    *)
(* out (sata.c:250-255).                                                    *)
ReadResultHonest ==
  ahci_pc = "idle" /\ ahci_call.fn = "read_sector" => (ahci_ret = 9 <=> expired)
=============================================================================
