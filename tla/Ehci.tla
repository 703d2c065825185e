-------------------------------- MODULE Ehci --------------------------------
(* The USB host controller driver src/drivers/hci/ehci.c: start of the       *)
(* controller, port reset, control transfers, and reads of a mass-storage    *)
(* device with bulk transfers, against a controller and a device that work   *)
(* at their own pace, fail, or answer late.                                  *)
EXTENDS Integers, Sequences, FiniteSets

CONSTANTS
  Pages, NULL,  \* the frames palloc can hand out, and none
  MaxReads,     \* how many sectors are asked for
  MaxFinds      \* how often the client looks for a port, and for a device

(* palloc never hands out page 0.                                            *)
ASSUME EhciAssumption == NULL \notin Pages /\ MaxReads \in Nat /\ MaxFinds \in Nat

VARIABLES
  free,         \* the frames palloc has
  others,       \* the frames the rest of the kernel has
  head,         \* async_list_head, a page or NULL
  hw,           \* the controller: its bits, ASYNCLISTADDR and the QH it holds
  port,         \* PORTSC of the port with the device
  fifo, todo,   \* the device: packets it has ready, commands it has not begun
  pc, ret,      \* where the driver is, and what the last call returned
  page,         \* the page of the call in progress: CBW and CSW, or descriptors
  ctl,          \* usb_control_transfer: which of four, its page, old_head
  qh,           \* the bulk transfer in progress
  tag,          \* global_tag, from the value it starts at
  mem,          \* what has arrived: in the caller's buffer, in the CSW
  finds,        \* how often ports and devices were looked for
  scribbled     \* the controller wrote to a page that is now someone else's

kernel == <<others, finds>>
device == <<port, fifo, todo, mem, scribbled>>
reading == <<qh, tag>>
vars == <<free, head, hw, pc, ret, page, ctl, kernel, device, reading>>

NoQh == [page |-> NULL, data |-> NULL, stage |-> "none", tag |-> 0, token |-> "none"]
NoCtl == [n |-> 0, page |-> NULL, old |-> NULL]
Packet(kind, t, status) == [kind |-> kind, tag |-> t, status |-> status]
Nothing == Packet("none", 0, 0)

Init ==
  /\ free \in {Pages, {}} /\ others = Pages \ free /\ head = NULL
  /\ hw = [run |-> TRUE, halted |-> FALSE, reset |-> FALSE, async |-> FALSE, async_on |-> FALSE,
           list |-> NULL, held |-> NoQh]
  /\ port \in [connected : BOOLEAN, enabled : BOOLEAN, reset : {FALSE}, owner : {FALSE}, high : BOOLEAN]
  /\ port.enabled => port.connected
  /\ fifo = <<>> /\ todo = <<>> /\ pc = "off" /\ ret = 0 /\ page = NULL /\ ctl = NoCtl
  /\ qh = NoQh /\ tag = 0 /\ mem = [buf |-> Nothing, csw |-> Nothing]
  /\ finds = 0 /\ scribbled = FALSE

Return(value) == ret' = value /\ pc' = "ready"
Goto(label) == pc' = label /\ UNCHANGED ret
-----------------------------------------------------------------------------
(* ehci_init, which the PCI scan calls: it waits without a bound, and without *)
(* a free page it builds the list in page 0 (here NULL).                      *)
Running(p) == [hw EXCEPT !.list = p, !.async = TRUE, !.run = TRUE, !.halted = FALSE]

ehci_init ==
  /\ \/ pc = "off" /\ Goto("init stop") /\ hw' = [hw EXCEPT !.run = FALSE] /\ UNCHANGED <<free, page>>
     \/ /\ pc = "init stop" /\ hw.halted /\ Goto("init reset")
        /\ hw' = [hw EXCEPT !.reset = TRUE] /\ UNCHANGED <<free, page>>
     \/ /\ pc = "init reset" /\ ~ hw.reset /\ Goto("kernel")
        /\ \E p \in free \cup (IF free = {} THEN {NULL} ELSE {}) :
             free' = free \ {p} /\ page' = p /\ hw' = Running(p)
  /\ UNCHANGED <<head, ctl, kernel, device, reading>>

(* ehci_init_simple: ehci_stop_controller and ehci_reset_controller (which    *)
(* finds the controller halted), ehci_init_async_list. Its last wait ends in  *)
(* the same state whether the schedule comes on or the time is over.          *)
ehci_stop_controller ==
  \/ pc = "off" /\ Goto("stop") /\ hw' = [hw EXCEPT !.run = FALSE]
  \/ pc = "stop" /\ hw.halted /\ Goto("reset") /\ hw' = [hw EXCEPT !.reset = TRUE]
  \/ pc = "stop" /\ ~ hw.halted /\ ret' = -1 /\ pc' = "dead" /\ UNCHANGED hw

ehci_reset_controller ==
  /\ pc = "reset" /\ UNCHANGED hw
  /\ IF hw.reset THEN ret' = -2 /\ pc' = "dead" ELSE Goto("async list")

ehci_init_async_list ==
  /\ pc = "async list"
  /\ \/ free = {} /\ ret' = -3 /\ pc' = "dead" /\ UNCHANGED <<free, head, hw>>
     \/ \E p \in free : free' = free \ {p} /\ head' = p /\ hw' = Running(p) /\ Return(0)

ehci_init_simple ==
  /\ \/ (ehci_stop_controller \/ ehci_reset_controller) /\ UNCHANGED <<free, head>>
     \/ ehci_init_async_list
  /\ UNCHANGED <<page, ctl, kernel, device, reading>>
-----------------------------------------------------------------------------
(* ehci_find_and_reset_device: a port reset, whose loop reads PORTSC twice.   *)
ehci_reset_port ==
  \/ /\ pc = "ready" /\ finds < MaxFinds /\ finds' = finds + 1
     /\ IF port.connected
        THEN Goto("enabled?") /\ port' = [port EXCEPT !.enabled = FALSE, !.reset = TRUE]
        ELSE Return(-1) /\ UNCHANGED port
  \/ /\ pc = "enabled?" /\ UNCHANGED <<port, finds>>
     /\ IF port.enabled THEN Return(0) ELSE Goto("in reset?")
  \/ /\ pc = "in reset?" /\ UNCHANGED finds
     /\ \/ ~ port.reset /\ port' = [port EXCEPT !.owner = TRUE] /\ Return(-1)
        \/ port.reset /\ UNCHANGED port /\ (Goto("enabled?") \/ Return(-1))

ehci_find_and_reset_device ==
  /\ ehci_reset_port
  /\ UNCHANGED <<free, others, head, hw, page, ctl, fifo, todo, mem, scribbled, reading>>
-----------------------------------------------------------------------------
(* find_mass_storage_device: four control transfers, each with a list of its  *)
(* own. Their qTDs are never Active, so a transfer ends as soon as it is      *)
(* started and brings nothing; the descriptors stay zero and name no device.  *)
FindStorage ==
  /\ pc = "ready" /\ finds < MaxFinds /\ finds' = finds + 1
  /\ \/ free = {} /\ Return(-1) /\ UNCHANGED <<free, page, ctl>>
     \/ \E p \in free : /\ free' = free \ {p} /\ page' = p
                        /\ ctl' = [NoCtl EXCEPT !.n = 1] /\ Goto("control")
  /\ UNCHANGED <<head, hw>>

FindFailed(freed, rc) ==
  /\ Return(IF ctl.n = 1 THEN -100 - rc ELSE -1 - ctl.n)
  /\ free' = (free \cup {page} \cup freed) /\ page' = NULL /\ ctl' = NoCtl

(* The schedule is told to stop, which the caller has to wait for, and to     *)
(* start at the head of the list.                                             *)
ehci_flush_async == [hw EXCEPT !.async = FALSE]
ehci_run_async == [hw EXCEPT !.list = head, !.async = TRUE]

usb_control_transfer ==
  /\ pc = "control" /\ UNCHANGED finds
  /\ \/ free = {} /\ FindFailed({}, -2) /\ UNCHANGED <<head, hw>>
     \/ \E p \in free : /\ free' = free \ {p} /\ ctl' = [ctl EXCEPT !.page = p, !.old = head]
                        /\ head' = p /\ hw' = ehci_flush_async
                        /\ Goto("flush") /\ UNCHANGED page

NotFlushed ==
  /\ pc = "flush" /\ hw.async_on /\ FindFailed({ctl.page}, -3)
  /\ head' = ctl.old /\ UNCHANGED <<hw, finds>>

ControlEnds ==
  /\ pc = "flush" /\ ~ hw.async_on
  /\ hw' = ehci_run_async
  /\ head' = ctl.old
  /\ IF ctl.n < 4
     THEN /\ free' = free \cup {ctl.page} /\ ctl' = [NoCtl EXCEPT !.n = ctl.n + 1]
          /\ Goto("control") /\ UNCHANGED page
     ELSE free' = (free \cup {ctl.page, page}) /\ ctl' = NoCtl /\ page' = NULL /\ Return(-6)
  /\ UNCHANGED finds

find_mass_storage_device ==
  /\ FindStorage \/ usb_control_transfer \/ NotFlushed \/ ControlEnds
  /\ UNCHANGED <<others, device, reading>>
-----------------------------------------------------------------------------
(* msd_read_sector: the command (CBW), the sector and the status (CSW), each  *)
(* a bulk transfer of ehci_submit_bulk_simple in a page of its own.           *)
Failure == [cbw |-> -2, data |-> -3, csw |-> -4]

msd_read_sector ==
  /\ pc = "ready" /\ tag < MaxReads
  /\ \/ free = {} /\ Return(-1) /\ UNCHANGED <<free, page, reading>>
     \/ \E p \in free : /\ free' = free \ {p} /\ page' = p
                        /\ tag' = tag + 1 /\ qh' = [NoQh EXCEPT !.stage = "cbw"]
                        /\ Goto("submit")
  /\ UNCHANGED mem

(* Both ends of a call give the page of the CBW and CSW back.                 *)
ReadReturns(rc, freed) ==
  /\ Return(rc) /\ free' = (free \cup freed \cup {page}) /\ page' = NULL /\ qh' = NoQh

Submit ==
  /\ pc = "submit" /\ UNCHANGED <<tag, mem>>
  /\ \/ free = {} /\ ReadReturns(Failure[qh.stage], {})
     \/ \E p \in free :
          /\ free' = free \ {p} /\ Goto("poll") /\ UNCHANGED page
          /\ qh' = [page |-> p, data |-> page, stage |-> qh.stage, tag |-> tag, token |-> "active"]

(* The poll loop: a token that is not Active ends it well, whatever else it   *)
(* says; an error bit beside Active, or the time, ends it with a failure. The *)
(* QH is taken off the list and its page freed at once.                       *)
NotInTimeKept ==
  /\ pc = "poll" /\ qh.token \in {"active", "retry"}
  /\ ReadReturns(Failure[qh.stage], {}) /\ UNCHANGED <<tag, mem>>

NotInTime ==
  /\ pc = "poll" /\ qh.token \in {"active", "retry"}
  /\ ReadReturns(Failure[qh.stage], {qh.page}) /\ UNCHANGED <<tag, mem>>

Transferred ==
  /\ pc = "poll" /\ qh.token \in {"done", "halted"} /\ qh.stage # "csw"
  /\ free' = free \cup {qh.page} /\ Goto("submit")
  /\ \/ qh.stage = "cbw" /\ qh' = [NoQh EXCEPT !.stage = "data"] /\ UNCHANGED mem
     \/ /\ qh.stage = "data" /\ qh' = [NoQh EXCEPT !.stage = "csw"]
        /\ mem' = [mem EXCEPT !.csw = Nothing]
  /\ UNCHANGED <<page, tag>>

StatusOfAnyTag == IF mem.csw.kind # "csw" THEN -5 ELSE IF mem.csw.status # 0 THEN -7 ELSE 0

Status ==
  CASE mem.csw.kind # "csw" -> -5
    [] mem.csw.kind = "csw" /\ mem.csw.tag # tag -> -6
    [] OTHER -> IF mem.csw.status # 0 THEN -7 ELSE 0

ReadEnds ==
  /\ pc = "poll" /\ qh.token \in {"done", "halted"} /\ qh.stage = "csw"
  /\ ReadReturns(Status, {qh.page}) /\ UNCHANGED <<tag, mem>>

Read ==
  /\ msd_read_sector \/ Submit \/ NotInTime \/ Transferred \/ ReadEnds
  /\ UNCHANGED <<head, hw, ctl, kernel, port, fifo, todo, scribbled>>
-----------------------------------------------------------------------------
(* The controller: it stops, resets and switches the schedule when told to.   *)
ControllerObeys ==
  /\ \/ ~ hw.run /\ ~ hw.halted /\ hw' = [hw EXCEPT !.halted = TRUE, !.async_on = FALSE]
     \/ /\ hw.reset
        /\ hw' = [hw EXCEPT !.reset = FALSE, !.async = FALSE, !.async_on = FALSE, !.list = NULL]
     \/ hw.run /\ hw.async_on # hw.async /\ hw' = [hw EXCEPT !.async_on = hw.async, !.held = NoQh]
  /\ UNCHANGED <<free, head, pc, ret, page, ctl, kernel, device, reading>>

PortReset ==
  /\ port.reset /\ port' = [port EXCEPT !.reset = FALSE, !.enabled = port.high]
  /\ UNCHANGED <<free, head, hw, pc, ret, page, ctl, kernel, fifo, todo, mem, scribbled, reading>>

(* It takes an Active QH of the list it was given, and works on it even when  *)
(* the driver has meanwhile unlinked it and freed its page.                   *)
Fetch ==
  /\ hw.async_on /\ hw.held = NoQh
  /\ qh.token \in {"active", "retry"} /\ hw.list \in {head, qh.page}
  /\ hw' = [hw EXCEPT !.held = qh]
  /\ UNCHANGED <<free, head, pc, ret, page, ctl, kernel, device, reading>>

SameQh(a, b) == a.page = b.page /\ a.stage = b.stage /\ a.tag = b.tag

(* The CBW and the CSW of a QH are still those of the read in progress.       *)
Current(held) == qh.stage # "none" /\ held.data = page

(* It writes the token, and what it received, where the QH told it to.        *)
WriteBack(token) ==
  /\ hw' = [hw EXCEPT !.held = NoQh]
  /\ qh' = IF SameQh(hw.held, qh) THEN [qh EXCEPT !.token = token] ELSE qh
  /\ scribbled' = \/ scribbled
                  \/ ~ SameQh(hw.held, qh) /\ hw.held.page \notin free
                  \/ hw.held.stage = "csw" /\ ~ Current(hw.held) /\ hw.held.data \notin free

(* One transaction: the CBW goes to the device, or a packet of the device's   *)
(* comes in, one too long for a CSW halts the transfer; or there is none yet; *)
(* or the transaction fails, for good or with tries left.                     *)
Execute ==
  LET held == hw.held IN
  /\ held # NoQh
  /\ \/ /\ held.stage = "cbw" /\ WriteBack(IF Current(held) THEN "done" ELSE "halted")
        /\ todo' = IF Current(held) THEN Append(todo, tag) ELSE todo
        /\ UNCHANGED <<fifo, mem>>
     \/ /\ held.stage # "cbw" /\ fifo = <<>> /\ hw' = [hw EXCEPT !.held = NoQh]
        /\ UNCHANGED <<fifo, todo, mem, qh, scribbled>>
     \/ /\ held.stage = "data" /\ fifo # <<>> /\ WriteBack("done")
        /\ mem' = [mem EXCEPT !.buf = Head(fifo)] /\ fifo' = Tail(fifo) /\ UNCHANGED todo
     \/ /\ held.stage = "csw" /\ fifo # <<>> /\ Head(fifo).kind = "csw" /\ WriteBack("done")
        /\ mem' = IF Current(held) THEN [mem EXCEPT !.csw = Head(fifo)] ELSE mem
        /\ fifo' = Tail(fifo) /\ UNCHANGED todo
     \/ /\ held.stage = "csw" /\ fifo # <<>> /\ Head(fifo).kind = "data" /\ WriteBack("halted")
        /\ UNCHANGED <<fifo, todo, mem>>
     \/ \E token \in {"halted", "retry"} : WriteBack(token) /\ UNCHANGED <<fifo, todo, mem>>
  /\ UNCHANGED <<free, head, pc, ret, page, ctl, kernel, port, tag>>

(* The device carries out its oldest command, well or badly, in its time.     *)
Answer ==
  /\ todo # <<>> /\ todo' = Tail(todo)
  /\ \/ fifo' = fifo \o <<Packet("data", Head(todo), 0), Packet("csw", Head(todo), 0)>>
     \/ fifo' = Append(fifo, Packet("csw", Head(todo), 1))
  /\ UNCHANGED <<free, head, hw, pc, ret, page, ctl, kernel, port, mem, scribbled, reading>>

(* The rest of the kernel takes and returns frames.                           *)
Elsewhere ==
  /\ \/ \E p \in free : free' = free \ {p} /\ others' = others \cup {p}
     \/ \E p \in others : free' = free \cup {p} /\ others' = others \ {p}
  /\ UNCHANGED <<head, hw, pc, ret, page, ctl, finds, device, reading>>

Driver == ehci_init \/ ehci_init_simple \/ ehci_find_and_reset_device \/ find_mass_storage_device \/ Read
Next == Driver \/ ControllerObeys \/ PortReset \/ Fetch \/ Execute \/ Answer \/ Elsewhere

Spec == Init /\ [][Next]_vars
-----------------------------------------------------------------------------
(* msd_read_sector returns 0 only with the sector of its own command in the   *)
(* buffer, whatever was left over from a command that timed out and although  *)
(* a halted transfer passes for a good one (ehci.c:304-337): the CSW must     *)
(* carry the tag (ehci.c:747-762). (As long as the controller did not write   *)
(* to a page that changed hands.)                                             *)
ReadHonest ==
  [][tag > 0 /\ pc = "poll" /\ pc' = "ready" /\ ret' = 0 /\ ~ scribbled
       => mem.buf = Packet("data", tag, 0)]_vars

(* Between calls the driver holds no frame but its list head, whichever of    *)
(* its steps failed or timed out; no frame has two owners (ehci.c:256-340,    *)
(* 703-763).                                                                  *)
UsbPagesReturned ==
  LET mine == {head, page, ctl.page, ctl.old, qh.page} \ {NULL} IN
  /\ free \cap (others \cup mine) = {} /\ others \cap mine = {}
  /\ free \cup others \cup mine = Pages
  /\ pc \in {"ready", "dead"} => mine \subseteq {head}
=============================================================================
