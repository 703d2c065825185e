----------------------------- MODULE EhciProofs -----------------------------
(***************************************************************************)
(* The USB driver's properties for every pool of pages and any number of   *)
(* reads and searches.                                                     *)
(***************************************************************************)
EXTENDS Ehci, SequenceTheorems, TLAPS

Stages == {"cbw", "data", "csw"}
MaybePage == Pages \cup {NULL}

Qh == [page : MaybePage, data : MaybePage, stage : Stages \cup {"none"}, tag : Nat,
       token : {"none", "active", "retry", "done", "halted"}]
Ctl == [n : 0 .. 4, page : MaybePage, old : MaybePage]

TypeInv ==
  /\ free \subseteq Pages /\ others \subseteq Pages
  /\ head \in MaybePage /\ page \in MaybePage
  /\ ctl \in Ctl /\ qh \in Qh /\ tag \in Nat
  /\ "held" \in DOMAIN hw /\ hw.held \in Qh

(* Which pages the driver holds where it is; those it holds are different. *)
Shape ==
  \/ /\ pc \in {"off", "init stop", "init reset", "stop", "reset", "async list", "dead"}
     /\ head = NULL /\ page = NULL /\ ctl = NoCtl /\ qh = NoQh
  \/ pc = "kernel" /\ head = NULL /\ ctl = NoCtl /\ qh = NoQh
  \/ /\ pc \in {"ready", "enabled?", "in reset?"}
     /\ head \in Pages /\ page = NULL /\ ctl = NoCtl /\ qh = NoQh
  \/ /\ pc = "control" /\ ctl.n \in 1 .. 4 /\ ctl.page = NULL /\ ctl.old = NULL
     /\ head \in Pages /\ page \in Pages /\ head # page /\ qh = NoQh
  \/ /\ pc = "flush" /\ ctl.n \in 1 .. 4 /\ qh = NoQh
     /\ ctl.page \in Pages /\ head = ctl.page /\ ctl.old \in Pages /\ page \in Pages
     /\ ctl.page # ctl.old /\ page \notin {ctl.page, ctl.old}
  \/ /\ pc = "submit" /\ ctl = NoCtl
     /\ qh.page = NULL /\ qh.stage \in Stages /\ qh.token = "none"
     /\ head \in Pages /\ page \in Pages /\ head # page
  \/ /\ pc = "poll" /\ ctl = NoCtl
     /\ qh.stage \in Stages /\ qh.token # "none" /\ qh.tag = tag
     /\ head \in Pages /\ page \in Pages /\ qh.page \in Pages
     /\ head # page /\ qh.page \notin {head, page}

Mine == {head, page, ctl.page, ctl.old, qh.page} \ {NULL}

Owned ==
  /\ free \cap (others \cup Mine) = {} /\ others \cap Mine = {}
  /\ free \cup others \cup Mine = Pages

(* The transfer the controller works on: of an earlier read, or the one    *)
(* the driver polls for.  The status stage has only its own.               *)
HeldInv ==
  \/ hw.held = NoQh
  \/ /\ hw.held.stage \in Stages /\ hw.held.page \in Pages /\ hw.held.tag <= tag
     /\ pc \in {"submit", "poll"} =>
          \/ hw.held.tag < tag /\ qh.stage = "cbw"
               /\ qh.token \notin {"done", "halted"}
          \/ SameQh(hw.held, qh) /\ pc = "poll" /\ qh.token \in {"active", "retry"}

(* The device's packets: a good status follows its data, wherever it is.   *)
Packets == [kind : {"none", "data", "csw"}, tag : Nat, status : {0, 1}]
Good(p) == p.kind = "csw" /\ p.status = 0

Ordered(b, f) ==
  \A i \in 1 .. Len(f) : Good(f[i]) =>
    (IF i = 1 THEN b ELSE f[i - 1]) = Packet("data", f[i].tag, 0)

FifoInv ==
  /\ todo \in Seq(Nat) /\ fifo \in Seq(Packets)
  /\ mem \in [buf : Packets, csw : Packets]
  /\ Ordered(mem.buf, fifo)
  /\ qh.stage = "csw" /\ Good(mem.csw) => mem.buf = Packet("data", mem.csw.tag, 0)

IInv == TypeInv /\ Shape /\ Owned /\ HeldInv /\ FifoInv

-----------------------------------------------------------------------------
LEMMA InitIInv == Init => IInv
  <1> SUFFICES ASSUME Init PROVE IInv
    OBVIOUS
  <1>1. NoQh \in Qh /\ NoCtl \in Ctl /\ Nothing \in Packets
    BY DEF NoQh, Qh, NoCtl, Ctl, Nothing, Packets, Packet, MaybePage, Stages
  <1>2. TypeInv
    BY <1>1 DEF Init, TypeInv, MaybePage
  <1>3. Shape
    BY DEF Init, Shape
  <1>4. Owned
    BY DEF Init, Owned, Mine, NoQh, NoCtl
  <1>5. HeldInv
    BY DEF Init, HeldInv
  <1>6. FifoInv
    <2>1. ~ Good(Nothing) /\ fifo = <<>> /\ todo = <<>> /\ mem = [buf |-> Nothing, csw |-> Nothing]
      BY DEF Init, Good, Nothing, Packet
    <2>2. QED
      BY <1>1, <2>1 DEF FifoInv, Ordered
  <1>7. QED
    BY <1>2, <1>3, <1>4, <1>5, <1>6 DEF IInv

(* The controller holds on to its transfer while no read is in progress.   *)
LEMMA HeldKept ==
  ASSUME HeldInv, hw'.held = hw.held, tag' = tag, pc' \notin {"submit", "poll"}
  PROVE  HeldInv'
  BY DEF HeldInv

LEMMA FifoKept ==
  ASSUME FifoInv, todo' = todo, fifo' = fifo, mem' = mem, qh'.stage \in {qh.stage, "cbw", "data", "none"}
  PROVE  FifoInv'
  BY DEF FifoInv

(* Starting the controller.                                                *)
LEMMA StartStep ==
  ASSUME IInv, ehci_init \/ ehci_init_simple
  PROVE  IInv'
  <1> USE DEF kernel, device, reading
  <1>1. UNCHANGED <<ctl, others, finds, port, fifo, todo, mem, scribbled, qh, tag>>
    BY ZenonT(60) DEF ehci_init, ehci_init_simple
  <1>2. hw'.held = hw.held /\ "held" \in DOMAIN hw'
    BY ZenonT(60) DEF IInv, TypeInv, ehci_init, ehci_init_simple, ehci_init_async_list,
       ehci_stop_controller, ehci_reset_controller, Running
  <1> DEFINE Early == {"off", "init stop", "init reset", "stop", "reset", "async list", "dead"}
  <1>3. /\ pc \in Early
        /\ \/ UNCHANGED <<free, head, page>> /\ pc' \in Early
           \/ UNCHANGED head /\ pc' = "kernel"
                /\ \E p \in free \cup {NULL} : free' = free \ {p} /\ page' = p
           \/ UNCHANGED page /\ pc' = "ready"
                /\ \E p \in free : free' = free \ {p} /\ head' = p
    BY DEF ehci_init, ehci_init_simple, ehci_init_async_list,
       ehci_stop_controller, ehci_reset_controller, Goto, Return
  <1>4. head = NULL /\ page = NULL /\ ctl = NoCtl /\ qh = NoQh
    BY <1>3 DEF IInv, Shape
  <1>5. TypeInv'
    BY <1>1, <1>2, <1>3 DEF IInv, TypeInv, MaybePage
  <1>6. Shape'
    BY <1>1, <1>3, <1>4 DEF IInv, TypeInv, Shape
  <1>7. Owned'
    <2>1. Mine = {}
      BY <1>4 DEF Mine, NoCtl, NoQh
    <2>2. Mine' = {head', page'} \ {NULL}
      BY <1>1, <1>4 DEF Mine, NoCtl, NoQh
    <2>3. \/ free' = free /\ Mine' = {}
          \/ \E p \in free : free' = free \ {p} /\ Mine' = {p}
      BY ZenonT(60), <1>3, <1>4, <2>2, EhciAssumption DEF IInv, TypeInv
    <2>4. QED
      BY <1>1, <2>1, <2>3 DEF IInv, Owned
  <1>8. HeldInv' /\ FifoInv'
    BY <1>1, <1>2, <1>3, HeldKept, FifoKept DEF IInv
  <1>9. QED
    BY <1>5, <1>6, <1>7, <1>8 DEF IInv

LEMMA PortStep ==
  ASSUME IInv, ehci_find_and_reset_device \/ PortReset
  PROVE  IInv'
  <1> USE DEF kernel, device, reading
  <1>1. UNCHANGED <<free, others, head, hw, page, ctl, fifo, todo, mem, qh, tag>>
    BY DEF ehci_find_and_reset_device, PortReset
  <1>2. \/ pc' = pc
        \/ {pc, pc'} \subseteq {"ready", "enabled?", "in reset?"}
    BY DEF ehci_find_and_reset_device, ehci_reset_port, PortReset, Goto, Return
  <1>3. TypeInv' /\ Owned'
    BY <1>1 DEF IInv, TypeInv, Owned, Mine
  <1>4. Shape'
    BY ZenonT(60), <1>1, <1>2 DEF IInv, Shape
  <1>5. HeldInv' /\ FifoInv'
    BY <1>1, <1>2 DEF IInv, HeldInv, FifoInv, SameQh
  <1>6. QED
    BY <1>3, <1>4, <1>5 DEF IInv

(* The search for a device: four control transfers.                        *)
LEMMA FindStep ==
  ASSUME IInv, find_mass_storage_device
  PROVE  IInv'
  <1> USE DEF kernel, device, reading
  <1>1. UNCHANGED <<others, fifo, todo, mem, qh, tag>>
    BY DEF find_mass_storage_device
  <1>2. hw'.held = hw.held /\ "held" \in DOMAIN hw'
    BY ZenonT(60) DEF IInv, TypeInv, find_mass_storage_device, FindStorage, usb_control_transfer,
       NotFlushed, ControlEnds, ehci_flush_async, ehci_run_async
  <1>3. pc \in {"ready", "control", "flush"} /\ pc' \in {"ready", "control", "flush"}
    BY ZenonT(60) DEF find_mass_storage_device, FindStorage, usb_control_transfer,
       NotFlushed, ControlEnds, FindFailed, Goto, Return
  <1>4. HeldInv' /\ FifoInv'
    BY <1>1, <1>2, <1>3, HeldKept, FifoKept DEF IInv
  <1>5. "held" \in DOMAIN hw' /\ hw'.held \in Qh /\ qh' \in Qh /\ tag' \in Nat
    BY <1>1, <1>2 DEF IInv, TypeInv
  <1>6. CASE FindStorage
    <2>1. head \in Pages /\ page = NULL /\ ctl = NoCtl /\ qh = NoQh
      BY <1>6 DEF FindStorage, IInv, Shape
    <2>2. head' = head /\ qh' = NoQh
      BY <1>1, <1>6, <2>1 DEF FindStorage
    <2>3. \/ UNCHANGED <<free, page, ctl>> /\ pc' = "ready"
          \/ \E p \in free : /\ free' = free \ {p} /\ page' = p /\ pc' = "control"
                             /\ ctl' = [n |-> 1, page |-> NULL, old |-> NULL]
      BY <1>6 DEF FindStorage, NoCtl, Goto, Return
    <2>4. Mine = {head}
      BY <2>1, EhciAssumption DEF Mine, NoCtl, NoQh
    <2>5. \/ free' = free /\ Mine' = {head}
          \/ free' = free \ {page'} /\ page' \in free /\ Mine' = {head, page'}
      BY <2>1, <2>2, <2>3, EhciAssumption DEF IInv, TypeInv, Mine, NoCtl, NoQh
    <2>6. TypeInv'
      BY <1>1, <1>5, <2>2, <2>3 DEF IInv, TypeInv, MaybePage, Ctl
    <2>7. Owned'
      BY <1>1, <2>4, <2>5 DEF IInv, Owned
    <2>8. Shape'
      <3>1. page' \in free => page' # head /\ page' \in Pages
        BY <2>4 DEF IInv, TypeInv, Owned
      <3>2. CASE UNCHANGED <<free, page, ctl>> /\ pc' = "ready"
        BY <2>1, <2>2, <3>2 DEF Shape
      <3>3. CASE \E p \in free : /\ free' = free \ {p} /\ page' = p /\ pc' = "control"
                                 /\ ctl' = [n |-> 1, page |-> NULL, old |-> NULL]
        <4>1. ctl'.n \in 1 .. 4 /\ ctl'.page = NULL /\ ctl'.old = NULL /\ page' \in free /\ pc' = "control"
          BY SMTT(60), <3>3
        <4>2. QED
          BY <2>1, <2>2, <3>1, <4>1 DEF Shape
      <3>4. QED
        BY <2>3, <3>2, <3>3
    <2>9. QED
      BY <1>4, <2>6, <2>7, <2>8 DEF IInv
  <1> DEFINE Searching ==
        /\ ctl.n \in 1 .. 4 /\ ctl \in Ctl /\ qh = NoQh
        /\ head \in Pages /\ page \in Pages /\ head # page
  <1>7. CASE usb_control_transfer
    <2>1. Searching /\ ctl.page = NULL /\ ctl.old = NULL
      BY ZenonT(60), <1>7 DEF usb_control_transfer, IInv, TypeInv, Shape
    <2>2. Mine = {head, page}
      BY SMTT(60), <2>1, EhciAssumption DEF Mine, NoQh
    <2>3. \/ /\ free' = free \cup {page} /\ head' = head /\ page' = NULL /\ ctl' = NoCtl
             /\ pc' = "ready"
          \/ \E p \in free : /\ free' = free \ {p} /\ head' = p /\ page' = page /\ pc' = "flush"
                             /\ ctl' = [ctl EXCEPT !.page = p, !.old = head]
      BY ZenonT(60), <1>7 DEF usb_control_transfer, FindFailed, Goto, Return
    <2>4. CASE free' = free \cup {page} /\ head' = head /\ page' = NULL /\ ctl' = NoCtl /\ pc' = "ready"
      <3>1. Mine' = {head}
        BY <1>1, <2>1, <2>4, EhciAssumption DEF Mine, NoCtl, NoQh
      <3>2. Owned'
        BY <1>1, <2>1, <2>2, <2>4, <3>1 DEF IInv, Owned
      <3>3. TypeInv'
        BY <1>1, <1>5, <2>1, <2>4 DEF IInv, TypeInv, MaybePage, Ctl, NoCtl
      <3>4. Shape'
        BY <1>1, <2>1, <2>4 DEF Shape
      <3>5. QED
        BY <1>4, <3>2, <3>3, <3>4 DEF IInv
    <2>5. CASE \E p \in free : /\ free' = free \ {p} /\ head' = p /\ page' = page /\ pc' = "flush"
                               /\ ctl' = [ctl EXCEPT !.page = p, !.old = head]
      <3>1. /\ head' \in free /\ free' = free \ {head'}
            /\ ctl'.page = head' /\ ctl'.old = head /\ ctl'.n = ctl.n /\ ctl' \in Ctl
        BY ZenonT(60), <2>1, <2>5 DEF IInv, TypeInv, Ctl, MaybePage
      <3>2. head' \in Pages /\ head' \notin {head, page}
        BY <2>2, <3>1 DEF IInv, TypeInv, Owned
      <3>3. Mine' = {head', head, page}
        BY <1>1, <2>1, <2>5, <3>1, <3>2, EhciAssumption DEF Mine, NoQh
      <3>4. Owned'
        BY <1>1, <2>2, <3>1, <3>3 DEF IInv, Owned
      <3>5. TypeInv'
        BY <1>1, <1>5, <2>5, <3>1, <3>2 DEF IInv, TypeInv, MaybePage
      <3>6. Shape'
        BY <1>1, <2>1, <2>5, <3>1, <3>2 DEF Shape
      <3>7. QED
        BY <1>4, <3>4, <3>5, <3>6 DEF IInv
    <2>6. QED
      BY ZenonT(60), <2>3, <2>4, <2>5
  <1>8. CASE NotFlushed \/ ControlEnds
    <2>1. /\ Searching /\ head = ctl.page /\ ctl.page \in Pages /\ ctl.old \in Pages
          /\ ctl.page # ctl.old /\ page \notin {ctl.page, ctl.old}
      BY <1>8 DEF NotFlushed, ControlEnds, IInv, TypeInv, Shape
    <2>2. Mine = {ctl.page, ctl.old, page}
      BY <2>1, EhciAssumption DEF Mine, NoQh
    <2>3. /\ head' = ctl.old
          /\ \/ /\ free' = free \cup {page, ctl.page} /\ page' = NULL /\ ctl' = NoCtl
                /\ pc' = "ready"
             \/ /\ free' = free \cup {ctl.page} /\ page' = page /\ pc' = "control"
                /\ ctl.n < 4 /\ ctl' = [n |-> ctl.n + 1, page |-> NULL, old |-> NULL]
      BY <1>8 DEF NotFlushed, ControlEnds, FindFailed, NoCtl, Goto, Return
    <2>4. /\ Mine' = {ctl.old} \cup ({page'} \ {NULL})
          /\ page' = NULL \/ page' = page
      BY <1>1, <2>1, <2>3, EhciAssumption DEF Mine, NoCtl, NoQh
    <2>5. Owned'
      BY <1>1, <2>1, <2>2, <2>3, <2>4, EhciAssumption DEF IInv, Owned
    <2>6. TypeInv'
      BY <1>1, <1>5, <2>1, <2>3 DEF IInv, TypeInv, MaybePage, Ctl, NoCtl
    <2>7. Shape'
      <3>1. CASE page' = NULL /\ ctl' = NoCtl /\ pc' = "ready"
        BY <1>1, <2>1, <2>3, <3>1 DEF Shape
      <3>2. CASE /\ page' = page /\ pc' = "control"
                 /\ ctl.n < 4 /\ ctl' = [n |-> ctl.n + 1, page |-> NULL, old |-> NULL]
        <4>1. ctl'.n \in 1 .. 4 /\ ctl'.page = NULL /\ ctl'.old = NULL
          BY <2>1, <3>2
        <4>2. QED
          BY <1>1, <2>1, <2>3, <3>2, <4>1 DEF Shape
      <3>3. QED
        BY <2>3, <3>1, <3>2
    <2>8. QED
      BY <1>4, <2>5, <2>6, <2>7 DEF IInv
  <1>9. QED
    BY <1>6, <1>7, <1>8 DEF find_mass_storage_device

-----------------------------------------------------------------------------
(* A read of a sector.                                                     *)
LEMMA BeginStep ==
  ASSUME IInv, msd_read_sector, UNCHANGED <<head, hw, ctl, kernel, port, fifo, todo, scribbled>>
  PROVE  IInv'
  <1>1. head \in Pages /\ page = NULL /\ ctl = NoCtl /\ qh = NoQh /\ pc = "ready"
    BY DEF msd_read_sector, IInv, Shape
  <1>2. Mine = {head}
    BY <1>1, EhciAssumption DEF Mine, NoCtl, NoQh
  <1>3. CASE UNCHANGED <<free, page, qh, tag, mem>> /\ pc' = "ready"
    <2>1. TypeInv' /\ Shape' /\ Owned'
      BY <1>1, <1>3 DEF IInv, TypeInv, Shape, Owned, Mine, kernel
    <2>2. HeldInv' /\ FifoInv'
      BY <1>3, HeldKept, FifoKept DEF IInv
    <2>3. QED
      BY SMTT(60), <2>1, <2>2 DEF IInv
  <1>4. CASE \E p \in free : /\ free' = free \ {p} /\ page' = p /\ tag' = tag + 1 /\ pc' = "submit"
                             /\ qh' = [NoQh EXCEPT !.stage = "cbw"] /\ mem' = mem
    <2>1. page' \in free /\ free' = free \ {page'} /\ tag' = tag + 1 /\ pc' = "submit" /\ mem' = mem
      BY <1>4
    <2>2. /\ qh' \in Qh /\ qh'.page = NULL /\ qh'.stage = "cbw" /\ qh'.token = "none"
      BY <1>4 DEF NoQh, Qh, MaybePage, Stages
    <2>3. page' \in Pages /\ page' # head
      BY <1>2, <2>1 DEF IInv, TypeInv, Owned
    <2>4. Mine' = {head, page'}
      BY <1>1, <2>2, <2>3, EhciAssumption DEF Mine, NoCtl
    <2>5. Owned'
      BY <1>2, <2>1, <2>4 DEF IInv, Owned, kernel
    <2>6. TypeInv'
      BY <2>1, <2>2, <2>3 DEF IInv, TypeInv, MaybePage, kernel
    <2>7. Shape'
      BY <1>1, <2>1, <2>2, <2>3 DEF Shape, Stages
    <2>8. HeldInv'
      BY <2>1, <2>2 DEF IInv, TypeInv, Qh, HeldInv
    <2>9. FifoInv'
      BY <2>1, <2>2, FifoKept DEF IInv
    <2>10. QED
      BY <2>5, <2>6, <2>7, <2>8, <2>9 DEF IInv
  <1>5. QED
    BY <1>3, <1>4 DEF msd_read_sector, Goto, Return, reading

LEMMA SubmitStep ==
  ASSUME IInv, UNCHANGED <<head, hw, ctl, kernel, port, fifo, todo, scribbled, tag, mem>>,
         pc = "submit", NEW p \in free, free' = free \ {p}, pc' = "poll", page' = page,
         qh' = [page |-> p, data |-> page, stage |-> qh.stage, tag |-> tag, token |-> "active"]
  PROVE  IInv'
  <1>1. /\ ctl = NoCtl /\ qh.page = NULL /\ qh.stage \in Stages /\ qh.token = "none"
        /\ head \in Pages /\ page \in Pages /\ head # page
    BY DEF IInv, Shape
  <1>2. Mine = {head, page}
    BY <1>1, EhciAssumption DEF Mine, NoCtl
  <1>3. p \in Pages /\ p \notin {head, page}
    BY <1>2 DEF IInv, TypeInv, Owned
  <1>4. Mine' = {head, page, p}
    BY <1>1, <1>3, EhciAssumption DEF Mine, NoCtl
  <1>5. Owned'
    BY <1>2, <1>4 DEF IInv, Owned, kernel
  <1>6. TypeInv'
    BY <1>1, <1>3 DEF IInv, TypeInv, Qh, MaybePage, kernel
  <1>7. Shape'
    <2>1. qh'.page = p /\ qh'.stage = qh.stage /\ qh'.tag = tag /\ qh'.token = "active"
      OBVIOUS
    <2>2. QED
      BY <1>1, <1>3, <2>1 DEF Shape
  <1>8. HeldInv'
    BY <1>1 DEF IInv, HeldInv, SameQh
  <1>9. FifoInv'
    BY FifoKept DEF IInv
  <1>10. QED
    BY <1>5, <1>6, <1>7, <1>8, <1>9 DEF IInv

(* The return of a read, with the page of the transfer, if any, given back.*)
LEMMA ReadReturnsStep ==
  ASSUME IInv, UNCHANGED <<head, hw, ctl, kernel, port, fifo, todo, scribbled, tag, mem>>,
         pc \in {"submit", "poll"}, NEW rc, ReadReturns(rc, {qh.page} \ {NULL})
  PROVE  IInv'
  <1>1. /\ ctl = NoCtl /\ head \in Pages /\ page \in Pages /\ head # page
        /\ qh.page = NULL \/ qh.page \in Pages
        /\ qh.page \notin {head, page}
    BY EhciAssumption DEF IInv, Shape
  <1>2. /\ pc' = "ready" /\ page' = NULL /\ qh' = NoQh
        /\ free' = free \cup {page} \cup ({qh.page} \ {NULL})
    BY DEF ReadReturns, Return
  <1>3. Mine = {head, page} \cup ({qh.page} \ {NULL})
    BY <1>1, EhciAssumption DEF Mine, NoCtl
  <1>4. Mine' = {head}
    BY <1>1, <1>2, EhciAssumption DEF Mine, NoCtl, NoQh
  <1>5. Owned'
    BY SMTT(60), <1>1, <1>2, <1>3, <1>4 DEF IInv, Owned, kernel
  <1>6. TypeInv'
    BY <1>1, <1>2, EhciAssumption DEF IInv, TypeInv, NoQh, Qh, MaybePage, kernel, Stages
  <1>7. Shape'
    BY <1>1, <1>2 DEF Shape
  <1>8. HeldInv'
    BY <1>2, HeldKept DEF IInv
  <1>9. FifoInv'
    BY <1>2, FifoKept DEF IInv, NoQh
  <1>10. QED
    BY SMTT(60), <1>5, <1>6, <1>7, <1>8, <1>9 DEF IInv

LEMMA TransferredStep ==
  ASSUME IInv, UNCHANGED <<head, hw, ctl, kernel, port, fifo, todo, scribbled>>, Transferred
  PROVE  IInv'
  <1>1. /\ ctl = NoCtl /\ head \in Pages /\ page \in Pages /\ head # page
        /\ qh.page \in Pages /\ qh.page \notin {head, page}
    BY DEF Transferred, IInv, Shape
  <1>2. /\ pc = "poll" /\ qh.token \in {"done", "halted"} /\ pc' = "submit"
        /\ free' = free \cup {qh.page} /\ page' = page /\ tag' = tag
    BY DEF Transferred, Goto
  <1>3. /\ qh' \in Qh /\ qh'.page = NULL /\ qh'.stage \in {"data", "csw"} /\ qh'.token = "none"
        /\ \/ mem' = mem /\ qh'.stage = "data"
           \/ mem' = [mem EXCEPT !.csw = Nothing] /\ qh'.stage = "csw"
    BY DEF Transferred, NoQh, Qh, MaybePage, Stages
  <1>4. Mine = {head, page, qh.page} /\ Mine' = {head, page}
    BY <1>1, <1>2, <1>3, EhciAssumption DEF Mine, NoCtl
  <1>5. Owned'
    BY <1>1, <1>2, <1>4 DEF IInv, Owned, kernel
  <1>6. TypeInv'
    BY <1>1, <1>2, <1>3 DEF IInv, TypeInv, kernel
  <1>7. Shape'
    BY <1>1, <1>2, <1>3 DEF Shape, Stages
  <1>8. HeldInv'
    BY <1>2 DEF IInv, HeldInv
  <1>9. FifoInv'
    <2>1. CASE mem' = mem /\ qh'.stage = "data"
      BY <2>1, FifoKept DEF IInv
    <2>2. CASE mem' = [mem EXCEPT !.csw = Nothing] /\ qh'.stage = "csw"
      <3>1. Nothing \in Packets /\ ~ Good(Nothing)
        BY DEF Nothing, Packets, Packet, Good
      <3>2. mem' \in [buf : Packets, csw : Packets] /\ mem'.buf = mem.buf /\ mem'.csw = Nothing
        BY <2>2, <3>1 DEF IInv, FifoInv
      <3>3. QED
        BY <3>1, <3>2 DEF IInv, FifoInv
    <2>3. QED
      BY <1>3, <2>1, <2>2
  <1>10. QED
    BY <1>5, <1>6, <1>7, <1>8, <1>9 DEF IInv

LEMMA ReadStep ==
  ASSUME IInv, Read
  PROVE  IInv'
  <1>1. UNCHANGED <<head, hw, ctl, kernel, port, fifo, todo, scribbled>>
    BY DEF Read
  <1>2. CASE msd_read_sector
    BY <1>1, <1>2, BeginStep
  <1>3. CASE Submit
    <2>1. CASE \E p \in free :
                 /\ free' = free \ {p} /\ Goto("poll") /\ UNCHANGED page
                 /\ qh' = [page |-> p, data |-> page, stage |-> qh.stage, tag |-> tag, token |-> "active"]
      BY <1>1, <1>3, <2>1, SubmitStep DEF Submit, Goto
    <2>2. CASE free = {} /\ ReadReturns(Failure[qh.stage], {})
      <3>1. {qh.page} \ {NULL} = {}
        BY <1>3 DEF Submit, IInv, Shape
      <3>2. QED
        BY SMTT(60), <1>1, <1>3, <2>2, <3>1, ReadReturnsStep DEF Submit
    <2>3. QED
      BY SMTT(60), <1>3, <2>1, <2>2 DEF Submit
  <1>4. CASE NotInTime \/ ReadEnds
    <2>1. {qh.page} \ {NULL} = {qh.page}
      BY <1>4, EhciAssumption DEF NotInTime, ReadEnds, IInv, Shape
    <2>2. pc = "poll" /\ UNCHANGED <<tag, mem>>
      BY <1>4 DEF NotInTime, ReadEnds
    <2>3. ReadReturns(Failure[qh.stage], {qh.page} \ {NULL}) \/ ReadReturns(Status, {qh.page} \ {NULL})
      BY <1>4, <2>1 DEF NotInTime, ReadEnds
    <2>4. QED
      BY <1>1, <2>2, <2>3, ReadReturnsStep
  <1>5. CASE Transferred
    BY <1>1, <1>5, TransferredStep
  <1>6. QED
    BY <1>2, <1>3, <1>4, <1>5 DEF Read

-----------------------------------------------------------------------------
(* The device's packets.                                                   *)
LEMMA HeadIsFirst ==
  ASSUME NEW f \in Seq(Packets), f # <<>>
  PROVE  Head(f) = f[1] /\ Len(f) \in Nat /\ Len(f) >= 1 /\ f[1] \in Packets
  BY EmptySeq, HeadTailProperties

LEMMA TailOrdered ==
  ASSUME NEW f \in Seq(Packets), f # <<>>, NEW b, Ordered(b, f)
  PROVE  /\ Ordered(Head(f), Tail(f))
         /\ Head(f).kind = "csw" => \A c : Ordered(c, Tail(f))
  <1>1. /\ Len(Tail(f)) = Len(f) - 1 /\ Len(f) \in Nat
        /\ \A i \in 1 .. Len(Tail(f)) : Tail(f)[i] = f[i + 1]
        /\ Head(f) = f[1]
    BY HeadTailProperties, HeadIsFirst
  <1>2. ASSUME NEW i \in 1 .. Len(Tail(f)), Good(Tail(f)[i])
        PROVE  (IF i = 1 THEN Head(f) ELSE Tail(f)[i - 1]) = Packet("data", Tail(f)[i].tag, 0)
    <2>1. i + 1 \in 1 .. Len(f) /\ i + 1 # 1 /\ (i + 1) - 1 = i
      BY <1>1
    <2>2. f[i] = Packet("data", f[i + 1].tag, 0)
      BY <1>1, <1>2, <2>1 DEF Ordered
    <2>3. i # 1 => i - 1 \in 1 .. Len(Tail(f)) /\ (i - 1) + 1 = i
      BY <1>1
    <2>4. QED
      BY <1>1, <2>2, <2>3
  <1>3. Ordered(Head(f), Tail(f))
    BY <1>2 DEF Ordered
  <1>4. ASSUME Head(f).kind = "csw", NEW c PROVE Ordered(c, Tail(f))
    <2>1. ASSUME NEW t PROVE Head(f) # Packet("data", t, 0)
      BY <1>4 DEF Packet
    <2>2. QED
      BY <1>2, <2>1 DEF Ordered
  <1>5. QED
    BY <1>3, <1>4

LEMMA AnswerOrdered ==
  ASSUME NEW f \in Seq(Packets), NEW b, Ordered(b, f), NEW t \in Nat
  PROVE  /\ f \o <<Packet("data", t, 0), Packet("csw", t, 0)>> \in Seq(Packets)
         /\ Ordered(b, f \o <<Packet("data", t, 0), Packet("csw", t, 0)>>)
         /\ Append(f, Packet("csw", t, 1)) \in Seq(Packets)
         /\ Ordered(b, Append(f, Packet("csw", t, 1)))
  <1> DEFINE d == Packet("data", t, 0)
             c == Packet("csw", t, 0)
             x == Packet("csw", t, 1)
             n == Len(f)
             g == f \o <<d, c>>
             h == Append(f, x)
  <1>1. d \in Packets /\ c \in Packets /\ x \in Packets
        /\ ~ Good(d) /\ ~ Good(x) /\ c.tag = t
    BY DEF Packet, Packets, Good
  <1> HIDE DEF d, c, x
  <1>2. n \in Nat /\ g \in Seq(Packets) /\ h \in Seq(Packets)
    BY <1>1, LenProperties
  <1>3. Len(g) = n + 2 /\ g[n + 1] = d /\ g[n + 2] = c /\ \A i \in 1 .. n : g[i] = f[i]
    <2>1. <<d, c>> \in Seq(Packets) /\ Len(<<d, c>>) = 2 /\ <<d, c>>[1] = d /\ <<d, c>>[2] = c
      BY <1>1
    <2>2. QED
      BY <1>2, <2>1, ConcatProperties
  <1>4. Len(h) = n + 1 /\ h[n + 1] = x /\ \A i \in 1 .. n : h[i] = f[i]
    BY <1>1, <1>2
  <1> HIDE DEF g, h
  <1>5. Ordered(b, g)
    <2>1. SUFFICES ASSUME NEW i \in 1 .. n + 2, Good(g[i])
                   PROVE  (IF i = 1 THEN b ELSE g[i - 1]) = Packet("data", g[i].tag, 0)
      BY <1>2, <1>3 DEF Ordered
    <2>2. CASE i \in 1 .. n
      <3>1. i # 1 => i - 1 \in 1 .. n
        BY <1>2, <2>2
      <3>2. QED
        BY <1>3, <2>1, <2>2, <3>1 DEF Ordered
    <2>3. CASE i = n + 1
      BY <1>1, <1>3, <2>1, <2>3
    <2>4. CASE i = n + 2
      <3>1. i # 1 /\ i - 1 = n + 1
        BY <1>2, <2>4
      <3>2. QED
        BY <1>1, <1>3, <2>4, <3>1 DEF d
    <2>5. QED
      BY <1>2, <2>2, <2>3, <2>4
  <1>6. Ordered(b, h)
    <2>1. SUFFICES ASSUME NEW i \in 1 .. n + 1, Good(h[i])
                   PROVE  (IF i = 1 THEN b ELSE h[i - 1]) = Packet("data", h[i].tag, 0)
      BY <1>2, <1>4 DEF Ordered
    <2>2. CASE i \in 1 .. n
      <3>1. i # 1 => i - 1 \in 1 .. n
        BY <1>2, <2>2
      <3>2. QED
        BY <1>4, <2>1, <2>2, <3>1 DEF Ordered
    <2>3. CASE i = n + 1
      BY <1>1, <1>4, <2>1, <2>3
    <2>4. QED
      BY <1>2, <2>2, <2>3
  <1>7. QED
    BY <1>2, <1>5, <1>6 DEF g, h, d, c, x

(* The controller, the device, and the rest of the kernel.                 *)
LEMMA ControllerStep ==
  ASSUME IInv, ControllerObeys \/ Fetch
  PROVE  IInv'
  <1> USE DEF kernel, device, reading
  <1>1. UNCHANGED <<free, others, head, pc, page, ctl, fifo, todo, mem, qh, tag>>
    BY DEF ControllerObeys, Fetch
  <1>2. /\ "held" \in DOMAIN hw'
        /\ \/ hw'.held \in {hw.held, NoQh}
           \/ hw'.held = qh /\ qh.token \in {"active", "retry"}
    BY ZenonT(60) DEF IInv, TypeInv, ControllerObeys, Fetch
  <1>3. NoQh \in Qh
    BY DEF NoQh, Qh, MaybePage
  <1>4. TypeInv'
    BY <1>1, <1>2, <1>3 DEF IInv, TypeInv
  <1>5. Shape' /\ Owned'
    BY <1>1, ZenonT(60) DEF IInv, Shape, Owned, Mine
  <1>6. FifoInv'
    BY <1>1, FifoKept DEF IInv
  <1>7. HeldInv'
    <2>1. CASE hw'.held \in {hw.held, NoQh}
      BY <1>1, <2>1 DEF IInv, HeldInv, SameQh
    <2>2. CASE hw'.held = qh /\ qh.token \in {"active", "retry"}
      <3>1. pc = "poll" /\ qh.stage \in Stages /\ qh.page \in Pages /\ qh.tag = tag /\ tag \in Nat
        <4>1. qh # NoQh /\ qh.token # "none"
          BY <2>2 DEF NoQh
        <4>2. QED
          BY ZenonT(60), <4>1 DEF IInv, TypeInv, Shape
      <3>2. QED
        BY <1>1, <2>2, <3>1 DEF HeldInv, SameQh
    <2>3. QED
      BY <1>2, <2>1, <2>2
  <1>8. QED
    BY <1>4, <1>5, <1>6, <1>7 DEF IInv

LEMMA AnswerStep ==
  ASSUME IInv, Answer
  PROVE  IInv'
  <1> USE DEF kernel, reading
  <1>1. UNCHANGED <<free, others, head, hw, pc, page, ctl, mem, qh, tag>>
    BY SMTT(60) DEF Answer
  <1>2. TypeInv' /\ Shape' /\ Owned' /\ HeldInv'
    BY <1>1, ZenonT(60) DEF IInv, TypeInv, Shape, Owned, Mine, HeldInv, SameQh
  <1>3. todo \in Seq(Nat) /\ todo # <<>> /\ Head(todo) \in Nat /\ todo' \in Seq(Nat)
    BY HeadTailProperties DEF IInv, FifoInv, Answer
  <1>4. fifo' \in Seq(Packets) /\ Ordered(mem.buf, fifo')
    <2>1. fifo \in Seq(Packets) /\ Ordered(mem.buf, fifo)
      BY DEF IInv, FifoInv
    <2>2. QED
      BY ZenonT(60), <1>3, <2>1, AnswerOrdered DEF Answer
  <1>5. FifoInv'
    BY <1>1, <1>3, <1>4 DEF IInv, FifoInv
  <1>6. QED
    BY <1>2, <1>5 DEF IInv

LEMMA ElsewhereStep ==
  ASSUME IInv, Elsewhere
  PROVE  IInv'
  <1> USE DEF device, reading
  <1>1. UNCHANGED <<head, hw, pc, page, ctl, fifo, todo, mem, qh, tag>>
    BY DEF Elsewhere
  <1>2. TypeInv' /\ Shape' /\ HeldInv'
    BY ZenonT(60), <1>1 DEF IInv, TypeInv, Shape, HeldInv, SameQh, Elsewhere
  <1>3. Owned'
    <2>1. Mine' = Mine
      BY <1>1 DEF Mine
    <2>2. QED
      BY <2>1 DEF IInv, TypeInv, Owned, Elsewhere
  <1>4. FifoInv'
    BY <1>1, FifoKept DEF IInv
  <1>5. QED
    BY <1>2, <1>3, <1>4 DEF IInv

(* The shape is of the driver's registers alone, and an empty queue head is *)
(* of no stage.                                                             *)
LEMMA ShapeKept ==
  ASSUME Shape, UNCHANGED <<head, pc, page, ctl, qh, tag>>
  PROVE  Shape'
  BY ZenonT(60) DEF Shape

LEMMA EmptyOfNoStage == NoQh.stage \notin Stages
  BY DEF NoQh, Stages

(* The token is written back to the transfer the driver polls, or to none. *)
LEMMA WriteBackStep ==
  ASSUME IInv, NEW token \in {"retry", "done", "halted"}, hw.held # NoQh, WriteBack(token),
         UNCHANGED <<free, others, head, pc, page, ctl, tag>>
  PROVE  TypeInv' /\ Shape' /\ Owned' /\ HeldInv' /\ qh'.stage = qh.stage
  <1>1. /\ qh' \in Qh /\ qh'.page = qh.page /\ qh'.stage = qh.stage /\ qh'.tag = qh.tag
        /\ \/ qh' = qh
           \/ SameQh(hw.held, qh) /\ qh'.token = token
    BY SMTT(60) DEF WriteBack, IInv, TypeInv, Qh
  <1>2. hw.held.stage \in Stages /\ NoQh \in Qh
    BY SMTT(60) DEF IInv, HeldInv, NoQh, Qh, MaybePage
  <1>3. qh = NoQh => qh' = NoQh
    BY <1>1, <1>2 DEF SameQh, NoQh, Stages
  <1>4. hw'.held = NoQh /\ "held" \in DOMAIN hw'
    BY DEF WriteBack, IInv, TypeInv
  <1>5. TypeInv'
    BY <1>1, <1>2, <1>4 DEF IInv, TypeInv
  <1>6. Owned'
    <2>1. Mine' = Mine
      BY SMTT(60), <1>1 DEF Mine
    <2>2. QED
      BY <2>1 DEF IInv, Owned
  <1>7. HeldInv'
    BY <1>4 DEF HeldInv
  <1>8. Shape'
    <2>1. CASE qh' = qh
      BY Zenon, <2>1, ShapeKept DEF IInv
    <2>2. CASE SameQh(hw.held, qh) /\ qh'.token = token
      <3>1. qh # NoQh /\ qh.stage \in Stages
        <4>1. qh.stage = hw.held.stage
          BY Zenon, <2>2 DEF SameQh
        <4>2. qh.stage \in Stages
          BY Zenon, <1>2, <4>1
        <4>3. QED
          BY Zenon, <4>2, EmptyOfNoStage
      <3>2. pc \in {"submit", "poll"}
        BY ZenonT(60), <3>1 DEF IInv, Shape
      <3>3. pc = "poll"
        <4>1. qh.page \in Pages
          <5>1. HeldInv
            BY Zenon DEF IInv
          <5>2. hw.held.page \in Pages
            BY <5>1, Zenon DEF HeldInv
          <5>3. qh.page = hw.held.page
            BY <2>2, Zenon DEF SameQh
          <5>4. QED
            BY ONLY <5>2, <5>3, Zenon
        <4>2. QED
          BY ZenonT(60), <3>2, <4>1, EhciAssumption DEF IInv, Shape
      <3>4. QED
        <4>1. qh'.token # "none"
          BY <2>2
        <4>2. pc' = pc /\ head' = head /\ page' = page /\ ctl' = ctl /\ tag' = tag
          OBVIOUS
        <4>3. Shape
          BY Zenon DEF IInv
        <4>4. /\ ctl = NoCtl /\ qh.stage \in Stages /\ qh.tag = tag
              /\ head \in Pages /\ page \in Pages /\ qh.page \in Pages
              /\ head # page /\ qh.page \notin {head, page}
          BY ONLY <3>3, <4>3 DEF Shape
        <4>5. QED
          BY ONLY <1>1, <3>3, <4>1, <4>2, <4>4, Zenon DEF Shape
    <2>3. QED
      BY ONLY <1>1, <2>1, <2>2, Zenon
  <1>9. QED
    BY <1>1, <1>5, <1>6, <1>7, <1>8

LEMMA ExecuteStep ==
  ASSUME IInv, Execute
  PROVE  IInv'
  <1> USE DEF kernel
  <1>1. hw.held # NoQh /\ UNCHANGED <<free, others, head, pc, page, ctl, tag>>
    BY DEF Execute
  <1>2. /\ todo \in Seq(Nat) /\ fifo \in Seq(Packets) /\ mem \in [buf : Packets, csw : Packets]
        /\ Ordered(mem.buf, fifo) /\ tag \in Nat
        /\ qh.stage = "csw" /\ Good(mem.csw) => mem.buf = Packet("data", mem.csw.tag, 0)
    <2>1. TypeInv /\ FifoInv
      BY Zenon DEF IInv
    <2>2. QED
      BY ONLY <2>1, Zenon DEF TypeInv, FifoInv
  <1>3. /\ \/ /\ hw' = [hw EXCEPT !.held = NoQh] /\ qh' = qh
           \/ \E token \in {"retry", "done", "halted"} : WriteBack(token)
        /\ \/ UNCHANGED <<todo, fifo, mem>>
           \/ todo' = Append(todo, tag) /\ UNCHANGED <<fifo, mem>>
           \/ /\ hw.held.stage = "data" /\ fifo # <<>> /\ fifo' = Tail(fifo) /\ todo' = todo
              /\ mem' = [mem EXCEPT !.buf = Head(fifo)]
           \/ /\ fifo # <<>> /\ Head(fifo).kind = "csw" /\ fifo' = Tail(fifo) /\ todo' = todo
              /\ \/ mem' = mem
                 \/ mem' = [mem EXCEPT !.csw = Head(fifo)]
    BY DEF Execute
  <1>4. TypeInv' /\ Shape' /\ Owned' /\ HeldInv' /\ qh'.stage = qh.stage
    <2>1. CASE hw' = [hw EXCEPT !.held = NoQh] /\ qh' = qh
      <3>1. hw'.held = NoQh /\ "held" \in DOMAIN hw' /\ NoQh \in Qh
        BY <2>1 DEF IInv, TypeInv, NoQh, Qh, MaybePage
      <3>2. QED
        BY <1>1, <2>1, <3>1 DEF IInv, TypeInv, Shape, Owned, Mine, HeldInv
    <2>2. CASE \E token \in {"retry", "done", "halted"} : WriteBack(token)
      BY <1>1, <2>2, WriteBackStep
    <2>3. QED
      BY <1>3, <2>1, <2>2
  <1>5. FifoInv'
    <2>1. CASE UNCHANGED <<todo, fifo, mem>>
      BY <1>4, <2>1, FifoKept DEF IInv
    <2>2. CASE todo' = Append(todo, tag) /\ UNCHANGED <<fifo, mem>>
      BY <1>2, <1>4, <2>2 DEF FifoInv
    <2>3. CASE /\ hw.held.stage = "data" /\ fifo # <<>> /\ fifo' = Tail(fifo) /\ todo' = todo
               /\ mem' = [mem EXCEPT !.buf = Head(fifo)]
      <3>1. Head(fifo) \in Packets /\ fifo' \in Seq(Packets) /\ Ordered(Head(fifo), fifo')
        BY <1>2, <2>3, HeadTailProperties, TailOrdered
      <3>2. mem' \in [buf : Packets, csw : Packets] /\ mem'.buf = Head(fifo)
        BY ZenonT(60), <1>2, <2>3, <3>1
      <3>3. qh.stage # "csw"
        <4>1. SUFFICES ASSUME qh.stage = "csw" PROVE FALSE
          OBVIOUS
        <4>2. pc \in {"submit", "poll"}
          <5>1. qh # NoQh
            BY <4>1 DEF NoQh
          <5>2. QED
            BY <5>1 DEF IInv, Shape
        <4>3. QED
          BY <1>1, <2>3, <4>1, <4>2 DEF IInv, HeldInv, SameQh
      <3>4. QED
        BY <1>2, <1>4, <2>3, <3>1, <3>2, <3>3 DEF FifoInv
    <2>4. CASE /\ fifo # <<>> /\ Head(fifo).kind = "csw" /\ fifo' = Tail(fifo) /\ todo' = todo
               /\ \/ mem' = mem
                  \/ mem' = [mem EXCEPT !.csw = Head(fifo)]
      <3>1. /\ Head(fifo) \in Packets /\ fifo' \in Seq(Packets) /\ Ordered(mem.buf, fifo')
        BY <1>2, <2>4, HeadTailProperties, TailOrdered
      <3>2. Good(Head(fifo)) => mem.buf = Packet("data", Head(fifo).tag, 0)
        BY <1>2, <2>4, HeadIsFirst DEF Ordered
      <3>3. /\ mem' \in [buf : Packets, csw : Packets] /\ mem'.buf = mem.buf
            /\ mem'.csw = mem.csw \/ mem'.csw = Head(fifo)
        BY <1>2, <2>4, <3>1
      <3>4. QED
        BY <1>2, <1>4, <2>4, <3>1, <3>2, <3>3 DEF FifoInv
    <2>5. QED
      BY <1>3, <2>1, <2>2, <2>3, <2>4
  <1>6. QED
    BY <1>4, <1>5 DEF IInv

-----------------------------------------------------------------------------
LEMMA NextIInv == IInv /\ [Next]_vars => IInv'
  <1> SUFFICES ASSUME IInv, [Next]_vars PROVE IInv'
    BY SMTT(60)
  <1>1. CASE UNCHANGED vars
    BY ZenonT(60), <1>1 DEF vars, kernel, device, reading, IInv, TypeInv, Shape, Owned, Mine, HeldInv,
       FifoInv, SameQh
  <1>2. CASE Driver
    BY <1>2, StartStep, PortStep, FindStep, ReadStep DEF Driver
  <1>3. CASE ControllerObeys \/ PortReset \/ Fetch \/ Execute \/ Answer \/ Elsewhere
    BY <1>3, ControllerStep, PortStep, ExecuteStep, AnswerStep, ElsewhereStep
  <1>4. QED
    BY <1>1, <1>2, <1>3 DEF Next

LEMMA IInvHolds == Spec => []IInv
  BY InitIInv, NextIInv, PTL DEF Spec

(* Whichever transfer fails or times out, and whenever, every page is free,*)
(* the rest of the kernel's or the driver's, and never two of these;       *)
(* between calls the driver has its list head and no other                 *)
(* (ehci.c:256-340, 703-763).                                              *)
THEOREM EhciPagesReturned == Spec => []UsbPagesReturned
  <1>1. IInv => UsbPagesReturned
    <2>1. SUFFICES ASSUME IInv PROVE UsbPagesReturned
      OBVIOUS
    <2>2. pc \in {"ready", "dead"} => Mine \subseteq {head}
      <3>1. pc \in {"ready", "dead"} => page = NULL /\ ctl = NoCtl /\ qh = NoQh
        BY <2>1 DEF IInv, Shape
      <3>2. QED
        BY <3>1 DEF Mine, NoCtl, NoQh
    <2>3. QED
      BY <2>1, <2>2 DEF IInv, Owned, Mine, UsbPagesReturned
  <1>2. QED
    BY <1>1, IInvHolds, PTL

(* msd_read_sector returns 0 only with the sector its own command asked    *)
(* for in the buffer: a status that carries the tag is behind its data in  *)
(* the device's queue, and no older transfer can overtake it, however many *)
(* reads timed out before (ehci.c:304-337, 747-762).                       *)
THEOREM EhciReadHonest == Spec => ReadHonest
  <1> DEFINE Honest == tag > 0 /\ pc = "poll" /\ pc' = "ready" /\ ret' = 0 /\ ~ scribbled
                         => mem.buf = Packet("data", tag, 0)
  <1>1. IInv /\ [Next]_vars => [Honest]_vars
    <2>1. SUFFICES ASSUME IInv, Next, pc = "poll", pc' = "ready", ret' = 0
                   PROVE  mem.buf = Packet("data", tag, 0)
      OBVIOUS
    <2>2. Read
      BY <2>1 DEF Next, Driver, ehci_init, ehci_init_simple, ehci_init_async_list,
         ehci_stop_controller, ehci_reset_controller, ehci_find_and_reset_device,
         ehci_reset_port, find_mass_storage_device, FindStorage, usb_control_transfer,
         NotFlushed, ControlEnds, ControllerObeys, PortReset, Fetch, Execute, Answer, Elsewhere
    <2>3. NotInTime \/ ReadEnds
      BY <2>1, <2>2 DEF Read, msd_read_sector, Submit, Transferred, Goto
    <2>4. qh.stage \in Stages
      BY <2>1 DEF IInv, Shape
    <2>5. Failure[qh.stage] # 0
      BY <2>4 DEF Failure, Stages
    <2>6. ReadEnds /\ Status = 0 /\ qh.stage = "csw"
      BY <2>1, <2>3, <2>5 DEF NotInTime, ReadEnds, ReadReturns, Return
    <2>7. Good(mem.csw) /\ mem.csw.tag = tag
      BY <2>6 DEF Status, Good
    <2>8. QED
      BY <2>1, <2>6, <2>7 DEF IInv, FifoInv
  <1>2. QED
    BY <1>1, IInvHolds, PTL DEF Spec, ReadHonest
=============================================================================
