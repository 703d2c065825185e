----------------------------- MODULE AhciProofs -----------------------------
(***************************************************************************)
(* The AHCI driver's properties for every order in which the functions are *)
(* called, every sector count, and every behaviour of the host bus         *)
(* adapter.                                                                *)
(***************************************************************************)
EXTENDS Ahci, AhciPrdt, TLAPS

Functions == {"read_sector", "identify", "identify_satapi", "identify_satapi_properly",
              "read_sector_satapi"}

Spinning == {"identify", "identify_satapi"}

BeforeStart == {"wait CR", "wait FR", "spin CR", "spin FR", "wait engines", "build",
                "stop again", "spin engines", "start"}

AfterFR == {"build", "stop again", "spin engines", "start"}

PolledPlaces == {"poll", "check"}

LastPlaces == {"judge", "slot", "return"}

(* Which function is at which place.                                       *)
PlacesInv ==
  /\ ahci_call.fn \in Functions
  /\ ahci_pc \in {"idle", "halted", "stop", "issue"} \cup BeforeStart \cup PolledPlaces \cup LastPlaces
  /\ ahci_pc \in {"wait CR", "wait FR", "stop again", "spin engines"} => ahci_call.fn = "read_sector"
  /\ ahci_pc \in {"spin CR", "spin FR"} => ahci_call.fn \in Spinning
  /\ ahci_pc = "wait engines" => ahci_call.fn \in Careful
  /\ ahci_pc = "judge" => ahci_call.fn \notin Spinning
  /\ ahci_pc = "slot" => ahci_call.fn = "read_sector_satapi"

(* What the port does at each place.  The engines are told to stop before   *)
(* any wait, and can no longer start by themselves, so a bit that was seen  *)
(* clear stays clear until ST and FRE are set; a command that was issued    *)
(* can only leave PxCI by being done.                                       *)
PortInv ==
  /\ {"st", "fre", "cr", "fr", "ci", "is"} \subseteq DOMAIN port
  /\ ahci_pc \in BeforeStart => ~ port.st /\ ~ port.fre
  /\ ahci_pc \in {"wait FR", "spin FR"} \cup AfterFR /\ ahci_call.fn \notin Careful => ~ port.cr
  /\ ahci_pc \in AfterFR /\ ahci_call.fn \notin Careful => ~ port.fr
  /\ ahci_pc = "issue" => port.st
  /\ ahci_pc \in PolledPlaces => port.ci \/ done
  /\ ahci_pc \in LastPlaces => done \/ expired

IInv == PlacesInv /\ PortInv /\ PortMemReturned /\ DoneUnlessExpired

-----------------------------------------------------------------------------
(* What follows each step.                                                 *)
OnlyAt(p, s, i) == i \in DOMAIN p /\ p[i] = s /\ \A j \in DOMAIN p : p[j] = s => j = i

LEMMA AfterAt ==
  ASSUME NEW c, NEW p, Program[c.fn] = p, NEW s, NEW i, OnlyAt(p, s, i)
  PROVE  After(c, s) = p[i + 1]
  BY DEF After, OnlyAt

LEMMA AfterReadSector ==
  ASSUME NEW c, c.fn = "read_sector"
  PROVE  /\ After(c, "stop") = "wait CR" /\ After(c, "wait CR") = "wait FR"
         /\ After(c, "wait FR") = "build" /\ After(c, "build") = "stop again"
         /\ After(c, "stop again") = "spin engines" /\ After(c, "spin engines") = "start"
         /\ After(c, "start") = "issue" /\ After(c, "issue") = "poll"
         /\ After(c, "poll") = "judge" /\ After(c, "judge") = "return"
  <1> DEFINE p == sata_ahci_read_sector
  <1>1. Program[c.fn] = p
    BY DEF Program
  <1>2. 1 .. 11 = {1, 2, 3, 4, 5, 6, 7, 8, 9, 10, 11}
    OBVIOUS
  <1>3. /\ DOMAIN p = 1 .. 11
        /\ p[1] = "stop" /\ p[2] = "wait CR" /\ p[3] = "wait FR" /\ p[4] = "build"
        /\ p[5] = "stop again" /\ p[6] = "spin engines" /\ p[7] = "start" /\ p[8] = "issue"
        /\ p[9] = "poll" /\ p[10] = "judge" /\ p[11] = "return"
    BY DEF sata_ahci_read_sector
  <1>4. /\ p[1 + 1] = "wait CR" /\ p[2 + 1] = "wait FR" /\ p[3 + 1] = "build"
        /\ p[4 + 1] = "stop again" /\ p[5 + 1] = "spin engines" /\ p[6 + 1] = "start"
        /\ p[7 + 1] = "issue" /\ p[8 + 1] = "poll" /\ p[9 + 1] = "judge"
        /\ p[10 + 1] = "return"
    BY DEF sata_ahci_read_sector
  <1> HIDE DEF p
  <1>5. DOMAIN p = {1, 2, 3, 4, 5, 6, 7, 8, 9, 10, 11}
    BY <1>2, <1>3, Zenon
  <1>6. /\ OnlyAt(p, "stop", 1) /\ OnlyAt(p, "wait CR", 2) /\ OnlyAt(p, "wait FR", 3)
        /\ OnlyAt(p, "build", 4) /\ OnlyAt(p, "stop again", 5) /\ OnlyAt(p, "spin engines", 6)
        /\ OnlyAt(p, "start", 7) /\ OnlyAt(p, "issue", 8) /\ OnlyAt(p, "poll", 9)
        /\ OnlyAt(p, "judge", 10)
    BY <1>3, <1>5, Zenon DEF OnlyAt
  <1>7. \A s, i : OnlyAt(p, s, i) => After(c, s) = p[i + 1]
    BY <1>1, AfterAt
  <1>8. /\ After(c, "stop") = "wait CR" /\ After(c, "wait CR") = "wait FR"
        /\ After(c, "wait FR") = "build" /\ After(c, "build") = "stop again"
        /\ After(c, "stop again") = "spin engines"
    BY <1>4, <1>6, <1>7, ZenonT(60)
  <1>9. /\ After(c, "spin engines") = "start" /\ After(c, "start") = "issue"
        /\ After(c, "issue") = "poll"
    BY <1>4, <1>6, <1>7, ZenonT(60)
  <1>10. After(c, "poll") = "judge" /\ After(c, "judge") = "return"
    BY <1>4, <1>6, <1>7, ZenonT(60)
  <1>11. QED
    BY <1>8, <1>9, <1>10

LEMMA AfterIdentify ==
  ASSUME NEW c, c.fn = "identify"
  PROVE  /\ After(c, "stop") = "spin CR" /\ After(c, "spin CR") = "spin FR"
         /\ After(c, "spin FR") = "build" /\ After(c, "build") = "start"
         /\ After(c, "start") = "issue" /\ After(c, "issue") = "poll"
         /\ After(c, "poll") = "return"
  <1> DEFINE p == sata_ahci_identify
  <1>1. Program[c.fn] = p
    BY DEF Program
  <1>2. 1 .. 8 = {1, 2, 3, 4, 5, 6, 7, 8}
    OBVIOUS
  <1>3. /\ DOMAIN p = 1 .. 8
        /\ p[1] = "stop" /\ p[2] = "spin CR" /\ p[3] = "spin FR" /\ p[4] = "build"
        /\ p[5] = "start" /\ p[6] = "issue" /\ p[7] = "poll" /\ p[8] = "return"
    BY DEF sata_ahci_identify
  <1>4. /\ p[1 + 1] = "spin CR" /\ p[2 + 1] = "spin FR" /\ p[3 + 1] = "build"
        /\ p[4 + 1] = "start" /\ p[5 + 1] = "issue" /\ p[6 + 1] = "poll"
        /\ p[7 + 1] = "return"
    BY DEF sata_ahci_identify
  <1> HIDE DEF p
  <1>5. DOMAIN p = {1, 2, 3, 4, 5, 6, 7, 8}
    BY <1>2, <1>3, Zenon
  <1>6. /\ OnlyAt(p, "stop", 1) /\ OnlyAt(p, "spin CR", 2) /\ OnlyAt(p, "spin FR", 3)
        /\ OnlyAt(p, "build", 4) /\ OnlyAt(p, "start", 5) /\ OnlyAt(p, "issue", 6)
        /\ OnlyAt(p, "poll", 7)
    BY <1>3, <1>5, Zenon DEF OnlyAt
  <1>7. \A s, i : OnlyAt(p, s, i) => After(c, s) = p[i + 1]
    BY <1>1, AfterAt
  <1>8. QED
    BY <1>4, <1>6, <1>7, ZenonT(60)

LEMMA AfterIdentifySatapi ==
  ASSUME NEW c, c.fn = "identify_satapi"
  PROVE  /\ After(c, "stop") = "spin CR" /\ After(c, "spin CR") = "spin FR"
         /\ After(c, "spin FR") = "build" /\ After(c, "build") = "start"
         /\ After(c, "start") = "issue" /\ After(c, "issue") = "poll"
         /\ After(c, "poll") = "return"
  <1> DEFINE p == sata_ahci_identify_satapi
  <1>1. Program[c.fn] = p
    BY DEF Program
  <1>2. 1 .. 8 = {1, 2, 3, 4, 5, 6, 7, 8}
    OBVIOUS
  <1>3. /\ DOMAIN p = 1 .. 8
        /\ p[1] = "stop" /\ p[2] = "spin CR" /\ p[3] = "spin FR" /\ p[4] = "build"
        /\ p[5] = "start" /\ p[6] = "issue" /\ p[7] = "poll" /\ p[8] = "return"
    BY DEF sata_ahci_identify_satapi
  <1>4. /\ p[1 + 1] = "spin CR" /\ p[2 + 1] = "spin FR" /\ p[3 + 1] = "build"
        /\ p[4 + 1] = "start" /\ p[5 + 1] = "issue" /\ p[6 + 1] = "poll"
        /\ p[7 + 1] = "return"
    BY DEF sata_ahci_identify_satapi
  <1> HIDE DEF p
  <1>5. DOMAIN p = {1, 2, 3, 4, 5, 6, 7, 8}
    BY <1>2, <1>3, Zenon
  <1>6. /\ OnlyAt(p, "stop", 1) /\ OnlyAt(p, "spin CR", 2) /\ OnlyAt(p, "spin FR", 3)
        /\ OnlyAt(p, "build", 4) /\ OnlyAt(p, "start", 5) /\ OnlyAt(p, "issue", 6)
        /\ OnlyAt(p, "poll", 7)
    BY <1>3, <1>5, Zenon DEF OnlyAt
  <1>7. \A s, i : OnlyAt(p, s, i) => After(c, s) = p[i + 1]
    BY <1>1, AfterAt
  <1>8. QED
    BY <1>4, <1>6, <1>7, ZenonT(60)

LEMMA AfterProperly ==
  ASSUME NEW c, c.fn = "identify_satapi_properly"
  PROVE  /\ After(c, "stop") = "wait engines" /\ After(c, "wait engines") = "build"
         /\ After(c, "build") = "start" /\ After(c, "start") = "issue"
         /\ After(c, "issue") = "poll" /\ After(c, "poll") = "judge"
         /\ After(c, "judge") = "return"
  <1> DEFINE p == sata_ahci_identify_satapi_properly
  <1>1. Program[c.fn] = p
    BY DEF Program
  <1>2. 1 .. 8 = {1, 2, 3, 4, 5, 6, 7, 8}
    OBVIOUS
  <1>3. /\ DOMAIN p = 1 .. 8
        /\ p[1] = "stop" /\ p[2] = "wait engines" /\ p[3] = "build" /\ p[4] = "start"
        /\ p[5] = "issue" /\ p[6] = "poll" /\ p[7] = "judge" /\ p[8] = "return"
    BY DEF sata_ahci_identify_satapi_properly
  <1>4. /\ p[1 + 1] = "wait engines" /\ p[2 + 1] = "build" /\ p[3 + 1] = "start"
        /\ p[4 + 1] = "issue" /\ p[5 + 1] = "poll" /\ p[6 + 1] = "judge"
        /\ p[7 + 1] = "return"
    BY DEF sata_ahci_identify_satapi_properly
  <1> HIDE DEF p
  <1>5. DOMAIN p = {1, 2, 3, 4, 5, 6, 7, 8}
    BY <1>2, <1>3, Zenon
  <1>6. /\ OnlyAt(p, "stop", 1) /\ OnlyAt(p, "wait engines", 2) /\ OnlyAt(p, "build", 3)
        /\ OnlyAt(p, "start", 4) /\ OnlyAt(p, "issue", 5) /\ OnlyAt(p, "poll", 6)
        /\ OnlyAt(p, "judge", 7)
    BY <1>3, <1>5, Zenon DEF OnlyAt
  <1>7. \A s, i : OnlyAt(p, s, i) => After(c, s) = p[i + 1]
    BY <1>1, AfterAt
  <1>8. QED
    BY <1>4, <1>6, <1>7, ZenonT(60)

LEMMA AfterReadSatapi ==
  ASSUME NEW c, c.fn = "read_sector_satapi"
  PROVE  /\ After(c, "stop") = "wait engines" /\ After(c, "wait engines") = "build"
         /\ After(c, "build") = "start" /\ After(c, "start") = "issue"
         /\ After(c, "issue") = "poll" /\ After(c, "poll") = "judge"
         /\ After(c, "judge") = "slot" /\ After(c, "slot") = "return"
  <1> DEFINE p == sata_ahci_read_sector_satapi
  <1>1. Program[c.fn] = p
    BY DEF Program
  <1>2. 1 .. 9 = {1, 2, 3, 4, 5, 6, 7, 8, 9}
    OBVIOUS
  <1>3. /\ DOMAIN p = 1 .. 9
        /\ p[1] = "stop" /\ p[2] = "wait engines" /\ p[3] = "build" /\ p[4] = "start"
        /\ p[5] = "issue" /\ p[6] = "poll" /\ p[7] = "judge" /\ p[8] = "slot"
        /\ p[9] = "return"
    BY DEF sata_ahci_read_sector_satapi
  <1>4. /\ p[1 + 1] = "wait engines" /\ p[2 + 1] = "build" /\ p[3 + 1] = "start"
        /\ p[4 + 1] = "issue" /\ p[5 + 1] = "poll" /\ p[6 + 1] = "judge"
        /\ p[7 + 1] = "slot" /\ p[8 + 1] = "return"
    BY DEF sata_ahci_read_sector_satapi
  <1> HIDE DEF p
  <1>5. DOMAIN p = {1, 2, 3, 4, 5, 6, 7, 8, 9}
    BY <1>2, <1>3, Zenon
  <1>6. /\ OnlyAt(p, "stop", 1) /\ OnlyAt(p, "wait engines", 2) /\ OnlyAt(p, "build", 3)
        /\ OnlyAt(p, "start", 4) /\ OnlyAt(p, "issue", 5) /\ OnlyAt(p, "poll", 6)
        /\ OnlyAt(p, "judge", 7) /\ OnlyAt(p, "slot", 8)
    BY <1>3, <1>5, Zenon DEF OnlyAt
  <1>7. \A s, i : OnlyAt(p, s, i) => After(c, s) = p[i + 1]
    BY <1>1, AfterAt
  <1>8. QED
    BY <1>4, <1>6, <1>7, ZenonT(60)

(* All of it, by what the functions have in common.                        *)
AftersOf(c) ==
  /\ c.fn = "read_sector" => /\ After(c, "stop") = "wait CR"
                             /\ After(c, "wait CR") = "wait FR"
                             /\ After(c, "wait FR") = "build"
                             /\ After(c, "build") = "stop again"
                             /\ After(c, "stop again") = "spin engines"
                             /\ After(c, "spin engines") = "start"
  /\ c.fn \in Spinning => /\ After(c, "stop") = "spin CR"
                          /\ After(c, "spin CR") = "spin FR"
                          /\ After(c, "spin FR") = "build"
                          /\ After(c, "build") = "start"
                          /\ After(c, "poll") = "return"
  /\ c.fn \in Careful => /\ After(c, "stop") = "wait engines"
                         /\ After(c, "wait engines") = "build"
                         /\ After(c, "build") = "start"
  /\ After(c, "start") = "issue" /\ After(c, "issue") = "poll"
  /\ c.fn \notin Spinning => /\ After(c, "poll") = "judge"
                             /\ After(c, "judge") \in {"slot", "return"}
  /\ c.fn \notin Spinning /\ c.fn # "read_sector_satapi" => After(c, "judge") = "return"
  /\ c.fn = "read_sector_satapi" => After(c, "slot") = "return"

LEMMA Afters ==
  ASSUME NEW c, c.fn \in Functions
  PROVE  AftersOf(c)
  <1>1. CASE c.fn = "read_sector"
    BY <1>1, AfterReadSector DEF AftersOf, Spinning, Careful
  <1>2. CASE c.fn = "identify"
    BY <1>2, AfterIdentify DEF AftersOf, Spinning, Careful
  <1>3. CASE c.fn = "identify_satapi"
    BY <1>3, AfterIdentifySatapi DEF AftersOf, Spinning, Careful
  <1>4. CASE c.fn = "identify_satapi_properly"
    BY <1>4, AfterProperly DEF AftersOf, Spinning, Careful
  <1>5. CASE c.fn = "read_sector_satapi"
    BY <1>5, AfterReadSatapi DEF AftersOf, Spinning, Careful
  <1>6. QED
    BY <1>1, <1>2, <1>3, <1>4, <1>5 DEF Functions

-----------------------------------------------------------------------------
(* The steps of the driver.                                                *)
LEMMA StopEnginesKeeps ==
  ASSUME IInv, StopEngines
  PROVE  IInv'
  <1>1. AftersOf(ahci_call) /\ ahci_call.fn \in Functions
    BY Afters DEF IInv, PlacesInv
  <1>2. ahci_pc = "stop again" => ahci_call.fn = "read_sector"
    BY DEF IInv, PlacesInv
  <1>3. \/ ahci_call'.fn = "read_sector" /\ ahci_pc' \in {"wait CR", "spin engines"}
        \/ ahci_call'.fn \in Spinning /\ ahci_pc' = "spin CR"
        \/ ahci_call'.fn \in Careful /\ ahci_pc' = "wait engines"
    BY <1>1, <1>2 DEF AftersOf, StopEngines, Then, Functions, Spinning, Careful
  <1>4. PlacesInv'
    BY <1>1, <1>3 DEF PlacesInv, StopEngines, Functions, Spinning, Careful, BeforeStart, PolledPlaces, LastPlaces
  <1>5. PortInv'
    <2>1. /\ DOMAIN port' = DOMAIN port /\ port'.st = FALSE /\ port'.fre = FALSE
          /\ port'.cr = port.cr /\ port'.fr = port.fr
      BY DEF IInv, PortInv, StopEngines, Stopped
    <2>2. ahci_pc' \notin {"wait FR", "spin FR", "issue"} \cup AfterFR \/ ahci_pc' = "spin engines"
      BY <1>3 DEF AfterFR
    <2>3. ahci_pc' \notin PolledPlaces \cup LastPlaces
      BY <1>3 DEF PolledPlaces, LastPlaces
    <2>4. ahci_pc' = "spin engines" => ~ port'.cr /\ ~ port'.fr
      <3>1. ahci_pc' = "spin engines" => ahci_pc = "stop again"
        BY <1>1 DEF AftersOf, StopEngines, Then, Functions, Spinning, Careful
      <3>2. ahci_pc = "stop again" => ~ port.cr /\ ~ port.fr
        BY <1>2 DEF IInv, PortInv, AfterFR, Careful
      <3>3. QED
        BY <2>1, <3>1, <3>2
    <2>5. QED
      BY <2>1, <2>2, <2>3, <2>4 DEF IInv, PortInv
  <1>6. PortMemReturned' /\ DoneUnlessExpired'
    BY <1>3 DEF IInv, PortMemReturned, StopEngines, DoneUnlessExpired
  <1>7. QED
    BY <1>4, <1>5, <1>6 DEF IInv

LEMMA ReturnKeeps ==
  ASSUME IInv, ahci_pc \notin {"idle", "halted"},
         NEW r \in Int, Return(r), r = 0 => done \/ expired
  PROVE  IInv'
  <1>1. PlacesInv'
    BY DEF IInv, PlacesInv, Return, BeforeStart, PolledPlaces, LastPlaces
  <1>2. PortInv'
    BY DEF IInv, PortInv, Return, BeforeStart, AfterFR, PolledPlaces, LastPlaces
  <1>3. PortMemReturned' /\ DoneUnlessExpired'
    BY DEF IInv, PortMemReturned, DoneUnlessExpired, Return
  <1>4. QED
    BY <1>1, <1>2, <1>3 DEF IInv

LEMMA AgainKeeps ==
  ASSUME IInv, Again, UNCHANGED <<ahci_call, port_mem, heap, port, ahci_ret, expired, done>>
  PROVE  IInv'
  <1>1. PlacesInv'
    BY DEF IInv, PlacesInv, Again
  <1>2. PortInv'
    BY DEF IInv, PortInv, Again
  <1>3. PortMemReturned' /\ DoneUnlessExpired'
    BY DEF IInv, PortMemReturned, DoneUnlessExpired, Again
  <1>4. QED
    BY <1>1, <1>2, <1>3 DEF IInv

(* The end of a wait for the engines, which has seen one stopped.          *)
LEMMA WaitEndKeeps ==
  ASSUME IInv, Then, UNCHANGED <<ahci_call, port_mem, heap, port, ahci_ret, expired, done>>,
         ahci_pc \in {"wait CR", "wait FR", "spin CR", "spin FR", "spin engines", "wait engines"},
         ahci_pc \in {"wait CR", "spin CR"} => ~ port.cr,
         ahci_pc \in {"wait FR", "spin FR"} => ~ port.fr
  PROVE  IInv'
  <1>1. AftersOf(ahci_call) /\ ahci_call.fn \in Functions
    BY Afters DEF IInv, PlacesInv
  <1>2. /\ ahci_pc \in {"wait CR", "wait FR", "spin engines"} => ahci_call.fn = "read_sector"
        /\ ahci_pc \in {"spin CR", "spin FR"} => ahci_call.fn \in Spinning
        /\ ahci_pc = "wait engines" => ahci_call.fn \in Careful
    BY DEF IInv, PlacesInv
  <1>3. \/ ahci_pc = "wait CR" /\ ahci_pc' = "wait FR"
        \/ ahci_pc = "spin CR" /\ ahci_pc' = "spin FR"
        \/ ahci_pc \in {"wait FR", "spin FR", "wait engines"} /\ ahci_pc' = "build"
        \/ ahci_pc = "spin engines" /\ ahci_pc' = "start"
    BY <1>1, <1>2 DEF AftersOf, Then
  <1>4. PlacesInv'
    BY <1>1, <1>2, <1>3 DEF PlacesInv, BeforeStart
  <1>5. PortInv'
    <2>1. ~ port.st /\ ~ port.fre
      BY DEF IInv, PortInv, BeforeStart
    <2>2. ahci_pc' \notin {"issue"} \cup PolledPlaces \cup LastPlaces
      BY <1>3 DEF PolledPlaces, LastPlaces
    <2>3. ahci_call.fn \notin Careful => ~ port.cr
      BY <1>2 DEF IInv, PortInv, AfterFR
    <2>4. ahci_call.fn \notin Careful /\ ahci_pc' \in AfterFR => ~ port.fr
      BY <1>2, <1>3 DEF IInv, PortInv, AfterFR
    <2>5. QED
      BY <2>1, <2>2, <2>3, <2>4 DEF IInv, PortInv
  <1>6. PortMemReturned' /\ DoneUnlessExpired'
    BY <1>3 DEF IInv, PortMemReturned, DoneUnlessExpired
  <1>7. QED
    BY <1>4, <1>5, <1>6 DEF IInv

LEMMA WaitsKeep ==
  ASSUME IInv, WaitCR \/ WaitFR \/ Spin \/ WaitEngines
  PROVE  IInv'
  <1>1. CASE WaitCR
    <2>1. ahci_pc = "wait CR"
      BY <1>1 DEF WaitCR
    <2>2. CASE Return(6)
      <3> DEFINE r == 6
      <3>1. r \in Int /\ r # 0 /\ Return(r)
        BY <2>2
      <3> HIDE DEF r
      <3>2. QED
        BY <2>1, <3>1, ReturnKeeps
    <2>3. CASE Again /\ UNCHANGED <<ahci_call, port_mem, heap, port, ahci_ret, expired, done>>
      BY <2>3, AgainKeeps
    <2>4. CASE /\ ~ port.cr /\ Then
               /\ UNCHANGED <<ahci_call, port_mem, heap, port, ahci_ret, expired, done>>
      BY <2>1, <2>4, WaitEndKeeps
    <2>5. QED
      BY <1>1, <2>2, <2>3, <2>4 DEF WaitCR, WaitOne
  <1>2. CASE WaitFR
    <2>1. ahci_pc = "wait FR"
      BY <1>2 DEF WaitFR
    <2>2. CASE Return(7)
      <3> DEFINE r == 7
      <3>1. r \in Int /\ r # 0 /\ Return(r)
        BY <2>2
      <3> HIDE DEF r
      <3>2. QED
        BY <2>1, <3>1, ReturnKeeps
    <2>3. CASE Again /\ UNCHANGED <<ahci_call, port_mem, heap, port, ahci_ret, expired, done>>
      BY <2>3, AgainKeeps
    <2>4. CASE /\ ~ port.fr /\ Then
               /\ UNCHANGED <<ahci_call, port_mem, heap, port, ahci_ret, expired, done>>
      BY <2>1, <2>4, WaitEndKeeps
    <2>5. QED
      BY <1>2, <2>2, <2>3, <2>4 DEF WaitFR, WaitOne
  <1>3. CASE Spin
    BY <1>3, AgainKeeps, WaitEndKeeps DEF Spin, Running
  <1>4. CASE WaitEngines
    <2>1. ahci_pc = "wait engines"
      BY <1>4 DEF WaitEngines
    <2>2. CASE Return(-1)
      <3> DEFINE r == -1
      <3>1. r \in Int /\ r # 0 /\ Return(r)
        BY <2>2
      <3> HIDE DEF r
      <3>2. QED
        BY <2>1, <3>1, ReturnKeeps
    <2>3. CASE Again /\ UNCHANGED <<ahci_call, port_mem, heap, port, ahci_ret, expired, done>>
      BY <2>3, AgainKeeps
    <2>4. CASE Then /\ UNCHANGED <<ahci_call, port_mem, heap, port, ahci_ret, expired, done>>
      BY <2>1, <2>4, WaitEndKeeps
    <2>5. QED
      BY <1>4, <2>2, <2>3, <2>4 DEF WaitEngines
  <1>5. QED
    BY <1>1, <1>2, <1>3, <1>4

LEMMA BuildKeeps ==
  ASSUME IInv, Build
  PROVE  IInv'
  <1>1. AftersOf(ahci_call) /\ ahci_call.fn \in Functions
    BY Afters DEF IInv, PlacesInv
  <1>2. \/ ahci_call.fn = "read_sector" /\ ahci_pc' = "stop again"
        \/ ahci_call.fn # "read_sector" /\ ahci_pc' = "start"
    BY <1>1 DEF AftersOf, Build, Then, Functions, Spinning, Careful
  <1>3. PlacesInv'
    BY <1>1, <1>2 DEF Build, PlacesInv, BeforeStart
  <1>4. PortInv'
    <2>1. /\ DOMAIN port' = DOMAIN port /\ port'.st = port.st /\ port'.fre = port.fre
          /\ port'.cr = port.cr /\ port'.fr = port.fr
      BY DEF IInv, PortInv, Build
    <2>2. ahci_pc' \notin {"issue"} \cup PolledPlaces \cup LastPlaces
      BY <1>2 DEF PolledPlaces, LastPlaces
    <2>3. /\ ~ port.st /\ ~ port.fre
          /\ ahci_call.fn \notin Careful => ~ port.cr /\ ~ port.fr
      BY DEF Build, IInv, PortInv, BeforeStart, AfterFR
    <2>4. ahci_call' = ahci_call
      BY DEF Build
    <2>5. QED
      BY <2>1, <2>2, <2>3, <2>4 DEF IInv, PortInv
  <1>5. PortMemReturned' /\ DoneUnlessExpired'
    BY <1>2 DEF IInv, PortMemReturned, DoneUnlessExpired, Build
  <1>6. QED
    BY <1>3, <1>4, <1>5 DEF IInv

LEMMA StartKeeps ==
  ASSUME IInv, Start
  PROVE  IInv'
  <1>1. AftersOf(ahci_call) /\ ahci_call.fn \in Functions
    BY Afters DEF IInv, PlacesInv
  <1>2. ahci_pc' = "issue"
    BY <1>1 DEF AftersOf, Start, Then
  <1>3. PlacesInv'
    BY <1>1, <1>2 DEF Start, PlacesInv
  <1>4. PortInv'
    <2>1. DOMAIN port' = DOMAIN port /\ port'.st = TRUE
      BY DEF IInv, PortInv, Start, Started
    <2>2. QED
      BY <1>2, <2>1 DEF IInv, PortInv, BeforeStart, AfterFR, PolledPlaces, LastPlaces
  <1>5. PortMemReturned' /\ DoneUnlessExpired'
    BY <1>2 DEF IInv, PortMemReturned, DoneUnlessExpired, Start
  <1>6. QED
    BY <1>3, <1>4, <1>5 DEF IInv

LEMMA IssueKeeps ==
  ASSUME IInv, Issue
  PROVE  IInv'
  <1>1. AftersOf(ahci_call) /\ ahci_call.fn \in Functions
    BY Afters DEF IInv, PlacesInv
  <1>2. ahci_pc' = "poll"
    BY <1>1 DEF AftersOf, Issue, Then
  <1>3. PlacesInv'
    BY <1>1, <1>2 DEF Issue, PlacesInv, PolledPlaces
  <1>4. PortInv'
    <2>1. port.st
      BY DEF Issue, IInv, PortInv
    <2>2. DOMAIN port' = DOMAIN port /\ port'.ci
      BY ZenonT(60), <2>1 DEF IInv, PortInv, Issue, Issued
    <2>3. QED
      BY <1>2, <2>2 DEF IInv, PortInv, BeforeStart, AfterFR, PolledPlaces, LastPlaces
  <1>5. PortMemReturned' /\ DoneUnlessExpired'
    BY <1>2 DEF IInv, PortMemReturned, DoneUnlessExpired, Issue
  <1>6. QED
    BY <1>3, <1>4, <1>5 DEF IInv

LEMMA PollKeeps ==
  ASSUME IInv, Poll
  PROVE  IInv'
  <1>1. AftersOf(ahci_call) /\ ahci_call.fn \in Functions
    BY Afters DEF IInv, PlacesInv
  <1>2. \/ ahci_pc' = "check"
        \/ ahci_pc' = "return" /\ ahci_call.fn \in Spinning
        \/ ahci_pc' = "judge" /\ ahci_call.fn \notin Spinning
    BY <1>1 DEF AftersOf, Poll, Then
  <1>3. PlacesInv'
    BY <1>1, <1>2 DEF Poll, PlacesInv, PolledPlaces, LastPlaces
  <1>4. PortInv'
    <2>1. port.ci \/ done
      BY DEF Poll, IInv, PortInv, PolledPlaces
    <2>2. ahci_pc' # "check" => done' \/ expired'
      <3>1. ahci_pc' # "check" => ~ Enters(port.ci)
        BY DEF Poll
      <3>2. CASE done
        BY <3>2 DEF Poll
      <3>3. CASE port.ci
        BY ZenonT(60), <3>1, <3>3 DEF Enters, Poll
      <3>4. QED
        BY <2>1, <3>2, <3>3
    <2>3. ahci_pc' = "check" => port'.ci \/ done'
      BY <2>1 DEF Poll
    <2>4. QED
      BY <1>2, <2>2, <2>3 DEF Poll, IInv, PortInv, BeforeStart, AfterFR, PolledPlaces, LastPlaces
  <1>5. PortMemReturned' /\ DoneUnlessExpired'
    BY <1>2 DEF IInv, PortMemReturned, DoneUnlessExpired, Poll
  <1>6. QED
    BY <1>3, <1>4, <1>5 DEF IInv

LEMMA CheckKeeps ==
  ASSUME IInv, Check
  PROVE  IInv'
  <1>1. CASE Return(IF ahci_call.fn = "read_sector_satapi" THEN -1 ELSE 8)
    <2> DEFINE r == IF ahci_call.fn = "read_sector_satapi" THEN -1 ELSE 8
    <2>1. r \in Int /\ r # 0
      OBVIOUS
    <2>2. Return(r) /\ ahci_pc = "check"
      BY <1>1 DEF Check
    <2> HIDE DEF r
    <2>3. QED
      BY <2>1, <2>2, ReturnKeeps
  <1>2. CASE /\ ahci_pc' = "poll"
             /\ UNCHANGED <<ahci_call, port_mem, heap, port, ahci_ret, expired, done>>
    <2>1. PlacesInv'
      BY <1>2 DEF IInv, PlacesInv, PolledPlaces
    <2>2. PortInv'
      BY <1>2 DEF Check, IInv, PortInv, BeforeStart, AfterFR, PolledPlaces, LastPlaces
    <2>3. PortMemReturned' /\ DoneUnlessExpired'
      BY <1>2 DEF Check, IInv, PortMemReturned, DoneUnlessExpired
    <2>4. QED
      BY <2>1, <2>2, <2>3 DEF IInv
  <1>3. QED
    BY <1>1, <1>2 DEF Check

(* From one of the last places to the next.                                *)
LEMMA LastKeeps ==
  ASSUME IInv, ahci_pc \in {"judge", "slot"}, Then,
         UNCHANGED <<ahci_call, port_mem, heap, port, ahci_ret, expired, done>>
  PROVE  IInv'
  <1>1. AftersOf(ahci_call) /\ ahci_call.fn \in Functions
    BY Afters DEF IInv, PlacesInv
  <1>2. /\ ahci_pc = "judge" => ahci_call.fn \notin Spinning
        /\ ahci_pc = "slot" => ahci_call.fn = "read_sector_satapi"
    BY DEF IInv, PlacesInv
  <1>3. \/ ahci_pc' = "return"
        \/ ahci_pc' = "slot" /\ ahci_call.fn = "read_sector_satapi"
    BY <1>1, <1>2 DEF AftersOf, Then
  <1>4. PlacesInv'
    BY <1>1, <1>3 DEF PlacesInv, LastPlaces
  <1>5. PortInv'
    BY <1>3 DEF IInv, PortInv, BeforeStart, AfterFR, PolledPlaces, LastPlaces
  <1>6. PortMemReturned' /\ DoneUnlessExpired'
    BY <1>3 DEF IInv, PortMemReturned, DoneUnlessExpired
  <1>7. QED
    BY <1>4, <1>5, <1>6 DEF IInv

LEMMA LastStepsKeep ==
  ASSUME IInv, Judge \/ WaitSlot \/ Succeed
  PROVE  IInv'
  <1>1. CASE Judge
    <2> DEFINE r == IF ahci_call.fn = "read_sector" THEN 9 ELSE -1
    <2>1. r \in Int /\ r # 0
      OBVIOUS
    <2>2. /\ ahci_pc = "judge"
          /\ \/ Return(r)
             \/ Then /\ UNCHANGED <<ahci_call, port_mem, heap, port, ahci_ret, expired, done>>
      BY <1>1 DEF Judge
    <2> HIDE DEF r
    <2>3. QED
      BY <2>1, <2>2, ReturnKeeps, LastKeeps
  <1>2. CASE WaitSlot
    BY <1>2, AgainKeeps, LastKeeps DEF WaitSlot
  <1>3. CASE Succeed
    <2> DEFINE r == 0
    <2>1. r \in Int /\ Return(r) /\ ahci_pc = "return"
      BY <1>3 DEF Succeed
    <2> HIDE DEF r
    <2>2. done \/ expired
      BY <2>1 DEF IInv, PortInv, LastPlaces
    <2>3. QED
      BY <2>1, <2>2, ReturnKeeps
  <1>4. QED
    BY <1>1, <1>2, <1>3

-----------------------------------------------------------------------------
LEMMA EnterKeeps ==
  ASSUME AhciConstants, IInv, NEW fn \in Calls, NEW n \in SectorCounts, EnterCall(fn, n)
  PROVE  IInv'
  <1>1. ahci_call'.fn \in Functions
    BY DEF AhciConstants, Program, EnterCall, Functions
  <1>2. ahci_pc' \in {"idle", "halted", "stop"} /\ port' = port
    BY DEF EnterCall
  <1>3. PlacesInv'
    BY <1>1, <1>2 DEF PlacesInv
  <1>4. PortInv'
    BY <1>2 DEF IInv, PortInv, BeforeStart, AfterFR, PolledPlaces, LastPlaces
  <1>5. heap = {}
    BY DEF EnterCall, IInv, PortMemReturned
  <1>6. PortMemReturned'
    BY <1>5 DEF EnterCall, PortMemReturned
  <1>7. DoneUnlessExpired'
    BY DEF EnterCall, DoneUnlessExpired
  <1>8. QED
    BY <1>3, <1>4, <1>6, <1>7 DEF IInv

(* The HBA changes the port only, and only in ways that keep what the       *)
(* driver relies on.                                                        *)
LEMMA HbaKeeps ==
  ASSUME IInv, Hba
  PROVE  IInv'
  <1>1. UNCHANGED <<ahci_pc, ahci_call, port_mem, heap, ahci_ret, expired>>
    BY DEF Hba, HbaCommandEngine, HbaFisEngine, HbaComplete, HbaError
  <1>2. PlacesInv' /\ PortMemReturned'
    BY <1>1 DEF IInv, PlacesInv, PortMemReturned
  <1>3. CASE HbaCommandEngine
    <2>1. /\ DOMAIN port' = DOMAIN port /\ port'.st = port.st /\ port'.fre = port.fre
          /\ port'.cr = port.st /\ port'.fr = port.fr /\ port'.ci = port.ci /\ done' = done
      BY <1>3 DEF IInv, PortInv, HbaCommandEngine
    <2>2. ahci_pc \in {"wait FR", "spin FR"} \cup AfterFR => ~ port.st
      BY DEF IInv, PortInv, BeforeStart, AfterFR
    <2>3. QED
      BY <1>1, <1>2, <2>1, <2>2 DEF IInv, PortInv, DoneUnlessExpired
  <1>4. CASE HbaFisEngine
    <2>1. /\ DOMAIN port' = DOMAIN port /\ port'.st = port.st /\ port'.fre = port.fre
          /\ port'.cr = port.cr /\ port'.fr = port.fre /\ port'.ci = port.ci /\ done' = done
      BY <1>4 DEF IInv, PortInv, HbaFisEngine
    <2>2. ahci_pc \in AfterFR => ~ port.fre
      BY DEF IInv, PortInv, BeforeStart, AfterFR
    <2>3. QED
      BY <1>1, <1>2, <2>1, <2>2 DEF IInv, PortInv, DoneUnlessExpired
  <1>5. CASE HbaComplete
    <2>1. /\ DOMAIN port' = DOMAIN port /\ port'.st = port.st /\ port'.fre = port.fre
          /\ port'.cr = port.cr /\ port'.fr = port.fr /\ done' = TRUE
      BY <1>5 DEF IInv, PortInv, HbaComplete
    <2>2. QED
      BY <1>1, <1>2, <2>1 DEF IInv, PortInv, DoneUnlessExpired
  <1>6. CASE HbaError
    <2>1. /\ DOMAIN port' = DOMAIN port /\ port'.st = port.st /\ port'.fre = port.fre
          /\ port'.cr = port.cr /\ port'.fr = port.fr /\ port'.ci = port.ci /\ done' = done
      BY <1>6 DEF IInv, PortInv, HbaError
    <2>2. QED
      BY <1>1, <1>2, <2>1 DEF IInv, PortInv, DoneUnlessExpired
  <1>7. QED
    BY <1>3, <1>4, <1>5, <1>6 DEF Hba

LEMMA InitIInv == AhciInit => IInv
  <1> SUFFICES ASSUME AhciInit PROVE IInv
    OBVIOUS
  <1>1. PICK on \in BOOLEAN :
          port = [st |-> on, fre |-> on, cr |-> on, fr |-> on, ci |-> FALSE, is |-> {}]
    BY ZenonT(60) DEF AhciInit
  <1>2. PlacesInv
    BY DEF AhciInit, PlacesInv, Functions
  <1>3. PortInv
    BY <1>1 DEF AhciInit, PortInv, BeforeStart, AfterFR, PolledPlaces, LastPlaces
  <1>4. PortMemReturned /\ DoneUnlessExpired
    BY DEF AhciInit, PortMemReturned, DoneUnlessExpired
  <1>5. QED
    BY <1>2, <1>3, <1>4 DEF IInv

LEMMA StepIInv ==
  ASSUME AhciConstants, IInv, [AhciNext]_ahci_vars
  PROVE  IInv'
  <1>1. CASE \E fn \in Calls, n \in SectorCounts : EnterCall(fn, n)
    BY <1>1, EnterKeeps
  <1>2. CASE Driver
    BY <1>2, StopEnginesKeeps, WaitsKeep, BuildKeeps, StartKeeps, IssueKeeps, PollKeeps,
       CheckKeeps, LastStepsKeep DEF Driver
  <1>3. CASE Hba
    BY <1>3, HbaKeeps
  <1>4. CASE Halted \/ UNCHANGED ahci_vars
    BY <1>4, AgainKeeps DEF Halted, ahci_vars, Again
  <1>5. QED
    BY <1>1, <1>2, <1>3, <1>4 DEF AhciNext

-----------------------------------------------------------------------------
(* Whatever functions of sata.c are called, in whatever order, for however  *)
(* many sectors, and whatever the adapter does with its registers, every    *)
(* way out of a function has given back the ahci_port_mem_t it took and     *)
(* nothing else (the calls of free in sata.c:110-607).                      *)
THEOREM AhciPortMemReturned ==
  ASSUME AhciConstants
  PROVE  AhciSpec => []PortMemReturned
  <1>1. IInv => PortMemReturned
    BY DEF IInv
  <1>2. IInv /\ [AhciNext]_ahci_vars => IInv'
    BY StepIInv
  <1>3. QED
    BY <1>1, <1>2, InitIInv, PTL DEF AhciSpec

(* For the same calls and adapters: sata_ahci_read_sector and the identify  *)
(* functions set ST and FRE only after both engines have been seen stopped  *)
(* and neither has started since (sata.c:126-146, 206-207, 275-276 and      *)
(* 339-340); and a call of any of the functions that returns 0 had its      *)
(* command completed unless its wait for PxCI ran out (sata.c:226-259,      *)
(* 312-324, 377-389, 462-476 and 577-606).                                  *)
THEOREM AhciCommandsOrderly ==
  ASSUME AhciConstants
  PROVE  AhciSpec => []CommandsOrderly
  <1>1. IInv => CommandsOrderly
    BY DEF IInv, PortInv, AfterFR, CommandsOrderly, StartOnlyWhenStopped
  <1>2. IInv /\ [AhciNext]_ahci_vars => IInv'
    BY StepIInv
  <1>3. QED
    BY <1>1, <1>2, InitIInv, PTL DEF AhciSpec
-----------------------------------------------------------------------------
(* Every sector count but 0 that fits the parameter's 16 bits is described  *)
(* exactly (sata.c:149-181).                                                *)
THEOREM PrdtExact ==
  ASSUME NEW n \in Nat, 1 <= n, n <= 65535
  PROVE  Exact(n)
<1> DEFINE e == (n + PerEntry - 1) \div PerEntry
           rest == n - PerEntry * (e - 1)
<1>1. e \in Nat /\ 1 <= e /\ e <= 4096
  BY SMT DEF PerEntry
<1>2. rest \in Nat /\ 1 <= rest /\ rest <= PerEntry
  BY <1>1, SMT DEF PerEntry
<1>3. prdt_entries(n) = e
  BY <1>1, SMT DEF prdt_entries, PerEntry
<1> HIDE DEF e
<1>4. LastEntry(n) = e - 1
  BY <1>1, <1>3, SMT DEF LastEntry
<1>5. dba(e - 1) + dbc(n, e - 1) + 1 = n * SectorBytes
  <2>1. dbc(n, e - 1) = (rest * SectorBytes - 1) % DbcValues
    BY <1>1, <1>4, SMT DEF dbc
  <2>2. dbc(n, e - 1) = rest * SectorBytes - 1
    BY <1>2, <2>1, SMT DEF DbcValues, SectorBytes, PerEntry
  <2> QED
    BY <1>1, <1>2, <2>2, SMT DEF dba, EntryBytes, SectorBytes, PerEntry
<1>6. ASSUME NEW i \in 0 .. LastEntry(n) - 1
      PROVE  dba(i) + dbc(n, i) + 1 = dba(i + 1)
  <2>1. i \in Nat /\ i < LastEntry(n)
    BY <1>1, <1>4, SMT
  <2> QED
    BY <2>1, SMT DEF dba, dbc, EntryBytes
<1> QED
  BY <1>1, <1>3, <1>4, <1>5, <1>6, SMT DEF Exact

(* The descriptors of up to 8064 sectors fit (sata.h: ct[256 * 32]).       *)
THEOREM PrdtInTable ==
  ASSUME NEW n \in Nat, n <= 8064
  PROVE  InTable(n)
  BY SMT DEF InTable, LastEntry, prdt_entries, PrdtOffset, PrdtBytes, TableBytes, PerEntry

(* A satapi read of up to 2048 sectors is described exactly                *)
(* (sata.c:540-543).                                                       *)
THEOREM SatapiExact ==
  ASSUME NEW n \in Nat, 1 <= n, n <= 2048
  PROVE  satapi_dbc(n) + 1 = n * 2048
  BY SMT DEF satapi_dbc, DbcValues
=============================================================================
