----------------------------- MODULE VmmProofs -----------------------------
(***************************************************************************)
(* The virtual memory manager's properties for every set of pages, every   *)
(* pool of frames, and whatever tables the boot loader left.               *)
(***************************************************************************)
EXTENDS VmmWalks

(* The inductive invariant.  A call under way stands at a table its page's *)
(* walk reaches; a table it is about to hang in is cleared and in nobody's *)
(* walk yet; and a cached translation is the current one, or its page is   *)
(* the one the call is about to invalidate.                                *)
Job == [op : {"map", "unmap"}, pc : {"walk", "link", "invlpg"}, virt : Virts,
        entry : Entry, level : 1 .. 4, table : Reachable]

Unlinked(f) ==
  /\ f \in tables \cap Frames
  /\ mem[f] = [i \in Index |-> Empty]
  /\ \A v \in Virts, l \in 1 .. 4 : Reaches(mem, v, l) => TableAt(mem, v, l) # f

JobInv ==
  \/ job = Idle
  \/ /\ job \in Job
     /\ Reaches(mem, job.virt, job.level)
     /\ job.table = TableAt(mem, job.virt, job.level)
     /\ job.op = "map" => job.entry.present
     /\ job.op = "unmap" => job.entry = Empty
     /\ job.pc = "link" => job.op = "map" /\ job.level < 4 /\ ~ Slot.present /\ Unlinked(answer)
     /\ job.pc = "invlpg" => job.level = 4 /\ Slot = job.entry

TlbInv ==
  \A t \in tlb : /\ t[1] \in Virts /\ t[2].present
                 /\ \/ t[2] = Translation(mem, t[1])
                    \/ job.pc = "invlpg" /\ job.virt = t[1]

MemInv ==
  /\ mem \in Memory
  /\ free \subseteq Frames /\ held \subseteq Frames
  /\ tables \subseteq Reachable /\ tables \cap free = {}
  /\ Levels(mem, tables) /\ NoHuge(mem)

Sound == MemInv /\ JobInv /\ TlbInv

IInv == ~ failed => Sound

LEMMA EmptyIsEntry == Empty \in Entry
  BY DEF Empty, Entry, NoFrame

LEMMA InitIInv == Init => IInv
  <1> SUFFICES ASSUME Init PROVE IInv
    OBVIOUS
  <1> DEFINE D == DOMAIN BootTables
  <1>1. Levels(BootTables, D) /\ NoHuge(BootTables)
    BY BootTablesAssumption, TreeLevels DEF NoHuge
  <1>2. mem \in Memory /\ \A f \in D : mem[f] = BootTables[f]
    BY VmmAssumption DEF Init, Memory, Reachable
  <1>3. ASSUME NEW v \in Virts PROVE Path(mem, v) = Path(BootTables, v)
    <2>1. \A l \in 1 .. 4 : Reaches(BootTables, v, l) => TableAt(BootTables, v, l) \in D
      BY <1>1 DEF Levels
    <2>2. Agree(BootTables, mem, v, 4)
      BY <1>2, <2>1 DEF Agree
    <2>3. QED
      BY <2>2, PathSame
  <1>4. Levels(mem, D) /\ NoHuge(mem)
    BY <1>1, <1>3, SameTree
  <1>5. MemInv
    BY <1>2, <1>4, VmmAssumption DEF Init, MemInv, Reachable
  <1>6. JobInv /\ TlbInv
    BY DEF Init, JobInv, TlbInv
  <1>7. QED
    BY <1>5, <1>6 DEF IInv, Sound

(* Where a call under way stands.                                          *)
LEMMA SlotIsOnPath ==
  ASSUME Sound, job # Idle
  PROVE  /\ job \in Job /\ job.virt \in Virts /\ job.level \in 1 .. 4
         /\ job.op \in {"map", "unmap"} /\ job.entry \in Entry
         /\ Reaches(mem, job.virt, job.level)
         /\ job.table = TableAt(mem, job.virt, job.level)
         /\ Slot = Path(mem, job.virt)[job.level]
  <1>1. job \in Job /\ Reaches(mem, job.virt, job.level)
        /\ job.table = TableAt(mem, job.virt, job.level)
    BY DEF Sound, JobInv
  <1>2. job.virt \in Virts /\ job.level \in 1 .. 4 /\ job.entry \in Entry
        /\ job.op \in {"map", "unmap"}
    BY <1>1 DEF Job
  <1>3. QED
    BY <1>1, <1>2, PathAt DEF Slot

(* The steps that leave the tables alone.                                  *)
LEMMA AccessStep ==
  ASSUME Sound, NEW v \in Virts, Access(v)
  PROVE  Sound'
  <1>1. MemInv' /\ JobInv'
    <2>1. MemInv'
      BY Zenon DEF Sound, Access, MemInv
    <2>2. JobInv'
      BY Zenon DEF Sound, Access, JobInv, Slot, Unlinked
    <2>3. QED
      BY ONLY <2>1, <2>2
  <1>2. TlbInv'
    BY DEF Sound, Access, TlbInv, Translation
  <1>3. QED
    BY <1>1, <1>2 DEF Sound

LEMMA OtherStep ==
  ASSUME Sound, OtherAlloc \/ \E f \in held : OtherRelease(f)
  PROVE  Sound'
  <1>1. job' = Idle /\ job = Idle /\ mem' = mem /\ tables' = tables /\ tlb' = tlb
    BY DEF OtherAlloc, OtherRelease
  <1>2. free' \subseteq Frames /\ held' \subseteq Frames /\ tables' \cap free' = {}
    BY DEF Sound, MemInv, OtherAlloc, OtherRelease, FA!Alloc, FA!Release
  <1>3. MemInv' /\ JobInv'
    BY <1>1, <1>2 DEF Sound, MemInv, JobInv
  <1>4. TlbInv'
    BY <1>1 DEF Sound, TlbInv, Translation
  <1>5. QED
    BY <1>3, <1>4 DEF Sound

LEMMA CallStep ==
  ASSUME Sound, NEW v \in Virts,
         unmap_page(v) \/ \E p \in Targets, flags \in MapFlags : map_page(v, p, flags)
  PROVE  Sound'
  <1>1. /\ job = Idle /\ mem' = mem /\ tables' = tables /\ tlb' = tlb
        /\ free' = free /\ held' = held /\ answer' = answer
    BY ZenonT(60) DEF unmap_page, map_page
  <1>2. /\ job' \in Job /\ job'.pc = "walk" /\ job'.level = 1 /\ job'.table = Root
        /\ job'.op = "map" => job'.entry.present
        /\ job'.op = "unmap" => job'.entry = Empty
    <2>1. Root \in Reachable
      BY VmmAssumption DEF Reachable
    <2>2. CASE unmap_page(v)
      <3>1. job' = [op |-> "unmap", pc |-> "walk", virt |-> v, entry |-> Empty, level |-> 1,
                    table |-> Root]
        BY ZenonT(60), <2>2 DEF unmap_page, Idle
      <3>2. QED
        BY <2>1, <3>1, EmptyIsEntry DEF Job
    <2>3. CASE \E p \in Targets, flags \in MapFlags : map_page(v, p, flags)
      <3>1. PICK p \in Targets, flags \in MapFlags : map_page(v, p, flags)
        BY <2>3
      <3> DEFINE e == [present |-> TRUE, frame |-> p, user |-> flags.user,
                       huge |-> FALSE, pcd |-> flags.pcd]
      <3>2. e \in Entry /\ e.present
        BY VmmAssumption DEF Entry
      <3>3. job' = [op |-> "map", pc |-> "walk", virt |-> v, entry |-> e, level |-> 1,
                    table |-> Root]
        BY <3>1, Zenon DEF map_page, Idle
      <3> HIDE DEF e
      <3>4. QED
        BY <2>1, <3>2, <3>3 DEF Job
    <2>4. QED
      BY <2>2, <2>3
  <1>3. Reaches(mem, job'.virt, 1) /\ TableAt(mem, job'.virt, 1) = Root
    BY ReachesStep DEF TableAt
  <1>4. MemInv'
    BY <1>1 DEF Sound, MemInv
  <1>5. JobInv'
    BY <1>1, <1>2, <1>3 DEF JobInv
  <1>6. TlbInv'
    BY <1>1 DEF Sound, TlbInv, Translation, Idle
  <1>7. QED
    BY SMTT(60), <1>4, <1>5, <1>6 DEF Sound

LEMMA DescendStep ==
  ASSUME Sound, MapDescend \/ UnmapDescend
  PROVE  Sound'
  <1>1. /\ job.op \in {"map", "unmap"} /\ job.pc = "walk" /\ job.level < 4 /\ Slot.present
        /\ job' = [job EXCEPT !.level = @ + 1, !.table = Slot.frame]
        /\ mem' = mem /\ tables' = tables /\ tlb' = tlb
        /\ free' = free /\ held' = held /\ answer' = answer
    BY DEF MapDescend, UnmapDescend, Descend
  <1>2. job # Idle
    BY <1>1 DEF Idle
  <1> DEFINE v == job.virt
             l == job.level + 1
  <1>3. v \in Virts /\ l \in 2 .. 4 /\ l - 1 = job.level /\ job.level \in 1 .. 3
    BY <1>1, <1>2, SlotIsOnPath
  <1>4. ~ Slot.huge
    BY <1>1, <1>2, <1>3, SlotIsOnPath DEF Sound, MemInv, NoHuge
  <1>5. Reaches(mem, v, l) /\ TableAt(mem, v, l) = Slot.frame
    <2>1. Path(mem, v)[l - 1] = Slot /\ Reaches(mem, v, l - 1)
      BY <1>2, <1>3, SlotIsOnPath
    <2> HIDE DEF l, v
    <2>2. l # 1
      BY <1>3
    <2>3. QED
      BY <1>1, <1>3, <1>4, <2>1, <2>2, ReachesStep DEF TableAt
  <1>6. Slot.frame \in Reachable
    BY <1>3, <1>5 DEF Sound, MemInv, Levels
  <1>7. /\ job' \in Job /\ job'.virt = v /\ job'.level = l /\ job'.table = Slot.frame
        /\ job'.pc = "walk" /\ job'.op = job.op /\ job'.entry = job.entry
    <2>1. job' = [op |-> job.op, pc |-> "walk", virt |-> v, entry |-> job.entry,
                  level |-> l, table |-> Slot.frame]
      BY ZenonT(60), <1>1, <1>2, SlotIsOnPath DEF Job
    <2>2. job.op \in {"map", "unmap"} /\ job.entry \in Entry
      BY <1>2, SlotIsOnPath
    <2> HIDE DEF l, v
    <2>3. QED
      BY <1>3, <1>6, <2>1, <2>2 DEF Job
  <1>8. JobInv'
    BY <1>1, <1>2, <1>5, <1>7 DEF Sound, JobInv
  <1>9. MemInv'
    BY <1>1 DEF Sound, MemInv
  <1>10. TlbInv'
    BY <1>1, <1>7 DEF Sound, TlbInv, Translation
  <1>11. QED
    BY <1>8, <1>9, <1>10 DEF Sound

LEMMA ReturnStep ==
  ASSUME Sound, MapReturn \/ UnmapReturn \/ UnmapNothing
  PROVE  Sound'
  <1>1. /\ job' = Idle /\ mem' = mem /\ tables' = tables
        /\ free' = free /\ held' = held /\ answer' = answer
        /\ \/ job.pc = "invlpg" /\ tlb' = Invlpg(job.virt)
           \/ job.pc = "walk" /\ tlb' = tlb
    BY DEF MapReturn, UnmapReturn, UnmapNothing
  <1>2. MemInv' /\ JobInv'
    BY <1>1 DEF Sound, MemInv, JobInv
  <1>3. TlbInv'
    BY <1>1 DEF Sound, TlbInv, Translation, Invlpg
  <1>4. QED
    BY <1>2, <1>3 DEF Sound

-----------------------------------------------------------------------------
(* The steps that write to the tables, and what a program sees of them.    *)
VisibleStep ==
  \A v \in Virts : Visible(mem', v) # Visible(mem, v) =>
    v = job.virt /\ job.level = 4 /\ Visible(mem', v) = job.entry

LEMMA MapAllocStep ==
  ASSUME Sound, MapAlloc, ~ failed'
  PROVE  Sound' /\ VisibleStep
  <1>1. /\ job.op = "map" /\ job.pc = "walk" /\ job.level < 4 /\ ~ Slot.present
        /\ mem' = [mem EXCEPT ![answer'] = [i \in Index |-> Empty]]
        /\ tables' = tables \cup {answer'} /\ answer' # 0
        /\ job' = [job EXCEPT !.pc = "link"] /\ tlb' = tlb
    BY ZenonT(60) DEF MapAlloc, alloc_table
  <1>2. /\ answer' \in free /\ free' = free \ {answer'} /\ held' = held \cup {answer'}
    BY <1>1 DEF MapAlloc, alloc_table, FA!Alloc
  <1>3. job # Idle
    BY <1>1 DEF Idle
  <1>4. answer' \in Frames /\ answer' \in Reachable /\ answer' \notin tables
    BY <1>2 DEF Sound, MemInv, Reachable
  <1>5. /\ mem' \in Memory
        /\ mem'[answer'] = [i \in Index |-> Empty]
        /\ \A f \in tables : mem'[f] = mem[f]
    <2>1. mem \in Memory /\ tables \subseteq Reachable
      BY DEF Sound, MemInv
    <2>2. [i \in Index |-> Empty] \in [Index -> Entry]
      BY EmptyIsEntry
    <2>3. QED
      BY <1>1, <1>4, <2>1, <2>2 DEF Memory
  <1>6. ASSUME NEW v \in Virts PROVE Path(mem', v) = Path(mem, v)
    <2>1. Agree(mem, mem', v, 4)
      BY <1>5 DEF Agree, Sound, MemInv, Levels
    <2>2. QED
      BY <2>1, PathSame
  <1>7. Levels(mem', tables) /\ NoHuge(mem')
    <2>1. Levels(mem, tables) /\ NoHuge(mem)
      BY DEF Sound, MemInv
    <2>2. QED
      BY <1>6, <2>1, SameTree
  <1>8. Levels(mem', tables')
    BY ZenonT(60), <1>1, <1>7 DEF Levels
  <1>9. MemInv'
    BY <1>1, <1>2, <1>4, <1>5, <1>7, <1>8 DEF Sound, MemInv
  <1>10. /\ job' \in Job /\ job'.virt = job.virt /\ job'.level = job.level
         /\ job'.table = job.table /\ job'.pc = "link" /\ job'.op = "map"
         /\ job'.entry = job.entry
    BY <1>1, <1>3, SlotIsOnPath DEF Job
  <1>11. JobInv'
    <2>1. /\ job.virt \in Virts /\ job.level \in 1 .. 4 /\ Reaches(mem, job.virt, job.level)
          /\ job.table = TableAt(mem, job.virt, job.level)
          /\ Slot = Path(mem, job.virt)[job.level]
      BY <1>3, SlotIsOnPath
    <2>2. Reaches(mem', job.virt, job.level) /\ job.table = TableAt(mem', job.virt, job.level)
      BY <1>6, <2>1 DEF Reaches, TableAt
    <2>3. Slot' = Slot
      <3>1. job.table \in tables
        BY <2>1 DEF Sound, MemInv, Levels
      <3>2. QED
        BY <1>5, <1>10, <3>1 DEF Slot
    <2>4. Unlinked(answer)'
      <3>1. \A v \in Virts, l \in 1 .. 4 : Reaches(mem', v, l) => TableAt(mem', v, l) # answer'
        BY <1>4, <1>7 DEF Levels
      <3>2. QED
        BY ZenonT(60), <1>1, <1>4, <1>5, <3>1 DEF Unlinked
    <2>5. job.entry.present
      BY <1>1, <1>3 DEF Sound, JobInv
    <2>6. QED
      BY <1>1, <1>10, <2>2, <2>3, <2>4, <2>5 DEF JobInv
  <1>12. TlbInv'
    BY ZenonT(60), <1>1, <1>6, <1>10 DEF Sound, TlbInv, Translation
  <1>13. VisibleStep
    BY <1>6 DEF VisibleStep, Visible, Translation
  <1>14. QED
    BY <1>9, <1>11, <1>12, <1>13 DEF Sound

LEMMA MapLinkStep ==
  ASSUME Sound, MapLink
  PROVE  Sound' /\ VisibleStep
  <1> DEFINE e == [Empty EXCEPT !.present = TRUE, !.frame = answer, !.user = job.entry.user]
             u == job.virt
             n == job.level
             w == Stored(mem, u, n, e)
  <1>1. /\ job.op = "map" /\ job.pc = "link"
        /\ mem' = [mem EXCEPT ![job.table][job.virt[job.level]] = e]
        /\ job' = [job EXCEPT !.pc = "walk", !.level = @ + 1, !.table = answer]
        /\ tables' = tables /\ tlb' = tlb /\ free' = free /\ held' = held /\ answer' = answer
    BY DEF MapLink
  <1>2. job # Idle
    BY <1>1 DEF Idle
  <1>3. /\ u \in Virts /\ n \in 1 .. 3 /\ n + 1 \in 2 .. 4 /\ Reaches(mem, u, n)
        /\ job.table = TableAt(mem, u, n)
        /\ ~ Path(mem, u)[n].present /\ Unlinked(answer)
    <2>1. n < 4 /\ ~ Slot.present /\ Unlinked(answer)
      BY <1>1, <1>2 DEF Sound, JobInv
    <2>2. QED
      BY <1>2, <2>1, SlotIsOnPath
  <1>4. e.present /\ ~ e.huge /\ e.frame = answer /\ e \in Entry
    <2>1. answer \in Nat
      BY ZenonT(60), <1>3, VmmAssumption DEF Unlinked
    <2>2. job.entry.user \in BOOLEAN
      BY <1>2, SlotIsOnPath DEF Entry
    <2>3. QED
      BY ZenonT(60), <2>1, <2>2 DEF Empty, Entry
  <1>5. mem' = w
    BY <1>1, <1>3 DEF Stored
  <1>6. /\ mem \in Memory /\ tables \in SUBSET Reachable /\ Levels(mem, tables) /\ NoHuge(mem)
        /\ answer \in tables /\ mem[answer] = [i \in Index |-> Empty]
        /\ \A v \in Virts, l \in 1 .. 4 : Reaches(mem, v, l) => TableAt(mem, v, l) # answer
    BY <1>3 DEF Sound, MemInv, Unlinked
  <1> HIDE DEF e, u, n
  <1>7. w \in Memory
    BY <1>3, <1>4, <1>6, StoredWord
  <1>8. /\ Levels(w, tables) /\ NoHuge(w)
        /\ Reaches(w, u, n + 1) /\ TableAt(w, u, n + 1) = answer
        /\ \A v \in Virts : \/ Path(w, v)[4] = Path(mem, v)[4]
                            \/ ~ Path(mem, v)[4].present /\ ~ Path(w, v)[4].present
    <2>1. Hangs(w, mem, tables, u, n, answer, e)
      BY <1>3, <1>4, <1>6, Zenon DEF Hangs
    <2> HIDE DEF w
    <2>2. QED
      BY ONLY <2>1, LinkStored
  <1> HIDE DEF w
  <1>9. MemInv'
    BY ZenonT(60), <1>1, <1>5, <1>6, <1>7, <1>8 DEF Sound, MemInv
  <1>10. /\ job' \in Job /\ job'.virt = u /\ job'.level = n + 1
         /\ job'.table = answer /\ job'.pc = "walk" /\ job'.op = "map"
         /\ job'.entry = job.entry
    <2>1. job' = [op |-> "map", pc |-> "walk", virt |-> u, entry |-> job.entry,
                  level |-> n + 1, table |-> answer]
      BY ZenonT(60), <1>1, <1>2, SlotIsOnPath DEF Job, u, n
    <2>2. answer \in Reachable /\ job.entry \in Entry /\ n + 1 \in 1 .. 4
      BY <1>2, <1>3, <1>6, SlotIsOnPath
    <2>3. QED
      BY <1>3, <2>1, <2>2 DEF Job
  <1>11. JobInv'
    <2>1. job.entry.present
      BY <1>1, <1>2 DEF Sound, JobInv
    <2>2. QED
      BY <1>5, <1>8, <1>10, <2>1 DEF JobInv
  <1>12. TlbInv'
    <2>1. SUFFICES ASSUME NEW t \in tlb
                   PROVE  t[1] \in Virts /\ t[2].present /\ t[2] = Translation(w, t[1])
      BY ZenonT(60), <1>1, <1>5 DEF TlbInv
    <2>2. t[1] \in Virts /\ t[2].present /\ t[2] = Path(mem, t[1])[4]
      BY <1>1 DEF Sound, TlbInv, Translation
    <2>3. QED
      BY <1>8, <2>2 DEF Translation
  <1>13. VisibleStep
    BY <1>5, <1>8 DEF VisibleStep, Visible, Translation
  <1>14. QED
    BY <1>9, <1>11, <1>12, <1>13 DEF Sound

LEMMA LeafStep ==
  ASSUME Sound, MapLeaf \/ UnmapLeaf
  PROVE  Sound' /\ VisibleStep
  <1> DEFINE u == job.virt
             e == job.entry
             w == Stored(mem, u, 4, e)
  <1>1. /\ job.op \in {"map", "unmap"} /\ job.pc = "walk" /\ job.level = 4
        /\ job' = [job EXCEPT !.pc = "invlpg"]
        /\ tables' = tables /\ tlb' = tlb /\ free' = free /\ held' = held /\ answer' = answer
    BY DEF MapLeaf, UnmapLeaf
  <1>2. job # Idle
    BY <1>1 DEF Idle
  <1>3. /\ u \in Virts /\ e \in Entry /\ Reaches(mem, u, 4) /\ job.table = TableAt(mem, u, 4)
        /\ job.op = "map" => e.present
        /\ job.op = "unmap" => e = Empty
    BY <1>1, <1>2, SlotIsOnPath DEF Sound, JobInv
  <1>4. mem' = w
    BY <1>3 DEF MapLeaf, UnmapLeaf, Stored
  <1>5. mem \in Memory /\ tables \in SUBSET Reachable /\ Levels(mem, tables) /\ NoHuge(mem)
    BY DEF Sound, MemInv
  <1> HIDE DEF u, e
  <1>6. w \in Memory
    <2> DEFINE n == 4
    <2>1. n \in 1 .. 4 /\ Reaches(mem, u, n) /\ w = Stored(mem, u, n, e)
      BY <1>3
    <2> HIDE DEF n, w
    <2>2. QED
      BY <1>3, <1>5, <2>1, StoredWord
  <1>7. /\ \A v \in Virts : v # u => Path(w, v) = Path(mem, v)
        /\ \A v \in Virts, j \in 1 .. 3 : Path(w, v)[j] = Path(mem, v)[j]
        /\ Path(w, u)[4] = e
        /\ Levels(w, tables) /\ NoHuge(w)
    BY <1>3, <1>5, LeafStored
  <1> HIDE DEF w
  <1>8. MemInv'
    BY <1>1, <1>4, <1>5, <1>6, <1>7 DEF Sound, MemInv
  <1>9. /\ job' \in Job /\ job'.virt = u /\ job'.level = 4 /\ job'.table = job.table
        /\ job'.pc = "invlpg" /\ job'.op = job.op /\ job'.entry = e
    BY <1>1, <1>2, SlotIsOnPath DEF Job, u, e
  <1>10. Reaches(w, u, 4) /\ TableAt(w, u, 4) = job.table
    <2> DEFINE l == 4
    <2>1. l \in 1 .. 4 /\ Reaches(mem, u, l) /\ TableAt(mem, u, l) = job.table
      BY <1>3
    <2> HIDE DEF l
    <2>2. Reaches(w, u, l) /\ TableAt(w, u, l) = job.table
      BY <1>3, <1>7, <2>1, SameAbove
    <2>3. QED
      BY <2>2 DEF l
  <1>11. Slot' = e
    BY <1>4, <1>7, <1>9, <1>10, PathAt DEF Slot
  <1>12. JobInv'
    BY <1>3, <1>4, <1>9, <1>10, <1>11 DEF JobInv
  <1>13. TlbInv'
    <2>1. SUFFICES ASSUME NEW t \in tlb
                   PROVE  /\ t[1] \in Virts /\ t[2].present
                          /\ t[2] = Translation(w, t[1]) \/ u = t[1]
      BY <1>1, <1>4, <1>9 DEF TlbInv
    <2>2. t[1] \in Virts /\ t[2].present /\ t[2] = Path(mem, t[1])[4]
      BY <1>1 DEF Sound, TlbInv, Translation
    <2>3. QED
      BY <1>7, <2>2 DEF Translation
  <1>14. VisibleStep
    <2>1. Visible(w, u) = e
      BY <1>1, <1>3, <1>7 DEF Visible, Translation
    <2>2. \A v \in Virts : v # u => Visible(w, v) = Visible(mem, v)
      BY <1>7 DEF Visible, Translation
    <2>3. QED
      BY <1>1, <1>4, <2>1, <2>2 DEF VisibleStep, u, e
  <1>15. QED
    BY <1>8, <1>12, <1>13, <1>14 DEF Sound

-----------------------------------------------------------------------------
LEMMA NextStep ==
  ASSUME IInv, [Next]_vars
  PROVE  IInv' /\ (~ failed' => VisibleStep)
  <1>1. SUFFICES ASSUME ~ failed' PROVE Sound' /\ VisibleStep
    BY DEF IInv
  <1>2. ASSUME mem' = mem PROVE VisibleStep
    BY <1>2 DEF VisibleStep
  <1>3. CASE UNCHANGED vars
    <2>1. Sound
      BY SMTT(60), <1>1, <1>3 DEF IInv, vars
    <2>2. /\ mem' = mem /\ tables' = tables /\ tlb' = tlb /\ job' = job
          /\ free' = free /\ held' = held /\ answer' = answer
      BY <1>3 DEF vars
    <2>3. MemInv'
      BY ONLY <2>1, <2>2, Zenon DEF Sound, MemInv
    <2>4. JobInv'
      BY ONLY <2>1, <2>2, Zenon DEF Sound, JobInv, Slot, Unlinked
    <2>5. TlbInv'
      BY ONLY <2>1, <2>2, Zenon DEF Sound, TlbInv, Translation
    <2>6. Sound'
      BY ONLY <2>3, <2>4, <2>5 DEF Sound
    <2>7. QED
      BY <1>2, <2>2, <2>6
  <1>4. CASE Next
    <2>1. ~ failed
      BY <1>1, <1>4, ZenonT(60) DEF Next, Access, unmap_page, map_page, OtherAlloc, OtherRelease, MapDescend,
         UnmapDescend, Descend, MapAlloc, alloc_table, MapLink, MapLeaf, MapReturn,
         UnmapNothing, UnmapLeaf, UnmapReturn
    <2>2. Sound
      BY <2>1 DEF IInv
    <2>3. ASSUME NEW v \in Virts, Access(v) PROVE Sound' /\ VisibleStep
      BY SMTT(60), <1>2, <2>2, <2>3, AccessStep DEF Access
    <2>4. ASSUME NEW v \in Virts,
                 unmap_page(v) \/ \E p \in Targets, flags \in MapFlags : map_page(v, p, flags)
          PROVE  Sound' /\ VisibleStep
      BY ZenonT(60), <1>2, <2>2, <2>4, CallStep DEF unmap_page, map_page
    <2>5. CASE OtherAlloc \/ \E f \in held : OtherRelease(f)
      BY <1>2, <2>2, <2>5, OtherStep DEF OtherAlloc, OtherRelease
    <2>6. CASE MapDescend \/ UnmapDescend
      BY <1>2, <2>2, <2>6, DescendStep DEF MapDescend, UnmapDescend, Descend
    <2>7. CASE MapReturn \/ UnmapReturn \/ UnmapNothing
      BY <1>2, <2>2, <2>7, ReturnStep DEF MapReturn, UnmapReturn, UnmapNothing
    <2>8. CASE MapAlloc
      BY <1>1, <2>2, <2>8, MapAllocStep
    <2>9. CASE MapLink
      BY <2>2, <2>9, MapLinkStep
    <2>10. CASE MapLeaf \/ UnmapLeaf
      BY <2>2, <2>10, LeafStep
    <2>11. QED
      BY SMTT(60), <1>4, <2>3, <2>4, <2>5, <2>6, <2>7, <2>8, <2>9, <2>10 DEF Next
  <1>5. QED
    BY <1>3, <1>4

LEMMA IInvHolds == Spec => []IInv
  <1>1. IInv /\ [Next]_vars => IInv'
    BY NextStep
  <1>2. QED
    BY <1>1, InitIInv, PTL DEF Spec

(* As long as palloc finds a frame, no frame is both a page table and free,*)
(* and no page table hangs in two places: a store of map_page or           *)
(* unmap_page reaches one range of addresses (vmm.c:78-117).               *)
THEOREM VmmPageTablesPrivate == Spec => []PageTablesPrivate
  <1>1. IInv => PageTablesPrivate
    BY TreeLevels DEF IInv, Sound, MemInv, PageTablesPrivate
  <1>2. QED
    BY <1>1, IInvHolds, PTL

(* Whatever the processor cached and when, a translation that map_page or  *)
(* unmap_page changed does not outlive the call, and the call has had its  *)
(* effect when it returns (vmm.c:114-117, 131-134).                        *)
THEOREM VmmTranslationsCurrent == Spec => []TranslationsCurrent
  <1>1. IInv => TlbCoherent
    BY DEF IInv, Sound, TlbInv, TlbCoherent
  <1>2. IInv => CallTakesEffect
    <2>1. SUFFICES ASSUME Sound, job.pc = "invlpg" PROVE Visible(mem, job.virt) = job.entry
      BY DEF IInv, CallTakesEffect
    <2>2. job # Idle
      BY <2>1 DEF Idle
    <2>3. /\ Path(mem, job.virt)[4] = job.entry
          /\ job.op = "map" => job.entry.present
          /\ job.op = "unmap" => job.entry = Empty
          /\ job.op \in {"map", "unmap"}
      BY <2>1, <2>2, SlotIsOnPath DEF Sound, JobInv
    <2>4. QED
      BY <2>3 DEF Visible, Translation
  <1>3. IInv => TranslationsCurrent
    BY <1>1, <1>2 DEF TranslationsCurrent
  <1>4. QED
    BY <1>3, IInvHolds, PTL

(* A step changes what is mapped at the page of the call under way, at its *)
(* last level, and at no other page; the tables map_page builds on the way *)
(* show nowhere (vmm.c:84-134).                                            *)
THEOREM VmmOnlyItsPageChanges == Spec => OnlyItsPageChanges
  <1>1. IInv /\ [Next]_vars =>
          [~ failed' => \A v \in Virts :
             Visible(mem', v) # Visible(mem, v) =>
               /\ v = job.virt /\ job.level = 4
               /\ Visible(mem', v) = job.entry]_vars
    BY NextStep DEF VisibleStep
  <1>2. QED
    BY <1>1, IInvHolds, PTL DEF Spec, OnlyItsPageChanges
=============================================================================
