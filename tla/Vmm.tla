-------------------------------- MODULE Vmm --------------------------------
(***************************************************************************)
(* The virtual memory manager, src/mm/vmm.c: map_page and unmap_page walk  *)
(* and extend the four-level page tables that the boot loader left, with   *)
(* table frames from palloc (the abstract FrameAllocator that Pmm          *)
(* implements).  The processor walks the same tables at any moment and     *)
(* keeps translations in its TLB until an invlpg.                          *)
(***************************************************************************)
EXTENDS Integers, Sequences

CONSTANTS
  Index,       \* the slots of a table; 512 in the kernel
  Virts,       \* the virtual pages in use, as their four table indices
  Targets,     \* the physical frames that map_page is asked to map
  MapFlags,    \* the flags it is asked to map them with
  Frames,      \* the frames of the allocator
  Root,        \* the frame of the boot loader's top-level table
  BootTables,  \* the boot loader's tables, Root among them
  Dirty        \* what a frame from the allocator contains, word for word

(* A page table entry; pcd stands for the cache bits of a mapping.         *)
NoFrame == 0
Entry == [present : BOOLEAN, frame : Nat, user : BOOLEAN, huge : BOOLEAN, pcd : BOOLEAN]
Empty == [present |-> FALSE, frame |-> NoFrame, user |-> FALSE, huge |-> FALSE, pcd |-> FALSE]

ASSUME VmmAssumption ==
  /\ Virts \subseteq [1 .. 4 -> Index]
  /\ Frames \subseteq Nat \ {0} /\ Targets \subseteq Nat
  /\ Root \in DOMAIN BootTables
  /\ \A f \in DOMAIN BootTables : BootTables[f] \in [Index -> Entry]
  /\ Frames \cap (DOMAIN BootTables \cup Targets) = {}
  /\ MapFlags \subseteq [user : BOOLEAN, pcd : BOOLEAN]
  /\ Dirty \in Entry

(* The processor's walk: the entries it meets, the last repeated below a   *)
(* huge page or a hole.                                                    *)
Path(m, v) ==
  LET Below(e, l) == IF e.present /\ ~ e.huge THEN m[e.frame][v[l]] ELSE e
      e1 == m[Root][v[1]]
      e2 == Below(e1, 2)
      e3 == Below(e2, 3)
  IN <<e1, e2, e3, Below(e3, 4)>>

(* The tables in use in memory m, each with the indices that lead to it.   *)
Prefix(v, l) == [j \in 1 .. l |-> v[j]]

Places(m) ==
  {<<Prefix(<<>>, 0), Root>>} \cup
  UNION {LET e == Path(m, v) IN
         {<<Prefix(v, l), e[l].frame>> :
            l \in {k \in 1 .. 3 : \A j \in 1 .. k : e[j].present /\ ~ e[j].huge}} :
         v \in Virts}

(* They are tables of T, and none is in two places.                        *)
Tree(m, T) ==
  /\ \A a, b \in Places(m) : a[2] = b[2] => a[1] = b[1]
  /\ \A a \in Places(m) : a[2] \in T

(* The boot loader's tables are a tree, and none of the pages in use lies  *)
(* in a huge page of its making.                                           *)
ASSUME BootTablesAssumption ==
  /\ Tree(BootTables, DOMAIN BootTables)
  /\ \A v \in Virts, l \in 1 .. 3 :
       Path(BootTables, v)[l].present => ~ Path(BootTables, v)[l].huge

VARIABLES
  free, held, answer,  \* the frame allocator
  mem,      \* the words of every frame the walk can reach, as entries
  tables,   \* history: the frames that hold page tables
  tlb,      \* the translations the processor has cached
  job,      \* the call of map_page or unmap_page under way
  failed    \* history: alloc_table has been given no frame

vars == <<free, held, answer, mem, tables, tlb, job, failed>>

FA == INSTANCE FrameAllocator

Idle == [op |-> "idle", pc |-> "walk", virt |-> <<>>, entry |-> Empty, level |-> 1,
         table |-> Root]

(* Frame 0 and the frames of huge pages can be taken for tables.           *)
Reachable == Frames \cup Targets \cup DOMAIN BootTables \cup {NoFrame}

Init ==
  /\ free = Frames /\ held = {} /\ answer = 0
  /\ mem = [f \in Reachable |->
              IF f \in DOMAIN BootTables THEN BootTables[f] ELSE [i \in Index |-> Dirty]]
  /\ tables = DOMAIN BootTables
  /\ tlb = {}
  /\ job = Idle
  /\ failed = FALSE

-----------------------------------------------------------------------------
Translation(m, v) == Path(m, v)[4]

(* An access to v, by any code or speculative, caches its translation.     *)
Access(v) ==
  /\ Translation(mem, v).present
  /\ tlb' = tlb \cup {<<v, Translation(mem, v)>>}
  /\ UNCHANGED <<free, held, answer, mem, tables, job, failed>>

Invlpg(v) == {t \in tlb : t[1] # v}

(* Other kernel code takes and returns frames between calls.               *)
OtherAlloc ==
  /\ job = Idle
  /\ FA!Alloc
  /\ UNCHANGED <<mem, tables, tlb, job, failed>>

OtherRelease(f) ==
  /\ job = Idle
  /\ f \in held \ tables
  /\ FA!Release(f)
  /\ UNCHANGED <<mem, tables, tlb, job, failed>>

-----------------------------------------------------------------------------
map_page(v, phys, flags) ==
  /\ job = Idle
  /\ job' = [Idle EXCEPT !.op = "map", !.virt = v,
               !.entry = [present |-> TRUE, frame |-> phys, user |-> flags.user,
                          huge |-> FALSE, pcd |-> flags.pcd]]
  /\ UNCHANGED <<free, held, answer, mem, tables, tlb, failed>>

Slot == mem[job.table][job.virt[job.level]]

(* The entry is present, a huge page or not: go down.                      *)
Descend(op) ==
  /\ job.op = op /\ job.pc = "walk" /\ job.level < 4
  /\ Slot.present
  /\ job' = [job EXCEPT !.level = @ + 1, !.table = Slot.frame]
  /\ UNCHANGED <<free, held, answer, mem, tables, tlb, failed>>

MapDescend == Descend("map")

(* Mutant: the new table is not cleared.                                   *)
alloc_tableDirty ==
  /\ FA!Alloc
  /\ tables' = tables \cup {answer'}
  /\ failed' = (failed \/ answer' = 0)
  /\ UNCHANGED mem

(* palloc's answer is not checked: on failure frame 0 is cleared and used. *)
alloc_table ==
  /\ FA!Alloc
  /\ mem' = [mem EXCEPT ![answer'] = [i \in Index |-> Empty]]
  /\ tables' = tables \cup {answer'}
  /\ failed' = (failed \/ answer' = 0)

MapAlloc ==
  /\ job.op = "map" /\ job.pc = "walk" /\ job.level < 4
  /\ ~ Slot.present
  /\ alloc_table
  /\ job' = [job EXCEPT !.pc = "link"]
  /\ UNCHANGED tlb

MapLink ==
  /\ job.op = "map" /\ job.pc = "link"
  /\ mem' = [mem EXCEPT ![job.table][job.virt[job.level]] =
               [Empty EXCEPT !.present = TRUE, !.frame = answer, !.user = job.entry.user]]
  /\ job' = [job EXCEPT !.pc = "walk", !.level = @ + 1, !.table = answer]
  /\ UNCHANGED <<free, held, answer, tables, tlb, failed>>

(* Mutant: a page that is already mapped stays as it is.                   *)
MapLeafKeepsOld ==
  /\ job.op = "map" /\ job.pc = "walk" /\ job.level = 4
  /\ mem' = [mem EXCEPT ![job.table][job.virt[4]] = IF @.present THEN @ ELSE job.entry]
  /\ job' = [job EXCEPT !.pc = "invlpg"]
  /\ UNCHANGED <<free, held, answer, tables, tlb, failed>>

MapLeaf ==
  /\ job.op = "map" /\ job.pc = "walk" /\ job.level = 4
  /\ mem' = [mem EXCEPT ![job.table][job.virt[4]] = job.entry]
  /\ job' = [job EXCEPT !.pc = "invlpg"]
  /\ UNCHANGED <<free, held, answer, tables, tlb, failed>>

(* Mutant: map_page returns without the invlpg.                            *)
MapReturnStale ==
  /\ job.op = "map" /\ job.pc = "invlpg"
  /\ job' = Idle
  /\ UNCHANGED <<free, held, answer, mem, tables, tlb, failed>>

MapReturn ==
  /\ job.op = "map" /\ job.pc = "invlpg"
  /\ tlb' = Invlpg(job.virt)
  /\ job' = Idle
  /\ UNCHANGED <<free, held, answer, mem, tables, failed>>

-----------------------------------------------------------------------------
unmap_page(v) ==
  /\ job = Idle
  /\ job' = [Idle EXCEPT !.op = "unmap", !.virt = v]
  /\ UNCHANGED <<free, held, answer, mem, tables, tlb, failed>>

UnmapDescend == Descend("unmap")

(* A hole on the way down: the early returns.                              *)
UnmapNothing ==
  /\ job.op = "unmap" /\ job.pc = "walk" /\ job.level < 4
  /\ ~ Slot.present
  /\ job' = Idle
  /\ UNCHANGED <<free, held, answer, mem, tables, tlb, failed>>

(* Mutant: the entry one level up is cleared.                              *)
UnmapLeafWholeTable ==
  /\ job.op = "unmap" /\ job.pc = "walk" /\ job.level = 3
  /\ Slot.present
  /\ mem' = [mem EXCEPT ![job.table][job.virt[3]] = Empty]
  /\ job' = [job EXCEPT !.pc = "invlpg"]
  /\ UNCHANGED <<free, held, answer, tables, tlb, failed>>

UnmapLeaf ==
  /\ job.op = "unmap" /\ job.pc = "walk" /\ job.level = 4
  /\ mem' = [mem EXCEPT ![job.table][job.virt[4]] = Empty]
  /\ job' = [job EXCEPT !.pc = "invlpg"]
  /\ UNCHANGED <<free, held, answer, tables, tlb, failed>>

UnmapReturn ==
  /\ job.op = "unmap" /\ job.pc = "invlpg"
  /\ tlb' = Invlpg(job.virt)
  /\ job' = Idle
  /\ UNCHANGED <<free, held, answer, mem, tables, failed>>

Next ==
  \/ \E v \in Virts : Access(v) \/ unmap_page(v)
  \/ \E v \in Virts, p \in Targets, flags \in MapFlags : map_page(v, p, flags)
  \/ OtherAlloc
  \/ \E f \in held : OtherRelease(f)
  \/ MapDescend \/ MapAlloc \/ MapLink \/ MapLeaf \/ MapReturn
  \/ UnmapDescend \/ UnmapNothing \/ UnmapLeaf \/ UnmapReturn

Spec == Init /\ [][Next]_vars

-----------------------------------------------------------------------------
(* Page tables are shared with nobody: not with the allocator, and not     *)
(* between two places of the walk, unless an allocation failed, so a write *)
(* to one table changes one range of addresses (vmm.c:78-117).             *)
PageTablesPrivate ==
  ~ failed =>
    /\ tables \cap free = {}
    /\ Tree(mem, tables)

(* Whatever was cached before, during or after, no translation outlives    *)
(* the call that changed it (the invlpg of vmm.c:116 and 133).             *)
TlbCoherent ==
  ~ failed =>
    \A t \in tlb : \/ t[2] = Translation(mem, t[1])
                   \/ job.pc = "invlpg" /\ job.virt = t[1]

(* What a program sees at v.                                               *)
Visible(m, v) == IF Translation(m, v).present THEN Translation(m, v) ELSE Empty

(* A call changes what is mapped at its own page and nowhere else, in one  *)
(* step, and building tables on the way shows nowhere (vmm.c:84-134).      *)
OnlyItsPageChanges ==
  [][~ failed' => \A v \in Virts :
       Visible(mem', v) # Visible(mem, v) =>
         /\ v = job.virt /\ job.level = 4
         /\ Visible(mem', v) = job.entry]_vars

(* When map_page returns the page has the frame and flags it was asked for *)
(* ("Map MMIO region with cache disabled for device memory", pci.c:121),   *)
(* and when unmap_page returns it has none (vmm.c:114, 131).               *)
CallTakesEffect ==
  job.pc = "invlpg" /\ ~ failed => Visible(mem, job.virt) = job.entry

(* A call has its effect when it returns, and for the processor too, that   *)
(* may have cached the page's translation at any time (vmm.c:114-117,       *)
(* 131-134).                                                                *)
TranslationsCurrent == TlbCoherent /\ CallTakesEffect
=============================================================================
