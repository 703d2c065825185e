-------------------------------- MODULE Pmm --------------------------------
(***************************************************************************)
(* The physical memory manager, src/mm/pmm.c.                              *)
(*                                                                         *)
(* Free page frames form a LIFO list whose nodes are stored in the free    *)
(* pages themselves, reached through the higher half direct map: the node  *)
(* of the frame at physical address f is at pointer f + HhdmOffset.  The   *)
(* allocator never looks at a frame it has handed out, and the owner of a  *)
(* frame may write anything into it, the old node included.                *)
(***************************************************************************)
EXTENDS Integers, Sequences, FiniteSets

CONSTANTS
  PAGE_SIZE,    \* 4096 in the kernel
  HhdmOffset,   \* hhdm_request.response->offset
  MemMap,       \* memmap_request.response->entries, in order
  PageContents  \* what an owner may leave in the first words of its page

NULL == 0

(* A struct PhysicalMemoryRegion, or whatever an owner wrote over it.      *)
Region == [base : Nat, next : Nat]

AlignUp(a)   == ((a + PAGE_SIZE - 1) \div PAGE_SIZE) * PAGE_SIZE
AlignDown(a) == (a \div PAGE_SIZE) * PAGE_SIZE

(* The page addresses pmm_init visits in entry i: First(i) up to Limit(i). *)
FirstUnaligned(i) == MemMap[i].base  \* mutant: no ALIGN_UP
First(i) == AlignUp(MemMap[i].base)
Limit(i) == AlignDown(MemMap[i].base + MemMap[i].length)
Aligned(a) == a % PAGE_SIZE = 0
PagesOf(i) == {a \in First(i) .. Limit(i) - 1 : Aligned(a)}

Usable == {i \in DOMAIN MemMap : MemMap[i].usable}

ASSUME SizesAssumption ==
  /\ PAGE_SIZE \in Nat \ {0}
  /\ HhdmOffset \in Nat \ {0}
  /\ PageContents \subseteq Region

(* The boot protocol's promise about the memory map: usable entries do not *)
(* overlap, and the page at address 0 is never usable.                     *)
ASSUME MemMapAssumption ==
  /\ MemMap \in Seq([base : Nat, length : Nat, usable : BOOLEAN])
  /\ \A i \in Usable : MemMap[i].base > 0
  /\ \A i, j \in Usable :
       i # j => \/ MemMap[i].base + MemMap[i].length <= MemMap[j].base
                \/ MemMap[j].base + MemMap[j].length <= MemMap[i].base

VARIABLES
  pc,               \* where pmm_init is; "ready" once it returned
  entry, current,   \* its loop variables
  page,             \* the first words of every page touched so far
  free_mem_head,    \* pointer to the first node, or NULL
  pmm_total_pages,
  pmm_free_pages,
  palloc_ret,       \* what the last palloc returned
  chain,            \* history: the frames on the list, last pushed last
  held              \* history: the frames callers own

vars == <<pc, entry, current, page, free_mem_head, pmm_total_pages,
          pmm_free_pages, palloc_ret, chain, held>>

Ptr(f)   == f + HhdmOffset
Frame(p) == p - HhdmOffset

pmm_get_total_pages == pmm_total_pages
pmm_get_free_pages  == pmm_free_pages
pmm_get_used_pages  == pmm_total_pages - pmm_free_pages

Init ==
  /\ pc = "entry"
  /\ entry = 1
  /\ current = 0
  /\ page = [f \in {} |-> [base |-> 0, next |-> 0]]
  /\ free_mem_head = NULL
  /\ pmm_total_pages = 0
  /\ pmm_free_pages = 0
  /\ palloc_ret = 0
  /\ chain = <<>>
  /\ held = {}

-----------------------------------------------------------------------------
(* Mutant: pfree trusts the base that was in the page before.              *)
PushOldBase(f) ==
  /\ page' = [a \in DOMAIN page \cup {f} |->
                IF a # f THEN page[a]
                ELSE [base |-> IF pc = "ready" THEN page[a].base ELSE f,
                      next |-> free_mem_head]]
  /\ free_mem_head' = Ptr(f)
  /\ pmm_free_pages' = pmm_free_pages + 1
  /\ chain' = Append(chain, f)

(* Write the node of frame f and make it the head of the list.             *)
Push(f) ==
  /\ page' = [a \in DOMAIN page \cup {f} |->
                IF a = f THEN [base |-> f, next |-> free_mem_head] ELSE page[a]]
  /\ free_mem_head' = Ptr(f)
  /\ pmm_free_pages' = pmm_free_pages + 1
  /\ chain' = Append(chain, f)

(* pmm_init's outer loop looks at the next memory map entry.               *)
PmmInitEntry ==
  /\ pc = "entry"
  /\ entry <= Len(MemMap)
  /\ IF MemMap[entry].usable
       THEN /\ pc' = "page"
            /\ current' = First(entry)
            /\ UNCHANGED entry
       ELSE /\ entry' = entry + 1
            /\ UNCHANGED <<pc, current>>
  /\ UNCHANGED <<page, free_mem_head, pmm_total_pages, pmm_free_pages,
                 palloc_ret, chain, held>>

(* Mutant: the inner loop runs while current <= end.                       *)
PmmInitPageInclusive ==
  /\ pc = "page"
  /\ current <= Limit(entry)
  /\ Push(current)
  /\ pmm_total_pages' = pmm_total_pages + 1
  /\ current' = current + PAGE_SIZE
  /\ UNCHANGED <<pc, entry, palloc_ret, held>>

(* The inner loop's body: one more page of the entry goes on the list.     *)
PmmInitPage ==
  /\ pc = "page"
  /\ current < Limit(entry)
  /\ Push(current)
  /\ pmm_total_pages' = pmm_total_pages + 1
  /\ current' = current + PAGE_SIZE
  /\ UNCHANGED <<pc, entry, palloc_ret, held>>

PmmInitEntryEnd ==
  /\ pc = "page"
  /\ current >= Limit(entry)
  /\ pc' = "entry"
  /\ entry' = entry + 1
  /\ UNCHANGED <<current, page, free_mem_head, pmm_total_pages,
                 pmm_free_pages, palloc_ret, chain, held>>

PmmInitReturn ==
  /\ pc = "entry"
  /\ entry > Len(MemMap)
  /\ pc' = "ready"
  /\ UNCHANGED <<entry, current, page, free_mem_head, pmm_total_pages,
                 pmm_free_pages, palloc_ret, chain, held>>

(* Mutant of palloc: the head is not unlinked.                             *)
PallocKeepsHead ==
  /\ pc = "ready"
  /\ free_mem_head # NULL
  /\ pmm_free_pages' = pmm_free_pages - 1
  /\ palloc_ret' = page[Frame(free_mem_head)].base
  /\ held' = held \cup {page[Frame(free_mem_head)].base}
  /\ UNCHANGED <<pc, entry, current, page, pmm_total_pages, free_mem_head, chain>>

(* palloc: 0 when the list is empty, else the base the head node records.  *)
Palloc ==
  /\ pc = "ready"
  /\ IF free_mem_head = NULL
       THEN /\ palloc_ret' = 0
            /\ UNCHANGED <<free_mem_head, pmm_free_pages, chain, held>>
       ELSE LET region == page[Frame(free_mem_head)] IN
            /\ free_mem_head' = region.next
            /\ pmm_free_pages' = pmm_free_pages - 1
            /\ palloc_ret' = region.base
            /\ chain' = [k \in 1 .. Len(chain) - 1 |-> chain[k]]
            /\ held' = held \cup {region.base}
  /\ UNCHANGED <<pc, entry, current, page, pmm_total_pages>>

(* pfree checks nothing; every caller in the kernel frees a frame that it  *)
(* got from palloc and still owns.                                         *)
Pfree(f) ==
  /\ pc = "ready"
  /\ Push(f)
  /\ held' = held \ {f}
  /\ UNCHANGED <<pc, entry, current, pmm_total_pages, palloc_ret>>

(* The owner of a frame uses it: memset, page tables, DMA descriptors.     *)
OwnerWrites(f) ==
  /\ pc = "ready"
  /\ \E c \in PageContents : page' = [page EXCEPT ![f] = c]
  /\ UNCHANGED <<pc, entry, current, free_mem_head, pmm_total_pages,
                 pmm_free_pages, palloc_ret, chain, held>>

Next ==
  \/ PmmInitEntry \/ PmmInitPage \/ PmmInitEntryEnd \/ PmmInitReturn
  \/ Palloc
  \/ \E f \in held : Pfree(f) \/ OwnerWrites(f)

Spec == Init /\ [][Next]_vars

-----------------------------------------------------------------------------
FreeFrames == {chain[k] : k \in DOMAIN chain}

TypeOK ==
  /\ pc \in {"entry", "page", "ready"}
  /\ entry \in 1 .. Len(MemMap) + 1
  /\ current \in Nat
  /\ DOMAIN page \subseteq Nat
  /\ \A f \in DOMAIN page : page[f] \in Region
  /\ free_mem_head \in Nat
  /\ pmm_total_pages \in Nat
  /\ pmm_free_pages \in Nat
  /\ palloc_ret \in Nat
  /\ chain \in Seq(Nat)
  /\ FreeFrames \subseteq DOMAIN page
  /\ held \subseteq DOMAIN page

(* The pointer to the k-th frame of the chain, NULL below the first.       *)
Node(k) == IF k = 0 THEN NULL ELSE Ptr(chain[k])

(* The pointers in memory are the list the allocator believes in: starting *)
(* at free_mem_head, palloc's "region->next" visits every free frame once, *)
(* most recently freed first, and ends at NULL, whatever owners wrote into *)
(* their pages in between (pmm.c:97-116).                                  *)
FreeListIntact ==
  /\ free_mem_head = Node(Len(chain))
  /\ \A k \in DOMAIN chain :
       page[chain[k]] = [base |-> chain[k], next |-> Node(k - 1)]
  /\ \A k, m \in DOMAIN chain : k # m => chain[k] # chain[m]

(* No frame is on the free list and owned by a caller at the same time:    *)
(* what palloc returns is nobody else's (pmm.c:97-116).                    *)
NeverFreeAndHeld == FreeFrames \cap held = {}

(* The counters that the shell's pmmstats prints are exact: every usable   *)
(* page is counted once, and "used" is the number of frames that callers   *)
(* own (pmm.c:87-88, 103, 115, 128-131).                                   *)
CountersExact ==
  /\ pmm_get_free_pages = Len(chain)
  /\ pmm_get_used_pages = Cardinality(held)

(* palloc answers 0 exactly when no frame is free, and otherwise a page    *)
(* aligned frame that no caller owned ("must return 4K-aligned frame",     *)
(* vmm.c:79; "or 0 on failure", API-Info).                                 *)
PallocFresh ==
  [][Palloc => /\ (palloc_ret' = 0) <=> (Len(chain) = 0)
               /\ palloc_ret' \notin held
               /\ Aligned(palloc_ret')]_vars

(* Every known frame is a page of a usable entry that pmm_init has already *)
(* been through, which is why the page it is about to push cannot be on    *)
(* the list yet.                                                           *)
KnownFrames ==
  \A f \in FreeFrames \cup held :
    /\ Aligned(f)
    /\ \E i \in Usable :
         /\ f \in PagesOf(i)
         /\ i < entry \/ (i = entry /\ pc = "page" /\ f < current)

InitProgress ==
  /\ pc = "page" => /\ entry \in Usable
                    /\ Aligned(current)
                    /\ First(entry) <= current
  /\ pc = "ready" => entry = Len(MemMap) + 1

(* The inductive invariant behind the properties: besides them, pmm_init   *)
(* pushes each page of each usable entry once (pmm.c:72-91).               *)
IInv ==
  /\ TypeOK
  /\ FreeListIntact
  /\ NeverFreeAndHeld
  /\ IsFiniteSet(held)
  /\ CountersExact
  /\ KnownFrames
  /\ InitProgress

(* The list in the pages implements the allocator of FrameAllocator.       *)
UsableFrames == UNION {PagesOf(i) : i \in Usable}

FA == INSTANCE FrameAllocator
        WITH Frames <- UsableFrames, free <- FreeFrames, answer <- palloc_ret

(* Whatever the list does, callers see a set of frames from which palloc   *)
(* takes one and to which pfree returns one (pmm.c:63-116).                *)
ImplementsFrameAllocator == FA!Spec
=============================================================================
