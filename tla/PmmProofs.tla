----------------------------- MODULE PmmProofs -----------------------------
(***************************************************************************)
(* The physical memory manager's properties for every memory map, page     *)
(* size and direct map offset.                                             *)
(***************************************************************************)
EXTENDS Pmm, FiniteSetTheorems, TLAPS

(* Rounding down stays below, rounding up stays above, both give a page    *)
(* boundary, and the next boundary is one page further (ALIGN_UP and       *)
(* ALIGN_DOWN in pmm.h:44-45, the inner loop of pmm_init).                  *)
LEMMA AlignDownBound ==
  ASSUME NEW a \in Nat
  PROVE  AlignDown(a) \in Nat /\ AlignDown(a) <= a
  BY SizesAssumption DEF AlignDown

LEMMA AlignUpBound ==
  ASSUME NEW a \in Nat
  PROVE  AlignUp(a) \in Nat /\ AlignUp(a) >= a
  BY SizesAssumption DEF AlignUp

LEMMA MultipleAligned ==
  ASSUME NEW k \in Nat
  PROVE  Aligned(k * PAGE_SIZE)
  BY SizesAssumption DEF Aligned

LEMMA AlignUpAligned ==
  ASSUME NEW a \in Nat
  PROVE  Aligned(AlignUp(a))
  <1>1. (a + PAGE_SIZE - 1) \div PAGE_SIZE \in Nat
    BY SizesAssumption
  <1>2. QED
    BY <1>1, MultipleAligned DEF AlignUp

LEMMA NextPageAligned ==
  ASSUME NEW a \in Nat, Aligned(a)
  PROVE  Aligned(a + PAGE_SIZE)
  <1> DEFINE q == a \div PAGE_SIZE
  <1>1. q \in Nat /\ a = q * PAGE_SIZE
    BY SizesAssumption DEF Aligned
  <1>2. a + PAGE_SIZE = (q + 1) * PAGE_SIZE /\ q + 1 \in Nat
    <2> HIDE DEF q
    <2> QED BY <1>1, SizesAssumption
  <1>3. QED
    BY <1>2, MultipleAligned

(* The pages of two usable entries are different, and none is page 0.      *)
LEMMA EntryFacts ==
  ASSUME NEW i \in Usable
  PROVE  /\ MemMap[i].base \in Nat /\ MemMap[i].base > 0
         /\ MemMap[i].length \in Nat
         /\ i \in 1 .. Len(MemMap)
         /\ First(i) \in Nat /\ First(i) >= MemMap[i].base
         /\ Limit(i) \in Nat /\ Limit(i) <= MemMap[i].base + MemMap[i].length
  <1> DEFINE E == [base : Nat, length : Nat, usable : BOOLEAN]
  <1>1. i \in 1 .. Len(MemMap) /\ MemMap[i] \in E
    <2>1. MemMap \in Seq(E) /\ i \in DOMAIN MemMap
      BY MemMapAssumption DEF Usable
    <2> HIDE DEF E
    <2>2. QED
      BY <2>1
  <1>2. MemMap[i].base \in Nat /\ MemMap[i].length \in Nat
    BY <1>1
  <1>3. MemMap[i].base > 0
    BY MemMapAssumption
  <1>4. First(i) \in Nat /\ First(i) >= MemMap[i].base
    BY <1>2, AlignUpBound DEF First
  <1>5. Limit(i) \in Nat /\ Limit(i) <= MemMap[i].base + MemMap[i].length
    BY <1>2, AlignDownBound DEF Limit
  <1>6. QED
    BY <1>1, <1>2, <1>3, <1>4, <1>5

LEMMA PagesPositive ==
  ASSUME NEW i \in Usable, NEW f \in PagesOf(i)
  PROVE  /\ f \in Nat /\ f > 0
         /\ f >= MemMap[i].base /\ f < MemMap[i].base + MemMap[i].length
  <1>1. f \in First(i) .. Limit(i) - 1
    BY Zenon DEF PagesOf
  <1>2. /\ MemMap[i].base \in Nat /\ MemMap[i].base > 0 /\ MemMap[i].length \in Nat
        /\ First(i) \in Nat /\ First(i) >= MemMap[i].base
        /\ Limit(i) \in Nat /\ Limit(i) <= MemMap[i].base + MemMap[i].length
    BY EntryFacts
  <1> HIDE DEF First, Limit
  <1>3. QED
    BY ONLY <1>1, <1>2

LEMMA PagesDisjoint ==
  ASSUME NEW i \in Usable, NEW j \in Usable, i # j,
         NEW f \in PagesOf(i)
  PROVE  f \notin PagesOf(j)
  <1>1. \/ MemMap[i].base + MemMap[i].length <= MemMap[j].base
        \/ MemMap[j].base + MemMap[j].length <= MemMap[i].base
    BY MemMapAssumption, Zenon
  <1>2. f \in Nat /\ f >= MemMap[i].base /\ f < MemMap[i].base + MemMap[i].length
    BY ONLY i \in Usable, f \in PagesOf(i), PagesPositive
  <1>3. SUFFICES ASSUME f \in PagesOf(j) PROVE FALSE
    OBVIOUS
  <1>4. f >= MemMap[j].base /\ f < MemMap[j].base + MemMap[j].length
    BY ONLY j \in Usable, <1>3, PagesPositive
  <1>5. /\ MemMap[i].base \in Nat /\ MemMap[i].length \in Nat
        /\ MemMap[j].base \in Nat /\ MemMap[j].length \in Nat
    BY EntryFacts
  <1>6. QED
    BY <1>1, <1>2, <1>4, <1>5, SMT

(* Pushing a frame that nobody knows keeps the list well formed.           *)
LEMMA PushKeepsList ==
  ASSUME TypeOK, FreeListIntact, NEW f \in Nat, f \notin FreeFrames, Push(f)
  PROVE  /\ FreeListIntact'
         /\ FreeFrames' = FreeFrames \cup {f}
         /\ chain' \in Seq(Nat) /\ Len(chain') = Len(chain) + 1
         /\ DOMAIN page' = DOMAIN page \cup {f}
         /\ \A a \in DOMAIN page' : page'[a] \in Region
         /\ free_mem_head' \in Nat
  <1>1. /\ chain \in Seq(Nat) /\ Len(chain) \in Nat
        /\ DOMAIN chain = 1 .. Len(chain)
        /\ chain' = Append(chain, f)
        /\ chain' \in Seq(Nat) /\ Len(chain') = Len(chain) + 1
        /\ DOMAIN chain' = 1 .. Len(chain) + 1
        /\ \A k \in 1 .. Len(chain) : chain'[k] = chain[k]
        /\ chain'[Len(chain) + 1] = f
    BY DEF TypeOK, Push
  <1>2. FreeFrames' = FreeFrames \cup {f}
    BY <1>1 DEF FreeFrames
  <1>3. /\ DOMAIN page' = DOMAIN page \cup {f}
        /\ page'[f] = [base |-> f, next |-> free_mem_head]
        /\ \A a \in DOMAIN page : a # f => page'[a] = page[a]
    BY DEF Push
  <1>4. \A a \in DOMAIN page' : page'[a] \in Region
    BY <1>3 DEF TypeOK, Region
  <1>5. free_mem_head' = Ptr(f) /\ free_mem_head' \in Nat
    BY SizesAssumption DEF Push, Ptr
  <1>6. \A k \in 0 .. Len(chain) : Node(k)' = Node(k)
    BY <1>1 DEF Node, Ptr
  <1>7. \A k \in DOMAIN chain' :
          page'[chain'[k]] = [base |-> chain'[k], next |-> Node(k - 1)']
    <2> SUFFICES ASSUME NEW k \in DOMAIN chain'
                 PROVE  page'[chain'[k]] =
                          [base |-> chain'[k], next |-> Node(k - 1)']
      OBVIOUS
    <2>1. k \in 1 .. Len(chain) + 1 /\ Node(k - 1)' = Node(k - 1)
      BY <1>1, <1>6
    <2>2. CASE k = Len(chain) + 1
      <3>1. k - 1 = Len(chain)
        BY <2>2, <1>1
      <3>2. Node(k - 1)' = free_mem_head
        BY <2>1, <3>1 DEF FreeListIntact
      <3>3. QED
        BY <3>2, <2>2, <1>1, <1>3
    <2>3. CASE k # Len(chain) + 1
      <3>1. k \in DOMAIN chain
        BY <2>1, <2>3, <1>1
      <3>2. chain[k] # f /\ chain[k] \in DOMAIN page
        BY <3>1 DEF FreeFrames, TypeOK
      <3>3. page[chain[k]] = [base |-> chain[k], next |-> Node(k - 1)]
        BY <3>1 DEF FreeListIntact
      <3>4. chain'[k] = chain[k]
        BY <3>1, <1>1
      <3>5. QED
        BY <3>2, <3>3, <3>4, <2>1, <1>3
    <2>4. QED
      BY <2>2, <2>3
  <1>8. \A k, m \in DOMAIN chain' : k # m => chain'[k] # chain'[m]
    <2>1. \A k \in DOMAIN chain : chain[k] # f
      BY DEF FreeFrames
    <2>2. QED
      BY <1>1, <2>1 DEF FreeListIntact
  <1>9. free_mem_head' = Node(Len(chain))'
    BY <1>1, <1>5 DEF Node, Ptr
  <1>10. QED
    BY ZenonT(60), <1>1, <1>2, <1>3, <1>4, <1>5, <1>7, <1>8, <1>9 DEF FreeListIntact

(* Taking the head off a list that is not empty.                           *)
LEMMA PopKeepsList ==
  ASSUME TypeOK, FreeListIntact, free_mem_head # NULL,
         NEW n, n = Len(chain),
         chain' = [k \in 1 .. Len(chain) - 1 |-> chain[k]],
         free_mem_head' = page[Frame(free_mem_head)].next,
         page' = page
  PROVE  /\ n \in Nat \ {0} /\ chain[n] \in Nat /\ chain[n] \in FreeFrames
         /\ page[Frame(free_mem_head)].base = chain[n]
         /\ chain' \in Seq(Nat) /\ Len(chain') = n - 1
         /\ FreeFrames' = FreeFrames \ {chain[n]}
         /\ FreeListIntact'
         /\ free_mem_head' \in Nat
  <1>1. /\ chain \in Seq(Nat) /\ n \in Nat
        /\ DOMAIN chain = 1 .. n
    BY DEF TypeOK
  <1>2. n # 0
    BY DEF FreeListIntact, Node
  <1>3. n \in DOMAIN chain /\ chain[n] \in Nat /\ chain[n] \in FreeFrames
    BY <1>1, <1>2 DEF FreeFrames
  <1>4. Frame(free_mem_head) = chain[n]
    BY <1>2, <1>3, SizesAssumption DEF FreeListIntact, Node, Ptr, Frame
  <1>5. page[chain[n]] = [base |-> chain[n], next |-> Node(n - 1)]
    BY <1>3 DEF FreeListIntact
  <1>6. free_mem_head' = Node(n - 1) /\ page[Frame(free_mem_head)].base = chain[n]
    BY <1>4, <1>5
  <1>7. /\ chain' \in Seq(Nat) /\ Len(chain') = n - 1
        /\ DOMAIN chain' = 1 .. n - 1
        /\ \A k \in 1 .. n - 1 : chain'[k] = chain[k]
    BY <1>1, <1>2
  <1>8. \A k \in 0 .. n - 1 : Node(k)' = Node(k)
    BY <1>1, <1>7 DEF Node, Ptr
  <1>9. FreeFrames' = FreeFrames \ {chain[n]}
    <2>1. ASSUME NEW k \in 1 .. n - 1
          PROVE  chain[k] # chain[n]
      <3>1. k \in DOMAIN chain /\ k # n
        BY <1>1
      <3>2. QED
        BY <3>1, <1>3 DEF FreeListIntact
    <2>2. FreeFrames' = {chain[k] : k \in 1 .. n - 1}
      BY ONLY <1>7, ZenonT(60) DEF FreeFrames
    <2>3. FreeFrames = {chain[k] : k \in 1 .. n - 1} \cup {chain[n]}
      <3>1. 1 .. n = (1 .. n - 1) \cup {n}
        BY <1>1, <1>2
      <3>2. QED
        BY ZenonT(60), <1>1, <3>1 DEF FreeFrames
    <2>4. QED
      BY <2>1, <2>2, <2>3
  <1>10. FreeListIntact'
    <2>1. free_mem_head' = Node(Len(chain))'
      BY <1>1, <1>2, <1>6, <1>7, <1>8
    <2>2. ASSUME NEW k \in DOMAIN chain'
          PROVE  page'[chain'[k]] = [base |-> chain'[k], next |-> Node(k - 1)']
      <3>1. k \in DOMAIN chain /\ chain'[k] = chain[k] /\ Node(k - 1)' = Node(k - 1)
        BY <1>1, <1>2, <1>7, <1>8
      <3>2. QED
        BY <3>1 DEF FreeListIntact
    <2>3. \A k, m \in DOMAIN chain' : k # m => chain'[k] # chain'[m]
      BY <1>1, <1>7 DEF FreeListIntact
    <2>4. QED
      BY <2>1, <2>2, <2>3 DEF FreeListIntact
  <1>11. free_mem_head' \in Nat
    <2>1. n - 1 # 0 => chain[n - 1] \in Nat
      BY ONLY <1>1, <1>2
    <2>2. Node(n - 1) \in Nat
      BY ONLY <2>1, SizesAssumption DEF Node, Ptr, NULL
    <2>3. QED
      BY ONLY <1>6, <2>2
  <1>12. QED
    BY <1>1, <1>2, <1>3, <1>6, <1>7, <1>9, <1>10, <1>11

-----------------------------------------------------------------------------
LEMMA InitInv == Init => IInv
  <1> SUFFICES ASSUME Init PROVE IInv
    OBVIOUS
  <1>1. /\ chain = <<>> /\ Len(chain) = 0 /\ DOMAIN chain = {}
        /\ FreeFrames = {} /\ held = {}
    BY DEF Init, FreeFrames
  <1>2. Len(MemMap) \in Nat
    BY MemMapAssumption
  <1>3. TypeOK
    BY <1>1, <1>2 DEF Init, TypeOK, NULL
  <1>4. FreeListIntact
    BY <1>1 DEF Init, FreeListIntact, Node
  <1>5. IsFiniteSet(held) /\ CountersExact
    BY <1>1, FS_EmptySet
       DEF Init, CountersExact, pmm_get_free_pages, pmm_get_used_pages
  <1>6. NeverFreeAndHeld /\ KnownFrames /\ InitProgress
    BY <1>1 DEF Init, NeverFreeAndHeld, KnownFrames, InitProgress
  <1>7. QED
    BY <1>3, <1>4, <1>5, <1>6 DEF IInv

(* The steps of pmm_init that touch no page.                               *)
LEMMA InitLoopStep ==
  ASSUME IInv, PmmInitEntry \/ PmmInitEntryEnd \/ PmmInitReturn
  PROVE  IInv'
  <1>1. /\ Len(MemMap) \in Nat
        /\ UNCHANGED <<page, free_mem_head, pmm_total_pages, pmm_free_pages,
                       palloc_ret, chain, held>>
    BY MemMapAssumption DEF PmmInitEntry, PmmInitEntryEnd, PmmInitReturn
  <1>2. FreeFrames' = FreeFrames
    BY <1>1 DEF FreeFrames
  <1>3. FreeListIntact' /\ NeverFreeAndHeld' /\ IsFiniteSet(held)' /\ CountersExact'
    BY <1>1, <1>2
       DEF IInv, FreeListIntact, Node, NeverFreeAndHeld, CountersExact,
           pmm_get_free_pages, pmm_get_used_pages
  <1>4. CASE PmmInitEntry
    <2>1. entry \in DOMAIN MemMap /\ pc = "entry"
      BY <1>4, MemMapAssumption DEF PmmInitEntry, IInv, TypeOK
    <2>2. CASE MemMap[entry].usable
      <3>1. entry \in Usable
        BY <2>1, <2>2 DEF Usable
      <3>2. First(entry) \in Nat /\ Aligned(First(entry))
        BY <3>1, EntryFacts, AlignUpAligned DEF First
      <3>3. pc' = "page" /\ current' = First(entry) /\ entry' = entry
        BY <1>4, <2>2 DEF PmmInitEntry
      <3>4. TypeOK'
        BY <1>1, <1>2, <3>2, <3>3 DEF IInv, TypeOK
      <3>5. InitProgress'
        BY <3>1, <3>2, <3>3 DEF InitProgress
      <3>6. KnownFrames'
        BY <1>1, <1>2, <2>1, <3>3 DEF IInv, KnownFrames
      <3>7. QED
        BY <1>3, <3>4, <3>5, <3>6 DEF IInv
    <2>3. CASE ~MemMap[entry].usable
      <3>1. pc' = pc /\ current' = current /\ entry' = entry + 1
        BY <1>4, <2>3 DEF PmmInitEntry
      <3>2. TypeOK'
        BY <1>1, <1>2, <1>4, <3>1 DEF IInv, TypeOK, PmmInitEntry
      <3>3. InitProgress' /\ KnownFrames'
        BY <1>1, <1>2, <2>1, <3>1 DEF IInv, TypeOK, KnownFrames, InitProgress, Usable
      <3>4. QED
        BY <1>3, <3>2, <3>3 DEF IInv
    <2>4. QED
      BY <2>2, <2>3
  <1>5. CASE PmmInitEntryEnd
    <2>1. /\ pc = "page" /\ pc' = "entry" /\ current' = current
          /\ entry' = entry + 1 /\ entry \in Usable
      BY <1>5 DEF PmmInitEntryEnd, IInv, InitProgress
    <2>2. entry \in 1 .. Len(MemMap)
      BY <2>1, EntryFacts
    <2>3. TypeOK'
      BY <1>1, <1>2, <2>1, <2>2 DEF IInv, TypeOK
    <2>4. InitProgress' /\ KnownFrames'
      BY <1>1, <1>2, <2>1, <2>2 DEF IInv, KnownFrames, InitProgress, Usable
    <2>5. QED
      BY <1>3, <2>3, <2>4 DEF IInv
  <1>6. CASE PmmInitReturn
    <2>1. /\ pc = "entry" /\ pc' = "ready" /\ current' = current
          /\ entry' = entry /\ entry = Len(MemMap) + 1
      BY <1>6, <1>1 DEF PmmInitReturn, IInv, TypeOK
    <2>2. TypeOK' /\ InitProgress' /\ KnownFrames'
      BY <1>1, <1>2, <2>1 DEF IInv, TypeOK, KnownFrames, InitProgress
    <2>3. QED
      BY <1>3, <2>2 DEF IInv
  <1>7. QED
    BY <1>4, <1>5, <1>6

(* pmm_init pushes a page: it is new because usable entries are disjoint   *)
(* and the pages of this entry are visited in increasing order.            *)
LEMMA InitPageStep ==
  ASSUME IInv, PmmInitPage
  PROVE  IInv' /\ current \in PagesOf(entry) /\ current \notin FreeFrames \cup held
  <1>1. /\ pc = "page" /\ pc' = "page" /\ entry' = entry /\ entry \in Usable
        /\ current \in Nat /\ current < Limit(entry) /\ Aligned(current)
        /\ First(entry) <= current /\ current' = current + PAGE_SIZE
        /\ Push(current) /\ UNCHANGED <<palloc_ret, held>>
        /\ pmm_total_pages' = pmm_total_pages + 1
    BY DEF PmmInitPage, IInv, TypeOK, InitProgress
  <1>2. current \in PagesOf(entry)
    BY <1>1, EntryFacts DEF PagesOf
  <1>3. current \notin FreeFrames \cup held
    <2>1. SUFFICES ASSUME current \in FreeFrames \cup held PROVE FALSE
      OBVIOUS
    <2>2. PICK i \in Usable : /\ current \in PagesOf(i)
                              /\ i < entry \/ (i = entry /\ current < current)
      BY <2>1 DEF IInv, KnownFrames
    <2>3. i # entry
      BY <2>2, <1>1, EntryFacts
    <2>4. QED
      BY <2>2, <2>3, <1>1, <1>2, PagesDisjoint
  <1>4. /\ FreeListIntact'
        /\ FreeFrames' = FreeFrames \cup {current}
        /\ chain' \in Seq(Nat) /\ Len(chain') = Len(chain) + 1
        /\ DOMAIN page' = DOMAIN page \cup {current}
        /\ \A a \in DOMAIN page' : page'[a] \in Region
        /\ free_mem_head' \in Nat
    BY ZenonT(60), <1>1, <1>3, PushKeepsList DEF IInv
  <1>5. pmm_free_pages' = pmm_free_pages + 1
    BY <1>1 DEF Push
  <1>6. current' \in Nat /\ Aligned(current') /\ First(entry) <= current' /\ current < current'
    BY <1>1, NextPageAligned, SizesAssumption, EntryFacts
  <1>7. TypeOK'
    BY <1>1, <1>4, <1>5, <1>6 DEF IInv, TypeOK
  <1>8. NeverFreeAndHeld'
    BY <1>1, <1>3, <1>4 DEF IInv, NeverFreeAndHeld
  <1>9. IsFiniteSet(held)' /\ CountersExact'
    <2>1. IsFiniteSet(held) /\ CountersExact /\ held' = held
      BY <1>1 DEF IInv
    <2>2. /\ chain \in Seq(Nat) /\ Len(chain) \in Nat
          /\ pmm_free_pages \in Int /\ pmm_total_pages \in Int
      BY DEF IInv, TypeOK
    <2>3. Cardinality(held) \in Nat /\ Cardinality(held') = Cardinality(held)
      BY <2>1, FS_CardinalityType
    <2>4. Len(chain') = Len(chain) + 1
      BY <1>4
    <2>5. CountersExact'
      BY <1>1, <1>5, <2>1, <2>2, <2>3, <2>4, SMT
         DEF CountersExact, pmm_get_free_pages, pmm_get_used_pages
    <2>6. QED
      BY <2>1, <2>5
  <1>10. KnownFrames'
    <2> SUFFICES ASSUME NEW f \in (FreeFrames \cup held)'
                 PROVE  /\ Aligned(f)
                        /\ \E i \in Usable :
                             /\ f \in PagesOf(i)
                             /\ \/ i < entry'
                                \/ i = entry' /\ pc' = "page" /\ f < current'
      BY DEF KnownFrames
    <2>1. CASE f = current
      BY <2>1, <1>1, <1>2, <1>6
    <2>2. CASE f \in FreeFrames \cup held
      <3>1. Aligned(f)
        BY <2>2 DEF IInv, KnownFrames
      <3>2. PICK i \in Usable : /\ f \in PagesOf(i)
                                /\ i < entry \/ (i = entry /\ f < current)
        BY <2>2 DEF IInv, KnownFrames
      <3>3. f \in Nat
        BY <3>2, PagesPositive
      <3>4. f < current => f < current'
        BY <3>3, <1>1, <1>6
      <3>5. QED
        BY <3>1, <3>2, <3>4, <1>1
    <2>3. QED
      BY <2>1, <2>2, <1>1, <1>4
  <1>11. InitProgress'
    BY <1>1, <1>6 DEF InitProgress
  <1>12. QED
    BY <1>2, <1>3, <1>4, <1>7, <1>8, <1>9, <1>10, <1>11 DEF IInv

(* palloc on an empty list changes nothing but its answer.                 *)
LEMMA PallocEmpty ==
  ASSUME IInv, Palloc, free_mem_head = NULL
  PROVE  /\ IInv'
         /\ Len(chain) = 0 /\ FreeFrames = {} /\ palloc_ret' = 0
         /\ FreeFrames' = FreeFrames /\ held' = held
  <1>1. /\ UNCHANGED <<pc, entry, current, page, free_mem_head,
                       pmm_total_pages, pmm_free_pages, chain, held>>
        /\ palloc_ret' = 0
    BY DEF Palloc
  <1>2. chain \in Seq(Nat) /\ Len(chain) \in Nat /\ DOMAIN chain = 1 .. Len(chain)
    BY DEF IInv, TypeOK
  <1>3. Len(chain) = 0
    <2>1. SUFFICES ASSUME Len(chain) # 0 PROVE FALSE
      OBVIOUS
    <2>2. chain[Len(chain)] \in Nat
      BY <1>2, <2>1
    <2>3. QED
      BY <2>1, <2>2, SizesAssumption DEF IInv, FreeListIntact, Node, Ptr, NULL
  <1>4. FreeFrames = {}
    BY <1>2, <1>3 DEF FreeFrames
  <1>5. FreeFrames' = FreeFrames
    BY <1>1 DEF FreeFrames
  <1>6. IInv'
    BY ZenonT(60), <1>1, <1>5
       DEF IInv, TypeOK, FreeListIntact, Node, NeverFreeAndHeld, CountersExact,
           KnownFrames, InitProgress, pmm_get_free_pages, pmm_get_used_pages
  <1>7. QED
    BY <1>1, <1>3, <1>4, <1>5, <1>6

(* palloc takes the head of the list.                                      *)
LEMMA PallocTakes ==
  ASSUME IInv, Palloc, free_mem_head # NULL
  PROVE  /\ IInv'
         /\ Len(chain) # 0
         /\ palloc_ret' \in FreeFrames /\ palloc_ret' \in Nat \ {0}
         /\ palloc_ret' \notin held /\ Aligned(palloc_ret')
         /\ FreeFrames' = FreeFrames \ {palloc_ret'}
         /\ held' = held \cup {palloc_ret'}
  <1> DEFINE n == Len(chain)
             f == chain[n]
  <1>1. /\ UNCHANGED <<pc, entry, current, page, pmm_total_pages>>
        /\ free_mem_head' = page[Frame(free_mem_head)].next
        /\ pmm_free_pages' = pmm_free_pages - 1
        /\ palloc_ret' = page[Frame(free_mem_head)].base
        /\ chain' = [k \in 1 .. Len(chain) - 1 |-> chain[k]]
        /\ held' = held \cup {page[Frame(free_mem_head)].base}
    BY DEF Palloc
  <1>2. /\ n \in Nat \ {0} /\ f \in Nat /\ f \in FreeFrames
        /\ page[Frame(free_mem_head)].base = f
        /\ chain' \in Seq(Nat) /\ Len(chain') = n - 1
        /\ FreeFrames' = FreeFrames \ {f}
        /\ FreeListIntact'
        /\ free_mem_head' \in Nat
    BY <1>1, PopKeepsList DEF IInv
  <1>3. palloc_ret' = f /\ held' = held \cup {f}
    BY <1>1, <1>2
  <1>4. f \notin held /\ f \in DOMAIN page
    BY <1>2 DEF IInv, NeverFreeAndHeld, TypeOK
  <1>5. Aligned(f) /\ \E i \in Usable : f \in PagesOf(i)
    BY <1>2 DEF IInv, KnownFrames
  <1>6. f > 0
    BY <1>5, PagesPositive
  <1>7. TypeOK'
    BY <1>1, <1>2, <1>3, <1>4 DEF IInv, TypeOK, CountersExact, pmm_get_free_pages
  <1>8. NeverFreeAndHeld'
    BY <1>2, <1>3 DEF IInv, NeverFreeAndHeld
  <1>9. IsFiniteSet(held') /\ Cardinality(held') = Cardinality(held) + 1
    BY <1>3, <1>4, FS_AddElement DEF IInv
  <1>10. CountersExact'
    <2>1. Cardinality(held) \in Nat
      BY FS_CardinalityType DEF IInv
    <2>2. QED
      BY <1>1, <1>2, <1>9, <2>1
         DEF IInv, TypeOK, CountersExact, pmm_get_free_pages, pmm_get_used_pages
  <1>11. KnownFrames'
    <2>1. (FreeFrames \cup held)' = FreeFrames \cup held
      BY <1>2, <1>3
    <2>2. QED
      BY <1>1, <2>1 DEF IInv, KnownFrames
  <1>12. InitProgress'
    BY <1>1 DEF IInv, InitProgress
  <1>13. QED
    BY <1>2, <1>3, <1>4, <1>5, <1>6, <1>7, <1>8, <1>9, <1>10, <1>11, <1>12 DEF IInv

(* pfree of a frame its caller owns.                                       *)
LEMMA PfreeStep ==
  ASSUME IInv, NEW f \in held, Pfree(f)
  PROVE  /\ IInv'
         /\ FreeFrames' = FreeFrames \cup {f}
         /\ held' = held \ {f}
         /\ palloc_ret' = palloc_ret
  <1>1. /\ UNCHANGED <<pc, entry, current, pmm_total_pages, palloc_ret>>
        /\ Push(f) /\ held' = held \ {f} /\ pmm_free_pages' = pmm_free_pages + 1
    BY DEF Pfree, Push
  <1>2. f \in Nat /\ f \notin FreeFrames
    BY DEF IInv, TypeOK, NeverFreeAndHeld
  <1>3. /\ FreeListIntact'
        /\ FreeFrames' = FreeFrames \cup {f}
        /\ chain' \in Seq(Nat) /\ Len(chain') = Len(chain) + 1
        /\ DOMAIN page' = DOMAIN page \cup {f}
        /\ \A a \in DOMAIN page' : page'[a] \in Region
        /\ free_mem_head' \in Nat
    BY ZenonT(60), <1>1, <1>2, PushKeepsList DEF IInv
  <1>4. TypeOK'
    <2>1. TypeOK
      BY DEF IInv
    <2>2. FreeFrames' \subseteq DOMAIN page' /\ held' \subseteq DOMAIN page'
      BY ONLY <1>1, <1>3, <2>1 DEF TypeOK
    <2>3. DOMAIN page' \subseteq Nat /\ pmm_free_pages' \in Nat
      BY ONLY <1>1, <1>2, <1>3, <2>1 DEF TypeOK
    <2>4. QED
      BY ONLY <1>1, <1>3, <2>1, <2>2, <2>3, Zenon DEF TypeOK
  <1>5. NeverFreeAndHeld'
    BY <1>1, <1>3 DEF IInv, NeverFreeAndHeld
  <1>6. IsFiniteSet(held') /\ Cardinality(held') = Cardinality(held) - 1
    BY <1>1, FS_RemoveElement DEF IInv
  <1>7. CountersExact'
    <2>1. Cardinality(held) \in Nat
      BY FS_CardinalityType DEF IInv
    <2>2. QED
      BY <1>1, <1>3, <1>6, <2>1
         DEF IInv, TypeOK, CountersExact, pmm_get_free_pages, pmm_get_used_pages
  <1>8. KnownFrames'
    <2>1. (FreeFrames \cup held)' = FreeFrames \cup held
      BY <1>1, <1>3
    <2>2. QED
      BY <1>1, <2>1 DEF IInv, KnownFrames
  <1>9. InitProgress'
    BY <1>1 DEF IInv, InitProgress
  <1>10. QED
    BY <1>1, <1>3, <1>4, <1>5, <1>6, <1>7, <1>8, <1>9 DEF IInv

(* An owner's writes never reach a node of the list.                       *)
LEMMA OwnerWritesStep ==
  ASSUME IInv, NEW f \in held, OwnerWrites(f)
  PROVE  IInv' /\ FreeFrames' = FreeFrames /\ UNCHANGED <<held, palloc_ret>>
  <1>1. UNCHANGED <<pc, entry, current, free_mem_head, pmm_total_pages,
                    pmm_free_pages, palloc_ret, chain, held>>
    BY DEF OwnerWrites
  <1>2. PICK c \in Region : page' = [page EXCEPT ![f] = c]
    BY ZenonT(60), SizesAssumption DEF OwnerWrites
  <1>3. FreeFrames' = FreeFrames
    BY <1>1 DEF FreeFrames
  <1>4. /\ DOMAIN page' = DOMAIN page
        /\ \A a \in DOMAIN page : page'[a] \in Region
        /\ \A a \in DOMAIN page : a # f => page'[a] = page[a]
    BY <1>2 DEF IInv, TypeOK
  <1>5. TypeOK'
    BY <1>1, <1>3, <1>4 DEF IInv, TypeOK
  <1>6. FreeListIntact'
    <2>1. FreeFrames \cap held = {} /\ FreeFrames \subseteq DOMAIN page /\ FreeListIntact
      BY Zenon DEF IInv, NeverFreeAndHeld, TypeOK
    <2>2. \A k \in DOMAIN chain : chain[k] \in FreeFrames
      BY Zenon DEF FreeFrames
    <2>3. \A k \in DOMAIN chain : chain[k] # f /\ chain[k] \in DOMAIN page
      BY ONLY <2>1, <2>2, f \in held
    <2>4. QED
      BY ONLY <1>1, <1>4, <2>1, <2>3 DEF FreeListIntact, Node, Ptr
  <1>7. NeverFreeAndHeld' /\ IsFiniteSet(held)' /\ CountersExact' /\ KnownFrames' /\ InitProgress'
    <2>1. NeverFreeAndHeld'
      BY <1>1, <1>3, Zenon DEF IInv, NeverFreeAndHeld
    <2>2. IsFiniteSet(held)'
      BY <1>1, Zenon DEF IInv
    <2>3. CountersExact'
      BY <1>1, Zenon DEF IInv, CountersExact, pmm_get_free_pages, pmm_get_used_pages
    <2>4. KnownFrames' /\ InitProgress'
      BY <1>1, <1>3, Zenon DEF IInv, KnownFrames, InitProgress
    <2>5. QED
      BY ONLY <2>1, <2>2, <2>3, <2>4
  <1>8. QED
    BY <1>1, <1>3, <1>5, <1>6, <1>7 DEF IInv

LEMMA StutterStep ==
  ASSUME IInv, UNCHANGED vars
  PROVE  IInv' /\ FreeFrames' = FreeFrames
  BY ZenonT(60) DEF IInv, vars, TypeOK, FreeListIntact, Node, NeverFreeAndHeld, FreeFrames,
         CountersExact, KnownFrames, InitProgress, pmm_get_free_pages,
         pmm_get_used_pages

LEMMA NextInv == IInv /\ [Next]_vars => IInv'
  <1> SUFFICES ASSUME IInv, [Next]_vars PROVE IInv'
    OBVIOUS
  <1>1. CASE PmmInitEntry \/ PmmInitEntryEnd \/ PmmInitReturn
    BY <1>1, InitLoopStep
  <1>2. CASE PmmInitPage
    BY <1>2, InitPageStep
  <1>3. CASE Palloc
    BY <1>3, PallocEmpty, PallocTakes
  <1>4. ASSUME NEW f \in held, Pfree(f) PROVE IInv'
    BY <1>4, PfreeStep
  <1>5. ASSUME NEW f \in held, OwnerWrites(f) PROVE IInv'
    BY <1>5, OwnerWritesStep
  <1>6. CASE UNCHANGED vars
    BY <1>6, StutterStep
  <1>7. QED
    BY <1>1, <1>2, <1>3, <1>4, <1>5, <1>6 DEF Next

(* The inductive invariant holds in every reachable state of pmm.c.        *)
THEOREM PmmInvariant == Spec => []IInv
  <1>1. QED
    BY InitInv, NextInv, PTL DEF Spec

(* Type correctness of the allocator's state.                              *)
THEOREM PmmTypeCorrect == Spec => []TypeOK
  <1>1. IInv => TypeOK
    BY DEF IInv
  <1>2. QED
    BY <1>1, PmmInvariant, PTL

(* The list threaded through the free pages is never broken or cyclic.     *)
THEOREM PmmFreeListIntact == Spec => []FreeListIntact
  <1>1. IInv => FreeListIntact
    BY DEF IInv
  <1>2. QED
    BY <1>1, PmmInvariant, PTL

(* No frame is ever free and owned, so no frame is handed out twice.       *)
THEOREM PmmNeverFreeAndHeld == Spec => []NeverFreeAndHeld
  <1>1. IInv => NeverFreeAndHeld
    BY DEF IInv
  <1>2. QED
    BY <1>1, PmmInvariant, PTL

(* The statistics that pmmstats prints are exact.                          *)
THEOREM PmmCountersExact == Spec => []CountersExact
  <1>1. IInv => CountersExact
    BY DEF IInv
  <1>2. QED
    BY <1>1, PmmInvariant, PTL

(* palloc answers 0 exactly on exhaustion, otherwise a fresh aligned page. *)
THEOREM PmmPallocFresh == Spec => PallocFresh
  <1>1. ASSUME IInv, Palloc
        PROVE  /\ (palloc_ret' = 0) <=> (Len(chain) = 0)
               /\ palloc_ret' \notin held
               /\ Aligned(palloc_ret')
    <2>1. CASE free_mem_head = NULL
      <3>1. 0 \notin held
        BY PagesPositive, <1>1 DEF IInv, KnownFrames
      <3>2. Aligned(0)
        BY SizesAssumption DEF Aligned
      <3>3. QED
        BY <3>1, <3>2, <2>1, <1>1, PallocEmpty
    <2>2. CASE free_mem_head # NULL
      BY <2>2, <1>1, PallocTakes
    <2>3. QED
      BY <2>1, <2>2
  <1>2. IInv /\ [Next]_vars =>
          [Palloc => /\ (palloc_ret' = 0) <=> (Len(chain) = 0)
                     /\ palloc_ret' \notin held
                     /\ Aligned(palloc_ret')]_vars
    BY <1>1
  <1>3. QED
    BY <1>2, PmmInvariant, PTL DEF Spec, PallocFresh

(* Every behaviour of the list in the pages is a behaviour of the abstract *)
(* frame allocator: callers may reason about a set of free frames.         *)
THEOREM PmmImplementsFrameAllocator == Spec => ImplementsFrameAllocator
  <1>1. Init => FA!Init
    BY DEF Init, FA!Init, FreeFrames
  <1>2. IInv /\ [Next]_vars => [FA!Next]_(FA!avars)
    <2> SUFFICES ASSUME IInv, [Next]_vars
                 PROVE  FA!Next \/ UNCHANGED FA!avars
      BY DEF FA!avars
    <2>1. CASE PmmInitEntry \/ PmmInitEntryEnd \/ PmmInitReturn
      <3>1. UNCHANGED <<chain, held, palloc_ret>>
        BY <2>1 DEF PmmInitEntry, PmmInitEntryEnd, PmmInitReturn
      <3>2. QED
        BY <3>1 DEF FA!avars, FreeFrames
    <2>2. CASE PmmInitPage
      <3>1. /\ current \in PagesOf(entry) /\ current \notin FreeFrames \cup held
            /\ entry \in Usable /\ Push(current) /\ UNCHANGED <<palloc_ret, held>>
        BY <2>2, InitPageStep DEF PmmInitPage, IInv, InitProgress
      <3>2. current \in UsableFrames /\ current \in Nat
        BY <3>1, PagesPositive DEF UsableFrames
      <3>3. FreeFrames' = FreeFrames \cup {current}
        BY ZenonT(60), <3>1, <3>2, PushKeepsList DEF IInv
      <3>4. FA!Donate(current)
        BY <3>1, <3>3 DEF FA!Donate
      <3>5. QED
        BY <3>2, <3>4 DEF FA!Next
    <2>3. CASE Palloc
      <3>1. CASE free_mem_head = NULL
        BY <3>1, <2>3, PallocEmpty DEF FA!Next, FA!Alloc
      <3>2. CASE free_mem_head # NULL
        BY <3>2, <2>3, PallocTakes DEF FA!Next, FA!Alloc
      <3>3. QED
        BY <3>1, <3>2
    <2>4. ASSUME NEW f \in held, Pfree(f) PROVE FA!Next
      <3>1. f \in UsableFrames
        BY DEF IInv, KnownFrames, UsableFrames
      <3>2. FA!Release(f)
        BY <2>4, PfreeStep DEF FA!Release
      <3>3. QED
        BY <3>1, <3>2 DEF FA!Next
    <2>5. ASSUME NEW f \in held, OwnerWrites(f) PROVE UNCHANGED FA!avars
      BY <2>5, OwnerWritesStep DEF FA!avars
    <2>6. CASE UNCHANGED vars
      BY <2>6, StutterStep DEF FA!avars, vars
    <2>7. QED
      BY <2>1, <2>2, <2>3, <2>4, <2>5, <2>6 DEF Next
  <1>3. QED
    BY <1>1, <1>2, PmmInvariant, PTL DEF Spec, ImplementsFrameAllocator, FA!Spec
=============================================================================
