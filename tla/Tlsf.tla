-------------------------------- MODULE Tlsf --------------------------------
(***************************************************************************)
(* The kernel heap: src/mm/heapalloc/tlsf.c behind malloc, free and        *)
(* realloc of src/klibc/stdlib.c.  One action per entry point; each runs   *)
(* to completion, as nothing in an interrupt handler allocates.            *)
(***************************************************************************)
EXTENDS TlsfBlocks, FiniteSets, Sequences

CONSTANTS
  Pools,          \* the memory for pools: [mem, bytes]; the first is the boot pool
  MallocSizes,    \* the bytes callers ask malloc for
  ReallocSizes,   \* the bytes callers ask realloc for
  CallocArgs,     \* the pairs nmemb, size callers give calloc
  Alignments      \* the alignments callers ask tlsf_memalign for

VARIABLES
  heap,    \* the heap of TlsfBlocks
  pools,   \* the pools added so far
  live,    \* history: the bytes asked for, by pointer not yet freed
  intact   \* history: no call has written over bytes an owner relies on

vars == <<heap, pools, live, intact>>

PoolBytes(i) == align_down(Pools[i].bytes - tlsf_pool_overhead, ALIGN_SIZE)

(* The kernel gives the heap one aligned array of 1 MiB; pools that are    *)
(* added later are aligned too, smaller than the largest block and apart.  *)
ASSUME PoolsAssumption ==
  /\ \A i \in DOMAIN Pools :
       /\ Pools[i].mem % ALIGN_SIZE = 0 /\ Pools[i].mem > sizeof_block_header
       /\ PoolBytes(i) \in block_size_min .. block_size_max - 1
  /\ \A i, j \in DOMAIN Pools :
       i < j => Pools[i].mem + Pools[i].bytes <= Pools[j].mem

Init ==
  /\ heap = control_construct
  /\ pools = {}
  /\ live = [p \in {} |-> 0]
  /\ intact = TRUE

Running == heap.ok /\ pools # {}

(* What a call leaves behind; "gone" are the pointers it may invalidate.   *)
Call(h, before, gone) ==
  /\ heap' = [h EXCEPT !.wrote = {}]
  /\ intact' = (intact /\ \A p \in DOMAIN live \ gone :
                  (before \cup h.wrote) \cap Words(p, live[p]) = {})

Adding(p, n, ps) == [q \in ps \cup {p} |-> IF q = p THEN n ELSE live[q]]

init_heap ==
  /\ pools = {}
  /\ heap' = [tlsf_create_with_pool(Pools[1].mem, Pools[1].bytes) EXCEPT !.wrote = {}]
  /\ pools' = {1}
  /\ UNCHANGED <<live, intact>>

AddPool(i) ==
  /\ Running /\ i \notin pools
  /\ Call(tlsf_add_pool(heap, Pools[i].mem, Pools[i].bytes), {}, {})
  /\ pools' = pools \cup {i}
  /\ UNCHANGED live

(* The caller removes a pool in which nothing is allocated.                *)
RemovePool(i) ==
  /\ Running /\ i \in pools \ {1}
  /\ \A p \in DOMAIN live : p \notin Pools[i].mem .. Pools[i].mem + Pools[i].bytes
  /\ Call(tlsf_remove_pool(heap, Pools[i].mem), {}, {})
  /\ pools' = pools \ {i}
  /\ UNCHANGED live

Malloc(size, junk) ==
  LET r == tlsf_malloc(heap, size, junk) IN
  /\ Running
  /\ Call(r.h, {}, {})
  /\ live' = IF r.p = 0 THEN live ELSE Adding(r.p, size, DOMAIN live)
  /\ UNCHANGED pools

(* calloc: the product wraps like any size_t, and the block is zeroed.     *)
Calloc(nmemb, size, junk) ==
  LET total == (nmemb * size) % 2 ^ SIZE_BITS
      r == tlsf_malloc(heap, total, junk)
  IN /\ Running
     /\ Call(r.h, IF r.p = 0 THEN {} ELSE Words(r.p, total), {})
     /\ live' = IF r.p = 0 THEN live ELSE Adding(r.p, total, DOMAIN live)
     /\ UNCHANGED pools

Memalign(align, size, junk) ==
  LET r == tlsf_memalign(heap, align, size, junk) IN
  /\ Running
  /\ Call(r.h, {}, {})
  /\ live' = IF r.p = 0 THEN live ELSE Adding(r.p, size, DOMAIN live)
  /\ UNCHANGED pools

Free(p) ==
  /\ Running
  /\ Call(tlsf_free(heap, p), {}, {p})
  /\ live' = [q \in DOMAIN live \ {p} |-> live[q]]
  /\ UNCHANGED pools

(* The first bytes of the old data, as many as old and new size share,     *)
(* survive until the copy and in the copy.                                 *)
Realloc(p, size, junk) ==
  LET r == tlsf_realloc(heap, p, size, junk)
      kept == Smaller(live[p], size)
      moved == r.before \cap Words(p, kept) = {} /\ r.h.wrote \cap Words(r.p, kept) = {}
      others == DOMAIN live \ {p}
  IN /\ Running
     /\ heap' = [r.h EXCEPT !.wrote = {}]
     /\ intact' = /\ intact
                   /\ r.p # 0 => moved
                   /\ \A q \in others : (r.before \cup r.h.wrote) \cap Words(q, live[q]) = {}
     /\ live' = CASE r.p # 0 -> Adding(r.p, size, others)
                  [] size = 0 -> [q \in others |-> live[q]]
                  [] OTHER -> live
     /\ UNCHANGED pools

Next ==
  \/ init_heap
  \/ \E i \in DOMAIN Pools : AddPool(i) \/ RemovePool(i)
  \/ \E p \in DOMAIN live : Free(p)
  \/ \E junk \in BOOLEAN :
       \/ \E n \in MallocSizes : Malloc(n, junk)
       \/ \E c \in CallocArgs : Calloc(c[1], c[2], junk)
       \/ \E n \in MallocSizes, a \in Alignments : Memalign(a, n, junk)
       \/ \E n \in ReallocSizes, p \in DOMAIN live : Realloc(p, n, junk)

Spec == Init /\ [][Next]_vars

-----------------------------------------------------------------------------
Blocks        == DOMAIN heap.hdr
FirstBlock(i) == Pools[i].mem - block_header_overhead
Sentinel(i)   == After(FirstBlock(i), PoolBytes(i))
Sentinels     == {Sentinel(i) : i \in pools}
FreeBlocks    == {b \in Blocks : heap.hdr[b].free}
Index(b)      == mapping_insert(heap.hdr[b].size)

(* No tlsf_assert fails: the kernel's assert halts the machine, so each of *)
(* them is a claim about every sequence of calls (tlsf.c:432-1232).        *)
NoAssertFails == heap.ok

(* The headers tile each pool from its first word to the zero-size         *)
(* sentinel: no byte is lost and none belongs to two blocks, which is what *)
(* tlsf_walk_pool relies on (tlsf.c:904-919).                              *)
PoolTiled ==
  /\ \A i \in pools : {FirstBlock(i), Sentinel(i)} \subseteq Blocks
  /\ \A b \in Blocks \ Sentinels :
       /\ heap.hdr[b].size >= block_size_min /\ heap.hdr[b].size % ALIGN_SIZE = 0
       /\ block_next(heap, b) \in Blocks
       /\ \A c \in Blocks : c <= b \/ c >= block_next(heap, b)
  /\ \A b \in Sentinels : heap.hdr[b].size = 0 /\ ~ heap.hdr[b].free

(* What tlsf_check and tlsf_check_pool insist on: neighbours agree on who  *)
(* is free, two free blocks are never adjacent, and a block after a free   *)
(* one can find it (tlsf.c:827-842, 880-884).                              *)
BlocksCoalesced ==
  \A b \in Blocks \ Sentinels :
    LET next == block_next(heap, b) IN
    /\ heap.hdr[next].prev_free_bit = heap.hdr[b].free
    /\ heap.hdr[b].free => ~ heap.hdr[next].free /\ heap.hdr[next].prev_phys = b

(* The k-th block of a free list, from its head; block_null after the end. *)
Walk(list) ==
  LET at[k \in 0 .. Cardinality(Blocks)] ==
        IF k = 0 THEN heap.blocks[list]
        ELSE IF at[k - 1] = block_null THEN block_null
        ELSE heap.hdr[at[k - 1]].next_free
  IN at

(* Every list is doubly linked, ends, and holds exactly the free blocks of *)
(* its size class; the bitmaps mark exactly the lists that are not empty   *)
(* (tlsf.c:576-623, 852-889).                                              *)
FreeListsExact ==
  /\ \A list \in Lists :
       LET at == Walk(list)
           n == Cardinality(Blocks)
       IN /\ at[n] = block_null
          /\ {at[k] : k \in 0 .. n} \ {block_null} = {b \in FreeBlocks : Index(b) = list}
          /\ \A k \in 0 .. n : at[k] # block_null =>
               heap.hdr[at[k]].prev_free = IF k = 0 THEN block_null ELSE at[k - 1]
          /\ (list[2] \in heap.sl_bitmap[list[1]]) <=> (heap.blocks[list] # block_null)
  /\ heap.fl_bitmap = {fl \in 0 .. FL_INDEX_COUNT - 1 : heap.sl_bitmap[fl] # {}}

(* What tlsf_check and tlsf_check_pool insist on, after any sequence of     *)
(* calls: the blocks tile the pools, no two free ones are adjacent, and the *)
(* lists and the bitmaps hold exactly the free ones (tlsf.c:807-943).       *)
HeapWellFormed == PoolTiled /\ BlocksCoalesced /\ FreeListsExact

(* The used blocks are the live allocations, each as large as its owner    *)
(* asked: nothing leaks and nobody is short-changed (tlsf.c:1115-1264).    *)
OwnersServed ==
  /\ {block_to_ptr(b) : b \in Blocks \ (FreeBlocks \cup Sentinels)} = DOMAIN live
  /\ \A p \in DOMAIN live : heap.hdr[block_from_ptr(p)].size >= live[p]

(* The allocator keeps its links in the callers' memory, and still no call *)
(* writes into bytes that a live allocation relies on, nor loses the data  *)
(* of a block that realloc grows, shrinks or moves (tlsf.c:1208-1264).     *)
OwnersDataIntact == intact

(* A search for n bytes looks at the list of blocks of size s.             *)
Found(n, s) == ~ Before(mapping_insert(s), mapping_search(adjust_request_size(n, ALIGN_SIZE)))

(* malloc answers NULL only when every free block is below the size class  *)
(* the search begins at: no free block is overlooked (tlsf.c:543-573).     *)
MallocFailsOnlyWhenFull ==
  Running => \A n \in MallocSizes :
    /\ adjust_request_size(n, ALIGN_SIZE) # 0
    /\ tlsf_malloc(heap, n, FALSE).p = 0
    => \A b \in FreeBlocks : ~ Found(n, heap.hdr[b].size)

(* Aligned requests get aligned pointers, although the gap in front must   *)
(* be nothing or a whole free block (tlsf.c:1123-1178).                    *)
MemalignAligned ==
  Running => \A a \in Alignments, n \in MallocSizes :
    tlsf_memalign(heap, a, n, FALSE).p % a = 0

(* Every caller gets what it was promised: a block that is large enough, in *)
(* the place its alignment asks for, whose bytes nobody else writes, and no *)
(* block is lost (tlsf.c:1115-1264).                                        *)
CallersServed == OwnersServed /\ OwnersDataIntact /\ MemalignAligned

(* "a request that cannot be satisfied will leave the original buffer      *)
(* untouched" (tlsf.c:1203-1204).                                          *)
ReallocFailureKeepsBuffer ==
  Running => \A p \in DOMAIN live, n \in ReallocSizes :
    n > block_size_max =>
      tlsf_realloc(heap, p, n, FALSE).h.hdr[block_from_ptr(p)].size
        = heap.hdr[block_from_ptr(p)].size

Sizes == MallocSizes \cup ReallocSizes
           \cup {(c[1] * c[2]) % 2 ^ SIZE_BITS : c \in CallocArgs}

H == INSTANCE Heap WITH Align <- ALIGN_SIZE, Sizes <- Sizes

(* Callers see the abstract heap of Heap, whatever the lists look like     *)
(* (stdlib.c:55-76).                                                       *)
ImplementsHeap == H!Spec
=============================================================================
