----------------------------- MODULE TlsfBlocks -----------------------------
(***************************************************************************)
(* The block operations of the kernel heap, src/mm/heapalloc/tlsf.c, as    *)
(* functions from a heap to a heap, one per static helper.  A heap is      *)
(*   hdr        the block headers, by block address                        *)
(*   fl_bitmap, sl_bitmap, blocks   the control structure; a bitmap is the *)
(*              set of its set bits                                        *)
(*   ok         no tlsf_assert has failed                                  *)
(*   wrote      the words of pool memory written by the current call       *)
(* A block at b keeps prev_phys at b (the last word of the block before    *)
(* it), size and flags at b + 8, next_free and prev_free at b + 16 and     *)
(* b + 24, where the caller's data begins when the block is used.          *)
(***************************************************************************)
EXTENDS TlsfMapping

block_null == 0    \* the address of control->block_null
Junk       == -1   \* a pointer whose word now belongs to an owner

Lists == (0 .. FL_INDEX_COUNT - 1) \X (0 .. SL_INDEX_COUNT - 1)

Assert_(h, cond)   == [h EXCEPT !.ok = @ /\ cond]
Wrote(h, words)    == [h EXCEPT !.wrote = @ \cup words]

block_size(h, b)         == h.hdr[b].size
block_is_last(h, b)      == h.hdr[b].size = 0
block_is_free(h, b)      == h.hdr[b].free
block_is_prev_free(h, b) == h.hdr[b].prev_free_bit
block_from_ptr(p)        == p - block_start_offset
block_to_ptr(b)          == b + block_start_offset

block_set_size(h, b, size)   == Wrote([h EXCEPT !.hdr[b].size = size], {b + 8})
block_set_prev_free(h, b)    == Wrote([h EXCEPT !.hdr[b].prev_free_bit = TRUE], {b + 8})
block_set_prev_used(h, b)    == Wrote([h EXCEPT !.hdr[b].prev_free_bit = FALSE], {b + 8})

(* Where the block after one of this size begins.                          *)
After(b, size)   == b + block_header_overhead + size
block_next(h, b) == After(b, block_size(h, b))

block_link_next(h, b) ==
  LET next == block_next(h, b) IN
  Assert_(Wrote([h EXCEPT !.hdr[next].prev_phys = b], {next}), ~ block_is_last(h, b))

block_mark_as_free(h, b) ==
  LET next == block_next(h, b) IN
  Wrote([block_link_next(h, b) EXCEPT !.hdr[next].prev_free_bit = TRUE,
                                      !.hdr[b].free = TRUE], {next + 8, b + 8})

(* From here on the words of the links belong to the block's owner.        *)
block_mark_as_used(h, b) ==
  LET next == block_next(h, b) IN
  Assert_(Wrote([h EXCEPT !.hdr[next].prev_free_bit = FALSE,
                          !.hdr[next].prev_phys = Junk,
                          !.hdr[b].free = FALSE,
                          !.hdr[b].next_free = Junk,
                          !.hdr[b].prev_free = Junk], {next + 8, b + 8}),
          ~ block_is_last(h, b))

-----------------------------------------------------------------------------
(* block_null's own links are written by the list code and never read.     *)
SetNextFree(h, b, to) ==
  IF b = block_null THEN h ELSE Wrote([h EXCEPT !.hdr[b].next_free = to], {b + 16})
SetPrevFree(h, b, to) ==
  IF b = block_null THEN h ELSE Wrote([h EXCEPT !.hdr[b].prev_free = to], {b + 24})

(* Mutant: the first-level bit stays set when its last list empties.       *)
remove_free_blockStaleFl(h, b, fl, sl) ==
  LET prev == h.hdr[b].prev_free
      next == h.hdr[b].next_free
      g == SetNextFree(SetPrevFree(h, next, prev), prev, next)
  IN IF h.blocks[fl, sl] # b THEN g
     ELSE [g EXCEPT !.blocks[fl, sl] = next,
                    !.sl_bitmap[fl] = IF next = block_null THEN @ \ {sl} ELSE @]

remove_free_block(h, b, fl, sl) ==
  LET prev == h.hdr[b].prev_free
      next == h.hdr[b].next_free
      g == SetNextFree(SetPrevFree(h, next, prev), prev, next)
      sls == IF next = block_null THEN h.sl_bitmap[fl] \ {sl} ELSE h.sl_bitmap[fl]
  IN IF h.blocks[fl, sl] # b THEN g
     ELSE [g EXCEPT !.blocks[fl, sl] = next,
                    !.sl_bitmap[fl] = sls,
                    !.fl_bitmap = IF sls = {} THEN @ \ {fl} ELSE @]

(* Mutant: the old head's prev_free is not set.                            *)
insert_free_blockNoBack(h, b, fl, sl) ==
  LET current == h.blocks[fl, sl]
      g == SetPrevFree(SetNextFree(h, b, current), b, block_null)
  IN [g EXCEPT !.blocks[fl, sl] = b,
               !.fl_bitmap = @ \cup {fl},
               !.sl_bitmap[fl] = @ \cup {sl}]

insert_free_block(h, b, fl, sl) ==
  LET current == h.blocks[fl, sl]
      g == SetPrevFree(SetPrevFree(SetNextFree(h, b, current), b, block_null), current, b)
  IN Assert_([g EXCEPT !.blocks[fl, sl] = b,
                       !.fl_bitmap = @ \cup {fl},
                       !.sl_bitmap[fl] = @ \cup {sl}],
             block_to_ptr(b) % ALIGN_SIZE = 0)

block_remove(h, b) ==
  LET m == mapping_insert(block_size(h, b)) IN remove_free_block(h, b, m[1], m[2])

block_insert(h, b) ==
  LET m == mapping_insert(block_size(h, b)) IN insert_free_block(h, b, m[1], m[2])

(* Mutant: only the request's own first-level range is searched.           *)
search_suitable_blockSameFl(h, fl, sl) ==
  LET here == {k \in h.sl_bitmap[fl] : k >= sl} IN
  IF here = {} THEN [b |-> block_null, fl |-> fl, sl |-> sl, ok |-> TRUE]
  ELSE [b |-> h.blocks[fl, tlsf_ffs(here)], fl |-> fl, sl |-> tlsf_ffs(here), ok |-> TRUE]

search_suitable_block(h, fl, sl) ==
  LET here == {k \in h.sl_bitmap[fl] : k >= sl}
      above == {k \in h.fl_bitmap : k > fl}
      at == IF here # {} THEN fl ELSE tlsf_ffs(above)
      sls == IF here # {} THEN here ELSE h.sl_bitmap[at]
  IN IF here = {} /\ above = {} THEN [b |-> block_null, fl |-> fl, sl |-> sl, ok |-> TRUE]
     ELSE IF sls = {} THEN [b |-> block_null, fl |-> at, sl |-> sl, ok |-> FALSE]
     ELSE [b |-> h.blocks[at, tlsf_ffs(sls)], fl |-> at, sl |-> tlsf_ffs(sls), ok |-> TRUE]

-----------------------------------------------------------------------------
(* Mutant: the remainder need not have room for a free block's links.      *)
block_can_splitNoMin(h, b, size) == block_size(h, b) >= block_start_offset + size

block_can_split(h, b, size) == block_size(h, b) >= sizeof_block_header + size

(* The second block is built over old data: its flag bits start as junk.   *)
block_split(h, b, size, junk) ==
  LET remaining == After(b, size)
      remain_size == block_size(h, b) - (size + block_header_overhead)
      new == [size |-> remain_size, free |-> junk, prev_free_bit |-> junk,
              prev_phys |-> Junk, next_free |-> Junk, prev_free |-> Junk]
      g == [h EXCEPT !.hdr = [a \in DOMAIN @ \cup {remaining} |->
                                IF a = remaining THEN new ELSE @[a]]]
  IN [b |-> remaining,
      h |-> Assert_(block_mark_as_free(
                      block_set_size(Wrote(g, {remaining + 8}), b, size), remaining),
                    /\ block_to_ptr(remaining) % ALIGN_SIZE = 0
                    /\ remain_size >= block_size_min)]

(* The absorbed header becomes part of the larger block's space.           *)
block_absorb(h, prev, b) ==
  LET g == block_set_size(h, prev, block_size(h, prev) + block_size(h, b)
                                     + block_header_overhead)
  IN Assert_(block_link_next([g EXCEPT !.hdr = [a \in DOMAIN @ \ {b} |-> @[a]]], prev),
             ~ block_is_last(h, prev))

block_merge_prev(h, b) ==
  IF ~ block_is_prev_free(h, b) THEN [h |-> h, b |-> b]
  ELSE LET prev == h.hdr[b].prev_phys
       IN IF prev \notin DOMAIN h.hdr THEN [b |-> b, h |-> Assert_(h, FALSE)]
          ELSE [b |-> prev,
                h |-> Assert_(block_absorb(block_remove(h, prev), prev, b),
                              block_is_free(h, prev))]

(* Mutant: the following block is never merged.                            *)
block_merge_nextNever(h, b) == h

block_merge_next(h, b) ==
  LET next == block_next(h, b) IN
  IF block_is_free(h, next)
    THEN block_absorb(block_remove(h, next), b, next)
    ELSE h

block_trim_free(h, b, size, junk) ==
  LET s == block_split(h, b, size, junk)
      g == block_insert(block_set_prev_free(block_link_next(s.h, b), s.b), s.b)
  IN Assert_(IF block_can_split(h, b, size) THEN g ELSE h, block_is_free(h, b))

block_trim_used(h, b, size, junk) ==
  LET s == block_split(h, b, size, junk)
      g == block_merge_next(block_set_prev_used(s.h, s.b), s.b)
  IN Assert_(IF block_can_split(h, b, size) THEN block_insert(g, s.b) ELSE h,
             ~ block_is_free(h, b))

block_trim_free_leading(h, b, size, junk) ==
  LET s == block_split(h, b, size - block_header_overhead, junk)
      g == block_link_next(block_set_prev_free(s.h, s.b), b)
  IN IF block_can_split(h, b, size) THEN [b |-> s.b, h |-> block_insert(g, b)]
     ELSE [b |-> b, h |-> h]

block_locate_free(h, size) ==
  LET m == mapping_search(size)
      s == search_suitable_block(h, m[1], m[2])
  IN IF size = 0 \/ m[1] >= FL_INDEX_COUNT THEN [h |-> h, b |-> block_null]
     ELSE IF s.b = block_null THEN [h |-> Assert_(h, s.ok), b |-> block_null]
     ELSE [b |-> s.b,
           h |-> Assert_(remove_free_block(h, s.b, s.fl, s.sl), block_size(h, s.b) >= size)]

(* The heap and the pointer that malloc and memalign return; 0 is NULL.    *)
block_prepare_used(h, b, size, junk) ==
  IF b = block_null THEN [h |-> h, p |-> 0]
  ELSE [h |-> block_mark_as_used(block_trim_free(h, b, size, junk), b),
        p |-> block_to_ptr(b)]

-----------------------------------------------------------------------------
control_construct ==
  [hdr |-> [b \in {} |-> 0], fl_bitmap |-> {},
   sl_bitmap |-> [fl \in 0 .. FL_INDEX_COUNT - 1 |-> {}],
   blocks |-> [i \in Lists |-> block_null],
   ok |-> TRUE, wrote |-> {}]

tlsf_pool_overhead == 2 * block_header_overhead

(* A pool that is misaligned, too small or too large is refused.           *)
tlsf_add_pool(h, mem, bytes) ==
  LET pool_bytes == align_down(bytes - tlsf_pool_overhead, ALIGN_SIZE)
      b == mem - block_header_overhead
      first == [size |-> pool_bytes, free |-> TRUE, prev_free_bit |-> FALSE,
                prev_phys |-> Junk, next_free |-> Junk, prev_free |-> Junk]
      sentinel == [first EXCEPT !.size = 0, !.free = FALSE, !.prev_free_bit = TRUE,
                                !.prev_phys = b]
      next == After(b, pool_bytes)
      g == [h EXCEPT !.hdr = [a \in DOMAIN @ \cup {b, next} |->
                                CASE a = b -> first
                                  [] a = next -> sentinel
                                  [] OTHER -> @[a]]]
  IN IF \/ mem % ALIGN_SIZE # 0
        \/ bytes < tlsf_pool_overhead + block_size_min
        \/ pool_bytes > block_size_max
       THEN h
       ELSE Wrote(block_insert(g, b), {b + 8, next, next + 8})

tlsf_create_with_pool(mem, bytes) == tlsf_add_pool(control_construct, mem, bytes)

(* Only a pool that is one free block again may be removed.                *)
tlsf_remove_pool(h, mem) ==
  LET b == mem - block_header_overhead
      next == block_next(h, b)
      g == block_remove(h, b)
  IN Assert_([g EXCEPT !.hdr = [a \in DOMAIN @ \ {b, next} |-> @[a]]],
             block_is_free(h, b) /\ ~ block_is_free(h, next) /\ block_is_last(h, next))

tlsf_malloc(h, size, junk) ==
  LET adjust == adjust_request_size(size, ALIGN_SIZE)
      l == block_locate_free(h, adjust)
  IN block_prepare_used(l.h, l.b, adjust, junk)

align_ptr(p, align) == align_up(p, align)

(* Mutant: a gap that is too small is widened without aligning again.      *)
GapOnlyWidened(p, align) ==
  LET gap == align_ptr(p, align) - p IN
  IF gap # 0 /\ gap < sizeof_block_header THEN sizeof_block_header ELSE gap

(* How far the aligned address lies from the block's data: nothing, or     *)
(* enough for a free block in front.                                       *)
Gap(p, align) ==
  LET gap == align_ptr(p, align) - p
      offset == Larger(sizeof_block_header - gap, align)
  IN IF gap # 0 /\ gap < sizeof_block_header
       THEN align_ptr(align_ptr(p, align) + offset, align) - p
       ELSE gap

tlsf_memalign(h, align, size, junk) ==
  LET adjust == adjust_request_size(size, ALIGN_SIZE)
      with_gap == adjust_request_size(adjust + align + sizeof_block_header, align)
      aligned_size == IF adjust # 0 /\ align > ALIGN_SIZE THEN with_gap ELSE adjust
      l == block_locate_free(h, aligned_size)
      gap == Gap(block_to_ptr(l.b), align)
      t == block_trim_free_leading(l.h, l.b, gap, junk)
  IN IF l.b = block_null \/ gap = 0 THEN block_prepare_used(l.h, l.b, adjust, junk)
     ELSE block_prepare_used(Assert_(t.h, gap >= sizeof_block_header), t.b, adjust, junk)

tlsf_free(h, p) ==
  LET b == block_from_ptr(p)
      m == block_merge_prev(block_mark_as_free(h, b), b)
  IN IF p = 0 THEN h
     ELSE Assert_(block_insert(block_merge_next(m.h, m.b), m.b), ~ block_is_free(h, b))

(* The words of n bytes at p.                                              *)
Words(p, n) == {a \in p .. p + n - 1 : a % ALIGN_SIZE = 0}

(* Mutants: a block that cannot be split is grown without taking the next  *)
(* one; the old block is freed before the data is copied.                  *)
tlsf_reallocNoGrow(h, p, size, junk) ==
  LET b == block_from_ptr(p)
      adjust == adjust_request_size(size, ALIGN_SIZE)
  IN IF size = 0 THEN [h |-> tlsf_free(h, p), p |-> 0, before |-> {}]
     ELSE [h |-> block_trim_used(h, b, adjust, junk), p |-> p, before |-> {}]

tlsf_reallocFreeFirst(h, p, size, junk) ==
  LET m == tlsf_malloc(tlsf_free(h, p), size, junk) IN
  [h |-> [m.h EXCEPT !.wrote = {}], p |-> m.p, before |-> m.h.wrote]

(* A block that moves is copied before the old one is freed; "before" is   *)
(* what has been written when the copy is complete.  (A NULL pointer makes *)
(* it malloc.)                                                             *)
tlsf_realloc(h, p, size, junk) ==
  LET b == block_from_ptr(p)
      next == block_next(h, b)
      cursize == block_size(h, b)
      combined == cursize + block_size(h, next) + block_header_overhead
      adjust == adjust_request_size(size, ALIGN_SIZE)
      m == tlsf_malloc(h, size, junk)
      grown == IF adjust > cursize THEN block_mark_as_used(block_merge_next(h, b), b) ELSE h
      copied == m.h.wrote \cup Words(m.p, Smaller(cursize, size))
  IN CASE size = 0 -> [h |-> tlsf_free(h, p), p |-> 0, before |-> {}]
       [] size # 0 /\ adjust > cursize /\ (~ block_is_free(h, next) \/ adjust > combined) ->
            IF m.p = 0 THEN [h |-> m.h, p |-> 0, before |-> {}]
            ELSE [h |-> tlsf_free([m.h EXCEPT !.wrote = {}], p), p |-> m.p, before |-> copied]
       [] OTHER -> [h |-> Assert_(block_trim_used(grown, b, adjust, junk),
                                  ~ block_is_free(h, b)), p |-> p, before |-> {}]
=============================================================================
