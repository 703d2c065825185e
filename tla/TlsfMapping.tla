---------------------------- MODULE TlsfMapping ----------------------------
(***************************************************************************)
(* The arithmetic of the kernel heap, src/mm/heapalloc/tlsf.c: how a       *)
(* request is rounded to a block size, and which of the two-level free     *)
(* lists a size belongs to.  Sizes are in bytes.                           *)
(***************************************************************************)
EXTENDS Integers

CONSTANTS
  SL_INDEX_COUNT_LOG2,  \* 5 in the kernel
  FL_INDEX_MAX,         \* 32 in the kernel
  SIZE_BITS             \* the width of size_t, 64 in the kernel

ALIGN_SIZE_LOG2  == 3
ALIGN_SIZE       == 8
SL_INDEX_COUNT   == 2 ^ SL_INDEX_COUNT_LOG2
FL_INDEX_SHIFT   == SL_INDEX_COUNT_LOG2 + ALIGN_SIZE_LOG2
FL_INDEX_COUNT   == FL_INDEX_MAX - FL_INDEX_SHIFT + 1
SMALL_BLOCK_SIZE == 2 ^ FL_INDEX_SHIFT

block_header_overhead == 8    \* the size word
block_start_offset    == 16   \* prev_phys_block and the size word
sizeof_block_header   == 32
block_size_min        == 24
block_size_max        == 2 ^ FL_INDEX_MAX

ASSUME MappingAssumption ==
  /\ SL_INDEX_COUNT_LOG2 \in Nat \ {0}
  /\ FL_INDEX_MAX \in Nat /\ FL_INDEX_MAX > FL_INDEX_SHIFT
  /\ SIZE_BITS \in Nat /\ SIZE_BITS > FL_INDEX_MAX

Larger(a, b)  == IF a > b THEN a ELSE b
Smaller(a, b) == IF a < b THEN a ELSE b

(* The index of the highest set bit of a nonzero word.                     *)
tlsf_fls(x) == CHOOSE k \in 0 .. SIZE_BITS : 2 ^ k <= x /\ x < 2 ^ (k + 1)

(* The lowest set bit of a bitmap, which is the set of its set bits.       *)
tlsf_ffs(bits) == CHOOSE k \in bits : \A m \in bits : k <= m

(* align is a power of two; the addition wraps at the width of size_t.     *)
align_up(x, align)   == LET y == (x + align - 1) % 2 ^ SIZE_BITS IN y - (y % align)
align_down(x, align) == x - (x % align)

(* Mutant: a request of the maximum block size is let through.             *)
adjust_request_sizeInclusive(size, align) ==
  LET aligned == align_up(size, align) IN
  IF size # 0 /\ aligned <= block_size_max
    THEN Larger(aligned, block_size_min)
    ELSE 0

(* 0 when the request is empty or too large for any block.                 *)
adjust_request_size(size, align) ==
  LET aligned == align_up(size, align) IN
  IF size # 0 /\ aligned < block_size_max
    THEN Larger(aligned, block_size_min)
    ELSE 0

(* <<fl, sl>>: the list that holds free blocks of this size.               *)
mapping_insert(size) ==
  IF size < SMALL_BLOCK_SIZE
    THEN <<0, size \div (SMALL_BLOCK_SIZE \div SL_INDEX_COUNT)>>
    ELSE LET fl == tlsf_fls(size) IN
         << fl - (FL_INDEX_SHIFT - 1),
            size \div 2 ^ (fl - SL_INDEX_COUNT_LOG2) - SL_INDEX_COUNT >>

(* Mutants: no rounding; rounding to the next class even when exact.       *)
mapping_searchNoRound(size) == mapping_insert(size)

mapping_searchTooFar(size) ==
  IF size >= SMALL_BLOCK_SIZE
    THEN mapping_insert(size + 2 ^ (tlsf_fls(size) - SL_INDEX_COUNT_LOG2))
    ELSE mapping_insert(size)

(* The first list in which every block is large enough for the request.    *)
mapping_search(size) ==
  IF size >= SMALL_BLOCK_SIZE
    THEN mapping_insert(size + 2 ^ (tlsf_fls(size) - SL_INDEX_COUNT_LOG2) - 1)
    ELSE mapping_insert(size)

(* The order in which search_suitable_block looks at lists.                *)
Before(i, j) == i[1] < j[1] \/ (i[1] = j[1] /\ i[2] < j[2])

(* The sizes of blocks.                                                    *)
BlockSizes == {s \in block_size_min .. block_size_max - 1 : s % ALIGN_SIZE = 0}
=============================================================================
