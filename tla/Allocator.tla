------------------------------ MODULE Allocator ------------------------------
(***************************************************************************)
(* mp2's malloc, calloc, realloc and free (alloc.c): blocks whose sizes    *)
(* are powers of two, in areas taken with sbrk.  A free joins a block with *)
(* its buddy, the other half of the block it was split from.               *)
(*                                                                         *)
(* Sizes and addresses are in units of a header (sizeof(mem_dic), 32       *)
(* bytes, which is also MIN_BLOCK_SIZE), and a list of free blocks is      *)
(* named by the size of its blocks, which stands for the order.  The       *)
(* memory is cells that hold a header or data: the calls read the header   *)
(* that is in the memory, whoever wrote there last.                        *)
(***************************************************************************)
EXTENDS Integers, FiniteSets, FiniteSetsExt, SequencesExt

CONSTANTS
  MinSbrk, MaxSbrk,   \* MIN_SBRK_SIZE and MAX_SBRK_SIZE
  MaxOrder,           \* MAX_BLOCK_ORDER, counted from MIN_BLOCK_ORDER
  MaxArrayLength,     \* MAX_ARRAY_LENGTH, the places of a list
  Missing,            \* what buddy_exist_not_occupied gives where it returns
                      \* nothing: "NULL", or the "buddy" it has looked at
  Requests,           \* the sizes the program asks for
  MaxHeap,            \* a bound on the memory that sbrk gives
  Zero, Junk, Written \* what a cell of data can be

order2size[k \in Nat] == IF k = 0 THEN 1 ELSE 2 * order2size[k - 1]

IsPowerOfTwo(n) == \E k \in 0 .. n : order2size[k] = n

\* The sizes that have a list.
BlockSizes == {order2size[k] : k \in 0 .. MaxOrder}

HeaderSize == 1   \* sizeof(mem_dic)

ASSUME OrderAssumption == MaxOrder \in Nat

\* The program asks for no more than a block can hold (MAX_BLOCK_ORDER: 32 GB).
ASSUME SizesAssumption ==
  /\ {MinSbrk, MaxSbrk} \subseteq BlockSizes /\ MinSbrk <= MaxSbrk
  /\ MaxArrayLength \in Nat \ {0, 1}
  /\ Requests \subseteq {n \in Nat : \E size \in BlockSizes : n + HeaderSize <= size}
  /\ MaxHeap \in Nat
  /\ Missing \in {"NULL", "buddy"}

\* What is in a cell: a header, or data.
HeaderRecord == [size : Nat, area_head : Nat, area_end : Nat, occupy : BOOLEAN]

Data == {Zero, Junk, Written}

Cell == Data \cup HeaderRecord

ASSUME DataAssumption == Data \cap HeaderRecord = {}

VARIABLES heap,   \* [mem, free_list, param_one_time_sbrk, exited, stray]; of a call that
                  \* has come to exit(0) what is left in the others means nothing; stray
                  \* records that free has joined what a missing return gave it
          sizes   \* what the program holds: the size it asked for, at each pointer

alloc_vars == <<heap, sizes>>

NoBlock == -1     \* a NULL address of a block
NULL    == 0      \* a NULL pointer of the program

\* The header that a read at address b finds.  Data is no header, nor is what lies
\* behind the heap: they stand for one whose size is no power of two.
Header(h, b) ==
  IF b \notin DOMAIN h.mem \/ h.mem[b] \in Data
    THEN [size |-> 0, area_head |-> 0, area_end |-> 0, occupy |-> FALSE]
    ELSE h.mem[b]

SizeOf(h, b) == Header(h, b).size

\* size2order ends the program on a size that is no power of two.
size2order(h, b) == IF IsPowerOfTwo(SizeOf(h, b)) THEN h ELSE [h EXCEPT !.exited = TRUE]

-----------------------------------------------------------------------------
(* The free lists.                                                         *)

free_list_delete(h, b, size) ==
  IF size \notin BlockSizes THEN h ELSE [h EXCEPT !.free_list[size] = @ \ {b}]

\* Slip: a list takes one block less than it has places.
free_list_add_one_less(h, b, size) ==
  IF size \notin BlockSizes \/ Cardinality(h.free_list[size]) >= MaxArrayLength - 1 THEN h
  ELSE [h EXCEPT !.free_list[size] = @ \cup {b}]

\* A full list drops the block.
free_list_add(h, b, size) ==
  IF size \notin BlockSizes \/ Cardinality(h.free_list[size]) >= MaxArrayLength THEN h
  ELSE [h EXCEPT !.free_list[size] = @ \cup {b}]

unlist(h, b) == free_list_delete(size2order(h, b), b, SizeOf(h, b))

list(h, b) == free_list_add(size2order(h, b), b, SizeOf(h, b))

\* The lowest address in the first list, from this size on, that is not empty.
block_available(h, size) ==
  LET fitting == {n \in BlockSizes : n >= size /\ h.free_list[n] # {}}
  IN  IF fitting = {} THEN NoBlock ELSE Min(h.free_list[Min(fitting)])

\* The block for n cells of data: the next power of two with the header.
find_new_alloc_size(n) == Min({size \in BlockSizes : size >= n + HeaderSize})

-----------------------------------------------------------------------------
(* Areas and blocks.                                                       *)

total_size(h) == Cardinality(DOMAIN h.mem)

Larger(a, b) == IF a > b THEN a ELSE b

Smaller(a, b) == IF a > b THEN b ELSE a

\* How much is asked of sbrk, and the parameter afterwards.
find_one_time_sbrk_size(h, request) ==
  LET p == h.param_one_time_sbrk
  IN  CASE request <= MinSbrk -> <<MinSbrk, p>>
        [] request > MinSbrk /\ request >= MaxSbrk -> <<request, p>>
        [] request > MinSbrk /\ request < MaxSbrk /\ request > p -> <<request, Smaller(p * 2, MaxSbrk)>>
        [] OTHER -> <<p, Larger(p \div 2, MinSbrk)>>

set_size(h, b, n) == [h EXCEPT !.mem[b].size = n]

set_occupy(h, b, o) == [h EXCEPT !.mem[b].occupy = o]

\* One turn of the loop of split_block: a block that is not small is halved, and
\* the half at the back is free.  The lists have the block if it is free.
halve(h, front, small) ==
  LET half  == SizeOf(h, front) \div 2
      taken == IF Header(h, front).occupy THEN h ELSE unlist(h, front)
      cut   == set_size(taken, front, half)
      f     == IF Header(cut, front).occupy THEN cut ELSE list(cut, front)
      g     == [f EXCEPT !.mem[front + half] = [f.mem[front] EXCEPT !.occupy = FALSE]]
  IN  IF SizeOf(h, front) <= small THEN h ELSE list(g, front + half)

\* The loop; each turn that halves makes the block smaller by an order.
split_block(h, front, small) ==
  LET after[k \in 0 .. MaxOrder] == IF k = 0 THEN h ELSE halve(after[k - 1], front, small)
  IN  after[MaxOrder]

\* sbrk gives an area of one free block; its cells are not defined.
allocate_new_space(h, size) ==
  LET one_time_alloc == find_one_time_sbrk_size(h, size)[1]
      b     == total_size(h)
      block == [size |-> one_time_alloc, area_head |-> b, area_end |-> b + one_time_alloc,
                occupy |-> FALSE]
      grown == [h EXCEPT
                  !.mem = [a \in 0 .. b + one_time_alloc - 1 |->
                             IF a < b THEN h.mem[a] ELSE IF a = b THEN block ELSE Junk],
                  !.param_one_time_sbrk = find_one_time_sbrk_size(h, size)[2]]
  IN  [h |-> split_block(list(grown, b), b, size), block |-> b]

buddy_address(h, b) ==
  LET head  == Header(h, b).area_head
      size  == SizeOf(h, b)
      buddy == IF ((b - head) \div size) % 2 = 1 THEN b - size ELSE b + size
  IN  IF buddy < head \/ buddy >= Header(h, b).area_end THEN NoBlock ELSE buddy

\* Slip: a buddy of the same size is taken although it is occupied.
buddy_exist_not_occupied_any(h, b) ==
  LET buddy == buddy_address(h, b)
  IN  IF buddy # NoBlock /\ SizeOf(h, buddy) = SizeOf(h, b) THEN Smaller(buddy, b) ELSE NoBlock

\* The code has no return for a buddy of another size or one that is occupied.
no_return(h, b) ==
  LET buddy == buddy_address(h, b)
  IN  buddy # NoBlock /\ (SizeOf(h, buddy) # SizeOf(h, b) \/ Header(h, buddy).occupy)

\* The address of the joined block.
buddy_exist_not_occupied(h, b) ==
  LET buddy == buddy_address(h, b)
  IN  CASE buddy = NoBlock -> NoBlock
        [] no_return(h, b) -> IF Missing = "NULL" THEN NoBlock ELSE buddy
        [] OTHER -> Smaller(buddy, b)

\* One turn of the loop of free, which has come to a block: the block and its
\* buddy leave their lists, and one of twice the size is listed.
join_turn(at) ==
  LET merge  == buddy_exist_not_occupied(at.h, at.block)
      from   == IF no_return(at.h, at.block) THEN [at.h EXCEPT !.stray = TRUE] ELSE at.h
      alone  == unlist(unlist(from, at.block), buddy_address(at.h, at.block))
      joined == set_occupy(set_size(alone, merge, 2 * SizeOf(alone, merge)), merge, FALSE)
  IN  IF at.h.exited \/ merge = NoBlock THEN at
      ELSE IF alone.exited THEN [h |-> alone, block |-> at.block]
      ELSE [h |-> list(joined, merge), block |-> merge]

\* Slip: a block is joined with its buddy once.
join_once(h, b) == join_turn([h |-> h, block |-> b]).h

\* The loop; each turn that joins makes the block larger by an order.
join(h, b) ==
  LET after[k \in 0 .. MaxOrder] ==
        IF k = 0 THEN [h |-> h, block |-> b] ELSE join_turn(after[k - 1])
  IN  after[MaxOrder].h

-----------------------------------------------------------------------------
(* The calls: the heap they leave, and the pointer they return.            *)

malloc(h, n) ==
  LET size  == find_new_alloc_size(n)
      found == block_available(h, size)
      got   == IF found = NoBlock THEN allocate_new_space(h, size)
               ELSE [h |-> split_block(h, found, size), block |-> found]
  IN  IF n = 0 THEN [h |-> h, ptr |-> NULL]
      ELSE IF found # NoBlock /\ SizeOf(got.h, got.block) # size THEN [h |-> got.h, ptr |-> NULL]
      ELSE [h   |-> unlist(set_occupy(got.h, got.block, TRUE), got.block),
            ptr |-> got.block + HeaderSize]

free(h, ptr) ==
  LET b == ptr - HeaderSize
  IN  IF ptr = NULL THEN h
      ELSE IF h.mem[b] \in Data THEN [h EXCEPT !.exited = TRUE]
      ELSE join(list(set_occupy(h, b, FALSE), b), b)

\* Memory from one place to another.
memcpy(h, to, from, n) ==
  [h EXCEPT !.mem = [a \in DOMAIN @ |-> IF a \in to .. to + n - 1 THEN @[a - to + from] ELSE @[a]]]

\* The data at ptr, n cells, becomes d.
memset(h, ptr, n, d) ==
  [h EXCEPT !.mem = [a \in DOMAIN @ |-> IF a \in ptr .. ptr + n - 1 THEN d ELSE @[a]]]

calloc(h, n) ==
  LET got == malloc(h, n)
  IN  IF got.ptr = NULL THEN got ELSE [got EXCEPT !.h = memset(@, got.ptr, n, Zero)]

\* Within the block, or by a copy of all that was in it.
realloc(h, ptr, n) ==
  LET old  == SizeOf(h, ptr - HeaderSize)
      new  == malloc(h, n)
      copy == memcpy(new.h, new.ptr, ptr, old - HeaderSize)
  IN  IF ptr = NULL THEN malloc(h, n)
      ELSE IF n = 0 THEN [h |-> free(h, ptr), ptr |-> NULL]
      ELSE IF old >= find_new_alloc_size(n) THEN [h |-> h, ptr |-> ptr]
      ELSE IF new.ptr = NULL THEN [h |-> [new.h EXCEPT !.exited = TRUE], ptr |-> NULL]
      ELSE [h |-> free(copy, ptr), ptr |-> new.ptr]

-----------------------------------------------------------------------------
(* The program: it calls, and fills what it holds.                         *)

Held == DOMAIN sizes

AllocInit == /\ heap = [mem |-> <<>>, free_list |-> [n \in BlockSizes |-> {}],
                        param_one_time_sbrk |-> MinSbrk, exited |-> FALSE, stray |-> FALSE]
             /\ sizes = <<>>

\* The bound: sbrk gives what the call asks for.
Room(n) == LET size == find_new_alloc_size(n)
           IN  n = 0 \/ block_available(heap, size) # NoBlock
               \/ total_size(heap) + find_one_time_sbrk_size(heap, size)[1] <= MaxHeap

LetGo(p) == [q \in Held \ {p} |-> sizes[q]]

\* The call has returned ptr, and p is no longer held.  What is new in the
\* memory at ptr, from cell first + 1 on, is filled before the next call.
Gets(call, p, n, first) ==
  LET others == LetGo(p)
  IN  IF call.ptr = NULL THEN heap' = call.h /\ sizes' = others
      ELSE /\ heap' = memset(call.h, call.ptr + first, n - first, Written)
           /\ sizes' = [q \in DOMAIN others \cup {call.ptr} |->
                          IF q = call.ptr THEN n ELSE others[q]]

Malloc == \E n \in Requests : /\ ~ heap.exited /\ Room(n)
                              /\ Gets(malloc(heap, n), NULL, n, 0)

Calloc == \E n \in Requests : /\ ~ heap.exited /\ Room(n)
                              /\ Gets(calloc(heap, n), NULL, n, n)

Old(p) == IF p = NULL THEN 0 ELSE sizes[p]

\* The data of a block that is freed is not looked at again.
Free == \E p \in Held \cup {NULL} : /\ ~ heap.exited
                                    /\ heap' = free(memset(heap, p, Old(p), Junk), p)
                                    /\ sizes' = LetGo(p)

Realloc == \E p \in Held \cup {NULL}, n \in Requests :
             /\ ~ heap.exited /\ Room(n)
             /\ Gets(realloc(heap, p, n), p, n, Smaller(n, Old(p)))

AllocNext == Malloc \/ Calloc \/ Free \/ Realloc

AllocSpec == AllocInit /\ [][AllocNext]_alloc_vars

-----------------------------------------------------------------------------
(* What holds.                                                             *)

AllocTypeOK ==
  /\ heap \in [mem                 : [0 .. total_size(heap) - 1 -> Cell],
               free_list           : [BlockSizes -> SUBSET Nat],
               param_one_time_sbrk : {n \in BlockSizes : MinSbrk <= n /\ n <= MaxSbrk},
               exited              : {FALSE},
               stray               : {FALSE}]
  /\ sizes \in [Held -> Nat]

Extent(h, b) == b .. b + SizeOf(h, b) - 1

\* These lie side by side from one end of the heap to the other.
Tiles(blocks, h) ==
  /\ \A a \in DOMAIN h.mem : \E b \in blocks : a \in Extent(h, b)
  /\ \A b \in blocks : SizeOf(h, b) # 0 /\ b + SizeOf(h, b) <= total_size(h)
  /\ \A b, c \in blocks : b < c => b + SizeOf(h, b) <= c

\* What one comes to who walks over the heap by the sizes in the headers.
Blocks(h) ==
  LET from[b \in 0 .. total_size(h)] ==
        IF SizeOf(h, b) = 0 \/ b + SizeOf(h, b) > total_size(h) THEN {}
        ELSE {b} \cup from[b + SizeOf(h, b)]
  IN  from[0]

FreeBlocks(h) == {b \in Blocks(h) : ~ h.mem[b].occupy}

\* The heap is blocks, and no data is written over a header.
Tiled == LET blocks == Blocks(heap) IN Tiles(blocks, heap)

\* An area begins with a block, and the blocks in it say that they are; each lies
\* at a multiple of its size.
InArea(b, blocks, h) ==
  LET head == h.mem[b].area_head
      end  == h.mem[b].area_end
  IN  /\ SizeOf(h, b) \in BlockSizes /\ end - head \in BlockSizes
      /\ head \in blocks /\ head <= b /\ b + SizeOf(h, b) <= end /\ end <= total_size(h)
      /\ (b - head) % SizeOf(h, b) = 0
      /\ \A c \in blocks :
           head <= c /\ c < end => h.mem[c].area_head = head /\ h.mem[c].area_end = end

InAreas == LET blocks == Blocks(heap) IN \A b \in blocks : InArea(b, blocks, heap)

\* The program holds the occupied blocks, and what it asked for fits.
HeldOccupied ==
  /\ Held = {b + HeaderSize : b \in Blocks(heap) \ FreeBlocks(heap)}
  /\ \A p \in Held : sizes[p] <= SizeOf(heap, p - HeaderSize) - HeaderSize

\* A list has free blocks of its size only, and no more than it has places for.
ListsFree ==
  LET free_blocks == FreeBlocks(heap)
  IN  \A n \in BlockSizes :
        /\ heap.free_list[n] \subseteq {b \in free_blocks : SizeOf(heap, b) = n}
        /\ Cardinality(heap.free_list[n]) <= MaxArrayLength

\* Between calls no two free blocks are the halves of one: a free joins all that
\* can be joined, also over blocks that a full list has dropped.
Coalesced ==
  LET free_blocks == FreeBlocks(heap)
  IN  \A b \in free_blocks :
        LET buddy == buddy_address(heap, b)
        IN  buddy \in free_blocks => SizeOf(heap, buddy) # SizeOf(heap, b)

\* The headers in the memory, the lists and what the program holds agree, and
\* free memory is joined, after any calls (alloc.c:139-208, 351-435, 493-600).
AllocInv == AllocTypeOK /\ Tiled /\ InAreas /\ HeldOccupied /\ ListsFree /\ Coalesced

Unlisted(h) == {b \in FreeBlocks(h) : b \notin h.free_list[SizeOf(h, b)]}

\* At most one block is lost, by a free that finds the list of the joined block full.
FullLoses ==
  LET lost == Unlisted(heap)
      now  == Unlisted(heap')
  IN  \A b \in now :
        \/ b \in lost /\ SizeOf(heap, b) = SizeOf(heap', b)
        \/ /\ now \ {b} \subseteq lost
           /\ Cardinality(heap'.free_list[SizeOf(heap', b)]) = MaxArrayLength

\* A free block that no list has cannot be given out: blocks are lost only so
\* (alloc.c:177-181, 576-597).
LostWhenFull == [][FullLoses]_alloc_vars

\* What each pointer leads to.
Content == [p \in Held |-> [i \in 1 .. sizes[p] |-> heap.mem[p + i - 1]]]

H == INSTANCE Heap WITH live <- Content

\* To the program the calls are those of a heap: memory in use has one holder,
\* only the holder changes it, and realloc keeps the data (alloc.c:437-687).
HeapSpec == H!Spec

\* The program "stores data in the returned memory, ensures that the data is not
\* overridden by future malloc() calls" (doc/malloc.html:230): what is held stays
\* as it is while there are other calls (alloc.c:424-435, 493-600).
DataKept == [][\A p \in Held \cap DOMAIN sizes' :
                 sizes'[p] = sizes[p] /\ ~ heap'.exited => Content'[p] = Content[p]]_alloc_vars
=============================================================================
