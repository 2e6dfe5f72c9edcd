-------------------------------- MODULE Heap --------------------------------
(***************************************************************************)
(* The small-memory heap of rt-thread/mem.c as operators on its state h:    *)
(* h.mem, the headers (struct heap_mem) by their offset from heap_ptr,      *)
(* h.lfree and h.used, the counter used_mem.  Offsets and sizes count in    *)
(* units of RT_ALIGN_SIZE.  Every call runs under heap_sem and is one step  *)
(* for its callers.  A header that is merged away is dropped.               *)
(***************************************************************************)
EXTENDS Naturals, FiniteSetsExt

CONSTANTS
  Header,  \* SIZEOF_STRUCT_MEM
  MinSize, \* MIN_SIZE_ALIGNED
  Size     \* mem_size_aligned

ASSUME HeapConstants ==
  /\ Header \in Nat \ {0}
  /\ Size \in Nat \ {0}
  /\ MinSize \in 0 .. Size

End == Size + Header \* heap_end

Block(used, next, prev) == [used |-> used, next |-> next, prev |-> prev]

\* What a header may say.
Headers == [used : BOOLEAN, next : 0 .. End, prev : 0 .. End]

Blocks(mem)     == DOMAIN mem \ {End}
UsedBlocks(mem) == {p \in Blocks(mem) : mem[p].used}
FreeBlocks(mem) == {p \in Blocks(mem) : ~mem[p].used}

\* The headers mem with another one at p.
WithBlock(mem, p, block) ==
  [q \in DOMAIN mem \union {p} |-> IF q = p THEN block ELSE mem[q]]

\* rt_system_heap_init
NewHeap ==
  [mem   |-> [p \in {0, End} |-> IF p = 0 THEN Block(FALSE, End, 0)
                                          ELSE Block(TRUE, End, End)],
   lfree |-> 0,
   used  |-> 0]

\* The bytes a block offers.
Room(h, p) == h.mem[p].next - (p + Header)

\* What is allocated for a request.
Rounded(size) == IF size < MinSize THEN MinSize ELSE size

-----------------------------------------------------------------------------
(* plug_holes *)

\* The free block at n is joined to the one at p in front of it.
Joined(h, p, n) ==
  LET after == h.mem[n].next IN
  [mem   |-> [q \in DOMAIN h.mem \ {n} |->
                Block(h.mem[q].used,
                      IF q = p THEN after ELSE h.mem[q].next,
                      IF q = after THEN p ELSE h.mem[q].prev)],
   lfree |-> IF h.lfree = n THEN p ELSE h.lfree,
   used  |-> h.used]

\* Mutant: the block in front is not looked at.
PlugHolesForward(h, p) ==
  LET n == h.mem[p].next
  IN  IF n # End /\ ~h.mem[n].used THEN Joined(h, p, n) ELSE h

\* The free block at p is joined to a free block behind it and before it.
PlugHoles(h, p) ==
  LET n  == h.mem[p].next
      h1 == IF n # End /\ ~h.mem[n].used THEN Joined(h, p, n) ELSE h
      b  == h1.mem[p].prev
  IN  IF b # p /\ ~h1.mem[b].used THEN Joined(h1, b, p) ELSE h1

-----------------------------------------------------------------------------
(* rt_malloc *)

\* The blocks, from lfree on, that the search accepts.
Fits(h, size) ==
  {p \in DOMAIN h.mem : /\ p >= h.lfree
                        /\ p + size < Size
                        /\ ~h.mem[p].used
                        /\ Room(h, p) >= size}

\* Part of the block at p becomes a free block of its own, at rest.
Split(mem, p, rest) ==
  LET next == mem[p].next IN
  [q \in DOMAIN mem \union {rest} |->
     IF q = rest THEN Block(FALSE, next, p)
     ELSE Block(mem[q].used,
                IF q = p THEN rest ELSE mem[q].next,
                IF q = next /\ q # End THEN rest ELSE mem[q].prev)]

\* Mutant: lfree stays on a block that was just taken.
LfreeKept(h) == h

\* lfree goes on to the first free block.
LfreeMoved(h) ==
  IF ~h.mem[h.lfree].used THEN h
  ELSE [mem   |-> h.mem,
        lfree |-> Min({p \in DOMAIN h.mem :
                         p >= h.lfree /\ (p = End \/ ~h.mem[p].used)}),
        used  |-> h.used]

\* The block at p is taken for size, the rest is cut off if it is of use.
Taken(h, p, size) ==
  LET mem == IF Room(h, p) >= size + Header + MinSize
             THEN Split(h.mem, p, p + Header + size) ELSE h.mem
  IN  LfreeMoved([mem   |-> WithBlock(mem, p, Block(TRUE, mem[p].next, mem[p].prev)),
                  lfree |-> h.lfree,
                  used  |-> h.used + (mem[p].next - p)])

MallocFails(h, size) == size > Size \/ Fits(h, Rounded(size)) = {}

\* The first fit, and the heap after it is taken.
MallocAt(h, size) == Min(Fits(h, Rounded(size)))
Malloc(h, size)   == Taken(h, MallocAt(h, size), Rounded(size))

-----------------------------------------------------------------------------
(* rt_free of the block at p *)
Free(h, p) ==
  LET next == h.mem[p].next IN
  PlugHoles([mem   |-> WithBlock(h.mem, p, Block(FALSE, next, h.mem[p].prev)),
             lfree |-> IF p < h.lfree THEN p ELSE h.lfree,
             used  |-> h.used - (next - p)], p)

-----------------------------------------------------------------------------
(* rt_realloc of the block at p, in place *)
Shrinks(h, p, size) == size + Header + MinSize < Room(h, p)

Shrunk(h, p, size) ==
  LET rest == p + Header + size IN
  PlugHoles([mem   |-> Split(h.mem, p, rest),
             lfree |-> IF rest < h.lfree THEN rest ELSE h.lfree,
             used  |-> h.used - (Room(h, p) - size)], rest)

-----------------------------------------------------------------------------
(* What the heap should be *)

\* The blocks cover the heap without gap or overlap and are linked both ways;
\* heap_end's prev is never read.
Linked(mem) ==
  /\ {0, End} \subseteq DOMAIN mem
  /\ mem[0].prev = 0
  /\ mem[End].used /\ mem[End].next = End
  /\ \A p \in Blocks(mem) :
       LET n == mem[p].next IN
       /\ n \in DOMAIN mem /\ n >= p + Header
       /\ \A q \in DOMAIN mem : q <= p \/ q >= n
       /\ n # End => mem[n].prev = p

\* Two free blocks never touch.
Apart(mem) == \A p \in FreeBlocks(mem) : mem[p].next \notin FreeBlocks(mem)

\* Where the blocks of S lie.
Covered(mem, S) == UNION {p .. mem[p].next - 1 : p \in S}

\* lfree is the first free block, used_mem what the used ones take.
Sound(h) ==
  /\ Linked(h.mem)
  /\ Apart(h.mem)
  /\ h.lfree = Min(FreeBlocks(h.mem) \union {End})
  /\ h.used = Cardinality(Covered(h.mem, UsedBlocks(h.mem)))
=============================================================================
